------------------------ MODULE MCMailboxReplication ------------------------
(* Instances of MailboxReplication for TLC. *)
EXTENDS MailboxReplication, TLC

CONSTANTS text, note, ack, s1, s2, s3, p1, p2, p3

AckOfNote == note :> ack
TextFirst == text :> 1 @@ ack :> 2
AllDifferent == s1 :> p1 @@ s2 :> p2 @@ s3 :> p3
(* Either the text is sent, or the peer's text arrives: at one volunteer while its
   acknowledgement can be sent, at any number of them after that. *)
OneAtATime == Init /\ expired \in {{text}, {text, ack}, {note, ack}}
OneCopyAcknowledged ==
    ack \in expired' \/ Cardinality({c \in held' \cup gone' : c[1] = note}) <= 1

(* One volunteer moves, when no acknowledgement is sent; the peer reads at one; a
   capability is retired between two turns; an acknowledgement is sent with its locator. *)
Explored ==
    /\ \A s \in Stores : transport'[s] # transport[s] => s = s2 /\ ack \in expired
    /\ \A c \in gone' \ gone : c[1] \in Outbound => c[2] = s1
    /\ unbound' # unbound => task = Idle
    /\ text \in expired => located = located'
MCSpec == OneAtATime /\ [][Next /\ OneCopyAcknowledged /\ Explored]_vars
MCFairSpec == MCSpec /\ Fairness
=============================================================================
