--------------------------- MODULE MCMailboxStore ---------------------------
(* Instances of MailboxStore for TLC. *)
EXTENDS MailboxStore

CONSTANTS m1, m2, i1, i2, small, large

TwoMailboxes == {m1, m2}
TwoItems == {i1, i2}
BothSizes == {small, large}
MCSize == [e \in {small, large} |-> IF e = small THEN 1 ELSE 2]

OneTtl == {2}

(* At most two deletes are between their two transactions.  One mailbox gets a second item
   after its first one was deleted, at the beginning and with small items only: then the third
   tombstone does not fit. *)
TwoInFlight == Cardinality(deletes') <= 2
Second == <<m1, i2>>
ThreeKeys ==
    /\ items'[<<m2, i2>>] = None
    /\ items'[Second] \notin {None, items[Second]} => clock = 0 /\ tombstones[<<m1, i1>>] # None
    /\ items'[Second] # None \/ tombstones'[Second] # None
         => /\ Cardinality(deletes') <= 1
            /\ \A k \in Keys : items'[k] # None => items'[k].envelope = small
MCSpec == Init /\ [][Next /\ TwoInFlight /\ ThreeKeys]_vars
MCFairSpec == MCSpec /\ Fairness
=============================================================================
