------------------------- MODULE MCMailboxDelivery --------------------------
(* Instances of MailboxDelivery for TLC. *)
EXTENDS MailboxDelivery

Everywhere == {"dispatched", "put", "poll", "listed", "ingested", "prepared", "unprepared",
               "delete", "redelete"}

\* The behaviours that are explored: two texts without the passage of time; a text that is
\* dispatched at time 1, where the store's time may already be behind, with one fault while
\* the dispatch is in force; a text that is dispatched at time 0, whose expiry is reached,
\* without a fault.  What this leaves out are steps of the environment, which no fairness
\* assumption is about.
Explored ==
    \/ clock' = 0
    \/ /\ \A t \in Texts \ {1} : dispatch'[t] = None
       /\ \/ dispatch'[1] \in {None, Ttl + 1}
             /\ faults' <= 1 /\ (faults' # faults => clock + Lag < Ttl + 1)
          \/ dispatch'[1] = Ttl /\ faults' = 0

MCSpec == Init /\ [][Next /\ Explored]_vars
MCFairSpec == MCSpec /\ Fairness
=============================================================================
