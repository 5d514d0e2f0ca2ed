----------------------------- MODULE AtomicState -----------------------------
(***************************************************************************)
(* What the crash journal promises (RFC-0010, section 2): after a command   *)
(* or a recovery, an operation is either entirely absent from the state     *)
(* directory or entirely present in it.  The durable state changes in one   *)
(* step, when a transaction commits; everything else, crashes and           *)
(* recoveries included, leaves it alone.                                    *)
(***************************************************************************)
CONSTANTS Paths, Values, Absent, Permanent

VARIABLES
    durable,   \* the state every later lock holder will find
    staged,    \* the working state of the open transaction
    open       \* whether a transaction is open

States == [Paths -> Values]

\* A record that is never removed keeps its first content.
Grows(from, to) == \A p \in Permanent : from[p] # Absent => to[p] = from[p]

Init == durable \in States /\ staged = durable /\ open = FALSE

Begin == ~open /\ open' = TRUE /\ UNCHANGED <<durable, staged>>

Stage == /\ open
         /\ staged' \in States /\ Grows(staged, staged')
         /\ UNCHANGED <<durable, open>>

Commit == open /\ open' = FALSE /\ durable' = staged /\ UNCHANGED staged

Discard == open /\ open' = FALSE /\ staged' = durable /\ UNCHANGED durable

Next == Begin \/ Stage \/ Commit \/ Discard

vars == <<durable, staged, open>>
Spec == Init /\ [][Next]_vars
=============================================================================
