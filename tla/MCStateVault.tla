---------------------------- MODULE MCStateVault ----------------------------
(* Instances of StateVault for TLC. *)
EXTENDS StateVault

CONSTANTS c1, c2, e1, e2, id1, id2

TwoContents == {c1, c2}
TwoEvents == {e1, e2}
MCIdentity == {id1, id2}

AllFaults == {"crash", "io", "rollback"}
FailingRollback == {"rollback"}

\* What keeps the instance small: a vault that exists is migrated again before its first
\* change only, and of ratchet and trust one keeps its first content.
Selected ==
    /\ acquire_migrate => generation < 2
    /\ \A s \in {"ratchet", "trust"}, c \in Contents :
          stage(s, c) => \E other \in {"ratchet", "trust"} : legacy'[other] = c1

\* The contents are interchangeable, so the device may start with the first of them.
MCSpec == Init /\ legacy["other"] = c1 /\ [][Next /\ Selected]_vars
MCFairSpec == MCSpec /\ Fairness
=============================================================================
