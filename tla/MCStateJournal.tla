--------------------------- MODULE MCStateJournal ---------------------------
(* Instances of StateJournal for TLC. *)
EXTENDS StateJournal, FiniteSets

CONSTANTS v1, e1, r1

OneContent == {v1}
MCEvents == {e1}
None == {}
MCRuntime == {r1}

\* Listings in which prepared comes before the terminal markers, and no other
\* order is fixed.
PreparedFirst == {<<"prepared", "committed">>, <<"prepared", "rolled-back">>}

\* Listings sorted by name, as NTFS returns them.
ByName == LET names == <<"append-only-compaction-backup", "backup", "committed",
                         "manifest.json", "prepared", "primary-backup", "rolled-back">>
          IN {<<names[p[1]], names[p[2]]>> : p \in {q \in (1..7) \X (1..7) : q[1] < q[2]}}

\* A transaction prepares at most two of the three workspaces.
TwoWorkspaces ==
    pc' = "wsBackup" => Cardinality({s \in Slots : manifest.primary[s] # "no"}) <= 1
MCSpec == Init /\ [][Next /\ TwoWorkspaces]_vars
MCFairSpec == MCSpec /\ Fairness
=============================================================================
