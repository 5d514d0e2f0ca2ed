-------------------------- MODULE StateVaultProofs --------------------------
(***************************************************************************)
(* What the state vault keeps whatever crashes, I/O errors and roll backs   *)
(* that fail half way there are: the device secrets, the events whose       *)
(* storage was reported, the numbers of the stored events; and that the     *)
(* vault, the crash journal and the recoveries implement the atomic state.  *)
(***************************************************************************)
EXTENDS StateVault, TLAPS, FiniteSetTheorems

\* The tables are functions of their paths.
Tables == /\ DOMAIN legacy = Paths /\ DOMAIN db = Paths /\ DOMAIN undo = Journaled
          /\ schema \in {"none", "indexed", "current"}

\* The steps that a device without a snapshot can be at: a command without the guard, a
\* migration, and the guard over the files of a migration that was interrupted.
Bare == {"down", "live", "txn", "rollback", "primary", "cleanup",
         "migrate", "prepare_shadow", "prepare_mirror", "retire"}

\* Without a snapshot there is no intent; a transaction is confirmed after its journal is gone.
Phases ==
    /\ schema = "none" => /\ pc \in Bare
                          /\ generation = 0 /\ mirror = NoIntent /\ shadow = NoIntent
    /\ schema # "none" => created = "database"
    /\ pc = "confirm" => journal = "none"

\* A secret is in its file until the vault's format says that the files are retired, and in
\* the vault as soon as there is one.
Secrets == \A p \in Identity : /\ schema # "current" => legacy[p] = Key
                               /\ schema # "none" => db[p] = Key

\* An event that was reported is everywhere: in its file, in the vault, and in what a pending
\* journal would put back.
Reported == \A e \in Events : acknowledged[e] # Absent =>
    /\ legacy[e] = acknowledged[e]
    /\ schema # "none" => db[e] = acknowledged[e]
    /\ journal = "prepared" => undo[e] = acknowledged[e]

Inv == Tables /\ Phases /\ Secrets /\ Reported

\* How the kinds of paths lie in each other.
LEMMA PathFacts ==
  /\ Events \subseteq Journaled /\ Mutable \subseteq Journaled /\ Journaled \subseteq Data
  /\ Data \subseteq Paths /\ Identity \subseteq Paths
  /\ "other" \in Data /\ "other" \notin Journaled
  /\ Identity \cap Data = {} /\ Events \cap Mutable = {}
  /\ "sequence" \in Mutable /\ "ratchet" \in Mutable /\ "trust" \in Mutable
  BY PathsAssumption, Zenon DEF Paths, Data, Journaled, Mutable

\* Init: the files are those of a device that was never migrated, or equal to its vault.
LEMMA InitInv == Init => Inv
  <1> USE Zenon
  <1> SUFFICES ASSUME Init PROVE Inv
    OBVIOUS
  <1>1. Tables
    BY DEF Init, Tables
  <1>2. Phases
    BY DEF Init, Phases, Bare, NoIntent
  <1>3. Secrets
    BY PathFacts, PathsAssumption DEF Init, Secrets
  <1>4. Reported
    BY DEF Init, Reported
  <1> QED
    BY <1>1, <1>2, <1>3, <1>4 DEF Inv

\* A step that writes no record of the files, the vault or the history, and does not enter a
\* phase it may not be in.
LEMMA QuietInv ==
  ASSUME Inv, UNCHANGED <<legacy, undo, journal, schema, db, acknowledged>>,
         schema = "none" => UNCHANGED <<generation, mirror, shadow>>,
         schema = "none" => pc' \in Bare,
         schema # "none" => created' = created,
         pc' # "confirm" \/ pc' = pc
  PROVE  Inv'
  <1> USE Zenon
  <1>1. Tables' /\ Secrets' /\ Reported'
    BY DEF Inv, Tables, Secrets, Reported
  <1>2. Phases'
    BY DEF Inv, Phases
  <1> QED
    BY <1>1, <1>2 DEF Inv

\* A step that changes one retained file which is neither a secret nor a reported event.
LEMMA FileInv ==
  ASSUME Inv, NEW p \in Paths, NEW v, legacy' = [legacy EXCEPT ![p] = v],
         p \in Identity => schema = "current",
         p \in Events => acknowledged[p] = Absent,
         UNCHANGED <<undo, journal, vault, pc, acknowledged>>
  PROVE  Inv'
  <1> USE Zenon
  <1>1. UNCHANGED <<created, schema, db, generation, mirror, shadow>>
    BY DEF vault
  <1>2. Tables' /\ Phases'
    BY <1>1 DEF Inv, Tables, Phases
  <1>3. \A q \in Paths : q # p => legacy'[q] = legacy[q]
    BY DEF Inv, Tables
  <1>4. Secrets'
    BY <1>1, <1>3, PathFacts DEF Inv, Secrets
  <1>5. Reported'
    BY <1>1, <1>3, PathFacts DEF Inv, Reported
  <1> QED
    BY <1>2, <1>4, <1>5 DEF Inv

\* StateDirectoryLock::acquire settles the journal.
LEMMA LockInv ==
  ASSUME Inv, NEW step \in {"live", "prepare_shadow", "migrate"}, Lock(step)
  PROVE  Inv'
  <1> USE Zenon
  <1>1. /\ legacy' = [p \in Paths |-> IF p \in Data THEN Settled[p] ELSE legacy[p]]
        /\ journal' = "none"
        /\ UNCHANGED <<undo, created, schema, db, generation, mirror, shadow, acknowledged>>
        /\ pc' = step
    BY DEF Lock, Goto, history, vault
  <1>2. Tables' /\ Phases'
    BY <1>1 DEF Inv, Tables, Phases, Bare
  <1>3. Secrets'
    BY <1>1, PathFacts DEF Inv, Secrets
  <1>4. Reported'
    BY <1>1, PathFacts DEF Inv, Reported, Settled
  <1> QED
    BY <1>2, <1>3, <1>4 DEF Inv

\* The steps of the lock and of the guard, VaultDualWriteGuard::prepare and finish.
LEMMA PrepareInv == ASSUME Inv, Prepare PROVE Inv'
  <1> USE Zenon
  <1>1. CASE acquire
    BY <1>1, LockInv DEF acquire
  <1>2. CASE recover_primary_shadow \/ skip_dual_write \/ retire_device_identity_shadow
             \/ begin_dual_write
    <2>1. /\ UNCHANGED <<legacy, undo, journal, created, schema, db, acknowledged>>
          /\ pc' # "confirm"
      BY <1>2 DEF recover_primary_shadow, skip_dual_write, retire_device_identity_shadow,
                  begin_dual_write, NothingToMirror, AfterShadow, Goto, history, vault, files
    <2>2. schema = "none" => UNCHANGED <<generation, mirror, shadow>> /\ pc' \in Bare
      BY <1>2 DEF recover_primary_shadow, skip_dual_write, retire_device_identity_shadow,
                  begin_dual_write, AfterShadow, Goto, vault, Inv, Phases, Bare
    <2> QED
      BY <2>1, <2>2, QuietInv
  <1>3. CASE finish_dual_write
    <2>1. /\ legacy' = WithoutIdentity /\ db' = RetainedRecords /\ schema' = "current"
          /\ UNCHANGED <<undo, journal, created, acknowledged>> /\ pc' # "confirm"
      BY <1>3 DEF finish_dual_write, AfterMirror, Goto, history
    <2>2. schema # "none"
      BY <1>3 DEF finish_dual_write, MirrorAccepted, Inv, Phases
    <2>3. Tables' /\ Phases'
      BY <2>1, <2>2 DEF Inv, Tables, Phases, WithoutIdentity, RetainedRecords
    <2>4. Secrets'
      BY <2>1, <2>2, PathFacts DEF Inv, Tables, Secrets, RetainedRecords
    <2>5. Reported'
      BY <2>1, <2>2, PathFacts DEF Inv, Reported, WithoutIdentity, RetainedRecords
    <2> QED
      BY <2>3, <2>4, <2>5, SMT DEF Inv
  <1>4. CASE commit_retirement
    <2>1. /\ schema = "indexed" /\ schema' = "current"
          /\ UNCHANGED <<legacy, undo, journal, created, db, acknowledged, pc>>
      BY <1>4 DEF commit_retirement, files, history
    <2> QED
      BY <2>1 DEF Inv, Tables, Phases, Secrets, Reported
  <1>5. ASSUME NEW p \in Paths, restore_legacy_record(p) PROVE Inv'
    <2>1. /\ legacy[p] # db[p] /\ \E v : legacy' = [legacy EXCEPT ![p] = v]
          /\ UNCHANGED <<undo, journal, vault, pc, acknowledged>>
      BY <1>5 DEF restore_legacy_record, history
    <2>2. schema # "none"
      BY <1>5 DEF restore_legacy_record, Inv, Phases
    <2>3. /\ p \in Identity => schema = "current"
          /\ p \in Events => acknowledged[p] = Absent
      BY <2>1, <2>2 DEF Inv, Tables, Secrets, Reported
    <2> QED
      BY <2>1, <2>3, FileInv
  <1>6. ASSUME NEW p \in Identity, remove_identity_file(p) PROVE Inv'
    <2>1. /\ schema = "current" /\ legacy' = [legacy EXCEPT ![p] = Absent]
          /\ UNCHANGED <<undo, journal, vault, pc, acknowledged>>
      BY <1>6 DEF remove_identity_file, history
    <2>2. p \in Paths /\ p \notin Events
      BY PathFacts
    <2> QED
      BY <2>1, <2>2, FileInv
  <1> QED
    BY <1>1, <1>2, <1>3, <1>4, <1>5, <1>6 DEF Prepare

\* The steps of a transaction.
LEMMA TransactionInv == ASSUME Inv, Transaction PROVE Inv'
  <1> USE Zenon
  <1>1. ASSUME NEW s \in Mutable, prepare_workspace(s) PROVE Inv'
    <2>1. UNCHANGED <<journal, created, schema, db, generation, mirror, shadow, pc, acknowledged>>
      BY <1>1 DEF prepare_workspace, vault, history
    <2>2. \/ UNCHANGED <<legacy, undo>>
          \/ /\ legacy' = [legacy EXCEPT ![s] = db[s]]
             /\ undo' = [undo EXCEPT ![s] = db[s]]
      BY <1>1 DEF prepare_workspace
    <2>3. Tables' /\ Phases'
      BY <2>1, <2>2 DEF Inv, Tables, Phases
    <2>4. /\ \A q \in Paths : q # s => legacy'[q] = legacy[q]
          /\ \A q \in Journaled : q # s => undo'[q] = undo[q]
      BY <2>2 DEF Inv, Tables
    <2>5. Secrets'
      BY <2>1, <2>4, PathFacts DEF Inv, Secrets
    <2>6. Reported'
      BY <2>1, <2>4, PathFacts DEF Inv, Reported
    <2> QED
      BY <2>3, <2>5, <2>6 DEF Inv
  <1>2. ASSUME NEW s \in {"ratchet", "trust"}, NEW c \in Contents, stage(s, c) PROVE Inv'
    <2>1. /\ legacy' = [legacy EXCEPT ![s] = c]
          /\ UNCHANGED <<undo, journal, vault, pc, acknowledged>>
      BY <1>2 DEF stage, history
    <2>2. s \in Paths /\ s \notin Identity /\ s \notin Events
      BY PathFacts
    <2> QED
      BY <2>1, <2>2, FileInv
  <1>3. ASSUME NEW e \in Events, stage_event(e) PROVE Inv'
    <2>1. /\ legacy[e] = Absent
          /\ legacy' = [legacy EXCEPT ![e] = legacy["sequence"],
                                      !["sequence"] = legacy["sequence"] + 1]
          /\ UNCHANGED <<undo, journal, created, schema, db, generation, mirror, shadow, pc,
                         acknowledged>>
      BY <1>3, PathFacts DEF stage_event, vault, history, Inv, Tables
    <2>2. Tables' /\ Phases'
      BY <2>1 DEF Inv, Tables, Phases
    <2>3. \A q \in Paths : q \notin {e, "sequence"} => legacy'[q] = legacy[q]
      BY <2>1 DEF Inv, Tables
    <2>4. Secrets'
      BY <2>1, <2>3, PathFacts DEF Inv, Secrets
    <2>5. Reported'
      BY <2>1, <2>3, PathFacts DEF Inv, Reported
    <2> QED
      BY <2>2, <2>4, <2>5 DEF Inv
  <1>4. CASE commit_primary_transaction
    <2>1. /\ UNCHANGED <<legacy, undo, journal, created, schema, acknowledged>>
          /\ pc' = "primary"
          /\ schema = "none" => UNCHANGED <<db, generation, mirror, shadow>>
          /\ schema # "none"
               => db' = [p \in Paths |-> IF p \in staged_mutations THEN legacy[p] ELSE db[p]]
      BY <1>4 DEF commit_primary_transaction, Goto, vault, files, history
    <2>2. Tables' /\ Phases'
      BY <2>1 DEF Inv, Tables, Phases, Bare
    <2>3. \A p \in Identity : p \notin staged_mutations
      BY PathFacts DEF staged_mutations
    <2>4. Secrets'
      BY <2>1, <2>3, PathFacts DEF Inv, Secrets
    <2>5. Reported'
      BY <2>1, PathFacts DEF Inv, Reported
    <2> QED
      BY <2>2, <2>4, <2>5, SMT DEF Inv
  <1>5. CASE operation_error
    BY <1>5, QuietInv DEF operation_error, Goto, files, vault, history, Bare
  <1> QED
    BY <1>1, <1>2, <1>3, <1>4, <1>5 DEF Transaction

\* The steps that end a transaction, and the checks that refuse to go on.
LEMMA SettleInv == ASSUME Inv, Settle PROVE Inv'
  <1> USE Zenon
  <1>1. CASE rollback
    <2>1. /\ legacy' = [p \in Paths |-> IF p \in Data THEN Settled[p] ELSE legacy[p]]
          /\ journal' = "none" /\ pc' = "live"
          /\ UNCHANGED <<undo, created, schema, db, generation, mirror, shadow, acknowledged>>
      BY <1>1 DEF rollback, Goto, history, vault
    <2>2. Tables' /\ Phases'
      BY <2>1 DEF Inv, Tables, Phases, Bare
    <2>3. Secrets'
      BY <2>1, PathFacts DEF Inv, Secrets
    <2>4. Reported'
      BY <2>1, PathFacts DEF Inv, Reported, Settled
    <2> QED
      BY <2>2, <2>3, <2>4, SMT DEF Inv
  <1>2. CASE commit
    BY <1>2 DEF commit, Goto, vault, history, Inv, Tables, Phases, Bare, Secrets, Reported
  <1>3. CASE clean_committed
    <2>1. /\ journal' = "none"
          /\ UNCHANGED <<legacy, undo, created, schema, db, generation, mirror, shadow>>
          /\ \/ schema = "none" /\ pc' = "live" /\ acknowledged' = [e \in Events |-> legacy[e]]
             \/ schema # "none" /\ UNCHANGED acknowledged
      BY <1>3 DEF clean_committed, Acknowledge, Goto, vault, history
    <2>2. Tables' /\ Phases' /\ Secrets'
      BY <2>1 DEF Inv, Tables, Phases, Bare, Secrets
    <2>3. Reported'
      BY <2>1 DEF Inv, Reported
    <2> QED
      BY <2>2, <2>3 DEF Inv
  <1>4. CASE confirm_primary_shadow
    <2>1. /\ pc = "confirm" /\ pc' = "live" /\ acknowledged' = [e \in Events |-> legacy[e]]
          /\ UNCHANGED <<legacy, undo, journal, created, schema, db, generation, mirror>>
          /\ \A p \in Compared : legacy[p] = db[p]
      BY <1>4 DEF confirm_primary_shadow, Verified, Acknowledge, files
    <2>2. schema # "none" /\ journal = "none"
      BY <2>1 DEF Inv, Phases, Bare
    <2>3. Events \subseteq Compared
      BY PathFacts DEF Compared
    <2>4. Tables' /\ Phases' /\ Secrets'
      BY <2>1, <2>2 DEF Inv, Tables, Phases, Secrets
    <2>5. Reported'
      BY <2>1, <2>2, <2>3 DEF Inv, Reported
    <2> QED
      BY <2>4, <2>5, SMT DEF Inv
  <1>5. CASE refuse
    <2>1. /\ UNCHANGED <<legacy, undo, journal, created, schema, db, generation, mirror, shadow,
                         acknowledged>>
          /\ pc' \in {"live", "rollback", "down"}
      BY <1>5 DEF refuse, AfterError, Goto, files, vault, history
    <2> QED
      BY <2>1, QuietInv DEF Bare
  <1> QED
    BY <1>1, <1>2, <1>3, <1>4, <1>5 DEF Settle

\* The steps of a migration: two files, then the snapshot.
LEMMA MigrateInv == ASSUME Inv, Migrate PROVE Inv'
  <1> USE Zenon
  <1>1. CASE load_or_create_master_key \/ create_database
    <2>1. /\ UNCHANGED <<legacy, undo, journal, schema, db, generation, mirror, shadow,
                         acknowledged, pc>>
          /\ created # "database"
      BY <1>1 DEF load_or_create_master_key, create_database, files, history
    <2> QED
      BY <2>1 DEF Inv, Tables, Phases, Secrets, Reported
  <1>2. CASE migrate_legacy_snapshot /\ schema = "none"
    <2>1. /\ created' = "database" /\ schema' = "current" /\ db' = legacy
          /\ pc' = "migrate_retire" /\ UNCHANGED <<legacy, undo, journal, acknowledged>>
      BY <1>2 DEF migrate_legacy_snapshot, Goto, files, history
    <2>2. Tables' /\ Phases' /\ Secrets'
      BY <1>2, <2>1 DEF Inv, Tables, Phases, Secrets
    <2>3. Reported'
      BY <2>1 DEF Inv, Reported
    <2> QED
      BY <2>2, <2>3, SMT DEF Inv
  <1>3. CASE migrate_legacy_snapshot /\ schema # "none"
    BY <1>3, QuietInv DEF migrate_legacy_snapshot, Goto, files, history
  <1> QED
    BY <1>1, <1>2, <1>3 DEF Migrate

\* Every step, the faults included.
LEMMA StepInv == ASSUME Inv, [Next]_vars PROVE Inv'
  <1> USE Zenon
  <1>1. CASE begin
    <2>1. /\ journal' = "prepared" /\ undo' = [p \in Journaled |-> legacy[p]] /\ pc' = "txn"
          /\ UNCHANGED <<legacy, created, schema, db, generation, mirror, shadow, acknowledged>>
      BY <1>1 DEF begin, Goto, vault, history
    <2>2. Tables' /\ Phases' /\ Secrets'
      BY <2>1 DEF Inv, Tables, Phases, Bare, Secrets
    <2>3. Reported'
      BY <2>1, PathFacts DEF Inv, Reported
    <2> QED
      BY <2>2, <2>3 DEF Inv
  <1>2. CASE end_command \/ io_error \/ crash
    <2>1. /\ UNCHANGED <<legacy, undo, journal, created, schema, db, generation, mirror, shadow,
                         acknowledged>>
          /\ pc' \in {"live", "rollback", "down"} \/ (schema # "none" /\ pc' = "finish_shadow")
      BY <1>2
      DEF end_command, io_error, crash, Fault, AfterError, Goto, files, vault, history
    <2> QED
      BY <2>1, QuietInv DEF Bare
  <1>3. CASE acquire_migrate
    BY <1>3, LockInv DEF acquire_migrate
  <1>4. ASSUME NEW c \in Contents, direct_write(c) PROVE Inv'
    <2>1. /\ legacy' = [legacy EXCEPT !["other"] = c]
          /\ UNCHANGED <<undo, journal, vault, pc, acknowledged>>
      BY <1>4 DEF direct_write, history
    <2>2. "other" \in Paths /\ "other" \notin Identity /\ "other" \notin Events
      BY PathFacts
    <2> QED
      BY <2>1, <2>2, FileInv
  <1>5. CASE rollback_error
    <2>1. PICK done \in {{}, {"ratchet"}, {"ratchet", "sequence"}, Mutable} :
            legacy' = [p \in Paths |-> IF p \in done THEN undo[p] ELSE legacy[p]]
      BY <1>5 DEF rollback_error
    <2>2. /\ UNCHANGED <<undo, journal, created, schema, db, generation, mirror, shadow,
                         acknowledged>>
          /\ pc' = "live"
      BY <1>5 DEF rollback_error, Fault, vault
    <2>3. done \subseteq Mutable
      BY DEF Mutable
    <2>4. Tables' /\ Phases'
      BY <2>1, <2>2 DEF Inv, Tables, Phases, Bare
    <2>5. Secrets'
      BY <2>1, <2>2, <2>3, PathFacts DEF Inv, Secrets
    <2>6. Reported'
      BY <2>1, <2>2, <2>3, PathFacts DEF Inv, Reported
    <2> QED
      BY <2>4, <2>5, <2>6 DEF Inv
  <1>6. CASE UNCHANGED vars
    BY <1>6 DEF vars, files, vault, history, Inv, Tables, Phases, Secrets, Reported
  <1> QED
    BY <1>1, <1>2, <1>3, <1>4, <1>5, <1>6, PrepareInv, TransactionInv, SettleInv, MigrateInv
    DEF Next

\* What every behaviour keeps, whatever faults it has.
LEMMA Invariant == Spec => []Inv
  <1>1. Init => Inv
    BY InitInv, Zenon
  <1>2. Inv /\ [Next]_vars => Inv'
    BY StepInv, Zenon
  <1> QED
    BY <1>1, <1>2, PTL DEF Spec

\* retire_device_identity_shadow and the guard around it: whatever crashes, errors and failing
\* roll backs there are, a device secret is in its file or in the vault.
THEOREM IdentityIsNeverLost == Spec => []IdentityNeverLost
  <1>1. Inv => IdentityNeverLost
    BY Zenon DEF Inv, Tables, Secrets, IdentityNeverLost
  <1> QED
    BY <1>1, Invariant, PTL

\* run_state_transaction: an event that was reported as stored is in every state a later
\* command can find, with its sequence number, whatever faults follow.
THEOREM AcknowledgedStaysDurable == Spec => []AcknowledgedIsDurable
  <1>1. Inv => AcknowledgedIsDurable
    BY PathFacts, Zenon DEF Inv, Phases, Reported, AcknowledgedIsDurable, Durable, Settled
  <1> QED
    BY <1>1, Invariant, PTL
-----------------------------------------------------------------------------
(* Which copy of a record agrees with the vault at which step.             *)

\* The steps at which the retained files of the journal's state agree with the vault.  After a
\* roll back that failed they need not: the journal is still prepared, and the mirror that
\* follows copies the files into the vault.
Agreeing == \/ /\ pc \in {"live", "finish_shadow", "finish_mirror"}
               /\ journal # "prepared" \/ shadow # NoIntent
            \/ pc \in {"begin", "primary", "cleanup", "confirm"}
            \/ /\ pc \in {"prepare_shadow", "prepare_mirror"}
               /\ shadow = NoIntent /\ mirror # NoIntent
Agreement == schema # "none" /\ Agreeing => \A p \in Journaled : legacy[p] = db[p]

\* Where a command has not been mirrored yet and no primary commit waits for its files, the
\* journal's recovery gives what the vault holds.
Recovery == schema # "none" /\ shadow = NoIntent /\ mirror # NoIntent
                => \A p \in Journaled : Settled[p] = db[p]

\* What the journal says at each step, and what it would put back; a transaction behind a
\* pending shadow stages nothing.
Journaling ==
    /\ pc \in {"prepare_shadow", "prepare_mirror", "retire", "begin", "migrate"}
          => journal = "none"
    /\ pc \in {"txn", "rollback", "primary"} => journal = "prepared"
    /\ pc = "cleanup" => journal = "committed"
    /\ pc = "txn" => begun = undo["sequence"]
    /\ pc = "txn" /\ "sequence" \notin workspaces => legacy["sequence"] = undo["sequence"]
    /\ pc \in {"txn", "rollback"} /\ schema # "none" => \A p \in Journaled : undo[p] = db[p]
    /\ pc \in {"txn", "rollback"} /\ shadow # NoIntent
          => workspaces = {} /\ \A p \in Journaled : legacy[p] = undo[p]

\* The intents: a command runs under a mirror intent bound to the active snapshot, and files
\* outside the journal differ from the vault under an intent only.
Intents ==
    /\ schema # "none" => generation > 0
    /\ schema # "none" /\ pc \in {"live", "txn", "rollback", "primary", "cleanup", "confirm",
                                  "finish_shadow", "finish_mirror"} => mirror = generation
    /\ schema # "none" /\ mirror = NoIntent => legacy["other"] = db["other"]
    /\ pc \in {"prepare_mirror", "finish_mirror"} => shadow = NoIntent

Copies == TypeOK /\ Agreement /\ Recovery /\ Journaling /\ Intents

\* While an event is missing there is a number left for it.
Room == \A e \in Events : legacy[e] = Absent => /\ legacy["sequence"] \in Numbers
                                                /\ legacy["sequence"] + 1 \in Numbers

\* A vault record and a retained file as the steps use them.
LEMMA Copied == ASSUME TypeOK PROVE
  /\ \A p \in Paths : legacy[p] \in Values /\ db[p] \in Values
  /\ \A p \in Journaled : undo[p] \in Values
  /\ Absent \in Values
  BY Zenon DEF TypeOK, Values

\* The moves that write no file and no vault record: errors, refusals, crashes and the ends
\* of the guard's phases.
Moves ==
    /\ UNCHANGED <<files, vault, acknowledged>> /\ faults' \in 0..MaxFaults
    /\ \/ pc' = "down"
       \/ pc = "prepare_mirror" /\ pc' = "retire"
       \/ pc = "retire" /\ pc' = "begin" /\ \A p \in Journaled : legacy[p] = db[p]
       \/ pc = "migrate" /\ pc' = "migrate_retire"
       \/ pc = "live" /\ pc' = "finish_shadow"
       \/ pc = "txn" /\ pc' = "rollback"
       \/ pc \in {"primary", "cleanup", "confirm"} /\ pc' = "live"

\* Which steps are such moves.
LEMMA MovesFacts ==
  ASSUME TypeOK, \/ skip_dual_write \/ retire_device_identity_shadow \/ operation_error
                 \/ end_command \/ refuse \/ io_error \/ crash
                 \/ migrate_legacy_snapshot /\ schema # "none"
  PROVE  Moves
  <1> USE Zenon
  <1>1. UNCHANGED <<files, vault, acknowledged>>
    BY DEF skip_dual_write, retire_device_identity_shadow, operation_error, end_command, refuse,
           io_error, crash, migrate_legacy_snapshot, Goto, Fault, history, vault
  <1>2. faults' \in 0..MaxFaults
    BY BoundsAssumption, SMT
       DEF TypeOK, skip_dual_write, retire_device_identity_shadow, operation_error, end_command,
           refuse, io_error, crash, migrate_legacy_snapshot, Goto, Fault, history
  <1>3. CASE skip_dual_write \/ operation_error \/ end_command \/ crash
             \/ (migrate_legacy_snapshot /\ schema # "none")
    BY <1>1, <1>2, <1>3 DEF Moves, skip_dual_write, NothingToMirror, operation_error,
       end_command, crash, migrate_legacy_snapshot, Goto
  <1>4. CASE refuse
    <2>1. pc' = AfterError /\ pc # "txn"
      BY <1>4 DEF refuse, Refused, NothingToMirror, Goto
    <2> QED
      BY <1>1, <1>2, <2>1 DEF Moves, AfterError
  <1>5. CASE io_error
    BY <1>1, <1>2, <1>5 DEF Moves, io_error, AfterError
  <1>6. CASE retire_device_identity_shadow
    <2>1. \A p \in Journaled : legacy[p] = db[p]
      BY <1>6, PathFacts DEF retire_device_identity_shadow, Verified, Compared
    <2> QED
      BY <1>1, <1>2, <1>6, <2>1 DEF Moves, retire_device_identity_shadow, Goto
  <1> QED
    BY <1>3, <1>4, <1>5, <1>6

\* A move leaves the copies as they are and enters no step that asks for more.
LEMMA MovesCopies == ASSUME Inv, Copies, Moves PROVE Copies'
  <1> USE Zenon
  <1>1. UNCHANGED <<legacy, undo, begun, workspaces, journal, created, schema, db, generation,
                    mirror, shadow, acknowledged>>
    BY DEF Moves, files, vault
  <1>2. TypeOK'
    BY <1>1 DEF Copies, TypeOK, Moves, Pcs
  <1>3. Agreement'
    BY <1>1 DEF Inv, Phases, Copies, Agreement, Agreeing, Moves
  <1>4. Recovery'
    BY <1>1 DEF Copies, Recovery, Settled
  <1>5. Journaling'
    BY <1>1 DEF Copies, Journaling, Moves
  <1>6. Intents'
    BY <1>1 DEF Copies, Intents, Moves
  <1> QED
    BY <1>2, <1>3, <1>4, <1>5, <1>6 DEF Copies

\* StateDirectoryLock::acquire and StateTransaction::rollback put the journal's state back.
LEMMA RestoreCopies == ASSUME Inv, Copies, acquire \/ acquire_migrate \/ rollback PROVE Copies'
  <1> USE Zenon
  <1>1. /\ legacy' = [p \in Paths |-> IF p \in Data THEN Settled[p] ELSE legacy[p]]
        /\ journal' = "none"
        /\ UNCHANGED <<undo, begun, workspaces, created, schema, db, generation, mirror, shadow,
                       acknowledged, faults>>
    BY DEF acquire, acquire_migrate, Lock, rollback, Goto, history, vault
  <1>2. \/ pc = "rollback" /\ pc' = "live"
        \/ pc = "down" /\ schema = "none" /\ pc' = "live"
        \/ pc = "down" /\ pc' \in {"prepare_shadow", "migrate"}
    BY DEF acquire, acquire_migrate, Lock, rollback, Goto, Inv, Phases
  <1>3. \A p \in Data : legacy'[p] = Settled[p] /\ Settled'[p] = Settled[p]
    BY <1>1, PathFacts DEF Settled
  <1>4. TypeOK'
    <2>1. legacy' \in [Paths -> Values]
      BY <1>1, Copied, PathFacts DEF Copies, Settled
    <2> QED
      BY <1>1, <1>2, <2>1 DEF Copies, TypeOK, Pcs
  <1>5. Recovery'
    BY <1>1, <1>3, PathFacts DEF Copies, Recovery
  <1>6. Agreement'
    <2>1. CASE pc = "rollback"
      <3>1. schema # "none" => \A p \in Journaled : Settled[p] = db[p]
        BY <2>1, PathFacts DEF Copies, Journaling, Settled
      <3> QED
        BY <1>1, <1>3, <3>1, PathFacts DEF Agreement
    <2>2. CASE pc = "down"
      BY <1>1, <1>2, <1>3, <2>2, PathFacts DEF Copies, Recovery, Agreement, Agreeing
    <2> QED
      BY <1>2, <2>1, <2>2
  <1>7. Journaling'
    BY <1>1, <1>2 DEF Journaling
  <1>8. Intents'
    BY <1>1, <1>2, <1>3, PathFacts DEF Copies, Intents, Settled
  <1> QED
    BY <1>4, <1>5, <1>6, <1>7, <1>8 DEF Copies

\* begin, commit and the end of the journal.
LEMMA JournalCopies == ASSUME Inv, Copies, begin \/ commit \/ clean_committed PROVE Copies'
  <1> USE Zenon
  <1>1. UNCHANGED <<legacy, created, schema, db, generation, mirror, shadow>>
    BY DEF begin, commit, clean_committed, vault
  <1>2. CASE begin
    <2>1. /\ pc = "live" /\ pc' = "txn" /\ journal = "none" /\ journal' = "prepared"
          /\ undo' = [p \in Journaled |-> legacy[p]] /\ begun' = legacy["sequence"]
          /\ workspaces' = {} /\ UNCHANGED <<acknowledged, faults>>
      BY <1>2 DEF begin, Goto, history
    <2>2. TypeOK'
      BY <1>1, <2>1, Copied, PathFacts DEF Copies, TypeOK, Pcs
    <2>3. schema # "none" => \A p \in Journaled : undo'[p] = db[p]
      BY <2>1 DEF Copies, Agreement, Agreeing
    <2>4. Recovery'
      BY <1>1, <2>1, <2>3, PathFacts DEF Recovery, Settled
    <2>5. Agreement' /\ Intents'
      BY <1>1, <2>1 DEF Copies, Agreement, Agreeing, Intents
    <2>6. Journaling'
      BY <1>1, <2>1, <2>3, PathFacts DEF Journaling
    <2> QED
      BY <2>2, <2>4, <2>5, <2>6 DEF Copies
  <1>3. CASE commit \/ clean_committed
    <2>1. /\ UNCHANGED <<undo, begun, workspaces>>
          /\ \/ pc = "primary" /\ pc' = "cleanup" /\ journal' = "committed"
                /\ UNCHANGED acknowledged
             \/ /\ pc = "cleanup" /\ journal' = "none"
                /\ pc' = (IF schema = "none" THEN "live" ELSE "confirm")
                /\ UNCHANGED acknowledged \/ acknowledged' = [e \in Events |-> legacy[e]]
          /\ UNCHANGED faults
      BY <1>3 DEF commit, clean_committed, Acknowledge, Goto, history
    <2>2. TypeOK'
      <3>1. acknowledged' \in [Events -> Values]
        BY <2>1, Copied, PathFacts DEF Copies, TypeOK
      <3> QED
        BY <1>1, <2>1, <3>1 DEF Copies, TypeOK, Pcs
    <2>3. schema # "none" => \A p \in Journaled : legacy[p] = db[p]
      BY <2>1 DEF Copies, Agreement, Agreeing
    <2>4. Recovery'
      BY <1>1, <2>1, <2>3, PathFacts DEF Recovery, Settled
    <2>5. Agreement'
      BY <1>1, <2>3 DEF Agreement
    <2>6. Journaling' /\ Intents'
      BY <1>1, <2>1 DEF Copies, Journaling, Intents
    <2> QED
      BY <2>2, <2>4, <2>5, <2>6 DEF Copies
  <1> QED
    BY <1>2, <1>3

\* The steps that set or clear an intent and write no record.
LEMMA IntentCopies ==
  ASSUME Inv, Copies, recover_primary_shadow \/ begin_dual_write \/ confirm_primary_shadow
  PROVE  Copies'
  <1> USE Zenon
  <1>1. UNCHANGED <<legacy, undo, begun, workspaces, journal, created, schema, db, generation,
                    faults>>
    BY DEF recover_primary_shadow, begin_dual_write, confirm_primary_shadow, files, Acknowledge,
           Goto, history
  <1>3. CASE recover_primary_shadow
    <2>1. /\ \/ pc = "prepare_shadow" /\ pc' = "prepare_mirror"
             \/ pc = "finish_shadow" /\ pc' = "finish_mirror"
          /\ shadow' = NoIntent /\ UNCHANGED <<mirror, acknowledged>>
      BY <1>3 DEF recover_primary_shadow, AfterShadow, Goto, history
    <2>2. CASE shadow = NoIntent
      <3>1. Agreement' /\ Recovery'
        BY <1>1, <2>1, <2>2 DEF Copies, Agreement, Agreeing, Recovery, Settled
      <3> QED
        BY <1>1, <2>1, <2>2, <3>1 DEF Copies, TypeOK, Pcs, Journaling, Intents
    <2>3. CASE ShadowRestorable /\ Verified
      <3>1. \A p \in Journaled : legacy[p] = db[p] /\ Settled[p] = db[p]
        BY <2>3, PathFacts DEF ShadowRestorable, Verified, Compared, Settled
      <3>2. TypeOK'
        BY <1>1, <2>1, SMT DEF Copies, TypeOK, Pcs, NoIntent
      <3>3. Agreement' /\ Recovery'
        BY <1>1, <3>1 DEF Agreement, Recovery, Settled
      <3>4. Journaling' /\ Intents'
        BY <1>1, <2>1 DEF Copies, Journaling, Intents
      <3> QED
        BY <3>2, <3>3, <3>4 DEF Copies
    <2> QED
      BY <1>3, <2>2, <2>3 DEF recover_primary_shadow
  <1>4. CASE begin_dual_write
    <2>1. /\ pc = "begin" /\ pc' = "live" /\ mirror' = generation /\ shadow = NoIntent
          /\ UNCHANGED <<shadow, acknowledged>>
      BY <1>4 DEF begin_dual_write, Goto, history
    <2>2. schema # "none" /\ journal = "none"
      BY <2>1 DEF Inv, Phases, Bare, Copies, Journaling
    <2>3. TypeOK'
      BY <1>1, <2>1, SMT DEF Copies, TypeOK, Pcs
    <2>4. \A p \in Journaled : legacy[p] = db[p] /\ Settled[p] = db[p]
      BY <2>1, <2>2, PathFacts DEF Copies, Agreement, Agreeing, Settled
    <2>5. Agreement' /\ Recovery'
      BY <1>1, <2>4 DEF Agreement, Recovery, Settled
    <2>6. Journaling'
      BY <1>1, <2>1 DEF Journaling
    <2>7. Intents'
      BY <1>1, <2>1, <2>2, SMT DEF Copies, TypeOK, Intents, NoIntent
    <2> QED
      BY <2>3, <2>5, <2>6, <2>7 DEF Copies
  <1>5. CASE confirm_primary_shadow
    <2>1. /\ pc = "confirm" /\ pc' = "live" /\ shadow' = NoIntent /\ UNCHANGED mirror
          /\ acknowledged' = [e \in Events |-> legacy[e]] /\ journal = "none"
      BY <1>5 DEF confirm_primary_shadow, Acknowledge, Inv, Phases
    <2>2. schema # "none"
      BY <2>1 DEF Inv, Phases, Bare
    <2>3. \A p \in Journaled : legacy[p] = db[p] /\ Settled[p] = db[p]
      BY <2>1, <2>2, PathFacts DEF Copies, Agreement, Agreeing, Settled
    <2>4. TypeOK'
      BY <1>1, <2>1, Copied, PathFacts, SMT DEF Copies, TypeOK, Pcs, NoIntent
    <2>5. Agreement'
      BY <1>1, <2>3 DEF Agreement
    <2>6. Recovery'
      BY <1>1, <2>3 DEF Recovery, Settled
    <2>7. Journaling' /\ Intents'
      BY <1>1, <2>1 DEF Copies, Journaling, Intents
    <2> QED
      BY <2>4, <2>5, <2>6, <2>7, SMT DEF Copies
  <1> QED
    BY <1>3, <1>4, <1>5

\* A step that changes one retained file which the journal does not cover, or which a pending
\* primary shadow is about to restore.
LEMMA FileCopies ==
  ASSUME Copies, NEW p \in Paths, NEW v \in Values, legacy' = [legacy EXCEPT ![p] = v],
         p \in Journaled => pc = "prepare_shadow" /\ shadow # NoIntent,
         p = "other" => schema = "none" \/ mirror # NoIntent,
         UNCHANGED <<undo, begun, workspaces, journal, vault, pc, history>>
  PROVE  Copies'
  <1> USE Zenon
  <1>1. UNCHANGED <<undo, begun, workspaces, journal, created, schema, db, generation, mirror,
                    shadow, pc, acknowledged, faults>>
    BY DEF vault, history
  <1>2. TypeOK'
    BY <1>1 DEF Copies, TypeOK
  <1>3. \A q \in Paths : q # p => legacy'[q] = legacy[q]
    BY DEF Copies, TypeOK
  <1>4. Agreement'
    BY <1>1, <1>3, PathFacts DEF Copies, Agreement, Agreeing
  <1>5. Recovery'
    BY <1>1, <1>3, PathFacts DEF Copies, Recovery, Settled
  <1>6. Journaling'
    BY <1>1, <1>3, PathFacts DEF Copies, Journaling
  <1>7. Intents'
    BY <1>1, <1>3, PathFacts DEF Copies, Intents
  <1> QED
    BY <1>2, <1>4, <1>5, <1>6, <1>7 DEF Copies

\* The steps that rewrite one retained file outside a transaction.
LEMMA FilesCopies ==
  ASSUME Inv, Copies, \/ \E p \in Paths : restore_legacy_record(p)
                      \/ \E p \in Identity : remove_identity_file(p)
                      \/ \E c \in Contents : direct_write(c)
  PROVE  Copies'
  <1> USE Zenon
  <1>1. ASSUME NEW p \in Paths, restore_legacy_record(p) PROVE Copies'
    <2>1. PICK v \in {Absent, db[p]} : legacy' = [legacy EXCEPT ![p] = v]
      BY <1>1 DEF restore_legacy_record
    <2>2. /\ pc \in {"prepare_shadow", "finish_shadow"} /\ shadow # NoIntent
          /\ mirror = generation /\ legacy[p] # db[p]
          /\ UNCHANGED <<undo, begun, workspaces, journal, vault, pc, history>>
      BY <1>1 DEF restore_legacy_record, ShadowRestorable
    <2>3. schema # "none" /\ mirror # NoIntent
      BY <2>2, SMT DEF Inv, Phases, Copies, TypeOK, Intents, NoIntent
    <2>4. p \in Journaled => pc = "prepare_shadow"
      BY <2>2, <2>3 DEF Copies, Agreement, Agreeing
    <2>5. v \in Values
      BY <2>1, Copied DEF Copies
    <2> QED
      BY <2>1, <2>2, <2>3, <2>4, <2>5, FileCopies
  <1>2. ASSUME NEW p \in Identity, remove_identity_file(p) PROVE Copies'
    <2>1. /\ legacy' = [legacy EXCEPT ![p] = Absent]
          /\ UNCHANGED <<undo, begun, workspaces, journal, vault, pc, history>>
      BY <1>2 DEF remove_identity_file
    <2>2. p \in Paths /\ p \notin Journaled /\ p # "other" /\ Absent \in Values
      BY PathFacts DEF Values
    <2> QED
      BY <2>1, <2>2, FileCopies
  <1>3. ASSUME NEW c \in Contents, direct_write(c) PROVE Copies'
    <2>1. /\ legacy' = [legacy EXCEPT !["other"] = c] /\ pc = "live"
          /\ UNCHANGED <<undo, begun, workspaces, journal, vault, pc, history>>
      BY <1>3 DEF direct_write
    <2>2. "other" \in Paths /\ "other" \notin Journaled /\ c \in Values
      BY PathFacts DEF Values
    <2>3. schema = "none" \/ mirror # NoIntent
      BY <2>1, SMT DEF Copies, TypeOK, Intents, NoIntent
    <2> QED
      BY <2>1, <2>2, <2>3, FileCopies
  <1> QED
    BY <1>1, <1>2, <1>3

\* The steps that write the vault from the retained files: the migration, the upgrade and the
\* end of a mirror.
LEMMA VaultCopies ==
  ASSUME Inv, Copies, \/ load_or_create_master_key \/ create_database
                      \/ migrate_legacy_snapshot /\ schema = "none"
                      \/ commit_retirement \/ finish_dual_write
  PROVE  Copies'
  <1> USE Zenon
  <1>1. CASE migrate_legacy_snapshot /\ schema = "none"
    <2>1. /\ pc = "migrate" /\ pc' = "migrate_retire" /\ schema' = "current"
          /\ db' = legacy /\ generation' = 1 /\ mirror = 0 /\ shadow = 0
          /\ UNCHANGED <<legacy, undo, begun, workspaces, journal, created, mirror, shadow,
                         acknowledged, faults>>
      BY <1>1 DEF migrate_legacy_snapshot, Goto, files, history, NoIntent
    <2>2. TypeOK'
      BY <2>1, SMT DEF Copies, TypeOK, Pcs
    <2>3. Agreement' /\ Recovery'
      BY <2>1 DEF Agreement, Recovery
    <2>4. Journaling' /\ Intents'
      BY <2>1, SMT DEF Journaling, Intents
    <2> QED
      BY <2>2, <2>3, <2>4 DEF Copies
  <1>4. CASE load_or_create_master_key \/ create_database
    <2>1. /\ created' \in {"key", "database"}
          /\ UNCHANGED <<legacy, undo, begun, workspaces, journal, schema, db, generation, mirror,
                         shadow, pc, acknowledged, faults>>
      BY <1>4 DEF load_or_create_master_key, create_database, files, history
    <2>2. TypeOK' /\ Journaling' /\ Intents'
      BY <2>1 DEF Copies, TypeOK, Journaling, Intents
    <2>3. Agreement' /\ Recovery'
      BY <2>1 DEF Copies, Agreement, Agreeing, Recovery, Settled
    <2> QED
      BY <2>2, <2>3 DEF Copies
  <1>2. CASE commit_retirement
    <2>1. /\ pc \in {"retire", "migrate_retire"} /\ schema = "indexed" /\ schema' = "current"
          /\ generation' = generation + 1
          /\ UNCHANGED <<legacy, undo, begun, workspaces, journal, created, db, mirror, shadow, pc,
                         acknowledged, faults>>
      BY <1>2 DEF commit_retirement, files, history
    <2>2. TypeOK'
      BY <2>1, SMT DEF Copies, TypeOK
    <2>3. Agreement' /\ Recovery'
      BY <2>1 DEF Copies, Agreement, Agreeing, Recovery, Settled
    <2>4. Journaling' /\ Intents'
      BY <2>1, SMT DEF Copies, TypeOK, Journaling, Intents
    <2> QED
      BY <2>2, <2>3, <2>4, SMT DEF Copies
  <1>3. CASE finish_dual_write
    <2>1. /\ pc \in {"prepare_mirror", "finish_mirror"}
          /\ pc' = "down" \/ (pc = "prepare_mirror" /\ pc' = "retire")
          /\ legacy' = WithoutIdentity /\ db' = RetainedRecords
          /\ generation' \in {generation, generation + 1}
          /\ mirror' = NoIntent /\ schema' = "current"
          /\ UNCHANGED <<undo, begun, workspaces, journal, created, shadow, acknowledged, faults>>
      BY <1>3 DEF finish_dual_write, AfterMirror, Goto, history
    <2>2. schema # "none"
      BY <1>3 DEF finish_dual_write, MirrorAccepted, Inv, Phases
    <2>3. TypeOK'
      <3>1. legacy' \in [Paths -> Values] /\ db' \in [Paths -> Values]
        BY <2>1, Copied DEF Copies, WithoutIdentity, RetainedRecords
      <3>2. generation' \in Nat /\ mirror' \in 0..generation' /\ shadow' \in 0..generation'
        BY <2>1, SMT DEF Copies, TypeOK, NoIntent
      <3> QED
        BY <2>1, <3>1, <3>2 DEF Copies, TypeOK, Pcs
    <2>4. \A p \in Data : legacy'[p] = legacy[p] /\ db'[p] = legacy[p]
      BY <2>1, PathFacts DEF WithoutIdentity, RetainedRecords
    <2>5. Agreement' /\ Recovery'
      BY <2>1 DEF Agreement, Agreeing, Recovery
    <2>6. Journaling'
      BY <2>1 DEF Copies, Journaling
    <2>7. Intents'
      BY <2>1, <2>2, <2>4, PathFacts, SMT DEF Copies, TypeOK, Intents
    <2> QED
      BY <2>3, <2>5, <2>6, <2>7 DEF Copies
  <1> QED
    BY <1>1, <1>2, <1>3, <1>4, SMT

\* A roll back that stops half way: the journal stays, and what it would put back is what the
\* vault holds.
LEMMA FailedCopies == ASSUME Inv, Copies, rollback_error PROVE Copies'
  <1> USE Zenon
  <1>1. PICK done \in {{}, {"ratchet"}, {"ratchet", "sequence"}, Mutable} :
          legacy' = [p \in Paths |-> IF p \in done THEN undo[p] ELSE legacy[p]]
    BY DEF rollback_error
  <1>2. /\ UNCHANGED <<undo, begun, workspaces, journal, created, schema, db, generation, mirror,
                       shadow, acknowledged>>
        /\ pc = "rollback" /\ pc' = "live" /\ faults' = faults + 1 /\ faults < MaxFaults
    BY DEF rollback_error, Fault, vault
  <1>3. done \subseteq Mutable
    BY DEF Mutable
  <1>4. TypeOK'
    <2>1. legacy' \in [Paths -> Values]
      BY <1>1, <1>3, PathFacts, Copied DEF Copies
    <2>2. faults' \in 0..MaxFaults
      BY <1>2, BoundsAssumption, SMT DEF Copies, TypeOK
    <2> QED
      BY <1>2, <2>1, <2>2 DEF Copies, TypeOK, Pcs
  <1>5. Agreement'
    <2>1. shadow # NoIntent /\ schema # "none"
            => \A p \in Journaled : legacy[p] = undo[p] /\ undo[p] = db[p]
      BY <1>2 DEF Copies, Journaling
    <2>2. Agreeing' => shadow # NoIntent
      BY <1>2 DEF Copies, Journaling, Agreeing
    <2> QED
      BY <1>1, <1>2, <2>1, <2>2, PathFacts DEF Agreement
  <1>6. Recovery'
    BY <1>2, PathFacts DEF Copies, Journaling, Recovery, Settled
  <1>7. Journaling'
    BY <1>2 DEF Journaling
  <1>8. Intents'
    BY <1>1, <1>2, <1>3, PathFacts DEF Copies, Intents
  <1> QED
    BY <1>4, <1>5, <1>6, <1>7, <1>8 DEF Copies

\* The steps of the operation of a transaction.
LEMMA StageCopies ==
  ASSUME Inv, Copies, pc = "txn" => Room,
         \/ \E s \in Mutable : prepare_workspace(s)
         \/ \E s \in {"ratchet", "trust"}, c \in Contents : stage(s, c)
         \/ \E e \in Events : stage_event(e)
  PROVE  Copies'
  <1> USE Zenon
  <1>1. /\ pc = "txn"
        /\ UNCHANGED <<begun, journal, created, schema, db, generation, mirror, shadow, pc,
                       acknowledged, faults>>
    BY DEF prepare_workspace, stage, stage_event, vault, history
  <1>2. Agreement' /\ (legacy'["other"] = legacy["other"] => Intents')
    BY <1>1 DEF Copies, Agreement, Agreeing, Intents
  <1>3. ASSUME NEW s \in Mutable, prepare_workspace(s) PROVE Copies'
    <2>1. /\ workspaces' = workspaces \cup {s}
          /\ \/ schema = "none" /\ UNCHANGED <<legacy, undo>>
             \/ /\ schema # "none" /\ shadow = NoIntent
                /\ legacy' = [legacy EXCEPT ![s] = db[s]]
                /\ undo' = [undo EXCEPT ![s] = db[s]]
      BY <1>3 DEF prepare_workspace
    <2>0. shadow = NoIntent
      BY <2>1 DEF Inv, Phases
    <2>2. s \in Paths /\ s \in Journaled /\ s # "other" /\ db[s] \in Values
      BY PathFacts, Copied DEF Copies
    <2>3. TypeOK'
      BY <1>1, <2>1, <2>2 DEF Copies, TypeOK
    <2>4. \A p \in Journaled : undo'[p] = undo[p]
      BY <1>1, <2>1, <2>2 DEF Copies, TypeOK, Journaling
    <2>5. /\ \A p \in Paths : p # s => legacy'[p] = legacy[p]
          /\ legacy'[s] = legacy[s] \/ legacy'[s] = undo[s]
      BY <1>1, <2>1, <2>2, <2>4 DEF Copies, TypeOK
    <2>6. Recovery'
      BY <1>1, <2>4, PathFacts DEF Copies, Recovery, Settled, Journaling
    <2>7. Journaling'
      BY <1>1, <2>0, <2>1, <2>4, <2>5, PathFacts DEF Copies, Journaling
    <2>8. Intents'
      BY <1>2, <2>2, <2>5, PathFacts DEF Copies
    <2> QED
      BY <1>2, <2>3, <2>6, <2>7, <2>8 DEF Copies
  <1>4. ASSUME NEW s \in {"ratchet", "trust"}, NEW c \in Contents, stage(s, c) PROVE Copies'
    <2>1. /\ s \in workspaces /\ legacy' = [legacy EXCEPT ![s] = c]
          /\ UNCHANGED <<undo, workspaces>>
      BY <1>4 DEF stage
    <2>0. shadow = NoIntent
      BY <1>1, <2>1 DEF Copies, Journaling
    <2>2. s \in Paths /\ s # "other" /\ s # "sequence" /\ c \in Values
      BY PathFacts DEF Values
    <2>3. TypeOK'
      BY <1>1, <2>1, <2>2 DEF Copies, TypeOK
    <2>4. legacy'["other"] = legacy["other"] /\ legacy'["sequence"] = legacy["sequence"]
      BY <2>1, <2>2, PathFacts DEF Copies, TypeOK
    <2>5. Recovery'
      BY <1>1, <2>1, PathFacts DEF Copies, Recovery, Settled, Journaling
    <2>6. Journaling'
      BY <1>1, <2>0, <2>1, <2>4 DEF Copies, Journaling
    <2> QED
      BY <1>2, <2>3, <2>4, <2>5, <2>6 DEF Copies
  <1>5. ASSUME NEW e \in Events, stage_event(e) PROVE Copies'
    <2>1. /\ "sequence" \in workspaces /\ legacy[e] = Absent /\ UNCHANGED <<undo, workspaces>>
          /\ legacy' = [legacy EXCEPT ![e] = legacy["sequence"],
                                      !["sequence"] = legacy["sequence"] + 1]
      BY <1>5, PathFacts DEF stage_event, Copies, TypeOK
    <2>2. /\ legacy'[e] = legacy["sequence"] /\ legacy'["sequence"] = legacy["sequence"] + 1
          /\ \A p \in Paths : p \notin {e, "sequence"} => legacy'[p] = legacy[p]
      BY <2>1, PathFacts DEF Copies, TypeOK
    <2>3. legacy["sequence"] \in Numbers /\ legacy["sequence"] + 1 \in Numbers
      BY <1>1, <2>1 DEF Room
    <2>4. legacy'[e] \in Values /\ legacy'["sequence"] \in Values
      BY <2>2, <2>3 DEF Values
    <2>5. TypeOK'
      BY <1>1, <2>1, <2>2, <2>4 DEF Copies, TypeOK
    <2>6. Recovery'
      BY <1>1, <2>1, PathFacts DEF Copies, Recovery, Settled, Journaling
    <2>7. legacy'["other"] = legacy["other"]
      BY <2>2, PathFacts
    <2>0. shadow = NoIntent
      BY <1>1, <2>1 DEF Copies, Journaling
    <2>8. Journaling'
      BY <1>1, <2>0, <2>1 DEF Copies, Journaling
    <2> QED
      BY <1>2, <2>5, <2>6, <2>7, <2>8 DEF Copies
  <1> QED
    BY <1>3, <1>4, <1>5

\* commit_primary_transaction: the staged delta makes the vault what the transaction works on.
LEMMA PrimaryFacts ==
  ASSUME Copies, commit_primary_transaction, schema # "none"
  PROVE  /\ shadow = NoIntent /\ journal = "prepared"
         /\ db' = [p \in Paths |-> IF p \in staged_mutations THEN legacy[p] ELSE db[p]]
         /\ \A p \in Journaled : db'[p] = legacy[p] /\ undo[p] = db[p]
         /\ "other" \notin staged_mutations
         /\ \/ db' = db /\ generation' = generation /\ shadow' = NoIntent
            \/ db' # db /\ generation' = generation + 1 /\ shadow' = generation + 1
         /\ mirror' = generation' /\ UNCHANGED <<created, schema>>
  <1> USE Zenon
  <1>1. /\ pc = "txn" /\ shadow = NoIntent
        /\ db' = [p \in Paths |-> IF p \in staged_mutations THEN legacy[p] ELSE db[p]]
        /\ generation' = IF db' = db THEN generation ELSE generation + 1
        /\ mirror' = generation'
        /\ shadow' = IF db' = db THEN NoIntent ELSE generation'
        /\ UNCHANGED <<created, schema>>
    BY DEF commit_primary_transaction, PrimaryAllowed
  <1>2. journal = "prepared" /\ begun = undo["sequence"] /\ \A p \in Journaled : undo[p] = db[p]
    BY <1>1 DEF Copies, Journaling
  <1>3. ASSUME NEW p \in Journaled PROVE db'[p] = legacy[p]
    <2>1. p \notin staged_mutations => legacy[p] = db[p]
      BY <1>2, SMT DEF staged_mutations
    <2> QED
      BY <1>1, <2>1, PathFacts
  <1>4. "other" \notin staged_mutations
    BY PathFacts DEF staged_mutations
  <1> QED
    BY <1>1, <1>2, <1>3, <1>4

\* The vault commits first; the files and the journal are as they were.
LEMMA PrimaryCopies == ASSUME Inv, Copies, commit_primary_transaction PROVE Copies'
  <1> USE Zenon
  <1>1. /\ pc = "txn" /\ pc' = "primary"
        /\ UNCHANGED <<legacy, undo, begun, workspaces, journal, acknowledged, faults>>
    BY DEF commit_primary_transaction, Goto, files, history
  <1>2. CASE schema = "none"
    <2>1. UNCHANGED <<created, schema, db, generation, mirror, shadow>>
      BY <1>2 DEF commit_primary_transaction, vault
    <2>2. TypeOK'
      BY <1>1, <2>1 DEF Copies, TypeOK, Pcs
    <2>3. Agreement' /\ Recovery' /\ Intents'
      BY <1>1, <1>2, <2>1 DEF Agreement, Recovery, Intents
    <2>4. Journaling'
      BY <1>1 DEF Copies, Journaling
    <2> QED
      BY <2>2, <2>3, <2>4 DEF Copies
  <1>3. CASE schema # "none"
    <2>1. TypeOK'
      <3>1. db' \in [Paths -> Values]
        BY <1>3, PrimaryFacts, Copied DEF Copies
      <3>2. generation' \in Nat /\ mirror' \in 0..generation' /\ shadow' \in 0..generation'
        BY <1>3, PrimaryFacts, SMT DEF Copies, TypeOK, NoIntent
      <3>3. UNCHANGED <<created, schema>>
        BY <1>3, PrimaryFacts
      <3> QED
        BY <1>1, <3>1, <3>2, <3>3 DEF Copies, TypeOK, Pcs
    <2>2. Agreement'
      BY <1>1, <1>3, PrimaryFacts DEF Agreement
    <2>3. generation \in Nat
      BY DEF Copies, TypeOK
    <2>4. Recovery'
      BY <1>1, <1>3, <2>3, PrimaryFacts, PathFacts, SMT DEF Recovery, Settled, NoIntent
    <2>5. Journaling'
      BY <1>1, SMT DEF Copies, Journaling
    <2>6. Intents'
      BY <1>1, <1>3, <2>3, PrimaryFacts, SMT DEF Copies, Intents, NoIntent
    <2> QED
      BY <2>1, <2>2, <2>4, <2>5, <2>6 DEF Copies
  <1> QED
    BY <1>2, <1>3

\* Every step.
LEMMA CopiesStep ==
  ASSUME Inv, Copies, pc = "txn" => Room, [Next]_vars PROVE Copies'
  <1> USE Zenon
  <1>0. TypeOK
    BY DEF Copies
  <1>1. CASE Prepare
    BY <1>0, <1>1, RestoreCopies, IntentCopies, MovesFacts, MovesCopies, VaultCopies, FilesCopies
       DEF Prepare
  <1>2. CASE Transaction
    BY <1>0, <1>2, StageCopies, PrimaryCopies, MovesFacts, MovesCopies DEF Transaction
  <1>3. CASE Settle
    BY <1>0, <1>3, RestoreCopies, JournalCopies, IntentCopies, MovesFacts, MovesCopies
    DEF Settle
  <1>4. CASE begin \/ acquire_migrate \/ rollback_error \/ \E c \in Contents : direct_write(c)
    BY <1>4, JournalCopies, RestoreCopies, FailedCopies, FilesCopies
  <1>5. CASE end_command \/ io_error \/ crash
    BY <1>0, <1>5, MovesFacts, MovesCopies
  <1>6. CASE UNCHANGED vars
    <2>1. UNCHANGED <<legacy, undo, begun, workspaces, journal, created, schema, db, generation,
                      mirror, shadow, pc, acknowledged, faults>>
      BY <1>6 DEF vars, files, vault, history
    <2>2. TypeOK' /\ Journaling' /\ Intents'
      BY <2>1 DEF Copies, TypeOK, Journaling, Intents
    <2>3. Agreement' /\ Recovery'
      BY <2>1 DEF Copies, Agreement, Agreeing, Recovery, Settled
    <2> QED
      BY <2>2, <2>3 DEF Copies
  <1>7. CASE Migrate
    BY <1>0, <1>7, VaultCopies, MovesFacts, MovesCopies DEF Migrate
  <1> QED
    BY <1>1, <1>2, <1>3, <1>4, <1>5, <1>6, <1>7 DEF Next
-----------------------------------------------------------------------------
(* The numbers of the stored events, and the atomic state.                 *)

\* The stored events are numbered 0, 1, ... and next-sequence counts them.
Stored(s) == {e \in Events : s[e] # Absent}
Numbered(s) ==
    /\ s["sequence"] = Cardinality(Stored(s))
    /\ \A e \in Stored(s) : s[e] \in 0..(s["sequence"] - 1)
    /\ \A e, f \in Stored(s) : s[e] = s[f] => e = f
Numbering == /\ Numbered(Durable)
             /\ pc \in {"txn", "rollback", "primary"} => Numbered(legacy)

AtomicInv == Inv /\ Copies /\ Numbering
-----------------------------------------------------------------------------
(* Numbering.                                                              *)

\* next-sequence and the numbers of the stored events are at most the number of events.
LEMMA NumberedBound ==
  ASSUME NEW s, Numbered(s)
  PROVE  /\ IsFiniteSet(Stored(s)) /\ Cardinality(Events) \in Nat
         /\ s["sequence"] \in Nat /\ s["sequence"] \in Numbers /\ s["sequence"] # Absent
         /\ \A e \in Stored(s) : s[e] \in Numbers
  <1>1. Stored(s) \in SUBSET Events
    BY Zenon DEF Stored
  <1>2. IsFiniteSet(Stored(s)) /\ Cardinality(Stored(s)) <= Cardinality(Events)
    BY <1>1, FS_Subset, PathsAssumption, Zenon
  <1>3. Cardinality(Events) \in Nat /\ Cardinality(Stored(s)) \in Nat
    BY <1>2, FS_CardinalityType, PathsAssumption, Zenon
  <1> QED
    BY <1>2, <1>3, ValuesAssumption DEF Numbered, Numbers

\* Only next-sequence and the events matter.
LEMMA NumberedSame ==
  ASSUME NEW s, NEW t, Numbered(s), s["sequence"] = t["sequence"],
         \A e \in Events : s[e] = t[e]
  PROVE  Numbered(t)
  <1> USE Zenon
  <1>1. Stored(s) = Stored(t)
    BY DEF Stored
  <1>2. \A e \in Stored(s) : s[e] = t[e]
    BY DEF Stored
  <1> QED
    BY <1>1, <1>2 DEF Numbered

\* allocate_sequence: the next number goes to a new event, and there is room for one more.
LEMMA NumberedAdd ==
  ASSUME NEW s, NEW t, NEW e \in Events, Numbered(s), s[e] = Absent,
         t[e] = s["sequence"], t["sequence"] = s["sequence"] + 1,
         \A f \in Events \ {e} : t[f] = s[f]
  PROVE  Numbered(t)
  <1> USE Zenon
  <1>1. s["sequence"] \in Nat /\ s["sequence"] # Absent /\ IsFiniteSet(Stored(s))
    BY NumberedBound
  <1>2. Stored(t) = Stored(s) \cup {e} /\ e \notin Stored(s)
    BY <1>1 DEF Stored
  <1>3. Cardinality(Stored(t)) = Cardinality(Stored(s)) + 1
    BY <1>1, <1>2, FS_AddElement
  <1>4. \A f \in Stored(s) : t[f] = s[f] /\ f # e
    BY <1>2 DEF Stored
  <1>5. \A f \in Stored(t) : t[f] \in 0..(t["sequence"] - 1)
    BY <1>1, <1>2, <1>4, SMT DEF Numbered
  <1>6. \A f, g \in Stored(t) : t[f] = t[g] => f = g
    BY <1>1, <1>2, <1>4, SMT DEF Numbered
  <1> QED
    BY <1>3, <1>5, <1>6 DEF Numbered
\* As long as an event is missing, there is a number for it.
LEMMA NumberedRoom ==
  ASSUME NEW s, NEW e \in Events, Numbered(s), s[e] = Absent
  PROVE  s["sequence"] \in Numbers /\ s["sequence"] + 1 \in Numbers
  <1> USE Zenon
  <1>1. IsFiniteSet(Stored(s)) /\ s["sequence"] \in Numbers /\ s["sequence"] \in Nat
    BY NumberedBound
  <1>2. Stored(s) \cup {e} \in SUBSET Events /\ e \notin Stored(s)
    BY DEF Stored
  <1>3. Cardinality(Stored(s) \cup {e}) = Cardinality(Stored(s)) + 1
    BY <1>1, <1>2, FS_AddElement
  <1>4. Cardinality(Stored(s) \cup {e}) <= Cardinality(Events)
    BY <1>2, FS_Subset, PathsAssumption
  <1>5. Cardinality(Events) \in Nat
    BY FS_CardinalityType, PathsAssumption
  <1> QED
    BY <1>1, <1>3, <1>4, <1>5, SMT DEF Numbered, Numbers

\* Init: nothing is pending but, perhaps, an older build's mirror intent.
LEMMA InitCopies == Init => Copies /\ Numbering
  <1> USE Zenon
  <1> SUFFICES ASSUME Init PROVE Copies /\ Numbering
    OBVIOUS
  <1>0. Cardinality(Events) \in Nat
    BY FS_CardinalityType, PathsAssumption
  <1>1. TypeOK
    <2>1. legacy \in [Paths -> Values]
      BY <1>0, SMT DEF Init, Values, Numbers
    <2>2. db \in [Paths -> Values] /\ undo \in [Journaled -> Values] /\ begun \in Values
      BY <2>1 DEF Init, Values
    <2>3. generation \in Nat /\ mirror \in 0..generation /\ shadow \in 0..generation
      BY SMT DEF Init, NoIntent
    <2> QED
      BY <2>1, <2>2, <2>3, BoundsAssumption, SMT DEF Init, TypeOK, Pcs, Values
  <1>2. Agreement /\ Journaling
    BY PathFacts DEF Init, Agreement, Agreeing, Journaling
  <1>3. Recovery
    BY PathFacts DEF Init, Recovery, Settled
  <1>4. Intents
    BY SMT DEF Init, Intents, NoIntent
  <1>5. Numbering
    <2>1. \A p \in Data : Durable[p] = legacy[p]
      BY DEF Init, Durable, Settled
    <2>2. Stored(Durable) = {} /\ Durable["sequence"] = 0
      BY <2>1, PathFacts, PathsAssumption DEF Init, Stored, Mutable
    <2> QED
      BY <2>2, FS_EmptySet DEF Init, Numbering, Numbered
  <1> QED
    BY <1>1, <1>2, <1>3, <1>4, <1>5 DEF Copies
-----------------------------------------------------------------------------
(* Every step is a step of the atomic state, or leaves it alone.           *)

\* A step between transactions.
LEMMA StutterStep ==
  ASSUME ~TransactionOpen, ~TransactionOpen', \A p \in Journaled : Durable'[p] = Durable[p]
  PROVE  UNCHANGED Atomic!vars
  <1> USE Zenon
  <1>1. UNCHANGED [p \in Journaled |-> Durable[p]]
    OBVIOUS
  <1>2. UNCHANGED Working
    BY DEF Working
  <1>3. UNCHANGED TransactionOpen
    BY DEF TransactionOpen
  <1> QED
    BY <1>1, <1>2, <1>3 DEF Atomic!vars

\* An end of a transaction that has not taken effect.
LEMMA DiscardStep ==
  ASSUME TransactionOpen, ~TransactionOpen', \A p \in Journaled : Durable'[p] = Durable[p]
  PROVE  Atomic!Discard
  <1> USE Zenon
  <1>1. UNCHANGED [p \in Journaled |-> Durable[p]]
    OBVIOUS
  <1>2. Working' = [p \in Journaled |-> Durable[p]]
    BY DEF Working
  <1>3. TransactionOpen' = FALSE
    BY DEF TransactionOpen
  <1> QED
    BY <1>1, <1>2, <1>3 DEF Atomic!Discard

\* The commit point: from here on the next command works on what was staged.
LEMMA CommitStep ==
  ASSUME TransactionOpen, ~TransactionOpen', \A p \in Journaled : Durable'[p] = legacy[p]
  PROVE  Atomic!Commit
  <1> USE Zenon
  <1>1. Working = [p \in Journaled |-> legacy[p]]
    BY DEF Working
  <1>2. Working' = Working /\ [p \in Journaled |-> Durable[p]]' = Working
    BY <1>1 DEF Working
  <1>3. TransactionOpen' = FALSE
    BY DEF TransactionOpen
  <1> QED
    BY <1>2, <1>3 DEF Atomic!Commit

\* A step of the operation: what is staged changes, an event that is there stays.
LEMMA StagingStep ==
  ASSUME TypeOK', TransactionOpen, TransactionOpen',
         \A p \in Journaled : Durable'[p] = Durable[p],
         \A e \in Events : legacy[e] # Absent => legacy'[e] = legacy[e]
  PROVE  Atomic!Stage
  <1> USE Zenon
  <1>1. UNCHANGED [p \in Journaled |-> Durable[p]]
    OBVIOUS
  <1>2. /\ Working = [p \in Journaled |-> legacy[p]]
        /\ Working' = [p \in Journaled |-> legacy'[p]]
    BY DEF Working
  <1>3. Working' \in [Journaled -> Values]
    BY <1>2, PathFacts DEF TypeOK
  <1>4. \A e \in Events : Working[e] # Absent => Working'[e] = Working[e]
    BY <1>2, PathFacts
  <1>5. TransactionOpen' = TransactionOpen
    BY DEF TransactionOpen
  <1> QED
    BY <1>1, <1>3, <1>4, <1>5 DEF Atomic!Stage, Atomic!States, Atomic!Grows

\* Errors, refusals and crashes discard the open transaction, if there is one.
LEMMA MovesAtomic == ASSUME Moves PROVE [Atomic!Next]_(Atomic!vars)
  <1> USE Zenon
  <1>1. UNCHANGED <<legacy, undo, journal, schema, db, shadow>>
    BY DEF Moves, files, vault
  <1>2. Durable' = Durable
    BY <1>1 DEF Durable, Settled
  <1>3. CASE pc = "txn" /\ pc' = "rollback"
    <2>1. UNCHANGED TransactionOpen
      BY <1>1, <1>3 DEF TransactionOpen
    <2>2. UNCHANGED Working
      BY <1>1, <1>2, <2>1 DEF Working
    <2> QED
      BY <1>2, <2>1, <2>2 DEF Atomic!vars
  <1>4. CASE ~(pc = "txn" /\ pc' = "rollback")
    <2>1. ~TransactionOpen'
      BY <1>4 DEF Moves, TransactionOpen
    <2> QED
      BY <1>2, <2>1, StutterStep, DiscardStep DEF Atomic!Next
  <1> QED
    BY <1>3, <1>4

\* The steps outside the operation of a transaction that write records or intents, the mirror
\* after a failed roll back included.
LEMMA SettleAtomic ==
  ASSUME Inv, Copies,
         \/ recover_primary_shadow \/ begin_dual_write \/ confirm_primary_shadow
         \/ \E p \in Paths : restore_legacy_record(p)
         \/ \E p \in Identity : remove_identity_file(p)
         \/ finish_dual_write \/ commit_retirement
         \/ load_or_create_master_key \/ create_database
  PROVE  UNCHANGED Atomic!vars
  <1> USE Zenon
  <1>1. /\ pc \in {"prepare_shadow", "finish_shadow", "begin", "confirm", "retire", "migrate",
                   "migrate_retire", "prepare_mirror", "finish_mirror"}
        /\ pc' \in {pc, "prepare_mirror", "finish_mirror", "live", "down", "retire"}
        /\ UNCHANGED <<undo, journal>>
    BY DEF recover_primary_shadow, begin_dual_write, confirm_primary_shadow, commit_retirement,
           restore_legacy_record, remove_identity_file, finish_dual_write, AfterShadow,
           load_or_create_master_key, create_database, AfterMirror, Goto, files
  <1>2. ASSUME NEW p \in Journaled PROVE Durable'[p] = Durable[p]
    <2>0. p \in Data /\ p \in Paths /\ p \in Compared /\ p \notin Identity
      BY PathFacts DEF Compared
    <2>1. CASE recover_primary_shadow \/ confirm_primary_shadow
      <3>1. UNCHANGED <<legacy, db>> /\ shadow' = NoIntent
        BY <2>1 DEF recover_primary_shadow, confirm_primary_shadow, files
      <3>2. Settled' = Settled
        BY <1>1, <3>1 DEF Settled
      <3>3. shadow = NoIntent \/ (journal = "none" /\ legacy[p] = db[p])
        BY <2>0, <2>1 DEF recover_primary_shadow, confirm_primary_shadow, ShadowRestorable,
                          Verified, Inv, Phases
      <3> QED
        BY <2>0, <3>1, <3>2, <3>3 DEF Durable, Settled
    <2>2. CASE begin_dual_write \/ commit_retirement \/ load_or_create_master_key
               \/ create_database
      BY <2>2 DEF begin_dual_write, commit_retirement, load_or_create_master_key,
                  create_database, files, Durable, Settled
    <2>3. CASE \E q \in Paths : restore_legacy_record(q)
      BY <2>0, <2>3 DEF restore_legacy_record, vault, Durable
    <2>4. CASE \E q \in Identity : remove_identity_file(q)
      <3>1. PICK q \in Identity : remove_identity_file(q)
        BY <2>4
      <3>2. legacy'[p] = legacy[p] /\ UNCHANGED <<shadow, db>>
        BY <2>0, <3>1 DEF remove_identity_file, vault, Inv, Tables
      <3> QED
        BY <1>1, <2>0, <3>2 DEF Durable, Settled
    <2>5. CASE finish_dual_write
      <3>1. legacy'[p] = legacy[p] /\ shadow' = shadow
        BY <2>0, <2>5 DEF finish_dual_write, WithoutIdentity
      <3>2. shadow = NoIntent
        BY <2>5 DEF finish_dual_write, Copies, Intents
      <3> QED
        BY <1>1, <2>0, <3>1, <3>2 DEF Durable, Settled
    <2> QED
      BY <2>1, <2>2, <2>3, <2>4, <2>5
  <1>3. ~TransactionOpen /\ ~TransactionOpen'
    BY <1>1 DEF TransactionOpen
  <1> QED
    BY <1>2, <1>3, StutterStep

\* A failed roll back ends the transaction; the journal still holds what it would put back.
LEMMA FailedAtomic == ASSUME Copies, rollback_error PROVE [Atomic!Next]_(Atomic!vars)
  <1> USE Zenon
  <1>1. pc = "rollback" /\ pc' = "live" /\ UNCHANGED <<undo, journal, db, shadow>>
    BY DEF rollback_error, vault
  <1>2. journal = "prepared"
    BY <1>1 DEF Copies, Journaling
  <1>3. \A p \in Journaled : Durable'[p] = Durable[p]
    BY <1>1, <1>2, PathFacts DEF Durable, Settled
  <1>4. ~TransactionOpen'
    BY <1>1 DEF TransactionOpen
  <1> QED
    BY <1>3, <1>4, StutterStep, DiscardStep DEF Atomic!Next

\* The lock's recovery, the end of a roll back and the marker's removal: the state is what it
\* was, with and without a vault.
LEMMA RecoveryAtomic ==
  ASSUME Inv, Copies, \/ acquire \/ acquire_migrate \/ rollback \/ clean_committed
                      \/ migrate_legacy_snapshot
  PROVE  [Atomic!Next]_(Atomic!vars)
  <1> USE Zenon
  <1>1. pc' \notin {"txn", "rollback", "primary"} /\ UNCHANGED shadow
    BY DEF acquire, acquire_migrate, Lock, rollback, clean_committed, migrate_legacy_snapshot,
           Goto, vault
  <1>2. ASSUME NEW p \in Journaled PROVE Settled'[p] = Settled[p]
    <2>1. CASE acquire \/ acquire_migrate \/ rollback
      <3>1. /\ legacy' = [q \in Paths |-> IF q \in Data THEN Settled[q] ELSE legacy[q]]
            /\ journal' = "none"
        BY <2>1 DEF acquire, acquire_migrate, Lock, rollback
      <3>2. legacy'[p] = Settled[p]
        BY <3>1, PathFacts
      <3> QED
        BY <3>1, <3>2, PathFacts DEF Settled
    <2>2. CASE clean_committed \/ migrate_legacy_snapshot
      <3>1. UNCHANGED legacy /\ journal \in {"none", "committed"} /\ journal' = "none"
        BY <2>2 DEF clean_committed, migrate_legacy_snapshot, files, Copies, Journaling
      <3> QED
        BY <3>1, PathFacts DEF Settled
    <2> QED
      BY <2>1, <2>2
  <1>3. \A p \in Journaled : Durable'[p] = Durable[p]
    <2>1. CASE migrate_legacy_snapshot
      <3>1. shadow = NoIntent /\ shadow' = NoIntent
        BY <2>1 DEF migrate_legacy_snapshot, Inv, Phases
      <3> QED
        BY <1>2, <3>1 DEF Durable
    <2>2. CASE acquire \/ acquire_migrate \/ rollback \/ clean_committed
      <3>1. UNCHANGED db
        BY <2>2 DEF acquire, acquire_migrate, Lock, rollback, clean_committed, vault
      <3> QED
        BY <1>1, <1>2, <3>1, PathFacts DEF Durable
    <2> QED
      BY <2>1, <2>2
  <1>4. ~TransactionOpen'
    BY <1>1 DEF TransactionOpen
  <1> QED
    BY <1>3, <1>4, StutterStep, DiscardStep DEF Atomic!Next

\* begin opens a transaction on the state, unless a primary commit still waits for its files:
\* then nothing can be staged, and the atomic state sees no transaction.
LEMMA BeginAtomic == ASSUME begin PROVE [Atomic!Next]_(Atomic!vars)
  <1> USE Zenon
  <1>1. /\ pc = "live" /\ pc' = "txn" /\ journal = "none" /\ journal' = "prepared"
        /\ undo' = [p \in Journaled |-> legacy[p]]
        /\ UNCHANGED <<legacy, schema, db, shadow>>
    BY DEF begin, Goto, vault
  <1>2. \A p \in Journaled : Settled[p] = legacy[p] /\ Settled'[p] = legacy[p]
    BY <1>1, PathFacts DEF Settled
  <1>3. \A p \in Journaled : Durable'[p] = Durable[p]
    BY <1>1, <1>2, PathFacts DEF Durable
  <1>4. ~TransactionOpen
    BY <1>1 DEF TransactionOpen
  <1>5. CASE shadow = NoIntent
    <2>1. TransactionOpen'
      BY <1>1, <1>5 DEF TransactionOpen
    <2>2. \A p \in Journaled : Durable[p] = legacy[p]
      BY <1>2, <1>5 DEF Durable
    <2>3. Working = [p \in Journaled |-> legacy[p]]
      BY <1>4, <2>2 DEF Working
    <2>4. Working' = [p \in Journaled |-> legacy[p]]
      BY <1>1, <2>1 DEF Working
    <2>5. TransactionOpen = FALSE /\ TransactionOpen' = TRUE
      BY <1>4, <2>1 DEF TransactionOpen
    <2>6. UNCHANGED [p \in Journaled |-> Durable[p]]
      BY <1>3
    <2> QED
      BY <2>3, <2>4, <2>5, <2>6 DEF Atomic!Next, Atomic!Begin
  <1>6. CASE shadow # NoIntent
    <2>1. ~TransactionOpen'
      BY <1>1, <1>6 DEF TransactionOpen
    <2> QED
      BY <1>3, <1>4, <2>1, StutterStep
  <1> QED
    BY <1>5, <1>6

\* A command's write outside every transaction is not part of the atomic state.
LEMMA DirectAtomic ==
  ASSUME Copies, NEW c \in Contents, direct_write(c) PROVE UNCHANGED Atomic!vars
  <1> USE Zenon
  <1>1. /\ pc = "live" /\ legacy' = [legacy EXCEPT !["other"] = c]
        /\ UNCHANGED <<undo, journal, db, shadow, pc>>
    BY DEF direct_write, vault
  <1>2. \A p \in Journaled : legacy'[p] = legacy[p]
    BY <1>1, PathFacts DEF Copies, TypeOK
  <1>3. \A p \in Journaled : Durable'[p] = Durable[p]
    BY <1>1, <1>2, PathFacts DEF Durable, Settled
  <1>4. ~TransactionOpen /\ ~TransactionOpen'
    BY <1>1 DEF TransactionOpen
  <1> QED
    BY <1>3, <1>4, StutterStep

\* The operation stages; a transaction that waits behind a primary commit stages nothing that
\* the next command would see.
LEMMA StageAtomic ==
  ASSUME Copies, Copies',
         \/ \E s \in Mutable : prepare_workspace(s)
         \/ \E s \in {"ratchet", "trust"}, c \in Contents : stage(s, c)
         \/ \E e \in Events : stage_event(e)
  PROVE  [Atomic!Next]_(Atomic!vars)
  <1> USE Zenon
  <1>1. pc = "txn" /\ UNCHANGED <<journal, schema, db, shadow, pc>>
    BY DEF prepare_workspace, stage, stage_event, vault
  <1>2. journal = "prepared"
    BY <1>1 DEF Copies, Journaling
  <1>3. \A p \in Journaled : undo'[p] = undo[p]
    <2>1. ASSUME NEW s \in Mutable, prepare_workspace(s)
          PROVE  \A p \in Journaled : undo'[p] = undo[p]
      <3>1. UNCHANGED undo \/ (schema # "none" /\ undo' = [undo EXCEPT ![s] = db[s]])
        BY <2>1 DEF prepare_workspace
      <3> QED
        BY <1>1, <3>1, PathFacts DEF Copies, TypeOK, Journaling
    <2>2. ASSUME \/ \E s \in {"ratchet", "trust"}, c \in Contents : stage(s, c)
                 \/ \E e \in Events : stage_event(e)
          PROVE  UNCHANGED undo
      BY <2>2 DEF stage, stage_event
    <2> QED
      BY <2>1, <2>2
  <1>4. \A p \in Journaled : Durable'[p] = Durable[p]
    BY <1>1, <1>2, <1>3, PathFacts DEF Durable, Settled
  <1>5. \A e \in Events : legacy[e] # Absent => legacy'[e] = legacy[e]
    <2>1. ASSUME NEW s \in Mutable, prepare_workspace(s)
          PROVE  \A e \in Events : legacy'[e] = legacy[e]
      <3>1. UNCHANGED legacy \/ legacy' = [legacy EXCEPT ![s] = db[s]]
        BY <2>1 DEF prepare_workspace
      <3> QED
        BY <3>1, PathFacts, SMT DEF Copies, TypeOK
    <2>2. ASSUME NEW s \in {"ratchet", "trust"}, NEW c \in Contents, stage(s, c)
          PROVE  \A e \in Events : legacy'[e] = legacy[e]
      BY <2>2, PathFacts, SMT DEF stage, Copies, TypeOK
    <2>3. ASSUME NEW f \in Events, stage_event(f)
          PROVE  \A e \in Events : legacy[e] # Absent => legacy'[e] = legacy[e]
      BY <2>3, PathFacts, SMT DEF stage_event, Copies, TypeOK
    <2> QED
      BY <2>1, <2>2, <2>3
  <1>6. CASE shadow = NoIntent
    <2>1. TransactionOpen /\ TransactionOpen'
      BY <1>1, <1>2, <1>6 DEF TransactionOpen
    <2> QED
      BY <1>4, <1>5, <2>1, StagingStep DEF Copies, Atomic!Next
  <1>7. CASE shadow # NoIntent
    <2>1. ~TransactionOpen /\ ~TransactionOpen'
      BY <1>1, <1>7 DEF TransactionOpen
    <2> QED
      BY <1>4, <2>1, StutterStep
  <1> QED
    BY <1>6, <1>7

\* The two commit points: the vault's transaction where it changes a record, else the marker.
LEMMA CommitAtomic ==
  ASSUME Inv, Copies, commit_primary_transaction \/ commit
  PROVE  [Atomic!Next]_(Atomic!vars)
  <1> USE Zenon
  <1>1. CASE commit_primary_transaction
    <2>1. /\ pc = "txn" /\ pc' = "primary" /\ UNCHANGED <<legacy, undo, journal>>
          /\ journal = "prepared" /\ shadow = NoIntent
      BY <1>1
      DEF commit_primary_transaction, PrimaryAllowed, Goto, files, Copies, Journaling,
                  Inv, Phases
    <2>2. TransactionOpen
      BY <2>1 DEF TransactionOpen
    <2>3. CASE UNCHANGED <<db, shadow>>
      <3>1. TransactionOpen' /\ Durable' = Durable
        BY <2>1, <2>3 DEF TransactionOpen, Durable, Settled
      <3>2. Working' = Working
        BY <2>1, <2>2, <3>1 DEF Working
      <3>3. TransactionOpen' = TransactionOpen
        BY <2>2, <3>1 DEF TransactionOpen
      <3> QED
        BY <3>1, <3>2, <3>3 DEF Atomic!vars
    <2>4. CASE ~UNCHANGED <<db, shadow>>
      <3>1. schema # "none"
        BY <1>1, <2>4 DEF commit_primary_transaction, vault
      <3>2. \A p \in Journaled : db'[p] = legacy[p]
        BY <1>1, <3>1, PrimaryFacts
      <3>3. shadow' = generation + 1
        BY <1>1, <2>1, <2>4, <3>1, PrimaryFacts
      <3>4. shadow' # NoIntent
        BY <3>3, SMT DEF Copies, TypeOK, NoIntent
      <3>5. \A p \in Journaled : Durable'[p] = legacy[p]
        BY <3>2, <3>4, PathFacts DEF Durable
      <3>6. ~TransactionOpen'
        BY <3>4 DEF TransactionOpen
      <3> QED
        BY <2>2, <3>5, <3>6, CommitStep DEF Atomic!Next
    <2> QED
      BY <2>3, <2>4
  <1>2. CASE commit
    <2>1. /\ pc = "primary" /\ pc' = "cleanup" /\ journal' = "committed"
          /\ journal = "prepared" /\ UNCHANGED <<legacy, undo, db, shadow>>
      BY <1>2 DEF commit, Goto, vault, Copies, Journaling
    <2>2. ~TransactionOpen'
      BY <2>1 DEF TransactionOpen
    <2>3. CASE shadow = NoIntent
      <3>1. TransactionOpen
        BY <2>1, <2>3 DEF TransactionOpen
      <3>2. \A p \in Journaled : Durable'[p] = legacy[p]
        BY <2>1, <2>3, PathFacts DEF Durable, Settled
      <3> QED
        BY <2>2, <3>1, <3>2, CommitStep DEF Atomic!Next
    <2>4. CASE shadow # NoIntent
      <3>1. ~TransactionOpen /\ Durable' = Durable
        BY <2>1, <2>4 DEF TransactionOpen, Durable
      <3> QED
        BY <2>2, <3>1, StutterStep
    <2> QED
      BY <2>3, <2>4
  <1> QED
    BY <1>1, <1>2

\* Every step.
LEMMA AtomicStep ==
  ASSUME Inv, Copies, Copies', [Next]_vars
  PROVE  [Atomic!Next]_(Atomic!vars)
  <1> USE Zenon
  <1>0. TypeOK
    BY DEF Copies
  <1>1. CASE Prepare
    BY <1>0, <1>1, RecoveryAtomic, SettleAtomic, MovesFacts, MovesAtomic DEF Prepare
  <1>2. CASE Transaction
    BY <1>0, <1>2, StageAtomic, CommitAtomic, MovesFacts, MovesAtomic DEF Transaction
  <1>3. CASE Settle
    BY <1>0, <1>3, RecoveryAtomic, CommitAtomic, SettleAtomic, MovesFacts, MovesAtomic
    DEF Settle
  <1>4. CASE \/ begin \/ Migrate \/ acquire_migrate \/ rollback_error
             \/ \E c \in Contents : direct_write(c)
    BY <1>4, BeginAtomic, RecoveryAtomic, SettleAtomic, FailedAtomic, DirectAtomic DEF Migrate
  <1>5. CASE end_command \/ io_error \/ crash
    BY <1>0, <1>5, MovesFacts, MovesAtomic
  <1>6. CASE UNCHANGED vars
    <2>1. UNCHANGED <<legacy, undo, journal, db, shadow, pc>>
      BY <1>6 DEF vars, files, vault
    <2>2. Durable' = Durable /\ TransactionOpen' = TransactionOpen
      BY <2>1 DEF Durable, Settled, TransactionOpen
    <2>3. Working' = Working
      BY <2>1, <2>2 DEF Working
    <2> QED
      BY <2>2, <2>3 DEF Atomic!vars
  <1> QED
    BY <1>1, <1>2, <1>3, <1>4, <1>5, <1>6 DEF Next

\* What an open transaction works on is numbered, whatever it has staged.
LEMMA WorkingNumbered ==
  ASSUME Inv, Copies, Numbering, [Next]_vars, pc' \in {"txn", "rollback", "primary"}
  PROVE  Numbered(legacy')
  <1> USE Zenon
  <1>1. ASSUME NEW s \in Mutable, prepare_workspace(s) PROVE Numbered(legacy')
    <2>1. pc = "txn" /\ (UNCHANGED legacy \/ (schema # "none" /\ s \notin workspaces
                                               /\ legacy' = [legacy EXCEPT ![s] = db[s]]))
      BY <1>1 DEF prepare_workspace
    <2>2. Numbered(legacy)
      BY <2>1 DEF Numbering
    <2>3. legacy["sequence"] = legacy'["sequence"]
      BY <2>1, PathFacts DEF Copies, TypeOK, Journaling
    <2>4. \A e \in Events : legacy[e] = legacy'[e]
      BY <2>1, PathFacts, SMT DEF Copies, TypeOK
    <2> QED
      BY <2>2, <2>3, <2>4, NumberedSame
  <1>2. ASSUME NEW s \in {"ratchet", "trust"}, NEW c \in Contents, stage(s, c)
        PROVE  Numbered(legacy')
    <2>1. pc = "txn" /\ legacy' = [legacy EXCEPT ![s] = c]
      BY <1>2 DEF stage
    <2>2. legacy["sequence"] = legacy'["sequence"] /\ \A e \in Events : legacy[e] = legacy'[e]
      BY <2>1, PathFacts DEF Copies, TypeOK
    <2> QED
      BY <2>1, <2>2, NumberedSame DEF Numbering
  <1>3. ASSUME NEW e \in Events, stage_event(e) PROVE Numbered(legacy')
    <2>1. /\ pc = "txn" /\ legacy[e] = Absent
          /\ legacy' = [legacy EXCEPT ![e] = legacy["sequence"],
                                      !["sequence"] = legacy["sequence"] + 1]
      BY <1>3, PathFacts DEF stage_event, Copies, TypeOK
    <2>2. /\ legacy'[e] = legacy["sequence"] /\ legacy'["sequence"] = legacy["sequence"] + 1
          /\ \A f \in Events \ {e} : legacy'[f] = legacy[f]
      BY <2>1, PathFacts DEF Copies, TypeOK
    <2>3. Numbered(legacy) /\ legacy[e] = Absent
      BY <2>1 DEF Numbering
    <2> QED
      BY <2>2, <2>3, NumberedAdd
  <1>4. CASE begin
    <2>1. pc = "live" /\ journal = "none" /\ UNCHANGED legacy
      BY <1>4 DEF begin
    <2>2. \A p \in Journaled : Durable[p] = legacy[p]
      <3>1. \A p \in Journaled : Settled[p] = legacy[p]
        BY <2>1, PathFacts DEF Settled
      <3>2. schema # "none" => \A p \in Journaled : db[p] = legacy[p]
        BY <2>1 DEF Copies, Agreement, Agreeing
      <3> QED
        BY <3>1, <3>2, PathFacts DEF Durable, Inv, Phases
    <2>3. Durable["sequence"] = legacy["sequence"] /\ \A e \in Events : Durable[e] = legacy[e]
      BY <2>2, PathFacts
    <2>4. Numbered(legacy)
      BY <2>3, NumberedSame DEF Numbering
    <2> QED
      BY <2>1, <2>4
  <1>5. CASE commit_primary_transaction \/ operation_error \/ UNCHANGED vars
    <2>1. pc \in {"txn", "rollback", "primary"} /\ UNCHANGED legacy
      BY <1>5 DEF commit_primary_transaction, operation_error, files, vars
    <2> QED
      BY <2>1 DEF Numbering
  <1>6. ASSUME \/ Prepare \/ Settle \/ Migrate \/ acquire_migrate \/ end_command \/ crash
               \/ io_error \/ rollback_error \/ \E c \in Contents : direct_write(c)
        PROVE  FALSE
    <2>1. ~Prepare
      BY DEF Prepare, acquire, Lock, recover_primary_shadow, skip_dual_write, finish_dual_write,
             commit_retirement, retire_device_identity_shadow, begin_dual_write,
             restore_legacy_record, remove_identity_file, AfterShadow, AfterMirror, Goto
    <2>2. ~refuse
      BY DEF refuse, Refused, NothingToMirror, AfterError, Goto
    <2>3. ~Settle
      BY <2>2 DEF Settle, rollback, commit, clean_committed, confirm_primary_shadow, Goto
    <2> QED
      BY <1>6, <2>1, <2>3
      DEF end_command, Migrate, load_or_create_master_key, create_database,
          migrate_legacy_snapshot, acquire_migrate, Lock, crash, io_error, rollback_error,
          direct_write, AfterError, Goto
  <1> QED
    BY <1>1, <1>2, <1>3, <1>4, <1>5, <1>6 DEF Next, Transaction

\* The state changes by commits alone, and a commit takes over numbered work.
LEMMA NumberingStep ==
  ASSUME AtomicInv, [Next]_vars, [Atomic!Next]_(Atomic!vars) PROVE Numbering'
  <1> USE Zenon
  <1>1. \/ \A p \in Journaled : Durable'[p] = Durable[p]
        \/ TransactionOpen /\ \A p \in Journaled : Durable'[p] = Working[p]
    <2>1. \/ UNCHANGED [p \in Journaled |-> Durable[p]]
          \/ TransactionOpen /\ [p \in Journaled |-> Durable[p]]' = Working
      BY DEF Atomic!Next, Atomic!Begin, Atomic!Stage, Atomic!Commit, Atomic!Discard, Atomic!vars
    <2> QED
      BY <2>1
  <1>2. PICK t : t = Durable'
    OBVIOUS
  <1>3. Numbered(t)
    <2>1. CASE \A p \in Journaled : Durable'[p] = Durable[p]
      <3>1. t["sequence"] = Durable["sequence"] /\ \A e \in Events : t[e] = Durable[e]
        BY <1>2, <2>1, PathFacts
      <3>2. Numbered(Durable)
        BY DEF AtomicInv, Numbering
      <3> QED
        BY <3>1, <3>2, NumberedSame
    <2>2. CASE TransactionOpen /\ \A p \in Journaled : Durable'[p] = Working[p]
      <3>1. \A p \in Journaled : t[p] = legacy[p]
        BY <1>2, <2>2 DEF Working
      <3>2. t["sequence"] = legacy["sequence"] /\ \A e \in Events : t[e] = legacy[e]
        BY <3>1, PathFacts
      <3>3. Numbered(legacy)
        BY <2>2 DEF AtomicInv, Numbering, TransactionOpen
      <3> QED
        BY <3>2, <3>3, NumberedSame
    <2> QED
      BY <1>1, <2>1, <2>2
  <1>4. pc' \in {"txn", "rollback", "primary"} => Numbered(legacy')
    BY WorkingNumbered DEF AtomicInv
  <1> QED
    BY <1>2, <1>3, <1>4 DEF Numbering

\* What every behaviour keeps, the failing roll backs included.
LEMMA AtomicInvariant == Spec => []AtomicInv
  <1> USE Zenon
  <1>1. Init => AtomicInv
    BY InitInv, InitCopies DEF AtomicInv
  <1>2. AtomicInv /\ [Next]_vars => AtomicInv'
    <2> SUFFICES ASSUME AtomicInv, [Next]_vars PROVE AtomicInv'
      OBVIOUS
    <2>1. Inv'
      BY StepInv DEF AtomicInv
    <2>2. Copies'
      <3>1. pc = "txn" => Room
        BY NumberedRoom DEF AtomicInv, Numbering, Room
      <3> QED
        BY <3>1, CopiesStep DEF AtomicInv
    <2>3. Numbering'
      BY <2>1, <2>2, AtomicStep, NumberingStep DEF AtomicInv
    <2> QED
      BY <2>1, <2>2, <2>3 DEF AtomicInv
  <1> QED
    BY <1>1, <1>2, PTL DEF Spec

\* Every variable of the state vault has its type; next-sequence never outgrows the events.
THEOREM VaultTypeCorrect == Spec => []TypeOK
  <1>1. AtomicInv => TypeOK
    BY Zenon DEF AtomicInv, Copies
  <1> QED
    BY <1>1, AtomicInvariant, PTL

\* allocate_sequence under transactions, crashes and recoveries: two stored events never carry
\* the same number, and the next number is larger than all of them.
THEOREM SequenceIsNeverReused == Spec => []SequenceNeverReused
  <1>1. AtomicInv => SequenceNeverReused
    <2> SUFFICES ASSUME AtomicInv, NEW e \in Events, Durable[e] # Absent
                 PROVE  /\ Durable[e] < Durable["sequence"]
                        /\ \A f \in Events \ {e} : Durable[f] # Durable[e]
      BY Zenon DEF SequenceNeverReused
    <2>1. Numbered(Durable)
      BY Zenon DEF AtomicInv, Numbering
    <2>2. Durable["sequence"] \in Nat
      BY <2>1, NumberedBound, Zenon
    <2> QED
      BY <2>1, <2>2 DEF Numbered, Stored
  <1> QED
    BY <1>1, AtomicInvariant, PTL

\* commit_primary_transaction: the number that a transaction allocated is in the vault as soon
\* as the events are.
THEOREM SequenceIsInTheCommit == Spec => []SequenceJoinsCommit
  <1>1. AtomicInv => SequenceJoinsCommit
    BY PathFacts, Zenon DEF AtomicInv, Copies, Agreement, Agreeing, SequenceJoinsCommit
  <1> QED
    BY <1>1, AtomicInvariant, PTL

\* The journal, the vault, the two intents and the recoveries implement the atomic state: what
\* the next command works on changes when a transaction commits, to what it staged, and by no
\* crash, error, recovery, mirror or migration step.
THEOREM VaultIsAtomic == Spec => ImplementsAtomicState
  <1> USE Zenon
  <1>1. AtomicInv /\ Init => Atomic!Init
    <2> SUFFICES ASSUME AtomicInv, Init PROVE Atomic!Init
      OBVIOUS
    <2>1. TransactionOpen = FALSE
      BY DEF Init, TransactionOpen
    <2>2. Working = [p \in Journaled |-> Durable[p]]
      BY <2>1 DEF Working
    <2>3. \A p \in Journaled : Durable[p] \in Values
      BY Copied, PathFacts DEF AtomicInv, Copies, Durable, Settled
    <2> QED
      BY <2>1, <2>2, <2>3 DEF Atomic!Init, Atomic!States
  <1>2. AtomicInv /\ AtomicInv' /\ [Next]_vars => [Atomic!Next]_(Atomic!vars)
    BY AtomicStep DEF AtomicInv
  <1> QED
    BY <1>1, <1>2, AtomicInvariant, PTL DEF Spec, ImplementsAtomicState, Atomic!Spec
=============================================================================
