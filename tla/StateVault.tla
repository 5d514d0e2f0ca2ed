----------------------------- MODULE StateVault -----------------------------
(***************************************************************************)
(* A command that runs over a device state directory whose records are      *)
(* mirrored in the encrypted vault: the retained legacy files, the crash    *)
(* journal, the vault (crates/kilogram-state/src/vault.rs) and the guard    *)
(* and transaction wrappers of the command line                             *)
(* (apps/kilogram-cli/src/main.rs).                                         *)
(*                                                                         *)
(* The journal is the atomic one that StateJournal implements: while it is  *)
(* prepared, a roll back or a recovery puts undo back in one step.  A vault *)
(* write is one immediately durable database transaction, hence one step.   *)
(* The device holds one process at a time (the state lock); a crash or an   *)
(* I/O error may come before every step.                                    *)
(***************************************************************************)
EXTENDS Naturals, FiniteSets

CONSTANTS
    Contents,       \* contents of the ratchet tree, the trust files and other files
    Events,         \* append-only records; the content of one is its sequence number
    Identity,       \* the plaintext files with the device secrets
    Absent,         \* the record or file does not exist
    Key,            \* the content of an identity record
    Faults,         \* what may go wrong: subset of {"crash", "io", "rollback"}
    MaxFaults,      \* bound on faults in one behaviour
    MaxGeneration   \* bound on the generation at which a command may still write

Numbers == 0..Cardinality(Events)
Mutable == {"ratchet", "sequence", "trust"}
Journaled == Mutable \cup Events
Data == Journaled \cup {"other"}
Paths == Data \cup Identity
Values == Contents \cup Numbers \cup {Absent, Key}
NoIntent == 0

ASSUME PathsAssumption == /\ Events \cap (Identity \cup Mutable \cup {"other"}) = {}
                          /\ Identity \cap (Mutable \cup {"other"}) = {}
                          /\ IsFiniteSet(Events)
ASSUME ValuesAssumption == /\ Absent \notin Contents \cup Numbers \cup {Key}
                           /\ Contents # {}
ASSUME BoundsAssumption == MaxFaults \in Nat /\ MaxGeneration \in Nat

VARIABLES
    legacy,        \* the retained files: Paths -> Values
    undo,          \* what the journal restores: Journaled -> Values
    begun,         \* next-sequence in backup/, as begin found it
    workspaces,    \* the mutable state the open transaction works on
    journal,       \* "none", "prepared" or "committed"
    created,       \* the vault's files: "none", "key" (no database yet) or "database"
    schema,        \* its manifest: "none", "indexed" (an older build's) or "current"
    db,            \* its records: Paths -> Values
    generation,
    mirror,        \* mirror-intent-v1: the generation it is bound to, or NoIntent
    shadow,        \* primary-shadow-intent-v1: likewise
    pc,            \* the step the process is at; "down" when there is none
    acknowledged,  \* history: the events reported to a caller as stored
    faults         \* history: faults so far

vault == <<created, schema, db, generation, mirror, shadow>>
files == <<legacy, undo, begun, workspaces, journal>>
history == <<acknowledged, faults>>
vars == <<files, vault, pc, history>>

Pcs == {"down", "prepare_shadow", "prepare_mirror", "retire", "begin",
        "migrate", "migrate_retire", "live", "txn", "rollback", "primary", "cleanup", "confirm",
        "finish_shadow", "finish_mirror"}

Init ==
    /\ legacy \in {[p \in Paths |-> IF p \in Events THEN Absent
                                    ELSE IF p \in Identity THEN Key
                                    ELSE IF p = "sequence" THEN 0 ELSE c] : c \in Contents}
    /\ undo = [p \in Journaled |-> Absent]
    /\ begun = Absent
    /\ workspaces = {}
    /\ journal = "none"
    /\ schema \in {"none", "indexed"}
    /\ created = IF schema = "none" THEN "none" ELSE "database"
    /\ db = IF schema = "none" THEN [p \in Paths |-> Absent] ELSE legacy
    /\ generation = IF schema = "none" THEN 0 ELSE 1
    /\ mirror \in {NoIntent, generation}
    /\ shadow = NoIntent
    /\ pc = "down"
    /\ acknowledged = [e \in Events |-> Absent]
    /\ faults = 0
-----------------------------------------------------------------------------
(* What the state directory means.                                         *)

\* typed_shadow_reports: the retained files agree with the vault; once the identity shadow
\* is retired the secrets live in the vault alone.
Compared == IF schema = "current" THEN Data ELSE Paths
Verified == /\ \A p \in Compared : legacy[p] = db[p]
            /\ schema = "current" => \A p \in Identity : legacy[p] = Absent

\* What the journal's recovery makes of the retained files.
Settled == [p \in Data |-> IF journal = "prepared" /\ p \in Journaled THEN undo[p] ELSE legacy[p]]

\* The state every later command will work on: the vault wins after a primary commit.
Durable == IF shadow # NoIntent THEN [p \in Data |-> db[p]] ELSE Settled

Goto(step) == pc' = step /\ UNCHANGED history
-----------------------------------------------------------------------------
(* StateDirectoryLock::acquire and VaultDualWriteGuard::prepare.           *)

\* The journal is settled under the lock before the command goes on.
Lock(step) ==
    /\ pc = "down"
    /\ legacy' = [p \in Paths |-> IF p \in Data THEN Settled[p] ELSE legacy[p]]
    /\ journal' = "none"
    /\ Goto(step)
    /\ UNCHANGED <<undo, begun, workspaces, vault>>

\* A command under the guard, which looks for the vault's files first (is_initialized).
acquire == Lock(IF created = "none" THEN "live" ELSE "prepare_shadow")

\* state-vault-migrate runs without the guard.
acquire_migrate == Lock("migrate")

AfterShadow == IF pc = "prepare_shadow" THEN "prepare_mirror" ELSE "finish_mirror"

\* Mutant: the intent is dropped without restoring the files.
recover_primary_shadowDropsIntent ==
    /\ pc \in {"prepare_shadow", "finish_shadow"} /\ created = "database"
    /\ shadow' = NoIntent
    /\ Goto(AfterShadow)
    /\ UNCHANGED <<files, created, schema, db, generation, mirror>>

\* The checks of recover_primary_shadow_internal before it touches a file.
ShadowRestorable == journal = "none" /\ shadow = generation /\ mirror = generation

\* recover_primary_shadow when nothing is pending, and its end when the files match again.
recover_primary_shadow ==
    /\ pc \in {"prepare_shadow", "finish_shadow"} /\ created = "database"
    /\ shadow = NoIntent \/ (ShadowRestorable /\ Verified)
    /\ shadow' = NoIntent
    /\ Goto(AfterShadow)
    /\ UNCHANGED <<files, created, schema, db, generation, mirror>>

\* restore_legacy_shadow, one record at a time: the old file is removed before the new one
\* is put in place.
restore_legacy_record(p) ==
    /\ pc \in {"prepare_shadow", "finish_shadow"}
    /\ shadow # NoIntent /\ ShadowRestorable
    /\ p \in Compared /\ legacy[p] # db[p]
    /\ \E v \in {Absent, db[p]} \ {legacy[p]} : legacy' = [legacy EXCEPT ![p] = v]
    /\ UNCHANGED <<undo, begun, workspaces, journal, vault, pc, history>>

\* finish_dual_write_internal without a record to mirror, and recover_pending_dual_write
\* without an intent.
NothingToMirror == mirror = NoIntent /\ pc = "prepare_mirror"
AfterMirror == IF pc = "prepare_mirror" THEN "retire" ELSE "down"

\* Mutant: the identity records of the vault are not carried over.
RetainedRecordsFilesOnly == legacy

\* records_from_retained_shadow
RetainedRecords == [p \in Paths |-> IF schema = "current" /\ p \in Identity THEN db[p]
                                                                           ELSE legacy[p]]
IdentityMatches == \A p \in Identity : legacy[p] \in {Absent, db[p]}
WithoutIdentity == [p \in Paths |-> IF schema = "current" /\ p \in Identity THEN Absent
                                                                           ELSE legacy[p]]

\* The checks of finish_dual_write_internal: the intent is bound to the active snapshot and
\* no trust record changed behind the vault's back.
MirrorAccepted == /\ mirror # NoIntent /\ mirror = generation
                  /\ schema = "current" => IdentityMatches
                  /\ legacy["trust"] = db["trust"]

skip_dual_write ==
    /\ NothingToMirror
    /\ Goto("retire")
    /\ UNCHANGED <<files, vault>>

\* Mutant: the records are mirrored and the intent stays.
finish_dual_writeKeepsIntent ==
    /\ pc \in {"prepare_mirror", "finish_mirror"}
    /\ mirror # NoIntent
    /\ db' = RetainedRecords
    /\ Goto(AfterMirror)
    /\ UNCHANGED <<files, created, schema, generation, mirror, shadow>>

finish_dual_write ==
    /\ pc \in {"prepare_mirror", "finish_mirror"}
    /\ MirrorAccepted
    /\ legacy' = WithoutIdentity
    /\ db' = RetainedRecords
    /\ generation' = IF db' = db /\ schema = "current" THEN generation ELSE generation + 1
    /\ mirror' = NoIntent
    /\ schema' = "current"
    /\ Goto(IF schema # "current" /\ \E p \in Identity : legacy[p] # Absent
            THEN "down" ELSE AfterMirror)
    /\ UNCHANGED <<undo, begun, workspaces, journal, created, shadow>>

\* retire_device_identity_shadow: the schema is upgraded first, then the plaintext secrets go.
commit_retirement ==
    /\ pc \in {"retire", "migrate_retire"}
    /\ schema = "indexed" /\ mirror = NoIntent /\ shadow = NoIntent
    /\ \A p \in Data : legacy[p] = db[p]
    /\ IdentityMatches
    /\ schema' = "current"
    /\ generation' = generation + 1
    /\ UNCHANGED <<files, created, db, mirror, shadow, pc, history>>

remove_identity_file(p) ==
    /\ pc \in {"retire", "migrate_retire"}
    /\ schema = "current" /\ mirror = NoIntent /\ shadow = NoIntent
    /\ legacy[p] # Absent /\ legacy[p] = db[p]
    /\ legacy' = [legacy EXCEPT ![p] = Absent]
    /\ UNCHANGED <<undo, begun, workspaces, journal, vault, pc, history>>

retire_device_identity_shadow ==
    /\ pc \in {"retire", "migrate_retire"}
    /\ schema = "current" /\ mirror = NoIntent /\ shadow = NoIntent
    /\ Verified
    /\ Goto(IF pc = "retire" THEN "begin" ELSE "down")
    /\ UNCHANGED <<files, vault>>

begin_dual_write ==
    /\ pc = "begin"
    /\ mirror = NoIntent /\ shadow = NoIntent
    /\ Verified
    /\ mirror' = generation
    /\ Goto("live")
    /\ UNCHANGED <<files, created, schema, db, generation, shadow>>
-----------------------------------------------------------------------------
(* migrate_state_vault: the key file, the database file and the first       *)
(* snapshot come one after the other.                                       *)

load_or_create_master_key ==
    /\ pc = "migrate" /\ created = "none"
    /\ created' = "key"
    /\ UNCHANGED <<files, schema, db, generation, mirror, shadow, pc, history>>

create_database ==
    /\ pc = "migrate" /\ created = "key"
    /\ created' = "database"
    /\ UNCHANGED <<files, schema, db, generation, mirror, shadow, pc, history>>

\* A vault that has a manifest is only verified; the identity shadow is retired either way.
migrate_legacy_snapshot ==
    /\ pc = "migrate" /\ created = "database"
    /\ mirror = NoIntent /\ shadow = NoIntent
    /\ IF schema = "none"
       THEN db' = legacy /\ schema' = "current" /\ generation' = 1
       ELSE UNCHANGED <<schema, db, generation>>
    /\ Goto("migrate_retire")
    /\ UNCHANGED <<files, created, mirror, shadow>>
-----------------------------------------------------------------------------
(* Commands and their transactions: run_state_transaction.                 *)

\* A command writes a file outside every transaction.
direct_write(c) ==
    /\ pc = "live"
    /\ generation < MaxGeneration
    /\ legacy["other"] # c
    /\ legacy' = [legacy EXCEPT !["other"] = c]
    /\ UNCHANGED <<undo, begun, workspaces, journal, vault, pc, history>>

\* Mutant: begin keeps the backups of the transaction before.
beginKeepsBackup ==
    /\ pc = "live"
    /\ journal = "none"
    /\ generation < MaxGeneration
    /\ undo' = IF begun = Absent THEN [p \in Journaled |-> legacy[p]] ELSE undo
    /\ begun' = legacy["sequence"]
    /\ workspaces' = {}
    /\ journal' = "prepared"
    /\ Goto("txn")
    /\ UNCHANGED <<legacy, vault>>

begin ==
    /\ pc = "live"
    /\ journal = "none"
    /\ generation < MaxGeneration
    /\ undo' = [p \in Journaled |-> legacy[p]]
    /\ begun' = legacy["sequence"]
    /\ workspaces' = {}
    /\ journal' = "prepared"
    /\ Goto("txn")
    /\ UNCHANGED <<legacy, vault>>

\* CommandTransactionContext: the first use of mutable state copies it from the vault, into
\* the journal's primary backup and over the retained files.
prepare_workspace(s) ==
    /\ pc = "txn"
    /\ s \notin workspaces
    /\ workspaces' = workspaces \cup {s}
    /\ \/ schema = "none" /\ UNCHANGED <<legacy, undo>>
       \/ /\ schema # "none" /\ shadow = NoIntent /\ mirror = generation
          /\ legacy' = [legacy EXCEPT ![s] = db[s]]
          /\ undo' = [undo EXCEPT ![s] = db[s]]
    /\ UNCHANGED <<begun, journal, vault, pc, history>>

stage(s, c) ==
    /\ pc = "txn"
    /\ s \in workspaces /\ legacy[s] # c
    /\ legacy' = [legacy EXCEPT ![s] = c]
    /\ UNCHANGED <<undo, begun, workspaces, journal, vault, pc, history>>

\* allocate_sequence, and the event that carries the number.
stage_event(e) ==
    /\ pc = "txn"
    /\ "sequence" \in workspaces /\ legacy[e] = Absent
    /\ legacy' = [legacy EXCEPT ![e] = legacy["sequence"], !["sequence"] = @ + 1]
    /\ UNCHANGED <<undo, begun, workspaces, journal, vault, pc, history>>

\* Mutant: next-sequence is left out of the delta.
staged_mutationsWithoutSequence ==
    {p \in Journaled \ {"sequence"} : legacy[p] # undo[p]}

\* staged_mutations: the ratchet and trust workspaces against their baseline, next-sequence
\* against the file begin saved, and the registered new records.
staged_mutations ==
    {p \in Journaled \ {"sequence"} : legacy[p] # undo[p]}
    \cup {p \in {"sequence"} : legacy[p] # begun}

PrimaryAllowed == schema = "none" \/ (shadow = NoIntent /\ mirror = generation)

commit_primary_transaction ==
    /\ pc = "txn"
    /\ PrimaryAllowed
    /\ IF schema = "none" THEN UNCHANGED vault
       ELSE /\ db' = [p \in Paths |-> IF p \in staged_mutations THEN legacy[p] ELSE db[p]]
            /\ generation' = IF db' = db THEN generation ELSE generation + 1
            /\ mirror' = generation'
            /\ shadow' = IF db' = db THEN NoIntent ELSE generation'
            /\ UNCHANGED <<created, schema>>
    /\ Goto("primary")
    /\ UNCHANGED files

\* The operation, or the primary commit, returned an error.
operation_error ==
    /\ pc = "txn"
    /\ Goto("rollback")
    /\ UNCHANGED <<files, vault>>

rollback ==
    /\ pc = "rollback"
    /\ legacy' = [p \in Paths |-> IF p \in Data THEN Settled[p] ELSE legacy[p]]
    /\ journal' = "none"
    /\ Goto("live")
    /\ UNCHANGED <<undo, begun, workspaces, vault>>

\* StateTransaction::commit: the marker decides, then the journal is removed.
commit ==
    /\ pc = "primary"
    /\ journal' = "committed"
    /\ Goto("cleanup")
    /\ UNCHANGED <<legacy, undo, begun, workspaces, vault>>

\* The caller of a finished transaction learns of the events it stored.
Acknowledge == acknowledged' = [e \in Events |-> legacy[e]] /\ UNCHANGED faults

clean_committed ==
    /\ pc = "cleanup"
    /\ journal' = "none"
    /\ IF schema = "none" THEN pc' = "live" /\ Acknowledge ELSE Goto("confirm")
    /\ UNCHANGED <<legacy, undo, begun, workspaces, vault>>

confirm_primary_shadow ==
    /\ pc = "confirm"
    /\ Verified /\ mirror = generation /\ shadow \in {NoIntent, generation}
    /\ shadow' = NoIntent
    /\ pc' = "live"
    /\ Acknowledge
    /\ UNCHANGED <<files, created, schema, db, generation, mirror>>

\* The command is over, with or without an error: VaultDualWriteGuard::finish runs.
end_command ==
    /\ pc = "live"
    /\ Goto(IF schema = "none" THEN "down" ELSE "finish_shadow")
    /\ UNCHANGED <<files, vault>>
-----------------------------------------------------------------------------
(* Refusals, failures and crashes.                                         *)

\* A check fails and the call returns an error: nothing is written.
Refused ==
    \/ pc = "prepare_shadow" /\ created = "key"
    \/ pc = "migrate" /\ (mirror # NoIntent \/ shadow # NoIntent)
    \/ /\ pc \in {"prepare_shadow", "finish_shadow"} /\ shadow # NoIntent
       /\ ~ShadowRestorable \/ (~Verified /\ \A p \in Compared : legacy[p] = db[p])
    \/ pc \in {"prepare_mirror", "finish_mirror"} /\ ~MirrorAccepted /\ ~NothingToMirror
    \/ /\ pc \in {"retire", "migrate_retire"}
       /\ \/ schema = "none" \/ mirror # NoIntent \/ shadow # NoIntent \/ ~IdentityMatches
          \/ /\ \E p \in Data : legacy[p] # db[p]
             /\ schema = "indexed" \/ \A p \in Identity : legacy[p] = Absent
    \/ pc = "begin" /\ ~(mirror = NoIntent /\ shadow = NoIntent /\ Verified)
    \/ pc = "confirm" /\ ~(Verified /\ mirror = generation)

\* Where the process goes when the step it is at returns an error.
AfterError == CASE pc \in {"primary", "cleanup", "confirm"} -> "live"
                [] pc = "txn" -> "rollback"
                [] OTHER -> "down"

refuse ==
    /\ Refused
    /\ Goto(AfterError)
    /\ UNCHANGED <<files, vault>>

Fault(kind) == /\ kind \in Faults /\ faults < MaxFaults
               /\ faults' = faults + 1 /\ UNCHANGED acknowledged

io_error ==
    /\ pc \notin {"down", "live", "txn", "rollback"}
    /\ Fault("io")
    /\ pc' = AfterError
    /\ UNCHANGED <<files, vault>>

\* rollback_active stops with an error after restoring some of the state: the journal stays.
rollback_error ==
    /\ pc = "rollback"
    /\ Fault("rollback")
    /\ \E done \in {{}, {"ratchet"}, {"ratchet", "sequence"}, Mutable} :
          legacy' = [p \in Paths |-> IF p \in done THEN undo[p] ELSE legacy[p]]
    /\ pc' = "live"
    /\ UNCHANGED <<undo, begun, workspaces, journal, vault>>

crash ==
    /\ pc # "down"
    /\ Fault("crash")
    /\ pc' = "down"
    /\ UNCHANGED <<files, vault>>

Prepare == \/ acquire \/ recover_primary_shadow \/ skip_dual_write \/ finish_dual_write
           \/ commit_retirement \/ retire_device_identity_shadow \/ begin_dual_write
           \/ \E p \in Paths : restore_legacy_record(p)
           \/ \E p \in Identity : remove_identity_file(p)

Transaction == \/ \E s \in Mutable : prepare_workspace(s)
               \/ \E s \in {"ratchet", "trust"}, c \in Contents : stage(s, c)
               \/ \E e \in Events : stage_event(e)
               \/ commit_primary_transaction \/ operation_error

Settle == rollback \/ commit \/ clean_committed \/ confirm_primary_shadow \/ refuse

Migrate == load_or_create_master_key \/ create_database \/ migrate_legacy_snapshot

Next == \/ Prepare \/ Transaction \/ Settle \/ Migrate
        \/ acquire_migrate \/ begin \/ end_command
        \/ \E c \in Contents : direct_write(c)
        \/ io_error \/ rollback_error \/ crash

Spec == Init /\ [][Next]_vars

\* The process that has the lock keeps running, its transactions end, its commands end, and
\* a command under the guard comes again and again, between migrations too.
Fairness == /\ SF_vars(acquire) /\ WF_vars(Prepare) /\ WF_vars(Settle) /\ WF_vars(Migrate)
            /\ WF_vars(end_command)
            /\ WF_vars(operation_error \/ commit_primary_transaction)
-----------------------------------------------------------------------------
(* Properties.                                                             *)

\* Every variable has the type its declaration states.
TypeOK ==
    /\ legacy \in [Paths -> Values] /\ db \in [Paths -> Values]
    /\ undo \in [Journaled -> Values] /\ begun \in Values
    /\ workspaces \subseteq Mutable
    /\ journal \in {"none", "prepared", "committed"}
    /\ created \in {"none", "key", "database"} /\ schema \in {"none", "indexed", "current"}
    /\ generation \in Nat /\ mirror \in 0..generation /\ shadow \in 0..generation
    /\ pc \in Pcs
    /\ acknowledged \in [Events -> Values]
    /\ faults \in 0..MaxFaults

\* The transaction that has not taken effect yet, and the state it works on.
TransactionOpen == /\ pc \in {"txn", "rollback", "primary"}
                   /\ journal = "prepared" /\ shadow = NoIntent
Working == [p \in Journaled |-> IF TransactionOpen THEN legacy[p] ELSE Durable[p]]

Atomic == INSTANCE AtomicState WITH Paths <- Journaled, Permanent <- Events,
              durable <- [p \in Journaled |-> Durable[p]],
              staged <- Working, open <- TransactionOpen

\* Journal, vault and recoveries together implement the atomic state: what the next command
\* will work on changes in one step, when a transaction commits, to exactly what the
\* transaction staged, and no crash, error, recovery or mirror step alters it.
ImplementsAtomicState == Atomic!Spec

\* An event whose storage was reported to the caller stays in the state with its sequence
\* number, whatever crashes and recoveries follow.
AcknowledgedIsDurable ==
    \A e \in Events : acknowledged[e] # Absent => Durable[e] = acknowledged[e]

\* Two stored events never carry the same sequence number, and the next number to be allocated
\* is larger than all of them.
SequenceNeverReused ==
    \A e \in Events : Durable[e] # Absent =>
        /\ Durable[e] < Durable["sequence"]
        /\ \A f \in Events \ {e} : Durable[f] # Durable[e]

\* The number a transaction allocated enters the vault in the same commit as the event that
\* carries it.
SequenceJoinsCommit ==
    pc = "primary" /\ schema # "none" /\ "sequence" \in workspaces
        => db["sequence"] = legacy["sequence"]

\* When no intent is pending, the vault holds exactly the state that the files will have once
\* the journal has been settled: the mirror takes over committed state only.
QuiescentVaultIsDurable ==
    schema # "none" /\ mirror = NoIntent /\ shadow = NoIntent
        => \A p \in Data : db[p] = Durable[p]

\* Retiring the plaintext identity never loses a device secret: at every moment it is in its
\* file or in the vault.
IdentityNeverLost ==
    \A p \in Identity : legacy[p] = Key \/ (schema # "none" /\ db[p] = Key)

\* The next command always gets to run: no crash, error or failing roll back leaves the
\* files, the journal and the two intents in a state that the guard refuses for ever, but for
\* a migration that was interrupted before its snapshot (only another migration helps) and a
\* vault that took over state which was never committed.
CommandsKeepRunning ==
    []<>(pc = "live" \/ (created # "none" /\ schema = "none") \/ ~QuiescentVaultIsDurable)
=============================================================================
