---------------------------- MODULE StateJournal ----------------------------
(***************************************************************************)
(* The crash journal of a device state directory                           *)
(* (crates/kilogram-state/src/lib.rs): the exclusive lock, the transaction  *)
(* with its backups, manifest and markers, roll back, and the recovery      *)
(* that every lock acquisition runs.                                        *)
(*                                                                         *)
(* A step of the model is one durable change of the directory.  A crash or  *)
(* an I/O error may come before every step.  A tree that is being removed,  *)
(* copied or rewritten holds the value Torn from the first file touched to  *)
(* the last one, so Torn stands for every mixture of old, new and missing   *)
(* files that an interruption can leave behind.                             *)
(***************************************************************************)
EXTENDS Naturals

CONSTANTS
    Contents,       \* contents of the ratchet tree, next-sequence, the trust files, a record
    Events,         \* append-only records that are never removed (events, local-messages, ...)
    Runtime,        \* append-only records under runtime/, which may be compacted away
    Absent,         \* the path does not exist
    Torn,           \* an incomplete tree or file
    Empty,          \* an existing directory without a file (the backup of no trust files)
    DeletedBefore,  \* pairs <<a, b>>: the directory listing yields entry a before entry b
    MaxFaults       \* bound on crashes and I/O errors in one behaviour

Mutable == {"ratchet", "sequence"}
Slots == Mutable \cup {"trust"}
AppendOnly == Events \cup Runtime
Paths == Slots \cup AppendOnly
Values == Contents \cup {Absent, Torn, Empty}

Markers == {"prepared", "committed", "rolled-back"}
Entries == Markers \cup {"manifest.json", "backup", "primary-backup",
                         "append-only-compaction-backup"}

\* TransactionManifest; primary[s] is "no" for a workspace that was not prepared,
\* otherwise it tells whether the workspace has a backup to restore.
Manifest == [existed    : [Mutable -> BOOLEAN],
             primary    : [Slots -> {"no", "present", "absent"}],
             appendOnly : SUBSET AppendOnly,
             compacted  : SUBSET Runtime]

ASSUME ContentsAssumption ==
    /\ Contents \cap {Absent, Torn, Empty} = {}
    /\ Absent # Torn /\ Absent # Empty /\ Torn # Empty
    /\ Absent \notin Manifest
ASSUME PathsAssumption ==
    /\ Events \cap Runtime = {}
    /\ AppendOnly \cap Slots = {}
    /\ Absent \notin Paths
ASSUME FaultsAssumption == MaxFaults \in Nat
ASSUME OrderAssumption == DeletedBefore \subseteq Entries \X Entries

VARIABLES
    fs,          \* the live state files: Paths -> Values
    active,      \* whether .kilogram-transactions/active exists
    marks,       \* the marker files in it
    manifest,    \* manifest.json in it, or Absent
    backup,      \* backup/: Mutable -> Values
    primary,     \* primary-backup/: Slots -> Values
    compaction,  \* append-only-compaction-backup/: Runtime -> Values
    session,     \* the process that has the lock: "none", "acquiring" or "live"
    pc,          \* the next step of its running call
    cur,         \* the workspace slot or the record that call works on
    base,        \* the workspace baseline that call writes
    decision,    \* history: the terminal marker written for the last transaction
    faults       \* history: crashes and I/O errors so far

journal == <<active, marks, manifest, backup, primary, compaction>>
process == <<session, pc, cur, base>>
vars == <<fs, journal, process, decision, faults>>

OpenPcs == {"open", "wsBackup", "wsManifest", "wsClear", "wsWrite",
            "compactBackup", "compactManifest", "compactRemove"}
RollbackPcs == {"rbRatchet", "rbRatchetCopy", "rbSequence", "rbSequenceCopy", "rbTrust",
                "rbTrustWrite", "rbAppendOnly", "rbCompacted", "rbCompactedCopy", "rbMark"}
Pcs == {"idle", "recover", "snapshot", "manifest", "prepare", "rbCheck", "cleanup"}
       \cup OpenPcs \cup RollbackPcs

Init ==
    /\ fs \in [Paths -> Contents \cup {Absent}]
    /\ active = FALSE
    /\ marks = {}
    /\ manifest = Absent
    /\ backup = [s \in Mutable |-> Absent]
    /\ primary = [s \in Slots |-> Absent]
    /\ compaction = [f \in Runtime |-> Absent]
    /\ session = "none"
    /\ pc = "idle"
    /\ cur = Absent
    /\ base = Absent
    /\ decision = "none"
    /\ faults = 0
-----------------------------------------------------------------------------
(* What the journal means.                                                 *)

\* Mutant: recover looks for the prepared marker only.
RollbackPendingIgnoresCommit == active /\ "prepared" \in marks

\* The condition under which recover rolls the journal back.
RollbackPending == /\ active
                   /\ "prepared" \in marks
                   /\ "committed" \notin marks
                   /\ "rolled-back" \notin marks

\* The backup rollback_active restores mutable state from, and whether there is one.
SourceExisted(s) == IF manifest.primary[s] = "no" THEN manifest.existed[s]
                                                  ELSE manifest.primary[s] = "present"
Source(s) == IF manifest.primary[s] = "no" THEN backup[s] ELSE primary[s]

RestoredMutable(s) == IF SourceExisted(s) THEN Source(s) ELSE Absent
RestoredTrust == IF manifest.primary["trust"] = "no" THEN fs["trust"]
                 ELSE IF primary["trust"] = Empty THEN Absent ELSE primary["trust"]
RestoredRecord(f) == IF f \notin manifest.appendOnly THEN Absent
                     ELSE IF f \in manifest.compacted THEN compaction[f] ELSE fs[f]

Restored == [p \in Paths |-> IF p \in Mutable THEN RestoredMutable(p)
                             ELSE IF p = "trust" THEN RestoredTrust
                             ELSE RestoredRecord(p)]

\* The state the next lock holder gets to see: the abstract value of the directory.
Recovered == IF RollbackPending THEN Restored ELSE fs
-----------------------------------------------------------------------------
(* StateDirectoryLock::acquire and recover.                                *)

\* try_lock succeeds: nobody holds the lock.
Acquire ==
    /\ session = "none"
    /\ session' = "acquiring"
    /\ pc' = "recover"
    /\ UNCHANGED <<fs, journal, cur, base, decision, faults>>

\* Dropping the lock, between two transactions.
Release ==
    /\ session = "live" /\ pc = "idle"
    /\ session' = "none"
    /\ UNCHANGED <<fs, journal, pc, cur, base, decision, faults>>

\* The call returns Ok: recover hands out the lock.
Return == pc' = "idle" /\ session' = "live"
\* The call returns Err: a failing recover drops the lock.
ReturnError == /\ pc' = "idle"
               /\ session' = IF session = "acquiring" THEN "none" ELSE "live"

\* Mutant: a finished journal is left in place.
recoverSkipsCleanup ==
    /\ pc = "recover"
    /\ \/ ~RollbackPending /\ Return
       \/ RollbackPending /\ manifest # Absent /\ pc' = "rbCheck" /\ UNCHANGED session
       \/ RollbackPending /\ manifest = Absent /\ ReturnError
    /\ UNCHANGED <<fs, journal, cur, base, decision, faults>>

recover ==
    /\ pc = "recover"
    /\ \/ ~active /\ Return
       \/ active /\ ~RollbackPending /\ pc' = "cleanup" /\ UNCHANGED session
       \/ RollbackPending /\ manifest # Absent /\ pc' = "rbCheck" /\ UNCHANGED session
       \/ RollbackPending /\ manifest = Absent /\ ReturnError
    /\ UNCHANGED <<fs, journal, cur, base, decision, faults>>
-----------------------------------------------------------------------------
(* StateTransaction::begin.                                                *)

\* begin refuses while a journal exists (TransactionAlreadyActive).
Begin ==
    /\ session = "live" /\ pc = "idle" /\ ~active
    /\ active' = TRUE
    /\ backup' = [s \in Mutable |-> IF fs[s] = Absent THEN Absent ELSE Torn]
    /\ pc' = "snapshot"
    /\ decision' = "none"
    /\ UNCHANGED <<fs, marks, manifest, primary, compaction, session, cur, base, faults>>

prepare_snapshot ==
    /\ pc = "snapshot"
    /\ backup' = [s \in Mutable |-> fs[s]]
    /\ pc' = "manifest"
    /\ UNCHANGED <<fs, active, marks, manifest, primary, compaction, session, cur, base,
                   decision, faults>>

BeginManifest ==
    /\ pc = "manifest"
    /\ manifest' = [existed    |-> [s \in Mutable |-> fs[s] # Absent],
                    primary    |-> [s \in Slots |-> "no"],
                    appendOnly |-> {f \in AppendOnly : fs[f] # Absent},
                    compacted  |-> {}]
    /\ pc' = "prepare"
    /\ UNCHANGED <<fs, active, marks, backup, primary, compaction, session, cur, base,
                   decision, faults>>

BeginPrepared ==
    /\ pc = "prepare"
    /\ marks' = marks \cup {"prepared"}
    /\ pc' = "open"
    /\ UNCHANGED <<fs, active, manifest, backup, primary, compaction, session, cur, base,
                   decision, faults>>
-----------------------------------------------------------------------------
(* The open transaction: staged writes, workspaces, compaction.            *)

\* Mutant: trust files are written without a prepared workspace.
StageUnprepared(s, c) ==
    /\ pc = "open"
    /\ fs' = [fs EXCEPT ![s] = c]
    /\ UNCHANGED <<journal, process, decision, faults>>

\* The operation rewrites mutable state in place; trust files only after
\* their workspace was prepared.
Stage(s, c) ==
    /\ pc = "open"
    /\ s = "trust" => manifest.primary["trust"] # "no"
    /\ fs' = [fs EXCEPT ![s] = c]
    /\ UNCHANGED <<journal, process, decision, faults>>

\* A repository writes a new record (noclobber) and registers it.
register_append_only_write(f, c) ==
    /\ pc = "open"
    /\ fs[f] = Absent
    /\ f \notin manifest.compacted
    /\ fs' = [fs EXCEPT ![f] = c]
    /\ UNCHANGED <<journal, process, decision, faults>>

\* Mutant: the manifest names the workspace before its backup is written.
prepare_workspaceManifestFirst(s, b) ==
    /\ pc = "open"
    /\ manifest.primary[s] = "no"
    /\ manifest' = [manifest EXCEPT !.primary[s] = "present"]
    /\ cur' = s /\ base' = b
    /\ pc' = "wsBackup"
    /\ UNCHANGED <<fs, active, marks, primary, backup, compaction, session, decision, faults>>

\* prepare_*_workspace: back the baseline up, note it in the manifest, and
\* replace the live files with the baseline.
prepare_workspace(s, b) ==
    /\ pc = "open"
    /\ manifest.primary[s] = "no"
    /\ primary' = [primary EXCEPT ![s] = Torn]
    /\ cur' = s /\ base' = b
    /\ pc' = "wsBackup"
    /\ UNCHANGED <<fs, active, marks, manifest, backup, compaction, session, decision, faults>>

\* The baselines: the vault's ratchet and next-sequence, which are those the
\* transaction started from, and the live trust files.
prepare_ratchet_workspace == prepare_workspace("ratchet", RestoredMutable("ratchet"))
prepare_sequence_workspace == prepare_workspace("sequence", RestoredMutable("sequence"))
prepare_legacy_trust_workspace == prepare_workspace("trust", fs["trust"])

WorkspaceBackup ==
    /\ pc = "wsBackup"
    /\ primary' = [primary EXCEPT ![cur] = IF cur = "trust" /\ base = Absent THEN Empty ELSE base]
    /\ pc' = "wsManifest"
    /\ UNCHANGED <<fs, active, marks, manifest, backup, compaction, session, cur, base,
                   decision, faults>>

WorkspaceManifest ==
    /\ pc = "wsManifest"
    /\ manifest' = [manifest EXCEPT !.primary[cur] =
                        IF cur = "trust" \/ base # Absent THEN "present" ELSE "absent"]
    /\ pc' = "wsClear"
    /\ UNCHANGED <<fs, active, marks, backup, primary, compaction, session, cur, base,
                   decision, faults>>

WorkspaceClear ==
    /\ pc = "wsClear"
    /\ fs' = [fs EXCEPT ![cur] = Torn]
    /\ pc' = "wsWrite"
    /\ UNCHANGED <<journal, session, cur, base, decision, faults>>

WorkspaceWrite ==
    /\ pc = "wsWrite"
    /\ fs' = [fs EXCEPT ![cur] = base]
    /\ pc' = "open" /\ cur' = Absent /\ base' = Absent
    /\ UNCHANGED <<journal, session, decision, faults>>

\* Mutant: the manifest names the record before its backup is complete.
compact_runtime_recordManifestFirst(f) ==
    /\ pc = "open"
    /\ f \in manifest.appendOnly \ manifest.compacted
    /\ compaction' = [compaction EXCEPT ![f] = Torn]
    /\ manifest' = [manifest EXCEPT !.compacted = @ \cup {f}]
    /\ cur' = f
    /\ pc' = "compactBackup"
    /\ UNCHANGED <<fs, active, marks, backup, primary, session, base, decision, faults>>

\* compact_runtime_record: only a record of the begin snapshot, once.
compact_runtime_record(f) ==
    /\ pc = "open"
    /\ f \in manifest.appendOnly \ manifest.compacted
    /\ compaction' = [compaction EXCEPT ![f] = Torn]
    /\ cur' = f
    /\ pc' = "compactBackup"
    /\ UNCHANGED <<fs, active, marks, manifest, backup, primary, session, base, decision, faults>>

CompactBackup ==
    /\ pc = "compactBackup"
    /\ compaction' = [compaction EXCEPT ![cur] = fs[cur]]
    /\ pc' = "compactManifest"
    /\ UNCHANGED <<fs, active, marks, manifest, backup, primary, session, cur, base,
                   decision, faults>>

CompactManifest ==
    /\ pc = "compactManifest"
    /\ manifest' = [manifest EXCEPT !.compacted = @ \cup {cur}]
    /\ pc' = "compactRemove"
    /\ UNCHANGED <<fs, active, marks, backup, primary, compaction, session, cur, base,
                   decision, faults>>

CompactRemove ==
    /\ pc = "compactRemove"
    /\ fs' = [fs EXCEPT ![cur] = Absent]
    /\ pc' = "open" /\ cur' = Absent
    /\ UNCHANGED <<journal, session, base, decision, faults>>
-----------------------------------------------------------------------------
(* StateTransaction::commit, and rollback after the operation failed.      *)

Commit ==
    /\ pc = "open"
    /\ marks' = marks \cup {"committed"}
    /\ pc' = "cleanup"
    /\ decision' = "commit"
    /\ UNCHANGED <<fs, active, manifest, backup, primary, compaction, session, cur, base, faults>>

rollback ==
    /\ pc = "open"
    /\ pc' = "rbCheck"
    /\ UNCHANGED <<fs, journal, session, cur, base, decision, faults>>
-----------------------------------------------------------------------------
(* rollback_active.                                                        *)

\* The checks made before anything is replaced.
BackupsPresent ==
    /\ manifest # Absent
    /\ \A s \in Mutable : SourceExisted(s) => Source(s) # Absent
    /\ \A f \in manifest.compacted : compaction[f] # Absent

RollbackCheck ==
    /\ pc = "rbCheck"
    /\ \/ BackupsPresent /\ pc' = "rbRatchet" /\ UNCHANGED session
       \/ ~BackupsPresent /\ ReturnError
    /\ UNCHANGED <<fs, journal, cur, base, decision, faults>>

Replace(s, from, next) ==
    /\ pc = from
    /\ fs' = [fs EXCEPT ![s] = Torn]
    /\ pc' = next
    /\ UNCHANGED <<journal, session, cur, base, decision, faults>>

Copy(s, from, next) ==
    /\ pc = from
    /\ fs' = [fs EXCEPT ![s] = RestoredMutable(s)]
    /\ pc' = next
    /\ UNCHANGED <<journal, session, cur, base, decision, faults>>

RollbackRatchet == Replace("ratchet", "rbRatchet", "rbRatchetCopy")
RollbackRatchetCopy == Copy("ratchet", "rbRatchetCopy", "rbSequence")
RollbackSequence == Replace("sequence", "rbSequence", "rbSequenceCopy")
RollbackSequenceCopy == Copy("sequence", "rbSequenceCopy", "rbTrust")

\* The trust backup is looked for only here, after ratchet and sequence.
RollbackTrust ==
    /\ pc = "rbTrust"
    /\ \/ /\ manifest.primary["trust"] = "no"
          /\ pc' = "rbAppendOnly"
          /\ UNCHANGED <<fs, session>>
       \/ /\ manifest.primary["trust"] # "no" /\ primary["trust"] = Absent
          /\ ReturnError
          /\ UNCHANGED fs
       \/ /\ manifest.primary["trust"] # "no" /\ primary["trust"] # Absent
          /\ fs' = [fs EXCEPT !["trust"] = Torn]
          /\ pc' = "rbTrustWrite"
          /\ UNCHANGED session
    /\ UNCHANGED <<journal, cur, base, decision, faults>>

RollbackTrustWrite ==
    /\ pc = "rbTrustWrite"
    /\ fs' = [fs EXCEPT !["trust"] = RestoredTrust]
    /\ pc' = "rbAppendOnly"
    /\ UNCHANGED <<journal, session, cur, base, decision, faults>>

NewFiles == {f \in AppendOnly \ manifest.appendOnly : fs[f] # Absent}

remove_new_files ==
    /\ pc = "rbAppendOnly"
    /\ \/ \E f \in NewFiles : fs' = [fs EXCEPT ![f] = Absent] /\ UNCHANGED pc
       \/ NewFiles = {} /\ pc' = "rbCompacted" /\ UNCHANGED fs
    /\ UNCHANGED <<journal, session, cur, base, decision, faults>>

RollbackCompacted ==
    /\ pc = "rbCompacted"
    /\ fs' = [p \in Paths |-> IF p \in manifest.compacted THEN Torn ELSE fs[p]]
    /\ pc' = "rbCompactedCopy"
    /\ UNCHANGED <<journal, session, cur, base, decision, faults>>

RollbackCompactedCopy ==
    /\ pc = "rbCompactedCopy"
    /\ fs' = [p \in Paths |-> IF p \in manifest.compacted THEN compaction[p] ELSE fs[p]]
    /\ pc' = "rbMark"
    /\ UNCHANGED <<journal, session, cur, base, decision, faults>>

RollbackMark ==
    /\ pc = "rbMark"
    /\ marks' = marks \cup {"rolled-back"}
    /\ pc' = "cleanup"
    /\ decision' = "abort"
    /\ UNCHANGED <<fs, active, manifest, backup, primary, compaction, session, cur, base, faults>>
-----------------------------------------------------------------------------
(* remove_tree_if_present(active): fs::remove_dir_all deletes the entries  *)
(* one by one, in the order in which the file system lists them.           *)

Present == marks
    \cup {e \in {"manifest.json"} : manifest # Absent}
    \cup {e \in {"backup"} : \E s \in Mutable : backup[s] # Absent}
    \cup {e \in {"primary-backup"} : \E s \in Slots : primary[s] # Absent}
    \cup {e \in {"append-only-compaction-backup"} : \E f \in Runtime : compaction[f] # Absent}

Listed(e) == e \in Present /\ \A d \in Present : <<d, e>> \notin DeletedBefore

\* A tree loses its files one by one, then the directory itself.
Shrunk(v) == IF v = Torn THEN Absent ELSE Torn

RemoveMarker ==
    /\ \E m \in marks : Listed(m) /\ marks' = marks \ {m}
    /\ UNCHANGED <<active, manifest, backup, primary, compaction, pc, session>>

RemoveManifest ==
    /\ Listed("manifest.json") /\ manifest' = Absent
    /\ UNCHANGED <<active, marks, backup, primary, compaction, pc, session>>

RemoveBackup ==
    /\ Listed("backup")
    /\ \E s \in {t \in Mutable : backup[t] # Absent} :
         backup' = [backup EXCEPT ![s] = IF s = "sequence" THEN Absent ELSE Shrunk(@)]
    /\ UNCHANGED <<active, marks, manifest, primary, compaction, pc, session>>

RemovePrimaryBackup ==
    /\ Listed("primary-backup")
    /\ \E s \in {t \in Slots : primary[t] # Absent} :
         primary' = [primary EXCEPT ![s] = IF s = "sequence" THEN Absent ELSE Shrunk(@)]
    /\ UNCHANGED <<active, marks, manifest, backup, compaction, pc, session>>

RemoveCompactionBackup ==
    /\ Listed("append-only-compaction-backup")
    /\ \E f \in {g \in Runtime : compaction[g] # Absent} :
         compaction' = [compaction EXCEPT ![f] = Absent]
    /\ UNCHANGED <<active, marks, manifest, backup, primary, pc, session>>

RemoveActive ==
    /\ Present = {}
    /\ active' = FALSE
    /\ Return
    /\ UNCHANGED <<marks, manifest, backup, primary, compaction>>

remove_tree_if_present ==
    /\ pc = "cleanup"
    /\ \/ RemoveMarker \/ RemoveManifest \/ RemoveBackup \/ RemovePrimaryBackup
       \/ RemoveCompactionBackup \/ RemoveActive
    /\ UNCHANGED <<fs, cur, base, decision, faults>>
-----------------------------------------------------------------------------
(* Faults.                                                                 *)

\* The process dies; the operating system drops the lock.
Crash ==
    /\ session # "none" /\ faults < MaxFaults
    /\ session' = "none" /\ pc' = "idle" /\ cur' = Absent /\ base' = Absent
    /\ faults' = faults + 1
    /\ UNCHANGED <<fs, journal, decision>>

\* An I/O error ends the running call: an open transaction rolls back, any
\* other call returns the error and leaves the directory as it is.
IoError ==
    /\ pc \notin {"idle", "open"} /\ faults < MaxFaults
    /\ IF pc \in OpenPcs THEN pc' = "rbCheck" /\ UNCHANGED session ELSE ReturnError
    /\ cur' = Absent /\ base' = Absent
    /\ faults' = faults + 1
    /\ UNCHANGED <<fs, journal, decision>>

\* write_marker(committed) fails before the marker exists: commit returns the
\* error and the journal stays prepared.
CommitError ==
    /\ pc = "open" /\ faults < MaxFaults
    /\ ReturnError
    /\ faults' = faults + 1
    /\ UNCHANGED <<fs, journal, cur, base, decision>>
-----------------------------------------------------------------------------
Staging ==
    \/ \E s \in Slots, c \in Contents : Stage(s, c)
    \/ \E f \in AppendOnly, c \in Contents : register_append_only_write(f, c)
    \/ prepare_ratchet_workspace \/ prepare_sequence_workspace
    \/ prepare_legacy_trust_workspace
    \/ \E f \in Runtime : compact_runtime_record(f)

Progress ==
    \/ recover
    \/ prepare_snapshot \/ BeginManifest \/ BeginPrepared
    \/ WorkspaceBackup \/ WorkspaceManifest \/ WorkspaceClear \/ WorkspaceWrite
    \/ CompactBackup \/ CompactManifest \/ CompactRemove
    \/ RollbackCheck \/ RollbackRatchet \/ RollbackRatchetCopy
    \/ RollbackSequence \/ RollbackSequenceCopy \/ RollbackTrust \/ RollbackTrustWrite
    \/ remove_new_files \/ RollbackCompacted \/ RollbackCompactedCopy \/ RollbackMark
    \/ remove_tree_if_present

Next ==
    \/ Acquire \/ Release
    \/ Begin \/ Staging \/ Commit \/ rollback
    \/ Progress
    \/ Crash \/ IoError \/ CommitError

Spec == Init /\ [][Next]_vars

\* A started call keeps running, an open operation ends, an interrupted command is
\* run again: the fairness recovery rests on.
Fairness == /\ WF_vars(Progress) /\ WF_vars(Commit \/ rollback)
            /\ WF_vars(Release) /\ WF_vars(Acquire)
FairSpec == Spec /\ Fairness
-----------------------------------------------------------------------------
(* Properties.                                                             *)

\* Every variable keeps its type.
TypeOK ==
    /\ fs \in [Paths -> Values]
    /\ active \in BOOLEAN
    /\ marks \subseteq Markers
    /\ manifest \in Manifest \cup {Absent}
    /\ backup \in [Mutable -> Values]
    /\ primary \in [Slots -> Values]
    /\ compaction \in [Runtime -> Values]
    /\ session \in {"none", "acquiring", "live"}
    /\ pc \in Pcs
    /\ cur \in Slots \cup Runtime \cup {Absent}
    /\ base \in Contents \cup {Absent}
    /\ decision \in {"none", "commit", "abort"}
    /\ faults \in 0..MaxFaults

\* RFC-0010, section 2: a committed journal is never rolled back, even when the
\* process dies while it is being cleaned up.  No destructive step of
\* rollback_active runs once the committed marker was written.
CommittedNeverRolledBack == decision = "commit" => pc \notin RollbackPcs

\* RFC-0010, section 6: a damaged journal stops recovery before the destructive
\* restore begins.  When rollback_active reaches the trust files, having replaced
\* ratchet and next-sequence, the trust backup it still needs is there.
RestoreNeverStopsHalfway ==
    (pc = "rbTrust" /\ manifest.primary["trust"] # "no") => primary["trust"] # Absent

\* Whatever crash or I/O error interrupts begin, a workspace, a compaction, a roll
\* back or a clean-up, the state the next lock holder finds is never a mixture.
RecoveredWhole == \A p \in Paths : Recovered[p] \in Contents \cup {Absent}

\* The abstract state changes in exactly one step, the creation of the committed
\* marker: no staged write, workspace, compaction, crash, recovery or clean-up step
\* changes what the next lock holder finds.
OnlyCommitPublishes == [][Recovered' = Recovered \/ Commit]_vars

\* A journal never blocks its directory for good: once faults stop, some lock
\* holder gets rid of it.
JournalCleared == active ~> ~active

\* The detailed journal implements the atomic transaction.  A workspace that is
\* being rewritten counts as rewritten.
TransactionOpen == RollbackPending /\ pc \in OpenPcs
Working == IF pc = "wsWrite" THEN [fs EXCEPT ![cur] = base] ELSE fs
Staged == IF TransactionOpen THEN Working ELSE Recovered
Atomic == INSTANCE AtomicState WITH
    durable <- Recovered,
    staged <- Staged,
    open <- TransactionOpen,
    Permanent <- Events
ImplementsAtomicState == Atomic!Spec
=============================================================================
