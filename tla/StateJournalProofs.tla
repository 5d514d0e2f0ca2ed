-------------------------- MODULE StateJournalProofs --------------------------
(***************************************************************************)
(* Proofs about the crash journal, for every set of records and contents,  *)
(* every number of faults and every order in which a directory is listed.  *)
(* They name the one state that the code leaves to chance: a clean-up that *)
(* was listed a terminal marker before prepared.  Whatever else a          *)
(* behaviour does, the journal keeps its promises while that state is not  *)
(* met.                                                                    *)
(***************************************************************************)
EXTENDS StateJournal, TLAPS

\* A clean-up has removed the terminal marker and not yet prepared: a process that died
\* here would leave a finished journal that recover takes for an unfinished one.
StrayPrepared == pc = "cleanup" /\ RollbackPending

\* The listings with which that state is never met.
PreparedListedFirst == /\ <<"prepared", "committed">> \in DeletedBefore
                       /\ <<"prepared", "rolled-back">> \in DeletedBefore

Whole == Contents \cup {Absent}

BeginPcs == {"snapshot", "manifest", "prepare"}

\* The clean slate begin starts from.
NoJournal == /\ marks = {} /\ manifest = Absent
             /\ \A s \in Mutable : backup[s] = Absent
             /\ \A s \in Slots : primary[s] = Absent
             /\ \A f \in Runtime : compaction[f] = Absent

\* A journal that will be rolled back holds all that the roll back needs.
Restorable ==
    /\ manifest \in Manifest
    /\ \A s \in Mutable : SourceExisted(s) => Source(s) \in Contents
    /\ manifest.primary["trust"] = "no" => fs["trust"] \in Whole
    /\ manifest.primary["trust"] # "no" => primary["trust"] \in Contents \cup {Empty}
    /\ manifest.compacted \subseteq manifest.appendOnly
    /\ \A f \in manifest.compacted : compaction[f] \in Contents
    /\ \A f \in manifest.appendOnly \ manifest.compacted : fs[f] \in Contents
    /\ decision = "none"

\* Where a call that prepares a workspace stands.
WorkspaceInv ==
    /\ pc \in {"wsBackup", "wsManifest", "wsClear", "wsWrite"} => cur \in Slots
    /\ pc \in {"wsBackup", "wsManifest"} =>
         /\ manifest.primary[cur] = "no"
         /\ cur = "trust" => base = fs["trust"]
         /\ cur \in Mutable => base = RestoredMutable(cur)
    /\ pc \in {"wsManifest", "wsClear", "wsWrite"} =>
         primary[cur] = IF cur = "trust" /\ base = Absent THEN Empty ELSE base
    /\ pc \in {"wsClear", "wsWrite"} => manifest.primary[cur] # "no"

\* Where a call that compacts a record stands.
CompactInv ==
    /\ pc \in {"compactBackup", "compactManifest", "compactRemove"} =>
         cur \in Runtime /\ cur \in manifest.appendOnly
    /\ pc \in {"compactBackup", "compactManifest"} => cur \notin manifest.compacted
    /\ pc = "compactManifest" => compaction[cur] = fs[cur]
    /\ pc = "compactRemove" => cur \in manifest.compacted

\* What a running roll back has restored so far.
AfterRatchet == {"rbSequence", "rbSequenceCopy", "rbTrust", "rbTrustWrite", "rbAppendOnly",
                 "rbCompacted", "rbCompactedCopy", "rbMark"}
AfterSequence == {"rbTrust", "rbTrustWrite", "rbAppendOnly", "rbCompacted",
                  "rbCompactedCopy", "rbMark"}
AfterTrust == {"rbAppendOnly", "rbCompacted", "rbCompactedCopy", "rbMark"}
AfterNewFiles == {"rbCompacted", "rbCompactedCopy", "rbMark"}
RollbackInv ==
    /\ pc \in AfterRatchet => fs["ratchet"] = RestoredMutable("ratchet")
    /\ pc \in AfterSequence => fs["sequence"] = RestoredMutable("sequence")
    /\ pc = "rbTrustWrite" => manifest.primary["trust"] # "no"
    /\ pc \in AfterTrust => fs["trust"] = RestoredTrust
    /\ pc \in AfterNewFiles => NewFiles = {}
    /\ pc = "rbMark" => \A f \in manifest.compacted : fs[f] = compaction[f]

\* Only the workspace that is being rewritten is torn in an open transaction.
OpenInv == pc \in OpenPcs =>
    \A p \in Paths : fs[p] \in Whole \/ (pc = "wsWrite" /\ p = cur)

\* Where begin stands.
BeginInv ==
    /\ pc \in BeginPcs => /\ marks = {} /\ decision = "none"
                          /\ \A s \in Slots : primary[s] = Absent
                          /\ \A f \in Runtime : compaction[f] = Absent
    /\ pc \in {"manifest", "prepare"} => \A s \in Mutable : backup[s] = fs[s]
    /\ pc = "prepare" =>
         manifest = [existed    |-> [s \in Mutable |-> fs[s] # Absent],
                     primary    |-> [s \in Slots |-> "no"],
                     appendOnly |-> {f \in AppendOnly : fs[f] # Absent},
                     compacted  |-> {}]

ControlInv ==
    /\ session = "none" => pc = "idle"
    /\ pc \in BeginPcs \cup OpenPcs => session = "live"
    /\ pc \in BeginPcs \cup {"cleanup"} => active /\ ~RollbackPending
    /\ pc \in OpenPcs \cup RollbackPcs \cup {"rbCheck"} => RollbackPending

\* The inductive invariant.
IndInv ==
    /\ TypeOK
    /\ ~active => NoJournal
    /\ RollbackPending => Restorable
    /\ ~RollbackPending => \A p \in Paths : fs[p] \in Whole
    /\ ControlInv
    /\ BeginInv
    /\ OpenInv
    /\ WorkspaceInv
    /\ CompactInv
    /\ RollbackInv
-----------------------------------------------------------------------------
(* What the journal means, and which changes leave that meaning alone.     *)

\* A restorable journal restores a state without torn files.
LEMMA RestoredIsWhole ==
    ASSUME TypeOK, Restorable
    PROVE  /\ \A s \in Mutable : RestoredMutable(s) \in Whole
           /\ RestoredTrust \in Whole
           /\ \A p \in Paths : Restored[p] \in Whole
<1>1. \A s \in Mutable : RestoredMutable(s) \in Whole
  BY DEF Restorable, RestoredMutable, Whole
<1>2. RestoredTrust \in Whole
  BY DEF Restorable, RestoredTrust, Whole
<1>3. \A f \in AppendOnly : RestoredRecord(f) \in Whole
  BY DEF Restorable, RestoredRecord, Whole
<1> QED
  BY <1>1, <1>2, <1>3 DEF Restored, Paths, Slots

\* A step that leaves files and journal alone.
LEMMA NothingMoves ==
    ASSUME UNCHANGED <<fs, journal, decision>>
    PROVE  /\ RollbackPending' = RollbackPending
           /\ Recovered' = Recovered
           /\ NoJournal' = NoJournal
           /\ Restorable' = Restorable
BY DEF journal, RollbackPending, Recovered, Restored, RestoredMutable, RestoredTrust,
       RestoredRecord, SourceExisted, Source, NoJournal, Restorable

\* A step that writes live files under a pending roll back, and spares those that
\* the roll back keeps.
LEMMA FilesMove ==
    ASSUME IndInv, RollbackPending, UNCHANGED <<journal, decision>>,
           manifest.primary["trust"] = "no" => fs'["trust"] = fs["trust"],
           \A f \in manifest.appendOnly \ manifest.compacted : fs'[f] = fs[f]
    PROVE  /\ RollbackPending' /\ Restorable'
           /\ Recovered' = Recovered
           /\ \A s \in Mutable : RestoredMutable(s)' = RestoredMutable(s)
           /\ manifest.primary["trust"] # "no" => RestoredTrust' = RestoredTrust
<1>1. RollbackPending' /\ Restorable'
  BY DEF IndInv, RollbackPending, Restorable, SourceExisted, Source, journal
<1>2. /\ \A s \in Mutable : RestoredMutable(s)' = RestoredMutable(s)
      /\ RestoredTrust' = RestoredTrust
  BY DEF RestoredMutable, SourceExisted, Source, RestoredTrust, journal
<1>3. \A f \in AppendOnly : RestoredRecord(f)' = RestoredRecord(f)
  BY DEF RestoredRecord, journal
<1>4. Restored' = Restored
  BY <1>2, <1>3 DEF Restored, Paths, Slots
<1> QED
  BY <1>1, <1>2, <1>4 DEF Recovered

\* A step that changes the journal but not the files when nothing is rolled back,
\* before or after.
LEMMA JournalMoves ==
    ASSUME IndInv, ~RollbackPending, ~RollbackPending', fs' = fs
    PROVE  /\ Recovered' = Recovered
           /\ (RollbackPending => Restorable)'
           /\ (~RollbackPending => \A p \in Paths : fs[p] \in Whole)'
BY DEF Recovered, IndInv
-----------------------------------------------------------------------------
(* Steps of the lock, and steps that only decide what to do next.          *)

\* try_lock moves no file and leaves the journal alone.
LEMMA AcquireStep ==
    ASSUME IndInv, Acquire
    PROVE  IndInv' /\ Recovered' = Recovered
<1>1. UNCHANGED <<fs, journal, decision>>
  BY DEF Acquire
<1>2. TypeOK'
  BY FaultsAssumption DEF IndInv, Acquire, TypeOK, journal, Pcs, OpenPcs, RollbackPcs
<1>3. ControlInv' /\ BeginInv' /\ OpenInv' /\ WorkspaceInv' /\ CompactInv' /\ RollbackInv'
  BY <1>1, NothingMoves DEF IndInv, Acquire, ControlInv, BeginInv, OpenInv, WorkspaceInv,
     CompactInv, RollbackInv,
     BeginPcs, OpenPcs, RollbackPcs, AfterRatchet, AfterSequence, AfterTrust, AfterNewFiles
<1> QED
  BY <1>1, <1>2, <1>3, NothingMoves DEF IndInv, journal

\* Dropping the lock moves no file and leaves the journal alone.
LEMMA ReleaseStep ==
    ASSUME IndInv, Release
    PROVE  IndInv' /\ Recovered' = Recovered
<1>1. UNCHANGED <<fs, journal, decision>>
  BY DEF Release
<1>2. TypeOK'
  BY FaultsAssumption DEF IndInv, Release, TypeOK, journal, Pcs, OpenPcs, RollbackPcs
<1>3. ControlInv' /\ BeginInv' /\ OpenInv' /\ WorkspaceInv' /\ CompactInv' /\ RollbackInv'
  BY <1>1, NothingMoves DEF IndInv, Release, ControlInv, BeginInv, OpenInv, WorkspaceInv,
     CompactInv, RollbackInv,
     BeginPcs, OpenPcs, RollbackPcs, AfterRatchet, AfterSequence, AfterTrust, AfterNewFiles
<1> QED
  BY <1>1, <1>2, <1>3, NothingMoves DEF IndInv, journal

\* recover only decides between returning, cleaning up and rolling back.
LEMMA RecoverStep ==
    ASSUME IndInv, recover
    PROVE  IndInv' /\ Recovered' = Recovered
<1>1. UNCHANGED <<fs, journal, decision>>
  BY DEF recover
<1>2. TypeOK'
  BY FaultsAssumption DEF IndInv, recover, TypeOK, journal, Pcs, OpenPcs, RollbackPcs,
     Return, ReturnError
<1>3. ControlInv' /\ BeginInv' /\ OpenInv' /\ WorkspaceInv' /\ CompactInv' /\ RollbackInv'
  BY <1>1, NothingMoves DEF IndInv, recover, ControlInv, BeginInv, OpenInv, WorkspaceInv,
     CompactInv, RollbackInv,
     BeginPcs, OpenPcs, RollbackPcs, AfterRatchet, AfterSequence, AfterTrust,
     AfterNewFiles, Return, ReturnError, TypeOK, journal
<1> QED
  BY <1>1, <1>2, <1>3, NothingMoves DEF IndInv, journal

\* rollback starts with its checks.
LEMMA RollbackStep ==
    ASSUME IndInv, rollback
    PROVE  IndInv' /\ Recovered' = Recovered
<1>1. UNCHANGED <<fs, journal, decision>>
  BY DEF rollback
<1>2. TypeOK'
  BY FaultsAssumption DEF IndInv, rollback, TypeOK, journal, Pcs, OpenPcs, RollbackPcs
<1>3. ControlInv' /\ BeginInv' /\ OpenInv' /\ WorkspaceInv' /\ CompactInv' /\ RollbackInv'
  BY <1>1, NothingMoves DEF IndInv, rollback, ControlInv, BeginInv, OpenInv, WorkspaceInv,
     CompactInv, RollbackInv,
     BeginPcs, OpenPcs, RollbackPcs, AfterRatchet, AfterSequence, AfterTrust, AfterNewFiles
<1> QED
  BY <1>1, <1>2, <1>3, NothingMoves DEF IndInv, journal

\* The checks of rollback_active change nothing.
LEMMA RollbackCheckStep ==
    ASSUME IndInv, RollbackCheck
    PROVE  IndInv' /\ Recovered' = Recovered
<1>1. UNCHANGED <<fs, journal, decision>>
  BY DEF RollbackCheck
<1>2. TypeOK'
  BY FaultsAssumption DEF IndInv, RollbackCheck, TypeOK, journal, Pcs, OpenPcs,
     RollbackPcs, ReturnError
<1>3. ControlInv' /\ BeginInv' /\ OpenInv' /\ WorkspaceInv' /\ CompactInv' /\ RollbackInv'
  BY <1>1, NothingMoves DEF IndInv, RollbackCheck, ControlInv, BeginInv, OpenInv,
     WorkspaceInv, CompactInv, RollbackInv,
     BeginPcs, OpenPcs, RollbackPcs, AfterRatchet, AfterSequence, AfterTrust,
     AfterNewFiles, ReturnError, TypeOK
<1> QED
  BY <1>1, <1>2, <1>3, NothingMoves DEF IndInv, journal

\* A crash keeps the directory and forgets the process.
LEMMA CrashStep ==
    ASSUME IndInv, Crash
    PROVE  IndInv' /\ Recovered' = Recovered
<1>1. UNCHANGED <<fs, journal, decision>>
  BY DEF Crash
<1>2. TypeOK'
  BY FaultsAssumption DEF IndInv, Crash, TypeOK, journal, Pcs, OpenPcs, RollbackPcs
<1>3. ControlInv' /\ BeginInv' /\ OpenInv' /\ WorkspaceInv' /\ CompactInv' /\ RollbackInv'
  BY <1>1, NothingMoves DEF IndInv, Crash, ControlInv, BeginInv, OpenInv, WorkspaceInv,
     CompactInv, RollbackInv,
     BeginPcs, OpenPcs, RollbackPcs, AfterRatchet, AfterSequence, AfterTrust, AfterNewFiles
<1> QED
  BY <1>1, <1>2, <1>3, NothingMoves DEF IndInv, journal

\* An I/O error keeps the directory; an open transaction turns to its roll back.
LEMMA IoErrorStep ==
    ASSUME IndInv, IoError
    PROVE  IndInv' /\ Recovered' = Recovered
<1>1. UNCHANGED <<fs, journal, decision>>
  BY DEF IoError
<1>2. TypeOK'
  BY FaultsAssumption DEF IndInv, IoError, TypeOK, journal, Pcs, OpenPcs, RollbackPcs,
     ReturnError
<1>3. ControlInv' /\ BeginInv' /\ OpenInv' /\ WorkspaceInv' /\ CompactInv' /\ RollbackInv'
  BY <1>1, NothingMoves DEF IndInv, IoError, ControlInv, BeginInv, OpenInv, WorkspaceInv,
     CompactInv, RollbackInv,
     BeginPcs, OpenPcs, RollbackPcs, AfterRatchet, AfterSequence, AfterTrust,
     AfterNewFiles, ReturnError, TypeOK
<1> QED
  BY <1>1, <1>2, <1>3, NothingMoves DEF IndInv, journal

\* A failed commit leaves a prepared journal for the next lock holder.
LEMMA CommitErrorStep ==
    ASSUME IndInv, CommitError
    PROVE  IndInv' /\ Recovered' = Recovered
<1>1. UNCHANGED <<fs, journal, decision>>
  BY DEF CommitError
<1>2. TypeOK'
  BY FaultsAssumption DEF IndInv, CommitError, TypeOK, journal, Pcs, OpenPcs, RollbackPcs,
     ReturnError
<1>3. ControlInv' /\ BeginInv' /\ OpenInv' /\ WorkspaceInv' /\ CompactInv' /\ RollbackInv'
  BY <1>1, NothingMoves DEF IndInv, CommitError, ControlInv, BeginInv, OpenInv,
     WorkspaceInv, CompactInv, RollbackInv,
     BeginPcs, OpenPcs, RollbackPcs, AfterRatchet, AfterSequence, AfterTrust,
     AfterNewFiles, ReturnError
<1> QED
  BY <1>1, <1>2, <1>3, NothingMoves DEF IndInv, journal
-----------------------------------------------------------------------------
(* Steps of the open transaction and of the roll back that write files.    *)

\* A staged write is undone by the backup of its slot.
LEMMA StageStep ==
    ASSUME IndInv, NEW t \in Slots, NEW c \in Contents, Stage(t, c)
    PROVE  IndInv' /\ Recovered' = Recovered
<1>1. TypeOK /\ RollbackPending /\ Restorable
  BY DEF IndInv, ControlInv, OpenPcs, RollbackPcs, Stage, process
<1>2. /\ UNCHANGED <<journal, decision>>
      /\ manifest.primary["trust"] = "no" => fs'["trust"] = fs["trust"]
      /\ \A f \in manifest.appendOnly \ manifest.compacted : fs'[f] = fs[f]
  BY ZenonT(30), <1>1, ContentsAssumption, PathsAssumption
     DEF IndInv, Stage, process, TypeOK, Restorable, Manifest, Paths, Slots, Mutable,
     AppendOnly
<1>3. /\ RollbackPending' /\ Restorable' /\ Recovered' = Recovered
      /\ \A s \in Mutable : RestoredMutable(s)' = RestoredMutable(s)
      /\ manifest.primary["trust"] # "no" => RestoredTrust' = RestoredTrust
  BY <1>1, <1>2, FilesMove
<1>4. TypeOK'
  BY ZenonT(30), <1>1, RestoredIsWhole, PathsAssumption
     DEF Stage, process, TypeOK, journal, Pcs, OpenPcs, RollbackPcs, Values, Whole, Paths,
     Slots, Mutable, AppendOnly
<1>5. ControlInv' /\ BeginInv' /\ WorkspaceInv' /\ CompactInv'
  BY <1>1, <1>3, ContentsAssumption, PathsAssumption
     DEF IndInv, Stage, process, ControlInv, BeginInv, WorkspaceInv, CompactInv, journal,
     TypeOK,
         BeginPcs, OpenPcs, RollbackPcs, Slots
<1>6. OpenInv'
  BY <1>1, ContentsAssumption, PathsAssumption
     DEF IndInv, Stage, process, OpenInv, WorkspaceInv, OpenPcs, RollbackPcs, TypeOK,
     Whole, Paths, Slots, Mutable, AppendOnly, CompactInv
<1>7. RollbackInv'
  BY <1>1, <1>3, PathsAssumption
     DEF IndInv, Stage, process, RollbackInv, AfterRatchet, AfterSequence, AfterTrust,
     AfterNewFiles, OpenPcs, RollbackPcs, NewFiles, journal, TypeOK, Paths, Slots, Mutable,
     AppendOnly
<1> QED
  BY <1>1, <1>2, <1>3, <1>4, <1>5, <1>6, <1>7 DEF IndInv, journal, RollbackPending

\* A new record is absent from the begin snapshot, so the roll back removes it.
LEMMA AppendStep ==
    ASSUME IndInv, NEW g \in AppendOnly, NEW c \in Contents, register_append_only_write(g,
    c)
    PROVE  IndInv' /\ Recovered' = Recovered
<1>1. TypeOK /\ RollbackPending /\ Restorable
  BY DEF IndInv, ControlInv, OpenPcs, RollbackPcs, register_append_only_write, process
<1>2. /\ UNCHANGED <<journal, decision>>
      /\ manifest.primary["trust"] = "no" => fs'["trust"] = fs["trust"]
      /\ \A f \in manifest.appendOnly \ manifest.compacted : fs'[f] = fs[f]
  BY <1>1, ContentsAssumption, PathsAssumption
     DEF IndInv, register_append_only_write, process, TypeOK, Restorable, Manifest, Paths,
     Slots, Mutable, AppendOnly
<1>3. /\ RollbackPending' /\ Restorable' /\ Recovered' = Recovered
      /\ \A s \in Mutable : RestoredMutable(s)' = RestoredMutable(s)
      /\ manifest.primary["trust"] # "no" => RestoredTrust' = RestoredTrust
  BY <1>1, <1>2, FilesMove
<1>4. TypeOK'
  BY ZenonT(30), <1>1, RestoredIsWhole, PathsAssumption
     DEF register_append_only_write, process, TypeOK, journal, Pcs, OpenPcs, RollbackPcs,
     Values, Whole, Paths, Slots, Mutable, AppendOnly
<1>5. ControlInv' /\ BeginInv' /\ WorkspaceInv' /\ CompactInv'
  BY <1>1, <1>3, ContentsAssumption, PathsAssumption
     DEF IndInv, register_append_only_write, process, ControlInv, BeginInv, WorkspaceInv,
     CompactInv, journal, TypeOK,
         BeginPcs, OpenPcs, RollbackPcs, Slots
<1>6. OpenInv'
  BY ZenonT(30), <1>1, ContentsAssumption, PathsAssumption
     DEF IndInv, register_append_only_write, process, OpenInv, WorkspaceInv, OpenPcs,
     RollbackPcs, TypeOK, Whole, Paths, Slots, Mutable, AppendOnly, CompactInv
<1>7. RollbackInv'
  BY ZenonT(30), <1>1, <1>3, PathsAssumption
     DEF IndInv, register_append_only_write, process, RollbackInv, AfterRatchet,
     AfterSequence, AfterTrust, AfterNewFiles, OpenPcs, RollbackPcs, NewFiles, journal,
     TypeOK, Paths, Slots, Mutable, AppendOnly
<1> QED
  BY <1>1, <1>2, <1>3, <1>4, <1>5, <1>6, <1>7 DEF IndInv, journal, RollbackPending

\* The trust files are cleared only when the manifest knows their backup.
LEMMA WorkspaceClearStep ==
    ASSUME IndInv, WorkspaceClear
    PROVE  IndInv' /\ Recovered' = Recovered
<1>1. TypeOK /\ RollbackPending /\ Restorable
  BY ZenonT(30) DEF IndInv, ControlInv, OpenPcs, RollbackPcs, WorkspaceClear
<1>2. /\ UNCHANGED <<journal, decision>>
      /\ manifest.primary["trust"] = "no" => fs'["trust"] = fs["trust"]
      /\ \A f \in manifest.appendOnly \ manifest.compacted : fs'[f] = fs[f]
  BY ZenonT(30), <1>1, ContentsAssumption, PathsAssumption
     DEF IndInv, WorkspaceClear, TypeOK, Restorable, Manifest, Paths, Slots, Mutable,
     AppendOnly, WorkspaceInv
<1>3. /\ RollbackPending' /\ Restorable' /\ Recovered' = Recovered
      /\ \A s \in Mutable : RestoredMutable(s)' = RestoredMutable(s)
      /\ manifest.primary["trust"] # "no" => RestoredTrust' = RestoredTrust
  BY <1>1, <1>2, FilesMove
<1>4. TypeOK'
  BY ZenonT(30), <1>1, RestoredIsWhole, PathsAssumption
     DEF WorkspaceClear, TypeOK, journal, Pcs, OpenPcs, RollbackPcs, Values, Whole, Paths,
     Slots, Mutable, AppendOnly
<1>5. ControlInv' /\ BeginInv' /\ WorkspaceInv' /\ CompactInv'
  BY <1>1, <1>3, ContentsAssumption, PathsAssumption
     DEF IndInv, WorkspaceClear, ControlInv, BeginInv, WorkspaceInv, CompactInv, journal,
     TypeOK,
         BeginPcs, OpenPcs, RollbackPcs, Slots
<1>6. OpenInv'
  BY ZenonT(30), <1>1, ContentsAssumption, PathsAssumption
     DEF IndInv, WorkspaceClear, OpenInv, WorkspaceInv, OpenPcs, RollbackPcs, TypeOK,
     Whole, Paths, Slots, Mutable, AppendOnly, CompactInv
<1>7. RollbackInv'
  BY <1>1, <1>3, PathsAssumption
     DEF IndInv, WorkspaceClear, RollbackInv, AfterRatchet, AfterSequence, AfterTrust,
     AfterNewFiles, OpenPcs, RollbackPcs, NewFiles, journal, TypeOK, Paths, Slots, Mutable,
     AppendOnly
<1> QED
  BY <1>1, <1>2, <1>3, <1>4, <1>5, <1>6, <1>7 DEF IndInv, journal, RollbackPending

\* Writing the baseline into the workspace.
LEMMA WorkspaceWriteStep ==
    ASSUME IndInv, WorkspaceWrite
    PROVE  IndInv' /\ Recovered' = Recovered
<1>1. TypeOK /\ RollbackPending /\ Restorable
  BY ZenonT(30) DEF IndInv, ControlInv, OpenPcs, RollbackPcs, WorkspaceWrite
<1>2. /\ UNCHANGED <<journal, decision>>
      /\ manifest.primary["trust"] = "no" => fs'["trust"] = fs["trust"]
      /\ \A f \in manifest.appendOnly \ manifest.compacted : fs'[f] = fs[f]
  BY <1>1, ContentsAssumption, PathsAssumption
     DEF IndInv, WorkspaceWrite, TypeOK, Restorable, Manifest, Paths, Slots, Mutable,
     AppendOnly, WorkspaceInv
<1>3. /\ RollbackPending' /\ Restorable' /\ Recovered' = Recovered
      /\ \A s \in Mutable : RestoredMutable(s)' = RestoredMutable(s)
      /\ manifest.primary["trust"] # "no" => RestoredTrust' = RestoredTrust
  BY <1>1, <1>2, FilesMove
<1>4. TypeOK'
  BY ZenonT(30), <1>1, RestoredIsWhole, PathsAssumption
     DEF WorkspaceWrite, TypeOK, journal, Pcs, OpenPcs, RollbackPcs, Values, Whole, Paths,
     Slots, Mutable, AppendOnly
<1>5. ControlInv' /\ BeginInv' /\ WorkspaceInv' /\ CompactInv'
  BY <1>1, <1>3, ContentsAssumption, PathsAssumption
     DEF IndInv, WorkspaceWrite, ControlInv, BeginInv, WorkspaceInv, CompactInv, journal,
     TypeOK,
         BeginPcs, OpenPcs, RollbackPcs, Slots
<1>6. OpenInv'
  BY ZenonT(30), <1>1, ContentsAssumption, PathsAssumption
     DEF IndInv, WorkspaceWrite, OpenInv, WorkspaceInv, OpenPcs, RollbackPcs, TypeOK,
     Whole, Paths, Slots, Mutable, AppendOnly, CompactInv
<1>7. RollbackInv'
  BY <1>1, <1>3, PathsAssumption
     DEF IndInv, WorkspaceWrite, RollbackInv, AfterRatchet, AfterSequence, AfterTrust,
     AfterNewFiles, OpenPcs, RollbackPcs, NewFiles, journal, TypeOK, Paths, Slots, Mutable,
     AppendOnly
<1> QED
  BY <1>1, <1>2, <1>3, <1>4, <1>5, <1>6, <1>7 DEF IndInv, journal, RollbackPending

\* The record is removed only when the manifest knows its backup.
LEMMA CompactRemoveStep ==
    ASSUME IndInv, CompactRemove
    PROVE  IndInv' /\ Recovered' = Recovered
<1>1. TypeOK /\ RollbackPending /\ Restorable
  BY ZenonT(30) DEF IndInv, ControlInv, OpenPcs, RollbackPcs, CompactRemove
<1>2. /\ UNCHANGED <<journal, decision>>
      /\ manifest.primary["trust"] = "no" => fs'["trust"] = fs["trust"]
      /\ \A f \in manifest.appendOnly \ manifest.compacted : fs'[f] = fs[f]
  BY <1>1, ContentsAssumption, PathsAssumption
     DEF IndInv, CompactRemove, TypeOK, Restorable, Manifest, Paths, Slots, Mutable,
     AppendOnly, CompactInv
<1>3. /\ RollbackPending' /\ Restorable' /\ Recovered' = Recovered
      /\ \A s \in Mutable : RestoredMutable(s)' = RestoredMutable(s)
      /\ manifest.primary["trust"] # "no" => RestoredTrust' = RestoredTrust
  BY <1>1, <1>2, FilesMove
<1>4. TypeOK'
  BY ZenonT(30), <1>1, RestoredIsWhole, PathsAssumption
     DEF CompactRemove, TypeOK, journal, Pcs, OpenPcs, RollbackPcs, Values, Whole, Paths,
     Slots, Mutable, AppendOnly
<1>5. ControlInv' /\ BeginInv' /\ WorkspaceInv' /\ CompactInv'
  BY <1>1, <1>3, ContentsAssumption, PathsAssumption
     DEF IndInv, CompactRemove, ControlInv, BeginInv, WorkspaceInv, CompactInv, journal,
     TypeOK,
         BeginPcs, OpenPcs, RollbackPcs, Slots
<1>6. OpenInv'
  BY ZenonT(30), <1>1, ContentsAssumption, PathsAssumption
     DEF IndInv, CompactRemove, OpenInv, WorkspaceInv, OpenPcs, RollbackPcs, TypeOK, Whole,
     Paths, Slots, Mutable, AppendOnly, CompactInv
<1>7. RollbackInv'
  BY <1>1, <1>3, PathsAssumption
     DEF IndInv, CompactRemove, RollbackInv, AfterRatchet, AfterSequence, AfterTrust,
     AfterNewFiles, OpenPcs, RollbackPcs, NewFiles, journal, TypeOK, Paths, Slots, Mutable,
     AppendOnly
<1> QED
  BY <1>1, <1>2, <1>3, <1>4, <1>5, <1>6, <1>7 DEF IndInv, journal, RollbackPending

\* rollback_active clears the ratchet tree; its backup stays.
LEMMA RollbackRatchetStep ==
    ASSUME IndInv, RollbackRatchet
    PROVE  IndInv' /\ Recovered' = Recovered
<1>1. TypeOK /\ RollbackPending /\ Restorable
  BY ZenonT(30) DEF IndInv, ControlInv, OpenPcs, RollbackPcs, RollbackRatchet, Replace
<1>2. /\ UNCHANGED <<journal, decision>>
      /\ manifest.primary["trust"] = "no" => fs'["trust"] = fs["trust"]
      /\ \A f \in manifest.appendOnly \ manifest.compacted : fs'[f] = fs[f]
  BY <1>1, ContentsAssumption, PathsAssumption
     DEF IndInv, RollbackRatchet, Replace, TypeOK, Restorable, Manifest, Paths, Slots,
     Mutable, AppendOnly
<1>3. /\ RollbackPending' /\ Restorable' /\ Recovered' = Recovered
      /\ \A s \in Mutable : RestoredMutable(s)' = RestoredMutable(s)
      /\ manifest.primary["trust"] # "no" => RestoredTrust' = RestoredTrust
  BY <1>1, <1>2, FilesMove
<1>4. TypeOK'
  BY ZenonT(30), <1>1, RestoredIsWhole, PathsAssumption
     DEF RollbackRatchet, Replace, TypeOK, journal, Pcs, OpenPcs, RollbackPcs, Values,
     Whole, Paths, Slots, Mutable, AppendOnly
<1>5. ControlInv' /\ BeginInv' /\ WorkspaceInv' /\ CompactInv'
  BY <1>1, <1>3, ContentsAssumption, PathsAssumption
     DEF IndInv, RollbackRatchet, Replace, ControlInv, BeginInv, WorkspaceInv, CompactInv,
     journal, TypeOK,
         BeginPcs, OpenPcs, RollbackPcs, Slots
<1>6. OpenInv'
  BY <1>1, ContentsAssumption, PathsAssumption
     DEF IndInv, RollbackRatchet, Replace, OpenInv, WorkspaceInv, OpenPcs, RollbackPcs,
     TypeOK, Whole, Paths, Slots, Mutable, AppendOnly, CompactInv
<1>7. RollbackInv'
  BY <1>1, <1>3, PathsAssumption
     DEF IndInv, RollbackRatchet, Replace, RollbackInv, AfterRatchet, AfterSequence,
     AfterTrust, AfterNewFiles, OpenPcs, RollbackPcs, NewFiles, journal, TypeOK, Paths,
     Slots, Mutable, AppendOnly
<1> QED
  BY <1>1, <1>2, <1>3, <1>4, <1>5, <1>6, <1>7 DEF IndInv, journal, RollbackPending

\* rollback_active copies the ratchet tree back.
LEMMA RollbackRatchetCopyStep ==
    ASSUME IndInv, RollbackRatchetCopy
    PROVE  IndInv' /\ Recovered' = Recovered
<1>1. TypeOK /\ RollbackPending /\ Restorable
  BY ZenonT(30) DEF IndInv, ControlInv, OpenPcs, RollbackPcs, RollbackRatchetCopy, Copy
<1>2. /\ UNCHANGED <<journal, decision>>
      /\ manifest.primary["trust"] = "no" => fs'["trust"] = fs["trust"]
      /\ \A f \in manifest.appendOnly \ manifest.compacted : fs'[f] = fs[f]
  BY <1>1, ContentsAssumption, PathsAssumption
     DEF IndInv, RollbackRatchetCopy, Copy, TypeOK, Restorable, Manifest, Paths, Slots,
     Mutable, AppendOnly
<1>3. /\ RollbackPending' /\ Restorable' /\ Recovered' = Recovered
      /\ \A s \in Mutable : RestoredMutable(s)' = RestoredMutable(s)
      /\ manifest.primary["trust"] # "no" => RestoredTrust' = RestoredTrust
  BY <1>1, <1>2, FilesMove
<1>4. TypeOK'
  BY ZenonT(30), <1>1, RestoredIsWhole, PathsAssumption
     DEF RollbackRatchetCopy, Copy, TypeOK, journal, Pcs, OpenPcs, RollbackPcs, Values,
     Whole, Paths, Slots, Mutable, AppendOnly
<1>5. ControlInv' /\ BeginInv' /\ WorkspaceInv' /\ CompactInv'
  BY <1>1, <1>3, ContentsAssumption, PathsAssumption
     DEF IndInv, RollbackRatchetCopy, Copy, ControlInv, BeginInv, WorkspaceInv, CompactInv,
     journal, TypeOK,
         BeginPcs, OpenPcs, RollbackPcs, Slots
<1>6. OpenInv'
  BY <1>1, ContentsAssumption, PathsAssumption
     DEF IndInv, RollbackRatchetCopy, Copy, OpenInv, WorkspaceInv, OpenPcs, RollbackPcs,
     TypeOK, Whole, Paths, Slots, Mutable, AppendOnly, CompactInv
<1>7. RollbackInv'
  BY <1>1, <1>3, PathsAssumption
     DEF IndInv, RollbackRatchetCopy, Copy, RollbackInv, AfterRatchet, AfterSequence,
     AfterTrust, AfterNewFiles, OpenPcs, RollbackPcs, NewFiles, journal, TypeOK, Paths,
     Slots, Mutable, AppendOnly
<1> QED
  BY <1>1, <1>2, <1>3, <1>4, <1>5, <1>6, <1>7 DEF IndInv, journal, RollbackPending

\* rollback_active clears next-sequence; its backup stays.
LEMMA RollbackSequenceStep ==
    ASSUME IndInv, RollbackSequence
    PROVE  IndInv' /\ Recovered' = Recovered
<1>1. TypeOK /\ RollbackPending /\ Restorable
  BY ZenonT(30) DEF IndInv, ControlInv, OpenPcs, RollbackPcs, RollbackSequence, Replace
<1>2. /\ UNCHANGED <<journal, decision>>
      /\ manifest.primary["trust"] = "no" => fs'["trust"] = fs["trust"]
      /\ \A f \in manifest.appendOnly \ manifest.compacted : fs'[f] = fs[f]
  BY <1>1, ContentsAssumption, PathsAssumption
     DEF IndInv, RollbackSequence, Replace, TypeOK, Restorable, Manifest, Paths, Slots,
     Mutable, AppendOnly
<1>3. /\ RollbackPending' /\ Restorable' /\ Recovered' = Recovered
      /\ \A s \in Mutable : RestoredMutable(s)' = RestoredMutable(s)
      /\ manifest.primary["trust"] # "no" => RestoredTrust' = RestoredTrust
  BY <1>1, <1>2, FilesMove
<1>4. TypeOK'
  BY ZenonT(30), <1>1, RestoredIsWhole, PathsAssumption
     DEF RollbackSequence, Replace, TypeOK, journal, Pcs, OpenPcs, RollbackPcs, Values,
     Whole, Paths, Slots, Mutable, AppendOnly
<1>5. ControlInv' /\ BeginInv' /\ WorkspaceInv' /\ CompactInv'
  BY ZenonT(30), <1>1, <1>3, ContentsAssumption, PathsAssumption
     DEF IndInv, RollbackSequence, Replace, ControlInv, BeginInv, WorkspaceInv, CompactInv,
     journal, TypeOK,
         BeginPcs, OpenPcs, RollbackPcs, Slots
<1>6. OpenInv'
  BY <1>1, ContentsAssumption, PathsAssumption
     DEF IndInv, RollbackSequence, Replace, OpenInv, WorkspaceInv, OpenPcs, RollbackPcs,
     TypeOK, Whole, Paths, Slots, Mutable, AppendOnly, CompactInv
<1>7. RollbackInv'
  BY <1>1, <1>3, PathsAssumption
     DEF IndInv, RollbackSequence, Replace, RollbackInv, AfterRatchet, AfterSequence,
     AfterTrust, AfterNewFiles, OpenPcs, RollbackPcs, NewFiles, journal, TypeOK, Paths,
     Slots, Mutable, AppendOnly
<1> QED
  BY <1>1, <1>2, <1>3, <1>4, <1>5, <1>6, <1>7 DEF IndInv, journal, RollbackPending

\* rollback_active copies next-sequence back.
LEMMA RollbackSequenceCopyStep ==
    ASSUME IndInv, RollbackSequenceCopy
    PROVE  IndInv' /\ Recovered' = Recovered
<1>1. TypeOK /\ RollbackPending /\ Restorable
  BY ZenonT(30) DEF IndInv, ControlInv, OpenPcs, RollbackPcs, RollbackSequenceCopy, Copy
<1>2. /\ UNCHANGED <<journal, decision>>
      /\ manifest.primary["trust"] = "no" => fs'["trust"] = fs["trust"]
      /\ \A f \in manifest.appendOnly \ manifest.compacted : fs'[f] = fs[f]
  BY <1>1, ContentsAssumption, PathsAssumption
     DEF IndInv, RollbackSequenceCopy, Copy, TypeOK, Restorable, Manifest, Paths, Slots,
     Mutable, AppendOnly
<1>3. /\ RollbackPending' /\ Restorable' /\ Recovered' = Recovered
      /\ \A s \in Mutable : RestoredMutable(s)' = RestoredMutable(s)
      /\ manifest.primary["trust"] # "no" => RestoredTrust' = RestoredTrust
  BY <1>1, <1>2, FilesMove
<1>4. TypeOK'
  BY ZenonT(30), <1>1, RestoredIsWhole, PathsAssumption
     DEF RollbackSequenceCopy, Copy, TypeOK, journal, Pcs, OpenPcs, RollbackPcs, Values,
     Whole, Paths, Slots, Mutable, AppendOnly
<1>5. ControlInv' /\ BeginInv' /\ WorkspaceInv' /\ CompactInv'
  BY <1>1, <1>3, ContentsAssumption, PathsAssumption
     DEF IndInv, RollbackSequenceCopy, Copy, ControlInv, BeginInv, WorkspaceInv,
     CompactInv, journal, TypeOK,
         BeginPcs, OpenPcs, RollbackPcs, Slots
<1>6. OpenInv'
  BY <1>1, ContentsAssumption, PathsAssumption
     DEF IndInv, RollbackSequenceCopy, Copy, OpenInv, WorkspaceInv, OpenPcs, RollbackPcs,
     TypeOK, Whole, Paths, Slots, Mutable, AppendOnly, CompactInv
<1>7. RollbackInv'
  BY <1>1, <1>3, PathsAssumption
     DEF IndInv, RollbackSequenceCopy, Copy, RollbackInv, AfterRatchet, AfterSequence,
     AfterTrust, AfterNewFiles, OpenPcs, RollbackPcs, NewFiles, journal, TypeOK, Paths,
     Slots, Mutable, AppendOnly
<1> QED
  BY <1>1, <1>2, <1>3, <1>4, <1>5, <1>6, <1>7 DEF IndInv, journal, RollbackPending

\* rollback_active clears the trust files if it has their backup.
LEMMA RollbackTrustStep ==
    ASSUME IndInv, RollbackTrust
    PROVE  IndInv' /\ Recovered' = Recovered
<1>1. TypeOK /\ RollbackPending /\ Restorable
  BY DEF IndInv, ControlInv, OpenPcs, RollbackPcs, RollbackTrust, ReturnError
<1>2. /\ UNCHANGED <<journal, decision>>
      /\ manifest.primary["trust"] = "no" => fs'["trust"] = fs["trust"]
      /\ \A f \in manifest.appendOnly \ manifest.compacted : fs'[f] = fs[f]
  BY <1>1, ContentsAssumption, PathsAssumption
     DEF IndInv, RollbackTrust, ReturnError, TypeOK, Restorable, Manifest, Paths, Slots,
     Mutable, AppendOnly
<1>3. /\ RollbackPending' /\ Restorable' /\ Recovered' = Recovered
      /\ \A s \in Mutable : RestoredMutable(s)' = RestoredMutable(s)
      /\ manifest.primary["trust"] # "no" => RestoredTrust' = RestoredTrust
  BY <1>1, <1>2, FilesMove
<1>4. TypeOK'
  <2>1. fs' \in [Paths -> Values]
    BY <1>1 DEF RollbackTrust, ReturnError, TypeOK, Values, Restorable, Manifest, NewFiles
  <2>2. /\ session' \in {"none", "acquiring", "live"} /\ pc' \in Pcs
        /\ UNCHANGED <<journal, cur, base, decision, faults>>
    BY ZenonT(30), <1>1 DEF RollbackTrust, ReturnError, TypeOK, Pcs, RollbackPcs
  <2> QED
    BY <1>1, <2>1, <2>2 DEF TypeOK, journal
<1>5. ControlInv' /\ BeginInv' /\ WorkspaceInv' /\ CompactInv'
  BY <1>1, <1>3, ContentsAssumption, PathsAssumption
     DEF IndInv, RollbackTrust, ReturnError, ControlInv, BeginInv, WorkspaceInv,
     CompactInv, journal, TypeOK,
         BeginPcs, OpenPcs, RollbackPcs, Slots
<1>6. OpenInv'
  BY <1>1, ContentsAssumption, PathsAssumption
     DEF IndInv, RollbackTrust, ReturnError, OpenInv, WorkspaceInv, OpenPcs, RollbackPcs,
     TypeOK, Whole, Paths, Slots, Mutable, AppendOnly, CompactInv
<1>7. RollbackInv'
  <2>1. fs'["ratchet"] = RestoredMutable("ratchet")'
    BY ZenonT(30), <1>1, <1>3, PathsAssumption DEF IndInv, RollbackTrust, ReturnError,
       RollbackInv,
       AfterRatchet, TypeOK, Restorable, Manifest, NewFiles, Paths, Slots, Mutable,
       AppendOnly
  <2>2. fs'["sequence"] = RestoredMutable("sequence")'
    BY ZenonT(30), <1>1, <1>3, PathsAssumption DEF IndInv, RollbackTrust, ReturnError,
       RollbackInv,
       AfterSequence, TypeOK, Restorable, Manifest, NewFiles, Paths, Slots, Mutable,
       AppendOnly
  <2>4. pc' \in AfterTrust => fs'["trust"] = RestoredTrust'
    BY ZenonT(30), <1>2 DEF RollbackTrust, ReturnError, AfterTrust, RestoredTrust, journal
  <2>5. pc' = "rbTrustWrite" => manifest'.primary["trust"] # "no"
    BY <1>2 DEF RollbackTrust, ReturnError, journal
  <2>6. pc' \notin AfterNewFiles
    BY DEF RollbackTrust, ReturnError, AfterNewFiles
  <2> QED
    BY ZenonT(30), <2>1, <2>2, <2>4, <2>5, <2>6 DEF RollbackInv, AfterNewFiles
<1> QED
  BY <1>1, <1>2, <1>3, <1>4, <1>5, <1>6, <1>7 DEF IndInv, journal, RollbackPending

\* rollback_active writes the trust files back.
LEMMA RollbackTrustWriteStep ==
    ASSUME IndInv, RollbackTrustWrite
    PROVE  IndInv' /\ Recovered' = Recovered
<1>1. TypeOK /\ RollbackPending /\ Restorable
  BY ZenonT(30) DEF IndInv, ControlInv, OpenPcs, RollbackPcs, RollbackTrustWrite
<1>2. /\ UNCHANGED <<journal, decision>>
      /\ manifest.primary["trust"] = "no" => fs'["trust"] = fs["trust"]
      /\ \A f \in manifest.appendOnly \ manifest.compacted : fs'[f] = fs[f]
  BY ZenonT(30), <1>1, ContentsAssumption, PathsAssumption
     DEF IndInv, RollbackTrustWrite, TypeOK, Restorable, Manifest, Paths, Slots, Mutable,
     AppendOnly, RollbackInv
<1>3. /\ RollbackPending' /\ Restorable' /\ Recovered' = Recovered
      /\ \A s \in Mutable : RestoredMutable(s)' = RestoredMutable(s)
      /\ manifest.primary["trust"] # "no" => RestoredTrust' = RestoredTrust
  BY <1>1, <1>2, FilesMove
<1>4. TypeOK'
  BY ZenonT(30), <1>1, RestoredIsWhole, PathsAssumption
     DEF RollbackTrustWrite, TypeOK, journal, Pcs, OpenPcs, RollbackPcs, Values, Whole,
     Paths, Slots, Mutable, AppendOnly
<1>5. ControlInv' /\ BeginInv' /\ WorkspaceInv' /\ CompactInv'
  BY ZenonT(30), <1>1, <1>3, ContentsAssumption, PathsAssumption
     DEF IndInv, RollbackTrustWrite, ControlInv, BeginInv, WorkspaceInv, CompactInv,
     journal, TypeOK,
         BeginPcs, OpenPcs, RollbackPcs, Slots
<1>6. OpenInv'
  BY <1>1, ContentsAssumption, PathsAssumption
     DEF IndInv, RollbackTrustWrite, OpenInv, WorkspaceInv, OpenPcs, RollbackPcs, TypeOK,
     Whole, Paths, Slots, Mutable, AppendOnly, CompactInv
<1>7. RollbackInv'
  BY <1>1, <1>3, PathsAssumption
     DEF IndInv, RollbackTrustWrite, RollbackInv, AfterRatchet, AfterSequence, AfterTrust,
     AfterNewFiles, OpenPcs, RollbackPcs, NewFiles, journal, TypeOK, Paths, Slots, Mutable,
     AppendOnly
<1> QED
  BY <1>1, <1>2, <1>3, <1>4, <1>5, <1>6, <1>7 DEF IndInv, journal, RollbackPending

\* remove_new_files spares every record of the begin snapshot.
LEMMA RemoveNewFilesStep ==
    ASSUME IndInv, remove_new_files
    PROVE  IndInv' /\ Recovered' = Recovered
<1>1. TypeOK /\ RollbackPending /\ Restorable
  BY ZenonT(30) DEF IndInv, ControlInv, OpenPcs, RollbackPcs, remove_new_files
<1>2. /\ UNCHANGED <<journal, decision>>
      /\ manifest.primary["trust"] = "no" => fs'["trust"] = fs["trust"]
      /\ \A f \in manifest.appendOnly \ manifest.compacted : fs'[f] = fs[f]
  BY ZenonT(30), <1>1, ContentsAssumption, PathsAssumption
     DEF IndInv, remove_new_files, TypeOK, Restorable, Manifest, Paths, Slots, Mutable,
     AppendOnly, NewFiles
<1>3. /\ RollbackPending' /\ Restorable' /\ Recovered' = Recovered
      /\ \A s \in Mutable : RestoredMutable(s)' = RestoredMutable(s)
      /\ manifest.primary["trust"] # "no" => RestoredTrust' = RestoredTrust
  BY <1>1, <1>2, FilesMove
<1>4. TypeOK'
  <2>1. fs' \in [Paths -> Values]
    BY <1>1 DEF remove_new_files, TypeOK, Values, Restorable, Manifest, NewFiles
  <2>2. /\ session' \in {"none", "acquiring", "live"} /\ pc' \in Pcs
        /\ UNCHANGED <<journal, cur, base, decision, faults>>
    BY ZenonT(30), <1>1 DEF remove_new_files, TypeOK, Pcs, RollbackPcs
  <2> QED
    BY <1>1, <2>1, <2>2 DEF TypeOK, journal
<1>5. ControlInv' /\ BeginInv' /\ WorkspaceInv' /\ CompactInv'
  BY ZenonT(30), <1>1, <1>3, ContentsAssumption, PathsAssumption
     DEF IndInv, remove_new_files, ControlInv, BeginInv, WorkspaceInv, CompactInv, journal,
     TypeOK,
         BeginPcs, OpenPcs, RollbackPcs, Slots
<1>6. OpenInv'
  BY <1>1, ContentsAssumption, PathsAssumption
     DEF IndInv, remove_new_files, OpenInv, WorkspaceInv, OpenPcs, RollbackPcs, TypeOK,
     Whole, Paths, Slots, Mutable, AppendOnly, CompactInv
<1>7. RollbackInv'
  <2>1. fs'["ratchet"] = RestoredMutable("ratchet")'
    BY ZenonT(30), <1>1, <1>3, PathsAssumption DEF IndInv, remove_new_files, RollbackInv,
       AfterRatchet,
       TypeOK, Restorable, Manifest, NewFiles, Paths, Slots, Mutable, AppendOnly
  <2>2. fs'["sequence"] = RestoredMutable("sequence")'
    BY ZenonT(30), <1>1, <1>3, PathsAssumption DEF IndInv, remove_new_files, RollbackInv,
       AfterSequence, TypeOK, Restorable, Manifest, NewFiles, Paths, Slots, Mutable,
       AppendOnly
  <2>3. fs'["trust"] = RestoredTrust'
    BY ZenonT(30), <1>1, <1>2, PathsAssumption
       DEF IndInv, remove_new_files, RollbackInv, AfterTrust, RestoredTrust, journal,
       TypeOK, Restorable, Manifest, NewFiles, Paths, Slots, Mutable, AppendOnly
  <2>4. pc' \in AfterNewFiles => NewFiles' = {}
    BY <1>2 DEF remove_new_files, AfterNewFiles, NewFiles, journal
  <2>5. pc' \notin {"rbTrustWrite", "rbMark"}
    BY ZenonT(30) DEF remove_new_files
  <2> QED
    BY ZenonT(30), <2>1, <2>2, <2>3, <2>4, <2>5 DEF RollbackInv
<1> QED
  BY <1>1, <1>2, <1>3, <1>4, <1>5, <1>6, <1>7 DEF IndInv, journal, RollbackPending

\* rollback_active starts to copy the compacted records back.
LEMMA RollbackCompactedStep ==
    ASSUME IndInv, RollbackCompacted
    PROVE  IndInv' /\ Recovered' = Recovered
<1>1. TypeOK /\ RollbackPending /\ Restorable
  BY ZenonT(30) DEF IndInv, ControlInv, OpenPcs, RollbackPcs, RollbackCompacted
<1>2. /\ UNCHANGED <<journal, decision>>
      /\ manifest.primary["trust"] = "no" => fs'["trust"] = fs["trust"]
      /\ \A f \in manifest.appendOnly \ manifest.compacted : fs'[f] = fs[f]
  BY ZenonT(30), <1>1, ContentsAssumption, PathsAssumption
     DEF IndInv, RollbackCompacted, TypeOK, Restorable, Manifest, Paths, Slots, Mutable,
     AppendOnly
<1>3. /\ RollbackPending' /\ Restorable' /\ Recovered' = Recovered
      /\ \A s \in Mutable : RestoredMutable(s)' = RestoredMutable(s)
      /\ manifest.primary["trust"] # "no" => RestoredTrust' = RestoredTrust
  BY <1>1, <1>2, FilesMove
<1>4. TypeOK'
  <2>1. fs' \in [Paths -> Values]
    BY ZenonT(30), <1>1 DEF RollbackCompacted, TypeOK, Values, Restorable, Manifest, NewFiles
  <2>2. /\ session' \in {"none", "acquiring", "live"} /\ pc' \in Pcs
        /\ UNCHANGED <<journal, cur, base, decision, faults>>
    BY ZenonT(30), <1>1 DEF RollbackCompacted, TypeOK, Pcs, RollbackPcs
  <2> QED
    BY <1>1, <2>1, <2>2 DEF TypeOK, journal
<1>5. ControlInv' /\ BeginInv' /\ WorkspaceInv' /\ CompactInv'
  BY ZenonT(30), <1>1, <1>3, ContentsAssumption, PathsAssumption
     DEF IndInv, RollbackCompacted, ControlInv, BeginInv, WorkspaceInv, CompactInv,
     journal, TypeOK,
         BeginPcs, OpenPcs, RollbackPcs, Slots
<1>6. OpenInv'
  BY <1>1, ContentsAssumption, PathsAssumption
     DEF IndInv, RollbackCompacted, OpenInv, WorkspaceInv, OpenPcs, RollbackPcs, TypeOK,
     Whole, Paths, Slots, Mutable, AppendOnly, CompactInv
<1>7. RollbackInv'
  <2>1. fs'["ratchet"] = RestoredMutable("ratchet")'
    BY ZenonT(30), <1>1, <1>3, PathsAssumption DEF IndInv, RollbackCompacted, RollbackInv,
       AfterRatchet, TypeOK, Restorable, Manifest, NewFiles, Paths, Slots, Mutable,
       AppendOnly
  <2>2. fs'["sequence"] = RestoredMutable("sequence")'
    BY ZenonT(30), <1>1, <1>3, PathsAssumption DEF IndInv, RollbackCompacted, RollbackInv,
       AfterSequence, TypeOK, Restorable, Manifest, NewFiles, Paths, Slots, Mutable,
       AppendOnly
  <2>3. fs'["trust"] = RestoredTrust'
    BY ZenonT(30), <1>1, <1>2, PathsAssumption
       DEF IndInv, RollbackCompacted, RollbackInv, AfterTrust, RestoredTrust, journal,
       TypeOK, Restorable, Manifest, NewFiles, Paths, Slots, Mutable, AppendOnly
  <2>4. NewFiles' = {}
    BY ZenonT(30), <1>1, <1>2, PathsAssumption
       DEF IndInv, RollbackCompacted, RollbackInv, AfterNewFiles, NewFiles, journal,
       Restorable,
           Paths
  <2>5. pc' \notin {"rbTrustWrite", "rbMark"}
    BY ZenonT(30) DEF RollbackCompacted
  <2> QED
    BY ZenonT(30), <2>1, <2>2, <2>3, <2>4, <2>5 DEF RollbackInv
<1> QED
  BY <1>1, <1>2, <1>3, <1>4, <1>5, <1>6, <1>7 DEF IndInv, journal, RollbackPending

\* rollback_active has copied the compacted records back.
LEMMA RollbackCompactedCopyStep ==
    ASSUME IndInv, RollbackCompactedCopy
    PROVE  IndInv' /\ Recovered' = Recovered
<1>1. TypeOK /\ RollbackPending /\ Restorable
  BY ZenonT(30) DEF IndInv, ControlInv, OpenPcs, RollbackPcs, RollbackCompactedCopy
<1>2. /\ UNCHANGED <<journal, decision>>
      /\ manifest.primary["trust"] = "no" => fs'["trust"] = fs["trust"]
      /\ \A f \in manifest.appendOnly \ manifest.compacted : fs'[f] = fs[f]
  BY ZenonT(30), <1>1, ContentsAssumption, PathsAssumption
     DEF IndInv, RollbackCompactedCopy, TypeOK, Restorable, Manifest, Paths, Slots,
     Mutable, AppendOnly
<1>3. /\ RollbackPending' /\ Restorable' /\ Recovered' = Recovered
      /\ \A s \in Mutable : RestoredMutable(s)' = RestoredMutable(s)
      /\ manifest.primary["trust"] # "no" => RestoredTrust' = RestoredTrust
  BY <1>1, <1>2, FilesMove
<1>4. TypeOK'
  <2>1. fs' \in [Paths -> Values]
    BY <1>1 DEF RollbackCompactedCopy, TypeOK, Values, Restorable, Manifest, NewFiles
  <2>2. /\ session' \in {"none", "acquiring", "live"} /\ pc' \in Pcs
        /\ UNCHANGED <<journal, cur, base, decision, faults>>
    BY ZenonT(30), <1>1 DEF RollbackCompactedCopy, TypeOK, Pcs, RollbackPcs
  <2> QED
    BY <1>1, <2>1, <2>2 DEF TypeOK, journal
<1>5. ControlInv' /\ BeginInv' /\ WorkspaceInv' /\ CompactInv'
  BY ZenonT(30), <1>1, <1>3, ContentsAssumption, PathsAssumption
     DEF IndInv, RollbackCompactedCopy, ControlInv, BeginInv, WorkspaceInv, CompactInv,
     journal, TypeOK,
         BeginPcs, OpenPcs, RollbackPcs, Slots
<1>6. OpenInv'
  BY <1>1, ContentsAssumption, PathsAssumption
     DEF IndInv, RollbackCompactedCopy, OpenInv, WorkspaceInv, OpenPcs, RollbackPcs,
     TypeOK, Whole, Paths, Slots, Mutable, AppendOnly, CompactInv
<1>7. RollbackInv'
  <2>1. fs'["ratchet"] = RestoredMutable("ratchet")'
    BY ZenonT(30), <1>1, <1>3, PathsAssumption DEF IndInv, RollbackCompactedCopy, RollbackInv,
       AfterRatchet, TypeOK, Restorable, Manifest, NewFiles, Paths, Slots, Mutable,
       AppendOnly
  <2>2. fs'["sequence"] = RestoredMutable("sequence")'
    BY ZenonT(30), <1>1, <1>3, PathsAssumption DEF IndInv, RollbackCompactedCopy, RollbackInv,
       AfterSequence, TypeOK, Restorable, Manifest, NewFiles, Paths, Slots, Mutable,
       AppendOnly
  <2>3. fs'["trust"] = RestoredTrust'
    BY ZenonT(30), <1>1, <1>2, PathsAssumption
       DEF IndInv, RollbackCompactedCopy, RollbackInv, AfterTrust, RestoredTrust, journal,
       TypeOK, Restorable, Manifest, NewFiles, Paths, Slots, Mutable, AppendOnly
  <2>4. NewFiles' = {}
    BY ZenonT(30), <1>1, <1>2, PathsAssumption
       DEF IndInv, RollbackCompactedCopy, RollbackInv, AfterNewFiles, NewFiles, journal,
           Restorable, Paths
  <2>5. \A f \in manifest.compacted : fs'[f] = compaction'[f]
    BY ZenonT(30), <1>1, <1>2 DEF RollbackCompactedCopy, Restorable, Manifest, Paths, AppendOnly,
       journal
  <2>6. pc' = "rbMark" /\ manifest' = manifest
    BY ZenonT(30), <1>2 DEF RollbackCompactedCopy, journal
  <2> QED
    BY ZenonT(30), <2>1, <2>2, <2>3, <2>4, <2>5, <2>6 DEF RollbackInv
<1> QED
  BY <1>1, <1>2, <1>3, <1>4, <1>5, <1>6, <1>7 DEF IndInv, journal, RollbackPending
-----------------------------------------------------------------------------
(* Steps of begin.                                                         *)

\* begin creates the journal directory: not prepared yet, so not pending.
LEMMA BeginStep ==
    ASSUME IndInv, Begin
    PROVE  IndInv' /\ Recovered' = Recovered
<1>1. TypeOK /\ ~RollbackPending /\ fs' = fs /\ decision' = "none"
  BY ZenonT(30) DEF IndInv, Begin, ControlInv, BeginInv, BeginPcs, RollbackPending
<1>2. active' /\ ~RollbackPending'
  BY ZenonT(30), <1>1 DEF IndInv, Begin, ControlInv, BeginInv, BeginPcs, RollbackPending,
     NoJournal
<1>3. TypeOK'
  BY ZenonT(30), <1>1 DEF Begin, TypeOK, Pcs, Values, Manifest
<1>4. ControlInv' /\ WorkspaceInv' /\ CompactInv' /\ OpenInv' /\ RollbackInv'
  BY ZenonT(30), <1>1, <1>2 DEF IndInv, Begin, ControlInv, WorkspaceInv, CompactInv, OpenInv,
     RollbackInv,
     BeginPcs, OpenPcs, RollbackPcs, AfterRatchet, AfterSequence, AfterTrust, AfterNewFiles
<1>5. BeginInv'
  BY ZenonT(30), <1>1 DEF IndInv, Begin, BeginInv, BeginPcs, NoJournal, TypeOK
<1> QED
  BY ZenonT(30), <1>1, <1>2, <1>3, <1>4, <1>5, JournalMoves DEF IndInv

\* prepare_snapshot copies the mutable files.
LEMMA SnapshotStep ==
    ASSUME IndInv, prepare_snapshot
    PROVE  IndInv' /\ Recovered' = Recovered
<1>1. TypeOK /\ ~RollbackPending /\ fs' = fs /\ decision' = "none"
  BY ZenonT(30) DEF IndInv, prepare_snapshot, ControlInv, BeginInv, BeginPcs, RollbackPending
<1>2. active' /\ ~RollbackPending'
  BY <1>1 DEF IndInv, prepare_snapshot, ControlInv, BeginInv, BeginPcs, RollbackPending,
     NoJournal
<1>3. TypeOK'
  BY ZenonT(30), <1>1 DEF prepare_snapshot, TypeOK, Pcs, Values, Manifest, Paths, Slots
<1>4. ControlInv' /\ WorkspaceInv' /\ CompactInv' /\ OpenInv' /\ RollbackInv'
  BY ZenonT(30), <1>1, <1>2 DEF IndInv, prepare_snapshot, ControlInv, WorkspaceInv, CompactInv,
     OpenInv, RollbackInv,
     BeginPcs, OpenPcs, RollbackPcs, AfterRatchet, AfterSequence, AfterTrust, AfterNewFiles
<1>5. BeginInv'
  BY ZenonT(30), <1>1 DEF IndInv, prepare_snapshot, BeginInv, BeginPcs, NoJournal, TypeOK
<1> QED
  BY <1>1, <1>2, <1>3, <1>4, <1>5, JournalMoves DEF IndInv

\* begin records what the snapshot holds.
LEMMA BeginManifestStep ==
    ASSUME IndInv, BeginManifest
    PROVE  IndInv' /\ Recovered' = Recovered
<1>1. TypeOK /\ ~RollbackPending /\ fs' = fs /\ decision' = "none"
  BY ZenonT(30) DEF IndInv, BeginManifest, ControlInv, BeginInv, BeginPcs, RollbackPending
<1>2. active' /\ ~RollbackPending'
  BY ZenonT(30), <1>1 DEF IndInv, BeginManifest, ControlInv, BeginInv, BeginPcs, RollbackPending,
     NoJournal
<1>3. TypeOK'
  BY ZenonT(30), <1>1 DEF BeginManifest, TypeOK, Pcs, Values, Manifest
<1>4. ControlInv' /\ WorkspaceInv' /\ CompactInv' /\ OpenInv' /\ RollbackInv'
  BY ZenonT(30), <1>1, <1>2 DEF IndInv, BeginManifest, ControlInv, WorkspaceInv, CompactInv,
     OpenInv,
     RollbackInv,
     BeginPcs, OpenPcs, RollbackPcs, AfterRatchet, AfterSequence, AfterTrust, AfterNewFiles
<1>5. BeginInv'
  BY <1>1 DEF IndInv, BeginManifest, BeginInv, BeginPcs, NoJournal, TypeOK
<1> QED
  BY <1>1, <1>2, <1>3, <1>4, <1>5, JournalMoves DEF IndInv

\* The prepared marker makes the journal pending; it restores the files it found.
LEMMA BeginPreparedStep ==
    ASSUME IndInv, BeginPrepared
    PROVE  IndInv' /\ Recovered' = Recovered
<1>1. /\ TypeOK /\ ~RollbackPending /\ active /\ marks = {} /\ decision = "none"
      /\ \A p \in Paths : fs[p] \in Whole
  BY DEF IndInv, BeginPrepared, ControlInv, BeginInv, BeginPcs
<1>2. RollbackPending' /\ UNCHANGED <<fs, manifest, backup, primary, compaction, decision>>
  BY ZenonT(30), <1>1 DEF BeginPrepared, RollbackPending
<1>3. /\ \A s \in Mutable : backup[s] = fs[s] /\ manifest.existed[s] = (fs[s] # Absent)
      /\ \A s \in Slots : manifest.primary[s] = "no"
      /\ manifest.appendOnly = {f \in AppendOnly : fs[f] # Absent}
      /\ manifest.compacted = {}
  BY DEF IndInv, BeginPrepared, BeginInv
<1>4. manifest \in Manifest
  <2>1. manifest = [existed    |-> [s \in Mutable |-> fs[s] # Absent],
                    primary    |-> [s \in Slots |-> "no"],
                    appendOnly |-> {f \in AppendOnly : fs[f] # Absent},
                    compacted  |-> {}]
    BY ZenonT(30) DEF IndInv, BeginPrepared, BeginInv
  <2> QED
    BY ZenonT(30), <2>1 DEF Manifest
<1>5. Restorable'
  BY ZenonT(30), <1>1, <1>2, <1>3, <1>4 DEF Restorable, SourceExisted, Source, Whole, Paths,
     Slots,
     Mutable, AppendOnly
<1>6. Recovered' = Recovered
  <2>1. \A s \in Mutable : RestoredMutable(s)' = fs[s]
    BY ZenonT(30), <1>2, <1>3 DEF RestoredMutable, SourceExisted, Source, Slots
  <2>2. RestoredTrust' = fs["trust"]
    BY <1>2, <1>3 DEF RestoredTrust, Slots
  <2>3. \A f \in AppendOnly : RestoredRecord(f)' = fs[f]
    BY <1>2, <1>3 DEF RestoredRecord
  <2>4. Restored' = [p \in Paths |-> fs[p]]
    BY <2>1, <2>2, <2>3 DEF Restored, Paths, Slots
  <2> QED
    BY <1>1, <1>2, <2>4 DEF Recovered, TypeOK
<1>7. TypeOK'
  BY ZenonT(30), <1>1 DEF BeginPrepared, TypeOK, Pcs, OpenPcs, Markers
<1>8. ControlInv' /\ WorkspaceInv' /\ CompactInv' /\ RollbackInv' /\ BeginInv' /\ OpenInv'
  BY ZenonT(30), <1>1, <1>2 DEF IndInv, BeginPrepared, ControlInv, BeginInv, OpenInv,
     WorkspaceInv,
     CompactInv, RollbackInv,
     BeginPcs, OpenPcs, RollbackPcs, AfterRatchet, AfterSequence, AfterTrust, AfterNewFiles
<1> QED
  BY ZenonT(30), <1>1, <1>2, <1>5, <1>6, <1>7, <1>8 DEF IndInv, BeginPrepared
-----------------------------------------------------------------------------
(* Steps of the open transaction that write the journal.                   *)

\* A step that rewrites the backups of a pending roll back, but not what they restore.
LEMMA BackupsMove ==
    ASSUME RollbackPending, RollbackPending',
           \A s \in Mutable : RestoredMutable(s)' = RestoredMutable(s),
           RestoredTrust' = RestoredTrust,
           \A f \in AppendOnly : RestoredRecord(f)' = RestoredRecord(f)
    PROVE  Recovered' = Recovered
BY DEF Recovered, Restored, Paths, Slots

\* A workspace backup is begun while the manifest does not refer to it.
LEMMA PrepareStep ==
    ASSUME IndInv, NEW t \in Slots, NEW b \in Whole, prepare_workspace(t, b),
           t = "trust" => b = fs["trust"],
           t \in Mutable => b = RestoredMutable(t)
    PROVE  IndInv' /\ Recovered' = Recovered
<1>1. TypeOK /\ RollbackPending /\ Restorable /\ pc \in OpenPcs /\ fs' = fs
  BY DEF IndInv, ControlInv, OpenPcs, prepare_workspace
<1>2. RollbackPending' /\ UNCHANGED <<active, marks, backup, decision>>
  BY ZenonT(30), <1>1 DEF RollbackPending, prepare_workspace
<1>3. TypeOK'
  BY ZenonT(30), <1>1 DEF IndInv, Whole, prepare_workspace,
     TypeOK, Pcs, OpenPcs, Values, Restorable, Manifest, Slots, Paths, AppendOnly
<1>4. Restorable'
  BY ZenonT(30), <1>1, <1>2, ContentsAssumption
     DEF IndInv, Whole, prepare_workspace, TypeOK,
     Restorable, SourceExisted, Source, Manifest, Slots, Mutable
<1>5. \A s \in Mutable : RestoredMutable(s)' = RestoredMutable(s)
  BY <1>1, <1>2 DEF IndInv, Whole, prepare_workspace, TypeOK, Restorable, RestoredMutable,
     SourceExisted, Source, Manifest, Slots, Mutable
<1>6. Recovered' = Recovered
  <2>1. RestoredTrust' = RestoredTrust
    BY ZenonT(30), <1>1, <1>2, ContentsAssumption DEF IndInv, OpenInv, Whole,
       prepare_workspace, TypeOK, Restorable,
       RestoredTrust, Manifest, Slots, Whole
  <2>2. \A f \in AppendOnly : RestoredRecord(f)' = RestoredRecord(f)
    BY ZenonT(30), <1>1, <1>2 DEF IndInv, Whole, prepare_workspace, TypeOK, Restorable,
       RestoredRecord, Manifest
  <2> QED
    BY ZenonT(30), <1>1, <1>2, <1>5, <2>1, <2>2, BackupsMove
<1>7. ControlInv' /\ BeginInv' /\ OpenInv' /\ RollbackInv'
  BY ZenonT(30), <1>1, <1>2 DEF IndInv, prepare_workspace, ControlInv,
     BeginInv, OpenInv, RollbackInv,
     BeginPcs, OpenPcs, RollbackPcs, AfterRatchet, AfterSequence, AfterTrust, AfterNewFiles
<1>8. WorkspaceInv' /\ CompactInv'
  BY ZenonT(30), <1>1, <1>5, ContentsAssumption, PathsAssumption
     DEF IndInv, prepare_workspace, WorkspaceInv,
     CompactInv, TypeOK, Restorable, Manifest, Slots, Paths, AppendOnly
<1> QED
  BY ZenonT(30), <1>1, <1>2, <1>3, <1>4, <1>5, <1>6, <1>7, <1>8 DEF IndInv, RollbackPending

\* The three calls that prepare a workspace start from the state to be restored.
LEMMA PrepareSteps ==
    ASSUME IndInv,
           \/ prepare_ratchet_workspace
           \/ prepare_sequence_workspace
           \/ prepare_legacy_trust_workspace
    PROVE  IndInv' /\ Recovered' = Recovered
<1>1. pc = "open" /\ TypeOK /\ Restorable
  BY ZenonT(30) DEF IndInv, ControlInv, OpenPcs, prepare_ratchet_workspace,
     prepare_sequence_workspace,
     prepare_legacy_trust_workspace, prepare_workspace
<1>2. fs["trust"] \in Whole
  BY ZenonT(30), <1>1 DEF IndInv, OpenInv, OpenPcs, Paths, Slots
<1>3. CASE prepare_ratchet_workspace
  BY <1>1, <1>3, RestoredIsWhole, PrepareStep DEF prepare_ratchet_workspace, Slots, Mutable
<1>4. CASE prepare_sequence_workspace
  BY <1>1, <1>4, RestoredIsWhole, PrepareStep DEF prepare_sequence_workspace, Slots, Mutable
<1>5. CASE prepare_legacy_trust_workspace
  BY <1>2, <1>5, PrepareStep DEF prepare_legacy_trust_workspace, Slots, Mutable
<1> QED
  BY ZenonT(30), <1>3, <1>4, <1>5

\* A workspace backup is completed while the manifest does not refer to it.
LEMMA WorkspaceBackupStep ==
    ASSUME IndInv, WorkspaceBackup
    PROVE  IndInv' /\ Recovered' = Recovered
<1>1. TypeOK /\ RollbackPending /\ Restorable /\ pc \in OpenPcs /\ fs' = fs
  BY DEF IndInv, ControlInv, OpenPcs, WorkspaceBackup
<1>2. RollbackPending' /\ UNCHANGED <<active, marks, backup, decision>>
  BY ZenonT(30), <1>1 DEF RollbackPending, WorkspaceBackup
<1>3. TypeOK'
  BY ZenonT(30), <1>1 DEF IndInv, WorkspaceInv, WorkspaceBackup, TypeOK, Pcs, OpenPcs, Values,
     Restorable, Manifest, Slots, Paths, AppendOnly
<1>4. Restorable'
  BY ZenonT(30), <1>1, <1>2, ContentsAssumption
     DEF IndInv, WorkspaceInv, WorkspaceBackup, TypeOK, Restorable, SourceExisted, Source,
     Manifest, Slots, Mutable, Whole
<1>5. \A s \in Mutable : RestoredMutable(s)' = RestoredMutable(s)
  BY ZenonT(30), <1>1, <1>2 DEF IndInv, WorkspaceInv, WorkspaceBackup, TypeOK, Restorable,
     RestoredMutable, SourceExisted, Source, Manifest, Slots, Mutable
<1>6. Recovered' = Recovered
  <2>1. RestoredTrust' = RestoredTrust
    BY ZenonT(30), <1>1, <1>2, ContentsAssumption DEF IndInv, WorkspaceInv, WorkspaceBackup,
       TypeOK,
       Restorable, RestoredTrust, Manifest, Slots, Whole
  <2>2. \A f \in AppendOnly : RestoredRecord(f)' = RestoredRecord(f)
    BY ZenonT(30), <1>1, <1>2 DEF IndInv, WorkspaceInv, WorkspaceBackup, TypeOK, Restorable,
       RestoredRecord, Manifest
  <2> QED
    BY ZenonT(30), <1>1, <1>2, <1>5, <2>1, <2>2, BackupsMove
<1>7. ControlInv' /\ BeginInv' /\ OpenInv' /\ RollbackInv'
  BY ZenonT(30), <1>1, <1>2 DEF IndInv, WorkspaceBackup, ControlInv, BeginInv, OpenInv,
     RollbackInv,
     BeginPcs, OpenPcs, RollbackPcs, AfterRatchet, AfterSequence, AfterTrust, AfterNewFiles
<1>8. WorkspaceInv' /\ CompactInv'
  BY ZenonT(30), <1>1, <1>5, ContentsAssumption, PathsAssumption
     DEF IndInv, WorkspaceBackup, WorkspaceInv, CompactInv, TypeOK, Restorable, Manifest,
     Slots, Paths, AppendOnly
<1> QED
  BY <1>1, <1>2, <1>3, <1>4, <1>5, <1>6, <1>7, <1>8 DEF IndInv, RollbackPending

\* The manifest refers to a complete backup equal to what the roll back would restore.
LEMMA WorkspaceManifestStep ==
    ASSUME IndInv, WorkspaceManifest
    PROVE  IndInv' /\ Recovered' = Recovered
<1>1. TypeOK /\ RollbackPending /\ Restorable /\ pc \in OpenPcs /\ fs' = fs
  BY DEF IndInv, ControlInv, OpenPcs, WorkspaceManifest
<1>2. RollbackPending' /\ UNCHANGED <<active, marks, backup, decision>>
  BY <1>1 DEF RollbackPending, WorkspaceManifest
<1>3. TypeOK'
  BY <1>1 DEF IndInv, WorkspaceInv, WorkspaceManifest, TypeOK, Pcs, OpenPcs, Values,
     Restorable, Manifest, Slots, Paths, AppendOnly
<1>4. Restorable'
  BY <1>1, <1>2, ContentsAssumption
     DEF IndInv, WorkspaceInv, WorkspaceManifest, TypeOK, Restorable, SourceExisted,
     Source, Manifest, Slots, Mutable, Whole
<1>5. Recovered' = Recovered
  <2>1. \A s \in Mutable : RestoredMutable(s)' = RestoredMutable(s)
    BY <1>1, <1>2 DEF IndInv, WorkspaceInv, WorkspaceManifest, TypeOK, Restorable,
       RestoredMutable, SourceExisted, Source, Manifest, Slots, Mutable
  <2>2. RestoredTrust' = RestoredTrust
    BY <1>1, <1>2, ContentsAssumption DEF IndInv, WorkspaceInv, WorkspaceManifest, TypeOK,
       Restorable, RestoredTrust, Manifest, Slots, Whole
  <2>3. \A f \in AppendOnly : RestoredRecord(f)' = RestoredRecord(f)
    BY <1>1, <1>2 DEF IndInv, WorkspaceInv, WorkspaceManifest, TypeOK, Restorable,
       RestoredRecord, Manifest
  <2> QED
    BY <1>1, <1>2, <2>1, <2>2, <2>3, BackupsMove
<1>6. ControlInv' /\ BeginInv' /\ OpenInv' /\ RollbackInv'
  BY <1>1, <1>2 DEF IndInv, WorkspaceManifest, ControlInv, BeginInv, OpenInv, RollbackInv,
     BeginPcs, OpenPcs, RollbackPcs, AfterRatchet, AfterSequence, AfterTrust, AfterNewFiles
<1>7. WorkspaceInv' /\ CompactInv'
  BY <1>1, ContentsAssumption, PathsAssumption
     DEF IndInv, WorkspaceManifest, WorkspaceInv, CompactInv, TypeOK, Restorable, Manifest,
     Slots, Paths, AppendOnly
<1> QED
  BY <1>1, <1>2, <1>3, <1>4, <1>5, <1>6, <1>7 DEF IndInv, RollbackPending

\* The backup of a record is begun while the manifest does not refer to it.
LEMMA CompactStep ==
    ASSUME IndInv, NEW g \in Runtime, compact_runtime_record(g)
    PROVE  IndInv' /\ Recovered' = Recovered
<1>1. TypeOK /\ RollbackPending /\ Restorable /\ pc \in OpenPcs /\ fs' = fs
  BY DEF IndInv, ControlInv, OpenPcs, compact_runtime_record
<1>2. RollbackPending' /\ UNCHANGED <<active, marks, backup, decision>>
  BY ZenonT(30), <1>1 DEF RollbackPending, compact_runtime_record
<1>3. TypeOK'
  BY ZenonT(30), <1>1 DEF IndInv, CompactInv, compact_runtime_record, TypeOK, Pcs, OpenPcs,
     Values,
     Restorable, Manifest, Slots, Paths, AppendOnly
<1>4. Restorable'
  BY ZenonT(30), <1>1, <1>2, ContentsAssumption
     DEF IndInv, CompactInv, compact_runtime_record, TypeOK, Restorable, SourceExisted,
     Source, Manifest, Slots, Mutable, Whole
<1>5. Recovered' = Recovered
  <2>1. \A s \in Mutable : RestoredMutable(s)' = RestoredMutable(s)
    BY ZenonT(30), <1>1, <1>2 DEF IndInv, CompactInv, compact_runtime_record, TypeOK, Restorable,
       RestoredMutable, SourceExisted, Source, Manifest, Slots, Mutable
  <2>2. RestoredTrust' = RestoredTrust
    BY ZenonT(30), <1>1, <1>2, ContentsAssumption DEF IndInv, CompactInv, compact_runtime_record,
       TypeOK, Restorable, RestoredTrust, Manifest, Slots, Whole
  <2>3. \A f \in AppendOnly : RestoredRecord(f)' = RestoredRecord(f)
    BY ZenonT(30), <1>1, <1>2 DEF IndInv, CompactInv, compact_runtime_record, TypeOK, Restorable,
       RestoredRecord, Manifest
  <2> QED
    BY ZenonT(30), <1>1, <1>2, <2>1, <2>2, <2>3, BackupsMove
<1>6. ControlInv' /\ BeginInv' /\ OpenInv' /\ RollbackInv'
  BY ZenonT(30), <1>1, <1>2 DEF IndInv, compact_runtime_record, ControlInv, BeginInv, OpenInv,
     RollbackInv,
     BeginPcs, OpenPcs, RollbackPcs, AfterRatchet, AfterSequence, AfterTrust, AfterNewFiles
<1>7. WorkspaceInv' /\ CompactInv'
  BY <1>1, ContentsAssumption, PathsAssumption
     DEF IndInv, compact_runtime_record, WorkspaceInv, CompactInv, TypeOK, Restorable,
     Manifest, Slots, Paths, AppendOnly
<1> QED
  BY <1>1, <1>2, <1>3, <1>4, <1>5, <1>6, <1>7 DEF IndInv, RollbackPending

\* The backup of a record is completed while the manifest does not refer to it.
LEMMA CompactBackupStep ==
    ASSUME IndInv, CompactBackup
    PROVE  IndInv' /\ Recovered' = Recovered
<1>1. TypeOK /\ RollbackPending /\ Restorable /\ pc \in OpenPcs /\ fs' = fs
  BY DEF IndInv, ControlInv, OpenPcs, CompactBackup
<1>2. RollbackPending' /\ UNCHANGED <<active, marks, backup, decision>>
  BY ZenonT(30), <1>1 DEF RollbackPending, CompactBackup
<1>3. TypeOK'
  BY ZenonT(30), <1>1 DEF IndInv, CompactInv, CompactBackup, TypeOK, Pcs, OpenPcs, Values,
     Restorable,
     Manifest, Slots, Paths, AppendOnly
<1>4. Restorable'
  BY ZenonT(30), <1>1, <1>2, ContentsAssumption
     DEF IndInv, CompactInv, CompactBackup, TypeOK, Restorable, SourceExisted, Source,
     Manifest, Slots, Mutable, Whole
<1>5. Recovered' = Recovered
  <2>1. \A s \in Mutable : RestoredMutable(s)' = RestoredMutable(s)
    BY ZenonT(30), <1>1, <1>2 DEF IndInv, CompactInv, CompactBackup, TypeOK, Restorable,
       RestoredMutable, SourceExisted, Source, Manifest, Slots, Mutable
  <2>2. RestoredTrust' = RestoredTrust
    BY ZenonT(30), <1>1, <1>2, ContentsAssumption DEF IndInv, CompactInv, CompactBackup, TypeOK,
       Restorable, RestoredTrust, Manifest, Slots, Whole
  <2>3. \A f \in AppendOnly : RestoredRecord(f)' = RestoredRecord(f)
    BY ZenonT(30), <1>1, <1>2 DEF IndInv, CompactInv, CompactBackup, TypeOK, Restorable,
       RestoredRecord, Manifest
  <2> QED
    BY <1>1, <1>2, <2>1, <2>2, <2>3, BackupsMove
<1>6. ControlInv' /\ BeginInv' /\ OpenInv' /\ RollbackInv'
  BY ZenonT(30), <1>1, <1>2 DEF IndInv, CompactBackup, ControlInv, BeginInv, OpenInv, RollbackInv,
     BeginPcs, OpenPcs, RollbackPcs, AfterRatchet, AfterSequence, AfterTrust, AfterNewFiles
<1>7. WorkspaceInv' /\ CompactInv'
  BY ZenonT(30), <1>1, ContentsAssumption, PathsAssumption
     DEF IndInv, CompactBackup, WorkspaceInv, CompactInv, TypeOK, Restorable, Manifest,
     Slots, Paths, AppendOnly
<1> QED
  BY <1>1, <1>2, <1>3, <1>4, <1>5, <1>6, <1>7 DEF IndInv, RollbackPending

\* The manifest refers to a complete backup equal to the live record.
LEMMA CompactManifestStep ==
    ASSUME IndInv, CompactManifest
    PROVE  IndInv' /\ Recovered' = Recovered
<1>1. TypeOK /\ RollbackPending /\ Restorable /\ pc \in OpenPcs /\ fs' = fs
  BY DEF IndInv, ControlInv, OpenPcs, CompactManifest
<1>2. RollbackPending' /\ UNCHANGED <<active, marks, backup, decision>>
  BY <1>1 DEF RollbackPending, CompactManifest
<1>3. TypeOK'
  BY <1>1 DEF IndInv, CompactInv, CompactManifest, TypeOK, Pcs, OpenPcs, Values,
     Restorable, Manifest, Slots, Paths, AppendOnly
<1>4. Restorable'
  BY ZenonT(30), <1>1, <1>2, ContentsAssumption
     DEF IndInv, CompactInv, CompactManifest, TypeOK, Restorable, SourceExisted, Source,
     Manifest, Slots, Mutable, Whole
<1>5. Recovered' = Recovered
  <2>1. \A s \in Mutable : RestoredMutable(s)' = RestoredMutable(s)
    BY <1>1, <1>2 DEF IndInv, CompactInv, CompactManifest, TypeOK, Restorable,
       RestoredMutable, SourceExisted, Source, Manifest, Slots, Mutable
  <2>2. RestoredTrust' = RestoredTrust
    BY <1>1, <1>2, ContentsAssumption DEF IndInv, CompactInv, CompactManifest, TypeOK,
       Restorable, RestoredTrust, Manifest, Slots, Whole
  <2>3. \A f \in AppendOnly : RestoredRecord(f)' = RestoredRecord(f)
    BY <1>1, <1>2 DEF IndInv, CompactInv, CompactManifest, TypeOK, Restorable,
       RestoredRecord, Manifest
  <2> QED
    BY <1>1, <1>2, <2>1, <2>2, <2>3, BackupsMove
<1>6. ControlInv' /\ BeginInv' /\ OpenInv' /\ RollbackInv'
  BY <1>1, <1>2 DEF IndInv, CompactManifest, ControlInv, BeginInv, OpenInv, RollbackInv,
     BeginPcs, OpenPcs, RollbackPcs, AfterRatchet, AfterSequence, AfterTrust, AfterNewFiles
<1>7. WorkspaceInv' /\ CompactInv'
  BY <1>1, ContentsAssumption, PathsAssumption
     DEF IndInv, CompactManifest, WorkspaceInv, CompactInv, TypeOK, Restorable, Manifest,
     Slots, Paths, AppendOnly
<1> QED
  BY <1>1, <1>2, <1>3, <1>4, <1>5, <1>6, <1>7 DEF IndInv, RollbackPending
-----------------------------------------------------------------------------
(* The terminal markers and the clean-up.                                  *)

\* The committed marker publishes the files, none of which is torn.
LEMMA CommitStep ==
    ASSUME IndInv, Commit
    PROVE  IndInv'
<1>1. /\ TypeOK /\ RollbackPending /\ UNCHANGED fs
      /\ \A p \in Paths : fs[p] \in Whole
  BY DEF IndInv, Commit, ControlInv, OpenInv, OpenPcs
<1>2. active' /\ ~RollbackPending'
  BY <1>1 DEF Commit, RollbackPending
<1>3. TypeOK'
  BY ZenonT(30), <1>1 DEF Commit, TypeOK, Pcs, Markers
<1>4. ControlInv' /\ BeginInv' /\ OpenInv' /\ WorkspaceInv' /\ CompactInv' /\ RollbackInv'
  BY ZenonT(30), <1>2 DEF IndInv, Commit, ControlInv, BeginInv, OpenInv, WorkspaceInv, CompactInv,
     RollbackInv,
     BeginPcs, OpenPcs, RollbackPcs, AfterRatchet, AfterSequence, AfterTrust, AfterNewFiles
<1> QED
  BY <1>1, <1>2, <1>3, <1>4 DEF IndInv

\* The rolled-back marker is written when the files are the restored ones.
LEMMA RollbackMarkStep ==
    ASSUME IndInv, RollbackMark
    PROVE  IndInv' /\ Recovered' = Recovered
<1>1. TypeOK /\ RollbackPending /\ Restorable /\ UNCHANGED fs
  BY DEF IndInv, RollbackMark, ControlInv, RollbackPcs
<1>2. Restored = fs
  <2>1. \A s \in Mutable : RestoredMutable(s) = fs[s]
    BY DEF IndInv, RollbackMark, RollbackInv, AfterRatchet, AfterSequence, Mutable
  <2>2. RestoredTrust = fs["trust"]
    BY ZenonT(30) DEF IndInv, RollbackMark, RollbackInv, AfterTrust
  <2>3. \A f \in AppendOnly : RestoredRecord(f) = fs[f]
    BY DEF IndInv, RollbackMark, RollbackInv, AfterNewFiles, NewFiles, RestoredRecord
  <2>4. Restored = [p \in Paths |-> fs[p]]
    BY <2>1, <2>2, <2>3 DEF Restored, Paths, Slots
  <2> QED
    BY <1>1, <2>4 DEF TypeOK
<1>3. active' /\ ~RollbackPending'
  BY <1>1 DEF RollbackMark, RollbackPending
<1>4. Recovered' = Recovered
  BY <1>1, <1>2, <1>3 DEF Recovered
<1>5. \A p \in Paths : fs[p] \in Whole
  BY <1>1, <1>2, RestoredIsWhole
<1>6. TypeOK'
  BY ZenonT(30), <1>1 DEF RollbackMark, TypeOK, Pcs, Markers
<1>7. ControlInv' /\ BeginInv' /\ OpenInv' /\ WorkspaceInv' /\ CompactInv' /\ RollbackInv'
  BY ZenonT(30), <1>3 DEF IndInv, RollbackMark, ControlInv, BeginInv, OpenInv, WorkspaceInv,
     CompactInv, RollbackInv,
     BeginPcs, OpenPcs, RollbackPcs, AfterRatchet, AfterSequence, AfterTrust, AfterNewFiles
<1> QED
  BY <1>1, <1>3, <1>4, <1>5, <1>6, <1>7 DEF IndInv

\* The clean-up is the only step that can make a finished journal pending again.
LEMMA CleanupStep ==
    ASSUME IndInv, ~StrayPrepared', remove_tree_if_present
    PROVE  IndInv' /\ Recovered' = Recovered
<1>1. TypeOK /\ active /\ ~RollbackPending /\ UNCHANGED <<fs, cur, base, decision, faults>>
  BY ZenonT(30) DEF IndInv, remove_tree_if_present, ControlInv
<1>2. ~RollbackPending'
  BY ZenonT(30), <1>1 DEF remove_tree_if_present, StrayPrepared, RollbackPending,
     RemoveMarker,
     RemoveManifest, RemoveBackup, RemovePrimaryBackup, RemoveCompactionBackup,
     RemoveActive
<1>3. /\ marks' \subseteq Markers /\ active' \in BOOLEAN
      /\ manifest' \in Manifest \cup {Absent}
      /\ (pc' = "idle" /\ session' = "live") \/ (pc' = "cleanup" /\ session' = session)
  BY ZenonT(30), <1>1 DEF remove_tree_if_present, TypeOK, RemoveMarker, RemoveManifest,
     RemoveBackup,
     RemovePrimaryBackup, RemoveCompactionBackup, RemoveActive, Return
<1>4. backup' \in [Mutable -> Values] /\ primary' \in [Slots -> Values]
  BY ZenonT(30), <1>1 DEF remove_tree_if_present, TypeOK, RemoveMarker, RemoveManifest,
     RemoveBackup,
     RemovePrimaryBackup, RemoveCompactionBackup, RemoveActive, Shrunk, Values
<1>5. compaction' \in [Runtime -> Values]
  BY ZenonT(30), <1>1 DEF remove_tree_if_present, TypeOK, RemoveMarker, RemoveManifest,
     RemoveBackup,
     RemovePrimaryBackup, RemoveCompactionBackup, RemoveActive, Values
<1>6. TypeOK'
  BY <1>1, <1>3, <1>4, <1>5 DEF TypeOK, Pcs
<1>7. (~active => NoJournal)' /\ (pc' = "cleanup" => active')
  BY ZenonT(30), <1>1 DEF remove_tree_if_present, NoJournal, RemoveMarker, RemoveManifest,
     RemoveBackup,
     RemovePrimaryBackup, RemoveCompactionBackup, RemoveActive, Present, Return
<1>8. ControlInv' /\ BeginInv' /\ OpenInv' /\ WorkspaceInv' /\ CompactInv' /\ RollbackInv'
  BY ZenonT(30), <1>2, <1>3, <1>7 DEF IndInv, remove_tree_if_present, ControlInv, BeginInv,
     OpenInv,
     WorkspaceInv, CompactInv, RollbackInv,
     BeginPcs, OpenPcs, RollbackPcs, AfterRatchet, AfterSequence, AfterTrust, AfterNewFiles
<1> QED
  BY <1>1, <1>2, <1>6, <1>7, <1>8, JournalMoves DEF IndInv
-----------------------------------------------------------------------------
(* The invariant and the theorems.                                         *)

\* The start: whole files and no journal.
LEMMA InitIndInv == Init => IndInv
<1> SUFFICES ASSUME Init PROVE IndInv
  OBVIOUS
<1>1. TypeOK
  <2>1. fs \in [Paths -> Values]
    BY DEF Init, Values
  <2>2. /\ backup \in [Mutable -> Values] /\ primary \in [Slots -> Values]
        /\ compaction \in [Runtime -> Values]
    BY DEF Init, Values
  <2>3. 0 \in 0..MaxFaults
    BY FaultsAssumption
  <2> QED
    BY ZenonT(30), <2>1, <2>2, <2>3 DEF Init, TypeOK, Pcs
<1>2. ~RollbackPending /\ NoJournal /\ (\A p \in Paths : fs[p] \in Whole)
  BY ZenonT(30) DEF Init, RollbackPending, NoJournal, Whole
<1>3. ControlInv /\ BeginInv /\ OpenInv /\ WorkspaceInv /\ CompactInv /\ RollbackInv
  BY DEF Init, ControlInv, BeginInv, OpenInv, WorkspaceInv, CompactInv, RollbackInv,
     BeginPcs, OpenPcs, RollbackPcs, AfterRatchet, AfterSequence, AfterTrust, AfterNewFiles
<1> QED
  BY <1>1, <1>2, <1>3 DEF IndInv

\* Every step preserves the invariant, and only Commit changes what recovery yields.
LEMMA NextIndInv ==
    ASSUME ~StrayPrepared', IndInv, [Next]_vars
    PROVE  IndInv' /\ (Recovered' = Recovered \/ Commit)
<1>1. CASE UNCHANGED vars
  <2>1. UNCHANGED <<fs, journal, decision>>
    BY <1>1 DEF vars
  <2>2. UNCHANGED <<fs, active, marks, manifest, backup, primary, compaction, session, pc, cur,
                    base, decision, faults>>
    BY ZenonT(30), <1>1 DEF vars, journal, process
  <2>3. TypeOK'
    BY <2>2 DEF IndInv, TypeOK
  <2>4. ControlInv' /\ OpenInv'
    <3>1. RollbackPending' = RollbackPending
      BY <2>1, NothingMoves
    <3> QED
      BY ZenonT(30), <2>2, <3>1 DEF IndInv, ControlInv, OpenInv
  <2>5. BeginInv' /\ CompactInv'
    BY ZenonT(30), <2>2 DEF IndInv, BeginInv, CompactInv
  <2>6. WorkspaceInv'
    BY ZenonT(30), <2>2 DEF IndInv, WorkspaceInv, RestoredMutable, SourceExisted, Source
  <2>7. RollbackInv'
    BY <2>2 DEF IndInv, RollbackInv, RestoredMutable, RestoredTrust, SourceExisted, Source,
       NewFiles
  <2> QED
    BY <2>1, <2>2, <2>3, <2>4, <2>5, <2>6, <2>7, NothingMoves DEF IndInv
<1>2. CASE Staging
  BY <1>2, StageStep, AppendStep, PrepareSteps, CompactStep DEF Staging
<1>3. CASE Progress
  BY <1>3, RecoverStep, SnapshotStep, BeginManifestStep, BeginPreparedStep,
     WorkspaceBackupStep,
     WorkspaceManifestStep, WorkspaceClearStep, WorkspaceWriteStep, CompactBackupStep,
     CompactManifestStep, CompactRemoveStep, RollbackCheckStep, RollbackRatchetStep,
     RollbackRatchetCopyStep, RollbackSequenceStep, RollbackSequenceCopyStep,
     RollbackTrustStep,
     RollbackTrustWriteStep, RemoveNewFilesStep, RollbackCompactedStep,
     RollbackCompactedCopyStep, RollbackMarkStep, CleanupStep DEF Progress
<1> QED
  BY ZenonT(30), <1>1, <1>2, <1>3, AcquireStep, ReleaseStep, BeginStep, CommitStep, RollbackStep,
     CrashStep,
     IoErrorStep, CommitErrorStep DEF Next

\* The invariant implies the safety properties of the runs.
LEMMA IndInvImplies ==
    ASSUME IndInv
    PROVE  /\ TypeOK /\ CommittedNeverRolledBack
           /\ RestoreNeverStopsHalfway /\ RecoveredWhole
<1>1. CommittedNeverRolledBack
  BY ZenonT(30) DEF IndInv, CommittedNeverRolledBack, ControlInv, Restorable
<1>2. RestoreNeverStopsHalfway
  BY ContentsAssumption DEF IndInv, RestoreNeverStopsHalfway, ControlInv, Restorable,
     RollbackPcs
<1>3. RecoveredWhole
  BY RestoredIsWhole DEF IndInv, RecoveredWhole, Recovered, Whole
<1> QED
  BY ZenonT(30), <1>1, <1>2, <1>3 DEF IndInv

\* The inductive invariant holds as long as no clean-up leaves prepared behind.
THEOREM Invariance == Spec /\ []~StrayPrepared => []IndInv
<1>1. IndInv /\ [Next]_vars /\ ~StrayPrepared' => IndInv'
  BY NextIndInv
<1> QED
  BY InitIndInv, <1>1, PTL DEF Spec

\* A listing that yields prepared before the terminal markers is enough, whatever crashes
\* and errors occur: remove_dir_all then never leaves prepared behind.
THEOREM PreparedFirstSuffices == PreparedListedFirst => (Spec => []~StrayPrepared)
<1> SUFFICES ASSUME PreparedListedFirst PROVE Spec => []~StrayPrepared
  OBVIOUS
<1>1. Init => IndInv /\ ~StrayPrepared
  BY InitIndInv DEF Init, StrayPrepared
<1>2. ASSUME IndInv, [Next]_vars PROVE ~StrayPrepared'
  <2>1. ~StrayPrepared
    BY <1>2 DEF IndInv, ControlInv, StrayPrepared
  <2>2. CASE remove_tree_if_present
    BY ZenonT(30), <2>1, <2>2 DEF remove_tree_if_present, PreparedListedFirst,
       StrayPrepared, RollbackPending, RemoveMarker, RemoveManifest, RemoveBackup,
       RemovePrimaryBackup, RemoveCompactionBackup, RemoveActive, Listed, Present
  <2>3. CASE recover
    BY ZenonT(30), <2>3 DEF recover, StrayPrepared, RollbackPending, Return, ReturnError, journal
  <2>4. CASE Commit \/ RollbackMark
    BY <2>4 DEF Commit, RollbackMark, StrayPrepared, RollbackPending
  <2>5. CASE pc' = pc /\ UNCHANGED <<active, marks>>
    BY <2>1, <2>5 DEF StrayPrepared, RollbackPending
  <2>6. CASE pc' # "cleanup"
    BY <2>6 DEF StrayPrepared
  <2>7. CASE UNCHANGED vars
    BY <2>5, <2>7 DEF vars, journal, process
  <2>8. CASE Next /\ ~remove_tree_if_present /\ ~recover /\ ~Commit /\ ~RollbackMark
    <3>1. pc' # "cleanup" \/ (pc' = pc /\ UNCHANGED <<active, marks>>)
      BY ZenonT(60), <2>8 DEF Next, Staging, Progress, Stage, register_append_only_write,
         prepare_ratchet_workspace, prepare_sequence_workspace,
         prepare_legacy_trust_workspace, prepare_workspace, compact_runtime_record,
         WorkspaceBackup, WorkspaceManifest, WorkspaceClear, WorkspaceWrite,
         CompactBackup, CompactManifest, CompactRemove, Acquire, Release, Begin, rollback,
         Return, ReturnError, prepare_snapshot, BeginManifest, BeginPrepared,
         RollbackCheck, RollbackRatchet, RollbackRatchetCopy, RollbackSequence,
         RollbackSequenceCopy, Replace, Copy, RollbackTrust, RollbackTrustWrite,
         remove_new_files, RollbackCompacted, RollbackCompactedCopy, Crash, IoError,
         CommitError, process, journal
    <3> QED
      BY <3>1, <2>5, <2>6
  <2> QED
    BY <1>2, <2>2, <2>3, <2>4, <2>7, <2>8
<1>3. IndInv /\ [Next]_vars => IndInv' /\ ~StrayPrepared'
  BY <1>2, NextIndInv
<1> QED
  BY <1>1, <1>3, PTL DEF Spec

\* Every variable of the journal keeps its type.
THEOREM TypeCorrect == Spec /\ []~StrayPrepared => []TypeOK
<1>1. IndInv => TypeOK
  BY IndInvImplies
<1> QED
  BY Invariance, <1>1, PTL

\* rollback_active never touches a file once the committed marker was written (RFC-0010,
\* section 2), whatever crashes and errors occur and whatever the order of the listing, as
\* long as no clean-up leaves prepared without the terminal marker.
THEOREM CommitIsFinal == Spec /\ []~StrayPrepared => []CommittedNeverRolledBack
<1>1. IndInv => CommittedNeverRolledBack
  BY IndInvImplies
<1> QED
  BY Invariance, <1>1, PTL

\* Under the same condition, a roll back that replaced ratchet and next-sequence finds
\* the trust backup it needs.
THEOREM RestoreCompletes == Spec /\ []~StrayPrepared => []RestoreNeverStopsHalfway
<1>1. IndInv => RestoreNeverStopsHalfway
  BY IndInvImplies
<1> QED
  BY Invariance, <1>1, PTL

\* Under the same condition, what recover leaves to the next lock holder is never a
\* mixture of two states.
THEOREM RecoveryIsWhole == Spec /\ []~StrayPrepared => []RecoveredWhole
<1>1. IndInv => RecoveredWhole
  BY IndInvImplies
<1> QED
  BY Invariance, <1>1, PTL

\* Under the same condition StateTransaction is atomic: its commit is the only step that
\* changes what the next lock holder finds.
THEOREM CommitIsTheOnlyPublication == Spec /\ []~StrayPrepared => OnlyCommitPublishes
<1>1. IndInv /\ [Next]_vars /\ ~StrayPrepared' => [Recovered' = Recovered \/ Commit]_vars
  BY NextIndInv
<1> QED
  BY Invariance, <1>1, PTL DEF Spec, OnlyCommitPublishes
-----------------------------------------------------------------------------
(* The journal implements the atomic transaction.                          *)

\* A step inside an open transaction is a step of the abstract working state.
LEMMA OpenToOpen ==
    ASSUME IndInv, IndInv', Next, TransactionOpen, TransactionOpen'
    PROVE  /\ Working' \in [Paths -> Values]
           /\ \A e \in Events : Working[e] # Absent => Working'[e] = Working[e]
<1>1. TypeOK /\ TypeOK' /\ WorkspaceInv /\ WorkspaceInv' /\ CompactInv
      /\ pc \in OpenPcs /\ pc' \in OpenPcs
  BY ZenonT(30) DEF IndInv, TransactionOpen
<1>2. Working' \in [Paths -> Values]
  BY ZenonT(30), <1>1 DEF Working, WorkspaceInv, TypeOK, Values
<1>3. \A e \in Events : e \in Paths /\ Working[e] = fs[e]
  BY ZenonT(30), <1>1, PathsAssumption DEF Working, WorkspaceInv, TypeOK, Paths, AppendOnly
<1>4. \A e \in Events : Working'[e] = fs'[e]
  BY <1>1, PathsAssumption DEF Working, WorkspaceInv, TypeOK, Paths, AppendOnly
<1>5. \A e \in Events : fs[e] # Absent => fs'[e] = fs[e]
  <2>1. CASE Staging
    BY ZenonT(30), <1>1, <1>3, <2>1, PathsAssumption DEF Staging, Stage,
       register_append_only_write,
       prepare_ratchet_workspace, prepare_sequence_workspace, prepare_legacy_trust_workspace,
       prepare_workspace, compact_runtime_record, TypeOK, AppendOnly
  <2>2. CASE WorkspaceClear \/ WorkspaceWrite
    BY ZenonT(30), <1>1, <1>3, <2>2, PathsAssumption DEF WorkspaceClear, WorkspaceWrite,
       WorkspaceInv,
       TypeOK, AppendOnly
  <2>3. CASE CompactRemove
    BY <1>1, <1>3, <2>3, PathsAssumption DEF CompactRemove, CompactInv, TypeOK
  <2>4. CASE WorkspaceBackup \/ WorkspaceManifest \/ CompactBackup \/ CompactManifest
    BY <2>4 DEF WorkspaceBackup, WorkspaceManifest, CompactBackup, CompactManifest
  <2> QED
    BY ZenonT(30), <1>1, <2>1, <2>2, <2>3, <2>4
       DEF Next, Progress, OpenPcs, Acquire, Release, Begin, Commit, rollback, recover,
       prepare_snapshot, BeginManifest, BeginPrepared, RollbackCheck, RollbackRatchet,
       RollbackRatchetCopy, RollbackSequence, RollbackSequenceCopy, Replace, Copy,
       RollbackTrust, RollbackTrustWrite, remove_new_files, RollbackCompacted,
       RollbackCompactedCopy, RollbackMark, remove_tree_if_present, Crash, IoError,
       CommitError, ReturnError
<1> QED
  BY <1>2, <1>3, <1>4, <1>5

\* Every step maps to a step of the atomic transaction or to a stuttering step.
LEMMA AtomicStep ==
    ASSUME IndInv, IndInv', [Next]_vars, Recovered' = Recovered \/ Commit
    PROVE  [Atomic!Next]_(Atomic!vars)
<1>1. CASE UNCHANGED vars
  <2>1. Recovered' = Recovered /\ RollbackPending' = RollbackPending
    BY <1>1, NothingMoves DEF vars
  <2> QED
    BY <1>1, <2>1 DEF vars, process, Atomic!vars, Staged, TransactionOpen, Working
<1>2. CASE Commit
  <2>1. TransactionOpen /\ ~TransactionOpen' /\ ~RollbackPending'
    BY <1>2 DEF Commit, TransactionOpen, OpenPcs, IndInv, ControlInv, RollbackPending
  <2>2. Staged = fs /\ Staged' = fs /\ Recovered' = fs
    BY <1>2, <2>1 DEF Commit, Staged, Working, Recovered
  <2>3. TransactionOpen' = FALSE
    BY <2>1 DEF TransactionOpen
  <2>4. Atomic!Commit
    BY <2>1, <2>2, <2>3 DEF Atomic!Commit
  <2> QED
    BY <2>4 DEF Atomic!Next
<1>3. CASE Next /\ ~Commit /\ TransactionOpen /\ TransactionOpen'
  <2>1. Recovered' = Recovered /\ Staged = Working /\ Staged' = Working'
    BY <1>3 DEF Staged
  <2> QED
    BY <1>3, <2>1, OpenToOpen DEF Atomic!Next, Atomic!Stage, Atomic!States, Atomic!Grows
<1>4. CASE Next /\ ~Commit /\ TransactionOpen /\ ~TransactionOpen'
  BY <1>4 DEF Staged, Atomic!Next, Atomic!Discard
<1>5. CASE Next /\ ~TransactionOpen /\ TransactionOpen'
  <2>1. BeginPrepared
    BY ZenonT(30), <1>5
       DEF IndInv, ControlInv, TransactionOpen, Next, Staging, Progress, OpenPcs, RollbackPcs,
       Stage, register_append_only_write, prepare_ratchet_workspace,
       prepare_sequence_workspace, prepare_legacy_trust_workspace, prepare_workspace,
       compact_runtime_record, WorkspaceBackup, WorkspaceManifest, WorkspaceClear,
       WorkspaceWrite, CompactBackup, CompactManifest, CompactRemove, Acquire, Release,
       Begin, Commit, rollback, recover, Return, ReturnError, prepare_snapshot, BeginManifest,
       RollbackCheck, RollbackRatchet, RollbackRatchetCopy, RollbackSequence,
       RollbackSequenceCopy, Replace, Copy, RollbackTrust, RollbackTrustWrite,
       remove_new_files, RollbackCompacted, RollbackCompactedCopy, RollbackMark,
       remove_tree_if_present, RemoveMarker, RemoveManifest, RemoveBackup,
       RemovePrimaryBackup, RemoveCompactionBackup, RemoveActive, Crash, IoError, CommitError,
       process
  <2>2. ~RollbackPending /\ fs' = fs /\ pc' = "open"
    BY <2>1 DEF BeginPrepared, IndInv, ControlInv, BeginPcs
  <2>3. Recovered' = Recovered
    BY <2>1 DEF BeginPrepared, Commit
  <2> QED
    BY ZenonT(30), <1>5, <2>2, <2>3 DEF Staged, Working, Recovered, Atomic!Next, Atomic!Begin
<1>6. CASE Next /\ ~TransactionOpen /\ ~TransactionOpen'
  <2>1. Recovered' = Recovered
    BY <1>6 DEF TransactionOpen, Commit, IndInv, ControlInv, OpenPcs
  <2>2. TransactionOpen' = TransactionOpen
    BY <1>6 DEF TransactionOpen
  <2> QED
    BY ZenonT(30), <1>6, <2>1, <2>2 DEF Staged, Atomic!vars
<1> QED
  BY <1>1, <1>2, <1>3, <1>4, <1>5, <1>6

\* The crash journal implements the atomic transaction: whatever crashes and I/O errors
\* interrupt it, its files, backups and markers are a way to keep one durable state that
\* only a commit replaces, by the complete working state of one transaction, as long as no
\* clean-up leaves prepared without the terminal marker.
THEOREM JournalIsAtomic == Spec /\ []~StrayPrepared => ImplementsAtomicState
<1>1. Init => Atomic!Init
  BY DEF Init, Atomic!Init, Atomic!States, Recovered, Staged, TransactionOpen,
     RollbackPending, Values
<1>2. IndInv /\ IndInv' /\ [Next]_vars /\ ~StrayPrepared' => [Atomic!Next]_(Atomic!vars)
  BY NextIndInv, AtomicStep
<1> QED
  BY Invariance, <1>1, <1>2, PTL DEF Spec, ImplementsAtomicState, Atomic!Spec
=============================================================================
