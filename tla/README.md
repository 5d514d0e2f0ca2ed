# Verification of Kilogram

TLA+ models of the stateful parts of Kilogram, TLC runs over small instances of them, and
TLAPS proofs that hold for every value of the constants.  Paths below are relative to the
repository root.  `PROJECT.json` lists the runs, the source lines behind every
definition, the hazards, the findings and the theorems in machine-readable form.

## 1. The system

Kilogram is a messenger without a central account server.  A device keeps all of its state in
one *state directory*.  Every command, and the long-running runtime actor, takes an exclusive
lock on it, recovers what an earlier crash left, works, and releases it.  Devices talk over
Iroh connections; when the peer is not reachable a text goes through a *blind mailbox*, a
store that sees only encrypted items: an HTTPS service (capability format v1), or several
volunteers that a replica set names (v2).  The owner of a mailbox gives the peer a *capability*
to write into it, and rotates or revokes it with numbered updates.

| part | code | state | operations | what makes it hard |
|---|---|---|---|---|
| crash journal | `crates/kilogram-state/src/lib.rs` | live files; `.kilogram-transactions/active` with markers, manifest, backups | acquire/recover, begin, workspaces, staging, compaction, commit, roll back, cleanup | a crash between any two file operations; removal of a tree is not atomic; recovery may crash too |
| state vault | `crates/kilogram-state/src/vault.rs`, guard in `apps/kilogram-cli/src/main.rs` | encrypted redb copy of the files, generation, two intents | migrate, mirror, vault-primary commit, shadow recovery, identity retirement | two stores kept equal; intents and journal survive crashes independently |
| blind mailbox store | `crates/kilogram-mailbox/src/store.rs` | items, tombstones, persisted totals | open, put, list, delete, cleanup | concurrent handlers with their own `now`; limits; expiry |
| client ledger | `crates/kilogram-mailbox-client/src/ledger.rs` | pending and stored uploads, inbound commits and deletions | enqueue, mark stored, record commit, mark deleted, cleanup | separate database from the runtime state |
| mailbox delivery | `apps/kilogram-cli/src/main.rs` 21919-24937 | runtime records, ledger, requests in flight | fallback dispatch, orphan repair, upload, poll, commit, acknowledge | lost and late requests and answers, crashes between databases, one turn at a time |
| mailbox service | `apps/kilogram-ticket-store/src/lib.rs` | the store, ticket records, limiter | HTTP routes, cleanup interval, restart | lost answers |
| replication and providers | `crates/kilogram-mailbox-client/src/{replication,provider}.rs`, `apps/kilogram-cli/src/main.rs` 23170-24806 | plans, receipts, attempts, locators, commits and deletions for each copy | plan, attempt, receipt, cooldown, poll, delete | several stores that act and answer independently, offers that move, a replica set that arrives late |
| provisioning | `crates/kilogram-mailbox-provisioning`, `apps/kilogram-cli/src/main.rs` 12394-13124, 22281-22657, 26605-27035 | update chain and acknowledgements on two devices | activate, rotate, upgrade, revoke, push, apply, import | two sides change over at different times; sessions are lost and requests come late |
| ordered writer, indexed dialog | `crates/kilogram-state/src/vault/ordered.rs`, `.../indexed_dialog*` | ordered segments, fence, index | append, migrate, activate | migration while readers exist |
| ratchet, event store, sync | `crates/kilogram-ratchet`, `-store`, `-session` | sessions, events, inventories | send, receive, exchange | out-of-order messages; the v2 adapter declares itself dormant |
| rollout, publication conflict, capability store | `crates/kilogram-rollout`, `-publication-conflict`, `-peer-capability-store` | signed heads | observe, advance, contain | downgrade and conflicting evidence |
| re-enrolment, history recovery | `crates/kilogram-peer-reenrollment*`, `-peer-history-recovery*` | plans, receipts, transfers | propose, consent, execute | two-phase consumption |
| identity, account authority | `crates/kilogram-identity` | authority chain, recovery policy | issue, revoke, recover | quorums |
| IPC, transport, protocol, crypto, desktop, tools | remaining crates and apps | little of their own | encodings, I/O, user interface | - |

The parts of the last six rows are not modelled (section 5); their hazards have not been
surveyed line by line.

Interactions: delivery writes runtime records through vault-guarded journal transactions, so
its "one step" application commits rest on the vault model, whose "one step" journal
rests on the journal model.  Delivery talks to the store only through the service or through
a volunteer, and writes only through the binding the capability chain names.

## 2. Modules

| module | models | lines |
|---|---|---|
| `StateJournal` | the crash journal, file by file | 566 |
| `AtomicState` | what journal and vault promise: the durable state changes only at a commit | 37 |
| `StateJournalProofs` | theorems about the journal | 1648 |
| `StateVault` | files, journal, vault and guard of one command after another | 512 |
| `StateVaultProofs` | theorems about it | 1763 |
| `MailboxStore` | the blind store | 299 |
| `MailboxStoreProofs` | theorems about the store | 1122 |
| `MailboxDelivery` | two runtimes with their ledgers, the wire, and the store (`Store == INSTANCE MailboxStore`) | 482 |
| `MailboxDeliveryInvariants` | its four inductive invariants; definitions only | 159 |
| `MailboxDeliveryCopiesProofs` | lemmas about it, and that each step keeps `Copies` | 1290 |
| `MailboxDeliveryProofs` | the theorems about it but one | 1415 |
| `MailboxDeliveryDeleteProofs` | the theorem on which item a poll deletes | 597 |
| `MailboxReplication` | the volunteer route of one device: replication ledger and mailbox turns | 621 |
| `MailboxReplicationProofs` | theorems about it | 1119 |
| `MailboxCapability` | the capability chain on two devices, its pushes, and the bindings it leaves usable | 568 |
| `MailboxCapabilityProofs` | theorems about it | 940 |
| `MC*` | constants for TLC | |

Definitions keep the names of the functions they model.  A definition marked *Mutant* is a
plausible bug in the definition below it; no specification uses it.  Substituting it breaks a
property, which shows that the property depends on the code.

### StateJournal

A step is one durable change of the directory.  `fs` holds the live files, `active`, `marks`,
`manifest`, `backup`, `primary` and `compaction` the entries of the active journal, `pc` the
next step of the running call.  `Crash` and `IoError` may come before each step.

* A tree or file that is being removed, copied or rewritten holds `Torn` from the first file
  touched to the last.  This covers every mixture an interruption can leave.
* `write_manifest` writes a temporary file and renames it: one step.
* A marker that was created although its call reported an error is covered by `IoError` at
  the cleanup and by `CommitError`.
* `remove_dir_all` removes the journal entry by entry, in the order in which the directory is
  listed.  The constant `DeletedBefore` is the set of pairs of which the first is listed
  before the second.  The operating system decides this, not the code.
* The ratchet directory exists exactly when it has a file.
* The ordered fence and version-2 journals are left out.

`Recovered` is the state the next lock holder will see.  `ImplementsAtomicState` maps
`durable` to it.

### StateVault

`legacy` are the retained files, `db` the vault's records, `mirror` and `shadow` the two
intents with the generation each is bound to, `schema` the vault's format.

* A vault write is one redb transaction with immediate durability: one step, and a failing
  one has no effect.
* The journal is the atomic one: recovery and roll back put `undo` back in one step.  Theorem
  `JournalIsAtomic` justifies this, under the condition it names.
* `Init` covers directories never migrated and an older build's vault, with or without a
  pending mirror intent.  `state-vault-migrate` runs without the guard and creates the key file,
  the database and the snapshot one after the other; an interrupted one may be run again.
* `"other"` stands for files written outside the journal.
* A failed transaction returns to the command, which may go on or end.
* The constant `Faults` chooses what may go wrong: `"crash"`, `"io"` and `"rollback"` (a roll
  back puts back a part of the files, returns an error and leaves the journal prepared).
* Left out: runtime compaction (in `StateJournal`), key recovery and export, restore to a new
  directory, the ordered writer, and a `next-sequence` that something else rewrites.

### MailboxStore

A record is the signed receipt of an item: key, envelope, time stored, expiry.  A handler
reads the time once, when its request arrives, so its `now` lags behind the clock by up to
`Lag`.  `put` and `cleanup` are one transaction each; `delete` is two, a cleanup and the
removal, with other handlers in between (`deletes` holds the ones in progress).
`totalItems`, `totalBytes` and the per-mailbox counts are the persisted counters with the
code's saturating arithmetic.  `accepted` and `proven` are history: receipts answered to a
put and to a delete.  Expired history is dropped when time passes, which keeps the state
space finite and concerns no property.

### MailboxDelivery

Device A sends texts to B and B returns acknowledgements, through one mailbox each.
`dispatch`, `received` and `delivered` are the runtime's signed records; `pending`,
`outStored`, `inCommitted` and `inDeleted` the tables of the two ledgers; `wire` the requests
in flight; `pc` what each runtime is doing.  A mailbox turn cleans the ledger, uploads the
first pending item or repairs a dispatch without one, and polls only if there was nothing to
upload.

* A crash, a timeout and a lost answer have the same effect on a runtime: the turn ends where
  it is.  All three are `Interrupt`.  `Interruptible` says at which points it may happen.
* The scheduler's decision to poll and the poll's look at the ledger are two steps.
* An acknowledgement that cannot be prepared is given up and the poll goes on
  (`tolerate_unavailable_runtime_reverse_mailbox_acknowledgement`), as in the code.
* `InForce(k)` says that more of the text's dispatch is left than the store may be behind the
  devices (`Lag`).  Some properties hold only that long; section 3 says why.
* A request stays in `wire` after its sender gave up, and may be processed late or lost.
* Both capabilities are HTTPS bindings that do not expire.  The volunteer route is
  in `MailboxReplication`; changing bindings are in `MailboxCapability`.  The live route,
  record limits, and set-ups without a reverse binding are left out.
* Orphans are repaired in queue-id order and uploads go out in key order; the model uses one
  order for both.
* Replication turns with an empty provider registry change nothing and are stutters.
* Encryption is abstracted: an envelope is its expiry and the number of its sealing.  Sealing
  an item again gives a different envelope under the same key.

### MailboxReplication

One device with its client ledger (`pending`, `completed`) and its replication ledger
(`plans`, `locators`, `receipts`, `cooldown`, `commits`, `deletions`).  The outbound cycle is
one task, so one record `task` says what it is doing and for which item; each step is one
ledger transaction or one exchange with a volunteer.  `held` and `gone` are what the
volunteers hold and have tombstoned.

* An upload writes its plan, and the locator if the peer's update named a replica set, before
  it dials anybody.  A plan with a locator uses exactly those stores; one without takes any
  selection of distinct transports.
* Which offers are active is chosen anew at each read.  This covers expiry, gossip,
  observation ranking and admission work, which only decide that.
* An exchange may fail before or after the volunteer acted: `put_failed`, `resume_failed` and
  `delete_failed` choose.  A store that refuses an upload for good (`https_put_refused`) leaves it
  pending, without a turn to the volunteers.  `crash` ends the task and changes nothing durable.
* `import_offer` replaces a volunteer's offer by one with another transport at any time.
* `accept_locator` is the moment at which the peer's replica set becomes known.
* `retire_capability` is a rotation or revocation while items wait: their retries fail before
  anybody is dialled, until they expire (`unbound`).
* A reverse acknowledgement has a replication binding in its first upload only; the retry
  looks for a dispatch, which only texts have.
* Time is `expire`, once for each item, and `tick` for the cooldown.  Table limits are left
  out, and so is the side that serves as a volunteer, which is `MailboxStore`.

### MailboxCapability

`chain`, `acks`, `ownBindings` and `lastPolls` belong to the owner; `accepted`,
`peerBindings`, `dispatch`, `pending` and `stored` to the one writer; `wire` are the pushes
the writer's listener may still process, also after the owner gave up their session.  A binding
is named by the generation that created it; 0 is a binding from before ordered updates.

* Each command is one step under the state lock.  A push is three: it is sent, processed, and
  its acknowledgement committed; the chain may be extended between them.
* Updates and acknowledgements of all conversations share one limit: `free` counts down on
  each device, and `other_record` lets other conversations use it up.  `slots` and
  `other_binding` are the same for bindings.
* `lapse` is the expiry of an offer.  An update is opened with its own creation time, so an
  expired offer is still applied.
* Uploads and polls are atomic but for the points where the chain can move under them.
* Left out: the check that `created_at` does not go back, and several writers or scopes (each
  has a chain of its own; only the limits are shared).

## 3. Runs

All passing runs but `capability_safe` check deadlock.  State counts are distinct states.

| run | instance | shows |
|---|---|---|
| `journal_safe` | 1 content, 1 runtime record, 2 faults, 2 workspaces in a transaction (506,372) | a committed transaction is never rolled back; a restore always has its sources; recovery gives a whole state; the journal implements `AtomicState`; every journal is eventually cleared |
| `vault_safe` | 2 contents, 2 events, 2 identity files, 2 generations, 2 faults of any kind (351,222) | journal and vault implement `AtomicState`; acknowledged events, numbers and device secrets survive; commands keep running |
| `store_safe` | 2 mailboxes, 1 item in the one and 2 in the other, 2 sizes, room for a small and a large one and for 2 tombstones, 2 deletes in flight, lag 1, clock to 3 (132,377) | accepted items are held, deleted ones stay deleted, only a receipt's own delete removes an item, persisted totals cover what is held and stay within the limits, totals left too high become exact again |
| `delivery_safe` | 2 texts before anything expires, or 1 text whose dispatch expires, lag 1, lifetime 3, clock to 3, 2 faults (153,195) | delete only after commit; a stored text is held or read; delivered implies received; one copy and no resurrection while the dispatch is in force; a poll deletes what it read; every text is delivered and acknowledged unless a device repeats a refused upload |
| `replication_safe` | 1 text or 1 inbound text with its acknowledgement, 3 volunteers of which 2 are the replica set, 2 receipts required, 3 transports, 1 fault (146,092) | HTTPS is given up only for enough copies in the replica set; receipts are of different transports; no copy without a plan; delete only after commit; ledger records match what volunteers did; evidence is kept; uploads are tried again until they end, and committed copies are deleted |
| `capability_safe` | 1 text, room for 4 and 2 records and 2 and 2 bindings, 1 fault or 1 expired offer (322,297) | the writer's chain follows the owner's; acknowledged means applied; a late push is never refused but for a limit; a writer's binding is polled; retired bindings stay retired; updates are acknowledged and polled mailboxes read |

Why `InForce`.  The store counts the lifetime of an item from its own time.  When that is behind
the writer's, the receipt expires before the dispatch does: the ledger forgets the upload, the
orphan repair seals the text again, and a second ciphertext, or one under a key that was already
deleted, may be stored.  `delivery_store_behind` shows it.  Until the last `Lag` of the dispatch
there is one copy and no resurrection, and a text is delivered; committing a text twice is
idempotent, so what happens after that costs storage, and turns when the store answers the second
upload with a conflict.

Why `EveryTextDelivered` has an exception.  A device whose first pending upload is refused
(`Blocked`) repeats it in every turn and polls no more; that is what `delivery_lost_reply` shows.

Bounds.  Two faults allow a crash during the recovery from another one.  Contents are only
compared, so two values suffice to tell old from new (in `journal_safe`, one content and
absence).  Events differ from runtime records only in never being compacted, so `journal_safe` has
none; the proofs cover them.  A transaction there prepares at most two of the three workspaces,
enough for one to be restored when another fails.  The mailbox clocks run past the expiry of items
and tombstones; two texts are only checked while nothing expires (`Explored` in
`MCMailboxDelivery` names the three groups of behaviours).  `MaxSeals` allows one repeated
sealing.  `MaxGeneration` ends a behaviour's vault writes, not its recoveries.  In `vault_safe` an
existing vault is migrated again before its first change only.  In `replication_safe` the
volunteer outside the replica set gives the receipt that must not count, and the offer of one
volunteer may move onto the transport of another that already gave one; the outbound and the
inbound half are checked apart (`OneAtATime`), since they meet only in the order of the turns.
The inbound text has a second copy only after its acknowledgement has expired
(`OneCopyAcknowledged`).  In `store_safe` the third key is used at the beginning and with small
items, so that a third tombstone does not fit.  These limits bind the environment and the callers,
never a step that fairness is assumed of.  In `capability_safe` the owner's four records allow a
rotation after an acknowledged activation and its acknowledgement, and the writer's two run out;
the writer's bindings are also used up by other conversations.  There the system may stop, a full
device with a revoked capability has nothing to do, so that run alone does not check deadlock.  No
run uses symmetry.

Fairness.  Journal: a running call goes on, an open operation commits or rolls back, the lock is
released, and an interrupted command is run again.  Vault: the same for the steps of the guard, of
a migration and of the end of a command, and commands are started again and again although
migrations may come between.  Store: `run_until` runs the cleanup interval for ever.  Delivery:
both schedulers loop, and a request that is not lost is processed.  Replication: the cycle keeps
taking turns, time passes, and a poll that is repeated for ever with the same volunteer reads and
deletes at last; no upload need ever succeed.  Capability: the cycle returns to the push and to
the poll by its timers, and the listener serves what reaches it; commands and uploads owe nothing.
No fairness is assumed of faults, which are bounded.

The type invariants are proved, that of `MailboxCapability` is also checked by its run.
`MailboxDelivery` is the exception: it defines its own for a reader, and it holds in the instance
of its run; the proofs carry the part of it that they need in `Inv` and `Trust`.

### Disagreements between code and documentation

Each of these has a run that TLC must find violated.

| run | what happens |
|---|---|
| `journal_by_name` | if the listing yields `committed` before `prepared`, a crash between the two removals makes recovery roll a committed transaction back (RFC-0010) |
| `vault_failed_rollback` | a roll back that returns an error leaves the journal prepared, and the final mirror copies uncommitted files into the vault; after the next recovery of the journal files and vault differ, and the guard refuses (RFC-0014) |
| `delivery_store_behind` | a store whose time is behind: the ledger forgets a stored upload while its dispatch lives, and the text is sealed and uploaded a second time (RFC-0076) |
| `delivery_lost_reply` | a lost PUT answer and a prompt reader: each retry is answered `Tombstoned`, fails, and takes the turn that would have polled the acknowledgement (RFC-0076) |
| `replication_ack` | an acknowledgement of a service-free capability whose first upload did not complete is never taken to a volunteer again, and its error ends every later mailbox turn (RFC-0098) |
| `capability_stranded` | a text stored in the old mailbox during a rotation is no longer polled for once the rotation is acknowledged, and its dispatch keeps it from being sent again (RFC-0077) |

The first depends on the order in which the file system lists a directory.  The lost reply and
the acknowledgement heal when the envelope expires.

Smaller ones have no run of their own; each can be reproduced by changing a constant or adding a
property:

* A first migration that is interrupted before its snapshot leaves a vault that the guard of every
  other command refuses; only running the migration again helps (`CommandsKeepRunning` exempts it).
* A file written outside the journal before a transaction is put back by the shadow recovery:
  `sync` stores `peer-sync-capability` (`main.rs:28241`) and then runs a transaction, and
  `confirm_primary_shadow_internal` (`vault.rs:1634`) demands that all files equal the vault
  (RFC-0019 line 111).
* Receipts outside the locator count in `next_due` but not in `is_satisfied`: a plan whose
  locator arrived after other receipts is neither due nor satisfied (RFC-0087).
* Plans that are due take the turn of the poll, so enough of them without reachable providers
  leave no turn for polling; `EveryCopyDeleted` has the turns as its premise.
* A copy whose volunteer's offer moves to another transport between the commit and the DELETE
  is not deleted before it expires (`MovedSince`; RFC-0088 lets a later poll resume it).
* With `DeletedBefore = {}` `RestoreNeverStopsHalfway` fails: an interrupted removal took a
  backup before the markers, and recovery deletes live state before it misses the source.
* `TotalsExact` is not an invariant of `MailboxStore`: a refused put removes an expired item
  without updating the totals (RFC-0073 says they move in the same transaction).
* In `MailboxDelivery` a live item may hold an expired envelope: the store counts the lifetime
  from its own acceptance, so a late upload outlives its dispatch (RFC-0076).

## 4. Proofs

TLAPS checks every leaf of the eight proof modules; the slowest takes five to ten minutes.

`StateJournalProofs` proves `TypeCorrect`, `CommitIsFinal`,
`RestoreCompletes`, `RecoveryIsWhole`, `CommitIsTheOnlyPublication` and the refinement
`JournalIsAtomic`, for all sets of contents and records, any order of the listing and any number of
faults.  Each has the form `Spec /\ []~StrayPrepared => ...`: it is about the behaviours in which no
clean-up has removed the terminal marker of a journal while `prepared` is still there.  The code
does not guarantee that, and `journal_by_name` shows a behaviour that breaks the promise there.
`PreparedFirstSuffices` gives one sufficient reason, a listing that yields `prepared` before both
terminal markers.

The properties are not inductive: that a roll back finds its sources depends on when each
backup was made.  `IndInv` adds, for each call, where it stands (`BeginInv`,
`WorkspaceInv`, `CompactInv`, `RollbackInv`), and its centre is `Restorable`: while a
journal is pending it holds everything its roll back needs.  Each action has a lemma.  Most
use one of three facts, that a change of files, of the journal, or of neither leaves `Recovered`
alone; only `Commit` changes it.

`StateVaultProofs` proves, for all contents, events and identity files and any number of faults of
every kind, `IdentityIsNeverLost`, `AcknowledgedStaysDurable`, `VaultTypeCorrect`,
`SequenceIsNeverReused`, `SequenceIsInTheCommit` and the refinement `VaultIsAtomic`.  The
invariant of the first two is small: a secret is in its file until the format says that the files
are retired and in the vault as soon as there is one (`Secrets`), and a reported event is in its
file, in the vault and in what a pending journal would put back (`Reported`).  The others need
more.  Files and vault are two copies that a command makes differ and equal again, so `AtomicInv`
says when they agree and which one counts: `Agreement` (at which steps the journaled files equal
the vault), `Recovery` (before the mirror, and with no primary commit waiting for its files, what
the journal would leave equals the vault), `Journaling` (what an open journal can put back) and
`Intents` (a command runs under an intent bound to the active generation, and other files differ
from the vault only under one).  Then each step either leaves `Durable` alone or is the commit.
`Numbering` adds that the stored events are numbered 0, 1, ... and that `next-sequence` counts
them, in the durable state and in the files of an open transaction; a step keeps it because the
refinement says what the step does to `Durable`.

`MailboxStoreProofs` proves `AcceptedItemsAreHeld`, `NoResurrection`, `DeletesAreExact`,
`LimitsAreKept` and `StoreTypeCorrect` for all mailboxes, items, lifetimes, limits and lags.  The
strengthening for the first three is `Exclusive`, no key has an item and a tombstone, since
otherwise a delete could replace a tombstone that still protects another item.  The argument: a
handler's time is never ahead of the clock, so what is alive now is alive for the handler.
`LimitsAreKept` says that the persisted totals cover what is stored and stay within all limits.
`WithinCapacity` is inductive beside that (`Held`): a put has checked the limits
without the expired record it replaces, a delete and a cleanup count what they keep, and a refused
put leaves totals that are too high, never too low.  The byte total is a fold over a set;
`FoldAdds` shows that it adds up, whatever order the fold takes, by a least counterexample among the
finite subsets (`Minimal`), which needs no induction rule with an operator for parameter.

The delivery proofs use four invariants, each resting on those before it, which
`MailboxDeliveryInvariants` defines.

* `Inv` gives `DeletesFollowCommits` and `ReportsAreTrue`, for any number of texts, lifetimes,
  faults and lags.  It adds where things come from (`Origins`: an acknowledgement is stored,
  pending or in flight only for a text that its writer has committed, and the reader's ledger
  records only what its application committed) and what an actor holds at each step of its turn
  (`Actors`: from `ingested` on, the item in hand has been committed, so a request that crosses a
  crash is safe).
* `Trust` gives `StoredUploadsAreSafe`.  Each receipt which a ledger has recorded, or which an
  actor has been answered and has not yet recorded, is *entrusted*: its item is in the mailbox, or
  read, until it expires.  A receipt stays entrusted because cleanup and PUT leave a live item
  alone (`TimesBehind`) and a delete removes only what was read, which is the first theorem.
* `Selection` gives `DeletesAreOfWhatWasRead`.  A reader that has not recorded its commit owes no
  delete, one that has owes that delete alone (`Selected`); a deletion that the ledger has recorded
  is guarded by its tombstone (`Buried`), so the same item is not listed, and committed, again
  before the proof of its deletion expires.
* `Copies` gives `OneCiphertext` and `DeletionIsFinal`, for any lag: both are about a dispatch that
  is in force (section 3).  While it is, the ledgers know what was sealed for it (`Known`), so
  nothing is sealed twice (`Fresh`, `Same`); a receipt lasts as long as its envelope but for the lag
  (`Outlasts`), so the ledger does not forget earlier; and a tombstone stands as long (`Graves`).

They assume `BoundsAssumption` (the bounds are naturals) and `NoneAssumption` (the absent record is
no receipt, envelope or time).

`MailboxReplicationProofs` proves `TypeCorrect`, `ExactCorrect`, `IndependentCorrect`,
`PlanCorrect`, `CommitFirst`, `RecordsCorrect` and the action property `EvidenceCorrect`, for
all sets of items, volunteers and transports, all thresholds and any number of faults, under
`ReplicationAssumption`.  The inductive `Inv` adds to the properties `ReceiptsNameCopies` (a
receipt is of a copy the volunteer holds or had) and `TaskOK`, what each step of the task
may rely on: an attempt has its plan, an item that is about to be completed has enough
qualifying receipts, a poll that prepares, records or deletes has its text committed and its copy
at the volunteer.  Distinct transports make receipts distinct, a receipt names its store, so
the count of receipts in the locator bounds the number of stores there (`SatisfiedIsReplicated`);
a locator never leaves a living plan, and copies only grow (`CopiesGrow`).

`MailboxCapabilityProofs` proves `FollowsCorrect`, `AcknowledgementCorrect`, `LimitCorrect`,
`PolledCorrect` and `RetirementCorrect` for chains of any length and any limits on records and
bindings.  The
properties depend on each other, so they are proved together, with `Shape` (the chain is linked
and each activation has a binding of its own), `Sessions` (a request on its way is the writer's
or the next one; an answer is of an accepted update) and `Retained`.  The centre is that a
rotation waits for the acknowledgement, so at most one generation is ever missing at the
writer, and the overlap is exactly that generation's predecessor.

`TypeCorrect`, the type invariant, adds that an upload has its dispatch, without which its item
would be held under no binding.

Only model-checked: liveness, since fairness and `ENABLED` are outside the prover.  These are
`JournalCleared`, `CommandsKeepRunning`, `TotalsRepaired`, `EveryTextDelivered`,
`EveryCopyDeleted`, `EveryUploadIsTriedOrEnds`, `EveryUpdateAcknowledged` and
`EveryPolledTextIsRead`. Each safety invariant, action property and refinement that a passing run
checks is also proved; those of the journal under the condition on its clean-up, which the listing
of `journal_safe` satisfies.

## 5. Not modelled

The repository has over 340,000 lines of implementation; the models cover the part that keeps
state durable and delivers through mailboxes.  Left out, and why:

* The ordered vault writer and its fence, and the indexed dialog: storage engines of their own;
  what they must get right is mostly encodings and page arithmetic, which an abstraction of the
  data removes.
* Re-enrolment, history recovery, rollout, publication conflict, account authority: chains of
  signed documents that pure functions validate, with few states and user decisions between.
  Where they change state they do it in journal transactions.
* Ratchet sessions and the event store: library state and append-only files, seen by the vault
  as files a transaction adds.  Synchronisation v2 calls itself dormant.
* The live route of delivery: Iroh sessions, of which the models see only that a text reaches
  the mailbox fallback.
* Gossip between providers, path domains, admission work: they rank offers.
* IPC, transport, protocol, cryptography, desktop, tools: encodings, I/O and user interface.

Worth doing next: the reader's side of a store that has no room for a tombstone, and the ordered
writer on top of `StateJournal`.
