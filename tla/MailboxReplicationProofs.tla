---------------------- MODULE MailboxReplicationProofs ----------------------
(***************************************************************************)
(* What the replication ledger holds agrees with what the volunteers did,   *)
(* for any number of items, volunteers, transports, receipts and faults.    *)
(***************************************************************************)
EXTENDS MailboxReplication, FiniteSetTheorems, TLAPS

\* The stores of the replica set that have accepted an item.
Replicas(i) == {s \in Locator : <<i, s>> \in held \cup gone}

\* What the step of the task says of the ledgers.  In particular, the stores
\* still to be tried have no receipt, and a poll that got as far as the
\* acknowledgement has committed the text.
TaskOK ==
    /\ task.step \in {"upload", "attempt", "put", "complete", "https"} => task.item \in Outbound
    /\ task.step \in {"attempt", "put"} /\ task.origin = "upload" => task.item \in locators
    /\ task.step = "put" =>
         /\ task.item \in plans
         /\ \A x \in task.todo : \A r \in ReceiptsOf(task.item) : r[2] # x[1]
         /\ \A x, y \in task.todo : x[1] = y[1] => x = y
    /\ task.step = "complete" => Cardinality(Replicas(task.item)) >= Required
    /\ task.step \in {"prepare", "record", "delete", "reverse"} =>
         /\ task.item \in committed /\ task.copy \in Records /\ task.copy[1] = task.item
         /\ <<task.copy[1], task.copy[2]>> \in held \cup gone

\* A receipt names a copy that its store took, and a store gives only one.
ReceiptsNameCopies ==
    /\ \A r \in receipts : <<r[1], r[2]>> \in held \cup gone
    /\ \A r, q \in receipts : r[1] = q[1] /\ r[2] = q[2] => r = q

Durable ==
    /\ ReceiptsNameCopies /\ ReceiptsAreIndependent /\ PlanBeforeDial
    /\ DeletedOnlyAfterCommit /\ RecordsMatchCopies /\ ExactMeansReplicated

\* The two halves of TypeOK.
Tasks ==
    [step : Steps \cup {"idle"}, item : Items \cup {None}, bound : BOOLEAN, exact : BOOLEAN,
     origin : {None, "upload", "plan", "fallback"}, todo : SUBSET (Stores \X Transports),
     copy : Records \cup {None}]
LedgerTypes ==
    /\ pending \subseteq Outbound /\ completed \in [Outbound -> {None, "exact", "https"}]
    /\ plans \subseteq Outbound /\ locators \subseteq Outbound /\ receipts \subseteq Records
    /\ cooldown \in [Outbound -> 0..Retry]
    /\ committed \subseteq Inbound /\ commits \subseteq Records /\ deletions \subseteq Records
    /\ located \in BOOLEAN /\ unbound \subseteq Outbound /\ transport \in [Stores -> Transports]
    /\ held \subseteq Copies /\ gone \subseteq Copies
    /\ expired \subseteq Items /\ faults \in 0..MaxFaults

Inv == LedgerTypes /\ task \in Tasks /\ TaskOK /\ Durable

\* The tasks that start an upload or an attempt are tasks.
LEMMA TasksStart ==
    /\ Idle \in Tasks
    /\ \A i \in Outbound, b \in BOOLEAN : located \in BOOLEAN => Upload(i, b) \in Tasks
    /\ \A i \in Outbound, o \in {"upload", "plan", "fallback"} : Attempt(i, o) \in Tasks
  <1> USE Zenon
  <1>1. Idle \in Tasks
    BY DEF Idle, Tasks, Steps
  <1>2. ASSUME NEW i \in Outbound, NEW b \in BOOLEAN, located \in BOOLEAN
        PROVE  Upload(i, b) \in Tasks
    BY <1>2 DEF Upload, Idle, Tasks, Steps, Items
  <1>3. ASSUME NEW i \in Outbound, NEW o \in {"upload", "plan", "fallback"}
        PROVE  Attempt(i, o) \in Tasks
    BY DEF Attempt, Idle, Tasks, Steps, Items
  <1> QED
    BY <1>1, <1>2, <1>3

\* A task that ends leaves nothing to be shown of it.
LEMMA IdleTask ==
    ASSUME task' = Idle
    PROVE  task' \in Tasks /\ TaskOK'
  BY TasksStart, Zenon DEF TaskOK, Idle

\* An attempt for the item at hand starts well if an upload has its locator.
LEMMA AttemptTask ==
    ASSUME task.item \in Outbound, NEW o \in {"upload", "plan", "fallback"},
           o = "upload" => task.item \in locators',
           task' = Attempt(task.item, o)
    PROVE  task' \in Tasks /\ TaskOK'
  BY TasksStart, Zenon DEF TaskOK, Attempt, Idle

\* Copies that the volunteers of the replica set have accepted stay accepted.
LEMMA CopiesGrow ==
    ASSUME NEW i, held \cup gone \subseteq held' \cup gone',
           Cardinality(Replicas(i)) >= Required
    PROVE  Cardinality(Replicas(i)') >= Required
  <1> USE Zenon
  <1>1. IsFiniteSet(Locator)
    BY ReplicationAssumption, FS_Subset
  <1>2. Replicas(i) \subseteq Replicas(i)' /\ Replicas(i)' \subseteq Locator
    BY DEF Replicas
  <1>3. IsFiniteSet(Replicas(i)')
    BY <1>1, <1>2, FS_Subset
  <1>4. IsFiniteSet(Replicas(i)) /\ Cardinality(Replicas(i)) <= Cardinality(Replicas(i)')
    BY <1>2, <1>3, FS_Subset
  <1>5. Cardinality(Replicas(i)) \in Nat /\ Cardinality(Replicas(i)') \in Nat
    BY <1>3, <1>4, FS_CardinalityType
  <1>6. Required \in Nat
    BY ReplicationAssumption
  <1> QED
    BY <1>4, <1>5, <1>6, SMT

\* is_satisfied counts receipts; with a locator that is a count of stores of
\* the replica set that took the item.
LEMMA SatisfiedIsReplicated ==
    ASSUME ReceiptsNameCopies, NEW i \in locators, is_satisfied(i)
    PROVE  Cardinality(Replicas(i)) >= Required
  <1> USE Zenon
  <1> DEFINE Q == qualifying_receipts(i)
             f == [r \in Q |-> r[2]]
  <1>1. IsFiniteSet(Replicas(i))
    <2>1. IsFiniteSet(Locator)
      BY ReplicationAssumption, FS_Subset
    <2> QED
      BY <2>1, FS_Subset DEF Replicas
  <1>2. \A r \in Q : r[2] \in Replicas(i) /\ r[1] = i /\ r \in receipts
    BY DEF qualifying_receipts, ReceiptsOf, Replicas, ReceiptsNameCopies
  <1>3. f \in [Q -> Replicas(i)]
    BY <1>2
  <1>4. \A r, q \in Q : f[r] = f[q] => r = q
    BY <1>2 DEF ReceiptsNameCopies
  <1>5. f \in Injection(Q, Replicas(i))
    BY <1>3, <1>4 DEF Injection, IsInjective
  <1>6. IsFiniteSet(Q) /\ Cardinality(Q) <= Cardinality(Replicas(i))
    BY <1>1, <1>5, FS_Injection
  <1>7. Cardinality(Q) \in Nat /\ Cardinality(Replicas(i)) \in Nat /\ Required \in Nat
    BY <1>1, <1>6, FS_CardinalityType, ReplicationAssumption
  <1>8. Cardinality(Q) >= Required
    BY DEF is_satisfied
  <1> QED
    BY <1>6, <1>7, <1>8, SMT

\* The empty ledgers satisfy the invariant.
LEMMA InitInv == Init => Inv
  <1> USE Zenon
  <1> SUFFICES ASSUME Init PROVE Inv
    OBVIOUS
  <1>1. LedgerTypes /\ task \in Tasks
    BY ReplicationAssumption, TasksStart, SMT DEF Init, LedgerTypes, Records, Copies
  <1>2. TaskOK
    BY DEF Init, TaskOK, Idle
  <1>3. Durable
    <2>1. ExactMeansReplicated
      BY ReplicationAssumption DEF Init, ExactMeansReplicated
    <2> QED
      BY <2>1 DEF Init, Durable, ReceiptsNameCopies, ReceiptsAreIndependent, PlanBeforeDial,
                  DeletedOnlyAfterCommit, RecordsMatchCopies
  <1> QED
    BY <1>1, <1>2, <1>3 DEF Inv

\* A step that touches no volunteer, records nothing new and gives up plans of
\* expired items only keeps the durable part.
LEMMA Kept ==
    ASSUME Inv, UNCHANGED <<held, gone, completed>>, committed \subseteq committed',
           receipts' \subseteq receipts, commits' \subseteq commits, deletions' \subseteq deletions,
           plans \ expired' \subseteq plans', expired \subseteq expired'
    PROVE  Durable'
  <1> USE Zenon
  <1> USE DEF Inv, Durable
  <1>1. ReceiptsNameCopies' /\ ReceiptsAreIndependent'
    BY DEF ReceiptsNameCopies, ReceiptsAreIndependent
  <1>2. PlanBeforeDial'
    BY DEF PlanBeforeDial
  <1>3. DeletedOnlyAfterCommit'
    BY DEF DeletedOnlyAfterCommit
  <1>4. RecordsMatchCopies'
    BY DEF RecordsMatchCopies
  <1>5. ExactMeansReplicated'
    BY DEF ExactMeansReplicated
  <1> QED
    BY <1>1, <1>2, <1>3, <1>4, <1>5

\* Cleanup gives up only what has expired, and keeps the types.
LEMMA CleanupKeeps ==
    ASSUME LedgerTypes, replication_cleanup
    PROVE  /\ plans' \subseteq Outbound /\ locators' \subseteq Outbound
           /\ receipts' \subseteq Records /\ commits' \subseteq Records /\ deletions' \subseteq Records
           /\ cooldown' \in [Outbound -> 0..Retry]
           /\ receipts' \subseteq receipts /\ commits' \subseteq commits
           /\ deletions' \subseteq deletions /\ plans \ expired \subseteq plans'
  <1>1. cooldown' \in [Outbound -> 0..Retry]
    BY ReplicationAssumption DEF LedgerTypes, replication_cleanup
  <1> QED
    BY <1>1, Zenon DEF LedgerTypes, replication_cleanup, Live

\* The starts of a turn.
LEMMA TurnKeeps ==
    ASSUME Inv,
           \/ \E t \in Texts : attempt_runtime_mailbox_fallback(t)
           \/ \E i \in Outbound : retry_pending_upload(i) \/ resume_due_plan(i)
           \/ attempt_runtime_mailbox_poll
    PROVE  Inv'
  <1> USE Zenon
  <1> USE DEF ledger, inbox, world
  <1>1. CASE \E t \in Texts : attempt_runtime_mailbox_fallback(t)
    <2>1. PICK t \in Texts : attempt_runtime_mailbox_fallback(t)
      BY <1>1
    <2>2. t \in Outbound
      BY DEF Outbound
    <2>3. (LedgerTypes /\ task \in Tasks)'
      BY <2>1, <2>2, TasksStart DEF attempt_runtime_mailbox_fallback, Inv, LedgerTypes
    <2>4. TaskOK'
      BY <2>1, <2>2 DEF attempt_runtime_mailbox_fallback, TaskOK, Upload, Idle
    <2>5. UNCHANGED <<held, gone, completed, committed, receipts, commits, deletions, plans, expired>>
      BY <2>1 DEF attempt_runtime_mailbox_fallback
    <2>6. Durable'
      BY <2>5, Kept
    <2> QED
      BY <2>3, <2>4, <2>6 DEF Inv
  <1>2. CASE \E i \in Outbound : retry_pending_upload(i)
    <2>1. PICK i \in Outbound : retry_pending_upload(i)
      BY <1>2
    <2>2. (i \in Texts) \in BOOLEAN
      BY SMT
    <2>3. (LedgerTypes /\ task \in Tasks)'
      BY <2>1, <2>2, TasksStart DEF retry_pending_upload, Inv, LedgerTypes
    <2>4. TaskOK'
      <3>1. CASE i \in unbound
        BY <2>1, <3>1, IdleTask DEF retry_pending_upload
      <3>2. CASE i \notin unbound
        BY <2>1, <3>2 DEF retry_pending_upload, TaskOK, Upload, Idle
      <3> QED
        BY <3>1, <3>2
    <2>5. UNCHANGED <<held, gone, completed, committed, receipts, commits, deletions, plans, expired>>
      BY <2>1 DEF retry_pending_upload
    <2>6. Durable'
      BY <2>5, Kept
    <2> QED
      BY <2>3, <2>4, <2>6 DEF Inv
  <1>3. CASE \E i \in Outbound : resume_due_plan(i)
    <2>1. PICK i \in Outbound : resume_due_plan(i)
      BY <1>3
    <2>2. LedgerTypes /\ replication_cleanup
      BY <2>1 DEF resume_due_plan, Inv
    <2>3. (LedgerTypes /\ task \in Tasks)'
      BY <2>1, <2>2, CleanupKeeps, TasksStart DEF resume_due_plan, LedgerTypes
    <2>4. TaskOK'
      BY <2>1 DEF resume_due_plan, TaskOK, Attempt, Idle
    <2>5. Durable'
      BY <2>1, <2>2, CleanupKeeps, Kept DEF resume_due_plan
    <2> QED
      BY <2>3, <2>4, <2>5, SMT DEF Inv
  <1>4. CASE attempt_runtime_mailbox_poll
    <2>1. LedgerTypes /\ replication_cleanup
      BY <1>4 DEF attempt_runtime_mailbox_poll, Inv
    <2>2. {<<s, transport[s]>> : s \in OwnLocator} \subseteq Stores \X Transports
      BY <2>1, ReplicationAssumption, SMT DEF LedgerTypes
    <2>3. LedgerTypes'
      BY <1>4, <2>1, CleanupKeeps DEF attempt_runtime_mailbox_poll, LedgerTypes
    <2>6. task' \in Tasks
      BY <1>4, <2>2 DEF attempt_runtime_mailbox_poll, Tasks, Idle, Steps
    <2>4. TaskOK'
      BY <1>4 DEF attempt_runtime_mailbox_poll, TaskOK, Idle
    <2>5. Durable'
      BY <1>4, <2>1, CleanupKeeps, Kept DEF attempt_runtime_mailbox_poll
    <2> QED
      BY <2>3, <2>4, <2>5, <2>6 DEF Inv
  <1> QED
    BY <1>1, <1>2, <1>3, <1>4

\* An upload: its plan, then its completion by receipts or by the HTTPS store.
LEMMA UploadKeeps ==
    ASSUME Inv,
           \/ upload_runtime_mailbox_request \/ mark_outbound_replicated \/ exact_commit_failed
           \/ mark_outbound_stored \/ https_put_refused \/ https_put_failed
    PROVE  Inv'
  <1> USE Zenon
  <1> USE DEF ledger, inbox, world
  <1>1. CASE upload_runtime_mailbox_request
    <2>1. task.step = "upload" /\ task \in Tasks /\ task.item \in Outbound
      BY <1>1 DEF upload_runtime_mailbox_request, Inv, TaskOK
    <2>2. LedgerTypes'
      BY <1>1, <2>1
      DEF upload_runtime_mailbox_request, ensure_plan, ensure_replica_set_locator,
                        Inv, LedgerTypes
    <2>3. \/ task' = Attempt(task.item, "upload") /\ task.item \in locators'
          \/ task' = [task EXCEPT !.step = "https"]
          \/ task' = Idle
      BY <1>1 DEF upload_runtime_mailbox_request, ensure_replica_set_locator, Goto
    <2>4. [task EXCEPT !.step = "https"] \in Tasks
      BY <2>1 DEF Tasks, Steps
    <2>5. task' \in Tasks
      BY <2>1, <2>3, <2>4, TasksStart
    <2>6. TaskOK'
      <3>1. CASE task' = Attempt(task.item, "upload") /\ task.item \in locators'
        BY <2>1, <3>1 DEF TaskOK, Attempt, Idle
      <3>2. CASE task' = [task EXCEPT !.step = "https"]
        <4>1. task'.step = "https" /\ task'.item \in Outbound
          BY <2>1, <3>2 DEF Tasks
        <4> QED
          BY <4>1 DEF TaskOK
      <3>3. CASE task' = Idle
        BY <3>3 DEF TaskOK, Idle
      <3> QED
        BY <2>3, <3>1, <3>2, <3>3
    <2>7. /\ UNCHANGED <<held, gone, completed, committed, receipts, commits, deletions, expired>>
          /\ plans \subseteq plans'
      BY <1>1 DEF upload_runtime_mailbox_request, ensure_plan
    <2>8. Durable'
      BY <2>7, Kept
    <2> QED
      BY <2>2, <2>5, <2>6, <2>8 DEF Inv
  <1>2. CASE mark_outbound_replicated
    <2>1. task.item \in Outbound /\ Cardinality(Replicas(task.item)) >= Required
      BY <1>2 DEF mark_outbound_replicated, Inv, TaskOK
    <2>2. LedgerTypes' /\ task' \in Tasks
      BY <1>2, TasksStart DEF mark_outbound_replicated, Inv, LedgerTypes
    <2>3. TaskOK'
      BY <1>2 DEF mark_outbound_replicated, TaskOK, Idle
    <2>4. ExactMeansReplicated'
      BY <1>2, <2>1
      DEF mark_outbound_replicated, Inv, LedgerTypes, Durable, ExactMeansReplicated,
                        Replicas
    <2>5. Durable'
      BY <1>2, <2>4 DEF mark_outbound_replicated, Inv, Durable, ReceiptsNameCopies,
            ReceiptsAreIndependent, PlanBeforeDial, DeletedOnlyAfterCommit, RecordsMatchCopies
    <2> QED
      BY <2>2, <2>3, <2>5 DEF Inv
  <1>3. CASE mark_outbound_stored
    <2>2. LedgerTypes' /\ task' \in Tasks
      BY <1>3, TasksStart DEF mark_outbound_stored, Inv, LedgerTypes
    <2>3. TaskOK'
      BY <1>3 DEF mark_outbound_stored, TaskOK, Idle
    <2>4. ExactMeansReplicated'
      BY <1>3, ReplicationAssumption, SMT
      DEF mark_outbound_stored, Inv, LedgerTypes, Durable, ExactMeansReplicated
    <2>5. Durable'
      BY <1>3, <2>4 DEF mark_outbound_stored, Inv, Durable, ReceiptsNameCopies,
            ReceiptsAreIndependent, PlanBeforeDial, DeletedOnlyAfterCommit, RecordsMatchCopies
    <2> QED
      BY <2>2, <2>3, <2>5, SMT DEF Inv
  <1>4. CASE https_put_refused \/ https_put_failed
    <2>1. task.item \in Outbound
      BY <1>4 DEF https_put_refused, https_put_failed, Inv, TaskOK
    <2>2. LedgerTypes'
      BY <1>4 DEF https_put_refused, https_put_failed, Inv, LedgerTypes
    <2>3. task' = Attempt(task.item, "fallback") \/ task' = Idle
      BY <1>4 DEF https_put_refused, https_put_failed
    <2>5. task' \in Tasks /\ TaskOK'
      BY <2>1, <2>3, IdleTask, AttemptTask
    <2>6. UNCHANGED <<held, gone, completed, committed, receipts, commits, deletions, plans, expired>>
      BY <1>4 DEF https_put_refused, https_put_failed
    <2>7. Durable'
      BY <2>6, Kept
    <2> QED
      BY <2>2, <2>5, <2>7 DEF Inv
  <1>5. CASE exact_commit_failed
    <2>1. task \in Tasks /\ task.item \in Outbound
      BY <1>5 DEF exact_commit_failed, Inv, TaskOK
    <2>2. LedgerTypes'
      BY <1>5 DEF exact_commit_failed, Inv, LedgerTypes
    <2>3. task' = [task EXCEPT !.step = "https"]
      BY <1>5 DEF exact_commit_failed, Goto
    <2>4. task' \in Tasks /\ task'.step = "https" /\ task'.item \in Outbound
      BY <2>1, <2>3 DEF Tasks, Steps
    <2>5. TaskOK'
      BY <2>4 DEF TaskOK
    <2>6. UNCHANGED <<held, gone, completed, committed, receipts, commits, deletions, plans, expired>>
      BY <1>5 DEF exact_commit_failed
    <2>7. Durable'
      BY <2>6, Kept, SMT
    <2> QED
      BY <2>2, <2>4, <2>5, <2>7 DEF Inv
  <1> QED
    BY <1>1, <1>2, <1>3, <1>4, <1>5

\* An attempt goes back to its caller with a task of the right shape: only one
\* that found the item replicated completes it.
LEMMA AttemptReturns ==
    ASSUME NEW ok \in BOOLEAN, task \in Tasks, task.item \in Outbound,
           held \cup gone \subseteq held' \cup gone',
           ok /\ task.origin = "upload" => Cardinality(Replicas(task.item)) >= Required,
           task' = AfterAttempt(ok)
    PROVE  task' \in Tasks /\ TaskOK'
  <1> USE Zenon
  <1>1. CASE task.origin # "upload"
    BY <1>1, TasksStart DEF AfterAttempt, TaskOK, Idle
  <1>2. CASE task.origin = "upload" /\ ok
    <2>1. task' = [task EXCEPT !.step = "complete", !.todo = {}]
      BY <1>2 DEF AfterAttempt
    <2>2. task' \in Tasks /\ task'.step = "complete" /\ task'.item = task.item
      BY <2>1 DEF Tasks, Steps
    <2>3. Cardinality(Replicas(task.item)) >= Required
      BY <1>2
    <2>4. PICK i : i = task.item
      OBVIOUS
    <2>5. Cardinality(Replicas(i)') >= Required
      BY <2>3, <2>4, CopiesGrow
    <2>6. Replicas(task.item)' = Replicas(i)'
      BY <2>2, <2>4 DEF Replicas
    <2> QED
      BY <2>2, <2>5, <2>6 DEF TaskOK
  <1>3. CASE task.origin = "upload" /\ ~ok
    <2>1. task' = [task EXCEPT !.step = "https", !.todo = {}]
      BY <1>3 DEF AfterAttempt
    <2>2. task' \in Tasks /\ task'.step = "https" /\ task'.item = task.item
      BY <2>1 DEF Tasks, Steps
    <2> QED
      BY <2>2 DEF TaskOK
  <1> QED
    BY <1>1, <1>2, <1>3

\* The beginning and the end of an attempt.
LEMMA AttemptKeeps ==
    ASSUME Inv,
           \/ attempt_not_due \/ attempt_done
           \/ \E offers \in SUBSET Stores : mark_attempt(offers)
    PROVE  Inv'
  <1> USE Zenon
  <1> USE DEF ledger, inbox, world
  <1>1. CASE attempt_not_due
    <2>1. task \in Tasks /\ task.item \in Outbound /\ LedgerTypes /\ replication_cleanup
      BY <1>1 DEF attempt_not_due, Inv, TaskOK
    <2>2. LedgerTypes'
      BY <1>1, <2>1, CleanupKeeps DEF attempt_not_due, LedgerTypes
    <2>3. is_satisfied(task.item) /\ task.origin = "upload" =>
              Cardinality(Replicas(task.item)) >= Required
      BY <1>1, SatisfiedIsReplicated DEF attempt_not_due, Inv, TaskOK, Durable
    <2>4. (task.item \notin expired /\ is_satisfied(task.item)) \in BOOLEAN
      OBVIOUS
    <2>5. PICK ok \in BOOLEAN : ok = (task.item \notin expired /\ is_satisfied(task.item))
      BY <2>4
    <2>6. task' = AfterAttempt(ok) /\ UNCHANGED <<held, gone>>
      BY <1>1, <2>5 DEF attempt_not_due
    <2>7. task' \in Tasks /\ TaskOK'
      BY <2>1, <2>3, <2>5, <2>6, AttemptReturns
    <2>8. Durable'
      BY <1>1, <2>1, CleanupKeeps, Kept DEF attempt_not_due
    <2> QED
      BY <2>2, <2>7, <2>8 DEF Inv
  <1>2. CASE attempt_done
    <2>1. task \in Tasks /\ task.item \in Outbound /\ LedgerTypes
      BY <1>2 DEF attempt_done, Inv, TaskOK
    <2>2. LedgerTypes'
      BY <1>2, <2>1 DEF attempt_done, LedgerTypes
    <2>3. is_satisfied(task.item) /\ task.origin = "upload" =>
              Cardinality(Replicas(task.item)) >= Required
      BY <1>2, SatisfiedIsReplicated DEF attempt_done, Inv, TaskOK, Durable
    <2>4. is_satisfied(task.item) \in BOOLEAN
      BY SMT DEF is_satisfied
    <2>5. PICK ok \in BOOLEAN : ok = is_satisfied(task.item)
      BY <2>4
    <2>6. task' = AfterAttempt(ok) /\ UNCHANGED <<held, gone>>
      BY <1>2, <2>5 DEF attempt_done
    <2>7. task' \in Tasks /\ TaskOK'
      BY <2>1, <2>3, <2>5, <2>6, AttemptReturns
    <2>8. UNCHANGED <<held, gone, completed, committed, receipts, commits, deletions, plans, expired>>
      BY <1>2 DEF attempt_done
    <2>9. Durable'
      BY <2>8, Kept
    <2> QED
      BY <2>2, <2>7, <2>9, SMT DEF Inv
  <1>3. CASE \E offers \in SUBSET Stores : mark_attempt(offers)
    <2>1. PICK offers \in SUBSET Stores : mark_attempt(offers)
      BY <1>3
    <2> DEFINE todo == {<<s, transport[s]>> : s \in Candidates(task.item, offers)}
    <2>2. task \in Tasks /\ task.item \in Outbound /\ LedgerTypes /\ task.step = "attempt"
      BY <2>1 DEF mark_attempt, Inv, TaskOK
    <2>3. cooldown' \in [Outbound -> 0..Retry]
      <3>1. cooldown' = [j \in Outbound |-> IF j = task.item THEN Retry
                                          ELSE IF j \in expired THEN 0 ELSE cooldown[j]]
        BY <2>1 DEF mark_attempt
      <3>2. 0 \in 0..Retry /\ Retry \in 0..Retry
        BY ReplicationAssumption, SMT
      <3>3. \A j \in Outbound : cooldown[j] \in 0..Retry
        BY <2>2 DEF LedgerTypes
      <3> QED
        BY <3>1, <3>2, <3>3
    <2>4. LedgerTypes'
      BY <2>1, <2>2, <2>3 DEF mark_attempt, ensure_plan, LedgerTypes, Live
    <2>5. todo \subseteq Stores \X Transports
      BY <2>2, SMT DEF Candidates, LedgerTypes
    <2>5a. \A x \in todo : x[1] \in Candidates(task.item, offers) /\ x = <<x[1], transport[x[1]]>>
      BY SMT
    <2>6. /\ task' = [task EXCEPT !.step = "put", !.todo = todo]
          /\ task.item \in plans' /\ task.item \notin expired
          /\ receipts' \subseteq receipts /\ locators' = locators \ expired
      BY <2>1 DEF mark_attempt, ensure_plan, Live
    <2>7. /\ task' \in Tasks /\ task'.step = "put" /\ task'.item = task.item
          /\ task'.todo = todo /\ task'.origin = task.origin
      <3> HIDE DEF todo
      <3> QED
        BY <2>2, <2>5, <2>6 DEF Tasks, Steps
    <2>8. \A x \in todo : \A r \in ReceiptsOf(task.item) : r[2] # x[1]
      BY <2>5a DEF Candidates
    <2>9. ReceiptsOf(task.item)' \subseteq ReceiptsOf(task.item)
      BY <2>6, <2>7 DEF ReceiptsOf
    <2>10. task.origin = "upload" => task.item \in locators'
      BY <2>2, <2>6 DEF Inv, TaskOK
    <2>11. \A x, y \in todo : x[1] = y[1] => x = y
      <3> HIDE DEF todo
      <3> QED
        BY <2>5a
    <2>12. TaskOK'
      <3> HIDE DEF todo
      <3> QED
        BY <2>2, <2>6, <2>7, <2>8, <2>9, <2>10, <2>11 DEF TaskOK
    <2>13. Durable'
      BY <2>1, Kept DEF mark_attempt, ensure_plan, Live
    <2> QED
      BY <2>4, <2>7, <2>12, <2>13 DEF Inv
  <1> QED
    BY <1>1, <1>2, <1>3

\* A step in which a volunteer stores or deletes a copy keeps the durable part
\* if a new copy has its plan, a deleted text is committed, and what is newly
\* recorded as deleted is deleted.
LEMMA CopiesChange ==
    ASSUME Inv, UNCHANGED <<completed, plans, expired, committed>>,
           (ReceiptsNameCopies /\ ReceiptsAreIndependent)',
           held \cup gone \subseteq held' \cup gone', gone \subseteq gone',
           \A c \in (held' \cup gone') \ (held \cup gone) : c[1] \in plans \cup Inbound,
           \A c \in gone' \ gone : c[1] \in Outbound \cup committed,
           commits' \subseteq commits,
           \A d \in deletions' \ deletions : <<d[1], d[2]>> \in gone'
    PROVE  Durable'
  <1> USE Zenon
  <1>1. PlanBeforeDial'
    BY ReplicationAssumption DEF Inv, Durable, PlanBeforeDial
  <1>2. DeletedOnlyAfterCommit'
    BY ReplicationAssumption DEF Inv, Durable, DeletedOnlyAfterCommit
  <1>3. RecordsMatchCopies'
    BY DEF Inv, Durable, RecordsMatchCopies
  <1>4. ExactMeansReplicated'
    <2> SUFFICES ASSUME NEW i \in Outbound, completed[i] = "exact"
                 PROVE  Cardinality(Replicas(i)') >= Required
      BY DEF ExactMeansReplicated, Replicas
    <2>1. Cardinality(Replicas(i)) >= Required
      BY DEF Inv, Durable, ExactMeansReplicated, Replicas
    <2> QED
      BY <2>1, CopiesGrow
  <1> QED
    BY <1>1, <1>2, <1>3, <1>4 DEF Durable

\* Receipts that stay as they are keep naming copies.
LEMMA ReceiptsStay ==
    ASSUME Inv, receipts' = receipts, held \cup gone \subseteq held' \cup gone'
    PROVE  (ReceiptsNameCopies /\ ReceiptsAreIndependent)'
  BY Zenon DEF Inv, Durable, ReceiptsNameCopies, ReceiptsAreIndependent

\* A task that goes on beside a step of another actor keeps its shape.
LEMMA TaskStays ==
    ASSUME Inv, UNCHANGED <<task, locators, plans, receipts, committed>>,
           held \cup gone \subseteq held' \cup gone'
    PROVE  task' \in Tasks /\ TaskOK'
  <1> USE Zenon
  <1>1. task' \in Tasks
    BY DEF Inv, Tasks
  <1>2. ReceiptsOf(task.item)' = ReceiptsOf(task.item)
    BY DEF ReceiptsOf
  <1>3. task.step = "complete" => Cardinality(Replicas(task.item)') >= Required
    <2> SUFFICES ASSUME task.step = "complete" PROVE Cardinality(Replicas(task.item)') >= Required
      OBVIOUS
    <2>1. PICK i : i = task.item
      OBVIOUS
    <2>2. Cardinality(Replicas(i)') >= Required
      BY <2>1, CopiesGrow DEF Inv, TaskOK
    <2>3. Replicas(task.item)' = Replicas(i)'
      BY <2>1 DEF Replicas
    <2> QED
      BY <2>2, <2>3
  <1>4. TaskOK'
    BY <1>2, <1>3 DEF Inv, TaskOK
  <1> QED
    BY <1>1, <1>4

\* The PUTs of an attempt.
LEMMA PutKeeps ==
    ASSUME Inv, NEW s \in Stores, NEW p \in Transports, record_receipt(s, p) \/ put_failed(s, p)
    PROVE  Inv'
  <1> USE Zenon
  <1> USE DEF ledger, inbox, world
  <1>1. /\ task \in Tasks /\ task.item \in Outbound /\ task.step = "put" /\ task.item \in plans
        /\ <<s, p>> \in task.todo /\ task.item \in Items
    BY DEF record_receipt, put_failed, Inv, TaskOK, Items
  <1>2. /\ UNCHANGED <<completed, plans, expired, committed, gone, commits, deletions, locators>>
        /\ held' = held \/ held' = held \cup {<<task.item, s>>}
    BY DEF record_receipt, put_failed
  <1>3. /\ held \cup gone \subseteq held' \cup gone'
        /\ \A c \in (held' \cup gone') \ (held \cup gone) : c[1] \in plans \cup Inbound
    BY <1>1, <1>2, SMT
  <1>4. held' \subseteq Copies
    BY <1>1, <1>2, SMT DEF Inv, LedgerTypes, Copies
  <1> DEFINE rest == [task EXCEPT !.todo = @ \ {<<s, p>>}]
  <1>5. /\ rest \in Tasks /\ rest.step = "put" /\ rest.item = task.item
        /\ rest.origin = task.origin /\ rest.todo = task.todo \ {<<s, p>>}
    BY <1>1 DEF Tasks
  <1>6. CASE record_receipt(s, p) /\ ~\E r \in ReceiptsOf(task.item) : r[3] = p
    <2>1. /\ receipts' = receipts \cup {<<task.item, s, p>>} /\ task' = rest
          /\ <<task.item, s>> \in held'
          /\ UNCHANGED <<pending, cooldown, located, unbound, transport, faults>>
      BY <1>6 DEF record_receipt
    <2>2. LedgerTypes'
      BY <1>1, <1>2, <1>4, <2>1, SMT DEF Inv, LedgerTypes, Records
    <2>3. \A r \in receipts : r[1] = task.item => r[2] # s /\ r[3] # p
      BY <1>1, <1>6 DEF ReceiptsOf, Inv, TaskOK
    <2>4. ReceiptsNameCopies'
      BY <1>3, <2>1, <2>3, SMT DEF Inv, Durable, ReceiptsNameCopies
    <2>5. ReceiptsAreIndependent'
      BY <2>1, <2>3, SMT DEF Inv, Durable, ReceiptsAreIndependent
    <2>6. Durable'
      BY <1>2, <1>3, <2>4, <2>5, CopiesChange
    <2>7. \A x \in rest.todo : \A r \in ReceiptsOf(task.item)' : r[2] # x[1]
      <3> SUFFICES ASSUME NEW x \in task.todo \ {<<s, p>>}, NEW r \in receipts', r[1] = task.item
                   PROVE  r[2] # x[1]
        BY <1>5, <2>1 DEF ReceiptsOf
      <3>1. x[1] # s
        BY <1>1 DEF Inv, TaskOK
      <3>2. r \in receipts => r[2] # x[1]
        BY <1>1 DEF Inv, TaskOK, ReceiptsOf
      <3> QED
        BY <2>1, <3>1, <3>2, SMT
    <2>8. TaskOK'
      <3> HIDE DEF rest
      <3> QED
        BY <1>1, <1>2, <1>5, <2>1, <2>7 DEF Inv, TaskOK
    <2> QED
      BY <1>5, <2>1, <2>2, <2>6, <2>8 DEF Inv
  <1>7. CASE record_receipt(s, p) /\ \E r \in ReceiptsOf(task.item) : r[3] = p
    <2>1. /\ receipts' = receipts /\ task' = AfterAttempt(FALSE)
          /\ UNCHANGED <<pending, cooldown, located, unbound, transport, faults>>
      BY <1>7 DEF record_receipt
    <2>2. LedgerTypes'
      BY <1>2, <1>4, <2>1 DEF Inv, LedgerTypes
    <2>3. task' \in Tasks /\ TaskOK'
      BY <1>1, <1>3, <2>1, AttemptReturns
    <2>4. Durable'
      BY <1>2, <1>3, <2>1, ReceiptsStay, CopiesChange
    <2> QED
      BY <2>2, <2>3, <2>4 DEF Inv
  <1>8. CASE put_failed(s, p)
    <2>1. /\ receipts' = receipts /\ task' = rest
          /\ UNCHANGED <<pending, cooldown, located, unbound, transport, faults>>
      BY <1>8 DEF put_failed
    <2>2. LedgerTypes'
      BY <1>2, <1>4, <2>1 DEF Inv, LedgerTypes
    <2>3. ReceiptsOf(task.item)' = ReceiptsOf(task.item)
      BY <1>5, <2>1 DEF ReceiptsOf
    <2>4. TaskOK'
      <3> HIDE DEF rest
      <3> QED
        BY <1>1, <1>2, <1>5, <2>1, <2>3, SMT DEF Inv, TaskOK
    <2>5. Durable'
      BY <1>2, <1>3, <2>1, ReceiptsStay, CopiesChange
    <2> QED
      BY <1>5, <2>1, <2>2, <2>4, <2>5 DEF Inv
  <1> QED
    BY <1>6, <1>7, <1>8

\* A DELETE of a copy that is or was there, and whose text is committed.
LEMMA DeletedKeeps ==
    ASSUME Inv, NEW i \in committed, NEW s \in Stores, <<i, s>> \in held \cup gone, Delete(i, s),
           UNCHANGED <<completed, plans, expired, committed, receipts>>, commits' \subseteq commits,
           \A d \in deletions' \ deletions : d[1] = i /\ d[2] = s
    PROVE  /\ Durable' /\ held' \subseteq Copies /\ gone' \subseteq Copies
           /\ held \cup gone \subseteq held' \cup gone'
  <1> USE Zenon
  <1>1. /\ held' \cup gone' = held \cup gone /\ gone \subseteq gone'
        /\ \A c \in gone' \ gone : c = <<i, s>>
        /\ <<i, s>> \in gone'
    BY DEF Delete
  <1>2. held' \subseteq Copies /\ gone' \subseteq Copies
    BY <1>1 DEF Inv, LedgerTypes
  <1>3. (ReceiptsNameCopies /\ ReceiptsAreIndependent)'
    BY <1>1, ReceiptsStay
  <1>4. \A c \in gone' \ gone : c[1] \in Outbound \cup committed
    BY <1>1, SMT
  <1>5. \A d \in deletions' \ deletions : <<d[1], d[2]>> \in gone'
    BY <1>1
  <1>6. Durable'
    BY <1>1, <1>3, <1>4, <1>5, CopiesChange
  <1> QED
    BY <1>1, <1>2, <1>6

\* What is retained of an inbound commit: the copy was there, its text is committed.
LEMMA CommitIsCopy ==
    ASSUME Inv, NEW c \in commits
    PROVE  c \in Records /\ c[1] \in committed /\ c[2] \in Stores /\ <<c[1], c[2]>> \in held \cup gone
  BY Zenon DEF Inv, LedgerTypes, Records, Durable, RecordsMatchCopies

\* A poll first tries to finish a deletion that is still owed.
LEMMA ResumeKeeps ==
    ASSUME Inv, (\E c \in pending_inbound_deletes : resume_inbound_delete(c)) \/ resume_failed
    PROVE  Inv'
  <1> USE Zenon
  <1> USE DEF ledger, inbox, world
  <1>1. CASE \E c \in pending_inbound_deletes : resume_inbound_delete(c)
    <2>1. PICK c \in commits : resume_inbound_delete(c)
      BY <1>1 DEF pending_inbound_deletes
    <2>2. c \in Records /\ c[1] \in committed /\ c[2] \in Stores /\ <<c[1], c[2]>> \in held \cup gone
      BY CommitIsCopy
    <2>3. /\ commits' = commits \ {c} /\ deletions' = deletions \cup {c} /\ Delete(c[1], c[2])
          /\ UNCHANGED <<completed, plans, expired, committed, receipts>>
          /\ UNCHANGED <<pending, locators, cooldown, located, unbound, transport, faults>> /\ task' = Idle
      BY <2>1 DEF resume_inbound_delete, MarkDeleted
    <2>4. Durable' /\ held' \subseteq Copies /\ gone' \subseteq Copies
      BY <2>2, <2>3, DeletedKeeps
    <2>5. LedgerTypes'
      BY <2>2, <2>3, <2>4 DEF Inv, LedgerTypes
    <2> QED
      BY <2>3, <2>4, <2>5, IdleTask DEF Inv
  <1>2. CASE resume_failed
    <2>1. /\ task \in Tasks /\ task.step = "poll" /\ task' = [task EXCEPT !.step = "list"]
          /\ UNCHANGED <<completed, plans, expired, committed, receipts, commits, deletions>>
          /\ UNCHANGED <<pending, locators, cooldown, located, unbound, transport, faults>>
      BY <1>2 DEF resume_failed, Goto, Inv
    <2>2. task' \in Tasks /\ task'.step = "list"
      BY <2>1 DEF Tasks, Steps
    <2>3. TaskOK'
      BY <2>2 DEF TaskOK
    <2>4. Durable' /\ held' \subseteq Copies /\ gone' \subseteq Copies
      <3>1. CASE UNCHANGED <<held, gone>>
        BY <2>1, <3>1, Kept DEF Inv, LedgerTypes
      <3>2. CASE \E c \in commits : Delete(c[1], c[2])
        <4>1. PICK c \in commits : Delete(c[1], c[2])
          BY <3>2
        <4> QED
          BY <2>1, <4>1, CommitIsCopy, DeletedKeeps
      <3> QED
        BY <1>2, <3>1, <3>2 DEF resume_failed, pending_inbound_deletes
    <2>5. LedgerTypes'
      BY <2>1, <2>4 DEF Inv, LedgerTypes
    <2> QED
      BY <2>2, <2>3, <2>4, <2>5 DEF Inv
  <1> QED
    BY <1>1, <1>2

\* A text is committed, and its acknowledgement prepared.
LEMMA CommitKeeps ==
    ASSUME Inv,
           \/ \E m \in Inbound, s \in Stores, p \in Transports : commit_runtime_mailbox_text(m, s, p)
           \/ list_nothing
           \/ prepare_runtime_reverse_mailbox_acknowledgement
    PROVE  Inv'
  <1> USE Zenon
  <1> USE DEF ledger, inbox, world
  <1>1. CASE \E m \in Inbound, s \in Stores, p \in Transports : commit_runtime_mailbox_text(m, s, p)
    <2>1. PICK m \in Inbound, s \in Stores, p \in Transports : commit_runtime_mailbox_text(m, s, p)
      BY <1>1
    <2>2. <<m, s, p>> \in Records /\ m \in Items
      BY DEF Records, Items
    <2>3. /\ task' = [task EXCEPT !.step = "prepare", !.item = m, !.copy = <<m, s, p>>, !.todo = {}]
          /\ committed' = committed \cup {m} /\ <<m, s>> \in held
          /\ UNCHANGED <<completed, plans, expired, receipts, commits, deletions, held, gone>>
          /\ UNCHANGED <<pending, locators, cooldown, located, unbound, transport, faults>>
      BY <2>1 DEF commit_runtime_mailbox_text
    <2>4. LedgerTypes'
      BY <2>3 DEF Inv, LedgerTypes
    <2>5. task' \in Tasks /\ task'.step = "prepare" /\ task'.item = m /\ task'.copy = <<m, s, p>>
      BY <2>2, <2>3 DEF Inv, Tasks, Steps
    <2>6. TaskOK'
      BY <2>2, <2>3, <2>5, SMT DEF TaskOK
    <2>7. Durable'
      BY <2>3, Kept
    <2> QED
      BY <2>4, <2>5, <2>6, <2>7 DEF Inv
  <1>2. CASE list_nothing
    <2>1. /\ task' = Idle
          /\ UNCHANGED <<completed, plans, expired, committed, receipts, commits, deletions, held, gone>>
          /\ UNCHANGED <<pending, locators, cooldown, located, unbound, transport, faults>>
      BY <1>2 DEF list_nothing
    <2>2. LedgerTypes'
      BY <2>1 DEF Inv, LedgerTypes
    <2>3. Durable'
      BY <2>1, Kept
    <2> QED
      BY <2>1, <2>2, <2>3, IdleTask DEF Inv
  <1>3. CASE prepare_runtime_reverse_mailbox_acknowledgement
    <2>1. /\ task \in Tasks /\ task.item \in Inbound /\ task.item \in committed /\ task.copy \in Records
          /\ task.copy[1] = task.item /\ <<task.copy[1], task.copy[2]>> \in held \cup gone
      BY <1>3 DEF prepare_runtime_reverse_mailbox_acknowledgement, Inv, TaskOK, LedgerTypes
    <2>2. Ack[task.item] \in Outbound
      BY <2>1, ReplicationAssumption DEF Outbound
    <2>3. /\ \/ task' = [task EXCEPT !.step = "record", !.bound = TRUE, !.exact = located]
             \/ task' = [task EXCEPT !.step = "record"]
          /\ pending' = pending \cup {Ack[task.item]} \/ pending' = pending
          /\ UNCHANGED <<completed, plans, expired, committed, receipts, commits, deletions, held, gone>>
          /\ UNCHANGED <<locators, cooldown, located, unbound, transport, faults>>
      BY <1>3 DEF prepare_runtime_reverse_mailbox_acknowledgement, Goto
    <2>4. LedgerTypes'
      BY <2>2, <2>3 DEF Inv, LedgerTypes
    <2>5. located \in BOOLEAN
      BY DEF Inv, LedgerTypes
    <2>6. task' \in Tasks /\ task'.step = "record" /\ task'.item = task.item /\ task'.copy = task.copy
      BY <2>1, <2>3, <2>5 DEF Tasks, Steps
    <2>7. TaskOK'
      BY <2>1, <2>3, <2>6 DEF TaskOK
    <2>8. Durable'
      BY <2>3, Kept
    <2> QED
      BY <2>4, <2>6, <2>7, <2>8 DEF Inv
  <1> QED
    BY <1>1, <1>2, <1>3

\* The commit is recorded, the copy deleted, and the acknowledgement uploaded.
LEMMA FinishKeeps ==
    ASSUME Inv,
           \/ record_inbound_commit \/ mark_inbound_deleted \/ delete_failed
           \/ upload_reverse_acknowledgement
    PROVE  Inv'
  <1> USE Zenon
  <1> USE DEF ledger, inbox, world
  <1>1. /\ task \in Tasks /\ task.item \in Inbound /\ task.item \in committed /\ task.copy \in Records
        /\ task.copy[1] = task.item /\ <<task.copy[1], task.copy[2]>> \in held \cup gone
        /\ task.copy[2] \in Stores
    BY DEF record_inbound_commit, mark_inbound_deleted, delete_failed,
           upload_reverse_acknowledgement, Inv, TaskOK, LedgerTypes, Records
  <1>2. PICK c \in Records : c = task.copy
    BY <1>1
  <1>3. c[1] \in committed /\ c[2] \in Stores /\ <<c[1], c[2]>> \in held \cup gone
    BY <1>1, <1>2
  <1>4. ASSUME task' = AfterDelete, held \cup gone \subseteq held' \cup gone', committed' = committed
        PROVE  task' \in Tasks /\ TaskOK'
    <2>1. CASE task.bound
      <3>1. task' = [task EXCEPT !.step = "reverse"]
        BY <1>4, <2>1 DEF AfterDelete
      <3>2. task' \in Tasks /\ task'.step = "reverse" /\ task'.item = task.item /\ task'.copy = task.copy
        BY <1>1, <3>1 DEF Tasks, Steps
      <3> QED
        BY <1>1, <1>4, <3>2 DEF TaskOK
    <2>2. CASE ~task.bound
      BY <1>4, <2>2, IdleTask DEF AfterDelete
    <2> QED
      BY <2>1, <2>2
  <1>5. CASE record_inbound_commit
    <2>1. /\ \/ commits' = commits \cup {c} /\ task' = [task EXCEPT !.step = "delete"]
             \/ commits' = commits /\ task' = Idle
          /\ UNCHANGED <<completed, plans, expired, committed, receipts, deletions, held, gone>>
          /\ UNCHANGED <<pending, locators, cooldown, located, unbound, transport, faults>>
      BY <1>2, <1>5 DEF record_inbound_commit, Goto
    <2>2. LedgerTypes'
      BY <2>1 DEF Inv, LedgerTypes
    <2>3. task' \in Tasks /\ TaskOK'
      <3>1. CASE task' = [task EXCEPT !.step = "delete"]
        <4>1. task' \in Tasks /\ task'.step = "delete" /\ task'.item = task.item
              /\ task'.copy = task.copy
          BY <1>1, <3>1 DEF Tasks, Steps
        <4> QED
          BY <1>1, <2>1, <4>1 DEF TaskOK
      <3> QED
        BY <2>1, <3>1, IdleTask
    <2>4. RecordsMatchCopies'
      BY <1>3, <2>1 DEF Inv, Durable, RecordsMatchCopies
    <2>5. Durable'
      BY <2>1, <2>4
      DEF Inv, Durable, ReceiptsNameCopies, ReceiptsAreIndependent, PlanBeforeDial,
                        DeletedOnlyAfterCommit, ExactMeansReplicated
    <2> QED
      BY <2>2, <2>3, <2>5 DEF Inv
  <1>6. CASE mark_inbound_deleted
    <2>1. /\ commits' = commits \ {c} /\ deletions' = deletions \cup {c} /\ Delete(c[1], c[2])
          /\ UNCHANGED <<completed, plans, expired, committed, receipts>>
          /\ UNCHANGED <<pending, locators, cooldown, located, unbound, transport, faults>>
          /\ task' = AfterDelete
      BY <1>2, <1>6 DEF mark_inbound_deleted, MarkDeleted
    <2>2. /\ Durable' /\ held' \subseteq Copies /\ gone' \subseteq Copies
          /\ held \cup gone \subseteq held' \cup gone'
      BY <1>3, <2>1, DeletedKeeps
    <2>3. LedgerTypes'
      BY <2>1, <2>2 DEF Inv, LedgerTypes
    <2> QED
      BY <1>4, <2>1, <2>2, <2>3 DEF Inv
  <1>7. CASE delete_failed
    <2>1. /\ UNCHANGED <<held, gone>> \/ Delete(c[1], c[2])
          /\ UNCHANGED <<completed, plans, expired, committed, receipts, commits, deletions>>
          /\ UNCHANGED <<pending, locators, cooldown, located, unbound, transport, faults>>
          /\ task' = AfterDelete
      BY <1>2, <1>7 DEF delete_failed
    <2>2. /\ Durable' /\ held' \subseteq Copies /\ gone' \subseteq Copies
          /\ held \cup gone \subseteq held' \cup gone'
      <3>1. CASE UNCHANGED <<held, gone>>
        BY <2>1, <3>1, Kept DEF Inv, LedgerTypes
      <3>2. CASE Delete(c[1], c[2])
        BY <1>3, <2>1, <3>2, DeletedKeeps
      <3> QED
        BY <2>1, <3>1, <3>2
    <2>3. LedgerTypes'
      BY <2>1, <2>2 DEF Inv, LedgerTypes
    <2> QED
      BY <1>4, <2>1, <2>2, <2>3 DEF Inv
  <1>8. CASE upload_reverse_acknowledgement
    <2>1. /\ task' = [Upload(Ack[task.item], task.exact) EXCEPT !.exact = task.exact]
          /\ UNCHANGED <<completed, plans, expired, committed, receipts, commits, deletions, held, gone>>
          /\ UNCHANGED <<pending, locators, cooldown, located, unbound, transport, faults>>
      BY <1>8 DEF upload_reverse_acknowledgement
    <2>2. Ack[task.item] \in Outbound /\ task.exact \in BOOLEAN /\ located \in BOOLEAN
      BY <1>1, ReplicationAssumption DEF Outbound, Tasks, Inv, LedgerTypes
    <2>3. Upload(Ack[task.item], task.exact) \in Tasks
      BY <2>2, TasksStart
    <2>4. /\ Upload(Ack[task.item], task.exact).step = "upload"
          /\ Upload(Ack[task.item], task.exact).item = Ack[task.item]
      BY DEF Upload, Idle
    <2>5. task' \in Tasks /\ task'.step = "upload" /\ task'.item = Ack[task.item]
      BY <2>1, <2>2, <2>3, <2>4 DEF Tasks
    <2>6. TaskOK'
      BY <2>2, <2>5 DEF TaskOK
    <2>7. LedgerTypes'
      BY <2>1 DEF Inv, LedgerTypes
    <2>8. Durable'
      BY <2>1, Kept
    <2> QED
      BY <2>5, <2>6, <2>7, <2>8 DEF Inv
  <1> QED
    BY <1>5, <1>6, <1>7, <1>8

\* Crashes, time, expiry, the peer and newer offers.
LEMMA EnvironmentKeeps == Inv /\ Environment => Inv'
  <1> USE Zenon
  <1> SUFFICES ASSUME Inv, Environment PROVE Inv'
    OBVIOUS
  <1> USE DEF ledger, inbox, world
  <1>1. CASE crash
    <2>1. /\ task' = Idle /\ faults' = faults + 1 /\ faults < MaxFaults
          /\ UNCHANGED <<completed, plans, expired, committed, receipts, commits, deletions, held, gone>>
          /\ UNCHANGED <<pending, locators, cooldown, located, unbound, transport>>
      BY <1>1 DEF crash
    <2>2. LedgerTypes'
      BY <2>1, ReplicationAssumption, SMT DEF Inv, LedgerTypes
    <2>3. Durable'
      BY <2>1, Kept
    <2> QED
      BY <2>1, <2>2, <2>3, IdleTask DEF Inv
  <1>2. CASE tick
    <2>1. /\ UNCHANGED <<completed, plans, expired, committed, receipts, commits, deletions, held, gone>>
          /\ UNCHANGED <<pending, locators, located, unbound, transport, faults, task>>
          /\ cooldown' = [i \in Outbound |-> IF cooldown[i] > 0 THEN cooldown[i] - 1 ELSE 0]
      BY <1>2 DEF tick
    <2>2. cooldown' \in [Outbound -> 0..Retry]
      <3>1. \A i \in Outbound : cooldown[i] \in 0..Retry
        BY DEF Inv, LedgerTypes
      <3>2. \A n \in 0..Retry : (IF n > 0 THEN n - 1 ELSE 0) \in 0..Retry
        BY ReplicationAssumption, SMT
      <3> QED
        BY <2>1, <3>1, <3>2
    <2>3. LedgerTypes'
      BY <2>1, <2>2 DEF Inv, LedgerTypes
    <2>4. Durable'
      BY <2>1, Kept
    <2> QED
      BY <2>1, <2>3, <2>4, TaskStays DEF Inv
  <1>3. CASE \E i \in Items : expire(i)
    <2>1. PICK i \in Items : expire(i)
      BY <1>3
    <2>2. /\ UNCHANGED <<completed, plans, committed, receipts, commits, deletions, held, gone>>
          /\ UNCHANGED <<pending, locators, cooldown, located, unbound, transport, faults, task>>
          /\ expired' = expired \cup {i}
      BY <2>1 DEF expire
    <2>3. LedgerTypes'
      BY <2>2 DEF Inv, LedgerTypes
    <2>4. Durable'
      BY <2>2, Kept
    <2> QED
      BY <2>2, <2>3, <2>4, TaskStays DEF Inv
  <1>4. CASE \E i \in Items, s \in Stores : peer_put(i, s)
    <2>1. PICK i \in Items, s \in Stores : peer_put(i, s)
      BY <1>4
    <2>2. /\ UNCHANGED <<completed, plans, expired, committed, receipts, commits, deletions, gone>>
          /\ UNCHANGED <<pending, locators, cooldown, located, unbound, transport, faults, task>>
          /\ held' = held \cup {<<i, s>>} /\ i \in Inbound
      BY <2>1 DEF peer_put
    <2>3. LedgerTypes'
      BY <2>2, SMT DEF Inv, LedgerTypes, Copies
    <2>4. Durable'
      BY <2>2, ReceiptsStay, CopiesChange, SMT
    <2> QED
      BY <2>2, <2>3, <2>4, TaskStays DEF Inv
  <1>5. CASE \E i \in Items, s \in Stores : peer_delete(i, s)
    <2>1. PICK i \in Items, s \in Stores : peer_delete(i, s)
      BY <1>5, SMT
    <2>2. /\ UNCHANGED <<completed, plans, expired, committed, receipts, commits, deletions>>
          /\ UNCHANGED <<pending, locators, cooldown, located, unbound, transport, faults, task>>
          /\ held' = held \ {<<i, s>>} /\ gone' = gone \cup {<<i, s>>}
          /\ i \in Outbound /\ <<i, s>> \in held
      BY <2>1 DEF peer_delete, Delete
    <2>3. LedgerTypes'
      BY <2>2 DEF Inv, LedgerTypes
    <2>4. held' \cup gone' = held \cup gone
      BY <2>2
    <2>5. Durable'
      BY <2>2, <2>4, ReceiptsStay, CopiesChange, SMT
    <2> QED
      BY <2>2, <2>3, <2>4, <2>5, TaskStays DEF Inv
  <1>6. CASE accept_locator \/ retire_capability \/ \E s \in Stores, t \in Transports : import_offer(s, t)
    <2>1. /\ UNCHANGED <<completed, plans, expired, committed, receipts, commits, deletions, held, gone>>
          /\ UNCHANGED <<pending, locators, cooldown, task>>
      BY <1>6 DEF accept_locator, retire_capability, import_offer
    <2>2. /\ located' \in BOOLEAN /\ unbound' \subseteq Outbound
          /\ transport' \in [Stores -> Transports] /\ faults' \in 0..MaxFaults
      <3>1. CASE accept_locator
        BY <3>1 DEF accept_locator, Inv, LedgerTypes
      <3>2. CASE \E s \in Stores, t \in Transports : import_offer(s, t)
        BY <3>2, ReplicationAssumption, SMT DEF import_offer, Inv, LedgerTypes
      <3>3. CASE retire_capability
        BY <3>3 DEF retire_capability, Inv, LedgerTypes
      <3> QED
        BY <1>6, <3>1, <3>2, <3>3
    <2>3. LedgerTypes'
      BY <2>1, <2>2 DEF Inv, LedgerTypes
    <2>4. Durable'
      BY <2>1, Kept
    <2> QED
      BY <2>1, <2>3, <2>4, TaskStays DEF Inv
  <1> QED
    BY <1>1, <1>2, <1>3, <1>4, <1>5, <1>6 DEF Environment

\* Every step of the runtime and of its environment preserves the invariant.
LEMMA NextInv == Inv /\ [Next]_vars => Inv'
  <1> USE Zenon
  <1> SUFFICES ASSUME Inv, [Next]_vars PROVE Inv'
    OBVIOUS
  <1>1. CASE UNCHANGED vars
    <2>1. /\ UNCHANGED <<completed, plans, expired, committed, receipts, commits, deletions, held, gone>>
          /\ UNCHANGED <<pending, locators, cooldown, located, unbound, transport, faults, task>>
      BY <1>1 DEF vars, ledger, inbox, world
    <2>2. LedgerTypes'
      BY <2>1 DEF Inv, LedgerTypes
    <2>3. Durable'
      BY <2>1, Kept
    <2> QED
      BY <2>1, <2>2, <2>3, TaskStays DEF Inv
  <1>2. CASE Runtime
    BY <1>2, TurnKeeps, UploadKeeps, AttemptKeeps, PutKeeps, ResumeKeeps, CommitKeeps, FinishKeeps
       DEF Runtime
  <1>3. CASE Environment
    BY <1>3, EnvironmentKeeps
  <1> QED
    BY <1>1, <1>2, <1>3 DEF Next

\* The invariant holds throughout.
THEOREM Invariance == Spec => []Inv
  <1>1. Init => Inv
    BY InitInv, Zenon
  <1>2. Inv /\ [Next]_vars => Inv'
    BY NextInv, Zenon
  <1> QED
    BY <1>1, <1>2, PTL DEF Spec

\* The ledgers, the volunteers and the task keep their shapes.
THEOREM TypeCorrect == Spec => []TypeOK
  <1>1. Inv => TypeOK
    BY Zenon DEF Inv, LedgerTypes, Tasks, TypeOK
  <1> QED
    BY <1>1, Invariance, PTL

\* mark_outbound_replicated suppresses the HTTPS copy of an item only when as
\* many stores of the authenticated replica set as required took the item.
THEOREM ExactCorrect == Spec => []ExactMeansReplicated
  <1>1. Inv => ExactMeansReplicated
    BY Zenon DEF Inv, Durable
  <1> QED
    BY <1>1, Invariance, PTL

\* record_receipt never retains two receipts of one transport for an item.
THEOREM IndependentCorrect == Spec => []ReceiptsAreIndependent
  <1>1. Inv => ReceiptsAreIndependent
    BY Zenon DEF Inv, Durable
  <1> QED
    BY <1>1, Invariance, PTL

\* No volunteer holds a living outbound item that has no plan (ensure_plan
\* before the first PUT, cleanup of expired plans only).
THEOREM PlanCorrect == Spec => []PlanBeforeDial
  <1>1. Inv => PlanBeforeDial
    BY Zenon DEF Inv, Durable
  <1> QED
    BY <1>1, Invariance, PTL

\* A poll deletes a volunteer's copy only after the text was committed.
THEOREM CommitFirst == Spec => []DeletedOnlyAfterCommit
  <1>1. Inv => DeletedOnlyAfterCommit
    BY Zenon DEF Inv, Durable
  <1> QED
    BY <1>1, Invariance, PTL

\* The inbound records agree with the copies they name.
THEOREM RecordsCorrect == Spec => []RecordsMatchCopies
  <1>1. Inv => RecordsMatchCopies
    BY Zenon DEF Inv, Durable
  <1> QED
    BY <1>1, Invariance, PTL

\* The record of a commit is given up only for the record of its deletion, or
\* by the cleanup of an expired text.
THEOREM EvidenceCorrect == Spec => EvidenceIsKept
  <1> USE Zenon
  <1> DEFINE OnlyOwed == \A c \in commits \ commits' : c \in deletions' \/ c[1] \in expired
  <1>1. [Next]_vars => [OnlyOwed]_vars
    <2> SUFFICES ASSUME Next PROVE OnlyOwed
      OBVIOUS
    <2> USE DEF ledger, inbox, world
    <2>1. CASE replication_cleanup \/ \E offers \in SUBSET Stores : mark_attempt(offers)
      BY <2>1 DEF replication_cleanup, mark_attempt, Live
    <2>2. CASE \E c \in pending_inbound_deletes : resume_inbound_delete(c)
      BY <2>2 DEF resume_inbound_delete, MarkDeleted
    <2>3. CASE mark_inbound_deleted
      BY <2>3 DEF mark_inbound_deleted, MarkDeleted
    <2>4. CASE record_inbound_commit
      BY <2>4 DEF record_inbound_commit
    <2>5. CASE /\ ~replication_cleanup /\ ~mark_inbound_deleted /\ ~record_inbound_commit
               /\ ~\E c \in pending_inbound_deletes : resume_inbound_delete(c)
               /\ ~\E offers \in SUBSET Stores : mark_attempt(offers)
      <3>1. CASE Environment
        BY <3>1 DEF Environment, crash, tick, expire, peer_put, peer_delete, accept_locator,
                    retire_capability, import_offer
      <3>2. CASE Runtime
        BY <2>5, <3>2 DEF Runtime, attempt_runtime_mailbox_fallback, retry_pending_upload,
             resume_due_plan, attempt_runtime_mailbox_poll, upload_runtime_mailbox_request,
             mark_outbound_replicated, exact_commit_failed, mark_outbound_stored, https_put_refused,
             https_put_failed, attempt_not_due,
             record_receipt, put_failed, attempt_done, resume_failed, commit_runtime_mailbox_text,
             list_nothing, prepare_runtime_reverse_mailbox_acknowledgement, delete_failed,
             upload_reverse_acknowledgement
      <3> QED
        BY <3>1, <3>2 DEF Next
    <2> QED
      BY <2>1, <2>2, <2>3, <2>4, <2>5
  <1> QED
    BY <1>1, PTL DEF Spec, EvidenceIsKept
=============================================================================
