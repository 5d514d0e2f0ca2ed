------------------------- MODULE MailboxReplication -------------------------
(***************************************************************************)
(* The volunteer side of delayed delivery at one device: the replication    *)
(* ledger (crates/kilogram-mailbox-client/src/replication.rs) and the       *)
(* mailbox turns of the runtime that use it (apps/kilogram-cli/src/         *)
(* main.rs).  Outbound items are copied to volunteer stores until enough    *)
(* of them signed a receipt; inbound items are listed at the stores,        *)
(* committed, acknowledged and then deleted copy by copy.                   *)
(*                                                                         *)
(* The outbound cycle is one task, so one `task' describes it; each of its  *)
(* steps ends with one durable ledger transaction or one network exchange,  *)
(* and a crash between two of them loses the task and nothing else.         *)
(* A volunteer may be unreachable, may refuse, or may act and lose the      *)
(* answer: the steps choose.  Which offers the registry holds as active is  *)
(* chosen anew whenever it is read.                                         *)
(***************************************************************************)
EXTENDS Naturals, FiniteSets

CONSTANTS
    Texts,      \* outbound texts that fall back to the mailbox
    Inbound,    \* texts of the peer addressed to this device
    Ack,        \* Ack[m]: the reverse acknowledgement of the inbound text m
    Rank,       \* the order of the keys of the outbound items
    Stores,     \* store keys of the volunteers
    Transports, \* transport identities
    Offered,    \* the transport under which each volunteer is first offered
    Locator,    \* the authenticated replica set of the peer's mailbox
    OwnLocator, \* the authenticated replica set of this device's mailbox
    Https,      \* whether the capability has a service descriptor (v1) or not (v2)
    Targets,    \* DEFAULT_REPLICATION_TARGETS
    Required,   \* DEFAULT_REQUIRED_REPLICA_RECEIPTS
    Retry,      \* DEFAULT_REPLICATION_RETRY_SECONDS
    MaxFaults,  \* bound on crashes and on offers that change their transport
    None

Acks == {Ack[m] : m \in Inbound}
Outbound == Texts \cup Acks
Items == Outbound \cup Inbound

ASSUME ReplicationAssumption ==
    /\ IsFiniteSet(Stores) /\ Locator \subseteq Stores /\ OwnLocator \subseteq Stores
    /\ Targets \in Nat /\ Required \in Nat \ {0} /\ Retry \in Nat \ {0}
    /\ Required <= Cardinality(Locator)
    /\ Ack \in [Inbound -> Acks] /\ Outbound \cap Inbound = {} /\ Texts \cap Acks = {}
    /\ Rank \in [Outbound -> Nat]
    /\ Https \in BOOLEAN /\ Offered \in [Stores -> Transports] /\ MaxFaults \in Nat
    /\ None \notin Items \cup Stores \cup {"exact"}

VARIABLES
    pending,    \* PENDING_OUTBOUND_TABLE of the client ledger
    completed,  \* how an outbound item completed: STORED_OUTBOUND_TABLE
    plans,      \* PLAN_TABLE
    locators,   \* REPLICA_SET_LOCATOR_TABLE: the items whose plan has the locator
    receipts,   \* RECEIPT_TABLE: <<item, store, transport>>
    cooldown,   \* ATTEMPT_TABLE: the time left until an item may be tried again
    committed,  \* the inbound texts in the event store
    commits,    \* INBOUND_COMMIT_TABLE: <<item, store, transport>>
    deletions,  \* INBOUND_DELETED_TABLE
    located,    \* the update with the replica set has been accepted
    unbound,    \* the items whose capability is not the current one any more
    transport,  \* the transport identity in each volunteer's current offer
    held,       \* the copies that the volunteers hold: <<item, store>>
    gone,       \* the copies that they have tombstoned
    expired,    \* the items whose lifetime is over
    faults,     \* history: crashes and moved offers so far
    task        \* what the outbound cycle is doing

ledger == <<plans, locators, receipts, cooldown>>
inbox == <<committed, commits, deletions>>
world == <<located, unbound, transport, expired, faults>>
vars == <<pending, completed, ledger, inbox, world, held, gone, task>>

Steps == {"upload", "attempt", "put", "complete", "https", "poll", "list", "prepare", "record",
          "delete", "reverse"}
Idle == [step |-> "idle", item |-> None, bound |-> FALSE, exact |-> FALSE, origin |-> None,
         todo |-> {}, copy |-> None]
Goto(step) == task' = [task EXCEPT !.step = step]

Init ==
    /\ pending = {} /\ completed = [i \in Outbound |-> None]
    /\ plans = {} /\ locators = {} /\ receipts = {} /\ cooldown = [i \in Outbound |-> 0]
    /\ committed = {} /\ commits = {} /\ deletions = {}
    /\ located \in BOOLEAN /\ (~Https => located)
    /\ unbound = {} /\ transport = Offered
    /\ held = {} /\ gone = {} /\ faults = 0
    /\ expired \in SUBSET Items   \* items that are never sent
    /\ task = Idle
-----------------------------------------------------------------------------
(* The replication ledger: MailboxReplicationStatus, next_due, cleanup     *)

ReceiptsOf(i) == {r \in receipts : r[1] = i}

\* Mutant: receipts of stores outside the replica set qualify as well.
qualifying_receiptsOfAnyStore(i) == ReceiptsOf(i)

\* Once a plan has a locator, receipts of other stores do not qualify.
qualifying_receipts(i) == {r \in ReceiptsOf(i) : i \in locators => r[2] \in Locator}
is_satisfied(i) == Cardinality(qualifying_receipts(i)) >= Required

\* A plan or a locator that is there already is left as it is.
ensure_plan(retained, i) == retained \cup {i}
ensure_replica_set_locator(retained, i) == retained \cup {i}

\* next_due counts every retained receipt of a plan.
next_due == {i \in plans \ expired : /\ Cardinality(ReceiptsOf(i)) < Required
                                     /\ cooldown[i] = 0}

Live(records) == {r \in records : r[1] \notin expired}

\* Mutant: a plan is removed once it is satisfied.
replication_cleanupSatisfied ==
    /\ plans' = {i \in plans \ expired : ~is_satisfied(i)}
    /\ locators' = locators \ expired
    /\ receipts' = Live(receipts)
    /\ cooldown' = [i \in Outbound |-> IF i \in expired THEN 0 ELSE cooldown[i]]
    /\ commits' = Live(commits)
    /\ deletions' = Live(deletions)

\* The whole replication cleanup.
replication_cleanup ==
    /\ plans' = plans \ expired
    /\ locators' = locators \ expired
    /\ receipts' = Live(receipts)
    /\ cooldown' = [i \in Outbound |-> IF i \in expired THEN 0 ELSE cooldown[i]]
    /\ commits' = Live(commits)
    /\ deletions' = Live(deletions)
-----------------------------------------------------------------------------
(* A mailbox turn: attempt_pending_runtime_mailbox_upload                  *)

\* PreparedRuntimeMailboxUpload: whether there is a replication binding, and a replica set.
Upload(i, bound) ==
    [Idle EXCEPT !.step = "upload", !.item = i, !.bound = bound, !.exact = located]
Attempt(i, origin) == [Idle EXCEPT !.step = "attempt", !.item = i, !.origin = origin]

\* Mutant: an item with a plan is left to the plan.
FirstPendingWithoutPlan(i) ==
    i \in pending \ (expired \cup plans) /\ \A j \in pending \ expired : Rank[i] <= Rank[j]

FirstPending(i) == i \in pending \ expired /\ \A j \in pending \ expired : Rank[i] <= Rank[j]

\* The live route failed: the dispatch and the pending upload are durable, and the upload starts.
attempt_runtime_mailbox_fallback(t) ==
    /\ task = Idle
    /\ t \notin pending \cup plans \cup expired /\ completed[t] = None
    /\ pending' = pending \cup {t}
    /\ task' = Upload(t, TRUE)
    /\ UNCHANGED <<completed, ledger, inbox, world, held, gone>>

\* The first pending upload is retried.  Only a text has a dispatch, and with it a binding.
\* Without a current capability for its mailbox and its store the turn ends in an error, and
\* the upload stays first.
retry_pending_upload(i) ==
    /\ task = Idle
    /\ FirstPending(i)
    /\ pending' = pending \ expired
    /\ task' = IF i \in unbound THEN Idle ELSE Upload(i, i \in Texts)
    /\ UNCHANGED <<completed, ledger, inbox, world, held, gone>>

\* Nothing is pending: one plan that is due is tried instead of a poll.
resume_due_plan(i) ==
    /\ task = Idle
    /\ pending \subseteq expired
    /\ i \in next_due
    /\ pending' = {}
    /\ replication_cleanup
    /\ task' = Attempt(i, "plan")
    /\ UNCHANGED <<completed, committed, world, held, gone>>

\* Nothing is pending and nothing is due: the turn polls, with the offers that are active now.
attempt_runtime_mailbox_poll ==
    /\ task = Idle
    /\ pending \subseteq expired
    /\ next_due = {}
    /\ pending' = {}
    /\ replication_cleanup
    /\ task' = [Idle EXCEPT !.step = "poll",
                           !.todo = {<<s, transport[s]>> : s \in OwnLocator}]
    /\ UNCHANGED <<completed, committed, world, held, gone>>
-----------------------------------------------------------------------------
(* upload_runtime_mailbox_request                                          *)

\* An item with a binding gets its plan and, where there is one, its locator first.
upload_runtime_mailbox_request ==
    /\ task.step = "upload"
    /\ \/ /\ task.bound /\ task.item \notin expired
          /\ plans' = ensure_plan(plans, task.item)
          /\ locators' = IF task.exact THEN ensure_replica_set_locator(locators, task.item)
                         ELSE locators
          /\ task' = IF task.exact
                     THEN Attempt(task.item, "upload")
                     ELSE [task EXCEPT !.step = "https"]
       \/ /\ task.bound /\ task.item \in expired
          /\ task' = Idle
          /\ UNCHANGED <<plans, locators>>
       \/ /\ ~task.bound
          /\ Goto("https")
          /\ UNCHANGED <<plans, locators>>
    /\ UNCHANGED <<pending, completed, receipts, cooldown, inbox, world, held, gone>>

\* mark_outbound_replicated: the completion replaces the pending upload in one transaction.
mark_outbound_replicated ==
    /\ task.step = "complete" /\ task.item \notin expired
    /\ completed' = [completed EXCEPT ![task.item] = "exact"]
    /\ pending' = pending \ {task.item}
    /\ task' = Idle
    /\ UNCHANGED <<ledger, inbox, world, held, gone>>

\* The record of an item that has expired since is refused; HTTPS is next.
exact_commit_failed ==
    /\ task.step = "complete" /\ task.item \in expired
    /\ Goto("https")
    /\ UNCHANGED <<pending, completed, ledger, inbox, world, held, gone>>

\* mark_outbound_stored, after the HTTPS store of a v1 capability accepted the PUT.
mark_outbound_stored ==
    /\ task.step = "https"
    /\ Https
    /\ completed' = [completed EXCEPT ![task.item] = "https"]
    /\ pending' = pending \ {task.item}
    /\ task' = Idle
    /\ UNCHANGED <<ledger, inbox, world, held, gone>>

\* The store answered with a refusal, which no repetition changes: the item is tombstoned, is in
\* conflict or exceeds a capacity.  It is no proof of storage, and volunteers are not tried.
https_put_refused ==
    /\ task.step = "https"
    /\ Https
    /\ task' = Idle
    /\ UNCHANGED <<pending, completed, ledger, inbox, world, held, gone>>

\* No descriptor, or the exchange failed: volunteers are tried once if they were not yet.
https_put_failed ==
    /\ task.step = "https"
    /\ task' = IF Https /\ task.bound THEN Attempt(task.item, "fallback") ELSE Idle
    /\ UNCHANGED <<pending, completed, ledger, inbox, world, held, gone>>
-----------------------------------------------------------------------------
(* attempt_runtime_volunteer_mailbox_replication                           *)

\* How an attempt that returned ok continues in its caller.
AfterAttempt(ok) ==
    IF task.origin # "upload" THEN Idle
    ELSE IF ok THEN [task EXCEPT !.step = "complete", !.todo = {}]
    ELSE [task EXCEPT !.step = "https", !.todo = {}]

\* Which offers are active is open; those of the locator's stores are all taken.
active_offers_for_store_keys(offers) == offers \subseteq Locator

\* A selection has one spare offer and distinct transports.
select_from_active_offers(offers) ==
    /\ Cardinality(offers) <= Targets + 1
    /\ \A s, u \in offers : transport[s] = transport[u] => s = u

Selection(i, offers) ==
    \/ i \in locators /\ active_offers_for_store_keys(offers)
    \/ i \notin locators /\ select_from_active_offers(offers)

\* The stores and the transports of the receipts that are retained are passed over.
Candidates(i, offers) ==
    {s \in offers : \A r \in ReceiptsOf(i) : r[2] # s /\ r[3] # transport[s]}

\* Cleanup, then the plan: an expired item has none, and one that is satisfied or cooling down
\* is not tried.
attempt_not_due ==
    /\ task.step = "attempt"
    /\ replication_cleanup
    /\ \/ task.item \in expired
       \/ is_satisfied(task.item)
       \/ cooldown[task.item] > 0
    /\ task' = AfterAttempt(task.item \notin expired /\ is_satisfied(task.item))
    /\ UNCHANGED <<pending, completed, committed, world, held, gone>>

\* mark_attempt, and the selection of providers.
mark_attempt(offers) ==
    /\ task.step = "attempt"
    /\ LET i == task.item IN
           /\ i \notin expired /\ ~is_satisfied(i) /\ cooldown[i] = 0
           /\ Selection(i, offers)
           /\ plans' = ensure_plan(plans \ expired, i)
           /\ locators' = locators \ expired
           /\ receipts' = Live(receipts)
           /\ cooldown' = [j \in Outbound |-> IF j = i THEN Retry
                                             ELSE IF j \in expired THEN 0 ELSE cooldown[j]]
           /\ commits' = Live(commits) /\ deletions' = Live(deletions)
           /\ task' = [task EXCEPT !.step = "put",
                                 !.todo = {<<s, transport[s]>> : s \in Candidates(i, offers)}]
    /\ UNCHANGED <<pending, completed, committed, world, held, gone>>

MorePuts == task.todo # {} /\ Cardinality(qualifying_receipts(task.item)) < Targets
Accepts(s) == <<task.item, s>> \notin gone /\ task.item \notin expired

\* Mutant: a second receipt of one transport is recorded.
record_receiptOfAnyTransport(s, p) ==
    /\ task.step = "put" /\ MorePuts
    /\ <<s, p>> \in task.todo /\ Accepts(s)
    /\ held' = held \cup {<<task.item, s>>}
    /\ receipts' = receipts \cup {<<task.item, s, p>>}
    /\ task' = [task EXCEPT !.todo = @ \ {<<s, p>>}]
    /\ UNCHANGED <<pending, completed, plans, locators, cooldown, inbox, world, gone>>

\* The volunteer stored the item and its receipt arrived.  A second receipt of one transport is
\* refused, and the refusal ends the attempt.
record_receipt(s, p) ==
    /\ task.step = "put" /\ MorePuts
    /\ <<s, p>> \in task.todo /\ Accepts(s)
    /\ held' = held \cup {<<task.item, s>>}
    /\ IF \E r \in ReceiptsOf(task.item) : r[3] = p
       THEN receipts' = receipts /\ task' = AfterAttempt(FALSE)
       ELSE /\ receipts' = receipts \cup {<<task.item, s, p>>}
            /\ task' = [task EXCEPT !.todo = @ \ {<<s, p>>}]
    /\ UNCHANGED <<pending, completed, plans, locators, cooldown, inbox, world, gone>>

\* The provider was not reached, refused, or its answer was lost after it stored the item.
put_failed(s, p) ==
    /\ task.step = "put" /\ MorePuts
    /\ <<s, p>> \in task.todo
    /\ \/ held' = held
       \/ Accepts(s) /\ held' = held \cup {<<task.item, s>>}
    /\ task' = [task EXCEPT !.todo = @ \ {<<s, p>>}]
    /\ UNCHANGED <<pending, completed, ledger, inbox, world, gone>>

attempt_done ==
    /\ task.step = "put" /\ ~MorePuts
    /\ task' = AfterAttempt(is_satisfied(task.item))
    /\ UNCHANGED <<pending, completed, ledger, inbox, world, held, gone>>
-----------------------------------------------------------------------------
(* attempt_runtime_volunteer_mailbox_poll                                  *)

\* A volunteer's answer to a DELETE that names the copy it stored.
Delete(i, s) == held' = held \ {<<i, s>>} /\ gone' = gone \cup {<<i, s>>}
MarkDeleted(c) == commits' = commits \ {c} /\ deletions' = deletions \cup {c}

\* The deletions still owed whose volunteer is offered as it was when the copy was read.
pending_inbound_deletes == {c \in commits : <<c[2], c[3]>> \in task.todo}

\* One that an earlier poll left open is resumed.
resume_inbound_delete(c) ==
    /\ task.step = "poll"
    /\ c \in pending_inbound_deletes
    /\ Delete(c[1], c[2])
    /\ MarkDeleted(c)
    /\ task' = Idle
    /\ UNCHANGED <<pending, completed, ledger, committed, world>>

\* There is none that can be resumed, or its DELETE failed, perhaps after it took effect.
resume_failed ==
    /\ task.step = "poll"
    /\ \/ UNCHANGED <<held, gone>>
       \/ \E c \in pending_inbound_deletes : Delete(c[1], c[2])
    /\ Goto("list")
    /\ UNCHANGED <<pending, completed, ledger, inbox, world>>

\* Mutant: the poll goes on when the application transaction has failed.
commit_runtime_mailbox_textIgnoresError(m, s, p) ==
    /\ task.step = "list"
    /\ <<s, p>> \in task.todo
    /\ <<m, s>> \in held /\ m \in Inbound \ expired
    /\ committed' \in {committed, committed \cup {m}}
    /\ task' = [task EXCEPT !.step = "prepare", !.item = m, !.copy = <<m, s, p>>, !.todo = {}]
    /\ UNCHANGED <<pending, completed, ledger, commits, deletions, world, held, gone>>

\* Mutant: a text that is committed already is passed over.
commit_runtime_mailbox_textOnce(m, s, p) ==
    /\ m \notin committed
    /\ task.step = "list"
    /\ <<s, p>> \in task.todo
    /\ <<m, s>> \in held /\ m \in Inbound \ expired
    /\ committed' = committed \cup {m}
    /\ task' = [task EXCEPT !.step = "prepare", !.item = m, !.copy = <<m, s, p>>, !.todo = {}]
    /\ UNCHANGED <<pending, completed, ledger, commits, deletions, world, held, gone>>

\* The first item of the first page to arrive is opened and committed with its acknowledgement.
commit_runtime_mailbox_text(m, s, p) ==
    /\ task.step = "list"
    /\ <<s, p>> \in task.todo
    /\ <<m, s>> \in held /\ m \in Inbound \ expired
    /\ committed' = committed \cup {m}
    /\ task' = [task EXCEPT !.step = "prepare", !.item = m, !.copy = <<m, s, p>>, !.todo = {}]
    /\ UNCHANGED <<pending, completed, ledger, commits, deletions, world, held, gone>>

list_nothing ==
    /\ task.step = "list"
    /\ task' = Idle
    /\ UNCHANGED <<pending, completed, ledger, inbox, world, held, gone>>

\* The acknowledgement is enqueued unless it is complete; that it cannot be is tolerated.
prepare_runtime_reverse_mailbox_acknowledgement ==
    /\ task.step = "prepare"
    /\ LET a == Ack[task.item] IN
           \/ /\ completed[a] = None /\ a \notin expired
              /\ pending' = pending \cup {a}
              /\ task' = [task EXCEPT !.step = "record", !.bound = TRUE, !.exact = located]
           \/ pending' = pending /\ Goto("record")
    /\ UNCHANGED <<completed, ledger, inbox, world, held, gone>>

\* A replay must name the same transport; a copy whose deletion is recorded cannot be deleted
\* again, and either ends the poll.
record_inbound_commit ==
    /\ task.step = "record"
    /\ LET c == task.copy
           known == {d \in commits \cup deletions : d[1] = c[1] /\ d[2] = c[2]}
       IN  \/ /\ known \subseteq {c} \cap commits
              /\ commits' = commits \cup {c}
              /\ Goto("delete")
           \/ /\ ~(known \subseteq {c} \cap commits)
              /\ commits' = commits
              /\ task' = Idle
    /\ UNCHANGED <<pending, completed, ledger, committed, deletions, world, held, gone>>

\* The DELETE, then the reverse acknowledgement if one was enqueued.
AfterDelete == IF task.bound THEN [task EXCEPT !.step = "reverse"] ELSE Idle

mark_inbound_deleted ==
    /\ task.step = "delete"
    /\ Delete(task.copy[1], task.copy[2])
    /\ MarkDeleted(task.copy)
    /\ task' = AfterDelete
    /\ UNCHANGED <<pending, completed, ledger, committed, world>>

\* Mutant: the deletion is recorded whatever the answer was.
delete_failedRecorded ==
    /\ task.step = "delete"
    /\ UNCHANGED <<held, gone>> \/ Delete(task.copy[1], task.copy[2])
    /\ MarkDeleted(task.copy)
    /\ task' = AfterDelete
    /\ UNCHANGED <<pending, completed, ledger, committed, world>>

\* Mutant: a failed deletion drops the commit record.
delete_failedForgets ==
    /\ task.step = "delete"
    /\ UNCHANGED <<held, gone>> \/ Delete(task.copy[1], task.copy[2])
    /\ commits' = commits \ {task.copy}
    /\ task' = AfterDelete
    /\ UNCHANGED <<pending, completed, ledger, committed, deletions, world>>

delete_failed ==
    /\ task.step = "delete"
    /\ UNCHANGED <<held, gone>> \/ Delete(task.copy[1], task.copy[2])
    /\ task' = AfterDelete
    /\ UNCHANGED <<pending, completed, ledger, inbox, world>>

\* The first upload of an acknowledgement has a binding if there is a locator.
upload_reverse_acknowledgement ==
    /\ task.step = "reverse"
    /\ task' = [Upload(Ack[task.item], task.exact) EXCEPT !.exact = task.exact]
    /\ UNCHANGED <<pending, completed, ledger, inbox, world, held, gone>>
-----------------------------------------------------------------------------
(* Faults, time, and the peer                                              *)

crash ==
    /\ task # Idle /\ faults < MaxFaults
    /\ task' = Idle
    /\ faults' = faults + 1
    /\ UNCHANGED <<pending, completed, ledger, inbox, located, unbound, transport, expired, held, gone>>

tick ==
    /\ \E i \in Outbound : cooldown[i] > 0
    /\ cooldown' = [i \in Outbound |-> IF cooldown[i] > 0 THEN cooldown[i] - 1 ELSE 0]
    /\ UNCHANGED <<pending, completed, plans, locators, receipts, inbox, world, held, gone, task>>

expire(i) ==
    /\ i \notin expired
    /\ expired' = expired \cup {i}
    /\ UNCHANGED <<pending, completed, ledger, inbox, located, unbound, transport, faults, held,
                   gone, task>>

\* The peer replicates a text to a volunteer.
peer_put(m, s) ==
    /\ m \in Inbound \ expired /\ s \in OwnLocator
    /\ <<m, s>> \notin held \cup gone
    /\ held' = held \cup {<<m, s>>}
    /\ UNCHANGED <<pending, completed, ledger, inbox, world, gone, task>>

\* The peer read an outbound item at a volunteer and deletes the copy.
peer_delete(i, s) ==
    /\ i \in Outbound /\ <<i, s>> \in held
    /\ Delete(i, s)
    /\ UNCHANGED <<pending, completed, ledger, inbox, world, task>>

\* A capability update with the replica set is accepted.
accept_locator ==
    /\ ~located
    /\ located' = TRUE
    /\ UNCHANGED <<pending, completed, ledger, inbox, unbound, transport, expired, faults, held,
                   gone, task>>

\* The peer's capability is rotated or revoked: the items that wait are bound to the old one.
retire_capability ==
    /\ pending \ unbound # {}
    /\ unbound' = unbound \cup pending
    /\ UNCHANGED <<pending, completed, ledger, inbox, located, transport, expired, faults, held,
                   gone, task>>

\* A newer offer of a volunteer names another transport.
import_offer(s, t) ==
    /\ faults < MaxFaults /\ t # transport[s]
    /\ transport' = [transport EXCEPT ![s] = t]
    /\ faults' = faults + 1
    /\ UNCHANGED <<pending, completed, ledger, inbox, located, unbound, expired, held, gone, task>>

Runtime ==
    \/ \E t \in Texts : attempt_runtime_mailbox_fallback(t)
    \/ \E i \in Outbound : retry_pending_upload(i) \/ resume_due_plan(i)
    \/ attempt_runtime_mailbox_poll
    \/ upload_runtime_mailbox_request
    \/ mark_outbound_replicated \/ exact_commit_failed
    \/ mark_outbound_stored \/ https_put_refused \/ https_put_failed
    \/ attempt_not_due
    \/ \E offers \in SUBSET Stores : mark_attempt(offers)
    \/ \E s \in Stores, p \in Transports : record_receipt(s, p) \/ put_failed(s, p)
    \/ attempt_done
    \/ \E c \in pending_inbound_deletes : resume_inbound_delete(c)
    \/ resume_failed
    \/ \E m \in Inbound, s \in Stores, p \in Transports : commit_runtime_mailbox_text(m, s, p)
    \/ list_nothing
    \/ prepare_runtime_reverse_mailbox_acknowledgement
    \/ record_inbound_commit
    \/ mark_inbound_deleted
    \/ delete_failed
    \/ upload_reverse_acknowledgement

Environment ==
    \/ crash
    \/ tick
    \/ \E i \in Items : expire(i)
    \/ \E i \in Items, s \in Stores : peer_put(i, s) \/ peer_delete(i, s)
    \/ accept_locator
    \/ retire_capability
    \/ \E s \in Stores, t \in Transports : import_offer(s, t)

Next == Runtime \/ Environment
Spec == Init /\ [][Next]_vars

\* The scheduler keeps taking turns, time passes, and a poll that is tried again and again reads
\* and deletes at a volunteer at last.  No upload need ever succeed.
Fairness ==
    /\ WF_vars(Runtime)
    /\ WF_vars(tick)
    /\ SF_vars(attempt_runtime_mailbox_poll)
    /\ SF_vars(mark_inbound_deleted)
    /\ \A m \in Inbound, s \in OwnLocator :
           SF_vars(\E p \in Transports : commit_runtime_mailbox_text(m, s, p))
FairSpec == Spec /\ Fairness
-----------------------------------------------------------------------------
(* Properties                                                              *)

Copies == Items \X Stores
Records == Items \X Stores \X Transports

\* The ledgers, the volunteers and the task have their shapes.
TypeOK ==
    /\ pending \subseteq Outbound /\ completed \in [Outbound -> {None, "exact", "https"}]
    /\ plans \subseteq Outbound /\ locators \subseteq Outbound /\ receipts \subseteq Records
    /\ cooldown \in [Outbound -> 0..Retry]
    /\ committed \subseteq Inbound /\ commits \subseteq Records /\ deletions \subseteq Records
    /\ located \in BOOLEAN /\ unbound \subseteq Outbound /\ transport \in [Stores -> Transports]
    /\ held \subseteq Copies /\ gone \subseteq Copies
    /\ expired \subseteq Items /\ faults \in 0..MaxFaults
    /\ task \in [step : Steps \cup {"idle"}, item : Items \cup {None}, bound : BOOLEAN,
                 exact : BOOLEAN, origin : {None, "upload", "plan", "fallback"},
                 todo : SUBSET (Stores \X Transports), copy : Records \cup {None}]

\* The HTTPS copy of an item is suppressed only when enough volunteers of the authenticated
\* replica set accepted the item under different transports: receipts of an earlier selection
\* outside the set, and a volunteer that is offered twice, do not count.
ExactMeansReplicated ==
    \A i \in Outbound : completed[i] = "exact" =>
        Cardinality({s \in Locator : <<i, s>> \in held \cup gone}) >= Required

\* No two retained receipts of an item come from one transport, whatever the offers were when
\* they were recorded; otherwise every inspection of the ledger fails (next_due).
ReceiptsAreIndependent ==
    \A r, q \in receipts : r[1] = q[1] /\ r[3] = q[3] => r = q

\* A copy exists at a volunteer only after the plan that can resume it was committed, and the
\* plan stays as long as the item lives.
PlanBeforeDial ==
    \A c \in held \cup gone : c[1] \in Outbound \ expired => c[1] \in plans

\* A volunteer's copy is deleted only after the text in it was committed with its
\* acknowledgement, whatever crashes and lost answers came between.
DeletedOnlyAfterCommit == \A c \in gone : c[1] \in Inbound => c[1] \in committed

\* The ledger holds a copy as deleted only if the volunteer has deleted it, and the evidence
\* for one copy never stands in for another: each record names a copy that was there.
RecordsMatchCopies ==
    /\ \A d \in deletions : <<d[1], d[2]>> \in gone
    /\ \A c \in commits : <<c[1], c[2]>> \in held \cup gone /\ c[1] \in committed

\* The evidence for a deletion still owed is given up only when the volunteer proved the
\* deletion or the text expired.
EvidenceIsKept ==
    [][\A c \in commits \ commits' : c \in deletions' \/ c[1] \in expired]_vars

\* A copy of a committed text is deleted at the volunteer in the end, although the answer to
\* the first DELETE may be lost and the device may crash before it; provided that the turns are
\* not all taken by uploads and plans, and that the volunteer's offer did not move to another
\* transport between the commit and the deletion.
PollIsNext == task = Idle /\ pending \subseteq expired /\ next_due = {}
MovedSince(m, s) == \E c \in commits : c[1] = m /\ c[2] = s /\ c[3] # transport[s]
EveryCopyDeleted ==
    []<>PollIsNext =>
        \A m \in Inbound, s \in OwnLocator :
            []<>(\/ m \notin committed \/ <<m, s>> \notin held
                 \/ m \in expired \/ MovedSince(m, s))

\* An item that waits for its upload is tried again and again, whatever the stores answer, as
\* long as it lives, its capability is current and it is the first; and one that has expired
\* leaves the pending table, also when the turns before that all ended in errors.
Waits(i) == i \in unbound \/ \E j \in pending \ expired : Rank[j] < Rank[i]
EveryUploadIsTriedOrEnds ==
    \A i \in Outbound :
        []<>(\/ i \notin pending
             \/ i \notin expired /\ (Waits(i) \/ (task.item = i /\ task.step = "upload")))

\* An item of a service-free capability that stays pending is taken to the volunteers again, as
\* long as the capability is current.
PendingIsRetried ==
    \A i \in Outbound :
        (i \in pending /\ task = Idle) ~> (\/ i \notin pending \ expired \/ i \in unbound
                                          \/ (task.item = i /\ task.step \in {"attempt", "put"}))
=============================================================================
