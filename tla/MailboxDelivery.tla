-------------------------- MODULE MailboxDelivery ---------------------------
(***************************************************************************)
(* Delayed delivery of text messages from device "a" to device "b" through  *)
(* the blind mailbox store, and of the acknowledgements back: the runtime   *)
(* actors of both devices (the mailbox part of apps/kilogram-cli/src/       *)
(* main.rs), their client ledgers (crates/kilogram-mailbox-client/src/      *)
(* ledger.rs), the HTTPS requests between them and the store, which is      *)
(* MailboxStore.                                                            *)
(*                                                                         *)
(* Both capabilities are HTTPS bindings.  A request may be processed long   *)
(* after its sender gave up, or never.  What an actor holds outside its     *)
(* ledger and its event store is lost when a crash, a timeout or a lost     *)
(* answer interrupts it: all three are Interrupt.                           *)
(***************************************************************************)
EXTENDS Naturals, FiniteSets

CONSTANTS
    NumTexts,       \* the queued messages are 1..NumTexts, in the order of their keys
    Ttl,            \* DEFAULT_RUNTIME_MAILBOX_TTL_SECONDS
    None,
    Interruptible,  \* the places at which an actor may be interrupted
    MaxFaults,      \* bound on interruptions, lost requests and restarts of the store
    MaxSeals,       \* bound on how often one item is encrypted
    MaxClock,
    Lag             \* how far the store's time may be behind the devices'

Texts == 1..NumTexts
Devices == {"a", "b"}
Peer(d) == IF d = "a" THEN "b" ELSE "a"
Envelopes == [expires : 0..(MaxClock + Ttl), seal : 1..MaxSeals]

ASSUME BoundsAssumption == /\ NumTexts \in Nat /\ Ttl \in Nat \ {0}
                           /\ MaxFaults \in Nat /\ MaxSeals \in Nat /\ MaxClock \in Nat
                           /\ Lag \in Nat
ASSUME NoneAssumption == /\ None \notin [key : Devices \X Texts, envelope : Envelopes,
                                          storedAt : Nat, expires : Nat]
                         /\ None \notin Envelopes /\ None \notin 0..(MaxClock + Ttl)

VARIABLES
    clock, items, tombstones, totalItems, totalBytes, mailboxCount, deletes, serving,
    accepted, proven,   \* the store
    wire,               \* requests that the store may still process
    dispatch,           \* device a: when the signed dispatch of a text expires, or None
    received,           \* device b: the texts committed with their projection and acknowledgement
    delivered,          \* device a: the texts with a delivered marker
    pending,            \* the ledgers, by key: PENDING_OUTBOUND_TABLE
    outStored,          \* STORED_OUTBOUND_TABLE
    inCommitted,        \* INBOUND_COMMIT_TABLE
    inDeleted,          \* DELETED_INBOUND_TABLE
    pc,                 \* what each actor is doing
    seals,              \* history: how often each item was encrypted
    gone,               \* history: the keys whose deletion was proven
    faults              \* history: faults so far

Store == INSTANCE MailboxStore
    WITH Mailboxes <- Devices, Items <- Texts, Size <- [e \in Envelopes |-> 1], Ttls <- {Ttl},
         MaxItemsPerMailbox <- NumTexts, MaxTotalItems <- 2 * NumTexts,
         MaxTotalBytes <- 2 * NumTexts

Keys == Store!Keys
Outbox(d) == {k \in Keys : k[1] = Peer(d)}
Inbox(d) == {k \in Keys : k[1] = d}

store == <<clock, items, tombstones, totalItems, totalBytes, mailboxCount, deletes, serving,
           accepted, proven>>
ledgers == <<pending, outStored, inCommitted, inDeleted>>
events == <<dispatch, received, delivered>>
history == <<seals, gone, faults>>
vars == <<store, wire, events, ledgers, pc, history>>

Idle == [at |-> "idle", key |-> None, receipt |-> None, reply |-> None]
At(place, k, r) == [at |-> place, key |-> k, receipt |-> r, reply |-> None]
Becomes(d, state) == pc' = [pc EXCEPT ![d] = state]

Init ==
    /\ Store!Init
    /\ wire = {}
    /\ dispatch = [t \in Texts |-> None]
    /\ received = {} /\ delivered = {}
    /\ pending = [k \in Keys |-> None] /\ outStored = [k \in Keys |-> None]
    /\ inCommitted = [k \in Keys |-> None] /\ inDeleted = [k \in Keys |-> None]
    /\ pc = [d \in Devices |-> Idle]
    /\ seals = [k \in Keys |-> 0]
    /\ gone = {}
    /\ faults = 0

First(K) == {k \in K : \A j \in K : k[2] <= j[2]}
Waiting(d) == {k \in Outbox(d) : pending[k] # None}
Eligible(d) == {k \in Inbox(d) : inCommitted[k] # None}
Put(k, e) == [op |-> "put", key |-> k, envelope |-> e]
Erase(r) == [op |-> "delete", receipt |-> r]
-----------------------------------------------------------------------------
(* Outbound: attempt_runtime_mailbox_fallback, prepare_orphan_..., and     *)
(* attempt_pending_runtime_mailbox_upload                                  *)

\* The live route has failed: the signed dispatch is committed to the runtime state.
attempt_runtime_mailbox_fallback(t) ==
    /\ pc["a"] = Idle
    /\ dispatch[t] = None
    /\ dispatch' = [dispatch EXCEPT ![t] = clock + Ttl]
    /\ Becomes("a", At("dispatched", <<"b", t>>, None))
    /\ UNCHANGED <<store, wire, received, delivered, ledgers, history>>

\* MailboxEnvelope::seal, enqueue_outbound and the PUT of upload_runtime_mailbox_request.
SealAndUpload(d, k, expires) ==
    /\ seals[k] < MaxSeals
    /\ seals' = [seals EXCEPT ![k] = @ + 1]
    /\ pending' = [pending EXCEPT ![k] = [expires |-> expires, seal |-> seals'[k]]]
    /\ wire' = wire \cup {Put(k, pending'[k])}
    /\ Becomes(d, At("put", k, None))

enqueue_outbound ==
    /\ pc["a"].at = "dispatched"
    /\ SealAndUpload("a", pc["a"].key, dispatch[pc["a"].key[2]])
    /\ UNCHANGED <<store, events, outStored, inCommitted, inDeleted, gone, faults>>

\* cleanup_required of inspect_read_only, and cleanup.
LedgerLive(r) == r # None => r.expires > clock
cleanup_required(d) ==
    \/ \E k \in Outbox(d) : ~LedgerLive(pending[k]) \/ ~LedgerLive(outStored[k])
    \/ \E k \in Inbox(d) : ~LedgerLive(inCommitted[k]) \/ ~LedgerLive(inDeleted[k])
Cleaned(table, K) == [k \in Keys |-> IF k \in K /\ ~LedgerLive(table[k]) THEN None ELSE table[k]]

ledger_cleanup(d) ==
    /\ pc[d] = Idle
    /\ cleanup_required(d)
    /\ pending' = Cleaned(pending, Outbox(d))
    /\ outStored' = Cleaned(outStored, Outbox(d))
    /\ inCommitted' = Cleaned(inCommitted, Inbox(d))
    /\ inDeleted' = Cleaned(inDeleted, Inbox(d))
    /\ UNCHANGED <<store, wire, events, pc, history>>

\* Only the first pending upload is tried.
attempt_pending_runtime_mailbox_upload(d) ==
    /\ pc[d] = Idle
    /\ ~cleanup_required(d)
    /\ \E k \in First(Waiting(d)) : /\ wire' = wire \cup {Put(k, pending[k])}
                                    /\ Becomes(d, At("put", k, None))
    /\ UNCHANGED <<store, events, ledgers, history>>

\* Mutant: a dispatch whose upload was stored is repaired too.
OrphansStoredToo == {k \in Outbox("a") : /\ dispatch[k[2]] # None
                                         /\ dispatch[k[2]] > clock
                                         /\ pending[k] = None}

\* Mutant: a dispatch without an upload is not repaired.
OrphansIgnored == {}

Orphans == {k \in Outbox("a") : /\ dispatch[k[2]] # None
                                /\ dispatch[k[2]] > clock
                                /\ pending[k] = None /\ outStored[k] = None}

prepare_orphan_runtime_mailbox_dispatch ==
    /\ pc["a"] = Idle
    /\ ~cleanup_required("a")
    /\ Waiting("a") = {}
    /\ \E k \in First(Orphans) : SealAndUpload("a", k, dispatch[k[2]])
    /\ UNCHANGED <<store, events, outStored, inCommitted, inDeleted, gone, faults>>

\* Only a signed receipt completes an upload; any other answer leaves it pending.
mark_outbound_stored(d) ==
    /\ pc[d].at = "put" /\ pc[d].reply # None
    /\ IF pc[d].reply \in {"Created", "AlreadyPresent"}
       THEN /\ pending' = [pending EXCEPT ![pc[d].key] = None]
            /\ outStored' = [outStored EXCEPT ![pc[d].key] = pc[d].receipt]
       ELSE UNCHANGED <<pending, outStored>>
    /\ Becomes(d, Idle)
    /\ UNCHANGED <<store, wire, events, inCommitted, inDeleted, history>>
-----------------------------------------------------------------------------
(* Inbound: attempt_runtime_mailbox_poll, which runs only when no upload   *)
(* was pending a moment ago                                                *)

PollDue(d) == /\ pc[d] = Idle
              /\ ~cleanup_required(d)
              /\ Waiting(d) = {}
              /\ d = "a" => Orphans = {}

\* The scheduler starts a poll; the poll looks at the ledger and at the mailbox later.
attempt_runtime_mailbox_poll(d) ==
    /\ PollDue(d)
    /\ Becomes(d, At("poll", None, None))
    /\ UNCHANGED <<store, wire, events, ledgers, history>>

poll_pending_delete(d) ==
    /\ pc[d].at = "poll"
    /\ \E k \in First(Eligible(d)) : /\ wire' = wire \cup {Erase(inCommitted[k])}
                                     /\ Becomes(d, At("redelete", k, inCommitted[k]))
    /\ UNCHANGED <<store, events, ledgers, history>>

\* Mutant: the mailbox is listed although a delete is still owed.
poll_listBeforeDelete(d) ==
    /\ pc[d].at = "poll"
    /\ \E now \in Store!Times : Store!CleanupEffect(now)
    /\ LET page == {k \in Inbox(d) : items'[k] # None} IN
           \/ page = {} /\ Becomes(d, Idle)
           \/ \E k \in First(page) : Becomes(d, At("listed", k, items'[k]))
    /\ UNCHANGED <<clock, deletes, serving, accepted, proven, wire, events, ledgers, history>>

\* The page is never empty while an item is alive; its first item is the one taken.
poll_list(d) ==
    /\ pc[d].at = "poll"
    /\ Eligible(d) = {}
    /\ \E now \in Store!Times : Store!CleanupEffect(now)
    /\ LET page == {k \in Inbox(d) : items'[k] # None} IN
           \/ page = {} /\ Becomes(d, Idle)
           \/ \E k \in First(page) : Becomes(d, At("listed", k, items'[k]))
    /\ UNCHANGED <<clock, deletes, serving, accepted, proven, wire, events, ledgers, history>>

\* prepare_inbound: the envelope is opened before the application sees it.
Opened(d) == pc[d].at = "listed" /\ pc[d].receipt.envelope.expires > clock

\* An envelope that has expired ends the poll with an error, and stays in the mailbox.
prepare_inbound_fails(d) ==
    /\ pc[d].at = "listed"
    /\ ~Opened(d)
    /\ Becomes(d, Idle)
    /\ UNCHANGED <<store, wire, events, ledgers, history>>

\* Mutant: the poll goes on when the application transaction has failed.
commit_runtime_mailbox_textIgnoresError ==
    /\ Opened("b")
    /\ received' \in {received, received \cup {pc["b"].key[2]}}
    /\ Becomes("b", [pc["b"] EXCEPT !.at = "ingested"])
    /\ UNCHANGED <<store, wire, dispatch, delivered, ledgers, history>>

\* The event, its projection and its acknowledgement, in one transaction; nothing when the
\* acknowledgement is already in the event store.
commit_runtime_mailbox_text ==
    /\ Opened("b")
    /\ received' = received \cup {pc["b"].key[2]}
    /\ Becomes("b", [pc["b"] EXCEPT !.at = "ingested"])
    /\ UNCHANGED <<store, wire, dispatch, delivered, ledgers, history>>

\* The acknowledgement and the delivered marker, in one transaction.
commit_runtime_mailbox_acknowledgement ==
    /\ Opened("a")
    /\ delivered' = delivered \cup {pc["a"].key[2]}
    /\ Becomes("a", [pc["a"] EXCEPT !.at = "prepared"])
    /\ UNCHANGED <<store, wire, dispatch, received, ledgers, history>>

\* The acknowledgement is sealed once and kept until it is stored.
prepare_runtime_reverse_mailbox_acknowledgement ==
    /\ pc["b"].at = "ingested"
    /\ LET k == <<"a", pc["b"].key[2]>> IN
       IF pending[k] # None \/ outStored[k] # None
       THEN UNCHANGED <<pending, seals>>
       ELSE /\ seals[k] < MaxSeals
            /\ seals' = [seals EXCEPT ![k] = @ + 1]
            /\ pending' = [pending EXCEPT ![k] = [expires |-> clock + Ttl, seal |-> seals'[k]]]
    /\ Becomes("b", [pc["b"] EXCEPT !.at = "prepared"])
    /\ UNCHANGED <<store, wire, events, outStored, inCommitted, inDeleted, gone, faults>>

Fault == faults < MaxFaults /\ faults' = faults + 1 /\ UNCHANGED <<seals, gone>>

\* The acknowledgement cannot be prepared (no current reverse capability, a busy state lock,
\* a ledger without room).  The poll goes on without it, and no later poll prepares it.
tolerate_unavailable_runtime_reverse_mailbox_acknowledgement ==
    /\ pc["b"].at = "ingested"
    /\ Fault
    /\ Becomes("b", [pc["b"] EXCEPT !.at = "unprepared"])
    /\ UNCHANGED <<store, wire, events, ledgers>>

\* record_inbound_commit, and the delete request derived from what it recorded.  A
\* receipt that disagrees with the ledger ends the poll with an error.
Recordable(d) == /\ inDeleted[pc[d].key] = None
                 /\ inCommitted[pc[d].key] \in {None, pc[d].receipt}

record_inbound_commit(d) ==
    /\ pc[d].at \in {"prepared", "unprepared"}
    /\ IF Recordable(d)
       THEN /\ inCommitted' = [inCommitted EXCEPT ![pc[d].key] = pc[d].receipt]
            /\ wire' = wire \cup {Erase(pc[d].receipt)}
            /\ Becomes(d, [pc[d] EXCEPT !.at = IF @ = "prepared" THEN "delete" ELSE "redelete"])
       ELSE Becomes(d, Idle) /\ UNCHANGED <<inCommitted, wire>>
    /\ UNCHANGED <<store, events, pending, outStored, inDeleted, history>>

\* mark_inbound_deleted; a poll that has just read a text then uploads the acknowledgement
\* that it has prepared.
mark_inbound_deleted(d) ==
    /\ pc[d].at \in {"delete", "redelete"} /\ pc[d].reply # None
    /\ LET k == pc[d].key
           ack == <<"a", k[2]>>
           proof == pc[d].reply \in {"Deleted", "AlreadyDeleted"} IN
       /\ inDeleted' = IF proof THEN [inDeleted EXCEPT ![k] = pc[d].receipt] ELSE inDeleted
       /\ inCommitted' = IF proof THEN [inCommitted EXCEPT ![k] = None] ELSE inCommitted
       /\ IF proof /\ d = "b" /\ pc[d].at = "delete" /\ pending[ack] # None
          THEN wire' = wire \cup {Put(ack, pending[ack])} /\ Becomes(d, At("put", ack, None))
          ELSE Becomes(d, Idle) /\ UNCHANGED wire
    /\ UNCHANGED <<store, events, pending, outStored, history>>
-----------------------------------------------------------------------------
(* The store's side of the requests                                        *)

Answer(d, reply, r) == [pc[d] EXCEPT !.reply = reply, !.receipt = r]

\* PUT: route_mailbox_request.  The answer reaches a sender that still waits for it.
service_put(q) ==
    /\ q \in wire /\ q.op = "put"
    /\ wire' = wire \ {q}
    /\ \E now \in Store!Times :
         LET outcome == Store!PutOutcome(q.key, q.envelope, Ttl, now)
             d == Peer(q.key[1]) IN
         /\ Store!put(q.key, q.envelope, Ttl, now)
         /\ IF /\ pc[d].at = "put" /\ pc[d].key = q.key /\ pc[d].reply = None
               /\ pending[q.key] = q.envelope
            THEN Becomes(d, Answer(d, outcome, items'[q.key])) ELSE UNCHANGED pc
    /\ UNCHANGED <<events, ledgers, history>>

service_delete(q) ==
    /\ q \in wire /\ q.op = "delete"
    /\ wire' = wire \ {q}
    /\ \E now \in Store!Times : Store!delete(q.receipt, now)
    /\ UNCHANGED <<events, ledgers, pc, history>>

service_delete_commit(r) ==
    /\ Store!delete_commit(r)
    /\ LET d == r.key[1] IN
       IF pc[d].at \in {"delete", "redelete"} /\ pc[d].receipt = r /\ pc[d].reply = None
       THEN Becomes(d, Answer(d, Store!DeleteOutcome(r), r)) ELSE UNCHANGED pc
    /\ gone' = IF r \in proven' THEN gone \cup {r.key} ELSE gone
    /\ UNCHANGED <<wire, events, ledgers, seals, faults>>
-----------------------------------------------------------------------------
(* Time and faults                                                         *)

Tick == Store!Tick /\ UNCHANGED <<wire, events, ledgers, pc, history>>

Interrupt(d) ==
    /\ pc[d].at \in Interruptible
    /\ Fault
    /\ Becomes(d, Idle)
    /\ UNCHANGED <<store, wire, events, ledgers>>

\* The HTTP client's timeout, or a broken connection, when no answer can come any more.
Unanswerable(d) ==
    \/ pc[d].at = "put" /\ Put(pc[d].key, pending[pc[d].key]) \notin wire
    \/ /\ pc[d].at \in {"delete", "redelete"}
       /\ Erase(pc[d].receipt) \notin wire /\ pc[d].receipt \notin deletes

GiveUp(d) ==
    /\ pc[d].reply = None
    /\ Unanswerable(d)
    /\ Becomes(d, Idle)
    /\ UNCHANGED <<store, wire, events, ledgers, history>>

LoseRequest(q) ==
    /\ Fault
    /\ wire' = wire \ {q}
    /\ UNCHANGED <<store, events, ledgers, pc>>

RestartStore ==
    /\ Fault
    /\ \E now \in Store!Times : Store!open(now)
    /\ UNCHANGED <<wire, events, ledgers, pc>>

Act(d) ==
    \/ ledger_cleanup(d)
    \/ attempt_pending_runtime_mailbox_upload(d)
    \/ mark_outbound_stored(d)
    \/ attempt_runtime_mailbox_poll(d)
    \/ poll_pending_delete(d)
    \/ poll_list(d)
    \/ prepare_inbound_fails(d)
    \/ record_inbound_commit(d)
    \/ mark_inbound_deleted(d)
    \/ GiveUp(d)

ActA == \/ enqueue_outbound
        \/ prepare_orphan_runtime_mailbox_dispatch
        \/ commit_runtime_mailbox_acknowledgement
        \/ Act("a")
ActB == \/ commit_runtime_mailbox_text
        \/ prepare_runtime_reverse_mailbox_acknowledgement
        \/ Act("b")
Serve(q) == service_put(q) \/ service_delete(q)
ServeCommit == \E r \in deletes : service_delete_commit(r)

Next ==
    \/ \E t \in Texts : attempt_runtime_mailbox_fallback(t)
    \/ tolerate_unavailable_runtime_reverse_mailbox_acknowledgement
    \/ ActA
    \/ ActB
    \/ \E q \in wire : Serve(q)
    \/ ServeCommit
    \/ Tick
    \/ \E d \in Devices : Interrupt(d)
    \/ \E q \in wire : LoseRequest(q)
    \/ RestartStore

Spec == Init /\ [][Next]_vars

\* Both runtimes keep running their scheduler; a request that is not lost is processed.  No
\* text has to be sent through the mailbox, no time has to pass and nothing has to fail.
Fairness ==
    /\ WF_vars(ActA) /\ WF_vars(ActB)
    /\ WF_vars(\E q \in wire : Serve(q)) /\ WF_vars(ServeCommit)
FairSpec == Spec /\ Fairness
-----------------------------------------------------------------------------
(* Properties                                                              *)

\* Each ledger, each runtime record and each actor state holds values of its kind.
TypeOK ==
    /\ dispatch \in [Texts -> (0..(MaxClock + Ttl)) \cup {None}]
    /\ received \subseteq Texts /\ delivered \subseteq Texts
    /\ pending \in [Keys -> Envelopes \cup {None}]
    /\ outStored \in [Keys -> Store!Receipts \cup {None}]
    /\ inCommitted \in [Keys -> Store!Receipts \cup {None}]
    /\ inDeleted \in [Keys -> Store!Receipts \cup {None}]
    /\ \A k \in Keys : inCommitted[k] # None => inCommitted[k].key = k
    /\ \A d \in Devices : /\ pc[d].key \in Keys \cup {None}
                          /\ pc[d].receipt \in Store!Receipts \cup {None}
    /\ \A q \in wire : IF q.op = "put" THEN q.key \in Keys /\ q.envelope \in Envelopes
                       ELSE q.receipt \in Store!Receipts
    /\ Store!TypeOK

\* The application of key k's reader has committed what the item carries.
ReadBy(k) == IF k[1] = "b" THEN k[2] \in received ELSE k[2] \in delivered

\* The store loses an item before its expiry only when its reader's application
\* transaction has committed it: a delete is never sent, retried or processed for an item
\* that a crash could still make the reader forget.
DeletedOnlyAfterCommit ==
    /\ \A k \in Keys : tombstones[k] # None => ReadBy(k)
    /\ \A r \in deletes : ReadBy(r.key)
    /\ \A q \in wire : q.op = "delete" => ReadBy(q.receipt.key)

\* An upload that the sender's ledger calls stored, and retries no more, is still in the
\* mailbox or has been committed by its reader, until its receipt expires.
StoredIsHeldOrRead ==
    \A k \in Keys : outStored[k] # None /\ outStored[k].expires > clock
                      => items[k] = outStored[k] \/ ReadBy(k)

\* A text is reported as delivered only after the peer has committed it.
DeliveredWasReceived == delivered \subseteq received

\* The envelopes that are pending, in flight, stored or recorded for a key.
CopiesOf(k) == {e \in Envelopes : \/ pending[k] = e
                                  \/ Put(k, e) \in wire
                                  \/ items[k] # None /\ items[k].envelope = e
                                  \/ outStored[k] # None /\ outStored[k].envelope = e}

\* RFC-0076 section 2: what a retry uploads is the identical PUT, so an item has one
\* ciphertext whatever crashes, lost answers and repairs of orphan dispatches come.
OneCopy == \A k \in Keys : Cardinality(CopiesOf(k)) <= 1

\* More of the text's dispatch is left than the store's time may be behind.
InForce(k) == dispatch[k[2]] # None /\ dispatch[k[2]] > clock + Lag

\* Crashes and retries make no second ciphertext of an item while its dispatch is in force,
\* however far the store's time is behind the writer's.
OneCopyInForce == \A k \in Keys : InForce(k) => Cardinality(CopiesOf(k)) <= 1

\* While its dispatch is in force, no late or repeated PUT and no repaired dispatch brings
\* an item back whose deletion was proven to its reader.
NoResurrectionInForce == \A k \in gone : InForce(k) => items[k] = None

\* After an application commit the delete that the ledger selects is the delete of the item
\* just read: the two checks of attempt_runtime_mailbox_poll fail only when the proof of an
\* earlier deletion has expired since the scheduler's last clean-up.
DeleteSelectsTheItemRead ==
    \A d \in Devices :
        /\ pc[d].at \in {"prepared", "unprepared"}
             => /\ Recordable(d) \/ ~LedgerLive(inDeleted[pc[d].key])
                /\ Eligible(d) \subseteq {pc[d].key}
        /\ pc[d].at = "delete" => Eligible(d) = {pc[d].key}

\* The upload that a device tries first is refused by the store as often as it is repeated:
\* the item was stored, read and deleted, or the key holds another ciphertext.
Blocked == \E d \in Devices : \E k \in First(Waiting(d)) :
               \/ tombstones[k] # None
               \/ items[k] # None /\ items[k].envelope # pending[k]

\* Every text that was dispatched is committed by its reader, and every acknowledgement that
\* was prepared comes back, whatever requests, answers and processes are lost on the way,
\* unless the dispatch is no longer in force or a device retries a refused upload.
EveryTextDelivered ==
    []<>(Blocked \/ \A t \in Texts :
            /\ InForce(<<"b", t>>) => t \in received
            /\ InForce(<<"a", t>>) /\ seals[<<"a", t>>] > 0 => t \in delivered)

\* RFC-0076 section 1: the acknowledgement of a committed text, once it was prepared, comes
\* back through the reverse mailbox.
AcknowledgementReturned == \A t \in Texts : (seals[<<"a", t>>] > 0) ~> (t \in delivered)
=============================================================================
