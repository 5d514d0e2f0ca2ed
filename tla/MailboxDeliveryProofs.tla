----------------------- MODULE MailboxDeliveryProofs ------------------------
(***************************************************************************)
(* The delayed delivery, for every instance of it: what the actors hold     *)
(* comes from where it should (Inv), the receipts can be relied on (Trust), *)
(* and, while a dispatch is in force, an item has one ciphertext and its    *)
(* proven deletion is final (Copies), however far the store's time is       *)
(* behind.                                                                  *)
(***************************************************************************)
EXTENDS MailboxDeliveryCopiesProofs
-----------------------------------------------------------------------------
(* Where what the actors hold comes from                                   *)

\* Init, with nothing stored and nobody at work.
LEMMA InitInv == Init => Inv
  <1> USE Zenon
  <1> SUFFICES ASSUME Init PROVE Inv
    OBVIOUS
  <1>1. Tables
    BY DEF Init, Store!Init, Tables, Keys
  <1>2. Origins /\ DeletedOnlyAfterCommit /\ DeliveredWasReceived
    BY DEF Init, Store!Init, Origins, DeletedOnlyAfterCommit, DeliveredWasReceived, Keys
  <1>3. Actors
    BY DEF Init, Actors, Whole, Held, Idle, Reading
  <1> QED
    BY <1>1, <1>2, <1>3 DEF Inv

\* One actor moves on to a state that fits what it holds; the other stays where it is.
LEMMA ActorMoves ==
  ASSUME Inv, NEW d \in Devices, NEW p,
         Whole(p),
         pc' = [pc EXCEPT ![d] = p],
         received \subseteq received', delivered \subseteq delivered',
         p.at \in Reading => p.key \in Inbox(d) /\ p.receipt.key = p.key /\ Founded(p.key)',
         p.at \in Reading \ {"listed"} => ReadBy(p.key)',
         p.at = "dispatched" => p.key \in Outbox("a")
  PROVE  Actors'
  <1> USE Zenon
  <1>1. DOMAIN pc' = Devices /\ \A e \in Devices : pc'[e] = IF e = d THEN p ELSE pc[e]
    BY DEF Inv, Actors
  <1>2. \A e \in Devices : Whole(pc'[e])
    BY <1>1 DEF Inv, Actors
  <1>3. ASSUME NEW e \in Devices PROVE Held(e)'
    <2>1. CASE e = d
      BY <1>1, <2>1 DEF Held, Inbox, Outbox
    <2>2. CASE e # d
      BY <1>1, <2>2, CommitsStay DEF Inv, Actors, Held, Inbox, Outbox
    <2> QED
      BY <2>1, <2>2
  <1> QED
    BY <1>1, <1>2, <1>3 DEF Actors

\* Nobody moves.
LEMMA ActorsStay ==
  ASSUME Inv, pc' = pc, received \subseteq received', delivered \subseteq delivered'
  PROVE  Actors'
  <1>1. \A e \in Devices : Held(e)'
    BY CommitsStay, Zenon DEF Inv, Actors, Held, Inbox, Outbox
  <1> QED
    BY <1>1, Zenon DEF Inv, Actors

\* A step of an actor outside the store: it may upload, record and request what it is
\* entitled to.
LEMMA DeviceStep ==
  ASSUME Inv, UNCHANGED store,
         received \subseteq received', delivered \subseteq delivered', delivered' \subseteq received',
         DOMAIN pending' = Keys, DOMAIN inCommitted' = Keys,
         \A k \in Keys : pending'[k] # None => pending[k] # None \/ Founded(k)',
         \A k \in Keys : inCommitted'[k] # None
             => \/ inCommitted'[k] = inCommitted[k]
                \/ inCommitted'[k].key = k /\ ReadBy(k)',
         \A q \in wire' : \/ q \in wire
                          \/ q.op = "put" /\ q.key \in Keys /\ Founded(q.key)'
                          \/ q.op = "delete" /\ q.receipt.key \in Keys /\ ReadBy(q.receipt.key)',
         Actors'
  PROVE  Inv'
  <1> USE Zenon
  <1>1. /\ items' = items /\ tombstones' = tombstones /\ deletes' = deletes
    BY DEF store
  <1>2. Tables'
    BY <1>1 DEF Inv, Tables
  <1>3. Origins'
    BY <1>1, CommitsStay DEF Inv, Origins
  <1>4. DeletedOnlyAfterCommit'
    BY <1>1, CommitsStay DEF Inv, DeletedOnlyAfterCommit
  <1>5. DeliveredWasReceived'
    BY DEF DeliveredWasReceived
  <1> QED
    BY <1>2, <1>3, <1>4, <1>5 DEF Inv

\* A step of the store: it stores what an upload carries, and a delete it begins or ends is
\* one whose item was read.
LEMMA StoreStep ==
  ASSUME Inv, UNCHANGED <<received, delivered, pending, inCommitted>>, wire' \subseteq wire,
         DOMAIN items' = Keys, DOMAIN tombstones' = Keys,
         \A k \in Keys : items'[k] # None
             => items'[k] = items[k] \/ (items'[k].key = k /\ Founded(k)),
         \A k \in Keys : tombstones'[k] # None => tombstones'[k] = tombstones[k] \/ ReadBy(k),
         \A r \in deletes' : r \in deletes \/ (r.key \in Keys /\ ReadBy(r.key)),
         Actors'
  PROVE  Inv'
  <1> USE Zenon
  <1>1. \A k : (ReadBy(k)' <=> ReadBy(k)) /\ (Founded(k)' <=> Founded(k))
    BY DEF ReadBy, Founded
  <1>2. Tables'
    BY DEF Inv, Tables
  <1>3. Origins'
    BY <1>1 DEF Inv, Origins
  <1>4. DeletedOnlyAfterCommit'
    BY <1>1 DEF Inv, DeletedOnlyAfterCommit
  <1>5. DeliveredWasReceived'
    BY DEF Inv, DeliveredWasReceived
  <1> QED
    BY <1>2, <1>3, <1>4, <1>5 DEF Inv

\* Giving up, failing, being interrupted or finishing: an idle actor holds nothing.
LEMMA ToIdle ==
  ASSUME Inv, NEW d \in Devices, Becomes(d, Idle),
         received \subseteq received', delivered \subseteq delivered'
  PROVE  Actors'
  <1>1. Idle.at = "idle" /\ Whole(Idle)
    BY Zenon DEF Idle, Whole
  <1> QED
    BY <1>1, ActorMoves, Zenon DEF Becomes, Reading

\* Waiting for the answer to an upload: likewise.
LEMMA ToPut ==
  ASSUME Inv, NEW d \in Devices, NEW k, Becomes(d, At("put", k, None)),
         received \subseteq received', delivered \subseteq delivered'
  PROVE  Actors'
  <1> USE Zenon
  <1> DEFINE p == At("put", k, None)
  <1>1. p.at = "put" /\ Whole(p)
    BY DEF At, Whole
  <1>2. pc' = [pc EXCEPT ![d] = p]
    BY DEF Becomes
  <1> HIDE DEF p
  <1> QED
    BY <1>1, <1>2, ActorMoves DEF Reading

\* A poll that has just started holds nothing.
LEMMA PollInv ==
  ASSUME Inv, NEW d \in Devices, attempt_runtime_mailbox_poll(d) PROVE Inv'
  <1> USE Zenon
  <1>1. UNCHANGED <<store, wire, received, delivered, pending, inCommitted>>
    BY DEF attempt_runtime_mailbox_poll, events, ledgers
  <1>2. PICK p : p = At("poll", None, None)
    OBVIOUS
  <1>3. p.at = "poll" /\ Whole(p)
    BY <1>2 DEF At, Whole
  <1>4. pc' = [pc EXCEPT ![d] = p]
    BY <1>2 DEF attempt_runtime_mailbox_poll, Becomes
  <1>5. Actors'
    BY <1>1, <1>3, <1>4, ActorMoves DEF Reading
  <1> QED
    BY <1>1, <1>5, DeviceStep DEF Inv, Tables, DeliveredWasReceived

\* attempt_runtime_mailbox_fallback names an item of the peer's mailbox.
LEMMA FallbackInv ==
  ASSUME Inv, NEW t \in Texts, attempt_runtime_mailbox_fallback(t) PROVE Inv'
  <1> USE Zenon
  <1> DEFINE p == At("dispatched", <<"b", t>>, None)
  <1>1. p.at = "dispatched" /\ p.key = <<"b", t>> /\ Whole(p)
    BY DEF At, Whole
  <1>2. pc' = [pc EXCEPT !["a"] = p]
    BY DEF attempt_runtime_mailbox_fallback, Becomes
  <1>3. <<"b", t>> \in Outbox("a")
    BY KeysArePairs DEF Outbox, Peer, Devices
  <1>4. UNCHANGED <<store, wire, received, delivered, pending, inCommitted>>
    BY DEF attempt_runtime_mailbox_fallback, ledgers
  <1> HIDE DEF p
  <1>5. Actors'
    BY <1>1, <1>2, <1>3, <1>4, ActorMoves DEF Reading, Devices
  <1> QED
    BY <1>4, <1>5, DeviceStep DEF Inv, Tables, DeliveredWasReceived

\* An upload is founded: device a seals texts, whose readers need nothing.
LEMMA SealInv ==
  ASSUME Inv, NEW k \in Outbox("a"), NEW expires, SealAndUpload("a", k, expires),
         UNCHANGED <<store, events, inCommitted>>
  PROVE  Inv'
  <1> USE Zenon
  <1>1. k \in Keys /\ k[1] = "b"
    BY DEF Outbox, Peer
  <1>2. UNCHANGED <<received, delivered>>
    BY DEF events
  <1>3. Founded(k)'
    BY <1>1 DEF Founded
  <1>4. Actors'
    BY <1>2, ToPut DEF SealAndUpload, Devices
  <1>5. DOMAIN pending' = Keys /\ \A j \in Keys : pending'[j] # None => pending[j] # None \/ j = k
    BY <1>1 DEF SealAndUpload, Inv, Tables
  <1>6. \A q \in wire' : q \in wire \/ (q.op = "put" /\ q.key = k)
    BY SMT DEF SealAndUpload, Put
  <1> QED
    BY <1>1, <1>2, <1>3, <1>4, <1>5, <1>6, DeviceStep DEF Inv, Tables, DeliveredWasReceived

\* enqueue_outbound and the repair of a dispatch without an upload.
LEMMA EnqueueInv ==
  ASSUME Inv, enqueue_outbound \/ prepare_orphan_runtime_mailbox_dispatch PROVE Inv'
  <1> USE Zenon
  <1>1. CASE enqueue_outbound
    <2>1. pc["a"].key \in Outbox("a")
      BY <1>1 DEF enqueue_outbound, Inv, Actors, Held, Devices
    <2>2. PICK k \in Outbox("a") : k = pc["a"].key
      BY <2>1
    <2> QED
      BY <1>1, <2>2, SealInv DEF enqueue_outbound
  <1>2. CASE prepare_orphan_runtime_mailbox_dispatch
    <2>1. PICK k \in Outbox("a") : SealAndUpload("a", k, dispatch[k[2]])
      BY <1>2 DEF prepare_orphan_runtime_mailbox_dispatch, First, Orphans
    <2> QED
      BY <1>2, <2>1, SealInv DEF prepare_orphan_runtime_mailbox_dispatch
  <1> QED
    BY <1>1, <1>2

\* The ledger's cleanup only forgets.
LEMMA LedgerCleanupInv ==
  ASSUME Inv, NEW d \in Devices, ledger_cleanup(d) PROVE Inv'
  <1> USE Zenon
  <1>1. UNCHANGED <<store, wire, received, delivered, pc>>
    BY DEF ledger_cleanup, events
  <1>2. /\ DOMAIN pending' = Keys /\ DOMAIN inCommitted' = Keys
        /\ \A k \in Keys : pending'[k] # None => pending[k] # None
        /\ \A k \in Keys : inCommitted'[k] # None => inCommitted'[k] = inCommitted[k]
    BY DEF ledger_cleanup, Cleaned
  <1>3. Actors'
    BY <1>1, ActorsStay
  <1> QED
    BY <1>1, <1>2, <1>3, DeviceStep DEF Inv, DeliveredWasReceived

\* A pending upload is sent again as it was founded.
LEMMA UploadInv ==
  ASSUME Inv, NEW d \in Devices, attempt_pending_runtime_mailbox_upload(d) PROVE Inv'
  <1> USE Zenon
  <1>1. UNCHANGED <<store, received, delivered, pending, inCommitted>>
    BY DEF attempt_pending_runtime_mailbox_upload, events, ledgers
  <1>2. PICK k \in First(Waiting(d)) : /\ wire' = wire \cup {Put(k, pending[k])}
                                       /\ Becomes(d, At("put", k, None))
    BY DEF attempt_pending_runtime_mailbox_upload
  <1>3. k \in Keys /\ pending[k] # None
    BY DEF First, Waiting, Outbox
  <1>4. Actors'
    BY <1>1, <1>2, ToPut
  <1>5. Founded(k)'
    BY <1>1, <1>3, CommitsStay DEF Inv, Origins
  <1>6. \A q \in wire' : q \in wire \/ (q.op = "put" /\ q.key = k)
    BY <1>2, SMT DEF Put
  <1> QED
    BY <1>1, <1>3, <1>4, <1>5, <1>6, DeviceStep DEF Inv, Tables, DeliveredWasReceived

\* A receipt ends an upload; any other answer leaves the ledger alone.
LEMMA StoredInv ==
  ASSUME Inv, NEW d \in Devices, mark_outbound_stored(d) PROVE Inv'
  <1> USE Zenon
  <1>1. UNCHANGED <<store, wire, received, delivered, inCommitted>>
    BY DEF mark_outbound_stored, events
  <1>2. DOMAIN pending' = Keys /\ \A k \in Keys : pending'[k] # None => pending[k] # None
    BY DEF mark_outbound_stored, Inv, Tables
  <1>3. Actors'
    BY <1>1, ToIdle DEF mark_outbound_stored
  <1> QED
    BY <1>1, <1>2, <1>3, DeviceStep DEF Inv, Tables, DeliveredWasReceived

\* A step of the same actor to another place, with what it holds.
LEMMA MovesOn ==
  ASSUME Inv, NEW d \in Devices, NEW place, Becomes(d, [pc[d] EXCEPT !.at = place]),
         pc[d].at \in Reading, place # "dispatched",
         received \subseteq received', delivered \subseteq delivered',
         ASSUME NEW k, k = pc[d].key PROVE ReadBy(k)'
  PROVE  Actors'
  <1> USE Zenon
  <1>1. PICK k, r, reply : k = pc[d].key /\ r = pc[d].receipt /\ reply = pc[d].reply
    OBVIOUS
  <1>2. PICK p : p = [at |-> place, key |-> k, receipt |-> r, reply |-> reply]
    OBVIOUS
  <1>3. Whole(p) /\ p.at = place /\ p.key = k /\ p.receipt = r
    BY <1>2 DEF Whole
  <1>4. [pc[d] EXCEPT !.at = place] = p
    BY <1>1, <1>2, SMT DEF Inv, Actors, Whole
  <1>5. pc' = [pc EXCEPT ![d] = p]
    BY <1>4 DEF Becomes
  <1>6. k \in Inbox(d) /\ r.key = k /\ Founded(k) /\ ReadBy(k)'
    BY <1>1 DEF Inv, Actors, Held
  <1>7. Founded(k)'
    BY <1>6, CommitsStay
  <1> QED
    BY <1>3, <1>5, <1>6, <1>7, ActorMoves

\* The delete that the ledger still owes is asked for again.
LEMMA RedeleteInv ==
  ASSUME Inv, NEW d \in Devices, poll_pending_delete(d) PROVE Inv'
  <1> USE Zenon
  <1>1. UNCHANGED <<store, received, delivered, pending, inCommitted>>
    BY DEF poll_pending_delete, events, ledgers
  <1>2. PICK k, r : /\ k \in First(Eligible(d)) /\ r = inCommitted[k]
                    /\ wire' = wire \cup {Erase(r)} /\ Becomes(d, At("redelete", k, r))
    BY DEF poll_pending_delete
  <1>3. k \in Inbox(d) /\ k \in Keys /\ r.key = k /\ ReadBy(k)
    BY <1>2 DEF First, Eligible, Inbox, Inv, Origins
  <1>4. ReadBy(k)' /\ Founded(k)'
    BY <1>1, <1>3, CommitsStay DEF Inv, DeliveredWasReceived, ReadBy, Founded
  <1>5. PICK p : p = At("redelete", k, r)
    OBVIOUS
  <1>6. Whole(p) /\ p.at = "redelete" /\ p.key = k /\ p.receipt = r
    BY <1>5 DEF Whole, At
  <1>7. Actors'
    BY <1>1, <1>2, <1>3, <1>4, <1>5, <1>6, ActorMoves DEF Becomes
  <1>8. \A q \in wire' : q \in wire \/ (q.op = "delete" /\ q.receipt = r)
    BY <1>2, SMT DEF Erase
  <1> QED
    BY <1>1, <1>3, <1>4, <1>7, <1>8, DeviceStep DEF Inv, Tables, DeliveredWasReceived

\* A listed item is one the store holds.
LEMMA ListInv ==
  ASSUME Inv, NEW d \in Devices, poll_list(d) PROVE Inv'
  <1> USE Zenon
  <1>1. UNCHANGED <<received, delivered, pending, inCommitted, wire, deletes>>
    BY DEF poll_list, events, ledgers
  <1>2. /\ DOMAIN items' = Keys /\ DOMAIN tombstones' = Keys
        /\ \A k \in Keys : items'[k] # None => items'[k] = items[k]
        /\ \A k \in Keys : tombstones'[k] # None => tombstones'[k] = tombstones[k]
    BY CleanupRemoves DEF poll_list
  <1>3. \/ Becomes(d, Idle)
        \/ \E k \in Inbox(d) : items'[k] # None /\ Becomes(d, At("listed", k, items'[k]))
    BY DEF poll_list, First
  <1>4. CASE Becomes(d, Idle)
    <2>1. Actors'
      BY <1>1, <1>4, ToIdle
    <2> QED
      BY <1>1, <1>2, <2>1, StoreStep
  <1>5. CASE \E k \in Inbox(d) : items'[k] # None /\ Becomes(d, At("listed", k, items'[k]))
    <2>1. PICK k, r, p : /\ k \in Inbox(d) /\ r = items'[k] /\ r # None
                         /\ p = At("listed", k, r) /\ Becomes(d, p)
      BY <1>5
    <2>2. k \in Keys
      BY <2>1 DEF Inbox
    <2>3. r.key = k /\ Founded(k)
      BY <1>2, <2>1, <2>2 DEF Inv, Origins
    <2>4. Founded(k)'
      BY <1>1, <2>3 DEF Founded
    <2>5. Whole(p) /\ p.at = "listed" /\ p.key = k /\ p.receipt = r
      BY <2>1 DEF Whole, At
    <2>6. Actors'
      BY <1>1, <2>1, <2>2, <2>3, <2>4, <2>5, ActorMoves DEF Becomes
    <2> QED
      BY <1>1, <1>2, <2>6, StoreStep, SMT
  <1> QED
    BY <1>3, <1>4, <1>5

\* The application's transactions: device b commits the text it has read, device a the
\* acknowledgement of a text that b has committed.
LEMMA ApplicationInv ==
  ASSUME Inv, commit_runtime_mailbox_text \/ commit_runtime_mailbox_acknowledgement PROVE Inv'
  <1> USE Zenon
  <1>1. CASE commit_runtime_mailbox_text
    <2>1. /\ UNCHANGED <<store, wire, delivered, pending, inCommitted>>
          /\ received' = received \cup {pc["b"].key[2]}
          /\ pc["b"].at = "listed" /\ Becomes("b", [pc["b"] EXCEPT !.at = "ingested"])
      BY <1>1 DEF commit_runtime_mailbox_text, ledgers, Opened
    <2>2. pc["b"].key[1] = "b"
      BY <2>1 DEF Inv, Actors, Held, Inbox, Devices, Reading
    <2>3. ASSUME NEW k, k = pc["b"].key PROVE ReadBy(k)'
      BY <2>1, <2>2, <2>3 DEF ReadBy
    <2>4. Actors'
      BY <2>1, <2>3, MovesOn DEF Devices, Reading
    <2> QED
      BY <2>1, <2>4, DeviceStep DEF Inv, Tables, DeliveredWasReceived
  <1>2. CASE commit_runtime_mailbox_acknowledgement
    <2>1. /\ UNCHANGED <<store, wire, received, pending, inCommitted>>
          /\ delivered' = delivered \cup {pc["a"].key[2]}
          /\ pc["a"].at = "listed" /\ Becomes("a", [pc["a"] EXCEPT !.at = "prepared"])
      BY <1>2 DEF commit_runtime_mailbox_acknowledgement, ledgers, Opened
    <2>2. pc["a"].key[1] = "a" /\ pc["a"].key[2] \in received
      BY <2>1 DEF Inv, Actors, Held, Inbox, Devices, Reading, Founded
    <2>3. ASSUME NEW k, k = pc["a"].key PROVE ReadBy(k)'
      BY <2>1, <2>2, <2>3 DEF ReadBy
    <2>4. Actors'
      BY <2>1, <2>3, MovesOn DEF Devices, Reading
    <2>5. delivered' \subseteq received'
      BY <2>1, <2>2 DEF Inv, DeliveredWasReceived
    <2> QED
      BY <2>1, <2>4, <2>5, DeviceStep DEF Inv, Tables
  <1> QED
    BY <1>1, <1>2, SMT

\* The acknowledgement that device b seals is of the text it has just committed.
LEMMA ReverseInv ==
  ASSUME Inv, prepare_runtime_reverse_mailbox_acknowledgement PROVE Inv'
  <1> USE Zenon
  <1>1. /\ UNCHANGED <<store, wire, received, delivered, inCommitted>>
        /\ pc["b"].at = "ingested" /\ Becomes("b", [pc["b"] EXCEPT !.at = "prepared"])
    BY DEF prepare_runtime_reverse_mailbox_acknowledgement, events
  <1>2. pc["b"].key \in Inbox("b") /\ ReadBy(pc["b"].key)
    BY <1>1 DEF Inv, Actors, Held, Devices, Reading
  <1>3. PICK t : t = pc["b"].key[2]
    OBVIOUS
  <1>4. t \in Texts /\ t \in received
    BY <1>2, <1>3, KeysArePairs DEF Inbox, ReadBy
  <1>5. <<"a", t>> \in Keys /\ Founded(<<"a", t>>)'
    BY <1>1, <1>4, KeysArePairs DEF Founded, Devices
  <1>6. /\ DOMAIN pending' = Keys
        /\ \A k \in Keys : pending'[k] # None => pending[k] # None \/ k = <<"a", t>>
    BY <1>3, <1>5 DEF prepare_runtime_reverse_mailbox_acknowledgement, Inv, Tables
  <1>7. ASSUME NEW k, k = pc["b"].key PROVE ReadBy(k)'
    BY <1>1, <1>2, <1>7, CommitsStay
  <1>8. Actors'
    BY <1>1, <1>7, MovesOn DEF Devices, Reading
  <1> QED
    BY <1>1, <1>5, <1>6, <1>8, DeviceStep, SMT DEF Inv, Tables, DeliveredWasReceived

\* A poll that goes on without the acknowledgement has committed the text.
LEMMA UnpreparedInv ==
  ASSUME Inv, tolerate_unavailable_runtime_reverse_mailbox_acknowledgement PROVE Inv'
  <1> USE Zenon
  <1>1. /\ UNCHANGED <<store, wire, received, delivered, pending, inCommitted>>
        /\ pc["b"].at = "ingested" /\ Becomes("b", [pc["b"] EXCEPT !.at = "unprepared"])
    BY DEF tolerate_unavailable_runtime_reverse_mailbox_acknowledgement, events, ledgers
  <1>2. ReadBy(pc["b"].key)
    BY <1>1 DEF Inv, Actors, Held, Devices, Reading
  <1>3. ASSUME NEW k, k = pc["b"].key PROVE ReadBy(k)'
    BY <1>1, <1>2, <1>3, CommitsStay
  <1>4. Actors'
    BY <1>1, <1>3, MovesOn DEF Devices, Reading
  <1> QED
    BY <1>1, <1>4, DeviceStep DEF Inv, Tables, DeliveredWasReceived

\* record_inbound_commit follows the application's commit.
LEMMA RecordInv ==
  ASSUME Inv, NEW d \in Devices, record_inbound_commit(d) PROVE Inv'
  <1> USE Zenon
  <1>1. /\ UNCHANGED <<store, received, delivered, pending>>
        /\ pc[d].at \in {"prepared", "unprepared"}
    BY DEF record_inbound_commit, events
  <1>2. PICK k, r : k = pc[d].key /\ r = pc[d].receipt
    OBVIOUS
  <1>3. k \in Keys /\ r.key = k /\ ReadBy(k)
    BY <1>1, <1>2 DEF Inv, Actors, Held, Inbox, Reading
  <1>4. ReadBy(k)'
    BY <1>1, <1>3, CommitsStay, ZenonT(30)
  <1>5. CASE Recordable(d)
    <2>1. /\ inCommitted' = [inCommitted EXCEPT ![k] = r]
          /\ wire' = wire \cup {Erase(r)}
      BY <1>2, <1>5 DEF record_inbound_commit
    <2>2. ASSUME NEW j, j = pc[d].key PROVE ReadBy(j)'
      BY <1>2, <1>4, <2>2
    <2>6. PICK place \in {"delete", "redelete"} : Becomes(d, [pc[d] EXCEPT !.at = place])
      BY <1>5, RecordGoesOn
    <2>3. Actors'
      BY <1>1, <2>2, <2>6, MovesOn DEF Reading
    <2>4. /\ DOMAIN inCommitted' = Keys
          /\ \A j \in Keys : inCommitted'[j] = IF j = k THEN r ELSE inCommitted[j]
      BY <2>1 DEF Inv, Tables
    <2>5. \A q \in wire' : q \in wire \/ (q.op = "delete" /\ q.receipt = r)
      BY <2>1, SMT DEF Erase
    <2> QED
      BY <1>1, <1>3, <1>4, <2>3, <2>4, <2>5, DeviceStep, SMT DEF Inv, Tables, DeliveredWasReceived
  <1>6. CASE ~Recordable(d)
    <2>1. UNCHANGED <<inCommitted, wire>> /\ Becomes(d, Idle)
      BY <1>6 DEF record_inbound_commit
    <2>2. Actors'
      BY <1>1, <2>1, ToIdle
    <2> QED
      BY <1>1, <2>1, <2>2, DeviceStep DEF Inv, Tables, DeliveredWasReceived
  <1> QED
    BY <1>5, <1>6

\* mark_inbound_deleted forgets the recorded commit and may send a pending acknowledgement.
LEMMA MarkDeletedInv ==
  ASSUME Inv, NEW d \in Devices, mark_inbound_deleted(d) PROVE Inv'
  <1> USE Zenon
  <1>1. /\ UNCHANGED <<store, received, delivered, pending>>
        /\ pc[d].at \in {"delete", "redelete"}
    BY DEF mark_inbound_deleted, events
  <1>2. PICK k : k = pc[d].key
    OBVIOUS
  <1>3. k \in Keys
    BY <1>1, <1>2 DEF Inv, Actors, Held, Inbox, Reading
  <1>4. PICK a : a = <<"a", k[2]>>
    OBVIOUS
  <1>5. a \in Keys
    BY <1>3, <1>4, KeysArePairs DEF Devices
  <1>6. /\ DOMAIN inCommitted' = Keys
        /\ \A j \in Keys : inCommitted'[j] # None => inCommitted'[j] = inCommitted[j]
    BY <1>2, <1>3, ZenonT(30) DEF mark_inbound_deleted, Inv, Tables
  <1>7. CASE Becomes(d, Idle) /\ UNCHANGED wire
    <2>1. Actors'
      BY <1>1, <1>7, ToIdle
    <2> QED
      BY <1>1, <1>6, <1>7, <2>1, DeviceStep DEF Inv, Tables, DeliveredWasReceived
  <1>8. CASE /\ pending[a] # None
             /\ wire' = wire \cup {Put(a, pending[a])} /\ Becomes(d, At("put", a, None))
    <2>1. Actors'
      BY <1>1, <1>8, ToPut, ZenonT(30)
    <2>2. Founded(a)'
      BY <1>1, <1>5, <1>8, CommitsStay, SMT DEF Inv, Origins
    <2>3. \A q \in wire' : q \in wire \/ (q.op = "put" /\ q.key = a)
      BY <1>8, SMT DEF Put
    <2> QED
      BY <1>1, <1>5, <1>6, <2>1, <2>2, <2>3, DeviceStep DEF Inv, Tables, DeliveredWasReceived
  <1> QED
    BY <1>2, <1>4, <1>7, <1>8 DEF mark_inbound_deleted

\* An actor that fails, gives up or is interrupted.
LEMMA StopInv ==
  ASSUME Inv, NEW d \in Devices, prepare_inbound_fails(d) \/ GiveUp(d) \/ Interrupt(d) PROVE Inv'
  <1>1. UNCHANGED <<store, wire, received, delivered, pending, inCommitted>> /\ Becomes(d, Idle)
    BY Zenon DEF prepare_inbound_fails, GiveUp, Interrupt, events, ledgers
  <1>2. Actors'
    BY <1>1, ToIdle, Zenon
  <1> QED
    BY <1>1, <1>2, DeviceStep, ZenonT(30) DEF Inv, Tables, DeliveredWasReceived

\* An answer reaches an actor that does not read, or that gets back the receipt it holds.
LEMMA Answered ==
  ASSUME Inv, NEW d \in Devices, NEW reply, NEW r, Becomes(d, Answer(d, reply, r)),
         UNCHANGED <<received, delivered>>,
         pc[d].at = "put" \/ pc[d].receipt = r
  PROVE  Actors'
  <1> USE Zenon
  <1>1. PICK place, k : place = pc[d].at /\ k = pc[d].key
    OBVIOUS
  <1>2. PICK p : p = [at |-> place, key |-> k, receipt |-> r, reply |-> reply]
    OBVIOUS
  <1>3. Whole(p) /\ p.at = place /\ p.key = k /\ p.receipt = r
    BY <1>2 DEF Whole
  <1>4. Answer(d, reply, r) = p
    <2>1. PICK held, before : held = pc[d].receipt /\ before = pc[d].reply
      OBVIOUS
    <2>2. pc[d] = [at |-> place, key |-> k, receipt |-> held, reply |-> before]
      BY <1>1, <2>1 DEF Inv, Actors, Whole
    <2>3. PICK w : w = [at |-> place, key |-> k, receipt |-> held, reply |-> reply]
      OBVIOUS
    <2>4. [pc[d] EXCEPT !.reply = reply] = w
      BY <2>2, <2>3, SMT
    <2>5. [w EXCEPT !.receipt = r] = p
      BY <1>2, <2>3, SMT
    <2>6. Answer(d, reply, r) = [[pc[d] EXCEPT !.reply = reply] EXCEPT !.receipt = r]
      BY DEF Answer
    <2> QED
      BY <2>4, <2>5, <2>6
  <1>5. pc' = [pc EXCEPT ![d] = p]
    BY <1>4 DEF Becomes
  <1>6. /\ place \in Reading => k \in Inbox(d) /\ r.key = k /\ Founded(k)
        /\ place \in Reading \ {"listed"} => ReadBy(k)
        /\ place = "dispatched" => k \in Outbox("a")
    BY <1>1 DEF Inv, Actors, Held, Reading
  <1>7. (Founded(k) => Founded(k)') /\ (ReadBy(k) => ReadBy(k)')
    BY CommitsStay
  <1> QED
    BY <1>3, <1>5, <1>6, <1>7, ActorMoves

\* What a PUT stores is what the request carries.
LEMMA ServePutInv ==
  ASSUME Inv, NEW q \in wire, service_put(q) PROVE Inv'
  <1> USE Zenon
  <1>1. UNCHANGED <<received, delivered, pending, inCommitted>> /\ wire' \subseteq wire
    BY DEF service_put, events, ledgers
  <1>2. q.key \in Keys /\ Founded(q.key)
    BY DEF service_put, Inv, Origins
  <1>3. PICK now : /\ Store!put(q.key, q.envelope, Ttl, now)
                   /\ LET outcome == Store!PutOutcome(q.key, q.envelope, Ttl, now)
                          d == Peer(q.key[1]) IN
                      IF /\ pc[d].at = "put" /\ pc[d].key = q.key /\ pc[d].reply = None
                         /\ pending[q.key] = q.envelope
                      THEN Becomes(d, Answer(d, outcome, items'[q.key])) ELSE UNCHANGED pc
    BY ZenonT(30) DEF service_put
  <1>4. deletes' = deletes /\ Store!PutEffect(q.key, q.envelope, Ttl, now)
    BY <1>3 DEF Store!put
  <1>5. Store!NewReceipt(q.key, q.envelope, Ttl, now).key = q.key
    BY ZenonT(30) DEF Store!NewReceipt
  <1>6. /\ DOMAIN items' = Keys /\ DOMAIN tombstones' = Keys
        /\ \A k \in Keys : items'[k] # None
             => items'[k] = items[k] \/ (items'[k].key = k /\ k = q.key)
        /\ \A k \in Keys : tombstones'[k] # None => tombstones'[k] = tombstones[k]
    BY <1>2, <1>4, <1>5 DEF Store!PutEffect, Store!tables, Inv, Tables
  <1>7. PICK d, outcome, r : /\ d = Peer(q.key[1]) /\ r = items'[q.key]
                             /\ outcome = Store!PutOutcome(q.key, q.envelope, Ttl, now)
    OBVIOUS
  <1>8. d \in Devices
    BY <1>7 DEF Peer, Devices
  <1>9. (pc[d].at = "put" /\ Becomes(d, Answer(d, outcome, r))) \/ pc' = pc
    BY <1>3, <1>7
  <1>10. Actors'
    BY <1>1, <1>8, <1>9, Answered, ActorsStay, ZenonT(30)
  <1> QED
    BY <1>1, <1>2, <1>4, <1>6, <1>10, StoreStep

\* A delete begins for an item that was read.
LEMMA ServeDeleteInv ==
  ASSUME Inv, NEW q \in wire, service_delete(q) PROVE Inv'
  <1> USE Zenon
  <1>1. /\ UNCHANGED <<received, delivered, pending, inCommitted, pc>> /\ wire' \subseteq wire
        /\ q.op = "delete"
    BY DEF service_delete, events, ledgers
  <1>2. PICK now : Store!delete(q.receipt, now)
    BY DEF service_delete
  <1>3. Store!CleanupEffect(now) /\ deletes' = deletes \cup {q.receipt}
    BY <1>2, ZenonT(30) DEF Store!delete
  <1>4. q.receipt.key \in Keys /\ ReadBy(q.receipt.key)
    BY <1>1 DEF Inv, Origins, DeletedOnlyAfterCommit
  <1>5. Actors'
    BY <1>1, ActorsStay, ZenonT(30)
  <1> QED
    BY <1>1, <1>3, <1>4, <1>5, CleanupRemoves, StoreStep

\* The tombstone that a delete leaves is of an item that was read.
LEMMA ServeCommitInv ==
  ASSUME Inv, ServeCommit PROVE Inv'
  <1> USE Zenon
  <1>1. PICK r \in deletes : service_delete_commit(r)
    BY DEF ServeCommit
  <1>2. /\ UNCHANGED <<received, delivered, pending, inCommitted, wire>>
        /\ Store!delete_commit(r)
    BY <1>1 DEF service_delete_commit, events, ledgers
  <1>3. r.key \in Keys /\ ReadBy(r.key)
    BY DEF Inv, Origins, DeletedOnlyAfterCommit
  <1>4. deletes' \subseteq deletes /\ (Store!DeleteEffect(r) \/ UNCHANGED <<items, tombstones>>)
    BY <1>2 DEF Store!delete_commit, Store!tables
  <1>5. /\ DOMAIN items' = Keys /\ DOMAIN tombstones' = Keys
        /\ \A k \in Keys : items'[k] # None => items'[k] = items[k]
        /\ \A k \in Keys : tombstones'[k] # None => tombstones'[k] = tombstones[k] \/ k = r.key
    BY <1>3, <1>4 DEF Store!DeleteEffect, Inv, Tables
  <1>6. PICK d, outcome : d = r.key[1] /\ outcome = Store!DeleteOutcome(r)
    OBVIOUS
  <1>7. d \in Devices
    BY <1>3, <1>6, KeysArePairs
  <1>8. (pc[d].receipt = r /\ Becomes(d, Answer(d, outcome, r))) \/ pc' = pc
    BY <1>1, <1>6, ZenonT(30) DEF service_delete_commit
  <1>9. Actors'
    BY <1>2, <1>7, <1>8, Answered, ActorsStay
  <1> QED
    BY <1>2, <1>3, <1>4, <1>5, <1>9, StoreStep, ZenonT(30)

\* Time, lost requests and restarts of the store take nothing that was not read.
LEMMA WorldInv ==
  ASSUME Inv, Tick \/ RestartStore \/ (\E q \in wire : LoseRequest(q)) PROVE Inv'
  <1> USE Zenon
  <1>1. UNCHANGED <<received, delivered, pending, inCommitted, pc>> /\ wire' \subseteq wire
    BY DEF Tick, RestartStore, LoseRequest, events, ledgers
  <1>2. Actors'
    BY <1>1, ActorsStay
  <1>3. CASE UNCHANGED <<items, tombstones, deletes>>
    BY <1>1, <1>2, <1>3, StoreStep, ZenonT(30) DEF Inv, Tables
  <1>4. CASE RestartStore
    <2>1. PICK now : Store!open(now)
      BY <1>4 DEF RestartStore
    <2>2. deletes' = {} /\ (Store!CleanupEffect(now) \/ UNCHANGED <<items, tombstones>>)
      BY <2>1 DEF Store!open, Store!tables
    <2> QED
      BY <1>1, <1>2, <2>2, CleanupRemoves, StoreStep DEF Inv, Tables
  <1> QED
    BY <1>3, <1>4 DEF Tick, Store!Tick, Store!tables, LoseRequest, store

\* Every step keeps the invariant.
LEMMA StepInv == ASSUME Inv, [Next]_vars PROVE Inv'
  <1> USE Zenon
  <1>1. ASSUME NEW d \in Devices, Act(d) PROVE Inv'
    BY <1>1, LedgerCleanupInv, UploadInv, StoredInv, RedeleteInv, ListInv, StopInv, RecordInv,
       MarkDeletedInv, PollInv, ZenonT(30) DEF Act
  <1>9. CASE \/ \E t \in Texts : attempt_runtime_mailbox_fallback(t)
             \/ tolerate_unavailable_runtime_reverse_mailbox_acknowledgement
    BY <1>9, FallbackInv, UnpreparedInv
  <1>2. CASE ActA
    BY <1>1, <1>2, EnqueueInv, ApplicationInv DEF ActA, Devices
  <1>3. CASE ActB
    BY <1>1, <1>3, ApplicationInv, ReverseInv DEF ActB, Devices
  <1>4. CASE \E q \in wire : Serve(q)
    BY <1>4, ServePutInv, ServeDeleteInv DEF Serve
  <1>5. CASE ServeCommit
    BY <1>5, ServeCommitInv
  <1>6. CASE \E d \in Devices : Interrupt(d)
    BY <1>6, StopInv
  <1>7. CASE Tick \/ RestartStore \/ (\E q \in wire : LoseRequest(q))
    BY <1>7, WorldInv, ZenonT(30)
  <1>8. CASE UNCHANGED vars
    <2>1. UNCHANGED <<store, wire, received, delivered, pending, inCommitted, pc>>
      BY <1>8 DEF vars, events, ledgers
    <2>2. Actors'
      BY <2>1, ActorsStay
    <2> QED
      BY <2>1, <2>2, DeviceStep DEF Inv, Tables, DeliveredWasReceived
  <1> QED
    BY <1>2, <1>3, <1>4, <1>5, <1>6, <1>7, <1>8, <1>9, ZenonT(30) DEF Next

\* The invariant holds in every state of the two devices and the store.
THEOREM DeliveryInvariance == Spec => []Inv
  <1>1. Init => Inv
    BY InitInv, Zenon
  <1>2. Inv /\ [Next]_vars => Inv'
    BY StepInv, Zenon
  <1> QED
    BY <1>1, <1>2, PTL DEF Spec

\* attempt_runtime_mailbox_poll and its retries: whatever is interrupted, delayed or lost, the
\* store deletes an unexpired item only after its reader's application has committed it.
THEOREM DeletesFollowCommits == Spec => []DeletedOnlyAfterCommit
  <1>1. Inv => DeletedOnlyAfterCommit
    BY Zenon DEF Inv
  <1> QED
    BY <1>1, DeliveryInvariance, PTL

\* The delivered marker of commit_runtime_mailbox_acknowledgement: device a reports a text as
\* delivered only when device b has committed it.
THEOREM ReportsAreTrue == Spec => []DeliveredWasReceived
  <1>1. Inv => DeliveredWasReceived
    BY Zenon DEF Inv
  <1> QED
    BY <1>1, DeliveryInvariance, PTL
-----------------------------------------------------------------------------
(* What a receipt stands for                                               *)

\* A receipt stays good while time passes and unread live items stay where they are.
LEMMA EntrustedStays ==
  ASSUME Values, Values', clock <= clock',
         received \subseteq received', delivered \subseteq delivered',
         \A k \in Keys : items[k] # None /\ items[k].expires > clock
                           => items'[k] = items[k] \/ ReadBy(k)',
         NEW r, r # None, r.key \in Keys, Entrusted(r)
  PROVE  Entrusted(r)'
  <1>1. r.expires > clock' => r.expires > clock
    BY DEF Values, Entrusted
  <1>2. ReadBy(r.key) => ReadBy(r.key)'
    BY CommitsStay, Zenon
  <1> QED
    BY <1>1, <1>2, Zenon DEF Entrusted

\* A step keeps the trust when it keeps unread live items, records only receipts that were
\* good before it, and leaves an actor as it was or at a place without a receipt.
Apart(p) == p.at # "dispatched" /\ (p.at = "put" => p.reply = None)

LEMMA TrustStep ==
  ASSUME Inv, Inv', Trust, Values', clock <= clock',
         received \subseteq received', delivered \subseteq delivered',
         \A t \in Texts : dispatch[t] \in Expiries => dispatch'[t] \in Expiries,
         \A k \in Keys : items[k] # None /\ items[k].expires > clock
                           => items'[k] = items[k] \/ ReadBy(k)',
         DOMAIN outStored' = Keys,
         \A k \in Keys : outStored'[k] # None
             => \/ outStored'[k] = outStored[k]
                \/ outStored'[k].key = k /\ Entrusted(outStored'[k]),
         \A d \in Devices : pc'[d] = pc[d] \/ Apart(pc'[d]) \/ Ready(d)'
  PROVE  Trust'
  <1> USE Zenon
  <1>1. \A r : r # None /\ r.key \in Keys /\ Entrusted(r) => Entrusted(r)'
    BY EntrustedStays DEF Trust
  <1>2. Recorded'
    <2>1. ASSUME NEW k \in Keys, NEW r, r = outStored'[k], r # None
          PROVE  r.key = k /\ Entrusted(r)'
      BY <1>1, <2>1, SMT DEF Trust, Recorded
    <2>2. ASSUME NEW k \in Keys, outStored'[k] # None
          PROVE  outStored'[k].key = k /\ Entrusted(outStored[k])'
      <3>1. PICK r : r = outStored'[k]
        OBVIOUS
      <3>2. r.key = k /\ Entrusted(r)'
        BY <2>1, <2>2, <3>1
      <3> QED
        BY <3>1, <3>2 DEF Entrusted
    <2> QED
      BY <2>2 DEF Recorded
  <1>3. ASSUME NEW d \in Devices PROVE Ready(d)'
    <2>1. CASE pc'[d] = pc[d]
      <3>1. pc[d].at = "dispatched" => pc[d].key[2] \in Texts
        BY KeysArePairs DEF Inv, Actors, Held, Outbox
      <3>2. pc'[d].at = "dispatched" => dispatch'[pc'[d].key[2]] \in Expiries
        BY <2>1, <3>1 DEF Trust, Ready
      <3>3. PICK r : r = pc[d].receipt
        OBVIOUS
      <3>4. ASSUME pc[d].at = "put", pc[d].reply \in {"Created", "AlreadyPresent"} \ {None}
            PROVE  /\ pc[d].key \in Keys /\ r # None /\ r.key = pc[d].key
                   /\ Entrusted(r)'
        BY <1>1, <3>3, <3>4 DEF Trust, Ready
      <3>5. Entrusted(r)' => Entrusted(pc[d].receipt)'
        BY <2>1, <3>3 DEF Entrusted
      <3> QED
        BY <2>1, <3>2, <3>3, <3>4, <3>5, SMT DEF Ready
    <2>2. CASE Apart(pc'[d])
      BY <2>2 DEF Apart, Ready
    <2> QED
      BY <2>1, <2>2
  <1> QED
    BY <1>2, <1>3 DEF Trust

\* The places of the model that hold no answer.
LEMMA ApartPlaces ==
  /\ Apart(Idle)
  /\ \A k : Apart(At("put", k, None))
  /\ \A k, r : Apart(At("listed", k, r)) /\ Apart(At("redelete", k, r)) /\ Apart(At("poll", k, r))
  /\ \A p, place : Whole(p) /\ place \in Reading => Apart([p EXCEPT !.at = place])
  <1> USE Zenon
  <1>1. /\ Apart(Idle)
        /\ \A k : Apart(At("put", k, None))
        /\ \A k, r : Apart(At("listed", k, r)) /\ Apart(At("redelete", k, r))
                     /\ Apart(At("poll", k, r))
    BY DEF Apart, Idle, At
  <1>2. ASSUME NEW p, Whole(p), NEW place \in Reading
        PROVE  Apart([p EXCEPT !.at = place])
    <2>1. PICK at, k, r, reply : p = [at |-> at, key |-> k, receipt |-> r, reply |-> reply]
      BY <1>2 DEF Whole
    <2>2. [p EXCEPT !.at = place].at = place
      BY <2>1
    <2> QED
      BY <2>2 DEF Apart, Reading
  <1> QED
    BY <1>1, <1>2

\* A step of the devices that neither dispatches, seals nor records a receipt.
LEMMA TrustDevice ==
  ASSUME Inv, Inv', Trust, UNCHANGED <<store, dispatch, seals>>,
         received \subseteq received', delivered \subseteq delivered',
         pending' \in [Keys -> Envelopes \cup {None}],
         DOMAIN outStored' = Keys,
         \A k \in Keys : outStored'[k] # None => outStored'[k] = outStored[k],
         \A q \in wire' : q \in wire \/ (q.op = "put" => q.envelope \in Envelopes),
         \A d \in Devices : pc'[d] = pc[d] \/ Apart(pc'[d])
  PROVE  Trust'
  <1>1. clock' = clock /\ items' = items /\ clock <= clock'
    BY DEF store, Trust, Values
  <1>2. Values'
    BY <1>1, Zenon DEF Trust, Values
  <1> QED
    BY <1>1, <1>2, TrustStep, Zenon

\* The steps of an actor that touch neither its dispatches nor its receipts.
LEMMA QuietTrust ==
  ASSUME Inv, Inv', Trust, NEW d \in Devices,
         \/ ledger_cleanup(d) \/ attempt_pending_runtime_mailbox_upload(d)
         \/ poll_pending_delete(d) \/ prepare_inbound_fails(d) \/ record_inbound_commit(d)
         \/ mark_inbound_deleted(d) \/ GiveUp(d) \/ Interrupt(d)
         \/ attempt_runtime_mailbox_poll(d)
  PROVE  Trust'
  <1> USE Zenon
  <1>1. UNCHANGED <<store, dispatch, received, delivered, seals>>
    BY DEF ledger_cleanup, attempt_pending_runtime_mailbox_upload, poll_pending_delete,
           prepare_inbound_fails, record_inbound_commit, mark_inbound_deleted, GiveUp, Interrupt,
           attempt_runtime_mailbox_poll, Fault, events, history
  <1>2. pending \in [Keys -> Envelopes \cup {None}] /\ DOMAIN outStored = Keys
    BY DEF Trust, Values, Recorded
  <1>3. Whole(pc[d])
    BY DEF Inv, Actors
  <1>4. CASE ledger_cleanup(d)
    <2>1. UNCHANGED <<wire, pc>>
      BY <1>4 DEF ledger_cleanup
    <2>2. /\ pending' \in [Keys -> Envelopes \cup {None}] /\ DOMAIN outStored' = Keys
          /\ \A k \in Keys : outStored'[k] # None => outStored'[k] = outStored[k]
      BY <1>2, <1>4 DEF ledger_cleanup, Cleaned
    <2> QED
      BY <1>1, <2>1, <2>2, TrustDevice
  <1>5. CASE attempt_pending_runtime_mailbox_upload(d)
    <2>1. UNCHANGED <<pending, outStored>>
      BY <1>5 DEF attempt_pending_runtime_mailbox_upload, ledgers
    <2>2. PICK k \in First(Waiting(d)) : /\ wire' = wire \cup {Put(k, pending[k])}
                                         /\ Becomes(d, At("put", k, None))
      BY <1>5 DEF attempt_pending_runtime_mailbox_upload
    <2>3. pending[k] \in Envelopes
      BY <1>2 DEF First, Waiting, Outbox
    <2>4. \A q \in wire' : q \in wire \/ q.envelope \in Envelopes
      BY <2>2, <2>3, SMT DEF Put
    <2>5. \A e \in Devices : pc'[e] = pc[e] \/ Apart(pc'[e])
      BY <2>2, OneMoves, ApartPlaces, ZenonT(30) DEF Inv, Actors
    <2> QED
      BY <1>1, <1>2, <2>1, <2>4, <2>5, TrustDevice, ZenonT(30)
  <1>6. CASE poll_pending_delete(d)
    <2>1. PICK k, r : wire' = wire \cup {Erase(r)} /\ Becomes(d, At("redelete", k, r))
      BY <1>6 DEF poll_pending_delete
    <2>2. UNCHANGED <<pending, outStored>> /\ \A q \in wire' : q \in wire \/ q.op = "delete"
      BY <1>6, <2>1, SMT DEF poll_pending_delete, ledgers, Erase
    <2> QED
      BY <1>1, <1>2, <2>1, <2>2, OneMoves, ApartPlaces, TrustDevice, SMT
  <1>7. CASE prepare_inbound_fails(d) \/ GiveUp(d) \/ Interrupt(d)
    <2>1. UNCHANGED <<pending, outStored, wire>> /\ Becomes(d, Idle)
      BY <1>7 DEF prepare_inbound_fails, GiveUp, Interrupt, ledgers
    <2> QED
      BY <1>1, <1>2, <2>1, OneMoves, ApartPlaces, TrustDevice, ZenonT(30)
  <1>8. CASE record_inbound_commit(d)
    <2>1. UNCHANGED <<pending, outStored>> /\ \A q \in wire' : q \in wire \/ q.op = "delete"
      BY <1>8, SMT DEF record_inbound_commit, Erase
    <2>2. \/ \E place \in {"delete", "redelete"} : Becomes(d, [pc[d] EXCEPT !.at = place])
          \/ Becomes(d, Idle)
      BY <1>8, RecordGoesOn DEF record_inbound_commit
    <2>3. \A place \in {"delete", "redelete"} : Apart([pc[d] EXCEPT !.at = place])
      BY <1>3, ApartPlaces DEF Reading
    <2>4. \A e \in Devices : pc'[e] = pc[e] \/ Apart(pc'[e])
      BY <2>2, <2>3, OneMoves, ApartPlaces
    <2> QED
      BY <1>1, <1>2, <2>1, <2>4, TrustDevice
  <1>9. CASE mark_inbound_deleted(d)
    <2>1. UNCHANGED <<pending, outStored>> /\ pc[d].at \in {"delete", "redelete"}
      BY <1>9 DEF mark_inbound_deleted
    <2>2. PICK a : a = <<"a", pc[d].key[2]>>
      OBVIOUS
    <2>3. a \in Keys
      BY <2>1, <2>2, KeysArePairs DEF Inv, Actors, Held, Inbox, Reading, Devices
    <2>4. \/ wire' = wire /\ Becomes(d, Idle)
          \/ /\ pending[a] # None
             /\ wire' = wire \cup {Put(a, pending[a])} /\ Becomes(d, At("put", a, None))
      BY <1>9, <2>2 DEF mark_inbound_deleted
    <2>5. \A q \in wire' : q \in wire \/ q.envelope \in Envelopes
      BY <1>2, <2>3, <2>4, SMT DEF Put
    <2>6. \A e \in Devices : pc'[e] = pc[e] \/ Apart(pc'[e])
      BY <2>4, OneMoves, ApartPlaces, SMT
    <2> QED
      BY <1>1, <1>2, <2>1, <2>5, <2>6, TrustDevice
  <1>10. CASE attempt_runtime_mailbox_poll(d)
    <2>1. UNCHANGED <<pending, outStored, wire>> /\ Becomes(d, At("poll", None, None))
      BY <1>10 DEF attempt_runtime_mailbox_poll, ledgers
    <2>2. PICK p : p = At("poll", None, None)
      OBVIOUS
    <2>3. Becomes(d, p) /\ Apart(p)
      BY <2>1, <2>2, ApartPlaces
    <2>4. \A e \in Devices : pc'[e] = pc[e] \/ Apart(pc'[e])
      BY <2>3, OneMoves
    <2> QED
      BY <1>1, <1>2, <2>1, <2>4, TrustDevice
  <1> QED
    BY <1>4, <1>5, <1>6, <1>7, <1>8, <1>9, <1>10, ZenonT(30)

\* The transactions of the application leave the sender's side alone.
LEMMA ApplicationTrust ==
  ASSUME Inv, Inv', Trust,
         \/ commit_runtime_mailbox_text \/ commit_runtime_mailbox_acknowledgement
         \/ tolerate_unavailable_runtime_reverse_mailbox_acknowledgement
  PROVE  Trust'
  <1> USE Zenon
  <1>1. /\ UNCHANGED <<store, dispatch, seals, pending, outStored, wire>>
        /\ received \subseteq received' /\ delivered \subseteq delivered'
    BY DEF commit_runtime_mailbox_text, commit_runtime_mailbox_acknowledgement,
           tolerate_unavailable_runtime_reverse_mailbox_acknowledgement, Fault, events, ledgers,
           history
  <1>2. PICK d \in Devices, place \in {"ingested", "prepared", "unprepared"} :
            Becomes(d, [pc[d] EXCEPT !.at = place])
    BY DEF commit_runtime_mailbox_text, commit_runtime_mailbox_acknowledgement,
           tolerate_unavailable_runtime_reverse_mailbox_acknowledgement, Devices
  <1>3. Apart([pc[d] EXCEPT !.at = place])
    BY ApartPlaces DEF Inv, Actors, Reading
  <1>4. \A e \in Devices : pc'[e] = pc[e] \/ Apart(pc'[e])
    BY <1>2, <1>3, OneMoves
  <1> QED
    BY <1>1, <1>4, TrustDevice DEF Trust, Values, Recorded

\* The fallback commits its dispatch before it seals.
LEMMA FallbackTrust ==
  ASSUME Inv, Inv', Trust, NEW t \in Texts, attempt_runtime_mailbox_fallback(t) PROVE Trust'
  <1>1. /\ UNCHANGED <<store, seals, pending, outStored, wire, received, delivered>>
        /\ dispatch' = [dispatch EXCEPT ![t] = clock + Ttl] /\ dispatch[t] = None
        /\ Becomes("a", At("dispatched", <<"b", t>>, None))
    BY Zenon DEF attempt_runtime_mailbox_fallback, ledgers, history
  <1>2. clock' = clock /\ items' = items /\ clock <= clock'
    BY <1>1 DEF store, Trust, Values
  <1>3. clock + Ttl \in Expiries
    BY BoundsAssumption DEF Trust, Values, Expiries
  <1>4. \A u \in Texts : dispatch'[u] = IF u = t THEN clock + Ttl ELSE dispatch[u]
    BY <1>1, Zenon DEF Trust, Values
  <1>5. Values'
    BY <1>1, <1>2, <1>3, Zenon DEF Trust, Values
  <1>6. \A e \in Devices : pc'[e] = IF e = "a" THEN At("dispatched", <<"b", t>>, None) ELSE pc[e]
    BY <1>1, OneMoves, Zenon DEF Devices
  <1>7. pc'["a"].at = "dispatched" /\ pc'["a"].key[2] = t
    BY <1>6 DEF At, Devices
  <1>8. Ready("a")'
    BY <1>3, <1>4, <1>7, Zenon DEF Ready
  <1>9. \A e \in Devices : pc'[e] = pc[e] \/ Ready(e)'
    BY <1>6, <1>8, Zenon
  <1> QED
    BY <1>1, <1>2, <1>3, <1>4, <1>5, <1>9, TrustStep DEF Trust, Recorded

\* What device a seals is an envelope of the dispatch's lifetime.
LEMMA SealTrust ==
  ASSUME Inv, Inv', Trust, NEW k \in Outbox("a"), NEW expires \in Expiries,
         SealAndUpload("a", k, expires), UNCHANGED <<store, events, outStored>>
  PROVE  Trust'
  <1> USE Zenon
  <1>1. UNCHANGED <<dispatch, received, delivered>> /\ k \in Keys
    BY DEF events, Outbox
  <1>2. clock' = clock /\ items' = items /\ clock <= clock'
    BY SMT DEF store, Trust, Values
  <1>3. PICK e : e = [expires |-> expires, seal |-> seals[k] + 1]
    OBVIOUS
  <1>4. e \in Envelopes /\ seals' \in [Keys -> 0..MaxSeals]
    BY <1>1, <1>3, SealedIsEnvelope DEF SealAndUpload, Trust
  <1>5. seals'[k] = seals[k] + 1
    BY <1>1 DEF SealAndUpload, Trust, Values
  <1>6. pending' = [pending EXCEPT ![k] = e]
    BY <1>3, <1>5 DEF SealAndUpload
  <1>7. pending' \in [Keys -> Envelopes \cup {None}] /\ pending'[k] = e
    BY <1>1, <1>4, <1>6 DEF Trust, Values
  <1>8. \A q \in wire' : q \in wire \/ q.envelope = e
    BY <1>7, SMT DEF SealAndUpload, Put
  <1>9. Values'
    BY <1>1, <1>2, <1>4, <1>7, <1>8 DEF Trust, Values
  <1>10. \A d \in Devices : pc'[d] = pc[d] \/ Apart(pc'[d])
    BY OneMoves, ApartPlaces DEF SealAndUpload, Devices
  <1> QED
    BY <1>1, <1>2, <1>9, <1>10, TrustStep DEF Trust, Recorded

\* enqueue_outbound and the repair of an orphan take the expiry from the dispatch.
LEMMA EnqueueTrust ==
  ASSUME Inv, Inv', Trust, enqueue_outbound \/ prepare_orphan_runtime_mailbox_dispatch
  PROVE  Trust'
  <1> USE Zenon
  <1>1. CASE enqueue_outbound
    <2>1. PICK k, expires : k = pc["a"].key /\ expires = dispatch[k[2]]
      OBVIOUS
    <2>2. /\ pc["a"].at = "dispatched" /\ SealAndUpload("a", k, expires)
          /\ UNCHANGED <<store, events, outStored>>
      BY <1>1, <2>1, ZenonT(30) DEF enqueue_outbound
    <2>3. Held("a") /\ Ready("a")
      BY DEF Inv, Actors, Trust, Devices
    <2>4. k \in Outbox("a")
      BY <2>1, <2>2, <2>3 DEF Held
    <2>5. expires \in Expiries
      BY <2>1, <2>2, <2>3 DEF Ready
    <2> QED
      BY <2>2, <2>4, <2>5, SealTrust
  <1>2. CASE prepare_orphan_runtime_mailbox_dispatch
    <2>1. PICK k, expires : /\ k \in First(Orphans) /\ expires = dispatch[k[2]]
                            /\ SealAndUpload("a", k, expires)
                            /\ UNCHANGED <<store, events, outStored>>
      BY <1>2 DEF prepare_orphan_runtime_mailbox_dispatch
    <2>2. k \in Outbox("a") /\ dispatch[k[2]] # None /\ k[2] \in Texts
      BY <2>1, KeysArePairs DEF First, Orphans, Outbox
    <2>3. expires \in Expiries
      BY <2>1, <2>2 DEF Trust, Values
    <2> QED
      BY <2>1, <2>2, <2>3, SealTrust, ZenonT(30)
  <1> QED
    BY <1>1, <1>2

\* The acknowledgement is sealed for its own lifetime.
LEMMA ReverseTrust ==
  ASSUME Inv, Inv', Trust, prepare_runtime_reverse_mailbox_acknowledgement PROVE Trust'
  <1> USE Zenon
  <1>1. /\ UNCHANGED <<store, wire, dispatch, received, delivered, outStored>>
        /\ pc["b"].at = "ingested" /\ Becomes("b", [pc["b"] EXCEPT !.at = "prepared"])
    BY DEF prepare_runtime_reverse_mailbox_acknowledgement, events
  <1>2. clock' = clock /\ items' = items /\ clock <= clock'
    BY <1>1, SMT DEF store, Trust, Values
  <1>3. PICK k : k = <<"a", pc["b"].key[2]>>
    OBVIOUS
  <1>4. k \in Keys
    BY <1>1, <1>3, KeysArePairs, SMT DEF Inv, Actors, Held, Inbox, Reading, Devices
  <1>5. PICK e : e = [expires |-> clock + Ttl, seal |-> seals[k] + 1]
    OBVIOUS
  <1>6. ASSUME UNCHANGED <<pending, seals>> PROVE Values'
    BY <1>1, <1>2, <1>6 DEF Trust, Values
  <1>7. ASSUME /\ seals[k] < MaxSeals /\ seals' = [seals EXCEPT ![k] = @ + 1]
               /\ pending' = [pending EXCEPT ![k] = [expires |-> clock + Ttl, seal |-> seals'[k]]]
        PROVE  Values'
    <2>1. clock + Ttl \in Expiries
      BY BoundsAssumption, SMT DEF Trust, Values, Expiries
    <2>2. e \in Envelopes /\ seals' \in [Keys -> 0..MaxSeals]
      BY <1>4, <1>5, <1>7, <2>1, SealedIsEnvelope DEF Trust
    <2>3. seals'[k] = seals[k] + 1
      BY <1>4, <1>7 DEF Trust, Values
    <2>4. pending' = [pending EXCEPT ![k] = e]
      BY <1>5, <1>7, <2>3
    <2>5. pending' \in [Keys -> Envelopes \cup {None}]
      BY <1>4, <2>2, <2>4 DEF Trust, Values
    <2> QED
      BY <1>1, <1>2, <2>2, <2>5, SMT DEF Trust, Values
  <1>8. Apart([pc["b"] EXCEPT !.at = "prepared"])
    BY ApartPlaces DEF Inv, Actors, Devices, Reading
  <1>9. \A d \in Devices : pc'[d] = pc[d] \/ Apart(pc'[d])
    BY <1>1, <1>8, OneMoves DEF Devices
  <1>10. Values'
    BY <1>3, <1>6, <1>7 DEF prepare_runtime_reverse_mailbox_acknowledgement
  <1> QED
    BY <1>1, <1>2, <1>9, <1>10, TrustStep, SMT DEF Trust, Recorded

\* mark_outbound_stored records the receipt that the store returned.
LEMMA StoredTrust ==
  ASSUME Inv, Inv', Trust, NEW d \in Devices, mark_outbound_stored(d) PROVE Trust'
  <1> USE Zenon
  <1>1. UNCHANGED <<store, wire, dispatch, received, delivered, seals>> /\ Becomes(d, Idle)
    BY DEF mark_outbound_stored, events, history
  <1>2. clock' = clock /\ items' = items /\ clock <= clock'
    BY <1>1, SMT DEF store, Trust, Values
  <1>3. pending' \in [Keys -> Envelopes \cup {None}]
    BY DEF mark_outbound_stored, Trust, Values
  <1>4. Values'
    BY <1>1, <1>2, <1>3 DEF Trust, Values
  <1>5. /\ DOMAIN outStored' = Keys
        /\ \A k \in Keys : outStored'[k] # None
             => \/ outStored'[k] = outStored[k]
                \/ outStored'[k].key = k /\ Entrusted(outStored'[k])
    <2>1. CASE pc[d].reply \in {"Created", "AlreadyPresent"}
      <3>1. PICK k, r : k = pc[d].key /\ r = pc[d].receipt
        OBVIOUS
      <3>2. k \in Keys /\ r.key = k /\ Entrusted(r)
        BY <2>1, <3>1 DEF mark_outbound_stored, Trust, Ready
      <3>3. outStored' = [outStored EXCEPT ![k] = r]
        BY <2>1, <3>1 DEF mark_outbound_stored
      <3>4. \A j \in Keys : outStored'[j] = IF j = k THEN r ELSE outStored[j]
        BY <3>3 DEF Trust, Recorded
      <3> QED
        BY <3>2, <3>3, <3>4 DEF Trust, Recorded
    <2>2. CASE pc[d].reply \notin {"Created", "AlreadyPresent"}
      BY <2>2 DEF mark_outbound_stored, Trust, Recorded
    <2> QED
      BY <2>1, <2>2
  <1>6. \A e \in Devices : pc'[e] = pc[e] \/ Apart(pc'[e])
    BY <1>1, OneMoves, ApartPlaces
  <1> QED
    BY <1>1, <1>2, <1>4, <1>5, <1>6, TrustStep, ZenonT(30)

\* The steps of the store that may only remove what expired or was read.
LEMMA RemovalTrust ==
  ASSUME Inv, Inv', Trust, UNCHANGED <<dispatch, seals, pending, outStored, received, delivered>>,
         clock' \in 0..MaxClock, clock <= clock', wire' \subseteq wire,
         items' \in [Keys -> Store!Receipts \cup {None}],
         \A k \in Keys : items[k] # None /\ items[k].expires > clock
                           => items'[k] = items[k] \/ ReadBy(k),
         \A d \in Devices : pc'[d] = pc[d] \/ Apart(pc'[d])
  PROVE  Trust'
  <1> USE Zenon
  <1>1. Values'
    BY DEF Trust, Values
  <1>2. \A k : ReadBy(k) => ReadBy(k)'
    BY CommitsStay
  <1> QED
    BY <1>1, <1>2, TrustStep DEF Trust, Recorded

\* Listing, deleting, restarting and the passing of time.
LEMMA StoreTrust ==
  ASSUME Inv, Inv', Trust,
         \/ \E d \in Devices : poll_list(d)
         \/ \E q \in wire : service_delete(q)
         \/ Tick \/ RestartStore \/ \E q \in wire : LoseRequest(q)
  PROVE  Trust'
  <1> USE Zenon
  <1>1. /\ UNCHANGED <<dispatch, seals, pending, outStored, received, delivered>>
        /\ wire' \subseteq wire
    BY DEF poll_list, service_delete, Tick, RestartStore, LoseRequest, Fault, events,
       ledgers, history
  <1>2. clock \in 0..MaxClock /\ clock \in Nat /\ items \in [Keys -> Store!Receipts \cup {None}]
    BY BoundsAssumption, SMT DEF Trust, Values
  <1>3. CASE \E d \in Devices : poll_list(d)
    <2>1. PICK d \in Devices : poll_list(d)
      BY <1>3
    <2>2. PICK now \in Store!Times : Store!CleanupEffect(now)
      BY <2>1 DEF poll_list
    <2>3. clock' = clock
      BY <2>1 DEF poll_list
    <2>4. Becomes(d, Idle) \/ \E k, r : Becomes(d, At("listed", k, r))
      BY <2>1 DEF poll_list
    <2>5. \A e \in Devices : pc'[e] = pc[e] \/ Apart(pc'[e])
      BY <2>4, OneMoves, ApartPlaces, SMT
    <2>6. /\ items' \in [Keys -> Store!Receipts \cup {None}] /\ clock <= clock'
          /\ \A k \in Keys : items[k] # None /\ items[k].expires > clock => items'[k] = items[k]
      BY <1>2, <2>2, <2>3, CleanupHolds, SMT DEF Trust
    <2> QED
      BY <1>1, <1>2, <2>3, <2>5, <2>6, RemovalTrust
  <1>4. CASE \E q \in wire : service_delete(q)
    <2>1. PICK q \in wire, now \in Store!Times : pc' = pc /\ Store!delete(q.receipt, now)
      BY <1>4 DEF service_delete
    <2>2. clock' = clock /\ Store!CleanupEffect(now)
      BY <2>1 DEF Store!delete
    <2> QED
      BY <1>1, <1>2, <2>1, <2>2, CleanupHolds, RemovalTrust, SMT DEF Trust
  <1>5. CASE RestartStore
    <2>1. PICK now \in Store!Times : pc' = pc /\ Store!open(now)
      BY <1>5 DEF RestartStore
    <2>2. clock' = clock /\ (Store!CleanupEffect(now) \/ items' = items)
      BY <2>1 DEF Store!open, Store!tables
    <2> QED
      BY <1>1, <1>2, <2>1, <2>2, CleanupHolds, RemovalTrust, SMT DEF Trust
  <1>6. CASE Tick
    <2>1. pc' = pc /\ items' = items /\ clock < MaxClock /\ clock' = clock + 1
      BY <1>6 DEF Tick, Store!Tick, Store!tables
    <2>2. clock' \in 0..MaxClock /\ clock <= clock'
      BY <1>2, <2>1, BoundsAssumption, SMT
    <2> QED
      BY <1>1, <1>2, <2>1, <2>2, RemovalTrust
  <1>7. CASE \E q \in wire : LoseRequest(q)
    <2>1. pc' = pc /\ items' = items /\ clock' = clock
      BY <1>7 DEF LoseRequest, store
    <2> QED
      BY <1>1, <1>2, <2>1, RemovalTrust, SMT
  <1> QED
    BY <1>3, <1>4, <1>5, <1>6, <1>7, ZenonT(30)

\* The transaction of a delete removes an item that was read.
LEMMA DeleteTrust == ASSUME Inv, Inv', Trust, ServeCommit PROVE Trust'
  <1> USE Zenon
  <1>1. PICK r \in deletes : service_delete_commit(r)
    BY DEF ServeCommit
  <1>2. /\ UNCHANGED <<dispatch, seals, pending, outStored, received, delivered, wire>>
        /\ Store!delete_commit(r)
    BY <1>1 DEF service_delete_commit, events, ledgers
  <1>3. r.key \in Keys /\ ReadBy(r.key)
    BY DEF Inv, Origins, DeletedOnlyAfterCommit
  <1>4. clock' = clock /\ (Store!DeleteEffect(r) \/ items' = items)
    BY <1>2 DEF Store!delete_commit, Store!tables
  <1>5. /\ items' \in [Keys -> Store!Receipts \cup {None}]
        /\ \A k \in Keys : items'[k] = items[k] \/ ReadBy(k)
    BY <1>3, <1>4 DEF Store!DeleteEffect, Trust, Values
  <1>6. PICK d, outcome : d = r.key[1] /\ outcome = Store!DeleteOutcome(r)
    OBVIOUS
  <1>7. d \in Devices
    BY <1>3, <1>6, KeysArePairs
  <1>8. (pc[d].at \in {"delete", "redelete"} /\ Becomes(d, Answer(d, outcome, r))) \/ pc' = pc
    BY <1>1, <1>6 DEF service_delete_commit
  <1>9. pc[d].at \in {"delete", "redelete"} => Apart(Answer(d, outcome, r))
    BY <1>7, SMT DEF Apart, Answer, Inv, Actors, Whole
  <1>10. \A e \in Devices : pc'[e] = pc[e] \/ Apart(pc'[e])
    BY <1>7, <1>8, <1>9, OneMoves
  <1>11. clock' \in 0..MaxClock /\ clock <= clock'
    BY <1>4, BoundsAssumption, SMT DEF Trust, Values
  <1> QED
    BY <1>2, <1>5, <1>10, <1>11, RemovalTrust

\* A PUT leaves a live item alone, and its receipt is of what the mailbox then holds.
LEMMA PutTrust == ASSUME Inv, Inv', Trust, NEW q \in wire, service_put(q) PROVE Trust'
  <1> USE Zenon
  <1>1. /\ UNCHANGED <<dispatch, seals, pending, outStored, received, delivered>>
        /\ wire' \subseteq wire
    BY DEF service_put, events, ledgers, history
  <1>2. PICK k, e : k = q.key /\ e = q.envelope
    OBVIOUS
  <1>3. k \in Keys /\ e \in Envelopes
    BY <1>2 DEF service_put, Inv, Origins, Trust, Values
  <1>4. PICK d, now : /\ d = Peer(k[1]) /\ now \in Store!Times
                      /\ Store!put(k, e, Ttl, now)
                      /\ \/ pc' = pc
                         \/ /\ pc[d].at = "put" /\ pc[d].key = k
                            /\ Becomes(d, Answer(d, Store!PutOutcome(k, e, Ttl, now), items'[k]))
    BY <1>2 DEF service_put
  <1>5. PICK outcome, r, new : /\ outcome = Store!PutOutcome(k, e, Ttl, now) /\ r = items'[k]
                               /\ new = Store!NewReceipt(k, e, Ttl, now)
    OBVIOUS
  <1>6. /\ d \in Devices /\ now \in Nat /\ now <= clock /\ clock \in Nat
        /\ items[k] # None /\ items[k].expires > clock => Store!Live(items[k], now)
    <2>1. d \in Devices
      BY <1>4 DEF Peer, Devices
    <2> QED
      BY <1>3, <1>4, <2>1, TimesBehind, ZenonT(30) DEF Trust
  <1>7. new \in Store!Receipts /\ new # None /\ new.key = k /\ new.expires \in Nat
    <2>1. Store!Receipts = [key : Devices \X Texts, envelope : Envelopes, storedAt : Nat, expires : Nat]
      BY DEF Store!Receipts, Store!Keys
    <2>2. Keys = Devices \X Texts
      BY DEF Keys, Store!Keys
    <2>3. new = [key |-> k, envelope |-> e, storedAt |-> now, expires |-> now + Ttl]
      BY <1>5 DEF Store!NewReceipt
    <2>4. now + Ttl \in Nat
      BY <1>6, BoundsAssumption, SMT
    <2>5. new \in Store!Receipts
      BY <1>3, <1>6, <2>1, <2>2, <2>3, <2>4, SMT
    <2> QED
      BY <2>1, <2>3, <2>4, <2>5, NoneAssumption
  <1>8. clock' = clock /\ Store!PutEffect(k, e, Ttl, now)
    BY <1>4 DEF Store!put
  <1>9. /\ Store!Live(items[k], now) => outcome \in {"AlreadyPresent", "Conflict"}
        /\ outcome = "AlreadyPresent" => Store!Live(items[k], now)
    BY <1>5 DEF Store!PutOutcome
  <1>10. /\ items' \in [Keys -> Store!Receipts \cup {None}]
         /\ \A j \in Keys \ {k} : items'[j] = items[j]
         /\ outcome \in {"AlreadyPresent", "Conflict"} => items'[k] = items[k]
         /\ outcome = "Created" => items'[k] = new
    BY <1>3, <1>5, <1>7, <1>8, ZenonT(30) DEF Store!PutEffect, Store!tables, Trust, Values
  <1>11. \A j \in Keys : items[j] # None /\ items[j].expires > clock => items'[j] = items[j]
    BY <1>6, <1>9, <1>10
  <1>12. Values' /\ clock <= clock'
    <2>1. Values'
      BY <1>1, <1>8, <1>10 DEF Trust, Values
    <2> QED
      BY <1>6, <1>8, <2>1, SMT
  <1>13. outcome \in {"Created", "AlreadyPresent"} => r # None /\ r.key = k /\ Entrusted(r)'
    <2>1. CASE outcome = "Created"
      BY <1>5, <1>7, <1>10, <2>1 DEF Entrusted
    <2>2. CASE outcome = "AlreadyPresent"
      <3>1. r = items[k] /\ r # None
        BY <1>5, <1>9, <1>10, <2>2, ZenonT(30) DEF Store!Live
      <3>2. r.key = k /\ r.expires \in Nat
        BY <1>3, <3>1, SMT DEF Inv, Origins, Trust, Values, Store!Receipts
      <3> QED
        BY <1>5, <3>1, <3>2 DEF Entrusted
    <2> QED
      BY <2>1, <2>2
  <1>14. \A f \in Devices : pc'[f] = pc[f] \/ Ready(f)'
    <2>1. CASE pc' = pc
      BY <2>1
    <2>2. CASE pc[d].at = "put" /\ pc[d].key = k /\ Becomes(d, Answer(d, outcome, r))
      <3>1. /\ Answer(d, outcome, r).at = "put" /\ Answer(d, outcome, r).key = k
            /\ Answer(d, outcome, r).receipt = r /\ Answer(d, outcome, r).reply = outcome
        BY <1>6, <2>2, SMT DEF Answer, Inv, Actors, Whole
      <3>2. PICK p : p = Answer(d, outcome, r)
        OBVIOUS
      <3>3. \A f \in Devices : pc'[f] = IF f = d THEN p ELSE pc[f]
        BY <1>6, <2>2, <3>2, OneMoves, ZenonT(30)
      <3>4. outcome \in {"Created", "AlreadyPresent"} => Entrusted(pc[d].receipt)'
        BY <1>6, <1>13, <3>1, <3>2, <3>3, ZenonT(30) DEF Entrusted
      <3> QED
        BY <1>3, <1>6, <1>13, <3>1, <3>2, <3>3, <3>4, ZenonT(30) DEF Ready
    <2> QED
      BY <1>4, <1>5, <2>1, <2>2
  <1> QED
    BY <1>1, <1>11, <1>12, <1>14, TrustStep, ZenonT(30) DEF Trust, Recorded

\* Nothing is sent, stored or recorded at first.
LEMMA InitTrust == Init => Trust
  <1> SUFFICES ASSUME Init PROVE Trust
    BY Zenon
  <1>1. Values
    BY BoundsAssumption DEF Init, Store!Init, Values, Keys
  <1>2. Recorded /\ \A d \in Devices : Ready(d)
    BY Zenon DEF Init, Recorded, Ready, Idle
  <1> QED
    BY <1>1, <1>2, Zenon DEF Trust

\* Every step keeps the trust in the receipts.
LEMMA StepTrust == ASSUME Inv, Inv', Trust, [Next]_vars PROVE Trust'
  <1> USE Zenon
  <1>1. ASSUME NEW d \in Devices, Act(d) PROVE Trust'
    BY <1>1, QuietTrust, StoredTrust, StoreTrust DEF Act
  <1>9. CASE \/ \E t \in Texts : attempt_runtime_mailbox_fallback(t)
             \/ tolerate_unavailable_runtime_reverse_mailbox_acknowledgement
    BY <1>9, FallbackTrust, ApplicationTrust
  <1>2. CASE ActA
    BY <1>1, <1>2, EnqueueTrust, ApplicationTrust DEF ActA, Devices
  <1>3. CASE ActB
    BY <1>1, <1>3, ApplicationTrust, ReverseTrust DEF ActB, Devices
  <1>4. CASE \E q \in wire : Serve(q)
    BY <1>4, PutTrust, StoreTrust DEF Serve
  <1>5. CASE ServeCommit
    BY <1>5, DeleteTrust
  <1>6. CASE \E d \in Devices : Interrupt(d)
    BY <1>6, QuietTrust
  <1>7. CASE Tick \/ RestartStore \/ (\E q \in wire : LoseRequest(q))
    BY <1>7, StoreTrust
  <1>8. CASE UNCHANGED vars
    <2>1. UNCHANGED <<store, wire, dispatch, received, delivered, pending, outStored, seals, pc>>
      BY <1>8 DEF vars, events, ledgers, history
    <2> QED
      BY <2>1, TrustDevice DEF Trust, Values, Recorded
  <1> QED
    BY <1>2, <1>3, <1>4, <1>5, <1>6, <1>7, <1>8, <1>9, ZenonT(30) DEF Next

\* mark_outbound_stored: an upload that the sender retries no more is held by the mailbox until
\* it expires, unless its reader has committed it.
THEOREM StoredUploadsAreSafe == Spec => []StoredIsHeldOrRead
  <1>1. Init => Trust
    BY InitTrust
  <1>2. Inv /\ Inv' /\ Trust /\ [Next]_vars => Trust'
    BY StepTrust, Zenon
  <1>3. Trust => StoredIsHeldOrRead
    BY Zenon DEF Trust, Recorded, Entrusted, StoredIsHeldOrRead
  <1> QED
    BY <1>1, <1>2, <1>3, DeliveryInvariance, PTL DEF Spec
-----------------------------------------------------------------------------
(* One ciphertext                                                          *)

\* A set all of whose members are equal has at most one.
LEMMA AtMostOne ==
  ASSUME NEW S, \A x \in S, y \in S : x = y PROVE Cardinality(S) <= 1
  <1> USE Zenon
  <1> DEFINE Counts(f) == f = [T \in SUBSET S |-> IF T = {} THEN 0
                                                  ELSE 1 + f[T \ {CHOOSE x : x \in T}]]
  <1>1. \A T \in SUBSET S : T # {} => T \ {CHOOSE x : x \in T} = {}
    OBVIOUS
  <1>2. \E f : Counts(f)
    <2>1. PICK g : g = [T \in SUBSET S |-> IF T = {} THEN 0 ELSE 1]
      OBVIOUS
    <2>2. \A T \in SUBSET S : T # {} => g[T \ {CHOOSE x : x \in T}] = 0
      BY <1>1, <2>1
    <2>3. Counts(g)
      BY <2>1, <2>2, SMT
    <2> QED
      BY <2>3
  <1>3. PICK f : f = (CHOOSE h : Counts(h)) /\ Counts(f)
    BY <1>2
  <1>4. Cardinality(S) = f[S]
    BY <1>3 DEF Cardinality
  <1>5. f[{}] = 0 /\ (S # {} => f[S] = 1 + f[S \ {CHOOSE x : x \in S}])
    BY <1>3
  <1>6. f[S] \in {0, 1}
    BY <1>1, <1>5, SMT
  <1> QED
    BY <1>4, <1>6, SMT

LEMMA CopiesInvariance == Spec => []Copies
  <1> USE Zenon
  <1>1. Init => Trust /\ Copies
    BY InitTrust, InitCopies
  <1>2. Inv /\ Inv' /\ Trust /\ [Next]_vars => Trust'
    BY StepTrust
  <1>3. Inv /\ Trust /\ Trust' /\ Copies /\ [Next]_vars => Copies'
    BY StepCopies DEF Trust
  <1> QED
    BY <1>1, <1>2, <1>3, DeliveryInvariance, PTL DEF Spec

\* enqueue_outbound, prepare_orphan_runtime_mailbox_dispatch and the sealing of the reverse
\* acknowledgement: while a dispatch is in force, whatever is interrupted, lost or retried and
\* however far the store's time is behind, an item has one ciphertext wherever it is pending,
\* in flight, stored or recorded.
THEOREM OneCiphertext == Spec => []OneCopyInForce
  <1> USE Zenon
  <1>1. Copies => OneCopyInForce
    <2> SUFFICES ASSUME Copies, NEW k \in Keys, InForce(k) PROVE Cardinality(CopiesOf(k)) <= 1
      BY DEF OneCopyInForce
    <2>1. \A e \in CopiesOf(k) : e \in Envelopes /\ Copy(k, e)
      BY DEF CopiesOf, Copy
    <2>2. \A e \in CopiesOf(k), f \in CopiesOf(k) : e = f
      BY <2>1 DEF Copies, Same
    <2> QED
      BY <2>2, AtMostOne
  <1> QED
    BY <1>1, CopiesInvariance, PTL

\* put and its tombstones: while a dispatch is in force, neither a late or repeated PUT nor a
\* repaired dispatch brings back an item whose deletion was proven to its reader.
THEOREM DeletionIsFinal == Spec => []NoResurrectionInForce
  <1>1. Copies => NoResurrectionInForce
    BY Zenon DEF Copies, Graves, Standing, NoResurrectionInForce
  <1> QED
    BY <1>1, CopiesInvariance, PTL
=============================================================================
