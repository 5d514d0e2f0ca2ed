-------------------- MODULE MailboxDeliveryDeleteProofs ---------------------
(***************************************************************************)
(* The delete of a poll is of the item that the poll has read, for every    *)
(* instance of the delayed delivery: a reader that reaches its delete owes  *)
(* no other one (Selection).                                                *)
(***************************************************************************)
EXTENDS MailboxDeliveryProofs

LEMMA BuriedStays ==
  ASSUME clock \in Nat, clock' \in Nat, clock <= clock', Keeps
  PROVE  \A r : Buried(r) => Buried(r)'
  <1> SUFFICES ASSUME NEW r, Buried(r) PROVE Buried(r)'
    BY Zenon
  <1>1. r.expires > clock' => r.expires > clock
    BY DEF Buried
  <1> QED
    BY <1>1, Zenon DEF Buried, Keeps, Standing

\* A step keeps the selection when it keeps the tombstones, records deletions that were proven
\* before it, and leaves an actor and its part of the ledger alone or in a fitting state.
LEMMA SelectStep ==
  ASSUME Inv, Selection, clock \in Nat, clock' \in Nat, clock <= clock', Keeps,
         DOMAIN inDeleted' = Keys,
         \A k \in Keys : inDeleted'[k] # None
             => \/ inDeleted'[k] = inDeleted[k]
                \/ inDeleted'[k].key = k /\ Buried(inDeleted'[k]),
         \A k \in Keys : inCommitted'[k] # None
             => inCommitted'[k] = inCommitted[k] \/ inCommitted'[k].expires \in Nat,
         \A d \in Devices :
             \/ /\ pc'[d] = pc[d]
                /\ \A k \in Inbox(d) : inCommitted'[k] = inCommitted[k] /\ inDeleted'[k] = inDeleted[k]
             \/ Selected(d)'
  PROVE  Selection'
  <1> USE Zenon
  <1>1. \A r : Buried(r) => Buried(r)'
    BY BuriedStays
  <1>2. ASSUME NEW k \in Keys, inDeleted'[k] # None
        PROVE  inDeleted'[k].key = k /\ Buried(inDeleted[k])'
    <2>1. PICK r : r = inDeleted'[k]
      OBVIOUS
    <2>2. r.key = k /\ Buried(r)'
      BY <1>1, <1>2, <2>1, SMT DEF Selection
    <2> QED
      BY <2>1, <2>2 DEF Buried
  <1>3. ASSUME NEW d \in Devices PROVE Selected(d)'
    <2>1. CASE /\ pc'[d] = pc[d]
               /\ \A k \in Inbox(d) : /\ inCommitted'[k] = inCommitted[k]
                                      /\ inDeleted'[k] = inDeleted[k]
      <3>1. Eligible(d)' = Eligible(d)
        BY <2>1 DEF Eligible, Inbox
      <3>2. pc[d].at \in Reading => pc[d].key \in Inbox(d)
        BY DEF Inv, Actors, Held
      <3>3. PICK r : r = pc[d].receipt
        OBVIOUS
      <3>4. Buried(pc[d].receipt) => Buried(pc[d].receipt)'
        BY <1>1, <2>1, <3>3, SMT DEF Buried
      <3>5. Selected(d)
        BY DEF Selection
      <3>6. ASSUME NEW k, k = pc[d].key, pc[d].at \in Unrecorded, inDeleted'[k] # None
            PROVE  ~(inDeleted'[k].expires > clock')
        <4>1. k \in Keys /\ inDeleted'[k] = inDeleted[k]
          BY <2>1, <3>2, <3>6, SMT DEF Inbox, Reading, Unrecorded
        <4>2. ~(inDeleted[k].expires > clock) /\ inDeleted[k].expires \in Nat
          BY <3>5, <3>6, <4>1 DEF Selected, LedgerLive, Selection, Buried
        <4> QED
          BY <4>1, <4>2, SMT
      <3>7. pc[d].at \in Unrecorded /\ inDeleted'[pc[d].key] # None => ~LedgerLive(inDeleted[pc[d].key])'
        BY <2>1, <3>6 DEF LedgerLive
      <3> QED
        BY <2>1, <3>1, <3>4, <3>5, <3>7, ZenonT(30) DEF Selected
    <2> QED
      BY <2>1
  <1> QED
    BY <1>2, <1>3 DEF Selection

\* An actor that does not read fits.
LEMMA Elsewhere ==
  ASSUME NEW d \in Devices, pc'[d].at \notin Reading PROVE Selected(d)'
  <1>1. /\ pc'[d].at \notin Unrecorded /\ pc'[d].at # "delete"
        /\ pc'[d].at \notin {"delete", "redelete"} /\ pc'[d].at \notin Reading
    BY Zenon DEF Reading, Unrecorded
  <1> QED
    BY <1>1, Zenon DEF Selected

\* The steps of the devices that touch neither the store nor their inbound tables.
LEMMA SelectQuiet ==
  ASSUME Inv, Trust, Selection, UNCHANGED <<store, inCommitted, inDeleted>>,
         \A d \in Devices : pc'[d] = pc[d] \/ pc'[d].at \notin Reading \/ Selected(d)'
  PROVE  Selection'
  <1> USE Zenon
  <1>1. UNCHANGED <<clock, items, tombstones>>
    BY DEF store
  <1>2. clock \in Nat /\ clock' \in Nat /\ clock <= clock'
    BY <1>1, BoundsAssumption, SMT DEF Trust, Values
  <1>3. \A d \in Devices : pc'[d] = pc[d] \/ Selected(d)'
    BY Elsewhere
  <1>4. DOMAIN inDeleted' = Keys
    BY DEF Selection
  <1>5. Keeps
    BY <1>1 DEF Keeps, Standing
  <1> QED
    BY <1>2, <1>3, <1>4, <1>5, SelectStep

\* Sealing, uploading, giving up and being interrupted.
LEMMA OutboundSelect ==
  ASSUME Inv, Trust, Selection, NEW d \in Devices,
         \/ \E t \in Texts : attempt_runtime_mailbox_fallback(t)
         \/ enqueue_outbound \/ prepare_orphan_runtime_mailbox_dispatch
         \/ attempt_pending_runtime_mailbox_upload(d) \/ mark_outbound_stored(d)
         \/ prepare_inbound_fails(d) \/ GiveUp(d) \/ Interrupt(d)
         \/ attempt_runtime_mailbox_poll(d)
  PROVE  Selection'
  <1>1. UNCHANGED <<store, inCommitted, inDeleted>>
    BY Zenon DEF attempt_runtime_mailbox_fallback, enqueue_outbound,
           prepare_orphan_runtime_mailbox_dispatch, attempt_pending_runtime_mailbox_upload,
           mark_outbound_stored, prepare_inbound_fails, GiveUp, Interrupt,
           attempt_runtime_mailbox_poll, ledgers
  <1>2. PICK e, p : /\ e \in Devices /\ Becomes(e, p)
                                /\ \/ p = Idle
                                   \/ \E k : \/ p = At("dispatched", k, None) \/ p = At("put", k, None)
                                             \/ p = At("poll", k, None)
    BY ZenonT(30) DEF attempt_runtime_mailbox_fallback, enqueue_outbound,
           prepare_orphan_runtime_mailbox_dispatch, attempt_pending_runtime_mailbox_upload,
           mark_outbound_stored, prepare_inbound_fails, GiveUp, Interrupt,
           attempt_runtime_mailbox_poll, SealAndUpload, Devices
  <1>3. p.at \notin Reading
    BY <1>2 DEF Idle, At, Reading
  <1>4. \A f \in Devices : pc'[f] = pc[f] \/ pc'[f].at \notin Reading
    BY <1>2, <1>3, OneMoves, Zenon
  <1> QED
    BY <1>1, <1>4, SelectQuiet, Zenon

\* The application's transactions and the sealing of the acknowledgement.
LEMMA ApplicationSelect ==
  ASSUME Inv, Trust, Selection,
         \/ commit_runtime_mailbox_text \/ commit_runtime_mailbox_acknowledgement
         \/ prepare_runtime_reverse_mailbox_acknowledgement
         \/ tolerate_unavailable_runtime_reverse_mailbox_acknowledgement
  PROVE  Selection'
  <1> USE Zenon
  <1>1. UNCHANGED <<store, inCommitted, inDeleted>>
    BY DEF commit_runtime_mailbox_text, commit_runtime_mailbox_acknowledgement,
           prepare_runtime_reverse_mailbox_acknowledgement,
           tolerate_unavailable_runtime_reverse_mailbox_acknowledgement, ledgers
  <1>2. PICK d \in Devices, place \in {"ingested", "prepared", "unprepared"} :
            /\ pc[d].at \in {"listed", "ingested"}
            /\ Becomes(d, [pc[d] EXCEPT !.at = place])
    BY DEF commit_runtime_mailbox_text, commit_runtime_mailbox_acknowledgement,
           prepare_runtime_reverse_mailbox_acknowledgement,
           tolerate_unavailable_runtime_reverse_mailbox_acknowledgement, Opened, Devices
  <1>3. PICK p : p = [pc[d] EXCEPT !.at = place]
    OBVIOUS
  <1>4. p.at = place /\ p.key = pc[d].key /\ p.receipt = pc[d].receipt /\ p.reply = pc[d].reply
    BY <1>3, SMT DEF Inv, Actors, Whole
  <1>5. \A e \in Devices : pc'[e] = IF e = d THEN p ELSE pc[e]
    BY <1>2, <1>3, OneMoves, SMT
  <1>6. Eligible(d)' = Eligible(d)
    BY <1>1 DEF Eligible, Inbox
  <1>7. Selected(d)
    BY DEF Selection
  <1>8. Selected(d)'
    <2>1. LedgerLive(inDeleted[pc[d].key])' <=> LedgerLive(inDeleted[pc[d].key])
      BY <1>1, <1>4, <1>5 DEF LedgerLive, store
    <2>2. pc[d].at \in Unrecorded /\ pc[d].at \in Reading
      BY <1>2, SMT DEF Unrecorded, Reading
    <2>3. place # "delete" /\ place \notin {"delete", "redelete"}
      OBVIOUS
    <2> QED
      BY <1>1, <1>4, <1>5, <1>6, <1>7, <2>1, <2>2, <2>3, ZenonT(30) DEF Selected
  <1> QED
    BY <1>1, <1>5, <1>8, SelectQuiet

\* A step of one actor that leaves the store alone and changes its own part of the ledger only.
LEMMA SelectLedger ==
  ASSUME Inv, Trust, Selection, UNCHANGED store, NEW d \in Devices,
         \A e \in Devices \ {d} : pc'[e] = pc[e],
         DOMAIN inDeleted' = Keys,
         \A k \in Keys \ Inbox(d) : inCommitted'[k] = inCommitted[k] /\ inDeleted'[k] = inDeleted[k],
         \A k \in Inbox(d) : inDeleted'[k] # None
             => \/ inDeleted'[k] = inDeleted[k]
                \/ inDeleted'[k].key = k /\ Buried(inDeleted'[k]),
         \A k \in Inbox(d) : inCommitted'[k] # None
             => inCommitted'[k] = inCommitted[k] \/ inCommitted'[k].expires \in Nat,
         Selected(d)'
  PROVE  Selection'
  <1> USE Zenon
  <1>1. UNCHANGED <<clock, items, tombstones>>
    BY DEF store
  <1>2. clock \in Nat /\ clock' \in Nat /\ clock <= clock'
    BY <1>1, BoundsAssumption, SMT DEF Trust, Values
  <1>3. Keeps
    BY <1>1 DEF Keeps, Standing
  <1>4. \A e \in Devices \ {d} : \A k \in Inbox(e) : k \in Keys \ Inbox(d)
    BY DEF Inbox
  <1>5. \A e \in Devices :
            \/ /\ pc'[e] = pc[e]
               /\ \A k \in Inbox(e) : inCommitted'[k] = inCommitted[k] /\ inDeleted'[k] = inDeleted[k]
            \/ Selected(e)'
    BY <1>4
  <1>6. \A k \in Keys : inDeleted'[k] # None
             => \/ inDeleted'[k] = inDeleted[k]
                \/ inDeleted'[k].key = k /\ Buried(inDeleted'[k])
    OBVIOUS
  <1>7. \A k \in Keys : inCommitted'[k] # None
             => inCommitted'[k] = inCommitted[k] \/ inCommitted'[k].expires \in Nat
    OBVIOUS
  <1> QED
    BY <1>2, <1>3, <1>5, <1>6, <1>7, SelectStep

\* The ledger forgets expired records while its actor is idle.
LEMMA CleanupSelect ==
  ASSUME Inv, Trust, Selection, NEW d \in Devices, ledger_cleanup(d) PROVE Selection'
  <1> USE Zenon
  <1>1. UNCHANGED <<store, pc>> /\ pc[d] = Idle
    BY DEF ledger_cleanup
  <1>2. /\ \A k \in Keys \ Inbox(d) : inCommitted'[k] = inCommitted[k] /\ inDeleted'[k] = inDeleted[k]
        /\ \A k \in Keys : inDeleted'[k] # None => inDeleted'[k] = inDeleted[k]
        /\ \A k \in Keys : inCommitted'[k] # None => inCommitted'[k] = inCommitted[k]
        /\ DOMAIN inDeleted' = Keys
    BY DEF ledger_cleanup, Cleaned
  <1>3. Selected(d)'
    BY <1>1, Elsewhere, SMT DEF Idle, Reading
  <1>4. \A k \in Inbox(d) : k \in Keys
    BY DEF Inbox
  <1> QED
    BY <1>1, <1>2, <1>3, <1>4, SelectLedger

\* A delete that the ledger owes is asked for again, without an answer yet.
LEMMA RedeleteSelect ==
  ASSUME Inv, Trust, Selection, NEW d \in Devices, poll_pending_delete(d) PROVE Selection'
  <1> USE Zenon
  <1>1. UNCHANGED <<store, inCommitted, inDeleted>>
    BY DEF poll_pending_delete, ledgers
  <1>2. PICK k, r, p : /\ k \in First(Eligible(d)) /\ r = inCommitted[k]
                       /\ p = At("redelete", k, r) /\ Becomes(d, p)
    BY DEF poll_pending_delete
  <1>3. k \in Keys /\ r # None /\ r.expires \in Nat
    BY <1>2 DEF First, Eligible, Inbox, Selection
  <1>4. p.at = "redelete" /\ p.receipt = r /\ p.reply = None
    BY <1>2 DEF At
  <1>5. \A e \in Devices : pc'[e] = IF e = d THEN p ELSE pc[e]
    BY <1>2, OneMoves
  <1>6. Selected(d)'
    <2>1. "redelete" \notin Unrecorded /\ "redelete" # "delete"
      BY DEF Unrecorded
    <2> QED
      BY <1>3, <1>4, <1>5, <2>1 DEF Selected
  <1> QED
    BY <1>1, <1>5, <1>6, SelectQuiet

\* record_inbound_commit adds the one record that its reader then owes a delete for.
LEMMA RecordSelect ==
  ASSUME Inv, Trust, Selection, NEW d \in Devices, record_inbound_commit(d) PROVE Selection'
  <1> USE Zenon
  <1>1. UNCHANGED <<store, inDeleted>> /\ pc[d].at \in {"prepared", "unprepared"}
    BY DEF record_inbound_commit
  <1>2. PICK k, r : k = pc[d].key /\ r = pc[d].receipt
    OBVIOUS
  <1>3. k \in Inbox(d) /\ k \in Keys
    BY <1>1, <1>2, SMT DEF Inv, Actors, Held, Inbox, Reading
  <1>4. Eligible(d) = {} /\ pc[d].reply = None /\ r # None /\ r.expires \in Nat
    BY <1>1, <1>2, SMT DEF Selection, Selected, Reading, Unrecorded
  <1>5. CASE Recordable(d)
    <2>1. PICK place \in {"delete", "redelete"} : Becomes(d, [pc[d] EXCEPT !.at = place])
      BY <1>5, RecordGoesOn
    <2>9. PICK p : p = [pc[d] EXCEPT !.at = place]
      OBVIOUS
    <2>2. inCommitted' = [inCommitted EXCEPT ![k] = r] /\ Becomes(d, p)
      BY <1>2, <1>5, <2>1, <2>9 DEF record_inbound_commit
    <2>3. p.at = place /\ p.key = k /\ p.receipt = r /\ p.reply = pc[d].reply
      BY <1>2, <2>9, SMT DEF Inv, Actors, Whole
    <2>4. \A e \in Devices : pc'[e] = IF e = d THEN p ELSE pc[e]
      BY <2>2, OneMoves
    <2>5. \A j \in Keys : inCommitted'[j] = IF j = k THEN r ELSE inCommitted[j]
      BY <2>2 DEF Inv, Tables
    <2>6. Eligible(d)' = {k}
      BY <1>3, <1>4, <2>5 DEF Eligible, Inbox
    <2>7. Selected(d)'
      <3>1. place \notin Unrecorded
        BY DEF Unrecorded
      <3> QED
        BY <1>4, <2>3, <2>4, <2>6, <3>1 DEF Selected
    <2>8. /\ \A j \in Keys \ Inbox(d) : inCommitted'[j] = inCommitted[j]
          /\ \A j \in Inbox(d) : inCommitted'[j] = inCommitted[j] \/ inCommitted'[j].expires \in Nat
      BY <1>3, <1>4, <2>5 DEF Inbox
    <2> QED
      BY <1>1, <2>4, <2>7, <2>8, SelectLedger, ZenonT(30) DEF Selection
  <1>6. CASE ~Recordable(d)
    <2>1. UNCHANGED inCommitted /\ Becomes(d, Idle)
      BY <1>6 DEF record_inbound_commit
    <2>2. \A e \in Devices : pc'[e] = pc[e] \/ pc'[e].at \notin Reading
      BY <2>1, OneMoves, SMT DEF Idle, Reading
    <2> QED
      BY <1>1, <2>1, <2>2, SelectQuiet
  <1> QED
    BY <1>5, <1>6

\* mark_inbound_deleted records a deletion that the store has proven.
LEMMA MarkSelect ==
  ASSUME Inv, Trust, Selection, NEW d \in Devices, mark_inbound_deleted(d) PROVE Selection'
  <1> USE Zenon
  <1>1. UNCHANGED store /\ pc[d].at \in {"delete", "redelete"} /\ pc[d].reply # None
    BY DEF mark_inbound_deleted
  <1>2. PICK k, r : k = pc[d].key /\ r = pc[d].receipt
    OBVIOUS
  <1>3. k \in Inbox(d) /\ k \in Keys /\ r.key = k
    BY <1>1, <1>2, SMT DEF Inv, Actors, Held, Inbox, Reading
  <1>4. PICK p : Becomes(d, p) /\ (p = Idle \/ \E a : p = At("put", a, None))
    BY DEF mark_inbound_deleted
  <1>5. p.at \notin Reading
    BY <1>4, SMT DEF Idle, At, Reading
  <1>6. \A e \in Devices : pc'[e] = IF e = d THEN p ELSE pc[e]
    BY <1>4, OneMoves
  <1>7. Selected(d)'
    BY <1>5, <1>6, Elsewhere
  <1>8. CASE pc[d].reply \in {"Deleted", "AlreadyDeleted"}
    <2>1. Buried(r)
      BY <1>1, <1>2, <1>8, SMT DEF Selection, Selected
    <2>2. inDeleted' = [inDeleted EXCEPT ![k] = r] /\ inCommitted' = [inCommitted EXCEPT ![k] = None]
      BY <1>2, <1>8 DEF mark_inbound_deleted
    <2>3. /\ DOMAIN inDeleted' = Keys
          /\ \A j \in Keys : /\ inDeleted'[j] = IF j = k THEN r ELSE inDeleted[j]
                             /\ inCommitted'[j] = IF j = k THEN None ELSE inCommitted[j]
      BY <2>2 DEF Inv, Tables, Selection
    <2>4. /\ \A j \in Keys \ Inbox(d) : inCommitted'[j] = inCommitted[j] /\ inDeleted'[j] = inDeleted[j]
          /\ \A j \in Inbox(d) : inCommitted'[j] # None => inCommitted'[j] = inCommitted[j]
      BY <1>3, <2>3 DEF Inbox
    <2>5. \A j \in Inbox(d) : /\ j # k => inDeleted'[j] = inDeleted[j]
                              /\ j = k => inDeleted'[j] = r
      BY <2>3 DEF Inbox
    <2>6. \A j \in Inbox(d) : inDeleted'[j] # None
             => \/ inDeleted'[j] = inDeleted[j]
                \/ inDeleted'[j].key = j /\ Buried(inDeleted'[j])
      BY <1>3, <2>1, <2>5
    <2> QED
      BY <1>1, <1>6, <1>7, <2>3, <2>4, <2>6, SelectLedger
  <1>9. CASE pc[d].reply \notin {"Deleted", "AlreadyDeleted"}
    <2>1. UNCHANGED <<inCommitted, inDeleted>>
      BY <1>9 DEF mark_inbound_deleted
    <2> QED
      BY <1>1, <1>6, <1>7, <2>1, SelectQuiet
  <1> QED
    BY <1>8, <1>9

\* A step of the store, which knows nothing of the ledgers.
LEMMA SelectStore ==
  ASSUME Inv, Trust, Selection, UNCHANGED <<inCommitted, inDeleted>>,
         clock' \in Nat, clock <= clock', Keeps,
         \A d \in Devices : pc'[d] = pc[d] \/ Selected(d)'
  PROVE  Selection'
  <1>1. clock \in Nat
    BY BoundsAssumption DEF Trust, Values
  <1>2. DOMAIN inDeleted' = Keys
    BY Zenon DEF Selection
  <1> QED
    BY <1>1, <1>2, SelectStep, Zenon

\* A recorded deletion of an item on the page of a reader has expired: the mailbox would be
\* empty otherwise.
LEMMA ListSelect ==
  ASSUME Inv, Trust, Selection, NEW d \in Devices, poll_list(d) PROVE Selection'
  <1> USE Zenon
  <1>1. UNCHANGED <<clock, inCommitted, inDeleted>> /\ Eligible(d) = {}
    BY DEF poll_list, ledgers
  <1>2. PICK now \in Store!Times : Store!CleanupEffect(now)
    BY DEF poll_list
  <1>3. clock' \in Nat /\ clock <= clock'
    BY <1>1, BoundsAssumption, SMT DEF Trust, Values
  <1>4. Keeps /\ \A k \in Keys : items[k] = None => items'[k] = None
    BY <1>2, CleanupKeeps
  <1>5. CASE Becomes(d, Idle)
    <2>1. \A e \in Devices : pc'[e] = IF e = d THEN Idle ELSE pc[e]
      BY <1>5, OneMoves
    <2>2. Idle.at \notin Reading
      BY DEF Idle, Reading
    <2>3. \A e \in Devices : pc'[e] = pc[e] \/ Selected(e)'
      BY <2>1, <2>2, Elsewhere
    <2> QED
      BY <1>1, <1>3, <1>4, <2>3, SelectStore
  <1>6. ASSUME NEW k \in Inbox(d), items'[k] # None, Becomes(d, At("listed", k, items'[k]))
        PROVE  Selection'
    <2>1. PICK r, p : r = items'[k] /\ p = At("listed", k, r)
      OBVIOUS
    <2>2. p.at = "listed" /\ p.key = k /\ p.receipt = r /\ p.reply = None
      BY <2>1 DEF At
    <2>3. \A e \in Devices : pc'[e] = IF e = d THEN p ELSE pc[e]
      BY <1>6, <2>1, OneMoves
    <2>4. k \in Keys /\ items[k] # None
      BY <1>4, <1>6 DEF Inbox
    <2>5. r # None /\ r.expires \in Nat
      BY <1>2, <1>6, <2>1, <2>4, CleanupHolds DEF Trust, Store!Receipts
    <2>6. inDeleted'[k] # None => ~(inDeleted'[k].expires > clock')
      <3>1. inDeleted[k] # None => ~(inDeleted[k].expires > clock)
        BY <2>4, SMT DEF Selection, Buried
      <3> QED
        BY <1>1, <3>1
    <2>7. Eligible(d)' = {}
      BY <1>1 DEF Eligible, Inbox
    <2>8. Selected(d)'
      <3>1. "listed" # "delete" /\ "listed" \notin {"delete", "redelete"}
        OBVIOUS
      <3>2. inDeleted'[pc'[d].key] # None => ~LedgerLive(inDeleted[pc[d].key])'
        BY <2>2, <2>3, <2>6 DEF LedgerLive
      <3> QED
        BY <2>2, <2>3, <2>5, <2>7, <3>1, <3>2, ZenonT(30) DEF Selected
    <2> QED
      BY <1>1, <1>3, <1>4, <2>3, <2>8, SelectStore
  <1> QED
    BY <1>5, <1>6 DEF poll_list, First

\* The answer to a PUT reaches an actor that does not read.
LEMMA PutSelect ==
  ASSUME Inv, Trust, Selection, NEW q \in wire, service_put(q) PROVE Selection'
  <1> USE Zenon
  <1>1. UNCHANGED <<inCommitted, inDeleted>>
    BY DEF service_put, ledgers
  <1>2. PICK k, e : k = q.key /\ e = q.envelope
    OBVIOUS
  <1>3. k \in Keys
    BY <1>2 DEF service_put, Inv, Origins
  <1>4. PICK d, now, p : /\ d = Peer(k[1]) /\ now \in Store!Times
                         /\ Store!put(k, e, Ttl, now)
                         /\ \/ pc' = pc
                            \/ /\ pc[d].at = "put" /\ Becomes(d, p)
                               /\ p = Answer(d, Store!PutOutcome(k, e, Ttl, now), items'[k])
    BY <1>2 DEF service_put
  <1>5. d \in Devices
    BY <1>4 DEF Peer, Devices
  <1>6. clock' = clock /\ clock \in Nat /\ clock' \in Nat /\ clock <= clock'
    BY <1>4, BoundsAssumption, SMT DEF Store!put, Trust, Values
  <1>7. Keeps
    BY <1>3, <1>4, PutKeeps DEF Store!put
  <1>8. CASE pc' = pc
    BY <1>1, <1>6, <1>7, <1>8, SelectStore
  <1>9. CASE /\ pc[d].at = "put" /\ Becomes(d, p)
             /\ p = Answer(d, Store!PutOutcome(k, e, Ttl, now), items'[k])
    <2>1. p.at = "put"
      BY <1>5, <1>9, SMT DEF Answer, Inv, Actors, Whole
    <2>2. p.at \notin Reading
      BY <2>1 DEF Reading
    <2>3. \A f \in Devices : pc'[f] = IF f = d THEN p ELSE pc[f]
      BY <1>5, <1>9, OneMoves, ZenonT(30)
    <2>4. \A f \in Devices : pc'[f] = pc[f] \/ Selected(f)'
      BY <1>5, <2>2, <2>3, Elsewhere
    <2> QED
      BY <1>1, <1>6, <1>7, <2>4, SelectStore
  <1> QED
    BY <1>4, <1>8, <1>9

\* The first half of a delete, a restart, a lost request and the passing of time.
LEMMA WorldSelect ==
  ASSUME Inv, Trust, Selection,
         \/ \E q \in wire : service_delete(q)
         \/ Tick \/ RestartStore \/ \E q \in wire : LoseRequest(q)
  PROVE  Selection'
  <1> USE Zenon
  <1>1. UNCHANGED <<inCommitted, inDeleted, pc>>
    BY DEF service_delete, Tick, RestartStore, LoseRequest, ledgers
  <1>2. clock \in 0..MaxClock /\ clock \in Nat
    BY BoundsAssumption, SMT DEF Trust, Values
  <1>3. clock' \in Nat /\ clock <= clock'
    BY <1>2, SMT DEF service_delete, Tick, RestartStore, LoseRequest, Store!delete, Store!Tick,
                Store!open, store
  <1>4. (\E now \in Store!Times : Store!CleanupEffect(now)) \/ UNCHANGED <<items, tombstones>>
    BY DEF service_delete, Tick, RestartStore, LoseRequest, Store!delete, Store!Tick, Store!open,
           Store!tables, store
  <1>5. Keeps
    <2>1. UNCHANGED <<items, tombstones>> => Keeps
      BY DEF Keeps, Standing
    <2> QED
      BY <1>4, <2>1, CleanupKeeps
  <1> QED
    BY <1>1, <1>3, <1>5, SelectStore

\* The transaction of a delete answers its reader with a proof only when the item is gone and
\* its tombstone stands.
LEMMA CommitSelect == ASSUME Inv, Trust, Selection, ServeCommit PROVE Selection'
  <1> USE Zenon
  <1>1. PICK r \in deletes : service_delete_commit(r)
    BY DEF ServeCommit
  <1>2. UNCHANGED <<inCommitted, inDeleted>> /\ Store!delete_commit(r) /\ r.key \in Keys
    BY <1>1 DEF service_delete_commit, ledgers, Inv, Origins
  <1>3. PICK k, d, outcome, p : /\ k = r.key /\ d = k[1] /\ outcome = Store!DeleteOutcome(r)
                                /\ p = Answer(d, outcome, r)
    OBVIOUS
  <1>4. d \in Devices /\ k \in Keys
    BY <1>2, <1>3, KeysArePairs
  <1>5. clock' = clock /\ clock \in Nat /\ clock' \in Nat /\ clock <= clock'
    BY <1>2, BoundsAssumption, SMT DEF Store!delete_commit, Trust, Values
  <1>6. /\ outcome = "Deleted" => items[k] # None /\ Store!DeleteEffect(r)
        /\ outcome # "Deleted" => UNCHANGED <<items, tombstones>>
        /\ outcome = "AlreadyDeleted" => items[k] = None /\ tombstones[k] = r
    BY <1>2, <1>3 DEF Store!delete_commit, Store!DeleteOutcome, Store!tables
  <1>7. /\ outcome = "Deleted" => items'[k] = None /\ tombstones'[k] = r
        /\ \A j \in Keys \ {k} : items'[j] = items[j] /\ tombstones'[j] = tombstones[j]
    BY <1>3, <1>4, <1>6, SMT DEF Store!DeleteEffect, Inv, Tables
  <1>8. Keeps
    BY <1>6, <1>7 DEF Keeps, Standing
  <1>9. \/ pc' = pc
        \/ pc[d].at \in {"delete", "redelete"} /\ pc[d].receipt = r /\ Becomes(d, p)
    BY <1>1, <1>3 DEF service_delete_commit
  <1>10. CASE pc' = pc
    BY <1>2, <1>5, <1>8, <1>10, SelectStore
  <1>11. CASE pc[d].at \in {"delete", "redelete"} /\ pc[d].receipt = r /\ Becomes(d, p)
    <2>1. p.at = pc[d].at /\ p.key = pc[d].key /\ p.receipt = r /\ p.reply = outcome
      BY <1>3, <1>4, SMT DEF Answer, Inv, Actors, Whole
    <2>2. \A e \in Devices : pc'[e] = IF e = d THEN p ELSE pc[e]
      BY <1>4, <1>11, OneMoves
    <2>3. r # None /\ r.expires \in Nat
      BY <1>4, <1>11, SMT DEF Selection, Selected, Reading
    <2>4. outcome \in {"Deleted", "AlreadyDeleted"} => Buried(r)'
      BY <1>3, <1>4, <1>6, <1>7, <2>3, ZenonT(30) DEF Buried
    <2>5. outcome \in {"Deleted", "AlreadyDeleted"} => Buried(pc[d].receipt)'
      BY <1>4, <2>1, <2>2, <2>4, SMT DEF Buried
    <2>6. Eligible(d)' = Eligible(d)
      BY <1>2 DEF Eligible, Inbox
    <2>7. pc[d].at = "delete" => Eligible(d) = {pc[d].key}
      BY <1>4 DEF Selection, Selected
    <2>8. Selected(d)'
      <3>1. pc[d].at \notin Unrecorded
        BY <1>11 DEF Unrecorded
      <3> QED
        BY <1>4, <2>1, <2>2, <2>3, <2>5, <2>6, <2>7, <3>1, ZenonT(30) DEF Selected
    <2> QED
      BY <1>2, <1>4, <1>5, <1>8, <2>2, <2>8, SelectStore
  <1> QED
    BY <1>9, <1>10, <1>11

\* Nothing is read, recorded or deleted at first.
LEMMA InitSelection == Init => Selection
  BY DEF Init, Selection, Selected, Idle, Reading, Unrecorded

\* Every step keeps the selection.
LEMMA StepSelection == ASSUME Inv, Trust, Selection, [Next]_vars PROVE Selection'
  <1> USE Zenon
  <1>1. ASSUME NEW d \in Devices, Act(d) PROVE Selection'
    BY <1>1, CleanupSelect, OutboundSelect, RedeleteSelect, ListSelect, RecordSelect, MarkSelect,
       ZenonT(30)
       DEF Act
  <1>9. CASE \/ \E t \in Texts : attempt_runtime_mailbox_fallback(t)
             \/ tolerate_unavailable_runtime_reverse_mailbox_acknowledgement
    BY <1>9, OutboundSelect, ApplicationSelect DEF Devices
  <1>2. CASE ActA
    BY <1>1, <1>2, OutboundSelect, ApplicationSelect DEF ActA, Devices
  <1>3. CASE ActB
    BY <1>1, <1>3, ApplicationSelect DEF ActB, Devices
  <1>4. CASE \E q \in wire : Serve(q)
    BY <1>4, PutSelect, WorldSelect DEF Serve
  <1>5. CASE ServeCommit
    BY <1>5, CommitSelect
  <1>6. CASE \E d \in Devices : Interrupt(d)
    BY <1>6, OutboundSelect
  <1>7. CASE Tick \/ RestartStore \/ (\E q \in wire : LoseRequest(q))
    BY <1>7, WorldSelect
  <1>8. CASE UNCHANGED vars
    <2>1. UNCHANGED <<store, inCommitted, inDeleted, pc>>
      BY <1>8 DEF vars, ledgers
    <2> QED
      BY <2>1, SelectQuiet
  <1> QED
    BY <1>2, <1>3, <1>4, <1>5, <1>6, <1>7, <1>8, <1>9, ZenonT(30) DEF Next

\* The checks of attempt_runtime_mailbox_poll after record_inbound_commit: for every number of
\* texts and every lag of the store, the ledger accepts the commit of the item just read,
\* unless the proof of an earlier deletion has expired, and the delete it then selects is the
\* delete of that item.
THEOREM DeletesAreOfWhatWasRead == Spec => []DeleteSelectsTheItemRead
  <1> USE Zenon
  <1>1. Inv /\ Selection => DeleteSelectsTheItemRead
    <2> SUFFICES ASSUME Inv, Selection, NEW d \in Devices
                 PROVE  /\ pc[d].at \in {"prepared", "unprepared"}
                             => /\ Recordable(d) \/ ~LedgerLive(inDeleted[pc[d].key])
                                /\ Eligible(d) \subseteq {pc[d].key}
                        /\ pc[d].at = "delete" => Eligible(d) = {pc[d].key}
      BY DEF DeleteSelectsTheItemRead
    <2>1. Selected(d)
      BY DEF Selection
    <2>2. ASSUME pc[d].at \in {"prepared", "unprepared"}
          PROVE  /\ Recordable(d) \/ ~LedgerLive(inDeleted[pc[d].key])
                 /\ Eligible(d) \subseteq {pc[d].key}
      <3>1. pc[d].at \in Reading /\ pc[d].at \in Unrecorded
        BY <2>2 DEF Reading, Unrecorded
      <3>2. pc[d].key \in Inbox(d) /\ Eligible(d) = {}
        BY <2>1, <3>1 DEF Inv, Actors, Held, Selected
      <3>3. inCommitted[pc[d].key] = None
        BY <3>2 DEF Eligible
      <3> QED
        BY <2>1, <3>1, <3>2, <3>3 DEF Selected, Recordable
    <2> QED
      BY <2>1, <2>2 DEF Selected
  <1>2. Inv /\ Inv' /\ Trust /\ [Next]_vars => Trust'
    BY StepTrust
  <1>3. Inv /\ Trust /\ Selection /\ [Next]_vars => Selection'
    BY StepSelection
  <1> QED
    BY <1>1, <1>2, <1>3, InitTrust, InitSelection, DeliveryInvariance, PTL DEF Spec
=============================================================================
