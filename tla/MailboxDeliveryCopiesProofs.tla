-------------------- MODULE MailboxDeliveryCopiesProofs ---------------------
(***************************************************************************)
(* Every step of the delayed delivery keeps the one ciphertext of an item   *)
(* while its dispatch is in force (Copies), for every lag of the store.     *)
(* Past that a receipt may have expired before its dispatch has, so that    *)
(* the sender's ledger forgets the upload and the repair of an orphaned     *)
(* text seals it again.                                                     *)
(***************************************************************************)
EXTENDS MailboxDeliveryInvariants, TLAPS
-----------------------------------------------------------------------------
(* Keys, time, actors and the mailbox                                      *)

\* A key is a mailbox with the number of a text.
LEMMA KeysArePairs ==
  /\ \A k \in Keys : k[1] \in Devices /\ k[2] \in Texts /\ k = <<k[1], k[2]>>
  /\ \A d \in Devices, t \in Texts : <<d, t>> \in Keys
  BY DEF Keys, Store!Keys

\* Commits only add: what was read or founded stays so.
LEMMA CommitsStay ==
  ASSUME received \subseteq received', delivered \subseteq delivered'
  PROVE  \A k : (ReadBy(k) => ReadBy(k)') /\ (Founded(k) => Founded(k)')
  BY Zenon DEF ReadBy, Founded

\* Only one actor moves.
LEMMA OneMoves ==
  ASSUME Inv, NEW d \in Devices, NEW p, Becomes(d, p)
  PROVE  \A e \in Devices : pc'[e] = IF e = d THEN p ELSE pc[e]
  BY Zenon DEF Becomes, Inv, Actors

\* record_inbound_commit goes on to a delete.
LEMMA RecordGoesOn ==
  ASSUME NEW d, record_inbound_commit(d), Recordable(d)
  PROVE  \E place \in {"delete", "redelete"} : Becomes(d, [pc[d] EXCEPT !.at = place])
  <1> USE Zenon
  <1>1. Becomes(d, [pc[d] EXCEPT !.at = IF pc[d].at = "prepared" THEN "delete" ELSE "redelete"])
    BY DEF record_inbound_commit
  <1>2. CASE pc[d].at = "prepared"
    BY <1>1, <1>2
  <1>3. CASE pc[d].at # "prepared"
    BY <1>1, <1>3
  <1> QED
    BY <1>2, <1>3

\* A dispatch that is in force after a step was in force before it.
LEMMA InForceBefore ==
  ASSUME Values, Values', NEW k \in Keys, dispatch'[k[2]] = dispatch[k[2]], clock <= clock',
         InForce(k)'
  PROVE  InForce(k)
  <1>1. clock \in Nat /\ clock' \in Nat /\ Lag \in Nat
    BY BoundsAssumption DEF Values
  <1>2. dispatch[k[2]] \in Nat
    BY KeysArePairs, BoundsAssumption DEF Values, Expiries, InForce
  <1> QED
    BY <1>1, <1>2 DEF InForce

\* A handler's time is never ahead of the clock, so what is alive now is alive to a handler.
LEMMA TimesBehind ==
  ASSUME Values, NEW now \in Store!Times
  PROVE  /\ now \in Nat /\ now <= clock /\ clock \in Nat
         /\ \A k \in Keys : items[k] # None /\ items[k].expires > clock
                              => Store!Live(items[k], now)
  <1>1. clock \in Nat
    BY BoundsAssumption DEF Values
  <1>2. now \in Nat /\ now <= clock
    BY <1>1 DEF Store!Times
  <1>3. ASSUME NEW k \in Keys, items[k] # None, items[k].expires > clock
        PROVE  Store!Live(items[k], now)
    <2>1. items[k].expires \in Nat
      BY <1>3, Zenon DEF Values, Store!Receipts
    <2> QED
      BY <1>1, <1>2, <1>3, <2>1 DEF Store!Live, Store!Expired
  <1> QED
    BY <1>1, <1>2, <1>3, Zenon

\* An envelope that is sealed while the bounds allow it is one of the envelopes.
LEMMA SealedIsEnvelope ==
  ASSUME Values, NEW k \in Keys, NEW expires \in Expiries, seals[k] < MaxSeals
  PROVE  /\ [expires |-> expires, seal |-> seals[k] + 1] \in Envelopes
         /\ [seals EXCEPT ![k] = @ + 1] \in [Keys -> 0..MaxSeals]
  <1>1. seals[k] + 1 \in 0..MaxSeals
    BY BoundsAssumption DEF Values
  <1>2. [seals EXCEPT ![k] = @ + 1] \in [Keys -> 0..MaxSeals]
    BY <1>1, Zenon DEF Values
  <1>3. [expires |-> expires, seal |-> seals[k] + 1] \in Envelopes
    BY <1>1, BoundsAssumption DEF Values, Envelopes, Expiries
  <1> QED
    BY <1>2, <1>3, Zenon

\* Cleaning the store up only removes records.
LEMMA CleanupRemoves ==
  ASSUME NEW now, Store!CleanupEffect(now)
  PROVE  /\ DOMAIN items' = Keys /\ DOMAIN tombstones' = Keys
         /\ \A k \in Keys : items'[k] # None => items'[k] = items[k]
         /\ \A k \in Keys : tombstones'[k] # None => tombstones'[k] = tombstones[k]
  BY Zenon DEF Store!CleanupEffect, Store!Retained, Keys

\* A cleanup at a handler's time leaves what is alive at the present time.
LEMMA CleanupHolds ==
  ASSUME Values, NEW now \in Store!Times, Store!CleanupEffect(now)
  PROVE  /\ items' \in [Keys -> Store!Receipts \cup {None}]
         /\ \A k \in Keys : items[k] # None /\ items[k].expires > clock => items'[k] = items[k]
  <1> USE Zenon
  <1>1. items' = [k \in Keys |-> IF Store!Live(items[k], now) THEN items[k] ELSE None]
    BY DEF Store!CleanupEffect, Store!Retained, Keys
  <1>2. \A k \in Keys : items[k] # None /\ items[k].expires > clock => Store!Live(items[k], now)
    BY TimesBehind
  <1> QED
    BY <1>1, <1>2 DEF Values

\* A cleanup leaves a tombstone that lives, and stores nothing.
LEMMA CleanupKeeps ==
  ASSUME Trust, NEW now \in Store!Times, Store!CleanupEffect(now)
  PROVE  Keeps /\ \A k \in Keys : items[k] = None => items'[k] = None
  <1>1. clock \in Nat /\ now \in Nat /\ now <= clock
    BY TimesBehind, Zenon DEF Trust
  <1>2. \A k \in Keys : /\ items'[k] = IF Store!Live(items[k], now) THEN items[k] ELSE None
                        /\ tombstones'[k] = IF Store!Live(tombstones[k], now) THEN tombstones[k] ELSE None
    BY Zenon DEF Store!CleanupEffect, Store!Retained, Keys
  <1>3. ASSUME NEW k \in Keys, Standing(k)
        PROVE  items[k] = None /\ Store!Live(tombstones[k], now)
    BY <1>1, <1>3 DEF Standing, Store!Live, Store!Expired
  <1> QED
    BY <1>2, <1>3, Zenon DEF Keeps

\* A PUT of a key whose tombstone lives stores nothing.
LEMMA PutKeeps ==
  ASSUME Inv, Trust, NEW k \in Keys, NEW e, NEW now \in Store!Times, Store!PutEffect(k, e, Ttl, now)
  PROVE  Keeps
  <1> USE Zenon
  <1>1. clock \in Nat /\ now \in Nat /\ now <= clock
    BY TimesBehind DEF Trust
  <1>2. \A j \in Keys \ {k} : items'[j] = items[j] /\ tombstones'[j] = tombstones[j]
    BY DEF Store!PutEffect, Store!tables, Inv, Tables
  <1>3. ASSUME Standing(k) PROVE items'[k] = None /\ tombstones'[k] = tombstones[k]
    <2>1. ~Store!Live(items[k], now) /\ Store!Live(tombstones[k], now)
      BY <1>1, <1>3, SMT DEF Standing, Store!Live, Store!Expired
    <2>2. Store!PutOutcome(k, e, Ttl, now) = "Tombstoned"
      BY <2>1 DEF Store!PutOutcome
    <2> QED
      BY <1>3, <2>2 DEF Standing, Store!PutEffect, Store!tables
  <1> QED
    BY <1>2, <1>3 DEF Keeps, Standing
-----------------------------------------------------------------------------
(* Steps that bring no new ciphertext                                      *)

\* No new envelope appears when pending uploads are sent, stored and recorded.
LEMMA FewerCopies ==
  ASSUME \A k \in Keys : pending'[k] \in {pending[k], None},
         \A q \in wire' : \/ q \in wire \/ q.op = "delete"
                          \/ \E k \in Keys : pending[k] # None /\ q = Put(k, pending[k]),
         \A k \in Keys : items'[k] # None
             => items'[k] = items[k] \/ Copy(k, items'[k].envelope),
         \A k \in Keys : outStored'[k] # None
             => outStored'[k] = outStored[k] \/ Copy(k, outStored'[k].envelope),
         \A d \in Devices : Holding(d)'
             => \/ Holding(d) /\ pc'[d].key = pc[d].key /\ pc'[d].receipt = pc[d].receipt
                \/ Copy(pc'[d].key, pc'[d].receipt.envelope)
  PROVE  \A k \in Keys, e \in Envelopes : Copy(k, e)' => Copy(k, e)
  <1> USE Zenon
  <1> SUFFICES ASSUME NEW k \in Keys, NEW e \in Envelopes, Copy(k, e)' PROVE Copy(k, e)
    OBVIOUS
  <1>1. CASE pending'[k] = e
    BY <1>1, NoneAssumption DEF Copy
  <1>2. CASE Put(k, e)' \in wire'
    <2>1. Put(k, e)' = Put(k, e) /\ Put(k, e).op = "put" /\ Put(k, e).key = k /\ Put(k, e).envelope = e
      BY DEF Put
    <2>2. ASSUME NEW j \in Keys, Put(k, e) = Put(j, pending[j]) PROVE pending[k] = e
      BY <2>1, <2>2 DEF Put
    <2> QED
      BY <1>2, <2>1, <2>2, SMT DEF Copy
  <1>3. CASE items'[k] # None /\ items'[k].envelope = e
    <2>1. items'[k] = items[k] \/ Copy(k, e)
      BY <1>3
    <2> QED
      BY <1>3, <2>1 DEF Copy
  <1>4. CASE outStored'[k] # None /\ outStored'[k].envelope = e
    <2>1. outStored'[k] = outStored[k] \/ Copy(k, e)
      BY <1>4
    <2> QED
      BY <1>4, <2>1 DEF Copy
  <1>5. CASE \E d \in Devices : Holding(d)' /\ pc'[d].key = k /\ pc'[d].receipt.envelope = e
    <2>1. PICK d \in Devices : Holding(d)' /\ pc'[d].key = k /\ pc'[d].receipt.envelope = e
      BY <1>5
    <2>2. \/ Holding(d) /\ pc[d].key = k /\ pc[d].receipt.envelope = e
          \/ Copy(k, e)
      BY <2>1
    <2> QED
      BY <2>2 DEF Copy
  <1> QED
    BY <1>1, <1>2, <1>3, <1>4, <1>5 DEF Copy

\* A step that seals nothing and keeps what the ledgers must know.
LEMMA CopiesStep ==
  ASSUME Copies, Values, Values', UNCHANGED <<seals, dispatch>>, clock <= clock',
         Outlasts', Requests', Graves',
         \A k \in Keys, e \in Envelopes : Copy(k, e)' => Copy(k, e),
         \A k \in Keys : InForce(k) /\ InLedger(k) => InLedger(k)',
         pc'["a"].at = "dispatched" => pc'["a"] = pc["a"]
  PROVE  Copies'
  <1>1. clock \in Nat /\ clock' \in Nat /\ Ttl \in Nat
    BY BoundsAssumption DEF Values
  <1>9. \A k \in Keys : InForce(k)' => InForce(k)
    BY InForceBefore, Zenon
  <1>2. Same'
    BY <1>9, Zenon DEF Copies, Same
  <1>3. ASSUME NEW k \in Keys, NEW e \in Envelopes, Copy(k, e)' PROVE Sealed(k, e)'
    <2>1. Sealed(k, e)
      BY <1>3, Zenon DEF Copies, Lifetimes
    <2>2. e.expires \in Nat
      BY BoundsAssumption DEF Envelopes
    <2> QED
      BY <1>1, <2>1, <2>2 DEF Sealed
  <1>4. ASSUME NEW t \in Texts, dispatch'[t] # None PROVE dispatch'[t] <= clock' + Ttl
    <2>1. dispatch[t] \in Nat /\ dispatch[t] <= clock + Ttl
      BY <1>4, BoundsAssumption DEF Copies, Lifetimes, Values, Expiries
    <2> QED
      BY <1>1, <2>1
  <1>5. Lifetimes'
    BY <1>3, <1>4, Zenon DEF Lifetimes
  <1>7. Known'
    BY <1>9, Zenon DEF Copies, Known
  <1>8. Fresh'
    BY Zenon DEF Copies, Fresh
  <1> QED
    BY <1>2, <1>5, <1>7, <1>8, Zenon DEF Copies

\* The tombstones, when no deletion is proven.
LEMMA GravesStep ==
  ASSUME Copies, Values, Values', UNCHANGED <<seals, gone>>, clock <= clock', Keeps,
         \A k \in Keys : seals[k] > 0 => dispatch'[k[2]] = dispatch[k[2]],
         \A k \in Keys : tombstones'[k] # None => tombstones'[k] = tombstones[k],
         proven' \subseteq proven
  PROVE  Graves'
  <1> USE Zenon
  <1>1. clock \in Nat /\ clock' \in Nat /\ Lag \in Nat
    BY BoundsAssumption, SMT DEF Values
  <1>2. ASSUME NEW k \in Keys, tombstones'[k] # None
        PROVE  /\ seals'[k] > 0 /\ tombstones'[k].expires \in Nat
               /\ dispatch'[k[2]] \in Expiries /\ dispatch'[k[2]] <= tombstones'[k].expires + Lag
    BY <1>2 DEF Copies, Graves
  <1>3. ASSUME NEW k \in gone
        PROVE  k \in Keys /\ seals'[k] > 0 /\ (InForce(k)' => Standing(k)')
    <2>1. k \in Keys /\ seals[k] > 0 /\ (InForce(k) => Standing(k))
      BY <1>3 DEF Copies, Graves
    <2>2. ASSUME InForce(k)' PROVE Standing(k)'
      <3>1. Standing(k)
        BY <2>1, <2>2, InForceBefore
      <3>2. /\ items'[k] = None /\ tombstones'[k] = tombstones[k] /\ tombstones[k] # None
            /\ tombstones[k].expires \in Nat /\ dispatch[k[2]] \in Nat
            /\ dispatch[k[2]] <= tombstones[k].expires + Lag
        <4>1. dispatch[k[2]] \in Expiries /\ dispatch[k[2]] <= tombstones[k].expires + Lag
          BY <2>1, <3>1 DEF Standing, Copies, Graves
        <4>2. dispatch[k[2]] \in Nat
          BY <4>1, BoundsAssumption, SMT DEF Expiries
        <4> QED
          BY <2>1, <3>1, <4>1, <4>2 DEF Keeps, Standing
      <3>3. tombstones[k].expires > clock'
        BY <1>1, <2>1, <2>2, <3>2, SMT DEF InForce
      <3> QED
        BY <3>2, <3>3 DEF Standing
    <2> QED
      BY <2>1, <2>2
  <1>4. \A r \in proven' : r.key \in gone'
    BY DEF Copies, Graves
  <1> QED
    BY <1>2, <1>3, <1>4 DEF Graves

\* A step of an actor that seals nothing: it may send what is pending, forget what has expired,
\* and record or keep the receipt it holds.
LEMMA DeviceCopies ==
  ASSUME Copies, Values, Values', UNCHANGED <<store, seals, dispatch, gone>>,
         \A k \in Keys : pending'[k] \in {pending[k], None},
         \A k \in Keys : outStored'[k] # None
             => \/ outStored'[k] = outStored[k]
                \/ Outlasting(outStored'[k]) /\ Copy(k, outStored'[k].envelope),
         \A q \in wire' : \/ q \in wire \/ q.op = "delete"
                          \/ \E k \in Keys : pending[k] # None /\ q = Put(k, pending[k]),
         \A k \in Keys : InForce(k) /\ InLedger(k) => InLedger(k)',
         pc'["a"].at = "dispatched" => pc'["a"] = pc["a"],
         \A d \in Devices : Holding(d)'
             => Holding(d) /\ pc'[d].key = pc[d].key /\ pc'[d].receipt = pc[d].receipt
  PROVE  Copies'
  <1> USE Zenon
  <1>1. UNCHANGED <<clock, items, tombstones>> /\ clock <= clock' /\ proven' \subseteq proven
    BY BoundsAssumption, SMT DEF store, Values
  <1>2. \A k \in Keys, e \in Envelopes : Copy(k, e)' => Copy(k, e)
    BY <1>1, FewerCopies
  <1>3. Requests'
    <2>1. \A k \in Keys : LET q == Put(k, pending[k]) IN q = Put(q.key, q.envelope)
      BY DEF Put
    <2> QED
      BY <2>1, SMT DEF Copies, Requests, Put
  <1>4. Outlasts'
    <2>1. ASSUME NEW k \in Keys, items'[k] # None PROVE Outlasting(items[k])'
      BY <1>1, <2>1 DEF Copies, Outlasts, Outlasting, Store!Receipts, Store!Keys
    <2>2. ASSUME NEW k \in Keys, outStored'[k] # None PROVE Outlasting(outStored[k])'
      BY <2>2 DEF Copies, Outlasts, Outlasting, Store!Receipts, Store!Keys
    <2>3. ASSUME NEW d \in Devices, Holding(d)'
          PROVE  pc'[d].key \in Keys /\ Outlasting(pc[d].receipt)'
      BY <2>3 DEF Copies, Outlasts, Outlasting, Store!Receipts, Store!Keys
    <2> QED
      BY <2>1, <2>2, <2>3 DEF Outlasts
  <1>5. Keeps
    BY <1>1 DEF Keeps, Standing
  <1>6. Graves'
    BY <1>1, <1>5, GravesStep
  <1> QED
    BY <1>1, <1>2, <1>3, <1>4, <1>6, CopiesStep

\* An actor at another place holds no receipt and seals nothing.
Away(p) == p.at \notin {"listed", "ingested", "put", "dispatched"} \/ (p.at = "put" /\ p.reply = None)

LEMMA AwayPlaces ==
  /\ Away(Idle) /\ Away(At("poll", None, None))
  /\ \A k, r : Away(At("put", k, None)) /\ Away(At("redelete", k, r))
  /\ \A p, place : Whole(p) /\ place \in {"prepared", "unprepared", "delete", "redelete"}
                     => Away([p EXCEPT !.at = place])
  <1> USE Zenon
  <1>1. /\ Away(Idle) /\ Away(At("poll", None, None))
        /\ \A k, r : Away(At("put", k, None)) /\ Away(At("redelete", k, r))
    BY DEF Away, Idle, At
  <1>2. ASSUME NEW p, Whole(p), NEW place \in {"prepared", "unprepared", "delete", "redelete"}
        PROVE  Away([p EXCEPT !.at = place])
    <2>1. PICK at, k, r, reply : p = [at |-> at, key |-> k, receipt |-> r, reply |-> reply]
      BY <1>2 DEF Whole
    <2>2. [p EXCEPT !.at = place].at = place
      BY <2>1
    <2> QED
      BY <2>2 DEF Away
  <1> QED
    BY <1>1, <1>2

\* A step of one actor to such a place, with its upload table as it was or cleaned.
LEMMA AwayCopies ==
  ASSUME Inv, Copies, Values, Values', UNCHANGED <<store, seals, dispatch, gone>>,
         NEW d \in Devices, NEW p, Away(p), Becomes(d, p),
         \A k \in Keys : pending'[k] \in {pending[k], None},
         \A k \in Keys : outStored'[k] # None
             => \/ outStored'[k] = outStored[k]
                \/ Outlasting(outStored'[k]) /\ Copy(k, outStored'[k].envelope),
         \A q \in wire' : \/ q \in wire \/ q.op = "delete"
                          \/ \E k \in Keys : pending[k] # None /\ q = Put(k, pending[k]),
         \A k \in Keys : InForce(k) /\ InLedger(k) => InLedger(k)'
  PROVE  Copies'
  <1> USE Zenon
  <1>1. \A e \in Devices : pc'[e] = IF e = d THEN p ELSE pc[e]
    BY OneMoves
  <1>2. pc'["a"].at = "dispatched" => pc'["a"] = pc["a"]
    BY <1>1 DEF Away, Devices
  <1>3. \A e \in Devices : Holding(e)'
            => Holding(e) /\ pc'[e].key = pc[e].key /\ pc'[e].receipt = pc[e].receipt
    BY <1>1 DEF Holding, Away
  <1> QED
    BY <1>2, <1>3, DeviceCopies

\* The ledger's cleanup forgets no upload whose dispatch is in force.
LEMMA CleanupCopies ==
  ASSUME Inv, Trust, Copies, Values', NEW d \in Devices, ledger_cleanup(d) PROVE Copies'
  <1> USE Zenon
  <1>1. UNCHANGED <<store, wire, seals, dispatch, gone, pc>> /\ pc[d] = Idle
    BY DEF ledger_cleanup, events, history
  <1>2. \A k \in Keys :
            /\ pending'[k] = IF k \in Outbox(d) /\ ~LedgerLive(pending[k]) THEN None ELSE pending[k]
            /\ outStored'[k] = IF k \in Outbox(d) /\ ~LedgerLive(outStored[k]) THEN None
                               ELSE outStored[k]
    BY DEF ledger_cleanup, Cleaned
  <1>3. ASSUME NEW k \in Keys, InForce(k), InLedger(k) PROVE InLedger(k)'
    <2>1. clock \in Nat /\ Lag \in Nat /\ dispatch[k[2]] \in Nat /\ dispatch[k[2]] > clock + Lag
      <3>1. k[2] \in Texts
        BY KeysArePairs
      <3> QED
        BY <1>3, <3>1, BoundsAssumption, SMT DEF Trust, Values, Expiries, InForce
    <2>2. ASSUME NEW e \in Envelopes, Copy(k, e)
          PROVE  e.expires > clock + Lag /\ e.expires > clock /\ e.expires \in Nat
      <3>1. Sealed(k, e)
        BY <2>2 DEF Copies, Lifetimes
      <3>2. e.expires \in Nat
        BY BoundsAssumption, SMT DEF Envelopes
      <3> QED
        BY <2>1, <3>1, <3>2, SMT DEF Sealed
    <2>3. CASE pending[k] # None
      <3>1. pending[k] \in Envelopes /\ Copy(k, pending[k])
        BY <2>3 DEF Trust, Values, Copy
      <3>2. LedgerLive(pending[k])
        BY <2>2, <3>1 DEF LedgerLive
      <3> QED
        BY <1>2, <2>3, <3>2 DEF InLedger
    <2>4. CASE outStored[k] # None
      <3>1. PICK r : r = outStored[k]
        OBVIOUS
      <3>2. /\ r.envelope \in Envelopes /\ r.expires \in Nat
            /\ r.envelope.expires <= r.expires + Lag
        BY <2>4, <3>1 DEF Copies, Outlasts, Outlasting, Store!Receipts
      <3>3. Copy(k, r.envelope)
        BY <2>4, <3>1 DEF Copy
      <3>4. LedgerLive(r)
        BY <2>1, <2>2, <3>2, <3>3, SMT DEF LedgerLive
      <3> QED
        BY <1>2, <2>4, <3>1, <3>4 DEF InLedger
    <2> QED
      BY <1>3, <2>3, <2>4 DEF InLedger
  <1>5. /\ \A k \in Keys : pending'[k] \in {pending[k], None}
        /\ \A k \in Keys : outStored'[k] # None => outStored'[k] = outStored[k]
    BY <1>2
  <1>6. \A e \in Devices : Holding(e)' => Holding(e)
    BY <1>1 DEF Holding
  <1> QED
    BY <1>1, <1>3, <1>5, <1>6, DeviceCopies DEF Trust

\* A recorded receipt is the one that the actor held.
LEMMA StoredCopies ==
  ASSUME Inv, Trust, Copies, Values', NEW d \in Devices, mark_outbound_stored(d) PROVE Copies'
  <1> USE Zenon
  <1>1. /\ UNCHANGED <<store, wire, seals, dispatch, gone>> /\ Becomes(d, Idle)
        /\ pc[d].at = "put" /\ pc[d].reply # None
    BY DEF mark_outbound_stored, events, history
  <1>2. CASE pc[d].reply \in {"Created", "AlreadyPresent"}
    <2>1. PICK k, r : k = pc[d].key /\ r = pc[d].receipt
      OBVIOUS
    <2>2. Holding(d)
      BY <1>1, <1>2 DEF Holding
    <2>3. k \in Keys /\ Outlasting(r) /\ Copy(k, r.envelope)
      BY <2>1, <2>2 DEF Copies, Outlasts, Copy
    <2>4. r # None
      BY <1>1, <1>2, <2>1 DEF Trust, Ready
    <2>5. \A j \in Keys : /\ pending'[j] = IF j = k THEN None ELSE pending[j]
                          /\ outStored'[j] = IF j = k THEN r ELSE outStored[j]
      BY <1>2, <2>1 DEF mark_outbound_stored, Trust, Values, Recorded
    <2>6. \A j \in Keys : InLedger(j) => InLedger(j)'
      BY <2>4, <2>5 DEF InLedger
    <2>7. /\ \A j \in Keys : pending'[j] \in {pending[j], None}
          /\ \A j \in Keys : outStored'[j] # None
               => \/ outStored'[j] = outStored[j]
                  \/ Outlasting(outStored'[j]) /\ Copy(j, outStored'[j].envelope)
      BY <2>3, <2>5
    <2> QED
      BY <1>1, <2>6, <2>7, AwayPlaces, AwayCopies DEF Trust
  <1>3. CASE pc[d].reply \notin {"Created", "AlreadyPresent"}
    <2>1. UNCHANGED <<pending, outStored>>
      BY <1>3 DEF mark_outbound_stored
    <2>2. \A j \in Keys : InLedger(j) => InLedger(j)'
      BY <2>1 DEF InLedger
    <2>3. \A j \in Keys : pending'[j] \in {pending[j], None}
      BY <2>1
    <2> QED
      BY <1>1, <2>1, <2>2, <2>3, AwayPlaces, AwayCopies DEF Trust
  <1> QED
    BY <1>2, <1>3

\* Sending a pending upload or a delete, recording a commit or a deletion, failing and giving up.
LEMMA QuietCopies ==
  ASSUME Inv, Trust, Copies, Values', NEW d \in Devices,
         \/ attempt_pending_runtime_mailbox_upload(d)
         \/ poll_pending_delete(d) \/ prepare_inbound_fails(d) \/ record_inbound_commit(d)
         \/ mark_inbound_deleted(d) \/ GiveUp(d) \/ Interrupt(d)
         \/ attempt_runtime_mailbox_poll(d)
  PROVE  Copies'
  <1> USE Zenon
  <1>1. UNCHANGED <<store, dispatch, seals, gone, pending, outStored>>
    BY DEF attempt_pending_runtime_mailbox_upload, poll_pending_delete,
           prepare_inbound_fails, record_inbound_commit, mark_inbound_deleted, GiveUp, Interrupt,
           attempt_runtime_mailbox_poll, Fault, events, history, ledgers
  <1>2. /\ \A k \in Keys : InLedger(k) => InLedger(k)'
        /\ \A k \in Keys : pending'[k] \in {pending[k], None}
    BY <1>1 DEF InLedger
  <1>3. ASSUME NEW p, Away(p), Becomes(d, p),
               \A q \in wire' : \/ q \in wire \/ q.op = "delete"
                                \/ \E k \in Keys : pending[k] # None /\ q = Put(k, pending[k])
        PROVE  Copies'
    BY <1>1, <1>2, <1>3, AwayCopies DEF Trust
  <1>4. Whole(pc[d])
    BY DEF Inv, Actors
  <1>5. CASE attempt_pending_runtime_mailbox_upload(d)
    <2>1. PICK k, p : /\ k \in First(Waiting(d)) /\ wire' = wire \cup {Put(k, pending[k])}
                      /\ p = At("put", k, None) /\ Becomes(d, p)
      BY <1>5 DEF attempt_pending_runtime_mailbox_upload
    <2>2. k \in Keys /\ pending[k] # None
      BY <2>1 DEF First, Waiting, Outbox
    <2> QED
      BY <1>3, <2>1, <2>2, AwayPlaces
  <1>6. CASE poll_pending_delete(d)
    <2>1. PICK k, r, p : /\ wire' = wire \cup {Erase(r)}
                         /\ p = At("redelete", k, r) /\ Becomes(d, p)
      BY <1>6 DEF poll_pending_delete
    <2>2. \A q \in wire' : q \in wire \/ q.op = "delete"
      BY <2>1, SMT DEF Erase
    <2> QED
      BY <1>3, <2>1, <2>2, AwayPlaces
  <1>7. CASE prepare_inbound_fails(d) \/ GiveUp(d) \/ Interrupt(d)
    <2>1. wire' = wire /\ Becomes(d, Idle)
      BY <1>7 DEF prepare_inbound_fails, GiveUp, Interrupt
    <2> QED
      BY <1>3, <2>1, AwayPlaces
  <1>8. CASE record_inbound_commit(d)
    <2>1. \A q \in wire' : q \in wire \/ q.op = "delete"
      BY <1>8, SMT DEF record_inbound_commit, Erase
    <2>2. \/ \E place \in {"delete", "redelete"} : Becomes(d, [pc[d] EXCEPT !.at = place])
          \/ Becomes(d, Idle)
      BY <1>8, RecordGoesOn DEF record_inbound_commit
    <2>3. Away(Idle) /\ \A place \in {"delete", "redelete"} : Away([pc[d] EXCEPT !.at = place])
      BY <1>4, AwayPlaces
    <2> QED
      BY <1>3, <2>1, <2>2, <2>3
  <1>9. CASE mark_inbound_deleted(d)
    <2>1. pc[d].at \in {"delete", "redelete"}
      BY <1>9 DEF mark_inbound_deleted
    <2>2. PICK a : a = <<"a", pc[d].key[2]>>
      OBVIOUS
    <2>3. a \in Keys
      BY <2>1, <2>2, KeysArePairs DEF Inv, Actors, Held, Inbox, Reading, Devices
    <2>4. \/ wire' = wire /\ Becomes(d, Idle)
          \/ /\ pending[a] # None
             /\ wire' = wire \cup {Put(a, pending[a])} /\ Becomes(d, At("put", a, None))
      BY <1>9, <2>2 DEF mark_inbound_deleted
    <2>5. \A q \in wire' : \/ q \in wire
                           \/ \E k \in Keys : pending[k] # None /\ q = Put(k, pending[k])
      BY <2>3, <2>4
    <2> QED
      BY <1>3, <2>4, <2>5, AwayPlaces
  <1>10. CASE attempt_runtime_mailbox_poll(d)
    <2>1. wire' = wire /\ Becomes(d, At("poll", None, None))
      BY <1>10 DEF attempt_runtime_mailbox_poll
    <2> QED
      BY <1>3, <2>1, AwayPlaces
  <1> QED
    BY <1>5, <1>6, <1>7, <1>8, <1>9, <1>10, ZenonT(30)

\* The application's transactions, and going on without the acknowledgement.
LEMMA ApplicationCopies ==
  ASSUME Inv, Trust, Copies, Values',
         \/ commit_runtime_mailbox_text \/ commit_runtime_mailbox_acknowledgement
         \/ tolerate_unavailable_runtime_reverse_mailbox_acknowledgement
  PROVE  Copies'
  <1> USE Zenon
  <1>1. UNCHANGED <<store, dispatch, seals, gone, pending, outStored, wire>>
    BY DEF commit_runtime_mailbox_text, commit_runtime_mailbox_acknowledgement,
           tolerate_unavailable_runtime_reverse_mailbox_acknowledgement, Fault, events, ledgers,
           history
  <1>2. /\ \A k \in Keys : InLedger(k) => InLedger(k)'
        /\ \A k \in Keys : pending'[k] \in {pending[k], None}
    BY <1>1 DEF InLedger
  <1>3. CASE commit_runtime_mailbox_acknowledgement
    <2>1. Away([pc["a"] EXCEPT !.at = "prepared"])
      BY AwayPlaces DEF Inv, Actors, Devices
    <2>2. Becomes("a", [pc["a"] EXCEPT !.at = "prepared"]) /\ "a" \in Devices
      BY <1>3 DEF commit_runtime_mailbox_acknowledgement, Devices
    <2> QED
      BY <1>1, <1>2, <2>1, <2>2, AwayCopies DEF Trust
  <1>4. CASE commit_runtime_mailbox_text
    <2>1. PICK p : p = [pc["b"] EXCEPT !.at = "ingested"]
      OBVIOUS
    <2>2. /\ Opened("b") /\ Becomes("b", p) /\ "b" \in Devices
      BY <1>4, <2>1 DEF commit_runtime_mailbox_text, Devices
    <2>3. p.at = "ingested" /\ p.key = pc["b"].key /\ p.receipt = pc["b"].receipt
      BY <2>1 DEF Inv, Actors, Whole, Devices
    <2>4. \A e \in Devices : pc'[e] = IF e = "b" THEN p ELSE pc[e]
      BY <2>2, OneMoves
    <2>5. Holding("b")
      BY <2>2 DEF Opened, Holding
    <2>6. \A e \in Devices : Holding(e)'
              => Holding(e) /\ pc'[e].key = pc[e].key /\ pc'[e].receipt = pc[e].receipt
      BY <2>3, <2>4, <2>5 DEF Holding
    <2>7. pc'["a"] = pc["a"]
      BY <2>4 DEF Devices
    <2> QED
      BY <1>1, <1>2, <2>6, <2>7, DeviceCopies DEF Trust
  <1>5. CASE tolerate_unavailable_runtime_reverse_mailbox_acknowledgement
    <2>1. Away([pc["b"] EXCEPT !.at = "unprepared"])
      BY AwayPlaces DEF Inv, Actors, Devices
    <2>2. Becomes("b", [pc["b"] EXCEPT !.at = "unprepared"]) /\ "b" \in Devices
      BY <1>5 DEF tolerate_unavailable_runtime_reverse_mailbox_acknowledgement, Devices
    <2> QED
      BY <1>1, <1>2, <2>1, <2>2, AwayCopies DEF Trust
  <1> QED
    BY <1>3, <1>4, <1>5

\* Sealing an envelope of an item, which is the first one while the dispatch is in force.
LEMMA SealCopies ==
  ASSUME Inv, Trust, Copies, Values', NEW j \in Keys, NEW f \in Envelopes,
         InForce(j) => seals[j] = 0, f.expires <= clock + Ttl,
         dispatch[j[2]] \in Expiries, dispatch[j[2]] <= f.expires,
         j[1] = "b" => f.expires = dispatch[j[2]],
         UNCHANGED <<store, dispatch, outStored, gone>>,
         seals' = [seals EXCEPT ![j] = @ + 1], pending' = [pending EXCEPT ![j] = f],
         wire' \subseteq wire \cup {Put(j, f)},
         pc'["a"].at = "dispatched" => pc'["a"] = pc["a"] /\ j # pc["a"].key,
         \A d \in Devices : Holding(d)'
             => Holding(d) /\ pc'[d].key = pc[d].key /\ pc'[d].receipt = pc[d].receipt
  PROVE  Copies'
  <1> USE Zenon
  <1>1. UNCHANGED <<clock, items, tombstones, proven>>
    BY DEF store
  <1>2. /\ \A k \in Keys : pending'[k] = IF k = j THEN f ELSE pending[k]
        /\ \A k \in Keys : k # j => seals'[k] = seals[k]
        /\ \A k \in Keys : seals[k] > 0 => seals'[k] > 0
        /\ seals'[j] > 0
    BY BoundsAssumption, SMT DEF Trust, Values
  <1>3. InForce(j) => \A e \in Envelopes : ~Copy(j, e)
    <2>1. InForce(j) => ~(seals[j] > 0)
      BY SMT
    <2> QED
      BY <2>1 DEF Copies, Lifetimes, Sealed
  <1>4. ASSUME NEW k \in Keys, NEW e \in Envelopes, Copy(k, e)'
        PROVE  (k = j /\ e = f) \/ Copy(k, e)
    <2>1. CASE pending'[k] = e
      BY <1>2, <2>1 DEF Copy
    <2>2. CASE Put(k, e)' \in wire'
      <3>1. Put(k, e)' = Put(k, e) /\ (Put(k, e) = Put(j, f) => k = j /\ e = f)
        BY DEF Put
      <3>2. Put(k, e) \in wire => Copy(k, e)
        BY DEF Copy
      <3> QED
        BY <2>2, <3>1, <3>2
    <2>3. CASE \/ items'[k] # None /\ items'[k].envelope = e
               \/ outStored'[k] # None /\ outStored'[k].envelope = e
               \/ \E d \in Devices : Holding(d)' /\ pc'[d].key = k /\ pc'[d].receipt.envelope = e
      BY <1>1, <2>3 DEF Copy
    <2> QED
      BY <1>4, <2>1, <2>2, <2>3 DEF Copy
  <1>5. Outlasts'
    <2>1. ASSUME NEW k \in Keys, items'[k] # None PROVE Outlasting(items[k])'
      BY <1>1, <2>1 DEF Copies, Outlasts, Outlasting, Store!Receipts, Store!Keys
    <2>2. ASSUME NEW k \in Keys, outStored'[k] # None PROVE Outlasting(outStored[k])'
      BY <2>2 DEF Copies, Outlasts, Outlasting, Store!Receipts, Store!Keys
    <2>3. ASSUME NEW d \in Devices, Holding(d)'
          PROVE  pc'[d].key \in Keys /\ Outlasting(pc[d].receipt)'
      BY <2>3 DEF Copies, Outlasts, Outlasting, Store!Receipts, Store!Keys
    <2> QED
      BY <2>1, <2>2, <2>3 DEF Outlasts
  <1>6. Requests'
    BY SMT DEF Copies, Requests, Put
  <1>7. Same'
    <2>1. \A k \in Keys : InForce(k)' => InForce(k)
      BY <1>1 DEF InForce
    <2> QED
      BY <1>3, <1>4, <2>1 DEF Copies, Same
  <1>8. Lifetimes'
    <2>1. ASSUME NEW k \in Keys, NEW e \in Envelopes, Copy(k, e)' PROVE Sealed(k, e)'
      <3>1. CASE k = j /\ e = f
        BY <1>1, <1>2, <3>1 DEF Sealed
      <3>2. CASE Copy(k, e)
        BY <1>1, <1>2, <3>2 DEF Sealed, Copies, Lifetimes
      <3> QED
        BY <1>4, <2>1, <3>1, <3>2
    <2> QED
      BY <1>1, <2>1 DEF Lifetimes, Copies
  <1>9. f # None
    BY NoneAssumption
  <1>10. Known'
    <2>1. ASSUME NEW k \in Keys, seals'[k] > 0
          PROVE  dispatch'[k[2]] \in Expiries /\ (InForce(k)' => InLedger(k)')
      <3>1. CASE k = j
        BY <1>2, <1>9, <3>1 DEF InLedger
      <3>2. CASE k # j
        <4>1. seals[k] > 0 /\ (InForce(k)' => InForce(k)) /\ (InLedger(k) => InLedger(k)')
          BY <1>1, <1>2, <2>1, <3>2 DEF InForce, InLedger
        <4> QED
          BY <4>1 DEF Copies, Known
      <3> QED
        BY <3>1, <3>2
    <2> QED
      BY <2>1 DEF Known
  <1>11. Fresh'
    BY <1>2, SMT DEF Copies, Fresh, Inv, Actors, Held, Outbox, Devices
  <1>12. Graves'
    <2>1. ASSUME NEW k \in gone PROVE k \in Keys /\ seals'[k] > 0 /\ (InForce(k)' => Standing(k)')
      BY <1>1, <1>2, <2>1 DEF Copies, Graves, InForce, Standing
    <2> QED
      BY <1>1, <1>2, <2>1 DEF Graves, Copies
  <1> QED
    BY <1>5, <1>6, <1>7, <1>8, <1>10, <1>11, <1>12 DEF Copies

\* Device a seals a text once while its dispatch is in force: the fallback only before any
\* upload, the repair only when the ledger knows of none.
LEMMA EnqueueCopies ==
  ASSUME Inv, Trust, Copies, Values',
         enqueue_outbound \/ prepare_orphan_runtime_mailbox_dispatch
  PROVE  Copies'
  <1> USE Zenon
  <1>1. ASSUME NEW j \in Outbox("a"), InForce(j) => seals[j] = 0, NEW x \in Expiries, x = dispatch[j[2]],
               x <= clock + Ttl, SealAndUpload("a", j, x),
               UNCHANGED <<store, dispatch, outStored, gone>>
        PROVE  Copies'
    <2>1. PICK f, p : f = [expires |-> x, seal |-> seals[j] + 1] /\ p = At("put", j, None)
      OBVIOUS
    <2>2. j \in Keys /\ j[1] = "b"
      BY <1>1 DEF Outbox, Peer
    <2>3. /\ seals' = [seals EXCEPT ![j] = @ + 1] /\ seals'[j] = seals[j] + 1
          /\ seals[j] < MaxSeals
      BY <1>1, <2>2 DEF SealAndUpload, Trust, Values
    <2>4. f \in Envelopes /\ f.expires = x
      BY <1>1, <2>1, <2>2, <2>3, SealedIsEnvelope DEF Trust
    <2>5. pending' = [pending EXCEPT ![j] = f] /\ Becomes("a", p)
      BY <1>1, <2>1, <2>3 DEF SealAndUpload
    <2>6. pending'[j] = f
      BY <2>2, <2>5 DEF Trust, Values
    <2>7. wire' \subseteq wire \cup {Put(j, f)}
      BY <1>1, <2>6 DEF SealAndUpload
    <2>8. \A e \in Devices : pc'[e] = IF e = "a" THEN p ELSE pc[e]
      BY <2>5, OneMoves DEF Devices
    <2>9. p.at = "put" /\ p.reply = None
      BY <2>1 DEF At
    <2>10. /\ pc'["a"].at # "dispatched"
           /\ \A d \in Devices : Holding(d)'
                => Holding(d) /\ pc'[d].key = pc[d].key /\ pc'[d].receipt = pc[d].receipt
      BY <2>8, <2>9 DEF Holding, Devices
    <2>11. x <= f.expires
      BY <1>1, <2>4, BoundsAssumption, SMT DEF Expiries
    <2> QED
      BY <1>1, <2>2, <2>3, <2>4, <2>5, <2>7, <2>10, <2>11, SealCopies
  <1>2. \A t \in Texts : dispatch[t] \in Expiries => dispatch[t] <= clock + Ttl
    BY NoneAssumption DEF Copies, Lifetimes, Expiries
  <1>3. CASE enqueue_outbound
    <2>1. PICK j, x : j = pc["a"].key /\ x = dispatch[j[2]]
      OBVIOUS
    <2>2. /\ pc["a"].at = "dispatched" /\ SealAndUpload("a", j, x)
          /\ UNCHANGED <<store, dispatch, outStored, gone>>
      BY <1>3, <2>1, ZenonT(30) DEF enqueue_outbound, events
    <2>3. j \in Outbox("a") /\ x \in Expiries /\ seals[j] = 0
      BY <2>1, <2>2 DEF Inv, Actors, Held, Trust, Ready, Copies, Fresh, Devices
    <2>4. j[2] \in Texts
      BY <2>3, KeysArePairs DEF Outbox
    <2> QED
      BY <1>1, <1>2, <2>1, <2>2, <2>3, <2>4
  <1>4. CASE prepare_orphan_runtime_mailbox_dispatch
    <2>1. PICK j, x : /\ j \in First(Orphans) /\ x = dispatch[j[2]]
                      /\ SealAndUpload("a", j, x)
                      /\ UNCHANGED <<store, dispatch, outStored, gone>>
      BY <1>4 DEF prepare_orphan_runtime_mailbox_dispatch, events
    <2>2. /\ j \in Outbox("a") /\ x # None /\ j[2] \in Texts /\ j \in Keys
          /\ x > clock /\ pending[j] = None /\ outStored[j] = None
      BY <2>1, KeysArePairs DEF First, Orphans, Outbox
    <2>3. x \in Expiries
      BY <2>1, <2>2 DEF Trust, Values
    <2>4. InForce(j) => seals[j] = 0
      <3>1. InForce(j) => ~(seals[j] > 0)
        BY <2>2 DEF Copies, Known, InLedger
      <3> QED
        BY <2>2, <3>1, BoundsAssumption, SMT DEF Trust, Values
    <2> QED
      BY <1>1, <1>2, <2>1, <2>2, <2>3, <2>4
  <1> QED
    BY <1>3, <1>4, SMT

\* Device b seals the acknowledgement of a text once while the dispatch is in force.
LEMMA ReverseCopies ==
  ASSUME Inv, Trust, Copies, Values', prepare_runtime_reverse_mailbox_acknowledgement
  PROVE  Copies'
  <1> USE Zenon
  <1>1. PICK p : p = [pc["b"] EXCEPT !.at = "prepared"]
    OBVIOUS
  <1>2. /\ UNCHANGED <<store, wire, dispatch, outStored, gone>>
        /\ pc["b"].at = "ingested" /\ Becomes("b", p) /\ "b" \in Devices
    BY <1>1 DEF prepare_runtime_reverse_mailbox_acknowledgement, events, Devices
  <1>3. Away(p) /\ p.at = "prepared"
    BY <1>1, AwayPlaces DEF Inv, Actors, Whole, Devices
  <1>4. PICK i, j, r : i = pc["b"].key /\ j = <<"a", i[2]>> /\ r = pc["b"].receipt
    OBVIOUS
  <1>5. i \in Keys /\ i[2] \in Texts /\ j \in Keys /\ j[1] = "a" /\ j[2] = i[2]
    BY <1>2, <1>4, KeysArePairs DEF Inv, Actors, Held, Inbox, Reading, Devices
  <1>6. CASE UNCHANGED <<pending, seals>>
    <2>1. /\ \A k \in Keys : InLedger(k) => InLedger(k)'
          /\ \A k \in Keys : pending'[k] \in {pending[k], None}
      BY <1>2, <1>6 DEF InLedger
    <2> QED
      BY <1>2, <1>3, <1>6, <2>1, AwayCopies DEF Trust
  <1>7. CASE /\ pending[j] = None /\ outStored[j] = None
             /\ seals[j] < MaxSeals /\ seals' = [seals EXCEPT ![j] = @ + 1]
             /\ pending' = [pending EXCEPT ![j] = [expires |-> clock + Ttl, seal |-> seals'[j]]]
    <2>1. InForce(j) => seals[j] = 0
      <3>1. InForce(j) => ~(seals[j] > 0)
        BY <1>5, <1>7 DEF Copies, Known, InLedger
      <3> QED
        BY <1>5, <3>1, BoundsAssumption, SMT DEF Trust, Values
    <2>2. PICK f : f = [expires |-> clock + Ttl, seal |-> seals[j] + 1]
      OBVIOUS
    <2>3. clock + Ttl \in Expiries
      BY BoundsAssumption, SMT DEF Trust, Values, Expiries
    <2>4. f \in Envelopes /\ f.expires = clock + Ttl
      BY <1>5, <1>7, <2>2, <2>3, SealedIsEnvelope DEF Trust
    <2>5. seals'[j] = seals[j] + 1
      BY <1>5, <1>7 DEF Trust, Values
    <2>6. pending' = [pending EXCEPT ![j] = f]
      BY <1>7, <2>2, <2>5
    <2>7. dispatch[i[2]] \in Expiries
      <3>1. Holding("b")
        BY <1>2 DEF Holding
      <3>2. r.envelope \in Envelopes
        BY <1>2, <1>4, <3>1 DEF Copies, Outlasts, Outlasting, Store!Receipts
      <3>3. Copy(i, r.envelope)
        BY <1>2, <1>4, <3>1 DEF Copy
      <3> QED
        BY <1>5, <3>2, <3>3 DEF Copies, Lifetimes, Sealed
    <2>8. dispatch[i[2]] <= clock + Ttl /\ f.expires <= clock + Ttl
      BY <1>5, <2>3, <2>4, <2>7, NoneAssumption, BoundsAssumption, SMT
      DEF Copies, Lifetimes, Expiries
    <2>9. \A e \in Devices : pc'[e] = IF e = "b" THEN p ELSE pc[e]
      BY <1>2, OneMoves
    <2>10. pc'["a"] = pc["a"] /\ (pc["a"].at = "dispatched" => j # pc["a"].key)
      BY <1>5, <2>9 DEF Inv, Actors, Held, Outbox, Peer, Devices
    <2>11. \A d \in Devices : Holding(d)'
                => Holding(d) /\ pc'[d].key = pc[d].key /\ pc'[d].receipt = pc[d].receipt
      BY <1>2, <1>3, <2>9 DEF Holding
    <2>12. /\ dispatch[j[2]] \in Expiries /\ dispatch[j[2]] <= f.expires /\ j[1] # "b"
           /\ wire' \subseteq wire \cup {Put(j, f)}
      BY <1>2, <1>5, <2>4, <2>7, <2>8
    <2>13. /\ f.expires <= clock + Ttl /\ seals' = [seals EXCEPT ![j] = @ + 1]
           /\ pc'["a"].at = "dispatched" => pc'["a"] = pc["a"] /\ j # pc["a"].key
      BY <1>7, <2>8, <2>10
    <2> QED
      BY <1>2, <1>5, <2>1, <2>4, <2>6, <2>11, <2>12, <2>13, SealCopies, ZenonT(30)
  <1> QED
    BY <1>4, <1>6, <1>7 DEF prepare_runtime_reverse_mailbox_acknowledgement

\* A text without a dispatch has no envelope, nor has its acknowledgement.
LEMMA FallbackCopies ==
  ASSUME Inv, Trust, Copies, Values', NEW t \in Texts, attempt_runtime_mailbox_fallback(t)
  PROVE  Copies'
  <1> USE Zenon
  <1>1. PICK p : p = At("dispatched", <<"b", t>>, None)
    OBVIOUS
  <1>2. /\ UNCHANGED <<store, seals, gone, pending, outStored, wire>>
        /\ dispatch' = [dispatch EXCEPT ![t] = clock + Ttl] /\ dispatch[t] = None
        /\ Becomes("a", p) /\ "a" \in Devices
    BY <1>1 DEF attempt_runtime_mailbox_fallback, ledgers, history, Devices
  <1>3. /\ UNCHANGED <<clock, items, tombstones>> /\ clock \in Nat /\ clock <= clock'
        /\ proven' \subseteq proven
    BY <1>2, BoundsAssumption, SMT DEF store, Trust, Values
  <1>4. \A u \in Texts : dispatch'[u] = IF u = t THEN clock + Ttl ELSE dispatch[u]
    BY <1>2 DEF Trust, Values
  <1>5. ASSUME NEW k \in Keys, seals[k] > 0 PROVE k[2] \in Texts /\ k[2] # t
    <2>1. k[2] \in Texts /\ dispatch[k[2]] \in Expiries
      BY <1>5, KeysArePairs DEF Copies, Known
    <2> QED
      BY <1>2, <2>1, NoneAssumption DEF Expiries
  <1>6. \A e \in Devices : pc'[e] = IF e = "a" THEN p ELSE pc[e]
    BY <1>2, OneMoves
  <1>7. p.at = "dispatched" /\ p.key = <<"b", t>>
    BY <1>1 DEF At
  <1>8. /\ pc'["b"] = pc["b"] /\ pc'["a"] = p
        /\ \A d \in Devices : Holding(d)'
             => Holding(d) /\ pc'[d].key = pc[d].key /\ pc'[d].receipt = pc[d].receipt
    BY <1>6, <1>7 DEF Holding, Devices
  <1>9. \A k \in Keys : InLedger(k)' <=> InLedger(k)
    BY <1>2 DEF InLedger
  <1>10. \A k \in Keys, e \in Envelopes : Copy(k, e)' => Copy(k, e)
    BY <1>2, <1>3, <1>8, FewerCopies
  <1>11. Outlasts' /\ Requests'
    <2>1. ASSUME NEW k \in Keys, items'[k] # None PROVE Outlasting(items[k])'
      BY <1>3, <2>1 DEF Copies, Outlasts, Outlasting, Store!Receipts, Store!Keys
    <2>2. ASSUME NEW k \in Keys, outStored'[k] # None PROVE Outlasting(outStored[k])'
      BY <1>2, <2>2 DEF Copies, Outlasts, Outlasting, Store!Receipts, Store!Keys
    <2>3. ASSUME NEW d \in Devices, Holding(d)'
          PROVE  pc'[d].key \in Keys /\ Outlasting(pc[d].receipt)'
      BY <1>8, <2>3 DEF Copies, Outlasts, Outlasting, Store!Receipts, Store!Keys
    <2> QED
      BY <1>2, <2>1, <2>2, <2>3 DEF Outlasts, Copies, Requests, Put
  <1>19. ASSUME NEW k \in Keys, seals[k] > 0 PROVE dispatch'[k[2]] = dispatch[k[2]]
    BY <1>4, <1>5, <1>19
  <1>20. \A k \in Keys : seals[k] > 0 => (InForce(k)' => InForce(k))
    BY <1>3, <1>19 DEF InForce
  <1>12. Same'
    <2>1. ASSUME NEW k \in Keys, NEW e \in Envelopes, NEW f \in Envelopes,
                 InForce(k)', Copy(k, e)', Copy(k, f)'
          PROVE  e = f
      <3>1. seals[k] > 0
        BY <1>10, <2>1 DEF Copies, Lifetimes, Sealed
      <3> QED
        BY <1>10, <1>20, <2>1, <3>1 DEF Copies, Same
    <2> QED
      BY <2>1 DEF Same
  <1>13. ASSUME NEW k \in Keys, NEW e \in Envelopes, Copy(k, e)' PROVE Sealed(k, e)'
    <2>1. Sealed(k, e)
      BY <1>10, <1>13 DEF Copies, Lifetimes
    <2> QED
      BY <1>2, <1>3, <1>4, <1>5, <2>1 DEF Sealed
  <1>14. \A u \in Texts : dispatch'[u] # None => dispatch'[u] <= clock' + Ttl
    BY <1>3, <1>4, BoundsAssumption, SMT DEF Copies, Lifetimes
  <1>15. Known'
    BY <1>2, <1>9, <1>19, <1>20 DEF Copies, Known
  <1>16. Fresh'
    <2>1. <<"b", t>> \in Keys /\ <<"b", t>>[2] = t
      BY KeysArePairs DEF Devices
    <2>2. ~(seals[<<"b", t>>] > 0)
      BY <1>5, <2>1
    <2>3. seals'[<<"b", t>>] = 0
      BY <1>2, <2>1, <2>2, BoundsAssumption, SMT DEF Trust, Values
    <2> QED
      BY <1>2, <1>7, <1>8, <1>9, <2>3 DEF Copies, Fresh
  <1>17. Keeps
    BY <1>3 DEF Keeps, Standing
  <1>18. Graves'
    BY <1>2, <1>3, <1>17, <1>19, GravesStep DEF Trust
  <1> QED
    BY <1>11, <1>12, <1>13, <1>14, <1>15, <1>16, <1>18 DEF Copies, Lifetimes

\* A step of the store: what it stores was in flight, and what it answers with is stored.
LEMMA StoreCopies ==
  ASSUME Copies, Values, Values', UNCHANGED <<seals, dispatch, pending, outStored>>,
         clock <= clock', wire' \subseteq wire,
         \A k \in Keys : items'[k] # None
             => \/ items'[k] = items[k]
                \/ Outlasting(items'[k]) /\ Copy(k, items'[k].envelope),
         \A d \in Devices : Holding(d)'
             => \/ pc'[d] = pc[d]
                \/ /\ pc'[d].key \in Keys /\ items'[pc'[d].key] # None
                   /\ pc'[d].receipt = items'[pc'[d].key],
         pc'["a"].at = "dispatched" => pc'["a"] = pc["a"]
  PROVE  /\ \A k \in Keys, e \in Envelopes : Copy(k, e)' => Copy(k, e)
         /\ Graves' => Copies'
  <1> USE Zenon
  <1>1. ASSUME NEW k \in Keys, items'[k] # None
        PROVE  Outlasting(items'[k]) /\ Copy(k, items'[k].envelope)
    <2>1. PICK r : r = items'[k]
      OBVIOUS
    <2>2. r = items[k] => Outlasting(r) /\ Copy(k, r.envelope)
      BY <1>1, <2>1 DEF Copies, Outlasts, Copy
    <2> QED
      BY <1>1, <2>1, <2>2
  <1>2. ASSUME NEW d \in Devices, Holding(d)'
        PROVE  \/ Holding(d) /\ pc'[d] = pc[d]
               \/ /\ pc'[d].key \in Keys /\ Outlasting(pc'[d].receipt)
                  /\ Copy(pc'[d].key, pc'[d].receipt.envelope)
    <2>1. pc'[d] = pc[d] => Holding(d)
      BY <1>2 DEF Holding
    <2>2. PICK k, r : k = pc'[d].key /\ r = pc'[d].receipt
      OBVIOUS
    <2>3. k \in Keys /\ items'[k] # None /\ r = items'[k] => Outlasting(r) /\ Copy(k, r.envelope)
      BY <1>1
    <2> QED
      BY <1>2, <2>1, <2>2, <2>3
  <1>3. \A k \in Keys, e \in Envelopes : Copy(k, e)' => Copy(k, e)
    <2>1. \A k \in Keys : pending'[k] \in {pending[k], None}
      OBVIOUS
    <2>2. \A q \in wire' : q \in wire
      OBVIOUS
    <2>3. \A d \in Devices : Holding(d)'
             => \/ Holding(d) /\ pc'[d].key = pc[d].key /\ pc'[d].receipt = pc[d].receipt
                \/ Copy(pc'[d].key, pc'[d].receipt.envelope)
      BY <1>2
    <2> QED
      BY <1>1, <2>1, <2>2, <2>3, FewerCopies
  <1>4. Outlasts'
    <2>1. ASSUME NEW k \in Keys, items'[k] # None PROVE Outlasting(items[k])'
      BY <1>1, <2>1 DEF Outlasting, Store!Receipts, Store!Keys
    <2>2. ASSUME NEW k \in Keys, outStored'[k] # None PROVE Outlasting(outStored[k])'
      BY <2>2 DEF Copies, Outlasts, Outlasting, Store!Receipts, Store!Keys
    <2>3. ASSUME NEW d \in Devices, Holding(d)'
          PROVE  pc'[d].key \in Keys /\ Outlasting(pc[d].receipt)'
      BY <1>2, <2>3 DEF Copies, Outlasts, Outlasting, Store!Receipts, Store!Keys
    <2> QED
      BY <2>1, <2>2, <2>3 DEF Outlasts
  <1>5. Requests'
    BY DEF Copies, Requests, Put
  <1>6. \A k \in Keys : InLedger(k) => InLedger(k)'
    BY DEF InLedger
  <1> QED
    BY <1>3, <1>4, <1>5, <1>6, CopiesStep

\* Listing, the first half of a delete, restarts, lost requests and the passing of time.
LEMMA WorldCopies ==
  ASSUME Inv, Trust, Copies, Values',
         \/ \E d \in Devices : poll_list(d)
         \/ \E q \in wire : service_delete(q)
         \/ Tick \/ RestartStore \/ \E q \in wire : LoseRequest(q)
  PROVE  Copies'
  <1> USE Zenon
  <1>1. UNCHANGED <<seals, dispatch, gone, pending, outStored>> /\ wire' \subseteq wire
    BY DEF poll_list, service_delete, Tick, RestartStore, LoseRequest, Fault, events,
       ledgers, history
  <1>2. clock \in Nat
    <2>1. clock \in 0..MaxClock
      BY DEF Trust, Values
    <2> QED
      BY <2>1, BoundsAssumption, SMT
  <1>3. clock <= clock'
    BY <1>2, SMT DEF poll_list, service_delete, Tick, RestartStore, LoseRequest, Store!delete,
                Store!Tick, Store!open, store
  <1>4. (\E now \in Store!Times : Store!CleanupEffect(now)) \/ UNCHANGED <<items, tombstones>>
    BY DEF poll_list, service_delete, Tick, RestartStore, LoseRequest, Store!delete, Store!Tick,
           Store!open, Store!tables, store
  <1>5. /\ Keeps
        /\ \A k \in Keys : items'[k] # None => items'[k] = items[k]
        /\ \A k \in Keys : tombstones'[k] # None => tombstones'[k] = tombstones[k]
    <2>1. UNCHANGED <<items, tombstones>> => Keeps
      BY DEF Keeps, Standing
    <2> QED
      BY <1>4, <2>1, CleanupKeeps, CleanupRemoves
  <1>6. \/ pc' = pc
        \/ \E d \in Devices : Becomes(d, Idle)
        \/ \E d \in Devices : \E k \in Inbox(d) :
              items'[k] # None /\ Becomes(d, At("listed", k, items'[k]))
    BY DEF poll_list, service_delete, Tick, RestartStore, LoseRequest, First
  <1> DEFINE Answers == /\ \A d \in Devices : Holding(d)'
                             => \/ pc'[d] = pc[d]
                                \/ /\ pc'[d].key \in Keys /\ items'[pc'[d].key] # None
                                   /\ pc'[d].receipt = items'[pc'[d].key]
                        /\ pc'["a"].at = "dispatched" => pc'["a"] = pc["a"]
  <1>7. Answers
    <2>1. CASE pc' = pc
      BY <2>1
    <2>2. ASSUME NEW d \in Devices, NEW k \in Inbox(d), items'[k] # None,
                 Becomes(d, At("listed", k, items'[k]))
          PROVE  Answers
      <3>1. PICK r, p : r = items'[k] /\ p = At("listed", k, r)
        OBVIOUS
      <3>2. p.at = "listed" /\ p.key = k /\ p.receipt = r /\ k \in Keys
        BY <3>1 DEF At, Inbox
      <3>3. \A e \in Devices : pc'[e] = IF e = d THEN p ELSE pc[e]
        BY <2>2, <3>1, OneMoves
      <3> QED
        BY <2>2, <3>1, <3>2, <3>3 DEF Devices
    <2>3. ASSUME NEW d \in Devices, Becomes(d, Idle) PROVE Answers
      <3>1. \A e \in Devices : pc'[e] = IF e = d THEN Idle ELSE pc[e]
        BY <2>3, OneMoves
      <3>2. Idle.at = "idle"
        BY DEF Idle
      <3> QED
        BY <3>1, <3>2 DEF Devices, Holding
    <2> QED
      BY <1>6, <2>1, <2>2, <2>3
  <1>8. /\ \A k \in Keys, e \in Envelopes : Copy(k, e)' => Copy(k, e)
        /\ Graves' => Copies'
    BY <1>1, <1>3, <1>5, <1>7, StoreCopies DEF Trust
  <1>9. proven' \subseteq proven
    BY DEF poll_list, service_delete, Tick, RestartStore, LoseRequest, Store!delete, Store!Tick,
           Store!open, Store!Recent, Store!history, store
  <1>10. Graves'
    BY <1>1, <1>3, <1>5, <1>9, GravesStep DEF Trust
  <1> QED
    BY <1>8, <1>10

\* A PUT that stores does so for a whole lifetime from the store's time, which no envelope
\* outlasts by more than the lag.
LEMMA PutCopies ==
  ASSUME Inv, Trust, Copies, Values', NEW q \in wire, service_put(q) PROVE Copies'
  <1> USE Zenon
  <1>1. UNCHANGED <<seals, dispatch, gone, pending, outStored>> /\ wire' \subseteq wire
    BY DEF service_put, events, ledgers, history
  <1>2. PICK k, e : k = q.key /\ e = q.envelope
    OBVIOUS
  <1>3. k \in Keys /\ e \in Envelopes /\ Put(k, e) \in wire
    BY <1>2 DEF service_put, Inv, Origins, Trust, Values, Copies, Requests
  <1>4. PICK d, now, p : /\ d = Peer(k[1]) /\ now \in Store!Times
                         /\ Store!put(k, e, Ttl, now)
                         /\ \/ pc' = pc
                            \/ /\ pc[d].at = "put" /\ pc[d].key = k /\ Becomes(d, p)
                               /\ p = Answer(d, Store!PutOutcome(k, e, Ttl, now), items'[k])
    BY <1>2 DEF service_put
  <1>5. PICK outcome, new : /\ outcome = Store!PutOutcome(k, e, Ttl, now)
                            /\ new = Store!NewReceipt(k, e, Ttl, now)
    OBVIOUS
  <1>6. /\ clock' = clock /\ proven' = proven /\ d \in Devices
        /\ Store!PutEffect(k, e, Ttl, now)
    BY <1>4 DEF Store!put, Peer, Devices
  <1>7. clock \in Nat /\ now \in Nat /\ Lag \in Nat /\ clock <= now + Lag /\ clock <= clock'
    BY <1>4, <1>6, BoundsAssumption, SMT DEF Store!Times, Trust, Values
  <1>8. Copy(k, e) /\ e.expires <= clock + Ttl
    BY <1>3 DEF Copy, Copies, Lifetimes, Sealed
  <1>9. new # None /\ new.envelope = e /\ Outlasting(new)
    <2>1. Store!Receipts = [key : Devices \X Texts, envelope : Envelopes, storedAt : Nat, expires : Nat]
      BY DEF Store!Receipts, Store!Keys
    <2>2. Keys = Devices \X Texts
      BY DEF Keys, Store!Keys
    <2>3. new = [key |-> k, envelope |-> e, storedAt |-> now, expires |-> now + Ttl]
      BY <1>5 DEF Store!NewReceipt
    <2>4. now + Ttl \in Nat
      BY <1>7, BoundsAssumption, SMT
    <2>5. new \in Store!Receipts /\ new # None
      BY <1>3, <1>7, <2>1, <2>2, <2>3, <2>4, NoneAssumption, SMT
    <2>6. new.envelope = e /\ new.expires = now + Ttl
      BY <2>3
    <2>7. e.expires <= (now + Ttl) + Lag
      <3>1. e.expires \in Nat
        BY <1>3, BoundsAssumption, SMT DEF Envelopes
      <3> QED
        BY <1>7, <1>8, <3>1, BoundsAssumption, SMT
    <2> QED
      BY <2>5, <2>6, <2>7 DEF Outlasting
  <1>10. /\ \A j \in Keys \ {k} : items'[j] = items[j] /\ tombstones'[j] = tombstones[j]
         /\ tombstones'[k] # None => tombstones'[k] = tombstones[k]
         /\ items'[k] # None => items'[k] = items[k] \/ items'[k] = new
         /\ outcome = "AlreadyPresent" => items'[k] = items[k] /\ items[k] # None
         /\ outcome = "Created" => items'[k] = new
    <2>1. outcome = "AlreadyPresent" => items[k] # None
      BY <1>5 DEF Store!PutOutcome, Store!Live
    <2> QED
      BY <1>3, <1>5, <1>6, <2>1 DEF Store!PutEffect, Store!tables, Inv, Tables
  <1>11. /\ \A j \in Keys : items'[j] # None
             => \/ items'[j] = items[j]
                \/ Outlasting(items'[j]) /\ Copy(j, items'[j].envelope)
         /\ \A j \in Keys : tombstones'[j] # None => tombstones'[j] = tombstones[j]
    BY <1>8, <1>9, <1>10
  <1> DEFINE Answers == /\ \A f \in Devices : Holding(f)'
                             => \/ pc'[f] = pc[f]
                                \/ /\ pc'[f].key \in Keys /\ items'[pc'[f].key] # None
                                   /\ pc'[f].receipt = items'[pc'[f].key]
                        /\ pc'["a"].at = "dispatched" => pc'["a"] = pc["a"]
  <1>12. Answers
    <2>1. CASE pc' = pc
      BY <2>1
    <2>2. CASE pc[d].at = "put" /\ pc[d].key = k /\ Becomes(d, p) /\ p = Answer(d, outcome, items'[k])
      <3>1. p.at = "put" /\ p.key = k /\ p.receipt = items'[k] /\ p.reply = outcome
        BY <1>6, <2>2, SMT DEF Answer, Inv, Actors, Whole
      <3>2. \A f \in Devices : pc'[f] = IF f = d THEN p ELSE pc[f]
        BY <1>6, <2>2, OneMoves
      <3>3. outcome \in {"Created", "AlreadyPresent"} => items'[k] # None
        BY <1>9, <1>10
      <3> QED
        BY <1>3, <1>6, <3>1, <3>2, <3>3, SMT DEF Holding, Devices
    <2> QED
      BY <1>4, <1>5, <2>1, <2>2
  <1>13. /\ \A j \in Keys, f \in Envelopes : Copy(j, f)' => Copy(j, f)
         /\ Graves' => Copies'
    BY <1>1, <1>7, <1>11, <1>12, StoreCopies DEF Trust
  <1>14. Keeps
    BY <1>3, <1>4, <1>6, PutKeeps
  <1>15. Graves'
    BY <1>1, <1>6, <1>7, <1>11, <1>14, GravesStep DEF Trust
  <1> QED
    BY <1>13, <1>15

\* A proven deletion leaves a tombstone that stands as long as the dispatch is in force.
LEMMA CommitCopies == ASSUME Inv, Trust, Copies, Values', ServeCommit PROVE Copies'
  <1> USE Zenon
  <1>1. PICK r \in deletes : service_delete_commit(r)
    BY DEF ServeCommit
  <1>2. UNCHANGED <<seals, dispatch, pending, outStored, wire>> /\ Store!delete_commit(r)
    BY <1>1 DEF service_delete_commit, events, ledgers
  <1>3. PICK k, d, outcome, p : /\ k = r.key /\ d = k[1] /\ outcome = Store!DeleteOutcome(r)
                                /\ p = Answer(d, outcome, r)
    OBVIOUS
  <1>4. d \in Devices /\ k \in Keys
    BY <1>3, KeysArePairs DEF Inv, Origins
  <1>5. clock' = clock /\ clock \in Nat /\ clock <= clock'
    BY <1>2, BoundsAssumption, SMT DEF Store!delete_commit, Trust, Values
  <1>6. /\ outcome = "Deleted" => items[k] = r /\ items[k] # None /\ Store!DeleteEffect(r)
        /\ outcome # "Deleted" => UNCHANGED <<items, tombstones>>
        /\ outcome = "AlreadyDeleted" => items[k] = None /\ tombstones[k] = r /\ tombstones[k] # None
    BY <1>2, <1>3 DEF Store!delete_commit, Store!DeleteOutcome, Store!tables
  <1>7. /\ outcome = "Deleted" => items'[k] = None /\ tombstones'[k] = r
        /\ \A j \in Keys \ {k} : items'[j] = items[j] /\ tombstones'[j] = tombstones[j]
        /\ \A j \in Keys : items'[j] # None => items'[j] = items[j]
    BY <1>3, <1>4, <1>6 DEF Store!DeleteEffect, Inv, Tables
  <1> DEFINE Answers == /\ \A f \in Devices : Holding(f)' => pc'[f] = pc[f]
                        /\ pc'["a"].at = "dispatched" => pc'["a"] = pc["a"]
  <1>8. Answers
    <2>1. CASE pc' = pc
      BY <2>1
    <2>2. CASE pc[d].at \in {"delete", "redelete"} /\ Becomes(d, p)
      <3>1. p.at \in {"delete", "redelete"}
        BY <1>3, <1>4, <2>2, SMT DEF Answer, Inv, Actors, Whole
      <3>2. \A f \in Devices : pc'[f] = IF f = d THEN p ELSE pc[f]
        BY <1>4, <2>2, OneMoves
      <3> QED
        BY <3>1, <3>2 DEF Holding, Devices
    <2> QED
      BY <1>1, <1>3, <2>1, <2>2 DEF service_delete_commit
  <1>9. /\ \A j \in Keys, f \in Envelopes : Copy(j, f)' => Copy(j, f)
        /\ Graves' => Copies'
    BY <1>2, <1>5, <1>7, <1>8, StoreCopies DEF Trust
  <1>10. outcome \in {"Deleted", "AlreadyDeleted"}
           => /\ items'[k] = None /\ tombstones'[k] = r /\ r # None /\ seals[k] > 0 /\ r.expires \in Nat
              /\ dispatch[k[2]] \in Expiries /\ dispatch[k[2]] <= r.expires + Lag
    <2>1. CASE outcome = "Deleted"
      <3>1. /\ r # None /\ r.envelope \in Envelopes /\ r.expires \in Nat
            /\ r.envelope.expires <= r.expires + Lag
        BY <1>4, <1>6, <2>1 DEF Copies, Outlasts, Outlasting, Store!Receipts
      <3>2. Copy(k, r.envelope)
        BY <1>6, <2>1 DEF Copy
      <3>3. /\ seals[k] > 0 /\ dispatch[k[2]] \in Expiries
            /\ dispatch[k[2]] <= r.envelope.expires
        BY <1>4, <3>1, <3>2 DEF Copies, Lifetimes, Sealed
      <3>4. r.envelope.expires \in Nat
        BY <3>1, BoundsAssumption, SMT DEF Envelopes
      <3>5. dispatch[k[2]] <= r.expires + Lag
        BY <3>1, <3>3, <3>4, BoundsAssumption, SMT DEF Expiries
      <3> QED
        BY <1>7, <2>1, <3>1, <3>3, <3>5
    <2>2. CASE outcome = "AlreadyDeleted"
      BY <1>4, <1>6, <2>2 DEF Copies, Graves
    <2> QED
      BY <2>1, <2>2
  <1>12. ASSUME NEW j \in Keys, tombstones'[j] # None
         PROVE  /\ seals'[j] > 0 /\ tombstones'[j].expires \in Nat
                /\ dispatch'[j[2]] \in Expiries /\ dispatch'[j[2]] <= tombstones'[j].expires + Lag
    <2>1. tombstones'[j] = tombstones[j] \/ (j = k /\ outcome = "Deleted")
      BY <1>6, <1>7
    <2>2. CASE tombstones'[j] = tombstones[j]
      BY <1>2, <1>12, <2>2 DEF Copies, Graves
    <2>3. CASE j = k /\ outcome = "Deleted"
      BY <1>2, <1>10, <2>3
    <2> QED
      BY <2>1, <2>2, <2>3
  <1>13. outcome \in {"Deleted", "AlreadyDeleted"} /\ InForce(k)' => Standing(k)'
    <2>1. ASSUME outcome \in {"Deleted", "AlreadyDeleted"}, InForce(k)' PROVE r.expires > clock
      <3>1. dispatch[k[2]] > clock + Lag
        BY <1>2, <1>5, <2>1 DEF InForce
      <3> QED
        BY <1>5, <1>10, <2>1, <3>1, BoundsAssumption, SMT DEF Expiries
    <2> QED
      BY <1>5, <1>10, <2>1 DEF Standing
  <1>14. /\ gone' \subseteq gone \cup {k}
         /\ k \in gone' => k \in gone \/ outcome \in {"Deleted", "AlreadyDeleted"}
         /\ gone \subseteq gone' /\ \A s \in proven' : s \in proven \/ s.key \in gone'
    <2>1. proven' = IF outcome \in {"Deleted", "AlreadyDeleted"} THEN proven \cup {r} ELSE proven
      BY <1>2, <1>3 DEF Store!delete_commit
    <2>2. gone' = IF r \in proven' THEN gone \cup {k} ELSE gone
      BY <1>1, <1>3 DEF service_delete_commit
    <2>3. \A s \in proven : s.key \in gone
      BY DEF Copies, Graves
    <2> QED
      BY <1>3, <2>1, <2>2, <2>3
  <1>15. ASSUME NEW j \in gone'
         PROVE  j \in Keys /\ seals'[j] > 0 /\ (InForce(j)' => Standing(j)')
    <2>1. CASE j = k /\ outcome \in {"Deleted", "AlreadyDeleted"}
      BY <1>2, <1>4, <1>10, <1>13, <2>1
    <2>2. CASE j \in gone /\ ~(j = k /\ outcome \in {"Deleted", "AlreadyDeleted"})
      <3>1. j \in Keys /\ seals[j] > 0 /\ (InForce(j) => Standing(j))
        BY <2>2 DEF Copies, Graves
      <3>2. items'[j] = items[j] /\ tombstones'[j] = tombstones[j]
        BY <1>6, <1>7, <2>2, <3>1
      <3>3. (InForce(j)' => InForce(j)) /\ (Standing(j) => Standing(j)')
        BY <1>2, <1>5, <3>2 DEF Standing, InForce
      <3> QED
        BY <1>2, <3>1, <3>3
    <2> QED
      BY <1>14, <1>15, <2>1, <2>2
  <1>16. Graves'
    <2>1. \A s \in proven' : s.key \in gone'
      BY <1>14 DEF Copies, Graves
    <2> QED
      BY <1>12, <1>15, <2>1 DEF Graves
  <1> QED
    BY <1>9, <1>16

\* Nothing is sealed at first.
LEMMA InitCopies == Init => Copies
  <1> USE Zenon
  <1> SUFFICES ASSUME Init PROVE Copies
    OBVIOUS
  <1>1. \A d \in Devices : ~Holding(d)
    BY DEF Init, Idle, Holding
  <1>2. \A k \in Keys, e \in Envelopes : ~Copy(k, e)
    BY <1>1, NoneAssumption DEF Init, Store!Init, Copy, Keys
  <1>3. Outlasts /\ Requests
    BY <1>1 DEF Init, Store!Init, Outlasts, Requests, Keys
  <1>4. Same /\ Lifetimes
    BY <1>2 DEF Init, Same, Lifetimes
  <1>5. Known /\ Fresh /\ Graves
    BY SMT DEF Init, Store!Init, Idle, Known, Fresh, Graves, Keys, Devices
  <1> QED
    BY <1>3, <1>4, <1>5 DEF Copies

\* Every step keeps the copies together.
LEMMA StepCopies ==
  ASSUME Inv, Trust, Copies, Values', [Next]_vars PROVE Copies'
  <1> USE Zenon
  <1>1. ASSUME NEW d \in Devices, Act(d) PROVE Copies'
    BY <1>1, CleanupCopies, StoredCopies, QuietCopies, WorldCopies DEF Act
  <1>9. CASE \/ \E t \in Texts : attempt_runtime_mailbox_fallback(t)
             \/ tolerate_unavailable_runtime_reverse_mailbox_acknowledgement
    BY <1>9, FallbackCopies, ApplicationCopies
  <1>2. CASE ActA
    BY <1>1, <1>2, EnqueueCopies, ApplicationCopies DEF ActA, Devices
  <1>3. CASE ActB
    BY <1>1, <1>3, ApplicationCopies, ReverseCopies DEF ActB, Devices
  <1>4. CASE \E q \in wire : Serve(q)
    BY <1>4, PutCopies, WorldCopies DEF Serve
  <1>5. CASE ServeCommit
    BY <1>5, CommitCopies
  <1>6. CASE \E d \in Devices : Interrupt(d)
    BY <1>6, QuietCopies
  <1>7. CASE Tick \/ RestartStore \/ (\E q \in wire : LoseRequest(q))
    BY <1>7, WorldCopies
  <1>8. CASE UNCHANGED vars
    <2>1. UNCHANGED <<store, wire, dispatch, pending, outStored, seals, gone, pc>>
      BY <1>8 DEF vars, events, ledgers, history
    <2>2. UNCHANGED <<clock, items, tombstones, proven>> /\ clock <= clock'
      BY <2>1, BoundsAssumption, SMT DEF store, Trust, Values
    <2>3. Graves' => Copies'
      BY <2>1, <2>2, StoreCopies DEF Trust
    <2>4. Keeps
      BY <2>2 DEF Keeps, Standing
    <2> QED
      BY <2>1, <2>2, <2>3, <2>4, GravesStep DEF Trust
  <1> QED
    BY <1>2, <1>3, <1>4, <1>5, <1>6, <1>7, <1>8, <1>9, ZenonT(30) DEF Next
=============================================================================
