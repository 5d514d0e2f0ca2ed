------------------------- MODULE MailboxStoreProofs -------------------------
(***************************************************************************)
(* The promises of the blind mailbox store hold for every set of mailboxes, *)
(* items and envelopes, every lifetime, every limit and every lag of a      *)
(* handler behind the clock.                                                *)
(***************************************************************************)
EXTENDS MailboxStore, FiniteSetTheorems, TLAPS

\* The records are of their kinds and stand under their own keys.
Records ==
    /\ clock \in Nat
    /\ items \in [Keys -> Receipts \cup {None}]
    /\ tombstones \in [Keys -> Receipts \cup {None}]
    /\ \A k \in Keys : items[k] # None => items[k].key = k
    /\ \A k \in Keys : tombstones[k] # None => tombstones[k].key = k
    /\ deletes \subseteq Receipts
    /\ accepted \subseteq Receipts
    /\ proven \subseteq Receipts

\* A key never has an item and a tombstone: without this a delete could replace the
\* tombstone of another item that was promised to stay deleted.
Exclusive == \A k \in Keys : items[k] = None \/ tombstones[k] = None

Inv == Records /\ Exclusive /\ AcceptedIsHeld /\ DeletedStaysDeleted

\* An empty store satisfies the invariant.
LEMMA InitInv == Init => Inv
  BY DEF Init, Inv, Records, Exclusive, AcceptedIsHeld, DeletedStaysDeleted, Receipts

\* A handler's time is never ahead of the clock.
LEMMA TimesBehind == ASSUME clock \in Nat, NEW now \in Times
                     PROVE  now \in Nat /\ now <= clock
  BY DEF Times

\* What put makes of the key it is given: a record that is alive at the present time is
\* alive at the handler's time, so put leaves it alone.
LEMMA PutKeepsLive ==
  ASSUME Inv, NEW k \in Keys, NEW e \in Envelopes, NEW ttl \in Ttls, NEW now \in Times,
         PutEffect(k, e, ttl, now)
  PROVE  /\ Live(items[k], clock) => items'[k] = items[k]
         /\ Live(tombstones[k], clock) => tombstones'[k] = tombstones[k] /\ items'[k] = items[k]
         /\ \A j \in Keys \ {k} : items'[j] = items[j] /\ tombstones'[j] = tombstones[j]
  <1>1. now \in Nat /\ now <= clock
    BY TimesBehind, Zenon DEF Inv, Records
  <1>2. /\ Live(items[k], clock) => Live(items[k], now)
        /\ Live(tombstones[k], clock) => Live(tombstones[k], now)
    BY <1>1 DEF Live, Expired, Inv, Records, Receipts
  <1>3. /\ Live(items[k], clock) => PutOutcome(k, e, ttl, now) \in {"AlreadyPresent", "Conflict"}
        /\ Live(tombstones[k], clock)
              => PutOutcome(k, e, ttl, now) \in {"AlreadyPresent", "Conflict", "Tombstoned"}
    BY <1>2, Zenon DEF PutOutcome
  <1> QED
    BY <1>3, Zenon DEF PutEffect, tables, Inv, Records

\* The record that put leaves under its key when it answers with a receipt.
LEMMA PutStores ==
  ASSUME Inv, NEW k \in Keys, NEW e \in Envelopes, NEW ttl \in Ttls, NEW now \in Times,
         PutEffect(k, e, ttl, now), Positive(k, e, ttl, now)
  PROVE  items'[k] \in Receipts /\ items'[k].key = k
  <1> USE Zenon
  <1>1. now \in Nat /\ ttl \in Nat
    BY TimesBehind, SizesAssumption DEF Inv, Records
  <1>2. CASE PutOutcome(k, e, ttl, now) = "Created"
    <2>1. items'[k] = NewReceipt(k, e, ttl, now)
      BY <1>2 DEF PutEffect, Inv, Records
    <2> QED
      BY <1>1, <2>1, SMT DEF NewReceipt, Receipts
  <1>3. CASE PutOutcome(k, e, ttl, now) = "AlreadyPresent"
    <2>1. Live(items[k], now)
      BY <1>3 DEF PutOutcome
    <2>2. items'[k] = items[k]
      BY <1>3 DEF PutEffect, tables
    <2> QED
      BY <2>1, <2>2 DEF Live, Inv, Records
  <1> QED
    BY <1>2, <1>3 DEF Positive

\* A put keeps the records well formed and the two tables apart.
LEMMA PutRecords ==
  ASSUME Inv, NEW k \in Keys, NEW e \in Envelopes, NEW ttl \in Ttls, NEW now \in Times,
         put(k, e, ttl, now)
  PROVE  Records' /\ Exclusive'
  <1>1. now \in Nat /\ ttl \in Nat
    BY TimesBehind, SizesAssumption, Zenon DEF Inv, Records
  <1>2. NewReceipt(k, e, ttl, now) \in Receipts /\ NewReceipt(k, e, ttl, now).key = k
    BY <1>1 DEF NewReceipt, Receipts
  <1>3. PutEffect(k, e, ttl, now)
    BY Zenon DEF put
  <1>4. /\ items' \in [Keys -> Receipts \cup {None}]
        /\ tombstones' \in [Keys -> Receipts \cup {None}]
        /\ \A j \in Keys : items'[j] # None => items'[j].key = j
        /\ \A j \in Keys : tombstones'[j] # None => tombstones'[j].key = j
        /\ Exclusive'
    BY <1>2, <1>3 DEF PutEffect, tables, Inv, Records, Exclusive
  <1>5. accepted' \subseteq Receipts
    BY <1>3, PutStores, Zenon DEF put, Inv, Records
  <1> QED
    BY <1>4, <1>5, Zenon DEF put, Inv, Records

\* A put keeps every promise already made, and makes one only for what it has stored.
LEMMA PutInv ==
  ASSUME Inv, NEW k \in Keys, NEW e \in Envelopes, NEW ttl \in Ttls, NEW now \in Times,
         put(k, e, ttl, now)
  PROVE  Inv'
  <1> USE Zenon
  <1>1. PutEffect(k, e, ttl, now) /\ clock' = clock /\ proven' = proven
    BY DEF put
  <1>2. ASSUME NEW r \in accepted, r.expires > clock
        PROVE  items'[r.key] = r \/ tombstones'[r.key] = r
    <2>1. r \in Receipts /\ r.key \in Keys /\ r # None
      BY NoneAssumption DEF Inv, Records, Receipts
    <2>2. items[r.key] = r \/ tombstones[r.key] = r
      BY <1>2 DEF Inv, AcceptedIsHeld
    <2>3. Live(r, clock)
      BY <1>2, <2>1, SMT DEF Live, Expired, Inv, Records, Receipts
    <2> QED
      BY <1>1, <2>1, <2>2, <2>3, PutKeepsLive
  <1>3. AcceptedIsHeld'
    <2>1. ASSUME Positive(k, e, ttl, now) PROVE items'[k].key = k
      BY <1>1, <2>1, PutStores
    <2> QED
      BY <1>1, <1>2, <2>1 DEF put, AcceptedIsHeld
  <1>4. ASSUME NEW r \in proven, r.expires > clock
        PROVE  items'[r.key] = None /\ tombstones'[r.key] = r
    <2>1. r \in Receipts /\ r.key \in Keys /\ r # None
      BY NoneAssumption DEF Inv, Records, Receipts
    <2>2. items[r.key] = None /\ tombstones[r.key] = r
      BY <1>4 DEF Inv, DeletedStaysDeleted
    <2>3. Live(r, clock)
      BY <1>4, <2>1, SMT DEF Live, Expired, Inv, Records, Receipts
    <2> QED
      BY <1>1, <2>1, <2>2, <2>3, PutKeepsLive, SMT
  <1>5. DeletedStaysDeleted'
    BY <1>1, <1>4 DEF DeletedStaysDeleted
  <1> QED
    BY <1>3, <1>5, PutRecords DEF Inv

\* A cleanup at a handler's time removes only what has expired by the present time, and
\* touches neither the promises nor the deletes under way.
LEMMA CleanupInv ==
  ASSUME Inv, NEW now \in Times, CleanupEffect(now),
         clock' = clock, deletes' \subseteq Receipts, accepted' = accepted, proven' = proven
  PROVE  /\ Inv'
         /\ \A k \in Keys : Live(items[k], clock) => items'[k] = items[k]
  <1>1. now \in Nat /\ now <= clock
    BY TimesBehind, Zenon DEF Inv, Records
  <1>2. \A k \in Keys : /\ items'[k] = IF Live(items[k], now) THEN items[k] ELSE None
                        /\ tombstones'[k] = IF Live(tombstones[k], now) THEN tombstones[k] ELSE None
    BY Zenon DEF CleanupEffect, Retained
  <1>3. \A k \in Keys : /\ Live(items[k], clock) => items'[k] = items[k]
                        /\ Live(tombstones[k], clock) => tombstones'[k] = tombstones[k]
    BY <1>1, <1>2 DEF Live, Expired, Inv, Records, Receipts
  <1>4. Records' /\ Exclusive'
    BY <1>2, Zenon DEF CleanupEffect, Retained, Inv, Records, Exclusive
  <1>5. \A r \in Receipts : r.expires > clock => Live(r, clock) /\ r.key \in Keys
    BY NoneAssumption DEF Live, Expired, Inv, Records, Receipts
  <1>6. AcceptedIsHeld'
    BY <1>3, <1>5, Zenon DEF Inv, Records, AcceptedIsHeld
  <1>7. DeletedStaysDeleted'
    BY <1>2, <1>3, <1>5 DEF Inv, Records, DeletedStaysDeleted, Live
  <1> QED
    BY <1>3, <1>4, <1>6, <1>7, Zenon DEF Inv

\* The transaction of a delete replaces exactly the item it names by its tombstone, or
\* changes nothing.
LEMMA DeleteCommitInv ==
  ASSUME Inv, NEW r \in deletes, delete_commit(r)
  PROVE  /\ Inv'
         /\ \A k \in Keys : items'[k] # items[k]
               => items'[k] = None /\ tombstones'[k] = items[k] /\ items[k] = r
  <1> USE Zenon
  <1>1. r \in Receipts /\ r.key \in Keys /\ r # None
    BY NoneAssumption DEF Inv, Records, Receipts
  <1>2. /\ clock' = clock /\ accepted' = accepted /\ deletes' \subseteq Receipts
        /\ proven' \subseteq Receipts
    BY <1>1 DEF delete_commit, Inv, Records
  <1>3. CASE DeleteOutcome(r) = "Deleted"
    <2>1. /\ items[r.key] = r
          /\ items' = [items EXCEPT ![r.key] = None]
          /\ tombstones' = [tombstones EXCEPT ![r.key] = r]
          /\ proven' = proven \cup {r}
      BY <1>3 DEF delete_commit, DeleteOutcome, DeleteEffect
    <2>2. Records' /\ Exclusive'
      BY <1>1, <1>2, <2>1 DEF Inv, Records, Exclusive
    <2>3. tombstones[r.key] = None
      BY <1>1, <2>1 DEF Inv, Exclusive
    <2>4. AcceptedIsHeld'
      BY <1>1, <1>2, <2>1, <2>3, NoneAssumption DEF Inv, Records, Receipts, AcceptedIsHeld
    <2>5. DeletedStaysDeleted'
      BY <1>1, <1>2, <2>1, <2>3, NoneAssumption, SMT DEF Inv, Records, Receipts, DeletedStaysDeleted
    <2> QED
      BY <1>1, <2>1, <2>2, <2>4, <2>5 DEF Inv, Records
  <1>4. CASE DeleteOutcome(r) # "Deleted"
    <2>1. items' = items /\ tombstones' = tombstones
      BY <1>4 DEF delete_commit, tables
    <2>2. proven' = proven \/ (items[r.key] = None /\ tombstones[r.key] = r /\ proven' = proven \cup {r})
      BY <1>1, <1>4 DEF delete_commit, DeleteOutcome
    <2>3. Records' /\ Exclusive' /\ AcceptedIsHeld'
      BY <1>2, <2>1 DEF Inv, Records, Exclusive, AcceptedIsHeld
    <2>4. DeletedStaysDeleted'
      BY <1>2, <2>1, <2>2, SMT DEF Inv, DeletedStaysDeleted
    <2> QED
      BY <2>1, <2>3, <2>4 DEF Inv
  <1> QED
    BY <1>3, <1>4

\* Opening the database again loses the deletes under way and, at most, expired records.
LEMMA OpenInv ==
  ASSUME Inv, NEW now \in Times, open(now)
  PROVE  /\ Inv'
         /\ \A k \in Keys : Live(items[k], clock) => items'[k] = items[k]
  <1> USE Zenon
  <1>1. clock' = clock /\ deletes' = {} /\ accepted' = accepted /\ proven' = proven
    BY DEF open, history
  <1>2. CASE CleanupEffect(now)
    <2>1. deletes' \subseteq Receipts
      BY <1>1
    <2> QED
      BY <1>1, <1>2, <2>1, CleanupInv
  <1>3. CASE UNCHANGED tables
    BY <1>1, <1>3 DEF tables, Inv, Records, Exclusive, AcceptedIsHeld, DeletedStaysDeleted
  <1> QED
    BY <1>2, <1>3 DEF open

\* Time only releases promises.
LEMMA TickInv == ASSUME Inv, Tick PROVE Inv' /\ items' = items
  <1>1. /\ clock \in Nat /\ clock' = clock + 1
        /\ accepted' \subseteq accepted /\ proven' \subseteq proven
        /\ items' = items /\ tombstones' = tombstones /\ deletes' = deletes
    BY Zenon DEF Tick, Recent, tables, Inv, Records
  <1>2. \A r \in Receipts : r.expires > clock' => r.expires > clock
    BY <1>1 DEF Receipts
  <1>3. Records' /\ Exclusive'
    BY <1>1 DEF Inv, Records, Exclusive
  <1>4. AcceptedIsHeld' /\ DeletedStaysDeleted'
    BY <1>1, <1>2, Zenon DEF Inv, Records, AcceptedIsHeld, DeletedStaysDeleted
  <1> QED
    BY <1>1, <1>3, <1>4, Zenon DEF Inv

\* Every step keeps the invariant and removes an unexpired item only by its own delete.
LEMMA StepInv ==
  ASSUME Inv, [Next]_vars
  PROVE  /\ Inv'
         /\ \A k \in Keys : Live(items[k], clock) /\ items'[k] # items[k]
               => items'[k] = None /\ tombstones'[k] = items[k] /\ items[k] \in deletes
  <1> USE Zenon
  <1>1. CASE Put
    <2>1. PICK k \in Keys, e \in Envelopes, ttl \in Ttls, now \in Times : put(k, e, ttl, now)
      BY <1>1 DEF Put
    <2>2. PutEffect(k, e, ttl, now)
      BY <2>1 DEF put
    <2> QED
      BY <2>1, <2>2, PutInv, PutKeepsLive
  <1>2. CASE Cleanup
    <2>1. PICK now \in Times : cleanup(now)
      BY <1>2 DEF Cleanup
    <2>2. /\ CleanupEffect(now) /\ clock' = clock /\ deletes' \subseteq Receipts
          /\ accepted' = accepted /\ proven' = proven
      BY <2>1 DEF cleanup, history, Inv, Records
    <2> QED
      BY <2>2, CleanupInv
  <1>3. CASE Delete
    <2>1. PICK r \in accepted, now \in Times : delete(r, now)
      BY <1>3 DEF Delete
    <2>2. /\ CleanupEffect(now) /\ clock' = clock /\ deletes' \subseteq Receipts
          /\ accepted' = accepted /\ proven' = proven
      BY <2>1 DEF delete, history, Inv, Records
    <2> QED
      BY <2>2, CleanupInv
  <1>4. CASE DeleteCommit
    <2>1. PICK r \in deletes : delete_commit(r)
      BY <1>4 DEF DeleteCommit
    <2> QED
      BY <2>1, DeleteCommitInv
  <1>5. CASE Open
    <2>1. PICK now \in Times : open(now)
      BY <1>5, SMT DEF Open
    <2> QED
      BY <2>1, OpenInv
  <1>6. CASE Tick
    BY <1>6, TickInv
  <1>7. CASE UNCHANGED vars
    BY <1>7
    DEF vars, tables, history, Inv, Records, Exclusive, AcceptedIsHeld, DeletedStaysDeleted
  <1> QED
    BY <1>1, <1>2, <1>3, <1>4, <1>5, <1>6, <1>7 DEF Next

\* The invariant holds in every state of the store.
THEOREM StoreInvariance == Spec => []Inv
  <1>1. Init => Inv
    BY InitInv, Zenon
  <1>2. Inv /\ [Next]_vars => Inv'
    BY StepInv, Zenon
  <1> QED
    BY <1>1, <1>2, PTL DEF Spec

\* BlindMailboxStore: an item whose receipt put has returned is stored until it expires or
\* until a reader deletes exactly that item.
THEOREM AcceptedItemsAreHeld == Spec => []AcceptedIsHeld
  <1>1. Inv => AcceptedIsHeld
    BY Zenon DEF Inv
  <1> QED
    BY <1>1, StoreInvariance, PTL

\* The tombstone of delete: a key whose deletion was proven takes no item before the
\* deleted one would have expired, whatever puts are replayed.
THEOREM NoResurrection == Spec => []DeletedStaysDeleted
  <1>1. Inv => DeletedStaysDeleted
    BY Zenon DEF Inv
  <1> QED
    BY <1>1, StoreInvariance, PTL

\* put and delete: an unexpired item is removed only by a delete that names its receipt.
THEOREM DeletesAreExact == Spec => OnlyItsReceiptDeletes
  <1>1. Inv /\ [Next]_vars
          => [\A k \in Keys : Live(items[k], clock) /\ items'[k] # items[k]
                  => /\ items'[k] = None
                     /\ tombstones'[k] = items[k]
                     /\ items[k] \in deletes]_vars
    BY StepInv, Zenon
  <1> QED
    BY <1>1, StoreInvariance, PTL DEF Spec, OnlyItsReceiptDeletes
-----------------------------------------------------------------------------
(* The limits.  The bytes of a set of records are a fold of the library,   *)
(* whose value is established by well-founded induction over the finite    *)
(* subsets of the set, in the form of a minimal counterexample.            *)

\* The bytes of the records that a table has under the keys of S.
BytesOf(it, S) == MapThenSumSet(LAMBDA k : Size[it[k].envelope], S)
Weights(it, S) == [k \in S |-> Size[it[k].envelope]]

\* One round of that fold.
Iterated(f, it, S) ==
    [T \in SUBSET S |->
        IF T = {} THEN 0
        ELSE Size[it[CHOOSE x \in T : TRUE].envelope] + f[T \ {CHOOSE x \in T : TRUE}]]

\* F adds up the weights of every subset of S.
Adds(F, w, S) ==
    /\ F \in [SUBSET S -> Nat]
    /\ F[{}] = 0
    /\ \A T \in SUBSET S : \A x \in T : F[T] = w[x] + F[T \ {x}]

\* A set of finite subsets that is not empty has a minimal member.
LEMMA Minimal ==
  ASSUME NEW S, IsFiniteSet(S), NEW B, B \subseteq SUBSET S, B # {}
  PROVE  \E T \in B : IsFiniteSet(T) /\ \A x \in T : T \ {x} \notin B
  <1> USE Zenon
  <1>1. \A T \in SUBSET S : IsFiniteSet(T)
    BY FS_Subset
  <1>2. B \subseteq FiniteSubsetsOf(S)
    BY <1>1 DEF FiniteSubsetsOf
  <1>3. IsWellFoundedOn(StrictSubsetOrdering(S), FiniteSubsetsOf(S))
    BY FS_StrictSubsetOrderingWellFounded
  <1>4. PICK T \in B : \A U \in B : ~ (<<U, T>> \in StrictSubsetOrdering(S))
    BY <1>2, <1>3, WFMin
  <1>5. ASSUME NEW x \in T, T \ {x} \in B PROVE FALSE
    BY <1>4, <1>5 DEF StrictSubsetOrdering
  <1> QED
    BY <1>1, <1>4, <1>5

\* Such a function exists for every finite set.
LEMMA AddsExist ==
  ASSUME NEW S, IsFiniteSet(S), NEW w \in [S -> Nat]
  PROVE  \E F : Adds(F, w, S)
  <1> USE Zenon
  <1> DEFINE B == {T \in SUBSET S : ~ \E F : Adds(F, w, T)}
  <1>1. ASSUME NEW T \in B, \A x \in T : T \ {x} \notin B PROVE FALSE
    <2>1. CASE T = {}
      <3> DEFINE F == [U \in SUBSET T |-> 0]
      <3>1. Adds(F, w, T)
        BY <2>1 DEF Adds
      <3> QED
        BY <3>1
    <2>2. CASE T # {}
      <3>1. PICK x \in T : TRUE
        BY <2>2
      <3>2. T \ {x} \notin B /\ T \ {x} \in SUBSET S /\ w[x] \in Nat
        BY <1>1, <3>1
      <3>3. PICK F : Adds(F, w, T \ {x})
        BY <3>2
      <3> DEFINE G == [U \in SUBSET T |-> IF x \in U THEN w[x] + F[U \ {x}] ELSE F[U]]
      <3>4. F \in [SUBSET (T \ {x}) -> Nat] /\ F[{}] = 0
        BY <3>3 DEF Adds
      <3>5. \A U \in SUBSET T : U \ {x} \in SUBSET (T \ {x}) /\ (x \notin U => U \in SUBSET (T \ {x}))
        OBVIOUS
      <3>6. G \in [SUBSET T -> Nat] /\ G[{}] = 0
        BY <3>2, <3>4, <3>5, SMT
      <3>7. ASSUME NEW U \in SUBSET T, NEW y \in U PROVE G[U] = w[y] + G[U \ {y}]
        <4>1. U \ {y} \in SUBSET T /\ y \in S /\ w[y] \in Nat
          OBVIOUS
        <4>2. CASE y = x
          <5>1. G[U] = w[x] + F[U \ {x}] /\ G[U \ {x}] = F[U \ {x}]
            BY <4>1, <4>2
          <5> QED
            BY <4>2, <5>1
        <4>3. CASE y # x /\ x \in U
          <5>1. G[U] = w[x] + F[U \ {x}] /\ G[U \ {y}] = w[x] + F[(U \ {y}) \ {x}]
            BY <4>1, <4>3
          <5>2. F[U \ {x}] = w[y] + F[(U \ {x}) \ {y}]
            BY <3>3, <3>5, <4>3 DEF Adds
          <5>3. (U \ {x}) \ {y} = (U \ {y}) \ {x} /\ (U \ {x}) \ {y} \in SUBSET (T \ {x})
            OBVIOUS
          <5>4. F[(U \ {x}) \ {y}] \in Nat
            BY <3>4, <5>3
          <5> QED
            BY <3>2, <4>1, <5>1, <5>2, <5>3, <5>4, SMT
        <4>4. CASE x \notin U
          <5>1. G[U] = F[U] /\ G[U \ {y}] = F[U \ {y}]
            BY <4>1, <4>4
          <5>2. F[U] = w[y] + F[U \ {y}]
            BY <3>3, <3>5, <4>4 DEF Adds
          <5> QED
            BY <5>1, <5>2
        <4> QED
          BY <4>2, <4>3, <4>4
      <3>8. Adds(G, w, T)
        BY <3>6, <3>7 DEF Adds
      <3> QED
        BY <3>8
    <2> QED
      BY <2>1, <2>2
  <1>2. B = {}
    BY <1>1, Minimal
  <1> QED
    BY <1>2


\* The iteration of the library's fold computes that sum.
LEMMA FoldAdds ==
  ASSUME NEW it, NEW S, IsFiniteSet(S), NEW F, Adds(F, Weights(it, S), S), NEW f,
         f = Iterated(f, it, S)
  PROVE  f[S] = F[S]
  <1> USE Zenon
  <1> DEFINE B == {T \in SUBSET S : f[T] # F[T]}
  <1>1. ASSUME NEW T \in B, \A x \in T : T \ {x} \notin B PROVE FALSE
    <2>1. T # {}
      BY <1>1 DEF Adds, Iterated
    <2>2. PICK y \in T : y = CHOOSE x \in T : TRUE
      BY <2>1
    <2>3. f[T] = Size[it[y].envelope] + f[T \ {y}]
      BY <1>1, <2>1, <2>2 DEF Iterated
    <2>4. F[T] = Size[it[y].envelope] + F[T \ {y}]
      BY <1>1 DEF Adds, Weights
    <2>5. f[T \ {y}] = F[T \ {y}]
      BY <1>1
    <2> QED
      BY <1>1, <2>3, <2>4, <2>5
  <1>2. B = {}
    BY <1>1, Minimal
  <1> QED
    BY <1>2

\* The bytes of the records are what such a function assigns to the whole set.
LEMMA BytesAre ==
  ASSUME NEW it, NEW S, IsFiniteSet(S), NEW F, Adds(F, Weights(it, S), S)
  PROVE  BytesOf(it, S) = F[S]
  <1> USE Zenon
  <1>1. F = Iterated(F, it, S)
    <2>1. ASSUME NEW T \in SUBSET S PROVE F[T] = Iterated(F, it, S)[T]
      <3>1. CASE T = {}
        BY <3>1 DEF Adds, Iterated
      <3>2. CASE T # {}
        <4>1. PICK y \in T : y = CHOOSE x \in T : TRUE
          BY <3>2
        <4> QED
          BY <3>2, <4>1 DEF Adds, Iterated, Weights
      <3> QED
        BY <3>1, <3>2
    <2> QED
      BY <2>1 DEF Adds, Iterated
  <1>2. PICK f : f = CHOOSE g : g = Iterated(g, it, S)
    OBVIOUS
  <1>3. f = Iterated(f, it, S)
    BY <1>1, <1>2
  <1>4. BytesOf(it, S) = f[S]
    BY <1>2 DEF BytesOf, MapThenSumSet, MapThenFoldSet, Iterated
  <1>5. f[S] = F[S]
    BY <1>3, FoldAdds, SMT
  <1> QED
    BY <1>4, <1>5

\* The sizes of subsets: what one record adds, and that fewer records are fewer bytes.
LEMMA BytesFacts ==
  ASSUME NEW it, NEW S, IsFiniteSet(S), \A k \in S : Size[it[k].envelope] \in Nat
  PROVE  /\ \A T \in SUBSET S : BytesOf(it, T) \in Nat /\ BytesOf(it, T) <= BytesOf(it, S)
         /\ \A x \in S : BytesOf(it, S) = Size[it[x].envelope] + BytesOf(it, S \ {x})
         /\ BytesOf(it, {}) = 0
  <1> USE Zenon
  <1>1. Weights(it, S) \in [S -> Nat]
    BY DEF Weights
  <1>2. PICK F : Adds(F, Weights(it, S), S)
    BY <1>1, AddsExist
  <1>3. ASSUME NEW T \in SUBSET S PROVE BytesOf(it, T) = F[T]
    <2> DEFINE G == [U \in SUBSET T |-> F[U]]
    <2>1. \A U \in SUBSET T : U \in SUBSET S
      OBVIOUS
    <2>2. Adds(G, Weights(it, T), T)
      BY <1>2, <2>1 DEF Adds, Weights
    <2>3. IsFiniteSet(T) /\ G[T] = F[T]
      BY FS_Subset
    <2> QED
      BY <2>2, <2>3, BytesAre
  <1>4. F \in [SUBSET S -> Nat] /\ \A x \in S : Size[it[x].envelope] = Weights(it, S)[x]
    BY <1>2 DEF Adds, Weights
  <1>5. \A T \in SUBSET S : F[T] <= F[S]
    <2> DEFINE B == {U \in SUBSET S : \E T \in SUBSET U : ~ (F[T] <= F[U])}
    <2>1. ASSUME NEW U \in B, \A x \in U : U \ {x} \notin B PROVE FALSE
      <3>1. PICK T \in SUBSET U : ~ (F[T] <= F[U])
        OBVIOUS
      <3>2. U \in SUBSET S /\ T \in SUBSET S /\ F[T] \in Nat /\ F[U] \in Nat
        BY <1>4
      <3>3. PICK x \in U : x \notin T
        BY <3>1, <3>2, SMT
      <3>4. U \ {x} \in SUBSET S /\ F[U \ {x}] \in Nat /\ F[T] <= F[U \ {x}]
        BY <1>4, <2>1, <3>2, <3>3
      <3>5. F[U] = Weights(it, S)[x] + F[U \ {x}] /\ Weights(it, S)[x] \in Nat
        BY <1>1, <1>2, <3>2, <3>3 DEF Adds
      <3> QED
        BY <3>1, <3>2, <3>4, <3>5, SMT
    <2>2. B \subseteq SUBSET S
      OBVIOUS
    <2>3. B = {}
      <3> HIDE DEF B
      <3> QED
        BY <2>1, <2>2, Minimal
    <2> QED
      BY <2>3
  <1>6. \A x \in S : F[S] = Weights(it, S)[x] + F[S \ {x}] /\ S \ {x} \in SUBSET S
    BY <1>2 DEF Adds
  <1>7. F[{}] = 0 /\ {} \in SUBSET S /\ S \in SUBSET S
    BY <1>2 DEF Adds
  <1> QED
    BY <1>3, <1>4, <1>5, <1>6, <1>7

\* The bytes depend only on the records counted.
LEMMA SameBytes ==
  ASSUME NEW it, NEW jt, NEW S, IsFiniteSet(S), \A k \in S : Size[it[k].envelope] \in Nat,
         \A k \in S : it[k] = jt[k]
  PROVE  BytesOf(it, S) = BytesOf(jt, S)
  <1>1. Weights(it, S) \in [S -> Nat] /\ Weights(it, S) = Weights(jt, S)
    BY Zenon DEF Weights
  <1>2. PICK F : Adds(F, Weights(it, S), S)
    BY <1>1, AddsExist, Zenon
  <1>3. Adds(F, Weights(jt, S), S)
    BY <1>1, <1>2, Zenon
  <1> QED
    BY <1>2, <1>3, BytesAre
\* The totals are counters, and they hold what WithinCapacity promises.
Totals == totalItems \in Nat /\ totalBytes \in Nat /\ mailboxCount \in [Mailboxes -> Nat]

\* The keys that have a tombstone.
Marked == {k \in Keys : tombstones[k] # None}

Held == Inv /\ Totals /\ WithinCapacity

\* The sets that are counted are finite, and the bytes of a table are those of its records.
LEMMA StoredFacts ==
  ASSUME Inv
  PROVE  /\ IsFiniteSet(Stored) /\ IsFiniteSet(Marked)
         /\ \A S \in SUBSET Keys : IsFiniteSet(S)
         /\ \A k \in Stored : Size[items[k].envelope] \in Nat
         /\ \A S : Bytes(S) = BytesOf(items, S) /\ Bytes(S)' = BytesOf(items', S)
  <1> USE Zenon
  <1>1. \A S \in SUBSET Keys : IsFiniteSet(S)
    BY KeysAssumption, FS_Subset
  <1>2. Stored \in SUBSET Keys /\ Marked \in SUBSET Keys
    BY DEF Stored, Marked
  <1>3. \A k \in Stored : Size[items[k].envelope] \in Nat
    BY SizesAssumption DEF Stored, Inv, Records, Receipts
  <1>4. \A S : Bytes(S) = BytesOf(items, S) /\ Bytes(S)' = BytesOf(items', S)
    BY DEF Bytes, BytesOf, MapThenSumSet, MapThenFoldSet
  <1> QED
    BY <1>1, <1>2, <1>3, <1>4

\* The totals without the record under a key still cover the other records: this is what
\* put adds the new record to, and what delete leaves.
LEMMA WithoutFacts ==
  ASSUME Held, NEW k \in Keys
  PROVE  /\ ItemsWithout(k) \in Nat /\ Cardinality(Stored \ {k}) <= ItemsWithout(k)
         /\ ItemsWithout(k) <= MaxTotalItems
         /\ BytesWithout(k) \in Nat /\ BytesOf(items, Stored \ {k}) <= BytesWithout(k)
         /\ BytesWithout(k) <= MaxTotalBytes
         /\ CountWithout(k) \in Nat /\ Cardinality(Of(k[1]) \ {k}) <= CountWithout(k)
         /\ CountWithout(k) <= MaxItemsPerMailbox
  <1> USE Zenon
  <1>1. k[1] \in Mailboxes /\ mailboxCount[k[1]] \in Nat /\ Of(k[1]) \in SUBSET Keys
    BY DEF Keys, Held, Totals, Of, Stored
  <1>2. /\ IsFiniteSet(Stored) /\ IsFiniteSet(Of(k[1]))
        /\ Cardinality(Stored) <= totalItems /\ totalItems \in Nat /\ totalItems <= MaxTotalItems
        /\ Cardinality(Of(k[1])) <= mailboxCount[k[1]] /\ mailboxCount[k[1]] <= MaxItemsPerMailbox
        /\ BytesOf(items, Stored) <= totalBytes /\ totalBytes \in Nat /\ totalBytes <= MaxTotalBytes
    BY <1>1, StoredFacts DEF Held, Totals, WithinCapacity
  <1>3. Cardinality(Stored) \in Nat /\ Cardinality(Of(k[1])) \in Nat
    BY <1>2, FS_CardinalityType
  <1>4. CASE items[k] = None
    <2>1. Stored \ {k} = Stored /\ Of(k[1]) \ {k} = Of(k[1])
      BY <1>4 DEF Stored, Of
    <2> QED
      BY <1>1, <1>2, <1>4, <2>1 DEF ItemsWithout, BytesWithout, CountWithout
  <1>5. CASE items[k] # None
    <2>1. k \in Stored /\ k \in Of(k[1])
      BY <1>5 DEF Stored, Of
    <2>2. /\ Cardinality(Stored \ {k}) = Cardinality(Stored) - 1
          /\ Cardinality(Of(k[1]) \ {k}) = Cardinality(Of(k[1])) - 1
      BY <1>2, <2>1, FS_RemoveElement
    <2>3. /\ BytesOf(items, Stored) = Size[items[k].envelope] + BytesOf(items, Stored \ {k})
          /\ BytesOf(items, Stored \ {k}) \in Nat /\ Size[items[k].envelope] \in Nat
      BY <1>2, <2>1, StoredFacts, BytesFacts, SMT DEF Held
    <2>4. IsFiniteSet(Stored \ {k}) /\ IsFiniteSet(Of(k[1]) \ {k})
      BY <1>2, FS_RemoveElement
    <2>5. Cardinality(Stored \ {k}) \in Nat /\ Cardinality(Of(k[1]) \ {k}) \in Nat
      BY <2>4, FS_CardinalityType
    <2>6. ItemsWithout(k) = totalItems - 1 /\ CountWithout(k) = mailboxCount[k[1]] - 1
      BY <1>1, <1>2, <1>3, <1>5, <2>2, <2>5, SMT DEF ItemsWithout, CountWithout, Minus
    <2>7. BytesWithout(k) = totalBytes - Size[items[k].envelope]
      BY <1>2, <1>5, <2>3, SMT DEF BytesWithout, Minus
    <2>8. ItemsWithout(k) \in Nat /\ CountWithout(k) \in Nat
      BY <1>1, <1>2, <1>3, <2>2, <2>5, <2>6, SMT
    <2>9. BytesWithout(k) \in Nat /\ BytesOf(items, Stored \ {k}) <= BytesWithout(k)
      BY <1>2, <2>3, <2>7, SMT
    <2> QED
      BY <1>1, <1>2, <1>3, <2>2, <2>3, <2>5, <2>6, <2>7, <2>8, <2>9, LimitsAssumption, SMT
  <1> QED
    BY <1>4, <1>5
\* Every limit holds of the next state; stated with the sets that are counted there.
LEMMA HeldNext ==
  ASSUME Inv', Totals', serving',
         Cardinality(Stored') <= totalItems', totalItems' <= MaxTotalItems,
         BytesOf(items', Stored') <= totalBytes', totalBytes' <= MaxTotalBytes,
         \A m \in Mailboxes : /\ Cardinality(Of(m)') <= mailboxCount'[m]
                              /\ mailboxCount'[m] <= MaxItemsPerMailbox,
         Cardinality(Marked') <= MaxTotalItems
  PROVE  Held'
  <1>1. Bytes(Stored)' = BytesOf(items', Stored')
    BY Zenon DEF Bytes, BytesOf, MapThenSumSet, MapThenFoldSet
  <1> QED
    BY <1>1, Zenon DEF Held, WithinCapacity, Marked

\* A cleanup counts what it keeps, which is part of what was counted.
LEMMA CleanupHeld ==
  ASSUME Held, NEW now \in Times, CleanupEffect(now), Inv', serving'
  PROVE  Held'
  <1> USE Zenon
  <1>1. /\ Stored' = RetainedKeys(now) /\ RetainedKeys(now) \in SUBSET Stored
        /\ Marked' \in SUBSET Marked
        /\ \A k \in RetainedKeys(now) : items'[k] = items[k]
    BY DEF CleanupEffect, Retained, RetainedKeys, Stored, Marked, Live
  <1>2. \A m \in Mailboxes : /\ Of(m)' = {k \in RetainedKeys(now) : k[1] = m}
                             /\ Of(m)' \in SUBSET Of(m) /\ Of(m)' \in SUBSET Stored
    BY <1>1 DEF Of
  <1>3. IsFiniteSet(Stored) /\ IsFiniteSet(Marked) /\ IsFiniteSet(RetainedKeys(now))
    BY <1>1, StoredFacts, FS_Subset DEF Held
  <1>4. /\ Cardinality(Stored) \in Nat /\ Cardinality(RetainedKeys(now)) \in Nat
        /\ Cardinality(RetainedKeys(now)) <= Cardinality(Stored)
    BY <1>1, <1>3, FS_Subset, FS_CardinalityType
  <1>5. Cardinality(Marked') \in Nat /\ Cardinality(Marked) \in Nat
        /\ Cardinality(Marked') <= Cardinality(Marked)
    BY <1>1, <1>3, FS_Subset, FS_CardinalityType
  <1>6. ASSUME NEW m \in Mailboxes
        PROVE  /\ Cardinality(Of(m)') \in Nat /\ Cardinality(Of(m)) \in Nat
               /\ Cardinality(Of(m)') <= Cardinality(Of(m))
    <2>1. Of(m) \in SUBSET Stored
      BY DEF Of
    <2>2. IsFiniteSet(Of(m))
      BY <1>3, <2>1, FS_Subset
    <2>3. IsFiniteSet(Of(m)') /\ Cardinality(Of(m)') <= Cardinality(Of(m))
      BY <1>2, <2>2, FS_Subset
    <2> QED
      BY <2>2, <2>3, FS_CardinalityType
  <1>7. /\ BytesOf(items, RetainedKeys(now)) \in Nat /\ BytesOf(items, Stored) \in Nat
        /\ BytesOf(items, RetainedKeys(now)) <= BytesOf(items, Stored)
    <2>1. Stored \in SUBSET Stored
      OBVIOUS
    <2> QED
      BY <1>1, <1>3, <2>1, StoredFacts, BytesFacts DEF Held
  <1>8. BytesOf(items', Stored') = BytesOf(items, RetainedKeys(now))
    <2>1. \A k \in RetainedKeys(now) : Size[items[k].envelope] \in Nat
      BY <1>1, StoredFacts DEF Held
    <2> QED
      BY <1>1, <1>3, <2>1, SameBytes
  <1>9. /\ totalItems' = Cardinality(RetainedKeys(now))
        /\ totalBytes' = BytesOf(items, RetainedKeys(now))
        /\ \A m \in Mailboxes : mailboxCount'[m] = Cardinality(Of(m)')
        /\ mailboxCount' = [m \in Mailboxes |-> mailboxCount'[m]]
    BY <1>2, StoredFacts DEF CleanupEffect, Held
  <1>10. Totals'
    BY <1>4, <1>6, <1>7, <1>9 DEF Totals
  <1>11. /\ Cardinality(Stored) <= totalItems /\ totalItems \in Nat /\ totalItems <= MaxTotalItems
         /\ BytesOf(items, Stored) <= totalBytes /\ totalBytes \in Nat
         /\ totalBytes <= MaxTotalBytes /\ Cardinality(Marked) <= MaxTotalItems
         /\ \A m \in Mailboxes : /\ Cardinality(Of(m)) <= mailboxCount[m]
                                 /\ mailboxCount[m] \in Nat /\ mailboxCount[m] <= MaxItemsPerMailbox
    BY StoredFacts DEF Held, Totals, WithinCapacity, Marked
  <1>12. totalItems' <= MaxTotalItems /\ totalBytes' <= MaxTotalBytes /\ Cardinality(Marked') <= MaxTotalItems
    BY <1>4, <1>5, <1>7, <1>9, <1>11, LimitsAssumption, SMT
  <1>13. \A m \in Mailboxes : mailboxCount'[m] <= MaxItemsPerMailbox
    BY <1>6, <1>9, <1>11, LimitsAssumption, SMT
  <1>14. /\ Cardinality(Stored') <= totalItems' /\ BytesOf(items', Stored') <= totalBytes'
         /\ \A m \in Mailboxes : Cardinality(Of(m)') <= mailboxCount'[m]
    BY <1>1, <1>4, <1>6, <1>7, <1>8, <1>9, SMT
  <1> QED
    BY <1>10, <1>12, <1>13, <1>14, HeldNext

\* Nothing is counted differently when the tables stay.
LEMMA SameHeld ==
  ASSUME Held, UNCHANGED tables, Inv', serving'
  PROVE  Held'
  <1> USE Zenon
  <1>1. /\ UNCHANGED <<items, tombstones, totalItems, totalBytes, mailboxCount>>
        /\ Stored' = Stored /\ Marked' = Marked /\ \A m \in Mailboxes : Of(m)' = Of(m)
    BY DEF tables, Stored, Marked, Of
  <1>2. /\ Cardinality(Stored) <= totalItems /\ totalItems <= MaxTotalItems
        /\ BytesOf(items, Stored) <= totalBytes /\ totalBytes <= MaxTotalBytes
        /\ Cardinality(Marked) <= MaxTotalItems
        /\ \A m \in Mailboxes : /\ Cardinality(Of(m)) <= mailboxCount[m]
                                /\ mailboxCount[m] <= MaxItemsPerMailbox
    BY StoredFacts DEF Held, WithinCapacity, Marked
  <1>3. Totals'
    BY <1>1 DEF Held, Totals
  <1> QED
    BY <1>1, <1>2, <1>3, HeldNext

\* What is left when the record under a key is removed.
LEMMA Others ==
  ASSUME Held, NEW k \in Keys, \A j \in Keys \ {k} : items'[j] = items[j]
  PROVE  /\ Stored' \ {k} = Stored \ {k} /\ IsFiniteSet(Stored \ {k})
         /\ Cardinality(Stored \ {k}) \in Nat
         /\ BytesOf(items', Stored \ {k}) = BytesOf(items, Stored \ {k})
         /\ BytesOf(items, Stored \ {k}) \in Nat
         /\ \A m \in Mailboxes : /\ Of(m)' \ {k} = Of(m) \ {k} /\ IsFiniteSet(Of(m) \ {k})
                                 /\ Cardinality(Of(m) \ {k}) \in Nat
                                 /\ m # k[1] => Of(m) \ {k} = Of(m) /\ Of(m)' \ {k} = Of(m)'
  <1> USE Zenon
  <1>1. /\ Stored' \ {k} = Stored \ {k} /\ Stored \ {k} \in SUBSET Keys /\ Stored \ {k} \in SUBSET Stored
        /\ \A m \in Mailboxes : /\ Of(m)' \ {k} = Of(m) \ {k} /\ Of(m) \ {k} \in SUBSET Keys
                                /\ m # k[1] => Of(m) \ {k} = Of(m) /\ Of(m)' \ {k} = Of(m)'
    BY DEF Stored, Of
  <1>2. /\ IsFiniteSet(Stored \ {k}) /\ \A m \in Mailboxes : IsFiniteSet(Of(m) \ {k})
        /\ IsFiniteSet(Stored) /\ \A j \in Stored : Size[items[j].envelope] \in Nat
    BY <1>1, StoredFacts DEF Held
  <1>3. Cardinality(Stored \ {k}) \in Nat /\ \A m \in Mailboxes : Cardinality(Of(m) \ {k}) \in Nat
    BY <1>2, FS_CardinalityType
  <1>4. BytesOf(items, Stored \ {k}) \in Nat
    BY <1>1, <1>2, BytesFacts
  <1>5. BytesOf(items', Stored \ {k}) = BytesOf(items, Stored \ {k})
    <2>1. \A j \in Stored \ {k} : items[j] = items'[j] /\ Size[items[j].envelope] \in Nat
      BY <1>1, <1>2
    <2> QED
      BY <1>2, <2>1, SameBytes, SMT
  <1> QED
    BY <1>1, <1>2, <1>3, <1>4, <1>5

\* The limits as the steps use them.
LEMMA HeldFacts ==
  ASSUME Held
  PROVE  /\ totalItems \in Nat /\ totalItems <= MaxTotalItems
         /\ totalBytes \in Nat /\ totalBytes <= MaxTotalBytes
         /\ \A m \in Mailboxes : /\ Cardinality(Of(m)) <= mailboxCount[m]
                                 /\ mailboxCount[m] \in Nat /\ mailboxCount[m] <= MaxItemsPerMailbox
         /\ mailboxCount \in [Mailboxes -> Nat]
         /\ IsFiniteSet(Marked) /\ Cardinality(Marked) \in Nat /\ Cardinality(Marked) <= MaxTotalItems
         /\ MaxTotalItems \in Nat /\ MaxTotalBytes \in Nat /\ MaxItemsPerMailbox \in Nat
  <1>1. IsFiniteSet(Marked) /\ Cardinality(Marked) \in Nat
    BY StoredFacts, FS_CardinalityType, Zenon DEF Held
  <1> QED
    BY <1>1, LimitsAssumption, Zenon DEF Held, Totals, WithinCapacity, Marked

\* A put that creates an item has checked all three limits without the expired record.
LEMMA CreatedHeld ==
  ASSUME Held, NEW k \in Keys, NEW e \in Envelopes, NEW ttl \in Ttls, NEW now \in Times,
         PutEffect(k, e, ttl, now), PutOutcome(k, e, ttl, now) = "Created", Inv', serving'
  PROVE  Held'
  <1> USE Zenon
  <1>1. /\ items' = [items EXCEPT ![k] = NewReceipt(k, e, ttl, now)]
        /\ tombstones' = [tombstones EXCEPT ![k] = None]
        /\ totalItems' = ItemsWithout(k) + 1
        /\ totalBytes' = BytesWithout(k) + Size[e]
        /\ mailboxCount' = [mailboxCount EXCEPT ![k[1]] = CountWithout(k) + 1]
    BY DEF PutEffect
  <1>2. ~CapacityReached(k, e)
    BY DEF PutOutcome
  <1>3. /\ items'[k] # None /\ items'[k].envelope = e /\ Size[e] \in Nat /\ k[1] \in Mailboxes
        /\ \A j \in Keys \ {k} : items'[j] = items[j]
    <2>1. now \in Nat /\ ttl \in Nat
      BY TimesBehind, SizesAssumption DEF Held, Inv, Records
    <2>2. NewReceipt(k, e, ttl, now) \in Receipts /\ NewReceipt(k, e, ttl, now).envelope = e
      BY <2>1, SMT DEF NewReceipt, Receipts
    <2> QED
      BY <1>1, <2>2, NoneAssumption, SizesAssumption DEF Held, Inv, Records, Keys
  <1>4. k \in Stored' /\ k \in Of(k[1])'
    BY <1>3 DEF Stored, Of
  <1>5. /\ Stored' \ {k} = Stored \ {k} /\ IsFiniteSet(Stored \ {k})
        /\ Cardinality(Stored \ {k}) \in Nat
        /\ BytesOf(items', Stored \ {k}) = BytesOf(items, Stored \ {k})
        /\ BytesOf(items, Stored \ {k}) \in Nat
        /\ \A m \in Mailboxes : /\ Of(m)' \ {k} = Of(m) \ {k} /\ IsFiniteSet(Of(m) \ {k})
                                /\ Cardinality(Of(m) \ {k}) \in Nat
                                /\ m # k[1] => Of(m) \ {k} = Of(m) /\ Of(m)' \ {k} = Of(m)'
    BY <1>3, Others
  <1>6. /\ ItemsWithout(k) \in Nat /\ Cardinality(Stored \ {k}) <= ItemsWithout(k)
        /\ BytesWithout(k) \in Nat /\ BytesOf(items, Stored \ {k}) <= BytesWithout(k)
        /\ CountWithout(k) \in Nat /\ Cardinality(Of(k[1]) \ {k}) <= CountWithout(k)
    BY WithoutFacts
  <1>7. Stored' = (Stored \ {k}) \cup {k} /\ Of(k[1])' = (Of(k[1]) \ {k}) \cup {k}
    BY <1>3, <1>4, <1>5
  <1>8. /\ Cardinality(Stored') = Cardinality(Stored \ {k}) + 1
        /\ Cardinality(Of(k[1])') = Cardinality(Of(k[1]) \ {k}) + 1 /\ IsFiniteSet(Stored')
    <2>1. k \notin Stored \ {k} /\ k \notin Of(k[1]) \ {k}
      OBVIOUS
    <2>2. Cardinality(Stored') = Cardinality(Stored \ {k}) + 1 /\ IsFiniteSet(Stored')
      BY <1>7, <1>5, <2>1, FS_AddElement
    <2>3. Cardinality(Of(k[1])') = Cardinality(Of(k[1]) \ {k}) + 1
      BY <1>3, <1>7, <1>5, <2>1, FS_AddElement
    <2> QED
      BY <2>2, <2>3
  <1>9. BytesOf(items', Stored') = Size[e] + BytesOf(items, Stored \ {k})
    <2>1. \A j \in Stored' : Size[items'[j].envelope] \in Nat
      BY <1>3, <1>7, StoredFacts DEF Held, Stored
    <2>2. BytesOf(items', Stored') = Size[items'[k].envelope] + BytesOf(items', Stored' \ {k})
      BY <1>4, <1>8, <2>1, BytesFacts, SMT
    <2>3. BytesOf(items', Stored' \ {k}) = BytesOf(items, Stored \ {k})
      BY <1>5
    <2>4. Size[items'[k].envelope] = Size[e]
      BY <1>3
    <2> QED
      BY <2>2, <2>3, <2>4
  <1>10. /\ totalItems' \in Nat /\ Cardinality(Stored') <= totalItems' /\ totalItems' <= MaxTotalItems
         /\ totalBytes' \in Nat /\ BytesOf(items', Stored') <= totalBytes' /\ totalBytes' <= MaxTotalBytes
    <2>1. MaxTotalItems \in Nat /\ MaxTotalBytes \in Nat /\ Size[e] \in Nat
      BY <1>3, LimitsAssumption
    <2>2. ~(ItemsWithout(k) >= MaxTotalItems) /\ ~(BytesWithout(k) + Size[e] > MaxTotalBytes)
      BY <1>2 DEF CapacityReached
    <2>3. Cardinality(Stored \ {k}) \in Nat /\ BytesOf(items, Stored \ {k}) \in Nat
      BY <1>5
    <2>4. /\ totalItems' = ItemsWithout(k) + 1 /\ totalBytes' = BytesWithout(k) + Size[e]
          /\ Cardinality(Stored') = Cardinality(Stored \ {k}) + 1
      BY <1>1, <1>8
    <2> QED
      BY <1>6, <1>9, <2>1, <2>2, <2>3, <2>4, SMT
  <1>11. /\ mailboxCount'[k[1]] = CountWithout(k) + 1
         /\ \A m \in Mailboxes : m # k[1] => mailboxCount'[m] = mailboxCount[m]
         /\ mailboxCount' \in [Mailboxes -> Nat]
    <2>1. mailboxCount \in [Mailboxes -> Nat] /\ CountWithout(k) + 1 \in Nat /\ k[1] \in Mailboxes
      BY <1>3, <1>6, SMT DEF Held, Totals
    <2>2. mailboxCount' = [mailboxCount EXCEPT ![k[1]] = CountWithout(k) + 1]
      BY <1>1
    <2> QED
      BY <2>1, <2>2
  <1>12. \A m \in Mailboxes : /\ Cardinality(Of(m)') <= mailboxCount'[m]
                              /\ mailboxCount'[m] <= MaxItemsPerMailbox
    <2>1. ~(CountWithout(k) >= MaxItemsPerMailbox) /\ MaxItemsPerMailbox \in Nat
      BY <1>2, LimitsAssumption DEF CapacityReached
    <2>2. /\ Cardinality(Of(k[1])') <= mailboxCount'[k[1]]
          /\ mailboxCount'[k[1]] <= MaxItemsPerMailbox
      <3>1. /\ Cardinality(Of(k[1])') = Cardinality(Of(k[1]) \ {k}) + 1
            /\ mailboxCount'[k[1]] = CountWithout(k) + 1
        BY <1>8, <1>11
      <3>2. Cardinality(Of(k[1]) \ {k}) \in Nat
        BY <1>3, <1>5
      <3>3. CountWithout(k) \in Nat /\ Cardinality(Of(k[1]) \ {k}) <= CountWithout(k)
        BY <1>6
      <3> QED
        BY <2>1, <3>1, <3>2, <3>3, SMT
    <2>3. \A m \in Mailboxes : m # k[1] => /\ Cardinality(Of(m)') <= mailboxCount'[m]
                                          /\ mailboxCount'[m] <= MaxItemsPerMailbox
      BY <1>5, <1>11, HeldFacts
    <2> QED
      BY <2>2, <2>3
  <1>13. Marked' \in SUBSET Marked
    BY <1>1 DEF Marked, Held, Inv, Records
  <1>14. Cardinality(Marked') <= MaxTotalItems
    <2>1. IsFiniteSet(Marked') /\ Cardinality(Marked') <= Cardinality(Marked)
      BY <1>13, HeldFacts, FS_Subset
    <2>2. Cardinality(Marked') \in Nat
      BY <2>1, FS_CardinalityType
    <2> QED
      BY <2>1, <2>2, HeldFacts, SMT
  <1>15. Totals'
    BY <1>10, <1>11 DEF Totals
  <1> QED
    BY <1>10, <1>12, <1>14, <1>15, HeldNext

\* Fewer records under the same totals are still within the limits.
LEMMA FewerHeld ==
  ASSUME Held, Inv', serving', UNCHANGED <<totalItems, totalBytes, mailboxCount>>,
         Stored' \in SUBSET Stored, Marked' \in SUBSET Marked,
         \A j \in Stored' : items[j] = items'[j],
         \A m \in Mailboxes : Of(m)' \in SUBSET Of(m)
  PROVE  Held'
  <1> USE Zenon
  <1>1. Totals'
    BY DEF Held, Totals
  <1>2. /\ IsFiniteSet(Stored) /\ IsFiniteSet(Stored') /\ IsFiniteSet(Marked')
        /\ Cardinality(Stored') <= Cardinality(Stored)
        /\ Cardinality(Marked') <= Cardinality(Marked)
    BY StoredFacts, FS_Subset DEF Held
  <1>3. /\ Cardinality(Stored) \in Nat /\ Cardinality(Stored') \in Nat
        /\ Cardinality(Marked') \in Nat
    BY <1>2, FS_CardinalityType
  <1>4. ASSUME NEW m \in Mailboxes
        PROVE  /\ Cardinality(Of(m)') \in Nat /\ Cardinality(Of(m)) \in Nat
               /\ Cardinality(Of(m)') <= Cardinality(Of(m))
    <2>1. Of(m) \in SUBSET Stored
      BY DEF Of
    <2>2. IsFiniteSet(Of(m))
      BY <1>2, <2>1, FS_Subset
    <2>3. IsFiniteSet(Of(m)') /\ Cardinality(Of(m)') <= Cardinality(Of(m))
      BY <2>2, FS_Subset
    <2> QED
      BY <2>2, <2>3, FS_CardinalityType
  <1>5. /\ BytesOf(items, Stored') \in Nat /\ BytesOf(items, Stored) \in Nat
        /\ BytesOf(items, Stored') <= BytesOf(items, Stored)
    <2>1. Stored \in SUBSET Stored
      OBVIOUS
    <2> QED
      BY <1>2, <2>1, StoredFacts, BytesFacts DEF Held
  <1>6. BytesOf(items', Stored') = BytesOf(items, Stored')
    <2>1. \A k \in Stored' : Size[items[k].envelope] \in Nat
      BY StoredFacts DEF Held
    <2> QED
      BY <1>2, <2>1, SameBytes
  <1>7. /\ Cardinality(Stored) <= totalItems /\ BytesOf(items, Stored) <= totalBytes
    BY StoredFacts DEF Held, WithinCapacity
  <1>8. /\ Cardinality(Stored') <= totalItems' /\ totalItems' <= MaxTotalItems
        /\ BytesOf(items', Stored') <= totalBytes' /\ totalBytes' <= MaxTotalBytes
        /\ Cardinality(Marked') <= MaxTotalItems
    BY <1>2, <1>3, <1>5, <1>6, <1>7, HeldFacts, SMT
  <1>9. \A m \in Mailboxes : /\ Cardinality(Of(m)') <= mailboxCount'[m]
                             /\ mailboxCount'[m] <= MaxItemsPerMailbox
    BY <1>4, HeldFacts, SMT
  <1> QED
    BY <1>1, <1>8, <1>9, HeldNext

\* A put without room has removed an expired record and left the totals too high.
LEMMA PutHeld ==
  ASSUME Held, NEW k \in Keys, NEW e \in Envelopes, NEW ttl \in Ttls, NEW now \in Times,
         PutEffect(k, e, ttl, now), Inv', serving'
  PROVE  Held'
  <1> USE Zenon
  <1>1. CASE PutOutcome(k, e, ttl, now) = "Created"
    BY <1>1, CreatedHeld
  <1>2. CASE PutOutcome(k, e, ttl, now) = "CapacityExceeded"
    <2>1. /\ items' = [items EXCEPT ![k] = None] /\ tombstones' = [tombstones EXCEPT ![k] = None]
          /\ UNCHANGED <<totalItems, totalBytes, mailboxCount>>
      BY <1>2 DEF PutEffect
    <2>2. /\ \A j \in Keys \ {k} : items'[j] = items[j]
          /\ Stored' \in SUBSET Stored /\ Marked' \in SUBSET Marked
          /\ \A j \in Stored' : items[j] = items'[j]
          /\ \A m \in Mailboxes : Of(m)' \in SUBSET Of(m)
      BY <2>1 DEF Stored, Marked, Of, Held, Inv, Records
    <2> QED
      BY <2>1, <2>2, FewerHeld
  <1>3. CASE UNCHANGED tables
    BY <1>3, SameHeld
  <1> QED
    BY <1>1, <1>2, <1>3 DEF PutEffect

\* The transaction of a delete leaves the totals without the item, and adds a tombstone only
\* while there is room for one.
LEMMA DeleteHeld ==
  ASSUME Held, NEW r \in deletes, delete_commit(r), Inv', serving'
  PROVE  Held'
  <1> USE Zenon
  <1>1. CASE DeleteOutcome(r) = "Deleted"
    <2>1. r.key \in Keys /\ r # None
      BY NoneAssumption DEF Held, Inv, Records, Receipts
    <2>2. PICK k \in Keys : k = r.key
      BY <2>1
    <2>3. /\ items[k] = r /\ items[k] # None
          /\ ~(Cardinality(Marked) >= MaxTotalItems)
          /\ items' = [items EXCEPT ![k] = None] /\ tombstones' = [tombstones EXCEPT ![k] = r]
          /\ totalItems' = ItemsWithout(k) /\ totalBytes' = BytesWithout(k)
          /\ mailboxCount' = [mailboxCount EXCEPT ![k[1]] = CountWithout(k)]
      BY <1>1, <2>1, <2>2
      DEF delete_commit, DeleteOutcome, DeleteEffect, Marked, ItemsWithout,
            BytesWithout, CountWithout
    <2>4. /\ k[1] \in Mailboxes /\ \A j \in Keys \ {k} : items'[j] = items[j]
          /\ k \notin Stored' /\ Marked' = Marked \cup {k} /\ \A m \in Mailboxes : k \notin Of(m)'
      <3> items \in [Keys -> Receipts \cup {None}] /\ tombstones \in [Keys -> Receipts \cup {None}]
        BY DEF Held, Inv, Records
      <3>1. items'[k] = None /\ \A j \in Keys \ {k} : items'[j] = items[j]
        BY <2>3
      <3>2. tombstones'[k] # None /\ \A j \in Keys \ {k} : tombstones'[j] = tombstones[j]
        BY <2>1, <2>3
      <3>3. k \notin Stored' /\ \A m \in Mailboxes : k \notin Of(m)'
        BY <3>1 DEF Stored, Of
      <3>4. Marked' = Marked \cup {k}
        BY <3>2 DEF Marked
      <3>5. k[1] \in Mailboxes
        BY DEF Keys
      <3> QED
        BY <3>1, <3>3, <3>4, <3>5
    <2>5. /\ Stored' \ {k} = Stored \ {k}
          /\ BytesOf(items', Stored \ {k}) = BytesOf(items, Stored \ {k})
          /\ \A m \in Mailboxes : /\ Of(m)' \ {k} = Of(m) \ {k}
                                  /\ m # k[1] => Of(m) \ {k} = Of(m) /\ Of(m)' \ {k} = Of(m)'
      BY <2>4, Others
    <2>6. Stored' = Stored \ {k} /\ \A m \in Mailboxes : Of(m)' = Of(m) \ {k}
      BY <2>4, <2>5
    <2>7. /\ totalItems' \in Nat /\ Cardinality(Stored') <= totalItems' /\ totalItems' <= MaxTotalItems
          /\ totalBytes' \in Nat /\ BytesOf(items', Stored') <= totalBytes'
          /\ totalBytes' <= MaxTotalBytes
      BY <2>3, <2>5, <2>6, WithoutFacts
    <2>8. /\ CountWithout(k) \in Nat /\ Cardinality(Of(k[1]) \ {k}) <= CountWithout(k)
          /\ CountWithout(k) <= MaxItemsPerMailbox
      BY WithoutFacts
    <2>9. /\ mailboxCount'[k[1]] = CountWithout(k)
          /\ \A m \in Mailboxes : m # k[1] => mailboxCount'[m] = mailboxCount[m]
          /\ mailboxCount' \in [Mailboxes -> Nat]
      BY <2>3, <2>4, <2>8, HeldFacts
    <2>10. \A m \in Mailboxes : /\ Cardinality(Of(m)') <= mailboxCount'[m]
                                /\ mailboxCount'[m] <= MaxItemsPerMailbox
      <3>1. /\ Cardinality(Of(k[1])') <= mailboxCount'[k[1]]
            /\ mailboxCount'[k[1]] <= MaxItemsPerMailbox
        BY <2>4, <2>6, <2>8, <2>9
      <3>2. \A m \in Mailboxes : m # k[1] => /\ Cardinality(Of(m)') <= mailboxCount'[m]
                                            /\ mailboxCount'[m] <= MaxItemsPerMailbox
        BY <2>5, <2>9, HeldFacts
      <3> QED
        BY <3>1, <3>2
    <2>11. Cardinality(Marked') <= MaxTotalItems
      <3>1. IsFiniteSet(Marked) /\ Cardinality(Marked) \in Nat /\ MaxTotalItems \in Nat
        BY HeldFacts
      <3>2. Cardinality(Marked') = IF k \in Marked THEN Cardinality(Marked)
                                   ELSE Cardinality(Marked) + 1
        BY <2>4, <3>1, FS_AddElement
      <3> QED
        BY <2>3, <3>1, <3>2, SMT
    <2>12. Totals'
      BY <2>7, <2>9 DEF Totals
    <2> QED
      BY <2>7, <2>10, <2>11, <2>12, HeldNext
  <1>2. CASE UNCHANGED tables
    BY <1>2, SameHeld
  <1> QED
    BY <1>1, <1>2 DEF delete_commit

\* Every step keeps the limits, and open finds the totals within them.
LEMMA StepHeld == ASSUME Held, [Next]_vars PROVE Held'
  <1> USE Zenon
  <1>1. Inv' /\ serving
    BY StepInv DEF Held, WithinCapacity
  <1>2. CASE Put
    <2>1. PICK k \in Keys, e \in Envelopes, ttl \in Ttls, now \in Times : put(k, e, ttl, now)
      BY <1>2, SMT DEF Put
    <2>2. PutEffect(k, e, ttl, now) /\ serving'
      BY <1>1, <2>1 DEF put
    <2> QED
      BY <1>1, <2>2, PutHeld
  <1>3. CASE Cleanup \/ Delete
    <2>1. PICK now \in Times : CleanupEffect(now) /\ serving'
      BY <1>1, <1>3 DEF Cleanup, cleanup, Delete, delete
    <2> QED
      BY <1>1, <2>1, CleanupHeld
  <1>4. CASE DeleteCommit
    <2>1. PICK r \in deletes : delete_commit(r)
      BY <1>4, SMT DEF DeleteCommit
    <2>2. serving'
      BY <1>1, <2>1 DEF delete_commit
    <2> QED
      BY <1>1, <2>1, <2>2, DeleteHeld
  <1>5. CASE Open
    <2>1. PICK now \in Times : open(now)
      BY <1>5, SMT DEF Open
    <2>2. totalItems <= MaxTotalItems /\ totalBytes <= MaxTotalBytes
      BY HeldFacts
    <2>3. serving' /\ CleanupEffect(now)
      BY <2>1, <2>2 DEF open
    <2> QED
      BY <1>1, <2>3, CleanupHeld
  <1>6. CASE Tick \/ UNCHANGED vars
    <2>1. UNCHANGED tables /\ serving'
      BY <1>1, <1>6 DEF Tick, vars
    <2> QED
      BY <1>1, <2>1, SameHeld
  <1> QED
    BY <1>2, <1>3, <1>4, <1>5, <1>6 DEF Next

\* An empty store is within its limits.
LEMMA InitHeld == Init => Held
  <1> USE Zenon
  <1> SUFFICES ASSUME Init PROVE Held
    OBVIOUS
  <1>1. Inv
    BY InitInv
  <1>2. Stored = {} /\ Marked = {} /\ \A m : Of(m) = {}
    BY DEF Init, Stored, Marked, Of
  <1>3. Cardinality({}) = 0 /\ IsFiniteSet({})
    BY FS_EmptySet
  <1>4. Bytes(Stored) = 0
    BY <1>1, <1>2, StoredFacts, BytesFacts
  <1>5. Totals
    BY DEF Init, Totals
  <1>6. WithinCapacity
    BY <1>2, <1>3, <1>4, LimitsAssumption, SMT DEF Init, WithinCapacity, Marked
  <1> QED
    BY <1>1, <1>5, <1>6 DEF Held

\* The store is within its limits in every state.
LEMMA HeldInvariance == Spec => []Held
  <1>1. Held /\ [Next]_vars => Held'
    BY StepHeld, Zenon
  <1> QED
    BY <1>1, InitHeld, PTL DEF Spec

\* The tables hold records of their kinds, each under its own key.
THEOREM StoreTypeCorrect == Spec => []TypeOK
  <1>1. Held => TypeOK
    BY Zenon DEF Held, Inv, Records, Totals, WithinCapacity, TypeOK
  <1> QED
    BY <1>1, HeldInvariance, PTL

\* BlindMailboxStore: whatever requests arrive in whatever order, and however old the time a
\* handler works with, the persisted totals cover what the tables hold and stay within the
\* configured limits, so the store never overfills and open accepts its database again.
THEOREM LimitsAreKept == Spec => []WithinCapacity
  <1>1. Held => WithinCapacity
    BY Zenon DEF Held
  <1> QED
    BY <1>1, HeldInvariance, PTL
=============================================================================
