---------------------------- MODULE MailboxStore ----------------------------
(***************************************************************************)
(* The blind mailbox store (crates/kilogram-mailbox/src/store.rs) behind    *)
(* the ticket-store service (apps/kilogram-ticket-store/src/lib.rs).        *)
(*                                                                         *)
(* Every write is one immediately durable database transaction, hence one   *)
(* step.  The service handles requests concurrently: a handler reads the    *)
(* clock when its request arrives and may get the database only later, so   *)
(* the time it works with may lag behind the clock, and a delete is two     *)
(* transactions with other requests in between.  Authorizations are         *)
(* verified before a step starts; an item is its signed stored receipt.     *)
(***************************************************************************)
EXTENDS Naturals, FiniteSets, FiniteSetsExt

CONSTANTS
    Mailboxes,
    Items,               \* item identifiers, chosen by the writer
    Envelopes,           \* ciphertexts
    Size,                \* their lengths: Envelopes -> Nat
    Ttls,                \* the lifetimes writers ask for
    None,                \* no record under a key
    MaxItemsPerMailbox,
    MaxTotalItems,
    MaxTotalBytes,
    MaxClock,            \* bound on the clock
    Lag                  \* bound on how old the time a handler read may be

Keys == Mailboxes \X Items
Receipts == [key : Keys, envelope : Envelopes, storedAt : Nat, expires : Nat]

ASSUME NoneAssumption == None \notin Receipts
ASSUME SizesAssumption == Size \in [Envelopes -> Nat] /\ Ttls \subseteq Nat \ {0}
ASSUME LimitsAssumption == /\ MaxItemsPerMailbox \in Nat
                           /\ MaxTotalItems \in Nat
                           /\ MaxTotalBytes \in Nat
ASSUME TimeAssumption == MaxClock \in Nat /\ Lag \in Nat
ASSUME KeysAssumption == IsFiniteSet(Keys)

VARIABLES
    clock,
    items,         \* ITEM_TABLE: Keys -> Receipts or None
    tombstones,    \* TOMBSTONE_TABLE: the receipt of the deleted item, or None
    totalItems,    \* META_TABLE
    totalBytes,
    mailboxCount,  \* MAILBOX_COUNT_TABLE, absent rows being 0
    deletes,       \* deletes that have cleaned up and not yet run their transaction
    serving,       \* whether open accepted the database
    accepted,      \* history: the receipts returned by put
    proven         \* history: the receipts whose deletion was proven to a reader

tables == <<items, tombstones, totalItems, totalBytes, mailboxCount>>
history == <<accepted, proven>>
vars == <<clock, tables, deletes, serving, history>>

Init ==
    /\ clock = 0
    /\ items = [k \in Keys |-> None]
    /\ tombstones = [k \in Keys |-> None]
    /\ totalItems = 0
    /\ totalBytes = 0
    /\ mailboxCount = [m \in Mailboxes |-> 0]
    /\ deletes = {}
    /\ serving = TRUE
    /\ accepted = {}
    /\ proven = {}

\* The times a handler may be working with.
Times == {t \in 0..clock : clock <= t + Lag}

\* expired_at, for an item and for its tombstone.
Expired(r, now) == r.expires <= now
Live(r, now) == r # None /\ ~Expired(r, now)

Minus(a, b) == IF a >= b THEN a - b ELSE 0
Bytes(K) == MapThenSumSet(LAMBDA k : Size[items[k].envelope], K)
Stored == {k \in Keys : items[k] # None}
Of(m) == {k \in Stored : k[1] = m}
-----------------------------------------------------------------------------
(* put                                                                     *)

NewReceipt(k, e, ttl, now) == [key |-> k, envelope |-> e, storedAt |-> now, expires |-> now + ttl]

\* The totals without the expired item that the new one replaces.
ItemsWithout(k) == IF items[k] = None THEN totalItems ELSE Minus(totalItems, 1)
BytesWithout(k) == IF items[k] = None THEN totalBytes
                   ELSE Minus(totalBytes, Size[items[k].envelope])
CountWithout(k) == IF items[k] = None THEN mailboxCount[k[1]] ELSE Minus(mailboxCount[k[1]], 1)

\* Mutant: only the number of items is limited.
CapacityReachedIgnoresBytes(k, e) ==
    ItemsWithout(k) >= MaxTotalItems \/ CountWithout(k) >= MaxItemsPerMailbox

CapacityReached(k, e) ==
    \/ ItemsWithout(k) >= MaxTotalItems
    \/ CountWithout(k) >= MaxItemsPerMailbox
    \/ BytesWithout(k) + Size[e] > MaxTotalBytes

\* Mutant: tombstones are not looked at.
PutOutcomeNoTombstone(k, e, ttl, now) ==
    IF Live(items[k], now)
    THEN IF items[k].envelope = e /\ items[k].expires = items[k].storedAt + ttl
         THEN "AlreadyPresent" ELSE "Conflict"
    ELSE IF CapacityReached(k, e) THEN "CapacityExceeded" ELSE "Created"

PutOutcome(k, e, ttl, now) ==
    IF Live(items[k], now)
    THEN IF items[k].envelope = e /\ items[k].expires = items[k].storedAt + ttl
         THEN "AlreadyPresent" ELSE "Conflict"
    ELSE IF Live(tombstones[k], now) THEN "Tombstoned"
    ELSE IF CapacityReached(k, e) THEN "CapacityExceeded" ELSE "Created"

\* What a put leaves in the tables.  A put without room has already removed the expired
\* records under its key, and commits that without the totals.
PutEffect(k, e, ttl, now) ==
    \/ /\ PutOutcome(k, e, ttl, now) = "Created"
       /\ items' = [items EXCEPT ![k] = NewReceipt(k, e, ttl, now)]
       /\ tombstones' = [tombstones EXCEPT ![k] = None]
       /\ totalItems' = ItemsWithout(k) + 1
       /\ totalBytes' = BytesWithout(k) + Size[e]
       /\ mailboxCount' = [mailboxCount EXCEPT ![k[1]] = CountWithout(k) + 1]
    \/ /\ PutOutcome(k, e, ttl, now) = "CapacityExceeded"
       /\ items' = [items EXCEPT ![k] = None]
       /\ tombstones' = [tombstones EXCEPT ![k] = None]
       /\ UNCHANGED <<totalItems, totalBytes, mailboxCount>>
    \/ /\ PutOutcome(k, e, ttl, now) \in {"AlreadyPresent", "Conflict", "Tombstoned"}
       /\ UNCHANGED tables

Positive(k, e, ttl, now) == PutOutcome(k, e, ttl, now) \in {"Created", "AlreadyPresent"}

put(k, e, ttl, now) ==
    /\ serving
    /\ now \in Times
    /\ PutEffect(k, e, ttl, now)
    /\ accepted' = IF Positive(k, e, ttl, now) THEN accepted \cup {items'[k]} ELSE accepted
    /\ UNCHANGED <<clock, deletes, serving, proven>>
-----------------------------------------------------------------------------
(* cleanup, and list_page, which is a cleanup followed by a read           *)

Retained(records, now) == [k \in Keys |-> IF Live(records[k], now) THEN records[k] ELSE None]
RetainedKeys(now) == {k \in Keys : Live(items[k], now)}

\* Mutant: the totals are left as they were.
CleanupEffectKeepsTotals(now) ==
    /\ items' = Retained(items, now)
    /\ tombstones' = Retained(tombstones, now)
    /\ UNCHANGED <<totalItems, totalBytes, mailboxCount>>

CleanupEffect(now) ==
    /\ items' = Retained(items, now)
    /\ tombstones' = Retained(tombstones, now)
    /\ totalItems' = Cardinality(RetainedKeys(now))
    /\ totalBytes' = Bytes(RetainedKeys(now))
    /\ mailboxCount' = [m \in Mailboxes |-> Cardinality({k \in RetainedKeys(now) : k[1] = m})]

cleanup(now) ==
    /\ serving
    /\ now \in Times
    /\ CleanupEffect(now)
    /\ UNCHANGED <<clock, deletes, serving, history>>
-----------------------------------------------------------------------------
(* delete                                                                  *)

delete(r, now) ==
    /\ serving
    /\ now \in Times
    /\ CleanupEffect(now)
    /\ deletes' = deletes \cup {r}
    /\ UNCHANGED <<clock, serving, history>>

\* Mutant: whatever is stored under the key is deleted.
DeleteOutcomeAnyReceipt(r) ==
    IF items[r.key] # None THEN "Deleted"
    ELSE IF tombstones[r.key] = r THEN "AlreadyDeleted" ELSE "Absent"

\* Mutant: tombstones are not limited.
DeleteOutcomeUnlimited(r) ==
    IF items[r.key] # None
    THEN IF items[r.key] # r THEN "ReceiptMismatch" ELSE "Deleted"
    ELSE IF tombstones[r.key] = None THEN "Absent"
         ELSE IF tombstones[r.key] = r THEN "AlreadyDeleted" ELSE "ReceiptMismatch"

\* A delete that finds neither the item nor its tombstone, or another receipt, or no room
\* for a tombstone, changes nothing and proves nothing.
DeleteOutcome(r) ==
    IF items[r.key] # None
    THEN IF items[r.key] # r THEN "ReceiptMismatch"
         ELSE IF Cardinality({k \in Keys : tombstones[k] # None}) >= MaxTotalItems
              THEN "TombstoneCapacityExceeded" ELSE "Deleted"
    ELSE IF tombstones[r.key] = None THEN "Absent"
         ELSE IF tombstones[r.key] = r THEN "AlreadyDeleted" ELSE "ReceiptMismatch"

\* Mutant: no tombstone is left.
DeleteEffectNoTombstone(r) ==
    /\ items' = [items EXCEPT ![r.key] = None]
    /\ totalItems' = Minus(totalItems, 1)
    /\ totalBytes' = Minus(totalBytes, Size[items[r.key].envelope])
    /\ mailboxCount' = [mailboxCount EXCEPT ![r.key[1]] = Minus(@, 1)]
    /\ UNCHANGED tombstones

DeleteEffect(r) ==
    /\ items' = [items EXCEPT ![r.key] = None]
    /\ tombstones' = [tombstones EXCEPT ![r.key] = r]
    /\ totalItems' = Minus(totalItems, 1)
    /\ totalBytes' = Minus(totalBytes, Size[items[r.key].envelope])
    /\ mailboxCount' = [mailboxCount EXCEPT ![r.key[1]] = Minus(@, 1)]

delete_commit(r) ==
    /\ r \in deletes
    /\ IF DeleteOutcome(r) = "Deleted" THEN DeleteEffect(r) ELSE UNCHANGED tables
    /\ deletes' = deletes \ {r}
    /\ proven' = IF DeleteOutcome(r) \in {"Deleted", "AlreadyDeleted"}
                 THEN proven \cup {r} ELSE proven
    /\ UNCHANGED <<clock, serving, accepted>>
-----------------------------------------------------------------------------
(* The service stops and opens the database again: open checks the         *)
(* persisted totals, then bind cleans up.                                  *)

open(now) ==
    /\ now \in Times
    /\ deletes' = {}
    /\ serving' = (totalItems <= MaxTotalItems /\ totalBytes <= MaxTotalBytes)
    /\ IF serving' THEN CleanupEffect(now) ELSE UNCHANGED tables
    /\ UNCHANGED <<clock, history>>

\* The history forgets the receipts that expired before the present time.
Recent(receipts) == {r \in receipts : r.expires > clock}

Tick ==
    /\ clock < MaxClock
    /\ clock' = clock + 1
    /\ accepted' = Recent(accepted)
    /\ proven' = Recent(proven)
    /\ UNCHANGED <<tables, deletes, serving>>

Put == \E k \in Keys, e \in Envelopes, ttl \in Ttls, now \in Times : put(k, e, ttl, now)
Cleanup == \E now \in Times : cleanup(now)
Delete == \E r \in accepted, now \in Times : delete(r, now)
DeleteCommit == \E r \in deletes : delete_commit(r)
Open == \E now \in Times : open(now)

Next == Put \/ Cleanup \/ Delete \/ DeleteCommit \/ Open \/ Tick
Spec == Init /\ [][Next]_vars

\* The service's interval runs a cleanup at the current time again and again.
Fairness == WF_vars(cleanup(clock))
FairSpec == Spec /\ Fairness
-----------------------------------------------------------------------------
(* Properties                                                              *)

\* Every table holds records of its kind, each under its own key.
TypeOK ==
    /\ clock \in Nat
    /\ items \in [Keys -> Receipts \cup {None}]
    /\ tombstones \in [Keys -> Receipts \cup {None}]
    /\ \A k \in Keys : items[k] # None => items[k].key = k
    /\ \A k \in Keys : tombstones[k] # None => tombstones[k].key = k
    /\ totalItems \in Nat /\ totalBytes \in Nat
    /\ mailboxCount \in [Mailboxes -> Nat]
    /\ deletes \subseteq Receipts
    /\ serving \in BOOLEAN
    /\ accepted \subseteq Receipts /\ proven \subseteq Receipts

\* The persisted totals never fall below what the tables hold and never pass the
\* configured limits, so put cannot overfill the store and open accepts it again.
WithinCapacity ==
    /\ Cardinality(Stored) <= totalItems /\ totalItems <= MaxTotalItems
    /\ Bytes(Stored) <= totalBytes /\ totalBytes <= MaxTotalBytes
    /\ \A m \in Mailboxes : /\ Cardinality(Of(m)) <= mailboxCount[m]
                            /\ mailboxCount[m] <= MaxItemsPerMailbox
    /\ Cardinality({k \in Keys : tombstones[k] # None}) <= MaxTotalItems
    /\ serving

\* A receipt that put has returned stands for an item that is stored until it expires,
\* unless a reader deleted exactly that item, whose tombstone then stays until the item
\* would have expired.
AcceptedIsHeld ==
    \A r \in accepted : r.expires > clock => items[r.key] = r \/ tombstones[r.key] = r

\* Once delete has proven that an item is gone, no put brings its key back to life before
\* the item would have expired.
DeletedStaysDeleted ==
    \A r \in proven : r.expires > clock => items[r.key] = None /\ tombstones[r.key] = r

\* An item that has not expired leaves its key only through a delete that names its own
\* receipt: a stale delete cannot remove a replacement, a put cannot overwrite.
OnlyItsReceiptDeletes ==
    [][\A k \in Keys : Live(items[k], clock) /\ items'[k] # items[k]
            => /\ items'[k] = None
               /\ tombstones'[k] = items[k]
               /\ items[k] \in deletes]_vars

TotalsExact ==
    /\ totalItems = Cardinality(Stored)
    /\ totalBytes = Bytes(Stored)
    /\ \A m \in Mailboxes : mailboxCount[m] = Cardinality(Of(m))

\* Totals that a put without room has left too high are right again after a cleanup.
TotalsRepaired == (~TotalsExact) ~> TotalsExact
=============================================================================
