--------------------- MODULE MailboxDeliveryInvariants ----------------------
(***************************************************************************)
(* The inductive invariants of the delayed delivery, each resting on those  *)
(* before it: where what the actors hold comes from (Inv), what a receipt   *)
(* stands for (Trust), which delete a reader owes (Selection), and where    *)
(* the one ciphertext of an item is (Copies).                               *)
(***************************************************************************)
EXTENDS MailboxDelivery
-----------------------------------------------------------------------------
(* Where what the actors hold comes from                                   *)

\* The item of a key carries something that its reader may rely on: an acknowledgement of
\* device b exists only for a text that b has committed.
Founded(k) == k[1] = "a" => k[2] \in received

\* The tables are functions of the keys.
Tables ==
    /\ DOMAIN items = Keys /\ DOMAIN tombstones = Keys
    /\ DOMAIN pending = Keys /\ DOMAIN inCommitted = Keys

\* What is stored, pending or in flight for a key belongs to that key and is founded; what
\* the reader's ledger has recorded was committed by its application first.
Origins ==
    /\ \A k \in Keys : items[k] # None => items[k].key = k /\ Founded(k)
    /\ \A k \in Keys : pending[k] # None => Founded(k)
    /\ \A k \in Keys : inCommitted[k] # None => inCommitted[k].key = k /\ ReadBy(k)
    /\ \A q \in wire : q.op = "put" => q.key \in Keys /\ Founded(q.key)
    /\ \A q \in wire : q.op = "delete" => q.receipt.key \in Keys
    /\ \A r \in deletes : r.key \in Keys

\* An actor that reads holds the receipt of the item it has listed, and is past the commit of
\* its application whenever it may ask for the delete.
Reading == {"listed", "ingested", "prepared", "unprepared", "delete", "redelete"}
Held(d) ==
    /\ pc[d].at \in Reading => /\ pc[d].key \in Inbox(d) /\ pc[d].receipt.key = pc[d].key
                               /\ Founded(pc[d].key)
    /\ pc[d].at \in Reading \ {"listed"} => ReadBy(pc[d].key)
    /\ pc[d].at = "dispatched" => pc[d].key \in Outbox("a")

\* The state of an actor is a record of four fields.
Whole(p) == p = [at |-> p.at, key |-> p.key, receipt |-> p.receipt, reply |-> p.reply]

Actors == DOMAIN pc = Devices /\ \A d \in Devices : Whole(pc[d]) /\ Held(d)

Inv == Tables /\ Origins /\ Actors /\ DeletedOnlyAfterCommit /\ DeliveredWasReceived
-----------------------------------------------------------------------------
(* What a receipt stands for                                               *)

\* The item of a receipt is in its mailbox, or was read, until the receipt expires.
Entrusted(r) == /\ r.expires \in Nat
                /\ r.expires > clock => items[r.key] = r \/ ReadBy(r.key)

Expiries == 0..(MaxClock + Ttl)

\* The values that end up in a receipt are of their kinds.
Values ==
    /\ clock \in 0..MaxClock
    /\ dispatch \in [Texts -> Expiries \cup {None}]
    /\ seals \in [Keys -> 0..MaxSeals]
    /\ pending \in [Keys -> Envelopes \cup {None}]
    /\ items \in [Keys -> Store!Receipts \cup {None}]
    /\ \A q \in wire : q.op = "put" => q.envelope \in Envelopes

\* An actor that is about to seal has its dispatch; one that has got a receipt, and has not
\* recorded it yet, can rely on it.
Ready(d) ==
    /\ pc[d].at = "dispatched" => dispatch[pc[d].key[2]] \in Expiries
    /\ pc[d].at = "put" /\ pc[d].reply \in {"Created", "AlreadyPresent"} \ {None}
         => /\ pc[d].key \in Keys /\ pc[d].receipt # None /\ pc[d].receipt.key = pc[d].key
            /\ Entrusted(pc[d].receipt)

Recorded == /\ DOMAIN outStored = Keys
            /\ \A k \in Keys : outStored[k] # None
                 => outStored[k].key = k /\ Entrusted(outStored[k])

Trust == Values /\ Recorded /\ \A d \in Devices : Ready(d)
-----------------------------------------------------------------------------
(* The delete that a reader owes                                           *)

\* The item of a receipt is deleted, and its tombstone keeps it so until the receipt expires.
Buried(r) == /\ r # None /\ r.key \in Keys /\ r.expires \in Nat
             /\ r.expires > clock => items[r.key] = None /\ tombstones[r.key] = r

\* A reader that has not recorded its commit yet owes no delete, and has no proof that still
\* holds that the item it reads was deleted; one that has recorded it owes this delete alone.
Unrecorded == {"listed", "ingested", "prepared", "unprepared"}
Selected(d) ==
    /\ pc[d].at \in Unrecorded
         => /\ Eligible(d) = {} /\ pc[d].reply = None
            /\ inDeleted[pc[d].key] # None => ~LedgerLive(inDeleted[pc[d].key])
    /\ pc[d].at = "delete" => Eligible(d) = {pc[d].key}
    /\ pc[d].at \in Reading => pc[d].receipt # None /\ pc[d].receipt.expires \in Nat
    /\ pc[d].at \in {"delete", "redelete"} /\ pc[d].reply \in {"Deleted", "AlreadyDeleted"} \ {None}
         => Buried(pc[d].receipt)

Selection ==
    /\ DOMAIN inDeleted = Keys
    /\ \A k \in Keys : inDeleted[k] # None => inDeleted[k].key = k /\ Buried(inDeleted[k])
    /\ \A k \in Keys : inCommitted[k] # None => inCommitted[k].expires \in Nat
    /\ \A d \in Devices : Selected(d)

\* The tombstone of a key lives; a step keeps such a tombstone, and its item away.
Standing(k) == /\ items[k] = None /\ tombstones[k] # None
               /\ tombstones[k].expires \in Nat /\ tombstones[k].expires > clock
Keeps ==
    \A k \in Keys : Standing(k) => items'[k] = None /\ tombstones'[k] = tombstones[k]
-----------------------------------------------------------------------------
(* The one ciphertext of an item                                           *)

\* An actor holds the receipt of an item that it reads, or that it has just stored.
Holding(d) == \/ pc[d].at \in {"listed", "ingested"}
              \/ pc[d].at = "put" /\ pc[d].reply \in {"Created", "AlreadyPresent"} \ {None}

\* The envelope e of key k is somewhere: the copies of CopiesOf, and those in an actor's hands.
Copy(k, e) == \/ pending[k] = e
              \/ Put(k, e) \in wire
              \/ items[k] # None /\ items[k].envelope = e
              \/ outStored[k] # None /\ outStored[k].envelope = e
              \/ \E d \in Devices : Holding(d) /\ pc[d].key = k /\ pc[d].receipt.envelope = e

\* A receipt lasts as long as its envelope, but for the time the store may be behind.
Outlasting(r) == r \in Store!Receipts /\ r.envelope.expires <= r.expires + Lag
Outlasts ==
    /\ \A k \in Keys : items[k] # None => Outlasting(items[k])
    /\ \A k \in Keys : outStored[k] # None => Outlasting(outStored[k])
    /\ \A d \in Devices : Holding(d) => pc[d].key \in Keys /\ Outlasting(pc[d].receipt)

Requests == \A q \in wire : q.op = "put" => q = Put(q.key, q.envelope)

Same == \A k \in Keys, e \in Envelopes, f \in Envelopes :
            InForce(k) /\ Copy(k, e) /\ Copy(k, f) => e = f

\* A text's envelope expires with its dispatch, its acknowledgement's not before that, and none
\* later than one lifetime from now.
Sealed(k, e) == /\ seals[k] > 0 /\ e.expires <= clock + Ttl
                /\ dispatch[k[2]] \in Expiries /\ dispatch[k[2]] <= e.expires
                /\ k[1] = "b" => e.expires = dispatch[k[2]]
Lifetimes == /\ \A k \in Keys, e \in Envelopes : Copy(k, e) => Sealed(k, e)
             /\ \A t \in Texts : dispatch[t] # None => dispatch[t] <= clock + Ttl

\* While the dispatch of a text is in force, the ledgers know of what was sealed for it.
InLedger(k) == pending[k] # None \/ outStored[k] # None
Known == \A k \in Keys : seals[k] > 0
             => dispatch[k[2]] \in Expiries /\ (InForce(k) => InLedger(k))

\* What device a is about to seal has no envelope yet.
Fresh == pc["a"].at = "dispatched" => seals[pc["a"].key] = 0

\* A tombstone stands as long as the dispatch of its item is in force, and so does that of
\* an item whose deletion was proven.
Graves ==
    /\ \A k \in Keys : tombstones[k] # None
         => /\ seals[k] > 0 /\ tombstones[k].expires \in Nat
            /\ dispatch[k[2]] \in Expiries /\ dispatch[k[2]] <= tombstones[k].expires + Lag
    /\ \A k \in gone : k \in Keys /\ seals[k] > 0 /\ (InForce(k) => Standing(k))
    /\ \A r \in proven : r.key \in gone

Copies == Outlasts /\ Requests /\ Same /\ Lifetimes /\ Known /\ Fresh /\ Graves
=============================================================================
