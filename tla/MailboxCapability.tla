------------------------- MODULE MailboxCapability -------------------------
(***************************************************************************)
(* The ordered life of one mailbox capability: the owner device activates, *)
(* rotates and revokes it, pushes each update to the one writer device in  *)
(* a session, and retains the session's acknowledgement; the writer        *)
(* uploads texts through the binding its own copy of the chain names, and  *)
(* the owner polls the bindings its chain leaves eligible.                 *)
(*                                                                         *)
(* Signatures, sealing and endpoint authority are abstracted: an update is *)
(* its generation, predecessor, action, binding and wire version.  The     *)
(* inside of an upload and of a poll is modelled by MailboxDelivery and    *)
(* MailboxReplication; here each is cut only where the chain can move      *)
(* under it.                                                               *)
(***************************************************************************)
EXTENDS Integers, Sequences, FiniteSets

CONSTANTS
    Texts,          \* texts the writer hands to the mailbox fallback
    None,           \* no session, no upload, no dispatch
    OwnerRoom,      \* update and acknowledgement records the owner can add
    WriterRoom,     \* the same on the writer's device
    OwnerSlots,     \* bindings the owner can add
    WriterSlots,    \* the same on the writer's device
    MaxFaults       \* bound: lost sessions, lost PUT replies and crashes

ASSUME BoundAssumption ==
    /\ OwnerRoom \in Nat /\ WriterRoom \in Nat /\ OwnerSlots \in Nat /\ WriterSlots \in Nat
    /\ MaxFaults \in Nat

VARIABLES
    chain,          \* owner: signed updates, in generation order
    acks,           \* owner: generations with a retained acknowledgement
    ownBindings,    \* owner: retained local mailbox bindings
    session,        \* owner, memory: the push under way, or None
    lastPolls,      \* owner, memory: bindings in the order last polled
    wire,           \* pushes the writer's listener may still process
    accepted,       \* writer: its retained copy of the chain
    peerBindings,   \* writer: retained peer mailbox bindings
    dispatch,       \* writer: the binding each text was dispatched through
    pending,        \* writer: texts pending in the upload ledger
    stored,         \* writer: texts the ledger marks stored
    upload,         \* writer, memory: the upload under way, or None
    held,           \* the stores: <<binding, text>> pairs held
    received,       \* owner: texts read from a mailbox and deleted there
    lapsed,         \* bindings whose offer has expired
    free,           \* records each device can still add, of any chain
    slots,          \* bindings each device can still add, its own or a peer's
    faults

ownerVars == <<chain, acks, ownBindings, session, lastPolls>>
writerVars == <<accepted, peerBindings, dispatch, pending, stored, upload>>
mailboxVars == <<held, received>>
vars == <<chain, acks, ownBindings, session, lastPolls, wire,
          accepted, peerBindings, dispatch, pending, stored, upload,
          held, received, lapsed, free, slots, faults>>

Modes == {"legacy", "exact"}

\* Bindings are named by the generation that created them; 0 is a binding
\* provisioned before ordered updates existed.
Bindings == Nat

Updates ==
    [generation : Nat \ {0}, revoke : BOOLEAN, binding : Bindings, mode : Modes]

Pushes == [update : Updates, attempt : Nat]

----------------------------------------------------------------------------
(* The convergence view over a chain and its acknowledgements.             *)

\* A link extends a chain by exactly one generation; it never returns to the
\* old wire version, a revocation names the active predecessor's binding and
\* an activation installs another one.
verify_chain_link(u, updates) ==
    /\ u.generation = Len(updates) + 1
    /\ updates = <<>> => ~u.revoke
    /\ updates # <<>> =>
         LET previous == updates[Len(updates)] IN
         /\ previous.mode = "exact" => u.mode = "exact"
         /\ u.revoke => ~previous.revoke /\ u.binding = previous.binding
         /\ ~u.revoke => u.binding # previous.binding

\* Mutant: a rotation does not wait for the acknowledgement.
is_fully_acknowledgedUnchecked == TRUE

is_fully_acknowledged == chain = <<>> \/ Len(chain) \in acks

\* The generations a push may carry: the first one that is unacknowledged and
\* whose predecessor is acknowledged.
next_outbound_update ==
    {g \in DOMAIN chain : g \notin acks /\ (g = 1 \/ g - 1 \in acks)}

ChainHead == chain[Len(chain)]

\* Mutant: a rotation retires its predecessor at once.
owner_receive_binding_stateNoOverlap(b) ==
    IF chain = <<>> THEN "unmanaged"
    ELSE IF ~ChainHead.revoke /\ ChainHead.binding = b THEN "current"
    ELSE "inactive"

owner_receive_binding_state(b) ==
    IF chain = <<>> THEN "unmanaged"
    ELSE IF ChainHead.revoke THEN "inactive"
    ELSE IF ChainHead.binding = b THEN "current"
    ELSE IF /\ Len(chain) \notin acks
            /\ Len(chain) > 1
            /\ ~chain[Len(chain) - 1].revoke
            /\ chain[Len(chain) - 1].binding = b
         THEN "overlap"
    ELSE "inactive"

\* Mutant: a revoked chain counts as no chain.
recipient_write_binding_stateForgets(b) ==
    IF accepted = <<>> \/ accepted[Len(accepted)].revoke THEN "unmanaged"
    ELSE IF accepted[Len(accepted)].binding = b THEN "current" ELSE "inactive"

recipient_write_binding_state(b) ==
    IF accepted = <<>> THEN "unmanaged"
    ELSE LET head == accepted[Len(accepted)] IN
         IF ~head.revoke /\ head.binding = b THEN "current" ELSE "inactive"

\* The bindings the owner still polls, and those the writer may still use.
Polled == {b \in ownBindings : owner_receive_binding_state(b) # "inactive"}
Writable ==
    {b \in peerBindings \ lapsed : recipient_write_binding_state(b) # "inactive"}

----------------------------------------------------------------------------
Init ==
    /\ chain = <<>> /\ acks = {} /\ accepted = <<>> /\ wire = {}
    /\ ownBindings \in {{}, {0}}
    /\ peerBindings \in SUBSET ownBindings
    /\ session = None /\ lastPolls = <<>> /\ upload = None
    /\ dispatch = [t \in Texts |-> None]
    /\ pending = {} /\ stored = {} /\ held = {} /\ received = {}
    /\ lapsed = {}
    /\ free = [owner |-> OwnerRoom, writer |-> WriterRoom]
    /\ slots = [owner |-> OwnerSlots, writer |-> WriterSlots]
    /\ faults = 0

Fault == faults < MaxFaults /\ faults' = faults + 1

----------------------------------------------------------------------------
(* Owner: commands and the automatic upgrade, each under the state lock.   *)

\* Fresh keys every time: no binding is ever provisioned twice.
NewBinding == Len(chain) + 1

AppendUpdate(u) ==
    /\ free.owner > 0
    /\ verify_chain_link(u, chain)
    /\ chain' = Append(chain, u)
    /\ free' = [free EXCEPT !.owner = @ - 1]

provision_runtime_mailbox(mode, require_existing_chain) ==
    /\ slots.owner > 0
    /\ require_existing_chain = (chain # <<>>)
    /\ is_fully_acknowledged
    /\ AppendUpdate([generation |-> Len(chain) + 1, revoke |-> FALSE,
                     binding |-> NewBinding, mode |-> mode])
    /\ ownBindings' = ownBindings \cup {NewBinding}
    /\ slots' = [slots EXCEPT !.owner = @ - 1]
    /\ UNCHANGED <<acks, session, lastPolls, wire, writerVars, mailboxVars,
                   lapsed, faults>>

create_runtime_mailbox_offer(mode) == provision_runtime_mailbox(mode, FALSE)

rotate_runtime_mailbox(mode) == provision_runtime_mailbox(mode, TRUE)

\* The periodic upgrade rotates an acknowledged old-format head.
attempt_runtime_mailbox_legacy_upgrade ==
    /\ session = None
    /\ chain # <<>>
    /\ ~ChainHead.revoke /\ ChainHead.mode # "exact"
    /\ provision_runtime_mailbox("exact", TRUE)

revoke_runtime_mailbox_capability ==
    /\ chain # <<>>
    /\ ~ChainHead.revoke
    /\ is_fully_acknowledged
    /\ AppendUpdate([generation |-> Len(chain) + 1, revoke |-> TRUE,
                     binding |-> ChainHead.binding, mode |-> ChainHead.mode])
    /\ UNCHANGED <<acks, ownBindings, session, lastPolls, wire, writerVars,
                   mailboxVars, lapsed, slots, faults>>

----------------------------------------------------------------------------
(* The push session.  The owner's outbound cycle runs one at a time; the   *)
(* writer's listener may process a request after its session has failed.   *)

attempt_next_runtime_mailbox_capability_update ==
    /\ session = None
    /\ \E g \in next_outbound_update :
         LET push == [update |-> chain[g], attempt |-> faults] IN
         /\ session' = [push |-> push, answer |-> "none"]
         /\ wire' = wire \cup {push}
    /\ UNCHANGED <<chain, acks, ownBindings, lastPolls, writerVars, mailboxVars,
                   lapsed, free, slots, faults>>

\* An acknowledgement is bound to the session that carried the request.
Answer(push, answer) ==
    session' = IF session # None /\ session.push = push
               THEN [session EXCEPT !.answer = answer] ELSE session

\* Mutant: only a replay of the head is recognised.
AlreadyPresentAtHead(u) == accepted # <<>> /\ accepted[Len(accepted)] = u

AlreadyPresent(u) == u.generation \in DOMAIN accepted /\ accepted[u.generation] = u

Appendable(u) ==
    /\ verify_chain_link(u, accepted)
    /\ u.revoke => u.binding \in peerBindings

\* The writer holds another record and, unless it has the binding already, another binding.
Fits(u) ==
    /\ free.writer > 0
    /\ ~u.revoke => slots.writer > 0 \/ u.binding \in peerBindings

\* The peer binding of an activation is retained; one that was imported before is there already.
RetainBinding(b) ==
    /\ peerBindings' = peerBindings \cup {b}
    /\ slots' = IF b \in peerBindings THEN slots ELSE [slots EXCEPT !.writer = @ - 1]

\* Mutant: an offer that expired on the way is refused.
apply_runtime_mailbox_capability_updateNow(push) ==
    LET u == push.update
        append == Appendable(u) /\ Fits(u) /\ u.binding \notin lapsed IN
    /\ wire' = wire \ {push}
    /\ \/ /\ AlreadyPresent(u)
          /\ Answer(push, "ack")
          /\ UNCHANGED <<accepted, peerBindings, free, slots>>
       \/ /\ ~AlreadyPresent(u) /\ append
          /\ accepted' = Append(accepted, u)
          /\ IF u.revoke THEN UNCHANGED <<peerBindings, slots>> ELSE RetainBinding(u.binding)
          /\ free' = [free EXCEPT !.writer = @ - 1]
          /\ Answer(push, "ack")
       \/ /\ ~AlreadyPresent(u) /\ ~append
          /\ Answer(push, "rejected")
          /\ UNCHANGED <<accepted, peerBindings, free, slots>>
    /\ UNCHANGED <<chain, acks, ownBindings, lastPolls, dispatch, pending, stored,
                   upload, mailboxVars, lapsed, faults>>

\* Mutant: acknowledged, and then lost before it is durable.
apply_runtime_mailbox_capability_updateEarly(push) ==
    /\ wire' = wire \ {push}
    /\ Answer(push, "ack")
    /\ UNCHANGED <<chain, acks, ownBindings, lastPolls, writerVars,
                   mailboxVars, lapsed, free, slots, faults>>

\* A known update is acknowledged again; the exact next one is applied with
\* its binding in one transaction and then acknowledged, whether or not its
\* offer has expired since; anything else is rejected.
apply_runtime_mailbox_capability_update(push) ==
    LET u == push.update
        append == Appendable(u) /\ Fits(u) IN
    /\ wire' = wire \ {push}
    /\ \/ /\ AlreadyPresent(u)
          /\ Answer(push, "ack")
          /\ UNCHANGED <<accepted, peerBindings, free, slots>>
       \/ /\ ~AlreadyPresent(u) /\ append
          /\ accepted' = Append(accepted, u)
          /\ IF u.revoke THEN UNCHANGED <<peerBindings, slots>> ELSE RetainBinding(u.binding)
          /\ free' = [free EXCEPT !.writer = @ - 1]
          /\ Answer(push, "ack")
       \/ /\ ~AlreadyPresent(u) /\ ~append
          /\ Answer(push, "rejected")
          /\ UNCHANGED <<accepted, peerBindings, free, slots>>
    /\ UNCHANGED <<chain, acks, ownBindings, lastPolls, dispatch, pending, stored,
                   upload, mailboxVars, lapsed, faults>>

\* Mutant: the record limit is not checked again.
commit_mailbox_capability_acknowledgementUnbounded ==
    /\ session # None /\ session.answer = "ack"
    /\ LET g == session.push.update.generation IN
       IF g \notin acks
       THEN /\ acks' = acks \cup {g}
            /\ free' = [free EXCEPT !.owner = @ - 1]
       ELSE UNCHANGED <<acks, free>>
    /\ session' = None
    /\ UNCHANGED <<chain, ownBindings, lastPolls, wire, writerVars, mailboxVars,
                   lapsed, slots, faults>>

\* The acknowledgement is committed under the lock, if a record still fits.
commit_mailbox_capability_acknowledgement ==
    /\ session # None /\ session.answer = "ack"
    /\ LET g == session.push.update.generation IN
       IF g \notin acks /\ free.owner > 0
       THEN /\ acks' = acks \cup {g}
            /\ free' = [free EXCEPT !.owner = @ - 1]
       ELSE UNCHANGED <<acks, free>>
    /\ session' = None
    /\ UNCHANGED <<chain, ownBindings, lastPolls, wire, writerVars, mailboxVars,
                   lapsed, slots, faults>>

push_rejected ==
    /\ session # None /\ session.answer = "rejected"
    /\ session' = None
    /\ UNCHANGED <<chain, acks, ownBindings, lastPolls, wire, writerVars,
                   mailboxVars, lapsed, free, slots, faults>>

\* A timeout or a lost connection: the request may be lost with it or be
\* processed later, and an answer on its way is lost.
push_failed ==
    /\ session # None
    /\ Fault
    /\ session' = None
    /\ wire' \in {wire, wire \ {session.push}}
    /\ UNCHANGED <<chain, acks, ownBindings, lastPolls, writerVars, mailboxVars,
                   lapsed, free, slots>>

----------------------------------------------------------------------------
(* Writer: manual import, and the upload of a text.                        *)

import_runtime_mailbox_offer(b) ==
    /\ b \in ownBindings \ (peerBindings \cup lapsed)
    /\ slots.writer > 0
    /\ RetainBinding(b)
    /\ UNCHANGED <<ownerVars, wire, accepted, dispatch, pending, stored, upload,
                   mailboxVars, lapsed, free, faults>>

\* The fallback persists the dispatch, which takes the text out of the live
\* queue for good, before the ledger holds the upload.
attempt_runtime_mailbox_fallback(t, b) ==
    /\ upload = None
    /\ dispatch[t] = None
    /\ b \in Writable
    /\ dispatch' = [dispatch EXCEPT ![t] = b]
    /\ upload' = [text |-> t, step |-> "dispatched"]
    /\ UNCHANGED <<ownerVars, wire, accepted, peerBindings, pending, stored,
                   mailboxVars, lapsed, free, slots, faults>>

enqueue_outbound ==
    /\ upload # None /\ upload.step = "dispatched"
    /\ pending' = pending \cup {upload.text}
    /\ upload' = [upload EXCEPT !.step = "enqueued"]
    /\ UNCHANGED <<ownerVars, wire, accepted, peerBindings, dispatch, stored,
                   mailboxVars, lapsed, free, slots, faults>>

\* A dispatch the ledger does not know is repaired, and a pending upload is
\* resumed, only while its binding is still the one to write through.
prepare_orphan_runtime_mailbox_dispatch(t) ==
    /\ upload = None
    /\ t \notin pending \cup stored
    /\ dispatch[t] \in Writable
    /\ pending' = pending \cup {t}
    /\ upload' = [text |-> t, step |-> "enqueued"]
    /\ UNCHANGED <<ownerVars, wire, accepted, peerBindings, dispatch, stored,
                   mailboxVars, lapsed, free, slots, faults>>

attempt_pending_runtime_mailbox_upload(t) ==
    /\ upload = None
    /\ t \in pending
    /\ dispatch[t] \in Writable
    /\ upload' = [text |-> t, step |-> "enqueued"]
    /\ UNCHANGED <<ownerVars, wire, accepted, peerBindings, dispatch, pending,
                   stored, mailboxVars, lapsed, free, slots, faults>>

\* The PUT itself, after the lock was released: the store knows nothing of
\* the chain.  It refuses a text the owner already deleted or an expired one.
put_accepted(t) == t \notin received /\ dispatch[t] \notin lapsed

put_mailbox_item ==
    /\ upload # None /\ upload.step = "enqueued"
    /\ LET t == upload.text IN
       IF put_accepted(t)
       THEN /\ held' = held \cup {<<dispatch[t], t>>}
            /\ stored' = stored \cup {t}
            /\ pending' = pending \ {t}
       ELSE UNCHANGED <<held, stored, pending>>
    /\ upload' = None
    /\ UNCHANGED <<ownerVars, wire, accepted, peerBindings, dispatch, received,
                   lapsed, free, slots, faults>>

put_reply_lost ==
    /\ upload # None /\ upload.step = "enqueued"
    /\ put_accepted(upload.text)
    /\ Fault
    /\ held' = held \cup {<<dispatch[upload.text], upload.text>>}
    /\ upload' = None
    /\ UNCHANGED <<ownerVars, wire, accepted, peerBindings, dispatch, pending,
                   stored, received, lapsed, free, slots>>

----------------------------------------------------------------------------
(* Owner: the poll, of the eligible binding polled least recently.         *)

Position(b) == {i \in DOMAIN lastPolls : lastPolls[i] = b}

\* Never polled since the start of the process comes before polled.
PolledBefore(b, c) ==
    \/ Position(b) = {} /\ Position(c) # {}
    \/ \E i \in Position(b), j \in Position(c) : i < j

\* The bindings polled, without b: each is there once.
Others(b) ==
    IF Position(b) = {} THEN lastPolls
    ELSE LET i == CHOOSE j \in Position(b) : TRUE
         IN  SubSeq(lastPolls, 1, i - 1) \o SubSeq(lastPolls, i + 1, Len(lastPolls))

\* Mutant: the newest eligible binding is polled every time.
attempt_runtime_mailbox_pollNewest(b) ==
    /\ session = None
    /\ b \in Polled
    /\ \A c \in Polled : c <= b
    /\ lastPolls' = Append(Others(b), b)
    /\ received' = received \cup {t \in Texts : <<b, t>> \in held}
    /\ held' = {h \in held : h[1] # b}
    /\ UNCHANGED <<chain, acks, ownBindings, session, wire, writerVars, lapsed,
                   free, slots, faults>>

attempt_runtime_mailbox_poll(b) ==
    /\ session = None
    /\ b \in Polled
    /\ \A c \in Polled : ~PolledBefore(c, b)
    /\ lastPolls' = Append(Others(b), b)
    /\ received' = received \cup {t \in Texts : <<b, t>> \in held}
    /\ held' = {h \in held : h[1] # b}
    /\ UNCHANGED <<chain, acks, ownBindings, session, wire, writerVars, lapsed,
                   free, slots, faults>>

----------------------------------------------------------------------------
(* Environment.                                                            *)

\* An offer expires; a dispatch never outlives the binding it names, so its
\* item is gone from the store as well.
lapse(b) ==
    /\ b \in ownBindings \ lapsed
    /\ lapsed' = lapsed \cup {b}
    /\ held' = {h \in held : h[1] # b}
    /\ UNCHANGED <<ownerVars, wire, writerVars, received, free, slots, faults>>

\* Another conversation's chain takes a record of the shared limit.
other_record(d) ==
    /\ free[d] > 0
    /\ free' = [free EXCEPT ![d] = @ - 1]
    /\ UNCHANGED <<ownerVars, wire, writerVars, mailboxVars, lapsed, slots, faults>>

\* Another conversation's mailbox takes a binding of the shared limit.
other_binding(d) ==
    /\ slots[d] > 0
    /\ slots' = [slots EXCEPT ![d] = @ - 1]
    /\ UNCHANGED <<ownerVars, wire, writerVars, mailboxVars, lapsed, free, faults>>

owner_restart ==
    /\ Fault
    /\ session' = None /\ lastPolls' = <<>>
    /\ UNCHANGED <<chain, acks, ownBindings, wire, writerVars, mailboxVars,
                   lapsed, free, slots>>

writer_restart ==
    /\ Fault
    /\ upload' = None
    /\ UNCHANGED <<ownerVars, wire, accepted, peerBindings, dispatch, pending,
                   stored, mailboxVars, lapsed, free, slots>>

----------------------------------------------------------------------------
OwnerNext ==
    \/ \E mode \in Modes :
         create_runtime_mailbox_offer(mode) \/ rotate_runtime_mailbox(mode)
    \/ attempt_runtime_mailbox_legacy_upgrade
    \/ revoke_runtime_mailbox_capability
    \/ attempt_next_runtime_mailbox_capability_update
    \/ commit_mailbox_capability_acknowledgement
    \/ push_rejected
    \/ push_failed
    \/ \E b \in Polled : attempt_runtime_mailbox_poll(b)
    \/ owner_restart

WriterNext ==
    \/ \E push \in wire : apply_runtime_mailbox_capability_update(push)
    \/ \E b \in ownBindings : import_runtime_mailbox_offer(b)
    \/ \E t \in Texts : \/ \E b \in Writable : attempt_runtime_mailbox_fallback(t, b)
                        \/ prepare_orphan_runtime_mailbox_dispatch(t)
                        \/ attempt_pending_runtime_mailbox_upload(t)
    \/ enqueue_outbound
    \/ put_mailbox_item
    \/ put_reply_lost
    \/ writer_restart

Next ==
    \/ OwnerNext
    \/ WriterNext
    \/ \E b \in ownBindings : lapse(b)
    \/ \E d \in {"owner", "writer"} : other_record(d) \/ other_binding(d)

Spec == Init /\ [][Next]_vars

\* The outbound cycle ends every session and returns to the push and to the
\* poll by its timers; the listener serves what reaches it.  Commands,
\* uploads and the environment owe nothing.
Fairness ==
    /\ WF_vars(attempt_next_runtime_mailbox_capability_update)
    /\ WF_vars(commit_mailbox_capability_acknowledgement \/ push_rejected)
    /\ WF_vars(\E push \in wire : apply_runtime_mailbox_capability_update(push))
    /\ SF_vars(\E b \in Polled : attempt_runtime_mailbox_poll(b))

FairSpec == Spec /\ Fairness

----------------------------------------------------------------------------
(* Properties.                                                             *)

\* The two chains, the session, the upload and the stores have their shapes.
TypeOK ==
    /\ chain \in Seq(Updates) /\ accepted \in Seq(Updates)
    /\ acks \subseteq Nat \ {0}
    /\ ownBindings \subseteq Bindings /\ peerBindings \subseteq ownBindings
    /\ session \in {None} \cup
         [push : Pushes, answer : {"none", "ack", "rejected"}]
    /\ lastPolls \in Seq(Bindings)
    /\ wire \subseteq Pushes
    /\ dispatch \in [Texts -> Bindings \cup {None}]
    /\ pending \subseteq Texts /\ stored \subseteq Texts
    /\ received \subseteq Texts
    /\ upload \in {None} \cup [text : Texts, step : {"dispatched", "enqueued"}]
    /\ held \subseteq Bindings \X Texts
    /\ lapsed \subseteq ownBindings
    /\ free \in [{"owner", "writer"} -> Nat] /\ slots \in [{"owner", "writer"} -> Nat]
    /\ faults \in 0 .. MaxFaults

\* The writer's retained chain is a prefix of the owner's and at most one
\* generation behind, whatever sessions, replies and processes were lost: the
\* pair never forks and never shows the writer a gap.
WriterFollowsOwner ==
    /\ Len(accepted) \in {Len(chain), Len(chain) - 1}
    /\ \A g \in DOMAIN accepted : accepted[g] = chain[g]

\* An acknowledgement the owner retains is of an update the writer has applied
\* durably; every generation but the last has one.
AcknowledgedIsApplied ==
    /\ acks \subseteq DOMAIN accepted
    /\ \A g \in DOMAIN chain : g < Len(chain) => g \in acks

\* A push the listener processes, however late, is known to it or is the exact
\* next generation: only its limits, of records and of bindings, make it reject one.
OnlyTheLimitRejects ==
    \A push \in wire :
        AlreadyPresent(push.update) \/ Appendable(push.update)

\* The binding a managed writer would start an upload through is one the owner
\* polls, as the head or as the overlap, unless the owner has revoked.
WriterBindingIsPolled ==
    accepted # <<>> /\ ~ChainHead.revoke => Writable \subseteq Polled

\* The bindings the writer's chain has named so far, and the older one.
Named == IF accepted = <<>> THEN {} ELSE {0} \cup {accepted[g].binding : g \in DOMAIN accepted}

\* A binding that was superseded or revoked is never polled again, and never
\* written through again, whatever is replayed or imported later.
RetiredStaysRetired ==
    [][/\ \A b \in ownBindings : b \notin Polled => b \notin Polled'
       /\ \A b \in Named : b \notin Writable => b \notin Writable']_vars

\* The head does not fit: a device has no record left, or the writer has no
\* binding left for an activation it has not imported.
Full == free.owner = 0 \/ ~Fits(ChainHead)

\* Every update is acknowledged in the end, over lost replies, restarts and an
\* offer that expired on the way, while the devices' limits leave room for it;
\* a revocation needs no binding.
EveryUpdateAcknowledged == []<>(is_fully_acknowledged \/ Full)

\* A text held in a mailbox that stays eligible is read: the owner's turns
\* reach both sides of an overlap.
EveryPolledTextIsRead == []<>(\A h \in held : h[1] \notin Polled)

\* A text accepted by a mailbox of the chain can still be read while the
\* capability is not revoked: the rotation's overlap strands none.
NoTextStranded ==
    chain # <<>> /\ ~ChainHead.revoke =>
        \A h \in held : h[1] # 0 => h[1] \in Polled
=============================================================================
