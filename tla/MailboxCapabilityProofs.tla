----------------------- MODULE MailboxCapabilityProofs -----------------------
(***************************************************************************)
(* The owner's and the writer's copies of a capability chain agree for any  *)
(* number of generations, limits, texts and faults.                         *)
(***************************************************************************)
EXTENDS MailboxCapability, TLAPS

\* The kinds of what the two devices and the wire hold.
Types ==
    /\ chain \in Seq(Updates) /\ accepted \in Seq(Updates)
    /\ acks \subseteq Nat \ {0}
    /\ ownBindings \subseteq Bindings /\ peerBindings \subseteq ownBindings
    /\ session \in {None} \cup [push : Pushes, answer : {"none", "ack", "rejected"}]
    /\ wire \subseteq Pushes
    /\ free \in [{"owner", "writer"} -> Nat]
    /\ faults \in Nat

\* What verify_chain_link asks of two neighbours.
Linked(previous, u) ==
    /\ previous.mode = "exact" => u.mode = "exact"
    /\ u.revoke => ~previous.revoke /\ u.binding = previous.binding
    /\ ~u.revoke => u.binding # previous.binding

\* The owner's chain is linked throughout, and each activation brought a
\* binding of its own.
Shape ==
    /\ \A g \in DOMAIN chain : /\ chain[g].generation = g
                               /\ chain[g].binding \in ownBindings
                               /\ chain[g].binding \in 1 .. g
                               /\ ~chain[g].revoke => chain[g].binding = g
    /\ \A b \in ownBindings : b <= Len(chain)
    /\ chain # <<>> => ~chain[1].revoke
    /\ \A g \in DOMAIN chain : g > 1 => Linked(chain[g - 1], chain[g])

\* A request on its way carries an update of the owner's chain that the writer
\* has, or whose predecessor the writer has.
InFlight(push) ==
    /\ push.update.generation \in DOMAIN chain
    /\ push.update = chain[push.update.generation]
    /\ push.update.generation <= Len(accepted) + 1

Sessions ==
    /\ \A push \in wire : InFlight(push)
    /\ session # None =>
         /\ InFlight(session.push)
         /\ session.answer = "ack" =>
              session.push.update.generation \in DOMAIN accepted

\* The writer has the binding of every update it has accepted.
Retained == \A g \in DOMAIN accepted : accepted[g].binding \in peerBindings

Inv ==
    /\ Types /\ Shape /\ Sessions /\ Retained
    /\ WriterFollowsOwner /\ AcknowledgedIsApplied

\* Two devices without a chain satisfy the invariant.
LEMMA InitInv == Init => Inv
  <1> SUFFICES ASSUME Init PROVE Inv
    BY Zenon
  <1>1. Types
    BY BoundAssumption DEF Init, Types, Bindings
  <1>2. Shape /\ Sessions /\ Retained
    BY DEF Init, Shape, Sessions, Retained
  <1>3. WriterFollowsOwner /\ AcknowledgedIsApplied
    BY DEF Init, WriterFollowsOwner, AcknowledgedIsApplied
  <1> QED
    BY <1>1, <1>2, <1>3, Zenon DEF Inv

\* A step that changes no chain, loses at most a request or the session, and
\* at most adds a binding to the writer keeps the invariant.
LEMMA Quiet ==
  ASSUME Inv, Types',
         UNCHANGED <<chain, acks, ownBindings, accepted>>,
         peerBindings \subseteq peerBindings', wire' \subseteq wire,
         session' \in {session, None}
  PROVE  Inv'
  <1> USE Zenon
  <1>1. Shape' /\ WriterFollowsOwner' /\ AcknowledgedIsApplied'
    BY DEF Inv, Shape, WriterFollowsOwner, AcknowledgedIsApplied
  <1>2. Sessions'
    BY DEF Inv, Sessions, InFlight
  <1>3. Retained'
    BY DEF Inv, Retained
  <1> QED
    BY <1>1, <1>2, <1>3 DEF Inv

\* The facts an append to the owner's chain rests on: the head is acknowledged,
\* so the writer has all of the chain.
LEMMA AppendKeeps ==
  ASSUME Inv, NEW u \in Updates, AppendUpdate(u), is_fully_acknowledged,
         u.binding \in 1 .. Len(chain) + 1, ~u.revoke => u.binding = Len(chain) + 1,
         ownBindings \subseteq ownBindings', u.binding \in ownBindings',
         ownBindings' \subseteq ownBindings \cup {Len(chain) + 1},
         UNCHANGED <<acks, session, wire, accepted, peerBindings, faults>>
  PROVE  Inv'
  <1> USE Zenon
  <1>1. /\ chain' = Append(chain, u) /\ chain' \in Seq(Updates)
        /\ Len(chain') = Len(chain) + 1 /\ Len(chain) \in Nat
        /\ DOMAIN chain' = 1 .. Len(chain) + 1 /\ DOMAIN chain = 1 .. Len(chain)
        /\ \A g \in DOMAIN chain : chain'[g] = chain[g]
        /\ chain'[Len(chain) + 1] = u
    BY SMT DEF AppendUpdate, Inv, Types
  <1>2. Types'
    <2>1. free' \in [{"owner", "writer"} -> Nat]
      <3>1. free \in [{"owner", "writer"} -> Nat]
        BY DEF Inv, Types
      <3>2. free["owner"] > 0 /\ free' = [free EXCEPT !["owner"] = free["owner"] - 1]
        BY DEF AppendUpdate
      <3> QED
        BY <3>1, <3>2, SMT
    <2>2. ownBindings' \subseteq Bindings /\ peerBindings' \subseteq ownBindings'
      <3>1. ownBindings \subseteq Nat /\ peerBindings \subseteq ownBindings
        BY DEF Inv, Types, Bindings
      <3>2. Len(chain) + 1 \in Nat
        BY <1>1, SMT
      <3> QED
        BY <3>1, <3>2 DEF Bindings
    <2> QED
      BY <1>1, <2>1, <2>2 DEF Inv, Types
  <1>3. Len(accepted) = Len(chain)
    <2>1. Len(accepted) \in Nat /\ DOMAIN accepted = 1 .. Len(accepted)
      BY SMT DEF Inv, Types
    <2>2. CASE chain = <<>>
      BY <2>1, <2>2, SMT DEF Inv, WriterFollowsOwner
    <2>3. CASE Len(chain) \in acks
      <3>1. Len(chain) \in DOMAIN accepted
        BY <2>3 DEF Inv, AcknowledgedIsApplied
      <3>2. Len(accepted) = Len(chain) \/ Len(accepted) = Len(chain) - 1
        BY DEF Inv, WriterFollowsOwner
      <3>3. Len(chain) \in Nat
        BY <1>1
      <3> QED
        BY <2>1, <3>1, <3>2, <3>3, SMT
    <2> QED
      BY <2>2, <2>3 DEF is_fully_acknowledged
  <1>4. Shape'
    <2>1. \A g \in DOMAIN chain' : /\ chain'[g].generation = g
                                   /\ chain'[g].binding \in ownBindings'
                                   /\ chain'[g].binding \in 1 .. g
                                   /\ ~chain'[g].revoke => chain'[g].binding = g
      BY <1>1, SMT DEF Inv, Shape, AppendUpdate, verify_chain_link
    <2>2. \A b \in ownBindings' : b <= Len(chain')
      BY <1>1, SMT DEF Inv, Shape, Types, Bindings
    <2>3. ~chain'[1].revoke
      BY <1>1, SMT DEF Inv, Shape, AppendUpdate, verify_chain_link
    <2>4. \A g \in DOMAIN chain' : g > 1 => Linked(chain'[g - 1], chain'[g])
      <3> SUFFICES ASSUME NEW g \in DOMAIN chain', g > 1
                   PROVE  Linked(chain'[g - 1], chain'[g])
        OBVIOUS
      <3>1. CASE g \in DOMAIN chain
        BY <3>1, <1>1, SMT DEF Inv, Shape
      <3>2. CASE g = Len(chain) + 1
        <4>1. chain # <<>> /\ Len(chain) \in DOMAIN chain /\ g - 1 = Len(chain)
          BY <3>2, <1>1, SMT
        <4>2. Linked(chain[Len(chain)], u)
          BY <4>1 DEF AppendUpdate, verify_chain_link, Linked
        <4> QED
          BY <3>2, <4>1, <4>2, <1>1
      <3> QED
        BY <3>1, <3>2, <1>1, SMT
    <2> QED
      BY <2>1, <2>2, <2>3, <2>4 DEF Shape
  <1>5. Sessions'
    BY <1>1, SMT DEF Inv, Sessions, InFlight
  <1>6. Retained'
    BY DEF Inv, Retained
  <1>7. WriterFollowsOwner'
    <2>1. \A g \in DOMAIN accepted : accepted[g] = chain[g]
      BY DEF Inv, WriterFollowsOwner
    <2>2. DOMAIN accepted = DOMAIN chain
      <3>1. accepted \in Seq(Updates)
        BY DEF Inv, Types
      <3> QED
        BY <3>1, <1>1, <1>3, SMT
    <2> QED
      BY <1>1, <1>3, <2>1, <2>2, SMT DEF WriterFollowsOwner
  <1>8. AcknowledgedIsApplied'
    <2>1. acks \subseteq DOMAIN accepted
      BY DEF Inv, AcknowledgedIsApplied
    <2>2. \A g \in DOMAIN chain : g < Len(chain) => g \in acks
      BY DEF Inv, AcknowledgedIsApplied
    <2>3. chain # <<>> => Len(chain) \in acks
      BY DEF is_fully_acknowledged
    <2>4. \A g \in 1 .. Len(chain) : g \in acks
      BY <1>1, <2>2, <2>3, SMT
    <2> QED
      BY <1>1, <2>1, <2>4, SMT DEF AcknowledgedIsApplied
  <1> QED
    BY <1>2, <1>4, <1>5, <1>6, <1>7, <1>8 DEF Inv

\* A first offer, a rotation or the upgrade keeps the invariant.
LEMMA ProvisionKeeps ==
  ASSUME Inv, NEW mode \in Modes, NEW r \in BOOLEAN, provision_runtime_mailbox(mode, r)
  PROVE  Inv'
  <1> DEFINE u == [generation |-> Len(chain) + 1, revoke |-> FALSE,
                   binding |-> NewBinding, mode |-> mode]
  <1>1. Len(chain) \in Nat
    BY DEF Inv, Types
  <1>2. u \in Updates
    BY <1>1 DEF Updates, NewBinding, Bindings
  <1>3. /\ AppendUpdate(u) /\ is_fully_acknowledged
        /\ ownBindings' = ownBindings \cup {Len(chain) + 1}
        /\ UNCHANGED <<acks, session, wire, accepted, peerBindings, faults>>
    BY Zenon DEF provision_runtime_mailbox, NewBinding, writerVars
  <1>4. u.binding = Len(chain) + 1
    BY Zenon DEF NewBinding
  <1> QED
    BY <1>1, <1>2, <1>3, <1>4, AppendKeeps

\* A revocation keeps the invariant.
LEMMA RevokeKeeps ==
  ASSUME Inv, revoke_runtime_mailbox_capability
  PROVE  Inv'
  <1> DEFINE u == [generation |-> Len(chain) + 1, revoke |-> TRUE,
                   binding |-> ChainHead.binding, mode |-> ChainHead.mode]
  <1>1. Len(chain) \in Nat /\ Len(chain) \in DOMAIN chain
    BY DEF Inv, Types, revoke_runtime_mailbox_capability
  <1>2. /\ ChainHead \in Updates
        /\ ChainHead.binding \in ownBindings /\ ChainHead.binding \in 1 .. Len(chain)
    BY <1>1 DEF Inv, Types, Shape, ChainHead
  <1>3. u \in Updates /\ u.binding = ChainHead.binding /\ u.revoke
    BY <1>1, <1>2 DEF Updates
  <1>4. /\ AppendUpdate(u) /\ is_fully_acknowledged
        /\ UNCHANGED <<acks, ownBindings, session, wire, accepted, peerBindings, faults>>
    BY Zenon DEF revoke_runtime_mailbox_capability, writerVars
  <1> QED
    BY <1>1, <1>2, <1>3, <1>4, AppendKeeps

\* A push carries an update whose predecessor the writer has acknowledged.
LEMMA PushKeeps ==
  ASSUME Inv, attempt_next_runtime_mailbox_capability_update
  PROVE  Inv'
  <1> USE Zenon
  <1>1. PICK g \in next_outbound_update :
          /\ session' = [push |-> [update |-> chain[g], attempt |-> faults], answer |-> "none"]
          /\ wire' = wire \cup {[update |-> chain[g], attempt |-> faults]}
    BY DEF attempt_next_runtime_mailbox_capability_update
  <1> DEFINE push == [update |-> chain[g], attempt |-> faults]
  <1>2. /\ g \in DOMAIN chain /\ g \in Nat /\ chain[g] \in Updates
        /\ chain[g].generation = g
        /\ Len(accepted) \in Nat /\ DOMAIN accepted = 1 .. Len(accepted)
    BY SMT DEF next_outbound_update, Inv, Types, Shape
  <1>3. g <= Len(accepted) + 1
    <2>1. g = 1 \/ g - 1 \in DOMAIN accepted
      BY DEF next_outbound_update, Inv, AcknowledgedIsApplied
    <2> QED
      BY <1>2, <2>1, SMT
  <1>4. push \in Pushes
    BY <1>2 DEF Pushes, Inv, Types
  <1>5. UNCHANGED <<chain, acks, ownBindings, accepted, peerBindings, free, faults>>
    BY DEF attempt_next_runtime_mailbox_capability_update, writerVars
  <1>6. Types'
    BY <1>1, <1>4, <1>5 DEF Inv, Types
  <1>7. InFlight(push)
    BY <1>2, <1>3 DEF InFlight
  <1>8. Sessions'
    BY <1>1, <1>5, <1>7 DEF Inv, Sessions, InFlight
  <1>9. Shape' /\ Retained' /\ WriterFollowsOwner' /\ AcknowledgedIsApplied'
    BY <1>5 DEF Inv, Shape, Retained, WriterFollowsOwner, AcknowledgedIsApplied
  <1> QED
    BY <1>6, <1>8, <1>9 DEF Inv

\* Whatever the listener answers a request on its way, the chains still agree.
LEMMA ApplyKeeps ==
  ASSUME Inv, NEW push \in wire, apply_runtime_mailbox_capability_update(push)
  PROVE  Inv'
  <1> USE Zenon
  <1> DEFINE u == push.update
             g == u.generation
  <1>1. /\ InFlight(push) /\ push \in Pushes /\ u \in Updates
        /\ g \in DOMAIN chain /\ u = chain[g] /\ g <= Len(accepted) + 1
        /\ Len(accepted) \in Nat /\ Len(chain) \in Nat /\ g \in Nat
        /\ DOMAIN accepted = 1 .. Len(accepted) /\ DOMAIN chain = 1 .. Len(chain)
    BY SMT DEF Inv, Sessions, InFlight, Types, Pushes
  <1>2. /\ UNCHANGED <<chain, acks, ownBindings, faults>>
        /\ wire' \subseteq wire
    BY DEF apply_runtime_mailbox_capability_update
  <1>3. Shape'
    BY <1>2 DEF Inv, Shape
  <1>4. CASE UNCHANGED <<accepted, peerBindings, free>> /\ Answer(push, "rejected")
    <2>1. Types'
      BY <1>2, <1>4 DEF Inv, Types, Answer
    <2>2. Sessions'
      BY <1>2, <1>4 DEF Inv, Sessions, InFlight, Answer, Types
    <2> QED
      BY <1>2, <1>3, <1>4, <2>1, <2>2
      DEF Inv, Retained, WriterFollowsOwner, AcknowledgedIsApplied
  <1>5. CASE UNCHANGED <<accepted, peerBindings, free>> /\ Answer(push, "ack") /\ AlreadyPresent(u)
    <2>1. Types'
      BY <1>2, <1>5 DEF Inv, Types, Answer
    <2>2. Sessions'
      BY <1>2, <1>5 DEF Inv, Sessions, InFlight, Answer, Types, AlreadyPresent
    <2> QED
      BY <1>2, <1>3, <1>5, <2>1, <2>2
      DEF Inv, Retained, WriterFollowsOwner, AcknowledgedIsApplied
  <1>6. CASE /\ Appendable(u)
             /\ accepted' = Append(accepted, u)
             /\ peerBindings' = IF u.revoke THEN peerBindings ELSE peerBindings \cup {u.binding}
             /\ free' = [free EXCEPT !.writer = @ - 1] /\ free.writer > 0
             /\ Answer(push, "ack")
    <2>1. /\ g = Len(accepted) + 1
          /\ accepted' \in Seq(Updates) /\ Len(accepted') = Len(accepted) + 1
          /\ DOMAIN accepted' = 1 .. Len(accepted) + 1
          /\ accepted'[g] = u /\ \A i \in DOMAIN accepted : accepted'[i] = accepted[i]
      BY <1>1, <1>6, SMT DEF Appendable, verify_chain_link, Inv, Types
    <2>2. Types'
      <3>1. free' \in [{"owner", "writer"} -> Nat]
        <4>1. free \in [{"owner", "writer"} -> Nat]
          BY DEF Inv, Types
        <4>2. free' = [free EXCEPT !["writer"] = free["writer"] - 1] /\ free["writer"] > 0
          BY <1>6
        <4> QED
          BY <4>1, <4>2, SMT
      <3>2. peerBindings' \subseteq ownBindings
        BY <1>1, <1>6, SMT DEF Inv, Types, Shape
      <3>3. session' \in {None} \cup [push : Pushes, answer : {"none", "ack", "rejected"}]
        BY <1>6 DEF Inv, Types, Answer
      <3> QED
        BY <1>2, <2>1, <3>1, <3>2, <3>3 DEF Inv, Types
    <2>3. Len(accepted) + 1 = Len(chain)
      <3>1. Len(accepted) = Len(chain) \/ Len(accepted) = Len(chain) - 1
        BY DEF Inv, WriterFollowsOwner
      <3>2. Len(accepted) + 1 \in 1 .. Len(chain) /\ Len(accepted) \in Nat /\ Len(chain) \in Nat
        BY <1>1, <2>1
      <3> QED
        BY <3>1, <3>2, SMT
    <2>4. Sessions'
      <3>1. \A p \in wire' : InFlight(p)'
        BY <1>1, <1>2, <2>1, SMT DEF Inv, Sessions, InFlight, Types, Pushes, Updates
      <3>2. ASSUME session' # None
            PROVE  /\ InFlight(session.push)'
                   /\ (session.answer = "ack" =>
                         session.push.update.generation \in DOMAIN accepted)'
        <4>1. session # None /\ session'.push = session.push /\ session.push \in Pushes
          BY <1>6, <3>2 DEF Answer, Inv, Types
        <4>2. InFlight(session.push)'
          BY <1>1, <1>2, <2>1, <4>1, SMT DEF Inv, Sessions, InFlight, Pushes, Updates
        <4>3. CASE session.push = push
          BY <1>1, <2>1, <4>1, <4>2, <4>3, SMT
        <4>4. CASE session.push # push
          <5>1. session' = session
            BY <1>6, <4>1, <4>4 DEF Answer
          <5>2. session.answer = "ack" => session.push.update.generation \in DOMAIN accepted
            BY <4>1 DEF Inv, Sessions
          <5> QED
            BY <1>1, <2>1, <4>2, <5>1, <5>2, SMT
        <4> QED
          BY <4>3, <4>4
      <3> QED
        BY <3>1, <3>2 DEF Sessions
    <2>5. Retained'
      BY <1>1, <1>6, <2>1, SMT DEF Inv, Retained, Appendable
    <2>6. WriterFollowsOwner'
      <3>1. Len(accepted') = Len(chain')
        BY <1>2, <2>1, <2>3
      <3>2. \A i \in DOMAIN accepted' : accepted'[i] = chain'[i]
        <4>1. \A i \in DOMAIN accepted : accepted'[i] = chain[i]
          BY <2>1 DEF Inv, WriterFollowsOwner
        <4>2. accepted'[Len(accepted) + 1] = chain[Len(accepted) + 1]
          BY <1>1, <2>1
        <4>3. \A i \in DOMAIN accepted' : i \in DOMAIN accepted \/ i = Len(accepted) + 1
          BY <1>1, <2>1, SMT
        <4> QED
          BY <1>2, <4>1, <4>2, <4>3
      <3> QED
        BY <3>1, <3>2 DEF WriterFollowsOwner
    <2>7. AcknowledgedIsApplied'
      BY <1>1, <1>2, <2>1, SMT DEF Inv, AcknowledgedIsApplied
    <2> QED
      BY <1>3, <2>2, <2>4, <2>5, <2>6, <2>7 DEF Inv
  <1> QED
    BY <1>4, <1>5, <1>6 DEF apply_runtime_mailbox_capability_update, Fits, RetainBinding

\* The acknowledgement the owner retains is of an update the writer has.
LEMMA CommitKeeps ==
  ASSUME Inv, commit_mailbox_capability_acknowledgement
  PROVE  Inv'
  <1> USE Zenon
  <1> DEFINE g == session.push.update.generation
  <1>1. /\ session # None /\ session.answer = "ack" /\ session' = None
        /\ \/ /\ acks' = acks \cup {g} /\ g \notin acks
              /\ free.owner > 0 /\ free' = [free EXCEPT !["owner"] = free["owner"] - 1]
           \/ UNCHANGED <<acks, free>>
        /\ UNCHANGED <<chain, ownBindings, wire, accepted, peerBindings, faults>>
    BY DEF commit_mailbox_capability_acknowledgement, writerVars
  <1>2. g \in DOMAIN accepted /\ g \in Nat \ {0}
    BY <1>1, SMT DEF Inv, Sessions, Types
  <1>3. Types'
    <2>1. free' \in [{"owner", "writer"} -> Nat]
      <3>1. free \in [{"owner", "writer"} -> Nat]
        BY DEF Inv, Types
      <3> QED
        BY <1>1, <3>1, SMT
    <2> QED
      BY <1>1, <1>2, <2>1 DEF Inv, Types
  <1>4. AcknowledgedIsApplied'
    BY <1>1, <1>2 DEF Inv, AcknowledgedIsApplied
  <1>5. Shape' /\ Retained' /\ WriterFollowsOwner' /\ Sessions'
    BY <1>1 DEF Inv, Shape, Retained, WriterFollowsOwner, Sessions, InFlight
  <1> QED
    BY <1>3, <1>4, <1>5 DEF Inv

\* Every other step leaves both chains alone.
LEMMA RestKeeps ==
  ASSUME Inv,
         \/ push_rejected \/ push_failed \/ owner_restart \/ writer_restart
         \/ enqueue_outbound \/ put_mailbox_item \/ put_reply_lost
         \/ \E b \in Polled : attempt_runtime_mailbox_poll(b)
         \/ \E b \in ownBindings : import_runtime_mailbox_offer(b) \/ lapse(b)
         \/ \E t \in Texts : \/ \E b \in Writable : attempt_runtime_mailbox_fallback(t, b)
                             \/ prepare_orphan_runtime_mailbox_dispatch(t)
                             \/ attempt_pending_runtime_mailbox_upload(t)
         \/ \E d \in {"owner", "writer"} : other_record(d) \/ other_binding(d)
         \/ UNCHANGED vars
  PROVE  Inv'
  <1>1. /\ UNCHANGED <<chain, acks, ownBindings, accepted>>
        /\ wire' \subseteq wire /\ session' \in {session, None}
        /\ \/ peerBindings' = peerBindings
           \/ \E b \in ownBindings : peerBindings' = peerBindings \cup {b}
        /\ faults' = faults \/ faults' = faults + 1
        /\ free' = free \/ \E d \in {"owner", "writer"} :
                              free[d] > 0 /\ free' = [free EXCEPT ![d] = free[d] - 1]
    BY Zenon DEF push_rejected, push_failed, owner_restart, writer_restart, enqueue_outbound,
           put_mailbox_item, put_reply_lost, attempt_runtime_mailbox_poll,
           import_runtime_mailbox_offer, RetainBinding, lapse, attempt_runtime_mailbox_fallback,
           prepare_orphan_runtime_mailbox_dispatch, attempt_pending_runtime_mailbox_upload,
           other_record, other_binding, vars, ownerVars, writerVars, Fault
  <1>2. free' \in [{"owner", "writer"} -> Nat]
    <2>1. free \in [{"owner", "writer"} -> Nat]
      BY Zenon DEF Inv, Types
    <2> QED
      BY <1>1, <2>1
  <1>3. Types'
    BY <1>1, <1>2 DEF Inv, Types
  <1>4. peerBindings \subseteq peerBindings'
    BY <1>1, Zenon
  <1> QED
    BY <1>1, <1>3, <1>4, Quiet, Zenon

\* Every step keeps the invariant.
LEMMA NextInv == Inv /\ [Next]_vars => Inv'
  <1> USE Zenon
  <1> SUFFICES ASSUME Inv, [Next]_vars PROVE Inv'
    OBVIOUS
  <1>1. CASE \E mode \in Modes :
               create_runtime_mailbox_offer(mode) \/ rotate_runtime_mailbox(mode)
    BY <1>1, ProvisionKeeps DEF create_runtime_mailbox_offer, rotate_runtime_mailbox
  <1>2. CASE attempt_runtime_mailbox_legacy_upgrade
    BY <1>2, ProvisionKeeps DEF attempt_runtime_mailbox_legacy_upgrade, Modes
  <1>3. CASE revoke_runtime_mailbox_capability
    BY <1>3, RevokeKeeps
  <1>4. CASE attempt_next_runtime_mailbox_capability_update
    BY <1>4, PushKeeps, SMT
  <1>5. CASE commit_mailbox_capability_acknowledgement
    BY <1>5, CommitKeeps, SMT
  <1>6. CASE \E push \in wire : apply_runtime_mailbox_capability_update(push)
    BY <1>6, ApplyKeeps
  <1> QED
    BY <1>1, <1>2, <1>3, <1>4, <1>5, <1>6, RestKeeps DEF Next, OwnerNext, WriterNext

\* The invariant holds in every reachable state.
THEOREM Invariance == Spec => []Inv
  BY InitInv, NextInv, PTL DEF Spec

\* Whatever sessions, answers and processes are lost, the writer's chain is a
\* prefix of the owner's and at most one generation behind it.
THEOREM FollowsCorrect == Spec => []WriterFollowsOwner
  <1>1. Inv => WriterFollowsOwner
    BY Zenon DEF Inv
  <1> QED
    BY <1>1, Invariance, PTL

\* An acknowledgement retained by the owner is of an update the writer applied.
THEOREM AcknowledgementCorrect == Spec => []AcknowledgedIsApplied
  <1>1. Inv => AcknowledgedIsApplied
    BY Zenon DEF Inv
  <1> QED
    BY <1>1, Invariance, PTL

\* A request the listener processes is one it knows or the exact next one.
LEMMA InFlightIsAcceptable ==
  ASSUME Inv, NEW push \in wire
  PROVE  AlreadyPresent(push.update) \/ Appendable(push.update)
  <1> DEFINE u == push.update
             g == u.generation
  <1>1. /\ g \in DOMAIN chain /\ u = chain[g] /\ g <= Len(accepted) + 1
        /\ Len(accepted) \in Nat /\ g \in Nat \ {0}
        /\ DOMAIN accepted = 1 .. Len(accepted) /\ DOMAIN chain = 1 .. Len(chain)
    BY DEF Inv, Sessions, InFlight, Types
  <1>2. CASE g <= Len(accepted)
    <2>1. g \in DOMAIN accepted
      BY <1>1, <1>2
    <2> QED
      BY <1>1, <2>1, Zenon DEF Inv, WriterFollowsOwner, AlreadyPresent
  <1>3. CASE g = Len(accepted) + 1
    <2>1. CASE accepted = <<>>
      <3>1. g = 1
        BY <1>3, <2>1
      <3> QED
        BY <1>1, <1>3, <2>1, <3>1 DEF Inv, Shape, Appendable, verify_chain_link
    <2>2. CASE accepted # <<>>
      <3>1. Len(accepted) \in DOMAIN accepted /\ g > 1 /\ g - 1 = Len(accepted)
        BY <1>1, <1>3, <2>2 DEF Inv, Types
      <3>2. accepted[Len(accepted)] = chain[g - 1]
        BY <3>1, Zenon DEF Inv, WriterFollowsOwner
      <3>3. Linked(accepted[Len(accepted)], u)
        BY <1>1, <3>1, <3>2, Zenon DEF Inv, Shape
      <3>4. accepted[Len(accepted)].binding \in peerBindings
        BY <3>1, Zenon DEF Inv, Retained
      <3> QED
        BY <1>3, <2>2, <3>3, <3>4, Zenon DEF Appendable, verify_chain_link, Linked
    <2> QED
      BY <2>1, <2>2, Zenon
  <1> QED
    BY <1>1, <1>2, <1>3

\* Only the record limit makes the writer's listener reject a push.
THEOREM LimitCorrect == Spec => []OnlyTheLimitRejects
  <1>1. Inv => OnlyTheLimitRejects
    BY InFlightIsAcceptable, Zenon DEF OnlyTheLimitRejects
  <1> QED
    BY <1>1, Invariance, PTL

\* The binding a managed writer uses is the owner's head or its overlap.
LEMMA WritableIsPolled == Inv => WriterBindingIsPolled
  <1> USE Zenon
  <1> SUFFICES ASSUME Inv, accepted # <<>>, ~ChainHead.revoke, NEW b \in Writable
               PROVE  b \in Polled
    BY DEF WriterBindingIsPolled
  <1>1. /\ Len(accepted) \in Nat \ {0} /\ Len(accepted) \in DOMAIN accepted
        /\ Len(chain) \in Nat /\ DOMAIN accepted = 1 .. Len(accepted)
        /\ b \in ownBindings
    BY SMT DEF Inv, Types, Writable
  <1>2. /\ ~accepted[Len(accepted)].revoke /\ accepted[Len(accepted)].binding = b
        /\ accepted[Len(accepted)] = chain[Len(accepted)]
    BY <1>1 DEF Writable, recipient_write_binding_state, Inv, WriterFollowsOwner
  <1>3. Len(accepted) = Len(chain) \/ Len(accepted) = Len(chain) - 1
    BY DEF Inv, WriterFollowsOwner
  <1>4. chain # <<>>
    <2>1. Len(chain) # 0
      BY <1>1, <1>3, SMT
    <2> QED
      BY <2>1, SMT
  <1>5. CASE Len(accepted) = Len(chain)
    BY <1>1, <1>2, <1>4, <1>5 DEF Polled, owner_receive_binding_state, ChainHead
  <1>6. CASE Len(accepted) = Len(chain) - 1
    <2>1. Len(chain) \notin acks /\ Len(chain) > 1
      <3>1. Len(chain) \notin DOMAIN accepted /\ Len(chain) > 1
        BY <1>1, <1>6, SMT
      <3> QED
        BY <3>1 DEF Inv, AcknowledgedIsApplied
    <2> QED
      BY <1>1, <1>2, <1>4, <1>6, <2>1 DEF Polled, owner_receive_binding_state, ChainHead
  <1> QED
    BY <1>3, <1>5, <1>6

\* A managed writer never starts an upload into a mailbox the owner has stopped
\* polling, unless the capability was revoked.
THEOREM PolledCorrect == Spec => []WriterBindingIsPolled
  BY WritableIsPolled, Invariance, PTL

\* A step that does more to the owner's side than retain acknowledgements is a
\* revocation or provisions a binding.
LEMMA OwnerSteps ==
  ASSUME [Next]_vars,
         ~(chain' = chain /\ ownBindings' = ownBindings /\ acks \subseteq acks')
  PROVE  \/ revoke_runtime_mailbox_capability
         \/ \E mode, r : provision_runtime_mailbox(mode, r)
  BY Zenon DEF push_rejected, push_failed, owner_restart, writer_restart, enqueue_outbound,
           put_mailbox_item, put_reply_lost, attempt_runtime_mailbox_poll,
           import_runtime_mailbox_offer, RetainBinding, lapse, attempt_runtime_mailbox_fallback,
           prepare_orphan_runtime_mailbox_dispatch, attempt_pending_runtime_mailbox_upload,
           other_record, other_binding, vars, ownerVars, writerVars, Next, OwnerNext, WriterNext,
           commit_mailbox_capability_acknowledgement,
           attempt_next_runtime_mailbox_capability_update,
           apply_runtime_mailbox_capability_update, create_runtime_mailbox_offer,
           rotate_runtime_mailbox, attempt_runtime_mailbox_legacy_upgrade

\* What a step may do to the writer's side.
LEMMA WriterSteps ==
  ASSUME [Next]_vars
  PROVE  /\ lapsed \subseteq lapsed' /\ peerBindings \subseteq peerBindings'
         /\ \/ accepted' = accepted
            \/ \E push \in wire : /\ ~AlreadyPresent(push.update)
                                  /\ accepted' = Append(accepted, push.update)
  BY Zenon DEF push_rejected, push_failed, owner_restart, writer_restart, enqueue_outbound,
           put_mailbox_item, put_reply_lost, attempt_runtime_mailbox_poll,
           import_runtime_mailbox_offer, RetainBinding, lapse, attempt_runtime_mailbox_fallback,
           prepare_orphan_runtime_mailbox_dispatch, attempt_pending_runtime_mailbox_upload,
           other_record, other_binding, vars, ownerVars, writerVars, Next, OwnerNext, WriterNext,
           commit_mailbox_capability_acknowledgement,
           attempt_next_runtime_mailbox_capability_update,
           apply_runtime_mailbox_capability_update, create_runtime_mailbox_offer,
           rotate_runtime_mailbox, attempt_runtime_mailbox_legacy_upgrade,
           provision_runtime_mailbox, revoke_runtime_mailbox_capability, AppendUpdate

\* A binding of the owner that is no longer polled stays so.
LEMMA OwnerRetires ==
  ASSUME Inv, Types', [Next]_vars, NEW b \in ownBindings, b \notin Polled
  PROVE  b \notin Polled'
  <1> USE Zenon
  <1>1. owner_receive_binding_state(b) = "inactive"
    BY DEF Polled
  <1>2. chain # <<>> /\ Len(chain) \in Nat \ {0} /\ b \in Nat /\ b <= Len(chain)
    BY <1>1, SMT DEF owner_receive_binding_state, Inv, Types, Shape, Bindings
  <1>3. CASE chain' = chain /\ ownBindings' = ownBindings /\ acks \subseteq acks'
    BY <1>1, <1>2, <1>3 DEF owner_receive_binding_state, Polled, ChainHead
  <1>4. ASSUME NEW u, chain' = Append(chain, u), acks' = acks,
               u.revoke = TRUE \/ u.binding = Len(chain) + 1
        PROVE  b \notin Polled'
    <2>1. /\ Len(chain') = Len(chain) + 1 /\ chain' # <<>>
          /\ chain'[Len(chain')] = u /\ chain'[Len(chain') - 1] = chain[Len(chain)]
      <3>1. chain \in Seq(Updates)
        BY DEF Inv, Types
      <3> QED
        BY <1>2, <1>4, <3>1, SMT
    <2>2. CASE u.revoke
      BY <2>1, <2>2 DEF Polled, owner_receive_binding_state, ChainHead
    <2>3. CASE ~u.revoke
      <3>1. u.binding # b
        BY <1>2, <1>4, <2>3, SMT
      <3>2. chain[Len(chain)].revoke \/ chain[Len(chain)].binding # b
        BY <1>1, <1>2 DEF owner_receive_binding_state, ChainHead
      <3> QED
        BY <2>1, <2>3, <3>1, <3>2 DEF Polled, owner_receive_binding_state, ChainHead
    <2> QED
      BY <2>2, <2>3
  <1>5. ASSUME NEW mode, NEW r, provision_runtime_mailbox(mode, r)
        PROVE  b \notin Polled'
    <2> DEFINE u == [generation |-> Len(chain) + 1, revoke |-> FALSE,
                     binding |-> NewBinding, mode |-> mode]
    <2>1. chain' = Append(chain, u) /\ acks' = acks /\ u.binding = Len(chain) + 1
      BY <1>5 DEF provision_runtime_mailbox, AppendUpdate, NewBinding
    <2> QED
      BY <1>4, <2>1
  <1>6. ASSUME revoke_runtime_mailbox_capability
        PROVE  b \notin Polled'
    <2> DEFINE u == [generation |-> Len(chain) + 1, revoke |-> TRUE,
                     binding |-> ChainHead.binding, mode |-> ChainHead.mode]
    <2>1. chain' = Append(chain, u) /\ acks' = acks /\ u.revoke = TRUE
      BY <1>6 DEF revoke_runtime_mailbox_capability, AppendUpdate
    <2> QED
      BY <1>4, <2>1
  <1> QED
    BY <1>3, <1>5, <1>6, OwnerSteps

\* An index of the shorter chain is one of the longer.
LEMMA WithinOne ==
  ASSUME NEW m \in Nat, NEW n \in Nat, n = m \/ n = m - 1, NEW g \in 1 .. n
  PROVE  g \in 1 .. m
  OBVIOUS

\* A binding the writer's chain has left behind stays so.
LEMMA WriterRetires ==
  ASSUME Inv, [Next]_vars, NEW b \in Named, b \notin Writable
  PROVE  b \notin Writable'
  <1> USE Zenon
  <1>1. /\ accepted # <<>> /\ Len(accepted) \in Nat \ {0}
        /\ DOMAIN accepted = 1 .. Len(accepted) /\ Len(accepted) \in DOMAIN accepted
        /\ b = 0 \/ \E g \in DOMAIN accepted : b = accepted[g].binding
    BY SMT DEF Named, Inv, Types
  <1>2. \A g \in DOMAIN accepted : /\ accepted[g].binding \in 1 .. g
                                   /\ accepted[g].binding \in peerBindings
    <2> SUFFICES ASSUME NEW g \in DOMAIN accepted
                 PROVE  accepted[g].binding \in 1 .. g /\ accepted[g].binding \in peerBindings
      OBVIOUS
    <2>1. accepted[g] = chain[g]
      BY DEF Inv, WriterFollowsOwner
    <2>2. g \in DOMAIN chain
      <3>1. Len(accepted) = Len(chain) \/ Len(accepted) = Len(chain) - 1
        BY DEF Inv, WriterFollowsOwner
      <3>2. Len(chain) \in Nat /\ DOMAIN chain = 1 .. Len(chain)
        BY SMT DEF Inv, Types
      <3>3. g \in 1 .. Len(accepted) /\ Len(accepted) \in Nat
        BY SMT DEF Inv, Types
      <3>4. g \in 1 .. Len(chain)
        BY <3>1, <3>2, <3>3, WithinOne
      <3> QED
        BY <3>2, <3>4
    <2> QED
      BY <2>1, <2>2 DEF Inv, Shape, Retained
  <1>3. b \in Nat /\ b <= Len(accepted) /\ (b # 0 => b \in peerBindings)
    BY <1>1, <1>2, SMT
  <1>4. CASE accepted' = accepted
    <2>1. b \in lapsed' \/ recipient_write_binding_state(b) = "inactive"
      <3>1. CASE b = 0
        BY <1>1, <1>2, <3>1, SMT DEF recipient_write_binding_state
      <3>2. CASE b # 0
        BY <1>3, <3>2, WriterSteps DEF Writable
      <3> QED
        BY <3>1, <3>2
    <2> QED
      BY <1>4, <2>1 DEF Writable, recipient_write_binding_state
  <1>5. ASSUME NEW push \in wire, ~AlreadyPresent(push.update),
               accepted' = Append(accepted, push.update)
        PROVE  b \notin Writable'
    <2>1. /\ push.update.generation = Len(accepted) + 1
          /\ push.update.generation \in DOMAIN chain
          /\ push.update = chain[push.update.generation]
      BY <1>5, InFlightIsAcceptable
      DEF Appendable, verify_chain_link, Inv, Sessions, InFlight
    <2>2. push.update.revoke \/ push.update.binding = Len(accepted) + 1
      BY <2>1 DEF Inv, Shape
    <2>3. accepted' # <<>> /\ accepted'[Len(accepted')] = push.update
      BY <1>1, <1>5, SMT DEF Inv, Types, Pushes
    <2>4. push.update.revoke \/ push.update.binding # b
      BY <1>1, <1>3, <2>2, SMT
    <2> QED
      BY <2>3, <2>4 DEF Writable, recipient_write_binding_state
  <1> QED
    BY <1>4, <1>5, WriterSteps

\* A superseded or revoked binding is never polled again by the owner and never
\* written through again by the writer.
THEOREM RetirementCorrect == Spec => RetiredStaysRetired
  <1>1. Inv /\ Inv' /\ [Next]_vars =>
          [/\ \A b \in ownBindings : b \notin Polled => b \notin Polled'
           /\ \A b \in Named : b \notin Writable => b \notin Writable']_vars
    BY OwnerRetires, WriterRetires, Zenon DEF Inv
  <1> QED
    BY <1>1, Invariance, PTL DEF Spec, RetiredStaysRetired

-----------------------------------------------------------------------------
(* The mailbox side of the types.                                          *)

\* The kinds of what the poll, the uploads and the store hold.  An upload has its
\* dispatch, without which an item would be held under no binding.
MailboxTypes ==
    /\ lastPolls \in Seq(Bindings)
    /\ dispatch \in [Texts -> Bindings \cup {None}]
    /\ pending \subseteq Texts /\ stored \subseteq Texts /\ received \subseteq Texts
    /\ upload \in {None} \cup [text : Texts, step : {"dispatched", "enqueued"}]
    /\ upload # None => dispatch[upload.text] \in Bindings
    /\ held \subseteq Bindings \X Texts
    /\ lapsed \subseteq ownBindings
    /\ faults \in 0 .. MaxFaults

\* Forgetting one binding leaves a sequence of bindings.
LEMMA OthersAreBindings ==
  ASSUME lastPolls \in Seq(Bindings), NEW b
  PROVE  Others(b) \in Seq(Bindings)
  <1>1. CASE Position(b) = {}
    BY <1>1, Zenon DEF Others
  <1>2. CASE Position(b) # {}
    <2>1. PICK i : i = (CHOOSE j \in Position(b) : TRUE)
      BY Zenon
    <2>2. i \in 1 .. Len(lastPolls) /\ Len(lastPolls) \in Nat
      BY <1>2, <2>1 DEF Position
    <2>3. /\ SubSeq(lastPolls, 1, i - 1) \in Seq(Bindings)
          /\ SubSeq(lastPolls, i + 1, Len(lastPolls)) \in Seq(Bindings)
      BY <2>2
    <2>4. Others(b) = SubSeq(lastPolls, 1, i - 1) \o SubSeq(lastPolls, i + 1, Len(lastPolls))
      BY <1>2, <2>1, Zenon DEF Others
    <2> QED
      BY <2>3, <2>4
  <1> QED
    BY <1>1, <1>2, Zenon

\* The steps of the owner and of the environment.
LEMMA OwnerMailboxTypes ==
  ASSUME Inv, Inv', MailboxTypes,
         \/ OwnerNext
         \/ \E push \in wire : apply_runtime_mailbox_capability_update(push)
         \/ \E b \in ownBindings : import_runtime_mailbox_offer(b) \/ lapse(b)
         \/ \E d \in {"owner", "writer"} : other_record(d) \/ other_binding(d)
         \/ UNCHANGED vars
  PROVE  MailboxTypes'
  <1> USE Zenon
  <1>1. /\ UNCHANGED <<dispatch, pending, stored, upload>> /\ ownBindings \subseteq ownBindings'
        /\ lastPolls' \in {lastPolls, <<>>} \cup {Append(Others(b), b) : b \in Bindings}
        /\ received' \subseteq received \cup Texts /\ held' \subseteq held
        /\ lapsed' \subseteq lapsed \cup ownBindings
        /\ faults' = faults \/ Fault
    <2>1. CASE \E b \in Polled : attempt_runtime_mailbox_poll(b)
      BY <2>1 DEF attempt_runtime_mailbox_poll, writerVars, Polled, Inv, Types
    <2>2. CASE \E b \in ownBindings : import_runtime_mailbox_offer(b) \/ lapse(b)
      BY <2>2 DEF import_runtime_mailbox_offer, lapse, ownerVars, writerVars, mailboxVars
    <2>3. CASE \/ \E d \in {"owner", "writer"} : other_record(d) \/ other_binding(d)
               \/ UNCHANGED vars
      BY <2>3 DEF other_record, other_binding, vars, ownerVars, writerVars, mailboxVars
    <2>4. CASE \E push \in wire : apply_runtime_mailbox_capability_update(push)
      BY <2>4 DEF apply_runtime_mailbox_capability_update, mailboxVars
    <2>5. CASE push_rejected \/ push_failed \/ owner_restart
               \/ attempt_next_runtime_mailbox_capability_update
               \/ commit_mailbox_capability_acknowledgement
      BY <2>5 DEF push_rejected, push_failed, owner_restart, writerVars, mailboxVars,
                  attempt_next_runtime_mailbox_capability_update,
                  commit_mailbox_capability_acknowledgement
    <2>6. CASE revoke_runtime_mailbox_capability
               \/ \E mode \in Modes, r \in BOOLEAN : provision_runtime_mailbox(mode, r)
      BY <2>6 DEF revoke_runtime_mailbox_capability, provision_runtime_mailbox,
                  writerVars, mailboxVars
    <2> QED
      BY <2>1, <2>2, <2>3, <2>4, <2>5, <2>6
      DEF OwnerNext, create_runtime_mailbox_offer, rotate_runtime_mailbox,
          attempt_runtime_mailbox_legacy_upgrade, Modes
  <1>2. lastPolls' \in Seq(Bindings)
    <2>1. lastPolls \in Seq(Bindings) /\ <<>> \in Seq(Bindings)
      BY SMT DEF MailboxTypes
    <2>2. ASSUME NEW b \in Bindings PROVE Append(Others(b), b) \in Seq(Bindings)
      BY <2>1, OthersAreBindings, SMT
    <2> QED
      BY <1>1, <2>1, <2>2
  <1>3. faults' \in 0 .. MaxFaults
    BY <1>1, BoundAssumption, SMT DEF Fault, MailboxTypes
  <1> QED
    BY <1>1, <1>2, <1>3 DEF MailboxTypes

\* The steps of an upload.
LEMMA UploadMailboxTypes ==
  ASSUME Inv, MailboxTypes,
         \/ \E t \in Texts : \/ \E b \in Writable : attempt_runtime_mailbox_fallback(t, b)
                             \/ prepare_orphan_runtime_mailbox_dispatch(t)
                             \/ attempt_pending_runtime_mailbox_upload(t)
         \/ enqueue_outbound \/ put_mailbox_item \/ put_reply_lost \/ writer_restart
  PROVE  MailboxTypes'
  <1> USE Zenon
  <1>1. Writable \subseteq Bindings
    BY DEF Writable, Inv, Types
  <1>2. CASE \E t \in Texts, b \in Writable : attempt_runtime_mailbox_fallback(t, b)
    <2>1. PICK t \in Texts, b \in Bindings : attempt_runtime_mailbox_fallback(t, b)
      BY <1>1, <1>2
    <2>2. /\ upload' = [text |-> t, step |-> "dispatched"]
          /\ dispatch' = [dispatch EXCEPT ![t] = b]
          /\ UNCHANGED <<lastPolls, pending, stored, received, held, lapsed, ownBindings, faults>>
      BY <2>1 DEF attempt_runtime_mailbox_fallback, ownerVars, mailboxVars
    <2>3. /\ dispatch' \in [Texts -> Bindings \cup {None}] /\ dispatch'[t] \in Bindings
          /\ upload' \in [text : Texts, step : {"dispatched", "enqueued"}] /\ upload'.text = t
      BY <2>2 DEF MailboxTypes
    <2> QED
      BY <2>2, <2>3 DEF MailboxTypes
  <1>3. CASE \E t \in Texts : \/ prepare_orphan_runtime_mailbox_dispatch(t)
                              \/ attempt_pending_runtime_mailbox_upload(t)
    <2>1. PICK t \in Texts : \/ prepare_orphan_runtime_mailbox_dispatch(t)
                             \/ attempt_pending_runtime_mailbox_upload(t)
      BY <1>3
    <2>2. /\ upload' = [text |-> t, step |-> "enqueued"]
          /\ dispatch[t] \in Writable /\ pending' \in {pending, pending \cup {t}}
          /\ UNCHANGED <<dispatch, lastPolls, stored, received, held, lapsed, ownBindings, faults>>
      BY <2>1 DEF prepare_orphan_runtime_mailbox_dispatch,
         attempt_pending_runtime_mailbox_upload, ownerVars, mailboxVars
    <2>3. /\ dispatch[t] \in Bindings /\ pending' \subseteq Texts
          /\ upload' \in [text : Texts, step : {"dispatched", "enqueued"}] /\ upload'.text = t
      BY <1>1, <2>2 DEF MailboxTypes
    <2> QED
      BY <2>2, <2>3 DEF MailboxTypes
  <1>4. CASE enqueue_outbound
    <2>1. /\ upload \in [text : Texts, step : {"dispatched", "enqueued"}]
          /\ dispatch[upload.text] \in Bindings
      BY <1>4 DEF enqueue_outbound, MailboxTypes
    <2>2. /\ upload' \in [text : Texts, step : {"dispatched", "enqueued"}]
          /\ upload'.text = upload.text /\ pending' = pending \cup {upload.text}
      BY <1>4, <2>1 DEF enqueue_outbound
    <2>3. UNCHANGED <<lastPolls, dispatch, stored, received, held, lapsed, ownBindings, faults>>
      BY <1>4 DEF enqueue_outbound, ownerVars, mailboxVars
    <2> QED
      BY <2>1, <2>2, <2>3 DEF MailboxTypes
  <1>5. CASE put_mailbox_item \/ put_reply_lost \/ writer_restart
    <2>1. /\ upload' = None
          /\ UNCHANGED <<lastPolls, dispatch, received, lapsed, ownBindings>>
          /\ pending' \subseteq pending /\ (faults' = faults \/ Fault)
          /\ \/ held' = held /\ stored' = stored
             \/ /\ upload # None /\ held' = held \cup {<<dispatch[upload.text], upload.text>>}
                /\ stored' \subseteq stored \cup {upload.text}
      <3>1. CASE put_mailbox_item
        BY <3>1 DEF put_mailbox_item, ownerVars
      <3>2. CASE put_reply_lost \/ writer_restart
        BY <3>2 DEF put_reply_lost, writer_restart, ownerVars, mailboxVars
      <3> QED
        BY <1>5, <3>1, <3>2
    <2>2. upload # None => upload.text \in Texts /\ dispatch[upload.text] \in Bindings
      BY DEF MailboxTypes
    <2>3. faults' \in 0 .. MaxFaults
      BY <2>1, BoundAssumption, SMT DEF Fault, MailboxTypes
    <2>4. held' \subseteq Bindings \X Texts /\ stored' \subseteq Texts
      <3>1. held \subseteq Bindings \X Texts /\ stored \subseteq Texts
        BY DEF MailboxTypes
      <3>2. upload # None => <<dispatch[upload.text], upload.text>> \in Bindings \X Texts
        BY <2>2
      <3> QED
        BY <2>1, <2>2, <3>1, <3>2
    <2> QED
      BY <2>1, <2>3, <2>4 DEF MailboxTypes
  <1> QED
    BY <1>2, <1>3, <1>4, <1>5

\* A device takes a binding only while it has one left.
LEMMA SlotsStay ==
  ASSUME slots \in [{"owner", "writer"} -> Nat], [Next]_vars
  PROVE  slots' \in [{"owner", "writer"} -> Nat]
  <1>1. \/ slots' = slots
        \/ \E d \in {"owner", "writer"} :
              slots[d] > 0 /\ slots' = [slots EXCEPT ![d] = slots[d] - 1]
    <2> USE Zenon
    <2>1. CASE \E mode, r : provision_runtime_mailbox(mode, r)
      BY <2>1 DEF provision_runtime_mailbox
    <2>2. CASE \E push \in wire : apply_runtime_mailbox_capability_update(push)
      BY <2>2 DEF apply_runtime_mailbox_capability_update, Fits, RetainBinding
    <2>3. CASE \E b \in ownBindings : import_runtime_mailbox_offer(b)
      BY <2>3 DEF import_runtime_mailbox_offer, RetainBinding
    <2>4. CASE \E d \in {"owner", "writer"} : other_binding(d)
      BY <2>4 DEF other_binding
    <2>5. CASE UNCHANGED slots
      BY <2>5
    <2>6. \/ UNCHANGED slots
          \/ \E mode, r : provision_runtime_mailbox(mode, r)
          \/ \E push \in wire : apply_runtime_mailbox_capability_update(push)
          \/ \E b \in ownBindings : import_runtime_mailbox_offer(b)
          \/ \E d \in {"owner", "writer"} : other_binding(d)
      BY DEF Next, OwnerNext, WriterNext, vars, push_rejected, push_failed, owner_restart,
         writer_restart, enqueue_outbound, put_mailbox_item, put_reply_lost,
         attempt_runtime_mailbox_poll, lapse, attempt_runtime_mailbox_fallback,
         prepare_orphan_runtime_mailbox_dispatch, attempt_pending_runtime_mailbox_upload,
         other_record, commit_mailbox_capability_acknowledgement,
         attempt_next_runtime_mailbox_capability_update, create_runtime_mailbox_offer,
         rotate_runtime_mailbox, attempt_runtime_mailbox_legacy_upgrade,
         revoke_runtime_mailbox_capability
    <2> QED
      BY <2>1, <2>2, <2>3, <2>4, <2>5, <2>6
  <1> QED
    BY <1>1

\* Both devices, the wire, the ledger and the store keep their shapes in every state: a
\* session carries a push of an update, an upload has its dispatch, a held item its binding.
THEOREM TypeCorrect == Spec => []TypeOK
  <1> DEFINE SlotTypes == slots \in [{"owner", "writer"} -> Nat]
  <1>1. Init => MailboxTypes
    BY BoundAssumption DEF Init, MailboxTypes
  <1>2. Inv /\ Inv' /\ MailboxTypes /\ [Next]_vars => MailboxTypes'
    BY OwnerMailboxTypes, UploadMailboxTypes, Zenon DEF Next, WriterNext
  <1>3. Init => SlotTypes
    BY BoundAssumption DEF Init
  <1>4. SlotTypes /\ [Next]_vars => SlotTypes'
    BY SlotsStay, Zenon
  <1>5. Inv /\ MailboxTypes /\ SlotTypes => TypeOK
    BY Zenon DEF Inv, Types, MailboxTypes, TypeOK
  <1> HIDE DEF SlotTypes
  <1> QED
    BY <1>1, <1>2, <1>3, <1>4, <1>5, Invariance, PTL DEF Spec
=============================================================================
