------------------------ MODULE MCMailboxCapability ------------------------
(* One text; one fault or one expired offer.                               *)
EXTENDS MailboxCapability

CONSTANTS t1

OneText == {t1}

OneMishap == Cardinality(lapsed') + faults' <= 1

(* The binding limit of the owner is met by its own rotations only. *)
OwnBindingsOnly == slots'.owner < slots.owner => ownBindings' # ownBindings

MCNext == Next /\ OneMishap /\ OwnBindingsOnly

MCSpec == Init /\ [][MCNext]_vars

MCFairSpec == MCSpec /\ Fairness
=============================================================================
