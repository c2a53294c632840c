-------------------------- MODULE ProvisioningSlot --------------------------
(***************************************************************************)
(* The slot of the provisioning commands: it holds the token of the one    *)
(* worker that installs something.  A command asks for the slot after it   *)
(* has looked at what is missing; a worker gives it back when it ends,     *)
(* however it ends.  provisioning_cancel sets the token at any time, so a  *)
(* worker may find it set wherever it looks.                               *)
(***************************************************************************)
CONSTANT None

VARIABLE
    slot          \* None, the worker that has it, or "reader" (see RuntimeInstall)

Workers == {"runtime", "pyannote", "models"}

\* acquire_provisioning_slot: refused, not queued, while a worker has it.
Acquire(w) == slot = None /\ slot' = w

\* Mutant: the guard is dropped without clearing the slot.
ReleaseNothing(w) == slot = w /\ UNCHANGED slot

\* ProvisioningSlotGuard::drop
Release(w) == slot = w /\ slot' = None
=============================================================================
