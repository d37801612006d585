----------------------------- MODULE EpochFence -----------------------------
(***************************************************************************)
(* What daemon-effect fencing promises (src/docs/workflow-reliability.md   *)
(* and src/src/enoch/app/effects.py): ownership passes to ever higher      *)
(* generations, and only the owner's effects happen.                       *)
(***************************************************************************)
EXTENDS Integers, Sequences

VARIABLES owner,   \* generation that owns the installation
          log      \* the generations whose effects happened, in order

fenceVars == <<owner, log>>

FenceInit == owner = 0 /\ log = <<>>

TakeOver == owner' \in Nat /\ owner' > owner /\ UNCHANGED log

Effect == owner > 0 /\ log' = Append(log, owner) /\ UNCHANGED owner

FenceNext == TakeOver \/ Effect

FenceSpec == FenceInit /\ [][FenceNext]_fenceVars
=============================================================================
