------------------------------ MODULE Emulation ------------------------------
(****************************************************************************)
(* What the rest of the runtime may rely on of the emulation: the contract  *)
(* between SpecEm, which has all of it, and the modules that only follow    *)
(* whether the thread speculates (Reports, SpecTrace).                      *)
(*                                                                          *)
(* One speculation at a time; calls and returns above the checkpoint's      *)
(* frame are balanced; a call that reaches the limit is followed by nothing *)
(* but the rollback; the rollback is one step that resets everything.       *)
(****************************************************************************)
EXTENDS Naturals

CONSTANT Limit   \* the call depth that ends a speculation

VARIABLES
  in_spec,      \* kspecem_in_speculative_emulation
  spec_depth,   \* kspecem_spec_call_depth
  in_restart    \* kspecem_is_in_restart

evars == <<in_spec, spec_depth, in_restart>>

EInit == in_spec = FALSE /\ spec_depth = 0 /\ in_restart = FALSE

ECheckpoint ==
  /\ ~in_spec /\ ~in_restart
  /\ in_spec' = TRUE /\ spec_depth' = 0 /\ in_restart' = FALSE

ECall ==
  /\ in_spec /\ spec_depth < Limit
  /\ spec_depth' = spec_depth + 1
  /\ UNCHANGED <<in_spec, in_restart>>

\* kspecem_is_in_restart stays set after a return.
EReturn ==
  /\ in_spec /\ spec_depth \in 1..(Limit - 1)
  /\ spec_depth' = spec_depth - 1
  /\ in_restart' = TRUE
  /\ UNCHANGED in_spec

ERestart ==
  /\ in_spec
  /\ in_restart' = TRUE
  /\ UNCHANGED <<in_spec, spec_depth>>

ERollback ==
  /\ in_spec
  /\ in_spec' = FALSE /\ spec_depth' = 0 /\ in_restart' = FALSE

ENext == ECheckpoint \/ ECall \/ EReturn \/ ERestart \/ ERollback

EmulationSpec == EInit /\ [][ENext]_evars
=============================================================================
