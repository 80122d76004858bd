------------------------------ MODULE SpecTrace ------------------------------
(****************************************************************************)
(* The trace of a speculation (kspecem_statistics.c): an array that the     *)
(* hooks append to, started over by each checkpoint, and that a panic       *)
(* prints (kspecem_panic_info) for someone to find out what was going on.   *)
(****************************************************************************)
EXTENDS Naturals, Sequences, FiniteSets, SequencesExt

CONSTANTS
  Size,       \* KSPECEM_SPEC_STATISTICS_SIZE
  MaxDepth    \* kspecem_max_call_depth

ASSUME SpecTraceAssumption == Size \in Nat \ {0} /\ MaxDepth \in Nat \ {0}

Events == {"NEW_CHECKPOINT", "NEW_CHECKPOINT_INSPEC", "RESTART", "RESTART_RETURN",
           "CHECK_CALL_DEPTH"}

VARIABLES
  in_spec, spec_depth, in_restart,
  rolling,      \* kspecem_restart is restoring memory
  assert_set,   \* kspecem_spec_assert.fmt # -1
  panicked,     \* the kernel has panicked and printed the trace
  trace,        \* kspecem_spec_statistics up to kspecem_curr_spec_statistics_index
  printed       \* the lines of kspecem_panic_info, by their numbers

vars == <<in_spec, spec_depth, in_restart, rolling, assert_set, panicked, trace, printed>>

\* Mutants: the array has no end; the oldest event makes room.
add_NoEnd(t, e) == Append(t, e)
add_Shift(t, e) == IF Len(t) >= Size THEN Append(Tail(t), e) ELSE Append(t, e)

\* kspecem_add_spec_statistics.
add(t, e) == IF Len(t) >= Size THEN t ELSE Append(t, e)

Init ==
  /\ in_spec = FALSE /\ spec_depth = 0 /\ in_restart = FALSE
  /\ rolling = FALSE /\ assert_set = FALSE /\ panicked = FALSE
  /\ trace = << >> /\ printed = << >>

\* kspecem_panic_info: a numbered line for each event that its switch knows.
panic_info(t) ==
  [k \in {k \in DOMAIN t : t[k] \in {"CHECK_CALL_DEPTH", "NEW_CHECKPOINT",
                                     "NEW_CHECKPOINT_INSPEC", "RESTART_RETURN", "RESTART"}} |->
     t[k]]

\* panic(), which calls it, when the condition c holds.
Panic(c) ==
  /\ panicked' = c
  /\ printed' = IF c THEN panic_info(trace) ELSE printed

\* The program runs, and with it its hooks.
Running == ~panicked /\ ~rolling

NewCheckpoint ==
  /\ Running /\ ~assert_set
  /\ IF in_spec
       THEN trace' = add(trace, "NEW_CHECKPOINT_INSPEC") /\ UNCHANGED <<in_spec, spec_depth>>
       ELSE /\ trace' = add(<< >>, "NEW_CHECKPOINT")
            /\ in_spec' = TRUE
            /\ spec_depth' = 0
  /\ UNCHANGED <<in_restart, rolling, assert_set, panicked, printed>>

\* kspecem_hook_check_call_depth; a call that is too deep only restarts.
CheckCallDepth ==
  /\ Running /\ in_spec
  /\ spec_depth < MaxDepth
  /\ trace' = add(trace, "CHECK_CALL_DEPTH")
  /\ spec_depth' = spec_depth + 1
  /\ UNCHANGED <<in_spec, in_restart, rolling, assert_set, panicked, printed>>

\* A mutant: no return restarts.
LeavesFrame_Always(type) == ~assert_set /\ type = "RETURN"

\* The return of a function that was called after the checkpoint.
LeavesFrame(type) == ~assert_set /\ type = "RETURN" /\ spec_depth > 0

Recorded == IF assert_set THEN trace ELSE add(trace, "RESTART")

\* kspecem_restart up to the restore of the log: by a hook, by an interrupt, or
\* by a fault in the restore of another restart.
Restart(type) ==
  /\ ~panicked /\ in_spec
  /\ type = "RETURN" => ~rolling /\ spec_depth < MaxDepth
  /\ in_restart' = TRUE
  /\ IF LeavesFrame(type)
       THEN /\ trace' = add(trace, "RESTART_RETURN")
            /\ spec_depth' = spec_depth - 1
            /\ UNCHANGED rolling
       ELSE /\ trace' = Recorded
            /\ rolling' = TRUE
            /\ UNCHANGED spec_depth
  /\ UNCHANGED <<in_spec, assert_set, panicked, printed>>

\* The rest of kspecem_restart.
Rollback ==
  /\ ~panicked /\ rolling
  /\ in_spec' = FALSE /\ spec_depth' = 0 /\ in_restart' = FALSE /\ rolling' = FALSE
  /\ Panic(assert_set)
  /\ UNCHANGED <<assert_set, trace>>

\* kspecem_panic, for an assertion that fails: outside speculation a panic, in a
\* restart (or after a return) only a note, otherwise a restart of no type.
AssertFails ==
  /\ ~panicked
  /\ IF in_spec
       THEN /\ assert_set' = TRUE
            /\ rolling' = (rolling \/ ~in_restart)
            /\ in_restart' = TRUE
            /\ UNCHANGED <<panicked, printed>>
       ELSE Panic(TRUE) /\ UNCHANGED <<assert_set, rolling, in_restart>>
  /\ UNCHANGED <<in_spec, spec_depth, trace>>

Done == panicked /\ UNCHANGED vars

Next ==
  \/ NewCheckpoint \/ CheckCallDepth \/ Rollback \/ AssertFails \/ Done
  \/ \E type \in {"RETURN", "OTHER"} : Restart(type)

Spec == Init /\ [][Next]_vars

Speculation == INSTANCE Emulation WITH Limit <- MaxDepth

-----------------------------------------------------------------------------
(* Properties *)

Count(e) == Cardinality({k \in DOMAIN trace : trace[k] = e})

\* The type invariant; kspecem_add_spec_statistics stays inside the array.
TypeOK ==
  /\ in_spec \in BOOLEAN /\ in_restart \in BOOLEAN /\ rolling \in BOOLEAN
  /\ assert_set \in BOOLEAN /\ panicked \in BOOLEAN
  /\ spec_depth \in 0..MaxDepth
  /\ trace \in Seq(Events) /\ Len(trace) <= Size /\ printed \in Seq(Events)

\* What a panic prints can be read: the trace begins with the checkpoint of the
\* last speculation and with no other, and unless it is full it has the current
\* call depth, and a restart as its last event once the speculation is over.
TraceExplains ==
  /\ trace # << >> => trace[1] = "NEW_CHECKPOINT" /\ Count("NEW_CHECKPOINT") = 1
  /\ in_spec => trace # << >>
  /\ panicked => printed = trace
  /\ Len(trace) < Size /\ ~assert_set =>
       /\ in_spec => spec_depth = Count("CHECK_CALL_DEPTH") - Count("RESTART_RETURN")
       /\ trace # << >> => (rolling \/ ~in_spec <=> Last(trace) = "RESTART")

\* The speculations that are traced are those of SpecEm.
Contract == Speculation!EmulationSpec
=============================================================================
