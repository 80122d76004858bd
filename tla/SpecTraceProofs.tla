-------------------------- MODULE SpecTraceProofs --------------------------
(****************************************************************************)
(* Proofs about SpecTrace, for every size of the array and every limit on   *)
(* the call depth.                                                          *)
(****************************************************************************)
EXTENDS SpecTrace, FiniteSetTheorems, DataLemmas

Places(t, e) == {k \in DOMAIN t : t[k] = e}

\* A restore is under way only in speculation, and outside it nothing is left
\* of the last restart.
ModeInv == (rolling => in_spec) /\ (~in_spec => ~in_restart)

\* The trace of one speculation, from its checkpoint on.
HeadInv ==
  /\ in_spec => trace # << >>
  /\ trace # << >> => Places(trace, "NEW_CHECKPOINT") = {1}

\* While there is room, calls and returns balance to the depth, and the end of
\* the speculation is the last event.
DepthInv ==
  Len(trace) < Size /\ ~assert_set /\ in_spec =>
    spec_depth + Count("RESTART_RETURN") = Count("CHECK_CALL_DEPTH")

EndInv ==
  Len(trace) < Size /\ ~assert_set /\ trace # << >> =>
    (rolling \/ ~in_spec <=> trace[Len(trace)] = "RESTART")

PanicInv == panicked => printed = trace

\* The inductive invariant.
Inv == TypeOK /\ ModeInv /\ HeadInv /\ DepthInv /\ EndInv /\ PanicInv

-----------------------------------------------------------------------------
(* Operators *)

\* What an event that is added changes, and what it leaves.
LEMMA AddFacts ==
  ASSUME NEW t \in Seq(Events), NEW e \in Events, Len(t) <= Size
  PROVE  /\ add(t, e) \in Seq(Events) /\ Len(add(t, e)) <= Size /\ add(t, e) # << >>
         /\ Len(add(t, e)) < Size =>
              /\ Len(t) < Size /\ add(t, e)[Len(add(t, e))] = e
         /\ Len(t) < Size =>
              /\ Len(add(t, e)) = Len(t) + 1
              /\ Places(add(t, e), e) = Places(t, e) \cup {Len(t) + 1}
         /\ \A x \in Events : x # e => Places(add(t, e), x) = Places(t, x)
<1>1. CASE Len(t) >= Size
  <2>1. add(t, e) = t /\ t # << >>
    BY <1>1, SpecTraceAssumption DEF add
  <2> QED  BY <1>1, <2>1, SpecTraceAssumption
<1>2. CASE ~(Len(t) >= Size)
  <2> DEFINE u == Append(t, e)
  <2>1. add(t, e) = u
    BY <1>2 DEF add
  <2>2. /\ u \in Seq(Events) /\ Len(u) = Len(t) + 1 /\ u # << >>
        /\ DOMAIN u = 1..(Len(t) + 1) /\ u[Len(t) + 1] = e
        /\ \A k \in DOMAIN t : u[k] = t[k]
    OBVIOUS
  <2>3. Places(u, e) = Places(t, e) \cup {Len(t) + 1}
    BY <2>2 DEF Places
  <2>4. ASSUME NEW x \in Events, x # e PROVE Places(u, x) = Places(t, x)
    BY <2>2, <2>4 DEF Places
  <2> HIDE DEF u
  <2> QED  BY <1>2, <2>1, <2>2, <2>3, <2>4, SpecTraceAssumption
<1> QED  BY <1>1, <1>2

LEMMA PlacesFinite ==
  ASSUME NEW t \in Seq(Events), NEW e
  PROVE  /\ IsFiniteSet(Places(t, e))
         /\ Cardinality(Places(t, e)) \in Nat
         /\ Len(t) + 1 \notin Places(t, e)
         /\ Cardinality(Places(t, e) \cup {Len(t) + 1}) = Cardinality(Places(t, e)) + 1
<1>1. Places(t, e) \subseteq 1..Len(t)
  BY DEF Places
<1>2. IsFiniteSet(1..Len(t))
  BY FS_Interval
<1>3. IsFiniteSet(Places(t, e))
  BY <1>1, <1>2, FS_Subset
<1>4. Len(t) + 1 \notin Places(t, e)
  BY <1>1
<1> QED  BY <1>3, <1>4, FS_CardinalityType, FS_AddElement

\* kspecem_panic_info prints every event.
LEMMA PanicInfo ==
  ASSUME NEW t \in Seq(Events) PROVE panic_info(t) = t
<1>1. \A k \in DOMAIN t : t[k] \in Events
  OBVIOUS
<1>2. {k \in DOMAIN t : t[k] \in {"CHECK_CALL_DEPTH", "NEW_CHECKPOINT",
                                  "NEW_CHECKPOINT_INSPEC", "RESTART_RETURN", "RESTART"}} = DOMAIN t
  BY <1>1 DEF Events
<1>3. t = [k \in DOMAIN t |-> t[k]]
  OBVIOUS
<1> QED  BY <1>2, <1>3 DEF panic_info

\* An event that is not a checkpoint leaves the trace's head as it is.
LEMMA HeadKept ==
  ASSUME Inv, trace # << >>, NEW e \in Events, e # "NEW_CHECKPOINT", trace' = add(trace, e)
  PROVE  /\ trace' \in Seq(Events) /\ Len(trace') <= Size /\ trace' # << >>
         /\ Places(trace', "NEW_CHECKPOINT") = {1}
<1>1. trace \in Seq(Events) /\ Len(trace) <= Size /\ "NEW_CHECKPOINT" \in Events
  BY DEF Inv, TypeOK, Events
<1> QED  BY <1>1, AddFacts DEF Inv, HeadInv

\* An event that is neither a call nor a return leaves the counts of them.
LEMMA CountsKept ==
  ASSUME Inv, NEW e \in Events, e \notin {"CHECK_CALL_DEPTH", "RESTART_RETURN"},
         trace' = add(trace, e)
  PROVE  /\ Count("CHECK_CALL_DEPTH")' = Count("CHECK_CALL_DEPTH")
         /\ Count("RESTART_RETURN")' = Count("RESTART_RETURN")
<1>1. trace \in Seq(Events) /\ Len(trace) <= Size
  BY DEF Inv, TypeOK
<1>2. "CHECK_CALL_DEPTH" \in Events /\ "RESTART_RETURN" \in Events
  BY DEF Events
<1>3. /\ Places(trace', "CHECK_CALL_DEPTH") = Places(trace, "CHECK_CALL_DEPTH")
      /\ Places(trace', "RESTART_RETURN") = Places(trace, "RESTART_RETURN")
  BY <1>1, <1>2, AddFacts
<1> QED  BY <1>3 DEF Count, Places

\* A call, or a return, adds one to its own count only.
LEMMA CountOne ==
  ASSUME Inv, NEW e \in Events, NEW x \in Events, x # e, trace' = add(trace, e),
         Len(trace) < Size
  PROVE  /\ Count(e)' = Count(e) + 1 /\ Count(x)' = Count(x)
         /\ Count(e) \in Nat /\ Count(x) \in Nat
<1>1. trace \in Seq(Events) /\ Len(trace) <= Size
  BY DEF Inv, TypeOK
<1>2. /\ Places(trace', e) = Places(trace, e) \cup {Len(trace) + 1}
      /\ Places(trace', x) = Places(trace, x)
  BY <1>1, AddFacts
<1> QED  BY <1>1, <1>2, PlacesFinite DEF Count, Places

-----------------------------------------------------------------------------
(* The invariant *)

LEMMA InitInv == Init => Inv
<1> SUFFICES ASSUME Init PROVE Inv
  OBVIOUS
<1>1. trace \in Seq(Events) /\ printed \in Seq(Events) /\ Len(trace) <= Size
  BY SpecTraceAssumption DEF Init
<1>2. TypeOK
  <2>1. 0 \in 0..MaxDepth
    BY SpecTraceAssumption
  <2> QED  BY <1>1, <2>1 DEF Init, TypeOK
<1> QED  BY <1>2 DEF Inv, Init, ModeInv, HeadInv, DepthInv, EndInv, PanicInv

LEMMA NewCheckpointInv == Inv /\ NewCheckpoint => Inv'
<1> SUFFICES ASSUME Inv, NewCheckpoint PROVE Inv'
  OBVIOUS
<1>1. /\ UNCHANGED <<in_restart, rolling, assert_set, panicked, printed>>
      /\ ~rolling /\ ~panicked
  BY DEF NewCheckpoint, Running
<1>2. CASE in_spec
  <2> DEFINE e == "NEW_CHECKPOINT_INSPEC"
  <2>1. /\ trace' = add(trace, e) /\ UNCHANGED <<in_spec, spec_depth>>
        /\ trace # << >> /\ e \in Events /\ e # "NEW_CHECKPOINT" /\ e # "RESTART"
        /\ e \notin {"CHECK_CALL_DEPTH", "RESTART_RETURN"}
        /\ trace \in Seq(Events) /\ Len(trace) <= Size
    BY <1>2 DEF NewCheckpoint, Inv, HeadInv, TypeOK, Events
  <2> HIDE DEF e
  <2>2. TypeOK' /\ HeadInv'
    BY <1>1, <2>1, HeadKept DEF Inv, TypeOK, HeadInv
  <2>3. ModeInv' /\ PanicInv'
    BY <1>1, <2>1 DEF Inv, ModeInv, PanicInv
  <2>4. Len(trace') < Size => Len(trace) < Size /\ trace'[Len(trace')] = e
    BY <2>1, AddFacts
  <2>5. DepthInv'
    BY <1>1, <2>1, <2>4, CountsKept DEF Inv, DepthInv
  <2>6. EndInv'
    BY <1>1, <1>2, <2>1, <2>4 DEF EndInv
  <2> QED  BY <2>2, <2>3, <2>5, <2>6 DEF Inv
<1>3. CASE ~in_spec
  <2>1. trace' = add(<< >>, "NEW_CHECKPOINT") /\ in_spec' = TRUE /\ spec_depth' = 0
    BY <1>3 DEF NewCheckpoint
  <2>2. trace' = <<"NEW_CHECKPOINT">>
    BY <2>1, SpecTraceAssumption DEF add
  <2>3. trace' \in Seq(Events) /\ Len(trace') = 1 /\ trace' # << >> /\ Len(trace') <= Size
    BY <2>2, SpecTraceAssumption DEF Events
  <2>4. TypeOK'
    BY <1>1, <2>1, <2>3, SpecTraceAssumption DEF Inv, TypeOK
  <2>5. HeadInv'
    BY <2>2, <2>3 DEF HeadInv, Places
  <2>6. ModeInv' /\ PanicInv' /\ EndInv'
    BY <1>1, <2>1, <2>2, <2>3 DEF Inv, ModeInv, PanicInv, EndInv
  <2>7. Count("CHECK_CALL_DEPTH")' = 0 /\ Count("RESTART_RETURN")' = 0
    <3>1. /\ {k \in DOMAIN trace' : trace'[k] = "CHECK_CALL_DEPTH"} = {}
          /\ {k \in DOMAIN trace' : trace'[k] = "RESTART_RETURN"} = {}
      BY <2>2
    <3> QED  BY <3>1, FS_EmptySet DEF Count
  <2>8. DepthInv'
    BY <2>1, <2>7 DEF DepthInv
  <2> QED  BY <2>4, <2>5, <2>6, <2>8 DEF Inv
<1> QED  BY <1>2, <1>3

LEMMA CheckCallDepthInv == Inv /\ CheckCallDepth => Inv'
<1> SUFFICES ASSUME Inv, CheckCallDepth PROVE Inv'
  OBVIOUS
<1> DEFINE e == "CHECK_CALL_DEPTH"
<1>1. /\ trace' = add(trace, e) /\ spec_depth' = spec_depth + 1 /\ spec_depth < MaxDepth
      /\ UNCHANGED <<in_spec, in_restart, rolling, assert_set, panicked, printed>>
      /\ in_spec /\ ~rolling /\ ~panicked /\ trace # << >> /\ spec_depth \in Nat
      /\ trace \in Seq(Events) /\ Len(trace) <= Size
  BY SpecTraceAssumption DEF CheckCallDepth, Running, Inv, HeadInv, TypeOK
<1>2. e \in Events /\ "RESTART_RETURN" \in Events /\ e # "RESTART_RETURN" /\ e # "NEW_CHECKPOINT"
  BY DEF Events
<1>3. TypeOK' /\ HeadInv'
  <2>1. spec_depth' \in 0..MaxDepth
    BY <1>1, SpecTraceAssumption
  <2> QED  BY <1>1, <1>2, <2>1, HeadKept DEF Inv, TypeOK, HeadInv
<1>4. ModeInv' /\ PanicInv'
  BY <1>1 DEF Inv, ModeInv, PanicInv
<1>5. Len(trace') < Size => Len(trace) < Size /\ trace'[Len(trace')] = e
  BY <1>1, <1>2, AddFacts
<1>6. DepthInv'
  <2> SUFFICES ASSUME Len(trace') < Size, ~assert_set
               PROVE  spec_depth' + Count("RESTART_RETURN")' = Count(e)'
    BY <1>1 DEF DepthInv
  <2>1. /\ Count(e)' = Count(e) + 1 /\ Count("RESTART_RETURN")' = Count("RESTART_RETURN")
        /\ Count(e) \in Nat /\ Count("RESTART_RETURN") \in Nat
    BY <1>1, <1>2, <1>5, CountOne
  <2>2. spec_depth + Count("RESTART_RETURN") = Count(e)
    BY <1>1, <1>5 DEF Inv, DepthInv
  <2> QED  BY <1>1, <2>1, <2>2
<1>7. EndInv'
  BY <1>1, <1>5 DEF EndInv
<1> QED  BY <1>3, <1>4, <1>6, <1>7 DEF Inv

LEMMA RestartInv == ASSUME Inv, NEW type \in {"RETURN", "OTHER"}, Restart(type) PROVE Inv'
<1>1. /\ in_spec /\ ~panicked /\ in_restart' = TRUE
      /\ UNCHANGED <<in_spec, assert_set, panicked, printed>>
      /\ trace # << >> /\ spec_depth \in Nat
      /\ trace \in Seq(Events) /\ Len(trace) <= Size
  BY SpecTraceAssumption DEF Restart, Inv, HeadInv, TypeOK
<1>2. CASE LeavesFrame(type)
  <2> DEFINE e == "RESTART_RETURN"
  <2>1. /\ trace' = add(trace, e) /\ spec_depth' = spec_depth - 1 /\ rolling' = rolling
        /\ spec_depth > 0 /\ spec_depth < MaxDepth /\ ~rolling
    BY <1>2 DEF Restart, LeavesFrame
  <2>2. /\ e \in Events /\ "CHECK_CALL_DEPTH" \in Events
        /\ e # "CHECK_CALL_DEPTH" /\ e # "NEW_CHECKPOINT"
    BY DEF Events
  <2>3. TypeOK' /\ HeadInv'
    <3>1. spec_depth' \in 0..MaxDepth
      BY <1>1, <2>1, SpecTraceAssumption
    <3> QED  BY <1>1, <2>1, <2>2, <3>1, HeadKept DEF Inv, TypeOK, HeadInv
  <2>4. ModeInv' /\ PanicInv'
    BY <1>1, <2>1 DEF Inv, ModeInv, PanicInv
  <2>5. Len(trace') < Size => Len(trace) < Size /\ trace'[Len(trace')] = e
    BY <1>1, <2>1, <2>2, AddFacts
  <2>6. DepthInv'
    <3> SUFFICES ASSUME Len(trace') < Size, ~assert_set
                 PROVE  spec_depth' + Count(e)' = Count("CHECK_CALL_DEPTH")'
      BY <1>1 DEF DepthInv
    <3>1. /\ Count(e)' = Count(e) + 1 /\ Count("CHECK_CALL_DEPTH")' = Count("CHECK_CALL_DEPTH")
          /\ Count(e) \in Nat /\ Count("CHECK_CALL_DEPTH") \in Nat
      BY <1>1, <2>1, <2>2, <2>5, CountOne
    <3>2. spec_depth + Count(e) = Count("CHECK_CALL_DEPTH")
      BY <1>1, <2>5 DEF Inv, DepthInv
    <3> QED  BY <1>1, <2>1, <3>1, <3>2
  <2>7. EndInv'
    BY <1>1, <2>1, <2>5 DEF EndInv
  <2> QED  BY <2>3, <2>4, <2>6, <2>7 DEF Inv
<1>3. CASE ~LeavesFrame(type) /\ assert_set
  <2>1. trace' = trace /\ rolling' = TRUE /\ spec_depth' = spec_depth
    BY <1>3 DEF Restart, Recorded
  <2>2. TypeOK' /\ ModeInv' /\ HeadInv' /\ PanicInv'
    BY <1>1, <2>1 DEF Inv, TypeOK, ModeInv, HeadInv, PanicInv
  <2> QED  BY <1>1, <1>3, <2>2 DEF Inv, DepthInv, EndInv
<1>4. CASE ~LeavesFrame(type) /\ ~assert_set
  <2> DEFINE e == "RESTART"
  <2>1. trace' = add(trace, e) /\ rolling' = TRUE /\ spec_depth' = spec_depth
    BY <1>4 DEF Restart, Recorded
  <2>2. e \in Events /\ e # "NEW_CHECKPOINT" /\ e \notin {"CHECK_CALL_DEPTH", "RESTART_RETURN"}
    BY DEF Events
  <2>3. TypeOK' /\ HeadInv'
    BY <1>1, <2>1, <2>2, HeadKept DEF Inv, TypeOK, HeadInv
  <2>4. ModeInv' /\ PanicInv'
    BY <1>1, <2>1 DEF Inv, ModeInv, PanicInv
  <2>5. Len(trace') < Size => Len(trace) < Size /\ trace'[Len(trace')] = e
    BY <1>1, <2>1, <2>2, AddFacts
  <2>6. DepthInv'
    BY <1>1, <2>1, <2>2, <2>5, CountsKept DEF Inv, DepthInv
  <2>7. EndInv'
    BY <1>1, <2>1, <2>5 DEF EndInv
  <2> QED  BY <2>3, <2>4, <2>6, <2>7 DEF Inv
<1> QED  BY <1>2, <1>3, <1>4

LEMMA RollbackInv == Inv /\ Rollback => Inv'
<1> SUFFICES ASSUME Inv, Rollback PROVE Inv'
  OBVIOUS
<1>1. /\ rolling /\ ~panicked /\ in_spec /\ trace # << >> /\ assert_set \in BOOLEAN
      /\ in_spec' = FALSE /\ spec_depth' = 0 /\ in_restart' = FALSE /\ rolling' = FALSE
      /\ panicked' = assert_set /\ UNCHANGED <<assert_set, trace>>
      /\ printed' = IF assert_set THEN panic_info(trace) ELSE printed
      /\ trace \in Seq(Events)
  BY DEF Rollback, Panic, Inv, ModeInv, HeadInv, TypeOK
<1>2. printed' \in Seq(Events) /\ PanicInv'
  BY <1>1, PanicInfo DEF Inv, TypeOK, PanicInv
<1>3. TypeOK'
  <2>1. 0 \in 0..MaxDepth
    BY SpecTraceAssumption
  <2> QED  BY <1>1, <1>2, <2>1 DEF Inv, TypeOK
<1>4. ModeInv' /\ HeadInv' /\ DepthInv'
  BY <1>1 DEF Inv, ModeInv, HeadInv, DepthInv
<1>5. EndInv'
  BY <1>1 DEF Inv, EndInv
<1> QED  BY <1>2, <1>3, <1>4, <1>5 DEF Inv

LEMMA AssertFailsInv == Inv /\ AssertFails => Inv'
<1> SUFFICES ASSUME Inv, AssertFails PROVE Inv'
  OBVIOUS
<1>1. UNCHANGED <<in_spec, spec_depth, trace>> /\ ~panicked /\ trace \in Seq(Events)
  BY DEF AssertFails, Inv, TypeOK
<1>2. CASE in_spec
  <2>1. /\ assert_set' = TRUE /\ in_restart' = TRUE /\ UNCHANGED <<panicked, printed>>
        /\ rolling' \in BOOLEAN
    BY <1>2 DEF AssertFails, Inv, TypeOK
  <2>2. TypeOK' /\ ModeInv' /\ HeadInv' /\ PanicInv'
    BY <1>1, <1>2, <2>1 DEF Inv, TypeOK, ModeInv, HeadInv, PanicInv
  <2> QED  BY <2>1, <2>2 DEF Inv, DepthInv, EndInv
<1>3. CASE ~in_spec
  <2>1. /\ panicked' = TRUE /\ printed' = trace
        /\ UNCHANGED <<assert_set, rolling, in_restart>>
    BY <1>1, <1>3, PanicInfo DEF AssertFails, Panic
  <2>2. TypeOK' /\ ModeInv' /\ HeadInv' /\ PanicInv'
    BY <1>1, <2>1 DEF Inv, TypeOK, ModeInv, HeadInv, PanicInv
  <2>3. DepthInv' /\ EndInv'
    BY <1>1, <1>3, <2>1 DEF Inv, DepthInv, EndInv
  <2> QED  BY <2>2, <2>3 DEF Inv
<1> QED  BY <1>2, <1>3

LEMMA UnchangedInv == Inv /\ UNCHANGED vars => Inv'
BY DEF Inv, vars, TypeOK, ModeInv, HeadInv, DepthInv, EndInv, PanicInv, Count

LEMMA SpecInv == Spec => []Inv
<1>1. Inv /\ [Next]_vars => Inv'
  BY NewCheckpointInv, CheckCallDepthInv, RestartInv, RollbackInv, AssertFailsInv, UnchangedInv
     DEF Next, Done
<1> QED  BY <1>1, InitInv, PTL DEF Spec

-----------------------------------------------------------------------------
(* Theorems *)

\* kspecem_add_spec_statistics stays inside its array, the call depth inside its
\* limit, and what a panic prints is a trace.
THEOREM TypeCorrect == Spec => []TypeOK
BY SpecInv, PTL DEF Inv

\* What a panic prints can be read, whatever speculations went before: the last
\* checkpoint and no other, and while the array has room the current call depth
\* and the end of the speculation.
THEOREM TraceAlwaysExplains == Spec => []TraceExplains
<1>1. Inv => TraceExplains
  <2> SUFFICES ASSUME Inv PROVE TraceExplains
    OBVIOUS
  <2>1. ASSUME trace # << >> PROVE trace[1] = "NEW_CHECKPOINT" /\ Count("NEW_CHECKPOINT") = 1
    <3>1. {k \in DOMAIN trace : trace[k] = "NEW_CHECKPOINT"} = {1}
      BY <2>1 DEF Inv, HeadInv, Places
    <3>2. Cardinality({1}) = 1
      BY FS_Singleton
    <3> QED  BY <3>1, <3>2 DEF Count
  <2>2. ASSUME Len(trace) < Size, ~assert_set, in_spec
        PROVE  spec_depth = Count("CHECK_CALL_DEPTH") - Count("RESTART_RETURN")
    <3>1. Count("CHECK_CALL_DEPTH") \in Nat /\ Count("RESTART_RETURN") \in Nat /\ spec_depth \in Nat
      <4>1. trace \in Seq(Events) /\ spec_depth \in Nat
        BY SpecTraceAssumption DEF Inv, TypeOK
      <4> QED  BY <4>1, PlacesFinite DEF Count, Places
    <3> QED  BY <2>2, <3>1 DEF Inv, DepthInv
  <2>3. in_spec => trace # << >>
    BY DEF Inv, HeadInv
  <2>4. Len(trace) < Size /\ ~assert_set /\ trace # << >> =>
          (rolling \/ ~in_spec <=> Last(trace) = "RESTART")
    BY DEF Inv, EndInv, Last
  <2> QED  BY <2>1, <2>2, <2>3, <2>4 DEF TraceExplains, Inv, PanicInv
<1> QED  BY <1>1, SpecInv, PTL

\* The speculations that are traced keep the contract of the emulation: each
\* step of the trace's program is a step of Emulation, or leaves its state alone.
THEOREM TraceContract == Spec => Contract
<1> USE DEF Speculation!ENext, Speculation!evars
<1>1. Init => Speculation!EInit
  BY DEF Init, Speculation!EInit
<1>2. Inv /\ [Next]_vars => [Speculation!ENext]_(Speculation!evars)
  <2> SUFFICES ASSUME Inv, [Next]_vars PROVE [Speculation!ENext]_(Speculation!evars)
    OBVIOUS
  <2>1. CASE NewCheckpoint
    BY <2>1 DEF NewCheckpoint, Inv, ModeInv, Speculation!ECheckpoint
  <2>2. CASE CheckCallDepth
    BY <2>2 DEF CheckCallDepth, Speculation!ECall
  <2>3. CASE \E type \in {"RETURN", "OTHER"} : Restart(type)
    <3>1. PICK type \in {"RETURN", "OTHER"} : Restart(type)
      BY <2>3
    <3>2. CASE LeavesFrame(type)
      <4>1. spec_depth \in 1..(MaxDepth - 1)
        BY <3>1, <3>2, SpecTraceAssumption DEF Restart, LeavesFrame, Inv, TypeOK
      <4> QED  BY <3>1, <3>2, <4>1 DEF Restart, Speculation!EReturn
    <3>3. CASE ~LeavesFrame(type)
      BY <3>1, <3>3 DEF Restart, Speculation!ERestart
    <3> QED  BY <3>2, <3>3
  <2>4. CASE Rollback
    BY <2>4 DEF Rollback, Inv, ModeInv, Speculation!ERollback
  <2>5. CASE AssertFails
    BY <2>5 DEF AssertFails, Speculation!ERestart
  <2>6. CASE Done \/ UNCHANGED vars
    BY <2>6 DEF Done, vars
  <2> QED  BY <2>1, <2>2, <2>3, <2>4, <2>5, <2>6 DEF Next
<1> QED  BY <1>1, <1>2, SpecInv, PTL DEF Spec, Contract, Speculation!EmulationSpec
=============================================================================
