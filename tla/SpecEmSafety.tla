---------------------------- MODULE SpecEmSafety ----------------------------
(****************************************************************************)
(* What holds of the emulation with NMIs anywhere, for every program and    *)
(* every value of the limits: type correctness, the assertions of the       *)
(* runtime, its contract, and what the program finds between two of its     *)
(* instructions: the call depth is the number of frames above the           *)
(* checkpoint's, and the runtime is left behind.                            *)
(*                                                                          *)
(* All of it rests on what the continuation may hold: which operations may  *)
(* follow which, and which may be pending in a given mode of the runtime.   *)
(****************************************************************************)
EXTENDS SpecEm, TLAPS

-----------------------------------------------------------------------------
(* Continuations are sequences of micro-operations *)

LEMMA Seq1 == ASSUME NEW S, NEW x \in S PROVE <<x>> \in Seq(S)
OBVIOUS

LEMMA Seq2 == ASSUME NEW S, NEW x \in S, NEW y \in S PROVE <<x, y>> \in Seq(S)
OBVIOUS

LEMMA Seq3 == ASSUME NEW S, NEW x \in S, NEW y \in S, NEW z \in S PROVE <<x, y, z>> \in Seq(S)
OBVIOUS

LEMMA Seq4 ==
  ASSUME NEW S, NEW w \in S, NEW x \in S, NEW y \in S, NEW z \in S
  PROVE  <<w, x, y, z>> \in Seq(S)
OBVIOUS

LEMMA SeqConcat ==
  ASSUME NEW S, NEW s \in Seq(S), NEW t \in Seq(S) PROVE s \o t \in Seq(S)
OBVIOUS

LEMMA SeqEmpty == ASSUME NEW S PROVE << >> \in Seq(S)
OBVIOUS

LEMMA OpType ==
  ASSUME NEW op \in OpNames, NEW a \in Int, NEW n \in Int
  PROVE  U(op, a, n) \in MicroOp
BY DEF U, MicroOp

LEMMA NmiType ==
  /\ stop_nmi \in Seq(MicroOp)
  /\ restart_nmi \in Seq(MicroOp)
<1>1. /\ U("hook_store", 8 * IgnoreNmis, 0) \in MicroOp
      /\ U("add", IgnoreNmis, 1) \in MicroOp
      /\ U("add", IgnoreNmis, -1) \in MicroOp
      /\ U("hook_check_spec_length", RestartNmiInsts, 0) \in MicroOp
  BY SpecEmAssumption DEF U, MicroOp, OpNames, IgnoreNmis
<1> QED  BY <1>1, Seq2, Seq3 DEF stop_nmi, restart_nmi

LEMMA LeaveType ==
  ASSUME NEW flags
  PROVE  /\ LEAVE_KSPECEM_NONMI_RT(flags) \in Seq(MicroOp)
         /\ LEAVE_KSPECEM_RT(flags) \in Seq(MicroOp)
<1>1. /\ U("irq_restore", Flag(flags), 0) \in MicroOp
      /\ U("unset_rt", 0, 0) \in MicroOp
  BY DEF U, MicroOp, OpNames, Flag
<1>2. LEAVE_KSPECEM_NONMI_RT(flags) \in Seq(MicroOp)
  BY <1>1, Seq2 DEF LEAVE_KSPECEM_NONMI_RT
<1> QED  BY <1>2, NmiType, SeqConcat DEF LEAVE_KSPECEM_RT

LEMMA SwapBranchType == SwapBranch \in Seq(MicroOp)
<1>1. /\ U("select", 0, 0) \in MicroOp
      /\ U("hook_store", 8 * SwapCondition, 0) \in MicroOp
      /\ U("set", SwapCondition, 0) \in MicroOp
  BY DEF U, MicroOp, OpNames, SwapCondition
<1> DEFINE middle == IF SwapStoreHooked THEN <<U("hook_store", 8 * SwapCondition, 0)>> ELSE << >>
<1>2. middle \in Seq(MicroOp)
  BY <1>1, Seq1, SeqEmpty
<1>3. /\ <<U("select", 0, 0)>> \in Seq(MicroOp)
      /\ <<U("set", SwapCondition, 0)>> \in Seq(MicroOp)
  BY <1>1, Seq1
<1>4. SwapBranch = (<<U("select", 0, 0)>> \o middle) \o <<U("set", SwapCondition, 0)>>
  BY DEF SwapBranch
<1>5. <<U("select", 0, 0)>> \o middle \in Seq(MicroOp)
  BY <1>2, <1>3, SeqConcat
<1> QED  BY ONLY <1>3, <1>4, <1>5, SeqConcat

LEMMA LengthHookType ==
  ASSUME NEW i \in Instr, NEW last PROVE LengthHook(i, last) \in Seq(MicroOp)
<1>1. U("hook_check_spec_length", i.size, 0) \in MicroOp
  BY DEF U, MicroOp, OpNames, Instr
<1> QED  BY <1>1, Seq1, SeqEmpty DEF LengthHook

LEMMA AfterType ==
  ASSUME NEW i \in Instr, NEW flags PROVE AfterSaveRegisters(i, flags) \in Seq(MicroOp)
BY LeaveType, SwapBranchType, LengthHookType, SeqConcat DEF AfterSaveRegisters

LEMMA WriteWlType ==
  ASSUME NEW addr \in Int PROVE WriteWl(addr) \in Seq(MicroOp)
<1>1. /\ U("write_wl", addr \div 8 + 1, 0) \in MicroOp
      /\ U("write_wl", addr \div 8, 0) \in MicroOp
  BY DEF U, MicroOp, OpNames
<1> QED  BY <1>1, Seq1, SeqEmpty, SeqConcat DEF WriteWl

LEMMA InstrumentType ==
  ASSUME NEW i \in Instr PROVE Instrument(i) \in Seq(MicroOp)
<1>1. /\ i.addr \in Int /\ i.size \in Int /\ i.to \in Int
  BY DEF Instr
<1>2. /\ U("hook_store", i.addr, 0) \in MicroOp
      /\ U("hook_memcpy", i.addr, i.size) \in MicroOp
      /\ U("hook_new_checkpoint", 0, 0) \in MicroOp
      /\ U("hook_check_call_depth", 0, 0) \in MicroOp
      /\ U("hook_restart", RESTART_RETURN, 0) \in MicroOp
      /\ U("hook_restart", i.to, 0) \in MicroOp
      /\ U("exec", 0, 0) \in MicroOp
  BY <1>1, OpType DEF OpNames, RESTART_RETURN
<1>3. /\ visitStoreInst(i) \in Seq(MicroOp)
      /\ visitMemIntrinsic(i) \in Seq(MicroOp)
      /\ visitCallInst(i) \in Seq(MicroOp)
      /\ visitReturnInst \in Seq(MicroOp)
      /\ visitEntry \in Seq(MicroOp)
      /\ visitBranchInst \in Seq(MicroOp)
      /\ <<U("exec", 0, 0)>> \in Seq(MicroOp)
  BY <1>2, Seq1 DEF visitStoreInst, visitMemIntrinsic, visitCallInst, visitReturnInst, visitEntry,
                    visitBranchInst
<1>4. /\ LengthHook(i, TRUE) \in Seq(MicroOp)
      /\ LengthHook(i, ~LengthAfterSpec) \in Seq(MicroOp)
      /\ LengthHook(i, ~LengthAfterKSpecEm) \in Seq(MicroOp)
      /\ LengthHook(i, LengthAfterKSpecEm) \in Seq(MicroOp)
  BY LengthHookType
<1> DEFINE exec == <<U("exec", 0, 0)>>
<1>5. /\ visitStoreInst(i) \o exec \in Seq(MicroOp)
      /\ visitMemIntrinsic(i) \o exec \in Seq(MicroOp)
      /\ visitCallInst(i) \o exec \in Seq(MicroOp)
      /\ visitEntry \o exec \in Seq(MicroOp)
      /\ LengthHook(i, TRUE) \o exec \in Seq(MicroOp)
      /\ LengthHook(i, ~LengthAfterSpec) \o visitBranchInst \in Seq(MicroOp)
  BY <1>3, <1>4, SeqConcat
<1>6. LengthHook(i, ~LengthAfterKSpecEm) \o visitReturnInst
        \o LengthHook(i, LengthAfterKSpecEm) \o exec \in Seq(MicroOp)
  BY <1>3, <1>4, SeqConcat
<1>7. exec \in Seq(MicroOp)
  BY <1>3
<1> HIDE DEF exec
<1>8. \/ Instrument(i) = visitStoreInst(i) \o exec
      \/ Instrument(i) = visitMemIntrinsic(i) \o exec
      \/ Instrument(i) = visitCallInst(i) \o exec
      \/ Instrument(i) = visitEntry \o exec
      \/ Instrument(i) = LengthHook(i, TRUE) \o exec
      \/ Instrument(i) = LengthHook(i, ~LengthAfterKSpecEm) \o visitReturnInst
                           \o LengthHook(i, LengthAfterKSpecEm) \o exec
      \/ Instrument(i) = LengthHook(i, ~LengthAfterSpec) \o visitBranchInst
      \/ Instrument(i) = exec
  BY DEF Instrument, exec
<1> QED  BY ONLY <1>5, <1>6, <1>7, <1>8

LEMMA RuntimeType ==
  ASSUME NEW o \in MicroOp, o.op \in EnterOps, NEW flags, prog[pc] \in Instr
  PROVE  Runtime(o, flags) \in Seq(MicroOp)
<1>1. o.a \in Int /\ o.n \in Int /\ o.a - (o.a % 4) \in Int /\ o.a + o.n \in Int
  BY DEF MicroOp
<1>2. /\ U("memcpy", o.a - (o.a % 4), o.a + o.n) \in MicroOp
      /\ U("restart", o.a, 0) \in MicroOp
      /\ U("new_checkpoint", 0, 0) \in MicroOp
      /\ U("save_stack", 0, 0) \in MicroOp
      /\ U("save_registers", Flag(flags), 0) \in MicroOp
      /\ U("init_data", 0, 0) \in MicroOp
      /\ U("init_done", 0, 0) \in MicroOp
  BY <1>1, OpType DEF OpNames, Flag
<1>3. /\ <<U("memcpy", o.a - (o.a % 4), o.a + o.n)>> \in Seq(MicroOp)
      /\ <<U("restart", o.a, 0)>> \in Seq(MicroOp)
      /\ <<U("new_checkpoint", 0, 0), U("save_stack", 0, 0), U("save_registers", Flag(flags), 0)>>
           \in Seq(MicroOp)
      /\ <<U("init_data", 0, 0)>> \in Seq(MicroOp)
      /\ <<U("init_done", 0, 0)>> \in Seq(MicroOp)
  BY <1>2, Seq1, Seq3
<1>4. /\ WriteWl(o.a) \in Seq(MicroOp)
      /\ stop_nmi \in Seq(MicroOp)
      /\ LEAVE_KSPECEM_RT(flags) \in Seq(MicroOp)
      /\ LEAVE_KSPECEM_NONMI_RT(flags) \in Seq(MicroOp)
      /\ AfterSaveRegisters(prog[pc], flags) \in Seq(MicroOp)
  BY <1>1, WriteWlType, NmiType, LeaveType, AfterType
<1>5. CASE o.op = "enter_store"
  BY <1>4, <1>5, SeqConcat DEF Runtime
<1>6. CASE o.op = "enter_memcpy"
  BY <1>3, <1>4, <1>6, SeqConcat DEF Runtime
<1>7. CASE o.op = "enter_restart"
  BY <1>3, <1>4, <1>7, SeqConcat DEF Runtime
<1>8. CASE o.op = "enter_checkpoint"
  BY <1>3, <1>4, <1>8, SeqConcat DEF Runtime
<1>9. CASE o.op = "enter_init"
  BY <1>3, <1>4, <1>9, SeqConcat DEF Runtime
<1> QED  BY <1>5, <1>6, <1>7, <1>8, <1>9 DEF EnterOps

-----------------------------------------------------------------------------
(* What the assumptions on programs give *)

LEMMA ProgramFacts ==
  ASSUME NEW p \in Programs, NEW k \in DOMAIN p
  PROVE  /\ 1 \in DOMAIN p
         /\ p[k] \in Instr
         /\ p[k].op \notin Terminators => k + 1 \in DOMAIN p
         /\ p[k].op \in {"branch", "jump", "call"} => p[k].to \in DOMAIN p
         /\ p[k].op = "branch" => p[k].alt \in DOMAIN p
<1>1. WellFormed(p)
  BY MachineAssumption
<1>2. p \in Seq(Instr) /\ p # << >>
  BY <1>1 DEF WellFormed
<1>3. 1 \in DOMAIN p /\ p[k] \in Instr
  BY <1>2
<1> QED  BY <1>1, <1>3 DEF WellFormed

-----------------------------------------------------------------------------
(* Type correctness *)

\* A pt_regs is typed when its parts are.
LEMMA RegsType ==
  ASSUME NEW P, NEW Q, NEW T, NEW p \in P, NEW q \in Q, NEW i \in BOOLEAN, NEW t \in T
  PROVE  [pc |-> p, sp |-> q, irq |-> i, todo |-> t] \in [pc : P, sp : Q, irq : BOOLEAN, todo : T]
OBVIOUS

LEMMA TypeInit == Init => TypeOK
<1> SUFFICES ASSUME Init PROVE TypeOK
  OBVIOUS
<1>1. prog \in Programs /\ WellFormed(prog)
  BY MachineAssumption DEF Init, MInit
<1>2. 1 \in DOMAIN prog
  BY <1>1 DEF WellFormed
<1>3. 0 \in Words /\ 1 \in 1..MaxSp
  BY MachineAssumption DEF Words, FirstHeap
<1>4. MachineType
  BY <1>1, <1>2, <1>3 DEF Init, MInit, EmStatus, Status, NoReturn, MachineType
<1>5. LogType
  BY <1>3, SpecEmAssumption DEF Init, LogType
<1>6. CkptType
  BY <1>2, <1>3 DEF Init, CkptType, SavedPc, NoInstr
<1>7. << >> \in Seq(MicroOp)
  BY SeqEmpty
<1>8. TodoType /\ IrqType
  <2>1. TodoType
    BY <1>7 DEF Init, TodoType
  <2>2. regs = [pc |-> NoInstr, sp |-> 1, irq |-> FALSE, todo |-> << >>] /\ handler = FALSE
    BY DEF Init
  <2>3. NoInstr \in SavedPc
    BY DEF SavedPc
  <2> QED  BY <1>3, <1>7, <2>1, <2>2, <2>3, RegsType DEF IrqType
<1>9. FlagType
  BY Zenon DEF Init, FlagType
<1>10. CountType
  BY DEF Init, CountType
<1> QED  BY <1>4, <1>5, <1>6, <1>8, <1>9, <1>10 DEF TypeOK

\* An operation that ends, with typed operations in its place.
LEMMA ContinueType ==
  ASSUME TodoType, todo # << >>, NEW s \in Seq(MicroOp), Continue(s)
  PROVE  TodoType'
<1>1. Tail(todo) \in Seq(MicroOp)
  BY DEF TodoType
<1>2. todo' = s \o Tail(todo)
  BY DEF Continue
<1> QED  BY <1>1, <1>2, SeqConcat DEF TodoType

LEMMA HeadType ==
  ASSUME TodoType, todo # << >>
  PROVE  Op \in MicroOp /\ Op.a \in Int /\ Op.n \in Int
<1>1. Op \in MicroOp
  BY DEF TodoType, Op
<1> QED  BY <1>1 DEF MicroOp

\* The parts of the type invariant, each kept by a step that leaves its
\* variables alone.
LEMMA Keep ==
  /\ MachineType /\ UNCHANGED mvars => MachineType'
  /\ FlagType /\ UNCHANGED <<cfgVars, modeVars, in_rt>> => FlagType'
  /\ LogType /\ UNCHANGED logVars => LogType'
  /\ CountType /\ UNCHANGED countVars => CountType'
  /\ CkptType /\ prog' = prog /\ UNCHANGED ckptVars => CkptType'
  /\ IrqType /\ prog' = prog /\ UNCHANGED irqVars => IrqType'
<1>1. MachineType /\ UNCHANGED mvars => MachineType'
  BY Zenon DEF MachineType, mvars
<1>2. FlagType /\ UNCHANGED <<cfgVars, modeVars, in_rt>> => FlagType'
  BY Zenon DEF FlagType, cfgVars, modeVars
<1>3. LogType /\ UNCHANGED logVars => LogType'
  BY Zenon DEF LogType, logVars
<1>4. CountType /\ UNCHANGED countVars => CountType'
  BY Zenon DEF CountType, countVars
<1>5. CkptType /\ prog' = prog /\ UNCHANGED ckptVars => CkptType'
  BY Zenon DEF CkptType, ckptVars, SavedPc
<1>6. IrqType /\ prog' = prog /\ UNCHANGED irqVars => IrqType'
  BY Zenon DEF IrqType, irqVars, SavedPc
<1> QED  BY <1>1, <1>2, <1>3, <1>4, <1>5, <1>6

LEMMA UpdateType ==
  ASSUME NEW S, NEW T, NEW f \in [S -> T], NEW x, NEW v \in T
  PROVE  [f EXCEPT ![x] = v] \in [S -> T]
OBVIOUS

LEMMA WriteType ==
  ASSUME NEW m \in [Words -> Int], NEW ws, NEW v \in Int
  PROVE  Write(m, ws, v) \in [Words -> Int]
BY DEF Write

\* What the type invariant says of the instruction at pc and of the code at
\* the saved instruction pointer.
LEMMA TypeFacts ==
  ASSUME TypeOK
  PROVE  /\ prog \in Programs
         /\ pc \in DOMAIN prog /\ prog[pc] \in Instr
         /\ ResumeOps \in Seq(MicroOp)
         /\ CheckpointRegs \in [pc : SavedPc, sp : 1..MaxSp, irq : BOOLEAN, todo : Seq(MicroOp)]
<1>1. prog \in Programs /\ pc \in DOMAIN prog
  BY DEF TypeOK, MachineType
<1>2. prog[pc] \in Instr
  BY <1>1, ProgramFacts
<1>3. /\ kregs.pc \in SavedPc /\ kregs.sp \in 1..MaxSp /\ kregs.irq \in BOOLEAN
  BY DEF TypeOK, CkptType
<1>4. kregs.pc # NoInstr => prog[kregs.pc] \in Instr
  BY <1>1, <1>3, ProgramFacts DEF SavedPc
<1>5. ResumeOps \in Seq(MicroOp)
  BY <1>4, AfterType, SeqEmpty DEF ResumeOps
<1>6. CheckpointRegs \in [pc : SavedPc, sp : 1..MaxSp, irq : BOOLEAN, todo : Seq(MicroOp)]
  BY <1>3, <1>5, RegsType DEF CheckpointRegs
<1> QED  BY <1>1, <1>2, <1>5, <1>6

\* Taking an exception in speculation keeps the types.
LEMMA ExceptionType ==
  ASSUME TypeOK, NEW type \in Int, NEW top \in Int, Exception(type, top),
         UNCHANGED <<prog, cpuVars, status>>
  PROVE  MachineType' /\ TodoType' /\ IrqType'
<1>1. mem' \in [Words -> Int]
  BY WriteType DEF TypeOK, MachineType, Exception, RtMark
<1>2. irq' \in BOOLEAN /\ handler' \in BOOLEAN
  BY DEF Exception
<1>3. MachineType'
  BY <1>1, <1>2, Zenon DEF TypeOK, MachineType, cpuVars
<1>4. IrqType'
  BY <1>2, TypeFacts DEF Exception, IrqType, SavedPc
<1>5. U("restart_irq", type, top) \in MicroOp /\ U("iret", top, 0) \in MicroOp
  BY OpType DEF OpNames
<1>6. TodoType'
  BY <1>5, Seq2 DEF Exception, TodoType
<1> QED  BY <1>3, <1>4, <1>6

\* An instruction of the program keeps the machine's types.
LEMMA StraightType ==
  ASSUME TypeOK, ~Faults, Straight
  PROVE  MachineType'
<1>1. /\ prog \in Programs /\ pc \in DOMAIN prog /\ prog[pc] \in Instr
      /\ sp \in 1..MaxSp /\ rets \in [1..MaxSp -> DOMAIN prog] /\ mem \in [Words -> Int]
      /\ irq \in BOOLEAN /\ status \in EmStatus
  BY TypeFacts DEF TypeOK, MachineType
<1>2. /\ prog[pc].op \notin Terminators => pc + 1 \in DOMAIN prog
      /\ prog[pc].op \in {"branch", "jump", "call"} => prog[pc].to \in DOMAIN prog
      /\ 1 \in DOMAIN prog
  BY <1>1, ProgramFacts
<1>3. prog[pc].val \in Int
  BY <1>1 DEF Instr
<1>4. CASE Store
  <2>1. mem' \in [Words -> Int]
    BY <1>1, <1>3, <1>4, WriteType DEF Store
  <2>2. pc' \in DOMAIN prog
    BY <1>2, <1>4 DEF Store, Terminators
  <2> QED  BY <1>1, <1>4, <2>1, <2>2, Zenon DEF Store, MachineType
<1>5. CASE Spill
  <2>1. mem' \in [Words -> Int]
    BY <1>1, <1>3, <1>5, WriteType DEF Spill
  <2>2. pc' \in DOMAIN prog
    BY <1>2, <1>5 DEF Spill, Terminators
  <2> QED  BY <1>1, <1>5, <2>1, <2>2, Zenon DEF Spill, MachineType
<1>6. CASE Jump
  <2>1. pc' \in DOMAIN prog
    BY <1>2, <1>6 DEF Jump, Terminators
  <2> QED  BY <1>1, <1>6, <2>1, Zenon DEF Jump, MachineType
<1>7. CASE Call
  <2>1. sp' \in 1..MaxSp
    BY <1>1, <1>7, MachineAssumption DEF Call, Faults
  <2>2. pc' \in DOMAIN prog /\ pc + 1 \in DOMAIN prog
    BY <1>2, <1>7 DEF Call, Terminators
  <2>3. rets' \in [1..MaxSp -> DOMAIN prog]
    BY <1>1, <1>7, <2>2 DEF Call
  <2>4. mem' \in [Words -> Int]
    BY <1>1, <1>7, WriteType DEF Call
  <2> QED  BY <1>1, <1>7, <2>1, <2>2, <2>3, <2>4, Zenon DEF Call, MachineType
<1>8. CASE Return
  <2>1. pc' \in DOMAIN prog /\ sp' \in 1..MaxSp
    BY <1>1, <1>8, MachineAssumption DEF Return
  <2>2. rets' \in [1..MaxSp -> DOMAIN prog]
    BY <1>1, <1>2, <1>8 DEF Return, NoReturn
  <2>3. mem' \in [Words -> Int]
    BY <1>1, <1>8, WriteType DEF Return
  <2>4. status' \in EmStatus
    BY <1>1, <1>8 DEF Return, EmStatus, Status
  <2> QED  BY <1>1, <1>8, <2>1, <2>2, <2>3, <2>4, Zenon DEF Return, MachineType
<1>9. CASE SetIrq
  <2>1. pc' \in DOMAIN prog
    BY <1>2, <1>9 DEF SetIrq, Terminators
  <2>2. irq' \in BOOLEAN
    BY <1>9 DEF SetIrq
  <2> QED  BY <1>1, <1>9, <2>1, <2>2, Zenon DEF SetIrq, MachineType
<1> QED  BY <1>4, <1>5, <1>6, <1>7, <1>8, <1>9 DEF Straight

-----------------------------------------------------------------------------
(* One lemma for every group of actions: a step keeps the types *)

\* The checks at the start of the hooks.
LEMMA HookStepType ==
  ASSUME TypeOK,
         HookStore \/ HookMemcpy \/ HookRestart \/ HookCheckSpecLength \/ HookCheckCallDepth
           \/ HookNewCheckpoint
  PROVE  TypeOK'
<1>0. MachineType /\ TodoType /\ FlagType /\ LogType /\ CountType /\ CkptType /\ IrqType
  BY DEF TypeOK
<1>1. /\ todo # << >>
      /\ UNCHANGED <<mvars, cfgVars, modeVars, logVars, ckptVars, irqVars>>
  BY DEF HookStore, HookMemcpy, HookRestart, HookCheckSpecLength, HookCheckCallDepth,
         HookNewCheckpoint, At
<1>2. Op \in MicroOp /\ Op.a \in Int /\ Op.n \in Int
  BY <1>0, <1>1, HeadType
<1>3. /\ <<U("enter_store", Op.a, 0)>> \in Seq(MicroOp)
      /\ <<U("enter_memcpy", Op.a, Op.n)>> \in Seq(MicroOp)
      /\ <<U("enter_restart", Op.a, 0)>> \in Seq(MicroOp)
      /\ <<U("enter_restart", RESTART_LIMIT_SPEC, 0)>> \in Seq(MicroOp)
      /\ <<U("enter_restart", RESTART_CALL_DEPTH, 0)>> \in Seq(MicroOp)
      /\ <<U("enter_checkpoint", 0, 0)>> \in Seq(MicroOp)
      /\ << >> \in Seq(MicroOp)
  BY <1>2, OpType, Seq1, SeqEmpty DEF OpNames, RESTART_LIMIT_SPEC, RESTART_CALL_DEPTH
<1>4. SwapBranch \o LengthHook(prog[pc], LengthAfterSpec) \in Seq(MicroOp)
  BY TypeFacts, SwapBranchType, LengthHookType, SeqConcat
<1>5. TodoType'
  <2>1. CASE HookStore
    BY <1>0, <1>1, <1>3, <2>1, ContinueType DEF HookStore
  <2>2. CASE HookMemcpy
    BY <1>0, <1>1, <1>3, <2>2, ContinueType DEF HookMemcpy
  <2>3. CASE HookRestart
    BY <1>0, <1>1, <1>3, <2>3, ContinueType DEF HookRestart
  <2>4. CASE HookCheckSpecLength
    BY <1>0, <1>1, <1>3, <2>4, ContinueType DEF HookCheckSpecLength
  <2>5. CASE HookCheckCallDepth
    BY <1>0, <1>1, <1>3, <2>5, ContinueType DEF HookCheckCallDepth
  <2>6. CASE HookNewCheckpoint
    BY <1>0, <1>1, <1>3, <1>4, <2>6, ContinueType DEF HookNewCheckpoint
  <2> QED  BY <2>1, <2>2, <2>3, <2>4, <2>5, <2>6
<1>6. in_rt' \in BOOLEAN
  BY <1>0 DEF FlagType, HookStore, HookMemcpy, HookRestart, HookCheckSpecLength,
              HookCheckCallDepth, HookNewCheckpoint
<1>7. FlagType'
  BY <1>0, <1>1, <1>6, Zenon DEF FlagType, cfgVars, modeVars
<1>8. CountType'
  <2>1. instr_count' = instr_count \/ instr_count' = instr_count + Op.a
    BY DEF countVars, Lengthened, HookStore, HookMemcpy, HookRestart, HookCheckSpecLength,
           HookCheckCallDepth, HookNewCheckpoint
  <2>2. spec_depth' = spec_depth \/ spec_depth' = spec_depth + 1
    BY DEF countVars, HookStore, HookMemcpy, HookRestart, HookCheckSpecLength,
           HookCheckCallDepth, HookNewCheckpoint
  <2> QED  BY <1>0, <1>2, <2>1, <2>2 DEF CountType
<1>9. MachineType' /\ LogType' /\ CkptType' /\ IrqType'
  BY <1>0, <1>1, Keep DEF mvars
<1> QED  BY <1>5, <1>7, <1>8, <1>9 DEF TypeOK

\* Fetching and executing an instruction.
LEMMA InstructionStepType ==
  ASSUME TypeOK, Fetch \/ Exec
  PROVE  TypeOK'
<1>0. MachineType /\ TodoType /\ FlagType /\ LogType /\ CountType /\ CkptType /\ IrqType
  BY DEF TypeOK
<1>1. CASE Fetch
  <2>1. TodoType'
    BY <1>1, TypeFacts, InstrumentType DEF Fetch, TodoType
  <2>2. UNCHANGED <<mvars, cfgVars, modeVars, in_rt, logVars, countVars, ckptVars, irqVars>>
    BY <1>1 DEF Fetch
  <2> QED  BY <1>0, <2>1, <2>2, Keep DEF TypeOK, mvars
<1>2. CASE Exec
  <2>1. /\ todo # << >>
        /\ UNCHANGED <<cfgVars, modeVars, in_rt, logVars, countVars, ckptVars>>
    BY <1>2 DEF Exec, At
  <2>2. MachineType' /\ TodoType' /\ IrqType'
    <3>1. CASE ~Faults /\ Straight /\ Continue(<< >>) /\ UNCHANGED irqVars
      <4>1. MachineType'
        BY <3>1, StraightType
      <4>2. prog' = prog
        BY <3>1 DEF Straight, Store, Spill, Jump, Call, Return, SetIrq
      <4> QED  BY <1>0, <2>1, <3>1, <4>1, <4>2, ContinueType, SeqEmpty, Keep
    <3>2. CASE Oops /\ Continue(<< >>) /\ UNCHANGED irqVars
      <4>0. status' \in EmStatus /\ UNCHANGED <<prog, pc, sp, rets, mem, irq>>
        BY <3>2 DEF Oops, EmStatus, Status
      <4>1. MachineType'
        BY <1>0, <4>0, Zenon DEF MachineType
      <4>2. prog' = prog
        BY <3>2 DEF Oops
      <4> QED  BY <1>0, <2>1, <3>2, <4>1, <4>2, ContinueType, SeqEmpty, Keep
    <3>3. ASSUME NEW type \in Int, Exception(type, sp), UNCHANGED <<prog, cpuVars, status>>
          PROVE  MachineType' /\ TodoType' /\ IrqType'
      <4>1. sp \in Int
        BY <1>0 DEF MachineType
      <4> QED  BY <3>3, <4>1, ExceptionType
    <3> QED  BY <1>2, <3>1, <3>2, <3>3 DEF Exec, RESTART_EXCEPTION, RESTART_PAGE_FAULT
  <2>3. prog' = prog
    BY <1>2 DEF Exec, Straight, Store, Spill, Jump, Call, Return, SetIrq, Oops
  <2> QED  BY <1>0, <2>1, <2>2, <2>3, Keep DEF TypeOK
<1> QED  BY <1>1, <1>2

\* Entering and leaving the runtime, and the stores of the instrumentation.
LEMMA RuntimeStepType ==
  ASSUME TypeOK, Enter \/ IrqRestore \/ UnsetRt \/ SetWord \/ Memcpy
  PROVE  TypeOK'
<1>0. MachineType /\ TodoType /\ FlagType /\ LogType /\ CountType /\ CkptType /\ IrqType
  BY DEF TypeOK
<1>1. /\ todo # << >>
      /\ UNCHANGED <<prog, cpuVars, status, cfgVars, modeVars, logVars, countVars, ckptVars, irqVars>>
  BY DEF Enter, IrqRestore, UnsetRt, SetWord, Memcpy, At, mvars, cpuVars
<1>2. Op \in MicroOp /\ Op.a \in Int /\ Op.n \in Int
  BY <1>0, <1>1, HeadType
<1>3. TodoType'
  <2>1. CASE Enter
    <3>1. Op.op \in EnterOps
      BY <2>1 DEF Enter, At, Op
    <3>2. Runtime(Op, irq) \in Seq(MicroOp)
      BY <1>2, <3>1, TypeFacts, RuntimeType
    <3> QED  BY <1>0, <1>1, <2>1, <3>2, ContinueType DEF Enter
  <2>2. CASE IrqRestore \/ UnsetRt \/ SetWord
    BY <1>0, <1>1, <2>2, ContinueType, SeqEmpty DEF IrqRestore, UnsetRt, SetWord
  <2>3. CASE Memcpy
    <3>1. U("memcpy", Op.a + 8, Op.n) \in MicroOp
      BY <1>2, OpType DEF OpNames
    <3>2. WriteWl(Op.a) \o <<U("memcpy", Op.a + 8, Op.n)>> \in Seq(MicroOp)
      BY <1>2, <3>1, WriteWlType, Seq1, SeqConcat
    <3> QED  BY <1>0, <1>1, <2>3, <3>2, SeqEmpty, ContinueType DEF Memcpy
  <2> QED  BY <2>1, <2>2, <2>3
<1>4. mem' \in [Words -> Int]
  BY <1>0, <1>2 DEF MachineType, Enter, IrqRestore, UnsetRt, SetWord, Memcpy, mvars
<1>5. irq' \in BOOLEAN /\ in_rt' \in BOOLEAN
  BY <1>0 DEF MachineType, FlagType, Enter, IrqRestore, UnsetRt, SetWord, Memcpy, mvars
<1>6. MachineType'
  BY <1>0, <1>1, <1>4, <1>5, Zenon DEF MachineType, cpuVars
<1>7. FlagType'
  BY <1>0, <1>1, <1>5, Zenon DEF FlagType, cfgVars, modeVars
<1> QED  BY <1>0, <1>1, <1>3, <1>6, <1>7, Keep DEF TypeOK

\* Taking a checkpoint.
LEMMA CheckpointStepType ==
  ASSUME TypeOK, NewCheckpoint \/ SaveStack \/ SaveRegisters \/ Select
  PROVE  TypeOK'
<1>0. MachineType /\ TodoType /\ FlagType /\ LogType /\ CountType /\ CkptType /\ IrqType
  BY DEF TypeOK
<1>1. /\ todo # << >> /\ Continue(<< >>)
      /\ UNCHANGED <<prog, sp, rets, irq, status, cfgVars, in_rt, in_restart, wl_addrs, wl_data,
                     irqVars>>
  BY DEF NewCheckpoint, SaveStack, SaveRegisters, Select, At, mvars, cpuVars, modeVars, logVars
<1>2. TodoType'
  BY <1>0, <1>1, ContinueType, SeqEmpty
<1>3. IrqType'
  BY <1>0, <1>1, Keep
<1>4. CASE NewCheckpoint
  <2>1. mem' \in [Words -> Int]
    <3>1. mem' = [mem EXCEPT ![SwapCondition] = 1] \/ mem' = mem
      BY <1>4, Zenon DEF NewCheckpoint
    <3> QED  BY <1>0, <3>1 DEF MachineType
  <2>2. MachineType'
    BY <1>0, <1>4, <2>1, Zenon DEF MachineType, NewCheckpoint, cpuVars
  <2>3. FlagType'
    BY <1>0, <1>4, Zenon DEF FlagType, NewCheckpoint, cfgVars
  <2>4. LogType' /\ CountType'
    BY <1>0, <1>4, SpecEmAssumption DEF LogType, CountType, NewCheckpoint
  <2>5. CkptType'
    BY <1>0, <1>4, Keep DEF NewCheckpoint
  <2> QED  BY <1>2, <1>3, <2>2, <2>3, <2>4, <2>5 DEF TypeOK
<1>5. CASE SaveStack
  <2>1. wl_stack' \in Int /\ wl_base' \in 1..MaxSp
    <3>1. Frame(sp) \in Words
      BY <1>0, MachineAssumption DEF MachineType, Frame, Words, FirstHeap
    <3> QED  BY <1>0, <1>5, <3>1 DEF MachineType, SaveStack, StackCopy
  <2>2. CkptType'
    BY <1>0, <1>1, <1>5, <2>1, Zenon DEF CkptType, SaveStack, SavedPc
  <2> QED  BY <1>0, <1>2, <1>3, <1>5, <2>2, Keep DEF TypeOK, SaveStack
<1>6. CASE SaveRegisters
  <2>1. kregs' \in [pc : SavedPc, sp : 1..MaxSp, irq : BOOLEAN, flags : BOOLEAN]
    <3>1. (Op.a = 1) \in BOOLEAN
      OBVIOUS
    <3>2. kregs' = [pc |-> pc, sp |-> sp, irq |-> irq, flags |-> Op.a = 1]
      BY <1>6 DEF SaveRegisters
    <3>3. pc \in SavedPc
      BY <1>0 DEF MachineType, SavedPc
    <3> QED  BY <1>0, <3>1, <3>2, <3>3 DEF MachineType
  <2>2. CkptType'
    BY <1>0, <1>1, <1>6, <2>1, Zenon DEF CkptType, SavedPc, SaveRegisters
  <2> QED  BY <1>0, <1>2, <1>3, <1>6, <2>2, Keep DEF TypeOK, SaveRegisters
<1>7. CASE Select
  <2>1. pc' \in DOMAIN prog
    BY <1>7, TypeFacts, ProgramFacts DEF Select, Target
  <2>2. MachineType'
    BY <1>0, <1>7, <2>1, Zenon DEF MachineType, Select
  <2> QED  BY <1>0, <1>1, <1>2, <1>3, <1>7, <2>2, Keep DEF TypeOK, Select
<1> QED  BY <1>4, <1>5, <1>6, <1>7

\* A checkpoint that an NMI finds half made.
LEMMA PartlyStepType ==
  ASSUME TypeOK, SavePartly
  PROVE  TypeOK'
<1>0. MachineType /\ TodoType /\ FlagType /\ LogType /\ CountType /\ CkptType /\ IrqType
  BY DEF TypeOK
<1>1. UNCHANGED <<mvars, todo, cfgVars, modeVars, in_rt, logVars, countVars, wl_stack, irqVars>>
  BY DEF SavePartly
<1>2. prog' = prog /\ sp \in 1..MaxSp /\ pc \in DOMAIN prog
  BY <1>0, <1>1 DEF MachineType, mvars
<1>3. wl_base' \in 1..MaxSp
  BY <1>0, <1>2 DEF SavePartly, CkptType
<1>4. kregs' \in [pc : SavedPc, sp : 1..MaxSp, irq : BOOLEAN, flags : BOOLEAN]
  BY <1>0, <1>2 DEF SavePartly, CkptType, SavedPc
<1>5. CkptType'
  BY <1>0, <1>1, <1>2, <1>3, <1>4, Zenon DEF CkptType, SavedPc
<1>6. TodoType'
  BY <1>0, <1>1, Zenon DEF TodoType
<1> QED  BY <1>0, <1>1, <1>2, <1>5, <1>6, Keep DEF TypeOK

\* Logging a word.
LEMMA LogStepType ==
  ASSUME TypeOK, LogWord
  PROVE  TypeOK'
<1>0. MachineType /\ TodoType /\ FlagType /\ LogType /\ CountType /\ CkptType /\ IrqType
  BY DEF TypeOK
<1>1. /\ todo # << >>
      /\ UNCHANGED <<prog, cpuVars, status, cfgVars, modeVars, in_rt, countVars, ckptVars>>
  BY DEF LogWord, At
<1>2. Op.a \in Int /\ sp \in Int
  BY <1>0, <1>1, HeadType DEF MachineType
<1>3. CASE Continue(WhenFull) /\ UNCHANGED <<mem, irq, logVars, irqVars>>
  <2>1. WhenFull \in Seq(MicroOp)
    BY OpType, Seq1 DEF WhenFull, OpNames, RESTART_WRITELOG_FULL
  <2>2. TodoType'
    BY <1>0, <1>1, <1>3, <2>1, ContinueType
  <2>3. UNCHANGED mvars
    BY <1>1, <1>3 DEF mvars, cpuVars
  <2> QED  BY <1>0, <1>1, <1>3, <2>2, <2>3, Keep DEF TypeOK
<1>4. CASE Exception(RESTART_PAGE_FAULT, sp) /\ UNCHANGED logVars
  <2>1. MachineType' /\ TodoType' /\ IrqType'
    BY <1>1, <1>2, <1>4, ExceptionType DEF RESTART_PAGE_FAULT
  <2> QED  BY <1>0, <1>1, <1>4, <2>1, Keep DEF TypeOK
<1>5. CASE /\ wl_pos < WlMax
           /\ ~Unmapped(Op.a)
           /\ wl_addrs' = [wl_addrs EXCEPT ![wl_pos] = Op.a]
           /\ wl_data' = [wl_data EXCEPT ![wl_pos] = mem[Op.a]]
           /\ wl_pos' = wl_pos + 1
           /\ Continue(<< >>)
           /\ UNCHANGED <<mem, irq, irqVars>>
  <2>1. Op.a \in Words
    BY <1>5 DEF Unmapped
  <2>2. mem[Op.a] \in Int
    BY <1>0, <2>1 DEF MachineType
  <2>3. LogType'
    BY <1>0, <1>5, <2>1, <2>2, SpecEmAssumption DEF LogType
  <2>4. TodoType'
    BY <1>0, <1>1, <1>5, SeqEmpty, ContinueType
  <2>5. UNCHANGED mvars
    BY <1>1, <1>5 DEF mvars, cpuVars
  <2> QED  BY <1>0, <1>1, <1>5, <2>3, <2>4, <2>5, Keep DEF TypeOK
<1> QED  BY <1>3, <1>4, <1>5, Zenon DEF LogWord

\* The start of a restart.
LEMMA RestartStepType ==
  ASSUME TypeOK, Restart \/ RestartIrq
  PROVE  TypeOK'
<1>0. MachineType /\ TodoType /\ FlagType /\ LogType /\ CountType /\ CkptType /\ IrqType
  BY DEF TypeOK
<1>1. /\ todo # << >>
      /\ UNCHANGED <<prog, cpuVars, irq, status, cfgVars, in_spec, wl_enabled, in_rt, logVars,
                     instr_count, ckptVars, irqVars>>
  BY DEF Restart, RestartIrq, At, mvars, cpuVars, countVars
<1>2. Op.a \in Int /\ Op.n \in Int /\ sp \in Int
  BY <1>0, <1>1, HeadType DEF MachineType
<1>3. /\ <<U("undo", sp, 0), U("finish", 0, 0)>> \in Seq(MicroOp)
      /\ <<U("undo", Op.n, 1), U("finish", 1, 0)>> \in Seq(MicroOp)
      /\ << >> \in Seq(MicroOp)
  BY <1>2, OpType, Seq2, SeqEmpty DEF OpNames
<1>4. TodoType'
  <2>1. \/ Continue(<< >>)
        \/ Continue(<<U("undo", sp, 0), U("finish", 0, 0)>>)
        \/ Continue(<<U("undo", Op.n, 1), U("finish", 1, 0)>>)
    BY Zenon DEF Restart, RestartIrq
  <2> QED  BY <1>0, <1>1, <1>3, <2>1, ContinueType
<1>5. in_restart' \in BOOLEAN
  <2>1. in_restart' = in_restart \/ in_restart' = TRUE
    BY Zenon DEF Restart, RestartIrq
  <2> QED  BY <1>0, <2>1, Zenon DEF FlagType
<1>6. FlagType'
  BY <1>0, <1>1, <1>5, Zenon DEF FlagType, cfgVars
<1>7. MachineType'
  <2>1. mem' = mem \/ mem' = Write(mem, {Frame(sp + 1), Frame(sp + 2)}, RtMark)
    BY Zenon DEF Restart, RestartIrq, mvars
  <2>2. mem' \in [Words -> Int]
    BY <1>0, <2>1, WriteType DEF MachineType, RtMark
  <2> QED  BY <1>0, <1>1, <2>2, Zenon DEF MachineType, cpuVars
<1>8. CountType'
  <2>1. spec_depth' = spec_depth \/ (spec_depth > 0 /\ spec_depth' = spec_depth - 1)
    BY Zenon DEF Restart, RestartIrq, ReturnInSpeculation, countVars
  <2> QED  BY <1>0, <1>1, <2>1 DEF CountType
<1> QED  BY <1>0, <1>1, <1>4, <1>6, <1>7, <1>8, Keep DEF TypeOK

\* One pass of the restore.
LEMMA UndoStepType ==
  ASSUME TypeOK, Undo
  PROVE  TypeOK'
<1>0. MachineType /\ TodoType /\ FlagType /\ LogType /\ CountType /\ CkptType /\ IrqType
  BY DEF TypeOK
<1>1. /\ todo # << >>
      /\ UNCHANGED <<prog, cpuVars, status, cfgVars, modeVars, in_rt, wl_addrs, wl_data, countVars,
                     ckptVars>>
  BY DEF Undo, At
<1>2. Op.a \in Int /\ NestedTop(Op.a) \in Int
  BY <1>0, <1>1, HeadType DEF NestedTop
<1>3. /\ wl_pos' = wl_pos \/ (wl_pos > 0 /\ wl_pos' = wl_pos - 1)
  BY Zenon DEF Undo
<1>4. LogType'
  BY <1>0, <1>1, <1>3, SpecEmAssumption DEF LogType
<1>5. CASE Exception(RESTART_PAGE_FAULT, NestedTop(Op.a))
  <2>1. MachineType' /\ TodoType' /\ IrqType'
    BY <1>1, <1>2, <1>5, ExceptionType DEF RESTART_PAGE_FAULT
  <2> QED  BY <1>0, <1>1, <1>4, <2>1, Keep DEF TypeOK
<1>6. CASE /\ Continue(<< >>) \/ UNCHANGED todo
           /\ UNCHANGED <<irq, irqVars>>
           /\ \/ mem' = mem
              \/ wl_pos > 0 /\ mem' = [mem EXCEPT ![wl_addrs[wl_pos - 1]] = wl_data[wl_pos - 1]]
  <2>1. TodoType'
    <3>1. CASE Continue(<< >>)
      BY <1>0, <1>1, <3>1, ContinueType, SeqEmpty
    <3>2. CASE UNCHANGED todo
      BY <1>0, <3>2 DEF TodoType
    <3> QED  BY <1>6, <3>1, <3>2
  <2>2. mem' \in [Words -> Int]
    BY <1>0, <1>6, SpecEmAssumption DEF MachineType, LogType
  <2>3. MachineType'
    BY <1>0, <1>1, <1>6, <2>2, Zenon DEF MachineType, cpuVars
  <2> QED  BY <1>0, <1>1, <1>4, <1>6, <2>1, <2>3, Keep DEF TypeOK
<1> QED  BY <1>5, <1>6, Zenon DEF Undo

\* Registers that are loaded leave the machine well typed.
LEMMA ResumeType ==
  ASSUME MachineType, NEW r, r.pc \in SavedPc, r.sp \in 1..MaxSp, r.irq \in BOOLEAN, Resume(r)
  PROVE  /\ pc' \in DOMAIN prog /\ sp' \in 1..MaxSp /\ irq' \in BOOLEAN
         /\ status' \in EmStatus
<1>1. CASE r.pc = NoInstr
  <2>1. status' = "oops" /\ UNCHANGED <<pc, sp, irq>>
    BY <1>1, Zenon DEF Resume
  <2> QED  BY <2>1, Zenon DEF MachineType, EmStatus, Status
<1>2. CASE r.pc # NoInstr
  <2>1. pc' = r.pc /\ sp' = r.sp /\ irq' = r.irq /\ status' = status
    BY <1>2, Zenon DEF Resume
  <2>2. r.pc \in DOMAIN prog
    BY <1>2, Zenon DEF SavedPc
  <2> QED  BY <2>1, <2>2, Zenon DEF MachineType
<1> QED  BY <1>1, <1>2

\* The end of a restart.
LEMMA FinishStepType ==
  ASSUME TypeOK, Finish
  PROVE  TypeOK'
<1>0. MachineType /\ TodoType /\ FlagType /\ LogType /\ CountType /\ CkptType /\ IrqType
  BY DEF TypeOK
<1>1. /\ todo # << >>
      /\ UNCHANGED <<prog, rets, cfgVars, logVars, instr_count, ckptVars, irqVars>>
      /\ wl_enabled' = FALSE /\ in_spec' = FALSE /\ in_restart' = FALSE
      /\ spec_depth' = 0
  BY DEF Finish, At
<1>2. mem' \in [Words -> Int]
  <2>1. mem' = [mem EXCEPT ![SwapCondition] = 0, ![Frame(wl_base)] = wl_stack]
    BY DEF Finish, FinishMem
  <2>2. mem \in [Words -> Int] /\ 0 \in Int /\ wl_stack \in Int
    BY <1>0 DEF MachineType, CkptType
  <2>3. [mem EXCEPT ![SwapCondition] = 0] \in [Words -> Int]
    BY <2>2, UpdateType
  <2>4. mem' = [[mem EXCEPT ![SwapCondition] = 0] EXCEPT ![Frame(wl_base)] = wl_stack]
    BY <2>1, Zenon
  <2> QED  BY ONLY <2>2, <2>3, <2>4, UpdateType
<1>3. kregs.pc \in SavedPc /\ kregs.sp \in 1..MaxSp /\ kregs.irq \in BOOLEAN
  BY <1>0 DEF CkptType
<1>4. /\ Resume(kregs) \/ UNCHANGED <<pc, sp, irq, status>>
      /\ in_rt' = in_rt \/ in_rt' = FALSE
      /\ Continue(<< >>) \/ todo' = ResumeOps
  BY Zenon DEF Finish
<1>5. MachineType'
  <2>1. /\ pc' \in DOMAIN prog /\ sp' \in 1..MaxSp /\ irq' \in BOOLEAN
        /\ status' \in EmStatus
    BY <1>0, <1>3, <1>4, ResumeType DEF MachineType
  <2> QED  BY <1>0, <1>1, <1>2, <2>1, Zenon DEF MachineType
<1>6. FlagType'
  <2>1. in_rt' \in BOOLEAN
    BY <1>0, <1>4, Zenon DEF FlagType
  <2>2. /\ wl_enabled' \in BOOLEAN /\ in_spec' \in BOOLEAN /\ in_restart' \in BOOLEAN
    BY <1>1, Zenon
  <2> QED  BY <1>0, <1>1, <2>1, <2>2, Zenon DEF FlagType, cfgVars
<1>7. TodoType'
  <2>1. CASE Continue(<< >>)
    BY <1>0, <1>1, <2>1, ContinueType, SeqEmpty
  <2>2. CASE todo' = ResumeOps
    BY <2>2, TypeFacts DEF TodoType
  <2> QED  BY <1>4, <2>1, <2>2
<1>8. CountType'
  BY <1>0, <1>1 DEF CountType
<1> QED  BY <1>0, <1>1, <1>5, <1>6, <1>7, <1>8, Keep DEF TypeOK

\* Interrupts.
LEMMA InterruptStepType ==
  ASSUME TypeOK, TimerInterrupt \/ HookInterruptTimer \/ HandleTick \/ Iret \/ Nmi
  PROVE  TypeOK'
<1>0. MachineType /\ TodoType /\ FlagType /\ LogType /\ CountType /\ CkptType /\ IrqType
  BY DEF TypeOK
<1>1. UNCHANGED <<prog, rets, cfgVars, modeVars, in_rt, logVars, countVars, ckptVars>>
  BY DEF TimerInterrupt, HookInterruptTimer, HandleTick, Iret, Nmi, mvars, cpuVars
<1>2. CASE TimerInterrupt
  <2>1. mem' \in [Words -> Int]
    BY <1>0, <1>2, WriteType DEF MachineType, TimerInterrupt, RtMark
  <2>2. irq' \in BOOLEAN /\ handler' \in BOOLEAN
    BY <1>2 DEF TimerInterrupt
  <2>3. MachineType'
    BY <1>0, <1>1, <1>2, <2>1, <2>2, Zenon DEF MachineType, TimerInterrupt, cpuVars
  <2>4. sp \in Int
    BY <1>0 DEF MachineType
  <2>5. /\ U("hook_interrupt_timer", sp, 0) \in MicroOp
        /\ U("tick", sp, 0) \in MicroOp
        /\ U("hook_restart", RESTART_RETURN, 0) \in MicroOp
        /\ U("iret", sp, 0) \in MicroOp
    BY <2>4, OpType DEF OpNames, RESTART_RETURN
  <2>6. TodoType'
    BY <1>2, <2>5, Seq4 DEF TimerInterrupt, TodoType
  <2>7. regs' \in [pc : SavedPc, sp : 1..MaxSp, irq : BOOLEAN, todo : Seq(MicroOp)]
    <3>1. /\ pc \in SavedPc /\ sp \in 1..MaxSp /\ irq \in BOOLEAN
          /\ todo \in Seq(MicroOp)
      BY <1>0, Zenon DEF MachineType, TodoType, SavedPc
    <3>2. regs' = [pc |-> pc, sp |-> sp, irq |-> irq, todo |-> todo]
      BY <1>2 DEF TimerInterrupt
    <3>3. [pc |-> pc, sp |-> sp, irq |-> irq, todo |-> todo]
            \in [pc : SavedPc, sp : 1..MaxSp, irq : BOOLEAN, todo : Seq(MicroOp)]
      BY <3>1, RegsType
    <3> QED  BY ONLY <3>2, <3>3
  <2>8. IrqType'
    BY <1>1, <2>2, <2>7, Zenon DEF IrqType, SavedPc
  <2> QED  BY <1>0, <1>1, <2>3, <2>6, <2>8, Keep DEF TypeOK
<1>3. CASE HookInterruptTimer
  <2>1. /\ todo # << >>
        /\ UNCHANGED <<mvars, handler>>
    BY <1>3 DEF HookInterruptTimer, At
  <2>2. TodoType'
    <3>1. <<U("restart_irq", RESTART_TIMER, Op.a)>> \in Seq(MicroOp)
      BY <1>0, <2>1, HeadType, OpType, Seq1 DEF OpNames, RESTART_TIMER
    <3>2. Continue(<<U("restart_irq", RESTART_TIMER, Op.a)>>) \/ Continue(<< >>)
      BY <1>3, Zenon DEF HookInterruptTimer
    <3> QED  BY <1>0, <2>1, <3>1, <3>2, ContinueType, SeqEmpty
  <2>3. IrqType'
    <3>1. regs' = regs \/ regs' = CheckpointRegs
      BY <1>3, Zenon DEF HookInterruptTimer
    <3> QED  BY <1>0, <1>1, <2>1, <3>1, TypeFacts, Zenon DEF IrqType, SavedPc
  <2> QED  BY <1>0, <1>1, <2>1, <2>2, <2>3, Keep DEF TypeOK
<1>4. CASE HandleTick
  <2>1. /\ todo # << >> /\ Continue(<< >>)
        /\ UNCHANGED <<cpuVars, irq, status, irqVars>>
    BY <1>4 DEF HandleTick, At
  <2>2. mem' \in [Words -> Int]
    <3>1. mem' = [mem EXCEPT ![Jiffies] = IF mem[SwapCondition] = 1 THEN @ ELSE @ + 1,
                             ![SwapCondition] = 0]
      BY <1>4 DEF HandleTick
    <3>2. mem[Jiffies] \in Int
      BY <1>0, MachineAssumption DEF MachineType, Words, Jiffies, FirstHeap
    <3>3. mem \in [Words -> Int]
      BY <1>0 DEF MachineType
    <3> DEFINE v == IF mem[SwapCondition] = 1 THEN mem[Jiffies] ELSE mem[Jiffies] + 1
    <3>4. [mem EXCEPT ![Jiffies] = v] \in [Words -> Int]
      <4>1. v \in Int
        BY <3>2
      <4> QED  BY <3>3, <4>1, UpdateType
    <3>5. mem' = [[mem EXCEPT ![Jiffies] = v] EXCEPT ![SwapCondition] = 0]
      BY <3>1, Zenon
    <3> QED  BY <3>4, <3>5, UpdateType
  <2>3. MachineType'
    BY <1>0, <1>1, <2>1, <2>2, Zenon DEF MachineType, cpuVars
  <2>4. TodoType'
    BY <1>0, <2>1, ContinueType, SeqEmpty
  <2> QED  BY <1>0, <1>1, <2>1, <2>3, <2>4, Keep DEF TypeOK
<1>5. CASE Iret
  <2>1. /\ regs.pc \in SavedPc /\ regs.sp \in 1..MaxSp /\ regs.irq \in BOOLEAN
        /\ regs.todo \in Seq(MicroOp)
    BY <1>0 DEF IrqType
  <2>2. MachineType'
    <3>1. Resume(regs) /\ mem' = mem
      BY <1>5, Zenon DEF Iret
    <3> QED  BY <1>0, <1>1, <2>1, <3>1, ResumeType, Zenon DEF MachineType
  <2>3. TodoType'
    BY <1>5, <2>1, Zenon DEF Iret, TodoType
  <2>4. IrqType'
    <3>1. handler' \in BOOLEAN /\ regs' = regs
      BY <1>5, Zenon DEF Iret
    <3> QED  BY <1>0, <1>1, <3>1, Zenon DEF IrqType, SavedPc
  <2> QED  BY <1>0, <1>1, <2>2, <2>3, <2>4, Keep DEF TypeOK
<1>6. CASE Nmi
  <2>1. /\ Exception(RESTART_EXCEPTION, sp)
        /\ UNCHANGED <<prog, cpuVars, status>>
    BY <1>6 DEF Nmi
  <2>2. RESTART_EXCEPTION \in Int /\ sp \in Int
    BY <1>0 DEF RESTART_EXCEPTION, MachineType
  <2>3. MachineType' /\ TodoType' /\ IrqType'
    BY <2>1, <2>2, ExceptionType
  <2> QED  BY <1>0, <1>1, <2>3, Keep DEF TypeOK
<1> QED  BY <1>2, <1>3, <1>4, <1>5, <1>6

\* Steps that end the kernel and change nothing else.
Halt == UndoInUse \/ NmiBetweenFlags

LEMMA HaltFacts ==
  ASSUME Halt
  PROVE  /\ status' # "running" /\ status' \in EmStatus /\ todo # << >>
         /\ UNCHANGED <<prog, pc, sp, rets, mem, irq, todo, init_done, swap_enabled, in_spec, wl_enabled,
                        in_restart, in_rt, wl_addrs, wl_data, wl_pos, instr_count, spec_depth, kregs,
                        wl_stack, wl_base, handler, regs>>
BY DEF Halt, UndoInUse, NmiBetweenFlags, At, EmStatus, cpuVars, cfgVars, modeVars, logVars, countVars, ckptVars,
       irqVars

LEMMA HaltStepType ==
  ASSUME TypeOK, Halt
  PROVE  TypeOK'
<1>0. MachineType /\ TodoType /\ FlagType /\ LogType /\ CountType /\ CkptType /\ IrqType
  BY DEF TypeOK
<1>1. /\ status' \in EmStatus
      /\ UNCHANGED <<prog, pc, sp, rets, mem, irq, todo>>
      /\ UNCHANGED <<cfgVars, modeVars, in_rt, logVars, countVars, ckptVars, irqVars>>
  BY HaltFacts DEF cfgVars, modeVars, logVars, countVars, ckptVars, irqVars
<1>2. MachineType'
  BY <1>0, <1>1, Zenon DEF MachineType
<1>3. TodoType'
  BY <1>0, <1>1, Zenon DEF TodoType
<1> QED  BY <1>0, <1>1, <1>2, <1>3, Keep DEF TypeOK

\* An NMI in a pass of the restore.
LEMMA NmiInUndoType ==
  ASSUME TypeOK, NmiInUndo
  PROVE  TypeOK'
<1>0. MachineType /\ TodoType /\ FlagType /\ LogType /\ CountType /\ CkptType /\ IrqType
  BY DEF TypeOK
<1>1. /\ wl_pos > 0 /\ wl_pos' = wl_pos - 1 /\ Exception(RESTART_EXCEPTION, sp)
      /\ UNCHANGED <<prog, cpuVars, status, cfgVars, modeVars, in_rt, wl_addrs, wl_data, countVars,
                     ckptVars>>
  BY DEF NmiInUndo
<1>2. RESTART_EXCEPTION \in Int /\ sp \in Int
  BY <1>0 DEF RESTART_EXCEPTION, MachineType
<1>3. MachineType' /\ TodoType' /\ IrqType'
  BY <1>1, <1>2, ExceptionType
<1>4. LogType'
  BY <1>0, <1>1, SpecEmAssumption DEF LogType
<1> QED  BY <1>0, <1>1, <1>3, <1>4, Keep DEF TypeOK

\* Initialisation and the debugfs files.
LEMMA InitStepType ==
  ASSUME TypeOK, Enable \/ InitData \/ InitDone \/ SetSpecEnabled
  PROVE  TypeOK'
<1>0. MachineType /\ TodoType /\ FlagType /\ LogType /\ CountType /\ CkptType /\ IrqType
  BY DEF TypeOK
<1>1. CASE Enable
  <2>1. UNCHANGED <<mvars, cfgVars, modeVars, logVars, countVars, ckptVars, irqVars>>
    BY <1>1 DEF Enable
  <2>2. TodoType'
    <3>1. <<U("enter_init", 0, 0)>> \in Seq(MicroOp)
      BY OpType, Seq1 DEF OpNames
    <3> QED  BY <1>1, <3>1 DEF Enable, TodoType
  <2>3. FlagType'
    <3>1. in_rt' \in BOOLEAN
      BY <1>1, Zenon DEF Enable
    <3> QED  BY <1>0, <2>1, <3>1, Zenon DEF FlagType, cfgVars, modeVars
  <2> QED  BY <1>0, <2>1, <2>2, <2>3, Keep DEF TypeOK, mvars
<1>2. CASE InitData
  <2>1. /\ todo # << >> /\ Continue(<< >>)
        /\ UNCHANGED <<prog, cpuVars, irq, status, cfgVars, in_rt, in_restart, wl_addrs, wl_data,
                       ckptVars, irqVars>>
    BY <1>2 DEF InitData, At
  <2>2. mem' \in [Words -> Int]
    <3>1. mem' = [mem EXCEPT ![SwapCondition] = 0]
      BY <1>2 DEF InitData
    <3>2. mem \in [Words -> Int] /\ 0 \in Int
      BY <1>0 DEF MachineType
    <3> QED  BY ONLY <3>1, <3>2, UpdateType
  <2>3. MachineType'
    BY <1>0, <2>1, <2>2, Zenon DEF MachineType, cpuVars
  <2>4. TodoType'
    BY <1>0, <2>1, ContinueType, SeqEmpty
  <2>5. FlagType'
    <3>1. in_spec' \in BOOLEAN /\ wl_enabled' \in BOOLEAN
      BY <1>2, Zenon DEF InitData
    <3> QED  BY <1>0, <2>1, <3>1, Zenon DEF FlagType, cfgVars
  <2>6. LogType'
    BY <1>0, <1>2, <2>1, SpecEmAssumption DEF LogType, InitData
  <2>7. CountType'
    BY <1>2 DEF CountType, InitData
  <2> QED  BY <1>0, <2>1, <2>3, <2>4, <2>5, <2>6, <2>7, Keep DEF TypeOK
<1>3. CASE InitDone
  <2>1. /\ todo # << >> /\ Continue(<< >>)
        /\ UNCHANGED <<mvars, swap_enabled, modeVars, in_rt, logVars, countVars, ckptVars, irqVars>>
        /\ init_done' \in BOOLEAN
    BY <1>3 DEF InitDone, At
  <2>2. TodoType'
    BY <1>0, <2>1, ContinueType, SeqEmpty
  <2>3. FlagType'
    BY <1>0, <2>1, Zenon DEF FlagType, modeVars
  <2> QED  BY <1>0, <2>1, <2>2, <2>3, Keep DEF TypeOK, mvars
<1>4. CASE SetSpecEnabled
  <2>1. /\ UNCHANGED <<mvars, todo, init_done, modeVars, in_rt, logVars, countVars, ckptVars, irqVars>>
        /\ swap_enabled' = ~swap_enabled
    BY <1>4 DEF SetSpecEnabled
  <2>2. TodoType'
    BY <1>0, <2>1, Zenon DEF TodoType
  <2>3. FlagType'
    BY <1>0, <2>1, Zenon DEF FlagType, modeVars
  <2> QED  BY <1>0, <2>1, <2>2, <2>3, Keep DEF TypeOK, mvars
<1> QED  BY <1>1, <1>2, <1>3, <1>4

LEMMA TypeStep == TypeOK /\ [Next]_vars => TypeOK'
<1> SUFFICES ASSUME TypeOK, [Next]_vars PROVE TypeOK'
  OBVIOUS
<1>1. CASE UNCHANGED vars
  <2>1. MachineType /\ TodoType /\ FlagType /\ LogType /\ CountType /\ CkptType /\ IrqType
    BY DEF TypeOK
  <2>2. TodoType'
    BY <1>1, <2>1, Zenon DEF vars, TodoType
  <2>3. UNCHANGED <<mvars, cfgVars, modeVars, in_rt, logVars, countVars, ckptVars, irqVars>>
    BY <1>1, Zenon DEF vars
  <2> QED  BY <2>1, <2>2, <2>3, Keep DEF TypeOK, mvars
<1>2. CASE Cpu
  BY <1>2, HookStepType, InstructionStepType, RuntimeStepType, CheckpointStepType, LogStepType,
     RestartStepType, UndoStepType, FinishStepType, InterruptStepType, InitStepType, PartlyStepType,
     HaltStepType, Zenon DEF Cpu, Halt
<1>3. CASE Environment
  BY <1>3, InterruptStepType, InitStepType, HaltStepType, NmiInUndoType, Zenon DEF Environment, Halt
<1> QED  BY <1>1, <1>2, <1>3, Zenon DEF Next, Done

\* Every reachable state of every instrumented program is well typed: no hook,
\* restart, fault or interrupt leaves a log position outside the log, a
\* negative call depth (kspecem_restart decrements it on returns), a write-log
\* address outside memory, or registers that point outside the program or its
\* stack.
THEOREM TypeCorrect == Spec => []TypeOK
<1> QED  BY TypeInit, TypeStep, PTL DEF Spec

-----------------------------------------------------------------------------
(* What may be left to do *)

\* Operations of the runtime proper: interrupts are disabled.
Masked ==
  {"write_wl", "memcpy", "new_checkpoint", "save_stack", "save_registers", "restart",
   "restart_irq", "undo", "finish", "add", "irq_restore", "init_data"}

\* The last operation of its code, and the first.
LastOps  == {"exec", "hook_new_checkpoint", "enter_checkpoint", "enter_init", "init_done", "iret"}
FirstOps == {"undo", "restart_irq", "hook_interrupt_timer"}

CheckpointOps == {"enter_checkpoint", "new_checkpoint"}
InitOps       == {"enter_init", "init_data", "init_done"}
LogOps        == {"enter_store", "enter_memcpy", "write_wl", "memcpy"}
RollbackOps   == {"restart_irq", "undo", "finish"}
InterruptOps  == {"hook_interrupt_timer", "tick", "iret", "restart_irq"}

\* What a handler may have left: the stores of stop_nmi and restart_nmi and the
\* restart of a return, none of them active, and a rollback.
HandlerOps ==
  InterruptOps \cup RollbackOps \cup
  {"hook_restart", "enter_restart", "restart", "hook_store", "add", "irq_restore", "unset_rt",
   "hook_check_spec_length"}

RestartOps == {"hook_restart", "enter_restart", "restart"}

IsReturn(x) == x.op \in RestartOps /\ x.a = RESTART_RETURN

\* x may come before y.
Precedes(x, y) ==
  /\ x.op \notin LastOps /\ y.op \notin FirstOps
  /\ y.op = "finish" => x.op = "undo"
  /\ x.op = "irq_restore" /\ x.a = 1 => y.op \notin Masked
  /\ y.op \in CheckpointOps => x.op \notin {"new_checkpoint", "save_stack", "save_registers"}
  /\ x.op = "hook_check_call_depth" => y.op = "exec"
  /\ x.op = "select" => y.op \in {"hook_store", "set", "hook_check_spec_length"}
  /\ x.op = "set" => y.op = "hook_check_spec_length"
  /\ ~(IsReturn(x) /\ IsReturn(y))
  /\ ~(x.op = "tick" /\ y.op = "tick")

Elems(t) == {t[k] : k \in DOMAIN t}

Ordered(t) == \A j, k \in DOMAIN t : j < k => Precedes(t[j], t[k])

\* x may be pending with interrupts i, in a handler or not (h), in speculation
\* or not (s), after initialisation or not (d).
Allowed(x, i, h, s, d) ==
  /\ x.op = "add" => x.a = IgnoreNmis
  /\ x.op = "set" => x.a = SwapCondition /\ x.n = 0
  /\ x.op \in Masked => ~i
  /\ x.op \in LogOps \cup RollbackOps => s
  /\ x.op \in CheckpointOps => ~s /\ d
  /\ x.op \in InitOps => ~d
  /\ IF h THEN /\ x.op \in HandlerOps
               /\ x.op = "finish" => x.a = 1
               /\ x.op = "irq_restore" => x.a # 1
          ELSE /\ x.op \notin InterruptOps
               /\ x.op = "finish" => x.a = 0

Code(t, i, h, s, d) == Ordered(t) /\ \A x \in Elems(t) : Allowed(x, i, h, s, d)

-----------------------------------------------------------------------------
(* The invariant *)

TodoInv == Code(todo, irq, handler, in_spec, init_done)

ModeInv ==
  /\ wl_enabled = in_spec
  /\ in_spec => init_done
  /\ ~in_spec => spec_depth = 0 /\ ~in_restart /\ mem[SwapCondition] = 0
  /\ ~kregs.irq

\* The code that an interrupt returns to; once a rollback has begun it is that
\* behind the checkpoint.
RegsInv ==
  handler => /\ ~irq
             /\ Code(regs.todo, regs.irq, FALSE, in_spec, init_done)
             /\ \A x \in Elems(regs.todo) : x.op \notin RollbackOps
             /\ in_spec => /\ todo # << >>
                           /\ Op.op \in RollbackOps \cup {"hook_interrupt_timer"}
                           /\ Op.op \in RollbackOps =>
                                \A x \in Elems(regs.todo) : x.op \notin LogOps

\* A restore ends when the log is empty, with the rest of the restart.
LogInv ==
  todo # << >> => /\ Op.op = "finish" => wl_pos = 0
                  /\ Op.op = "undo" => Tail(todo) # << >> /\ Head(Tail(todo)).op = "finish"

Limit == IF MaxDepth = 0 THEN 1 ELSE MaxDepth

\* At the limit a restart is pending, and it is not that of a return.
LimitInv ==
  /\ spec_depth <= Limit
  /\ in_spec /\ ~handler /\ spec_depth = Limit =>
       /\ \E x \in Elems(todo) : x.op \in {"enter_restart", "restart", "finish"}
       /\ \A x \in Elems(todo) : x.op # "hook_check_call_depth" /\ ~IsReturn(x)

\* An operation op is left to do.
Has(t, op) == \E x \in Elems(t) : x.op = op

-----------------------------------------------------------------------------
(* Sequences of operations *)

\* The operations of two pieces of code, one after the other.
LEMMA ElemsConcat ==
  ASSUME NEW S, NEW s \in Seq(S), NEW t \in Seq(S)
  PROVE  Elems(s \o t) = Elems(s) \cup Elems(t)
<1> DEFINE m == Len(s)
           n == Len(t)
<1>1. m \in Nat /\ n \in Nat /\ DOMAIN s = 1..m /\ DOMAIN t = 1..n /\ DOMAIN (s \o t) = 1..(m + n)
  OBVIOUS
<1>2. \A k \in 1..m : (s \o t)[k] = s[k]
  OBVIOUS
<1>3. \A k \in 1..n : (s \o t)[m + k] = t[k] /\ m + k \in 1..(m + n)
  OBVIOUS
<1> HIDE DEF m, n
<1>4. ASSUME NEW k \in 1..(m + n) PROVE (s \o t)[k] \in Elems(s) \cup Elems(t)
  <2>1. CASE k \in 1..m
    BY <1>1, <1>2, <2>1 DEF Elems
  <2>2. CASE k \notin 1..m
    <3>1. k - m \in 1..n /\ m + (k - m) = k
      BY <1>1, <2>2
    <3>2. (s \o t)[k] = t[k - m]
      BY <1>3, <3>1
    <3> QED  BY <1>1, <3>1, <3>2 DEF Elems
  <2> QED  BY <2>1, <2>2
<1>5. ASSUME NEW k \in 1..m PROVE s[k] \in Elems(s \o t)
  <2>1. k \in 1..(m + n)
    BY <1>1
  <2> QED  BY <1>1, <1>2, <2>1 DEF Elems
<1>6. ASSUME NEW k \in 1..n PROVE t[k] \in Elems(s \o t)
  BY <1>1, <1>3 DEF Elems
<1>7. Elems(s \o t) \subseteq Elems(s) \cup Elems(t)
  BY <1>1, <1>4 DEF Elems
<1>8. Elems(s) \cup Elems(t) \subseteq Elems(s \o t)
  BY <1>1, <1>5, <1>6 DEF Elems
<1> QED  BY <1>7, <1>8

\* The next operation and the rest.
LEMMA HeadAndTail ==
  ASSUME NEW S, NEW t \in Seq(S), t # << >>
  PROVE  /\ Tail(t) \in Seq(S) /\ Head(t) \in S /\ Head(t) = t[1]
         /\ Len(t) \in Nat /\ Len(t) >= 1
         /\ DOMAIN t = 1..Len(t) /\ DOMAIN Tail(t) = 1..(Len(t) - 1)
         /\ \A k \in 1..(Len(t) - 1) : Tail(t)[k] = t[k + 1] /\ k + 1 \in 1..Len(t)
         /\ \A k \in 2..Len(t) : k - 1 \in 1..(Len(t) - 1) /\ t[k] = Tail(t)[k - 1]
OBVIOUS

LEMMA ElemsTail ==
  ASSUME NEW S, NEW t \in Seq(S), t # << >>
  PROVE  Elems(t) = {Head(t)} \cup Elems(Tail(t))
<1> DEFINE n == Len(t)
           u == Tail(t)
<1>1. /\ Head(t) = t[1] /\ n \in Nat /\ n >= 1 /\ DOMAIN t = 1..n /\ DOMAIN u = 1..(n - 1)
      /\ \A k \in 1..(n - 1) : u[k] = t[k + 1] /\ k + 1 \in 1..n
      /\ \A k \in 2..n : k - 1 \in 1..(n - 1) /\ t[k] = u[k - 1]
  BY HeadAndTail
<1> HIDE DEF n, u
<1>2. 1 \in 1..n /\ \A k \in 1..n : k = 1 \/ k \in 2..n
  BY <1>1
<1>3. Elems(t) \subseteq {Head(t)} \cup Elems(u)
  <2>1. ASSUME NEW k \in 1..n PROVE t[k] \in {Head(t)} \cup Elems(u)
    <3>1. CASE k = 1
      BY <1>1, <3>1
    <3>2. CASE k \in 2..n
      <4>1. k - 1 \in DOMAIN u /\ t[k] = u[k - 1]
        BY <1>1, <3>2
      <4> QED  BY <4>1 DEF Elems
    <3> QED  BY <1>2, <3>1, <3>2
  <2> QED  BY <1>1, <2>1 DEF Elems
<1>4. Head(t) \in Elems(t)
  BY <1>1, <1>2 DEF Elems
<1>5. Elems(u) \subseteq Elems(t)
  <2>1. ASSUME NEW k \in 1..(n - 1) PROVE u[k] \in Elems(t)
    <3>1. k + 1 \in DOMAIN t /\ u[k] = t[k + 1]
      BY <1>1
    <3> QED  BY <3>1 DEF Elems
  <2> QED  BY <1>1, <2>1 DEF Elems
<1> QED  BY <1>3, <1>4, <1>5 DEF u

\* Order, of what is left and of what is put before it.
LEMMA OrderedTail ==
  ASSUME NEW S, NEW t \in Seq(S), t # << >>, Ordered(t)
  PROVE  Ordered(Tail(t)) /\ \A y \in Elems(Tail(t)) : Precedes(Head(t), y)
<1> DEFINE n == Len(t)
           u == Tail(t)
<1>1. /\ Head(t) = t[1] /\ n \in Nat /\ n >= 1 /\ DOMAIN t = 1..n /\ DOMAIN u = 1..(n - 1)
      /\ \A k \in 1..(n - 1) : u[k] = t[k + 1] /\ k + 1 \in 1..n
  BY HeadAndTail
<1> HIDE DEF n, u
<1>2. ASSUME NEW j \in 1..(n - 1), NEW k \in 1..(n - 1), j < k PROVE Precedes(u[j], u[k])
  <2>1. j + 1 \in DOMAIN t /\ k + 1 \in DOMAIN t /\ j + 1 < k + 1
    BY <1>1, <1>2
  <2>2. Precedes(t[j + 1], t[k + 1])
    BY <2>1 DEF Ordered
  <2> QED  BY <1>1, <2>2
<1>3. ASSUME NEW k \in 1..(n - 1) PROVE Precedes(Head(t), u[k])
  <2>1. 1 \in DOMAIN t /\ k + 1 \in DOMAIN t /\ 1 < k + 1
    BY <1>1
  <2>2. Precedes(t[1], t[k + 1])
    BY <2>1 DEF Ordered
  <2> QED  BY <1>1, <2>2
<1>4. Ordered(u)
  BY <1>1, <1>2 DEF Ordered
<1>5. \A y \in Elems(u) : Precedes(Head(t), y)
  BY <1>1, <1>3 DEF Elems
<1> QED  BY <1>4, <1>5 DEF u

LEMMA OrderedConcat ==
  ASSUME NEW S, NEW s \in Seq(S), NEW t \in Seq(S), Ordered(s), Ordered(t),
         \A x \in Elems(s), y \in Elems(t) : Precedes(x, y)
  PROVE  Ordered(s \o t)
<1> DEFINE m == Len(s)
           n == Len(t)
           c == s \o t
<1>1. m \in Nat /\ n \in Nat /\ DOMAIN s = 1..m /\ DOMAIN t = 1..n /\ DOMAIN c = 1..(m + n)
  OBVIOUS
<1>2. \A k \in 1..m : c[k] = s[k]
  OBVIOUS
<1>3. \A k \in 1..n : c[m + k] = t[k]
  OBVIOUS
<1> HIDE DEF m, n, c
<1>4. ASSUME NEW k \in 1..(m + n), k \notin 1..m
      PROVE  k - m \in 1..n /\ c[k] = t[k - m]
  <2>1. k - m \in 1..n /\ m + (k - m) = k
    BY <1>1, <1>4
  <2> QED  BY <1>3, <2>1
<1>5. ASSUME NEW j \in 1..(m + n), NEW k \in 1..(m + n), j < k PROVE Precedes(c[j], c[k])
  <2>1. CASE k \in 1..m
    <3>1. j \in 1..m
      BY <1>1, <1>5, <2>1
    <3> QED  BY <1>1, <1>2, <1>5, <2>1, <3>1 DEF Ordered
  <2>2. CASE k \notin 1..m /\ j \notin 1..m
    <3>1. j - m \in DOMAIN t /\ k - m \in DOMAIN t /\ j - m < k - m
      BY <1>1, <1>4, <1>5, <2>2
    <3>2. Precedes(t[j - m], t[k - m])
      BY <3>1 DEF Ordered
    <3> QED  BY <1>4, <2>2, <3>2
  <2>3. CASE k \notin 1..m /\ j \in 1..m
    <3>1. c[j] \in Elems(s) /\ c[k] \in Elems(t)
      BY <1>1, <1>2, <1>4, <2>3 DEF Elems
    <3> QED  BY <3>1
  <2> QED  BY <2>1, <2>2, <2>3
<1> QED  BY <1>1, <1>5 DEF Ordered, c

\* Short code.
LEMMA Short ==
  /\ Elems(<< >>) = {} /\ Ordered(<< >>)
  /\ \A x : Elems(<<x>>) = {x} /\ Ordered(<<x>>)
  /\ \A x, y : Elems(<<x, y>>) = {x, y} /\ (Precedes(x, y) => Ordered(<<x, y>>))
  /\ \A x, y, z : Elems(<<x, y, z>>) = {x, y, z}
  /\ \A x, y, z : Precedes(x, y) /\ Precedes(x, z) /\ Precedes(y, z) => Ordered(<<x, y, z>>)
<1>1. Elems(<< >>) = {} /\ Ordered(<< >>)
  BY DEF Elems, Ordered
<1>2. \A x : Elems(<<x>>) = {x} /\ Ordered(<<x>>)
  BY DEF Elems, Ordered
<1>3. ASSUME NEW x, NEW y PROVE Elems(<<x, y>>) = {x, y} /\ (Precedes(x, y) => Ordered(<<x, y>>))
  <2>1. DOMAIN <<x, y>> = {1, 2} /\ <<x, y>>[1] = x /\ <<x, y>>[2] = y
    OBVIOUS
  <2> QED  BY <2>1 DEF Elems, Ordered
<1>4. ASSUME NEW x, NEW y, NEW z
      PROVE  /\ Elems(<<x, y, z>>) = {x, y, z}
             /\ Precedes(x, y) /\ Precedes(x, z) /\ Precedes(y, z) => Ordered(<<x, y, z>>)
  <2> DEFINE t == <<x, y, z>>
  <2>1. DOMAIN t = {1, 2, 3} /\ t[1] = x /\ t[2] = y /\ t[3] = z
    OBVIOUS
  <2> HIDE DEF t
  <2>2. Elems(t) = {x, y, z}
    BY <2>1 DEF Elems
  <2>3. Precedes(x, y) /\ Precedes(x, z) /\ Precedes(y, z) => Ordered(t)
    BY <2>1 DEF Ordered
  <2> QED  BY <2>2, <2>3 DEF t
<1> QED  BY <1>1, <1>2, <1>3, <1>4
-----------------------------------------------------------------------------
(* The code of the hooks *)

\* Code in order; its stores are those of ignore_nmis and of the swap condition.
Sound(t) ==
  /\ t \in Seq(MicroOp)
  /\ Ordered(t)
  /\ \A x \in Elems(t) : /\ x.op = "add" => x.a = IgnoreNmis
                         /\ x.op = "set" => x.a = SwapCondition /\ x.n = 0

\* Such code, of the operations O.
Made(t, O) == Sound(t) /\ \A x \in Elems(t) : x.op \in O

\* Operations that may come before any other, and ones that may come after.
Quiet == {"hook_store", "add", "hook_check_spec_length", "unset_rt", "write_wl", "memcpy",
          "init_data"}

Follows(y) == y.op \notin FirstOps /\ y.op # "finish"

LEMMA QuietPrecedes ==
  ASSUME NEW x, NEW y, x.op \in Quiet, Follows(y)
  PROVE  Precedes(x, y)
BY DEF Quiet, Follows, Precedes, LastOps, IsReturn, RestartOps

\* s may come before t.
Fits(s, t) == \A x \in Elems(s), y \in Elems(t) : Precedes(x, y)

\* One piece of code after another.
LEMMA Join ==
  ASSUME NEW s, NEW t, Sound(s), Sound(t), Fits(s, t)
  PROVE  Sound(s \o t) /\ Elems(s \o t) = Elems(s) \cup Elems(t)
<1>1. s \in Seq(MicroOp) /\ t \in Seq(MicroOp) /\ Ordered(s) /\ Ordered(t)
  BY DEF Sound
<1>2. Ordered(s \o t)
  BY <1>1, OrderedConcat DEF Fits
<1>3. Elems(s \o t) = Elems(s) \cup Elems(t)
  BY <1>1, ElemsConcat
<1>4. s \o t \in Seq(MicroOp)
  BY <1>1, SeqConcat
<1> QED  BY <1>2, <1>3, <1>4 DEF Sound

NmiOps   == {"hook_store", "add", "hook_check_spec_length"}
LeaveOps == NmiOps \cup {"irq_restore", "unset_rt"}

LEMMA NmiCode == Made(stop_nmi, NmiOps) /\ Made(restart_nmi, NmiOps)
<1> DEFINE h == U("hook_store", 8 * IgnoreNmis, 0)
           a == U("add", IgnoreNmis, 1)
           b == U("add", IgnoreNmis, -1)
           l == U("hook_check_spec_length", RestartNmiInsts, 0)
<1>1. /\ h.op = "hook_store" /\ a.op = "add" /\ a.a = IgnoreNmis /\ b.op = "add" /\ b.a = IgnoreNmis
      /\ l.op = "hook_check_spec_length"
  BY DEF U
<1>2. stop_nmi = <<h, a>> /\ restart_nmi = <<h, b, l>>
  BY DEF stop_nmi, restart_nmi
<1> HIDE DEF h, a, b, l
<1>3. /\ h.op \in Quiet /\ a.op \in Quiet /\ b.op \in Quiet /\ l.op \in Quiet
      /\ Follows(h) /\ Follows(a) /\ Follows(b) /\ Follows(l)
  BY <1>1 DEF Quiet, Follows, FirstOps
<1>4. Precedes(h, a) /\ Precedes(h, b) /\ Precedes(h, l) /\ Precedes(b, l)
  BY <1>3, QuietPrecedes
<1>5. /\ Ordered(stop_nmi) /\ Elems(stop_nmi) = {h, a}
      /\ Ordered(restart_nmi) /\ Elems(restart_nmi) = {h, b, l}
  BY <1>2, <1>4, Short
<1> QED  BY <1>1, <1>5, NmiType DEF Made, Sound, NmiOps

\* Leaving the runtime gives back the interrupt flag of its entry.
LEMMA LeaveCode ==
  ASSUME NEW f \in BOOLEAN
  PROVE  /\ Made(LEAVE_KSPECEM_NONMI_RT(f), {"irq_restore", "unset_rt"})
         /\ Made(LEAVE_KSPECEM_RT(f), LeaveOps)
         /\ \A x \in Elems(LEAVE_KSPECEM_NONMI_RT(f)) : x.op = "irq_restore" => x.a = Flag(f)
         /\ \A x \in Elems(LEAVE_KSPECEM_RT(f)) : x.op = "irq_restore" => x.a = Flag(f)
         /\ Has(LEAVE_KSPECEM_NONMI_RT(f), "unset_rt") /\ Has(LEAVE_KSPECEM_NONMI_RT(f), "irq_restore")
         /\ Has(LEAVE_KSPECEM_RT(f), "unset_rt") /\ Has(LEAVE_KSPECEM_RT(f), "irq_restore")
<1> DEFINE r == U("irq_restore", Flag(f), 0)
           u == U("unset_rt", 0, 0)
           n == LEAVE_KSPECEM_NONMI_RT(f)
<1>1. r.op = "irq_restore" /\ r.a = Flag(f) /\ u.op = "unset_rt"
  BY DEF U
<1>2. n = <<r, u>>
  BY DEF LEAVE_KSPECEM_NONMI_RT
<1> HIDE DEF r, u, n
<1>3. Precedes(r, u)
  BY <1>1 DEF Precedes, LastOps, FirstOps, Masked, IsReturn, RestartOps
<1>4. Ordered(n) /\ Elems(n) = {r, u}
  BY <1>2, <1>3, Short
<1>5. Made(n, {"irq_restore", "unset_rt"})
  BY <1>1, <1>4, LeaveType DEF Made, Sound, n
<1>6. Fits(restart_nmi, n)
  <2>1. \A x \in Elems(restart_nmi) : x.op \in Quiet
    BY NmiCode DEF Made, NmiOps, Quiet
  <2>2. \A y \in Elems(n) : Follows(y)
    BY <1>1, <1>4 DEF Follows, FirstOps
  <2> QED  BY <2>1, <2>2, QuietPrecedes DEF Fits
<1>7. LEAVE_KSPECEM_RT(f) = restart_nmi \o n
  BY DEF LEAVE_KSPECEM_RT, n
<1>8. /\ Made(restart_nmi \o n, NmiOps \cup {"irq_restore", "unset_rt"})
      /\ Elems(restart_nmi \o n) = Elems(restart_nmi) \cup Elems(n)
  BY <1>5, <1>6, NmiCode, Join DEF Made
<1>9. \A x \in Elems(restart_nmi) : x.op # "irq_restore"
  BY NmiCode DEF Made, NmiOps
<1> QED  BY <1>1, <1>4, <1>5, <1>7, <1>8, <1>9 DEF Has, LeaveOps, n

AfterOps == LeaveOps \cup {"select", "set"}

LEMMA LengthCode ==
  ASSUME NEW i \in Instr, NEW here \in BOOLEAN
  PROVE  Made(LengthHook(i, here), {"hook_check_spec_length"})
<1> DEFINE e == U("hook_check_spec_length", i.size, 0)
<1>1. e.op = "hook_check_spec_length" /\ e \in MicroOp
  BY DEF U, MicroOp, OpNames, Instr
<1>2. LengthHook(i, here) = IF here THEN <<e>> ELSE << >>
  BY DEF LengthHook
<1> HIDE DEF e
<1> QED  BY <1>1, <1>2, Seq1, SeqEmpty, Short DEF Made, Sound

LEMMA SwapCode ==
  Made(SwapBranch, {"select", "hook_store", "set"}) /\ Has(SwapBranch, "set")
<1> DEFINE a == U("select", 0, 0)
           h == U("hook_store", 8 * SwapCondition, 0)
           s == U("set", SwapCondition, 0)
           m == IF SwapStoreHooked THEN <<h>> ELSE << >>
<1>1. /\ a.op = "select" /\ h.op = "hook_store" /\ s.op = "set" /\ s.a = SwapCondition /\ s.n = 0
  BY DEF U
<1>2. a \in MicroOp /\ h \in MicroOp /\ s \in MicroOp
  BY DEF U, MicroOp, OpNames, SwapCondition
<1>3. SwapBranch = (<<a>> \o m) \o <<s>>
  BY DEF SwapBranch
<1> HIDE DEF a, h, s
<1>4. Sound(<<a>>) /\ Sound(<<s>>) /\ Elems(<<a>>) = {a} /\ Elems(<<s>>) = {s}
  BY <1>1, <1>2, Seq1, Short DEF Sound
<1>5. Sound(m) /\ Elems(m) \subseteq {h}
  BY <1>1, <1>2, Seq1, SeqEmpty, Short DEF Sound
<1> HIDE DEF m
<1>6. Precedes(a, h) /\ Precedes(a, s) /\ Precedes(h, s)
  BY <1>1 DEF Precedes, LastOps, FirstOps, IsReturn, RestartOps, CheckpointOps
<1> DEFINE am == <<a>> \o m
<1>7. Sound(am) /\ Elems(am) \subseteq {a, h}
  <2>1. Fits(<<a>>, m)
    BY <1>4, <1>5, <1>6 DEF Fits
  <2> QED  BY <1>4, <1>5, <2>1, Join
<1> HIDE DEF am
<1>8. Sound(am \o <<s>>) /\ Elems(am \o <<s>>) = Elems(am) \cup {s}
  <2>1. Fits(am, <<s>>)
    BY <1>4, <1>6, <1>7 DEF Fits
  <2> QED  BY <1>4, <1>7, <2>1, Join
<1> QED  BY <1>1, <1>3, <1>7, <1>8 DEF am, Made, Has

BranchedOps == {"select", "hook_store", "set", "hook_check_spec_length"}

\* The branch itself, up to the next one.
LEMMA BranchCode ==
  ASSUME NEW i \in Instr
  PROVE  LET t == SwapBranch \o LengthHook(i, LengthAfterSpec) IN
         Made(t, BranchedOps) /\ Has(t, "set")
<1> DEFINE l == LengthHook(i, LengthAfterSpec)
           b == SwapBranch
<1>1. Made(l, {"hook_check_spec_length"}) /\ Made(b, {"select", "hook_store", "set"}) /\ Has(b, "set")
  BY LengthCode, SwapCode, SpecEmAssumption
<1> HIDE DEF l, b
<1>2. Fits(b, l)
  BY <1>1 DEF Made, Fits, Precedes, LastOps, FirstOps, IsReturn, RestartOps, CheckpointOps
<1>3. Sound(b \o l) /\ Elems(b \o l) = Elems(b) \cup Elems(l)
  BY <1>1, <1>2, Join DEF Made
<1> QED  BY <1>1, <1>3 DEF Made, Has, BranchedOps, b, l

\* The code behind a checkpoint.
LEMMA AfterCode ==
  ASSUME NEW i \in Instr, NEW f \in BOOLEAN
  PROVE  LET t == AfterSaveRegisters(i, f) IN
         /\ Made(t, AfterOps)
         /\ \A x \in Elems(t) : x.op = "irq_restore" => x.a = Flag(f)
         /\ Has(t, "unset_rt") /\ Has(t, "irq_restore") /\ Has(t, "set")
<1> DEFINE r == LEAVE_KSPECEM_RT(f)
           b == SwapBranch
           l == LengthHook(i, LengthAfterSpec)
           rb == r \o b
<1>1. /\ Made(r, LeaveOps) /\ \A x \in Elems(r) : x.op = "irq_restore" => x.a = Flag(f)
      /\ Has(r, "unset_rt") /\ Has(r, "irq_restore")
  BY LeaveCode
<1>2. Made(b, {"select", "hook_store", "set"}) /\ Has(b, "set")
  BY SwapCode
<1>3. Made(l, {"hook_check_spec_length"})
  BY LengthCode, SpecEmAssumption
<1>4. AfterSaveRegisters(i, f) = rb \o l
  BY DEF AfterSaveRegisters
<1> HIDE DEF r, b, l
<1>5. \A x \in Elems(r), y \in Elems(b) \cup Elems(l) : Precedes(x, y)
  <2> SUFFICES ASSUME NEW x \in Elems(r), NEW y \in Elems(b) \cup Elems(l) PROVE Precedes(x, y)
    OBVIOUS
  <2>1. x.op \in LeaveOps /\ y.op \in {"select", "hook_store", "set", "hook_check_spec_length"}
    BY <1>1, <1>2, <1>3 DEF Made
  <2> QED  BY <2>1 DEF LeaveOps, NmiOps, Precedes, LastOps, FirstOps, IsReturn, RestartOps, Masked,
                       CheckpointOps
<1>6. \A x \in Elems(b), y \in Elems(l) : Precedes(x, y)
  BY <1>2, <1>3 DEF Made, Precedes, LastOps, FirstOps, IsReturn, RestartOps, CheckpointOps
<1>7. Sound(rb) /\ Elems(rb) = Elems(r) \cup Elems(b)
  BY <1>1, <1>2, <1>5, Join DEF Made, Fits
<1> HIDE DEF rb
<1>8. Sound(rb \o l) /\ Elems(rb \o l) = Elems(rb) \cup Elems(l)
  BY <1>3, <1>5, <1>6, <1>7, Join DEF Made, Fits
<1> DEFINE t == rb \o l
<1> HIDE DEF t
<1>9. Elems(t) = Elems(r) \cup Elems(b) \cup Elems(l) /\ Sound(t)
  BY <1>7, <1>8 DEF t
<1>10. Made(t, AfterOps)
  BY <1>1, <1>2, <1>3, <1>9 DEF Made, AfterOps, LeaveOps, NmiOps
<1>11. \A x \in Elems(t) : x.op = "irq_restore" => x.a = Flag(f)
  BY <1>1, <1>2, <1>3, <1>9 DEF Made
<1>12. Has(t, "unset_rt") /\ Has(t, "irq_restore") /\ Has(t, "set")
  BY <1>1, <1>2, <1>9 DEF Has
<1> QED  BY <1>4, <1>10, <1>11, <1>12 DEF t

\* The words that a write logs.
LEMMA WriteWlCode ==
  ASSUME NEW addr \in Int
  PROVE  Made(WriteWl(addr), {"write_wl"}) /\ U("write_wl", addr \div 8, 0) \in Elems(WriteWl(addr))
<1> DEFINE x == U("write_wl", addr \div 8 + 1, 0)
           y == U("write_wl", addr \div 8, 0)
           s == IF addr % 8 # 0 THEN <<x>> ELSE << >>
<1>1. x \in MicroOp /\ y \in MicroOp /\ x.op = "write_wl" /\ y.op = "write_wl"
  BY DEF U, MicroOp, OpNames
<1>2. WriteWl(addr) = s \o <<y>>
  BY DEF WriteWl
<1> HIDE DEF x, y
<1>3. Made(s, {"write_wl"}) /\ Elems(s) \subseteq {x}
  BY <1>1, Seq1, SeqEmpty, Short DEF Made, Sound
<1>4. Made(<<y>>, {"write_wl"}) /\ Elems(<<y>>) = {y}
  BY <1>1, Seq1, Short DEF Made, Sound
<1> HIDE DEF s
<1>5. Precedes(x, y)
  BY <1>1 DEF Precedes, LastOps, FirstOps, IsReturn, RestartOps
<1>6. Made(s \o <<y>>, {"write_wl"} \cup {"write_wl"}) /\ Elems(s \o <<y>>) = Elems(s) \cup Elems(<<y>>)
  <2>1. Fits(s, <<y>>)
    BY <1>3, <1>4, <1>5 DEF Fits
  <2> QED  BY <1>3, <1>4, <2>1, Join DEF Made
<1> QED  BY <1>2, <1>4, <1>6 DEF y

\* A step of the runtime between stop_nmi and leaving.
LEMMA WrapCode ==
  ASSUME NEW f \in BOOLEAN, NEW x \in MicroOp, x.op \in {"memcpy", "restart", "init_data"}
  PROVE  LET t == stop_nmi \o <<x>> \o LEAVE_KSPECEM_RT(f) IN
         /\ Made(t, LeaveOps \cup {x.op})
         /\ Elems(t) = Elems(stop_nmi) \cup {x} \cup Elems(LEAVE_KSPECEM_RT(f))
<1> DEFINE r == LEAVE_KSPECEM_RT(f)
           sx == stop_nmi \o <<x>>
<1>1. Made(stop_nmi, NmiOps) /\ Made(r, LeaveOps)
  BY NmiCode, LeaveCode
<1>2. x.op # "add" /\ x.op # "set" /\ Follows(x)
  BY DEF Follows, FirstOps
<1>3. Made(<<x>>, {x.op}) /\ Elems(<<x>>) = {x}
  BY <1>2, Seq1, Short DEF Made, Sound
<1>4. \A y \in Elems(stop_nmi) : y.op \in Quiet
  BY <1>1 DEF Made, NmiOps, Quiet
<1>5. Fits(stop_nmi, <<x>>)
  BY <1>2, <1>3, <1>4, QuietPrecedes DEF Fits
<1>6. Made(sx, NmiOps \cup {x.op}) /\ Elems(sx) = Elems(stop_nmi) \cup {x}
  BY <1>1, <1>3, <1>5, Join DEF Made
<1> HIDE DEF r, sx
<1>7. ASSUME NEW z \in Elems(r) PROVE /\ z.op \in LeaveOps /\ Follows(z) /\ Precedes(x, z)
  <2>1. z.op \in LeaveOps
    BY <1>1 DEF Made
  <2> QED  BY <2>1 DEF LeaveOps, NmiOps, Follows, FirstOps, Precedes, LastOps, IsReturn, RestartOps
<1>8. Fits(sx, r)
  BY <1>4, <1>6, <1>7, QuietPrecedes DEF Fits
<1>9. Made(sx \o r, (NmiOps \cup {x.op}) \cup LeaveOps) /\ Elems(sx \o r) = Elems(sx) \cup Elems(r)
  BY <1>1, <1>6, <1>8, Join DEF Made
<1>10. (NmiOps \cup {x.op}) \cup LeaveOps = LeaveOps \cup {x.op}
  BY DEF LeaveOps
<1> QED  BY <1>6, <1>9, <1>10 DEF sx, r

RuntimeOps(op) ==
  CASE op = "enter_store"      -> {"write_wl", "irq_restore", "unset_rt"}
    [] op = "enter_memcpy"     -> LeaveOps \cup {"memcpy"}
    [] op = "enter_restart"    -> LeaveOps \cup {"restart"}
    [] op = "enter_checkpoint" -> AfterOps \cup {"new_checkpoint", "save_stack", "save_registers"}
    [] op = "enter_init"       -> LeaveOps \cup {"init_data", "init_done"}

RuntimeFacts(t, o, f) ==
  /\ Made(t, RuntimeOps(o.op))
  /\ \A x \in Elems(t) : x.op = "irq_restore" => x.a = Flag(f)
  /\ \A x \in Elems(t) : x.op = "restart" => x.a = o.a
  /\ Has(t, "unset_rt") /\ Has(t, "irq_restore")
  /\ o.op = "enter_restart" => Has(t, "restart")
  /\ o.op = "enter_checkpoint" => Has(t, "set") /\ Has(t, "save_registers")

\* A checkpoint, up to the branch.
LEMMA CheckpointCode ==
  ASSUME NEW o \in MicroOp, o.op = "enter_checkpoint", NEW f \in BOOLEAN, prog[pc] \in Instr
  PROVE  RuntimeFacts(Runtime(o, f), o, f)
<1> DEFINE n == U("new_checkpoint", 0, 0)
           s == U("save_stack", 0, 0)
           g == U("save_registers", Flag(f), 0)
           k == <<n, s, g>>
           a == AfterSaveRegisters(prog[pc], f)
           O == {"new_checkpoint", "save_stack", "save_registers"}
<1>1. n.op = "new_checkpoint" /\ s.op = "save_stack" /\ g.op = "save_registers"
  BY DEF U
<1>2. n \in MicroOp /\ s \in MicroOp /\ g \in MicroOp
  BY DEF U, MicroOp, OpNames, Flag
<1>3. Runtime(o, f) = (stop_nmi \o k) \o a
  BY DEF Runtime
<1>4. /\ Made(a, AfterOps) /\ \A x \in Elems(a) : x.op = "irq_restore" => x.a = Flag(f)
      /\ Has(a, "unset_rt") /\ Has(a, "irq_restore") /\ Has(a, "set")
  BY AfterCode
<1> HIDE DEF n, s, g, a
<1>5. Precedes(n, s) /\ Precedes(n, g) /\ Precedes(s, g)
  BY <1>1 DEF Precedes, CheckpointOps, LastOps, FirstOps, IsReturn, RestartOps
<1>6. Made(k, O) /\ Elems(k) = {n, s, g}
  BY <1>1, <1>2, <1>5, Seq3, Short DEF Made, Sound
<1> HIDE DEF k, O
<1>7. Fits(stop_nmi, k)
  <2>1. \A y \in Elems(stop_nmi) : y.op \in Quiet
    BY NmiCode DEF Made, NmiOps, Quiet
  <2>2. \A z \in Elems(k) : Follows(z)
    BY <1>1, <1>6 DEF Follows, FirstOps
  <2> QED  BY <2>1, <2>2, QuietPrecedes DEF Fits
<1> DEFINE sk == stop_nmi \o k
<1>8. Made(sk, NmiOps \cup O) /\ Elems(sk) = Elems(stop_nmi) \cup Elems(k)
  <2>1. Made(stop_nmi, NmiOps) /\ Made(k, O)
    BY <1>6, NmiCode
  <2> QED  BY ONLY <1>7, <2>1, Join DEF Made
<1> HIDE DEF sk
<1>9. ASSUME NEW y \in Elems(sk), NEW z \in Elems(a) PROVE Precedes(y, z)
  <2>1. y.op \in NmiOps \cup O /\ z.op \in AfterOps
    BY <1>4, <1>8 DEF Made
  <2> QED  BY <2>1 DEF NmiOps, O, AfterOps, LeaveOps, Precedes, CheckpointOps, LastOps, FirstOps, IsReturn, RestartOps
<1>10. Made(sk \o a, (NmiOps \cup O) \cup AfterOps) /\ Elems(sk \o a) = Elems(sk) \cup Elems(a)
  <2>1. Made(sk, NmiOps \cup O) /\ Made(a, AfterOps)
    BY <1>4, <1>8
  <2>2. Fits(sk, a)
    BY <1>9 DEF Fits
  <2> QED  BY ONLY <2>1, <2>2, Join DEF Made
<1>11. (NmiOps \cup O) \cup AfterOps = RuntimeOps(o.op)
  BY DEF NmiOps, O, AfterOps, LeaveOps, RuntimeOps
<1>12. \A x \in Elems(sk) : x.op # "irq_restore" /\ x.op # "restart"
  BY <1>8 DEF Made, NmiOps, O
<1>13. \A x \in Elems(a) : x.op # "restart"
  BY <1>4 DEF Made, AfterOps, LeaveOps, NmiOps
<1>14. RuntimeFacts(sk \o a, o, f)
  BY <1>1, <1>4, <1>6, <1>8, <1>10, <1>11, <1>12, <1>13 DEF RuntimeFacts, Has
<1> QED  BY <1>3, <1>14 DEF sk

\* Every entry of the runtime.
LEMMA RuntimeCode ==
  ASSUME NEW o \in MicroOp, o.op \in EnterOps, NEW f \in BOOLEAN, prog[pc] \in Instr
  PROVE  RuntimeFacts(Runtime(o, f), o, f)
<1>1. o.a \in Int /\ o.n \in Int /\ o.a - (o.a % 4) \in Int /\ o.a + o.n \in Int
  BY DEF MicroOp
<1> DEFINE r == LEAVE_KSPECEM_RT(f)
<1>2. /\ Made(r, LeaveOps) /\ \A x \in Elems(r) : x.op = "irq_restore" => x.a = Flag(f)
      /\ Has(r, "unset_rt") /\ Has(r, "irq_restore")
  BY LeaveCode
<1>3. \A x \in Elems(stop_nmi) \cup Elems(r) : x.op # "restart"
  BY <1>2, NmiCode DEF Made, LeaveOps, NmiOps
<1>4. \A x \in Elems(stop_nmi) : x.op # "irq_restore"
  BY NmiCode DEF Made, NmiOps
<1>5. ASSUME NEW x \in MicroOp, x.op \in {"memcpy", "restart", "init_data"}, x.op = "restart" => x.a = o.a
      PROVE  LET t == stop_nmi \o <<x>> \o LEAVE_KSPECEM_RT(f) IN
             /\ Made(t, LeaveOps \cup {x.op}) /\ x \in Elems(t)
             /\ \A y \in Elems(t) : y.op = "irq_restore" => y.a = Flag(f)
             /\ \A y \in Elems(t) : y.op = "restart" => y.a = o.a
             /\ Has(t, "unset_rt") /\ Has(t, "irq_restore")
  <2> DEFINE t == stop_nmi \o <<x>> \o LEAVE_KSPECEM_RT(f)
  <2>1. Made(t, LeaveOps \cup {x.op}) /\ Elems(t) = Elems(stop_nmi) \cup {x} \cup Elems(r)
    BY <1>5, WrapCode
  <2> HIDE DEF t, r
  <2> QED  BY <1>2, <1>3, <1>4, <1>5, <2>1 DEF Has, t, r
<1>6. CASE o.op = "enter_store"
  <2> DEFINE n == LEAVE_KSPECEM_NONMI_RT(f)
             w == WriteWl(o.a)
  <2>1. /\ Made(n, {"irq_restore", "unset_rt"})
        /\ \A x \in Elems(n) : x.op = "irq_restore" => x.a = Flag(f)
        /\ Has(n, "unset_rt") /\ Has(n, "irq_restore")
    BY LeaveCode
  <2>2. Made(w, {"write_wl"})
    BY <1>1, WriteWlCode
  <2>3. Runtime(o, f) = w \o n
    BY <1>6 DEF Runtime
  <2> HIDE DEF n, w
  <2>4. Fits(w, n)
    BY <2>1, <2>2 DEF Fits, Made, Precedes, LastOps, FirstOps, IsReturn, RestartOps
  <2>5. Made(w \o n, {"write_wl"} \cup {"irq_restore", "unset_rt"}) /\ Elems(w \o n) = Elems(w) \cup Elems(n)
    <3>1. Made(w, {"write_wl"}) /\ Made(n, {"irq_restore", "unset_rt"})
      BY <2>1, <2>2
    <3> QED  BY ONLY <2>4, <3>1, Join DEF Made
  <2>6. {"write_wl"} \cup {"irq_restore", "unset_rt"} = RuntimeOps(o.op)
    BY <1>6 DEF RuntimeOps
  <2>7. \A x \in Elems(w \o n) : x.op # "restart" /\ (x.op = "irq_restore" => x.a = Flag(f))
    BY <2>1, <2>2, <2>5 DEF Made
  <2>8. Has(w \o n, "unset_rt") /\ Has(w \o n, "irq_restore")
    BY <2>1, <2>5 DEF Has
  <2> QED  BY <1>6, <2>3, <2>5, <2>6, <2>7, <2>8 DEF RuntimeFacts
<1>7. CASE o.op = "enter_memcpy"
  <2> DEFINE x == U("memcpy", o.a - (o.a % 4), o.a + o.n)
  <2>1. x \in MicroOp /\ x.op = "memcpy"
    BY <1>1 DEF U, MicroOp, OpNames
  <2>2. Runtime(o, f) = stop_nmi \o <<x>> \o LEAVE_KSPECEM_RT(f)
    BY <1>7 DEF Runtime
  <2> HIDE DEF x
  <2> QED  BY <1>5, <1>7, <2>1, <2>2 DEF RuntimeFacts, RuntimeOps
<1>8. CASE o.op = "enter_restart"
  <2> DEFINE x == U("restart", o.a, 0)
  <2>1. x \in MicroOp /\ x.op = "restart" /\ x.a = o.a
    BY <1>1 DEF U, MicroOp, OpNames
  <2>2. Runtime(o, f) = stop_nmi \o <<x>> \o LEAVE_KSPECEM_RT(f)
    BY <1>8 DEF Runtime
  <2> HIDE DEF x
  <2> QED  BY <1>5, <1>8, <2>1, <2>2 DEF RuntimeFacts, RuntimeOps, Has
<1>9. CASE o.op = "enter_checkpoint"
  BY <1>9, CheckpointCode
<1>10. CASE o.op = "enter_init"
  <2> DEFINE x == U("init_data", 0, 0)
             d == U("init_done", 0, 0)
             t == stop_nmi \o <<x>> \o LEAVE_KSPECEM_RT(f)
  <2>1. x \in MicroOp /\ x.op = "init_data" /\ d \in MicroOp /\ d.op = "init_done"
    BY DEF U, MicroOp, OpNames
  <2>2. Runtime(o, f) = t \o <<d>>
    BY <1>10 DEF Runtime
  <2> HIDE DEF x, d
  <2>3. /\ Made(t, LeaveOps \cup {"init_data"}) /\ Has(t, "unset_rt") /\ Has(t, "irq_restore")
        /\ \A y \in Elems(t) : y.op = "irq_restore" => y.a = Flag(f)
    BY <1>5, <2>1
  <2>4. Made(<<d>>, {"init_done"}) /\ Elems(<<d>>) = {d}
    BY <2>1, Seq1, Short DEF Made, Sound
  <2> HIDE DEF t
  <2>5. ASSUME NEW y \in Elems(t) PROVE Precedes(y, d) /\ y.op # "restart"
    <3>1. y.op \in LeaveOps \cup {"init_data"}
      BY <2>3 DEF Made
    <3> QED  BY <2>1, <3>1 DEF LeaveOps, NmiOps, Precedes, LastOps, FirstOps, Masked, IsReturn, RestartOps
  <2>6. Made(t \o <<d>>, (LeaveOps \cup {"init_data"}) \cup {"init_done"})
        /\ Elems(t \o <<d>>) = Elems(t) \cup {d}
    <3>1. Made(t, LeaveOps \cup {"init_data"}) /\ Made(<<d>>, {"init_done"})
      BY <2>3, <2>4
    <3>2. Fits(t, <<d>>)
      BY <2>4, <2>5 DEF Fits
    <3>3. Made(t \o <<d>>, (LeaveOps \cup {"init_data"}) \cup {"init_done"})
          /\ Elems(t \o <<d>>) = Elems(t) \cup Elems(<<d>>)
      BY ONLY <3>1, <3>2, Join DEF Made
    <3> QED  BY <2>4, <3>3
  <2>7. (LeaveOps \cup {"init_data"}) \cup {"init_done"} = RuntimeOps(o.op)
    BY <1>10 DEF RuntimeOps
  <2> QED  BY <1>10, <2>1, <2>2, <2>3, <2>5, <2>6, <2>7 DEF RuntimeFacts, Has
<1> QED  BY <1>6, <1>7, <1>8, <1>9, <1>10 DEF EnterOps
-----------------------------------------------------------------------------
(* Steps of the code *)

\* The part of the invariant that the assertions and the contract rest on.
Safe == TypeOK /\ TodoInv /\ ModeInv /\ RegsInv /\ LogInv /\ LimitInv

Rest == Tail(todo)

\* The next operation and the ones behind it.
LEMMA TodoFacts ==
  ASSUME TypeOK, TodoInv, todo # << >>
  PROVE  /\ Op \in MicroOp /\ Rest \in Seq(MicroOp) /\ Ordered(Rest) /\ Sound(Rest)
         /\ Elems(todo) = {Op} \cup Elems(Rest)
         /\ Allowed(Op, irq, handler, in_spec, init_done)
         /\ \A y \in Elems(Rest) : /\ Precedes(Op, y)
                                   /\ Allowed(y, irq, handler, in_spec, init_done)
                                   /\ y.op \notin FirstOps
                                   /\ Op.op # "undo" => Follows(y)
<1>1. todo \in Seq(MicroOp) /\ Ordered(todo)
  BY DEF TypeOK, TodoType, TodoInv, Code
<1>2. \A x \in Elems(todo) : Allowed(x, irq, handler, in_spec, init_done)
  BY DEF TodoInv, Code
<1>3. Op \in MicroOp /\ Rest \in Seq(MicroOp)
  BY <1>1, HeadAndTail DEF Op, Rest
<1>4. Elems(todo) = {Op} \cup Elems(Rest)
  BY <1>1, ElemsTail DEF Op, Rest
<1>5. Ordered(Rest) /\ \A y \in Elems(Rest) : Precedes(Op, y)
  BY <1>1, OrderedTail DEF Op, Rest
<1>6. \A y \in Elems(Rest) : y.op \notin FirstOps /\ (Op.op # "undo" => Follows(y))
  BY <1>5 DEF Precedes, Follows
<1>7. Sound(Rest)
  BY <1>2, <1>3, <1>4, <1>5 DEF Sound, Allowed
<1> QED  BY <1>2, <1>3, <1>4, <1>5, <1>6, <1>7

\* What may be put before the rest of the code in place of o.
LEMMA PutBefore ==
  ASSUME NEW o, NEW x, NEW y, Precedes(o, y), o.op # "undo",
         x.op \notin LastOps \cup {"new_checkpoint", "save_stack", "save_registers",
                                   "hook_check_call_depth", "select", "set", "tick"},
         x.op = "irq_restore" /\ x.a = 1 => y.op \notin Masked,
         IsReturn(x) => IsReturn(o)
  PROVE  Precedes(x, y)
BY DEF Precedes

LEMMA SoundEmpty == Sound(<< >>) /\ Elems(<< >>) = {} /\ \A t : Fits(<< >>, t)
BY Short, SeqEmpty DEF Sound, Fits

LEMMA SoundOne ==
  ASSUME NEW x \in MicroOp, x.op # "add", x.op # "set"
  PROVE  Sound(<<x>>) /\ Elems(<<x>>) = {x}
BY Short, Seq1 DEF Sound

\* An operation ends and others take its place.
LEMMA CodeStep ==
  ASSUME TypeOK, TodoInv, todo # << >>, Op.op # "undo",
         NEW s, Sound(s), Continue(s), Fits(s, Rest),
         \A x \in Elems(s) : Follows(x),
         \A x \in Elems(s) \cup Elems(Rest) : Allowed(x, irq', handler', in_spec', init_done')
  PROVE  TodoInv' /\ LogInv' /\ Elems(todo') = Elems(s) \cup Elems(Rest)
<1>1. Sound(Rest) /\ \A y \in Elems(Rest) : Follows(y)
  BY TodoFacts
<1>2. todo' = s \o Rest
  BY DEF Continue, Rest
<1>3. Sound(todo') /\ Elems(todo') = Elems(s) \cup Elems(Rest)
  BY <1>1, <1>2, Join
<1>4. TodoInv'
  BY <1>3 DEF TodoInv, Code, Sound
<1>5. ASSUME todo' # << >> PROVE Head(todo') \in Elems(todo')
  <2>1. todo' \in Seq(MicroOp)
    BY <1>3 DEF Sound
  <2> QED  BY <1>5, <2>1, ElemsTail
<1>6. LogInv'
  BY <1>1, <1>3, <1>5 DEF LogInv, Op, Follows, FirstOps
<1> QED  BY <1>3, <1>4, <1>6

\* What can be pending instead of a restart at the limit.
Pending == {"enter_restart", "restart", "finish"}

\* A step of the code that neither changes the mode nor takes part in a rollback.
LEMMA QuietStep ==
  ASSUME Safe, todo # << >>, Op.op \notin RollbackOps,
         in_spec => Op.op # "hook_interrupt_timer",
         NEW s, Sound(s), Continue(s), Fits(s, Rest),
         \A x \in Elems(s) : /\ Follows(x) /\ x.op # "hook_check_call_depth"
                             /\ IsReturn(x) => IsReturn(Op),
         \A x \in Elems(s) \cup Elems(Rest) : Allowed(x, irq', handler, in_spec, init_done),
         in_spec /\ Op.op \in Pending => \E x \in Elems(s) : x.op \in Pending,
         UNCHANGED <<irqVars, in_spec, init_done, wl_enabled, spec_depth, in_restart>>,
         handler => ~irq', ~kregs'.irq, ~in_spec => mem'[SwapCondition] = 0
  PROVE  TodoInv' /\ ModeInv' /\ RegsInv' /\ LogInv' /\ LimitInv'
<1>0. TypeOK /\ TodoInv /\ ModeInv /\ RegsInv /\ LogInv /\ LimitInv
  BY DEF Safe
<1>1. /\ handler' = handler /\ regs' = regs /\ in_spec' = in_spec /\ init_done' = init_done
      /\ wl_enabled' = wl_enabled /\ spec_depth' = spec_depth /\ in_restart' = in_restart
  BY DEF irqVars
<1>2. Op.op # "undo"
  BY DEF RollbackOps
<1>3. \A x \in Elems(s) \cup Elems(Rest) : Allowed(x, irq', handler', in_spec', init_done')
  BY <1>1
<1>4. TodoInv' /\ LogInv' /\ Elems(todo') = Elems(s) \cup Elems(Rest)
  BY <1>0, <1>2, <1>3, CodeStep
<1>5. ModeInv'
  BY <1>0, <1>1 DEF ModeInv
<1>6. RegsInv'
  <2>1. ~(handler /\ in_spec)
    BY <1>0 DEF RegsInv
  <2>2. handler => /\ Code(regs.todo, regs.irq, FALSE, in_spec, init_done)
                   /\ \A x \in Elems(regs.todo) : x.op \notin RollbackOps
    BY <1>0 DEF RegsInv
  <2>3. handler => /\ Code(regs'.todo, regs'.irq, FALSE, in_spec', init_done')
                   /\ \A x \in Elems(regs'.todo) : x.op \notin RollbackOps
    BY <1>1, <2>2, Zenon
  <2>4. (handler' => handler) /\ (in_spec' => in_spec)
    BY <1>1
  <2> QED  BY <2>1, <2>3, <2>4, Zenon DEF RegsInv
<1>7. LimitInv'
  <2>1. Elems(todo) = {Op} \cup Elems(Rest)
    BY <1>0, TodoFacts
  <2> QED  BY <1>0, <1>1, <1>4, <2>1 DEF LimitInv, Pending
<1> QED  BY <1>4, <1>5, <1>6, <1>7

\* One that ends an operation.
LEMMA EndStep ==
  ASSUME Safe, todo # << >>, Op.op \notin RollbackOps,
         in_spec => Op.op # "hook_interrupt_timer",
         Continue(<< >>), in_spec => Op.op \notin Pending,
         UNCHANGED <<irq, irqVars, in_spec, init_done, wl_enabled, spec_depth, in_restart>>,
         ~kregs'.irq, ~in_spec => mem'[SwapCondition] = 0
  PROVE  TodoInv' /\ ModeInv' /\ RegsInv' /\ LogInv' /\ LimitInv'
<1>1. \A x \in Elems(Rest) : Allowed(x, irq', handler, in_spec, init_done)
  BY TodoFacts DEF Safe
<1>2. handler => ~irq'
  BY DEF Safe, RegsInv
<1> QED  BY <1>1, <1>2, QuietStep, SoundEmpty

\* One operation takes the place of another.
LEMMA OneStep ==
  ASSUME Safe, todo # << >>, Op.op \notin RollbackOps \cup {"hook_interrupt_timer"},
         NEW x \in MicroOp, Continue(<<x>>), x.op # "add", x.op # "set", Follows(x),
         x.op # "hook_check_call_depth", IsReturn(x) => IsReturn(Op),
         \A y \in Elems(Rest) : Precedes(x, y),
         Allowed(x, irq, handler, in_spec, init_done),
         in_spec /\ Op.op \in Pending => x.op \in Pending,
         UNCHANGED <<irq, irqVars, in_spec, init_done, wl_enabled, spec_depth, in_restart>>,
         ~kregs'.irq, ~in_spec => mem'[SwapCondition] = 0
  PROVE  TodoInv' /\ ModeInv' /\ RegsInv' /\ LogInv' /\ LimitInv'
<1>1. Sound(<<x>>) /\ Elems(<<x>>) = {x}
  BY SoundOne
<1>2. \A y \in Elems(<<x>>) \cup Elems(Rest) : Allowed(y, irq', handler, in_spec, init_done)
  BY <1>1, TodoFacts DEF Safe
<1>3. handler => ~irq'
  BY DEF Safe, RegsInv
<1>4. Fits(<<x>>, Rest)
  BY <1>1 DEF Fits
<1>5. /\ \A y \in Elems(<<x>>) : /\ Follows(y) /\ y.op # "hook_check_call_depth"
                                 /\ IsReturn(y) => IsReturn(Op)
      /\ in_spec /\ Op.op \in Pending => \E y \in Elems(<<x>>) : y.op \in Pending
  BY <1>1
<1> HIDE DEF Safe
<1> QED  BY <1>1, <1>2, <1>3, <1>4, <1>5, QuietStep

\* What the mode and the saved code are while no handler speculates.
LEMMA ModeFacts ==
  ASSUME Safe
  PROVE  /\ TypeOK /\ wl_enabled = in_spec /\ (in_spec => init_done)
         /\ ~in_spec => spec_depth = 0 /\ ~in_restart /\ mem[SwapCondition] = 0
         /\ ~kregs.irq /\ (handler => ~irq)
         /\ todo # << >> /\ Op.op \notin RollbackOps \cup {"hook_interrupt_timer"} =>
              ~(in_spec /\ handler)
BY DEF Safe, ModeInv, RegsInv

\* The entries of the runtime, in place of hooks.
LEMMA EnterHook ==
  ASSUME NEW x, NEW o, NEW y, Precedes(o, y), o.op # "undo",
         x.op \in {"enter_store", "enter_memcpy", "enter_restart"}, IsReturn(x) => IsReturn(o)
  PROVE  Precedes(x, y)
BY PutBefore DEF LastOps

\* The checks at the start of the hooks.
LEMMA HookStep ==
  ASSUME Safe,
         HookStore \/ HookMemcpy \/ HookRestart \/ HookCheckSpecLength \/ HookNewCheckpoint
  PROVE  TodoInv' /\ ModeInv' /\ RegsInv' /\ LogInv' /\ LimitInv'
<1>1. /\ todo # << >>
      /\ UNCHANGED <<irq, mem, irqVars, in_spec, init_done, wl_enabled, spec_depth, in_restart, kregs>>
  BY DEF HookStore, HookMemcpy, HookRestart, HookCheckSpecLength, HookNewCheckpoint, At,
         mvars, modeVars, cfgVars, countVars, ckptVars
<1>2. Op.op \in {"hook_store", "hook_memcpy", "hook_restart", "hook_check_spec_length",
                 "hook_new_checkpoint"}
  BY DEF HookStore, HookMemcpy, HookRestart, HookCheckSpecLength, HookNewCheckpoint, At, Op
<1>3. Op.op \notin RollbackOps \cup {"hook_interrupt_timer"} /\ Op.op \notin Pending /\ Op.op # "undo"
  BY <1>2 DEF RollbackOps, Pending
<1>4. /\ TypeOK /\ wl_enabled = in_spec /\ (in_spec => init_done)
      /\ ~in_spec => mem'[SwapCondition] = 0
      /\ ~kregs'.irq
      /\ ~(in_spec /\ handler)
  BY <1>1, <1>3, ModeFacts
<1>5. Op \in MicroOp /\ Op.a \in Int /\ Op.n \in Int
  BY <1>1, <1>4, HeadType DEF TypeOK
<1>6. /\ \A y \in Elems(Rest) : Precedes(Op, y)
      /\ Allowed(Op, irq, handler, in_spec, init_done)
  BY <1>1, TodoFacts DEF Safe
<1>7. ASSUME NEW x \in MicroOp, Continue(<<x>>), IsReturn(x) => IsReturn(Op),
             \/ x.op \in {"enter_store", "enter_memcpy"} /\ in_spec
             \/ x.op = "enter_restart"
      PROVE  TodoInv' /\ ModeInv' /\ RegsInv' /\ LogInv' /\ LimitInv'
  <2>1. \A y \in Elems(Rest) : Precedes(x, y)
    BY <1>3, <1>6, <1>7, EnterHook
  <2>2. x.op # "add" /\ x.op # "set" /\ Follows(x) /\ x.op # "hook_check_call_depth"
    BY <1>7 DEF Follows, FirstOps
  <2>3. Allowed(x, irq, handler, in_spec, init_done)
    BY <1>4, <1>7 DEF Allowed, Masked, LogOps, RollbackOps, CheckpointOps, InitOps, HandlerOps,
                      InterruptOps
  <2> QED  BY <1>1, <1>3, <1>4, <1>7, <2>1, <2>2, <2>3, OneStep
<1>8. ASSUME Continue(<< >>)
      PROVE  TodoInv' /\ ModeInv' /\ RegsInv' /\ LogInv' /\ LimitInv'
  BY <1>1, <1>3, <1>4, <1>8, EndStep
<1>9. CASE HookStore \/ HookMemcpy
  <2> DEFINE x == U("enter_store", Op.a, 0)
             y == U("enter_memcpy", Op.a, Op.n)
  <2>1. x \in MicroOp /\ y \in MicroOp /\ x.op = "enter_store" /\ y.op = "enter_memcpy"
    BY <1>5 DEF U, MicroOp, OpNames
  <2>2. Continue(<< >>) \/ (in_spec /\ (Continue(<<x>>) \/ Continue(<<y>>)))
    BY <1>4, <1>9 DEF HookStore, HookMemcpy, StoreHookActive
  <2> HIDE DEF x, y
  <2>3. ~IsReturn(x) /\ ~IsReturn(y)
    BY <2>1 DEF IsReturn, RestartOps
  <2> QED  BY <1>7, <1>8, <2>1, <2>2, <2>3
<1>10. CASE HookRestart
  <2> DEFINE x == U("enter_restart", Op.a, 0)
  <2>1. x \in MicroOp /\ x.op = "enter_restart" /\ x.a = Op.a
    BY <1>5 DEF U, MicroOp, OpNames
  <2>2. Op.op = "hook_restart" /\ (Continue(<< >>) \/ Continue(<<x>>))
    BY <1>10 DEF HookRestart, At, Op
  <2> HIDE DEF x
  <2>3. IsReturn(x) => IsReturn(Op)
    BY <2>1, <2>2 DEF IsReturn, RestartOps
  <2> QED  BY <1>7, <1>8, <2>1, <2>2, <2>3
<1>11. CASE HookCheckSpecLength
  <2> DEFINE x == U("enter_restart", RESTART_LIMIT_SPEC, 0)
  <2>1. x \in MicroOp /\ x.op = "enter_restart" /\ ~IsReturn(x)
    BY DEF U, MicroOp, OpNames, RESTART_LIMIT_SPEC, RESTART_RETURN, IsReturn
  <2>2. Continue(<< >>) \/ Continue(<<x>>)
    BY <1>11, Zenon DEF HookCheckSpecLength
  <2> HIDE DEF x
  <2> QED  BY <1>7, <1>8, <2>1, <2>2
<1>12. CASE HookNewCheckpoint
  <2>1. Op.op = "hook_new_checkpoint"
    BY <1>12 DEF HookNewCheckpoint, At, Op
  <2>2. Elems(Rest) = {} /\ ~handler
    BY <1>6, <2>1 DEF Precedes, LastOps, Allowed, HandlerOps, InterruptOps, RollbackOps
  <2> DEFINE x == U("enter_checkpoint", 0, 0)
             t == SwapBranch \o LengthHook(prog[pc], LengthAfterSpec)
  <2>3. CASE MayCheckpoint /\ Continue(<<x>>)
    <3>1. x \in MicroOp /\ x.op = "enter_checkpoint"
      BY DEF U, MicroOp, OpNames
    <3> HIDE DEF x
    <3>2. Allowed(x, irq, handler, in_spec, init_done)
      BY <2>2, <2>3, <3>1 DEF Allowed, Masked, LogOps, RollbackOps, CheckpointOps, InitOps, HandlerOps,
                              InterruptOps, MayCheckpoint
    <3>3. x.op # "add" /\ x.op # "set" /\ Follows(x) /\ x.op # "hook_check_call_depth" /\ ~IsReturn(x)
      BY <3>1 DEF Follows, FirstOps, IsReturn, RestartOps
    <3> QED  BY <1>1, <1>3, <1>4, <2>2, <2>3, <3>1, <3>2, <3>3, OneStep
  <2>4. CASE Continue(t)
    <3>1. Made(t, BranchedOps)
      BY <1>4, TypeFacts, BranchCode
    <3> HIDE DEF t
    <3>2. Fits(t, Rest)
      BY <2>2 DEF Fits
    <3>3. \A y \in Elems(t) : /\ Follows(y) /\ y.op # "hook_check_call_depth" /\ ~IsReturn(y)
                              /\ Allowed(y, irq, handler, in_spec, init_done)
      BY <2>2, <3>1 DEF Made, Sound, BranchedOps, Follows, FirstOps, IsReturn, RestartOps, Allowed, Masked,
                        LogOps, RollbackOps, CheckpointOps, InitOps, HandlerOps, InterruptOps
    <3>4. \A y \in Elems(t) \cup Elems(Rest) : Allowed(y, irq', handler, in_spec, init_done)
      BY <1>1, <2>2, <3>3
    <3> QED  BY <1>1, <1>3, <1>4, <2>2, <2>4, <3>1, <3>2, <3>3, <3>4, QuietStep DEF Made
  <2> QED  BY <1>12, <2>3, <2>4 DEF HookNewCheckpoint
<1> QED  BY <1>9, <1>10, <1>11, <1>12

\* A call is counted; the one that reaches the limit restarts.
LEMMA DepthStep ==
  ASSUME Safe, HookCheckCallDepth
  PROVE  TodoInv' /\ ModeInv' /\ RegsInv' /\ LogInv' /\ LimitInv'
<1>1. /\ todo # << >> /\ Op.op = "hook_check_call_depth"
      /\ UNCHANGED <<irq, mem, irqVars, in_spec, init_done, wl_enabled, in_restart, kregs>>
  BY DEF HookCheckCallDepth, At, Op, mvars, modeVars, cfgVars, ckptVars
<1>2. /\ Op.op \notin RollbackOps \cup {"hook_interrupt_timer"} /\ Op.op \notin Pending /\ Op.op # "undo"
  BY <1>1 DEF RollbackOps, Pending
<1>3. /\ TypeOK /\ wl_enabled = in_spec
      /\ ~in_spec => mem'[SwapCondition] = 0
      /\ ~kregs'.irq
  BY <1>1, <1>2, ModeFacts
<1>4. /\ \A y \in Elems(Rest) : Precedes(Op, y) /\ Allowed(y, irq, handler, in_spec, init_done)
      /\ Allowed(Op, irq, handler, in_spec, init_done)
      /\ Op \in Elems(todo)
  BY <1>1, TodoFacts DEF Safe
<1>5. ~handler /\ \A y \in Elems(Rest) : y.op = "exec"
  BY <1>1, <1>4 DEF Allowed, HandlerOps, InterruptOps, RollbackOps, Precedes
<1>6. CASE ~DepthHookActive
  <2>1. Continue(<< >>) /\ spec_depth' = spec_depth
    BY <1>6 DEF HookCheckCallDepth
  <2> QED  BY <1>1, <1>2, <1>3, <2>1, EndStep
<1>7. CASE DepthHookActive
  <2>1. in_spec /\ init_done
    BY <1>3, <1>7 DEF DepthHookActive
  <2> DEFINE x == U("enter_restart", RESTART_CALL_DEPTH, 0)
             s == IF TooDeep(spec_depth') THEN <<x>> ELSE << >>
  <2>2. x \in MicroOp /\ x.op = "enter_restart" /\ ~IsReturn(x)
    BY DEF U, MicroOp, OpNames, RESTART_CALL_DEPTH, RESTART_RETURN, IsReturn
  <2>3. spec_depth' = spec_depth + 1 /\ Continue(s)
    BY <1>7 DEF HookCheckCallDepth
  <2> HIDE DEF x
  <2>4. Sound(s) /\ Elems(s) = IF TooDeep(spec_depth') THEN {x} ELSE {}
    BY <2>2, SoundOne, SoundEmpty
  <2> HIDE DEF s
  <2>5. \A y \in Elems(s) : y = x
    BY <2>4
  <2>6. Fits(s, Rest)
    BY <1>2, <1>4, <2>2, <2>5, EnterHook DEF Fits
  <2>7. Follows(x) /\ Allowed(x, irq, handler, in_spec, init_done)
    BY <1>5, <2>1, <2>2 DEF Follows, FirstOps, Allowed, Masked, LogOps, RollbackOps, CheckpointOps, InitOps,
                            InterruptOps
  <2>8. \A y \in Elems(s) \cup Elems(Rest) : Allowed(y, irq', handler', in_spec', init_done')
    BY <1>1, <1>4, <2>5, <2>7 DEF irqVars
  <2>9. TodoInv' /\ LogInv' /\ Elems(todo') = Elems(s) \cup Elems(Rest)
    <3>1. TodoInv
      BY DEF Safe
    <3> QED  BY <1>1, <1>2, <1>3, <2>3, <2>4, <2>5, <2>6, <2>7, <2>8, <3>1, CodeStep
  <2>10. ModeInv'
    BY <1>1, <1>3, <2>1 DEF Safe, ModeInv
  <2>11. ~handler'
    BY <1>1, <1>5 DEF irqVars
  <2>12. RegsInv'
    BY <2>11 DEF RegsInv
  <2>13. spec_depth < Limit
    BY <1>1, <1>4, <1>5, <2>1, <1>3, SpecEmAssumption DEF Safe, LimitInv, TypeOK, CountType, Limit
  <2>14. LimitInv'
    <3>1. spec_depth' <= Limit
      BY <1>3, <2>3, <2>13, SpecEmAssumption DEF TypeOK, CountType, Limit
    <3>2. spec_depth' = Limit => TooDeep(spec_depth')
      BY <1>3, <2>3, SpecEmAssumption DEF TypeOK, CountType, Limit, TooDeep
    <3>3. \A y \in Elems(Rest) : y.op # "hook_check_call_depth" /\ ~IsReturn(y)
      BY <1>5 DEF IsReturn, RestartOps
    <3> QED  BY <2>2, <2>4, <2>9, <3>1, <3>2, <3>3 DEF LimitInv, Pending
  <2> QED  BY <2>9, <2>10, <2>12, <2>14
<1> QED  BY <1>6, <1>7

\* The runtime is entered: its code comes before what is left.
LEMMA EnterStep ==
  ASSUME Safe, Enter
  PROVE  TodoInv' /\ ModeInv' /\ RegsInv' /\ LogInv' /\ LimitInv'
<1>1. /\ todo # << >> /\ Op.op \in EnterOps /\ ~irq' /\ Continue(Runtime(Op, irq))
      /\ UNCHANGED <<mem, irqVars, in_spec, init_done, wl_enabled, spec_depth, in_restart, kregs>>
  BY DEF Enter, At, Op, modeVars, cfgVars, ckptVars, countVars
<1>2. Op.op \notin RollbackOps \cup {"hook_interrupt_timer"} /\ Op.op # "undo"
  BY <1>1 DEF RollbackOps, EnterOps
<1>3. /\ TypeOK /\ (handler => ~irq)
      /\ ~in_spec => mem'[SwapCondition] = 0
      /\ ~kregs'.irq
  BY <1>1, ModeFacts
<1>4. /\ Op \in MicroOp
      /\ \A y \in Elems(Rest) : Precedes(Op, y) /\ Allowed(y, irq, handler, in_spec, init_done)
      /\ Allowed(Op, irq, handler, in_spec, init_done)
  BY <1>1, TodoFacts DEF Safe
<1> DEFINE s == Runtime(Op, irq)
<1>5. RuntimeFacts(s, Op, irq)
  <2>1. irq \in BOOLEAN /\ prog[pc] \in Instr
    BY <1>3, TypeFacts DEF TypeOK, MachineType
  <2> QED  BY <1>1, <1>4, <2>1, RuntimeCode
<1> HIDE DEF s
<1>6. \A x \in Elems(s) : /\ x.op \in RuntimeOps(Op.op)
                          /\ x.op = "irq_restore" => x.a = Flag(irq)
                          /\ x.op = "restart" => x.a = Op.a
                          /\ x.op = "add" => x.a = IgnoreNmis
                          /\ x.op = "set" => x.a = SwapCondition /\ x.n = 0
  BY <1>5 DEF RuntimeFacts, Made, Sound
<1>7. \A x \in Elems(s) : /\ Follows(x) /\ x.op # "hook_check_call_depth"
                          /\ IsReturn(x) => IsReturn(Op)
  BY <1>1, <1>6 DEF RuntimeOps, EnterOps, LeaveOps, NmiOps, AfterOps, Follows, FirstOps, IsReturn, RestartOps
<1>8. Fits(s, Rest)
  <2>1. CASE Op.op \in LastOps
    BY <1>4, <2>1 DEF Precedes, Fits
  <2>2. CASE Op.op \notin LastOps
    <3> SUFFICES ASSUME NEW x \in Elems(s), NEW y \in Elems(Rest) PROVE Precedes(x, y)
      BY DEF Fits
    <3>1. x.op \in {"write_wl", "irq_restore", "unset_rt", "memcpy", "restart"} \cup NmiOps
      BY <1>1, <1>6, <2>2 DEF RuntimeOps, EnterOps, LastOps, LeaveOps
    <3>2. x.op = "irq_restore" /\ x.a = 1 => y.op \notin Masked
      BY <1>4, <1>6 DEF Flag, Allowed
    <3>3. x.op \notin LastOps \cup {"new_checkpoint", "save_stack", "save_registers",
                                    "hook_check_call_depth", "select", "set", "tick"}
      BY <3>1 DEF NmiOps, LastOps
    <3> QED  BY <1>2, <1>4, <1>7, <3>2, <3>3, PutBefore
  <2> QED  BY <2>1, <2>2
<1>9. \A x \in Elems(s) : Allowed(x, irq', handler, in_spec, init_done)
  <2> SUFFICES ASSUME NEW x \in Elems(s) PROVE Allowed(x, irq', handler, in_spec, init_done)
    OBVIOUS
  <2>1. x.op \notin RollbackOps \cup InterruptOps
    BY <1>1, <1>6 DEF RuntimeOps, EnterOps, LeaveOps, NmiOps, AfterOps, RollbackOps, InterruptOps
  <2>2. x.op \in LogOps => Op.op \in LogOps
    BY <1>1, <1>6 DEF RuntimeOps, EnterOps, LeaveOps, NmiOps, AfterOps, LogOps
  <2>3. x.op \in CheckpointOps => Op.op \in CheckpointOps
    BY <1>1, <1>6 DEF RuntimeOps, EnterOps, LeaveOps, NmiOps, AfterOps, CheckpointOps
  <2>4. x.op \in InitOps => Op.op \in InitOps
    BY <1>1, <1>6 DEF RuntimeOps, EnterOps, LeaveOps, NmiOps, AfterOps, InitOps
  <2>5. handler => x.op \in HandlerOps /\ (x.op = "irq_restore" => x.a # 1)
    <3>1. handler => Op.op = "enter_restart"
      BY <1>1, <1>4 DEF Allowed, HandlerOps, EnterOps, InterruptOps, RollbackOps
    <3>2. Op.op = "enter_restart" => x.op \in HandlerOps
      BY <1>6 DEF RuntimeOps, LeaveOps, NmiOps, HandlerOps
    <3> QED  BY <1>3, <1>6, <3>1, <3>2 DEF Flag
  <2>6. x.op # "finish"
    BY <1>7 DEF Follows
  <2> QED  BY <1>1, <1>4, <1>6, <2>1, <2>2, <2>3, <2>4, <2>5, <2>6 DEF Allowed
<1>10. \A x \in Elems(s) \cup Elems(Rest) : Allowed(x, irq', handler, in_spec, init_done)
  <2>1. \A x \in Elems(Rest) : Allowed(x, irq', handler, in_spec, init_done)
    BY <1>1, <1>4 DEF Allowed
  <2> QED  BY <1>9, <2>1
<1>11. Op.op \in Pending => \E x \in Elems(s) : x.op \in Pending
  BY <1>1, <1>5 DEF Pending, EnterOps, RuntimeFacts, Has
<1>12. Sound(s)
  BY <1>5 DEF RuntimeFacts, Made
<1> QED  BY <1>1, <1>2, <1>3, <1>7, <1>8, <1>10, <1>11, <1>12, QuietStep DEF s

\* Leaving the runtime, the stores of the instrumentation and the other steps
\* of a checkpoint.
LEMMA LeaveStep ==
  ASSUME Safe,
         IrqRestore \/ UnsetRt \/ SetWord \/ SaveStack \/ SaveRegisters \/ Select \/ InitData
  PROVE  TodoInv' /\ ModeInv' /\ RegsInv' /\ LogInv' /\ LimitInv'
<1>1. /\ todo # << >> /\ Continue(<< >>)
      /\ UNCHANGED <<irqVars, init_done, in_restart>>
  BY DEF IrqRestore, UnsetRt, SetWord, SaveStack, SaveRegisters, Select, InitData, At, modeVars,
         cfgVars
<1>2. Op.op \in {"irq_restore", "unset_rt", "add", "set", "save_stack", "save_registers", "select",
                 "init_data"}
  BY DEF IrqRestore, UnsetRt, SetWord, SaveStack, SaveRegisters, Select, InitData, At, Op
<1>3. Op.op \notin RollbackOps \cup {"hook_interrupt_timer"} /\ Op.op \notin Pending
  BY <1>2 DEF RollbackOps, Pending
<1>4. /\ TypeOK /\ (handler => ~irq) /\ wl_enabled = in_spec /\ (in_spec => init_done)
      /\ ~in_spec => mem[SwapCondition] = 0 /\ spec_depth = 0
      /\ ~kregs.irq
  BY ModeFacts
<1>5. /\ \A y \in Elems(Rest) : Precedes(Op, y) /\ Allowed(y, irq, handler, in_spec, init_done)
      /\ Allowed(Op, irq, handler, in_spec, init_done)
  BY <1>1, TodoFacts DEF Safe
<1>6. SwapCondition \in Words /\ IgnoreNmis # SwapCondition /\ mem \in [Words -> Int]
  BY <1>4, MachineAssumption DEF Words, SwapCondition, IgnoreNmis, FirstHeap, TypeOK, MachineType
<1>7. CASE IrqRestore
  <2>1. /\ Op.op = "irq_restore" /\ irq' = (Op.a = 1)
        /\ UNCHANGED <<mem, in_spec, wl_enabled, spec_depth, kregs>>
    BY <1>7 DEF IrqRestore, At, Op, modeVars, countVars, ckptVars
  <2>2. handler => ~irq'
    BY <1>5, <2>1 DEF Allowed
  <2>3. \A x \in Elems(Rest) : Allowed(x, irq', handler, in_spec, init_done)
    BY <1>5, <2>1 DEF Allowed, Precedes
  <2> QED  BY <1>1, <1>3, <1>4, <2>1, <2>2, <2>3, QuietStep, SoundEmpty
<1>8. CASE UnsetRt \/ SaveStack \/ Select
  <2>1. UNCHANGED <<irq, mem, in_spec, wl_enabled, spec_depth, kregs>>
    BY <1>8 DEF UnsetRt, SaveStack, Select, mvars, modeVars, countVars, ckptVars
  <2> QED  BY <1>1, <1>3, <1>4, <2>1, EndStep
<1>9. CASE SetWord
  <2>1. UNCHANGED <<irq, in_spec, wl_enabled, spec_depth, kregs>>
    BY <1>9 DEF SetWord, modeVars, countVars, ckptVars
  <2>2. ~in_spec => mem'[SwapCondition] = 0
    <3>1. Op.op = "add" \/ Op.op = "set"
      BY <1>9 DEF SetWord, At, Op
    <3>2. CASE Op.op = "add"
      <4>1. Op.a = IgnoreNmis /\ mem' = [mem EXCEPT ![Op.a] = mem[Op.a] + Op.n]
        BY <1>5, <1>9, <3>2 DEF SetWord, Allowed
      <4> QED  BY <1>4, <1>6, <4>1
    <3>3. CASE Op.op = "set"
      <4>1. Op.a = SwapCondition /\ Op.n = 0 /\ mem' = [mem EXCEPT ![Op.a] = Op.n]
        BY <1>5, <1>9, <3>3 DEF SetWord, Allowed
      <4> QED  BY <1>6, <4>1
    <3> QED  BY <3>1, <3>2, <3>3
  <2> QED  BY <1>1, <1>3, <1>4, <2>1, <2>2, EndStep
<1>10. CASE SaveRegisters
  <2>1. /\ UNCHANGED <<irq, mem, in_spec, wl_enabled, spec_depth>>
        /\ kregs' = [pc |-> pc, sp |-> sp, irq |-> irq, flags |-> Op.a = 1]
        /\ Op.op = "save_registers"
    BY <1>10 DEF SaveRegisters, At, Op, mvars, modeVars, countVars
  <2>2. ~kregs'.irq
    BY <1>5, <2>1 DEF Allowed, Masked
  <2> QED  BY <1>1, <1>3, <1>4, <2>1, <2>2, EndStep
<1>11. CASE InitData
  <2>1. /\ UNCHANGED <<irq, kregs>> /\ Op.op = "init_data"
        /\ in_spec' = FALSE /\ wl_enabled' = FALSE /\ spec_depth' = 0
        /\ mem' = [mem EXCEPT ![SwapCondition] = 0]
    BY <1>11 DEF InitData, At, Op, ckptVars
  <2>2. ~in_spec /\ ~wl_enabled
    BY <1>4, <1>5, <2>1 DEF Allowed, InitOps
  <2>3. in_spec \in BOOLEAN /\ wl_enabled \in BOOLEAN
    BY <1>4 DEF TypeOK, FlagType
  <2>4. UNCHANGED <<in_spec, wl_enabled, spec_depth>>
    BY <1>4, <2>1, <2>2, <2>3
  <2>5. mem'[SwapCondition] = 0
    BY <1>6, <2>1
  <2> QED  BY <1>1, <1>3, <1>4, <2>1, <2>4, <2>5, EndStep
<1> QED  BY <1>7, <1>8, <1>9, <1>10, <1>11

\* Initialisation is done: nothing is left to do.
LEMMA InitDoneStep ==
  ASSUME Safe, InitDone
  PROVE  TodoInv' /\ ModeInv' /\ RegsInv' /\ LogInv' /\ LimitInv'
<1>1. /\ todo # << >> /\ Continue(<< >>) /\ Op.op = "init_done" /\ init_done' = TRUE
      /\ UNCHANGED <<irq, mem, irqVars, in_spec, wl_enabled, spec_depth, in_restart, kregs>>
  BY DEF InitDone, At, Op, mvars, modeVars, countVars, ckptVars
<1>2. /\ Elems(Rest) = {} /\ ~handler
  <2>1. /\ \A y \in Elems(Rest) : Precedes(Op, y)
        /\ Allowed(Op, irq, handler, in_spec, init_done)
    BY <1>1, TodoFacts DEF Safe
  <2> QED  BY <1>1, <2>1 DEF Precedes, LastOps, Allowed, HandlerOps, InterruptOps, RollbackOps
<1>3. TodoInv' /\ LogInv' /\ Elems(todo') = {}
  BY <1>1, <1>2, CodeStep, SoundEmpty DEF Safe
<1>4. ModeInv'
  BY <1>1 DEF Safe, ModeInv
<1>5. ~handler'
  BY <1>1, <1>2 DEF irqVars
<1>6. LimitInv'
  <2>1. Op \in Elems(todo) /\ Elems(todo) = {Op}
    BY <1>1, <1>2, TodoFacts DEF Safe
  <2> QED  BY <1>1, <1>2, <2>1 DEF Safe, LimitInv
<1> QED  BY <1>3, <1>4, <1>5, <1>6 DEF RegsInv

\* The start of a speculation.
LEMMA NewCheckpointStep ==
  ASSUME Safe, NewCheckpoint
  PROVE  TodoInv' /\ ModeInv' /\ RegsInv' /\ LogInv' /\ LimitInv'
<1>1. /\ todo # << >> /\ Continue(<< >>) /\ Op.op = "new_checkpoint"
      /\ UNCHANGED <<irq, irqVars, init_done, in_restart, kregs>>
      /\ in_spec' = TRUE /\ wl_enabled' = TRUE /\ spec_depth' = 0
  BY DEF NewCheckpoint, At, Op, cfgVars, ckptVars
<1>2. /\ \A y \in Elems(Rest) : Precedes(Op, y) /\ Allowed(y, irq, handler, in_spec, init_done)
      /\ Allowed(Op, irq, handler, in_spec, init_done)
  BY <1>1, TodoFacts DEF Safe
<1>3. ~handler /\ ~in_spec /\ init_done
  BY <1>1, <1>2 DEF Allowed, CheckpointOps, HandlerOps, InterruptOps, RollbackOps
<1>4. \A y \in Elems(Rest) : Allowed(y, irq, handler, TRUE, init_done)
  BY <1>1, <1>2, <1>3 DEF Allowed, Precedes
<1>5. TodoInv' /\ LogInv' /\ Elems(todo') = Elems(Rest)
  <2>1. \A y \in Elems(Rest) : Allowed(y, irq', handler', in_spec', init_done')
    BY <1>1, <1>4 DEF irqVars
  <2> QED  BY <1>1, <2>1, CodeStep, SoundEmpty DEF Safe
<1>6. ModeInv'
  BY <1>1, <1>3, ModeFacts DEF ModeInv
<1>7. ~handler'
  BY <1>1, <1>3 DEF irqVars
<1>8. LimitInv'
  BY <1>1, SpecEmAssumption DEF LimitInv, Limit
<1> QED  BY <1>5, <1>6, <1>7, <1>8 DEF RegsInv
-----------------------------------------------------------------------------
(* The write log and the rollback *)

\* The code behind a checkpoint may run in any mode.
LEMMA ResumeCode ==
  ASSUME Safe
  PROVE  /\ Sound(ResumeOps) /\ \A x \in Elems(ResumeOps) : x.op \in AfterOps
         /\ \A s, d : \A x \in Elems(ResumeOps) : Allowed(x, kregs.irq, FALSE, s, d)
         /\ \A s, d : Code(ResumeOps, kregs.irq, FALSE, s, d)
         /\ \A x \in Elems(ResumeOps) : /\ x.op \notin RollbackOps \cup LogOps
                                        /\ x.op # "hook_check_call_depth" /\ ~IsReturn(x)
<1>1. TypeOK /\ ~kregs.irq
  BY ModeFacts
<1>2. Made(ResumeOps, AfterOps)
  <2>1. CASE kregs.pc = NoInstr
    BY <2>1, SoundEmpty DEF ResumeOps, Made
  <2>2. CASE kregs.pc # NoInstr
    <3>1. kregs.pc \in DOMAIN prog /\ prog \in Programs /\ kregs.flags \in BOOLEAN
      BY <1>1, <2>2 DEF TypeOK, CkptType, SavedPc, MachineType
    <3>2. prog[kregs.pc] \in Instr
      BY <3>1, ProgramFacts
    <3> QED  BY <2>2, <3>1, <3>2, AfterCode DEF ResumeOps
  <2> QED  BY <2>1, <2>2
<1>3. Sound(ResumeOps) /\ \A x \in Elems(ResumeOps) : x.op \in AfterOps
  BY <1>2 DEF Made
<1>4. ASSUME NEW x \in Elems(ResumeOps)
      PROVE  /\ x.op \notin RollbackOps \cup LogOps \cup CheckpointOps \cup InitOps \cup InterruptOps
             /\ x.op # "hook_check_call_depth" /\ ~IsReturn(x)
  BY <1>3 DEF AfterOps, LeaveOps, NmiOps, RollbackOps, LogOps, CheckpointOps, InitOps, InterruptOps,
              IsReturn, RestartOps
<1>5. \A x \in Elems(ResumeOps) : x.op # "finish"
  BY <1>4 DEF RollbackOps
<1>6. \A s, d : \A x \in Elems(ResumeOps) : Allowed(x, kregs.irq, FALSE, s, d)
  BY <1>1, <1>3, <1>4, <1>5 DEF Sound, Allowed
<1>7. \A s, d : Code(ResumeOps, kregs.irq, FALSE, s, d)
  BY <1>3, <1>6 DEF Code, Sound
<1> QED  BY <1>3, <1>4, <1>6, <1>7

\* An exception in speculation is the start of a rollback.
LEMMA ExceptionStep ==
  ASSUME Safe, in_spec, NEW type \in Int, NEW top \in Int, Exception(type, top),
         UNCHANGED <<in_spec, init_done, wl_enabled, spec_depth, in_restart, kregs>>
  PROVE  TodoInv' /\ ModeInv' /\ RegsInv' /\ LogInv' /\ LimitInv'
<1> DEFINE r == U("restart_irq", type, top)
           q == U("iret", top, 0)
<1>1. r \in MicroOp /\ q \in MicroOp /\ r.op = "restart_irq" /\ q.op = "iret"
  BY DEF U, MicroOp, OpNames
<1>2. todo' = <<r, q>> /\ handler' = TRUE /\ irq' = FALSE /\ regs' = CheckpointRegs
  BY DEF Exception
<1> HIDE DEF r, q
<1>3. Precedes(r, q)
  BY <1>1 DEF Precedes, LastOps, FirstOps, CheckpointOps, IsReturn, RestartOps
<1>4. Ordered(todo') /\ Elems(todo') = {r, q} /\ todo' # << >> /\ Head(todo') = r
  BY <1>2, <1>3, Short
<1>5. \A x \in {r, q} : Allowed(x, irq', handler', in_spec', init_done')
  BY <1>1, <1>2 DEF Allowed, Masked, LogOps, RollbackOps, CheckpointOps, InitOps, HandlerOps, InterruptOps
<1>6. TodoInv'
  BY <1>4, <1>5 DEF TodoInv, Code
<1>7. ModeInv'
  BY ModeFacts DEF ModeInv
<1>8. LogInv'
  BY <1>1, <1>4 DEF LogInv, Op
<1>9. RegsInv'
  <2>1. regs'.todo = ResumeOps /\ regs'.irq = kregs.irq
    BY <1>2 DEF CheckpointRegs
  <2>2. Code(regs'.todo, regs'.irq, FALSE, in_spec', init_done')
    BY <2>1, ResumeCode, Zenon
  <2>3. \A x \in Elems(regs'.todo) : x.op \notin RollbackOps \cup LogOps
    BY <2>1, ResumeCode, Zenon
  <2>4. ~irq' /\ Head(todo').op \in RollbackOps
    BY <1>1, <1>2, <1>4 DEF RollbackOps
  <2> QED  BY <1>4, <2>2, <2>3, <2>4 DEF RegsInv, Op
<1>10. LimitInv'
  BY <1>2 DEF Safe, LimitInv
<1> QED  BY <1>6, <1>7, <1>8, <1>9, <1>10

\* The log is written.
LEMMA LogStep ==
  ASSUME Safe, LogWord \/ Memcpy
  PROVE  TodoInv' /\ ModeInv' /\ RegsInv' /\ LogInv' /\ LimitInv'
<1>1. /\ todo # << >> /\ Op.op \in {"write_wl", "memcpy"}
      /\ UNCHANGED <<in_spec, init_done, wl_enabled, spec_depth, in_restart, kregs>>
  BY DEF LogWord, Memcpy, At, Op, cfgVars, modeVars, countVars, ckptVars
<1>2. /\ TypeOK /\ ~kregs.irq
  BY ModeFacts
<1>3. /\ Op \in MicroOp /\ Op.a \in Int /\ Op.n \in Int /\ sp \in Int
      /\ \A y \in Elems(Rest) : Precedes(Op, y) /\ Allowed(y, irq, handler, in_spec, init_done)
      /\ Allowed(Op, irq, handler, in_spec, init_done)
  BY <1>1, <1>2, TodoFacts, HeadType DEF Safe, TypeOK, MachineType
<1>4. ~irq /\ in_spec /\ ~handler
  BY <1>1, <1>3 DEF Allowed, Masked, LogOps, HandlerOps, InterruptOps, RollbackOps
<1>5. Op.op \notin RollbackOps \cup {"hook_interrupt_timer"} /\ Op.op \notin Pending /\ Op.op # "undo"
  BY <1>1 DEF RollbackOps, Pending
<1>6. CASE LogWord
  <2> DEFINE x == U("restart", RESTART_WRITELOG_FULL, 0)
  <2>1. CASE Continue(WhenFull) /\ UNCHANGED <<irq, irqVars>>
    <3>1. x \in MicroOp /\ x.op = "restart" /\ ~IsReturn(x)
      BY DEF U, MicroOp, OpNames, RESTART_WRITELOG_FULL, RESTART_RETURN, IsReturn
    <3>2. Continue(<<x>>)
      BY <2>1 DEF WhenFull
    <3> HIDE DEF x
    <3>3. \A y \in Elems(Rest) : Precedes(x, y)
      BY <1>3, <1>5, <3>1, PutBefore DEF LastOps
    <3>4. x.op # "add" /\ x.op # "set" /\ Follows(x) /\ x.op # "hook_check_call_depth"
      BY <3>1 DEF Follows, FirstOps
    <3>5. Allowed(x, irq, handler, in_spec, init_done)
      BY <1>4, <3>1 DEF Allowed, LogOps, RollbackOps, CheckpointOps, InitOps, InterruptOps
    <3> QED  BY <1>1, <1>2, <1>4, <1>5, <2>1, <3>1, <3>2, <3>3, <3>4, <3>5, OneStep
  <2>2. CASE Exception(RESTART_PAGE_FAULT, sp)
    BY <1>1, <1>3, <1>4, <2>2, ExceptionStep DEF RESTART_PAGE_FAULT
  <2>3. CASE Continue(<< >>) /\ UNCHANGED <<irq, irqVars>>
    BY <1>1, <1>2, <1>4, <1>5, <2>3, EndStep
  <2> QED  BY <1>6, <2>1, <2>2, <2>3, Zenon DEF LogWord
<1>7. CASE Memcpy
  <2>1. UNCHANGED <<irq, irqVars>>
    BY <1>7 DEF Memcpy, mvars
  <2> DEFINE x == U("memcpy", Op.a + 8, Op.n)
             w == WriteWl(Op.a)
  <2>2. CASE Continue(<< >>)
    BY <1>1, <1>2, <1>4, <1>5, <2>1, <2>2, EndStep
  <2>3. CASE Op.op = "memcpy" /\ Continue(w \o <<x>>)
    <3>1. x \in MicroOp /\ x.op = "memcpy"
      BY <1>3 DEF U, MicroOp, OpNames
    <3>2. Made(w, {"write_wl"})
      BY <1>3, WriteWlCode
    <3> HIDE DEF w, x
    <3>3. Sound(<<x>>) /\ Elems(<<x>>) = {x}
      BY <3>1, SoundOne
    <3>4. Fits(w, <<x>>)
      BY <3>1, <3>2, <3>3 DEF Fits, Made, Precedes, LastOps, FirstOps, CheckpointOps, IsReturn, RestartOps
    <3> DEFINE t == w \o <<x>>
    <3>5. Sound(t) /\ Elems(t) = Elems(w) \cup {x}
      BY <3>2, <3>3, <3>4, Join DEF Made
    <3> HIDE DEF t
    <3>6. \A y \in Elems(t) : y.op \in {"write_wl", "memcpy"}
      BY <3>1, <3>2, <3>5 DEF Made
    <3>7. \A y \in Elems(t) : /\ Follows(y) /\ y.op # "hook_check_call_depth" /\ ~IsReturn(y)
                              /\ Allowed(y, irq, handler, in_spec, init_done)
      BY <1>4, <3>6 DEF Follows, FirstOps, IsReturn, RestartOps, Allowed, LogOps, RollbackOps,
                        CheckpointOps, InitOps, InterruptOps
    <3>8. Fits(t, Rest)
      <4> SUFFICES ASSUME NEW y \in Elems(t), NEW z \in Elems(Rest) PROVE Precedes(y, z)
        BY DEF Fits
      <4>1. /\ y.op # "irq_restore"
            /\ y.op \notin LastOps \cup {"new_checkpoint", "save_stack", "save_registers",
                                         "hook_check_call_depth", "select", "set", "tick"}
        BY <3>6 DEF LastOps
      <4> QED  BY <1>3, <1>5, <3>7, <4>1, PutBefore
    <3>9. \A y \in Elems(t) \cup Elems(Rest) : Allowed(y, irq', handler, in_spec, init_done)
      BY <1>3, <2>1, <3>7
    <3> QED  BY <1>1, <1>2, <1>4, <1>5, <2>1, <2>3, <3>5, <3>7, <3>8, <3>9, QuietStep DEF t
  <2> QED  BY <1>7, <2>2, <2>3 DEF Memcpy, At, Op
<1> QED  BY <1>6, <1>7

LEMMA TwoBefore ==
  ASSUME NEW S, NEW x \in S, NEW y \in S, NEW t \in Seq(S)
  PROVE  LET c == <<x, y>> \o t IN
         c # << >> /\ Head(c) = x /\ Tail(c) # << >> /\ Head(Tail(c)) = y
OBVIOUS

\* A rollback begins.
LEMMA RollbackStep ==
  ASSUME Safe, todo # << >>, in_spec, Op.op \in {"restart", "restart_irq"},
         Op.op = "restart" => ~handler, NEW u \in MicroOp, NEW f \in MicroOp,
         u.op = "undo", f.op = "finish", f.a = IF handler THEN 1 ELSE 0, Continue(<<u, f>>),
         UNCHANGED <<irq, irqVars, in_spec, init_done, wl_enabled, spec_depth, kregs>>
  PROVE  TodoInv' /\ ModeInv' /\ RegsInv' /\ LogInv' /\ LimitInv'
<1>0. TypeOK /\ TodoInv /\ ModeInv /\ RegsInv /\ LogInv /\ LimitInv
  BY DEF Safe
<1>1. /\ Rest \in Seq(MicroOp) /\ Sound(Rest)
      /\ \A y \in Elems(Rest) : Follows(y) /\ Allowed(y, irq, handler, in_spec, init_done)
      /\ Allowed(Op, irq, handler, in_spec, init_done)
      /\ Elems(todo) = {Op} \cup Elems(Rest)
  BY <1>0, TodoFacts
<1>2. todo' = <<u, f>> \o Rest
  BY DEF Continue, Rest
<1>3. Precedes(u, f) /\ \A y \in Elems(Rest) : Precedes(u, y) /\ Precedes(f, y)
  BY <1>1 DEF Precedes, Follows, LastOps, FirstOps, CheckpointOps, IsReturn, RestartOps
<1>4. Sound(<<u, f>>) /\ Elems(<<u, f>>) = {u, f}
  BY <1>3, Short, Seq2 DEF Sound
<1>5. Sound(todo') /\ Elems(todo') = {u, f} \cup Elems(Rest)
  <2>1. Fits(<<u, f>>, Rest)
    BY <1>3, <1>4 DEF Fits
  <2> QED  BY <1>1, <1>2, <1>4, <2>1, Join
<1>6. ~irq
  BY <1>1 DEF Allowed, Masked
<1>7. Allowed(u, irq, handler, in_spec, init_done) /\ Allowed(f, irq, handler, in_spec, init_done)
  BY <1>6 DEF Allowed, LogOps, RollbackOps, CheckpointOps, InitOps, HandlerOps, InterruptOps
<1>8. TodoInv'
  <2>1. \A x \in Elems(todo') : Allowed(x, irq, handler, in_spec, init_done)
    BY <1>1, <1>5, <1>7
  <2>2. \A x \in Elems(todo') : Allowed(x, irq', handler', in_spec', init_done')
    BY <2>1 DEF irqVars
  <2> QED  BY <1>5, <2>2 DEF TodoInv, Code, Sound
<1>9. todo' # << >> /\ Head(todo') = u /\ Tail(todo') # << >> /\ Head(Tail(todo')) = f
  BY <1>1, <1>2, TwoBefore
<1>10. LogInv'
  BY <1>9 DEF LogInv, Op
<1>11. ModeInv'
  BY <1>0 DEF ModeInv
<1>12. RegsInv'
  <2> SUFFICES ASSUME handler PROVE RegsInv'
    BY DEF RegsInv, irqVars
  <2>1. /\ Code(regs.todo, regs.irq, FALSE, in_spec, init_done)
        /\ \A x \in Elems(regs.todo) : x.op \notin RollbackOps
        /\ \A x \in Elems(regs.todo) : x.op \notin LogOps
    BY <1>0 DEF RegsInv, RollbackOps
  <2>2. regs' = regs /\ in_spec' = in_spec /\ init_done' = init_done /\ ~irq'
    BY <1>6 DEF irqVars
  <2>3. /\ Code(regs'.todo, regs'.irq, FALSE, in_spec', init_done')
        /\ \A x \in Elems(regs'.todo) : x.op \notin RollbackOps
        /\ \A x \in Elems(regs'.todo) : x.op \notin LogOps
    BY <2>1, <2>2, Zenon
  <2>4. Head(todo').op \in RollbackOps
    BY <1>9 DEF RollbackOps
  <2> QED  BY <1>9, <2>2, <2>3, <2>4, Zenon DEF RegsInv, Op
<1>13. LimitInv'
  <2>1. u.op # "hook_check_call_depth" /\ f.op # "hook_check_call_depth" /\ ~IsReturn(u) /\ ~IsReturn(f)
    BY DEF IsReturn, RestartOps
  <2> QED  BY <1>0, <1>1, <1>5, <2>1 DEF LimitInv, irqVars
<1> QED  BY <1>8, <1>10, <1>11, <1>12, <1>13

LEMMA RestartStep ==
  ASSUME Safe, Restart \/ RestartIrq
  PROVE  TodoInv' /\ ModeInv' /\ RegsInv' /\ LogInv' /\ LimitInv'
<1>1. /\ todo # << >>
      /\ UNCHANGED <<irq, irqVars, in_spec, init_done, wl_enabled, kregs>>
  BY DEF Restart, RestartIrq, At, mvars, cfgVars, ckptVars
<1>2. /\ TypeOK /\ ~kregs.irq
      /\ ~in_spec => spec_depth = 0 /\ ~in_restart /\ mem[SwapCondition] = 0
  BY ModeFacts
<1>3. /\ Allowed(Op, irq, handler, in_spec, init_done) /\ Op \in MicroOp /\ Op.n \in Int /\ sp \in Int
      /\ \A y \in Elems(Rest) : Allowed(y, irq, handler, in_spec, init_done)
  BY <1>1, <1>2, TodoFacts, HeadType DEF Safe, TypeOK, MachineType
<1>4. CASE RestartIrq
  <2> DEFINE u == U("undo", Op.n, 1)
             f == U("finish", 1, 0)
  <2>1. u \in MicroOp /\ f \in MicroOp /\ u.op = "undo" /\ f.op = "finish" /\ f.a = 1
    BY <1>3 DEF U, MicroOp, OpNames
  <2>2. Op.op = "restart_irq" /\ Continue(<<u, f>>) /\ spec_depth' = spec_depth
    BY <1>4 DEF RestartIrq, At, Op, countVars
  <2> HIDE DEF u, f
  <2>3. handler /\ in_spec
    BY <1>3, <2>2 DEF Allowed, RollbackOps, InterruptOps
  <2> QED  BY <1>1, <2>1, <2>2, <2>3, RollbackStep
<1>5. CASE Restart
  <2>1. Op.op = "restart" /\ Op.op \notin RollbackOps \cup {"hook_interrupt_timer"} /\ Op.op # "undo"
    BY <1>5 DEF Restart, At, Op, RollbackOps
  <2>2. CASE ~in_spec
    <3>1. Continue(<< >>) /\ UNCHANGED <<mem, in_restart, spec_depth>>
      BY <1>5, <2>2 DEF Restart
    <3> QED  BY <1>1, <1>2, <2>1, <2>2, <3>1, EndStep
  <2>3. CASE in_spec /\ ReturnInSpeculation(Op.a)
    <3>1. Continue(<< >>) /\ spec_depth' = spec_depth - 1
      BY <1>5, <2>3 DEF Restart
    <3>2. ~handler
      BY <1>1, <2>1, <2>3, ModeFacts
    <3>3. \A y \in Elems(Rest) : Allowed(y, irq', handler', in_spec', init_done')
      BY <1>1, <1>3 DEF irqVars
    <3>4. TodoInv' /\ LogInv'
      BY <1>1, <1>2, <2>1, <3>1, <3>3, CodeStep, SoundEmpty DEF Safe
    <3>5. ModeInv'
      BY <1>1, <2>3 DEF Safe, ModeInv
    <3>6. ~handler'
      BY <1>1, <3>2 DEF irqVars
    <3>7. LimitInv'
      <4>1. spec_depth \in Nat /\ spec_depth <= Limit /\ Limit \in Nat
        BY <1>2, SpecEmAssumption DEF TypeOK, CountType, Safe, LimitInv, Limit
      <4>2. spec_depth' <= Limit /\ spec_depth' # Limit
        BY <3>1, <4>1
      <4> QED  BY <4>2 DEF LimitInv
    <3> QED  BY <3>4, <3>5, <3>6, <3>7 DEF RegsInv
  <2>4. CASE in_spec /\ ~ReturnInSpeculation(Op.a)
    <3> DEFINE u == U("undo", sp, 0)
               f == U("finish", 0, 0)
    <3>1. u \in MicroOp /\ f \in MicroOp /\ u.op = "undo" /\ f.op = "finish" /\ f.a = 0
      BY <1>3 DEF U, MicroOp, OpNames
    <3>2. Continue(<<u, f>>) /\ spec_depth' = spec_depth
      BY <1>5, <2>4 DEF Restart
    <3> HIDE DEF u, f
    <3>3. ~handler
      BY <1>1, <2>1, <2>4, ModeFacts
    <3> QED  BY <1>1, <2>1, <2>4, <3>1, <3>2, <3>3, RollbackStep
  <2> QED  BY <2>2, <2>3, <2>4
<1> QED  BY <1>4, <1>5

\* One pass of the restore.
LEMMA UndoStep ==
  ASSUME Safe, Undo
  PROVE  TodoInv' /\ ModeInv' /\ RegsInv' /\ LogInv' /\ LimitInv'
<1>0. TypeOK /\ TodoInv /\ ModeInv /\ RegsInv /\ LogInv /\ LimitInv
  BY DEF Safe
<1>1. /\ todo # << >> /\ Op.op = "undo"
      /\ UNCHANGED <<in_spec, init_done, wl_enabled, spec_depth, in_restart, kregs>>
  BY DEF Undo, At, Op, cfgVars, modeVars, countVars, ckptVars
<1>2. /\ Allowed(Op, irq, handler, in_spec, init_done) /\ Op.a \in Int /\ NestedTop(Op.a) \in Int
      /\ Rest \in Seq(MicroOp) /\ Ordered(Rest)
      /\ \A y \in Elems(Rest) : Allowed(y, irq, handler, in_spec, init_done)
      /\ Elems(todo) = {Op} \cup Elems(Rest)
  BY <1>0, <1>1, TodoFacts, HeadType DEF TypeOK, NestedTop
<1>3. in_spec
  BY <1>1, <1>2 DEF Allowed, RollbackOps
<1>4. CASE Exception(RESTART_PAGE_FAULT, NestedTop(Op.a))
  BY <1>1, <1>2, <1>3, <1>4, ExceptionStep DEF RESTART_PAGE_FAULT
<1>5. CASE UNCHANGED <<todo, irq, irqVars>>
  <2>1. /\ todo' = todo /\ irq' = irq /\ handler' = handler /\ regs' = regs
    BY <1>5 DEF irqVars
  <2>2. TodoInv'
    BY <1>0, <1>1, <2>1, Zenon DEF TodoInv
  <2>3. ModeInv'
    BY <1>0, <1>1, <1>3 DEF ModeInv
  <2>4. RegsInv'
    BY <1>0, <1>1, <2>1, Zenon DEF RegsInv, Op
  <2>5. LogInv'
    BY <1>0, <1>1, <2>1 DEF LogInv, Op
  <2>6. LimitInv'
    BY <1>0, <1>1, <2>1, Zenon DEF LimitInv
  <2> QED  BY <2>2, <2>3, <2>4, <2>5, <2>6
<1>6. CASE wl_pos = 0 /\ Continue(<< >>) /\ UNCHANGED <<irq, irqVars, wl_pos>>
  <2>1. todo' = Rest
    BY <1>2, <1>6 DEF Continue, Rest
  <2>2. Rest # << >> /\ Head(Rest).op = "finish" /\ Head(Rest) \in Elems(Rest)
    <3>1. Rest # << >> /\ Head(Rest).op = "finish"
      BY <1>0, <1>1 DEF LogInv, Rest
    <3> QED  BY <1>2, <3>1, ElemsTail
  <2>3. TodoInv'
    <3>1. \A y \in Elems(Rest) : Allowed(y, irq', handler', in_spec', init_done')
      BY <1>1, <1>2, <1>6 DEF irqVars
    <3> QED  BY <1>2, <2>1, <3>1 DEF TodoInv, Code
  <2>4. ModeInv'
    BY <1>0, <1>1, <1>3 DEF ModeInv
  <2>5. LogInv'
    BY <1>6, <2>1, <2>2 DEF LogInv, Op
  <2>6. RegsInv'
    <3> SUFFICES ASSUME handler PROVE RegsInv'
      BY <1>6 DEF RegsInv, irqVars
    <3>1. /\ Code(regs.todo, regs.irq, FALSE, in_spec, init_done)
          /\ \A x \in Elems(regs.todo) : x.op \notin RollbackOps
          /\ \A x \in Elems(regs.todo) : x.op \notin LogOps
      BY <1>0, <1>1, <1>3 DEF RegsInv, RollbackOps
    <3>2. regs' = regs /\ in_spec' = in_spec /\ init_done' = init_done
      BY <1>1, <1>6 DEF irqVars
    <3>3. ~irq'
      BY <1>0, <1>6 DEF RegsInv
    <3>4. /\ Code(regs'.todo, regs'.irq, FALSE, in_spec', init_done')
          /\ \A x \in Elems(regs'.todo) : x.op \notin RollbackOps
          /\ \A x \in Elems(regs'.todo) : x.op \notin LogOps
      BY <3>1, <3>2, Zenon
    <3>5. Head(todo').op \in RollbackOps /\ todo' # << >>
      BY <2>1, <2>2 DEF RollbackOps
    <3> QED  BY <3>3, <3>4, <3>5, Zenon DEF RegsInv, Op
  <2>7. LimitInv'
    BY <1>0, <1>1, <1>2, <1>6, <2>1, <2>2 DEF LimitInv, irqVars
  <2> QED  BY <2>3, <2>4, <2>5, <2>6, <2>7
<1> QED  BY <1>4, <1>5, <1>6, Zenon DEF Undo

\* No frame is the swap condition.
LEMMA FrameWords ==
  ASSUME NEW d \in Int, 1 <= d, d <= MaxSp + 2
  PROVE  Frame(d) \in Words /\ Frame(d) # SwapCondition /\ Frame(d) >= FirstHeap
BY MachineAssumption, SpecEmAssumption DEF Frame, Words, SwapCondition, FirstHeap

\* The end of a speculation.
LEMMA FinishStep ==
  ASSUME Safe, Finish
  PROVE  TodoInv' /\ ModeInv' /\ RegsInv' /\ LogInv' /\ LimitInv'
<1>0. TypeOK /\ TodoInv /\ ModeInv /\ RegsInv /\ LogInv /\ LimitInv
  BY DEF Safe
<1>1. /\ todo # << >> /\ Op.op = "finish" /\ Op.op # "undo"
      /\ UNCHANGED <<init_done, kregs, handler, regs>>
      /\ in_spec' = FALSE /\ wl_enabled' = FALSE /\ in_restart' = FALSE /\ spec_depth' = 0
      /\ mem' = FinishMem
  BY DEF Finish, At, Op, cfgVars, ckptVars, irqVars
<1>2. /\ Allowed(Op, irq, handler, in_spec, init_done)
      /\ \A y \in Elems(Rest) : /\ Follows(y) /\ Precedes(Op, y)
                                /\ Allowed(y, irq, handler, in_spec, init_done)
  BY <1>0, <1>1, TodoFacts
<1>3. in_spec /\ ~kregs.irq /\ init_done
  BY <1>0, <1>1, <1>2 DEF Allowed, RollbackOps, ModeInv
<1>4. mem'[SwapCondition] = 0
  <2>1. wl_base \in Int /\ 1 <= wl_base /\ wl_base <= MaxSp + 2
    BY <1>0, MachineAssumption DEF TypeOK, CkptType
  <2>2. Frame(wl_base) # SwapCondition
    BY <2>1, FrameWords
  <2>3. mem \in [Words -> Int] /\ SwapCondition \in Words
    BY <1>0, MachineAssumption DEF TypeOK, MachineType, Words, SwapCondition, FirstHeap
  <2>4. mem' = [[mem EXCEPT ![SwapCondition] = 0] EXCEPT ![Frame(wl_base)] = wl_stack]
    BY <1>1, Zenon DEF FinishMem
  <2> QED  BY <2>2, <2>3, <2>4
<1>5. ModeInv'
  BY <1>0, <1>1, <1>3, <1>4 DEF ModeInv
<1>6. LimitInv'
  BY <1>1, SpecEmAssumption DEF LimitInv, Limit
<1>7. CASE Op.a = 0
  <2>1. ~handler /\ ~handler'
    BY <1>1, <1>2, <1>7 DEF Allowed
  <2>2. todo' = ResumeOps /\ Resume(kregs)
    BY <1>7 DEF Finish
  <2>3. TodoInv'
    <3>1. CASE kregs.pc = NoInstr
      BY <2>2, <3>1, Short DEF TodoInv, Code, ResumeOps
    <3>2. CASE kregs.pc # NoInstr
      <4>1. ~irq'
        BY <1>3, <2>2, <3>2 DEF Resume
      <4>2. Ordered(ResumeOps) /\ \A x \in Elems(ResumeOps) : Allowed(x, kregs.irq, FALSE, in_spec', init_done')
        BY ResumeCode DEF Sound
      <4>3. \A x \in Elems(ResumeOps) : Allowed(x, irq', handler', in_spec', init_done')
        BY <1>3, <2>1, <4>1, <4>2 DEF Allowed
      <4> QED  BY <2>2, <4>2, <4>3 DEF TodoInv, Code
    <3> QED  BY <3>1, <3>2
  <2>4. LogInv'
    <3>1. ResumeOps \in Seq(MicroOp) /\ \A x \in Elems(ResumeOps) : x.op \notin RollbackOps
      BY ResumeCode DEF Sound
    <3>2. ResumeOps # << >> => Head(ResumeOps) \in Elems(ResumeOps)
      BY <3>1, ElemsTail
    <3> QED  BY <2>2, <3>1, <3>2 DEF LogInv, Op, RollbackOps
  <2> QED  BY <1>5, <1>6, <2>1, <2>3, <2>4 DEF RegsInv
<1>8. CASE Op.a # 0
  <2>1. handler /\ Continue(<< >>) /\ irq' = irq
    BY <1>1, <1>2, <1>8 DEF Allowed, Finish
  <2>2. \A y \in Elems(Rest) : Allowed(y, irq', handler', in_spec', init_done')
    <3> SUFFICES ASSUME NEW y \in Elems(Rest) PROVE Allowed(y, irq, handler, FALSE, init_done)
      BY <1>1, <2>1
    <3>1. Follows(y) /\ Allowed(y, irq, handler, in_spec, init_done)
      BY <1>2
    <3>2. y.op \in HandlerOps
      BY <2>1, <3>1 DEF Allowed
    <3>3. y.op \notin LogOps \cup RollbackOps \cup CheckpointOps
      BY <3>1, <3>2 DEF Follows, FirstOps, HandlerOps, InterruptOps, LogOps, RollbackOps, CheckpointOps
    <3> QED  BY <3>1, <3>3 DEF Allowed
  <2>3. TodoInv' /\ LogInv'
    BY <1>0, <1>1, <2>1, <2>2, CodeStep, SoundEmpty
  <2>4. RegsInv'
    <3>1. /\ Ordered(regs.todo)
          /\ \A x \in Elems(regs.todo) : /\ Allowed(x, regs.irq, FALSE, in_spec, init_done)
                                         /\ x.op \notin RollbackOps /\ x.op \notin LogOps
      BY <1>0, <1>1, <1>3, <2>1 DEF RegsInv, Code, RollbackOps
    <3>2. \A x \in Elems(regs.todo) : Allowed(x, regs.irq, FALSE, FALSE, init_done)
      BY <1>3, <3>1 DEF Allowed
    <3>3. Code(regs.todo, regs.irq, FALSE, FALSE, init_done)
      BY <3>1, <3>2 DEF Code
    <3>4. Code(regs'.todo, regs'.irq, FALSE, in_spec', init_done')
      BY <1>1, <3>3, Zenon
    <3>5. \A x \in Elems(regs'.todo) : x.op \notin RollbackOps
      BY <1>1, <3>1, Zenon
    <3>6. ~irq' /\ ~in_spec'
      BY <1>0, <1>1, <2>1 DEF RegsInv
    <3> QED  BY <3>4, <3>5, <3>6, Zenon DEF RegsInv
  <2> QED  BY <1>5, <1>6, <2>3, <2>4
<1> QED  BY <1>7, <1>8
-----------------------------------------------------------------------------
(* Interrupts *)

LEMMA Short4 ==
  ASSUME NEW w, NEW x, NEW y, NEW z,
         Precedes(w, x), Precedes(w, y), Precedes(w, z), Precedes(x, y), Precedes(x, z), Precedes(y, z)
  PROVE  /\ Elems(<<w, x, y, z>>) = {w, x, y, z} /\ Ordered(<<w, x, y, z>>)
         /\ <<w, x, y, z>> # << >> /\ Head(<<w, x, y, z>>) = w
<1> DEFINE t == <<w, x, y, z>>
<1>1. DOMAIN t = {1, 2, 3, 4} /\ t[1] = w /\ t[2] = x /\ t[3] = y /\ t[4] = z /\ t # << >> /\ Head(t) = w
  OBVIOUS
<1> HIDE DEF t
<1>2. Elems(t) = {w, x, y, z}
  BY <1>1 DEF Elems
<1>3. Ordered(t)
  BY <1>1 DEF Ordered
<1> QED  BY <1>1, <1>2, <1>3 DEF t

\* A timer interrupt: nothing of a rollback is pending, or interrupts would be
\* disabled.
LEMMA TimerStep ==
  ASSUME Safe, TimerInterrupt
  PROVE  TodoInv' /\ ModeInv' /\ RegsInv' /\ LogInv' /\ LimitInv'
<1>0. TypeOK /\ TodoInv /\ ModeInv /\ RegsInv /\ LogInv /\ LimitInv
  BY DEF Safe
<1> DEFINE h == U("hook_interrupt_timer", sp, 0)
           t == U("tick", sp, 0)
           r == U("hook_restart", RESTART_RETURN, 0)
           q == U("iret", sp, 0)
<1>1. /\ irq /\ ~handler /\ handler' = TRUE /\ irq' = FALSE
      /\ regs' = [pc |-> pc, sp |-> sp, irq |-> irq, todo |-> todo]
      /\ mem' = Write(mem, {Frame(sp + 1), Frame(sp + 2)}, RtMark)
      /\ todo' = <<h, t, r, q>>
      /\ UNCHANGED <<in_spec, init_done, wl_enabled, spec_depth, in_restart, kregs>>
  BY DEF TimerInterrupt, cfgVars, modeVars, countVars, ckptVars
<1>2. h.op = "hook_interrupt_timer" /\ t.op = "tick" /\ r.op = "hook_restart" /\ q.op = "iret"
  BY DEF U
<1> HIDE DEF h, t, r, q
<1>3. /\ Precedes(h, t) /\ Precedes(h, r) /\ Precedes(h, q)
      /\ Precedes(t, r) /\ Precedes(t, q) /\ Precedes(r, q)
  BY <1>2 DEF Precedes, LastOps, FirstOps, CheckpointOps, IsReturn, RestartOps
<1>4. Elems(todo') = {h, t, r, q} /\ Ordered(todo') /\ todo' # << >> /\ Head(todo') = h
  BY <1>1, <1>3, Short4
<1>5. \A x \in {h, t, r, q} : Allowed(x, irq', handler', in_spec', init_done')
  BY <1>1, <1>2 DEF Allowed, Masked, LogOps, RollbackOps, CheckpointOps, InitOps, HandlerOps, InterruptOps
<1>6. TodoInv'
  BY <1>4, <1>5 DEF TodoInv, Code
<1>7. ModeInv'
  <2>1. /\ sp + 1 \in Int /\ 1 <= sp + 1 /\ sp + 1 <= MaxSp + 2
        /\ sp + 2 \in Int /\ 1 <= sp + 2 /\ sp + 2 <= MaxSp + 2
    BY <1>0, MachineAssumption DEF TypeOK, MachineType
  <2>2. Frame(sp + 1) # SwapCondition /\ Frame(sp + 2) # SwapCondition
    BY <2>1, FrameWords
  <2>3. SwapCondition \in Words
    BY MachineAssumption DEF Words, SwapCondition, FirstHeap
  <2>4. mem'[SwapCondition] = mem[SwapCondition]
    BY <1>1, <2>2, <2>3 DEF Write
  <2> QED  BY <1>0, <1>1, <2>4 DEF ModeInv
<1>8. LogInv'
  BY <1>2, <1>4 DEF LogInv, Op
<1>9. RegsInv'
  <2>1. regs'.todo = todo /\ regs'.irq = irq
    BY <1>1
  <2>2. handler = FALSE
    BY <1>0, <1>1 DEF TypeOK, IrqType
  <2>3. Code(todo, irq, FALSE, in_spec, init_done)
    BY <1>0, <2>2, Zenon DEF TodoInv
  <2>4. Code(regs'.todo, regs'.irq, FALSE, in_spec', init_done')
    BY <1>1, <2>1, <2>3, Zenon
  <2>5. \A x \in Elems(todo) : x.op \notin RollbackOps
    BY <1>1, <2>3 DEF Code, Allowed, Masked, RollbackOps
  <2>6. \A x \in Elems(regs'.todo) : x.op \notin RollbackOps
    BY <2>1, <2>5, Zenon
  <2>7. ~irq' /\ Head(todo').op = "hook_interrupt_timer" /\ Head(todo').op \notin RollbackOps
    BY <1>1, <1>2, <1>4 DEF RollbackOps
  <2> QED  BY <1>4, <2>4, <2>6, <2>7 DEF RegsInv, Op
<1>10. LimitInv'
  BY <1>0, <1>1 DEF LimitInv
<1> QED  BY <1>6, <1>7, <1>8, <1>9, <1>10

\* The hook of the timer interrupt rolls a speculation back.
LEMMA TimerHookStep ==
  ASSUME Safe, HookInterruptTimer
  PROVE  TodoInv' /\ ModeInv' /\ RegsInv' /\ LogInv' /\ LimitInv'
<1>0. TypeOK /\ TodoInv /\ ModeInv /\ RegsInv /\ LogInv /\ LimitInv
  BY DEF Safe
<1>1. /\ todo # << >> /\ Op.op = "hook_interrupt_timer"
      /\ UNCHANGED <<irq, mem, in_spec, init_done, wl_enabled, spec_depth, in_restart, kregs, handler>>
  BY DEF HookInterruptTimer, At, Op, mvars, cfgVars, modeVars, countVars, ckptVars
<1>2. /\ Rest \in Seq(MicroOp) /\ Sound(Rest) /\ Op.a \in Int
      /\ \A y \in Elems(Rest) : Follows(y) /\ Allowed(y, irq, handler, in_spec, init_done)
      /\ Allowed(Op, irq, handler, in_spec, init_done)
  BY <1>0, <1>1, TodoFacts, HeadType DEF TypeOK
<1>3. handler /\ (in_spec => init_done) /\ ~irq
  BY <1>0, <1>1, <1>2 DEF Allowed, InterruptOps, ModeInv, RegsInv
<1>4. CASE ~in_spec
  <2>1. Continue(<< >>) /\ UNCHANGED irqVars
    BY <1>1, <1>4 DEF HookInterruptTimer, irqVars
  <2>2. Op.op \notin RollbackOps
    BY <1>1 DEF RollbackOps
  <2>3. ~kregs'.irq /\ mem'[SwapCondition] = 0
    BY <1>0, <1>1, <1>4 DEF ModeInv
  <2> QED  BY <1>1, <1>4, <2>1, <2>2, <2>3, EndStep
<1>5. CASE in_spec
  <2> DEFINE x == U("restart_irq", RESTART_TIMER, Op.a)
  <2>1. x \in MicroOp /\ x.op = "restart_irq"
    BY <1>2 DEF U, MicroOp, OpNames, RESTART_TIMER
  <2>2. regs' = CheckpointRegs /\ Continue(<<x>>)
    BY <1>3, <1>5 DEF HookInterruptTimer
  <2> HIDE DEF x
  <2>3. todo' = <<x>> \o Rest
    BY <2>2 DEF Continue, Rest
  <2>4. Sound(<<x>>) /\ Elems(<<x>>) = {x}
    BY <2>1, SoundOne
  <2>5. Fits(<<x>>, Rest)
    BY <1>2, <2>1, <2>4 DEF Fits, Precedes, Follows, LastOps, FirstOps, CheckpointOps, IsReturn, RestartOps
  <2>6. Sound(todo') /\ Elems(todo') = {x} \cup Elems(Rest)
    BY <1>2, <2>3, <2>4, <2>5, Join
  <2>7. todo' # << >> /\ Head(todo') = x
    BY <1>2, <2>1, <2>3
  <2>8. Allowed(x, irq, handler, in_spec, init_done)
    BY <1>3, <1>5, <2>1 DEF Allowed, LogOps, RollbackOps, CheckpointOps, InitOps, HandlerOps, InterruptOps
  <2>9. TodoInv'
    <3>1. \A y \in Elems(todo') : Allowed(y, irq', handler', in_spec', init_done')
      BY <1>1, <1>2, <2>6, <2>8
    <3> QED  BY <2>6, <3>1 DEF TodoInv, Code, Sound
  <2>10. ModeInv'
    BY <1>0, <1>1 DEF ModeInv
  <2>11. LogInv'
    BY <2>1, <2>7 DEF LogInv, Op
  <2>12. RegsInv'
    <3>1. regs'.todo = ResumeOps /\ regs'.irq = kregs.irq
      BY <2>2 DEF CheckpointRegs
    <3>2. Code(regs'.todo, regs'.irq, FALSE, in_spec', init_done')
      BY <3>1, ResumeCode, Zenon
    <3>3. \A y \in Elems(regs'.todo) : y.op \notin RollbackOps \cup LogOps
      BY <3>1, ResumeCode, Zenon
    <3>4. ~irq' /\ Head(todo').op \in RollbackOps
      BY <1>1, <1>3, <2>1, <2>7 DEF RollbackOps
    <3> QED  BY <2>7, <3>2, <3>3, <3>4 DEF RegsInv, Op
  <2>13. LimitInv'
    BY <1>0, <1>1, <1>3 DEF LimitInv
  <2> QED  BY <2>9, <2>10, <2>11, <2>12, <2>13
<1> QED  BY <1>4, <1>5

\* The handler's work, and its return.
LEMMA HandlerStep ==
  ASSUME Safe, HandleTick \/ Iret
  PROVE  TodoInv' /\ ModeInv' /\ RegsInv' /\ LogInv' /\ LimitInv'
<1>0. TypeOK /\ TodoInv /\ ModeInv /\ RegsInv /\ LogInv /\ LimitInv
  BY DEF Safe
<1>1. /\ todo # << >> /\ Op.op \in {"tick", "iret"}
      /\ UNCHANGED <<in_spec, init_done, wl_enabled, spec_depth, in_restart, kregs>>
  BY DEF HandleTick, Iret, At, Op, cfgVars, modeVars, countVars, ckptVars
<1>2. Op.op \notin RollbackOps /\ Op.op # "hook_interrupt_timer" /\ Op.op \notin Pending
  BY <1>1 DEF RollbackOps, Pending
<1>3. handler
  <2>1. Allowed(Op, irq, handler, in_spec, init_done)
    BY <1>0, <1>1, TodoFacts
  <2> QED  BY <1>1, <2>1 DEF Allowed, InterruptOps
<1>4. ~in_spec /\ ~irq /\ ~kregs.irq /\ mem[SwapCondition] = 0
  BY <1>0, <1>1, <1>2, <1>3 DEF RegsInv, ModeInv
<1>5. CASE HandleTick
  <2>1. Continue(<< >>) /\ UNCHANGED <<irq, irqVars>>
    BY <1>5 DEF HandleTick
  <2>2. mem'[SwapCondition] = 0
    <3>1. mem \in [Words -> Int] /\ SwapCondition \in Words /\ SwapCondition # Jiffies
      BY <1>0, MachineAssumption DEF TypeOK, MachineType, Words, SwapCondition, Jiffies, FirstHeap
    <3> DEFINE v == IF mem[SwapCondition] = 1 THEN mem[Jiffies] ELSE mem[Jiffies] + 1
    <3>2. mem' = [[mem EXCEPT ![Jiffies] = v] EXCEPT ![SwapCondition] = 0]
      BY <1>5, Zenon DEF HandleTick
    <3> HIDE DEF v
    <3> QED  BY <3>1, <3>2
  <2> QED  BY <1>1, <1>2, <1>4, <2>1, <2>2, EndStep
<1>6. CASE Iret
  <2>1. handler' = FALSE /\ Resume(regs) /\ todo' = regs.todo /\ mem' = mem
    BY <1>6 DEF Iret
  <2>2. /\ Ordered(regs.todo) /\ regs.todo \in Seq(MicroOp)
        /\ \A x \in Elems(regs.todo) : /\ Allowed(x, regs.irq, FALSE, in_spec, init_done)
                                       /\ x.op \notin RollbackOps
    BY <1>0, <1>3 DEF RegsInv, Code, TypeOK, IrqType
  <2>3. ~irq' \/ irq' = regs.irq
    BY <1>4, <2>1 DEF Resume
  <2>4. \A x \in Elems(regs.todo) : Allowed(x, irq', FALSE, in_spec, init_done)
    BY <2>2, <2>3 DEF Allowed
  <2>5. TodoInv'
    <3>1. \A x \in Elems(regs.todo) : Allowed(x, irq', handler', in_spec', init_done')
      BY <1>1, <2>1, <2>4
    <3> QED  BY <2>1, <2>2, <3>1 DEF TodoInv, Code
  <2>6. LogInv'
    <3>1. regs.todo # << >> => Head(regs.todo) \in Elems(regs.todo)
      BY <2>2, ElemsTail
    <3> QED  BY <2>1, <2>2, <3>1 DEF LogInv, Op, RollbackOps
  <2>7. ModeInv'
    BY <1>0, <1>1, <2>1 DEF ModeInv
  <2>8. LimitInv'
    BY <1>0, <1>1, <1>4 DEF LimitInv
  <2> QED  BY <2>1, <2>5, <2>6, <2>7, <2>8 DEF RegsInv
<1> QED  BY <1>5, <1>6
-----------------------------------------------------------------------------
(* Instructions *)

HookOps == {"hook_store", "hook_memcpy", "hook_restart", "hook_check_call_depth",
            "hook_check_spec_length"}

\* What the instrumentation of i is made of.
FetchFacts(t, i) ==
  /\ Made(t, HookOps \cup {"hook_new_checkpoint", "exec"})
  /\ \A x \in Elems(t) : /\ x.op = "hook_check_call_depth" => i.op = "entry"
                         /\ x.op = "hook_new_checkpoint" => i.op = "branch"
                         /\ IsReturn(x) => i.op = "ret"
  /\ i.op # "branch" => Has(t, "exec")
  /\ i.op = "entry" => Has(t, "hook_check_call_depth")
  /\ i.op = "ret" => \E x \in Elems(t) : IsReturn(x)

LEMMA BeforeExec ==
  ASSUME NEW s, NEW e \in MicroOp, e.op = "exec", Sound(s), \A x \in Elems(s) : x.op \in HookOps
  PROVE  Sound(s \o <<e>>) /\ Elems(s \o <<e>>) = Elems(s) \cup {e}
<1>1. Sound(<<e>>) /\ Elems(<<e>>) = {e}
  BY SoundOne
<1>2. Fits(s, <<e>>)
  BY <1>1 DEF Fits, HookOps, Precedes, LastOps, FirstOps, Masked, CheckpointOps, IsReturn, RestartOps
<1> QED  BY <1>1, <1>2, Join

LEMMA InstrumentCode ==
  ASSUME NEW i \in Instr, i.op = "asm" => i.to # RESTART_RETURN
  PROVE  FetchFacts(Instrument(i), i)
<1>1. i.addr \in Int /\ i.size \in Int /\ i.to \in Int /\ i.op \in Ops
  BY DEF Instr
<1> DEFINE e == U("exec", 0, 0)
<1>2. e \in MicroOp /\ e.op = "exec"
  BY DEF U, MicroOp, OpNames
<1>3. ASSUME NEW x \in MicroOp, x.op \in HookOps, Instrument(i) = <<x>> \o <<e>>,
             i.op \notin {"branch", "ret"},
             x.op = "hook_check_call_depth" <=> i.op = "entry", ~IsReturn(x)
      PROVE  FetchFacts(Instrument(i), i)
  <2> HIDE DEF e
  <2>1. Sound(<<x>>) /\ Elems(<<x>>) = {x}
    BY <1>3, SoundOne DEF HookOps
  <2>2. Sound(<<x>> \o <<e>>) /\ Elems(<<x>> \o <<e>>) = {x, e}
    BY <1>2, <1>3, <2>1, BeforeExec
  <2> QED  BY <1>2, <1>3, <2>2 DEF FetchFacts, Made, Has, IsReturn, RestartOps, HookOps
<1>4. CASE i.op = "store"
  <2> DEFINE x == U("hook_store", i.addr, 0)
  <2>1. x \in MicroOp /\ x.op \in HookOps /\ x.op = "hook_store" /\ ~IsReturn(x)
    BY <1>1 DEF U, MicroOp, OpNames, HookOps, IsReturn, RestartOps
  <2>2. Instrument(i) = <<x>> \o <<e>>
    BY <1>4 DEF Instrument, visitStoreInst
  <2> HIDE DEF x, e
  <2> QED  BY <1>3, <1>4, <2>1, <2>2
<1>5. CASE i.op = "memset"
  <2> DEFINE x == U("hook_memcpy", i.addr, i.size)
  <2>1. x \in MicroOp /\ x.op \in HookOps /\ x.op = "hook_memcpy" /\ ~IsReturn(x)
    BY <1>1 DEF U, MicroOp, OpNames, HookOps, IsReturn, RestartOps
  <2>2. Instrument(i) = <<x>> \o <<e>>
    BY <1>5 DEF Instrument, visitMemIntrinsic
  <2> HIDE DEF x, e
  <2> QED  BY <1>3, <1>5, <2>1, <2>2
<1>6. CASE i.op = "asm"
  <2> DEFINE x == U("hook_restart", i.to, 0)
  <2>1. x \in MicroOp /\ x.op \in HookOps /\ x.op = "hook_restart" /\ ~IsReturn(x)
    BY <1>1, <1>6 DEF U, MicroOp, OpNames, HookOps, IsReturn, RestartOps
  <2>2. Instrument(i) = <<x>> \o <<e>>
    BY <1>6 DEF Instrument, visitCallInst
  <2> HIDE DEF x, e
  <2> QED  BY <1>3, <1>6, <2>1, <2>2
<1>7. CASE i.op = "entry"
  <2> DEFINE x == U("hook_check_call_depth", 0, 0)
  <2>1. x \in MicroOp /\ x.op \in HookOps /\ x.op = "hook_check_call_depth" /\ ~IsReturn(x)
    BY DEF U, MicroOp, OpNames, HookOps, IsReturn, RestartOps
  <2>2. Instrument(i) = <<x>> \o <<e>>
    BY <1>7 DEF Instrument, visitEntry
  <2> HIDE DEF x, e
  <2> QED  BY <1>3, <1>7, <2>1, <2>2
<1>8. CASE i.op = "jump"
  <2> DEFINE s == LengthHook(i, TRUE)
  <2>1. Made(s, {"hook_check_spec_length"})
    BY LengthCode
  <2>2. Instrument(i) = s \o <<e>>
    BY <1>8 DEF Instrument
  <2> HIDE DEF s, e
  <2>3. Sound(s \o <<e>>) /\ Elems(s \o <<e>>) = Elems(s) \cup {e}
    BY <1>2, <2>1, BeforeExec DEF Made, HookOps
  <2> QED  BY <1>2, <1>8, <2>1, <2>2, <2>3 DEF FetchFacts, Made, Has, IsReturn, RestartOps, HookOps
<1>9. CASE i.op = "ret"
  <2> DEFINE k == LengthHook(i, ~LengthAfterKSpecEm)
             x == U("hook_restart", RESTART_RETURN, 0)
             l == LengthHook(i, LengthAfterKSpecEm)
             kx == k \o <<x>>
             kxl == kx \o l
  <2>1. Made(k, {"hook_check_spec_length"}) /\ Made(l, {"hook_check_spec_length"})
    BY LengthCode, SpecEmAssumption
  <2>2. x \in MicroOp /\ x.op = "hook_restart" /\ IsReturn(x)
    BY DEF U, MicroOp, OpNames, IsReturn, RestartOps, RESTART_RETURN
  <2>3. Instrument(i) = kxl \o <<e>>
    BY <1>9 DEF Instrument, visitReturnInst
  <2> HIDE DEF k, x, l, e
  <2>4. Sound(<<x>>) /\ Elems(<<x>>) = {x}
    BY <2>2, SoundOne
  <2>5. /\ \A y \in Elems(k) : Precedes(y, x) /\ \A z \in Elems(l) : Precedes(y, z)
        /\ \A z \in Elems(l) : Precedes(x, z)
    BY <2>1, <2>2 DEF Made, Precedes, LastOps, FirstOps, CheckpointOps, IsReturn, RestartOps
  <2>6. Sound(kx) /\ Elems(kx) = Elems(k) \cup {x}
    BY <2>1, <2>4, <2>5, Join DEF Made, Fits
  <2> HIDE DEF kx
  <2>7. Sound(kxl) /\ Elems(kxl) = Elems(kx) \cup Elems(l)
    BY <2>1, <2>5, <2>6, Join DEF Made, Fits
  <2> HIDE DEF kxl
  <2>8. \A y \in Elems(kxl) : y = x \/ y.op = "hook_check_spec_length"
    BY <2>1, <2>6, <2>7 DEF Made
  <2>9. Sound(kxl \o <<e>>) /\ Elems(kxl \o <<e>>) = Elems(kxl) \cup {e}
    BY <1>2, <2>2, <2>7, <2>8, BeforeExec DEF HookOps
  <2>10. x \in Elems(kxl)
    BY <2>6, <2>7
  <2> QED  BY <1>2, <1>9, <2>2, <2>3, <2>8, <2>9, <2>10 DEF FetchFacts, Made, Has, HookOps
<1>10. CASE i.op = "branch"
  <2> DEFINE l == LengthHook(i, ~LengthAfterSpec)
             x == U("hook_new_checkpoint", 0, 0)
  <2>1. Made(l, {"hook_check_spec_length"})
    BY LengthCode, SpecEmAssumption
  <2>2. x \in MicroOp /\ x.op = "hook_new_checkpoint" /\ ~IsReturn(x)
    BY DEF U, MicroOp, OpNames, IsReturn, RestartOps
  <2>3. Instrument(i) = l \o <<x>>
    BY <1>10 DEF Instrument, visitBranchInst
  <2> HIDE DEF l, x
  <2>4. Sound(<<x>>) /\ Elems(<<x>>) = {x}
    BY <2>2, SoundOne
  <2>5. Fits(l, <<x>>)
    BY <2>1, <2>2, <2>4 DEF Made, Fits, Precedes, LastOps, FirstOps, CheckpointOps, IsReturn, RestartOps
  <2>6. Sound(l \o <<x>>) /\ Elems(l \o <<x>>) = Elems(l) \cup {x}
    BY <2>1, <2>4, <2>5, Join DEF Made
  <2> QED  BY <1>10, <2>1, <2>2, <2>3, <2>6 DEF FetchFacts, Made, HookOps, IsReturn, RestartOps
<1>11. CASE i.op \notin {"store", "memset", "asm", "entry", "jump", "ret", "branch"}
  <2>1. Instrument(i) = <<e>>
    BY <1>11 DEF Instrument
  <2> HIDE DEF e
  <2>2. Sound(<<e>>) /\ Elems(<<e>>) = {e}
    BY <1>2, SoundOne
  <2> QED  BY <1>2, <1>11, <2>1, <2>2 DEF FetchFacts, Made, Has, IsReturn, RestartOps
<1> QED  BY <1>4, <1>5, <1>6, <1>7, <1>8, <1>9, <1>10, <1>11

\* The code of the instruction at pc.
LEMMA TextFacts ==
  ASSUME TypeOK
  PROVE  FetchFacts(Instrument(prog[pc]), prog[pc])
<1>1. prog \in Programs /\ pc \in DOMAIN prog /\ prog[pc] \in Instr
  BY TypeFacts
<1>2. prog[pc].op = "asm" => prog[pc].to \in CallRestarts
  BY <1>1, SpecEmAssumption
<1>3. prog[pc].op = "asm" => prog[pc].to # RESTART_RETURN
  BY <1>2 DEF CallRestarts, RESTART_RETURN, RESTART_CALL_UNDEFINED, RESTART_INLINE_ASM, RESTART_BLACKLIST
<1> QED  BY <1>1, <1>3, InstrumentCode

LEMMA FetchStep ==
  ASSUME Safe, Fetch
  PROVE  TodoInv' /\ ModeInv' /\ RegsInv' /\ LogInv' /\ LimitInv'
<1>0. TypeOK /\ TodoInv /\ ModeInv /\ RegsInv /\ LogInv /\ LimitInv
  BY DEF Safe
<1>1. /\ todo = << >> /\ ~handler /\ todo' = Instrument(prog[pc])
      /\ UNCHANGED <<irq, mem, in_spec, init_done, wl_enabled, spec_depth, in_restart, kregs, handler>>
  BY DEF Fetch, AtInstruction, mvars, cfgVars, modeVars, countVars, ckptVars, irqVars
<1>2. /\ Sound(todo') /\ todo' \in Seq(MicroOp)
      /\ \A x \in Elems(todo') : x.op \in HookOps \cup {"hook_new_checkpoint", "exec"}
  BY <1>0, <1>1, TextFacts DEF FetchFacts, Made, Sound
<1>3. \A x \in Elems(todo') : Allowed(x, irq', handler', in_spec', init_done')
  BY <1>1, <1>2 DEF Sound, HookOps, Allowed, Masked, LogOps, RollbackOps, CheckpointOps, InitOps,
                    InterruptOps
<1>4. TodoInv'
  BY <1>2, <1>3 DEF TodoInv, Code, Sound
<1>5. LogInv'
  <2>1. todo' # << >> => Head(todo') \in Elems(todo')
    BY <1>2, ElemsTail
  <2> QED  BY <1>2, <2>1 DEF LogInv, Op, HookOps
<1>6. ModeInv' /\ RegsInv'
  BY <1>0, <1>1 DEF ModeInv, RegsInv
<1>7. LimitInv'
  <2>1. Elems(todo) = {}
    BY <1>1, Short
  <2> QED  BY <1>0, <1>1, <2>1 DEF LimitInv
<1> QED  BY <1>4, <1>5, <1>6, <1>7

\* The program writes no variable of the runtime.
LEMMA StraightSwap ==
  ASSUME TypeOK, ~Faults, Straight
  PROVE  mem'[SwapCondition] = mem[SwapCondition]
<1>1. SwapCondition \in Words /\ SwapCondition \notin FirstHeap..(NWords - 1)
  BY MachineAssumption DEF Words, SwapCondition, FirstHeap
<1>2. /\ sp \in Int /\ 1 <= sp /\ sp <= MaxSp + 2
      /\ sp + 1 \in Int /\ 1 <= sp + 1 /\ sp + 1 <= MaxSp + 2
  BY MachineAssumption DEF TypeOK, MachineType
<1>3. Frame(sp) # SwapCondition /\ Frame(sp + 1) # SwapCondition
  BY <1>2, FrameWords
<1>4. CASE Store
  <2>1. Touched(prog[pc].addr, prog[pc].size) \subseteq FirstHeap..(NWords - 1)
    <3>1. prog \in Programs /\ pc \in DOMAIN prog /\ prog[pc].op \in {"store", "memset", "asm"}
      BY <1>4, TypeFacts DEF Store
    <3>2. WellFormed(prog)
      BY <3>1, MachineAssumption
    <3> QED  BY <3>1, <3>2 DEF WellFormed
  <2>2. mem' = Write(mem, Touched(prog[pc].addr, prog[pc].size), prog[pc].val)
    BY <1>4 DEF Store
  <2> QED  BY <1>1, <2>1, <2>2 DEF Write
<1>5. CASE Spill
  BY <1>1, <1>3, <1>5 DEF Spill, Write
<1>6. CASE Jump \/ SetIrq
  BY <1>6 DEF Jump, SetIrq
<1>7. CASE Call
  BY <1>1, <1>3, <1>7 DEF Call, Write
<1>8. CASE Return
  <2>1. mem' = mem \/ mem' = Write(mem, {Frame(sp)}, 0)
    BY <1>8 DEF Return
  <2> QED  BY <1>1, <1>3, <2>1 DEF Write
<1> QED  BY <1>4, <1>5, <1>6, <1>7, <1>8 DEF Straight

\* An instruction is executed when nothing else is left to do.
LEMMA ExecStep ==
  ASSUME Safe, Exec
  PROVE  TodoInv' /\ ModeInv' /\ RegsInv' /\ LogInv' /\ LimitInv'
<1>0. TypeOK /\ TodoInv /\ ModeInv /\ RegsInv /\ LogInv /\ LimitInv
  BY DEF Safe
<1>1. /\ todo # << >> /\ Op.op = "exec" /\ Op.op # "undo"
      /\ UNCHANGED <<in_spec, init_done, wl_enabled, spec_depth, in_restart, kregs>>
  BY DEF Exec, At, Op, cfgVars, modeVars, countVars, ckptVars
<1>2. /\ Allowed(Op, irq, handler, in_spec, init_done) /\ Elems(todo) = {Op} \cup Elems(Rest)
      /\ \A y \in Elems(Rest) : Precedes(Op, y)
  BY <1>0, <1>1, TodoFacts
<1>3. ~handler /\ Elems(Rest) = {} /\ Elems(todo) = {Op}
  BY <1>1, <1>2 DEF Allowed, HandlerOps, InterruptOps, RollbackOps, Precedes, LastOps
<1>4. ASSUME Continue(<< >>), UNCHANGED irqVars, ~in_spec => mem'[SwapCondition] = mem[SwapCondition]
      PROVE  TodoInv' /\ ModeInv' /\ RegsInv' /\ LogInv' /\ LimitInv'
  <2>1. TodoInv' /\ LogInv'
    BY <1>0, <1>1, <1>3, <1>4, CodeStep, SoundEmpty
  <2>2. ~handler'
    BY <1>3, <1>4 DEF irqVars
  <2>3. ModeInv'
    BY <1>0, <1>1, <1>4 DEF ModeInv
  <2>4. LimitInv'
    BY <1>0, <1>1, <1>3 DEF LimitInv
  <2> QED  BY <2>1, <2>2, <2>3, <2>4 DEF RegsInv
<1>5. CASE ~Faults /\ Straight /\ Continue(<< >>) /\ UNCHANGED irqVars
  BY <1>0, <1>4, <1>5, StraightSwap
<1>6. CASE Oops /\ Continue(<< >>) /\ UNCHANGED irqVars
  <2>1. mem' = mem
    BY <1>6 DEF Oops
  <2> QED  BY <1>4, <1>6, <2>1
<1>7. ASSUME in_spec, NEW type \in Int, Exception(type, sp)
      PROVE  TodoInv' /\ ModeInv' /\ RegsInv' /\ LogInv' /\ LimitInv'
  <2>1. sp \in Int
    BY <1>0 DEF TypeOK, MachineType
  <2> QED  BY <1>1, <1>7, <2>1, ExceptionStep
<1> QED  BY <1>5, <1>6, <1>7 DEF Exec, RESTART_EXCEPTION, RESTART_PAGE_FAULT

\* The debugfs files.
LEMMA DebugfsStep ==
  ASSUME Safe, Enable \/ SetSpecEnabled
  PROVE  TodoInv' /\ ModeInv' /\ RegsInv' /\ LogInv' /\ LimitInv'
<1>0. TypeOK /\ TodoInv /\ ModeInv /\ RegsInv /\ LogInv /\ LimitInv
  BY DEF Safe
<1>1. /\ todo = << >> /\ ~handler
      /\ irq' = irq /\ mem' = mem /\ in_spec' = in_spec /\ init_done' = init_done
      /\ wl_enabled' = wl_enabled /\ spec_depth' = spec_depth /\ in_restart' = in_restart
      /\ kregs' = kregs /\ handler' = handler
  BY DEF Enable, SetSpecEnabled, AtInstruction, mvars, cfgVars, modeVars, countVars, ckptVars, irqVars
<1>2. ModeInv' /\ RegsInv'
  BY <1>0, <1>1 DEF ModeInv, RegsInv
<1>3. LimitInv'
  <2>1. Elems(todo) = {}
    BY <1>1, Short
  <2> QED  BY <1>0, <1>1, <2>1 DEF LimitInv
<1>4. CASE Enable
  <2> DEFINE x == U("enter_init", 0, 0)
  <2>1. x \in MicroOp /\ x.op = "enter_init"
    BY DEF U, MicroOp, OpNames
  <2>2. todo' = <<x>> /\ ~init_done
    BY <1>4 DEF Enable
  <2> HIDE DEF x
  <2>3. Sound(todo') /\ Elems(todo') = {x} /\ todo' # << >> /\ Head(todo') = x
    BY <2>1, <2>2, SoundOne
  <2>4. Allowed(x, irq', handler', in_spec', init_done')
    BY <1>1, <2>1, <2>2 DEF Allowed, Masked, LogOps, RollbackOps, CheckpointOps, InitOps, InterruptOps
  <2>5. TodoInv' /\ LogInv'
    BY <2>1, <2>3, <2>4 DEF TodoInv, Code, Sound, LogInv, Op
  <2> QED  BY <1>2, <1>3, <2>5
<1>5. CASE SetSpecEnabled
  <2>1. todo' = << >>
    BY <1>1, <1>5 DEF SetSpecEnabled
  <2>2. TodoInv' /\ LogInv'
    BY <2>1, Short DEF TodoInv, Code, LogInv
  <2> QED  BY <1>2, <1>3, <2>2
<1> QED  BY <1>4, <1>5
-----------------------------------------------------------------------------
(* Every step *)

LEMMA SafeInit == Init => Safe
<1> SUFFICES ASSUME Init PROVE Safe
  OBVIOUS
<1>1. TypeOK
  BY TypeInit
<1>2. /\ todo = << >> /\ handler = FALSE /\ in_spec = FALSE /\ wl_enabled = FALSE
      /\ in_restart = FALSE /\ spec_depth = 0 /\ ~kregs.irq
  BY DEF Init
<1>3. mem[SwapCondition] = 0
  BY MachineAssumption DEF Init, MInit, SwapCondition, Words, FirstHeap
<1>4. TodoInv /\ LogInv
  BY <1>2, Short DEF TodoInv, Code, LogInv
<1>5. ModeInv /\ RegsInv
  BY <1>2, <1>3 DEF ModeInv, RegsInv
<1>6. LimitInv
  BY <1>2, SpecEmAssumption DEF LimitInv, Limit
<1> QED  BY <1>1, <1>4, <1>5, <1>6 DEF Safe

\* Steps after which nothing runs, or that an NMI only can tell from none.
LEMMA NoStep ==
  ASSUME Safe, Halt \/ SavePartly
  PROVE  TodoInv' /\ ModeInv' /\ RegsInv' /\ LogInv' /\ LimitInv'
<1>1. /\ todo' = todo /\ irq' = irq /\ handler' = handler /\ in_spec' = in_spec
      /\ init_done' = init_done /\ wl_enabled' = wl_enabled /\ spec_depth' = spec_depth
      /\ in_restart' = in_restart /\ mem' = mem /\ regs' = regs /\ wl_pos' = wl_pos
  BY HaltFacts DEF SavePartly, mvars, cfgVars, modeVars, logVars, countVars, irqVars
<1>2. kregs'.irq = kregs.irq
  <2>1. CASE Halt
    BY <2>1, HaltFacts
  <2>2. CASE SavePartly
    BY <2>2 DEF SavePartly, Safe, TypeOK, CkptType
  <2> QED  BY <2>1, <2>2
<1>3. TodoInv' /\ RegsInv' /\ LogInv' /\ LimitInv'
  BY <1>1, Zenon DEF Safe, TodoInv, RegsInv, LogInv, LimitInv, Op
<1>4. ModeInv'
  BY <1>1, <1>2, Zenon DEF Safe, ModeInv
<1> QED  BY <1>3, <1>4

LEMMA SafeStep == Safe /\ [Next]_vars => Safe'
<1> SUFFICES ASSUME Safe, [Next]_vars PROVE Safe'
  OBVIOUS
<1>1. TypeOK'
  BY TypeStep DEF Safe
<1>2. CASE UNCHANGED vars
  <2>1. /\ todo' = todo /\ irq' = irq /\ handler' = handler /\ in_spec' = in_spec
        /\ init_done' = init_done /\ wl_enabled' = wl_enabled /\ spec_depth' = spec_depth
        /\ in_restart' = in_restart /\ mem' = mem /\ kregs' = kregs /\ regs' = regs /\ wl_pos' = wl_pos
    BY <1>2 DEF vars, mvars, cfgVars, modeVars, logVars, countVars, ckptVars, irqVars
  <2>2. TodoInv' /\ RegsInv' /\ LogInv' /\ LimitInv'
    BY <2>1, Zenon DEF Safe, TodoInv, RegsInv, LogInv, LimitInv, Op
  <2>3. ModeInv'
    BY <2>1, Zenon DEF Safe, ModeInv
  <2> QED  BY <1>1, <2>2, <2>3 DEF Safe
<1>3. CASE Cpu
  <2>1. TodoInv' /\ ModeInv' /\ RegsInv' /\ LogInv' /\ LimitInv'
    BY <1>3, FetchStep, ExecStep, HookStep, DepthStep, EnterStep, LeaveStep, NewCheckpointStep, LogStep,
       RestartStep, UndoStep, FinishStep, TimerHookStep, HandlerStep, InitDoneStep, NoStep, Zenon
       DEF Cpu, Halt
  <2> QED  BY <1>1, <2>1 DEF Safe
<1>4. CASE Environment
  <2>1. ASSUME Nmi \/ NmiInUndo PROVE TodoInv' /\ ModeInv' /\ RegsInv' /\ LogInv' /\ LimitInv'
    <3>1. /\ Exception(RESTART_EXCEPTION, sp)
          /\ UNCHANGED <<in_spec, init_done, wl_enabled, spec_depth, in_restart, kregs>>
      BY <2>1 DEF Nmi, NmiInUndo, cfgVars, modeVars, countVars, ckptVars
    <3>3. in_spec
      <4>1. CASE NmiInUndo
        <5>1. todo # << >> /\ Op.op = "undo" /\ TypeOK /\ TodoInv
          BY <4>1 DEF NmiInUndo, At, Op, Safe
        <5>2. Allowed(Op, irq, handler, in_spec, init_done)
          BY <5>1, TodoFacts
        <5> QED  BY <5>1, <5>2 DEF Allowed, RollbackOps
      <4> QED  BY <2>1, <4>1 DEF Nmi
    <3>2. RESTART_EXCEPTION \in Int /\ sp \in Int
      BY DEF RESTART_EXCEPTION, Safe, TypeOK, MachineType
    <3> QED  BY <3>1, <3>2, <3>3, ExceptionStep
  <2>2. TodoInv' /\ ModeInv' /\ RegsInv' /\ LogInv' /\ LimitInv'
    BY <1>4, <2>1, TimerStep, DebugfsStep, NoStep, Zenon DEF Environment, Halt
  <2> QED  BY <1>1, <2>2 DEF Safe
<1> QED  BY <1>2, <1>3, <1>4, Zenon DEF Next, Done

LEMMA SafeAlways == Spec => []Safe
<1> QED  BY SafeInit, SafeStep, PTL DEF Spec
-----------------------------------------------------------------------------
(* What follows *)

LEMMA SafeHead ==
  ASSUME Safe, NEW op, At(op)
  PROVE  todo # << >> /\ Op.op = op /\ Allowed(Op, irq, handler, in_spec, init_done)
<1>1. todo # << >> /\ Op.op = op
  BY DEF At, Op
<1> QED  BY <1>1, TodoFacts DEF Safe

\* The handler of a rollback returns to the checkpoint.
IpInv == handler /\ in_spec /\ todo # << >> /\ Op.op \in RollbackOps => regs.pc = kregs.pc

LEMMA IpStep ==
  ASSUME ~Nmis, Safe, IpInv, [Next]_vars
  PROVE  IpInv'
<1> SUFFICES ASSUME handler', in_spec', todo' # << >>, Head(todo').op \in RollbackOps
             PROVE  regs'.pc = kregs'.pc
  BY DEF IpInv, Op
<1>0. todo # << >> /\ Op.op \notin RollbackOps \cup {"hook_interrupt_timer"} => ~(in_spec /\ handler)
  BY ModeFacts
<1>1. CASE Exec \/ LogWord
  <2>1. ~(in_spec /\ handler)
    BY <1>0, <1>1 DEF Exec, LogWord, At, Op, RollbackOps
  <2>2. kregs' = kregs /\ (in_spec' <=> in_spec)
    BY <1>1 DEF Exec, LogWord, ckptVars, modeVars
  <2>3. regs' = CheckpointRegs \/ (handler' <=> handler)
    BY <1>1 DEF Exec, LogWord, Exception, irqVars
  <2> QED  BY <2>1, <2>2, <2>3 DEF CheckpointRegs
<1>2. CASE \/ HookStore \/ HookMemcpy \/ HookRestart \/ HookCheckSpecLength \/ HookCheckCallDepth
           \/ HookNewCheckpoint \/ Enter \/ IrqRestore \/ UnsetRt \/ SetWord
  <2>1. todo # << >> /\ Op.op \notin RollbackOps \cup {"hook_interrupt_timer"}
    BY <1>2 DEF HookStore, HookMemcpy, HookRestart, HookCheckSpecLength, HookCheckCallDepth, HookNewCheckpoint,
                Enter, EnterOps, IrqRestore, UnsetRt, SetWord, At, Op, RollbackOps
  <2>2. UNCHANGED <<handler, in_spec>>
    BY <1>2 DEF HookStore, HookMemcpy, HookRestart, HookCheckSpecLength, HookCheckCallDepth, HookNewCheckpoint,
                Enter, IrqRestore, UnsetRt, SetWord, modeVars, irqVars
  <2> QED  BY <1>0, <2>1, <2>2
<1>3. CASE \/ SaveStack \/ SaveRegisters \/ Select \/ Memcpy \/ Restart \/ HandleTick \/ InitDone
  <2>1. todo # << >> /\ Op.op \notin RollbackOps \cup {"hook_interrupt_timer"}
    BY <1>3 DEF SaveStack, SaveRegisters, Select, Memcpy, Restart, HandleTick, InitDone, At, Op, RollbackOps
  <2>2. UNCHANGED <<handler, in_spec>>
    BY <1>3 DEF SaveStack, SaveRegisters, Select, Memcpy, Restart, HandleTick, InitDone, modeVars, irqVars
  <2> QED  BY <1>0, <2>1, <2>2
<1>4. CASE Fetch \/ Enable \/ SetSpecEnabled
  BY <1>4 DEF Fetch, Enable, SetSpecEnabled, AtInstruction, irqVars
<1>5. CASE NewCheckpoint
  <2>1. ~handler
    BY <1>5, SafeHead DEF NewCheckpoint, Allowed, HandlerOps, InterruptOps, RollbackOps
  <2> QED  BY <1>5, <2>1 DEF NewCheckpoint, irqVars
<1>6. CASE Finish \/ InitData \/ Iret \/ SavePartly \/ Nmi \/ NmiInUndo \/ NmiBetweenFlags
  BY <1>6 DEF Finish, InitData, Iret, SavePartly, Nmi, NmiInUndo, NmiBetweenFlags
<1>7. CASE TimerInterrupt
  <2>1. Head(todo') = U("hook_interrupt_timer", sp, 0)
    BY <1>7 DEF TimerInterrupt
  <2> QED  BY <2>1 DEF U, RollbackOps
<1>8. CASE HookInterruptTimer
  <2>1. UNCHANGED <<kregs, in_spec>> /\ (in_spec => regs' = CheckpointRegs)
    BY <1>8, ModeFacts DEF HookInterruptTimer, ckptVars, modeVars
  <2> QED  BY <2>1 DEF CheckpointRegs
<1>9. CASE RestartIrq \/ Undo \/ UndoInUse \/ UNCHANGED vars
  <2>1. kregs' = kregs /\ (in_spec' <=> in_spec)
    BY <1>9 DEF RestartIrq, Undo, UndoInUse, vars, ckptVars, modeVars
  <2>2. regs' = CheckpointRegs \/ (regs' = regs /\ (handler' <=> handler))
    BY <1>9 DEF RestartIrq, Undo, UndoInUse, vars, Exception, irqVars
  <2>3. CASE RestartIrq \/ Undo \/ UndoInUse
    <3>1. todo # << >> /\ Op.op \in RollbackOps
      BY <2>3 DEF RestartIrq, Undo, UndoInUse, At, Op, RollbackOps
    <3> QED  BY <2>1, <2>2, <3>1 DEF IpInv, CheckpointRegs, irqVars
  <2>4. CASE UNCHANGED vars
    BY <2>1, <2>4 DEF IpInv, Op, vars, irqVars
  <2> QED  BY <1>9, <2>3, <2>4
<1> QED
  BY <1>1, <1>2, <1>3, <1>4, <1>5, <1>6, <1>7, <1>8, <1>9 DEF Next, Cpu, Environment, Done

\* Without NMIs no step is a panic.
LEMMA NoPanic ==
  ASSUME ~Nmis, status # "panic", [Next]_vars
  PROVE  status' # "panic"
<1>1. CASE Exec
  BY <1>1 DEF Exec, Straight, Store, Spill, Jump, Call, Return, SetIrq, Oops
<1>2. CASE Finish \/ Iret
  BY <1>2 DEF Finish, Iret, Resume
<1>3. CASE UndoInUse
  BY <1>3 DEF UndoInUse
<1>4. CASE \/ Fetch \/ HookStore \/ HookMemcpy \/ HookRestart \/ HookCheckSpecLength \/ HookCheckCallDepth
           \/ HookNewCheckpoint \/ Enter \/ IrqRestore \/ UnsetRt \/ SetWord
  BY <1>4 DEF Fetch, HookStore, HookMemcpy, HookRestart, HookCheckSpecLength, HookCheckCallDepth,
              HookNewCheckpoint, Enter, IrqRestore, UnsetRt, SetWord, mvars
<1>5. CASE \/ NewCheckpoint \/ SaveStack \/ SavePartly \/ SaveRegisters \/ Select \/ Memcpy \/ LogWord
           \/ Restart \/ RestartIrq \/ Undo
  BY <1>5 DEF NewCheckpoint, SaveStack, SavePartly, SaveRegisters, Select, Memcpy, LogWord, Restart, RestartIrq,
              Undo, mvars
<1>6. CASE HookInterruptTimer \/ HandleTick \/ InitData \/ InitDone \/ Environment \/ UNCHANGED vars
  BY <1>6 DEF HookInterruptTimer, HandleTick, InitData, InitDone, Environment, TimerInterrupt, Nmi, NmiInUndo,
              NmiBetweenFlags, Enable, SetSpecEnabled, mvars, vars
<1> QED  BY <1>1, <1>2, <1>3, <1>4, <1>5, <1>6 DEF Next, Cpu, Done

\* Without NMIs no assertion of the emulation fails, in any interleaving of
\* nested hooks, faults and timer interrupts: the log is on exactly in speculation
\* wherever an exception may come, flags are given back with interrupts
\* disabled, no checkpoint is taken in speculation, a restart ends with an empty
\* log, and an interrupt's rollback returns to the checkpoint
\* (kspecem_hook_interrupt_exception, leave_rt, kspecem_new_checkpoint,
\* kspecem_restore_writelog, kspecem_restart, kspecem_interrupt_timer).
THEOREM AssertsAlwaysHold == ASSUME ~Nmis PROVE Spec => []AssertsHold
<1>1. Safe /\ IpInv /\ status # "panic" => AssertsHold
  <2> SUFFICES ASSUME Safe, IpInv, status # "panic" PROVE AssertsHold
    OBVIOUS
  <2>1. wl_enabled = in_spec
    BY ModeFacts
  <2>2. At("irq_restore") => ~irq
    BY SafeHead DEF Allowed, Masked
  <2>3. At("new_checkpoint") => ~in_spec
    BY SafeHead DEF Allowed, CheckpointOps
  <2>4. At("undo") => wl_enabled
    BY <2>1, SafeHead DEF Allowed, RollbackOps
  <2>5. At("finish") => wl_pos = 0
    BY SafeHead DEF Safe, LogInv
  <2>6. At("finish") /\ Op.a = 1 => regs.pc = kregs.pc
    BY SafeHead DEF Allowed, RollbackOps, IpInv
  <2> QED  BY <2>1, <2>2, <2>3, <2>4, <2>5, <2>6 DEF AssertsHold
<1>2. Init => IpInv /\ status # "panic"
  BY DEF Init, MInit, IpInv
<1>3. Safe /\ IpInv /\ status # "panic" /\ [Next]_vars => (IpInv /\ status # "panic")'
  BY IpStep, NoPanic
<1> QED  BY <1>1, <1>2, <1>3, SafeAlways, PTL DEF Spec

\* The kernel's work in a timer interrupt is never done speculatively nor with
\* the condition of the interrupted branch inverted: the hook has rolled the
\* speculation back before (kspecem_hook_interrupt_timer, kspecem_restart).
THEOREM HandlerNeverSpeculates == Spec => []HandlerNotSpeculative
<1>1. Safe => HandlerNotSpeculative
  <2> SUFFICES ASSUME Safe, At("tick") PROVE ~in_spec /\ mem[SwapCondition] = 0
    BY DEF HandlerNotSpeculative
  <2>1. todo # << >> /\ Op.op = "tick" /\ handler
    BY SafeHead DEF Allowed, InterruptOps
  <2>2. Op.op \notin RollbackOps \cup {"hook_interrupt_timer"}
    BY <2>1 DEF RollbackOps
  <2> QED  BY <2>1, <2>2, ModeFacts
<1> QED  BY <1>1, SafeAlways, PTL

\* The emulation keeps the contract that the reports and the trace assume: one
\* speculation at a time, no return below the checkpoint's frame, nothing but the
\* rollback after the call that reaches the limit (kspecem_new_checkpoint,
\* kspecem_hook_check_call_depth, kspecem_restart).
THEOREM EmulationContract == Spec => Contract
<1>1. Init => Speculation!EInit
  BY DEF Init, Speculation!EInit
<1>2. ASSUME Safe, [Next]_vars
      PROVE  Speculation!ENext \/ UNCHANGED Speculation!evars
  <2>0. /\ TypeOK /\ in_spec \in BOOLEAN /\ spec_depth \in Nat /\ in_restart \in BOOLEAN
        /\ wl_enabled = in_spec
        /\ ~in_spec => spec_depth = 0 /\ ~in_restart
    BY <1>2, ModeFacts DEF TypeOK, FlagType, CountType
  <2> DEFINE same == UNCHANGED <<in_spec, spec_depth, in_restart>>
  <2>1. ASSUME same PROVE UNCHANGED Speculation!evars
    BY <2>1 DEF Speculation!evars
  <2>2. CASE NewCheckpoint
    <3>1. ~in_spec
      BY <1>2, <2>2, SafeHead DEF NewCheckpoint, Allowed, CheckpointOps
    <3>2. Speculation!ECheckpoint
      <4>1. in_spec' = TRUE /\ spec_depth' = 0 /\ in_restart' = in_restart
        BY <2>2 DEF NewCheckpoint
      <4> QED  BY <2>0, <3>1, <4>1 DEF Speculation!ECheckpoint
    <3> QED  BY <3>2 DEF Speculation!ENext
  <2>3. CASE HookCheckCallDepth
    <3>1. in_spec' = in_spec /\ in_restart' = in_restart
      BY <2>3 DEF HookCheckCallDepth, modeVars
    <3>2. CASE ~DepthHookActive
      <4>1. same
        BY <2>3, <3>1, <3>2 DEF HookCheckCallDepth
      <4> QED  BY <2>1, <4>1
    <3>3. CASE DepthHookActive
      <4>1. in_spec /\ spec_depth' = spec_depth + 1
        BY <2>0, <2>3, <3>3 DEF HookCheckCallDepth, DepthHookActive
      <4>2. At("hook_check_call_depth")
        BY <2>3 DEF HookCheckCallDepth
      <4>3. Op.op = "hook_check_call_depth" /\ Op \in Elems(todo) /\ ~handler
        BY <1>2, <4>2, SafeHead, TodoFacts DEF Safe, Allowed, HandlerOps, InterruptOps, RollbackOps
      <4>4. spec_depth < Limit
        BY <1>2, <2>0, <4>1, <4>3, SpecEmAssumption DEF Safe, LimitInv, Limit
      <4>5. Speculation!ECall
        BY <3>1, <4>1, <4>4 DEF Limit, Speculation!ECall
      <4> QED  BY <4>5 DEF Speculation!ENext
    <3> QED  BY <3>2, <3>3
  <2>4. CASE Restart
    <3>1. in_spec' = in_spec
      BY <2>4 DEF Restart
    <3>2. CASE ~in_spec
      <4>1. same
        BY <2>4, <3>1, <3>2 DEF Restart
      <4> QED  BY <2>1, <4>1
    <3>3. CASE in_spec /\ ~ReturnInSpeculation(Op.a)
      <4>1. in_restart' = TRUE /\ spec_depth' = spec_depth
        BY <2>4, <3>3 DEF Restart
      <4> QED  BY <3>1, <3>3, <4>1 DEF Speculation!ENext, Speculation!ERestart
    <3>4. CASE in_spec /\ ReturnInSpeculation(Op.a)
      <4>1. in_restart' = TRUE /\ spec_depth' = spec_depth - 1 /\ spec_depth > 0 /\ Op.a = RESTART_RETURN
        BY <2>4, <3>4 DEF Restart, ReturnInSpeculation
      <4>2. todo # << >> /\ Op.op = "restart"
        BY <1>2, <2>4, SafeHead DEF Restart
      <4>3. IsReturn(Op) /\ Op \in Elems(todo)
        BY <1>2, <4>1, <4>2, TodoFacts DEF Safe, IsReturn, RestartOps
      <4>4. ~handler
        BY <1>2, <3>4, <4>2, ModeFacts DEF RollbackOps
      <4>5. spec_depth <= Limit /\ spec_depth # Limit /\ Limit \in Nat
        BY <1>2, <3>4, <4>3, <4>4, SpecEmAssumption DEF Safe, LimitInv, Limit
      <4>6. spec_depth \in 1..(Limit - 1)
        BY <2>0, <4>1, <4>5
      <4> QED  BY <3>1, <3>4, <4>1, <4>6 DEF Limit, Speculation!ENext, Speculation!EReturn
    <3> QED  BY <3>2, <3>3, <3>4
  <2>5. CASE RestartIrq
    <3>1. in_spec
      BY <1>2, <2>5, SafeHead DEF RestartIrq, Allowed, RollbackOps
    <3>2. in_restart' = TRUE /\ in_spec' = in_spec /\ spec_depth' = spec_depth
      BY <2>5 DEF RestartIrq, countVars
    <3> QED  BY <3>1, <3>2 DEF Speculation!ENext, Speculation!ERestart
  <2>6. CASE Finish
    <3>1. in_spec
      BY <1>2, <2>6, SafeHead DEF Finish, Allowed, RollbackOps
    <3>2. in_spec' = FALSE /\ spec_depth' = 0 /\ in_restart' = FALSE
      BY <2>6 DEF Finish
    <3> QED  BY <3>1, <3>2 DEF Speculation!ENext, Speculation!ERollback
  <2>7. CASE InitData
    <3>1. ~in_spec
      BY <1>2, <2>7, SafeHead, ModeFacts DEF InitData, Allowed, InitOps
    <3>2. in_spec' = FALSE /\ spec_depth' = 0 /\ in_restart' = in_restart
      BY <2>7 DEF InitData
    <3> QED  BY <2>0, <2>1, <3>1, <3>2
  <2>8. CASE \/ Fetch \/ Exec \/ HookStore \/ HookMemcpy \/ HookRestart \/ HookCheckSpecLength
             \/ HookNewCheckpoint \/ Enter \/ IrqRestore \/ UnsetRt \/ SetWord \/ SaveStack
             \/ SaveRegisters \/ Select \/ Memcpy
    <3>1. same
      BY <2>8 DEF Fetch, Exec, HookStore, HookMemcpy, HookRestart, HookCheckSpecLength, HookNewCheckpoint,
                  Enter, IrqRestore, UnsetRt, SetWord, SaveStack, SaveRegisters, Select, Memcpy, modeVars, countVars
    <3> QED  BY <2>1, <3>1
  <2>10. CASE SavePartly \/ NmiInUndo \/ UndoInUse \/ NmiBetweenFlags
    <3>1. same
      BY <2>10 DEF SavePartly, NmiInUndo, UndoInUse, NmiBetweenFlags, modeVars, countVars
    <3> QED  BY <2>1, <3>1
  <2>9. CASE \/ LogWord \/ Undo \/ HookInterruptTimer \/ HandleTick \/ Iret \/ InitDone
             \/ TimerInterrupt \/ Nmi \/ Enable \/ SetSpecEnabled \/ UNCHANGED vars
    <3>1. same
      BY <2>9 DEF LogWord, Undo, HookInterruptTimer, HandleTick, Iret, InitDone, TimerInterrupt, Nmi, Enable,
                  SetSpecEnabled, vars, modeVars, countVars
    <3> QED  BY <2>1, <3>1
  <2> QED  BY <1>2, <2>2, <2>3, <2>4, <2>5, <2>6, <2>7, <2>8, <2>9, <2>10, Zenon DEF Next, Cpu, Environment, Done
<1> QED  BY <1>1, <1>2, SafeAlways, PTL DEF Spec, Contract, Speculation!EmulationSpec

-----------------------------------------------------------------------------
(* Leaving the runtime *)

LeavingOps == EnterOps \cup {"unset_rt"}

Leaves(t) == \E x \in Elems(t) : x.op \in LeavingOps

\* Whoever has entered the runtime will leave it, or the kernel is lost.
LeaveInv ==
  in_rt /\ status = "running" =>
    Leaves(todo) \/ (handler /\ (Leaves(regs.todo) \/ regs.pc = NoInstr))

\* An inverted condition is taken back behind the branch or by the rollback.
SwapInv == mem[SwapCondition] # 0 => handler \/ Has(todo, "set") \/ Has(todo, "finish")

\* A checkpoint that has begun saves the registers and clears the condition.
SaveInv ==
  /\ Has(todo, "new_checkpoint") => Has(todo, "save_registers") /\ Has(todo, "set")
  /\ handler => ~Has(regs.todo, "new_checkpoint")

-----------------------------------------------------------------------------
(* The call depth *)

BranchOps ==
  {"hook_new_checkpoint", "enter_checkpoint", "new_checkpoint", "save_stack", "save_registers",
   "select"}

\* The code t is that of the instruction at p.
TextOf(t, p) ==
  \A x \in Elems(t) : /\ x.op = "hook_check_call_depth" => prog[p].op = "entry"
                      /\ IsReturn(x) => prog[p].op = "ret" /\ Has(t, "exec")
                      /\ x.op \in BranchOps => prog[p].op = "branch"

\* Functions are entered by calls only, and a checkpoint is that of a branch.
TextInv ==
  /\ \A d \in 1..MaxSp : prog[rets[d]].op # "entry"
  /\ kregs.pc # NoInstr => prog[kregs.pc].op = "branch"
  /\ status = "running" /\ ~handler => TextOf(todo, pc)
  /\ status = "running" /\ handler /\ regs.pc # NoInstr => TextOf(regs.todo, regs.pc)

\* A call that is not counted yet, or a return that already is.
Uncounted ==
  \/ prog[pc].op = "entry" /\ (todo = << >> \/ Has(todo, "hook_check_call_depth"))
  \/ prog[pc].op = "ret" /\ Has(todo, "exec") /\ \A x \in Elems(todo) : ~IsReturn(x)

\* The depth is zero until the checkpoint is complete; from then on it counts
\* the frames above the checkpoint's.
DepthInv ==
  in_spec /\ ~handler /\ status = "running" /\ ~Has(todo, "finish") =>
    IF Has(todo, "save_registers")
      THEN spec_depth = 0
      ELSE /\ spec_depth + (IF Uncounted THEN 1 ELSE 0) = sp - kregs.sp
           /\ prog[pc].op = "entry" /\ todo # << >> => Has(todo, "exec")

Thread == LeaveInv /\ SwapInv /\ SaveInv /\ TextInv /\ DepthInv

-----------------------------------------------------------------------------
(* Steps of the code *)

\* The program and the interrupted code stay what they are.
Steady == UNCHANGED <<prog, pc, sp, rets, status, irqVars, in_spec, spec_depth, kregs>>

\* The operations E take the place of the next one, o: they are part of the same
\* instrumentation.
SameText(E, o) ==
  \A x \in E : /\ x.op # "hook_check_call_depth" /\ x.op # "exec"
               /\ IsReturn(x) => IsReturn(o)
               /\ x.op \in BranchOps => o.op \in BranchOps

\* The instrumentation stays that of the instruction.
LEMMA TextStep ==
  ASSUME TypeOK, TodoInv, TextInv, todo # << >>, Steady, Op.op # "exec",
         NEW E, Elems(todo') = E \cup Elems(Rest), SameText(E, Op)
  PROVE  TextInv'
<1>1. /\ prog' = prog /\ pc' = pc /\ rets' = rets /\ status' = status /\ kregs' = kregs
      /\ regs' = regs /\ handler' = handler
  BY DEF Steady, irqVars
<1>2. Elems(todo) = {Op} \cup Elems(Rest)
  BY TodoFacts
<1>3. TextOf(todo, pc) => TextOf(todo', pc)
  BY <1>2 DEF TextOf, SameText, Has
<1>4. (status' = "running" => status = "running") /\ (handler' => handler) /\ (handler => handler')
  BY <1>1
<1>5. ASSUME status' = "running", ~handler' PROVE TextOf(todo, pc)'
  <2>1. TextOf(todo', pc)
    BY <1>3, <1>4, <1>5 DEF TextInv
  <2> QED  BY <1>1, <2>1 DEF TextOf
<1>6. ASSUME status' = "running", handler', regs'.pc # NoInstr PROVE TextOf(regs.todo, regs.pc)'
  <2>1. TextOf(regs.todo, regs.pc)
    BY <1>1, <1>4, <1>6 DEF TextInv
  <2> QED  BY <1>1, <2>1 DEF TextOf
<1>7. /\ \A d \in 1..MaxSp : prog'[rets'[d]].op # "entry"
      /\ kregs'.pc # NoInstr => prog'[kregs'.pc].op = "branch"
  BY <1>1 DEF TextInv
<1> QED  BY <1>5, <1>6, <1>7 DEF TextInv

\* Whoever is in the runtime still leaves it.
LEMMA LeavingStep ==
  ASSUME TypeOK, TodoInv, LeaveInv, todo # << >>, UNCHANGED <<status, irqVars>>,
         NEW E, Elems(todo') = E \cup Elems(Rest),
         in_rt' => in_rt \/ \E x \in E : x.op \in LeavingOps,
         Op.op \in LeavingOps => ~in_rt' \/ \E x \in E : x.op \in LeavingOps
  PROVE  LeaveInv'
<1>1. Elems(todo) = {Op} \cup Elems(Rest)
  BY TodoFacts
<1>2. regs' = regs /\ (handler => handler') /\ (status' = "running" => status = "running")
  BY DEF irqVars
<1> SUFFICES ASSUME in_rt', status' = "running", ~Leaves(todo')
             PROVE  handler' /\ (Leaves(regs'.todo) \/ regs'.pc = NoInstr)
  BY DEF LeaveInv, Leaves
<1>3. in_rt /\ ~Leaves(todo)
  BY <1>1 DEF Leaves
<1> QED  BY <1>2, <1>3 DEF LeaveInv

\* Neither calls nor returns are counted by the way.
LEMMA CountStep ==
  ASSUME TypeOK, TodoInv, DepthInv, todo # << >>, Steady, NEW E, Elems(todo') = E \cup Elems(Rest),
         Op.op \notin {"exec", "hook_check_call_depth", "save_registers", "finish"},
         SameText(E, Op),
         in_spec => /\ \A x \in E : x.op # "save_registers"
                    /\ IsReturn(Op) => \E x \in E : IsReturn(x) \/ x.op = "finish"
  PROVE  DepthInv'
<1>1. /\ prog' = prog /\ pc' = pc /\ sp' = sp /\ kregs' = kregs /\ spec_depth' = spec_depth
      /\ (in_spec' => in_spec) /\ (~handler' => ~handler) /\ (status' = "running" => status = "running")
  BY DEF Steady, irqVars
<1>2. Elems(todo) = {Op} \cup Elems(Rest)
  BY TodoFacts
<1> SUFFICES ASSUME in_spec', ~handler', status' = "running", ~Has(todo', "finish")
             PROVE  IF Has(todo', "save_registers")
                      THEN spec_depth' = 0
                      ELSE /\ spec_depth' + (IF Uncounted' THEN 1 ELSE 0) = sp' - kregs'.sp
                           /\ prog'[pc'].op = "entry" /\ todo' # << >> => Has(todo', "exec")
  BY DEF DepthInv, Has
<1>3. /\ Has(todo', "save_registers") <=> Has(todo, "save_registers")
      /\ Has(todo', "exec") <=> Has(todo, "exec")
      /\ Has(todo', "hook_check_call_depth") <=> Has(todo, "hook_check_call_depth")
      /\ ~Has(todo, "finish")
  BY <1>1, <1>2 DEF Has, SameText
<1>4. (\A x \in Elems(todo') : ~IsReturn(x)) <=> (\A x \in Elems(todo) : ~IsReturn(x))
  BY <1>1, <1>2 DEF Has, SameText
<1>5. IF Has(todo, "save_registers")
        THEN spec_depth = 0
        ELSE /\ spec_depth + (IF Uncounted THEN 1 ELSE 0) = sp - kregs.sp
             /\ prog[pc].op = "entry" => Has(todo, "exec")
  BY <1>1, <1>3 DEF DepthInv
<1>6. ~Has(todo, "save_registers") /\ prog[pc].op = "entry" => todo' # << >>
  BY <1>3, <1>5, Short DEF Has
<1>7. ASSUME ~Has(todo, "save_registers") PROVE Uncounted' <=> Uncounted
  BY <1>1, <1>3, <1>4, <1>6, <1>7 DEF Uncounted, Has
<1> QED  BY <1>1, <1>3, <1>5, <1>7

\* A checkpoint is completed, and the condition taken back.
LEMMA ConditionStep ==
  ASSUME TypeOK, TodoInv, SwapInv, SaveInv, todo # << >>, UNCHANGED irqVars,
         NEW E, Elems(todo') = E \cup Elems(Rest),
         Op.op # "finish",
         Op.op \in {"set", "save_registers"} => ~Has(Rest, "new_checkpoint"),
         (\E x \in E : x.op = "new_checkpoint") =>
           (\E x \in E : x.op = "save_registers") /\ (\E x \in E : x.op = "set"),
         \/ mem'[SwapCondition] = 0 \/ Has(todo', "finish")
         \/ mem'[SwapCondition] = mem[SwapCondition] /\ Op.op # "set"
  PROVE  SwapInv' /\ SaveInv'
<1>1. Elems(todo) = {Op} \cup Elems(Rest)
  BY TodoFacts
<1>2. regs' = regs /\ (handler' => handler) /\ (handler => handler')
  BY DEF irqVars
<1>3. SwapInv'
  BY <1>1, <1>2 DEF SwapInv, Has
<1>4. Has(todo', "new_checkpoint") => Has(todo', "save_registers") /\ Has(todo', "set")
  BY <1>1 DEF SaveInv, Has
<1>5. handler' => ~Has(regs'.todo, "new_checkpoint")
  BY <1>2 DEF SaveInv
<1> QED  BY <1>3, <1>4, <1>5 DEF SaveInv, Has

\* The operations s take the place of the next one.
LEMMA Replaced ==
  ASSUME TypeOK, TodoInv, todo # << >>, NEW s \in Seq(MicroOp), Continue(s)
  PROVE  Elems(todo') = Elems(s) \cup Elems(Rest)
<1>1. Rest \in Seq(MicroOp)
  BY TodoFacts
<1>2. todo' = s \o Rest
  BY DEF Continue, Rest
<1> QED  BY <1>1, <1>2, ElemsConcat

LEMMA ReplacedByOne ==
  ASSUME TypeOK, TodoInv, todo # << >>
  PROVE  /\ Continue(<< >>) => Elems(todo') = {} \cup Elems(Rest)
         /\ \A x \in MicroOp : Continue(<<x>>) => Elems(todo') = {x} \cup Elems(Rest)
<1>1. Continue(<< >>) => Elems(todo') = {} \cup Elems(Rest)
  BY Replaced, SeqEmpty, Short
<1>2. ASSUME NEW x \in MicroOp, Continue(<<x>>) PROVE Elems(todo') = {x} \cup Elems(Rest)
  BY <1>2, Replaced, Seq1, Short
<1> QED  BY <1>1, <1>2

\* A step inside the instrumentation of an instruction.
LEMMA ThreadStep ==
  ASSUME Safe, Thread, todo # << >>, Steady, NEW E, Elems(todo') = E \cup Elems(Rest),
         Op.op \notin {"exec", "hook_check_call_depth", "save_registers", "finish"},
         SameText(E, Op),
         in_rt' => in_rt \/ \E x \in E : x.op \in LeavingOps,
         Op.op \in LeavingOps => ~in_rt' \/ \E x \in E : x.op \in LeavingOps,
         in_spec => /\ \A x \in E : x.op # "save_registers"
                    /\ IsReturn(Op) => \E x \in E : IsReturn(x) \/ x.op = "finish",
         (\E x \in E : x.op = "new_checkpoint") =>
           (\E x \in E : x.op = "save_registers") /\ (\E x \in E : x.op = "set"),
         \/ mem'[SwapCondition] = 0 \/ Has(todo', "finish")
         \/ mem'[SwapCondition] = mem[SwapCondition] /\ Op.op # "set"
  PROVE  Thread'
<1>1. /\ TypeOK /\ TodoInv
      /\ LeaveInv /\ SwapInv /\ SaveInv /\ TextInv /\ DepthInv
  BY DEF Safe, Thread
<1>2. Op.op = "set" => ~Has(Rest, "new_checkpoint")
  BY <1>1, TodoFacts DEF Precedes, Has
<1>3. UNCHANGED irqVars /\ UNCHANGED <<status, irqVars>>
  BY DEF Steady
<1>4. TextInv'
  BY <1>1, TextStep
<1>5. LeaveInv'
  BY <1>1, <1>3, LeavingStep
<1>6. DepthInv'
  BY <1>1, CountStep
<1>7. SwapInv' /\ SaveInv'
  BY <1>1, <1>2, <1>3, ConditionStep
<1> QED  BY <1>4, <1>5, <1>6, <1>7 DEF Thread

\* A step that only ends an operation.
LEMMA ThreadEnd ==
  ASSUME Safe, Thread, todo # << >>, Steady, Continue(<< >>),
         Op.op \notin {"exec", "hook_check_call_depth", "save_registers", "finish"},
         in_rt' => in_rt, Op.op \in LeavingOps => ~in_rt', in_spec => ~IsReturn(Op),
         \/ mem'[SwapCondition] = 0
         \/ mem'[SwapCondition] = mem[SwapCondition] /\ Op.op # "set"
  PROVE  Thread'
<1>1. Elems(todo') = {} \cup Elems(Rest)
  BY ReplacedByOne DEF Safe
<1>2. SameText({}, Op)
  BY DEF SameText
<1> QED  BY <1>1, <1>2, ThreadStep

\* The checks at the start of the hooks.
LEMMA HookThread ==
  ASSUME Safe, Thread,
         HookStore \/ HookMemcpy \/ HookRestart \/ HookCheckSpecLength \/ HookNewCheckpoint
  PROVE  Thread'
<1>1. todo # << >> /\ Steady /\ mem' = mem
  BY DEF HookStore, HookMemcpy, HookRestart, HookCheckSpecLength, HookNewCheckpoint, At, Steady,
         mvars, modeVars, countVars, ckptVars
<1>2. Op.op \in {"hook_store", "hook_memcpy", "hook_restart", "hook_check_spec_length",
                 "hook_new_checkpoint"}
  BY DEF HookStore, HookMemcpy, HookRestart, HookCheckSpecLength, HookNewCheckpoint, At, Op
<1>3. /\ Op.op \notin {"exec", "hook_check_call_depth", "save_registers", "finish", "set"}
      /\ Op.op \notin LeavingOps
  BY <1>2 DEF LeavingOps, EnterOps
<1>4. TypeOK /\ TodoInv /\ (in_spec => init_done)
  BY ModeFacts DEF Safe
<1>5. Op.a \in Int /\ Op.n \in Int
  BY <1>1, <1>4, HeadType DEF TypeOK
<1>6. ASSUME NEW x \in MicroOp, Continue(<<x>>), IsReturn(x) <=> IsReturn(Op),
             x.op \in {"enter_store", "enter_memcpy", "enter_restart"}
      PROVE  Thread'
  <2>1. Elems(todo') = {x} \cup Elems(Rest)
    BY <1>1, <1>4, <1>6, ReplacedByOne
  <2>2. SameText({x}, Op) /\ x.op \in LeavingOps /\ x.op # "new_checkpoint" /\ x.op # "save_registers"
    BY <1>6 DEF SameText, BranchOps, LeavingOps, EnterOps
  <2> QED  BY <1>1, <1>3, <1>6, <2>1, <2>2, ThreadStep
<1>7. ASSUME Continue(<< >>), in_rt' => in_rt, in_spec => ~IsReturn(Op) PROVE Thread'
  BY <1>1, <1>3, <1>7, ThreadEnd
<1>8. CASE HookStore \/ HookMemcpy
  <2> DEFINE x == U("enter_store", Op.a, 0)
             y == U("enter_memcpy", Op.a, Op.n)
  <2>1. x \in MicroOp /\ y \in MicroOp /\ x.op = "enter_store" /\ y.op = "enter_memcpy"
    BY <1>5 DEF U, MicroOp, OpNames
  <2>2. (Continue(<< >>) /\ in_rt' = in_rt) \/ Continue(<<x>>) \/ Continue(<<y>>)
    BY <1>8 DEF HookStore, HookMemcpy
  <2>3. Op.op \in {"hook_store", "hook_memcpy"}
    BY <1>8 DEF HookStore, HookMemcpy, At, Op
  <2> HIDE DEF x, y
  <2>4. ~IsReturn(x) /\ ~IsReturn(y) /\ ~IsReturn(Op)
    BY <2>1, <2>3 DEF IsReturn, RestartOps
  <2> QED  BY <1>6, <1>7, <2>1, <2>2, <2>4
<1>9. CASE HookRestart
  <2> DEFINE x == U("enter_restart", Op.a, 0)
  <2>1. x \in MicroOp /\ x.op = "enter_restart" /\ x.a = Op.a
    BY <1>5 DEF U, MicroOp, OpNames
  <2>2. Op.op = "hook_restart" /\ ((~init_done /\ Continue(<< >>) /\ in_rt' = in_rt) \/ Continue(<<x>>))
    BY <1>9 DEF HookRestart, At, Op
  <2> HIDE DEF x
  <2>3. IsReturn(x) <=> IsReturn(Op)
    BY <2>1, <2>2 DEF IsReturn, RestartOps
  <2> QED  BY <1>4, <1>6, <1>7, <2>1, <2>2, <2>3
<1>10. CASE HookCheckSpecLength
  <2> DEFINE x == U("enter_restart", RESTART_LIMIT_SPEC, 0)
  <2>1. x \in MicroOp /\ x.op = "enter_restart" /\ ~IsReturn(x)
    BY DEF U, MicroOp, OpNames, RESTART_LIMIT_SPEC, RESTART_RETURN, IsReturn
  <2>2. (Continue(<< >>) /\ in_rt' = in_rt) \/ Continue(<<x>>)
    BY <1>10, Zenon DEF HookCheckSpecLength
  <2>3. ~IsReturn(Op)
    BY <1>10 DEF HookCheckSpecLength, At, Op, IsReturn, RestartOps
  <2> HIDE DEF x
  <2> QED  BY <1>6, <1>7, <2>1, <2>2, <2>3
<1>11. CASE HookNewCheckpoint
  <2>1. Op.op = "hook_new_checkpoint" /\ ~IsReturn(Op) /\ Op.op \in BranchOps
    BY <1>11 DEF HookNewCheckpoint, At, Op, IsReturn, RestartOps, BranchOps
  <2> DEFINE x == U("enter_checkpoint", 0, 0)
             t == SwapBranch \o LengthHook(prog[pc], LengthAfterSpec)
  <2>2. CASE Continue(<<x>>)
    <3>1. x \in MicroOp /\ x.op = "enter_checkpoint"
      BY DEF U, MicroOp, OpNames
    <3> HIDE DEF x
    <3>2. Elems(todo') = {x} \cup Elems(Rest)
      BY <1>1, <1>4, <2>2, <3>1, ReplacedByOne
    <3>3. SameText({x}, Op) /\ x.op \in LeavingOps
      BY <2>1, <3>1 DEF SameText, IsReturn, RestartOps, LeavingOps, EnterOps
    <3> QED  BY <1>1, <1>3, <2>1, <3>1, <3>2, <3>3, ThreadStep
  <2>3. CASE Continue(t) /\ in_rt' = in_rt
    <3>1. Made(t, BranchedOps)
      BY <1>4, TypeFacts, BranchCode
    <3> HIDE DEF t
    <3>2. Elems(todo') = Elems(t) \cup Elems(Rest)
      BY <1>1, <1>4, <2>3, <3>1, Replaced DEF Made, Sound
    <3>3. SameText(Elems(t), Op) /\ \A y \in Elems(t) : y.op \notin {"new_checkpoint", "save_registers"}
      BY <2>1, <3>1 DEF Made, BranchedOps, SameText, IsReturn, RestartOps
    <3> QED  BY <1>1, <1>3, <2>1, <2>3, <3>2, <3>3, ThreadStep
  <2> QED  BY <1>11, <2>2, <2>3 DEF HookNewCheckpoint
<1> QED  BY <1>8, <1>9, <1>10, <1>11

\* The runtime is entered: its code comes before what is left.
LEMMA EnterThread ==
  ASSUME Safe, Thread, Enter
  PROVE  Thread'
<1>1. todo # << >> /\ Op.op \in EnterOps /\ Steady /\ mem' = mem /\ in_rt' = in_rt /\ Continue(Runtime(Op, irq))
  BY DEF Enter, At, Op, Steady, cpuVars, modeVars, countVars, ckptVars
<1>2. TypeOK /\ TodoInv
  BY DEF Safe
<1>3. Op \in MicroOp /\ Allowed(Op, irq, handler, in_spec, init_done)
  BY <1>1, <1>2, TodoFacts
<1> DEFINE s == Runtime(Op, irq)
<1>4. RuntimeFacts(s, Op, irq)
  <2>1. irq \in BOOLEAN /\ prog[pc] \in Instr
    BY <1>2, TypeFacts DEF TypeOK, MachineType
  <2> QED  BY <1>1, <1>3, <2>1, RuntimeCode
<1>5. Continue(s)
  BY <1>1
<1> HIDE DEF s
<1>6. /\ s \in Seq(MicroOp) /\ \A x \in Elems(s) : x.op \in RuntimeOps(Op.op)
      /\ \A x \in Elems(s) : x.op = "restart" => x.a = Op.a
      /\ \E x \in Elems(s) : x.op = "unset_rt"
      /\ Op.op = "enter_restart" => \E x \in Elems(s) : x.op = "restart"
      /\ Op.op = "enter_checkpoint" => /\ \E x \in Elems(s) : x.op = "set"
                                       /\ \E x \in Elems(s) : x.op = "save_registers"
  BY <1>4 DEF RuntimeFacts, Made, Sound, Has
<1>7. Elems(todo') = Elems(s) \cup Elems(Rest)
  BY <1>1, <1>2, <1>5, <1>6, Replaced
<1>8. Op.op # "enter_checkpoint" =>
        \A x \in Elems(s) : x.op \notin BranchOps
  BY <1>1, <1>6 DEF RuntimeOps, EnterOps, LeaveOps, NmiOps, BranchOps
<1>9. SameText(Elems(s), Op)
  <2>1. \A x \in Elems(s) : /\ x.op # "hook_check_call_depth" /\ x.op # "exec"
                            /\ x.op \in RestartOps => x.op = "restart" /\ Op.op = "enter_restart"
    BY <1>1, <1>6 DEF RuntimeOps, EnterOps, LeaveOps, NmiOps, AfterOps, RestartOps
  <2>2. \A x \in Elems(s) : IsReturn(x) => IsReturn(Op)
    BY <1>6, <2>1 DEF IsReturn, RestartOps
  <2>3. \A x \in Elems(s) : x.op \in BranchOps => Op.op \in BranchOps
    BY <1>8 DEF BranchOps
  <2> QED  BY <2>1, <2>2, <2>3 DEF SameText
<1>10. \E x \in Elems(s) : x.op \in LeavingOps
  BY <1>6 DEF LeavingOps
<1>11. ASSUME in_spec
       PROVE  /\ \A x \in Elems(s) : x.op # "save_registers"
              /\ IsReturn(Op) => \E x \in Elems(s) : IsReturn(x) \/ x.op = "finish"
  <2>1. Op.op # "enter_checkpoint"
    BY <1>3, <1>11 DEF Allowed, CheckpointOps
  <2>2. IsReturn(Op) => \E x \in Elems(s) : IsReturn(x)
    BY <1>1, <1>6 DEF IsReturn, RestartOps, EnterOps
  <2> QED  BY <1>8, <2>1, <2>2 DEF BranchOps
<1>12. (\E x \in Elems(s) : x.op = "new_checkpoint") =>
         (\E x \in Elems(s) : x.op = "save_registers") /\ (\E x \in Elems(s) : x.op = "set")
  BY <1>6, <1>8 DEF BranchOps
<1>13. Op.op \notin {"exec", "hook_check_call_depth", "save_registers", "finish", "set"}
  BY <1>1 DEF EnterOps
<1> QED  BY <1>1, <1>7, <1>9, <1>10, <1>11, <1>12, <1>13, ThreadStep

\* Leaving the runtime, the stores of the instrumentation, the copy of the frame
\* and the handlers' work.
LEMMA LeaveThread ==
  ASSUME Safe, Thread,
         IrqRestore \/ UnsetRt \/ SetWord \/ SaveStack \/ InitData \/ InitDone \/ HandleTick
  PROVE  Thread'
<1>1. todo # << >> /\ Continue(<< >>)
  BY DEF IrqRestore, UnsetRt, SetWord, SaveStack, InitData, InitDone, HandleTick, At
<1>2. Op.op \in {"irq_restore", "unset_rt", "add", "set", "save_stack", "init_data", "init_done", "tick"}
  BY DEF IrqRestore, UnsetRt, SetWord, SaveStack, InitData, InitDone, HandleTick, At, Op
<1>3. /\ Op.op \notin {"exec", "hook_check_call_depth", "save_registers", "finish"} /\ ~IsReturn(Op)
      /\ Op.op \in LeavingOps => Op.op = "unset_rt"
  BY <1>2 DEF IsReturn, RestartOps, LeavingOps, EnterOps
<1>4. /\ TypeOK /\ (in_spec => init_done) /\ (~in_spec => spec_depth = 0)
      /\ Allowed(Op, irq, handler, in_spec, init_done)
  BY <1>1, ModeFacts, TodoFacts DEF Safe
<1>5. SwapCondition \in Words /\ Jiffies \in Words /\ SwapCondition # Jiffies /\ IgnoreNmis # SwapCondition
      /\ mem \in [Words -> Int]
  BY <1>4, MachineAssumption DEF Words, SwapCondition, IgnoreNmis, Jiffies, FirstHeap, TypeOK, MachineType
<1>6. CASE IrqRestore \/ UnsetRt \/ SaveStack \/ InitDone
  <2>1. /\ Steady /\ mem' = mem /\ Op.op # "set" /\ (in_rt' => in_rt)
        /\ Op.op = "unset_rt" => ~in_rt'
    BY <1>6 DEF IrqRestore, UnsetRt, SaveStack, InitDone, At, Op, Steady, mvars, cpuVars, modeVars, countVars,
                ckptVars
  <2> QED  BY <1>1, <1>3, <2>1, ThreadEnd
<1>7. CASE SetWord
  <2>1. Steady /\ in_rt' = in_rt /\ (Op.op = "add" \/ Op.op = "set")
    BY <1>7 DEF SetWord, At, Op, Steady, cpuVars, modeVars, countVars, ckptVars
  <2>2. CASE Op.op = "add"
    <3>1. Op.a = IgnoreNmis /\ mem' = [mem EXCEPT ![Op.a] = mem[Op.a] + Op.n]
      BY <1>4, <1>7, <2>2 DEF SetWord, Allowed
    <3>2. mem'[SwapCondition] = mem[SwapCondition]
      BY <1>5, <3>1
    <3> QED  BY <1>1, <1>3, <2>1, <2>2, <3>2, ThreadEnd
  <2>3. CASE Op.op = "set"
    <3>1. Op.a = SwapCondition /\ Op.n = 0 /\ mem' = [mem EXCEPT ![Op.a] = Op.n]
      BY <1>4, <1>7, <2>3 DEF SetWord, Allowed
    <3>2. mem'[SwapCondition] = 0
      BY <1>5, <3>1
    <3> QED  BY <1>1, <1>3, <2>1, <2>3, <3>2, ThreadEnd
  <2> QED  BY <2>1, <2>2, <2>3
<1>8. CASE InitData
  <2>1. /\ Op.op = "init_data" /\ in_rt' = in_rt /\ in_spec' = FALSE /\ spec_depth' = 0
        /\ mem' = [mem EXCEPT ![SwapCondition] = 0]
        /\ UNCHANGED <<prog, pc, sp, rets, status, irqVars, kregs>>
    BY <1>8 DEF InitData, At, Op, cpuVars, ckptVars
  <2>2. ~in_spec /\ in_spec \in BOOLEAN
    BY <1>4, <2>1 DEF Allowed, InitOps, TypeOK, FlagType
  <2>3. in_spec' = in_spec /\ spec_depth' = spec_depth
    BY <1>4, <2>1, <2>2
  <2>4. Steady
    BY <2>1, <2>3 DEF Steady
  <2>5. mem'[SwapCondition] = 0
    BY <1>5, <2>1
  <2> QED  BY <1>1, <1>3, <2>1, <2>4, <2>5, ThreadEnd
<1>9. CASE HandleTick
  <2>1. Steady /\ in_rt' = in_rt /\ Op.op = "tick"
    BY <1>9 DEF HandleTick, At, Op, Steady, cpuVars, modeVars, countVars, ckptVars
  <2>2. mem'[SwapCondition] = 0
    BY <1>5, <1>9 DEF HandleTick
  <2> QED  BY <1>1, <1>3, <2>1, <2>2, ThreadEnd
<1> QED  BY <1>6, <1>7, <1>8, <1>9

-----------------------------------------------------------------------------
(* Checkpoints, calls and returns *)

\* A checkpoint begins; its registers are still to be saved.
LEMMA NewCheckpointThread ==
  ASSUME Safe, Thread, NewCheckpoint
  PROVE  Thread'
<1>1. /\ todo # << >> /\ Continue(<< >>) /\ Op.op = "new_checkpoint" /\ in_rt' = in_rt
      /\ UNCHANGED <<prog, pc, sp, rets, status, irqVars, kregs>> /\ spec_depth' = 0
  BY DEF NewCheckpoint, At, Op, cpuVars, ckptVars
<1>2. TypeOK /\ TodoInv /\ LeaveInv /\ SaveInv /\ TextInv
  BY DEF Safe, Thread
<1>3. Elems(todo') = {} \cup Elems(Rest) /\ Elems(todo) = {Op} \cup Elems(Rest)
  BY <1>1, <1>2, ReplacedByOne, TodoFacts
<1>4. /\ ~handler /\ ~Has(Rest, "new_checkpoint")
  <2>1. /\ \A y \in Elems(Rest) : Precedes(Op, y)
        /\ Allowed(Op, irq, handler, in_spec, init_done)
    BY <1>1, <1>2, TodoFacts
  <2> QED  BY <1>1, <2>1 DEF Precedes, CheckpointOps, Has, Allowed, HandlerOps, InterruptOps, RollbackOps
<1>5. Has(todo', "save_registers") /\ Has(todo', "set") /\ ~Has(todo', "new_checkpoint")
  BY <1>1, <1>2, <1>3, <1>4 DEF SaveInv, Has
<1>6. LeaveInv'
  <2>1. UNCHANGED <<status, irqVars>> /\ (in_rt' => in_rt) /\ Op.op \notin LeavingOps
    BY <1>1 DEF LeavingOps, EnterOps
  <2> QED  BY <1>1, <1>2, <1>3, <2>1, LeavingStep
<1>7. ~handler'
  BY <1>1, <1>4 DEF irqVars
<1>8. SwapInv' /\ SaveInv' /\ DepthInv'
  BY <1>1, <1>5, <1>7 DEF SwapInv, SaveInv, DepthInv, Has
<1>9. TextInv'
  <2>1. TextOf(todo, pc) => TextOf(todo, pc)'
    BY <1>1, <1>3 DEF TextOf, Has
  <2> QED  BY <1>1, <1>2, <1>4, <1>7, <2>1 DEF TextInv
<1> QED  BY <1>6, <1>8, <1>9 DEF Thread

\* The registers are saved: the depth counts from here.
LEMMA SaveRegistersThread ==
  ASSUME Safe, Thread, SaveRegisters
  PROVE  Thread'
<1>1. /\ todo # << >> /\ status = "running" /\ Continue(<< >>) /\ Op.op = "save_registers" /\ in_rt' = in_rt
      /\ UNCHANGED <<prog, pc, sp, rets, mem, status, irqVars, in_spec, spec_depth>>
      /\ kregs'.pc = pc /\ kregs'.sp = sp
  BY DEF SaveRegisters, At, Op, mvars, modeVars, countVars
<1>2. TypeOK /\ TodoInv /\ LeaveInv /\ SwapInv /\ SaveInv /\ TextInv /\ DepthInv
  BY DEF Safe, Thread
<1>3. Elems(todo') = {} \cup Elems(Rest) /\ Elems(todo) = {Op} \cup Elems(Rest)
  BY <1>1, <1>2, ReplacedByOne, TodoFacts
<1>4. ~handler /\ ~Has(Rest, "new_checkpoint")
  <2>1. /\ \A y \in Elems(Rest) : Precedes(Op, y)
        /\ Allowed(Op, irq, handler, in_spec, init_done)
    BY <1>1, <1>2, TodoFacts
  <2> QED  BY <1>1, <2>1 DEF Precedes, CheckpointOps, Has, Allowed, HandlerOps, InterruptOps, RollbackOps
<1>5. ~handler' /\ prog[pc].op = "branch"
  <2>1. TextOf(todo, pc)
    BY <1>1, <1>2, <1>4 DEF TextInv
  <2> QED  BY <1>1, <1>3, <1>4, <2>1 DEF irqVars, TextOf, BranchOps
<1>6. LeaveInv'
  <2>1. UNCHANGED <<status, irqVars>> /\ (in_rt' => in_rt) /\ Op.op \notin LeavingOps
    BY <1>1 DEF LeavingOps, EnterOps
  <2> QED  BY <1>1, <1>2, <1>3, <2>1, LeavingStep
<1>7. SwapInv' /\ SaveInv'
  <2>1. UNCHANGED irqVars /\ mem'[SwapCondition] = mem[SwapCondition] /\ Op.op \notin {"set", "finish"}
    BY <1>1
  <2> QED  BY <1>1, <1>2, <1>3, <1>4, <2>1, ConditionStep
<1>8. TextInv'
  <2>1. TextOf(todo, pc) => TextOf(todo, pc)'
    BY <1>1, <1>3 DEF TextOf, Has
  <2> QED  BY <1>1, <1>2, <1>4, <1>5, <2>1 DEF TextInv
<1>9. DepthInv'
  <2> SUFFICES ASSUME in_spec', status' = "running", ~Has(todo', "finish")
               PROVE  spec_depth' = 0 /\ ~Uncounted' /\ sp' - kregs'.sp = 0 /\ prog'[pc'].op # "entry"
    BY DEF DepthInv, Has
  <2>1. Has(todo, "save_registers") /\ ~Has(todo, "finish") /\ in_spec
    BY <1>1, <1>3 DEF Has
  <2>2. spec_depth = 0
    BY <1>1, <1>2, <1>4, <2>1 DEF DepthInv
  <2>3. sp \in Int
    BY <1>2 DEF TypeOK, MachineType
  <2> QED  BY <1>1, <1>5, <2>2, <2>3 DEF Uncounted
<1> QED  BY <1>6, <1>7, <1>8, <1>9 DEF Thread

\* A call is counted.
LEMMA CallThread ==
  ASSUME Safe, Thread, HookCheckCallDepth
  PROVE  Thread'
<1>1. /\ todo # << >> /\ status = "running" /\ Op.op = "hook_check_call_depth" /\ mem' = mem
      /\ UNCHANGED <<prog, pc, sp, rets, mem, status, irqVars, in_spec, kregs>>
  BY DEF HookCheckCallDepth, At, Op, mvars, modeVars, ckptVars
<1>2. TypeOK /\ TodoInv /\ LeaveInv /\ SwapInv /\ SaveInv /\ TextInv /\ DepthInv
  BY DEF Safe, Thread
<1>3. Elems(todo) = {Op} \cup Elems(Rest)
  BY <1>1, <1>2, TodoFacts
<1>4. ~handler /\ \A y \in Elems(Rest) : y.op = "exec"
  <2>1. /\ \A y \in Elems(Rest) : Precedes(Op, y)
        /\ Allowed(Op, irq, handler, in_spec, init_done)
    BY <1>1, <1>2, TodoFacts
  <2> QED  BY <1>1, <2>1 DEF Precedes, Allowed, HandlerOps, InterruptOps, RollbackOps
<1>5. prog[pc].op = "entry" /\ TextOf(todo, pc) /\ ~handler'
  <2>1. TextOf(todo, pc)
    BY <1>1, <1>2, <1>4 DEF TextInv
  <2> QED  BY <1>1, <1>3, <1>4, <2>1 DEF irqVars, TextOf
<1>6. ~in_rt
  <2>1. ~Leaves(todo)
    BY <1>1, <1>3, <1>4 DEF Leaves, LeavingOps, EnterOps
  <2> QED  BY <1>1, <1>2, <1>4, <2>1 DEF LeaveInv
<1>7. mem[SwapCondition] = 0
  BY <1>1, <1>2, <1>3, <1>4 DEF SwapInv, Has
<1> DEFINE x == U("enter_restart", RESTART_CALL_DEPTH, 0)
<1>8. x \in MicroOp /\ x.op = "enter_restart" /\ ~IsReturn(x)
  BY DEF U, MicroOp, OpNames, RESTART_CALL_DEPTH, RESTART_RETURN, IsReturn
<1>9. \/ Continue(<< >>) /\ ~in_rt'
      \/ Continue(<<x>>)
  BY <1>6, Zenon DEF HookCheckCallDepth
<1> HIDE DEF x
<1>10. PICK E : /\ Elems(todo') = E \cup Elems(Rest) /\ (E = {x} \/ (E = {} /\ ~in_rt'))
  <2>1. CASE Continue(<< >>) /\ ~in_rt'
    BY <1>1, <1>2, <2>1, ReplacedByOne
  <2>2. CASE Continue(<<x>>)
    BY <1>1, <1>2, <1>8, <2>2, ReplacedByOne
  <2> QED  BY <1>9, <2>1, <2>2
<1>11. LeaveInv'
  BY <1>8, <1>10 DEF LeaveInv, Leaves, LeavingOps, EnterOps
<1>12. SwapInv' /\ SaveInv'
  BY <1>1, <1>4, <1>5, <1>7, <1>8, <1>10 DEF SwapInv, SaveInv, Has
<1>13. TextInv'
  <2>1. TextOf(todo, pc)'
    BY <1>1, <1>4, <1>8, <1>10 DEF TextOf, IsReturn, RestartOps, BranchOps
  <2> QED  BY <1>1, <1>2, <1>5, <2>1 DEF TextInv
<1>14. DepthInv'
  <2> SUFFICES ASSUME in_spec'
               PROVE  /\ spec_depth' + 0 = sp' - kregs'.sp /\ ~Uncounted' /\ ~Has(todo', "save_registers")
                      /\ Has(todo', "exec")
    BY DEF DepthInv, Has
  <2>1. in_spec /\ wl_enabled /\ init_done
    BY <1>1, ModeFacts
  <2>2. spec_depth' = spec_depth + 1
    BY <1>6, <2>1 DEF HookCheckCallDepth, DepthHookActive
  <2>3. ~Has(todo, "finish") /\ ~Has(todo, "save_registers") /\ Has(todo, "hook_check_call_depth")
    BY <1>1, <1>3, <1>4 DEF Has
  <2>4. spec_depth + 1 = sp - kregs.sp /\ Has(todo, "exec")
    BY <1>1, <1>2, <1>4, <1>5, <2>1, <2>3 DEF DepthInv, Uncounted
  <2>5. Has(todo', "exec") /\ ~Has(todo', "hook_check_call_depth") /\ ~Has(todo', "save_registers")
    BY <1>1, <1>3, <1>4, <1>8, <1>10, <2>4 DEF Has
  <2>6. todo' # << >>
    BY <2>5, Short DEF Has
  <2>7. ~Uncounted'
    BY <1>1, <1>5, <2>5, <2>6 DEF Uncounted, Has
  <2>8. spec_depth \in Nat
    BY <1>2 DEF TypeOK, CountType
  <2> QED  BY <1>1, <2>2, <2>4, <2>5, <2>7, <2>8
<1> QED  BY <1>11, <1>12, <1>13, <1>14 DEF Thread

\* Where control goes without a call is no entry.
LEMMA NoEntry ==
  ASSUME NEW p \in Programs, NEW k \in DOMAIN p
  PROVE  /\ p[1].op # "entry"
         /\ p[k].op \notin Terminators => p[k + 1].op # "entry"
         /\ p[k].op = "branch" => p[p[k].to].op # "entry" /\ p[p[k].alt].op # "entry"
         /\ p[k].op = "jump" => p[p[k].to].op # "entry"
         /\ p[k].op = "call" => p[p[k].to].op = "entry"
BY MachineAssumption DEF WellFormed

\* The branch itself.
LEMMA SelectThread ==
  ASSUME Safe, Thread, Select
  PROVE  Thread'
<1>1. /\ todo # << >> /\ status = "running" /\ Op.op = "select" /\ Continue(<< >>) /\ in_rt' = in_rt
      /\ UNCHANGED <<prog, sp, rets, mem, status, irqVars, in_spec, spec_depth, kregs>>
      /\ prog[pc].op = "branch" /\ pc' \in {prog[pc].to, prog[pc].alt}
  BY DEF Select, At, Op, modeVars, countVars, ckptVars, Target
<1>2. TypeOK /\ TodoInv /\ LeaveInv /\ SwapInv /\ SaveInv /\ TextInv /\ DepthInv
  BY DEF Safe, Thread
<1>3. Elems(todo') = {} \cup Elems(Rest) /\ Elems(todo) = {Op} \cup Elems(Rest)
  BY <1>1, <1>2, ReplacedByOne, TodoFacts
<1>4. ~handler /\ \A y \in Elems(Rest) : y.op \in {"hook_store", "set", "hook_check_spec_length"}
  <2>1. /\ \A y \in Elems(Rest) : Precedes(Op, y)
        /\ Allowed(Op, irq, handler, in_spec, init_done)
    BY <1>1, <1>2, TodoFacts
  <2> QED  BY <1>1, <2>1 DEF Precedes, Allowed, HandlerOps, InterruptOps, RollbackOps
<1>5. ~handler' /\ prog'[pc'].op # "entry"
  <2>1. prog \in Programs /\ pc \in DOMAIN prog
    BY <1>2, TypeFacts
  <2> QED  BY <1>1, <1>4, <2>1, NoEntry DEF irqVars
<1>6. LeaveInv'
  <2>1. UNCHANGED <<status, irqVars>> /\ (in_rt' => in_rt) /\ Op.op \notin LeavingOps
    BY <1>1 DEF LeavingOps, EnterOps
  <2> QED  BY <1>1, <1>2, <1>3, <2>1, LeavingStep
<1>7. SwapInv' /\ SaveInv'
  <2>1. UNCHANGED irqVars /\ mem'[SwapCondition] = mem[SwapCondition]
        /\ Op.op \notin {"set", "save_registers", "finish"}
    BY <1>1
  <2> QED  BY <1>1, <1>2, <1>3, <2>1, ConditionStep
<1>8. TextInv'
  <2>1. TextOf(todo, pc)'
    BY <1>3, <1>4 DEF TextOf, IsReturn, RestartOps, BranchOps
  <2> QED  BY <1>1, <1>2, <1>5, <2>1 DEF TextInv
<1>9. DepthInv'
  <2>1. ~Has(todo, "finish") /\ ~Has(todo, "save_registers") /\ ~Has(todo', "save_registers")
        /\ ~Has(todo', "exec")
    BY <1>1, <1>3, <1>4 DEF Has
  <2>2. ~Uncounted /\ ~Uncounted'
    BY <1>1, <1>5, <2>1 DEF Uncounted, Has
  <2> QED  BY <1>1, <1>2, <1>4, <1>5, <2>1, <2>2 DEF DepthInv, Has
<1> QED  BY <1>6, <1>7, <1>8, <1>9 DEF Thread

\* The code of an instruction.
LEMMA FetchThread ==
  ASSUME Safe, Thread, Fetch
  PROVE  Thread'
<1>1. /\ todo = << >> /\ status = "running" /\ ~handler /\ todo' = Instrument(prog[pc]) /\ in_rt' = in_rt
      /\ UNCHANGED <<prog, pc, sp, rets, mem, status, handler, in_spec, spec_depth, kregs>>
  BY DEF Fetch, AtInstruction, mvars, modeVars, countVars, ckptVars, irqVars
<1>2. TypeOK /\ TodoInv /\ LeaveInv /\ SwapInv /\ SaveInv /\ TextInv /\ DepthInv
  BY DEF Safe, Thread
<1>3. FetchFacts(todo', prog[pc])
  BY <1>1, <1>2, TextFacts
<1>4. /\ \A x \in Elems(todo') : x.op \in HookOps \cup {"hook_new_checkpoint", "exec"}
      /\ \A x \in Elems(todo') : /\ x.op = "hook_check_call_depth" => prog[pc].op = "entry"
                                 /\ x.op = "hook_new_checkpoint" => prog[pc].op = "branch"
                                 /\ IsReturn(x) => prog[pc].op = "ret"
      /\ prog[pc].op # "branch" => Has(todo', "exec")
      /\ prog[pc].op = "entry" => Has(todo', "hook_check_call_depth")
      /\ prog[pc].op = "ret" => \E x \in Elems(todo') : IsReturn(x)
  BY <1>3 DEF FetchFacts, Made
<1>5. Elems(todo) = {}
  BY <1>1, Short
<1>6. ~in_rt /\ mem[SwapCondition] = 0
  BY <1>1, <1>2, <1>5 DEF LeaveInv, Leaves, SwapInv, Has
<1>7. LeaveInv' /\ SwapInv' /\ SaveInv'
  BY <1>1, <1>4, <1>6 DEF LeaveInv, SwapInv, SaveInv, Has, HookOps
<1>8. TextInv'
  <2>1. TextOf(todo, pc)'
    BY <1>1, <1>4 DEF TextOf, HookOps, BranchOps
  <2> QED  BY <1>1, <1>2, <2>1 DEF TextInv
<1>9. DepthInv'
  <2>1. ~Has(todo, "finish") /\ ~Has(todo, "save_registers") /\ ~Has(todo', "save_registers")
        /\ ~Has(todo, "exec")
    BY <1>4, <1>5 DEF Has, HookOps
  <2>2. todo' # << >> \/ ~Uncounted'
    BY <1>1, <1>4, Short DEF Uncounted, Has
  <2>3. Uncounted' <=> prog[pc].op = "entry"
    BY <1>1, <1>4, <2>2, Short DEF Uncounted, Has
  <2>4. Uncounted <=> prog[pc].op = "entry"
    BY <1>1, <2>1 DEF Uncounted
  <2> QED  BY <1>1, <1>2, <1>4, <2>1, <2>3, <2>4 DEF DepthInv, Has
<1> QED  BY <1>7, <1>8, <1>9 DEF Thread

\* The program's own step.
LEMMA StraightThread ==
  ASSUME Safe, Thread, At("exec"), ~Faults, Straight, Continue(<< >>),
         UNCHANGED <<irqVars, in_rt, in_spec, spec_depth, kregs>>
  PROVE  Thread'
<1>1. todo # << >> /\ status = "running" /\ Op.op = "exec"
  BY DEF At, Op
<1>2. TypeOK /\ TodoInv /\ LeaveInv /\ SwapInv /\ SaveInv /\ TextInv /\ DepthInv
  BY DEF Safe, Thread
<1>3. Elems(todo') = {} \cup Elems(Rest) /\ Elems(todo) = {Op} \cup Elems(Rest)
  BY <1>1, <1>2, ReplacedByOne, TodoFacts
<1>4. ~handler /\ ~handler' /\ Elems(Rest) = {} /\ Elems(todo) = {Op} /\ Elems(todo') = {}
  <2>1. /\ \A y \in Elems(Rest) : Precedes(Op, y)
        /\ Allowed(Op, irq, handler, in_spec, init_done)
    BY <1>1, <1>2, TodoFacts
  <2> QED  BY <1>1, <1>3, <2>1 DEF Precedes, LastOps, Allowed, HandlerOps, InterruptOps, RollbackOps, irqVars
<1>5. ~in_rt' /\ mem'[SwapCondition] = 0
  <2>1. ~Leaves(todo) /\ ~Has(todo, "set") /\ ~Has(todo, "finish")
    BY <1>1, <1>4 DEF Leaves, LeavingOps, EnterOps, Has
  <2>2. mem'[SwapCondition] = mem[SwapCondition]
    BY <1>2, StraightSwap
  <2> QED  BY <1>1, <1>2, <1>4, <2>1, <2>2 DEF LeaveInv, SwapInv
<1>6. LeaveInv' /\ SwapInv' /\ SaveInv'
  BY <1>4, <1>5 DEF LeaveInv, SwapInv, SaveInv, Has
<1>7. /\ prog \in Programs /\ pc \in DOMAIN prog /\ sp \in 1..MaxSp /\ rets \in [1..MaxSp -> DOMAIN prog]
      /\ kregs.sp \in Int /\ spec_depth \in Int /\ MaxSp \in Nat
  BY <1>2, MachineAssumption DEF TypeOK, MachineType, CkptType, CountType
<1>8. prog' = prog
  BY DEF Straight, Store, Spill, Jump, Call, Return, SetIrq
<1> DEFINE i == prog[pc]

\* Only a call leads to an entry, and only calls and returns change the frame.
<1>9. CASE Store \/ Spill \/ Jump \/ SetIrq
  <2>1. rets' = rets /\ sp' = sp
    BY <1>9 DEF Store, Spill, Jump, SetIrq
  <2>2. i.op \notin {"call", "ret", "branch"} /\ (i.op \in Terminators => i.op = "jump")
    BY <1>9 DEF Store, Spill, Jump, SetIrq, Terminators
  <2>3. pc' = IF i.op = "jump" THEN i.to ELSE pc + 1
    BY <1>9 DEF Store, Spill, Jump, SetIrq
  <2>4. prog'[pc'].op # "entry"
    BY <1>7, <1>8, <2>2, <2>3, NoEntry
  <2>5. TextInv'
    BY <1>2, <1>4, <1>8, <2>1 DEF TextInv, TextOf
  <2>6. ~Uncounted /\ ~Uncounted'
    BY <1>1, <1>4, <2>2, <2>4 DEF Uncounted, Has
  <2>7. DepthInv'
    BY <1>1, <1>2, <1>4, <2>1, <2>4, <2>6 DEF DepthInv, Has
  <2> QED  BY <1>6, <2>5, <2>7 DEF Thread
<1>10. CASE Call
  <2>1. /\ i.op = "call" /\ sp' = sp + 1 /\ pc' = i.to /\ sp # MaxSp
        /\ rets' = [rets EXCEPT ![sp + 1] = pc + 1]
    BY <1>10 DEF Call, Faults
  <2>2. i.op \notin Terminators
    BY <2>1 DEF Terminators
  <2>3. prog[pc + 1].op # "entry" /\ prog[pc'].op = "entry"
    BY <1>7, <2>1, <2>2, NoEntry
  <2>4. \A d \in 1..MaxSp : rets'[d] = rets[d] \/ rets'[d] = pc + 1
    BY <1>7, <2>1
  <2>5. TextInv'
    BY <1>2, <1>4, <1>8, <2>3, <2>4 DEF TextInv, TextOf
  <2>6. todo' = << >>
    <3>1. Rest \in Seq(MicroOp) /\ todo' = << >> \o Rest
      BY <1>1, <1>2, TodoFacts DEF Continue, Rest
    <3> QED  BY <1>4, <3>1, ElemsTail
  <2>7. ~Uncounted /\ Uncounted'
    BY <1>1, <1>4, <1>8, <2>1, <2>3, <2>6 DEF Uncounted, Has
  <2>8. DepthInv'
    <3>1. in_spec => spec_depth = sp - kregs.sp
      BY <1>1, <1>2, <1>4, <1>7, <2>7 DEF DepthInv, Has
    <3> QED  BY <1>4, <1>7, <2>1, <2>6, <2>7, <3>1 DEF DepthInv, Has
  <2> QED  BY <1>6, <2>5, <2>8 DEF Thread
<1>11. CASE Return
  <2>1. i.op = "ret" /\ Uncounted
    <3>1. i.op = "ret"
      BY <1>11 DEF Return
    <3> QED  BY <1>1, <1>4, <3>1 DEF Uncounted, Has, IsReturn, RestartOps
  <2>2. CASE status' # "running"
    <3>1. rets' = rets
      BY <1>1, <1>11, <2>2 DEF Return
    <3> QED  BY <1>2, <1>4, <1>6, <1>8, <2>2, <3>1 DEF TextInv, DepthInv, Thread
  <2>3. CASE status' = "running"
    <3>1. /\ pc' = rets[sp] /\ sp' = sp - 1 /\ rets' = [rets EXCEPT ![sp] = NoReturn]
      BY <1>11, <2>3 DEF Return
    <3>2. prog[1].op # "entry" /\ prog[pc'].op # "entry"
      BY <1>2, <1>7, <3>1, NoEntry DEF TextInv
    <3>3. \A d \in 1..MaxSp : rets'[d] = rets[d] \/ rets'[d] = 1
      BY <1>7, <3>1 DEF NoReturn
    <3>4. TextInv'
      BY <1>2, <1>4, <1>8, <3>2, <3>3 DEF TextInv, TextOf
    <3>5. ~Uncounted'
      BY <1>4, <1>8, <3>2 DEF Uncounted, Has
    <3>6. DepthInv'
      <4>1. in_spec => spec_depth + 1 = sp - kregs.sp
        BY <1>1, <1>2, <1>4, <2>1 DEF DepthInv, Has
      <4>2. in_spec' => spec_depth' = sp' - kregs'.sp
        BY <1>7, <3>1, <4>1
      <4>3. prog'[pc'].op # "entry" /\ ~Has(todo', "save_registers")
        BY <1>4, <1>8, <3>2 DEF Has
      <4>4. spec_depth' + 0 = spec_depth'
        BY <1>7
      <4> QED  BY <3>5, <4>2, <4>3, <4>4 DEF DepthInv, Has
    <3> QED  BY <1>6, <3>4, <3>6 DEF Thread
  <2> QED  BY <2>2, <2>3
<1> QED  BY <1>9, <1>10, <1>11 DEF Straight

-----------------------------------------------------------------------------
(* The write log, the rollback and interrupts *)

\* The code behind a checkpoint leaves the runtime and is that of its branch.
LEMMA ResumeThread ==
  ASSUME Safe, TextInv
  PROVE  /\ ~Has(ResumeOps, "new_checkpoint")
         /\ kregs.pc # NoInstr => Leaves(ResumeOps) /\ TextOf(ResumeOps, kregs.pc)
<1>1. \A x \in Elems(ResumeOps) : x.op \in AfterOps /\ x.op # "hook_check_call_depth" /\ ~IsReturn(x)
  BY ResumeCode
<1>2. ~Has(ResumeOps, "new_checkpoint")
  BY <1>1 DEF Has, AfterOps, LeaveOps, NmiOps
<1>3. ASSUME kregs.pc # NoInstr PROVE Leaves(ResumeOps) /\ TextOf(ResumeOps, kregs.pc)
  <2>1. TypeOK
    BY DEF Safe
  <2>2. kregs.pc \in DOMAIN prog /\ prog \in Programs /\ kregs.flags \in BOOLEAN
    BY <1>3, <2>1 DEF TypeOK, CkptType, SavedPc, MachineType
  <2>3. prog[kregs.pc] \in Instr
    BY <2>2, ProgramFacts
  <2>4. Has(ResumeOps, "unset_rt")
    BY <1>3, <2>2, <2>3, AfterCode DEF ResumeOps
  <2>5. prog[kregs.pc].op = "branch"
    BY <1>3 DEF TextInv
  <2> QED  BY <1>1, <2>4, <2>5 DEF Has, Leaves, LeavingOps, TextOf
<1> QED  BY <1>2, <1>3

\* A handler that will return behind the checkpoint.
LEMMA ReplacedRegs ==
  ASSUME Safe, Thread, handler', regs' = CheckpointRegs, ~Has(todo', "new_checkpoint"),
         UNCHANGED <<prog, rets, kregs>>
  PROVE  Thread'
<1>1. TextInv
  BY DEF Thread
<1>2. regs'.pc = kregs.pc /\ regs'.todo = ResumeOps
  BY DEF CheckpointRegs
<1>3. /\ ~Has(regs'.todo, "new_checkpoint")
      /\ regs'.pc # NoInstr => Leaves(regs'.todo) /\ TextOf(regs'.todo, regs'.pc)
  BY <1>1, <1>2, ResumeThread
<1>4. LeaveInv' /\ SwapInv' /\ SaveInv' /\ DepthInv'
  BY <1>3 DEF LeaveInv, Leaves, SwapInv, SaveInv, DepthInv, Has
<1>5. regs'.pc # NoInstr => TextOf(regs.todo, regs.pc)'
  BY <1>3 DEF TextOf
<1>6. TextInv'
  BY <1>1, <1>5 DEF TextInv
<1> QED  BY <1>4, <1>6 DEF Thread

LEMMA ExceptionThread ==
  ASSUME Safe, Thread, NEW type, NEW top, Exception(type, top), UNCHANGED <<prog, rets, kregs>>
  PROVE  Thread'
<1> DEFINE r == U("restart_irq", type, top)
           q == U("iret", top, 0)
<1>1. todo' = <<r, q>> /\ handler' /\ regs' = CheckpointRegs
  BY DEF Exception
<1>2. r.op = "restart_irq" /\ q.op = "iret"
  BY DEF U
<1> HIDE DEF r, q
<1>3. ~Has(todo', "new_checkpoint")
  BY <1>1, <1>2, Short DEF Has
<1> QED  BY <1>1, <1>3, ReplacedRegs

LEMMA ExecThread ==
  ASSUME Safe, Thread, Exec
  PROVE  Thread'
<1>1. UNCHANGED <<in_rt, in_spec, spec_depth, kregs>> /\ At("exec")
  BY DEF Exec, modeVars, countVars, ckptVars
<1>2. CASE ~Faults /\ Straight /\ Continue(<< >>) /\ UNCHANGED irqVars
  BY <1>1, <1>2, StraightThread
<1>3. CASE Oops /\ Continue(<< >>) /\ UNCHANGED irqVars
  <2>1. status' # "running" /\ UNCHANGED <<prog, rets, mem>> /\ todo # << >> /\ Op.op = "exec"
    BY <1>1, <1>3 DEF Oops, At, Op
  <2>2. Elems(todo') = {} \cup Elems(Rest)
    BY <1>3, <2>1, ReplacedByOne DEF Safe
  <2>3. SwapInv' /\ SaveInv'
    <3>1. TypeOK /\ TodoInv /\ SwapInv /\ SaveInv
      BY DEF Safe, Thread
    <3> QED  BY <1>3, <2>1, <2>2, <3>1, ConditionStep
  <2> QED  BY <1>1, <2>1, <2>3 DEF Thread, LeaveInv, TextInv, DepthInv
<1>4. ASSUME NEW type, Exception(type, sp), UNCHANGED <<prog, cpuVars>>
      PROVE  Thread'
  BY <1>1, <1>4, ExceptionThread DEF cpuVars
<1> QED  BY <1>2, <1>3, <1>4 DEF Exec

\* The log is written.
LEMMA LogThread ==
  ASSUME Safe, Thread, LogWord \/ Memcpy
  PROVE  Thread'
<1>1. /\ todo # << >> /\ Op.op \in {"write_wl", "memcpy"} /\ in_rt' = in_rt
      /\ UNCHANGED <<prog, pc, sp, rets, status, in_spec, spec_depth, kregs>>
  BY DEF LogWord, Memcpy, At, Op, mvars, cpuVars, modeVars, countVars, ckptVars
<1>2. TypeOK /\ TodoInv
  BY DEF Safe
<1>3. /\ Op.op \notin {"exec", "hook_check_call_depth", "save_registers", "finish", "set"}
      /\ Op.op \notin LeavingOps /\ ~IsReturn(Op)
  BY <1>1 DEF LeavingOps, EnterOps, IsReturn, RestartOps
<1>4. ASSUME NEW s \in Seq(MicroOp), Continue(s), UNCHANGED irqVars, mem' = mem,
             \A x \in Elems(s) : x.op \in {"write_wl", "memcpy", "restart"} /\ ~IsReturn(x)
      PROVE  Thread'
  <2>1. Elems(todo') = Elems(s) \cup Elems(Rest)
    BY <1>1, <1>2, <1>4, Replaced
  <2>2. SameText(Elems(s), Op) /\ \A x \in Elems(s) : x.op \notin {"new_checkpoint", "save_registers"}
    BY <1>4 DEF SameText, BranchOps
  <2>3. Steady
    BY <1>1, <1>4 DEF Steady
  <2> QED  BY <1>1, <1>3, <1>4, <2>1, <2>2, <2>3, ThreadStep
<1>5. CASE Continue(<< >>) /\ UNCHANGED irqVars /\ mem' = mem
  <2>1. << >> \in Seq(MicroOp) /\ Elems(<< >>) = {}
    BY SeqEmpty, Short
  <2> QED  BY <1>4, <1>5, <2>1
<1>6. CASE LogWord
  <2> DEFINE x == U("restart", RESTART_WRITELOG_FULL, 0)
  <2>1. CASE Continue(WhenFull) /\ UNCHANGED irqVars /\ mem' = mem
    <3>1. x \in MicroOp /\ x.op = "restart" /\ ~IsReturn(x)
      BY DEF U, MicroOp, OpNames, RESTART_WRITELOG_FULL, RESTART_RETURN, IsReturn
    <3>2. Continue(<<x>>)
      BY <2>1 DEF WhenFull
    <3> HIDE DEF x
    <3>3. <<x>> \in Seq(MicroOp) /\ Elems(<<x>>) = {x}
      BY <3>1, Seq1, Short
    <3> QED  BY <1>4, <2>1, <3>1, <3>2, <3>3
  <2>2. CASE Exception(RESTART_PAGE_FAULT, sp)
    BY <1>1, <2>2, ExceptionThread
  <2> QED  BY <1>5, <1>6, <2>1, <2>2 DEF LogWord
<1>7. CASE Memcpy
  <2> DEFINE m == U("memcpy", Op.a + 8, Op.n)
             w == WriteWl(Op.a)
  <2>1. UNCHANGED irqVars /\ mem' = mem /\ (Continue(<< >>) \/ Continue(w \o <<m>>))
    BY <1>7 DEF Memcpy, mvars
  <2>2. Op.a \in Int /\ Op.n \in Int
    BY <1>1, <1>2, HeadType DEF TypeOK
  <2>3. m \in MicroOp /\ m.op = "memcpy" /\ ~IsReturn(m)
    BY <2>2 DEF U, MicroOp, OpNames, IsReturn, RestartOps
  <2>4. Made(w, {"write_wl"})
    BY <2>2, WriteWlCode
  <2> HIDE DEF m, w
  <2>5. <<m>> \in Seq(MicroOp) /\ Elems(<<m>>) = {m}
    BY <2>3, Seq1, Short
  <2>6. w \in Seq(MicroOp) /\ \A x \in Elems(w) : x.op = "write_wl" /\ ~IsReturn(x)
    BY <2>4 DEF Made, Sound, IsReturn, RestartOps
  <2> DEFINE o == <<m>>
             c == w \o o
  <2>7. o \in Seq(MicroOp) /\ Elems(o) = {m} /\ w \in Seq(MicroOp)
    BY <2>5, <2>6
  <2>8. Continue(<< >>) \/ Continue(c)
    BY <2>1
  <2> HIDE DEF o
  <2>9. c \in Seq(MicroOp) /\ Elems(c) = Elems(w) \cup {m}
    BY <2>7, ElemsConcat, SeqConcat
  <2> HIDE DEF c
  <2>10. \A x \in Elems(c) : x.op \in {"write_wl", "memcpy", "restart"} /\ ~IsReturn(x)
    BY <2>3, <2>6, <2>9
  <2> QED  BY <1>4, <1>5, <2>1, <2>8, <2>9, <2>10
<1> QED  BY <1>6, <1>7

\* A restart: none outside speculation, a return that is counted, or a rollback.
LEMMA RestartThread ==
  ASSUME Safe, Thread, Restart \/ RestartIrq
  PROVE  Thread'
<1>1. /\ todo # << >> /\ status = "running" /\ Op.op \in {"restart", "restart_irq"} /\ in_rt' = in_rt
      /\ UNCHANGED <<prog, pc, sp, rets, status, irqVars, in_spec, kregs>>
  BY DEF Restart, RestartIrq, At, Op, mvars, cpuVars, ckptVars
<1>2. TypeOK /\ TodoInv /\ LeaveInv /\ SwapInv /\ SaveInv /\ TextInv /\ DepthInv
  BY DEF Safe, Thread
<1>3. Op.op \notin LeavingOps /\ Op.op \notin {"exec", "hook_check_call_depth", "save_registers", "finish", "set"}
  BY <1>1 DEF LeavingOps, EnterOps
<1>4. Op.n \in Int /\ sp \in Int
  BY <1>1, <1>2, HeadType DEF TypeOK, MachineType
<1>5. CASE Restart /\ ~in_spec
  <2>1. Continue(<< >>) /\ mem' = mem /\ spec_depth' = spec_depth
    BY <1>5 DEF Restart
  <2>2. Steady
    BY <1>1, <2>1 DEF Steady
  <2> QED  BY <1>1, <1>3, <1>5, <2>1, <2>2, ThreadEnd
<1>6. CASE Restart /\ in_spec /\ ReturnInSpeculation(Op.a)
  <2>1. Continue(<< >>) /\ mem' = mem /\ spec_depth' = spec_depth - 1 /\ Op.op = "restart"
    BY <1>6 DEF Restart, At, Op
  <2>2. IsReturn(Op)
    BY <1>6, <2>1 DEF ReturnInSpeculation, IsReturn, RestartOps
  <2>3. Elems(todo') = {} \cup Elems(Rest) /\ Elems(todo) = {Op} \cup Elems(Rest)
    BY <1>1, <1>2, <2>1, ReplacedByOne, TodoFacts
  <2>4. \A y \in Elems(Rest) : y.op # "finish" /\ ~IsReturn(y)
    <3>1. \A y \in Elems(Rest) : Precedes(Op, y)
      BY <1>1, <1>2, TodoFacts
    <3> QED  BY <2>1, <2>2, <3>1 DEF Precedes
  <2>5. ~handler /\ ~handler'
    <3>1. Op.op \notin RollbackOps \cup {"hook_interrupt_timer"}
      BY <2>1 DEF RollbackOps
    <3> QED  BY <1>1, <1>6, <3>1, ModeFacts DEF irqVars
  <2>6. TextOf(todo, pc)
    BY <1>1, <1>2, <2>5 DEF TextInv
  <2>7. /\ prog[pc].op = "ret" /\ Has(todo, "exec") /\ Has(todo', "exec")
        /\ ~Has(todo, "save_registers") /\ ~Has(todo, "finish")
    <3>1. prog[pc].op = "ret" /\ Has(todo, "exec")
      BY <2>2, <2>3, <2>6 DEF TextOf
    <3>2. ~Has(todo, "save_registers")
      BY <2>6, <3>1 DEF TextOf, Has, BranchOps
    <3> QED  BY <1>3, <2>3, <2>4, <3>1, <3>2 DEF Has
  <2>8. ~Uncounted /\ Uncounted'
    BY <1>1, <2>2, <2>3, <2>4, <2>7 DEF Uncounted
  <2>9. DepthInv'
    <3>1. spec_depth = sp - kregs.sp
      <4>1. spec_depth + 0 = sp - kregs.sp
        BY <1>1, <1>2, <1>6, <2>5, <2>7, <2>8 DEF DepthInv
      <4>2. spec_depth \in Nat
        BY <1>2 DEF TypeOK, CountType
      <4> QED  BY <4>1, <4>2
    <3>2. spec_depth' + 1 = sp' - kregs'.sp
      <4>1. spec_depth \in Nat
        BY <1>2 DEF TypeOK, CountType
      <4> QED  BY <1>1, <2>1, <3>1, <4>1
    <3>3. ~Has(todo', "save_registers") /\ prog'[pc'].op # "entry"
      BY <1>1, <2>3, <2>7 DEF Has
    <3> QED  BY <2>8, <3>2, <3>3 DEF DepthInv, Has
  <2>10. TextInv'
    <3>1. TextOf(todo, pc)'
      BY <1>1, <2>3, <2>6, <2>7 DEF TextOf, Has
    <3> QED  BY <1>1, <1>2, <2>5, <3>1 DEF TextInv
  <2>11. LeaveInv'
    <3>1. UNCHANGED <<status, irqVars>>
      BY <1>1
    <3> QED  BY <1>1, <1>2, <1>3, <2>3, <3>1, LeavingStep
  <2>12. SwapInv' /\ SaveInv'
    <3>1. mem'[SwapCondition] = mem[SwapCondition] /\ UNCHANGED irqVars
      BY <1>1, <2>1
    <3> QED  BY <1>1, <1>2, <1>3, <2>3, <3>1, ConditionStep
  <2> QED  BY <2>9, <2>10, <2>11, <2>12 DEF Thread
<1>7. ASSUME NEW u \in MicroOp, NEW f \in MicroOp, u.op = "undo", f.op = "finish", Continue(<<u, f>>),
             spec_depth' = spec_depth
      PROVE  Thread'
  <2>1. <<u, f>> \in Seq(MicroOp) /\ Elems(<<u, f>>) = {u, f}
    BY Short
  <2>2. Elems(todo') = {u, f} \cup Elems(Rest)
    BY <1>1, <1>2, <1>7, <2>1, Replaced
  <2>3. SameText({u, f}, Op) /\ Has(todo', "finish")
    BY <1>7, <2>2 DEF SameText, IsReturn, RestartOps, BranchOps, Has
  <2>4. Steady
    BY <1>1, <1>7 DEF Steady
  <2>5. (\A x \in {u, f} : x.op \notin {"new_checkpoint", "save_registers"}) /\ f \in {u, f}
    BY <1>7
  <2> QED  BY <1>1, <1>3, <1>7, <2>2, <2>3, <2>4, <2>5, ThreadStep
<1>8. CASE Restart /\ in_spec /\ ~ReturnInSpeculation(Op.a)
  <2> DEFINE u == U("undo", sp, 0)
             f == U("finish", 0, 0)
  <2>1. u \in MicroOp /\ f \in MicroOp /\ u.op = "undo" /\ f.op = "finish"
    BY <1>4 DEF U, MicroOp, OpNames
  <2>2. Continue(<<u, f>>) /\ spec_depth' = spec_depth
    BY <1>8 DEF Restart
  <2> HIDE DEF u, f
  <2> QED  BY <1>7, <2>1, <2>2
<1>9. CASE RestartIrq
  <2> DEFINE u == U("undo", Op.n, 1)
             f == U("finish", 1, 0)
  <2>1. u \in MicroOp /\ f \in MicroOp /\ u.op = "undo" /\ f.op = "finish"
    BY <1>4 DEF U, MicroOp, OpNames
  <2>2. Continue(<<u, f>>) /\ spec_depth' = spec_depth
    BY <1>9 DEF RestartIrq, countVars
  <2> HIDE DEF u, f
  <2> QED  BY <1>7, <2>1, <2>2
<1> QED  BY <1>5, <1>6, <1>8, <1>9

\* The restore; the rest of the restart stays pending.
LEMMA UndoThread ==
  ASSUME Safe, Thread, Undo
  PROVE  Thread'
<1>1. /\ todo # << >> /\ Op.op = "undo" /\ in_rt' = in_rt
      /\ UNCHANGED <<prog, pc, sp, rets, status, in_spec, spec_depth, kregs>>
  BY DEF Undo, At, Op, cpuVars, modeVars, countVars, ckptVars
<1>2. TypeOK /\ TodoInv /\ LogInv
  BY DEF Safe
<1>3. /\ Op.op \notin {"exec", "hook_check_call_depth", "save_registers", "finish", "set"}
      /\ Op.op \notin LeavingOps /\ ~IsReturn(Op)
  BY <1>1 DEF LeavingOps, EnterOps, IsReturn, RestartOps
<1>4. CASE Exception(RESTART_PAGE_FAULT, NestedTop(Op.a))
  BY <1>1, <1>4, ExceptionThread
<1>5. Has(Rest, "finish") /\ Elems(todo) = {Op} \cup Elems(Rest)
  <2>1. Rest # << >> /\ Head(Rest).op = "finish" /\ Rest \in Seq(MicroOp)
    BY <1>1, <1>2, TodoFacts DEF LogInv, Rest
  <2> QED  BY <1>1, <1>2, <2>1, TodoFacts, ElemsTail DEF Has
<1>6. CASE UNCHANGED <<todo, irqVars>>
  <2>1. Steady /\ Elems(todo') = {Op} \cup Elems(Rest)
    BY <1>1, <1>5, <1>6 DEF Steady
  <2>2. SameText({Op}, Op) /\ Has(todo', "finish")
    BY <1>1, <1>5, <2>1 DEF SameText, Has
  <2> QED  BY <1>1, <1>3, <2>1, <2>2, ThreadStep
<1>7. CASE Continue(<< >>) /\ UNCHANGED <<irqVars, mem>>
  <2>1. Steady
    BY <1>1, <1>7 DEF Steady
  <2> QED  BY <1>1, <1>3, <1>7, <2>1, ThreadEnd
<1> QED  BY <1>4, <1>6, <1>7, Zenon DEF Undo

\* The end of a speculation.
LEMMA FinishThread ==
  ASSUME Safe, Thread, Finish
  PROVE  Thread'
<1>1. /\ todo # << >> /\ status = "running" /\ Op.op = "finish" /\ ~in_spec' /\ mem' = FinishMem
      /\ UNCHANGED <<prog, rets, irqVars, kregs>>
  BY DEF Finish, At, Op, ckptVars
<1>2. TypeOK /\ TodoInv /\ LeaveInv /\ SaveInv /\ TextInv
  BY DEF Safe, Thread
<1>3. DepthInv' /\ (mem'[SwapCondition] = 0 => SwapInv')
  BY <1>1 DEF DepthInv, SwapInv
<1>4. SwapInv'
  <2>1. wl_base \in Int /\ 1 <= wl_base /\ wl_base <= MaxSp + 2 /\ mem \in [Words -> Int]
    BY <1>2, MachineAssumption DEF TypeOK, CkptType, MachineType
  <2>2. Frame(wl_base) \in Words /\ Frame(wl_base) # SwapCondition /\ SwapCondition \in Words
    BY <2>1, FrameWords, MachineAssumption DEF Words, SwapCondition, FirstHeap
  <2>3. mem'[SwapCondition] = 0
    BY <1>1, <2>1, <2>2 DEF FinishMem
  <2> QED  BY <1>3, <2>3
<1>5. Allowed(Op, irq, handler, in_spec, init_done)
  BY <1>1, <1>2, TodoFacts
<1>6. CASE handler
  <2>1. Op.a = 1
    BY <1>1, <1>5, <1>6 DEF Allowed
  <2>2. Continue(<< >>) /\ in_rt' = in_rt /\ status' = status /\ handler' /\ regs' = regs
    BY <1>1, <1>6, <2>1 DEF Finish, irqVars
  <2>3. Elems(todo') = {} \cup Elems(Rest)
    BY <1>1, <1>2, <2>2, ReplacedByOne
  <2>4. ~Has(todo', "new_checkpoint")
    <3>1. \A y \in Elems(Rest) : Allowed(y, irq, handler, in_spec, init_done)
      BY <1>1, <1>2, TodoFacts
    <3> QED  BY <1>6, <2>3, <3>1 DEF Allowed, HandlerOps, InterruptOps, RollbackOps, Has
  <2>5. LeaveInv'
    <3>1. UNCHANGED <<status, irqVars>> /\ Op.op \notin LeavingOps /\ (in_rt' => in_rt)
      BY <1>1, <2>2 DEF LeavingOps, EnterOps
    <3> QED  BY <1>1, <1>2, <2>3, <3>1, LeavingStep
  <2>6. SaveInv'
    BY <1>2, <1>6, <2>2, <2>4 DEF SaveInv, Has
  <2>7. TextInv'
    <3>1. TextOf(regs.todo, regs.pc) => TextOf(regs.todo, regs.pc)'
      BY <1>1, <2>2 DEF TextOf, Has
    <3> QED  BY <1>1, <1>2, <1>6, <2>2, <3>1 DEF TextInv
  <2> QED  BY <1>3, <1>4, <2>5, <2>6, <2>7 DEF Thread
<1>7. CASE ~handler
  <2>1. Op.a = 0
    BY <1>1, <1>5, <1>7 DEF Allowed
  <2>2. ~in_rt' /\ Resume(kregs) /\ todo' = ResumeOps /\ ~handler'
    BY <1>1, <1>7, <2>1 DEF Finish, irqVars
  <2>3. status' = "running" => kregs.pc # NoInstr /\ pc' = kregs.pc
    BY <2>2 DEF Resume
  <2>4. LeaveInv' /\ SaveInv'
    BY <1>2, <2>2, ResumeThread DEF LeaveInv, SaveInv, Has
  <2>5. TextInv'
    <3>1. status' = "running" => TextOf(ResumeOps, pc')
      BY <1>2, <2>3, ResumeThread
    <3>2. status' = "running" => TextOf(todo, pc)'
      BY <1>1, <2>2, <3>1 DEF TextOf, Has
    <3> QED  BY <1>1, <1>2, <2>2, <3>2 DEF TextInv
  <2> QED  BY <1>3, <1>4, <2>4, <2>5 DEF Thread
<1> QED  BY <1>6, <1>7

\* The interrupted code is kept for the handler's return.
LEMMA TimerThread ==
  ASSUME Safe, Thread, TimerInterrupt
  PROVE  Thread'
<1> DEFINE h == U("hook_interrupt_timer", sp, 0)
           t == U("tick", sp, 0)
           r == U("hook_restart", RESTART_RETURN, 0)
           q == U("iret", sp, 0)
<1>1. /\ status = "running" /\ irq /\ ~handler /\ handler' /\ in_rt' = in_rt
      /\ regs'.pc = pc /\ regs'.todo = todo /\ todo' = <<h, t, r, q>>
      /\ UNCHANGED <<prog, rets, status, kregs>>
  BY DEF TimerInterrupt, cpuVars, ckptVars
<1>2. h.op = "hook_interrupt_timer" /\ t.op = "tick" /\ r.op = "hook_restart" /\ q.op = "iret"
  BY DEF U
<1> HIDE DEF h, t, r, q
<1>3. Elems(todo') = {h, t, r, q}
  <2>1. /\ Precedes(h, t) /\ Precedes(h, r) /\ Precedes(h, q)
        /\ Precedes(t, r) /\ Precedes(t, q) /\ Precedes(r, q)
    BY <1>2 DEF Precedes, LastOps, FirstOps, CheckpointOps, IsReturn, RestartOps
  <2> QED  BY <1>1, <2>1, Short4
<1>4. TodoInv /\ LeaveInv /\ TextInv
  BY DEF Safe, Thread
<1>5. ~Has(todo, "new_checkpoint")
  BY <1>1, <1>4 DEF TodoInv, Code, Allowed, Masked, Has
<1>6. ~Has(todo', "new_checkpoint")
  BY <1>2, <1>3 DEF Has
<1>7. LeaveInv' /\ SwapInv' /\ SaveInv' /\ DepthInv'
  BY <1>1, <1>4, <1>5, <1>6 DEF LeaveInv, Leaves, SwapInv, SaveInv, DepthInv, Has
<1>8. TextInv'
  <2>1. TextOf(todo, pc)
    BY <1>1, <1>4 DEF TextInv
  <2>2. TextOf(regs.todo, regs.pc)'
    BY <1>1, <2>1 DEF TextOf, Has
  <2> QED  BY <1>1, <1>4, <2>2 DEF TextInv
<1> QED  BY <1>7, <1>8 DEF Thread

\* The timer's hook: the handler returns behind the checkpoint.
LEMMA TimerHookThread ==
  ASSUME Safe, Thread, HookInterruptTimer
  PROVE  Thread'
<1>1. /\ todo # << >> /\ Op.op = "hook_interrupt_timer" /\ in_rt' = in_rt
      /\ UNCHANGED <<prog, pc, sp, rets, mem, status, handler, in_spec, spec_depth, kregs>>
  BY DEF HookInterruptTimer, At, Op, mvars, modeVars, countVars, ckptVars
<1>2. TypeOK /\ TodoInv /\ (in_spec => init_done) /\ Op.a \in Int
  BY <1>1, ModeFacts, HeadType DEF Safe, TypeOK
<1>3. /\ handler
      /\ \A y \in Elems(Rest) : Allowed(y, irq, handler, in_spec, init_done)
  <2>1. Allowed(Op, irq, handler, in_spec, init_done)
    BY <1>1, <1>2, TodoFacts
  <2> QED  BY <1>1, <1>2, <2>1, TodoFacts DEF Allowed, InterruptOps
<1>4. CASE ~in_spec
  <2>1. Continue(<< >>) /\ regs' = regs
    BY <1>4 DEF HookInterruptTimer
  <2>2. Steady
    BY <1>1, <2>1 DEF Steady, irqVars
  <2>3. Op.op \notin LeavingOps
    BY <1>1 DEF LeavingOps, EnterOps
  <2> QED  BY <1>1, <1>4, <2>1, <2>2, <2>3, ThreadEnd
<1>5. CASE in_spec
  <2> DEFINE x == U("restart_irq", RESTART_TIMER, Op.a)
  <2>1. x \in MicroOp /\ x.op = "restart_irq"
    BY <1>2 DEF U, MicroOp, OpNames, RESTART_TIMER
  <2>2. regs' = CheckpointRegs /\ Continue(<<x>>)
    BY <1>2, <1>5 DEF HookInterruptTimer
  <2> HIDE DEF x
  <2>3. Elems(todo') = {x} \cup Elems(Rest)
    BY <1>1, <1>2, <2>1, <2>2, ReplacedByOne
  <2>4. ~Has(todo', "new_checkpoint")
    BY <1>3, <2>1, <2>3 DEF Allowed, HandlerOps, InterruptOps, RollbackOps, Has
  <2>5. handler' /\ UNCHANGED <<prog, rets, kregs>>
    BY <1>1, <1>3
  <2> QED  BY <2>2, <2>4, <2>5, ReplacedRegs
<1> QED  BY <1>4, <1>5

\* The handler returns, outside speculation.
LEMMA IretThread ==
  ASSUME Safe, Thread, Iret
  PROVE  Thread'
<1>1. /\ todo # << >> /\ status = "running" /\ Op.op = "iret" /\ ~handler' /\ Resume(regs)
      /\ todo' = regs.todo /\ in_rt' = in_rt
      /\ UNCHANGED <<prog, rets, mem, in_spec, kregs>>
  BY DEF Iret, At, Op, modeVars, ckptVars
<1>2. TypeOK /\ TodoInv /\ LeaveInv /\ SaveInv /\ TextInv
  BY DEF Safe, Thread
<1>3. handler /\ Elems(todo) = {Op}
  <2>1. /\ Allowed(Op, irq, handler, in_spec, init_done) /\ Elems(todo) = {Op} \cup Elems(Rest)
        /\ \A y \in Elems(Rest) : Precedes(Op, y)
    BY <1>1, <1>2, TodoFacts
  <2> QED  BY <1>1, <2>1 DEF Allowed, InterruptOps, Precedes, LastOps
<1>4. ~in_spec /\ mem[SwapCondition] = 0
  <2>1. Op.op \notin RollbackOps \cup {"hook_interrupt_timer"}
    BY <1>1 DEF RollbackOps
  <2> QED  BY <1>1, <1>3, <2>1, ModeFacts
<1>5. status' = "running" => regs.pc # NoInstr /\ pc' = regs.pc
  BY <1>1 DEF Resume
<1>6. ~Leaves(todo)
  BY <1>1, <1>3 DEF Leaves, LeavingOps, EnterOps
<1>7. LeaveInv'
  BY <1>1, <1>2, <1>5, <1>6 DEF LeaveInv, Leaves
<1>8. SwapInv' /\ SaveInv' /\ DepthInv'
  BY <1>1, <1>2, <1>3, <1>4 DEF SwapInv, SaveInv, DepthInv, Has
<1>9. TextInv'
  <2>1. status' = "running" => TextOf(regs.todo, pc')
    BY <1>1, <1>2, <1>3, <1>5 DEF TextInv
  <2>2. status' = "running" => TextOf(todo, pc)'
    BY <1>1, <2>1 DEF TextOf, Has
  <2> QED  BY <1>1, <1>2, <2>2 DEF TextInv
<1> QED  BY <1>7, <1>8, <1>9 DEF Thread

\* The emulator is enabled.
LEMMA EnableThread ==
  ASSUME Safe, Thread, Enable
  PROVE  Thread'
<1> DEFINE x == U("enter_init", 0, 0)
<1>1. /\ ~init_done /\ ~handler /\ todo' = <<x>> /\ x.op = "enter_init"
      /\ UNCHANGED <<prog, pc, rets, mem, status, handler, in_spec, kregs>>
  BY DEF Enable, AtInstruction, U, mvars, modeVars, ckptVars, irqVars
<1> HIDE DEF x
<1>2. TextInv /\ ~in_spec /\ mem[SwapCondition] = 0
  BY <1>1, ModeFacts DEF Thread
<1>3. Elems(todo') = {x}
  BY <1>1, Short
<1>4. LeaveInv' /\ SwapInv' /\ SaveInv' /\ DepthInv'
  BY <1>1, <1>2, <1>3 DEF LeaveInv, Leaves, LeavingOps, EnterOps, SwapInv, SaveInv, DepthInv, Has
<1>5. TextOf(todo, pc)'
  BY <1>1, <1>3 DEF TextOf, IsReturn, RestartOps, BranchOps
<1>6. TextInv'
  BY <1>1, <1>2, <1>5 DEF TextInv
<1> QED  BY <1>4, <1>6 DEF Thread

LEMMA ThreadStays ==
  ASSUME Thread,
         UNCHANGED <<prog, pc, sp, rets, mem, status, todo, handler, regs, in_rt, in_spec, spec_depth, kregs>>
  PROVE  Thread'
<1>1. LeaveInv' /\ SwapInv' /\ SaveInv'
  BY DEF Thread, LeaveInv, Leaves, SwapInv, SaveInv, Has
<1>2. /\ TextOf(todo, pc) => TextOf(todo, pc)'
      /\ TextOf(regs.todo, regs.pc) => TextOf(regs.todo, regs.pc)'
  BY DEF TextOf, Has
<1>3. TextInv'
  BY <1>2 DEF Thread, TextInv
<1>4. Uncounted' <=> Uncounted
  BY DEF Uncounted, Has
<1>5. DepthInv'
  BY <1>4 DEF Thread, DepthInv, Has
<1> QED  BY <1>1, <1>3, <1>5 DEF Thread

\* Half a checkpoint, while the rest of it is left to do.
LEMMA PartlyThread ==
  ASSUME Safe, Thread, SavePartly
  PROVE  Thread'
<1>1. /\ todo # << >> /\ Op.op \in {"save_stack", "save_registers"} /\ status = "running"
      /\ UNCHANGED <<prog, pc, sp, rets, mem, status, todo, handler, regs, in_rt, in_spec, spec_depth>>
  BY DEF SavePartly, At, Op, mvars, modeVars, countVars, irqVars
<1>2. CASE At("save_stack")
  <2>1. kregs' = kregs
    BY <1>2 DEF SavePartly, At
  <2> QED  BY <1>1, <2>1, ThreadStays
<1>3. CASE At("save_registers")
  <2>1. \E p \in {kregs.pc, pc} : kregs' = [kregs EXCEPT !.sp = sp, !.pc = p]
    BY <1>3 DEF SavePartly, At
  <2>2. kregs'.pc = kregs.pc \/ kregs'.pc = pc
    BY <2>1 DEF Safe, TypeOK, CkptType
  <2>3. Op \in Elems(todo) /\ Op.op = "save_registers" /\ ~handler
    <3>1. TypeOK /\ TodoInv /\ Op.op = "save_registers"
      BY <1>3 DEF Safe, At, Op
    <3>2. Allowed(Op, irq, handler, in_spec, init_done) /\ Op \in Elems(todo)
      BY <1>1, <3>1, TodoFacts
    <3> QED  BY <3>1, <3>2 DEF Allowed, HandlerOps, InterruptOps, RollbackOps
  <2>4. prog[pc].op = "branch"
    BY <1>1, <2>3 DEF Thread, TextInv, TextOf, BranchOps
  <2>5. LeaveInv' /\ SwapInv' /\ SaveInv'
    BY <1>1 DEF Thread, LeaveInv, Leaves, SwapInv, SaveInv, Has
  <2>6. TextOf(todo, pc) => TextOf(todo, pc)'
    BY <1>1 DEF TextOf, Has
  <2>7. TextInv'
    BY <1>1, <2>2, <2>3, <2>4, <2>6 DEF Thread, TextInv
  <2>8. DepthInv'
    BY <1>1, <2>3 DEF Thread, DepthInv, Has
  <2> QED  BY <2>5, <2>7, <2>8 DEF Thread
<1> QED  BY <1>2, <1>3 DEF SavePartly

LEMMA HaltThread ==
  ASSUME Thread, Halt
  PROVE  Thread'
<1>1. status' # "running" /\ UNCHANGED <<prog, rets, mem, todo, handler, regs, kregs>>
  BY HaltFacts
<1> QED  BY <1>1 DEF Thread, LeaveInv, SwapInv, SaveInv, TextInv, DepthInv, Has

-----------------------------------------------------------------------------
(* The thread's invariant *)

LEMMA ThreadInit == Init => Thread
<1> SUFFICES ASSUME Init PROVE Thread
  OBVIOUS
<1>1. /\ todo = << >> /\ ~in_rt /\ ~in_spec /\ ~handler /\ kregs.pc = NoInstr /\ MInit
  BY DEF Init
<1>2. Elems(todo) = {}
  BY <1>1, Short
<1>3. prog \in Programs /\ rets = [d \in 1..MaxSp |-> NoReturn] /\ mem[SwapCondition] = 0
  <2>1. SwapCondition \in Words
    BY MachineAssumption DEF Words, SwapCondition, FirstHeap
  <2> QED  BY <1>1, <2>1 DEF MInit
<1>4. \A d \in 1..MaxSp : prog[rets[d]].op # "entry"
  <2>1. prog[1].op # "entry"
    BY <1>3, MachineAssumption DEF WellFormed
  <2> QED  BY <1>3, <2>1 DEF NoReturn
<1> QED  BY <1>1, <1>2, <1>3, <1>4 DEF Thread, LeaveInv, SwapInv, SaveInv, TextInv, TextOf, DepthInv, Has

LEMMA ThreadNext == Safe /\ Thread /\ [Next]_vars => Thread'
<1> SUFFICES ASSUME Safe, Thread, [Next]_vars PROVE Thread'
  OBVIOUS
<1>1. CASE Fetch
  BY <1>1, FetchThread
<1>2. CASE Exec
  BY <1>2, ExecThread
<1>3. CASE HookStore \/ HookMemcpy \/ HookRestart \/ HookCheckSpecLength \/ HookNewCheckpoint
  BY <1>3, HookThread
<1>4. CASE HookCheckCallDepth
  BY <1>4, CallThread
<1>5. CASE Enter
  BY <1>5, EnterThread
<1>6. CASE IrqRestore \/ UnsetRt \/ SetWord \/ SaveStack \/ InitData \/ InitDone \/ HandleTick
  BY <1>6, LeaveThread
<1>7. CASE NewCheckpoint
  BY <1>7, NewCheckpointThread
<1>8. CASE SaveRegisters
  BY <1>8, SaveRegistersThread
<1>9. CASE Select
  BY <1>9, SelectThread
<1>10. CASE LogWord \/ Memcpy
  BY <1>10, LogThread
<1>11. CASE Restart \/ RestartIrq
  BY <1>11, RestartThread
<1>12. CASE Undo
  BY <1>12, UndoThread
<1>13. CASE Finish
  BY <1>13, FinishThread
<1>14. CASE HookInterruptTimer
  BY <1>14, TimerHookThread
<1>15. CASE Iret
  BY <1>15, IretThread
<1>16. CASE TimerInterrupt
  BY <1>16, TimerThread
<1>17. CASE Nmi \/ NmiInUndo
  <2>1. Exception(RESTART_EXCEPTION, sp) /\ UNCHANGED <<prog, rets, kregs>>
    BY <1>17 DEF Nmi, NmiInUndo, cpuVars, ckptVars
  <2> QED  BY <2>1, ExceptionThread
<1>20. CASE SavePartly
  BY <1>20, PartlyThread
<1>21. CASE UndoInUse \/ NmiBetweenFlags
  BY <1>21, HaltThread DEF Halt
<1>18. CASE Enable
  BY <1>18, EnableThread
<1>19. CASE SetSpecEnabled \/ UNCHANGED vars
  BY <1>19, ThreadStays DEF SetSpecEnabled, vars, mvars, modeVars, countVars, ckptVars, irqVars
<1> QED
  BY <1>1, <1>2, <1>3, <1>4, <1>5, <1>6, <1>7, <1>8, <1>9, <1>10, <1>11, <1>12, <1>13, <1>14,
     <1>15, <1>16, <1>17, <1>18, <1>19, <1>20, <1>21 DEF Next, Cpu, Environment, Done

LEMMA ThreadAlways == Spec => [](Safe /\ Thread)
<1>1. Init => Safe /\ Thread
  BY SafeInit, ThreadInit
<1>2. Safe /\ Thread /\ [Next]_vars => (Safe /\ Thread)'
  BY SafeStep, ThreadNext
<1> QED  BY <1>1, <1>2, PTL DEF Spec

\* The call depth that the hooks and restarts keep is the number of frames
\* above the checkpoint's whenever the program runs in speculation, for every
\* program: kspecem_hook_check_call_depth counts each call once and
\* kspecem_restart each return once, whatever is interrupted or rolled back.
THEOREM DepthAlwaysMatches == Spec => []DepthMatches
<1>1. Safe /\ Thread => DepthMatches
  <2> SUFFICES ASSUME Safe, Thread, in_spec, AtInstruction
               PROVE  spec_depth + (IF prog[pc].op = "entry" THEN 1 ELSE 0) = sp - kregs.sp
    BY DEF DepthMatches
  <2>1. todo = << >> /\ ~handler /\ status = "running" /\ Elems(todo) = {}
    BY Short DEF AtInstruction
  <2>2. Uncounted <=> prog[pc].op = "entry"
    BY <2>1 DEF Uncounted, Has
  <2> QED  BY <2>1, <2>2 DEF Thread, DepthInv, Has
<1> QED  BY <1>1, ThreadAlways, PTL

-----------------------------------------------------------------------------
(* ignore_nmis *)

\* Operations that lead to a stop_nmi of their own.
Opening ==
  {"hook_memcpy", "hook_restart", "hook_check_spec_length", "hook_check_call_depth",
   "hook_new_checkpoint", "enter_memcpy", "enter_restart", "enter_checkpoint", "enter_init"}

\* At most one stop_nmi is under way: its addition, perhaps a checkpoint, and
\* the subtraction of restart_nmi.
NmiPrecedes(x, y) ==
  /\ y.op \in {"add", "new_checkpoint"} => x.op \notin Opening
  /\ y.op = "add" /\ x.op \in {"add", "new_checkpoint"} => y.n = -1
  /\ x.op = "add" /\ y.op \in {"add", "new_checkpoint"} => x.n = 1

NmiOrdered(t) == \A j, k \in DOMAIN t : j < k => NmiPrecedes(t[j], t[k])

Adds(t, n) == \E x \in Elems(t) : x.op = "add" /\ x.n = n

Balanced(t) ==
  /\ NmiOrdered(t)
  /\ \A x \in Elems(t) : x.op = "add" => x.n \in {1, -1}
  /\ Adds(t, 1) \/ Has(t, "new_checkpoint") => Adds(t, -1)

\* ignore_nmis as the code t expects it.
Blocks(t) == IF Adds(t, -1) /\ ~Adds(t, 1) THEN 1 ELSE 0

\* x logs ignore_nmis, or restarts.
Covers(x) ==
  \/ x.op \in {"hook_store", "enter_store"} /\ x.a = 8 * IgnoreNmis
  \/ x.op = "write_wl" /\ x.a = IgnoreNmis
  \/ x.op = "restart" /\ ~IsReturn(x)

\* No change of ignore_nmis without a log entry, in what follows a checkpoint too.
Covered(t) ==
  \A k \in DOMAIN t : t[k].op = "add" => \E j \in 1..(k - 1) : Covers(t[j])

CkptCovered(t) ==
  \A j, k \in DOMAIN t : t[j].op = "new_checkpoint" /\ t[k].op = "add" /\ j < k =>
    \E i \in (j + 1)..(k - 1) : Covers(t[i])

\* ignore_nmis is 1 between stop_nmi and restart_nmi and 0 elsewhere, but in a
\* rollback.
BalanceInv ==
  status = "running" /\ ~(in_spec /\ (handler \/ Has(todo, "finish")))
    /\ ~(handler /\ regs.pc = NoInstr)
  => mem[IgnoreNmis] = Blocks(todo) + (IF handler THEN Blocks(regs.todo) ELSE 0)

NmiCodeInv ==
  /\ Balanced(todo) /\ CkptCovered(todo)
  /\ handler => Balanced(regs.todo)
  /\ handler /\ in_spec =>
       /\ \A x \in Elems(todo) : x.op # "add"
       /\ Op.op \in RollbackOps => regs.pc = NoInstr \/ Blocks(regs.todo) = 1

\* A rollback leaves ignore_nmis as the checkpoint found it, inside stop_nmi.
Unlogged(n) == \A k \in 0..(n - 1) : wl_addrs[k] # IgnoreNmis

NmiLogInv ==
  in_spec => /\ \A k \in 0..(wl_pos - 1) : wl_addrs[k] = IgnoreNmis /\ Unlogged(k) => wl_data[k] = 1
             /\ Unlogged(wl_pos) => mem[IgnoreNmis] = 1

CoverInv ==
  in_spec /\ ~handler /\ ~Has(todo, "finish") /\ Unlogged(wl_pos) => Covered(todo)

\* The frames of a rollback are inside the stack.
InStack(x) == /\ x.op \in {"undo", "hook_interrupt_timer"} => x.a \in 1..(StackSize - 2)
              /\ x.op = "restart_irq" => x.n \in 1..(StackSize - 2)

TopInv == \A x \in Elems(todo) : InStack(x)

NmiInv == BalanceInv /\ NmiCodeInv /\ NmiLogInv /\ CoverInv /\ TopInv
-----------------------------------------------------------------------------
(* Order and cover of pieces of code *)

LEMMA NmiTail ==
  ASSUME NEW S, NEW t \in Seq(S), t # << >>, NmiOrdered(t)
  PROVE  NmiOrdered(Tail(t)) /\ \A y \in Elems(Tail(t)) : NmiPrecedes(Head(t), y)
<1> DEFINE n == Len(t)
           u == Tail(t)
<1>1. /\ Head(t) = t[1] /\ n \in Nat /\ n >= 1 /\ DOMAIN t = 1..n /\ DOMAIN u = 1..(n - 1)
      /\ \A k \in 1..(n - 1) : u[k] = t[k + 1] /\ k + 1 \in 1..n
  BY HeadAndTail
<1> HIDE DEF n, u
<1>2. ASSUME NEW j \in 1..(n - 1), NEW k \in 1..(n - 1), j < k PROVE NmiPrecedes(u[j], u[k])
  <2>1. j + 1 \in DOMAIN t /\ k + 1 \in DOMAIN t /\ j + 1 < k + 1
    BY <1>1, <1>2
  <2>2. NmiPrecedes(t[j + 1], t[k + 1])
    BY <2>1 DEF NmiOrdered
  <2> QED  BY <1>1, <2>2
<1>3. ASSUME NEW k \in 1..(n - 1) PROVE NmiPrecedes(Head(t), u[k])
  <2>1. 1 \in DOMAIN t /\ k + 1 \in DOMAIN t /\ 1 < k + 1
    BY <1>1
  <2>2. NmiPrecedes(t[1], t[k + 1])
    BY <2>1 DEF NmiOrdered
  <2> QED  BY <1>1, <2>2
<1>4. NmiOrdered(u)
  BY <1>1, <1>2 DEF NmiOrdered
<1>5. \A y \in Elems(u) : NmiPrecedes(Head(t), y)
  BY <1>1, <1>3 DEF Elems
<1> QED  BY <1>4, <1>5 DEF u

\* Two pieces of code, one after the other, by their indices.
LEMMA Concat ==
  ASSUME NEW S, NEW s \in Seq(S), NEW t \in Seq(S)
  PROVE  LET m == Len(s)
             n == Len(t)
             c == s \o t
         IN  /\ m \in Nat /\ n \in Nat /\ DOMAIN s = 1..m /\ DOMAIN t = 1..n /\ DOMAIN c = 1..(m + n)
             /\ \A k \in 1..m : c[k] = s[k]
             /\ \A k \in 1..n : c[m + k] = t[k]
             /\ \A k \in 1..(m + n) : k \notin 1..m => k - m \in 1..n /\ c[k] = t[k - m]
<1> DEFINE m == Len(s)
           n == Len(t)
           c == s \o t
<1>1. m \in Nat /\ n \in Nat /\ DOMAIN s = 1..m /\ DOMAIN t = 1..n /\ DOMAIN c = 1..(m + n)
  OBVIOUS
<1>2. \A k \in 1..m : c[k] = s[k]
  OBVIOUS
<1>3. \A k \in 1..n : c[m + k] = t[k]
  OBVIOUS
<1> HIDE DEF m, n, c
<1>4. ASSUME NEW k \in 1..(m + n), k \notin 1..m
      PROVE  k - m \in 1..n /\ c[k] = t[k - m]
  <2>1. k - m \in 1..n /\ m + (k - m) = k
    BY <1>1, <1>4
  <2> QED  BY <1>3, <2>1
<1> QED  BY <1>1, <1>2, <1>3, <1>4 DEF m, n, c

LEMMA NmiConcat ==
  ASSUME NEW S, NEW s \in Seq(S), NEW t \in Seq(S), NmiOrdered(s), NmiOrdered(t),
         \A x \in Elems(s), y \in Elems(t) : NmiPrecedes(x, y)
  PROVE  NmiOrdered(s \o t)
<1> DEFINE m == Len(s)
           n == Len(t)
           c == s \o t
<1>1. /\ m \in Nat /\ n \in Nat /\ DOMAIN s = 1..m /\ DOMAIN t = 1..n /\ DOMAIN c = 1..(m + n)
      /\ \A k \in 1..m : c[k] = s[k]
      /\ \A k \in 1..(m + n) : k \notin 1..m => k - m \in 1..n /\ c[k] = t[k - m]
  BY Concat
<1> HIDE DEF m, n, c
<1>2. ASSUME NEW j \in 1..(m + n), NEW k \in 1..(m + n), j < k PROVE NmiPrecedes(c[j], c[k])
  <2>1. CASE k \in 1..m
    <3>1. j \in 1..m
      BY <1>1, <1>2, <2>1
    <3> QED  BY <1>1, <1>2, <2>1, <3>1 DEF NmiOrdered
  <2>2. CASE k \notin 1..m /\ j \notin 1..m
    <3>1. j - m \in DOMAIN t /\ k - m \in DOMAIN t /\ j - m < k - m
      BY <1>1, <1>2, <2>2
    <3>2. NmiPrecedes(t[j - m], t[k - m])
      BY <3>1 DEF NmiOrdered
    <3> QED  BY <1>1, <2>2, <3>2
  <2>3. CASE k \notin 1..m /\ j \in 1..m
    <3>1. c[j] \in Elems(s) /\ c[k] \in Elems(t)
      BY <1>1, <2>3 DEF Elems
    <3> QED  BY <3>1
  <2> QED  BY <2>1, <2>2, <2>3
<1> QED  BY <1>1, <1>2 DEF NmiOrdered, c

\* What is left is covered when what is done was no cover.
LEMMA CoveredTail ==
  ASSUME NEW S, NEW t \in Seq(S), t # << >>, Covered(t)
  PROVE  Head(t).op # "add" /\ (~Covers(Head(t)) => Covered(Tail(t)))
<1> DEFINE n == Len(t)
           u == Tail(t)
<1>1. /\ Head(t) = t[1] /\ n \in Nat /\ n >= 1 /\ DOMAIN t = 1..n /\ DOMAIN u = 1..(n - 1)
      /\ \A k \in 1..(n - 1) : u[k] = t[k + 1] /\ k + 1 \in 1..n
  BY HeadAndTail
<1> HIDE DEF n, u
<1>2. t[1].op # "add"
  <2>1. 1 \in DOMAIN t /\ 1..(1 - 1) = {}
    BY <1>1
  <2> QED  BY <2>1 DEF Covered
<1>3. ASSUME ~Covers(t[1]), NEW k \in 1..(n - 1), u[k].op = "add"
      PROVE  \E j \in 1..(k - 1) : Covers(u[j])
  <2>1. k + 1 \in DOMAIN t /\ t[k + 1].op = "add"
    BY <1>1, <1>3
  <2>2. PICK j \in 1..((k + 1) - 1) : Covers(t[j])
    BY <2>1 DEF Covered
  <2>3. j # 1
    BY <1>3, <2>2
  <2>4. j - 1 \in 1..(k - 1) /\ j - 1 \in 1..(n - 1) /\ (j - 1) + 1 = j
    BY <1>1, <2>3
  <2>5. u[j - 1] = t[j]
    BY <1>1, <2>4
  <2> QED  BY <2>2, <2>4, <2>5
<1>4. ~Covers(t[1]) => Covered(u)
  BY <1>1, <1>3 DEF Covered
<1> QED  BY <1>1, <1>2, <1>4 DEF u

LEMMA CoveredConcat ==
  ASSUME NEW S, NEW s \in Seq(S), NEW t \in Seq(S), Covered(s),
         Covered(t) \/ \E x \in Elems(s) : Covers(x)
  PROVE  Covered(s \o t)
<1> DEFINE m == Len(s)
           n == Len(t)
           c == s \o t
<1>1. /\ m \in Nat /\ n \in Nat /\ DOMAIN s = 1..m /\ DOMAIN t = 1..n /\ DOMAIN c = 1..(m + n)
      /\ \A k \in 1..m : c[k] = s[k]
      /\ \A k \in 1..n : c[m + k] = t[k]
      /\ \A k \in 1..(m + n) : k \notin 1..m => k - m \in 1..n /\ c[k] = t[k - m]
  BY Concat
<1> HIDE DEF m, n, c
<1>2. ASSUME NEW k \in 1..(m + n), c[k].op = "add" PROVE \E j \in 1..(k - 1) : Covers(c[j])
  <2>1. CASE k \in 1..m
    <3>1. k \in DOMAIN s /\ s[k].op = "add"
      BY <1>1, <1>2, <2>1
    <3>2. PICK j \in 1..(k - 1) : Covers(s[j])
      BY <3>1 DEF Covered
    <3>3. j \in 1..m
      BY <1>1, <2>1
    <3> QED  BY <1>1, <3>2, <3>3
  <2>2. CASE k \notin 1..m /\ \E x \in Elems(s) : Covers(x)
    <3>1. PICK j \in 1..m : Covers(s[j])
      BY <1>1, <2>2 DEF Elems
    <3>2. j \in 1..(k - 1)
      BY <1>1, <2>2
    <3> QED  BY <1>1, <3>1, <3>2
  <2>3. CASE k \notin 1..m /\ Covered(t)
    <3>1. k - m \in DOMAIN t /\ t[k - m].op = "add"
      BY <1>1, <1>2, <2>3
    <3>2. PICK j \in 1..((k - m) - 1) : Covers(t[j])
      BY <2>3, <3>1 DEF Covered
    <3>3. m + j \in 1..(k - 1) /\ j \in 1..n
      BY <1>1, <3>1
    <3>4. c[m + j] = t[j]
      BY <1>1, <3>3
    <3> QED  BY <3>2, <3>3, <3>4
  <2> QED  BY <2>1, <2>2, <2>3
<1> QED  BY <1>1, <1>2 DEF Covered, c

\* The same behind a checkpoint.
LEMMA CkptTail ==
  ASSUME NEW S, NEW t \in Seq(S), t # << >>, CkptCovered(t)
  PROVE  CkptCovered(Tail(t)) /\ (Head(t).op = "new_checkpoint" => Covered(Tail(t)))
<1> DEFINE n == Len(t)
           u == Tail(t)
<1>1. /\ Head(t) = t[1] /\ n \in Nat /\ n >= 1 /\ DOMAIN t = 1..n /\ DOMAIN u = 1..(n - 1)
      /\ \A k \in 1..(n - 1) : u[k] = t[k + 1] /\ k + 1 \in 1..n
  BY HeadAndTail
<1> HIDE DEF n, u
<1>2. ASSUME NEW j \in 0..(n - 1), NEW k \in 1..(n - 1), j < k, t[j + 1].op = "new_checkpoint",
             u[k].op = "add"
      PROVE  \E i \in (j + 1)..(k - 1) : Covers(u[i])
  <2>1. j + 1 \in DOMAIN t /\ k + 1 \in DOMAIN t /\ j + 1 < k + 1 /\ t[k + 1].op = "add"
    BY <1>1, <1>2
  <2>2. PICK i \in ((j + 1) + 1)..((k + 1) - 1) : Covers(t[i])
    BY <1>2, <2>1 DEF CkptCovered
  <2>3. i - 1 \in (j + 1)..(k - 1) /\ i - 1 \in 1..(n - 1) /\ (i - 1) + 1 = i
    BY <1>1, <2>1
  <2>4. u[i - 1] = t[i]
    BY <1>1, <2>3
  <2> QED  BY <2>2, <2>3, <2>4
<1>3. CkptCovered(u)
  <2> SUFFICES ASSUME NEW j \in 1..(n - 1), NEW k \in 1..(n - 1), u[j].op = "new_checkpoint",
                      u[k].op = "add", j < k
               PROVE  \E i \in (j + 1)..(k - 1) : Covers(u[i])
    BY <1>1 DEF CkptCovered
  <2>1. j \in 0..(n - 1) /\ t[j + 1].op = "new_checkpoint"
    BY <1>1
  <2> QED  BY <1>2, <2>1
<1>4. ASSUME t[1].op = "new_checkpoint" PROVE Covered(u)
  <2> SUFFICES ASSUME NEW k \in 1..(n - 1), u[k].op = "add"
               PROVE  \E i \in 1..(k - 1) : Covers(u[i])
    BY <1>1 DEF Covered
  <2>1. 0 \in 0..(n - 1) /\ 0 < k /\ 0 + 1 = 1
    BY <1>1
  <2>2. \E i \in (0 + 1)..(k - 1) : Covers(u[i])
    BY <1>2, <1>4, <2>1
  <2> QED  BY <2>2
<1> QED  BY <1>1, <1>3, <1>4 DEF u

LEMMA CkptConcat ==
  ASSUME NEW S, NEW s \in Seq(S), NEW t \in Seq(S), CkptCovered(s), CkptCovered(t),
         Covered(t) \/ \A x \in Elems(s) : x.op # "new_checkpoint"
  PROVE  CkptCovered(s \o t)
<1> DEFINE m == Len(s)
           n == Len(t)
           c == s \o t
<1>1. /\ m \in Nat /\ n \in Nat /\ DOMAIN s = 1..m /\ DOMAIN t = 1..n /\ DOMAIN c = 1..(m + n)
      /\ \A k \in 1..m : c[k] = s[k]
      /\ \A k \in 1..n : c[m + k] = t[k]
      /\ \A k \in 1..(m + n) : k \notin 1..m => k - m \in 1..n /\ c[k] = t[k - m]
  BY Concat
<1> HIDE DEF m, n, c
<1> SUFFICES ASSUME NEW j \in 1..(m + n), NEW k \in 1..(m + n), c[j].op = "new_checkpoint",
                    c[k].op = "add", j < k
             PROVE  \E i \in (j + 1)..(k - 1) : Covers(c[i])
  BY <1>1 DEF CkptCovered, c
<1>2. CASE j \notin 1..m
  <2>1. /\ j - m \in DOMAIN t /\ k - m \in DOMAIN t /\ j - m < k - m
        /\ t[j - m].op = "new_checkpoint" /\ t[k - m].op = "add"
    <3>1. k \notin 1..m
      BY <1>1, <1>2
    <3> QED  BY <1>1, <1>2, <3>1
  <2>2. PICK i \in ((j - m) + 1)..((k - m) - 1) : Covers(t[i])
    BY <2>1 DEF CkptCovered
  <2>3. m + i \in (j + 1)..(k - 1) /\ i \in 1..n
    BY <1>1, <2>1
  <2>4. c[m + i] = t[i]
    BY <1>1, <2>3
  <2> QED  BY <2>2, <2>3, <2>4
<1>3. CASE j \in 1..m /\ k \notin 1..m
  <2>1. k - m \in DOMAIN t /\ t[k - m].op = "add"
    BY <1>1, <1>3
  <2>5. Covered(t)
    BY <1>1, <1>3 DEF Elems
  <2>2. PICK i \in 1..((k - m) - 1) : Covers(t[i])
    BY <2>1, <2>5 DEF Covered
  <2>3. m + i \in (j + 1)..(k - 1) /\ i \in 1..n
    BY <1>1, <1>3, <2>1
  <2>4. c[m + i] = t[i]
    BY <1>1, <2>3
  <2> QED  BY <2>2, <2>3, <2>4
<1>4. CASE j \in 1..m /\ k \in 1..m
  <2>1. j \in DOMAIN s /\ k \in DOMAIN s /\ s[j].op = "new_checkpoint" /\ s[k].op = "add"
    BY <1>1, <1>4
  <2>2. PICK i \in (j + 1)..(k - 1) : Covers(s[i])
    BY <2>1 DEF CkptCovered
  <2>3. i \in 1..m
    BY <1>1, <1>4
  <2> QED  BY <1>1, <2>2, <2>3
<1> QED  BY <1>2, <1>3, <1>4

-----------------------------------------------------------------------------
(* ignore_nmis in the code of the hooks *)

\* A piece of code in which ignore_nmis changes in order and under cover.
NmiPiece(t) ==
  /\ t \in Seq(MicroOp) /\ NmiOrdered(t) /\ Covered(t) /\ CkptCovered(t)
  /\ \A x \in Elems(t) : x.op = "add" => x.n \in {1, -1}

NmiFits(s, t) == \A x \in Elems(s), y \in Elems(t) : NmiPrecedes(x, y)

LEMMA NmiJoin ==
  ASSUME NEW s, NEW t, NmiPiece(s), NmiPiece(t), NmiFits(s, t)
  PROVE  NmiPiece(s \o t) /\ Elems(s \o t) = Elems(s) \cup Elems(t)
<1>1. /\ s \in Seq(MicroOp) /\ t \in Seq(MicroOp) /\ NmiOrdered(s) /\ NmiOrdered(t)
      /\ Covered(s) /\ Covered(t) /\ CkptCovered(s) /\ CkptCovered(t)
  BY DEF NmiPiece
<1>2. Elems(s \o t) = Elems(s) \cup Elems(t) /\ s \o t \in Seq(MicroOp)
  BY <1>1, ElemsConcat, SeqConcat
<1>3. NmiOrdered(s \o t)
  BY <1>1, NmiConcat DEF NmiFits
<1>4. Covered(s \o t)
  BY <1>1, CoveredConcat
<1>5. CkptCovered(s \o t)
  BY <1>1, CkptConcat
<1> QED  BY <1>2, <1>3, <1>4, <1>5 DEF NmiPiece

\* Code that leaves ignore_nmis alone.
LEMMA NmiFree ==
  ASSUME NEW t \in Seq(MicroOp), \A x \in Elems(t) : x.op \notin {"add", "new_checkpoint"}
  PROVE  NmiPiece(t) /\ Balanced(t) /\ \A s : NmiFits(s, t)
<1>1. \A k \in DOMAIN t : t[k].op \notin {"add", "new_checkpoint"}
  BY DEF Elems
<1>2. NmiOrdered(t) /\ Covered(t) /\ CkptCovered(t)
  BY <1>1 DEF NmiOrdered, NmiPrecedes, Covered, CkptCovered
<1>3. \A s : NmiFits(s, t)
  BY DEF NmiFits, NmiPrecedes
<1> QED  BY <1>2, <1>3 DEF NmiPiece, Balanced, Adds, Has

\* What ignore_nmis++ and ignore_nmis-- are made of.
LEMMA NmiPieces ==
  /\ NmiPiece(stop_nmi) /\ NmiPiece(restart_nmi) /\ Adds(stop_nmi, 1) /\ Adds(restart_nmi, -1)
  /\ \A x \in Elems(stop_nmi) : x.op \in {"hook_store", "add"} /\ (x.op = "add" => x.n = 1)
  /\ \A x \in Elems(restart_nmi) : x.op \in NmiOps /\ (x.op = "add" => x.n = -1)
<1> DEFINE h == U("hook_store", 8 * IgnoreNmis, 0)
           a == U("add", IgnoreNmis, 1)
           b == U("add", IgnoreNmis, -1)
           l == U("hook_check_spec_length", RestartNmiInsts, 0)
<1>1. /\ h.op = "hook_store" /\ h.a = 8 * IgnoreNmis /\ a.op = "add" /\ a.n = 1
      /\ b.op = "add" /\ b.n = -1 /\ l.op = "hook_check_spec_length"
  BY DEF U
<1>2. stop_nmi = <<h, a>> /\ restart_nmi = <<h, b, l>>
  BY DEF stop_nmi, restart_nmi
<1>3. stop_nmi \in Seq(MicroOp) /\ restart_nmi \in Seq(MicroOp)
  BY NmiType
<1> HIDE DEF h, a, b, l
<1>4. Covers(h)
  BY <1>1 DEF Covers
<1>5. /\ NmiPrecedes(h, a) /\ NmiPrecedes(h, b) /\ NmiPrecedes(h, l) /\ NmiPrecedes(b, l)
  BY <1>1 DEF NmiPrecedes, Opening
<1>6. NmiPiece(stop_nmi) /\ Elems(stop_nmi) = {h, a}
  <2> DEFINE t == <<h, a>>
  <2>1. DOMAIN t = {1, 2} /\ t[1] = h /\ t[2] = a /\ Elems(t) = {h, a}
    BY Short
  <2> HIDE DEF t
  <2>2. NmiOrdered(t)
    BY <1>5, <2>1 DEF NmiOrdered
  <2>3. Covered(t)
    <3>1. 1 \in 1..(2 - 1)
      OBVIOUS
    <3> QED  BY <1>1, <1>4, <2>1, <3>1 DEF Covered
  <2>4. CkptCovered(t)
    BY <1>1, <2>1 DEF CkptCovered
  <2>5. t = stop_nmi
    BY <1>2 DEF t
  <2> QED  BY <1>1, <1>3, <2>1, <2>2, <2>3, <2>4, <2>5 DEF NmiPiece
<1>7. NmiPiece(restart_nmi) /\ Elems(restart_nmi) = {h, b, l}
  <2> DEFINE t == <<h, b, l>>
  <2>1. DOMAIN t = {1, 2, 3} /\ t[1] = h /\ t[2] = b /\ t[3] = l /\ Elems(t) = {h, b, l}
    BY Short
  <2> HIDE DEF t
  <2>2. NmiOrdered(t)
    BY <1>5, <2>1 DEF NmiOrdered
  <2>3. Covered(t)
    <3>1. 1 \in 1..(2 - 1)
      OBVIOUS
    <3> QED  BY <1>1, <1>4, <2>1, <3>1 DEF Covered
  <2>4. CkptCovered(t)
    BY <1>1, <2>1 DEF CkptCovered
  <2>5. t = restart_nmi
    BY <1>2 DEF t
  <2> QED  BY <1>1, <1>3, <2>1, <2>2, <2>3, <2>4, <2>5 DEF NmiPiece
<1> QED  BY <1>1, <1>6, <1>7 DEF Adds, NmiOps

\* Code that ends with a restart_nmi, and what it is made of.
Restoring(t, O) ==
  /\ NmiPiece(t) /\ Adds(t, -1)
  /\ \A x \in Elems(t) : x.op \in O /\ (x.op = "add" => x.n = -1)

LEMMA LeaveNmi ==
  ASSUME NEW f \in BOOLEAN
  PROVE  Restoring(LEAVE_KSPECEM_RT(f), LeaveOps)
<1> DEFINE n == LEAVE_KSPECEM_NONMI_RT(f)
<1>1. n \in Seq(MicroOp) /\ \A x \in Elems(n) : x.op \in {"irq_restore", "unset_rt"}
  BY LeaveCode DEF Made, Sound
<1>2. LEAVE_KSPECEM_RT(f) = restart_nmi \o n
  BY DEF LEAVE_KSPECEM_RT
<1> HIDE DEF n
<1>3. NmiPiece(n) /\ NmiFits(restart_nmi, n)
  BY <1>1, NmiFree
<1>4. NmiPiece(restart_nmi \o n) /\ Elems(restart_nmi \o n) = Elems(restart_nmi) \cup Elems(n)
  BY <1>3, NmiPieces, NmiJoin
<1> QED  BY <1>1, <1>2, <1>4, NmiPieces DEF Restoring, Adds, LeaveOps

\* More code that leaves ignore_nmis alone.
LEMMA RestoringThen ==
  ASSUME NEW s, NEW t \in Seq(MicroOp), NEW O, NEW P, Restoring(s, O), Made(t, P),
         \A p \in P : p \notin {"add", "new_checkpoint"}
  PROVE  Restoring(s \o t, O \cup P)
<1>1. \A x \in Elems(t) : x.op \in P /\ x.op \notin {"add", "new_checkpoint"}
  BY DEF Made
<1>2. NmiPiece(t) /\ NmiFits(s, t)
  BY <1>1, NmiFree
<1>3. NmiPiece(s \o t) /\ Elems(s \o t) = Elems(s) \cup Elems(t)
  BY <1>2, NmiJoin DEF Restoring
<1> QED  BY <1>1, <1>3 DEF Restoring, Adds

LEMMA AfterNmi ==
  ASSUME NEW i \in Instr, NEW f \in BOOLEAN
  PROVE  Restoring(AfterSaveRegisters(i, f), AfterOps)
<1> DEFINE r == LEAVE_KSPECEM_RT(f)
           b == SwapBranch
           l == LengthHook(i, LengthAfterSpec)
           B == {"select", "hook_store", "set"}
           L == {"hook_check_spec_length"}
<1>1. Restoring(r, LeaveOps) /\ Made(b, B) /\ Made(l, L)
  BY LeaveNmi, SwapCode, LengthCode, SpecEmAssumption
<1>2. AfterSaveRegisters(i, f) = (r \o b) \o l
  BY DEF AfterSaveRegisters
<1>3. /\ \A p \in B : p \notin {"add", "new_checkpoint"}
      /\ \A p \in L : p \notin {"add", "new_checkpoint"}
      /\ (LeaveOps \cup B) \cup L = AfterOps
  BY DEF AfterOps, LeaveOps, NmiOps
<1> HIDE DEF r, b, l, B, L
<1>4. b \in Seq(MicroOp) /\ l \in Seq(MicroOp)
  BY <1>1 DEF Made, Sound
<1>5. Restoring(r \o b, LeaveOps \cup B)
  BY <1>1, <1>3, <1>4, RestoringThen
<1>6. Restoring((r \o b) \o l, (LeaveOps \cup B) \cup L)
  BY <1>1, <1>3, <1>4, <1>5, RestoringThen
<1> QED  BY <1>2, <1>3, <1>6

\* The whole of a stop_nmi: what is between, and restart_nmi.
Stopping(t) == NmiPiece(t) /\ Balanced(t) /\ Adds(t, 1) /\ Adds(t, -1)

LEMMA StoppingCode ==
  ASSUME NEW k, NEW r, NEW O, NmiPiece(k), NmiFits(stop_nmi, k), Restoring(r, O),
         \A x \in Elems(k) : x.op \notin Opening \cup {"add"}
  PROVE  Stopping((stop_nmi \o k) \o r)
<1> DEFINE s == stop_nmi \o k
<1>1. NmiPiece(s) /\ Elems(s) = Elems(stop_nmi) \cup Elems(k)
  BY NmiPieces, NmiJoin
<1>2. \A x \in Elems(s) : x.op \notin Opening /\ (x.op = "add" => x.n = 1)
  BY <1>1, NmiPieces DEF Opening
<1> HIDE DEF s
<1>3. NmiFits(s, r)
  <2>1. ASSUME NEW x \in Elems(s), NEW y \in Elems(r) PROVE NmiPrecedes(x, y)
    BY <1>2 DEF Restoring, NmiPrecedes
  <2> QED  BY <2>1 DEF NmiFits
<1>4. NmiPiece(s \o r) /\ Elems(s \o r) = Elems(s) \cup Elems(r)
  BY <1>1, <1>3, NmiJoin DEF Restoring
<1>5. Adds(s \o r, 1) /\ Adds(s \o r, -1)
  BY <1>1, <1>4, NmiPieces DEF Restoring, Adds
<1> QED  BY <1>4, <1>5 DEF Stopping, Balanced, NmiPiece, s

LEMMA StoppingThen ==
  ASSUME NEW s, NEW t \in Seq(MicroOp), Stopping(s), \A x \in Elems(t) : x.op \notin {"add", "new_checkpoint"}
  PROVE  Stopping(s \o t)
<1>1. NmiPiece(t) /\ NmiFits(s, t)
  BY NmiFree
<1>2. NmiPiece(s \o t) /\ Elems(s \o t) = Elems(s) \cup Elems(t)
  BY <1>1, NmiJoin DEF Stopping
<1> QED  BY <1>2 DEF Stopping, Balanced, NmiPiece, Adds

LEMMA OneStopped ==
  ASSUME NEW f \in BOOLEAN, NEW x \in MicroOp, x.op \in {"memcpy", "restart", "init_data"}
  PROVE  Stopping((stop_nmi \o <<x>>) \o LEAVE_KSPECEM_RT(f))
<1> DEFINE k == <<x>>
<1>1. k \in Seq(MicroOp) /\ Elems(k) = {x}
  BY Seq1, Short
<1> HIDE DEF k
<1>2. NmiPiece(k) /\ NmiFits(stop_nmi, k)
  BY <1>1, NmiFree
<1>3. \A y \in Elems(k) : y.op \notin Opening \cup {"add"}
  BY <1>1 DEF Opening
<1>4. Stopping((stop_nmi \o k) \o LEAVE_KSPECEM_RT(f))
  BY <1>2, <1>3, LeaveNmi, StoppingCode
<1> QED  BY <1>4 DEF k

\* Whatever enters the runtime through stop_nmi leaves it through restart_nmi; a
\* store to ignore_nmis is logged.
LEMMA RuntimeNmi ==
  ASSUME NEW o \in MicroOp, o.op \in EnterOps, NEW f \in BOOLEAN, prog[pc] \in Instr
  PROVE  /\ o.op # "enter_store" => Stopping(Runtime(o, f))
         /\ o.op = "enter_store" /\ Covers(o) => \E x \in Elems(Runtime(o, f)) : Covers(x)
<1>1. o.a \in Int /\ o.n \in Int /\ o.a - (o.a % 4) \in Int /\ o.a + o.n \in Int
  BY DEF MicroOp
<1>2. CASE o.op = "enter_memcpy"
  <2> DEFINE x == U("memcpy", o.a - (o.a % 4), o.a + o.n)
  <2>1. x \in MicroOp /\ x.op = "memcpy"
    BY <1>1 DEF U, MicroOp, OpNames
  <2>2. Runtime(o, f) = (stop_nmi \o <<x>>) \o LEAVE_KSPECEM_RT(f)
    BY <1>2 DEF Runtime
  <2> HIDE DEF x
  <2> QED  BY <1>2, <2>1, <2>2, OneStopped
<1>3. CASE o.op = "enter_restart"
  <2> DEFINE x == U("restart", o.a, 0)
  <2>1. x \in MicroOp /\ x.op = "restart"
    BY <1>1 DEF U, MicroOp, OpNames
  <2>2. Runtime(o, f) = (stop_nmi \o <<x>>) \o LEAVE_KSPECEM_RT(f)
    BY <1>3 DEF Runtime
  <2> HIDE DEF x
  <2> QED  BY <1>3, <2>1, <2>2, OneStopped
<1>4. CASE o.op = "enter_init"
  <2> DEFINE x == U("init_data", 0, 0)
             d == <<U("init_done", 0, 0)>>
             s == (stop_nmi \o <<x>>) \o LEAVE_KSPECEM_RT(f)
  <2>1. x \in MicroOp /\ x.op = "init_data" /\ U("init_done", 0, 0) \in MicroOp
    BY DEF U, MicroOp, OpNames
  <2>2. Runtime(o, f) = s \o d
    BY <1>4 DEF Runtime
  <2>3. Elems(d) = {U("init_done", 0, 0)} /\ d \in Seq(MicroOp)
    BY <2>1, Short, Seq1
  <2>4. \A y \in Elems(d) : y.op \notin {"add", "new_checkpoint"}
    BY <2>3 DEF U
  <2> HIDE DEF x, d
  <2>5. Stopping(s)
    BY <2>1, OneStopped
  <2> HIDE DEF s
  <2>6. Stopping(s \o d)
    BY <2>3, <2>4, <2>5, StoppingThen
  <2> QED  BY <1>4, <2>2, <2>6
<1>5. CASE o.op = "enter_checkpoint"
  <2> DEFINE n == U("new_checkpoint", 0, 0)
             s == U("save_stack", 0, 0)
             g == U("save_registers", Flag(f), 0)
             k == <<n, s, g>>
             a == AfterSaveRegisters(prog[pc], f)
  <2>1. /\ n \in MicroOp /\ s \in MicroOp /\ g \in MicroOp
        /\ n.op = "new_checkpoint" /\ s.op = "save_stack" /\ g.op = "save_registers"
    BY DEF U, MicroOp, OpNames, Flag
  <2>2. Runtime(o, f) = (stop_nmi \o k) \o a
    BY <1>5 DEF Runtime
  <2>3. Restoring(a, AfterOps)
    BY AfterNmi
  <2> HIDE DEF n, s, g, a
  <2>4. k \in Seq(MicroOp) /\ Elems(k) = {n, s, g} /\ DOMAIN k = {1, 2, 3} /\ k[1] = n /\ k[2] = s /\ k[3] = g
    BY <2>1, Seq3, Short
  <2> HIDE DEF k
  <2>5. NmiPiece(k)
    <3>1. NmiPrecedes(n, s) /\ NmiPrecedes(n, g) /\ NmiPrecedes(s, g)
      BY <2>1 DEF NmiPrecedes
    <3>2. NmiOrdered(k)
      BY <2>4, <3>1 DEF NmiOrdered
    <3> QED  BY <2>1, <2>4, <3>2 DEF NmiPiece, Covered, CkptCovered
  <2>6. NmiFits(stop_nmi, k) /\ \A x \in Elems(k) : x.op \notin Opening \cup {"add"}
    BY <2>1, <2>4, NmiPieces DEF NmiFits, NmiPrecedes, Opening
  <2>7. Stopping((stop_nmi \o k) \o a)
    BY <2>3, <2>5, <2>6, StoppingCode
  <2> QED  BY <1>5, <2>2, <2>7
<1>6. CASE o.op = "enter_store"
  <2> SUFFICES ASSUME Covers(o) PROVE \E x \in Elems(Runtime(o, f)) : Covers(x)
    BY <1>6
  <2> DEFINE w == WriteWl(o.a)
             n == LEAVE_KSPECEM_NONMI_RT(f)
             x == U("write_wl", o.a \div 8, 0)
  <2>1. o.a = 8 * IgnoreNmis
    BY <1>6 DEF Covers
  <2>2. Covers(x)
    <3>1. o.a \div 8 = IgnoreNmis
      BY <2>1 DEF IgnoreNmis
    <3> QED  BY <3>1 DEF Covers, U
  <2>3. Runtime(o, f) = w \o n
    BY <1>6 DEF Runtime
  <2>4. w \in Seq(MicroOp) /\ n \in Seq(MicroOp) /\ x \in Elems(w)
    BY <1>1, WriteWlCode, LeaveCode DEF Made, Sound
  <2> HIDE DEF w, n, x
  <2>5. x \in Elems(w \o n)
    BY <2>4, ElemsConcat
  <2> QED  BY <2>2, <2>3, <2>5
<1> QED  BY <1>2, <1>3, <1>4, <1>5, <1>6 DEF EnterOps

\* The code behind a checkpoint gives NMIs back.
LEMMA ResumeNmi ==
  ASSUME TypeOK
  PROVE  /\ Balanced(ResumeOps) /\ CkptCovered(ResumeOps)
         /\ kregs.pc # NoInstr => Blocks(ResumeOps) = 1
<1>1. CASE kregs.pc = NoInstr
  <2>1. ResumeOps = << >> /\ Elems(<< >>) = {}
    BY <1>1, Short DEF ResumeOps
  <2> QED  BY <1>1, <2>1 DEF Balanced, NmiOrdered, CkptCovered, Adds, Has
<1>2. CASE kregs.pc # NoInstr
  <2>1. kregs.pc \in DOMAIN prog /\ prog \in Programs /\ kregs.flags \in BOOLEAN
    BY <1>2 DEF TypeOK, CkptType, SavedPc, MachineType
  <2>2. prog[kregs.pc] \in Instr
    BY <2>1, ProgramFacts
  <2>3. Restoring(ResumeOps, AfterOps)
    BY <1>2, <2>1, <2>2, AfterNmi DEF ResumeOps
  <2>4. ~Adds(ResumeOps, 1) /\ Adds(ResumeOps, -1)
    BY <2>3 DEF Restoring, Adds
  <2> QED  BY <2>3, <2>4 DEF Restoring, NmiPiece, Balanced, Blocks
<1> QED  BY <1>1, <1>2

-----------------------------------------------------------------------------
(* Steps, and ignore_nmis *)

LEMMA NmiFacts ==
  ASSUME Safe, NmiInv, todo # << >>
  PROVE  /\ TypeOK /\ TodoInv /\ Op \in MicroOp /\ Rest \in Seq(MicroOp)
         /\ Elems(todo) = {Op} \cup Elems(Rest)
         /\ NmiOrdered(Rest) /\ CkptCovered(Rest) /\ (Op.op = "new_checkpoint" => Covered(Rest))
         /\ \A y \in Elems(Rest) : NmiPrecedes(Op, y)
         /\ Covered(todo) => Op.op # "add" /\ (~Covers(Op) => Covered(Rest))
<1>1. TypeOK /\ TodoInv /\ NmiOrdered(todo) /\ CkptCovered(todo)
  BY DEF Safe, NmiInv, NmiCodeInv, Balanced
<1>2. Op \in MicroOp /\ Rest \in Seq(MicroOp) /\ Elems(todo) = {Op} \cup Elems(Rest)
  BY <1>1, TodoFacts
<1>3. todo \in Seq(MicroOp)
  BY <1>1 DEF TypeOK, TodoType
<1>4. NmiOrdered(Rest) /\ \A y \in Elems(Rest) : NmiPrecedes(Op, y)
  BY <1>1, <1>3, NmiTail DEF Rest, Op
<1>5. CkptCovered(Rest) /\ (Op.op = "new_checkpoint" => Covered(Rest))
  BY <1>1, <1>3, CkptTail DEF Rest, Op
<1>6. Covered(todo) => Op.op # "add" /\ (~Covers(Op) => Covered(Rest))
  BY <1>3, CoveredTail DEF Rest, Op
<1> QED  BY <1>1, <1>2, <1>4, <1>5, <1>6

\* The operations s take the place of one that does not change ignore_nmis.
LEMMA NmiContinue ==
  ASSUME Safe, NmiInv, todo # << >>, ~(in_spec /\ handler), Op.op \notin {"add", "new_checkpoint", "finish"},
         NEW s, NmiPiece(s), Continue(s),
         \A x \in Elems(s) : x.op \notin FirstOps,
         IF Op.op \in Opening
           THEN Stopping(s) \/ \A x \in Elems(s) : x.op \notin {"add", "new_checkpoint"}
           ELSE \A x \in Elems(s) : x.op \notin Opening \cup {"add", "new_checkpoint"},
         status' = "running" => status = "running", UNCHANGED <<handler, regs, in_spec>>,
         mem'[IgnoreNmis] = mem[IgnoreNmis]
  PROVE  /\ BalanceInv' /\ NmiCodeInv' /\ TopInv'
         /\ Covered(todo) /\ (Covers(Op) => \E x \in Elems(s) : Covers(x)) => Covered(todo')
<1>1. /\ TypeOK /\ TodoInv /\ Rest \in Seq(MicroOp) /\ Elems(todo) = {Op} \cup Elems(Rest)
      /\ NmiOrdered(Rest) /\ CkptCovered(Rest)
      /\ \A y \in Elems(Rest) : NmiPrecedes(Op, y)
      /\ Covered(todo) => Op.op # "add" /\ (~Covers(Op) => Covered(Rest))
  BY NmiFacts
<1>2. /\ s \in Seq(MicroOp) /\ NmiOrdered(s) /\ Covered(s) /\ CkptCovered(s)
      /\ \A x \in Elems(s) : x.op = "add" => x.n \in {1, -1}
  BY DEF NmiPiece
<1>3. todo' = s \o Rest /\ Elems(todo') = Elems(s) \cup Elems(Rest)
  <2>1. todo' = s \o Rest
    BY DEF Continue, Rest
  <2> QED  BY <1>1, <1>2, <2>1, ElemsConcat
<1>4. Op.op \in Opening => \A y \in Elems(Rest) : y.op \notin {"add", "new_checkpoint"}
  BY <1>1 DEF NmiPrecedes
<1>5. NmiOrdered(todo')
  <2>1. ASSUME NEW x \in Elems(s), NEW y \in Elems(Rest) PROVE NmiPrecedes(x, y)
    BY <1>4 DEF NmiPrecedes
  <2> QED  BY <1>1, <1>2, <1>3, <2>1, NmiConcat
<1>6. CkptCovered(todo')
  <2>1. Covered(Rest) \/ \A x \in Elems(s) : x.op # "new_checkpoint"
    <3>1. CASE Op.op \in Opening
      <4>1. \A k \in DOMAIN Rest : Rest[k].op # "add"
        BY <1>4, <3>1 DEF Elems
      <4> QED  BY <4>1 DEF Covered
    <3> QED  BY <3>1
  <2> QED  BY <1>1, <1>2, <1>3, <2>1, CkptConcat
<1>7. Balanced(todo) /\ (handler => Balanced(regs.todo))
  BY DEF NmiInv, NmiCodeInv
<1>8. (\A x \in Elems(s) : x.op \notin {"add", "new_checkpoint"}) \/ (Op.op \in Opening /\ Stopping(s))
  OBVIOUS
<1>9. Balanced(todo') /\ Blocks(todo') = Blocks(todo)
  <2>1. CASE \A x \in Elems(s) : x.op \notin {"add", "new_checkpoint"}
    <3>1. \A n : Adds(todo', n) <=> Adds(todo, n)
      BY <1>1, <1>3, <2>1 DEF Adds
    <3>2. Has(todo', "new_checkpoint") <=> Has(todo, "new_checkpoint")
      BY <1>1, <1>3, <2>1 DEF Has
    <3>3. \A x \in Elems(todo') : x.op = "add" => x.n \in {1, -1}
      BY <1>1, <1>2, <1>3, <1>7 DEF Balanced
    <3> QED  BY <1>5, <1>7, <3>1, <3>2, <3>3 DEF Balanced, Blocks
  <2>2. CASE Op.op \in Opening /\ Stopping(s)
    <3>1. Adds(todo', 1) /\ Adds(todo', -1)
      BY <1>3, <2>2 DEF Stopping, Adds
    <3>2. ~Adds(todo, -1)
      BY <1>1, <1>4, <2>2 DEF Adds
    <3>3. \A x \in Elems(todo') : x.op = "add" => x.n \in {1, -1}
      BY <1>1, <1>2, <1>3, <1>7 DEF Balanced
    <3> QED  BY <1>5, <3>1, <3>2, <3>3 DEF Balanced, Blocks
  <2> QED  BY <1>8, <2>1, <2>2
<1>10. BalanceInv'
  <2>1. Has(todo, "finish") => Has(todo', "finish")
    BY <1>1, <1>3 DEF Has
  <2>2. BalanceInv
    BY DEF NmiInv
  <2> QED  BY <1>9, <2>1, <2>2 DEF BalanceInv, Blocks, Adds
<1>11. NmiCodeInv'
  <2> QED  BY <1>6, <1>7, <1>9 DEF NmiCodeInv
<1>12. TopInv'
  BY <1>1, <1>3 DEF NmiInv, TopInv, InStack, FirstOps
<1>13. ASSUME Covered(todo), Covers(Op) => \E x \in Elems(s) : Covers(x) PROVE Covered(todo')
  <2>1. Covered(Rest) \/ \E x \in Elems(s) : Covers(x)
    BY <1>1, <1>13
  <2> QED  BY <1>1, <1>2, <1>3, <2>1, CoveredConcat
<1> QED  BY <1>10, <1>11, <1>12, <1>13

\* The same when nothing is logged.
LEMMA NmiStep ==
  ASSUME Safe, NmiInv, todo # << >>, ~(in_spec /\ handler), Op.op \notin {"add", "new_checkpoint", "finish"},
         NEW s, NmiPiece(s), Continue(s),
         \A x \in Elems(s) : x.op \notin FirstOps,
         IF Op.op \in Opening
           THEN Stopping(s) \/ \A x \in Elems(s) : x.op \notin {"add", "new_checkpoint"}
           ELSE \A x \in Elems(s) : x.op \notin Opening \cup {"add", "new_checkpoint"},
         in_spec /\ Covers(Op) => \E x \in Elems(s) : Covers(x),
         status' = "running" => status = "running", UNCHANGED <<handler, regs, in_spec, logVars>>,
         mem'[IgnoreNmis] = mem[IgnoreNmis]
  PROVE  NmiInv'
<1>1. /\ BalanceInv' /\ NmiCodeInv' /\ TopInv'
      /\ Covered(todo) /\ (Covers(Op) => \E x \in Elems(s) : Covers(x)) => Covered(todo')
  BY NmiContinue
<1>2. wl_addrs' = wl_addrs /\ wl_data' = wl_data /\ wl_pos' = wl_pos /\ (in_spec' => in_spec) /\ (~handler' => ~handler)
  BY DEF logVars
<1>3. \A n : Unlogged(n)' <=> Unlogged(n)
  BY <1>2 DEF Unlogged
<1>4. NmiLogInv'
  BY <1>2, <1>3 DEF NmiInv, NmiLogInv, Unlogged
<1>5. CoverInv'
  <2>1. Has(todo, "finish") => Has(todo', "finish")
    <3>1. Rest \in Seq(MicroOp) /\ s \in Seq(MicroOp) /\ Elems(todo) = {Op} \cup Elems(Rest)
      BY NmiFacts DEF NmiPiece
    <3>2. todo' = s \o Rest
      BY DEF Continue, Rest
    <3>3. Elems(todo') = Elems(s) \cup Elems(Rest)
      BY <3>1, <3>2, ElemsConcat
    <3> QED  BY <3>1, <3>3 DEF Has
  <2>2. Unlogged(wl_pos)' <=> Unlogged(wl_pos)
    BY <1>2 DEF Unlogged
  <2> SUFFICES ASSUME in_spec', ~handler', ~Has(todo', "finish"), Unlogged(wl_pos)'
               PROVE  Covered(todo')
    BY DEF CoverInv, Covered, Covers, IsReturn, Has
  <2>3. Covered(todo)
    BY <1>2, <2>1, <2>2 DEF NmiInv, CoverInv
  <2> QED  BY <1>1, <1>2, <2>3
<1> QED  BY <1>1, <1>4, <1>5 DEF NmiInv

\* An operation ends; or one takes its place.
LEMMA NmiEnd ==
  ASSUME Safe, NmiInv, todo # << >>, ~(in_spec /\ handler), Op.op \notin {"add", "new_checkpoint", "finish"},
         Continue(<< >>), in_spec => ~Covers(Op),
         status' = "running" => status = "running", UNCHANGED <<handler, regs, in_spec, logVars>>,
         mem'[IgnoreNmis] = mem[IgnoreNmis]
  PROVE  NmiInv'
<1> DEFINE s == << >>
<1>1. s \in Seq(MicroOp) /\ Elems(s) = {} /\ Continue(s)
  BY SeqEmpty, Short
<1> HIDE DEF s
<1>2. NmiPiece(s)
  BY <1>1, NmiFree
<1> QED  BY <1>1, <1>2, NmiStep

LEMMA NmiOne ==
  ASSUME Safe, NmiInv, todo # << >>, ~(in_spec /\ handler), Op.op \notin {"add", "new_checkpoint", "finish"},
         NEW x \in MicroOp, Continue(<<x>>), x.op \notin FirstOps \cup {"add", "new_checkpoint"},
         Op.op \notin Opening => x.op \notin Opening,
         in_spec /\ Covers(Op) => Covers(x),
         status' = "running" => status = "running", UNCHANGED <<handler, regs, in_spec, logVars>>,
         mem'[IgnoreNmis] = mem[IgnoreNmis]
  PROVE  NmiInv'
<1> DEFINE s == <<x>>
<1>1. s \in Seq(MicroOp) /\ Elems(s) = {x} /\ Continue(s)
  BY Seq1, Short
<1> HIDE DEF s
<1>2. NmiPiece(s)
  BY <1>1, NmiFree
<1> QED  BY <1>1, <1>2, NmiStep

\* The checks at the start of the hooks.
LEMMA HookNmi ==
  ASSUME Safe, NmiInv,
         \/ HookStore \/ HookMemcpy \/ HookRestart \/ HookCheckSpecLength \/ HookCheckCallDepth
         \/ HookNewCheckpoint
  PROVE  NmiInv'
<1>1. /\ todo # << >> /\ mem'[IgnoreNmis] = mem[IgnoreNmis]
      /\ status' = status /\ UNCHANGED <<handler, regs, in_spec, logVars>>
  BY DEF HookStore, HookMemcpy, HookRestart, HookCheckSpecLength, HookCheckCallDepth, HookNewCheckpoint, At,
         mvars, modeVars, irqVars
<1>2. Op.op \in {"hook_store", "hook_memcpy", "hook_restart", "hook_check_spec_length",
                 "hook_check_call_depth", "hook_new_checkpoint"}
  BY DEF HookStore, HookMemcpy, HookRestart, HookCheckSpecLength, HookCheckCallDepth, HookNewCheckpoint, At, Op
<1>3. /\ Op.op \notin {"add", "new_checkpoint", "finish"} /\ ~(in_spec /\ handler)
      /\ wl_enabled = in_spec /\ (in_spec => init_done)
  <2>1. Op.op \notin RollbackOps \cup {"hook_interrupt_timer"}
    BY <1>2 DEF RollbackOps
  <2> QED  BY <1>1, <1>2, <2>1, ModeFacts
<1>4. TypeOK /\ TodoInv /\ Op.a \in Int /\ Op.n \in Int
  BY <1>1, HeadType DEF Safe, TypeOK
<1>5. ASSUME Continue(<< >>), in_spec => ~Covers(Op) PROVE NmiInv'
  BY <1>1, <1>3, <1>5, NmiEnd
<1>6. ASSUME NEW x \in MicroOp, Continue(<<x>>), x.op \in EnterOps, Op.op \in Opening PROVE NmiInv'
  <2>1. ~Covers(Op) /\ x.op \notin FirstOps \cup {"add", "new_checkpoint"}
    BY <1>6 DEF Covers, Opening, EnterOps, FirstOps
  <2> QED  BY <1>1, <1>3, <1>6, <2>1, NmiOne
<1>7. CASE HookStore
  <2> DEFINE x == U("enter_store", Op.a, 0)
  <2>1. x \in MicroOp /\ x.op = "enter_store" /\ x.a = Op.a
    BY <1>4 DEF U, MicroOp, OpNames
  <2>2. Op.op = "hook_store" /\ (Continue(<<x>>) \/ (~StoreHookActive /\ Continue(<< >>)))
    BY <1>7 DEF HookStore, At, Op
  <2> HIDE DEF x
  <2>3. CASE Continue(<<x>>)
    <3>1. (Covers(Op) => Covers(x)) /\ x.op \notin Opening
          /\ x.op \notin FirstOps \cup {"add", "new_checkpoint"}
      BY <2>1, <2>2 DEF Covers, Opening, FirstOps
    <3> QED  BY <1>1, <1>3, <2>1, <2>3, <3>1, NmiOne
  <2>4. CASE ~StoreHookActive /\ Continue(<< >>)
    <3>1. ~in_spec
      BY <1>3, <2>4 DEF StoreHookActive
    <3> QED  BY <1>5, <2>4, <3>1
  <2> QED  BY <2>2, <2>3, <2>4
<1>8. CASE HookMemcpy \/ HookRestart
  <2> DEFINE x == U("enter_memcpy", Op.a, Op.n)
             y == U("enter_restart", Op.a, 0)
  <2>1. x \in MicroOp /\ x.op \in EnterOps /\ y \in MicroOp /\ y.op \in EnterOps
    BY <1>4 DEF U, MicroOp, OpNames, EnterOps
  <2>2. Op.op \in {"hook_memcpy", "hook_restart"} /\ (Continue(<<x>>) \/ Continue(<<y>>) \/ Continue(<< >>))
    BY <1>8 DEF HookMemcpy, HookRestart, At, Op
  <2> HIDE DEF x, y
  <2>3. Op.op \in Opening /\ ~Covers(Op)
    BY <2>2 DEF Opening, Covers
  <2> QED  BY <1>5, <1>6, <2>1, <2>2, <2>3
<1>9. CASE HookCheckSpecLength \/ HookCheckCallDepth
  <2> DEFINE x == U("enter_restart", RESTART_LIMIT_SPEC, 0)
             y == U("enter_restart", RESTART_CALL_DEPTH, 0)
  <2>1. x \in MicroOp /\ x.op \in EnterOps /\ y \in MicroOp /\ y.op \in EnterOps
    BY DEF U, MicroOp, OpNames, EnterOps, RESTART_LIMIT_SPEC, RESTART_CALL_DEPTH
  <2>2. Continue(<<x>>) \/ Continue(<<y>>) \/ Continue(<< >>)
    BY <1>9, Zenon DEF HookCheckSpecLength, HookCheckCallDepth
  <2>3. Op.op \in {"hook_check_spec_length", "hook_check_call_depth"}
    BY <1>9 DEF HookCheckSpecLength, HookCheckCallDepth, At, Op
  <2> HIDE DEF x, y
  <2>4. Op.op \in Opening /\ ~Covers(Op)
    BY <2>3 DEF Opening, Covers
  <2> QED  BY <1>5, <1>6, <2>1, <2>2, <2>4
<1>10. CASE HookNewCheckpoint
  <2> DEFINE x == U("enter_checkpoint", 0, 0)
             t == SwapBranch \o LengthHook(prog[pc], LengthAfterSpec)
  <2>1. x \in MicroOp /\ x.op \in EnterOps
    BY DEF U, MicroOp, OpNames, EnterOps
  <2>2. Op.op = "hook_new_checkpoint" /\ (Continue(<<x>>) \/ Continue(t))
    BY <1>10 DEF HookNewCheckpoint, At, Op
  <2>3. Made(t, BranchedOps)
    BY <1>4, TypeFacts, BranchCode
  <2> HIDE DEF x, t
  <2>4. Op.op \in Opening /\ ~Covers(Op)
    BY <2>2 DEF Opening, Covers
  <2>5. CASE Continue(t)
    <3>1. t \in Seq(MicroOp) /\ \A z \in Elems(t) : z.op \notin FirstOps \cup {"add", "new_checkpoint"}
      BY <2>3 DEF Made, Sound, BranchedOps, FirstOps
    <3>2. NmiPiece(t)
      BY <3>1, NmiFree
    <3> QED  BY <1>1, <1>3, <2>4, <2>5, <3>1, <3>2, NmiStep
  <2> QED  BY <1>6, <2>1, <2>2, <2>4, <2>5
<1> QED  BY <1>7, <1>8, <1>9, <1>10

\* The runtime is entered.
LEMMA EnterNmi ==
  ASSUME Safe, NmiInv, Enter
  PROVE  NmiInv'
<1>1. /\ todo # << >> /\ Op.op \in EnterOps /\ mem'[IgnoreNmis] = mem[IgnoreNmis]
      /\ Continue(Runtime(Op, irq))
      /\ status' = status /\ UNCHANGED <<handler, regs, in_spec, logVars>>
  BY DEF Enter, At, Op, modeVars, irqVars
<1>2. /\ Op.op \notin {"add", "new_checkpoint", "finish"} /\ ~(in_spec /\ handler)
  <2>1. Op.op \notin RollbackOps \cup {"hook_interrupt_timer"} /\ Op.op \notin {"add", "new_checkpoint"}
    BY <1>1 DEF RollbackOps, EnterOps
  <2> QED  BY <1>1, <2>1, ModeFacts DEF RollbackOps
<1>3. Op \in MicroOp /\ irq \in BOOLEAN /\ prog[pc] \in Instr
  BY <1>1, TodoFacts, TypeFacts DEF Safe, TypeOK, MachineType
<1> DEFINE s == Runtime(Op, irq)
<1>4. /\ RuntimeFacts(s, Op, irq)
      /\ Op.op # "enter_store" => Stopping(s)
      /\ Op.op = "enter_store" /\ Covers(Op) => \E x \in Elems(s) : Covers(x)
  BY <1>1, <1>3, RuntimeCode, RuntimeNmi
<1>5. Continue(s)
  BY <1>1
<1> HIDE DEF s
<1>6. s \in Seq(MicroOp) /\ \A x \in Elems(s) : x.op \in RuntimeOps(Op.op)
  BY <1>4 DEF RuntimeFacts, Made, Sound
<1>7. \A x \in Elems(s) : x.op \notin FirstOps
  BY <1>1, <1>6 DEF EnterOps, RuntimeOps, LeaveOps, NmiOps, AfterOps, FirstOps
<1>8. CASE Op.op = "enter_store"
  <2>1. \A x \in Elems(s) : x.op \notin Opening \cup {"add", "new_checkpoint"}
    BY <1>6, <1>8 DEF RuntimeOps, Opening
  <2>2. NmiPiece(s) /\ Op.op \notin Opening
    BY <1>6, <1>8, <2>1, NmiFree DEF Opening
  <2> QED  BY <1>1, <1>2, <1>4, <1>5, <1>7, <1>8, <2>1, <2>2, NmiStep
<1>9. CASE Op.op # "enter_store"
  <2>1. Op.op \in Opening /\ ~Covers(Op) /\ Stopping(s)
    BY <1>1, <1>4, <1>9 DEF EnterOps, Opening, Covers
  <2>2. NmiPiece(s)
    BY <2>1 DEF Stopping
  <2> QED  BY <1>1, <1>2, <1>5, <1>7, <2>1, <2>2, NmiStep
<1> QED  BY <1>8, <1>9

\* Words that are not ignore_nmis.
LEMMA NmiWord ==
  /\ IgnoreNmis \in Words /\ IgnoreNmis # SwapCondition /\ IgnoreNmis # Jiffies
  /\ SwapCondition \in Words /\ Jiffies \in Words
  /\ IgnoreNmis \notin FirstHeap..(NWords - 1) /\ IgnoreNmis \notin ReadOnly
  /\ \A d \in 1..StackSize : Frame(d) # IgnoreNmis
  /\ \A d \in 1..MaxSp : d \in 1..(StackSize - 2) /\ d + 1 \in 1..StackSize /\ d \in 1..StackSize
BY MachineAssumption, SpecEmAssumption
   DEF Words, IgnoreNmis, SwapCondition, Jiffies, FirstHeap, Faulting, RuntimeWords, Frame

\* Nothing happens to ignore_nmis, nor to the log.
LEMMA NmiLogStays ==
  ASSUME NmiInv, UNCHANGED <<logVars, in_spec>>, mem'[IgnoreNmis] = mem[IgnoreNmis]
  PROVE  NmiLogInv'
<1>1. wl_addrs' = wl_addrs /\ wl_data' = wl_data /\ wl_pos' = wl_pos /\ in_spec' = in_spec
  BY DEF logVars
<1> QED  BY <1>1 DEF NmiInv, NmiLogInv, Unlogged

\* Frames are marked.
LEMMA MarkNmi ==
  ASSUME NEW top \in 1..(StackSize - 2), mem' = Write(mem, {Frame(top + 1), Frame(top + 2)}, RtMark)
  PROVE  mem'[IgnoreNmis] = mem[IgnoreNmis]
<1>1. top + 1 \in 1..StackSize /\ top + 2 \in 1..StackSize
  BY MachineAssumption
<1> QED  BY <1>1, NmiWord DEF Write

LEMMA StraightNmi ==
  ASSUME TypeOK, ~Faults, Straight
  PROVE  mem'[IgnoreNmis] = mem[IgnoreNmis]
<1>1. sp \in 1..MaxSp
  BY DEF TypeOK, MachineType
<1>2. Frame(sp) # IgnoreNmis /\ Frame(sp + 1) # IgnoreNmis /\ IgnoreNmis \in Words
  BY <1>1, NmiWord
<1>3. CASE Store
  <2>1. Touched(prog[pc].addr, prog[pc].size) \subseteq FirstHeap..(NWords - 1)
    <3>1. prog \in Programs /\ pc \in DOMAIN prog /\ prog[pc].op \in {"store", "memset", "asm"}
      BY <1>3, TypeFacts DEF Store
    <3>2. WellFormed(prog)
      BY <3>1, MachineAssumption
    <3> QED  BY <3>1, <3>2 DEF WellFormed
  <2>2. mem' = Write(mem, Touched(prog[pc].addr, prog[pc].size), prog[pc].val)
    BY <1>3 DEF Store
  <2> QED  BY <1>2, <2>1, <2>2, NmiWord DEF Write
<1>4. CASE Spill
  BY <1>2, <1>4 DEF Spill, Write
<1>5. CASE Jump \/ SetIrq
  BY <1>5 DEF Jump, SetIrq
<1>6. CASE Call
  BY <1>2, <1>6 DEF Call, Write
<1>7. CASE Return
  <2>1. mem' = mem \/ mem' = Write(mem, {Frame(sp)}, 0)
    BY <1>7 DEF Return
  <2> QED  BY <1>2, <2>1 DEF Write
<1> QED  BY <1>3, <1>4, <1>5, <1>6, <1>7 DEF Straight

\* Operations that end and leave ignore_nmis and the log alone.
LEMMA LeaveNmiStep ==
  ASSUME Safe, NmiInv,
         \/ IrqRestore \/ UnsetRt \/ SaveStack \/ SaveRegisters \/ Select \/ InitDone \/ HandleTick
         \/ (SetWord /\ Op.op = "set")
         \/ (HookInterruptTimer /\ ~in_spec)
  PROVE  NmiInv'
<1>1. /\ todo # << >> /\ Continue(<< >>) /\ status' = status
      /\ UNCHANGED <<handler, regs, in_spec, logVars>>
  BY DEF IrqRestore, UnsetRt, SetWord, SaveStack, SaveRegisters, Select, InitDone, HandleTick,
         HookInterruptTimer, At, mvars, modeVars, irqVars
<1>2. \/ Op.op \in {"irq_restore", "unset_rt", "set", "save_stack", "save_registers", "select",
                    "init_done", "tick"}
      \/ Op.op = "hook_interrupt_timer" /\ ~in_spec
  BY DEF IrqRestore, UnsetRt, SetWord, SaveStack, SaveRegisters, Select, InitDone, HandleTick,
         HookInterruptTimer, At, Op
<1>3. /\ Op.op \notin {"add", "new_checkpoint", "finish"} /\ ~Covers(Op) /\ ~(in_spec /\ handler)
  <2>1. Op.op \notin {"add", "new_checkpoint", "finish"} /\ ~Covers(Op)
    BY <1>2 DEF Covers
  <2>2. Op.op \notin RollbackOps
    BY <1>2 DEF RollbackOps
  <2> QED  BY <1>1, <1>2, <2>1, <2>2, ModeFacts
<1>4. mem \in [Words -> Int] /\ (Op.op = "set" => Op.a = SwapCondition)
  <2>1. TypeOK /\ Allowed(Op, irq, handler, in_spec, init_done)
    BY <1>1, TodoFacts DEF Safe
  <2> QED  BY <2>1 DEF TypeOK, MachineType, Allowed
<1>5. mem'[IgnoreNmis] = mem[IgnoreNmis]
  <2>1. CASE IrqRestore \/ UnsetRt \/ SaveStack \/ SaveRegisters \/ Select \/ InitDone \/ HookInterruptTimer
    BY <2>1 DEF IrqRestore, UnsetRt, SaveStack, SaveRegisters, Select, InitDone, HookInterruptTimer, mvars
  <2>2. CASE SetWord /\ Op.op = "set"
    <3>1. mem' = [mem EXCEPT ![SwapCondition] = Op.n]
      BY <1>4, <2>2 DEF SetWord
    <3> QED  BY <1>4, <3>1, NmiWord
  <2>3. CASE HandleTick
    <3> DEFINE v == IF mem[SwapCondition] = 1 THEN mem[Jiffies] ELSE mem[Jiffies] + 1
    <3>1. mem' = [[mem EXCEPT ![Jiffies] = v] EXCEPT ![SwapCondition] = 0]
      BY <2>3, Zenon DEF HandleTick
    <3> HIDE DEF v
    <3> QED  BY <1>4, <3>1, NmiWord
  <2> QED  BY <2>1, <2>2, <2>3
<1> QED  BY <1>1, <1>3, <1>5, NmiEnd

\* ignore_nmis++ and ignore_nmis--: never before the log has an entry.
LEMMA AddNmi ==
  ASSUME Safe, NmiInv, SetWord, Op.op = "add"
  PROVE  NmiInv'
<1>1. /\ todo # << >> /\ Continue(<< >>) /\ UNCHANGED <<status, handler, regs, in_spec, wl_addrs, wl_data, wl_pos>>
  BY DEF SetWord, At, modeVars, irqVars, logVars
<1>2. /\ TypeOK /\ TodoInv /\ Rest \in Seq(MicroOp) /\ Elems(todo) = {Op} \cup Elems(Rest)
      /\ NmiOrdered(Rest) /\ CkptCovered(Rest)
      /\ \A y \in Elems(Rest) : NmiPrecedes(Op, y)
      /\ Covered(todo) => Op.op # "add"
  BY <1>1, NmiFacts
<1>3. /\ BalanceInv /\ Balanced(todo) /\ (handler => Balanced(regs.todo)) /\ NmiLogInv /\ CoverInv /\ TopInv
  BY DEF NmiInv, NmiCodeInv
<1>4. todo' = Rest
  BY <1>1, <1>2 DEF Continue, Rest
<1>5. ~(in_spec /\ handler) /\ (\A y \in Elems(Rest) : y.op # "finish") /\ Op.a = IgnoreNmis
  <2>1. Op.op \notin RollbackOps \cup {"hook_interrupt_timer"}
    BY DEF RollbackOps
  <2>2. /\ Allowed(Op, irq, handler, in_spec, init_done)
        /\ \A y \in Elems(Rest) : Precedes(Op, y)
    BY <1>1, <1>2, TodoFacts
  <2> QED  BY <1>1, <2>1, <2>2, ModeFacts DEF Allowed, Precedes
<1>6. mem'[IgnoreNmis] = mem[IgnoreNmis] + Op.n
  <2>1. mem \in [Words -> Int]
    BY <1>2 DEF TypeOK, MachineType
  <2>2. mem' = [mem EXCEPT ![IgnoreNmis] = mem[IgnoreNmis] + Op.n]
    BY <1>5 DEF SetWord
  <2> QED  BY <2>1, <2>2, NmiWord
<1>7. Op.n \in {1, -1}
  BY <1>2, <1>3 DEF Balanced
<1>8. /\ Balanced(Rest) /\ Blocks(Rest) = Blocks(todo) + Op.n
  <2>0. \A x \in Elems(Rest) : x.op = "add" => x.n \in {1, -1}
    BY <1>2, <1>3 DEF Balanced
  <2>1. CASE Op.n = 1
    <3>1. ~Adds(Rest, 1)
      BY <1>2 DEF Adds, NmiPrecedes
    <3>2. Adds(todo, 1) /\ Adds(todo, -1)
      BY <1>2, <1>3, <2>1 DEF Adds, Balanced
    <3>3. Adds(Rest, -1)
      BY <1>2, <2>1, <3>2 DEF Adds
    <3> QED  BY <1>2, <2>0, <2>1, <3>1, <3>2, <3>3 DEF Balanced, Blocks
  <2>2. CASE Op.n = -1
    <3>1. \A y \in Elems(Rest) : y.op \notin {"add", "new_checkpoint"}
      BY <1>2, <2>2 DEF NmiPrecedes
    <3>2. ~Adds(todo, 1) /\ Adds(todo, -1) /\ ~Adds(Rest, -1)
      BY <1>2, <2>2, <3>1 DEF Adds
    <3> QED  BY <1>2, <2>0, <2>2, <3>1, <3>2 DEF Balanced, Blocks, Has, Adds
  <2> QED  BY <1>7, <2>1, <2>2
<1>9. BalanceInv'
  <2>1. ~Has(todo, "finish")
    BY <1>2, <1>5 DEF Has
  <2> SUFFICES ASSUME status' = "running", ~(handler' /\ regs'.pc = NoInstr)
               PROVE  mem'[IgnoreNmis] = Blocks(todo') + (IF handler' THEN Blocks(regs'.todo) ELSE 0)
    BY DEF BalanceInv, Blocks, Adds
  <2>2. mem[IgnoreNmis] = Blocks(todo) + (IF handler THEN Blocks(regs.todo) ELSE 0)
    BY <1>1, <1>3, <1>5, <2>1 DEF BalanceInv
  <2>3. Blocks(todo) \in Int /\ Blocks(regs.todo) \in Int
    BY DEF Blocks
  <2>4. (handler' <=> handler) /\ regs' = regs
    BY <1>1
  <2> HIDE DEF Blocks
  <2> QED  BY <1>4, <1>6, <1>7, <1>8, <2>2, <2>3, <2>4
<1>10. NmiCodeInv'
  BY <1>1, <1>2, <1>3, <1>4, <1>5, <1>8 DEF NmiCodeInv
<1>11. in_spec => ~Unlogged(wl_pos)
  <2>1. ~Has(todo, "finish")
    BY <1>2, <1>5 DEF Has
  <2> QED  BY <1>2, <1>3, <1>5, <2>1 DEF CoverInv
<1>12. NmiLogInv' /\ CoverInv'
  <2>1. \A n : Unlogged(n)' <=> Unlogged(n)
    BY <1>1 DEF Unlogged
  <2>2. Unlogged(wl_pos)' <=> Unlogged(wl_pos)
    BY <1>1 DEF Unlogged
  <2> QED  BY <1>1, <1>3, <1>11, <2>1, <2>2 DEF NmiLogInv, CoverInv, Unlogged
<1>13. TopInv'
  BY <1>2, <1>3, <1>4 DEF TopInv, InStack
<1> QED  BY <1>9, <1>10, <1>12, <1>13 DEF NmiInv

\* A checkpoint begins inside stop_nmi.
LEMMA NewCheckpointNmi ==
  ASSUME Safe, NmiInv, NewCheckpoint
  PROVE  NmiInv'
<1>1. /\ todo # << >> /\ status = "running" /\ Op.op = "new_checkpoint" /\ Continue(<< >>)
      /\ in_spec' /\ wl_pos' = 0 /\ handler' = handler
      /\ (mem' = mem \/ mem' = [mem EXCEPT ![SwapCondition] = 1])
  BY DEF NewCheckpoint, At, Op, irqVars
<1>2. /\ TypeOK /\ TodoInv /\ Rest \in Seq(MicroOp) /\ Elems(todo) = {Op} \cup Elems(Rest)
      /\ NmiOrdered(Rest) /\ CkptCovered(Rest) /\ Covered(Rest)
      /\ \A y \in Elems(Rest) : NmiPrecedes(Op, y)
  BY <1>1, NmiFacts
<1>3. /\ BalanceInv /\ Balanced(todo) /\ TopInv
  BY DEF NmiInv, NmiCodeInv
<1>4. todo' = Rest
  BY <1>1, <1>2 DEF Continue, Rest
<1>5. ~handler /\ ~in_spec
  <2>1. Allowed(Op, irq, handler, in_spec, init_done)
    BY <1>1, <1>2, TodoFacts
  <2> QED  BY <1>1, <2>1 DEF Allowed, CheckpointOps, HandlerOps, InterruptOps, RollbackOps
<1>6. /\ Adds(todo, -1) /\ Adds(Rest, -1) /\ ~Adds(Rest, 1) /\ ~Adds(todo, 1)
  <2>1. Adds(todo, -1)
    BY <1>1, <1>2, <1>3 DEF Balanced, Has
  <2>2. \A y \in Elems(Rest) : y.op = "add" => y.n = -1
    BY <1>1, <1>2 DEF NmiPrecedes
  <2> QED  BY <1>1, <1>2, <2>1, <2>2 DEF Adds
<1>7. Blocks(todo) = 1 /\ Blocks(Rest) = 1 /\ Balanced(Rest)
  BY <1>2, <1>3, <1>6 DEF Blocks, Balanced
<1>8. mem'[IgnoreNmis] = 1
  <2>1. mem[IgnoreNmis] = 1
    BY <1>1, <1>3, <1>5, <1>7 DEF BalanceInv
  <2>2. mem \in [Words -> Int]
    BY <1>2 DEF TypeOK, MachineType
  <2> QED  BY <1>1, <2>1, <2>2, NmiWord
<1>9. BalanceInv' /\ NmiCodeInv'
  <2>1. Blocks(todo)' = 1 /\ Balanced(todo)' /\ CkptCovered(todo)'
    BY <1>2, <1>4, <1>7 DEF Blocks, Adds
  <2> HIDE DEF Blocks
  <2> QED  BY <1>1, <1>5, <1>8, <2>1 DEF BalanceInv, NmiCodeInv
<1>10. NmiLogInv'
  BY <1>1, <1>8 DEF NmiLogInv
<1>11. CoverInv'
  BY <1>2, <1>4 DEF CoverInv
<1>12. TopInv'
  BY <1>2, <1>3, <1>4 DEF TopInv, InStack
<1> QED  BY <1>9, <1>10, <1>11, <1>12 DEF NmiInv

\* The runtime's data are initialised, inside stop_nmi and outside speculation.
LEMMA InitDataNmi ==
  ASSUME Safe, NmiInv, InitData
  PROVE  NmiInv'
<1>1. /\ todo # << >> /\ Op.op = "init_data" /\ Continue(<< >>)
      /\ ~in_spec' /\ UNCHANGED <<status, handler, regs>> /\ mem' = [mem EXCEPT ![SwapCondition] = 0]
  BY DEF InitData, At, Op, irqVars
<1>2. TypeOK /\ TodoInv /\ mem \in [Words -> Int]
  BY DEF Safe, TypeOK, MachineType
<1>3. ~in_spec
  <2>1. Allowed(Op, irq, handler, in_spec, init_done)
    BY <1>1, <1>2, TodoFacts
  <2> QED  BY <1>1, <2>1, ModeFacts DEF Allowed, InitOps
<1>4. mem'[IgnoreNmis] = mem[IgnoreNmis]
  BY <1>1, <1>2, NmiWord
<1> DEFINE s == << >>
<1>5. s \in Seq(MicroOp) /\ Elems(s) = {} /\ Continue(s)
  BY <1>1, SeqEmpty, Short
<1> HIDE DEF s
<1>6. NmiPiece(s)
  BY <1>5, NmiFree
<1>7. BalanceInv' /\ NmiCodeInv' /\ TopInv'
  <2>1. in_spec' = in_spec
    BY <1>1, <1>2, <1>3 DEF TypeOK, FlagType, InitData
  <2> QED  BY <1>1, <1>3, <1>4, <1>5, <1>6, <2>1, NmiContinue
<1> QED  BY <1>1, <1>7 DEF NmiInv, NmiLogInv, CoverInv

\* One pass of the loop of kspecem_memcpy.
LEMMA MemcpyNmi ==
  ASSUME Safe, NmiInv, Memcpy
  PROVE  NmiInv'
<1> DEFINE m == U("memcpy", Op.a + 8, Op.n)
           w == WriteWl(Op.a)
<1>1. /\ todo # << >> /\ Op.op = "memcpy" /\ (Continue(<< >>) \/ Continue(w \o <<m>>))
      /\ status' = status /\ UNCHANGED <<handler, regs, in_spec, logVars>> /\ mem' = mem
  BY DEF Memcpy, At, Op, mvars, modeVars, irqVars
<1>2. Op.a \in Int /\ Op.n \in Int
  BY <1>1, HeadType DEF Safe, TypeOK
<1>3. /\ Op.op \notin {"add", "new_checkpoint", "finish"} /\ ~Covers(Op) /\ ~(in_spec /\ handler)
      /\ Op.op \notin Opening
  <2>1. Op.op \notin RollbackOps \cup {"hook_interrupt_timer"}
    BY <1>1 DEF RollbackOps
  <2> QED  BY <1>1, <2>1, ModeFacts DEF Covers, Opening
<1>4. CASE Continue(<< >>)
  BY <1>1, <1>3, <1>4, NmiEnd
<1>5. CASE Continue(w \o <<m>>)
  <2>1. m \in MicroOp /\ m.op = "memcpy"
    BY <1>2 DEF U, MicroOp, OpNames
  <2>2. Made(w, {"write_wl"})
    BY <1>2, WriteWlCode
  <2> HIDE DEF m, w
  <2> DEFINE o == <<m>>
             c == w \o o
  <2>3. o \in Seq(MicroOp) /\ Elems(o) = {m} /\ w \in Seq(MicroOp) /\ Continue(c)
    BY <1>5, <2>1, <2>2, Seq1, Short DEF Made, Sound
  <2> HIDE DEF o
  <2>4. c \in Seq(MicroOp) /\ Elems(c) = Elems(w) \cup {m}
    BY <2>3, ElemsConcat, SeqConcat
  <2> HIDE DEF c
  <2>5. \A x \in Elems(c) : /\ x.op \notin Opening \cup {"add", "new_checkpoint"}
                            /\ x.op \notin FirstOps
    BY <2>1, <2>2, <2>4 DEF Made, Opening, FirstOps
  <2>6. NmiPiece(c)
    BY <2>4, <2>5, NmiFree
  <2> QED  BY <1>1, <1>3, <2>3, <2>5, <2>6, NmiStep
<1> QED  BY <1>1, <1>4, <1>5

\* An exception in speculation: its handler returns behind the checkpoint.
LEMMA ExceptionNmi ==
  ASSUME Safe, NmiInv, in_spec', NEW type \in Int, NEW top \in 1..(StackSize - 2), Exception(type, top)
  PROVE  BalanceInv' /\ NmiCodeInv' /\ CoverInv' /\ TopInv' /\ mem'[IgnoreNmis] = mem[IgnoreNmis]
<1> DEFINE r == U("restart_irq", type, top)
           q == U("iret", top, 0)
<1>1. /\ todo' = <<r, q>> /\ handler' /\ regs' = CheckpointRegs
      /\ mem' = Write(mem, {Frame(top + 1), Frame(top + 2)}, RtMark)
  BY DEF Exception
<1>2. top \in Int
  BY MachineAssumption
<1>3. r.op = "restart_irq" /\ r.n = top /\ q.op = "iret" /\ r \in MicroOp /\ q \in MicroOp
  BY <1>2 DEF U, MicroOp, OpNames
<1> HIDE DEF r, q
<1>4. todo' \in Seq(MicroOp) /\ Elems(todo') = {r, q}
  BY <1>1, <1>3, Short, Seq2
<1>5. \A x \in Elems(todo') : x.op \notin {"add", "new_checkpoint"}
  BY <1>3, <1>4
<1>6. Balanced(todo') /\ CkptCovered(todo')
  BY <1>4, <1>5, NmiFree DEF NmiPiece
<1>7. regs'.pc = kregs.pc /\ regs'.todo = ResumeOps
  BY <1>1 DEF CheckpointRegs
<1>8. Balanced(regs'.todo) /\ (regs'.pc = NoInstr \/ Blocks(regs'.todo) = 1)
  BY <1>7, ResumeNmi DEF Safe
<1>9. BalanceInv'
  BY <1>1 DEF BalanceInv
<1>10. NmiCodeInv'
  <2>1. Blocks(regs'.todo) = Blocks(regs.todo)'
    BY DEF Blocks, Adds
  <2> HIDE DEF Blocks
  <2> QED  BY <1>5, <1>6, <1>8, <2>1 DEF NmiCodeInv
<1>11. CoverInv'
  BY <1>1 DEF CoverInv
<1>12. TopInv'
  BY <1>3, <1>4 DEF TopInv, InStack
<1>13. mem'[IgnoreNmis] = mem[IgnoreNmis]
  BY <1>1, MarkNmi
<1> QED  BY <1>9, <1>10, <1>11, <1>12, <1>13

\* It changes nothing in the log when it is the program's, or an NMI.
LEMMA FaultNmi ==
  ASSUME Safe, NmiInv, in_spec, NEW type \in Int, Exception(type, sp), UNCHANGED <<logVars, in_spec>>
  PROVE  NmiInv'
<1>1. sp \in 1..(StackSize - 2)
  <2>1. sp \in 1..MaxSp
    BY DEF Safe, TypeOK, MachineType
  <2> QED  BY <2>1, NmiWord
<1>2. BalanceInv' /\ NmiCodeInv' /\ CoverInv' /\ TopInv' /\ mem'[IgnoreNmis] = mem[IgnoreNmis]
  BY <1>1, ExceptionNmi
<1>3. NmiLogInv'
  BY <1>2, NmiLogStays
<1> QED  BY <1>2, <1>3 DEF NmiInv

\* The program's own step.
LEMMA ExecNmi ==
  ASSUME Safe, NmiInv, Exec
  PROVE  NmiInv'
<1>1. todo # << >> /\ Op.op = "exec" /\ UNCHANGED <<in_spec, logVars>> /\ status = "running"
  BY DEF Exec, At, Op, modeVars
<1>2. Op.op \notin {"add", "new_checkpoint", "finish"} /\ ~Covers(Op) /\ ~(in_spec /\ handler)
  <2>1. Op.op \notin RollbackOps \cup {"hook_interrupt_timer"}
    BY <1>1 DEF RollbackOps
  <2> QED  BY <1>1, <2>1, ModeFacts DEF Covers
<1>3. ASSUME Continue(<< >>), UNCHANGED irqVars, mem'[IgnoreNmis] = mem[IgnoreNmis] PROVE NmiInv'
  BY <1>1, <1>2, <1>3, NmiEnd DEF irqVars
<1>4. CASE ~Faults /\ Straight /\ Continue(<< >>) /\ UNCHANGED irqVars
  BY <1>3, <1>4, StraightNmi DEF Safe
<1>5. CASE Oops /\ Continue(<< >>) /\ UNCHANGED irqVars
  BY <1>3, <1>5 DEF Oops
<1>6. ASSUME in_spec, NEW type \in Int, Exception(type, sp) PROVE NmiInv'
  BY <1>1, <1>6, FaultNmi
<1>7. RESTART_EXCEPTION \in Int /\ RESTART_PAGE_FAULT \in Int
  BY DEF RESTART_EXCEPTION, RESTART_PAGE_FAULT
<1> QED  BY <1>4, <1>5, <1>6, <1>7 DEF Exec

\* The log is written: the first entry of ignore_nmis holds what the checkpoint
\* found.
LEMMA LogNmi ==
  ASSUME Safe, NmiInv, LogWord
  PROVE  NmiInv'
<1>1. /\ todo # << >> /\ Op.op = "write_wl" /\ status' = status /\ UNCHANGED in_spec
  BY DEF LogWord, At, Op, modeVars
<1>2. /\ Op.op \notin {"add", "new_checkpoint", "finish"} /\ ~(in_spec /\ handler)
      /\ Op.op \notin Opening /\ in_spec /\ ~handler
  <2>1. Op.op \notin RollbackOps \cup {"hook_interrupt_timer"}
    BY <1>1 DEF RollbackOps
  <2>2. Allowed(Op, irq, handler, in_spec, init_done)
    BY <1>1, TodoFacts DEF Safe
  <2> QED  BY <1>1, <2>1, <2>2, ModeFacts DEF Opening, Allowed, LogOps
<1>3. CASE Continue(WhenFull) /\ UNCHANGED <<mem, irq, logVars, irqVars>>
  <2> DEFINE x == U("restart", RESTART_WRITELOG_FULL, 0)
  <2>1. x \in MicroOp /\ x.op = "restart" /\ Covers(x)
    BY DEF U, MicroOp, OpNames, RESTART_WRITELOG_FULL, RESTART_RETURN, IsReturn, Covers
  <2>2. Continue(<<x>>)
    BY <1>3 DEF WhenFull
  <2> HIDE DEF x
  <2>3. x.op \notin FirstOps \cup {"add", "new_checkpoint"} /\ x.op \notin Opening
    BY <2>1 DEF Opening, FirstOps
  <2> QED  BY <1>1, <1>2, <1>3, <2>1, <2>2, <2>3, NmiOne DEF irqVars
<1>4. CASE Exception(RESTART_PAGE_FAULT, sp) /\ UNCHANGED logVars
  <2>1. RESTART_PAGE_FAULT \in Int
    BY DEF RESTART_PAGE_FAULT
  <2> QED  BY <1>1, <1>2, <1>4, <2>1, FaultNmi
<1>5. CASE /\ wl_pos < WlMax
           /\ wl_addrs' = [wl_addrs EXCEPT ![wl_pos] = Op.a]
           /\ wl_data' = [wl_data EXCEPT ![wl_pos] = mem[Op.a]]
           /\ wl_pos' = wl_pos + 1
           /\ Continue(<< >>)
           /\ UNCHANGED <<mem, irq, irqVars>>
  <2> DEFINE s == << >>
  <2>1. s \in Seq(MicroOp) /\ Elems(s) = {} /\ Continue(s)
    BY <1>5, SeqEmpty, Short
  <2> HIDE DEF s
  <2>2. NmiPiece(s)
    BY <2>1, NmiFree
  <2>3. /\ BalanceInv' /\ NmiCodeInv' /\ TopInv'
        /\ Covered(todo) /\ ~Covers(Op) => Covered(todo')
    BY <1>1, <1>2, <1>5, <2>1, <2>2, NmiContinue DEF irqVars
  <2>4. /\ wl_pos \in 0..(WlMax - 1) /\ WlMax \in Nat
        /\ wl_addrs \in [0..(WlMax - 1) -> Words] /\ wl_data \in [0..(WlMax - 1) -> Int]
    BY <1>5, SpecEmAssumption DEF Safe, TypeOK, LogType
  <2>5. /\ wl_addrs'[wl_pos] = Op.a /\ wl_data'[wl_pos] = mem[Op.a]
        /\ \A k \in 0..(wl_pos - 1) : wl_addrs'[k] = wl_addrs[k] /\ wl_data'[k] = wl_data[k]
    BY <1>5, <2>4
  <2>6. ASSUME NEW n \in 0..wl_pos, Unlogged(n)' PROVE Unlogged(n)
    BY <2>4, <2>5, <2>6 DEF Unlogged
  <2>7. Unlogged(wl_pos)' => Unlogged(wl_pos) /\ Op.a # IgnoreNmis
    <3>1. wl_pos \in 0..(wl_pos' - 1) /\ \A k \in 0..(wl_pos - 1) : k \in 0..(wl_pos' - 1)
      BY <1>5, <2>4
    <3> QED  BY <2>5, <3>1 DEF Unlogged
  <2>8. NmiLogInv'
    <3>1. ASSUME NEW k \in 0..(wl_pos' - 1), wl_addrs'[k] = IgnoreNmis, Unlogged(k)'
          PROVE  wl_data'[k] = 1
      <4>1. k \in 0..wl_pos
        BY <1>5, <2>4
      <4>2. Unlogged(k)
        BY <2>6, <3>1, <4>1
      <4>3. CASE k = wl_pos
        BY <1>2, <2>5, <3>1, <4>2, <4>3 DEF NmiInv, NmiLogInv
      <4>4. CASE k # wl_pos
        <5>1. k \in 0..(wl_pos - 1)
          BY <2>4, <4>1, <4>4
        <5> QED  BY <1>2, <2>5, <3>1, <4>2, <5>1 DEF NmiInv, NmiLogInv
      <4> QED  BY <4>3, <4>4
    <3>2. Unlogged(wl_pos)' => mem'[IgnoreNmis] = 1
      BY <1>2, <1>5, <2>7 DEF NmiInv, NmiLogInv
    <3>3. \A k : Unlogged(k)' <=> \A j \in 0..(k - 1) : wl_addrs'[j] # IgnoreNmis
      BY DEF Unlogged
    <3> QED  BY <3>1, <3>2, <3>3 DEF NmiLogInv
  <2>9. CoverInv'
    <3> SUFFICES ASSUME ~Has(todo', "finish"), Unlogged(wl_pos)'
                 PROVE  Covered(todo')
      BY DEF CoverInv, Covered, Covers, IsReturn, Has
    <3>1. Has(todo, "finish") => Has(todo', "finish")
      <4>1. Rest \in Seq(MicroOp) /\ Elems(todo) = {Op} \cup Elems(Rest)
        BY <1>1, NmiFacts
      <4>2. todo' = Rest
        BY <1>5, <4>1 DEF Continue, Rest
      <4> QED  BY <1>1, <4>1, <4>2 DEF Has
    <3>2. Covered(todo)
      BY <1>2, <2>7, <3>1 DEF NmiInv, CoverInv
    <3>3. ~Covers(Op)
      BY <1>1, <2>7 DEF Covers
    <3> QED  BY <2>3, <3>2, <3>3
  <2> QED  BY <2>3, <2>8, <2>9 DEF NmiInv
<1> QED  BY <1>3, <1>4, <1>5 DEF LogWord

\* A rollback begins or ends its walk: what follows gives NMIs back.
LEMMA RollbackNmi ==
  ASSUME Safe, NmiInv, todo # << >>, in_spec, in_spec', NmiLogInv',
         Op.op \in {"restart", "restart_irq", "undo", "hook_interrupt_timer"},
         NEW s \in Seq(MicroOp), Continue(s),
         \A x \in Elems(s) : x.op \notin Opening \cup {"add", "new_checkpoint"} /\ InStack(x),
         handler' = handler, handler \/ Has(todo', "finish"),
         handler => (regs' = regs /\ Op.op \in RollbackOps) \/ regs' = CheckpointRegs
  PROVE  NmiInv'
<1>1. /\ TypeOK /\ TodoInv /\ Rest \in Seq(MicroOp) /\ Elems(todo) = {Op} \cup Elems(Rest)
      /\ NmiOrdered(Rest) /\ CkptCovered(Rest)
  BY NmiFacts
<1>2. todo' = s \o Rest /\ Elems(todo') = Elems(s) \cup Elems(Rest)
  <2>1. todo' = s \o Rest
    BY DEF Continue, Rest
  <2> QED  BY <1>1, <2>1, ElemsConcat
<1>3. NmiOrdered(s) /\ CkptCovered(s)
  BY NmiFree DEF NmiPiece
<1>4. NmiOrdered(todo') /\ CkptCovered(todo')
  <2>1. \A x \in Elems(s), y \in Elems(Rest) : NmiPrecedes(x, y)
    BY DEF NmiPrecedes
  <2> QED  BY <1>1, <1>2, <1>3, <2>1, NmiConcat, CkptConcat
<1>5. NmiCodeInv /\ Balanced(todo) /\ TopInv
  BY DEF NmiInv, NmiCodeInv
<1>6. Balanced(todo')
  <2>1. \A n : Adds(todo', n) <=> Adds(todo, n)
    BY <1>1, <1>2 DEF Adds
  <2>2. Has(todo', "new_checkpoint") <=> Has(todo, "new_checkpoint")
    BY <1>1, <1>2 DEF Has
  <2>3. \A x \in Elems(todo') : x.op = "add" => x.n \in {1, -1}
    BY <1>1, <1>2, <1>5 DEF Balanced
  <2> QED  BY <1>4, <1>5, <2>1, <2>2, <2>3 DEF Balanced
<1>7. ASSUME handler
      PROVE  Balanced(regs'.todo) /\ (regs'.pc = NoInstr \/ Blocks(regs'.todo) = 1)
  <2>1. CASE regs' = regs /\ Op.op \in RollbackOps
    BY <1>5, <1>7, <2>1 DEF NmiCodeInv
  <2>2. CASE regs' = CheckpointRegs
    <3>1. regs'.pc = kregs.pc /\ regs'.todo = ResumeOps
      BY <2>2 DEF CheckpointRegs
    <3> QED  BY <1>1, <3>1, ResumeNmi
  <2> QED  BY <1>7, <2>1, <2>2
<1>8. handler => \A x \in Elems(todo') : x.op # "add"
  BY <1>1, <1>2, <1>5 DEF NmiCodeInv
<1>9. NmiCodeInv'
  <2>1. Blocks(regs'.todo) = Blocks(regs.todo)'
    BY DEF Blocks, Adds
  <2>2. Balanced(regs'.todo) <=> Balanced(regs.todo)'
    BY DEF Balanced, NmiOrdered, NmiPrecedes, Adds, Has
  <2> HIDE DEF Blocks, Balanced
  <2> QED  BY <1>4, <1>6, <1>7, <1>8, <2>1, <2>2 DEF NmiCodeInv
<1>10. BalanceInv' /\ CoverInv'
  BY DEF BalanceInv, CoverInv, Has
<1>11. TopInv'
  BY <1>1, <1>2, <1>5 DEF TopInv, InStack
<1> QED  BY <1>9, <1>10, <1>11 DEF NmiInv

\* A restart: none outside speculation, a return that is counted, or a rollback.
LEMMA RestartNmi ==
  ASSUME Safe, NmiInv, Restart
  PROVE  NmiInv'
<1>1. /\ todo # << >> /\ Op.op = "restart"
      /\ UNCHANGED <<status, handler, regs, in_spec, logVars>>
  BY DEF Restart, At, Op, irqVars
<1>2. /\ Op.op \notin {"add", "new_checkpoint", "finish"} /\ ~(in_spec /\ handler)
      /\ Op.op \notin RollbackOps
  <2>1. Op.op \notin RollbackOps \cup {"hook_interrupt_timer"}
    BY <1>1 DEF RollbackOps
  <2> QED  BY <1>1, <2>1, ModeFacts
<1>3. CASE ~in_spec
  <2>1. Continue(<< >>) /\ mem' = mem
    BY <1>3 DEF Restart
  <2> QED  BY <1>1, <1>2, <1>3, <2>1, NmiEnd
<1>4. CASE in_spec /\ ReturnInSpeculation(Op.a)
  <2>1. Continue(<< >>) /\ mem' = mem
    BY <1>4 DEF Restart
  <2>2. ~Covers(Op)
    BY <1>1, <1>4 DEF ReturnInSpeculation, Covers, IsReturn, RestartOps
  <2> QED  BY <1>1, <1>2, <2>1, <2>2, NmiEnd
<1>5. CASE in_spec /\ ~ReturnInSpeculation(Op.a)
  <2> DEFINE u == U("undo", sp, 0)
             f == U("finish", 0, 0)
  <2>1. sp \in 1..(StackSize - 2) /\ sp \in Int
    <3>1. sp \in 1..MaxSp
      BY DEF Safe, TypeOK, MachineType
    <3> QED  BY <3>1, NmiWord, MachineAssumption
  <2>2. u \in MicroOp /\ f \in MicroOp /\ u.op = "undo" /\ u.a = sp /\ f.op = "finish"
    BY <2>1 DEF U, MicroOp, OpNames
  <2>3. Continue(<<u, f>>) /\ mem' = Write(mem, {Frame(sp + 1), Frame(sp + 2)}, RtMark)
    BY <1>5 DEF Restart
  <2> HIDE DEF u, f
  <2> DEFINE s == <<u, f>>
  <2>4. s \in Seq(MicroOp) /\ Elems(s) = {u, f} /\ Continue(s)
    BY <2>2, <2>3, Seq2, Short
  <2> HIDE DEF s
  <2>5. \A x \in Elems(s) : x.op \notin Opening \cup {"add", "new_checkpoint"} /\ InStack(x)
    BY <2>1, <2>2, <2>4 DEF Opening, InStack
  <2>6. NmiLogInv'
    BY <1>1, <2>1, <2>3, MarkNmi, NmiLogStays
  <2>7. Has(todo', "finish")
    <3>1. Elems(todo') = Elems(s) \cup Elems(Rest)
      BY <1>1, <2>4, Replaced DEF Safe
    <3> QED  BY <2>2, <2>4, <3>1 DEF Has
  <2> QED  BY <1>1, <1>2, <1>5, <2>4, <2>5, <2>6, <2>7, RollbackNmi
<1> QED  BY <1>3, <1>4, <1>5

LEMMA RestartIrqNmi ==
  ASSUME Safe, NmiInv, RestartIrq
  PROVE  NmiInv'
<1> DEFINE u == U("undo", Op.n, 1)
           f == U("finish", 1, 0)
<1>1. /\ todo # << >> /\ Op.op = "restart_irq" /\ mem' = mem /\ Continue(<<u, f>>)
      /\ UNCHANGED <<status, handler, regs, in_spec, logVars>>
  BY DEF RestartIrq, At, Op, irqVars, mvars
<1>2. TypeOK /\ TodoInv /\ Allowed(Op, irq, handler, in_spec, init_done) /\ Op \in Elems(todo)
  BY <1>1, TodoFacts DEF Safe
<1>3. in_spec /\ handler /\ Op.op \in RollbackOps
  BY <1>1, <1>2 DEF Allowed, RollbackOps, InterruptOps
<1>4. Op.n \in 1..(StackSize - 2) /\ Op.n \in Int
  <2>1. Op.n \in 1..(StackSize - 2)
    BY <1>1, <1>2 DEF NmiInv, TopInv, InStack
  <2> QED  BY <2>1, MachineAssumption
<1>5. u \in MicroOp /\ f \in MicroOp /\ u.op = "undo" /\ u.a = Op.n /\ f.op = "finish"
  BY <1>4 DEF U, MicroOp, OpNames
<1> HIDE DEF u, f
<1> DEFINE s == <<u, f>>
<1>6. s \in Seq(MicroOp) /\ Elems(s) = {u, f} /\ Continue(s)
  BY <1>1, <1>5, Seq2, Short
<1> HIDE DEF s
<1>7. \A x \in Elems(s) : x.op \notin Opening \cup {"add", "new_checkpoint"} /\ InStack(x)
  BY <1>4, <1>5, <1>6 DEF Opening, InStack
<1>8. NmiLogInv'
  BY <1>1, NmiLogStays
<1> QED  BY <1>1, <1>3, <1>6, <1>7, <1>8, RollbackNmi

\* The timer's hook.
LEMMA TimerHookNmi ==
  ASSUME Safe, NmiInv, HookInterruptTimer
  PROVE  NmiInv'
<1>1. CASE ~in_spec
  BY <1>1, LeaveNmiStep
<1>2. CASE in_spec
  <2> DEFINE x == U("restart_irq", RESTART_TIMER, Op.a)
  <2>1. /\ todo # << >> /\ Op.op = "hook_interrupt_timer" /\ mem' = mem
        /\ UNCHANGED <<handler, in_spec, logVars>> /\ init_done
    BY <1>2, ModeFacts DEF HookInterruptTimer, At, Op, mvars, modeVars
  <2>2. TypeOK /\ TodoInv /\ Allowed(Op, irq, handler, in_spec, init_done) /\ Op \in Elems(todo)
    BY <2>1, TodoFacts DEF Safe
  <2>3. handler
    BY <2>1, <2>2 DEF Allowed, InterruptOps
  <2>4. regs' = CheckpointRegs /\ Continue(<<x>>)
    BY <1>2, <2>1 DEF HookInterruptTimer
  <2>5. Op.a \in 1..(StackSize - 2) /\ Op.a \in Int
    <3>1. Op.a \in 1..(StackSize - 2)
      BY <2>1, <2>2 DEF NmiInv, TopInv, InStack
    <3> QED  BY <3>1, MachineAssumption
  <2>6. x \in MicroOp /\ x.op = "restart_irq" /\ x.n = Op.a
    BY <2>5 DEF U, MicroOp, OpNames, RESTART_TIMER
  <2> HIDE DEF x
  <2> DEFINE s == <<x>>
  <2>7. s \in Seq(MicroOp) /\ Elems(s) = {x} /\ Continue(s)
    BY <2>4, <2>6, Seq1, Short
  <2> HIDE DEF s
  <2>8. \A y \in Elems(s) : y.op \notin Opening \cup {"add", "new_checkpoint"} /\ InStack(y)
    BY <2>5, <2>6, <2>7 DEF Opening, InStack
  <2>9. NmiLogInv'
    BY <2>1, NmiLogStays
  <2> QED  BY <1>2, <2>1, <2>3, <2>4, <2>7, <2>8, <2>9, RollbackNmi
<1> QED  BY <1>1, <1>2

\* An entry leaves the log: if it is the first of ignore_nmis, it is written back.
LEMMA PopNmi ==
  ASSUME TypeOK, NmiInv, in_spec, wl_pos > 0, wl_pos' = wl_pos - 1, UNCHANGED <<wl_addrs, wl_data>>,
         mem'[IgnoreNmis] = IF wl_addrs[wl_pos - 1] = IgnoreNmis THEN wl_data[wl_pos - 1] ELSE mem[IgnoreNmis]
  PROVE  NmiLogInv'
<1>1. wl_pos \in Nat
  BY DEF TypeOK, LogType
<1>2. \A n : Unlogged(n)' <=> Unlogged(n)
  BY DEF Unlogged
<1>3. Unlogged(wl_pos)' <=> Unlogged(wl_pos - 1)
  BY DEF Unlogged
<1>4. \A k \in 0..(wl_pos' - 1) : k \in 0..(wl_pos - 1)
  BY <1>1
<1>5. \A k \in 0..(wl_pos - 1) : wl_addrs[k] = IgnoreNmis /\ Unlogged(k) => wl_data[k] = 1
  BY DEF NmiInv, NmiLogInv
<1>6. Unlogged(wl_pos) => mem[IgnoreNmis] = 1
  BY DEF NmiInv, NmiLogInv
<1>7. ASSUME Unlogged(wl_pos - 1) PROVE mem'[IgnoreNmis] = 1
  <2>1. CASE wl_addrs[wl_pos - 1] = IgnoreNmis
    <3>1. wl_pos - 1 \in 0..(wl_pos - 1)
      BY <1>1
    <3> QED  BY <1>5, <1>7, <2>1, <3>1
  <2>2. CASE wl_addrs[wl_pos - 1] # IgnoreNmis
    <3>1. \A k \in 0..(wl_pos - 1) : k = wl_pos - 1 \/ k \in 0..((wl_pos - 1) - 1)
      BY <1>1
    <3>2. Unlogged(wl_pos)
      BY <1>7, <2>2, <3>1 DEF Unlogged
    <3> QED  BY <1>6, <2>2, <3>2
  <2> QED  BY <2>1, <2>2
<1>8. \A k \in 0..(wl_pos' - 1) : wl_addrs'[k] = IgnoreNmis /\ Unlogged(k)' => wl_data'[k] = 1
  BY <1>2, <1>4, <1>5
<1>9. Unlogged(wl_pos)' => mem'[IgnoreNmis] = 1
  BY <1>3, <1>7
<1>10. \A k : Unlogged(k)' <=> \A j \in 0..(k - 1) : wl_addrs'[j] # IgnoreNmis
  BY DEF Unlogged
<1> QED  BY <1>8, <1>9, <1>10 DEF NmiLogInv

\* One pass of the restore.
LEMMA UndoNmi ==
  ASSUME Safe, NmiInv, Undo
  PROVE  NmiInv'
<1>1. /\ todo # << >> /\ Op.op = "undo" /\ UNCHANGED <<in_spec, wl_addrs, wl_data>>
  BY DEF Undo, At, Op, modeVars
<1>2. /\ TypeOK /\ TodoInv /\ Allowed(Op, irq, handler, in_spec, init_done) /\ Op \in Elems(todo)
      /\ Elems(todo) = {Op} \cup Elems(Rest) /\ Rest \in Seq(MicroOp)
  BY <1>1, TodoFacts DEF Safe
<1>3. in_spec /\ Op.op \in RollbackOps /\ mem \in [Words -> Int]
  BY <1>1, <1>2 DEF Allowed, RollbackOps, TypeOK, MachineType
<1>4. Op.a \in 1..(StackSize - 2) /\ NestedTop(Op.a) \in 1..(StackSize - 2)
  <2>1. Op.a \in 1..(StackSize - 2)
    BY <1>1, <1>2 DEF NmiInv, TopInv, InStack
  <2> QED  BY <2>1, MachineAssumption DEF NestedTop
<1>5. Has(Rest, "finish") /\ Has(todo, "finish")
  <2>1. Rest # << >> /\ Head(Rest).op = "finish"
    BY <1>1 DEF Safe, LogInv, Rest
  <2> QED  BY <1>2, <2>1, ElemsTail DEF Has
<1> DEFINE w == wl_addrs[wl_pos - 1]
<1>6. CASE wl_pos = 0 /\ Continue(<< >>) /\ UNCHANGED <<mem, irqVars, wl_pos>>
  <2> DEFINE s == << >>
  <2>1. s \in Seq(MicroOp) /\ Elems(s) = {} /\ Continue(s)
    BY <1>6, SeqEmpty, Short
  <2>2. todo' = Rest
    BY <1>2, <1>6 DEF Continue, Rest
  <2> HIDE DEF s
  <2>3. handler' = handler /\ regs' = regs /\ Has(todo', "finish") /\ UNCHANGED logVars
    BY <1>1, <1>5, <1>6, <2>2 DEF irqVars, logVars
  <2>4. NmiLogInv'
    BY <1>1, <1>6, <2>3, NmiLogStays
  <2> QED  BY <1>1, <1>3, <2>1, <2>3, <2>4, RollbackNmi
<1>7. ASSUME UNCHANGED <<todo, irqVars>>, NmiLogInv' PROVE NmiInv'
  <2>1. handler' = handler /\ regs' = regs /\ todo' = todo
    BY <1>7 DEF irqVars
  <2>2. BalanceInv' /\ CoverInv'
    BY <1>1, <1>3, <1>5, <2>1 DEF BalanceInv, CoverInv
  <2>3. TopInv'
    BY <2>1 DEF NmiInv, TopInv, InStack
  <2>4. NmiCodeInv'
    BY <1>1, <2>1 DEF NmiInv, NmiCodeInv, Balanced, CkptCovered, NmiOrdered, NmiPrecedes, Adds, Has,
                      Covers, IsReturn, Blocks, Op
  <2> QED  BY <1>7, <2>2, <2>3, <2>4 DEF NmiInv
<1>8. CASE wl_pos > 0 /\ Skipped(w, Op.a, Op.n) /\ wl_pos' = wl_pos - 1 /\ UNCHANGED <<todo, mem, irqVars>>
  <2>1. w # IgnoreNmis
    <3>1. Op.a + 1 \in 1..StackSize /\ Op.a + 2 \in 1..StackSize
      BY <1>4, MachineAssumption
    <3> QED  BY <1>8, <3>1, NmiWord DEF Skipped
  <2>2. NmiLogInv'
    BY <1>1, <1>2, <1>3, <1>8, <2>1, PopNmi
  <2> QED  BY <1>7, <1>8, <2>2
<1>9. CASE /\ wl_pos > 0 /\ w \in ReadOnly /\ wl_pos' = wl_pos - 1
           /\ Exception(RESTART_PAGE_FAULT, NestedTop(Op.a))
  <2>1. BalanceInv' /\ NmiCodeInv' /\ CoverInv' /\ TopInv' /\ mem'[IgnoreNmis] = mem[IgnoreNmis]
    BY <1>1, <1>3, <1>4, <1>9, ExceptionNmi DEF RESTART_PAGE_FAULT
  <2>2. w # IgnoreNmis
    BY <1>9, NmiWord
  <2>3. NmiLogInv'
    BY <1>1, <1>2, <1>3, <1>9, <2>1, <2>2, PopNmi
  <2> QED  BY <2>1, <2>3 DEF NmiInv
<1>10. CASE /\ wl_pos > 0 /\ wl_pos' = wl_pos - 1
            /\ mem' = [mem EXCEPT ![w] = wl_data[wl_pos - 1]] /\ UNCHANGED <<todo, irqVars>>
  <2>1. mem'[IgnoreNmis] = IF w = IgnoreNmis THEN wl_data[wl_pos - 1] ELSE mem[IgnoreNmis]
    BY <1>3, <1>10, NmiWord
  <2>2. NmiLogInv'
    BY <1>1, <1>2, <1>3, <1>10, <2>1, PopNmi
  <2> QED  BY <1>7, <1>10, <2>2
<1> QED  BY <1>6, <1>8, <1>9, <1>10, Zenon DEF Undo

\* The end of a speculation: the checkpoint was inside stop_nmi, and so is the
\* code behind it.
LEMMA FinishNmi ==
  ASSUME Safe, NmiInv, Finish
  PROVE  NmiInv'
<1>1. /\ todo # << >> /\ status = "running" /\ Op.op = "finish" /\ ~in_spec' /\ mem' = FinishMem
      /\ UNCHANGED <<handler, regs>>
  BY DEF Finish, At, Op, irqVars
<1>2. /\ TypeOK /\ TodoInv /\ Rest \in Seq(MicroOp) /\ Elems(todo) = {Op} \cup Elems(Rest)
      /\ NmiOrdered(Rest) /\ CkptCovered(Rest) /\ Allowed(Op, irq, handler, in_spec, init_done)
  BY <1>1, NmiFacts, TodoFacts
<1>3. in_spec /\ Op.op \in RollbackOps
  BY <1>1, <1>2 DEF Allowed, RollbackOps
<1>4. mem'[IgnoreNmis] = 1
  <2>1. wl_pos = 0
    BY <1>1 DEF Safe, LogInv
  <2>2. Unlogged(wl_pos)
    BY <2>1 DEF Unlogged
  <2>3. mem[IgnoreNmis] = 1
    BY <1>3, <2>2 DEF NmiInv, NmiLogInv
  <2>4. wl_base \in 1..MaxSp /\ mem \in [Words -> Int]
    BY <1>2 DEF TypeOK, CkptType, MachineType
  <2>5. Frame(wl_base) # IgnoreNmis
    BY <2>4, NmiWord
  <2> QED  BY <1>1, <2>3, <2>4, <2>5, NmiWord DEF FinishMem
<1>5. NmiLogInv' /\ CoverInv'
  BY <1>1 DEF NmiLogInv, CoverInv
<1>6. CASE handler
  <2>1. Continue(<< >>) /\ Op.a = 1
    BY <1>1, <1>2, <1>6 DEF Finish, Allowed
  <2>2. todo' = Rest
    BY <1>2, <2>1 DEF Continue, Rest
  <2>3. /\ \A x \in Elems(Rest) : x.op # "add"
        /\ Balanced(todo) /\ Balanced(regs.todo) /\ (regs.pc = NoInstr \/ Blocks(regs.todo) = 1)
    BY <1>2, <1>3, <1>6 DEF NmiInv, NmiCodeInv
  <2>4. ~Adds(Rest, 1) /\ ~Adds(Rest, -1) /\ ~Has(Rest, "new_checkpoint") /\ ~Adds(todo, -1)
    BY <1>1, <1>2, <2>3 DEF Adds, Balanced, Has
  <2>5. Balanced(Rest) /\ Blocks(Rest) = 0
    BY <1>2, <2>3, <2>4 DEF Balanced, Blocks
  <2>6. NmiCodeInv'
    BY <1>1, <1>2, <1>6, <2>2, <2>3, <2>5 DEF NmiCodeInv
  <2>7. BalanceInv'
    <3>1. regs'.pc # NoInstr => Blocks(regs.todo)' = 1
      BY <1>1, <2>3 DEF Blocks, Adds
    <3>2. Blocks(todo)' = 0
      BY <2>2, <2>5 DEF Blocks, Adds
    <3> HIDE DEF Blocks
    <3> QED  BY <1>1, <1>4, <1>6, <3>1, <3>2 DEF BalanceInv
  <2>8. TopInv'
    BY <1>2, <2>2 DEF NmiInv, TopInv, InStack
  <2> QED  BY <1>5, <2>6, <2>7, <2>8 DEF NmiInv
<1>7. CASE ~handler
  <2>1. Resume(kregs) /\ todo' = ResumeOps
    BY <1>1, <1>2, <1>7 DEF Finish, Allowed
  <2>2. Balanced(ResumeOps) /\ CkptCovered(ResumeOps) /\ (kregs.pc # NoInstr => Blocks(ResumeOps) = 1)
    BY <1>2, ResumeNmi
  <2>3. status' = "running" => kregs.pc # NoInstr
    BY <2>1 DEF Resume
  <2>4. status' = "running" => Blocks(todo)' = 1
    BY <2>1, <2>2, <2>3 DEF Blocks, Adds
  <2>5. NmiCodeInv'
    BY <1>1, <1>7, <2>1, <2>2 DEF NmiCodeInv
  <2>6. BalanceInv'
    <3> HIDE DEF Blocks
    <3> QED  BY <1>1, <1>4, <1>7, <2>4 DEF BalanceInv
  <2>7. TopInv'
    <3>1. \A x \in Elems(ResumeOps) : x.op \notin FirstOps
      <4>1. CASE kregs.pc = NoInstr
        BY <4>1, Short DEF ResumeOps
      <4>2. CASE kregs.pc # NoInstr
        <5>1. kregs.pc \in DOMAIN prog /\ prog \in Programs /\ kregs.flags \in BOOLEAN
          BY <1>2, <4>2 DEF TypeOK, CkptType, SavedPc, MachineType
        <5>2. prog[kregs.pc] \in Instr
          BY <5>1, ProgramFacts
        <5>3. Restoring(ResumeOps, AfterOps)
          BY <4>2, <5>1, <5>2, AfterNmi DEF ResumeOps
        <5> QED  BY <5>3 DEF Restoring, AfterOps, LeaveOps, NmiOps, FirstOps
      <4> QED  BY <4>1, <4>2
    <3> QED  BY <2>1, <3>1 DEF TopInv, InStack, FirstOps
  <2> QED  BY <1>5, <2>5, <2>6, <2>7 DEF NmiInv
<1> QED  BY <1>6, <1>7

\* The code of an instruction, or of the debugfs file enable.
LEMMA FreshNmi ==
  ASSUME NmiInv, todo = << >>, ~handler, todo' \in Seq(MicroOp),
         \A x \in Elems(todo') : x.op \notin FirstOps \cup {"add", "new_checkpoint"},
         UNCHANGED <<mem, status, handler, in_spec, logVars>>
  PROVE  NmiInv'
<1>1. Elems(todo) = {}
  BY Short
<1>2. NmiPiece(todo') /\ Balanced(todo')
  BY NmiFree
<1>3. BalanceInv'
  <2>1. Blocks(todo)' = 0 /\ Blocks(todo) = 0 /\ ~Has(todo, "finish")
    BY <1>1 DEF Blocks, Adds, Has
  <2>2. (handler' <=> handler) /\ status' = status /\ (in_spec' <=> in_spec) /\ mem' = mem
    OBVIOUS
  <2>3. BalanceInv
    BY DEF NmiInv
  <2> HIDE DEF Blocks
  <2> QED  BY <2>1, <2>2, <2>3 DEF BalanceInv
<1>4. NmiCodeInv'
  BY <1>2 DEF NmiCodeInv, NmiPiece
<1>5. NmiLogInv'
  BY NmiLogStays
<1>6. CoverInv'
  BY <1>2 DEF CoverInv, NmiPiece
<1>7. TopInv'
  BY DEF TopInv, InStack, FirstOps
<1> QED  BY <1>3, <1>4, <1>5, <1>6, <1>7 DEF NmiInv

LEMMA FetchNmi ==
  ASSUME Safe, NmiInv, Fetch \/ Enable
  PROVE  NmiInv'
<1>1. /\ todo = << >> /\ ~handler /\ UNCHANGED <<mem, status, handler, in_spec, logVars>>
  BY DEF Fetch, Enable, AtInstruction, mvars, modeVars, irqVars
<1>2. CASE Fetch
  <2>1. FetchFacts(todo', prog[pc])
    BY <1>2, TextFacts DEF Safe, Fetch
  <2>2. /\ todo' \in Seq(MicroOp)
        /\ \A x \in Elems(todo') : x.op \notin FirstOps \cup {"add", "new_checkpoint"}
    BY <2>1 DEF FetchFacts, Made, Sound, HookOps, FirstOps
  <2> QED  BY <1>1, <2>2, FreshNmi
<1>3. CASE Enable
  <2> DEFINE x == U("enter_init", 0, 0)
  <2>1. todo' = <<x>> /\ x \in MicroOp /\ x.op = "enter_init"
    BY <1>3 DEF Enable, U, MicroOp, OpNames
  <2> HIDE DEF x
  <2>2. todo' \in Seq(MicroOp) /\ Elems(todo') = {x}
    BY <2>1, Seq1, Short
  <2>3. \A y \in Elems(todo') : y.op \notin FirstOps \cup {"add", "new_checkpoint"}
    BY <2>1, <2>2 DEF FirstOps
  <2> QED  BY <1>1, <2>2, <2>3, FreshNmi
<1> QED  BY <1>2, <1>3

\* The interrupted code is kept for the handler's return.
LEMMA TimerNmi ==
  ASSUME Safe, NmiInv, TimerInterrupt
  PROVE  NmiInv'
<1> DEFINE h == U("hook_interrupt_timer", sp, 0)
           t == U("tick", sp, 0)
           r == U("hook_restart", RESTART_RETURN, 0)
           q == U("iret", sp, 0)
<1>1. /\ status = "running" /\ ~handler /\ handler'
      /\ regs'.pc = pc /\ regs'.todo = todo /\ todo' = <<h, t, r, q>>
      /\ mem' = Write(mem, {Frame(sp + 1), Frame(sp + 2)}, RtMark)
      /\ UNCHANGED <<status, in_spec, logVars>>
  BY DEF TimerInterrupt, modeVars
<1>2. sp \in 1..(StackSize - 2) /\ sp \in Int
  <2>1. sp \in 1..MaxSp
    BY DEF Safe, TypeOK, MachineType
  <2> QED  BY <2>1, NmiWord, MachineAssumption
<1>3. /\ h.op = "hook_interrupt_timer" /\ h.a = sp /\ t.op = "tick" /\ r.op = "hook_restart" /\ q.op = "iret"
      /\ h \in MicroOp /\ t \in MicroOp /\ r \in MicroOp /\ q \in MicroOp
  BY <1>2 DEF U, MicroOp, OpNames, RESTART_RETURN
<1> HIDE DEF h, t, r, q
<1>4. Elems(todo') = {h, t, r, q} /\ Head(todo') = h /\ todo' \in Seq(MicroOp)
  <2>1. /\ Precedes(h, t) /\ Precedes(h, r) /\ Precedes(h, q)
        /\ Precedes(t, r) /\ Precedes(t, q) /\ Precedes(r, q)
    BY <1>3 DEF Precedes, LastOps, FirstOps, CheckpointOps, IsReturn, RestartOps
  <2>2. <<h, t, r, q>> \in Seq(MicroOp)
    BY <1>3, Seq4
  <2> QED  BY <1>1, <2>1, <2>2, Short4
<1>5. \A x \in Elems(todo') : x.op \notin {"add", "new_checkpoint"}
  BY <1>3, <1>4
<1>6. Balanced(todo') /\ CkptCovered(todo')
  BY <1>4, <1>5, NmiFree DEF NmiPiece
<1>7. mem'[IgnoreNmis] = mem[IgnoreNmis]
  BY <1>1, <1>2, MarkNmi
<1>8. BalanceInv'
  <2> SUFFICES ASSUME ~in_spec
               PROVE  mem'[IgnoreNmis] = Blocks(todo)' + Blocks(regs.todo)'
    BY <1>1 DEF BalanceInv, Blocks, Adds
  <2>1. mem[IgnoreNmis] = Blocks(todo)
    <3>1. mem[IgnoreNmis] = Blocks(todo) + 0
      BY <1>1 DEF NmiInv, BalanceInv
    <3>2. Blocks(todo) \in Int
      BY DEF Blocks
    <3> HIDE DEF Blocks
    <3> QED  BY <3>1, <3>2
  <2>2. Blocks(todo)' = 0 /\ Blocks(regs.todo)' = Blocks(todo) /\ Blocks(todo) \in Int
    BY <1>1, <1>5 DEF Blocks, Adds
  <2> HIDE DEF Blocks
  <2> QED  BY <1>7, <2>1, <2>2
<1>9. NmiCodeInv'
  <2>1. Balanced(regs.todo)'
    BY <1>1 DEF NmiInv, NmiCodeInv, Balanced, NmiOrdered, NmiPrecedes, Adds, Has
  <2>2. Op'.op \notin RollbackOps
    BY <1>3, <1>4 DEF Op, RollbackOps
  <2> QED  BY <1>5, <1>6, <2>1, <2>2 DEF NmiCodeInv
<1>10. NmiLogInv'
  BY <1>1, <1>7, NmiLogStays
<1>11. CoverInv'
  BY <1>1 DEF CoverInv
<1>12. TopInv'
  BY <1>2, <1>3, <1>4 DEF TopInv, InStack
<1> QED  BY <1>8, <1>9, <1>10, <1>11, <1>12 DEF NmiInv

\* The handler returns, outside speculation.
LEMMA IretNmi ==
  ASSUME Safe, Thread, NmiInv, Iret
  PROVE  NmiInv'
<1>1. /\ todo # << >> /\ status = "running" /\ Op.op = "iret" /\ ~handler' /\ Resume(regs)
      /\ todo' = regs.todo /\ UNCHANGED <<mem, in_spec>>
  BY DEF Iret, At, Op, modeVars
<1>2. TypeOK /\ TodoInv /\ RegsInv /\ SaveInv
  BY DEF Safe, Thread
<1>3. handler /\ Elems(todo) = {Op}
  <2>1. /\ Allowed(Op, irq, handler, in_spec, init_done) /\ Elems(todo) = {Op} \cup Elems(Rest)
        /\ \A y \in Elems(Rest) : Precedes(Op, y)
    BY <1>1, <1>2, TodoFacts
  <2> QED  BY <1>1, <2>1 DEF Allowed, InterruptOps, Precedes, LastOps
<1>4. ~in_spec
  <2>1. Op.op \notin RollbackOps \cup {"hook_interrupt_timer"}
    BY <1>1 DEF RollbackOps
  <2> QED  BY <1>1, <1>3, <2>1, ModeFacts
<1>5. status' = "running" => regs.pc # NoInstr
  BY <1>1 DEF Resume
<1>6. BalanceInv'
  <2> SUFFICES ASSUME status' = "running" PROVE mem'[IgnoreNmis] = Blocks(todo)' + 0
    BY <1>1 DEF BalanceInv, Blocks, Adds
  <2>1. Blocks(todo) = 0 /\ Blocks(regs.todo) \in Int /\ Blocks(todo)' = Blocks(regs.todo)
    BY <1>1, <1>3 DEF Blocks, Adds
  <2>2. mem[IgnoreNmis] = Blocks(todo) + Blocks(regs.todo)
    BY <1>1, <1>3, <1>4, <1>5 DEF NmiInv, BalanceInv
  <2> HIDE DEF Blocks
  <2> QED  BY <1>1, <2>1, <2>2
<1>7. NmiCodeInv'
  <2>1. Balanced(regs.todo)
    BY <1>3 DEF NmiInv, NmiCodeInv
  <2>2. CkptCovered(regs.todo)
    <3>1. \A k \in DOMAIN regs.todo : regs.todo[k].op # "new_checkpoint"
      BY <1>2, <1>3 DEF SaveInv, Has, Elems
    <3> QED  BY <3>1 DEF CkptCovered
  <2> QED  BY <1>1, <2>1, <2>2 DEF NmiCodeInv
<1>8. NmiLogInv' /\ CoverInv'
  BY <1>1, <1>4 DEF NmiLogInv, CoverInv
<1>9. TopInv'
  <2>1. \A x \in Elems(regs.todo) : x.op \notin RollbackOps /\ x.op \notin InterruptOps
    BY <1>2, <1>3 DEF RegsInv, Code, Allowed
  <2> QED  BY <1>1, <2>1 DEF TopInv, InStack, RollbackOps, InterruptOps
<1> QED  BY <1>6, <1>7, <1>8, <1>9 DEF NmiInv

LEMMA NmiStays ==
  ASSUME NmiInv, UNCHANGED <<mem, status, todo, handler, regs, in_spec, logVars>>
  PROVE  NmiInv'
<1>1. /\ (handler' <=> handler) /\ regs' = regs /\ todo' = todo /\ mem' = mem /\ status' = status
      /\ (in_spec' <=> in_spec) /\ UNCHANGED <<wl_addrs, wl_data, wl_pos>>
  BY DEF logVars
<1>2. BalanceInv'
  BY <1>1 DEF NmiInv, BalanceInv, Blocks, Adds, Has
<1>3. NmiCodeInv'
  BY <1>1 DEF NmiInv, NmiCodeInv, Balanced, CkptCovered, NmiOrdered, NmiPrecedes, Adds, Has,
              Covers, IsReturn, Blocks, Op
<1>4. NmiLogInv'
  BY NmiLogStays
<1>5. CoverInv'
  BY <1>1 DEF NmiInv, CoverInv, Covered, Covers, IsReturn, Has, Unlogged
<1>6. TopInv'
  BY <1>1 DEF NmiInv, TopInv, InStack
<1> QED  BY <1>2, <1>3, <1>4, <1>5, <1>6 DEF NmiInv

LEMMA HaltNmi ==
  ASSUME NmiInv, Halt
  PROVE  NmiInv'
<1>1. /\ (handler' <=> handler) /\ regs' = regs /\ todo' = todo /\ mem' = mem /\ status' # "running"
      /\ (in_spec' <=> in_spec) /\ UNCHANGED <<wl_addrs, wl_data, wl_pos>>
  BY HaltFacts
<1>2. BalanceInv'
  BY <1>1 DEF BalanceInv
<1>3. NmiCodeInv'
  BY <1>1 DEF NmiInv, NmiCodeInv, Balanced, CkptCovered, NmiOrdered, NmiPrecedes, Adds, Has,
              Covers, IsReturn, Blocks, Op
<1>4. NmiLogInv'
  BY <1>1 DEF NmiInv, NmiLogInv, Unlogged
<1>5. CoverInv'
  BY <1>1 DEF NmiInv, CoverInv, Covered, Covers, IsReturn, Has, Unlogged
<1>6. TopInv'
  BY <1>1 DEF NmiInv, TopInv, InStack
<1> QED  BY <1>2, <1>3, <1>4, <1>5, <1>6 DEF NmiInv

-----------------------------------------------------------------------------
(* The invariant of ignore_nmis *)

LEMMA NmiInit == Init => NmiInv
<1> SUFFICES ASSUME Init PROVE NmiInv
  OBVIOUS
<1>1. todo = << >> /\ ~in_spec /\ ~handler /\ MInit
  BY DEF Init
<1>2. Elems(todo) = {} /\ todo \in Seq(MicroOp)
  BY <1>1, Short, SeqEmpty
<1>3. Balanced(todo) /\ CkptCovered(todo)
  BY <1>2, NmiFree DEF NmiPiece
<1>4. mem[IgnoreNmis] = 0 /\ Blocks(todo) = 0
  BY <1>1, <1>2, NmiWord DEF MInit, Blocks, Adds
<1>5. BalanceInv
  <2> HIDE DEF Blocks
  <2> QED  BY <1>1, <1>4 DEF BalanceInv
<1> QED  BY <1>1, <1>2, <1>3, <1>5 DEF NmiInv, NmiCodeInv, NmiLogInv, CoverInv, TopInv

LEMMA NmiNext == ASSUME ~Nmis PROVE Safe /\ Thread /\ NmiInv /\ [Next]_vars => NmiInv'
<1> SUFFICES ASSUME Safe, Thread, NmiInv, [Next]_vars PROVE NmiInv'
  OBVIOUS
<1>1. CASE Fetch \/ Enable
  BY <1>1, FetchNmi
<1>2. CASE Exec
  BY <1>2, ExecNmi
<1>3. CASE \/ HookStore \/ HookMemcpy \/ HookRestart \/ HookCheckSpecLength \/ HookCheckCallDepth
           \/ HookNewCheckpoint
  BY <1>3, HookNmi
<1>4. CASE Enter
  BY <1>4, EnterNmi
<1>5. CASE IrqRestore \/ UnsetRt \/ SaveStack \/ SaveRegisters \/ Select \/ InitDone \/ HandleTick
  BY <1>5, LeaveNmiStep
<1>6. CASE SetWord
  <2>1. Op.op = "set" \/ Op.op = "add"
    BY <1>6 DEF SetWord, At, Op
  <2> QED  BY <1>6, <2>1, LeaveNmiStep, AddNmi
<1>7. CASE NewCheckpoint
  BY <1>7, NewCheckpointNmi
<1>8. CASE Memcpy
  BY <1>8, MemcpyNmi
<1>9. CASE LogWord
  BY <1>9, LogNmi
<1>10. CASE Restart
  BY <1>10, RestartNmi
<1>11. CASE RestartIrq
  BY <1>11, RestartIrqNmi
<1>12. CASE Undo
  BY <1>12, UndoNmi
<1>13. CASE Finish
  BY <1>13, FinishNmi
<1>14. CASE HookInterruptTimer
  BY <1>14, TimerHookNmi
<1>15. CASE Iret
  BY <1>15, IretNmi
<1>16. CASE InitData
  BY <1>16, InitDataNmi
<1>17. CASE TimerInterrupt
  BY <1>17, TimerNmi
<1>18. CASE SavePartly \/ Nmi \/ NmiInUndo \/ NmiBetweenFlags
  BY <1>18 DEF SavePartly, Nmi, NmiInUndo, NmiBetweenFlags
<1>20. CASE UndoInUse
  BY <1>20, HaltNmi DEF Halt
<1>19. CASE SetSpecEnabled \/ UNCHANGED vars
  BY <1>19, NmiStays DEF SetSpecEnabled, vars, mvars, modeVars, irqVars
<1> QED
  BY <1>1, <1>2, <1>3, <1>4, <1>5, <1>6, <1>7, <1>8, <1>9, <1>10, <1>11, <1>12, <1>13, <1>14,
     <1>15, <1>16, <1>17, <1>18, <1>19, <1>20 DEF Next, Cpu, Environment, Done

LEMMA NmiAlways == ASSUME ~Nmis PROVE Spec => [](Safe /\ Thread /\ NmiInv)
<1>1. Init => NmiInv
  BY NmiInit
<1>2. Safe /\ Thread /\ NmiInv /\ [Next]_vars => NmiInv'
  BY NmiNext
<1>3. Spec => [](Safe /\ Thread)
  BY ThreadAlways
<1> QED  BY <1>1, <1>2, <1>3, PTL DEF Spec

\* Whenever an instruction of the program is next, in speculation or not,
\* ignore_nmis is zero, no condition is left inverted and no hook takes itself
\* for one of the runtime, with faults of the restore, timer interrupts and a
\* full log (stop_nmi and restart_nmi against kspecem_restart, which gives NMIs
\* back by the write log alone).  An NMI in a pass of kspecem_restore_writelog
\* can lose the entry that does, so there are none here.
THEOREM RuntimeAlwaysReleased == ASSUME ~Nmis PROVE Spec => []RuntimeReleased
<1>1. Safe /\ Thread /\ NmiInv => RuntimeReleased
  <2> SUFFICES ASSUME Safe, Thread, NmiInv, AtInstruction
               PROVE  mem[IgnoreNmis] = 0 /\ mem[SwapCondition] = 0 /\ ~in_rt
    BY DEF RuntimeReleased
  <2>1. todo = << >> /\ Elems(todo) = {} /\ ~handler /\ status = "running"
    BY Short DEF AtInstruction
  <2>2. mem[SwapCondition] = 0 /\ ~in_rt
    BY <2>1 DEF Thread, SwapInv, LeaveInv, Leaves, Has
  <2>3. Blocks(todo) = 0 /\ ~Has(todo, "finish")
    BY <2>1 DEF Blocks, Adds, Has
  <2>4. mem[IgnoreNmis] = Blocks(todo) + 0
    BY <2>1, <2>3 DEF NmiInv, BalanceInv
  <2> HIDE DEF Blocks
  <2> QED  BY <2>2, <2>3, <2>4
<1> QED  BY <1>1, NmiAlways, PTL
=============================================================================
