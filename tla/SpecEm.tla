------------------------------- MODULE SpecEm -------------------------------
(****************************************************************************)
(* Kasper's speculative emulation: a thread of an instrumented kernel and   *)
(* the runtime (static/kspecem) its hooks call.                             *)
(*                                                                          *)
(* The code between two instructions of the program is a sequence, todo, of *)
(* micro-operations: one for every step at which an interrupt or a fault    *)
(* may intervene or that another hook can be nested in.  todo is what is    *)
(* left of it, the machine's continuation; an instruction is fetched when   *)
(* todo is empty.                                                           *)
(*                                                                          *)
(* One CPU (nosmp), no preemption, and one speculation at a time.           *)
(****************************************************************************)
EXTENDS Machine

CONSTANTS
  WlMax,             \* entries of the write log (WRITELOG_MAXLEN * 2)
  MaxInstrs,         \* kspecem_max_speculative_instructions
  MaxDepth,          \* kspecem_max_call_depth
  RestartNmiInsts,   \* instructions of the only basic block of restart_nmi
  SwapStoreHooked,   \* KSpecEm runs after KSpecEmSpec and instruments its store
  LengthAfterKSpecEm,\* KSpecEmCheckSpecLength runs after KSpecEm
  LengthAfterSpec,   \* KSpecEmCheckSpecLength runs after KSpecEmSpec
  Nmis               \* there are non-maskable interrupts

RESTART_RETURN        == 0
RESTART_CALL_UNDEFINED == 2
RESTART_INLINE_ASM    == 3
RESTART_BLACKLIST     == 4
RESTART_TIMER         == 5
RESTART_EXCEPTION     == 6
RESTART_LIMIT_SPEC    == 7
RESTART_CALL_DEPTH    == 8
RESTART_WRITELOG_FULL == 10
RESTART_PAGE_FAULT    == 11

\* What KSpecEm puts before a call that cannot be emulated: an indirect call,
\* inline assembly that is not known to be harmless, a blacklisted function.
CallRestarts == {RESTART_CALL_UNDEFINED, RESTART_INLINE_ASM, RESTART_BLACKLIST}

ASSUME SpecEmAssumption ==
  /\ WlMax \in Nat /\ MaxInstrs \in Nat /\ MaxDepth \in Nat
  /\ RestartNmiInsts \in Nat
  /\ SwapStoreHooked \in BOOLEAN
  /\ LengthAfterKSpecEm \in BOOLEAN /\ LengthAfterSpec \in BOOLEAN /\ Nmis \in BOOLEAN
  /\ MaxSp + 6 <= StackSize                          \* room for two restores
  /\ \A p \in Programs : \A k \in DOMAIN p :
       p[k].op = "asm" => p[k].to \in CallRestarts   \* the restart type of its hook

VARIABLES
  todo,           \* the rest of the instrumentation at pc
  init_done,      \* kspecem_init_done
  swap_enabled,   \* kspecem_swap_branch_enabled
  in_spec,        \* kspecem_in_speculative_emulation
  wl_enabled,     \* kspecem_writelog_enabled
  in_rt,          \* kspecem_is_in_rt
  in_restart,     \* kspecem_is_in_restart
  wl_addrs,       \* kspecem_writelog_addrs
  wl_data,        \* kspecem_writelog_data
  wl_pos,         \* kspecem_wl_position
  instr_count,    \* kspecem_speculative_instr_count
  spec_depth,     \* kspecem_spec_call_depth
  kregs,          \* kspecem_registers, and the __irq_flags that come back with them
  wl_stack,       \* kspecem_wl_stack: the copy of the checkpoint's frame
  wl_base,        \* kspecem_wl_stack_base_address, as a frame number
  handler,        \* an interrupt or exception handler is running
  regs            \* its pt_regs; todo is the code at regs.pc

logVars   == <<wl_addrs, wl_data, wl_pos>>
ckptVars  == <<kregs, wl_stack, wl_base>>
modeVars  == <<in_spec, wl_enabled, in_restart>>
countVars == <<instr_count, spec_depth>>
irqVars   == <<handler, regs>>
cfgVars   == <<init_done, swap_enabled>>
cpuVars   == <<pc, sp, rets>>

vars == <<mvars, todo, cfgVars, modeVars, in_rt, logVars, countVars, ckptVars, irqVars>>

-----------------------------------------------------------------------------
(* Micro-operations *)

OpNames ==
  {"hook_store", "hook_memcpy", "hook_check_spec_length", "hook_check_call_depth",
   "hook_new_checkpoint", "hook_restart", "hook_interrupt_timer",
   "enter_store", "enter_memcpy", "enter_restart", "enter_checkpoint", "enter_init",
   "write_wl", "memcpy", "new_checkpoint", "save_stack", "save_registers",
   "restart", "restart_irq", "undo", "finish", "add", "set", "irq_restore",
   "unset_rt", "init_data", "init_done", "select", "exec", "tick", "iret"}

MicroOp == [op : OpNames, a : Int, n : Int]

U(op, a, n) == [op |-> op, a |-> a, n |-> n]

\* What the runtime's own frames and a pt_regs on the stack hold.
RtMark == -1

\* ignore_nmis++ and ignore_nmis--, in functions whose stores are instrumented
\* and of which only the second has a length hook.
stop_nmi    == <<U("hook_store", 8 * IgnoreNmis, 0), U("add", IgnoreNmis, 1)>>
restart_nmi == <<U("hook_store", 8 * IgnoreNmis, 0), U("add", IgnoreNmis, -1),
                 U("hook_check_spec_length", RestartNmiInsts, 0)>>

Flag(b) == IF b THEN 1 ELSE 0

LEAVE_KSPECEM_NONMI_RT(flags) == <<U("irq_restore", Flag(flags), 0), U("unset_rt", 0, 0)>>

LEAVE_KSPECEM_RT(flags) == restart_nmi \o LEAVE_KSPECEM_NONMI_RT(flags)

\* The load of the swap condition, the select and the store that clears it.
\* The pass loads and stores the bool as an i32: its neighbours are in the word.
SwapBranch ==
  <<U("select", 0, 0)>>
    \o (IF SwapStoreHooked THEN <<U("hook_store", 8 * SwapCondition, 0)>> ELSE << >>)
    \o <<U("set", SwapCondition, 0)>>

LengthHook(i, here) ==
  IF here THEN <<U("hook_check_spec_length", i.size, 0)>> ELSE << >>

\* The code after the call of kspecem_asm_save_registers in the branch i:
\* where a restart resumes.
AfterSaveRegisters(i, flags) ==
  LEAVE_KSPECEM_RT(flags) \o SwapBranch \o LengthHook(i, LengthAfterSpec)

\* The hooks that KSpecEm puts before an instruction ...
visitStoreInst(i)    == <<U("hook_store", i.addr, 0)>>
visitMemIntrinsic(i) == <<U("hook_memcpy", i.addr, i.size)>>
visitCallInst(i)     == <<U("hook_restart", i.to, 0)>>
visitReturnInst      == <<U("hook_restart", RESTART_RETURN, 0)>>

\* ... and KSpecEmSpec, at the start of a function and before a branch.
visitEntry           == <<U("hook_check_call_depth", 0, 0)>>
visitBranchInst      == <<U("hook_new_checkpoint", 0, 0)>>

\* The instruction pointer of registers that were never saved.
NoInstr == 0

\* The code of an instruction.  A branch is done by its hook's continuation.
Instrument(i) ==
  LET exec == <<U("exec", 0, 0)>> IN
  CASE i.op = "store"  -> visitStoreInst(i) \o exec
    [] i.op = "memset" -> visitMemIntrinsic(i) \o exec
    [] i.op = "asm"    -> visitCallInst(i) \o exec
    [] i.op = "entry"  -> visitEntry \o exec
    [] i.op = "jump"   -> LengthHook(i, TRUE) \o exec
    [] i.op = "ret"    -> LengthHook(i, ~LengthAfterKSpecEm) \o visitReturnInst
                            \o LengthHook(i, LengthAfterKSpecEm) \o exec
    [] i.op = "branch" -> LengthHook(i, ~LengthAfterSpec) \o visitBranchInst
    [] OTHER           -> exec

-----------------------------------------------------------------------------
Init ==
  /\ MInit
  /\ todo = << >>
  /\ init_done = FALSE
  /\ swap_enabled = TRUE
  /\ in_spec = FALSE
  /\ wl_enabled = FALSE
  /\ in_rt = FALSE
  /\ in_restart = FALSE
  /\ wl_addrs = [k \in 0..(WlMax - 1) |-> 0]
  /\ wl_data = [k \in 0..(WlMax - 1) |-> 0]
  /\ wl_pos = 0
  /\ instr_count = 0
  /\ spec_depth = 0
  /\ kregs = [pc |-> NoInstr, sp |-> 1, irq |-> FALSE, flags |-> TRUE]
  /\ wl_stack = 0
  /\ wl_base = 1
  /\ handler = FALSE
  /\ regs = [pc |-> NoInstr, sp |-> 1, irq |-> FALSE, todo |-> << >>]

\* Registers are loaded; the zeros of a kspecem_registers that was never saved
\* make the kernel fault.
Resume(r) ==
  IF r.pc = NoInstr
    THEN status' = "oops" /\ UNCHANGED <<pc, sp, irq>>
    ELSE pc' = r.pc /\ sp' = r.sp /\ irq' = r.irq /\ UNCHANGED status

At(op) == status = "running" /\ todo # << >> /\ Head(todo).op = op
Op     == Head(todo)

\* The current operation ends; the operations s replace it.
Continue(s) == todo' = s \o Tail(todo)

\* Between two instructions of the program.
AtInstruction == status = "running" /\ todo = << >> /\ ~handler

Fetch ==
  /\ AtInstruction
  /\ todo' = Instrument(prog[pc])
  /\ UNCHANGED <<mvars, cfgVars, modeVars, in_rt, logVars, countVars, ckptVars, irqVars>>

-----------------------------------------------------------------------------
(* Exceptions *)

\* A mutant: the thread resumes at the checkpoint, not behind it.
ResumeOps_Again == LEAVE_KSPECEM_RT(kregs.flags) \o <<U("hook_new_checkpoint", 0, 0)>>

\* The code at the saved instruction pointer.
ResumeOps ==
  IF kregs.pc = NoInstr THEN << >> ELSE AfterSaveRegisters(prog[kregs.pc], kregs.flags)

\* kspecem_registers as the pt_regs that iret loads.
CheckpointRegs ==
  [pc |-> kregs.pc, sp |-> kregs.sp, irq |-> kregs.irq, todo |-> ResumeOps]

\* An exception in speculation while frames 1..top are in use:
\* kspecem_hook_interrupt_exception replaces pt_regs, restarts and has the
\* handler return at once.
Exception(type, top) ==
  /\ regs' = CheckpointRegs
  /\ handler' = TRUE
  /\ irq' = FALSE
  /\ mem' = Write(mem, {Frame(top + 1), Frame(top + 2)}, RtMark)
  /\ todo' = <<U("restart_irq", type, top), U("iret", top, 0)>>

\* The program's own step: the instruction itself (for a branch, Select).
Exec ==
  /\ At("exec")
  /\ \/ /\ ~Faults
        /\ Straight
        /\ Continue(<< >>)
        /\ UNCHANGED irqVars
     \/ /\ Faults
        /\ ~in_spec
        /\ Oops
        /\ Continue(<< >>)
        /\ UNCHANGED irqVars
     \/ /\ Faults
        /\ in_spec
        /\ Exception(IF prog[pc].op = "trap" THEN RESTART_EXCEPTION ELSE RESTART_PAGE_FAULT, sp)
        /\ UNCHANGED <<prog, cpuVars, status>>
  /\ UNCHANGED <<cfgVars, modeVars, in_rt, logVars, countVars, ckptVars>>

-----------------------------------------------------------------------------
(* Entering and leaving the runtime *)

\* A mutant: the store hook stays out of the runtime, as most hooks do.
StoreHookActive_NotInRt == wl_enabled /\ init_done /\ ~in_rt

\* The store hooks also run for the runtime's stop_nmi and restart_nmi.
StoreHookActive == wl_enabled /\ init_done

\* The hooks' checks, up to kspecem_set_rt of ENTER_KSPECEM_RT.
HookStore ==
  /\ At("hook_store")
  /\ IF StoreHookActive
       THEN in_rt' = TRUE /\ Continue(<<U("enter_store", Op.a, 0)>>)
       ELSE Continue(<< >>) /\ UNCHANGED in_rt
  /\ UNCHANGED <<mvars, cfgVars, modeVars, logVars, countVars, ckptVars, irqVars>>

HookMemcpy ==
  /\ At("hook_memcpy")
  /\ IF StoreHookActive
       THEN in_rt' = TRUE /\ Continue(<<U("enter_memcpy", Op.a, Op.n)>>)
       ELSE Continue(<< >>) /\ UNCHANGED in_rt
  /\ UNCHANGED <<mvars, cfgVars, modeVars, logVars, countVars, ckptVars, irqVars>>

HookRestart ==
  /\ At("hook_restart")
  /\ IF init_done
       THEN in_rt' = TRUE /\ Continue(<<U("enter_restart", Op.a, 0)>>)
       ELSE Continue(<< >>) /\ UNCHANGED in_rt
  /\ UNCHANGED <<mvars, cfgVars, modeVars, logVars, countVars, ckptVars, irqVars>>

\* A mutant: the length of the last basic block only.
Lengthened_LastBlock(n) == n

Lengthened(n) == instr_count + n

HookCheckSpecLength ==
  /\ At("hook_check_spec_length")
  /\ IF in_spec /\ init_done /\ ~in_rt
       THEN /\ instr_count' = Lengthened(Op.a)
            /\ IF instr_count' >= MaxInstrs
                 THEN in_rt' = TRUE /\ Continue(<<U("enter_restart", RESTART_LIMIT_SPEC, 0)>>)
                 ELSE Continue(<< >>) /\ UNCHANGED in_rt
       ELSE Continue(<< >>) /\ UNCHANGED <<instr_count, in_rt>>
  /\ UNCHANGED <<mvars, cfgVars, modeVars, logVars, spec_depth, ckptVars, irqVars>>

\* A mutant: the hook also stays out of restarts.
DepthHookActive_NotInRestart == init_done /\ ~in_rt /\ wl_enabled /\ ~in_restart

DepthHookActive == init_done /\ ~in_rt /\ wl_enabled

TooDeep(d) == d >= MaxDepth

HookCheckCallDepth ==
  /\ At("hook_check_call_depth")
  /\ IF DepthHookActive
       THEN /\ spec_depth' = spec_depth + 1
            /\ IF TooDeep(spec_depth')
                 THEN in_rt' = TRUE /\ Continue(<<U("enter_restart", RESTART_CALL_DEPTH, 0)>>)
                 ELSE Continue(<< >>) /\ UNCHANGED in_rt
       ELSE Continue(<< >>) /\ UNCHANGED <<spec_depth, in_rt>>
  /\ UNCHANGED <<mvars, cfgVars, modeVars, logVars, instr_count, ckptVars, irqVars>>

\* A mutant: speculation nests.
MayCheckpoint_Nested == init_done /\ ~in_rt /\ ~handler /\ irq

MayCheckpoint == init_done /\ ~in_rt /\ ~handler /\ irq /\ ~in_spec

\* Without a checkpoint (-1) the branch falls through save_stack,
\* save_registers and leave_rt.  Whether the task is whitelisted is open.
HookNewCheckpoint ==
  /\ At("hook_new_checkpoint")
  /\ \/ /\ MayCheckpoint
        /\ in_rt' = TRUE
        /\ Continue(<<U("enter_checkpoint", 0, 0)>>)
     \/ /\ Continue(SwapBranch \o LengthHook(prog[pc], LengthAfterSpec))
        /\ UNCHANGED in_rt
  /\ UNCHANGED <<mvars, cfgVars, modeVars, logVars, countVars, ckptVars, irqVars>>

\* A mutant: an unaligned write logs its first word only.
WriteWl_FirstWord(addr) == <<U("write_wl", addr \div 8, 0)>>

\* The aligned words that kspecem_write_wl logs for a byte address, the
\* following word first when the address is not aligned.
WriteWl(addr) ==
  (IF addr % 8 # 0 THEN <<U("write_wl", addr \div 8 + 1, 0)>> ELSE << >>)
    \o <<U("write_wl", addr \div 8, 0)>>

\* local_irq_save of ENTER_KSPECEM_RT, then what the hook does up to its end.
Runtime(o, flags) ==
  CASE o.op = "enter_store"      -> WriteWl(o.a) \o LEAVE_KSPECEM_NONMI_RT(flags)
    [] o.op = "enter_memcpy"     -> stop_nmi \o <<U("memcpy", o.a - (o.a % 4), o.a + o.n)>>
                                      \o LEAVE_KSPECEM_RT(flags)
    [] o.op = "enter_restart"    -> stop_nmi \o <<U("restart", o.a, 0)>>
                                      \o LEAVE_KSPECEM_RT(flags)
    [] o.op = "enter_checkpoint" -> stop_nmi \o <<U("new_checkpoint", 0, 0), U("save_stack", 0, 0),
                                                  U("save_registers", Flag(flags), 0)>>
                                      \o AfterSaveRegisters(prog[pc], flags)
    [] o.op = "enter_init"       -> stop_nmi \o <<U("init_data", 0, 0)>>
                                      \o LEAVE_KSPECEM_RT(flags) \o <<U("init_done", 0, 0)>>

EnterOps == {"enter_store", "enter_memcpy", "enter_restart", "enter_checkpoint", "enter_init"}

Enter ==
  /\ \E op \in EnterOps : At(op)
  /\ irq' = FALSE
  /\ Continue(Runtime(Op, irq))
  /\ UNCHANGED <<prog, cpuVars, mem, status, cfgVars, modeVars, in_rt, logVars, countVars,
                 ckptVars, irqVars>>

IrqRestore ==
  /\ At("irq_restore")
  /\ irq' = (Op.a = 1)
  /\ Continue(<< >>)
  /\ UNCHANGED <<prog, cpuVars, mem, status, cfgVars, modeVars, in_rt, logVars, countVars,
                 ckptVars, irqVars>>

UnsetRt ==
  /\ At("unset_rt")
  /\ in_rt' = FALSE
  /\ Continue(<< >>)
  /\ UNCHANGED <<mvars, cfgVars, modeVars, logVars, countVars, ckptVars, irqVars>>

\* Stores of the instrumentation itself: ignore_nmis and the swap condition.
SetWord ==
  /\ At("add") \/ At("set")
  /\ mem' = [mem EXCEPT ![Op.a] = IF Op.op = "add" THEN @ + Op.n ELSE Op.n]
  /\ Continue(<< >>)
  /\ UNCHANGED <<prog, cpuVars, irq, status, cfgVars, modeVars, in_rt, logVars, countVars,
                 ckptVars, irqVars>>

-----------------------------------------------------------------------------
(* Checkpoints *)

NewCheckpoint ==
  /\ At("new_checkpoint")
  /\ instr_count' = 0
  /\ wl_pos' = 0
  /\ in_spec' = TRUE
  /\ mem' = IF swap_enabled THEN [mem EXCEPT ![SwapCondition] = 1] ELSE mem
  /\ spec_depth' = 0
  /\ wl_enabled' = TRUE
  /\ Continue(<< >>)
  /\ UNCHANGED <<prog, cpuVars, irq, status, cfgVars, in_rt, in_restart, wl_addrs, wl_data,
                 ckptVars, irqVars>>

\* A mutant: the copy of an earlier checkpoint is kept.
StackCopy_Stale == wl_stack

StackCopy == mem[Frame(sp)]

SaveStack ==
  /\ At("save_stack")
  /\ wl_base' = sp
  /\ wl_stack' = StackCopy
  /\ Continue(<< >>)
  /\ UNCHANGED <<mvars, cfgVars, modeVars, in_rt, logVars, countVars, kregs, irqVars>>

\* What an NMI finds of the two saves under way: the stack's base address is
\* set before its copy, the saved rsp before rip and both before eflags.
SavePartly ==
  /\ Nmis
  /\ \/ /\ At("save_stack")
        /\ wl_base' = sp
        /\ UNCHANGED kregs
     \/ /\ At("save_registers")
        /\ \E p \in {kregs.pc, pc} : kregs' = [kregs EXCEPT !.sp = sp, !.pc = p]
        /\ UNCHANGED wl_base
  /\ UNCHANGED <<mvars, todo, cfgVars, modeVars, in_rt, logVars, countVars, wl_stack, irqVars>>

SaveRegisters ==
  /\ At("save_registers")
  /\ kregs' = [pc |-> pc, sp |-> sp, irq |-> irq, flags |-> Op.a = 1]
  /\ Continue(<< >>)
  /\ UNCHANGED <<mvars, cfgVars, modeVars, in_rt, logVars, countVars, wl_stack, wl_base, irqVars>>

\* The branch, its condition inverted when the swap condition is set.
Select ==
  /\ At("select")
  /\ prog[pc].op = "branch"
  /\ pc' = Target(mem[SwapCondition] = 1)
  /\ Continue(<< >>)
  /\ UNCHANGED <<prog, sp, rets, mem, irq, status, cfgVars, modeVars, in_rt, logVars, countVars,
                 ckptVars, irqVars>>

-----------------------------------------------------------------------------
(* The write log *)

\* One pass of the loop of kspecem_memcpy, from byte address Op.a to Op.n.
Memcpy ==
  /\ At("memcpy")
  /\ Continue(IF Op.a < Op.n THEN WriteWl(Op.a) \o <<U("memcpy", Op.a + 8, Op.n)>> ELSE << >>)
  /\ UNCHANGED <<mvars, cfgVars, modeVars, in_rt, logVars, countVars, ckptVars, irqVars>>

\* Logging reads the word, which faults when its page is not mapped.
Unmapped(w) == w \notin Words \ NoAccess

\* A mutant: a full log drops the entry.
WhenFull_Drop == << >>

WhenFull == <<U("restart", RESTART_WRITELOG_FULL, 0)>>

LogWord ==
  /\ At("write_wl")
  /\ \/ /\ wl_pos >= WlMax
        /\ Continue(WhenFull)
        /\ UNCHANGED <<mem, irq, logVars, irqVars>>
     \/ /\ wl_pos < WlMax
        /\ Unmapped(Op.a)
        /\ Exception(RESTART_PAGE_FAULT, sp)
        /\ UNCHANGED logVars
     \/ /\ wl_pos < WlMax
        /\ ~Unmapped(Op.a)
        /\ wl_addrs' = [wl_addrs EXCEPT ![wl_pos] = Op.a]
        /\ wl_data' = [wl_data EXCEPT ![wl_pos] = mem[Op.a]]
        /\ wl_pos' = wl_pos + 1
        /\ Continue(<< >>)
        /\ UNCHANGED <<mem, irq, irqVars>>
  /\ UNCHANGED <<prog, cpuVars, status, cfgVars, modeVars, in_rt, countVars, ckptVars>>

-----------------------------------------------------------------------------
(* Restarts *)

\* A mutant: no return restarts.
ReturnInSpeculation_Always(type) == type = RESTART_RETURN

\* The return of a function that was called after the checkpoint.
ReturnInSpeculation(type) == type = RESTART_RETURN /\ spec_depth > 0

\* A restart called from a hook (arg = 0) ...
Restart ==
  /\ At("restart")
  /\ IF ~in_spec
       THEN Continue(<< >>) /\ UNCHANGED <<mem, in_restart, spec_depth>>
       ELSE /\ in_restart' = TRUE
            /\ IF ReturnInSpeculation(Op.a)
                 THEN /\ spec_depth' = spec_depth - 1
                      /\ Continue(<< >>)
                      /\ UNCHANGED mem
                 ELSE /\ mem' = Write(mem, {Frame(sp + 1), Frame(sp + 2)}, RtMark)
                      /\ Continue(<<U("undo", sp, 0), U("finish", 0, 0)>>)
                      /\ UNCHANGED spec_depth
  /\ UNCHANGED <<prog, cpuVars, irq, status, cfgVars, in_spec, wl_enabled, in_rt, logVars,
                 instr_count, ckptVars, irqVars>>

\* ... and one called from an interrupt's hook (arg = 1).
RestartIrq ==
  /\ At("restart_irq")
  /\ in_restart' = TRUE
  /\ Continue(<<U("undo", Op.n, 1), U("finish", 1, 0)>>)
  /\ UNCHANGED <<mvars, cfgVars, in_spec, wl_enabled, in_rt, logVars, countVars, ckptVars, irqVars>>

\* A mutant: pt_regs is not protected.
Skipped_FramesOnly(w, top, arg) == w = Frame(top + 2)

\* Above frame top a restore uses three words: Frame(top + 1) is pt_regs or the
\* hook's frame, Frame(top + 2) the words above rsp up to frameaddr, and
\* Frame(top + 3) what lies at and below rsp: the word at rsp and the return
\* address of __memcpy.
InUseBelow(top) == Frame(top + 3)

\* Words that the restore leaves alone: those above rsp up to frameaddr, and
\* the pt_regs of the interrupt.  The word at rsp is not one of them.
Skipped(w, top, arg) == w = Frame(top + 2) \/ (arg = 1 /\ w = Frame(top + 1))

\* Frames in use when the restore itself faults; the stack has room for one
\* such exception, a further one is taken to reuse its frames.
NestedTop(top) == IF top + 6 <= StackSize THEN top + 3 ELSE top

\* One pass of the loop of kspecem_restore_writelog.
Undo ==
  /\ At("undo")
  /\ LET w == wl_addrs[wl_pos - 1] IN
     \/ /\ wl_pos = 0
        /\ Continue(<< >>)
        /\ UNCHANGED <<mem, irq, irqVars, wl_pos>>
     \/ /\ wl_pos > 0
        /\ Skipped(w, Op.a, Op.n)
        /\ wl_pos' = wl_pos - 1
        /\ UNCHANGED <<todo, mem, irq, irqVars>>
     \/ /\ wl_pos > 0
        /\ ~Skipped(w, Op.a, Op.n)
        /\ w \in ReadOnly
        /\ wl_pos' = wl_pos - 1
        /\ Exception(RESTART_PAGE_FAULT, NestedTop(Op.a))
     \/ /\ wl_pos > 0
        /\ ~Skipped(w, Op.a, Op.n)
        /\ w \notin ReadOnly
        /\ wl_pos' = wl_pos - 1
        /\ mem' = [mem EXCEPT ![w] = wl_data[wl_pos - 1]]
        /\ UNCHANGED <<todo, irq, irqVars>>
  /\ UNCHANGED <<prog, cpuVars, status, cfgVars, modeVars, in_rt, wl_addrs, wl_data, countVars,
                 ckptVars>>

\* The entry is a word that the restore itself uses and does not skip: a callee
\* that is dead by now wrote it.  Overwriting it may be harmless (Undo), or
\* __memcpy returns to wherever the old value points.
UndoInUse ==
  /\ At("undo")
  /\ wl_pos > 0
  /\ wl_addrs[wl_pos - 1] = InUseBelow(Op.a)
  /\ status' = "lost"
  /\ UNCHANGED <<prog, cpuVars, mem, irq, todo, cfgVars, modeVars, in_rt, logVars, countVars,
                 ckptVars, irqVars>>

\* Mutants: the swap condition keeps what the log restored; the copy of the
\* frame is forgotten.
FinishMem_KeepSwap == [mem EXCEPT ![Frame(wl_base)] = wl_stack]
FinishMem_NoStack  == [mem EXCEPT ![SwapCondition] = 0]

\* After the log, kspecem_restart resets the condition and copies the frame.
FinishMem == [mem EXCEPT ![SwapCondition] = 0, ![Frame(wl_base)] = wl_stack]

\* The rest of kspecem_restart.  With arg = 0 the registers are restored and
\* the thread is back behind kspecem_asm_save_registers.
Finish ==
  /\ At("finish")
  /\ wl_enabled' = FALSE
  /\ in_spec' = FALSE
  /\ mem' = FinishMem
  /\ spec_depth' = 0
  /\ in_restart' = FALSE
  /\ IF Op.a = 0
       THEN in_rt' = FALSE /\ Resume(kregs) /\ todo' = ResumeOps
       ELSE Continue(<< >>) /\ UNCHANGED <<in_rt, pc, sp, irq, status>>
  /\ UNCHANGED <<prog, rets, cfgVars, logVars, instr_count, ckptVars, irqVars>>

-----------------------------------------------------------------------------
(* Timer interrupts *)

\* The handler: the hook, the kernel's work, and the return of an instrumented
\* function it calls.
TimerInterrupt ==
  /\ status = "running"
  /\ irq
  /\ ~handler
  /\ mem[Jiffies] < MaxTicks
  /\ handler' = TRUE
  /\ regs' = [pc |-> pc, sp |-> sp, irq |-> irq, todo |-> todo]
  /\ irq' = FALSE
  /\ mem' = Write(mem, {Frame(sp + 1), Frame(sp + 2)}, RtMark)
  /\ todo' = <<U("hook_interrupt_timer", sp, 0), U("tick", sp, 0),
               U("hook_restart", RESTART_RETURN, 0), U("iret", sp, 0)>>
  /\ UNCHANGED <<prog, cpuVars, status, cfgVars, modeVars, in_rt, logVars, countVars, ckptVars>>

HookInterruptTimer ==
  /\ At("hook_interrupt_timer")
  /\ IF init_done /\ in_spec
       THEN regs' = CheckpointRegs /\ Continue(<<U("restart_irq", RESTART_TIMER, Op.a)>>)
       ELSE Continue(<< >>) /\ UNCHANGED regs
  /\ UNCHANGED <<mvars, cfgVars, modeVars, in_rt, logVars, countVars, ckptVars, handler>>

\* The handler's branches are instrumented too: one that finds the swap
\* condition set goes the wrong way.
HandleTick ==
  /\ At("tick")
  /\ mem' = [mem EXCEPT ![Jiffies] = IF mem[SwapCondition] = 1 THEN @ ELSE @ + 1,
                        ![SwapCondition] = 0]
  /\ Continue(<< >>)
  /\ UNCHANGED <<prog, cpuVars, irq, status, cfgVars, modeVars, in_rt, logVars, countVars,
                 ckptVars, irqVars>>

Iret ==
  /\ At("iret")
  /\ handler' = FALSE
  /\ Resume(regs)
  /\ todo' = regs.todo
  /\ UNCHANGED <<prog, rets, mem, cfgVars, modeVars, in_rt, logVars, countVars, ckptVars,
                 regs>>

\* exc_nmi is on the list of exceptions: its hook runs before the kernel looks
\* at ignore_nmis, also in the runtime.  Outside speculation the hook does
\* nothing, and nor does the kernel's handler to what is modelled.  It runs on a
\* stack of its own, which is taken to be the thread's.
Nmi ==
  /\ Nmis
  /\ status = "running"
  /\ init_done
  /\ in_spec
  /\ Exception(RESTART_EXCEPTION, sp)
  /\ UNCHANGED <<prog, cpuVars, status, cfgVars, modeVars, in_rt, logVars, countVars, ckptVars>>

\* An NMI between the two stores of a restore's pass: the log position is
\* already decremented, the word not yet restored.
NmiInUndo ==
  /\ Nmis
  /\ init_done
  /\ At("undo")
  /\ wl_pos > 0
  /\ wl_pos' = wl_pos - 1
  /\ Exception(RESTART_EXCEPTION, sp)
  /\ UNCHANGED <<prog, cpuVars, status, cfgVars, modeVars, in_rt, wl_addrs, wl_data, countVars,
                 ckptVars>>

\* An NMI while the stores of kspecem_new_checkpoint or kspecem_restart have made
\* only one of in_spec and wl_enabled true: the assertion of the exception hook
\* fails, and the restart that kspecem_panic asks for, or the one under way,
\* ends in a panic of the kernel.
NmiBetweenFlags ==
  /\ Nmis
  /\ init_done
  /\ At("new_checkpoint") \/ At("finish")
  /\ status' = "panic"
  /\ UNCHANGED <<prog, cpuVars, mem, irq, todo, cfgVars, modeVars, in_rt, logVars, countVars,
                 ckptVars, irqVars>>

-----------------------------------------------------------------------------
(* The debugfs files enable and spec_enabled *)

Enable ==
  /\ AtInstruction
  /\ ~init_done
  /\ in_rt' = TRUE
  /\ todo' = <<U("enter_init", 0, 0)>>
  /\ UNCHANGED <<mvars, cfgVars, modeVars, logVars, countVars, ckptVars, irqVars>>

\* kspecem_init_data, kspecem_stack_init and kspecem_writelog_init.
InitData ==
  /\ At("init_data")
  /\ in_spec' = FALSE
  /\ mem' = [mem EXCEPT ![SwapCondition] = 0]
  /\ instr_count' = 0
  /\ spec_depth' = 0
  /\ wl_pos' = 0
  /\ wl_enabled' = FALSE
  /\ Continue(<< >>)
  /\ UNCHANGED <<prog, cpuVars, irq, status, cfgVars, in_rt, in_restart, wl_addrs, wl_data,
                 ckptVars, irqVars>>

InitDone ==
  /\ At("init_done")
  /\ init_done' = TRUE
  /\ Continue(<< >>)
  /\ UNCHANGED <<mvars, swap_enabled, modeVars, in_rt, logVars, countVars, ckptVars, irqVars>>

SetSpecEnabled ==
  /\ AtInstruction
  /\ ~in_spec
  /\ swap_enabled' = ~swap_enabled
  /\ UNCHANGED <<mvars, todo, init_done, modeVars, in_rt, logVars, countVars, ckptVars, irqVars>>

-----------------------------------------------------------------------------
\* What the CPU does on its own.
Cpu ==
  \/ Fetch \/ Exec
  \/ HookStore \/ HookMemcpy \/ HookRestart \/ HookCheckSpecLength \/ HookCheckCallDepth
  \/ HookNewCheckpoint
  \/ Enter \/ IrqRestore \/ UnsetRt \/ SetWord
  \/ NewCheckpoint \/ SaveStack \/ SavePartly \/ SaveRegisters \/ Select
  \/ Memcpy \/ LogWord
  \/ Restart \/ RestartIrq \/ Undo \/ UndoInUse \/ Finish
  \/ HookInterruptTimer \/ HandleTick \/ Iret
  \/ InitData \/ InitDone

\* What others do to it.
Environment ==
  \/ TimerInterrupt \/ Nmi \/ NmiInUndo \/ NmiBetweenFlags
  \/ Enable \/ SetSpecEnabled

Done == status # "running" /\ UNCHANGED vars

Next == Cpu \/ Environment \/ Done

Spec == Init /\ [][Next]_vars

\* The CPU does not stop.
FairSpec == Spec /\ WF_vars(Cpu)

-----------------------------------------------------------------------------
(* What the kernel sees *)

\* The last operation of a checkpoint is done: kspecem_registers is current.
Saved == in_spec /\ \A k \in DOMAIN todo : todo[k].op # "save_registers"

\* The log entry that the backward walk restores last.
Logged(w)     == \E k \in 0..(wl_pos - 1) : wl_addrs[k] = w
FirstEntry(w) == CHOOSE k \in 0..(wl_pos - 1) :
                   wl_addrs[k] = w /\ \A j \in 0..(k - 1) : wl_addrs[j] # w

\* A word as a restart would leave it.
Restored(w) ==
  CASE Saved /\ w = Frame(wl_base) -> wl_stack
    [] Saved /\ w # Frame(wl_base) /\ Logged(w) -> wl_data[FirstEntry(w)]
    [] OTHER -> mem[w]

ViewPc == IF Saved THEN kregs.pc ELSE IF handler THEN regs.pc ELSE pc
ViewSp == IF Saved THEN kregs.sp ELSE IF handler THEN regs.sp ELSE sp

Dead(w) == w \in StackWords /\ w < Frame(ViewSp)

ViewMem  == [w \in Words |-> IF w \in RuntimeWords \/ Dead(w) THEN 0 ELSE Restored(w)]
ViewRets == [d \in 1..MaxSp |-> IF d <= ViewSp THEN rets[d] ELSE NoReturn]

\* Whether interrupts are enabled once the runtime is left.
ViewIrq ==
  \/ Saved
  \/ handler
  \/ IF \E k \in DOMAIN todo : todo[k].op = "irq_restore"
       THEN \E k \in DOMAIN todo : todo[k].op = "irq_restore" /\ todo[k].a = 1
       ELSE irq

View == <<ViewPc, ViewSp, ViewMem, ViewRets, ViewIrq>>

Arch == INSTANCE Machine WITH
  pc <- ViewPc, sp <- ViewSp, mem <- ViewMem, rets <- ViewRets, irq <- ViewIrq

\* The contract of the emulation with the rest of the runtime.
Speculation == INSTANCE Emulation WITH Limit <- IF MaxDepth = 0 THEN 1 ELSE MaxDepth

-----------------------------------------------------------------------------
(* Properties *)

\* A thread whose instrumentation went wrong has panicked or lost control.
EmStatus == Status \cup {"panic", "lost"}

MachineType ==
  /\ prog \in Programs
  /\ pc \in DOMAIN prog
  /\ sp \in 1..MaxSp
  /\ rets \in [1..MaxSp -> DOMAIN prog]
  /\ mem \in [Words -> Int]
  /\ irq \in BOOLEAN
  /\ status \in EmStatus
TodoType == todo \in Seq(MicroOp)
FlagType ==
  /\ init_done \in BOOLEAN /\ swap_enabled \in BOOLEAN
  /\ in_spec \in BOOLEAN /\ wl_enabled \in BOOLEAN
  /\ in_rt \in BOOLEAN /\ in_restart \in BOOLEAN
LogType ==
  /\ wl_addrs \in [0..(WlMax - 1) -> Words]
  /\ wl_data \in [0..(WlMax - 1) -> Int]
  /\ wl_pos \in 0..WlMax
CountType == instr_count \in Int /\ spec_depth \in Nat
SavedPc == DOMAIN prog \cup {NoInstr}
CkptType ==
  /\ kregs \in [pc : SavedPc, sp : 1..MaxSp, irq : BOOLEAN, flags : BOOLEAN]
  /\ wl_stack \in Int
  /\ wl_base \in 1..MaxSp
IrqType ==
  /\ handler \in BOOLEAN
  /\ regs \in [pc : SavedPc, sp : 1..MaxSp, irq : BOOLEAN, todo : Seq(MicroOp)]

\* The type invariant.
TypeOK ==
  /\ MachineType /\ TodoType /\ FlagType /\ LogType /\ CountType /\ CkptType /\ IrqType

\* Emulation is transparent: whatever is speculated, logged, interrupted and
\* rolled back, the kernel computes what the uninstrumented one computes.
Transparent == Arch!MachineSpec

\* The emulation keeps its contract, with nested hooks, faults in the rollback
\* and interrupts: one speculation at a time, balanced calls and returns, nothing
\* but a rollback after the call that reaches the limit (kspecem_new_checkpoint,
\* kspecem_hook_check_call_depth and kspecem_restart).
Contract == Speculation!EmulationSpec

\* No step of a speculation, its rollback included, changes what the kernel
\* will see after the restart, or loses control before (kspecem_write_wl,
\* kspecem_save_stack and kspecem_restore_writelog against every write in
\* between).
RollbackExact == [][Saved => View' = View /\ status' # "lost"]_vars

\* Nothing that happens between the start of a checkpoint and its last step
\* changes where and with what the thread will resume (kspecem_new_checkpoint,
\* kspecem_save_stack and kspecem_asm_save_registers are three calls).
CheckpointExact == [][in_spec /\ ~Saved => View' = View]_vars

\* Whenever the program runs, in speculation too, NMIs are not ignored, no hook
\* believes to be in the runtime, and no inverted condition is left over
\* (kspecem_restart unwinds stop_nmi calls by the log alone).
RuntimeReleased ==
  AtInstruction => mem[IgnoreNmis] = 0 /\ mem[SwapCondition] = 0 /\ ~in_rt

\* No lt_assert of the emulation fails.  An exception may come at any time, so
\* what its hook asserts of the two flags must hold in every state.  That the
\* restore does not write its own locals (&i and &num_entries) is SparesInUse.
AssertsHold ==
  /\ wl_enabled = in_spec
  /\ status # "panic"
  /\ At("irq_restore") => ~irq
  /\ At("new_checkpoint") => ~in_spec
  /\ At("undo") => wl_enabled
  /\ At("finish") => wl_pos = 0
  /\ At("finish") /\ Op.a = 1 => regs.pc = kregs.pc

\* kspecem_spec_call_depth is the number of frames above the checkpoint's, so
\* that a return restarts exactly when it would leave the checkpoint's frame.
DepthMatches ==
  in_spec /\ AtInstruction =>
    spec_depth + (IF prog[pc].op = "entry" THEN 1 ELSE 0) = sp - kregs.sp

\* An interrupt handler never runs speculatively, and never inherits the
\* inverted condition of the branch that it interrupted.
HandlerNotSpeculative == At("tick") => ~in_spec /\ mem[SwapCondition] = 0

\* The restore overwrites none of the words it guards: those from above its
\* stack pointer to frameaddr, and the pt_regs that iret loads
\* (kspecem_restore_writelog).
GuardedFramesIntact ==
  \A k \in DOMAIN todo :
    /\ todo[k].op = "undo" => mem[Frame(todo[k].a + 2)] = RtMark
    /\ todo[k].op = "iret" => mem[Frame(todo[k].a + 1)] = RtMark

\* The restore never writes a word of the stack that it is using itself, the
\* one at its stack pointer included ("make sure that no stack values are
\* restored, that are currently used within the static lib").
SparesInUse == At("undo") /\ wl_pos > 0 => wl_addrs[wl_pos - 1] # InUseBelow(Op.a)

\* A timer interrupt is handled: once its handler has started, only the kernel's
\* own work takes that work out of what is left to do.
TimerHandled ==
  [][(\E k \in DOMAIN todo : todo[k].op = "tick") /\ ~At("tick")
       => \E k \in DOMAIN todo' : todo'[k].op = "tick"]_vars

\* Every speculation ends: the length hook, the depth hook, a full log, a
\* fault or an instruction that cannot be emulated restarts it.
SpeculationEnds == in_spec ~> ~in_spec

\* The thread finishes its program: a restart resumes behind the checkpoint and
\* never takes the same one again.
ThreadFinishes == <>(status # "running")
=============================================================================
