----------------------------- MODULE Registers -----------------------------
(****************************************************************************)
(* Saving and restoring the registers of a checkpoint, instruction by       *)
(* instruction: kspecem_asm_save_registers and                              *)
(* kspecem_asm_restore_registers (kspecem_regs.S), and the copy of the      *)
(* checkpoint's registers into the frame of an interrupt                    *)
(* (kspecem_interrupt.c).  SpecEm treats each as one step; this module      *)
(* shows that what a compiler may rely on afterwards is back either way.    *)
(****************************************************************************)
EXTENDS Naturals, Integers, Sequences

CONSTANT StackSize      \* words of the stack

\* Room for the frame of InitRegs, for a call and for a push.
ASSUME StackAssumption == StackSize \in Nat /\ StackSize >= 6

Regs == {"rax", "rbx", "rcx", "rdx", "rbp", "rsi", "rdi", "rsp", "rip", "eflags",
         "r8", "r9", "r10", "r11", "r12", "r13", "r14", "r15"}

\* What the code after a call relies on: the callee-saved registers, the
\* stack, where it continues, and the interrupt flag.
Live == {"rbx", "rbp", "r12", "r13", "r14", "r15", "rsp", "rip", "eflags"}

\* The slots of struct pt_regs (calling.h).
Slot ==
  [r15 |-> 0, r14 |-> 1, r13 |-> 2, r12 |-> 3, rbp |-> 4, rbx |-> 5, r11 |-> 6, r10 |-> 7,
   r9 |-> 8, r8 |-> 9, rax |-> 10, rcx |-> 11, rdx |-> 12, rsi |-> 13, rdi |-> 14,
   rip |-> 16, eflags |-> 18, rsp |-> 19]

Slots == 0..20

\* Values: stack addresses count from the bottom, IF is all there is of
\* EFLAGS, code addresses and data are small numbers.
Off    == 0
On     == 1
Buffer == 2          \* &kspecem_registers
Junk   == 3          \* what speculation leaves in a register
Continue == 4        \* the instruction after the call of save_registers
Data   == 5..21      \* what the program holds in its registers

VARIABLES
  mode,       \* "program", "save", "spec", "nested", "restore", "resumed"
  code,       \* the rest of the routine that runs
  regs,
  buf,        \* kspecem_registers
  stack,
  ckpt,       \* the registers when the checkpoint's save returned
  kept        \* buf at that moment

vars == <<mode, code, regs, buf, stack, ckpt, kept>>

-----------------------------------------------------------------------------
(* The routines *)

Save(r)    == [op |-> "save", src |-> r, dst |-> r]       \* movq %src, (DST)(%rdi)
Load(r, d) == [op |-> "load", src |-> r, dst |-> d]       \* movq (SRC)(%rdi), %dst
Move(r, d) == [op |-> "move", src |-> r, dst |-> d]
SaveAs(r, s) == [op |-> "save", src |-> r, dst |-> s]
Other(op)  == [op |-> op, src |-> "rax", dst |-> "rax"]

SaveGeneral ==
  <<Save("rax"), Save("rbx"), Save("rcx"), Save("rdx"), Save("rbp"), Save("r8"), Save("r9"),
    Save("r10"), Save("r11"), Save("r12"), Save("r13"), Save("r14"), Save("r15"),
    Other("lea8rsp"), SaveAs("rdx", "rsp"),
    Other("readtop"), SaveAs("rax", "rip")>>

SaveFlags == <<Other("zero"), Other("pushf"), Other("pop"), SaveAs("rax", "eflags")>>

SaveBody == SaveGeneral \o SaveFlags

\* A mutant: a nested checkpoint saves as well.
kspecem_asm_save_registers_Always(rsi) == SaveBody \o <<Other("zero"), Other("ret")>>

\* cmp $-1, %rsi; jle: the kspecem_hook_new_checkpoint of a nested branch returns -1.
kspecem_asm_save_registers(rsi) ==
  (IF rsi <= -1 THEN << >> ELSE SaveBody) \o <<Other("zero"), Other("ret")>>

Restored == <<"rbx", "r10", "r11", "r12", "r13", "r14", "r15", "rcx">>
LoadEach == [k \in DOMAIN Restored |-> Load(Restored[k], Restored[k])]
Rest ==
  <<Load("eflags", "rax"), Other("push"), Other("popf"), Load("rax", "rax"), Other("jmp")>>

kspecem_asm_restore_registers ==
  <<Load("rsp", "r8"), Load("rbp", "r9"), Load("rip", "rdx")>> \o LoadEach
    \o <<Move("rsi", "rax"), Move("r8", "rsp"), Move("r9", "rbp"), Load("r8", "r8"), Load("r9", "r9")>>
    \o Rest

\* A mutant: one register of the frame is forgotten.
CopiedSlots_NoRbp == {0, 1, 2, 3} \cup 5..14 \cup {16, 18, 19}

\* The slots that the handlers copy, in bytes 0x0..0x70, 0x80, 0x90 and 0x98.
CopiedSlots == 0..14 \cup {16, 18, 19}

-----------------------------------------------------------------------------
(* Execution *)

Set(r, v) == [regs EXCEPT ![r] = v]

\* One instruction of a routine.  pushes write below the stack pointer.
Execute(i) ==
  LET top == regs.rsp IN
  CASE i.op = "save"    -> /\ buf' = [buf EXCEPT ![Slot[i.dst]] = regs[i.src]]
                           /\ UNCHANGED <<regs, stack>>
    [] i.op = "load"    -> regs' = Set(i.dst, buf[Slot[i.src]]) /\ UNCHANGED <<buf, stack>>
    [] i.op = "move"    -> regs' = Set(i.dst, regs[i.src]) /\ UNCHANGED <<buf, stack>>
    [] i.op = "lea8rsp" -> regs' = Set("rdx", top + 1) /\ UNCHANGED <<buf, stack>>
    [] i.op = "readtop" -> regs' = Set("rax", stack[top]) /\ UNCHANGED <<buf, stack>>
    [] i.op = "zero"    -> regs' = Set("rax", 0) /\ UNCHANGED <<buf, stack>>
    [] i.op \in {"push", "pushf"} ->
         /\ stack' = [stack EXCEPT ![top - 1] = IF i.op = "push" THEN regs.rax ELSE regs.eflags]
         /\ regs' = Set("rsp", top - 1)
         /\ UNCHANGED buf
    [] i.op \in {"pop", "popf"} ->
         /\ regs' = [regs EXCEPT ![IF i.op = "pop" THEN "rax" ELSE "eflags"] = stack[top],
                                 !.rsp = top + 1]
         /\ UNCHANGED <<buf, stack>>
    [] i.op = "ret" ->
         /\ regs' = [regs EXCEPT !.rip = stack[top], !.rsp = top + 1]
         /\ UNCHANGED <<buf, stack>>
    [] i.op = "jmp" -> regs' = Set("rip", regs.rdx) /\ UNCHANGED <<buf, stack>>

\* Calling a routine: the arguments and the return address.
Called(rsi, ret) ==
  /\ regs' = [regs EXCEPT !.rdi = Buffer, !.rsi = rsi, !.rsp = regs.rsp - 1]
  /\ stack' = [stack EXCEPT ![regs.rsp - 1] = ret]

InitRegs ==
  [r \in Regs |-> CASE r = "rsp" -> 4 [] r = "eflags" -> Off [] r = "rip" -> Continue - 1
                    [] OTHER -> Slot[r] + 5]

Init ==
  /\ mode = "program"
  /\ code = << >>
  /\ regs = InitRegs
  /\ buf = [s \in Slots |-> 0]
  /\ stack = [a \in 0..(StackSize - 1) |-> 0]
  /\ ckpt = regs
  /\ kept = buf

\* The call of save_registers in a new checkpoint: interrupts are off, and the
\* argument is EFLAGS as they were before.
NewCheckpoint(flags) ==
  /\ mode = "program"
  /\ mode' = "save"
  /\ code' = kspecem_asm_save_registers(flags)
  /\ Called(flags, Continue)
  /\ UNCHANGED <<buf, ckpt, kept>>

\* A branch met in speculation calls it too.
NestedCheckpoint ==
  /\ mode = "spec" /\ regs.rsp > 1
  /\ mode' = "nested"
  /\ code' = kspecem_asm_save_registers(-1)
  /\ Called(-1, Junk)
  /\ UNCHANGED <<buf, ckpt, kept>>

Run ==
  /\ code # << >>
  /\ Execute(Head(code))
  /\ code' = Tail(code)
  /\ LET last == Len(code) = 1 IN
     CASE mode = "save" /\ last    -> mode' = "spec" /\ ckpt' = regs' /\ kept' = buf'
       [] mode = "nested" /\ last  -> mode' = "spec" /\ UNCHANGED <<ckpt, kept>>
       [] mode = "restore" /\ last -> mode' = "resumed" /\ UNCHANGED <<ckpt, kept>>
       [] OTHER                    -> UNCHANGED <<mode, ckpt, kept>>

\* Speculation changes a register: leave_rt switches interrupts on again, calls
\* and returns move the stack pointer.
Speculate ==
  /\ mode = "spec" /\ code = << >>
  /\ \/ \E r \in Live \ {"rsp", "eflags"} : regs' = Set(r, Junk)
     \/ regs' = Set("eflags", On)
     \/ \E a \in 2..(StackSize - 2) : regs' = Set("rsp", a)
     \/ regs' = [r \in Regs |-> IF r \in Live THEN regs[r] ELSE Junk]
  /\ UNCHANGED <<mode, code, buf, stack, ckpt, kept>>

\* kspecem_restart from a hook: interrupts are off, the registers come last.
HookRestart ==
  /\ mode = "spec" /\ code = << >> /\ regs.rsp > 1
  /\ mode' = "restore"
  /\ code' = kspecem_asm_restore_registers
  /\ regs' = [regs EXCEPT !.rdi = Buffer, !.rsi = 1, !.rsp = regs.rsp - 1, !.eflags = Off]
  /\ stack' = [stack EXCEPT ![regs.rsp - 1] = Junk]
  /\ UNCHANGED <<buf, ckpt, kept>>

\* An interrupt pushes the registers as struct pt_regs; the handler overwrites
\* them, and iret takes the result.
Interrupt ==
  /\ mode = "spec" /\ code = << >>
  /\ regs' = [r \in Regs |-> IF Slot[r] \in CopiedSlots THEN buf[Slot[r]] ELSE regs[r]]
  /\ mode' = "resumed"
  /\ UNCHANGED <<code, buf, stack, ckpt, kept>>

\* The program goes on and meets the next branch.
Again ==
  /\ mode = "resumed"
  /\ mode' = "program"
  /\ regs' = InitRegs
  /\ UNCHANGED <<code, buf, stack, ckpt, kept>>

Next ==
  \/ \E flags \in {Off, On} : NewCheckpoint(flags)
  \/ NestedCheckpoint
  \/ Run
  \/ Speculate
  \/ HookRestart
  \/ Interrupt
  \/ Again

Spec == Init /\ [][Next]_vars

-----------------------------------------------------------------------------
(* Properties *)

\* After a rollback, by the hook or by the frame of an interrupt, the program
\* finds the registers as the call of save_registers left them.
LiveRestored == mode = "resumed" => \A r \in Live : regs[r] = ckpt[r]

\* Speculation, nested checkpoints included, never changes the saved registers.
BufferStable == mode \in {"spec", "nested", "restore"} => buf = kept

============================================================================
