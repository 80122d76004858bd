------------------------------- MODULE Machine -------------------------------
(****************************************************************************)
(* The abstract specification of Kasper's speculative emulation: a kernel   *)
(* thread that runs an uninstrumented program on one CPU.  SpecEm runs the  *)
(* same program through the instrumentation the passes insert, and must     *)
(* look like this machine to everyone but the checkers.                     *)
(*                                                                          *)
(* Memory is an array of 8-byte words (the granularity of the write log);   *)
(* programs use byte addresses.  Words 0..2 are variables of the kernel     *)
(* that the runtime and the timer handler write; the last StackSize words   *)
(* are the thread's stack, one word for every frame.                        *)
(****************************************************************************)
EXTENDS Naturals, Integers, Sequences, FiniteSets

CONSTANTS
  Programs,     \* the programs a thread may run: sequences of Instr
  NWords,       \* number of memory words
  MaxSp,        \* deepest frame a program may use
  StackSize,    \* stack words, the room for the runtime's frames included
  ReadOnly,     \* words whose page is not writable
  NoAccess,     \* words whose page is not mapped
  MaxTicks      \* bound: timer interrupts that are handled

Words == 0..(NWords - 1)

IgnoreNmis    == 0    \* ignore_nmis of arch/x86/kernel/nmi.c
SwapCondition == 1    \* kspecem_swap_branch_condition
Jiffies       == 2    \* what the timer handler increments
RuntimeWords  == {IgnoreNmis, SwapCondition}
FirstHeap     == 3

Frame(d)   == NWords - d                     \* the stack grows downwards
StackWords == (NWords - StackSize)..(NWords - 1)
Faulting   == ReadOnly \cup NoAccess

Ops == {"store", "memset", "spill", "branch", "jump", "call", "entry", "ret",
        "asm", "cli", "sti", "trap"}

Terminators == {"branch", "jump", "ret", "trap"}

Instr == [op : Ops, addr : Nat, size : Nat \ {0}, val : Nat, to : Nat, alt : Nat]

\* The words that a write of size bytes at byte address addr changes.
Touched(addr, size) == (addr \div 8)..((addr + size - 1) \div 8)

\* Control never leaves a program, functions are entered at their first
\* instruction only, and a program writes none of the runtime's variables.
WellFormed(p) ==
  /\ p \in Seq(Instr)
  /\ p # << >>
  /\ \A k \in DOMAIN p :
       LET i == p[k] IN
       /\ i.op \notin Terminators => k + 1 \in DOMAIN p /\ p[k + 1].op # "entry"
       /\ i.op \in {"branch", "jump", "call"} => i.to \in DOMAIN p
       /\ i.op = "branch" => i.alt \in DOMAIN p /\ p[i.alt].op # "entry"
       /\ i.op \in {"branch", "jump"} => p[i.to].op # "entry"
       /\ i.op = "call" => p[i.to].op = "entry"
       /\ i.op \in {"store", "memset", "asm"} =>
            Touched(i.addr, i.size) \subseteq (FirstHeap..(NWords - 1))
       /\ i.op = "branch" => i.addr \div 8 \in FirstHeap..(NWords - 1)
  /\ p[1].op # "entry"

ASSUME MachineAssumption ==
  /\ NWords \in Nat /\ MaxSp \in Nat \ {0} /\ StackSize \in Nat /\ MaxTicks \in Nat
  /\ MaxSp <= StackSize
  /\ FirstHeap + StackSize <= NWords
  /\ Faulting \subseteq Words \ (StackWords \cup RuntimeWords \cup {Jiffies})
  /\ \A p \in Programs : WellFormed(p)

VARIABLES
  prog,     \* the program the thread runs
  pc,       \* index of the next instruction
  sp,       \* number of frames on the stack
  rets,     \* return address of each frame
  mem,      \* contents of the words
  irq,      \* interrupts are enabled (EFLAGS.IF)
  status    \* "running", "exited" or "oops" (an exception the kernel handles)

mvars == <<prog, pc, sp, rets, mem, irq, status>>

NoReturn == 1   \* what rets holds for a frame that is not in use

Status == {"running", "exited", "oops"}

MInit ==
  /\ prog \in Programs
  /\ pc = 1
  /\ sp = 1
  /\ rets = [d \in 1..MaxSp |-> NoReturn]
  /\ mem = [w \in Words |-> 0]
  /\ irq = TRUE
  /\ status = "running"

Write(m, ws, v) == [w \in Words |-> IF w \in ws THEN v ELSE m[w]]

\* The instruction at pc raises an exception instead of completing.
Faults ==
  \/ /\ prog[pc].op \in {"store", "memset", "asm"}
     /\ Touched(prog[pc].addr, prog[pc].size) \cap Faulting # {}
  \/ prog[pc].op = "trap"
  \/ prog[pc].op = "call" /\ sp = MaxSp

\* A store, a memory intrinsic, or inline assembly that writes memory.
Store ==
  /\ prog[pc].op \in {"store", "memset", "asm"}
  /\ ~Faults
  /\ mem' = Write(mem, Touched(prog[pc].addr, prog[pc].size), prog[pc].val)
  /\ pc' = pc + 1
  /\ UNCHANGED <<prog, sp, rets, irq, status>>

\* A write to the own frame that the code generator adds (a register spill).
Spill ==
  /\ prog[pc].op = "spill"
  /\ mem' = Write(mem, {Frame(sp)}, prog[pc].val)
  /\ pc' = pc + 1
  /\ UNCHANGED <<prog, sp, rets, irq, status>>

\* The successor of the branch at pc; inverted when the condition is swapped.
Target(inverted) ==
  IF (mem[prog[pc].addr \div 8] # 0) # inverted THEN prog[pc].to ELSE prog[pc].alt

Branch ==
  /\ prog[pc].op = "branch"
  /\ pc' = Target(FALSE)
  /\ UNCHANGED <<prog, sp, rets, mem, irq, status>>

Jump ==
  /\ prog[pc].op \in {"jump", "entry"}
  /\ pc' = IF prog[pc].op = "jump" THEN prog[pc].to ELSE pc + 1
  /\ UNCHANGED <<prog, sp, rets, mem, irq, status>>

\* A call pushes the return address: the first write to the new frame.
Call ==
  /\ prog[pc].op = "call"
  /\ ~Faults
  /\ sp' = sp + 1
  /\ rets' = [rets EXCEPT ![sp + 1] = pc + 1]
  /\ mem' = Write(mem, {Frame(sp + 1)}, 0)
  /\ pc' = prog[pc].to
  /\ UNCHANGED <<prog, irq, status>>

\* A return; the frame is dead afterwards.  The thread exits with its first frame.
Return ==
  /\ prog[pc].op = "ret"
  /\ IF sp = 1
       THEN status' = "exited" /\ UNCHANGED <<pc, sp, rets, mem>>
       ELSE /\ pc' = rets[sp]
            /\ sp' = sp - 1
            /\ rets' = [rets EXCEPT ![sp] = NoReturn]
            /\ mem' = Write(mem, {Frame(sp)}, 0)
            /\ UNCHANGED status
  /\ UNCHANGED <<prog, irq>>

\* cli and sti: the inline assembly that the passes leave alone.
SetIrq ==
  /\ prog[pc].op \in {"cli", "sti"}
  /\ irq' = (prog[pc].op = "sti")
  /\ pc' = pc + 1
  /\ UNCHANGED <<prog, sp, rets, mem, status>>

Straight    == Store \/ Spill \/ Jump \/ Call \/ Return \/ SetIrq
Instruction == Straight \/ Branch

Oops ==
  /\ Faults
  /\ status' = "oops"
  /\ UNCHANGED <<prog, pc, sp, rets, mem, irq>>

\* A timer interrupt between two instructions, its handler included.
Tick ==
  /\ irq
  /\ mem[Jiffies] < MaxTicks
  /\ mem' = [mem EXCEPT ![Jiffies] = @ + 1]
  /\ UNCHANGED <<prog, pc, sp, rets, irq, status>>

MNext == status = "running" /\ (Instruction \/ Oops \/ Tick)

MachineSpec == MInit /\ [][MNext]_mvars
=============================================================================
