------------------------- MODULE SpecEmTransparent -------------------------
(****************************************************************************)
(* What holds of the emulation without NMIs, for every program and every    *)
(* value of the limits: a checkpoint saves what the rollback needs, no      *)
(* rollback writes over the frames the runtime stands on, it restores what  *)
(* the checkpoint saw, and the instrumented kernel computes what the        *)
(* uninstrumented one computes.                                             *)
(*                                                                          *)
(* Inside a speculation everything that the program writes is logged first, *)
(* is the frame that the checkpoint copied, or is dead once the thread is   *)
(* back; the first entry of a word is the one that counts.  Outside, every  *)
(* step is an instruction of the kernel, a tick, or leaves alone what the   *)
(* kernel sees.                                                             *)
(****************************************************************************)
EXTENDS SpecEmSafety, DataLemmas

\* What is left out here.
LEMMA NoNmis == ASSUME ~Nmis PROVE ~SavePartly /\ ~Nmi /\ ~NmiInUndo /\ ~NmiBetweenFlags
BY DEF SavePartly, Nmi, NmiInUndo, NmiBetweenFlags

-----------------------------------------------------------------------------
(* Between the start of a checkpoint and its last step *)

SavingOps == {"save_stack", "save_registers"}

\* Nothing comes between new_checkpoint, save_stack and save_registers, nor
\* before the entry of a checkpoint.
Chained(t) ==
  \A k \in DOMAIN t :
    /\ t[k].op = "save_registers" => k = 1 \/ t[k - 1].op = "save_stack"
    /\ t[k].op = "save_stack" => k = 1 \/ t[k - 1].op = "new_checkpoint"
    /\ t[k].op = "enter_checkpoint" => k = 1

\* Interrupts were enabled and will be.
Enables(t) == \E x \in Elems(t) : x.op = "irq_restore" /\ x.a = 1

ChainInv ==
  /\ Chained(todo)
  /\ Has(todo, "new_checkpoint") \/ Has(todo, "save_registers") => Enables(todo)
  /\ status = "running" /\ Has(todo, "enter_checkpoint") => irq
  /\ handler => /\ Chained(regs.todo) /\ \A x \in Elems(regs.todo) : x.op \notin SavingOps
                /\ Has(regs.todo, "enter_checkpoint") => regs.irq

\* What is saved is what a restart would find now.
CopyInv ==
  todo # << >> => /\ Op.op = "save_registers" => wl_base = sp /\ wl_stack = mem[Frame(sp)]
                  /\ in_spec /\ Op.op \in SavingOps => wl_pos = 0 /\ Has(todo, "save_registers")

-----------------------------------------------------------------------------
(* Chains *)

LEMMA ChainedTail ==
  ASSUME NEW S, NEW t \in Seq(S), t # << >>, Chained(t)
  PROVE  /\ Head(t).op \notin {"new_checkpoint", "save_stack"} =>
              Chained(Tail(t)) /\ (Tail(t) # << >> => Head(Tail(t)).op \notin SavingOps)
         /\ Head(t).op = "save_stack" =>
              Chained(Tail(t)) /\ (Tail(t) # << >> => Head(Tail(t)).op # "save_stack")
         /\ Head(t).op # "save_stack" /\ Tail(t) # << >> => Head(Tail(t)).op # "save_registers"
         /\ Chained(Tail(t))
         /\ \A x \in Elems(Tail(t)) : x.op # "enter_checkpoint"
<1> DEFINE n == Len(t)
           u == Tail(t)
<1>1. /\ Head(t) = t[1] /\ n \in Nat /\ n >= 1 /\ DOMAIN t = 1..n /\ DOMAIN u = 1..(n - 1)
      /\ \A k \in 1..(n - 1) : u[k] = t[k + 1] /\ k + 1 \in 1..n
  BY HeadAndTail
<1>2. u # << >> => Head(u) = u[1] /\ 1 \in 1..(n - 1)
  OBVIOUS
<1> HIDE DEF n, u
<1>3. ASSUME NEW k \in 1..(n - 1)
      PROVE  /\ u[k].op = "save_registers" => t[k].op = "save_stack"
             /\ u[k].op = "save_stack" => t[k].op = "new_checkpoint"
             /\ u[k].op # "enter_checkpoint"
             /\ k # 1 => t[k] = u[k - 1]
  <2>1. u[k] = t[k + 1] /\ k + 1 \in DOMAIN t /\ k + 1 # 1 /\ (k + 1) - 1 = k
    BY <1>1
  <2>2. k # 1 => k - 1 \in 1..(n - 1) /\ (k - 1) + 1 = k
    BY <1>1
  <2> QED  BY <1>1, <2>1, <2>2 DEF Chained
<1>4. Chained(u)
  BY <1>1, <1>3 DEF Chained
<1>5. u # << >> => /\ Head(u).op = "save_registers" => Head(t).op = "save_stack"
                   /\ Head(u).op = "save_stack" => Head(t).op = "new_checkpoint"
  BY <1>1, <1>2, <1>3
<1>6. \A x \in Elems(u) : x.op # "enter_checkpoint"
  BY <1>1, <1>3 DEF Elems
<1> QED  BY <1>4, <1>5, <1>6 DEF u, SavingOps

LEMMA ChainedConcat ==
  ASSUME NEW S, NEW s \in Seq(S), NEW t \in Seq(S), Chained(s), Chained(t),
         t # << >> => Head(t).op \notin SavingOps,
         \A x \in Elems(t) : x.op # "enter_checkpoint"
  PROVE  Chained(s \o t)
<1> DEFINE m == Len(s)
           n == Len(t)
           c == s \o t
<1>1. /\ m \in Nat /\ n \in Nat /\ DOMAIN s = 1..m /\ DOMAIN t = 1..n /\ DOMAIN c = 1..(m + n)
      /\ \A k \in 1..m : c[k] = s[k]
      /\ \A k \in 1..n : c[m + k] = t[k]
      /\ 1 \in 1..n => t # << >> /\ Head(t) = t[1]
  OBVIOUS
<1> HIDE DEF m, n, c
<1>2. ASSUME NEW k \in DOMAIN c
      PROVE  /\ c[k].op = "save_registers" => k = 1 \/ c[k - 1].op = "save_stack"
             /\ c[k].op = "save_stack" => k = 1 \/ c[k - 1].op = "new_checkpoint"
             /\ c[k].op = "enter_checkpoint" => k = 1
  <2>1. CASE k \in 1..m
    <3>1. k = 1 \/ (k - 1 \in 1..m)
      BY <1>1, <2>1
    <3> QED  BY <1>1, <2>1, <3>1 DEF Chained
  <2>2. CASE k \notin 1..m
    <3> DEFINE i == k - m
    <3>1. i \in 1..n /\ m + i = k
      BY <1>1, <2>2
    <3>2. c[k] = t[i] /\ c[k].op # "enter_checkpoint"
      BY <1>1, <3>1 DEF Elems
    <3>3. CASE i = 1
      BY <1>1, <3>1, <3>2, <3>3 DEF SavingOps
    <3>4. CASE i # 1
      <4>1. i - 1 \in 1..n /\ m + (i - 1) = k - 1
        BY <1>1, <3>1, <3>4
      <4>2. c[k - 1] = t[i - 1]
        BY <1>1, <4>1
      <4> QED  BY <1>1, <3>1, <3>2, <3>4, <4>2 DEF Chained
    <3> QED  BY <3>3, <3>4
  <2> QED  BY <2>1, <2>2
<1> QED  BY <1>2 DEF Chained, c

\* Code that takes no checkpoint.
LEMMA ChainedFree ==
  ASSUME NEW t, \A x \in Elems(t) : x.op \notin SavingOps \cup {"enter_checkpoint"}
  PROVE  Chained(t)
BY DEF Chained, Elems, SavingOps

\* The code behind a checkpoint, and that of one.
LEMMA EnablesAfter ==
  ASSUME NEW i \in Instr
  PROVE  Enables(AfterSaveRegisters(i, TRUE))
<1> DEFINE x == U("irq_restore", 1, 0)
           y == U("unset_rt", 0, 0)
           l == LEAVE_KSPECEM_NONMI_RT(TRUE)
           b == SwapBranch
           k == LengthHook(i, LengthAfterSpec)
<1>1. x.op = "irq_restore" /\ x.a = 1
  BY DEF U
<1>2. l = <<x, y>>
  BY DEF LEAVE_KSPECEM_NONMI_RT, Flag
<1>3. x \in MicroOp /\ y \in MicroOp
  BY DEF U, MicroOp, OpNames
<1>4. AfterSaveRegisters(i, TRUE) = ((restart_nmi \o l) \o b) \o k
  BY DEF AfterSaveRegisters, LEAVE_KSPECEM_RT
<1> HIDE DEF x, y, l
<1>5. l \in Seq(MicroOp) /\ Elems(l) = {x, y}
  <2>1. <<x, y>> \in Seq(MicroOp)
    BY <1>3, Seq2
  <2>2. Elems(<<x, y>>) = {x, y}
    BY Short
  <2> QED  BY <1>2, <2>1, <2>2
<1>6. restart_nmi \in Seq(MicroOp) /\ b \in Seq(MicroOp) /\ k \in Seq(MicroOp)
  BY NmiType, SwapBranchType, LengthHookType
<1> HIDE DEF b, k
<1>7. x \in Elems(restart_nmi \o l) /\ restart_nmi \o l \in Seq(MicroOp)
  BY <1>5, <1>6, ElemsConcat, SeqConcat
<1> DEFINE c == restart_nmi \o l
<1>8. x \in Elems(c) /\ c \in Seq(MicroOp)
  BY <1>7
<1> HIDE DEF c
<1>9. x \in Elems(c \o b) /\ c \o b \in Seq(MicroOp)
  BY <1>6, <1>8, ElemsConcat, SeqConcat
<1> DEFINE d == c \o b
<1>10. x \in Elems(d) /\ d \in Seq(MicroOp)
  BY <1>9
<1> HIDE DEF d
<1>11. x \in Elems(d \o k)
  BY <1>6, <1>10, ElemsConcat
<1> QED  BY <1>1, <1>4, <1>11 DEF Enables, c, d

LEMMA CheckpointChain ==
  ASSUME NEW o \in MicroOp, o.op = "enter_checkpoint", prog[pc] \in Instr
  PROVE  /\ Chained(Runtime(o, TRUE)) /\ Enables(Runtime(o, TRUE))
         /\ Head(Runtime(o, TRUE)).op \notin SavingOps
<1> DEFINE n == U("new_checkpoint", 0, 0)
           s == U("save_stack", 0, 0)
           g == U("save_registers", Flag(TRUE), 0)
           k == <<n, s, g>>
           a == AfterSaveRegisters(prog[pc], TRUE)
<1>1. /\ n.op = "new_checkpoint" /\ s.op = "save_stack" /\ g.op = "save_registers"
      /\ n \in MicroOp /\ s \in MicroOp /\ g \in MicroOp
  BY DEF U, MicroOp, OpNames, Flag
<1>2. Runtime(o, TRUE) = (stop_nmi \o k) \o a
  BY DEF Runtime
<1>3. Made(a, AfterOps) /\ Enables(a)
  BY AfterCode, EnablesAfter
<1> HIDE DEF n, s, g, a
<1>4. /\ DOMAIN k = {1, 2, 3} /\ k[1] = n /\ k[2] = s /\ k[3] = g /\ k # << >> /\ Head(k) = n
      /\ k \in Seq(MicroOp) /\ Elems(k) = {n, s, g}
  BY <1>1, Short
<1> HIDE DEF k
<1>5. Chained(k)
  BY <1>1, <1>4 DEF Chained
<1>6. stop_nmi \in Seq(MicroOp) /\ a \in Seq(MicroOp)
  BY <1>3, NmiType DEF Made, Sound
<1>7. /\ \A x \in Elems(stop_nmi) : x.op \notin SavingOps \cup {"enter_checkpoint"}
      /\ \A x \in Elems(a) : x.op \notin SavingOps \cup {"enter_checkpoint"}
  BY <1>3, NmiCode DEF Made, NmiOps, AfterOps, LeaveOps, SavingOps
<1>8. Chained(stop_nmi) /\ Chained(a) /\ (a # << >> => Head(a).op \notin SavingOps)
  BY <1>6, <1>7, ChainedFree, ElemsTail
<1> DEFINE c == stop_nmi \o k
<1>9. stop_nmi # << >> /\ Head(stop_nmi) \in Elems(stop_nmi)
  <2>1. stop_nmi # << >>
    BY DEF stop_nmi
  <2> QED  BY <1>6, <2>1, ElemsTail
<1>10. Head(c \o a) = Head(stop_nmi)
  <2> HIDE DEF stop_nmi
  <2>1. Head(c) = Head(stop_nmi) /\ c # << >> /\ c \in Seq(MicroOp)
    BY <1>4, <1>6, <1>9
  <2> HIDE DEF c
  <2> QED  BY <1>6, <2>1
<1>11. c \in Seq(MicroOp) /\ Chained(c)
  <2>1. k # << >> => Head(k).op \notin SavingOps
    BY <1>1, <1>4 DEF SavingOps
  <2>2. \A x \in Elems(k) : x.op # "enter_checkpoint"
    BY <1>1, <1>4
  <2> QED  BY <1>4, <1>5, <1>6, <1>8, <2>1, <2>2, ChainedConcat, SeqConcat
<1> HIDE DEF c
<1>12. Chained(c \o a)
  BY <1>6, <1>7, <1>8, <1>11, ChainedConcat
<1>13. Enables(c \o a)
  BY <1>3, <1>6, <1>11, ElemsConcat DEF Enables
<1>14. Head(c \o a).op \notin SavingOps
  BY <1>7, <1>9, <1>10
<1> QED  BY <1>2, <1>12, <1>13, <1>14 DEF c

-----------------------------------------------------------------------------
(* Steps of a chain *)

\* Code that may be put before any rest.
Plain(s) ==
  /\ s \in Seq(MicroOp) /\ Chained(s)
  /\ s # << >> => Head(s).op \notin SavingOps
  /\ Has(s, "new_checkpoint") \/ Has(s, "save_registers") => Enables(s)

LEMMA PlainFree ==
  ASSUME NEW s \in Seq(MicroOp),
         \A x \in Elems(s) : x.op \notin SavingOps \cup {"enter_checkpoint", "new_checkpoint"}
  PROVE  Plain(s) /\ ~Has(s, "enter_checkpoint")
<1>1. Chained(s)
  BY ChainedFree
<1>2. s # << >> => Head(s) \in Elems(s)
  BY ElemsTail
<1> QED  BY <1>1, <1>2 DEF Plain, Has, SavingOps

\* Without the start of a checkpoint nothing is saved later.
LEMMA ChainedHead ==
  ASSUME NEW t \in Seq(MicroOp), Chained(t), \A x \in Elems(t) : x.op # "new_checkpoint",
         t # << >> => Head(t).op \notin SavingOps
  PROVE  \A x \in Elems(t) : x.op \notin SavingOps
<1>1. 1 \in DOMAIN t => t # << >> /\ Head(t) = t[1]
  OBVIOUS
<1>2. \A k \in DOMAIN t : k = 1 \/ k - 1 \in DOMAIN t
  <2>1. DOMAIN t = 1..Len(t) /\ Len(t) \in Nat
    OBVIOUS
  <2> QED  BY <2>1
<1>3. ASSUME NEW k \in DOMAIN t PROVE t[k].op # "save_stack"
  BY <1>1, <1>2 DEF Chained, Elems, SavingOps
<1>4. ASSUME NEW k \in DOMAIN t PROVE t[k].op # "save_registers"
  BY <1>1, <1>2, <1>3 DEF Chained, SavingOps
<1> QED  BY <1>3, <1>4 DEF Elems, SavingOps

\* What an interrupt returns to.
RegsPlain ==
  handler => /\ Chained(regs.todo) /\ \A x \in Elems(regs.todo) : x.op \notin SavingOps
             /\ Has(regs.todo, "enter_checkpoint") => regs.irq

LEMMA ResumePlain ==
  ASSUME Safe
  PROVE  /\ Plain(ResumeOps) /\ ~Has(ResumeOps, "enter_checkpoint") /\ Chained(ResumeOps)
         /\ \A x \in Elems(ResumeOps) : x.op \notin SavingOps
<1>1. ResumeOps \in Seq(MicroOp)
  BY ResumeCode DEF Sound
<1>2. \A x \in Elems(ResumeOps) : x.op \notin SavingOps \cup {"enter_checkpoint", "new_checkpoint"}
  BY ResumeCode DEF AfterOps, LeaveOps, NmiOps, SavingOps
<1> HIDE DEF ResumeOps
<1> QED  BY <1>1, <1>2, PlainFree DEF Plain

LEMMA RegsStep ==
  ASSUME Safe, ChainInv, regs' = CheckpointRegs \/ UNCHANGED <<handler, regs>> \/ ~handler'
  PROVE  RegsPlain'
<1>1. CASE regs' = CheckpointRegs
  <2>1. regs'.todo = ResumeOps
    BY <1>1 DEF CheckpointRegs
  <2> HIDE DEF ResumeOps
  <2> QED  BY <2>1, ResumePlain DEF RegsPlain, Chained, Elems, Has
<1>2. CASE UNCHANGED <<handler, regs>>
  BY <1>2 DEF ChainInv, RegsPlain, Chained, Elems, Has
<1>3. CASE ~handler'
  BY <1>3 DEF RegsPlain
<1> QED  BY <1>1, <1>2, <1>3

\* The operations s take the place of one that is not between the start of a
\* checkpoint and its end.
LEMMA ChainStep ==
  ASSUME Safe, ChainInv, todo # << >>, Op.op \notin {"new_checkpoint", "save_stack"},
         NEW s, Plain(s), Continue(s), status' = "running" /\ Has(s, "enter_checkpoint") => irq',
         regs' = CheckpointRegs \/ UNCHANGED <<handler, regs>>
  PROVE  ChainInv' /\ CopyInv'
<1>1. /\ Rest \in Seq(MicroOp) /\ Elems(todo) = {Op} \cup Elems(Rest) /\ todo \in Seq(MicroOp)
      /\ \A y \in Elems(Rest) : Precedes(Op, y)
  BY TodoFacts DEF Safe, TypeOK, TodoType
<1>2. /\ Chained(Rest) /\ (Rest # << >> => Head(Rest).op \notin SavingOps)
      /\ \A x \in Elems(Rest) : x.op # "enter_checkpoint"
  BY <1>1, ChainedTail DEF ChainInv, Rest, Op
<1>3. todo' = s \o Rest /\ s \in Seq(MicroOp) /\ Chained(s) /\ (s # << >> => Head(s).op \notin SavingOps)
  BY DEF Continue, Rest, Plain
<1>4. Elems(todo') = Elems(s) \cup Elems(Rest) /\ Chained(todo')
  BY <1>1, <1>2, <1>3, ElemsConcat, ChainedConcat
<1>5. todo' # << >> => Head(todo').op \notin SavingOps
  <2>1. todo' = Rest \/ (s # << >> /\ Head(todo') = Head(s))
    BY <1>1, <1>3
  <2> QED  BY <1>2, <1>3, <2>1
<1>6. Has(todo', "new_checkpoint") \/ Has(todo', "save_registers") => Enables(todo')
  <2>1. CASE Has(s, "new_checkpoint") \/ Has(s, "save_registers")
    BY <1>4, <2>1 DEF Plain, Enables
  <2>2. CASE Has(Rest, "new_checkpoint") \/ Has(Rest, "save_registers")
    <3>1. Has(todo, "new_checkpoint") \/ Has(todo, "save_registers")
      BY <1>1, <2>2 DEF Has
    <3>2. PICK x \in Elems(todo) : x.op = "irq_restore" /\ x.a = 1
      BY <3>1 DEF ChainInv, Enables
    <3>3. x # Op
      BY <1>1, <2>2, <3>2 DEF Precedes, Has, Masked
    <3> QED  BY <1>1, <1>4, <3>2, <3>3 DEF Enables
  <2> QED  BY <1>4, <2>1, <2>2 DEF Has
<1>7. status' = "running" /\ Has(todo', "enter_checkpoint") => irq'
  BY <1>2, <1>4 DEF Has
<1>8. RegsPlain'
  BY RegsStep
<1>9. ChainInv'
  BY <1>4, <1>6, <1>7, <1>8 DEF ChainInv, RegsPlain, Chained, Elems, Has, Enables
<1>10. CopyInv'
  BY <1>5 DEF CopyInv, Op, SavingOps
<1> QED  BY <1>9, <1>10

LEMMA ChainEnd ==
  ASSUME Safe, ChainInv, todo # << >>, Op.op \notin {"new_checkpoint", "save_stack"}, Continue(<< >>),
         regs' = CheckpointRegs \/ UNCHANGED <<handler, regs>>
  PROVE  ChainInv' /\ CopyInv'
<1> DEFINE s == << >>
<1>1. Continue(s) /\ s \in Seq(MicroOp) /\ Elems(s) = {}
  BY SeqEmpty, Short
<1> HIDE DEF s
<1>2. Plain(s) /\ ~Has(s, "enter_checkpoint")
  BY <1>1, PlainFree
<1> QED  BY <1>1, <1>2, ChainStep

LEMMA ChainMade ==
  ASSUME Safe, ChainInv, todo # << >>, Op.op \notin {"new_checkpoint", "save_stack"},
         NEW s \in Seq(MicroOp), Continue(s),
         \A x \in Elems(s) : x.op \notin SavingOps \cup {"enter_checkpoint", "new_checkpoint"},
         regs' = CheckpointRegs \/ UNCHANGED <<handler, regs>>
  PROVE  ChainInv' /\ CopyInv'
<1>1. Plain(s) /\ ~Has(s, "enter_checkpoint")
  BY PlainFree
<1> QED  BY <1>1, ChainStep

LEMMA ChainOne ==
  ASSUME Safe, ChainInv, todo # << >>, Op.op \notin {"new_checkpoint", "save_stack"},
         NEW x \in MicroOp, Continue(<<x>>), x.op \notin SavingOps \cup {"enter_checkpoint", "new_checkpoint"},
         regs' = CheckpointRegs \/ UNCHANGED <<handler, regs>>
  PROVE  ChainInv' /\ CopyInv'
<1> DEFINE s == <<x>>
<1>1. Continue(s) /\ s \in Seq(MicroOp) /\ Elems(s) = {x}
  BY Seq1, Short
<1> HIDE DEF s
<1> QED  BY <1>1, ChainMade

\* Other code takes the place of all that was left.
LEMMA ChainFresh ==
  ASSUME todo' \in Seq(MicroOp), RegsPlain',
         \A x \in Elems(todo') : x.op \notin SavingOps \cup {"enter_checkpoint", "new_checkpoint"}
  PROVE  ChainInv' /\ CopyInv'
<1> DEFINE s == todo'
<1>1. Plain(s) /\ ~Has(s, "enter_checkpoint")
  BY PlainFree
<1>2. ChainInv'
  BY <1>1 DEF ChainInv, RegsPlain, Plain, Chained, Elems, Has, Enables
<1>3. CopyInv'
  BY <1>1 DEF CopyInv, Op, Plain, SavingOps
<1> QED  BY <1>2, <1>3

\* The checks at the start of the hooks.
LEMMA HookChain ==
  ASSUME Safe, ChainInv,
         \/ HookStore \/ HookMemcpy \/ HookRestart \/ HookCheckSpecLength \/ HookCheckCallDepth
         \/ HookNewCheckpoint
  PROVE  ChainInv' /\ CopyInv'
<1>1. todo # << >> /\ UNCHANGED <<handler, regs>> /\ irq' = irq
  BY DEF HookStore, HookMemcpy, HookRestart, HookCheckSpecLength, HookCheckCallDepth, HookNewCheckpoint, At,
         mvars, irqVars
<1>2. Op.op \notin {"new_checkpoint", "save_stack"}
  BY DEF HookStore, HookMemcpy, HookRestart, HookCheckSpecLength, HookCheckCallDepth, HookNewCheckpoint, At, Op
<1>3. TypeOK /\ Op.a \in Int /\ Op.n \in Int
  BY <1>1, HeadType DEF Safe, TypeOK
<1>4. ASSUME Continue(<< >>) PROVE ChainInv' /\ CopyInv'
  BY <1>1, <1>2, <1>4, ChainEnd
<1>5. ASSUME NEW x \in MicroOp, x.op \in {"enter_store", "enter_memcpy", "enter_restart"}, Continue(<<x>>)
      PROVE  ChainInv' /\ CopyInv'
  <2>1. x.op \notin SavingOps \cup {"enter_checkpoint", "new_checkpoint"}
    BY <1>5 DEF SavingOps
  <2> QED  BY <1>1, <1>2, <1>5, <2>1, ChainOne
<1>6. CASE ~HookNewCheckpoint
  <2> DEFINE a == U("enter_store", Op.a, 0)
             b == U("enter_memcpy", Op.a, Op.n)
             c == U("enter_restart", Op.a, 0)
             d == U("enter_restart", RESTART_LIMIT_SPEC, 0)
             e == U("enter_restart", RESTART_CALL_DEPTH, 0)
  <2>1. \/ Continue(<< >>) \/ Continue(<<a>>) \/ Continue(<<b>>) \/ Continue(<<c>>) \/ Continue(<<d>>)
        \/ Continue(<<e>>)
    BY <1>6, Zenon DEF HookStore, HookMemcpy, HookRestart, HookCheckSpecLength, HookCheckCallDepth
  <2>2. \A x \in {a, b, c, d, e} :
          x \in MicroOp /\ x.op \in {"enter_store", "enter_memcpy", "enter_restart"}
    BY <1>3 DEF U, MicroOp, OpNames, RESTART_LIMIT_SPEC, RESTART_CALL_DEPTH
  <2> HIDE DEF a, b, c, d, e
  <2> QED  BY <1>4, <1>5, <2>1, <2>2
<1>7. CASE HookNewCheckpoint
  <2> DEFINE x == U("enter_checkpoint", 0, 0)
             t == SwapBranch \o LengthHook(prog[pc], LengthAfterSpec)
  <2>1. x \in MicroOp /\ x.op = "enter_checkpoint"
    BY DEF U, MicroOp, OpNames
  <2>2. (Continue(<<x>>) /\ irq) \/ Continue(t)
    BY <1>7 DEF HookNewCheckpoint, MayCheckpoint
  <2>3. Made(t, BranchedOps)
    BY <1>3, TypeFacts, BranchCode
  <2> HIDE DEF x, t
  <2>4. CASE Continue(<<x>>) /\ irq
    <3> DEFINE s == <<x>>
    <3>1. /\ s \in Seq(MicroOp) /\ Elems(s) = {x} /\ Head(s) = x /\ Continue(s)
          /\ DOMAIN s = {1} /\ s[1] = x
      BY <2>1, <2>4, Seq1, Short
    <3> HIDE DEF s
    <3>2. Plain(s)
      BY <2>1, <3>1 DEF Plain, Chained, Has, SavingOps
    <3> QED  BY <1>1, <1>2, <2>4, <3>1, <3>2, ChainStep
  <2>5. CASE Continue(t)
    <3>1. t \in Seq(MicroOp) /\ \A y \in Elems(t) : y.op \notin SavingOps \cup {"enter_checkpoint", "new_checkpoint"}
      BY <2>3 DEF Made, Sound, BranchedOps, SavingOps
    <3> QED  BY <1>1, <1>2, <2>5, <3>1, ChainMade
  <2> QED  BY <2>2, <2>4, <2>5
<1> QED  BY <1>6, <1>7

\* The runtime is entered; a checkpoint only with interrupts enabled.
LEMMA EnterChain ==
  ASSUME Safe, ChainInv, Enter
  PROVE  ChainInv' /\ CopyInv'
<1>1. /\ todo # << >> /\ Op.op \in EnterOps /\ Continue(Runtime(Op, irq)) /\ status = "running"
      /\ UNCHANGED <<handler, regs>>
  BY DEF Enter, At, Op, irqVars
<1>2. Op \in MicroOp /\ irq \in BOOLEAN /\ prog[pc] \in Instr /\ Op \in Elems(todo)
  BY <1>1, TodoFacts, TypeFacts DEF Safe, TypeOK, MachineType
<1> DEFINE s == Runtime(Op, irq)
<1>3. Made(s, RuntimeOps(Op.op))
  BY <1>1, <1>2, RuntimeCode DEF RuntimeFacts
<1>4. Op.op \notin {"new_checkpoint", "save_stack"} /\ Continue(s) /\ s \in Seq(MicroOp)
  BY <1>1, <1>3 DEF EnterOps, Made, Sound
<1>5. CASE Op.op = "enter_checkpoint"
  <2>1. irq = TRUE
    BY <1>1, <1>2, <1>5 DEF ChainInv, Has
  <2>2. Plain(s)
    BY <1>2, <1>4, <1>5, <2>1, CheckpointChain DEF Plain
  <2> HIDE DEF s
  <2>3. ~Has(s, "enter_checkpoint")
    BY <1>3, <1>5 DEF Made, RuntimeOps, AfterOps, LeaveOps, NmiOps, Has
  <2> QED  BY <1>1, <1>4, <2>2, <2>3, ChainStep
<1>6. CASE Op.op # "enter_checkpoint"
  <2> HIDE DEF s
  <2>1. \A x \in Elems(s) : x.op \notin SavingOps \cup {"enter_checkpoint", "new_checkpoint"}
    BY <1>1, <1>3, <1>6 DEF Made, EnterOps, RuntimeOps, LeaveOps, NmiOps, SavingOps
  <2> QED  BY <1>1, <1>4, <2>1, ChainMade
<1> QED  BY <1>5, <1>6

\* Operations that only end.
LEMMA EndChain ==
  ASSUME Safe, ChainInv,
         \/ IrqRestore \/ UnsetRt \/ SetWord \/ SaveRegisters \/ Select \/ InitData \/ InitDone
         \/ HandleTick
  PROVE  ChainInv' /\ CopyInv'
<1>1. /\ todo # << >> /\ Continue(<< >>) /\ UNCHANGED <<handler, regs>>
  BY DEF IrqRestore, UnsetRt, SetWord, SaveRegisters, Select, InitData, InitDone, HandleTick, At, irqVars
<1>2. Op.op \notin {"new_checkpoint", "save_stack"}
  BY DEF IrqRestore, UnsetRt, SetWord, SaveRegisters, Select, InitData, InitDone, HandleTick, At, Op
<1> QED  BY <1>1, <1>2, ChainEnd

\* A checkpoint is taken: the log is empty, then the frame is copied.
LEMMA SavingChain ==
  ASSUME Safe, Thread, ChainInv, CopyInv, NewCheckpoint \/ SaveStack
  PROVE  ChainInv' /\ CopyInv'
<1>1. /\ todo # << >> /\ Continue(<< >>) /\ UNCHANGED <<handler, regs>>
      /\ Op.op \in {"new_checkpoint", "save_stack"}
  BY DEF NewCheckpoint, SaveStack, At, Op, irqVars
<1>2. /\ Rest \in Seq(MicroOp) /\ Elems(todo) = {Op} \cup Elems(Rest) /\ todo \in Seq(MicroOp)
  BY <1>1, TodoFacts DEF Safe, TypeOK, TodoType
<1>3. /\ Chained(Rest) /\ \A x \in Elems(Rest) : x.op # "enter_checkpoint"
      /\ Rest # << >> /\ Op.op = "new_checkpoint" => Head(Rest).op # "save_registers"
      /\ Rest # << >> /\ Op.op = "save_stack" => Head(Rest).op # "save_stack"
  BY <1>1, <1>2, ChainedTail DEF ChainInv, Rest, Op
<1>4. todo' = Rest
  BY <1>1, <1>2 DEF Continue, Rest
<1>5. RegsPlain'
  BY <1>1, RegsStep
<1>6. ChainInv'
  <2>1. Has(todo', "new_checkpoint") \/ Has(todo', "save_registers") => Enables(todo')
    BY <1>1, <1>2, <1>4 DEF ChainInv, Enables, Has
  <2>2. ~Has(todo', "enter_checkpoint") /\ Chained(todo')
    BY <1>3, <1>4 DEF Has
  <2> QED  BY <1>5, <2>1, <2>2 DEF ChainInv, RegsPlain, Chained, Elems, Has, Enables
<1>7. CopyInv'
  <2>1. CASE NewCheckpoint
    <3>1. wl_pos' = 0 /\ Op.op = "new_checkpoint"
      BY <2>1 DEF NewCheckpoint, At, Op
    <3>2. Has(todo', "save_registers")
      BY <1>2, <1>4, <3>1 DEF Thread, SaveInv, Has
    <3> QED  BY <1>3, <1>4, <3>1, <3>2 DEF CopyInv, Op, Has
  <2>2. CASE SaveStack
    <3>1. /\ Op.op = "save_stack" /\ wl_base' = sp /\ wl_stack' = mem[Frame(sp)] /\ sp' = sp /\ mem' = mem
          /\ wl_pos' = wl_pos /\ in_spec' = in_spec
      BY <2>2 DEF SaveStack, At, Op, StackCopy, mvars, modeVars, logVars
    <3>2. in_spec => wl_pos = 0 /\ Has(todo', "save_registers")
      BY <1>1, <1>2, <1>4, <3>1 DEF CopyInv, SavingOps, Has
    <3> QED  BY <1>3, <1>4, <3>1, <3>2 DEF CopyInv, Op, Has
  <2> QED  BY <2>1, <2>2
<1> QED  BY <1>6, <1>7

\* An exception in speculation leaves the code of its handler.
LEMMA ExceptionChain ==
  ASSUME Safe, ChainInv, NEW type \in Int, NEW top \in Int, Exception(type, top)
  PROVE  ChainInv' /\ CopyInv'
<1> DEFINE r == U("restart_irq", type, top)
           q == U("iret", top, 0)
<1>1. todo' = <<r, q>> /\ regs' = CheckpointRegs
  BY DEF Exception
<1>2. r.op = "restart_irq" /\ q.op = "iret" /\ r \in MicroOp /\ q \in MicroOp
  BY DEF U, MicroOp, OpNames
<1> HIDE DEF r, q
<1>3. todo' \in Seq(MicroOp) /\ Elems(todo') = {r, q}
  BY <1>1, <1>2, Short, Seq2
<1>4. \A x \in Elems(todo') : x.op \notin SavingOps \cup {"enter_checkpoint", "new_checkpoint"}
  BY <1>2, <1>3 DEF SavingOps
<1>5. RegsPlain'
  BY <1>1, RegsStep
<1> QED  BY <1>3, <1>4, <1>5, ChainFresh

LEMMA ExecChain ==
  ASSUME Safe, ChainInv, Exec
  PROVE  ChainInv' /\ CopyInv'
<1>1. todo # << >> /\ Op.op \notin {"new_checkpoint", "save_stack"}
  BY DEF Exec, At, Op
<1>2. CASE Continue(<< >>) /\ UNCHANGED irqVars
  BY <1>1, <1>2, ChainEnd DEF irqVars
<1>3. ASSUME NEW type \in Int, Exception(type, sp) PROVE ChainInv' /\ CopyInv'
  <2>1. sp \in Int
    BY MachineAssumption DEF Safe, TypeOK, MachineType
  <2> QED  BY <1>3, <2>1, ExceptionChain
<1>4. RESTART_EXCEPTION \in Int /\ RESTART_PAGE_FAULT \in Int
  BY DEF RESTART_EXCEPTION, RESTART_PAGE_FAULT
<1> QED  BY <1>2, <1>3, <1>4 DEF Exec

\* The log is written and a restart begins.
LEMMA LogChain ==
  ASSUME Safe, ChainInv, Memcpy \/ LogWord \/ Restart \/ RestartIrq
  PROVE  ChainInv' /\ CopyInv'
<1>1. todo # << >> /\ Op.op \notin {"new_checkpoint", "save_stack"}
  BY DEF Memcpy, LogWord, Restart, RestartIrq, At, Op
<1>2. Op.a \in Int /\ Op.n \in Int /\ sp \in Int
  BY <1>1, HeadType, MachineAssumption DEF Safe, TypeOK, MachineType
<1>3. ASSUME NEW s \in Seq(MicroOp), Continue(s), UNCHANGED <<handler, regs>>,
             \A x \in Elems(s) : x.op \in {"write_wl", "memcpy", "restart", "undo", "finish"}
      PROVE  ChainInv' /\ CopyInv'
  <2>1. \A x \in Elems(s) : x.op \notin SavingOps \cup {"enter_checkpoint", "new_checkpoint"}
    BY <1>3 DEF SavingOps
  <2> QED  BY <1>1, <1>3, <2>1, ChainMade
<1>4. ASSUME Continue(<< >>), UNCHANGED <<handler, regs>> PROVE ChainInv' /\ CopyInv'
  BY <1>1, <1>4, ChainEnd
<1>5. CASE Memcpy
  <2> DEFINE m == U("memcpy", Op.a + 8, Op.n)
             w == WriteWl(Op.a)
             o == <<m>>
             c == w \o o
  <2>1. m \in MicroOp /\ m.op = "memcpy"
    BY <1>2 DEF U, MicroOp, OpNames
  <2>2. Made(w, {"write_wl"})
    BY <1>2, WriteWlCode
  <2>3. (Continue(<< >>) \/ Continue(c)) /\ UNCHANGED <<handler, regs>>
    BY <1>5 DEF Memcpy, irqVars
  <2> HIDE DEF m, w
  <2>4. o \in Seq(MicroOp) /\ Elems(o) = {m} /\ w \in Seq(MicroOp)
    BY <2>1, <2>2, Seq1, Short DEF Made, Sound
  <2> HIDE DEF o
  <2>5. c \in Seq(MicroOp) /\ Elems(c) = Elems(w) \cup {m}
    BY <2>4, ElemsConcat, SeqConcat
  <2> HIDE DEF c
  <2>6. \A x \in Elems(c) : x.op \in {"write_wl", "memcpy", "restart", "undo", "finish"}
    BY <2>1, <2>2, <2>5 DEF Made
  <2> QED  BY <1>3, <1>4, <2>3, <2>5, <2>6
<1>6. CASE LogWord
  <2> DEFINE r == U("restart", RESTART_WRITELOG_FULL, 0)
             s == <<r>>
  <2>1. r \in MicroOp /\ r.op = "restart" /\ RESTART_PAGE_FAULT \in Int
    BY DEF U, MicroOp, OpNames, RESTART_WRITELOG_FULL, RESTART_PAGE_FAULT
  <2>2. \/ Continue(s) /\ UNCHANGED <<handler, regs>>
        \/ Continue(<< >>) /\ UNCHANGED <<handler, regs>>
        \/ Exception(RESTART_PAGE_FAULT, sp)
    BY <1>6 DEF LogWord, WhenFull, irqVars
  <2> HIDE DEF r
  <2>3. s \in Seq(MicroOp) /\ Elems(s) = {r}
    BY <2>1, Seq1, Short
  <2> HIDE DEF s
  <2> QED  BY <1>2, <1>3, <1>4, <2>1, <2>2, <2>3, ExceptionChain
<1>7. CASE Restart \/ RestartIrq
  <2> DEFINE a == U("undo", sp, 0)
             b == U("finish", 0, 0)
             c == U("undo", Op.n, 1)
             d == U("finish", 1, 0)
             s == <<a, b>>
             t == <<c, d>>
  <2>1. /\ a \in MicroOp /\ a.op = "undo" /\ b \in MicroOp /\ b.op = "finish"
        /\ c \in MicroOp /\ c.op = "undo" /\ d \in MicroOp /\ d.op = "finish"
    BY <1>2 DEF U, MicroOp, OpNames
  <2>2. (Continue(<< >>) \/ Continue(s) \/ Continue(t)) /\ UNCHANGED <<handler, regs>>
    BY <1>7, Zenon DEF Restart, RestartIrq, irqVars
  <2> HIDE DEF a, b, c, d
  <2>3. s \in Seq(MicroOp) /\ Elems(s) = {a, b} /\ t \in Seq(MicroOp) /\ Elems(t) = {c, d}
    BY <2>1, Seq2, Short
  <2> HIDE DEF s, t
  <2> QED  BY <1>3, <1>4, <2>1, <2>2, <2>3
<1> QED  BY <1>5, <1>6, <1>7

\* A rollback and its end.
LEMMA UndoChain ==
  ASSUME Safe, ChainInv, Undo
  PROVE  ChainInv' /\ CopyInv'
<1>1. todo # << >> /\ Op.op = "undo" /\ status' = status
  BY DEF Undo, At, Op
<1>2. Op.a \in Int /\ NestedTop(Op.a) \in Int /\ RESTART_PAGE_FAULT \in Int
  BY <1>1, HeadType DEF Safe, TypeOK, NestedTop, RESTART_PAGE_FAULT
<1>3. CASE Continue(<< >>) /\ UNCHANGED irqVars
  BY <1>1, <1>3, ChainEnd DEF irqVars
<1>4. CASE Exception(RESTART_PAGE_FAULT, NestedTop(Op.a))
  BY <1>2, <1>4, ExceptionChain
<1>5. CASE UNCHANGED <<todo, irq, irqVars>>
  <2>1. ChainInv'
    BY <1>1, <1>5 DEF ChainInv, irqVars, Chained, Elems, Has, Enables
  <2>2. CopyInv'
    BY <1>1, <1>5 DEF CopyInv, Op, SavingOps
  <2> QED  BY <2>1, <2>2
<1> QED  BY <1>3, <1>4, <1>5 DEF Undo

LEMMA FinishChain ==
  ASSUME Safe, ChainInv, Finish
  PROVE  ChainInv' /\ CopyInv'
<1>1. todo # << >> /\ Op.op = "finish" /\ UNCHANGED <<handler, regs>>
  BY DEF Finish, At, Op, irqVars
<1>2. CASE Op.a = 0
  <2>1. todo' = ResumeOps
    BY <1>2 DEF Finish
  <2>2. /\ ResumeOps \in Seq(MicroOp)
        /\ \A x \in Elems(ResumeOps) : x.op \notin SavingOps \cup {"enter_checkpoint", "new_checkpoint"}
    BY ResumeCode DEF Sound, AfterOps, LeaveOps, NmiOps, SavingOps
  <2> HIDE DEF ResumeOps
  <2>3. RegsPlain'
    BY <1>1, RegsStep
  <2> QED  BY <2>1, <2>2, <2>3, ChainFresh
<1>3. CASE Op.a # 0
  <2>1. Continue(<< >>)
    BY <1>3 DEF Finish
  <2> QED  BY <1>1, <2>1, ChainEnd
<1> QED  BY <1>2, <1>3

\* New code, outside the runtime.
LEMMA FetchChain ==
  ASSUME Safe, ChainInv, Fetch \/ Enable
  PROVE  ChainInv' /\ CopyInv'
<1>1. UNCHANGED <<handler, regs>>
  BY DEF Fetch, Enable, irqVars
<1>2. RegsPlain'
  BY <1>1, RegsStep
<1>3. CASE Fetch
  <2>1. FetchFacts(todo', prog[pc])
    BY <1>3, TextFacts DEF Safe, Fetch
  <2>2. /\ todo' \in Seq(MicroOp)
        /\ \A x \in Elems(todo') : x.op \notin SavingOps \cup {"enter_checkpoint", "new_checkpoint"}
    BY <2>1 DEF FetchFacts, Made, Sound, HookOps, SavingOps
  <2> QED  BY <1>2, <2>2, ChainFresh
<1>4. CASE Enable
  <2> DEFINE x == U("enter_init", 0, 0)
  <2>1. todo' = <<x>> /\ x \in MicroOp /\ x.op = "enter_init"
    BY <1>4 DEF Enable, U, MicroOp, OpNames
  <2> HIDE DEF x
  <2>2. todo' \in Seq(MicroOp) /\ Elems(todo') = {x}
    BY <2>1, Seq1, Short
  <2>3. \A y \in Elems(todo') : y.op \notin SavingOps \cup {"enter_checkpoint", "new_checkpoint"}
    BY <2>1, <2>2 DEF SavingOps
  <2> QED  BY <1>2, <2>2, <2>3, ChainFresh
<1> QED  BY <1>3, <1>4

\* An interrupt comes between no two steps of a checkpoint.
LEMMA TimerChain ==
  ASSUME Safe, ChainInv, TimerInterrupt
  PROVE  ChainInv' /\ CopyInv'
<1> DEFINE h == U("hook_interrupt_timer", sp, 0)
           t == U("tick", sp, 0)
           r == U("hook_restart", RESTART_RETURN, 0)
           q == U("iret", sp, 0)
<1>1. /\ irq /\ regs'.todo = todo /\ regs'.irq = irq /\ todo' = <<h, t, r, q>>
  BY DEF TimerInterrupt
<1>2. sp \in Int
  BY MachineAssumption DEF Safe, TypeOK, MachineType
<1>3. /\ h.op = "hook_interrupt_timer" /\ t.op = "tick" /\ r.op = "hook_restart" /\ q.op = "iret"
      /\ h \in MicroOp /\ t \in MicroOp /\ r \in MicroOp /\ q \in MicroOp
  BY <1>2 DEF U, MicroOp, OpNames, RESTART_RETURN
<1> HIDE DEF h, t, r, q
<1>4. Elems(todo') = {h, t, r, q} /\ todo' \in Seq(MicroOp)
  <2>1. /\ Precedes(h, t) /\ Precedes(h, r) /\ Precedes(h, q)
        /\ Precedes(t, r) /\ Precedes(t, q) /\ Precedes(r, q)
    BY <1>3 DEF Precedes, LastOps, FirstOps, CheckpointOps, IsReturn, RestartOps
  <2>2. <<h, t, r, q>> \in Seq(MicroOp)
    BY <1>3, Seq4
  <2> QED  BY <1>1, <2>1, <2>2, Short4
<1>5. \A x \in Elems(todo') : x.op \notin SavingOps \cup {"enter_checkpoint", "new_checkpoint"}
  BY <1>3, <1>4 DEF SavingOps
<1>6. RegsPlain'
  <2>1. \A x \in Elems(todo) : x.op \notin SavingOps
    BY <1>1 DEF Safe, TodoInv, Code, Allowed, Masked, SavingOps
  <2> QED  BY <1>1, <2>1 DEF ChainInv, RegsPlain, Chained, Elems, Has
<1> QED  BY <1>4, <1>5, <1>6, ChainFresh

LEMMA TimerHookChain ==
  ASSUME Safe, ChainInv, HookInterruptTimer
  PROVE  ChainInv' /\ CopyInv'
<1>1. todo # << >> /\ Op.op \notin {"new_checkpoint", "save_stack"} /\ handler' = handler
  BY DEF HookInterruptTimer, At, Op
<1> DEFINE x == U("restart_irq", RESTART_TIMER, Op.a)
<1>2. x \in MicroOp /\ x.op = "restart_irq"
  BY <1>1, HeadType DEF Safe, TypeOK, U, MicroOp, OpNames, RESTART_TIMER
<1>3. \/ regs' = CheckpointRegs /\ Continue(<<x>>)
      \/ regs' = regs /\ Continue(<< >>)
  BY DEF HookInterruptTimer
<1> HIDE DEF x
<1>4. x.op \notin SavingOps \cup {"enter_checkpoint", "new_checkpoint"}
  BY <1>2 DEF SavingOps
<1> QED  BY <1>1, <1>2, <1>3, <1>4, ChainOne, ChainEnd

\* What was interrupted goes on.
LEMMA IretChain ==
  ASSUME Safe, Thread, ChainInv, Iret
  PROVE  ChainInv' /\ CopyInv'
<1>1. todo # << >> /\ status = "running" /\ Op.op = "iret" /\ ~handler' /\ Resume(regs) /\ todo' = regs.todo
  BY DEF Iret, At, Op
<1>2. TypeOK /\ SaveInv /\ regs.todo \in Seq(MicroOp)
  BY DEF Safe, Thread, TypeOK, IrqType
<1>3. handler
  <2>1. Allowed(Op, irq, handler, in_spec, init_done)
    BY <1>1, TodoFacts DEF Safe
  <2> QED  BY <1>1, <2>1 DEF Allowed, InterruptOps
<1>4. /\ Chained(regs.todo) /\ \A x \in Elems(regs.todo) : x.op \notin SavingOps
      /\ Has(regs.todo, "enter_checkpoint") => regs.irq
      /\ ~Has(regs.todo, "new_checkpoint")
  BY <1>2, <1>3 DEF ChainInv, SaveInv
<1>5. ~Has(regs.todo, "save_registers")
  BY <1>4 DEF Has, SavingOps
<1>6. status' = "running" => irq' = regs.irq
  BY <1>1 DEF Resume
<1>7. ChainInv'
  BY <1>1, <1>4, <1>5, <1>6 DEF ChainInv, Chained, Elems, Has, Enables
<1>8. CopyInv'
  <2>1. todo' # << >> => Head(todo') \in Elems(regs.todo)
    BY <1>1, <1>2, ElemsTail
  <2> QED  BY <1>4, <2>1 DEF CopyInv, Op, SavingOps
<1> QED  BY <1>7, <1>8

LEMMA ChainNext ==
  ASSUME ~Nmis
  PROVE  Safe /\ Thread /\ ChainInv /\ CopyInv /\ [Next]_vars => ChainInv' /\ CopyInv'
<1> SUFFICES ASSUME Safe, Thread, ChainInv, CopyInv, [Next]_vars PROVE ChainInv' /\ CopyInv'
  OBVIOUS
<1>1. CASE Fetch \/ Enable
  BY <1>1, FetchChain
<1>2. CASE Exec
  BY <1>2, ExecChain
<1>3. CASE \/ HookStore \/ HookMemcpy \/ HookRestart \/ HookCheckSpecLength \/ HookCheckCallDepth
           \/ HookNewCheckpoint
  BY <1>3, HookChain
<1>4. CASE Enter
  BY <1>4, EnterChain
<1>5. CASE \/ IrqRestore \/ UnsetRt \/ SetWord \/ SaveRegisters \/ Select \/ InitData \/ InitDone
           \/ HandleTick
  BY <1>5, EndChain
<1>6. CASE NewCheckpoint \/ SaveStack
  BY <1>6, SavingChain
<1>7. CASE Memcpy \/ LogWord \/ Restart \/ RestartIrq
  BY <1>7, LogChain
<1>8. CASE Undo
  BY <1>8, UndoChain
<1>9. CASE Finish
  BY <1>9, FinishChain
<1>10. CASE HookInterruptTimer
  BY <1>10, TimerHookChain
<1>11. CASE Iret
  BY <1>11, IretChain
<1>12. CASE TimerInterrupt
  BY <1>12, TimerChain
<1>13. CASE UndoInUse
  <2>1. /\ UNCHANGED <<todo, irq, regs, wl_base, wl_stack, mem, sp, wl_pos>>
        /\ (handler' <=> handler) /\ (in_spec' <=> in_spec) /\ status' # "running"
    BY <1>13, HaltFacts DEF Halt
  <2>2. ChainInv'
    BY <2>1 DEF ChainInv, Chained, Elems, Has, Enables
  <2>3. CopyInv'
    BY <2>1 DEF CopyInv, Op, Has
  <2> QED  BY <2>2, <2>3
<1>14. CASE SetSpecEnabled \/ UNCHANGED vars
  <2>1. UNCHANGED <<todo, irq, status, handler, regs, wl_base, wl_stack, mem, sp, wl_pos, in_spec>>
    BY <1>14 DEF SetSpecEnabled, vars, mvars, modeVars, logVars, ckptVars, irqVars
  <2>2. ChainInv'
    BY <2>1 DEF ChainInv, Chained, Elems, Has, Enables
  <2>3. CopyInv'
    BY <2>1 DEF CopyInv, Op, Has
  <2> QED  BY <2>2, <2>3
<1> QED
  BY <1>1, <1>2, <1>3, <1>4, <1>5, <1>6, <1>7, <1>8, <1>9, <1>10, <1>11, <1>12, <1>13, <1>14, NoNmis
  DEF Next, Cpu, Environment, Done

LEMMA ChainInit == Init => ChainInv /\ CopyInv
<1> SUFFICES ASSUME Init PROVE ChainInv /\ CopyInv
  OBVIOUS
<1>1. todo = << >> /\ ~handler /\ Elems(todo) = {} /\ DOMAIN todo = {}
  BY Short DEF Init
<1> QED  BY <1>1 DEF ChainInv, CopyInv, Chained, Has, Enables

LEMMA ChainAlways == ASSUME ~Nmis PROVE Spec => [](Safe /\ Thread /\ ChainInv /\ CopyInv)
<1>1. Init => ChainInv /\ CopyInv
  BY ChainInit
<1>2. Safe /\ Thread /\ ChainInv /\ CopyInv /\ [Next]_vars => ChainInv' /\ CopyInv'
  BY ChainNext
<1>3. Spec => [](Safe /\ Thread)
  BY ThreadAlways
<1> QED  BY <1>1, <1>2, <1>3, PTL DEF Spec

\* Saved, of the operations that are left.
LEMMA SavedHas == Saved <=> in_spec /\ ~Has(todo, "save_registers")
BY DEF Saved, Has, Elems

\* Once a checkpoint has begun, it is all that the CPU does.
LEMMA SavingHead ==
  ASSUME Safe, ChainInv, in_spec, ~Saved
  PROVE  /\ todo # << >> /\ Op.op \in SavingOps /\ ~irq /\ ~handler
         /\ \A x \in Elems(todo) : x.op # "new_checkpoint"
<1>1. PICK x \in Elems(todo) : x.op = "save_registers"
  BY SavedHas DEF Has
<1>2. todo # << >> /\ todo \in Seq(MicroOp) /\ Chained(todo)
  BY <1>1, Short DEF ChainInv, Safe, TypeOK, TodoType
<1>3. \A y \in Elems(todo) : Allowed(y, irq, handler, in_spec, init_done)
  BY DEF Safe, TodoInv, Code
<1>4. \A y \in Elems(todo) : y.op # "new_checkpoint"
  BY <1>3 DEF Allowed, CheckpointOps
<1>5. ~irq /\ ~handler
  BY <1>1, <1>3 DEF Allowed, Masked, HandlerOps, InterruptOps, RollbackOps
<1>6. Op.op \in SavingOps
  BY <1>1, <1>2, <1>4, ChainedHead DEF Op, SavingOps
<1> QED  BY <1>2, <1>4, <1>5, <1>6

LEMMA SavingStep ==
  ASSUME ~Nmis, Safe, ChainInv, in_spec, ~Saved, [Next]_vars
  PROVE  SaveStack \/ SaveRegisters \/ UNCHANGED vars
<1>1. todo # << >> /\ Op.op \in SavingOps /\ ~irq /\ ~handler
  BY SavingHead
<1>2. Cpu => SaveStack \/ SaveRegisters
  BY <1>1, NoNmis DEF Cpu, Fetch, AtInstruction, Exec, HookStore, HookMemcpy, HookRestart, HookCheckSpecLength,
        HookCheckCallDepth, HookNewCheckpoint, Enter, EnterOps, IrqRestore, UnsetRt, SetWord,
        NewCheckpoint, Select, Memcpy, LogWord, Restart, RestartIrq, Undo, UndoInUse, Finish,
        HookInterruptTimer, HandleTick, Iret, InitData, InitDone, At, Op, SavingOps
<1>3. ~Environment
  BY <1>1, NoNmis DEF Environment, TimerInterrupt, Enable, SetSpecEnabled, AtInstruction
<1> QED  BY <1>2, <1>3 DEF Next, Done

\* The copy of the frame changes nothing that the kernel sees.
LEMMA SaveStackView ==
  ASSUME Safe, ChainInv, in_spec, ~Saved, SaveStack
  PROVE  View' = View
<1>1. /\ todo # << >> /\ Op.op = "save_stack" /\ Continue(<< >>)
      /\ UNCHANGED <<pc, sp, rets, mem, irq, in_spec, handler, regs>>
  BY DEF SaveStack, At, Op, mvars, modeVars, irqVars
<1>2. Elems(todo) = {Op} \cup Elems(todo')
  BY <1>1, TodoFacts, ReplacedByOne DEF Safe
<1>3. ~Saved'
  BY <1>1, <1>2, SavedHas DEF Saved, Has, Elems
<1>4. ViewPc' = ViewPc /\ ViewSp' = ViewSp
  BY <1>1, <1>3 DEF ViewPc, ViewSp
<1>5. \A w : Restored(w)' = Restored(w)
  BY <1>1, <1>3 DEF Restored
<1>6. \A w : Dead(w)' <=> Dead(w)
  BY <1>4 DEF Dead
<1>7. ViewMem' = ViewMem
  BY <1>5, <1>6 DEF ViewMem
<1>8. ViewRets' = ViewRets
  BY <1>1, <1>4 DEF ViewRets
<1>9. ViewIrq' = ViewIrq
  <2>1. /\ (\E k \in DOMAIN todo : todo[k].op = "irq_restore") <=> Has(todo, "irq_restore")
        /\ (\E k \in DOMAIN todo' : todo'[k].op = "irq_restore") <=> Has(todo', "irq_restore")
        /\ (\E k \in DOMAIN todo : todo[k].op = "irq_restore" /\ todo[k].a = 1) <=> Enables(todo)
        /\ (\E k \in DOMAIN todo' : todo'[k].op = "irq_restore" /\ todo'[k].a = 1) <=> Enables(todo')
    BY DEF Has, Enables, Elems
  <2>2. (Has(todo', "irq_restore") <=> Has(todo, "irq_restore")) /\ (Enables(todo') <=> Enables(todo))
    BY <1>1, <1>2 DEF Has, Enables
  <2> QED  BY <1>1, <1>3, <2>1, <2>2 DEF ViewIrq
<1> QED  BY <1>4, <1>7, <1>8, <1>9 DEF View

\* With the registers the checkpoint is complete, and a restart would find what
\* there is.
LEMMA SaveRegistersView ==
  ASSUME Safe, ChainInv, CopyInv, in_spec, ~Saved, SaveRegisters
  PROVE  View' = View
<1>1. /\ todo # << >> /\ Op.op = "save_registers" /\ Continue(<< >>)
      /\ kregs'.pc = pc /\ kregs'.sp = sp
      /\ UNCHANGED <<pc, sp, rets, mem, irq, in_spec, handler, regs, wl_stack, wl_base, wl_pos>>
  BY DEF SaveRegisters, At, Op, mvars, modeVars, logVars, irqVars
<1>2. ~handler /\ \A x \in Elems(todo) : x.op # "new_checkpoint"
  BY SavingHead
<1>3. /\ Rest \in Seq(MicroOp) /\ todo \in Seq(MicroOp) /\ Elems(todo) = {Op} \cup Elems(Rest)
  BY <1>1, TodoFacts DEF Safe, TypeOK, TodoType
<1>4. todo' = Rest
  BY <1>1, <1>3 DEF Continue, Rest
<1>5. Saved'
  <2>1. Chained(Rest) /\ (Rest # << >> => Head(Rest).op \notin SavingOps)
    BY <1>1, <1>3, ChainedTail DEF ChainInv, Rest, Op
  <2>2. \A x \in Elems(Rest) : x.op \notin SavingOps
    BY <1>2, <1>3, <2>1, ChainedHead
  <2> QED  BY <1>1, <1>4, <2>2 DEF Saved, Elems, SavingOps
<1>6. wl_base = sp /\ wl_stack = mem[Frame(sp)] /\ wl_pos = 0
  BY <1>1 DEF CopyInv, SavingOps
<1>7. ViewPc' = ViewPc /\ ViewSp' = ViewSp
  BY <1>1, <1>2, <1>5 DEF ViewPc, ViewSp
<1>8. \A w : Restored(w)' = mem[w] /\ Restored(w) = mem[w]
  <2>1. \A w : ~Logged(w)'
    <3>1. wl_pos' = 0 /\ 0..(0 - 1) = {}
      BY <1>1, <1>6
    <3> QED  BY <3>1 DEF Logged
  <2> QED  BY <1>1, <1>5, <1>6, <2>1 DEF Restored
<1>9. \A w : Dead(w)' <=> Dead(w)
  BY <1>7 DEF Dead
<1>10. ViewMem' = ViewMem
  BY <1>8, <1>9 DEF ViewMem
<1>11. ViewRets' = ViewRets
  BY <1>1, <1>7 DEF ViewRets
<1>12. ViewIrq' = TRUE /\ ViewIrq = TRUE
  <2>1. Has(todo, "save_registers")
    BY <1>1, <1>3 DEF Has
  <2>2. Enables(todo)
    BY <2>1 DEF ChainInv
  <2> QED  BY <1>5, <2>2 DEF ViewIrq, Enables, Elems
<1> QED  BY <1>7, <1>10, <1>11, <1>12 DEF View

\* When there are no NMIs, nothing comes between the start of a checkpoint and
\* its last step, and neither step changes where and with what the thread will
\* resume: interrupts are disabled, and the log is empty and the frame's copy
\* current when the registers are saved (kspecem_new_checkpoint,
\* kspecem_save_stack and kspecem_asm_save_registers).
THEOREM CheckpointAlwaysExact == ASSUME ~Nmis PROVE Spec => CheckpointExact
<1>1. Safe /\ ChainInv /\ CopyInv /\ [Next]_vars => [in_spec /\ ~Saved => View' = View]_vars
  <2> SUFFICES ASSUME Safe, ChainInv, CopyInv, [Next]_vars, in_spec, ~Saved, ~UNCHANGED vars
               PROVE  View' = View
    OBVIOUS
  <2>1. SaveStack \/ SaveRegisters
    BY SavingStep
  <2> QED  BY <2>1, SaveStackView, SaveRegistersView
<1> QED  BY <1>1, ChainAlways, PTL DEF Spec, CheckpointExact

-----------------------------------------------------------------------------
(* The frames of a rollback *)

\* Operations that name a frame they go back to.
FrameOps == FirstOps \cup {"iret"}

\* The frames that the runtime and iret go back to hold what was put there.
Marked(x) ==
  /\ x.op \in {"undo", "hook_interrupt_timer"} => mem[Frame(x.a + 2)] = RtMark
  /\ x.op = "restart_irq" => mem[Frame(x.n + 2)] = RtMark
  /\ x.op = "iret" => x.a \in 1..(StackSize - 2) /\ mem[Frame(x.a + 1)] = RtMark

\* A rollback in a handler runs above the frame that the handler returns to.
SameFrame(x, y) ==
  x.op = "iret" => /\ y.op = "undo" => y.a = x.a /\ y.n = 1
                   /\ y.op = "hook_interrupt_timer" => y.a = x.a
                   /\ y.op = "restart_irq" => y.n = x.a

FrameInv ==
  /\ \A x \in Elems(todo) : Marked(x)
  /\ \A x, y \in Elems(todo) : SameFrame(x, y)

\* The copied frame is the checkpoint's, and no rollback runs below it.
Above(x) ==
  /\ x.op \in {"undo", "hook_interrupt_timer", "iret"} => wl_base <= x.a
  /\ x.op = "restart_irq" => wl_base <= x.n

BaseInv ==
  in_spec => /\ ~Has(todo, "save_registers") => wl_base = kregs.sp
             /\ \A x \in Elems(todo) : Above(x)

\* Outside a handler only the restore itself names a frame.
LEMMA FrameOpsHandler ==
  ASSUME TypeOK, TodoInv, todo # << >>
  PROVE  /\ ~handler /\ Op.op # "undo" => \A x \in Elems(todo) : x.op \notin FrameOps
         /\ \A x \in Elems(Rest) : x.op \in FrameOps => x.op = "iret" /\ handler
<1>1. /\ Elems(todo) = {Op} \cup Elems(Rest) /\ Allowed(Op, irq, handler, in_spec, init_done)
      /\ \A y \in Elems(Rest) : Allowed(y, irq, handler, in_spec, init_done) /\ y.op \notin FirstOps
  BY TodoFacts
<1> QED  BY <1>1 DEF Allowed, InterruptOps, FrameOps, FirstOps

\* Operations that name no frame take the place of one, and in a handler no
\* frame is written.
LEMMA FrameStep ==
  ASSUME Safe, NmiInv, FrameInv, BaseInv, todo # << >>, NEW E, Elems(todo') = E \cup Elems(Rest),
         \A x \in E : x.op \notin FrameOps,
         handler => \A d \in 1..StackSize : mem'[Frame(d)] = mem[Frame(d)]
  PROVE  FrameInv' /\ (in_spec /\ wl_base' = wl_base => \A x \in Elems(todo') : Above(x)')
<1>1. /\ TypeOK /\ TodoInv /\ Elems(todo) = {Op} \cup Elems(Rest)
      /\ \A x \in Elems(Rest) : x.op \in FrameOps => x.op = "iret" /\ handler
  BY TodoFacts, FrameOpsHandler DEF Safe
<1>2. \A x \in Elems(todo') : x.op \in FrameOps => x \in Elems(todo) /\ x.op = "iret" /\ handler
  BY <1>1
<1>3. ASSUME NEW x \in Elems(todo') PROVE Marked(x)'
  <2>1. CASE x.op # "iret"
    BY <1>2, <2>1 DEF Marked, FrameOps, FirstOps
  <2>2. CASE x.op = "iret"
    <3>1. handler /\ x.a \in 1..(StackSize - 2) /\ mem[Frame(x.a + 1)] = RtMark
      BY <1>2, <2>2 DEF FrameOps, FrameInv, Marked
    <3>2. x.a + 1 \in 1..StackSize
      BY <3>1, MachineAssumption
    <3>3. mem'[Frame(x.a + 1)] = RtMark
      BY <3>1, <3>2
    <3> QED  BY <2>2, <3>1, <3>3 DEF Marked, Frame
  <2> QED  BY <2>1, <2>2
<1>4. \A x, y \in Elems(todo') : SameFrame(x, y)
  BY <1>2 DEF SameFrame, FrameOps, FirstOps
<1>5. FrameInv'
  BY <1>3, <1>4 DEF FrameInv, SameFrame
<1>6. in_spec /\ wl_base' = wl_base => \A x \in Elems(todo') : Above(x)'
  BY <1>2 DEF BaseInv, Above, FrameOps, FirstOps
<1> QED  BY <1>5, <1>6

\* The same when the checkpoint is not touched.
LEMMA FrameContinue ==
  ASSUME Safe, NmiInv, FrameInv, BaseInv, todo # << >>, in_spec => ~Has(todo, "save_registers"),
         NEW s \in Seq(MicroOp), Continue(s), \A x \in Elems(s) : x.op \notin FrameOps,
         handler => \A d \in 1..StackSize : mem'[Frame(d)] = mem[Frame(d)],
         in_spec' => in_spec, UNCHANGED <<wl_base, kregs>>
  PROVE  FrameInv' /\ BaseInv'
<1>1. Elems(todo') = Elems(s) \cup Elems(Rest)
  BY Replaced DEF Safe
<1>2. FrameInv' /\ (in_spec => \A x \in Elems(todo') : Above(x)')
  BY <1>1, FrameStep
<1>3. BaseInv'
  BY <1>2 DEF BaseInv
<1> QED  BY <1>2, <1>3

\* Code that names no frame.
LEMMA FrameFree ==
  ASSUME \A x \in Elems(todo') : x.op \notin FrameOps, in_spec' => wl_base' = kregs'.sp \/ Has(todo', "save_registers")
  PROVE  FrameInv' /\ BaseInv'
<1>1. FrameInv'
  BY DEF FrameInv, Marked, SameFrame, FrameOps, FirstOps
<1>2. BaseInv'
  BY DEF BaseInv, Above, Has, FrameOps, FirstOps
<1> QED  BY <1>1, <1>2

\* No checkpoint is being taken.
Unsaving == in_spec => ~Has(todo, "save_registers")

Framed == Safe /\ Thread /\ NmiInv /\ FrameInv /\ BaseInv /\ Unsaving

\* Steps whose operations name no frame.
LEMMA PlainFrames ==
  ASSUME Framed,
         \/ HookStore \/ HookMemcpy \/ HookRestart \/ HookCheckSpecLength \/ HookCheckCallDepth
         \/ HookNewCheckpoint \/ Enter \/ Memcpy
  PROVE  FrameInv' /\ BaseInv'
<1>1. /\ Safe /\ NmiInv /\ FrameInv /\ BaseInv /\ (in_spec => ~Has(todo, "save_registers"))
      /\ TypeOK
  BY DEF Framed, Unsaving, Safe
<1>2. todo # << >> /\ mem' = mem /\ UNCHANGED <<wl_base, kregs>> /\ in_spec' = in_spec
  BY DEF HookStore, HookMemcpy, HookRestart, HookCheckSpecLength, HookCheckCallDepth, HookNewCheckpoint,
         Enter, Memcpy, At, mvars, modeVars, ckptVars
<1>3. Op \in MicroOp /\ Op.a \in Int /\ Op.n \in Int /\ irq \in BOOLEAN /\ prog[pc] \in Instr
  BY <1>1, <1>2, HeadType, TodoFacts, TypeFacts DEF Safe, TypeOK, MachineType
<1>4. ASSUME NEW s \in Seq(MicroOp), Continue(s), \A x \in Elems(s) : x.op \notin FrameOps
      PROVE  FrameInv' /\ BaseInv'
  BY <1>1, <1>2, <1>4, FrameContinue
<1>5. ASSUME Continue(<< >>) PROVE FrameInv' /\ BaseInv'
  <2> DEFINE s == << >>
  <2>1. s \in Seq(MicroOp) /\ Elems(s) = {} /\ Continue(s)
    BY <1>5, SeqEmpty, Short
  <2> HIDE DEF s
  <2> QED  BY <1>4, <2>1
<1>6. ASSUME NEW x \in MicroOp, x.op \in EnterOps, Continue(<<x>>) PROVE FrameInv' /\ BaseInv'
  <2> DEFINE s == <<x>>
  <2>1. s \in Seq(MicroOp) /\ Elems(s) = {x} /\ Continue(s) /\ x.op \notin FrameOps
    BY <1>6, Seq1, Short DEF EnterOps, FrameOps, FirstOps
  <2> HIDE DEF s
  <2> QED  BY <1>4, <2>1
<1>7. CASE HookStore \/ HookMemcpy \/ HookRestart \/ HookCheckSpecLength \/ HookCheckCallDepth
  <2> DEFINE a == U("enter_store", Op.a, 0)
             b == U("enter_memcpy", Op.a, Op.n)
             c == U("enter_restart", Op.a, 0)
             d == U("enter_restart", RESTART_LIMIT_SPEC, 0)
             e == U("enter_restart", RESTART_CALL_DEPTH, 0)
  <2>1. \/ Continue(<< >>) \/ Continue(<<a>>) \/ Continue(<<b>>) \/ Continue(<<c>>) \/ Continue(<<d>>)
        \/ Continue(<<e>>)
    BY <1>7, Zenon DEF HookStore, HookMemcpy, HookRestart, HookCheckSpecLength, HookCheckCallDepth
  <2>2. \A x \in {a, b, c, d, e} : x \in MicroOp /\ x.op \in EnterOps
    BY <1>3 DEF U, MicroOp, OpNames, RESTART_LIMIT_SPEC, RESTART_CALL_DEPTH, EnterOps
  <2> HIDE DEF a, b, c, d, e
  <2> QED  BY <1>5, <1>6, <2>1, <2>2
<1>8. CASE HookNewCheckpoint
  <2> DEFINE x == U("enter_checkpoint", 0, 0)
             t == SwapBranch \o LengthHook(prog[pc], LengthAfterSpec)
  <2>1. x \in MicroOp /\ x.op \in EnterOps
    BY DEF U, MicroOp, OpNames, EnterOps
  <2>2. Continue(<<x>>) \/ Continue(t)
    BY <1>8 DEF HookNewCheckpoint
  <2>3. Made(t, BranchedOps)
    BY <1>3, BranchCode
  <2> HIDE DEF x, t
  <2>4. t \in Seq(MicroOp) /\ \A y \in Elems(t) : y.op \notin FrameOps
    BY <2>3 DEF Made, Sound, BranchedOps, FrameOps, FirstOps
  <2> QED  BY <1>4, <1>6, <2>1, <2>2, <2>4
<1>9. CASE Enter
  <2> DEFINE s == Runtime(Op, irq)
  <2>1. Op.op \in EnterOps /\ Continue(s)
    BY <1>9 DEF Enter, At, Op
  <2>2. Made(s, RuntimeOps(Op.op))
    BY <1>3, <2>1, RuntimeCode DEF RuntimeFacts
  <2> HIDE DEF s
  <2>3. s \in Seq(MicroOp) /\ \A x \in Elems(s) : x.op \notin FrameOps
    BY <2>1, <2>2 DEF Made, Sound, EnterOps, RuntimeOps, AfterOps, LeaveOps, NmiOps, FrameOps, FirstOps
  <2> QED  BY <1>4, <2>1, <2>3
<1>10. CASE Memcpy
  <2> DEFINE m == U("memcpy", Op.a + 8, Op.n)
             w == WriteWl(Op.a)
             o == <<m>>
             c == w \o o
  <2>1. m \in MicroOp /\ m.op = "memcpy"
    BY <1>3 DEF U, MicroOp, OpNames
  <2>2. Made(w, {"write_wl"})
    BY <1>3, WriteWlCode
  <2>3. Continue(<< >>) \/ Continue(c)
    BY <1>10 DEF Memcpy
  <2> HIDE DEF m, w
  <2>4. o \in Seq(MicroOp) /\ Elems(o) = {m} /\ w \in Seq(MicroOp)
    BY <2>1, <2>2, Seq1, Short DEF Made, Sound
  <2> HIDE DEF o
  <2>5. c \in Seq(MicroOp) /\ Elems(c) = Elems(w) \cup {m}
    BY <2>4, ElemsConcat, SeqConcat
  <2> HIDE DEF c
  <2>6. \A x \in Elems(c) : x.op \notin FrameOps
    BY <2>1, <2>2, <2>5 DEF Made, FrameOps, FirstOps
  <2> QED  BY <1>4, <1>5, <2>3, <2>5, <2>6
<1> QED  BY <1>7, <1>8, <1>9, <1>10

\* An operation ends.
LEMMA FrameEnd ==
  ASSUME Framed, todo # << >>, Continue(<< >>),
         handler => \A d \in 1..StackSize : mem'[Frame(d)] = mem[Frame(d)],
         in_spec' => in_spec, UNCHANGED <<wl_base, kregs>>
  PROVE  FrameInv' /\ BaseInv'
<1>1. /\ Safe /\ NmiInv /\ FrameInv /\ BaseInv /\ (in_spec => ~Has(todo, "save_registers"))
  BY DEF Framed, Unsaving
<1> DEFINE s == << >>
<1>2. s \in Seq(MicroOp) /\ Elems(s) = {} /\ Continue(s)
  BY SeqEmpty, Short
<1> HIDE DEF s
<1> QED  BY <1>1, <1>2, FrameContinue

\* The words of the runtime are no frames.
LEMMA FrameOther ==
  ASSUME NEW d \in 1..StackSize
  PROVE  /\ Frame(d) \in Words /\ Frame(d) # IgnoreNmis /\ Frame(d) # SwapCondition /\ Frame(d) # Jiffies
         /\ \A e \in 1..StackSize : Frame(d) = Frame(e) => d = e
BY MachineAssumption DEF Frame, Words, IgnoreNmis, SwapCondition, Jiffies, FirstHeap

LEMMA EndFrames ==
  ASSUME Framed,
         IrqRestore \/ UnsetRt \/ SetWord \/ Select \/ InitData \/ InitDone \/ HandleTick
  PROVE  FrameInv' /\ BaseInv'
<1>1. todo # << >> /\ Continue(<< >>) /\ UNCHANGED <<wl_base, kregs>> /\ (in_spec' => in_spec)
  BY DEF IrqRestore, UnsetRt, SetWord, Select, InitData, InitDone, HandleTick, At, modeVars, ckptVars
<1>2. /\ mem \in [Words -> Int] /\ Allowed(Op, irq, handler, in_spec, init_done)
  BY <1>1, TodoFacts DEF Framed, Safe, TypeOK, MachineType
<1>3. ASSUME NEW d \in 1..StackSize PROVE mem'[Frame(d)] = mem[Frame(d)]
  <2>1. Frame(d) \in Words /\ Frame(d) # IgnoreNmis /\ Frame(d) # SwapCondition /\ Frame(d) # Jiffies
    BY FrameOther
  <2>2. CASE IrqRestore \/ UnsetRt \/ Select \/ InitDone
    BY <2>2 DEF IrqRestore, UnsetRt, Select, InitDone, mvars
  <2>3. CASE SetWord
    <3>1. Op.op \in {"add", "set"}
      BY <2>3 DEF SetWord, At, Op
    <3>2. Op.a # Frame(d)
      BY <1>2, <2>1, <3>1 DEF Allowed
    <3> QED  BY <1>2, <2>1, <2>3, <3>2 DEF SetWord
  <2>4. CASE InitData \/ HandleTick
    BY <1>2, <2>1, <2>4 DEF InitData, HandleTick
  <2> QED  BY <2>2, <2>3, <2>4
<1> QED  BY <1>1, <1>3, FrameEnd

\* A checkpoint copies the frame that it will have.
LEMMA SavingFrames ==
  ASSUME Safe, Thread, NmiInv, ChainInv, CopyInv, FrameInv, BaseInv,
         NewCheckpoint \/ SaveStack \/ SaveRegisters
  PROVE  FrameInv' /\ BaseInv'
<1>1. /\ todo # << >> /\ Continue(<< >>) /\ Op.op \in {"new_checkpoint", "save_stack", "save_registers"}
  BY DEF NewCheckpoint, SaveStack, SaveRegisters, At, Op
<1>2. /\ TypeOK /\ TodoInv /\ Elems(todo) = {Op} \cup Elems(Rest) /\ Elems(todo') = Elems(Rest)
      /\ Allowed(Op, irq, handler, in_spec, init_done)
  BY <1>1, TodoFacts, ReplacedByOne DEF Safe
<1>3. ~handler
  BY <1>1, <1>2 DEF Allowed, HandlerOps, InterruptOps, RollbackOps
<1>4. \A x \in Elems(todo') : x.op \notin FrameOps
  BY <1>1, <1>2, <1>3, FrameOpsHandler
<1>5. in_spec' => wl_base' = kregs'.sp \/ Has(todo', "save_registers")
  <2>1. CASE NewCheckpoint
    <3>1. Op.op = "new_checkpoint"
      BY <2>1 DEF NewCheckpoint, At, Op
    <3> QED  BY <1>2, <3>1 DEF Thread, SaveInv, Has
  <2>2. CASE SaveStack
    <3>1. Op.op = "save_stack" /\ in_spec' = in_spec
      BY <2>2 DEF SaveStack, At, Op, modeVars
    <3> QED  BY <1>1, <1>2, <3>1 DEF CopyInv, SavingOps, Has
  <2>3. CASE SaveRegisters
    <3>1. Op.op = "save_registers" /\ kregs'.sp = sp /\ wl_base' = wl_base
      BY <2>3 DEF SaveRegisters, At, Op
    <3> QED  BY <1>1, <3>1 DEF CopyInv
  <2> QED  BY <2>1, <2>2, <2>3
<1> QED  BY <1>4, <1>5, FrameFree

\* The thread speculates above the frame of the checkpoint.
LEMMA AboveBase ==
  ASSUME Framed, in_spec, ~handler, status = "running", ~Has(todo, "finish")
  PROVE  wl_base <= sp
<1>1. /\ wl_base = kregs.sp /\ sp \in Int /\ kregs.sp \in Int /\ spec_depth \in Nat
  BY MachineAssumption DEF Framed, Unsaving, BaseInv, Safe, TypeOK, MachineType, CkptType, CountType
<1>2. spec_depth + (IF Uncounted THEN 1 ELSE 0) = sp - kregs.sp
  BY DEF Framed, Unsaving, Thread, DepthInv
<1> HIDE DEF Uncounted
<1> QED  BY <1>1, <1>2

\* Frames are marked.
LEMMA MarkFrames ==
  ASSUME NEW top \in 1..(StackSize - 2), mem' = Write(mem, {Frame(top + 1), Frame(top + 2)}, RtMark)
  PROVE  mem'[Frame(top + 1)] = RtMark /\ mem'[Frame(top + 2)] = RtMark
<1>1. top + 1 \in 1..StackSize /\ top + 2 \in 1..StackSize
  BY MachineAssumption
<1> QED  BY <1>1, FrameOther DEF Write

LEMMA ExceptionFrames ==
  ASSUME Framed, in_spec, NEW type \in Int, NEW top \in 1..(StackSize - 2), Exception(type, top), wl_base <= top,
         UNCHANGED <<wl_base, kregs>>
  PROVE  FrameInv' /\ BaseInv'
<1> DEFINE r == U("restart_irq", type, top)
           q == U("iret", top, 0)
<1>1. /\ todo' = <<r, q>> /\ mem' = Write(mem, {Frame(top + 1), Frame(top + 2)}, RtMark)
  BY DEF Exception
<1>2. r.op = "restart_irq" /\ r.n = top /\ q.op = "iret" /\ q.a = top
  BY DEF U
<1> HIDE DEF r, q
<1>3. Elems(todo') = {r, q}
  BY <1>1, Short
<1>4. mem'[Frame(top + 1)] = RtMark /\ mem'[Frame(top + 2)] = RtMark
  BY <1>1, MarkFrames
<1>5. FrameInv'
  <2>1. Marked(r)' /\ Marked(q)'
    BY <1>2, <1>4 DEF Marked, Frame
  <2>2. SameFrame(r, r) /\ SameFrame(r, q) /\ SameFrame(q, r) /\ SameFrame(q, q)
    BY <1>2 DEF SameFrame
  <2> QED  BY <1>3, <2>1, <2>2 DEF FrameInv, SameFrame
<1>6. BaseInv'
  <2>1. Above(r)' /\ Above(q)'
    BY <1>2 DEF Above
  <2>2. wl_base' = kregs'.sp
    BY DEF Framed, BaseInv, Unsaving
  <2> QED  BY <1>3, <2>1, <2>2 DEF BaseInv
<1> QED  BY <1>5, <1>6

\* One in the program or in the runtime.
LEMMA FaultFrames ==
  ASSUME Framed, in_spec, todo # << >>, Op.op \notin RollbackOps \cup {"hook_interrupt_timer"},
         status = "running", NEW type \in Int, Exception(type, sp), UNCHANGED <<wl_base, kregs>>
  PROVE  FrameInv' /\ BaseInv'
<1>1. ~handler
  BY ModeFacts DEF Framed
<1>2. ~Has(todo, "finish")
  <2>1. /\ Elems(todo) = {Op} \cup Elems(Rest) /\ Op.op # "undo"
        /\ \A y \in Elems(Rest) : Op.op # "undo" => Follows(y)
    BY TodoFacts DEF Framed, Safe, RollbackOps
  <2> QED  BY <2>1 DEF Has, Follows, RollbackOps
<1>3. wl_base <= sp
  BY <1>1, <1>2, AboveBase
<1>4. sp \in 1..(StackSize - 2)
  <2>1. sp \in 1..MaxSp
    BY DEF Framed, Safe, TypeOK, MachineType
  <2> QED  BY <2>1, NmiWord
<1> QED  BY <1>3, <1>4, ExceptionFrames

LEMMA ExecFrames ==
  ASSUME Framed, Exec
  PROVE  FrameInv' /\ BaseInv'
<1>1. /\ todo # << >> /\ Op.op = "exec" /\ status = "running" /\ UNCHANGED <<wl_base, kregs>>
      /\ in_spec' = in_spec
  BY DEF Exec, At, Op, ckptVars, modeVars
<1>2. ~handler
  <2>1. Allowed(Op, irq, handler, in_spec, init_done)
    BY <1>1, TodoFacts DEF Framed, Safe
  <2> QED  BY <1>1, <2>1 DEF Allowed, HandlerOps, InterruptOps, RollbackOps
<1>3. CASE Continue(<< >>)
  BY <1>1, <1>2, <1>3, FrameEnd
<1>4. ASSUME in_spec, NEW type \in Int, Exception(type, sp) PROVE FrameInv' /\ BaseInv'
  <2>1. Op.op \notin RollbackOps \cup {"hook_interrupt_timer"}
    BY <1>1 DEF RollbackOps
  <2> QED  BY <1>1, <1>4, <2>1, FaultFrames
<1>5. RESTART_EXCEPTION \in Int /\ RESTART_PAGE_FAULT \in Int
  BY DEF RESTART_EXCEPTION, RESTART_PAGE_FAULT
<1> QED  BY <1>3, <1>4, <1>5 DEF Exec

LEMMA LogFrames ==
  ASSUME Framed, LogWord
  PROVE  FrameInv' /\ BaseInv'
<1>1. /\ todo # << >> /\ Op.op = "write_wl" /\ status = "running" /\ UNCHANGED <<wl_base, kregs>>
      /\ in_spec' = in_spec
  BY DEF LogWord, At, Op, ckptVars, modeVars
<1>2. in_spec /\ ~handler
  <2>1. Allowed(Op, irq, handler, in_spec, init_done)
    BY <1>1, TodoFacts DEF Framed, Safe
  <2> QED  BY <1>1, <2>1 DEF Allowed, LogOps, HandlerOps, InterruptOps, RollbackOps
<1>3. CASE Continue(<< >>)
  BY <1>1, <1>2, <1>3, FrameEnd
<1>4. CASE Exception(RESTART_PAGE_FAULT, sp)
  <2>1. Op.op \notin RollbackOps \cup {"hook_interrupt_timer"} /\ RESTART_PAGE_FAULT \in Int
    BY <1>1 DEF RollbackOps, RESTART_PAGE_FAULT
  <2> QED  BY <1>1, <1>2, <1>4, <2>1, FaultFrames
<1>5. CASE Continue(WhenFull)
  <2> DEFINE r == U("restart", RESTART_WRITELOG_FULL, 0)
             s == <<r>>
  <2>1. r \in MicroOp /\ r.op = "restart" /\ Continue(s)
    BY <1>5 DEF U, MicroOp, OpNames, RESTART_WRITELOG_FULL, WhenFull
  <2> HIDE DEF r
  <2>2. s \in Seq(MicroOp) /\ Elems(s) = {r}
    BY <2>1, Seq1, Short
  <2> HIDE DEF s
  <2>3. \A x \in Elems(s) : x.op \notin FrameOps
    BY <2>1, <2>2 DEF FrameOps, FirstOps
  <2> QED  BY <1>1, <1>2, <2>1, <2>2, <2>3, FrameContinue DEF Framed, Unsaving
<1> QED  BY <1>3, <1>4, <1>5 DEF LogWord

\* A restart of the thread marks the frames of kspecem_restart.
LEMMA RestartFrames ==
  ASSUME Framed, Restart
  PROVE  FrameInv' /\ BaseInv'
<1>1. /\ todo # << >> /\ Op.op = "restart" /\ status = "running" /\ UNCHANGED <<wl_base, kregs>>
      /\ in_spec' = in_spec
  BY DEF Restart, At, Op, ckptVars
<1>2. CASE Continue(<< >>) /\ mem' = mem
  BY <1>1, <1>2, FrameEnd
<1> DEFINE a == U("undo", sp, 0)
           b == U("finish", 0, 0)
           s == <<a, b>>
<1>3. CASE in_spec /\ mem' = Write(mem, {Frame(sp + 1), Frame(sp + 2)}, RtMark) /\ Continue(s)
  <2>1. sp \in 1..(StackSize - 2) /\ sp \in Int
    <3>1. sp \in 1..MaxSp
      BY DEF Framed, Safe, TypeOK, MachineType
    <3> QED  BY <3>1, NmiWord, MachineAssumption
  <2>2. a \in MicroOp /\ a.op = "undo" /\ a.a = sp /\ b \in MicroOp /\ b.op = "finish"
    BY <2>1 DEF U, MicroOp, OpNames
  <2> HIDE DEF a, b
  <2>3. s \in Seq(MicroOp) /\ Elems(s) = {a, b} /\ Continue(s)
    BY <1>3, <2>2, Seq2, Short
  <2> HIDE DEF s
  <2>4. Elems(todo') = {a, b} \cup Elems(Rest)
    BY <1>1, <2>3, Replaced DEF Framed, Safe
  <2>5. ~handler
    <3>1. Op.op \notin RollbackOps \cup {"hook_interrupt_timer"}
      BY <1>1 DEF RollbackOps
    <3> QED  BY <1>1, <1>3, <3>1, ModeFacts DEF Framed
  <2>6. \A x \in Elems(Rest) : x.op \notin FrameOps
    BY <1>1, <2>5, FrameOpsHandler DEF Framed, Safe
  <2>7. wl_base <= sp
    <3>1. /\ Elems(todo) = {Op} \cup Elems(Rest) /\ \A y \in Elems(Rest) : Follows(y)
      BY <1>1, TodoFacts DEF Framed, Safe
    <3>2. ~Has(todo, "finish")
      BY <1>1, <3>1 DEF Has, Follows
    <3> QED  BY <1>1, <1>3, <2>5, <3>2, AboveBase
  <2>8. mem'[Frame(sp + 2)] = RtMark
    BY <1>3, <2>1, MarkFrames
  <2>9. FrameInv'
    <3>1. \A x \in {a, b} \cup Elems(Rest) : Marked(x)'
      BY <2>2, <2>6, <2>8 DEF Marked, Frame, FrameOps, FirstOps
    <3>2. \A x \in Elems(todo') : x.op # "iret"
      BY <2>2, <2>4, <2>6 DEF FrameOps
    <3> QED  BY <2>4, <3>1, <3>2 DEF FrameInv, SameFrame
  <2>10. BaseInv'
    <3>1. \A x \in {a, b} \cup Elems(Rest) : Above(x)'
      BY <1>1, <2>2, <2>6, <2>7 DEF Above, FrameOps, FirstOps
    <3>2. wl_base' = kregs'.sp
      BY <1>1, <1>3 DEF Framed, BaseInv, Unsaving
    <3> QED  BY <2>4, <3>1, <3>2 DEF BaseInv
  <2> QED  BY <2>9, <2>10
<1> QED  BY <1>2, <1>3, Zenon DEF Restart

\* That of an interrupt runs above the interrupted frames.
LEMMA RestartIrqFrames ==
  ASSUME Framed, RestartIrq
  PROVE  FrameInv' /\ BaseInv'
<1>1. /\ todo # << >> /\ Op.op = "restart_irq" /\ UNCHANGED <<wl_base, kregs, mem>> /\ in_spec' = in_spec
  BY DEF RestartIrq, At, Op, ckptVars, mvars
<1> DEFINE a == U("undo", Op.n, 1)
           b == U("finish", 1, 0)
           s == <<a, b>>
<1>2. Continue(s) /\ Op.n \in Int
  BY <1>1, HeadType DEF RestartIrq, Framed, Safe, TypeOK
<1>3. a \in MicroOp /\ a.op = "undo" /\ a.a = Op.n /\ a.n = 1 /\ b \in MicroOp /\ b.op = "finish"
  BY <1>2 DEF U, MicroOp, OpNames
<1> HIDE DEF a, b
<1>4. s \in Seq(MicroOp) /\ Elems(s) = {a, b}
  BY <1>3, Seq2, Short
<1> HIDE DEF s
<1>5. /\ Elems(todo') = {a, b} \cup Elems(Rest) /\ Elems(todo) = {Op} \cup Elems(Rest)
      /\ \A x \in Elems(Rest) : x.op \notin FirstOps
  BY <1>1, <1>2, <1>4, Replaced, TodoFacts DEF Framed, Safe
<1>6. FrameInv'
  <2>1. Marked(Op) /\ \A x \in Elems(Rest) : Marked(x) /\ SameFrame(x, Op)
    BY <1>5 DEF Framed, FrameInv
  <2>2. \A x \in {a, b} \cup Elems(Rest) : Marked(x)'
    BY <1>1, <1>3, <2>1 DEF Marked
  <2>3. \A x \in Elems(todo'), y \in Elems(todo') : SameFrame(x, y)
    BY <1>1, <1>3, <1>5, <2>1 DEF SameFrame, FirstOps
  <2> QED  BY <1>5, <2>2, <2>3 DEF FrameInv, SameFrame
<1>7. BaseInv'
  <2>1. in_spec => Above(Op) /\ \A x \in Elems(Rest) : Above(x)
    BY <1>5 DEF Framed, BaseInv
  <2>2. in_spec => \A x \in {a, b} \cup Elems(Rest) : Above(x)'
    BY <1>1, <1>3, <2>1 DEF Above
  <2>3. in_spec => wl_base' = kregs'.sp
    BY <1>1 DEF Framed, BaseInv, Unsaving
  <2> QED  BY <1>1, <1>5, <2>2, <2>3 DEF BaseInv
<1> QED  BY <1>6, <1>7

\* The restore leaves the frames alone that it and the handler go back to.
LEMMA UndoFrames ==
  ASSUME Framed, Undo
  PROVE  FrameInv' /\ BaseInv'
<1>1. /\ todo # << >> /\ Op.op = "undo" /\ UNCHANGED <<in_spec, wl_base, kregs>>
  BY DEF Undo, At, Op, modeVars, ckptVars
<1>2. /\ Allowed(Op, irq, handler, in_spec, init_done) /\ Elems(todo) = {Op} \cup Elems(Rest)
      /\ mem \in [Words -> Int] /\ \A x \in Elems(Rest) : x.op \in FrameOps => x.op = "iret" /\ handler
  BY <1>1, TodoFacts, FrameOpsHandler DEF Framed, Safe, TypeOK, MachineType
<1>3. in_spec
  BY <1>1, <1>2 DEF Allowed, RollbackOps
<1>4. Op.a \in 1..(StackSize - 2) /\ NestedTop(Op.a) \in 1..(StackSize - 2) /\ Op.a <= NestedTop(Op.a)
  <2>1. Op.a \in 1..(StackSize - 2)
    BY <1>1, <1>2 DEF Framed, NmiInv, TopInv, InStack
  <2> QED  BY <2>1, MachineAssumption DEF NestedTop
<1>5. wl_base <= Op.a /\ wl_base \in Int
  BY <1>1, <1>2, <1>3, MachineAssumption DEF Framed, BaseInv, Above, Safe, TypeOK, CkptType
<1>6. CASE Continue(<< >>) /\ mem' = mem
  BY <1>1, <1>6, FrameEnd
<1>7. CASE Exception(RESTART_PAGE_FAULT, NestedTop(Op.a))
  <2> DEFINE n == NestedTop(Op.a)
  <2>1. wl_base <= n /\ n \in 1..(StackSize - 2)
    <3>1. n \in Int /\ Op.a \in Int
      BY <1>4, MachineAssumption
    <3> QED  BY <1>4, <1>5, <3>1
  <2> QED  BY <1>1, <1>3, <1>7, <2>1, ExceptionFrames DEF RESTART_PAGE_FAULT
<1> DEFINE w == wl_addrs[wl_pos - 1]
<1>8. CASE /\ todo' = todo
           /\ mem' = mem \/ (~Skipped(w, Op.a, Op.n) /\ mem' = [mem EXCEPT ![w] = wl_data[wl_pos - 1]])
  <2> HIDE DEF w
  <2>1. \A v \in Words : mem'[v] = mem[v] \/ (~Skipped(v, Op.a, Op.n) /\ v = w)
    BY <1>2, <1>8
  <2>2. Frame(Op.a + 1) \in Words /\ Frame(Op.a + 2) \in Words
    <3>1. Op.a + 1 \in 1..StackSize /\ Op.a + 2 \in 1..StackSize
      BY <1>4, MachineAssumption
    <3> QED  BY <3>1, FrameOther
  <2>3. mem'[Frame(Op.a + 2)] = mem[Frame(Op.a + 2)]
    BY <2>1, <2>2 DEF Skipped
  <2>4. Marked(Op) /\ \A x \in Elems(Rest) : Marked(x) /\ SameFrame(x, Op)
    BY <1>2 DEF Framed, FrameInv
  <2>5. ASSUME NEW x \in Elems(todo) PROVE Marked(x)'
    <3>1. CASE x = Op
      BY <1>1, <2>3, <2>4, <3>1 DEF Marked, Frame
    <3>2. CASE x \in Elems(Rest) /\ x.op # "iret"
      BY <1>2, <3>2 DEF Marked, FrameOps, FirstOps
    <3>3. CASE x \in Elems(Rest) /\ x.op = "iret"
      <4>1. x.a = Op.a /\ Op.n = 1 /\ mem[Frame(x.a + 1)] = RtMark /\ x.a \in 1..(StackSize - 2)
        BY <1>1, <2>4, <3>3 DEF SameFrame, Marked
      <4>2. mem'[Frame(x.a + 1)] = RtMark
        BY <2>1, <2>2, <4>1 DEF Skipped
      <4> QED  BY <3>3, <4>1, <4>2 DEF Marked, Frame
    <3> QED  BY <1>2, <3>1, <3>2, <3>3
  <2>6. FrameInv'
    BY <1>8, <2>5 DEF Framed, FrameInv, SameFrame
  <2>7. BaseInv'
    BY <1>1, <1>8 DEF Framed, BaseInv, Above, Has
  <2> QED  BY <2>6, <2>7
<1> QED  BY <1>6, <1>7, <1>8, Zenon DEF Undo

\* The copied frame is below that of the interrupt.
LEMMA FinishFrames ==
  ASSUME Framed, Finish
  PROVE  FrameInv' /\ BaseInv'
<1>1. todo # << >> /\ Op.op = "finish" /\ ~in_spec' /\ mem' = FinishMem
  BY DEF Finish, At, Op
<1>2. /\ Allowed(Op, irq, handler, in_spec, init_done) /\ Elems(todo) = {Op} \cup Elems(Rest)
      /\ mem \in [Words -> Int] /\ \A x \in Elems(Rest) : x.op \in FrameOps => x.op = "iret" /\ handler
  BY <1>1, TodoFacts, FrameOpsHandler DEF Framed, Safe, TypeOK, MachineType
<1>3. in_spec
  BY <1>1, <1>2 DEF Allowed, RollbackOps
<1>4. BaseInv'
  BY <1>1 DEF BaseInv
<1>5. CASE Op.a = 0
  <2>1. todo' = ResumeOps
    BY <1>5 DEF Finish
  <2>2. \A x \in Elems(ResumeOps) : x.op \notin FrameOps
    BY ResumeCode DEF Framed, AfterOps, LeaveOps, NmiOps, FrameOps, FirstOps
  <2> HIDE DEF ResumeOps
  <2> QED  BY <1>1, <2>1, <2>2, FrameFree
<1>6. CASE Op.a # 0
  <2>1. Elems(todo') = Elems(Rest)
    BY <1>1, <1>6, ReplacedByOne DEF Finish, Framed, Safe
  <2>2. ASSUME NEW x \in Elems(Rest), x.op = "iret" PROVE Marked(x)'
    <3>1. x.a \in 1..(StackSize - 2) /\ mem[Frame(x.a + 1)] = RtMark /\ wl_base <= x.a
      BY <1>2, <1>3, <2>2 DEF Framed, FrameInv, Marked, BaseInv, Above
    <3>2. wl_base \in 1..StackSize
      BY NmiWord DEF Framed, Safe, TypeOK, CkptType
    <3>3. x.a + 1 \in 1..StackSize /\ x.a + 1 # wl_base
      BY <3>1, <3>2, MachineAssumption
    <3>4. Frame(x.a + 1) # Frame(wl_base) /\ Frame(x.a + 1) # SwapCondition /\ Frame(x.a + 1) \in Words
      BY <3>2, <3>3, FrameOther
    <3>5. mem'[Frame(x.a + 1)] = mem[Frame(x.a + 1)]
      BY <1>1, <1>2, <3>4 DEF FinishMem
    <3> QED  BY <2>2, <3>1, <3>5 DEF Marked, Frame
  <2>3. FrameInv'
    BY <1>2, <2>1, <2>2 DEF FrameInv, Marked, SameFrame, FrameOps, FirstOps
  <2> QED  BY <1>4, <2>3
<1> QED  BY <1>5, <1>6

\* An interrupt and its hook.
LEMMA TimerFrames ==
  ASSUME Framed, TimerInterrupt
  PROVE  FrameInv' /\ BaseInv'
<1> DEFINE h == U("hook_interrupt_timer", sp, 0)
           t == U("tick", sp, 0)
           r == U("hook_restart", RESTART_RETURN, 0)
           q == U("iret", sp, 0)
<1>1. /\ status = "running" /\ irq /\ ~handler /\ todo' = <<h, t, r, q>>
      /\ mem' = Write(mem, {Frame(sp + 1), Frame(sp + 2)}, RtMark)
      /\ UNCHANGED <<in_spec, wl_base, kregs>>
  BY DEF TimerInterrupt, modeVars, ckptVars
<1>2. sp \in 1..(StackSize - 2)
  <2>1. sp \in 1..MaxSp
    BY DEF Framed, Safe, TypeOK, MachineType
  <2> QED  BY <2>1, NmiWord
<1>3. /\ h.op = "hook_interrupt_timer" /\ h.a = sp /\ t.op = "tick" /\ r.op = "hook_restart" /\ q.op = "iret"
      /\ q.a = sp
  BY DEF U
<1> HIDE DEF h, t, r, q
<1>4. Elems(todo') = {h, t, r, q}
  <2>1. /\ Precedes(h, t) /\ Precedes(h, r) /\ Precedes(h, q)
        /\ Precedes(t, r) /\ Precedes(t, q) /\ Precedes(r, q)
    BY <1>3 DEF Precedes, LastOps, FirstOps, CheckpointOps, IsReturn, RestartOps
  <2> QED  BY <1>1, <2>1, Short4
<1>5. mem'[Frame(sp + 1)] = RtMark /\ mem'[Frame(sp + 2)] = RtMark
  BY <1>1, <1>2, MarkFrames
<1>6. FrameInv'
  <2>1. \A x \in Elems(todo') : Marked(x)'
    BY <1>2, <1>3, <1>4, <1>5 DEF Marked, Frame
  <2>2. \A x, y \in Elems(todo') : SameFrame(x, y)
    BY <1>3, <1>4 DEF SameFrame
  <2> QED  BY <2>1, <2>2 DEF FrameInv, SameFrame
<1>7. BaseInv'
  <2> SUFFICES ASSUME in_spec PROVE wl_base' = kregs'.sp /\ \A x \in Elems(todo') : Above(x)'
    BY <1>1 DEF BaseInv
  <2>1. ~Has(todo, "finish")
    BY <1>1 DEF Framed, Safe, TodoInv, Code, Allowed, Masked, Has
  <2>2. wl_base <= sp
    BY <1>1, <2>1, AboveBase
  <2>3. wl_base = kregs.sp
    BY DEF Framed, BaseInv, Unsaving
  <2> QED  BY <1>1, <1>3, <1>4, <2>2, <2>3 DEF Above
<1> QED  BY <1>6, <1>7

LEMMA TimerHookFrames ==
  ASSUME Framed, HookInterruptTimer
  PROVE  FrameInv' /\ BaseInv'
<1>1. /\ todo # << >> /\ Op.op = "hook_interrupt_timer" /\ UNCHANGED <<wl_base, kregs, mem>> /\ in_spec' = in_spec
  BY DEF HookInterruptTimer, At, Op, ckptVars, mvars, modeVars
<1> DEFINE x == U("restart_irq", RESTART_TIMER, Op.a)
<1>2. x \in MicroOp /\ x.op = "restart_irq" /\ x.n = Op.a
  BY <1>1, HeadType DEF Framed, Safe, TypeOK, U, MicroOp, OpNames, RESTART_TIMER
<1>3. Continue(<< >>) \/ Continue(<<x>>)
  BY DEF HookInterruptTimer
<1> HIDE DEF x
<1>4. CASE Continue(<< >>)
  BY <1>1, <1>4, FrameEnd
<1>5. CASE Continue(<<x>>)
  <2>1. /\ Elems(todo') = {x} \cup Elems(Rest) /\ Elems(todo) = {Op} \cup Elems(Rest)
        /\ \A y \in Elems(Rest) : y.op \notin FirstOps
    BY <1>1, <1>2, <1>5, ReplacedByOne, TodoFacts DEF Framed, Safe
  <2>2. Marked(Op) /\ \A y \in Elems(Rest) : Marked(y) /\ SameFrame(y, Op)
    BY <2>1 DEF Framed, FrameInv
  <2>3. FrameInv'
    <3>1. \A y \in Elems(todo') : Marked(y)'
      BY <1>1, <1>2, <2>1, <2>2 DEF Marked
    <3>2. \A y, z \in Elems(todo') : SameFrame(y, z)
      BY <1>1, <1>2, <2>1, <2>2 DEF SameFrame, FirstOps
    <3> QED  BY <3>1, <3>2 DEF FrameInv, SameFrame
  <2>4. BaseInv'
    <3> SUFFICES ASSUME in_spec PROVE wl_base' = kregs'.sp /\ \A y \in Elems(todo') : Above(y)'
      BY <1>1 DEF BaseInv
    <3>1. Above(Op) /\ (\A y \in Elems(Rest) : Above(y)) /\ wl_base = kregs.sp
      BY <2>1 DEF Framed, BaseInv, Unsaving
    <3> QED  BY <1>1, <1>2, <2>1, <3>1 DEF Above
  <2> QED  BY <2>3, <2>4
<1> QED  BY <1>3, <1>4, <1>5

LEMMA IretFrames ==
  ASSUME Framed, Iret
  PROVE  FrameInv' /\ BaseInv'
<1>1. todo # << >> /\ Op.op = "iret" /\ todo' = regs.todo /\ in_spec' = in_spec
  BY DEF Iret, At, Op, modeVars
<1>2. handler /\ ~in_spec
  <2>1. Allowed(Op, irq, handler, in_spec, init_done)
    BY <1>1, TodoFacts DEF Framed, Safe
  <2>2. handler
    BY <1>1, <2>1 DEF Allowed, InterruptOps
  <2>3. Op.op \notin RollbackOps \cup {"hook_interrupt_timer"}
    BY <1>1 DEF RollbackOps
  <2> QED  BY <1>1, <2>2, <2>3, ModeFacts DEF Framed
<1>3. \A x \in Elems(regs.todo) : x.op \notin FrameOps
  BY <1>2 DEF Framed, Safe, RegsInv, Code, Allowed, RollbackOps, InterruptOps, FrameOps, FirstOps
<1> QED  BY <1>1, <1>2, <1>3, FrameFree

LEMMA FetchFrames ==
  ASSUME Framed, Fetch \/ Enable
  PROVE  FrameInv' /\ BaseInv'
<1>1. /\ todo = << >> /\ UNCHANGED <<in_spec, wl_base, kregs>>
  BY DEF Fetch, Enable, AtInstruction, modeVars, ckptVars
<1>2. in_spec => wl_base = kregs.sp
  BY DEF Framed, BaseInv, Unsaving
<1>3. \A x \in Elems(todo') : x.op \notin FrameOps
  <2>1. CASE Fetch
    <3>1. FetchFacts(todo', prog[pc])
      BY <2>1, TextFacts DEF Framed, Safe, Fetch
    <3> QED  BY <3>1 DEF FetchFacts, Made, HookOps, FrameOps, FirstOps
  <2>2. CASE Enable
    <3> DEFINE x == U("enter_init", 0, 0)
    <3>1. todo' = <<x>> /\ x.op = "enter_init"
      BY <2>2 DEF Enable, U
    <3> HIDE DEF x
    <3>2. Elems(todo') = {x}
      BY <3>1, Short
    <3> QED  BY <3>1, <3>2 DEF FrameOps, FirstOps
  <2> QED  BY <2>1, <2>2
<1> QED  BY <1>1, <1>2, <1>3, FrameFree

LEMMA FramesInit == Init => FrameInv /\ BaseInv
<1> SUFFICES ASSUME Init PROVE FrameInv /\ BaseInv
  OBVIOUS
<1>1. todo = << >> /\ ~in_spec /\ Elems(todo) = {}
  BY Short DEF Init
<1> QED  BY <1>1 DEF FrameInv, BaseInv

LEMMA FramesNext ==
  ASSUME ~Nmis
  PROVE  Safe /\ Thread /\ NmiInv /\ ChainInv /\ CopyInv /\ FrameInv /\ BaseInv /\ [Next]_vars =>
           FrameInv' /\ BaseInv'
<1> SUFFICES ASSUME Safe, Thread, NmiInv, ChainInv, CopyInv, FrameInv, BaseInv, [Next]_vars
             PROVE  FrameInv' /\ BaseInv'
  OBVIOUS
<1>1. CASE UNCHANGED vars \/ SetSpecEnabled \/ UndoInUse
  <2>1. UNCHANGED <<todo, mem, wl_base, kregs>> /\ (in_spec' <=> in_spec)
    BY <1>1, HaltFacts DEF Halt, SetSpecEnabled, vars, mvars, modeVars, ckptVars
  <2> QED  BY <2>1 DEF FrameInv, Marked, SameFrame, BaseInv, Above, Has
<1>2. CASE NewCheckpoint \/ SaveStack \/ SaveRegisters
  BY <1>2, SavingFrames
<1>3. CASE ~(NewCheckpoint \/ SaveStack \/ SaveRegisters \/ UNCHANGED vars \/ SetSpecEnabled \/ UndoInUse)
  <2>1. Framed
    BY <1>3, SavingStep, SavedHas DEF Framed, Unsaving
  <2>2. CASE Fetch \/ Enable
    BY <2>1, <2>2, FetchFrames
  <2>3. CASE Exec
    BY <2>1, <2>3, ExecFrames
  <2>4. CASE \/ HookStore \/ HookMemcpy \/ HookRestart \/ HookCheckSpecLength \/ HookCheckCallDepth
             \/ HookNewCheckpoint \/ Enter \/ Memcpy
    BY <2>1, <2>4, PlainFrames
  <2>5. CASE IrqRestore \/ UnsetRt \/ SetWord \/ Select \/ InitData \/ InitDone \/ HandleTick
    BY <2>1, <2>5, EndFrames
  <2>6. CASE LogWord
    BY <2>1, <2>6, LogFrames
  <2>7. CASE Restart
    BY <2>1, <2>7, RestartFrames
  <2>8. CASE RestartIrq
    BY <2>1, <2>8, RestartIrqFrames
  <2>9. CASE Undo
    BY <2>1, <2>9, UndoFrames
  <2>10. CASE Finish
    BY <2>1, <2>10, FinishFrames
  <2>11. CASE TimerInterrupt
    BY <2>1, <2>11, TimerFrames
  <2>12. CASE HookInterruptTimer
    BY <2>1, <2>12, TimerHookFrames
  <2>13. CASE Iret
    BY <2>1, <2>13, IretFrames
  <2> QED
    BY <1>3, <2>2, <2>3, <2>4, <2>5, <2>6, <2>7, <2>8, <2>9, <2>10, <2>11, <2>12, <2>13, NoNmis
    DEF Next, Cpu, Environment, Done
<1> QED  BY <1>1, <1>2, <1>3

\* When there are no NMIs, no rollback, that of an interrupt, of a fault or of a
\* fault of the restore itself included, overwrites the words between its stack
\* pointer, exclusive, and frameaddr, or the pt_regs that iret loads (the skips
\* of kspecem_restore_writelog, and the frame that kspecem_restart copies back).
\* Of the word at the stack pointer it says nothing: SparesInUse fails.
THEOREM GuardedFramesAlwaysIntact == ASSUME ~Nmis PROVE Spec => []GuardedFramesIntact
<1> DEFINE Inv == Safe /\ Thread /\ NmiInv /\ ChainInv /\ CopyInv /\ FrameInv /\ BaseInv
<1>1. Init => FrameInv /\ BaseInv
  BY FramesInit
<1>2. Inv /\ [Next]_vars => FrameInv' /\ BaseInv'
  BY FramesNext
<1>3. FrameInv => GuardedFramesIntact
  BY DEF FrameInv, Marked, GuardedFramesIntact, Elems
<1> QED  BY <1>1, <1>2, <1>3, NmiAlways, ChainAlways, PTL DEF Spec

-----------------------------------------------------------------------------
(* What the invariants say *)

\* A restart that is not that of a return.
Restarts(x) == x.op \in RestartOps /\ x.a # RESTART_RETURN

\* Once x is done the word w is in the log, or a rollback has begun.
Secures(x, w) ==
  \/ x.op \in {"hook_store", "enter_store"} /\ w \in (x.a \div 8)..((x.a + 7) \div 8)
  \/ x.op \in {"hook_memcpy", "enter_memcpy"} /\ x.n > 0 /\ w \in Touched(x.a, x.n)
  \/ x.op = "memcpy" /\ x.a < x.n /\ w \in (x.a \div 8)..((x.n - 1) \div 8)
  \/ x.op = "write_wl" /\ x.a = w
  \/ Restarts(x)
  \/ x.op = "finish"

Writes(i) == IF i.op \in {"store", "memset", "asm"} THEN Touched(i.addr, i.size) ELSE {}

\* What the program is about to write in speculation is logged first.
WriteInv ==
  in_spec /\ ~handler /\ Has(todo, "exec") =>
    \A w \in Writes(prog[pc]) : Logged(w) \/ \E x \in Elems(todo) : Secures(x, w)

\* Words that nothing in a speculation writes.
Untouched == Faulting \cup {Jiffies}

\* Their entries in the log are what they still hold.
QuietInv ==
  in_spec => \A k \in 0..(wl_pos - 1) :
               wl_addrs[k] \in Untouched => wl_data[k] = mem[wl_addrs[k]]

\* The registers that a rollback or an interrupt returns to.
SavedInv ==
  /\ kregs.flags
  /\ \A x \in Elems(todo) : x.op = "save_registers" => x.a = 1
  /\ Saved => kregs.pc # NoInstr
  /\ handler => /\ regs.pc # NoInstr
                /\ Enables(regs.todo) \/ (regs.irq /\ ~Has(regs.todo, "irq_restore"))
                /\ in_spec /\ Op.op \in RollbackOps => regs.pc = kregs.pc /\ regs.sp = kregs.sp

\* A tick is handled only while there may be one more.
TickInv == Has(todo, "tick") => mem[Jiffies] < MaxTicks

\* The stores of the programs have at most eight bytes: the hook of a store gets
\* its address only and logs the words of eight bytes (KSpecEm.cpp,
\* kspecem_write_wl).
SmallStores ==
  \A p \in Programs : \A k \in DOMAIN p : p[k].op = "store" => p[k].size <= 8

\* The words that an instruction reads or writes by itself.
Accessed(i) == IF i.op = "branch" THEN {i.addr \div 8} ELSE Writes(i)

\* The instruction that the kernel is at uses no stack below its stack pointer.
LiveAccess == status = "running" => \A w \in Accessed(prog[ViewPc]) : ~Dead(w)

-----------------------------------------------------------------------------
(* The invariant so far *)

Base == Safe /\ Thread /\ NmiInv /\ ChainInv /\ CopyInv /\ FrameInv /\ BaseInv

LEMMA BaseAlways == ASSUME ~Nmis PROVE Spec => []Base
<1> DEFINE Inv == Safe /\ Thread /\ NmiInv /\ ChainInv /\ CopyInv /\ FrameInv /\ BaseInv
<1>1. Init => FrameInv /\ BaseInv
  BY FramesInit
<1>2. Inv /\ [Next]_vars => FrameInv' /\ BaseInv'
  BY FramesNext
<1> QED  BY <1>1, <1>2, NmiAlways, ChainAlways, PTL DEF Spec, Base

\* All but the steps of a checkpoint are taken from a state without one.
LEMMA BaseFramed ==
  ASSUME ~Nmis, Base, [Next]_vars,
         ~(NewCheckpoint \/ SaveStack \/ SaveRegisters \/ UNCHANGED vars)
  PROVE  Framed
BY SavingStep, SavedHas DEF Base, Framed, Unsaving

-----------------------------------------------------------------------------
(* What the program writes in speculation is logged *)

\* The operations E take the place of the next one.
LEMMA WriteStep ==
  ASSUME TypeOK, TodoInv, WriteInv, todo # << >>, NEW E, Elems(todo') = E \cup Elems(Rest),
         \A x \in E : x.op # "exec", UNCHANGED <<prog, pc>>, in_spec' => in_spec, ~handler' => ~handler,
         \A w : Logged(w) => Logged(w)',
         \A w : Secures(Op, w) => Logged(w)' \/ \E x \in E : Secures(x, w)
  PROVE  WriteInv'
<1> SUFFICES ASSUME in_spec', ~handler', Has(todo', "exec"), NEW w \in Writes(prog'[pc'])
             PROVE  Logged(w)' \/ \E x \in Elems(todo') : Secures(x, w)
  BY DEF WriteInv, Secures
<1>1. Elems(todo) = {Op} \cup Elems(Rest)
  BY TodoFacts
<1>2. Has(todo, "exec") /\ w \in Writes(prog[pc])
  BY <1>1 DEF Has
<1>3. Logged(w) \/ \E x \in Elems(todo) : Secures(x, w)
  BY <1>2 DEF WriteInv
<1> QED  BY <1>1, <1>3

LEMMA WriteEnd ==
  ASSUME TypeOK, TodoInv, WriteInv, todo # << >>, Continue(<< >>),
         UNCHANGED <<prog, pc>>, in_spec' => in_spec, ~handler' => ~handler,
         \A w : Logged(w) => Logged(w)', \A w : Secures(Op, w) => Logged(w)'
  PROVE  WriteInv'
<1>1. Elems(todo') = {} \cup Elems(Rest)
  BY ReplacedByOne
<1> QED  BY <1>1, WriteStep

LEMMA WriteOne ==
  ASSUME TypeOK, TodoInv, WriteInv, todo # << >>, NEW x \in MicroOp, Continue(<<x>>), x.op # "exec",
         UNCHANGED <<prog, pc>>, in_spec' => in_spec, ~handler' => ~handler,
         \A w : Logged(w) => Logged(w)',
         \A w : Secures(Op, w) => Secures(x, w)
  PROVE  WriteInv'
<1>1. Elems(todo') = {x} \cup Elems(Rest)
  BY ReplacedByOne
<1> DEFINE E == {x}
<1>2. /\ Elems(todo') = E \cup Elems(Rest) /\ \A y \in E : y.op # "exec"
      /\ \A w : Secures(Op, w) => Logged(w)' \/ \E y \in E : Secures(y, w)
  BY <1>1
<1> HIDE DEF E
<1> QED  BY <1>2, WriteStep

\* Nothing is pending that could write.
LEMMA WriteFree ==
  ASSUME ~in_spec' \/ handler' \/ ~Has(todo', "exec")
  PROVE  WriteInv'
BY DEF WriteInv, Has

LEMMA SameLog == ASSUME UNCHANGED logVars PROVE \A w : Logged(w)' <=> Logged(w)
BY DEF logVars, Logged

\* The checks at the start of the hooks: in speculation no store hook is left out.
LEMMA HookWrite ==
  ASSUME Safe, WriteInv,
         \/ HookStore \/ HookMemcpy \/ HookRestart \/ HookCheckSpecLength \/ HookCheckCallDepth
         \/ HookNewCheckpoint
  PROVE  WriteInv'
<1>1. /\ todo # << >> /\ UNCHANGED <<prog, pc, in_spec, handler>> /\ UNCHANGED logVars
  BY DEF HookStore, HookMemcpy, HookRestart, HookCheckSpecLength, HookCheckCallDepth, HookNewCheckpoint, At,
         mvars, irqVars, modeVars
<1>2. TypeOK /\ TodoInv /\ Op \in MicroOp /\ Op.a \in Int /\ Op.n \in Int /\ prog[pc] \in Instr
  BY <1>1, HeadType, TodoFacts, TypeFacts DEF Safe, TypeOK
<1>3. \A w : Logged(w) => Logged(w)'
  BY <1>1, SameLog
<1>4. in_spec => wl_enabled /\ init_done
  BY ModeFacts
<1> SUFFICES ASSUME in_spec PROVE WriteInv'
  BY <1>1, WriteFree
<1>5. CASE HookStore
  <2> DEFINE x == U("enter_store", Op.a, 0)
  <2>1. x \in MicroOp /\ x.op = "enter_store" /\ x.a = Op.a
    BY <1>2 DEF U, MicroOp, OpNames
  <2>2. Continue(<<x>>) /\ Op.op = "hook_store"
    BY <1>4, <1>5 DEF HookStore, StoreHookActive, At, Op
  <2> HIDE DEF x
  <2>3. \A w : Secures(Op, w) => Secures(x, w)
    BY <2>1, <2>2 DEF Secures, Restarts, RestartOps
  <2> QED  BY <1>1, <1>2, <1>3, <2>1, <2>2, <2>3, WriteOne
<1>6. CASE HookMemcpy
  <2> DEFINE x == U("enter_memcpy", Op.a, Op.n)
  <2>1. x \in MicroOp /\ x.op = "enter_memcpy" /\ x.a = Op.a /\ x.n = Op.n
    BY <1>2 DEF U, MicroOp, OpNames
  <2>2. Continue(<<x>>) /\ Op.op = "hook_memcpy"
    BY <1>4, <1>6 DEF HookMemcpy, StoreHookActive, At, Op
  <2> HIDE DEF x
  <2>3. \A w : Secures(Op, w) => Secures(x, w)
    BY <2>1, <2>2 DEF Secures, Restarts, RestartOps
  <2> QED  BY <1>1, <1>2, <1>3, <2>1, <2>2, <2>3, WriteOne
<1>7. CASE HookRestart
  <2> DEFINE x == U("enter_restart", Op.a, 0)
  <2>1. x \in MicroOp /\ x.op = "enter_restart" /\ x.a = Op.a
    BY <1>2 DEF U, MicroOp, OpNames
  <2>2. Continue(<<x>>) /\ Op.op = "hook_restart"
    BY <1>4, <1>7 DEF HookRestart, At, Op
  <2> HIDE DEF x
  <2>3. \A w : Secures(Op, w) => Secures(x, w)
    BY <2>1, <2>2 DEF Secures, Restarts, RestartOps
  <2> QED  BY <1>1, <1>2, <1>3, <2>1, <2>2, <2>3, WriteOne
<1>8. CASE HookCheckSpecLength \/ HookCheckCallDepth
  <2> DEFINE d == U("enter_restart", RESTART_LIMIT_SPEC, 0)
             e == U("enter_restart", RESTART_CALL_DEPTH, 0)
  <2>1. /\ Continue(<< >>) \/ Continue(<<d>>) \/ Continue(<<e>>)
    BY <1>8, Zenon DEF HookCheckSpecLength, HookCheckCallDepth
  <2>2. \A x \in {d, e} : x \in MicroOp /\ x.op # "exec"
    BY DEF U, MicroOp, OpNames, RESTART_LIMIT_SPEC, RESTART_CALL_DEPTH
  <2>3. \A w : ~Secures(Op, w)
    BY <1>8 DEF HookCheckSpecLength, HookCheckCallDepth, At, Op, Secures, Restarts, RestartOps
  <2> HIDE DEF d, e
  <2> QED  BY <1>1, <1>2, <1>3, <2>1, <2>2, <2>3, WriteOne, WriteEnd
<1>9. CASE HookNewCheckpoint
  <2> DEFINE x == U("enter_checkpoint", 0, 0)
             t == SwapBranch \o LengthHook(prog[pc], LengthAfterSpec)
  <2>1. x \in MicroOp /\ x.op # "exec"
    BY DEF U, MicroOp, OpNames
  <2>2. (Continue(<<x>>) \/ Continue(t)) /\ Op.op = "hook_new_checkpoint"
    BY <1>9 DEF HookNewCheckpoint, At, Op
  <2>3. Made(t, BranchedOps)
    BY <1>2, BranchCode
  <2> HIDE DEF x, t
  <2>4. t \in Seq(MicroOp) /\ \A y \in Elems(t) : y.op # "exec"
    BY <2>3 DEF Made, Sound, BranchedOps
  <2>5. \A w : ~Secures(Op, w)
    BY <2>2 DEF Secures, Restarts, RestartOps
  <2>6. ASSUME Continue(t) PROVE WriteInv'
    <3>1. Elems(todo') = Elems(t) \cup Elems(Rest)
      BY <1>1, <1>2, <2>4, <2>6, Replaced
    <3> QED  BY <1>1, <1>2, <1>3, <2>4, <2>5, <3>1, WriteStep
  <2> QED  BY <1>1, <1>2, <1>3, <2>1, <2>2, <2>5, <2>6, WriteOne
<1> QED  BY <1>5, <1>6, <1>7, <1>8, <1>9

\* The words that a store hook logs are those of eight bytes.
LEMMA WriteWlWords ==
  ASSUME NEW a \in Int, NEW w \in (a \div 8)..((a + 7) \div 8)
  PROVE  \E x \in Elems(WriteWl(a)) : x.op = "write_wl" /\ x.a = w
<1> DEFINE x == U("write_wl", a \div 8 + 1, 0)
           y == U("write_wl", a \div 8, 0)
           s == IF a % 8 # 0 THEN <<x>> ELSE << >>
<1>1. x \in MicroOp /\ y \in MicroOp /\ x.op = "write_wl" /\ y.op = "write_wl" /\ x.a = a \div 8 + 1
      /\ y.a = a \div 8
  BY DEF U, MicroOp, OpNames
<1>2. WriteWl(a) = s \o <<y>>
  BY DEF WriteWl
<1>3. w = a \div 8 \/ (w = a \div 8 + 1 /\ a % 8 # 0)
  OBVIOUS
<1> HIDE DEF x, y
<1>4. /\ s \in Seq(MicroOp) /\ <<y>> \in Seq(MicroOp) /\ Elems(<<y>>) = {y}
      /\ a % 8 # 0 => Elems(s) = {x}
  BY <1>1, Seq1, SeqEmpty, Short
<1> DEFINE u == <<y>>
<1> HIDE DEF s, u
<1>5. Elems(WriteWl(a)) = Elems(s) \cup {y}
  <2>1. s \in Seq(MicroOp) /\ u \in Seq(MicroOp) /\ Elems(u) = {y} /\ WriteWl(a) = s \o u
    BY <1>2, <1>4 DEF u
  <2> QED  BY <2>1, ElemsConcat
<1> QED  BY <1>1, <1>3, <1>4, <1>5

\* The runtime logs what its hook was called for.
LEMMA RuntimeWrite ==
  ASSUME NEW o \in MicroOp, o.op \in EnterOps, NEW f \in BOOLEAN, NEW w, Secures(o, w)
  PROVE  \E x \in Elems(Runtime(o, f)) : Secures(x, w)
<1>1. o.a \in Int /\ o.n \in Int /\ o.a - (o.a % 4) \in Int /\ o.a + o.n \in Int
  BY DEF MicroOp
<1>2. ASSUME NEW x \in MicroOp, x.op \in {"memcpy", "restart", "init_data"},
             Runtime(o, f) = stop_nmi \o <<x>> \o LEAVE_KSPECEM_RT(f)
      PROVE  x \in Elems(Runtime(o, f))
  <2> DEFINE t == stop_nmi \o <<x>> \o LEAVE_KSPECEM_RT(f)
  <2>1. Elems(t) = Elems(stop_nmi) \cup {x} \cup Elems(LEAVE_KSPECEM_RT(f))
    BY <1>2, WrapCode
  <2>2. Runtime(o, f) = t
    BY <1>2
  <2> HIDE DEF t
  <2> QED  BY <2>1, <2>2
<1>3. CASE o.op = "enter_store"
  <2> DEFINE n == LEAVE_KSPECEM_NONMI_RT(f)
  <2>1. WriteWl(o.a) \in Seq(MicroOp) /\ n \in Seq(MicroOp) /\ Runtime(o, f) = WriteWl(o.a) \o n
    BY <1>1, <1>3, WriteWlCode, LeaveCode DEF Made, Sound, Runtime
  <2> HIDE DEF n
  <2>2. Elems(WriteWl(o.a)) \subseteq Elems(Runtime(o, f))
    BY <2>1, ElemsConcat
  <2>3. w \in (o.a \div 8)..((o.a + 7) \div 8)
    BY <1>3 DEF Secures, Restarts, RestartOps
  <2> QED  BY <1>1, <2>2, <2>3, WriteWlWords DEF Secures
<1>4. CASE o.op = "enter_memcpy"
  <2> DEFINE b == o.a - (o.a % 4)
             e == o.a + o.n
             x == U("memcpy", b, e)
  <2>1. x \in MicroOp /\ x.op = "memcpy" /\ x.a = b /\ x.n = e
    BY <1>1 DEF U, MicroOp, OpNames
  <2>2. Runtime(o, f) = stop_nmi \o <<x>> \o LEAVE_KSPECEM_RT(f)
    BY <1>4 DEF Runtime
  <2>3. o.n > 0 /\ w \in (o.a \div 8)..((e - 1) \div 8)
    BY <1>1, <1>4 DEF Secures, Restarts, RestartOps, Touched
  <2>4. b <= o.a /\ b < e /\ b \div 8 <= o.a \div 8 /\ b \div 8 \in Int
    BY <1>1, <2>3
  <2>5. w \in (b \div 8)..((e - 1) \div 8)
    <3>1. w \in Int /\ o.a \div 8 \in Int /\ o.a \div 8 <= w /\ w <= (e - 1) \div 8
      BY <1>1, <2>3
    <3> HIDE DEF b, e
    <3> QED  BY <2>4, <3>1
  <2>6. Secures(x, w)
    BY <2>1, <2>4, <2>5 DEF Secures
  <2> HIDE DEF x
  <2> QED  BY <1>2, <2>1, <2>2, <2>6
<1>5. CASE o.op = "enter_restart"
  <2> DEFINE x == U("restart", o.a, 0)
  <2>1. x \in MicroOp /\ x.op = "restart" /\ x.a = o.a
    BY <1>1 DEF U, MicroOp, OpNames
  <2>2. Runtime(o, f) = stop_nmi \o <<x>> \o LEAVE_KSPECEM_RT(f)
    BY <1>5 DEF Runtime
  <2> HIDE DEF x
  <2>3. Secures(x, w)
    BY <1>5, <2>1 DEF Secures, Restarts, RestartOps
  <2> QED  BY <1>2, <2>1, <2>2, <2>3
<1>6. CASE o.op \in {"enter_checkpoint", "enter_init"}
  BY <1>6 DEF Secures, Restarts, RestartOps
<1> QED  BY <1>3, <1>4, <1>5, <1>6 DEF EnterOps

LEMMA EnterWrite ==
  ASSUME Safe, WriteInv, Enter
  PROVE  WriteInv'
<1> DEFINE s == Runtime(Op, irq)
<1>1. /\ todo # << >> /\ Op.op \in EnterOps /\ Continue(s) /\ UNCHANGED <<prog, pc, in_spec, handler>>
      /\ UNCHANGED logVars
  BY DEF Enter, At, Op, cpuVars, modeVars, irqVars
<1>2. /\ TypeOK /\ TodoInv /\ Op \in MicroOp /\ irq \in BOOLEAN /\ prog[pc] \in Instr
  BY <1>1, TodoFacts, TypeFacts DEF Safe, TypeOK, MachineType
<1>3. Made(s, RuntimeOps(Op.op)) /\ \A w : Secures(Op, w) => \E x \in Elems(s) : Secures(x, w)
  BY <1>1, <1>2, RuntimeCode, RuntimeWrite DEF RuntimeFacts
<1> HIDE DEF s
<1>4. s \in Seq(MicroOp) /\ \A x \in Elems(s) : x.op # "exec"
  BY <1>1, <1>3 DEF Made, Sound, EnterOps, RuntimeOps, AfterOps, LeaveOps, NmiOps
<1>5. Elems(todo') = Elems(s) \cup Elems(Rest)
  BY <1>1, <1>2, <1>4, Replaced
<1>6. \A w : Logged(w) => Logged(w)'
  BY <1>1, SameLog
<1> QED  BY <1>1, <1>2, <1>3, <1>4, <1>5, <1>6, WriteStep

\* The loop over a range logs each of its words.
LEMMA MemcpyWrite ==
  ASSUME Safe, WriteInv, Memcpy
  PROVE  WriteInv'
<1> DEFINE a == Op.a
           n == Op.n
           m == U("memcpy", a + 8, n)
           w == WriteWl(a)
           o == <<m>>
           c == w \o o
<1>1. /\ todo # << >> /\ Op.op = "memcpy" /\ UNCHANGED <<prog, pc, in_spec, handler>> /\ UNCHANGED logVars
      /\ IF a < n THEN Continue(c) ELSE Continue(<< >>)
  BY DEF Memcpy, At, Op, mvars, modeVars, irqVars
<1>2. TypeOK /\ TodoInv /\ a \in Int /\ n \in Int
  BY <1>1, HeadType DEF Safe, TypeOK
<1>3. \A v : Logged(v) => Logged(v)'
  BY <1>1, SameLog
<1>4. ASSUME NEW v, Secures(Op, v)
      PROVE  a < n /\ v \in Int /\ a \div 8 <= v /\ v <= (n - 1) \div 8
  BY <1>1, <1>2, <1>4 DEF Secures, Restarts, RestartOps
<1>5. CASE ~(a < n)
  BY <1>1, <1>2, <1>3, <1>4, <1>5, WriteEnd
<1>6. CASE a < n
  <2>1. m \in MicroOp /\ m.op = "memcpy" /\ m.a = a + 8 /\ m.n = n
    BY <1>2 DEF U, MicroOp, OpNames
  <2>2. Made(w, {"write_wl"}) /\ \A v \in (a \div 8)..((a + 7) \div 8) : \E x \in Elems(w) : Secures(x, v)
    BY <1>2, WriteWlCode, WriteWlWords DEF Secures
  <2> HIDE DEF m, w
  <2>3. o \in Seq(MicroOp) /\ Elems(o) = {m} /\ w \in Seq(MicroOp)
    BY <2>1, <2>2, Seq1, Short DEF Made, Sound
  <2> HIDE DEF o
  <2>4. c \in Seq(MicroOp) /\ Elems(c) = Elems(w) \cup {m}
    BY <2>3, ElemsConcat, SeqConcat
  <2> HIDE DEF c
  <2>5. ASSUME NEW v, Secures(Op, v) PROVE \E x \in Elems(c) : Secures(x, v)
    <3>1. v \in Int /\ a \div 8 <= v /\ v <= (n - 1) \div 8
      BY <1>4, <2>5
    <3>2. CASE v <= (a + 7) \div 8
      <4>1. v \in (a \div 8)..((a + 7) \div 8)
        BY <1>2, <3>1, <3>2
      <4> QED  BY <2>2, <2>4, <4>1
    <3>3. CASE ~(v <= (a + 7) \div 8)
      <4> HIDE DEF a, n
      <4>1. a + 8 < n /\ v \in ((a + 8) \div 8)..((n - 1) \div 8)
        BY <1>2, <3>1, <3>3
      <4>2. Secures(m, v)
        BY <2>1, <4>1 DEF Secures
      <4> QED  BY <2>4, <4>2
    <3> QED  BY <3>2, <3>3
  <2>6. Elems(todo') = Elems(c) \cup Elems(Rest) /\ \A x \in Elems(c) : x.op # "exec"
    BY <1>1, <1>2, <1>6, <2>1, <2>2, <2>4, Replaced DEF Made
  <2> QED  BY <1>1, <1>2, <1>3, <2>5, <2>6, WriteStep
<1> QED  BY <1>5, <1>6

\* A word is logged, or the log is full and the speculation ends.
LEMMA LogWrite ==
  ASSUME Safe, WriteInv, LogWord
  PROVE  WriteInv'
<1>1. /\ todo # << >> /\ Op.op = "write_wl" /\ UNCHANGED <<prog, pc, in_spec>>
  BY DEF LogWord, At, Op, cpuVars, modeVars
<1>2. /\ TypeOK /\ TodoInv /\ wl_addrs \in [0..(WlMax - 1) -> Words] /\ wl_pos \in Int /\ 0 <= wl_pos
      /\ WlMax \in Nat
  BY SpecEmAssumption DEF Safe, TypeOK, LogType
<1>3. CASE Exception(RESTART_PAGE_FAULT, sp)
  BY <1>3, WriteFree DEF Exception
<1>4. CASE Continue(WhenFull) /\ UNCHANGED <<logVars, irqVars>>
  <2> DEFINE r == U("restart", RESTART_WRITELOG_FULL, 0)
  <2>1. r \in MicroOp /\ r.op = "restart" /\ Restarts(r) /\ Continue(<<r>>)
    BY <1>4 DEF U, MicroOp, OpNames, RESTART_WRITELOG_FULL, WhenFull, Restarts, RestartOps, RESTART_RETURN
  <2> HIDE DEF r
  <2>2. \A w : Secures(r, w)
    BY <2>1 DEF Secures
  <2>3. handler' = handler /\ \A w : Logged(w) => Logged(w)'
    BY <1>4, SameLog DEF irqVars
  <2> QED  BY <1>1, <1>2, <2>1, <2>2, <2>3, WriteOne
<1>5. CASE /\ wl_pos < WlMax /\ wl_addrs' = [wl_addrs EXCEPT ![wl_pos] = Op.a] /\ wl_pos' = wl_pos + 1
           /\ Continue(<< >>) /\ UNCHANGED irqVars
  <2>1. wl_pos \in DOMAIN wl_addrs /\ wl_pos \in 0..(wl_pos' - 1)
    BY <1>2, <1>5
  <2>2. ASSUME NEW w, Logged(w) PROVE Logged(w)'
    <3>1. PICK k \in 0..(wl_pos - 1) : wl_addrs[k] = w
      BY <2>2 DEF Logged
    <3>2. k \in 0..(wl_pos' - 1) /\ k # wl_pos /\ k \in DOMAIN wl_addrs
      BY <1>2, <1>5, <3>1
    <3>3. wl_addrs'[k] = w
      BY <1>5, <3>1, <3>2
    <3> QED  BY <3>2, <3>3 DEF Logged
  <2>3. wl_addrs'[wl_pos] = Op.a
    BY <1>5, <2>1
  <2>4. ASSUME NEW w, Secures(Op, w) PROVE Logged(w)'
    <3>1. w = Op.a
      BY <1>1, <2>4 DEF Secures, Restarts, RestartOps
    <3> QED  BY <2>1, <2>3, <3>1 DEF Logged
  <2>5. handler' = handler
    BY <1>5 DEF irqVars
  <2> QED  BY <1>1, <1>2, <1>5, <2>2, <2>4, <2>5, WriteEnd
<1> QED  BY <1>3, <1>4, <1>5 DEF LogWord

\* Any other restart than that of a return begins a rollback.
LEMMA RestartWrite ==
  ASSUME Safe, WriteInv, Restart
  PROVE  WriteInv'
<1>1. /\ todo # << >> /\ Op.op = "restart" /\ UNCHANGED <<prog, pc, in_spec, handler>> /\ UNCHANGED logVars
  BY DEF Restart, At, Op, cpuVars, irqVars
<1>2. TypeOK /\ TodoInv /\ sp \in Int /\ \A w : Logged(w) => Logged(w)'
  BY <1>1, SameLog DEF Safe, TypeOK, MachineType
<1>3. CASE ~in_spec
  BY <1>1, <1>3, WriteFree
<1>4. CASE Continue(<< >>) /\ Op.a = RESTART_RETURN
  <2>1. \A w : ~Secures(Op, w)
    BY <1>1, <1>4 DEF Secures, Restarts
  <2> QED  BY <1>1, <1>2, <1>4, <2>1, WriteEnd
<1> DEFINE a == U("undo", sp, 0)
           b == U("finish", 0, 0)
           s == <<a, b>>
<1>5. CASE Continue(s)
  <2>1. a \in MicroOp /\ a.op = "undo" /\ b \in MicroOp /\ b.op = "finish"
    BY <1>2 DEF U, MicroOp, OpNames
  <2> HIDE DEF a, b
  <2>2. s \in Seq(MicroOp) /\ Elems(s) = {a, b}
    BY <2>1, Seq2, Short
  <2>3. Continue(s)
    BY <1>5
  <2> HIDE DEF s
  <2>4. Elems(todo') = {a, b} \cup Elems(Rest)
    BY <1>1, <1>2, <2>2, <2>3, Replaced
  <2>5. b \in Elems(todo') /\ \A w : Secures(b, w)
    BY <2>1, <2>4 DEF Secures
  <2> QED  BY <2>5 DEF WriteInv, Secures
<1> QED  BY <1>3, <1>4, <1>5, Zenon DEF Restart, ReturnInSpeculation

\* What a rollback takes out of the log the program does not write again.
LEMMA UndoWrite ==
  ASSUME Safe, Undo
  PROVE  WriteInv'
<1>1. todo # << >> /\ Op.op = "undo"
  BY DEF Undo, At, Op
<1>2. /\ TypeOK /\ TodoInv /\ Rest # << >> /\ Head(Rest).op = "finish"
  BY <1>1 DEF Safe, LogInv, Rest
<1>3. /\ Elems(todo) = {Op} \cup Elems(Rest) /\ Head(Rest) \in Elems(Rest) /\ Rest \in Seq(MicroOp)
  BY <1>1, <1>2, TodoFacts, ElemsTail
<1>4. CASE handler'
  BY <1>4, WriteFree
<1>5. CASE todo' = todo \/ Continue(<< >>)
  <2>1. Head(Rest) \in Elems(todo')
    <3>1. Continue(<< >>) => Elems(todo') = {} \cup Elems(Rest)
      BY <1>1, <1>2, ReplacedByOne
    <3> QED  BY <1>3, <1>5, <3>1
  <2>2. \A w : Secures(Head(Rest), w)
    BY <1>2 DEF Secures
  <2> QED  BY <2>1, <2>2 DEF WriteInv, Secures
<1> QED  BY <1>4, <1>5, Zenon DEF Undo, Exception

\* The instrumentation of an instruction secures what it writes.
LEMMA InstrumentWrite ==
  ASSUME NEW i \in Instr, i.op = "asm" => i.to \in CallRestarts, i.op = "store" => i.size <= 8,
         NEW w \in Writes(i)
  PROVE  \E x \in Elems(Instrument(i)) : Secures(x, w)
<1> DEFINE e == U("exec", 0, 0)
<1>1. e \in MicroOp /\ e.op = "exec"
  BY DEF U, MicroOp, OpNames
<1>2. i.addr \in Int /\ i.size \in Int /\ i.size > 0 /\ i.to \in Int
  BY DEF Instr
<1>3. i.op \in {"store", "memset", "asm"} /\ w \in Touched(i.addr, i.size)
  BY DEF Writes
<1> HIDE DEF e
<1>4. ASSUME NEW x \in MicroOp, x.op \in HookOps, Secures(x, w), Instrument(i) = <<x>> \o <<e>>
      PROVE  \E y \in Elems(Instrument(i)) : Secures(y, w)
  <2>1. Sound(<<x>>) /\ Elems(<<x>>) = {x}
    BY <1>4, SoundOne DEF HookOps
  <2>2. x \in Elems(Instrument(i))
    BY <1>1, <1>4, <2>1, BeforeExec
  <2> QED  BY <1>4, <2>2
<1>5. CASE i.op = "store"
  <2> DEFINE x == U("hook_store", i.addr, 0)
  <2>1. x \in MicroOp /\ x.op = "hook_store" /\ x.op \in HookOps /\ x.a = i.addr
    BY <1>2 DEF U, MicroOp, OpNames, HookOps
  <2>2. Instrument(i) = <<x>> \o <<e>>
    BY <1>5 DEF Instrument, visitStoreInst, e
  <2>3. w \in (i.addr \div 8)..((i.addr + 7) \div 8)
    <3>1. w \in Int /\ i.addr \div 8 <= w /\ w <= (i.addr + i.size - 1) \div 8
      BY <1>2, <1>3 DEF Touched
    <3>2. i.size <= 8
      BY <1>5
    <3>3. (i.addr + i.size - 1) \div 8 <= (i.addr + 7) \div 8
      BY <1>2, <3>2
    <3> QED  BY <1>2, <3>1, <3>3
  <2>4. Secures(x, w)
    BY <2>1, <2>3 DEF Secures
  <2> HIDE DEF x
  <2> QED  BY <1>4, <2>1, <2>2, <2>4
<1>6. CASE i.op = "memset"
  <2> DEFINE x == U("hook_memcpy", i.addr, i.size)
  <2>1. x \in MicroOp /\ x.op = "hook_memcpy" /\ x.op \in HookOps /\ x.a = i.addr /\ x.n = i.size
    BY <1>2 DEF U, MicroOp, OpNames, HookOps
  <2>2. Instrument(i) = <<x>> \o <<e>>
    BY <1>6 DEF Instrument, visitMemIntrinsic, e
  <2>3. Secures(x, w)
    BY <1>2, <1>3, <2>1 DEF Secures
  <2> HIDE DEF x
  <2> QED  BY <1>4, <2>1, <2>2, <2>3
<1>7. CASE i.op = "asm"
  <2> DEFINE x == U("hook_restart", i.to, 0)
  <2>1. x \in MicroOp /\ x.op = "hook_restart" /\ x.op \in HookOps /\ x.a = i.to
    BY <1>2 DEF U, MicroOp, OpNames, HookOps
  <2>2. Instrument(i) = <<x>> \o <<e>>
    BY <1>7 DEF Instrument, visitCallInst, e
  <2>3. Secures(x, w)
    BY <1>7, <2>1 DEF Secures, Restarts, RestartOps, CallRestarts, RESTART_RETURN, RESTART_CALL_UNDEFINED,
                      RESTART_INLINE_ASM, RESTART_BLACKLIST
  <2> HIDE DEF x
  <2> QED  BY <1>4, <2>1, <2>2, <2>3
<1> QED  BY <1>3, <1>5, <1>6, <1>7

LEMMA FetchWrite ==
  ASSUME SmallStores, Safe, Fetch
  PROVE  WriteInv'
<1>1. todo' = Instrument(prog[pc]) /\ UNCHANGED <<prog, pc>>
  BY DEF Fetch, mvars
<1>2. prog \in Programs /\ pc \in DOMAIN prog /\ prog[pc] \in Instr
  BY TypeFacts DEF Safe
<1>3. /\ prog[pc].op = "asm" => prog[pc].to \in CallRestarts
      /\ prog[pc].op = "store" => prog[pc].size <= 8
  BY <1>2, SpecEmAssumption DEF SmallStores
<1>4. \A w \in Writes(prog[pc]) : \E x \in Elems(todo') : Secures(x, w)
  BY <1>1, <1>2, <1>3, InstrumentWrite
<1> QED  BY <1>1, <1>4 DEF WriteInv, Secures

\* The program's own steps: nothing is left of the instruction.
LEMMA ExecWrite ==
  ASSUME Safe, Exec \/ Select
  PROVE  WriteInv'
<1>1. todo # << >> /\ Op.op \in {"exec", "select"}
  BY DEF Exec, Select, At, Op
<1>2. TypeOK /\ TodoInv /\ \A y \in Elems(Rest) : Precedes(Op, y)
  BY <1>1, TodoFacts DEF Safe
<1>3. ~Has(Rest, "exec")
  BY <1>1, <1>2 DEF Has, Precedes, LastOps
<1>4. Continue(<< >>) \/ handler'
  BY Zenon DEF Exec, Select, Exception
<1>5. ASSUME Continue(<< >>) PROVE WriteInv'
  <2>1. Elems(todo') = {} \cup Elems(Rest)
    BY <1>1, <1>2, <1>5, ReplacedByOne
  <2>2. ~Has(todo', "exec")
    BY <1>3, <2>1 DEF Has
  <2> QED  BY <2>2, WriteFree
<1> QED  BY <1>4, <1>5, WriteFree

\* A checkpoint is that of a branch, which writes nothing.
LEMMA NewCheckpointWrite ==
  ASSUME Safe, Thread, NewCheckpoint
  PROVE  WriteInv'
<1>1. /\ todo # << >> /\ Op.op = "new_checkpoint" /\ UNCHANGED <<prog, pc>> /\ status = "running"
  BY DEF NewCheckpoint, At, Op, cpuVars
<1>2. /\ Allowed(Op, irq, handler, in_spec, init_done) /\ Op \in Elems(todo)
  BY <1>1, TodoFacts DEF Safe
<1>3. ~handler
  BY <1>1, <1>2 DEF Allowed, HandlerOps, InterruptOps, RollbackOps
<1>4. prog[pc].op = "branch"
  BY <1>1, <1>2, <1>3 DEF Thread, TextInv, TextOf, BranchOps
<1>5. Writes(prog'[pc']) = {}
  BY <1>1, <1>4 DEF Writes
<1> QED  BY <1>5 DEF WriteInv, Writes

\* Operations that secure nothing.
LEMMA EndWrite ==
  ASSUME Safe, WriteInv,
         \/ IrqRestore \/ UnsetRt \/ SetWord \/ SaveStack \/ SaveRegisters \/ InitDone \/ HandleTick
  PROVE  WriteInv'
<1>1. /\ todo # << >> /\ Continue(<< >>) /\ UNCHANGED <<prog, pc, in_spec, handler>> /\ UNCHANGED logVars
      /\ Op.op \in {"irq_restore", "unset_rt", "add", "set", "save_stack", "save_registers", "init_done", "tick"}
  BY DEF IrqRestore, UnsetRt, SetWord, SaveStack, SaveRegisters, InitDone, HandleTick, At, Op, mvars, cpuVars,
         modeVars, irqVars
<1>2. TypeOK /\ TodoInv /\ \A w : Logged(w) => Logged(w)'
  BY <1>1, SameLog DEF Safe
<1>3. \A w : ~Secures(Op, w)
  BY <1>1 DEF Secures, Restarts, RestartOps
<1> QED  BY <1>1, <1>2, <1>3, WriteEnd

LEMMA WriteNext ==
  ASSUME ~Nmis, SmallStores
  PROVE  Base /\ WriteInv /\ [Next]_vars => WriteInv'
<1> SUFFICES ASSUME Base, WriteInv, [Next]_vars PROVE WriteInv'
  OBVIOUS
<1>0. Safe /\ Thread
  BY DEF Base
<1>1. CASE UNCHANGED vars \/ SetSpecEnabled \/ UndoInUse
  <2>1. /\ UNCHANGED <<todo, prog, pc, wl_addrs, wl_pos>>
        /\ (in_spec' <=> in_spec) /\ (handler' <=> handler)
    BY <1>1, HaltFacts DEF Halt, SetSpecEnabled, vars, mvars, modeVars, irqVars, logVars
  <2> QED  BY <2>1 DEF WriteInv, Has, Logged, Secures
<1>2. CASE Fetch
  BY <1>0, <1>2, FetchWrite
<1>3. CASE Exec \/ Select
  BY <1>0, <1>3, ExecWrite
<1>4. CASE \/ HookStore \/ HookMemcpy \/ HookRestart \/ HookCheckSpecLength \/ HookCheckCallDepth
           \/ HookNewCheckpoint
  BY <1>0, <1>4, HookWrite
<1>5. CASE Enter
  BY <1>0, <1>5, EnterWrite
<1>6. CASE \/ IrqRestore \/ UnsetRt \/ SetWord \/ SaveStack \/ SaveRegisters \/ InitDone \/ HandleTick
  BY <1>0, <1>6, EndWrite
<1>7. CASE NewCheckpoint
  BY <1>0, <1>7, NewCheckpointWrite
<1>8. CASE Memcpy
  BY <1>0, <1>8, MemcpyWrite
<1>9. CASE LogWord
  BY <1>0, <1>9, LogWrite
<1>10. CASE Restart
  BY <1>0, <1>10, RestartWrite
<1>11. CASE Undo
  BY <1>0, <1>11, UndoWrite
<1>12. CASE Finish \/ InitData
  <2>1. ~in_spec'
    BY <1>12 DEF Finish, InitData
  <2> QED  BY <2>1, WriteFree
<1>13. CASE RestartIrq \/ HookInterruptTimer
  <2>1. todo # << >> /\ Op.op \in InterruptOps /\ handler' = handler
    BY <1>13 DEF RestartIrq, HookInterruptTimer, At, Op, InterruptOps, irqVars
  <2>2. Allowed(Op, irq, handler, in_spec, init_done)
    BY <1>0, <2>1, TodoFacts DEF Safe
  <2>3. handler'
    BY <2>1, <2>2 DEF Allowed
  <2> QED  BY <2>3, WriteFree
<1>14. CASE TimerInterrupt
  <2>1. handler'
    BY <1>14 DEF TimerInterrupt
  <2> QED  BY <2>1, WriteFree
<1>15. CASE Iret
  <2>1. todo # << >> /\ Op.op = "iret" /\ in_spec' = in_spec
    BY <1>15 DEF Iret, At, Op, modeVars
  <2>2. Allowed(Op, irq, handler, in_spec, init_done)
    BY <1>0, <2>1, TodoFacts DEF Safe
  <2>3. handler /\ Op.op \notin RollbackOps \cup {"hook_interrupt_timer"}
    BY <2>1, <2>2 DEF Allowed, InterruptOps, RollbackOps
  <2>4. ~in_spec'
    BY <1>0, <2>1, <2>3, ModeFacts
  <2> QED  BY <2>4, WriteFree
<1>16. CASE Enable
  <2>1. in_spec => init_done
    BY <1>0, ModeFacts
  <2>2. ~in_spec'
    BY <1>16, <2>1 DEF Enable, modeVars
  <2> QED  BY <2>2, WriteFree
<1> QED
  BY <1>1, <1>2, <1>3, <1>4, <1>5, <1>6, <1>7, <1>8, <1>9, <1>10, <1>11, <1>12, <1>13, <1>14, <1>15, <1>16, NoNmis
  DEF Next, Cpu, Environment, Done

-----------------------------------------------------------------------------
(* Where operations come from *)

\* Operations that only an interrupt, the runtime's entry or a resumption brings.
RareOps == {"tick", "new_checkpoint", "save_stack", "save_registers", "irq_restore"}

Common(s) == s \in Seq(MicroOp) /\ \A x \in Elems(s) : x.op \notin RareOps

LEMMA CommonShort ==
  /\ Common(<< >>)
  /\ \A x \in MicroOp : x.op \notin RareOps => Common(<<x>>)
  /\ \A x, y \in MicroOp : x.op \notin RareOps /\ y.op \notin RareOps => Common(<<x, y>>)
BY SeqEmpty, Seq1, Seq2, Short DEF Common

\* What the code continues with.
LEMMA Continuation ==
  ASSUME Safe,
         \/ HookStore \/ HookMemcpy \/ HookRestart \/ HookCheckSpecLength \/ HookCheckCallDepth
         \/ HookNewCheckpoint \/ Memcpy \/ (LogWord /\ ~handler') \/ Restart \/ RestartIrq
         \/ HookInterruptTimer
  PROVE  \E s : Common(s) /\ Continue(s)
<1>1. todo # << >>
  BY DEF HookStore, HookMemcpy, HookRestart, HookCheckSpecLength, HookCheckCallDepth, HookNewCheckpoint,
         Memcpy, LogWord, Restart, RestartIrq, HookInterruptTimer, At
<1>2. Op.a \in Int /\ Op.n \in Int /\ sp \in Int /\ prog[pc] \in Instr
  BY <1>1, HeadType, TypeFacts DEF Safe, TypeOK, MachineType
<1>3. ASSUME NEW x \in MicroOp, x.op \notin RareOps, Continue(<<x>>) PROVE \E s : Common(s) /\ Continue(s)
  BY <1>3, CommonShort
<1>4. ASSUME NEW x \in MicroOp, NEW y \in MicroOp, x.op \notin RareOps, y.op \notin RareOps, Continue(<<x, y>>)
      PROVE  \E s : Common(s) /\ Continue(s)
  BY <1>4, CommonShort
<1>5. CASE Continue(<< >>)
  BY <1>5, CommonShort
<1>6. CASE \/ HookStore \/ HookMemcpy \/ HookRestart \/ HookCheckSpecLength \/ HookCheckCallDepth
           \/ (LogWord /\ ~handler') \/ HookInterruptTimer
  <2> DEFINE a == U("enter_store", Op.a, 0)
             b == U("enter_memcpy", Op.a, Op.n)
             c == U("enter_restart", Op.a, 0)
             d == U("enter_restart", RESTART_LIMIT_SPEC, 0)
             e == U("enter_restart", RESTART_CALL_DEPTH, 0)
             f == U("restart", RESTART_WRITELOG_FULL, 0)
             g == U("restart_irq", RESTART_TIMER, Op.a)
  <2>1. \/ Continue(<< >>) \/ Continue(<<a>>) \/ Continue(<<b>>) \/ Continue(<<c>>) \/ Continue(<<d>>)
        \/ Continue(<<e>>) \/ Continue(<<f>>) \/ Continue(<<g>>)
    BY <1>6, Zenon DEF HookStore, HookMemcpy, HookRestart, HookCheckSpecLength, HookCheckCallDepth, LogWord,
                       WhenFull, Exception, HookInterruptTimer
  <2>2. \A x \in {a, b, c, d, e, f, g} : x \in MicroOp /\ x.op \notin RareOps
    BY <1>2 DEF U, MicroOp, OpNames, RESTART_LIMIT_SPEC, RESTART_CALL_DEPTH, RESTART_WRITELOG_FULL,
                RESTART_TIMER, RareOps
  <2> HIDE DEF a, b, c, d, e, f, g
  <2> QED  BY <1>3, <1>5, <2>1, <2>2
<1>7. CASE HookNewCheckpoint
  <2> DEFINE x == U("enter_checkpoint", 0, 0)
             t == SwapBranch \o LengthHook(prog[pc], LengthAfterSpec)
  <2>1. x \in MicroOp /\ x.op \notin RareOps
    BY DEF U, MicroOp, OpNames, RareOps
  <2>2. Continue(<<x>>) \/ Continue(t)
    BY <1>7 DEF HookNewCheckpoint
  <2>3. Made(t, BranchedOps)
    BY <1>2, BranchCode
  <2> HIDE DEF x, t
  <2>4. Common(t)
    BY <2>3 DEF Made, Sound, BranchedOps, Common, RareOps
  <2> QED  BY <1>3, <2>1, <2>2, <2>4
<1>8. CASE Memcpy
  <2> DEFINE m == U("memcpy", Op.a + 8, Op.n)
             w == WriteWl(Op.a)
             o == <<m>>
             c == w \o o
  <2>1. m \in MicroOp /\ m.op = "memcpy"
    BY <1>2 DEF U, MicroOp, OpNames
  <2>2. Made(w, {"write_wl"})
    BY <1>2, WriteWlCode
  <2>3. Continue(<< >>) \/ Continue(c)
    BY <1>8 DEF Memcpy
  <2> HIDE DEF m, w
  <2>4. o \in Seq(MicroOp) /\ Elems(o) = {m} /\ w \in Seq(MicroOp)
    BY <2>1, <2>2, Seq1, Short DEF Made, Sound
  <2> HIDE DEF o
  <2>5. c \in Seq(MicroOp) /\ Elems(c) = Elems(w) \cup {m}
    BY <2>4, ElemsConcat, SeqConcat
  <2> HIDE DEF c
  <2>6. Common(c)
    BY <2>1, <2>2, <2>5 DEF Made, Common, RareOps
  <2> QED  BY <1>5, <2>3, <2>6
<1>9. CASE Restart \/ RestartIrq
  <2> DEFINE a == U("undo", sp, 0)
             b == U("finish", 0, 0)
             c == U("undo", Op.n, 1)
             d == U("finish", 1, 0)
  <2>1. Continue(<< >>) \/ Continue(<<a, b>>) \/ Continue(<<c, d>>)
    BY <1>9, Zenon DEF Restart, RestartIrq
  <2>2. \A x \in {a, b, c, d} : x \in MicroOp /\ x.op \notin RareOps
    BY <1>2 DEF U, MicroOp, OpNames, RareOps
  <2> HIDE DEF a, b, c, d
  <2> QED  BY <1>4, <1>5, <2>1, <2>2
<1> QED  BY <1>6, <1>7, <1>8, <1>9

\* An exception's code.
LEMMA ExceptionCode ==
  ASSUME NEW type, NEW top, Exception(type, top)
  PROVE  /\ Elems(todo') = {U("restart_irq", type, top), U("iret", top, 0)}
         /\ \A x \in Elems(todo') : x.op \notin RareOps \cup {"exec"}
         /\ todo' # << >> /\ Head(todo').op = "restart_irq"
<1> DEFINE r == U("restart_irq", type, top)
           q == U("iret", top, 0)
<1>1. todo' = <<r, q>> /\ r.op = "restart_irq" /\ q.op = "iret"
  BY DEF Exception, U
<1> HIDE DEF r, q
<1>2. Elems(todo') = {r, q} /\ todo' # << >> /\ Head(todo') = r
  BY <1>1, Short
<1> QED  BY <1>1, <1>2 DEF RareOps, r, q

LEMMA Origin ==
  ASSUME Safe, [Next]_vars, ~Enter, ~TimerInterrupt, ~Iret, ~Finish, NEW x \in Elems(todo')
  PROVE  x \in Elems(todo) \/ x.op \notin RareOps
<1>0. TypeOK /\ TodoInv
  BY DEF Safe
<1>1. ASSUME todo # << >>, NEW s, Common(s), Continue(s) PROVE x \in Elems(todo) \/ x.op \notin RareOps
  <2>1. Elems(todo') = Elems(s) \cup Elems(Rest) /\ Elems(todo) = {Op} \cup Elems(Rest)
    BY <1>0, <1>1, Replaced, TodoFacts DEF Common
  <2> QED  BY <1>1, <2>1 DEF Common
<1>2. ASSUME todo # << >>, Continue(<< >>) PROVE x \in Elems(todo) \/ x.op \notin RareOps
  BY <1>1, <1>2, CommonShort
<1>3. ASSUME NEW type, NEW top, Exception(type, top) PROVE x \in Elems(todo) \/ x.op \notin RareOps
  BY <1>3, ExceptionCode
<1>4. CASE todo' = todo
  BY <1>4
<1>5. CASE \/ HookStore \/ HookMemcpy \/ HookRestart \/ HookCheckSpecLength \/ HookCheckCallDepth
           \/ HookNewCheckpoint \/ Memcpy \/ (LogWord /\ ~handler') \/ Restart \/ RestartIrq
           \/ HookInterruptTimer
  <2>1. todo # << >>
    BY <1>5 DEF HookStore, HookMemcpy, HookRestart, HookCheckSpecLength, HookCheckCallDepth, HookNewCheckpoint,
           Memcpy, LogWord, Restart, RestartIrq, HookInterruptTimer, At
  <2> QED  BY <1>1, <1>5, <2>1, Continuation
<1>6. CASE LogWord /\ handler'
  <2>1. todo # << >> /\ Op.op = "write_wl"
    BY <1>6 DEF LogWord, At, Op
  <2>2. ~handler
    <3>1. Allowed(Op, irq, handler, in_spec, init_done)
      BY <1>0, <2>1, TodoFacts
    <3> QED  BY <2>1, <3>1 DEF Allowed, HandlerOps, InterruptOps, RollbackOps
  <2>3. Exception(RESTART_PAGE_FAULT, sp)
    BY <1>6, <2>2 DEF LogWord, irqVars
  <2> QED  BY <1>3, <2>3
<1>7. CASE Exec \/ Undo
  <2>1. todo # << >>
    BY <1>7 DEF Exec, Undo, At
  <2>2. \/ Continue(<< >>) \/ todo' = todo \/ \E type, top : Exception(type, top)
    BY <1>7 DEF Exec, Undo
  <2> QED  BY <1>2, <1>3, <1>4, <2>1, <2>2
<1>8. CASE \/ IrqRestore \/ UnsetRt \/ SetWord \/ NewCheckpoint \/ SaveStack \/ SaveRegisters \/ Select
           \/ HandleTick \/ InitData \/ InitDone
  <2>1. todo # << >> /\ Continue(<< >>)
    BY <1>8 DEF IrqRestore, UnsetRt, SetWord, NewCheckpoint, SaveStack, SaveRegisters, Select, HandleTick,
                InitData, InitDone, At
  <2> QED  BY <1>2, <2>1
<1>9. CASE Fetch
  <2>1. FetchFacts(todo', prog[pc])
    BY <1>0, <1>9, TextFacts DEF Fetch
  <2> QED  BY <2>1 DEF FetchFacts, Made, HookOps, RareOps
<1>10. CASE Enable
  <2> DEFINE e == U("enter_init", 0, 0)
  <2>1. todo' = <<e>> /\ e.op = "enter_init"
    BY <1>10 DEF Enable, U
  <2> HIDE DEF e
  <2>2. Elems(todo') = {e}
    BY <2>1, Short
  <2> QED  BY <2>1, <2>2 DEF RareOps
<1>11. CASE Nmi \/ NmiInUndo
  BY <1>3, <1>11 DEF Nmi, NmiInUndo
<1>12. CASE SetSpecEnabled \/ SavePartly \/ UndoInUse \/ NmiBetweenFlags \/ UNCHANGED vars
  BY <1>4, <1>12 DEF SetSpecEnabled, SavePartly, UndoInUse, NmiBetweenFlags, vars
<1> QED
  BY <1>5, <1>6, <1>7, <1>8, <1>9, <1>10, <1>11, <1>12 DEF Next, Cpu, Environment, Done

\* The code of a timer interrupt.
LEMMA TimerCode ==
  ASSUME TimerInterrupt
  PROVE  \E h, t, r, q :
           /\ todo' = <<h, t, r, q>> /\ Elems(todo') = {h, t, r, q} /\ todo' # << >> /\ Head(todo') = h
           /\ h.op = "hook_interrupt_timer" /\ t.op = "tick" /\ r.op = "hook_restart" /\ q.op = "iret"
<1> DEFINE h == U("hook_interrupt_timer", sp, 0)
           t == U("tick", sp, 0)
           r == U("hook_restart", RESTART_RETURN, 0)
           q == U("iret", sp, 0)
<1>1. todo' = <<h, t, r, q>>
  BY DEF TimerInterrupt
<1>2. h.op = "hook_interrupt_timer" /\ t.op = "tick" /\ r.op = "hook_restart" /\ q.op = "iret"
  BY DEF U
<1> HIDE DEF h, t, r, q
<1>3. /\ Precedes(h, t) /\ Precedes(h, r) /\ Precedes(h, q)
      /\ Precedes(t, r) /\ Precedes(t, q) /\ Precedes(r, q)
  BY <1>2 DEF Precedes, LastOps, FirstOps, CheckpointOps, IsReturn, RestartOps
<1>4. Elems(todo') = {h, t, r, q} /\ todo' # << >> /\ Head(todo') = h
  BY <1>1, <1>3, Short4
<1> QED  BY <1>1, <1>2, <1>4

-----------------------------------------------------------------------------
(* Words that nothing in a speculation writes *)

LEMMA UntouchedWords ==
  ASSUME NEW w \in Untouched
  PROVE  /\ w \in Words /\ w # IgnoreNmis /\ w # SwapCondition
         /\ \A d \in 1..StackSize : Frame(d) # w
<1>1. \A d \in 1..StackSize : Frame(d) \in StackWords /\ Frame(d) # Jiffies
  BY MachineAssumption DEF Frame, StackWords, Jiffies, FirstHeap
<1>2. CASE w = Jiffies
  BY <1>1, <1>2, NmiWord DEF Jiffies, SwapCondition, IgnoreNmis
<1>3. CASE w \in Faulting
  BY <1>1, <1>3, MachineAssumption DEF RuntimeWords
<1> QED  BY <1>2, <1>3 DEF Untouched

\* The frames that are marked above top.
LEMMA MarksOnly ==
  ASSUME NEW top \in 1..(StackSize - 2), mem' = Write(mem, {Frame(top + 1), Frame(top + 2)}, RtMark),
         NEW w \in Words, \A d \in 1..StackSize : Frame(d) = w => d <= top
  PROVE  mem'[w] = mem[w]
<1>1. top + 1 \in 1..StackSize /\ top + 2 \in 1..StackSize /\ ~(top + 1 <= top) /\ ~(top + 2 <= top)
  BY MachineAssumption
<1>2. w # Frame(top + 1) /\ w # Frame(top + 2)
  BY <1>1
<1> QED  BY <1>2 DEF Write

\* What an instruction that does not fault writes.
Written ==
  CASE prog[pc].op \in {"store", "memset", "asm"} -> Writes(prog[pc])
    [] prog[pc].op = "spill" -> {Frame(sp)}
    [] prog[pc].op = "call" -> {Frame(sp + 1)}
    [] prog[pc].op = "ret" /\ sp # 1 -> {Frame(sp)}
    [] OTHER -> {}

LEMMA StraightWrites ==
  ASSUME TypeOK, ~Faults, Straight, NEW w \in Words, w \notin Written
  PROVE  mem'[w] = mem[w]
<1>1. CASE Store
  BY <1>1 DEF Store, Write, Written, Writes
<1>2. CASE Spill
  BY <1>2 DEF Spill, Write, Written
<1>3. CASE Jump \/ SetIrq
  BY <1>3 DEF Jump, SetIrq
<1>4. CASE Call
  BY <1>4 DEF Call, Write, Written
<1>5. CASE Return
  <2>1. mem' = mem \/ (sp # 1 /\ mem' = Write(mem, {Frame(sp)}, 0))
    BY <1>5 DEF Return
  <2>2. sp # 1 => w # Frame(sp)
    BY <1>5 DEF Return, Written
  <2> QED  BY <2>1, <2>2 DEF Write
<1> QED  BY <1>1, <1>2, <1>3, <1>4, <1>5 DEF Straight

LEMMA WrittenWords ==
  ASSUME TypeOK, ~Faults, NEW w \in Written
  PROVE  \/ w \in Writes(prog[pc]) /\ w \in FirstHeap..(NWords - 1) /\ w \notin Faulting
         \/ \E d \in 1..StackSize : w = Frame(d)
<1>1. sp \in 1..MaxSp /\ prog \in Programs /\ pc \in DOMAIN prog /\ WellFormed(prog)
  BY TypeFacts, MachineAssumption DEF TypeOK, MachineType
<1>2. sp \in 1..StackSize /\ sp + 1 \in 1..StackSize
  BY <1>1, NmiWord
<1>3. CASE prog[pc].op \in {"store", "memset", "asm"}
  <2>1. w \in Touched(prog[pc].addr, prog[pc].size) /\ w \in Writes(prog[pc])
    BY <1>3 DEF Written, Writes
  <2>2. Touched(prog[pc].addr, prog[pc].size) \subseteq FirstHeap..(NWords - 1)
    BY <1>1, <1>3 DEF WellFormed
  <2>3. w \notin Faulting
    BY <1>3, <2>1 DEF Faults
  <2> QED  BY <2>1, <2>2, <2>3
<1>4. CASE prog[pc].op \notin {"store", "memset", "asm"}
  <2>1. w = Frame(sp) \/ w = Frame(sp + 1)
    BY <1>4 DEF Written
  <2> QED  BY <1>2, <2>1
<1> QED  BY <1>3, <1>4

\* Only the timer's handler writes them.
LEMMA QuietWords ==
  ASSUME ~Nmis, Base, QuietInv, [Next]_vars, ~HandleTick, NEW w \in Untouched
  PROVE  mem'[w] = mem[w]
<1>0. Safe /\ TypeOK /\ TodoInv /\ NmiInv /\ mem \in [Words -> Int]
  BY DEF Base, Safe, TypeOK, MachineType
<1>1. w \in Words /\ w # IgnoreNmis /\ w # SwapCondition /\ \A d \in 1..StackSize : Frame(d) # w
  BY UntouchedWords
<1>2. sp \in 1..(StackSize - 2) /\ wl_base \in 1..StackSize /\ sp \in 1..MaxSp
  BY <1>0, NmiWord DEF TypeOK, MachineType, CkptType
<1>3. ASSUME NEW top \in 1..(StackSize - 2), mem' = Write(mem, {Frame(top + 1), Frame(top + 2)}, RtMark)
      PROVE  mem'[w] = mem[w]
  BY <1>1, <1>3, MarksOnly
<1>4. CASE mem' = mem
  BY <1>4
<1>5. CASE Exec
  <2>1. CASE ~Faults /\ Straight
    <3>1. w \notin Written
      BY <1>0, <1>1, <2>1, WrittenWords DEF Untouched, Jiffies, FirstHeap
    <3> QED  BY <1>0, <1>1, <2>1, <3>1, StraightWrites
  <2>2. CASE Oops
    BY <2>2 DEF Oops
  <2>3. ASSUME NEW type, Exception(type, sp) PROVE mem'[w] = mem[w]
    BY <1>2, <1>3, <2>3 DEF Exception
  <2> QED  BY <1>5, <2>1, <2>2, <2>3 DEF Exec
<1>6. CASE SetWord
  <2>1. todo # << >> /\ Op.op \in {"add", "set"}
    BY <1>6 DEF SetWord, At, Op
  <2>2. Allowed(Op, irq, handler, in_spec, init_done)
    BY <1>0, <2>1, TodoFacts
  <2>3. Op.a # w
    BY <1>1, <2>1, <2>2 DEF Allowed
  <2> QED  BY <1>0, <1>1, <1>6, <2>3 DEF SetWord
<1>7. CASE NewCheckpoint \/ InitData
  BY <1>0, <1>1, <1>7 DEF NewCheckpoint, InitData
<1>8. CASE LogWord \/ Restart \/ TimerInterrupt
  <2>1. mem' = mem \/ mem' = Write(mem, {Frame(sp + 1), Frame(sp + 2)}, RtMark)
    BY <1>8, Zenon DEF LogWord, Restart, TimerInterrupt, Exception
  <2> QED  BY <1>2, <1>3, <1>4, <2>1
<1>9. CASE Undo
  <2>1. todo # << >> /\ Op.op = "undo"
    BY <1>9 DEF Undo, At, Op
  <2>2. Allowed(Op, irq, handler, in_spec, init_done) /\ Op \in Elems(todo)
    BY <1>0, <2>1, TodoFacts
  <2>3. in_spec /\ Op.a \in 1..(StackSize - 2)
    BY <1>0, <2>1, <2>2 DEF Allowed, RollbackOps, NmiInv, TopInv, InStack
  <2>4. NestedTop(Op.a) \in 1..(StackSize - 2)
    BY <2>3, MachineAssumption DEF NestedTop
  <2>5. CASE mem' = Write(mem, {Frame(NestedTop(Op.a) + 1), Frame(NestedTop(Op.a) + 2)}, RtMark)
    BY <1>3, <2>4, <2>5
  <2>6. CASE wl_pos > 0 /\ mem' = [mem EXCEPT ![wl_addrs[wl_pos - 1]] = wl_data[wl_pos - 1]]
    <3>1. wl_pos \in Int /\ wl_pos - 1 \in 0..(wl_pos - 1)
      BY <1>0, <2>6, SpecEmAssumption DEF TypeOK, LogType
    <3>2. wl_addrs[wl_pos - 1] = w => wl_data[wl_pos - 1] = mem[w]
      BY <2>3, <3>1 DEF QuietInv
    <3> QED  BY <1>0, <1>1, <2>6, <3>2
  <2> QED  BY <1>4, <1>9, <2>5, <2>6, Zenon DEF Undo, Exception
<1>10. CASE Finish
  <2>1. w # Frame(wl_base)
    BY <1>1, <1>2
  <2> QED  BY <1>0, <1>1, <1>10, <2>1 DEF Finish, FinishMem
<1>11. CASE \/ Fetch \/ HookStore \/ HookMemcpy \/ HookRestart \/ HookCheckSpecLength \/ HookCheckCallDepth
            \/ HookNewCheckpoint \/ Enter \/ IrqRestore \/ UnsetRt \/ SaveStack \/ SaveRegisters \/ Select
            \/ Memcpy \/ RestartIrq \/ HookInterruptTimer \/ Iret \/ InitDone \/ Enable \/ SetSpecEnabled
            \/ UndoInUse \/ UNCHANGED vars
  <2>1. mem' = mem
    BY <1>11 DEF UndoInUse, Fetch, HookStore, HookMemcpy, HookRestart, HookCheckSpecLength, HookCheckCallDepth,
            HookNewCheckpoint, Enter, IrqRestore, UnsetRt, SaveStack, SaveRegisters, Select, Memcpy, RestartIrq,
            HookInterruptTimer, Iret, InitDone, Enable, SetSpecEnabled, vars, mvars
  <2> QED  BY <2>1
<1> QED
  BY <1>5, <1>6, <1>7, <1>8, <1>9, <1>10, <1>11, NoNmis DEF Next, Cpu, Environment, Done

LEMMA Within ==
  ASSUME NEW m \in Int, NEW n \in Int, m <= n, NEW k, k \in 0..(m - 1)
  PROVE  k \in Int /\ 0 <= k /\ k <= m - 1 /\ k \in 0..(n - 1)
OBVIOUS

\* The log of such words.
LEMMA QuietNext == ASSUME ~Nmis PROVE Base /\ QuietInv /\ [Next]_vars => QuietInv'
<1> SUFFICES ASSUME Base, QuietInv, [Next]_vars, in_spec', NEW k, k \in 0..(wl_pos' - 1), wl_addrs'[k] \in Untouched
             PROVE  wl_data'[k] = mem'[wl_addrs'[k]]
  BY DEF QuietInv
<1>0. /\ Safe /\ TypeOK /\ TodoInv /\ wl_addrs \in [0..(WlMax - 1) -> Words] /\ wl_data \in [0..(WlMax - 1) -> Int]
      /\ wl_pos \in Int /\ 0 <= wl_pos /\ wl_pos <= WlMax /\ WlMax \in Nat
  BY SpecEmAssumption DEF Base, Safe, TypeOK, LogType
<1>1. ~HandleTick
  <2> SUFFICES ASSUME HandleTick PROVE FALSE
    OBVIOUS
  <2>1. todo # << >> /\ Op.op = "tick" /\ in_spec' = in_spec
    BY DEF HandleTick, At, Op, modeVars
  <2>2. Allowed(Op, irq, handler, in_spec, init_done)
    BY <1>0, <2>1, TodoFacts
  <2>3. handler /\ Op.op \notin RollbackOps \cup {"hook_interrupt_timer"}
    BY <2>1, <2>2 DEF Allowed, InterruptOps, RollbackOps
  <2> QED  BY <1>0, <2>1, <2>3, ModeFacts
<1>2. \A w \in Untouched : mem'[w] = mem[w]
  BY <1>1, QuietWords
<1>3. ASSUME wl_addrs' = wl_addrs, wl_data' = wl_data, wl_pos' <= wl_pos, wl_pos' \in Int, in_spec
      PROVE  wl_data'[k] = mem'[wl_addrs'[k]]
  <2>1. k \in 0..(wl_pos - 1)
    <3>1. wl_pos \in Int /\ wl_pos' \in Int /\ wl_pos' <= wl_pos
      BY <1>0, <1>3
    <3> QED  BY ONLY <3>1, k \in 0..(wl_pos' - 1), Within
  <2> QED  BY <1>2, <1>3, <2>1 DEF QuietInv
<1>4. CASE NewCheckpoint
  BY <1>4 DEF NewCheckpoint
<1>5. CASE Finish \/ InitData
  BY <1>5 DEF Finish, InitData
<1>6. CASE LogWord
  <2>1. in_spec' = in_spec
    BY <1>6 DEF LogWord, modeVars
  <2>2. CASE UNCHANGED logVars
    BY <1>0, <1>3, <2>1, <2>2 DEF logVars
  <2>3. CASE /\ wl_pos < WlMax /\ wl_addrs' = [wl_addrs EXCEPT ![wl_pos] = Op.a] /\ wl_pos' = wl_pos + 1
             /\ wl_data' = [wl_data EXCEPT ![wl_pos] = mem[Op.a]]
    <3>1. wl_pos \in 0..(WlMax - 1)
      BY <1>0, <2>3
    <3>2. CASE k = wl_pos
      <4>1. wl_addrs'[k] = Op.a /\ wl_data'[k] = mem[Op.a]
        BY <1>0, <2>3, <3>1, <3>2
      <4> QED  BY <1>2, <4>1
    <3>3. CASE k # wl_pos
      <4>1. k \in 0..(wl_pos - 1)
        BY <1>0, <2>3, <3>3
      <4>2. wl_addrs'[k] = wl_addrs[k] /\ wl_data'[k] = wl_data[k]
        BY <1>0, <2>3, <3>3, <4>1
      <4> QED  BY <1>2, <2>1, <4>1, <4>2 DEF QuietInv
    <3> QED  BY <3>2, <3>3
  <2> QED  BY <1>6, <2>2, <2>3 DEF LogWord
<1>7. CASE Undo
  <2>1. /\ wl_addrs' = wl_addrs /\ wl_data' = wl_data /\ in_spec' = in_spec
        /\ wl_pos' = wl_pos \/ wl_pos' = wl_pos - 1
    BY <1>7 DEF Undo, modeVars
  <2> QED  BY <1>0, <1>3, <2>1
<1>8. CASE \/ Fetch \/ Exec \/ HookStore \/ HookMemcpy \/ HookRestart \/ HookCheckSpecLength \/ HookCheckCallDepth
           \/ HookNewCheckpoint \/ Enter \/ IrqRestore \/ UnsetRt \/ SetWord \/ SaveStack \/ SaveRegisters \/ Select
           \/ Memcpy \/ Restart \/ RestartIrq \/ HookInterruptTimer \/ Iret \/ InitDone \/ TimerInterrupt \/ UndoInUse
           \/ Enable \/ SetSpecEnabled \/ UNCHANGED vars
  <2>1. UNCHANGED <<logVars, in_spec>>
    BY <1>8 DEF Fetch, Exec, HookStore, HookMemcpy, HookRestart, HookCheckSpecLength, HookCheckCallDepth,
            HookNewCheckpoint, Enter, IrqRestore, UnsetRt, SetWord, SaveStack, SaveRegisters, Select, Memcpy,
            Restart, RestartIrq, HookInterruptTimer, Iret, InitDone, TimerInterrupt, UndoInUse, Enable, SetSpecEnabled,
            vars, modeVars
  <2> QED  BY <1>0, <1>3, <2>1 DEF logVars
<1> QED
  BY <1>1, <1>4, <1>5, <1>6, <1>7, <1>8, NoNmis DEF Next, Cpu, Environment, Done

\* One tick for an interrupt that is taken while there may be one more.
LEMMA TickNext == ASSUME ~Nmis PROVE Base /\ QuietInv /\ TickInv /\ [Next]_vars => TickInv'
<1> SUFFICES ASSUME Base, QuietInv, TickInv, [Next]_vars, NEW x \in Elems(todo'), x.op = "tick"
             PROVE  mem'[Jiffies] < MaxTicks
  BY DEF TickInv, Has
<1>0. Safe /\ TypeOK /\ TodoInv /\ Jiffies \in Untouched
  BY DEF Base, Safe, Untouched
<1>1. CASE TimerInterrupt
  <2>1. mem[Jiffies] < MaxTicks /\ ~HandleTick
    <3>1. irq
      BY <1>1 DEF TimerInterrupt
    <3>2. HandleTick => irq' = irq
      BY DEF HandleTick
    <3>3. irq' = FALSE
      BY <1>1 DEF TimerInterrupt
    <3> QED  BY <1>1, <3>1, <3>2, <3>3 DEF TimerInterrupt
  <2>2. mem'[Jiffies] = mem[Jiffies]
    BY <1>0, <2>1, QuietWords
  <2> QED  BY <2>1, <2>2
<1>2. CASE HandleTick
  <2>1. todo # << >> /\ Op.op = "tick" /\ Continue(<< >>)
    BY <1>2 DEF HandleTick, At, Op
  <2>2. Elems(todo') = {} \cup Elems(Rest) /\ \A y \in Elems(Rest) : Precedes(Op, y)
    BY <1>0, <2>1, TodoFacts, ReplacedByOne
  <2> QED  BY <2>1, <2>2 DEF Precedes
<1>3. CASE ~TimerInterrupt /\ ~HandleTick
  <2>1. x \in Elems(todo)
    <3>1. CASE Enter
      <4>1. /\ todo # << >> /\ Op.op \in EnterOps /\ Continue(Runtime(Op, irq))
        BY <3>1 DEF Enter, At, Op
      <4>2. Op \in MicroOp /\ irq \in BOOLEAN /\ prog[pc] \in Instr
        BY <1>0, <4>1, TodoFacts, TypeFacts DEF TypeOK, MachineType
      <4>3. Made(Runtime(Op, irq), RuntimeOps(Op.op))
        BY <4>1, <4>2, RuntimeCode DEF RuntimeFacts
      <4>4. /\ Runtime(Op, irq) \in Seq(MicroOp)
            /\ \A y \in Elems(Runtime(Op, irq)) : y.op # "tick"
        BY <4>1, <4>3 DEF Made, Sound, EnterOps, RuntimeOps, AfterOps, LeaveOps, NmiOps
      <4>5. Elems(todo') = Elems(Runtime(Op, irq)) \cup Elems(Rest) /\ Elems(todo) = {Op} \cup Elems(Rest)
        BY <1>0, <4>1, <4>4, Replaced, TodoFacts
      <4> QED  BY <4>4, <4>5
    <3>2. CASE Iret
      <4>1. todo # << >> /\ Op.op = "iret" /\ todo' = regs.todo
        BY <3>2 DEF Iret, At, Op
      <4>2. Allowed(Op, irq, handler, in_spec, init_done)
        BY <1>0, <4>1, TodoFacts
      <4>3. handler
        BY <4>1, <4>2 DEF Allowed, InterruptOps
      <4>4. \A y \in Elems(regs.todo) : y.op # "tick"
        BY <1>0, <4>3 DEF Safe, RegsInv, Code, Allowed, InterruptOps
      <4> QED  BY <4>1, <4>4
    <3>3. CASE Finish
      <4>1. todo # << >> /\ (todo' = ResumeOps \/ Continue(<< >>))
        BY <3>3 DEF Finish, At
      <4>2. \A y \in Elems(ResumeOps) : y.op # "tick"
        BY <1>0, ResumeCode DEF AfterOps, LeaveOps, NmiOps
      <4>3. Continue(<< >>) => Elems(todo') \subseteq Elems(todo)
        BY <1>0, <4>1, ReplacedByOne, TodoFacts
      <4> HIDE DEF ResumeOps
      <4> QED  BY <4>1, <4>2, <4>3
    <3> QED  BY <1>0, <1>3, <3>1, <3>2, <3>3, Origin DEF RareOps
  <2>2. mem'[Jiffies] = mem[Jiffies]
    BY <1>0, <1>3, QuietWords
  <2> QED  BY <2>1, <2>2 DEF TickInv, Has
<1> QED  BY <1>1, <1>2, <1>3

-----------------------------------------------------------------------------
(* What only few steps change *)

LEMMA FewChange ==
  ASSUME ~Nmis, [Next]_vars
  PROVE  /\ prog' = prog
         /\ NewCheckpoint \/ (in_spec' => in_spec)
         /\ SaveRegisters \/ kregs' = kregs
         /\ SaveStack \/ UNCHANGED <<wl_stack, wl_base>>
<1>1. CASE \/ Fetch \/ HookStore \/ HookMemcpy \/ HookRestart \/ HookCheckSpecLength \/ HookCheckCallDepth
           \/ HookNewCheckpoint \/ Enter \/ IrqRestore \/ UnsetRt \/ SetWord \/ Select
           \/ Memcpy \/ RestartIrq \/ HookInterruptTimer \/ HandleTick \/ Iret \/ InitDone \/ Enable \/ SetSpecEnabled
           \/ TimerInterrupt \/ UNCHANGED vars
  <2>1. UNCHANGED <<prog, in_spec, kregs, wl_stack, wl_base>>
    BY <1>1 DEF Fetch, HookStore, HookMemcpy, HookRestart, HookCheckSpecLength, HookCheckCallDepth,
           HookNewCheckpoint, Enter, IrqRestore, UnsetRt, SetWord, Select, Memcpy, RestartIrq, HookInterruptTimer,
           HandleTick, Iret, InitDone, Enable, SetSpecEnabled, TimerInterrupt, vars, mvars, modeVars, ckptVars
  <2> QED  BY <2>1
<1>2. CASE LogWord \/ Restart \/ Undo \/ UndoInUse \/ NewCheckpoint \/ InitData \/ Finish
  BY <1>2 DEF LogWord, Restart, Undo, UndoInUse, NewCheckpoint, InitData, Finish, mvars, cpuVars, modeVars, ckptVars
<1>3. CASE SaveStack \/ SaveRegisters
  BY <1>3 DEF SaveStack, SaveRegisters, mvars, modeVars, ckptVars
<1>4. CASE Exec
  BY <1>4 DEF Exec, Straight, Store, Spill, Jump, Call, Return, SetIrq, Oops, modeVars, ckptVars
<1> QED  BY <1>1, <1>2, <1>3, <1>4, NoNmis DEF Next, Cpu, Environment, Done

-----------------------------------------------------------------------------
(* The registers that a rollback or an interrupt returns to *)

LEMMA CheckpointSaves ==
  ASSUME NEW o \in MicroOp, o.op = "enter_checkpoint", prog[pc] \in Instr,
         NEW x \in Elems(Runtime(o, TRUE)), x.op = "save_registers"
  PROVE  x.a = 1
<1> DEFINE n == U("new_checkpoint", 0, 0)
           s == U("save_stack", 0, 0)
           g == U("save_registers", Flag(TRUE), 0)
           k == <<n, s, g>>
           a == AfterSaveRegisters(prog[pc], TRUE)
<1>1. /\ n.op = "new_checkpoint" /\ s.op = "save_stack" /\ g.a = 1
      /\ n \in MicroOp /\ s \in MicroOp /\ g \in MicroOp
  BY DEF U, MicroOp, OpNames, Flag
<1>2. Runtime(o, TRUE) = (stop_nmi \o k) \o a
  BY DEF Runtime
<1>3. Made(a, AfterOps)
  BY AfterCode
<1> HIDE DEF n, s, g, a
<1>4. k \in Seq(MicroOp) /\ Elems(k) = {n, s, g}
  BY <1>1, Seq3, Short
<1> HIDE DEF k
<1>5. stop_nmi \in Seq(MicroOp) /\ a \in Seq(MicroOp)
  BY <1>3, NmiType DEF Made, Sound
<1>6. \A y \in Elems(stop_nmi) \cup Elems(a) : y.op # "save_registers"
  BY <1>3, NmiCode DEF Made, NmiOps, AfterOps, LeaveOps
<1> DEFINE c == stop_nmi \o k
<1>7. c \in Seq(MicroOp) /\ Elems(c) = Elems(stop_nmi) \cup {n, s, g}
  <2> HIDE DEF stop_nmi
  <2> QED  BY <1>4, <1>5, SeqConcat, ElemsConcat
<1>8. x \in Elems(c \o a)
  BY <1>2
<1> HIDE DEF c
<1>9. x \in Elems(stop_nmi) \cup {n, s, g} \cup Elems(a)
  BY <1>5, <1>7, <1>8, ElemsConcat
<1> QED  BY <1>1, <1>6, <1>9

\* Interrupts are enabled at every checkpoint.
LEMMA SavesEnabled ==
  ASSUME ~Nmis, Base, SavedInv, [Next]_vars
  PROVE  kregs'.flags /\ \A x \in Elems(todo') : x.op = "save_registers" => x.a = 1
<1>0. Safe /\ TypeOK /\ TodoInv /\ ChainInv
  BY DEF Base, Safe
<1>1. kregs'.flags
  <2>1. CASE SaveRegisters
    <3>1. todo # << >> /\ Op.op = "save_registers" /\ kregs'.flags = (Op.a = 1)
      BY <2>1 DEF SaveRegisters, At, Op
    <3>2. Op \in Elems(todo)
      BY <1>0, <3>1, TodoFacts
    <3> QED  BY <3>1, <3>2 DEF SavedInv
  <2> QED  BY <2>1, FewChange DEF SavedInv
<1>2. ASSUME NEW x \in Elems(todo'), x.op = "save_registers" PROVE x.a = 1
  <2>1. CASE x \in Elems(todo)
    BY <1>2, <2>1 DEF SavedInv
  <2>2. CASE TimerInterrupt
    BY <1>2, <2>2, TimerCode
  <2>3. CASE Iret
    <3>1. todo # << >> /\ Op.op = "iret" /\ todo' = regs.todo
      BY <2>3 DEF Iret, At, Op
    <3>2. Allowed(Op, irq, handler, in_spec, init_done)
      BY <1>0, <3>1, TodoFacts
    <3>3. handler
      BY <3>1, <3>2 DEF Allowed, InterruptOps
    <3> QED  BY <1>0, <1>2, <3>1, <3>3 DEF ChainInv, SavingOps
  <2>4. CASE Finish
    <3>1. todo # << >> /\ (todo' = ResumeOps \/ Continue(<< >>))
      BY <2>4 DEF Finish, At
    <3>2. \A y \in Elems(ResumeOps) : y.op # "save_registers"
      BY <1>0, ResumePlain DEF SavingOps
    <3>3. Continue(<< >>) => Elems(todo') \subseteq Elems(todo)
      BY <1>0, <3>1, ReplacedByOne, TodoFacts
    <3> HIDE DEF ResumeOps
    <3> QED  BY <1>2, <2>1, <3>1, <3>2, <3>3
  <2>5. CASE Enter
    <3>1. /\ todo # << >> /\ Op.op \in EnterOps /\ Continue(Runtime(Op, irq)) /\ status = "running"
      BY <2>5 DEF Enter, At, Op
    <3>2. Op \in MicroOp /\ irq \in BOOLEAN /\ prog[pc] \in Instr /\ Op \in Elems(todo)
      BY <1>0, <3>1, TodoFacts, TypeFacts DEF TypeOK, MachineType
    <3> DEFINE s == Runtime(Op, irq)
    <3>3. Made(s, RuntimeOps(Op.op))
      BY <3>1, <3>2, RuntimeCode DEF RuntimeFacts
    <3>4. s \in Seq(MicroOp)
      BY <3>3 DEF Made, Sound
    <3>5. Elems(todo') = Elems(s) \cup Elems(Rest) /\ Elems(todo) = {Op} \cup Elems(Rest)
      BY <1>0, <3>1, <3>4, Replaced, TodoFacts
    <3>6. CASE x \in Elems(s)
      <4>1. Op.op = "enter_checkpoint"
        BY <1>2, <3>1, <3>3, <3>6 DEF Made, EnterOps, RuntimeOps, LeaveOps, NmiOps
      <4>2. irq = TRUE
        BY <1>0, <3>1, <3>2, <4>1 DEF ChainInv, Has
      <4> QED  BY <1>2, <3>2, <3>6, <4>1, <4>2, CheckpointSaves
    <3> QED  BY <2>1, <3>5, <3>6
  <2> QED  BY <1>0, <1>2, <2>1, <2>2, <2>3, <2>4, <2>5, Origin DEF RareOps
<1> QED  BY <1>1, <1>2

LEMMA ProgPcs == ASSUME TypeOK PROVE pc # NoInstr /\ NoInstr \notin DOMAIN prog
<1>1. prog \in Seq(Instr) /\ pc \in DOMAIN prog
  BY MachineAssumption DEF TypeOK, MachineType, WellFormed
<1> QED  BY <1>1 DEF NoInstr

\* A complete checkpoint has registers.
LEMMA SavedPcs ==
  ASSUME ~Nmis, Base, SavedInv, [Next]_vars, Saved'
  PROVE  kregs'.pc # NoInstr
<1>0. Safe /\ TypeOK /\ TodoInv /\ ChainInv /\ SaveInv
  BY DEF Base, Safe, Thread
<1>1. in_spec' /\ ~Has(todo', "save_registers")
  BY DEF Saved, Has, Elems
<1>2. CASE SaveRegisters
  BY <1>0, <1>2, ProgPcs DEF SaveRegisters
<1>3. CASE ~SaveRegisters /\ Saved
  BY <1>3, FewChange DEF SavedInv
<1>4. CASE ~SaveRegisters /\ in_spec /\ ~Saved
  <2>1. SaveStack \/ UNCHANGED vars
    BY <1>0, <1>4, SavingStep
  <2>2. Has(todo, "save_registers")
    BY <1>4, SavedHas
  <2>3. CASE SaveStack
    <3>1. todo # << >> /\ Op.op = "save_stack" /\ Continue(<< >>)
      BY <2>3 DEF SaveStack, At, Op
    <3>2. Elems(todo') = Elems(Rest) /\ Elems(todo) = {Op} \cup Elems(Rest)
      BY <1>0, <3>1, ReplacedByOne, TodoFacts
    <3> QED  BY <1>1, <2>2, <3>1, <3>2 DEF Has
  <2>4. CASE UNCHANGED vars
    BY <1>1, <2>2, <2>4 DEF vars, Has
  <2> QED  BY <2>1, <2>3, <2>4
<1>5. CASE ~in_spec
  <2>1. NewCheckpoint
    BY <1>1, <1>5, FewChange
  <2>2. todo # << >> /\ Op.op = "new_checkpoint" /\ Continue(<< >>)
    BY <2>1 DEF NewCheckpoint, At, Op
  <2>3. Elems(todo') = Elems(Rest) /\ Elems(todo) = {Op} \cup Elems(Rest)
    BY <1>0, <2>2, ReplacedByOne, TodoFacts
  <2>4. Has(todo, "save_registers")
    BY <1>0, <2>2, <2>3 DEF SaveInv, Has
  <2> QED  BY <1>1, <2>2, <2>3, <2>4 DEF Has
<1> QED  BY <1>2, <1>3, <1>4, <1>5

\* In speculation a handler only rolls back.
LEMMA RollingBack ==
  ASSUME ~Nmis, Safe, in_spec, handler, [Next]_vars
  PROVE  /\ todo # << >> /\ Op.op \in RollbackOps \cup {"hook_interrupt_timer"}
         /\ RestartIrq \/ Undo \/ UndoInUse \/ Finish \/ HookInterruptTimer \/ UNCHANGED vars
<1>1. todo # << >> /\ Op.op \in RollbackOps \cup {"hook_interrupt_timer"} /\ ~irq
  BY DEF Safe, RegsInv
<1>2. Cpu => RestartIrq \/ Undo \/ UndoInUse \/ Finish \/ HookInterruptTimer
  BY <1>1, NoNmis DEF Cpu, Fetch, AtInstruction, Exec, HookStore, HookMemcpy, HookRestart, HookCheckSpecLength,
        HookCheckCallDepth, HookNewCheckpoint, Enter, EnterOps, IrqRestore, UnsetRt, SetWord, SaveStack,
        SaveRegisters, NewCheckpoint, Select, Memcpy, LogWord, Restart, HandleTick, Iret, InitData, InitDone,
        At, Op, RollbackOps
<1>3. ~Environment
  BY <1>1, NoNmis DEF Environment, TimerInterrupt, Enable, SetSpecEnabled, AtInstruction
<1> QED  BY <1>1, <1>2, <1>3 DEF Next, Done

\* What a handler returns to is set by an interrupt or a rollback.
LEMMA RegsChange ==
  ASSUME ~Nmis, Safe, [Next]_vars
  PROVE  \/ UNCHANGED <<handler, regs>> \/ ~handler' \/ TimerInterrupt
         \/ (in_spec /\ regs' = CheckpointRegs)
<1>1. CASE \/ Fetch \/ HookStore \/ HookMemcpy \/ HookRestart \/ HookCheckSpecLength \/ HookCheckCallDepth
           \/ HookNewCheckpoint \/ Enter \/ IrqRestore \/ UnsetRt \/ SetWord \/ Select \/ NewCheckpoint
           \/ SaveStack \/ SaveRegisters \/ InitData \/ Finish \/ Restart
           \/ Memcpy \/ RestartIrq \/ HandleTick \/ InitDone \/ Enable \/ SetSpecEnabled \/ UndoInUse
           \/ UNCHANGED vars
  <2>1. UNCHANGED <<handler, regs>>
    BY <1>1 DEF UndoInUse, Fetch, HookStore, HookMemcpy, HookRestart, HookCheckSpecLength, HookCheckCallDepth,
           HookNewCheckpoint, Enter, IrqRestore, UnsetRt, SetWord, Select, NewCheckpoint, SaveStack, SaveRegisters,
           InitData, Finish, Restart, Memcpy, RestartIrq, HandleTick, InitDone, Enable, SetSpecEnabled, vars, irqVars
  <2> QED  BY <2>1
<1>2. CASE Iret \/ TimerInterrupt
  BY <1>2 DEF Iret
<1>3. CASE HookInterruptTimer
  BY <1>3 DEF HookInterruptTimer
<1>4. CASE Exec
  BY <1>4 DEF Exec, Exception, irqVars
<1>5. CASE LogWord \/ Undo
  <2>1. todo # << >> /\ Op.op \in {"write_wl", "undo"}
    BY <1>5 DEF LogWord, Undo, At, Op
  <2>2. Allowed(Op, irq, handler, in_spec, init_done)
    BY <2>1, TodoFacts DEF Safe
  <2>3. in_spec
    BY <2>1, <2>2 DEF Allowed, LogOps, RollbackOps
  <2>4. UNCHANGED irqVars \/ regs' = CheckpointRegs
    BY <1>5, Zenon DEF LogWord, Undo, Exception
  <2> QED  BY <2>3, <2>4 DEF irqVars
<1> QED  BY <1>1, <1>2, <1>3, <1>4, <1>5, NoNmis DEF Next, Cpu, Environment, Done

Returns(r) == Enables(r.todo) \/ (r.irq /\ ~Has(r.todo, "irq_restore"))

LEMMA RegsSaved ==
  ASSUME ~Nmis, Base, SavedInv, [Next]_vars, handler'
  PROVE  /\ regs'.pc # NoInstr /\ Returns(regs')
         /\ in_spec' /\ Op'.op \in RollbackOps => regs'.pc = kregs'.pc /\ regs'.sp = kregs'.sp
<1>0. Safe /\ TypeOK /\ TodoInv /\ ChainInv /\ kregs.pc \in SavedPc
  BY DEF Base, Safe, TypeOK, CkptType
<1>1. CASE UNCHANGED <<handler, regs>>
  <2>1. handler /\ regs'.pc # NoInstr /\ Returns(regs')
    BY <1>1 DEF SavedInv, Returns
  <2>2. ASSUME in_spec', Op'.op \in RollbackOps PROVE regs'.pc = kregs'.pc /\ regs'.sp = kregs'.sp
    <3>1. ~NewCheckpoint
      <4> SUFFICES ASSUME NewCheckpoint PROVE FALSE
        OBVIOUS
      <4>1. todo # << >> /\ Op.op = "new_checkpoint"
        BY DEF NewCheckpoint, At, Op
      <4>2. Allowed(Op, irq, handler, in_spec, init_done)
        BY <1>0, <4>1, TodoFacts
      <4> QED  BY <2>1, <4>1, <4>2 DEF Allowed, HandlerOps, InterruptOps, RollbackOps
    <3>2. in_spec
      BY <2>2, <3>1, FewChange
    <3>3. /\ todo # << >> /\ Op.op \in RollbackOps \cup {"hook_interrupt_timer"}
          /\ RestartIrq \/ Undo \/ UndoInUse \/ Finish \/ HookInterruptTimer \/ UNCHANGED vars
      BY <1>0, <2>1, <3>2, RollingBack
    <3>4. kregs' = kregs
      BY <3>3 DEF RestartIrq, Undo, UndoInUse, Finish, HookInterruptTimer, vars, ckptVars
    <3>5. CASE Op.op \in RollbackOps
      BY <1>1, <2>1, <3>2, <3>4, <3>5 DEF SavedInv
    <3>6. CASE Op.op \notin RollbackOps
      <4>1. Op.op = "hook_interrupt_timer"
        BY <3>3, <3>6
      <4>2. HookInterruptTimer \/ UNCHANGED vars
        BY <3>3, <4>1 DEF RestartIrq, Undo, UndoInUse, Finish, At, Op
      <4>3. ~UNCHANGED vars
        BY <2>2, <3>6 DEF vars, Op
      <4>4. regs' = CheckpointRegs
        BY <1>0, <3>2, <4>2, <4>3, ModeFacts DEF HookInterruptTimer
      <4> QED  BY <3>4, <4>4 DEF CheckpointRegs
    <3> QED  BY <3>5, <3>6
  <2> QED  BY <2>1, <2>2
<1>2. CASE in_spec /\ regs' = CheckpointRegs /\ ~UNCHANGED <<handler, regs>>
  <2>1. Saved
    <3>1. ~SaveStack /\ ~SaveRegisters /\ ~UNCHANGED vars
      BY <1>2 DEF SaveStack, SaveRegisters, vars, irqVars
    <3> QED  BY <1>0, <1>2, <3>1, SavingStep
  <2>2. kregs' = kregs
    BY <1>2, FewChange DEF SaveRegisters, irqVars
  <2>3. kregs.pc # NoInstr /\ kregs.flags = TRUE
    BY <1>0, <2>1 DEF SavedInv, TypeOK, CkptType
  <2>4. prog[kregs.pc] \in Instr
    <3>1. prog \in Seq(Instr)
      BY <1>0, MachineAssumption DEF TypeOK, MachineType, WellFormed
    <3> QED  BY <1>0, <2>3, <3>1 DEF SavedPc
  <2>5. Enables(ResumeOps)
    BY <2>3, <2>4, EnablesAfter DEF ResumeOps
  <2>6. regs'.pc = kregs.pc /\ regs'.sp = kregs.sp /\ regs'.todo = ResumeOps
    BY <1>2 DEF CheckpointRegs
  <2> QED  BY <2>2, <2>3, <2>5, <2>6 DEF Returns
<1>3. CASE TimerInterrupt
  <2>1. regs'.pc = pc /\ regs'.irq = irq /\ regs'.todo = todo /\ irq
    BY <1>3 DEF TimerInterrupt
  <2>2. \A x \in Elems(todo) : x.op \notin Masked
    BY <1>0, <2>1 DEF TodoInv, Code, Allowed
  <2>3. Op'.op = "hook_interrupt_timer"
    BY <1>3, TimerCode DEF Op
  <2>4. ~Has(todo, "irq_restore")
    BY <2>2 DEF Masked, Has
  <2> QED  BY <1>0, <2>1, <2>3, <2>4, ProgPcs DEF Returns, RollbackOps
<1> QED  BY <1>0, <1>1, <1>2, <1>3, RegsChange

LEMMA SavedNext == ASSUME ~Nmis PROVE Base /\ SavedInv /\ [Next]_vars => SavedInv'
BY SavesEnabled, SavedPcs, RegsSaved DEF SavedInv, Returns

\* The whole invariant.
Kept == Base /\ WriteInv /\ QuietInv /\ TickInv /\ SavedInv

LEMMA KeptInit == Init => WriteInv /\ QuietInv /\ TickInv /\ SavedInv
<1> SUFFICES ASSUME Init PROVE WriteInv /\ QuietInv /\ TickInv /\ SavedInv
  OBVIOUS
<1>1. todo = << >> /\ ~in_spec /\ ~handler /\ kregs.flags = TRUE
  BY DEF Init
<1>2. Elems(todo) = {}
  BY <1>1, Short
<1>3. ~Saved
  BY <1>1 DEF Saved
<1> QED  BY <1>1, <1>2, <1>3 DEF WriteInv, QuietInv, TickInv, SavedInv, Has

LEMMA KeptAlways == ASSUME ~Nmis, SmallStores PROVE Spec => []Kept
<1>1. Base /\ (WriteInv /\ QuietInv /\ TickInv /\ SavedInv) /\ [Next]_vars =>
        (WriteInv /\ QuietInv /\ TickInv /\ SavedInv)'
  BY WriteNext, QuietNext, TickNext, SavedNext
<1> QED  BY <1>1, KeptInit, BaseAlways, PTL DEF Spec, Kept

-----------------------------------------------------------------------------
(* The entry that the backward walk restores last *)

\* The log f with n entries, and its first entry for w.
In(f, n, w)    == \E k \in 0..(n - 1) : f[k] = w
First(f, n, w) == CHOOSE k \in 0..(n - 1) : f[k] = w /\ \A j \in 0..(k - 1) : f[j] # w

LEMMA FirstIs ==
  ASSUME NEW f, NEW n \in Nat, NEW w, In(f, n, w)
  PROVE  /\ First(f, n, w) \in 0..(n - 1) /\ f[First(f, n, w)] = w
         /\ \A j \in 0..(First(f, n, w) - 1) : f[j] # w
<1> DEFINE T == {k \in 0..(n - 1) : f[k] = w}
<1>1. T \subseteq Nat /\ T # {}
  BY DEF In
<1>2. \A k : k \in T <=> k \in 0..(n - 1) /\ f[k] = w
  OBVIOUS
<1> HIDE DEF T
<1>3. PICK m \in T : \A y \in T : m <= y
  BY <1>1, LeastElement
<1>4. m \in 0..(n - 1) /\ f[m] = w
  BY <1>2, <1>3
<1>5. \A j \in 0..(m - 1) : f[j] # w
  BY <1>2, <1>3, <1>4
<1> QED  BY <1>4, <1>5 DEF First

LEMMA FirstOnly ==
  ASSUME NEW f, NEW n \in Nat, NEW w, NEW k \in 0..(n - 1), f[k] = w, \A j \in 0..(k - 1) : f[j] # w
  PROVE  In(f, n, w) /\ First(f, n, w) = k
<1>1. In(f, n, w)
  BY DEF In
<1> DEFINE i == First(f, n, w)
<1>2. i \in 0..(n - 1) /\ f[i] = w /\ \A j \in 0..(i - 1) : f[j] # w
  BY <1>1, FirstIs
<1> HIDE DEF i
<1>3. i = k
  BY <1>2
<1> QED  BY <1>1, <1>3 DEF i

\* A longer log g has the same first entries.
LEMMA FirstStays ==
  ASSUME NEW f, NEW g, NEW m \in Nat, NEW n \in Nat, m <= n, \A k \in 0..(m - 1) : g[k] = f[k],
         NEW w, In(f, m, w)
  PROVE  In(g, n, w) /\ First(g, n, w) = First(f, m, w) /\ First(f, m, w) \in 0..(m - 1)
<1> DEFINE i == First(f, m, w)
<1>1. i \in 0..(m - 1) /\ f[i] = w /\ \A j \in 0..(i - 1) : f[j] # w
  BY FirstIs
<1> HIDE DEF i
<1>2. i \in 0..(n - 1) /\ g[i] = w /\ \A j \in 0..(i - 1) : g[j] # w
  BY <1>1
<1>3. In(g, n, w) /\ First(g, n, w) = i
  BY <1>2, FirstOnly
<1> QED  BY <1>1, <1>3 DEF i

\* The word w of the memory m once the log is undone.
Undone(f, d, n, m, w) == IF In(f, n, w) THEN d[First(f, n, w)] ELSE m[w]

\* Logging a word ...
LEMMA Push ==
  ASSUME NEW f, NEW d, NEW g, NEW e, NEW n \in Nat, NEW q \in Nat, q = n + 1, NEW m, NEW w,
         \A k \in 0..(n - 1) : g[k] = f[k] /\ e[k] = d[k], e[n] = m[g[n]]
  PROVE  Undone(g, e, q, m, w) = Undone(f, d, n, m, w)
<1> DEFINE a == g[n]
<1>1. /\ n <= q /\ n \in 0..(q - 1) /\ g[n] = a /\ e[n] = m[a]
      /\ \A j \in 0..(q - 1) : j \in 0..(n - 1) \/ j = n
  OBVIOUS
<1> HIDE DEF a
<1>2. CASE In(f, n, w)
  <2>1. In(g, q, w) /\ First(g, q, w) = First(f, n, w) /\ First(f, n, w) \in 0..(n - 1)
    BY <1>1, <1>2, FirstStays
  <2> QED  BY <1>1, <1>2, <2>1 DEF Undone
<1>3. CASE ~In(f, n, w) /\ w = a
  <2>1. g[n] = w /\ n \in 0..(q - 1) /\ \A j \in 0..(n - 1) : g[j] # w
    BY <1>1, <1>3 DEF In
  <2>2. In(g, q, w) /\ First(g, q, w) = n
    BY ONLY <2>1, q \in Nat, FirstOnly, Zenon
  <2>3. Undone(g, e, q, m, w) = m[a] /\ Undone(f, d, n, m, w) = m[w]
    BY <1>1, <1>3, <2>2 DEF Undone
  <2> QED  BY <1>3, <2>3
<1>4. CASE ~In(f, n, w) /\ w # a
  <2>1. ~In(g, q, w)
    BY <1>1, <1>4 DEF In
  <2> QED  BY <1>4, <2>1 DEF Undone
<1> QED  BY <1>2, <1>3, <1>4

\* ... and undoing the last one.
LEMMA Pop ==
  ASSUME wl_pos \in Nat, NEW q \in Nat, q = wl_pos - 1, NEW p, NEW w,
         w = wl_addrs[q] => p[w] = wl_data[q], w # wl_addrs[q] => p[w] = mem[w]
  PROVE  Undone(wl_addrs, wl_data, q, p, w) = Undone(wl_addrs, wl_data, wl_pos, mem, w)
<1>1. q <= wl_pos /\ q \in 0..(wl_pos - 1)
  OBVIOUS
<1>2. CASE In(wl_addrs, q, w)
  <2>1. In(wl_addrs, wl_pos, w) /\ First(wl_addrs, wl_pos, w) = First(wl_addrs, q, w)
    BY <1>1, <1>2, FirstStays
  <2> QED  BY <1>2, <2>1 DEF Undone
<1>3. CASE ~In(wl_addrs, q, w) /\ w = wl_addrs[q]
  <2>1. \A j \in 0..(q - 1) : wl_addrs[j] # w
    BY <1>3 DEF In
  <2>2. In(wl_addrs, wl_pos, w) /\ First(wl_addrs, wl_pos, w) = q
    BY <1>1, <1>3, <2>1, FirstOnly
  <2> QED  BY <1>3, <2>2 DEF Undone
<1>4. CASE ~In(wl_addrs, q, w) /\ w # wl_addrs[q]
  <2>1. \A j \in 0..(wl_pos - 1) : j \in 0..(q - 1) \/ j = q
    BY <1>1
  <2>2. ~In(wl_addrs, wl_pos, w)
    BY <1>4, <2>1 DEF In
  <2> QED  BY <1>4, <2>2 DEF Undone
<1> QED  BY <1>2, <1>3, <1>4

-----------------------------------------------------------------------------
(* Nothing in a speculation changes what its rollback restores *)

LEMMA RestoredUndone ==
  ASSUME NEW w
  PROVE  /\ Saved /\ w # Frame(wl_base) => Restored(w) = Undone(wl_addrs, wl_data, wl_pos, mem, w)
         /\ Saved' /\ w # Frame(wl_base') => Restored(w)' = Undone(wl_addrs', wl_data', wl_pos', mem', w)
         /\ Saved /\ w = Frame(wl_base) => Restored(w) = wl_stack
         /\ Saved' /\ w = Frame(wl_base') => Restored(w)' = wl_stack'
         /\ ~Saved' => Restored(w)' = mem'[w]
BY DEF Restored, Undone, In, First, Logged, FirstEntry

\* The words whose contents the rollback takes from the log or from memory.
Shown(w) ==
  /\ w \in Words /\ w \notin RuntimeWords /\ w # Frame(wl_base)
  /\ ~(w \in StackWords /\ w < Frame(kregs.sp))

LEMMA SavedView ==
  ASSUME Saved, Saved', UNCHANGED ckptVars,
         \A d \in 1..MaxSp : d <= kregs.sp => rets'[d] = rets[d],
         \A w : Shown(w) =>
           Undone(wl_addrs', wl_data', wl_pos', mem', w) = Undone(wl_addrs, wl_data, wl_pos, mem, w)
  PROVE  View' = View
<1>1. kregs' = kregs /\ wl_stack' = wl_stack /\ wl_base' = wl_base
  BY DEF ckptVars
<1>2. ViewPc' = ViewPc /\ ViewSp' = ViewSp /\ ViewSp = kregs.sp
  BY <1>1 DEF ViewPc, ViewSp
<1>3. ViewIrq' = TRUE /\ ViewIrq = TRUE
  BY DEF ViewIrq
<1>4. ViewRets' = ViewRets
  BY <1>2 DEF ViewRets
<1>5. \A w : Dead(w)' <=> Dead(w)
  BY <1>2 DEF Dead
<1>6. ASSUME NEW w \in Words, w \notin RuntimeWords, ~Dead(w) PROVE Restored(w)' = Restored(w)
  <2>1. CASE w = Frame(wl_base)
    BY <1>1, <2>1, RestoredUndone
  <2>2. CASE w # Frame(wl_base)
    <3>1. Shown(w)
      BY <1>2, <1>6, <2>2 DEF Shown, Dead
    <3> QED  BY <1>1, <2>2, <3>1, RestoredUndone
  <2> QED  BY <2>1, <2>2
<1>7. ViewMem' = ViewMem
  BY <1>5, <1>6 DEF ViewMem
<1> QED  BY <1>2, <1>3, <1>4, <1>7 DEF View

\* A complete checkpoint stays so until the speculation ends.
LEMMA StaysSaved ==
  ASSUME ~Nmis, Base, Saved, [Next]_vars, in_spec'
  PROVE  Saved'
<1>0. Safe /\ TypeOK /\ TodoInv /\ ChainInv /\ in_spec /\ ~Has(todo, "save_registers")
  BY SavedHas DEF Base, Safe
<1> SUFFICES ASSUME NEW x \in Elems(todo'), x.op = "save_registers" PROVE FALSE
  BY DEF Saved, Elems
<1>1. x \notin Elems(todo)
  BY <1>0 DEF Has
<1>2. ~TimerInterrupt
  BY TimerCode
<1>3. ~Finish
  BY DEF Finish
<1>4. ~Iret
  <2> SUFFICES ASSUME Iret PROVE FALSE
    OBVIOUS
  <2>1. todo # << >> /\ Op.op = "iret"
    BY DEF Iret, At, Op
  <2>2. handler
    BY <1>0, <2>1, TodoFacts DEF Allowed, InterruptOps
  <2> QED  BY <1>0, <2>1, <2>2, RollingBack DEF RollbackOps
<1>5. ~Enter
  <2> SUFFICES ASSUME Enter PROVE FALSE
    OBVIOUS
  <2>1. /\ todo # << >> /\ Op.op \in EnterOps /\ Continue(Runtime(Op, irq))
    BY DEF Enter, At, Op
  <2>2. /\ Op \in MicroOp /\ irq \in BOOLEAN /\ prog[pc] \in Instr
        /\ Allowed(Op, irq, handler, in_spec, init_done)
    BY <1>0, <2>1, TodoFacts, TypeFacts DEF TypeOK, MachineType
  <2> DEFINE s == Runtime(Op, irq)
  <2>3. Made(s, RuntimeOps(Op.op)) /\ Op.op # "enter_checkpoint"
    BY <1>0, <2>1, <2>2, RuntimeCode DEF RuntimeFacts, Allowed, CheckpointOps
  <2>4. s \in Seq(MicroOp) /\ \A y \in Elems(s) : y.op # "save_registers"
    BY <2>1, <2>3 DEF Made, Sound, EnterOps, RuntimeOps, LeaveOps, NmiOps
  <2>5. Elems(todo') = Elems(s) \cup Elems(Rest) /\ Elems(todo) = {Op} \cup Elems(Rest)
    BY <1>0, <2>1, <2>4, Replaced, TodoFacts
  <2> QED  BY <1>1, <2>4, <2>5
<1> QED  BY <1>0, <1>1, <1>2, <1>3, <1>4, <1>5, Origin DEF RareOps

\* Steps that no complete checkpoint sees.
LEMMA SavedSteps ==
  ASSUME ~Nmis, Base, Saved, [Next]_vars
  PROVE  /\ ~NewCheckpoint /\ ~SaveStack /\ ~SaveRegisters /\ ~HandleTick /\ ~Iret /\ ~InitData
         /\ UNCHANGED ckptVars
<1>0. Safe /\ TypeOK /\ TodoInv /\ CopyInv /\ in_spec /\ init_done /\ ~Has(todo, "save_registers")
  BY SavedHas, ModeFacts DEF Base, Safe
<1>1. todo # << >> => Op \in Elems(todo) /\ Allowed(Op, irq, handler, in_spec, init_done)
  BY <1>0, TodoFacts
<1>2. ~At("new_checkpoint") /\ ~At("init_data")
  BY <1>0, <1>1 DEF At, Op, Allowed, CheckpointOps, InitOps
<1>3. ~At("save_registers") /\ ~At("save_stack")
  BY <1>0, <1>1 DEF At, Op, CopyInv, SavingOps, Has
<1>4. ~At("tick") /\ ~At("iret")
  <2> SUFFICES ASSUME At("tick") \/ At("iret") PROVE FALSE
    OBVIOUS
  <2>1. todo # << >> /\ Op.op \in {"tick", "iret"}
    BY DEF At, Op
  <2>2. handler
    BY <1>1, <2>1 DEF Allowed, InterruptOps
  <2> QED  BY <1>0, <2>1, <2>2, RollingBack DEF RollbackOps
<1>5. ~NewCheckpoint /\ ~SaveStack /\ ~SaveRegisters /\ ~HandleTick /\ ~Iret /\ ~InitData
  BY <1>2, <1>3, <1>4 DEF NewCheckpoint, SaveStack, SaveRegisters, HandleTick, Iret, InitData
<1> QED  BY <1>5, FewChange DEF ckptVars

LEMMA SavedWords ==
  ASSUME Framed, Saved
  PROVE  /\ wl_base = kregs.sp /\ kregs.sp \in 1..MaxSp
         /\ \A d \in 1..StackSize : d > kregs.sp => ~Shown(Frame(d))
         /\ ~Shown(Frame(kregs.sp)) /\ ~Shown(IgnoreNmis) /\ ~Shown(SwapCondition)
<1>1. wl_base = kregs.sp /\ kregs.sp \in 1..MaxSp
  BY SavedHas DEF Framed, BaseInv, Safe, TypeOK, CkptType
<1>2. \A d \in 1..StackSize : d > kregs.sp => Frame(d) \in StackWords /\ Frame(d) < Frame(kregs.sp)
  BY <1>1, MachineAssumption DEF Frame, StackWords
<1> QED  BY <1>1, <1>2 DEF Shown, RuntimeWords

\* Frames above the checkpoint's are marked.
LEMMA MarkView ==
  ASSUME Framed, Saved, Saved', UNCHANGED <<ckptVars, logVars, rets>>,
         NEW top \in 1..(StackSize - 2), wl_base <= top,
         mem' = Write(mem, {Frame(top + 1), Frame(top + 2)}, RtMark)
  PROVE  View' = View
<1>1. /\ top + 1 \in 1..StackSize /\ top + 1 > kregs.sp /\ top + 2 \in 1..StackSize /\ top + 2 > kregs.sp
  BY SavedWords, MachineAssumption
<1>2. \A w : Shown(w) => w # Frame(top + 1) /\ w # Frame(top + 2)
  BY <1>1, SavedWords
<1>3. \A w : Shown(w) => mem'[w] = mem[w]
  BY <1>2 DEF Shown, Write
<1>4. \A w : Shown(w) =>
        Undone(wl_addrs', wl_data', wl_pos', mem', w) = Undone(wl_addrs, wl_data, wl_pos, mem, w)
  BY <1>3 DEF Undone, logVars
<1> QED  BY <1>4, SavedView

LEMMA SameView ==
  ASSUME Saved, Saved', UNCHANGED <<ckptVars, logVars, rets>>, \A w : Shown(w) => mem'[w] = mem[w]
  PROVE  View' = View
BY SavedView DEF Undone, logVars

\* The word that an instruction of the program writes is logged, or above the
\* checkpoint's frame, or that frame.
LEMMA ExecView ==
  ASSUME Framed, Base, WriteInv, Saved, Saved', Exec, UNCHANGED ckptVars
  PROVE  View' = View
<1>0. /\ Safe /\ TypeOK /\ TodoInv /\ in_spec /\ DepthInv
      /\ sp \in 1..MaxSp /\ spec_depth \in Nat /\ prog[pc] \in Instr /\ rets \in [1..MaxSp -> DOMAIN prog]
  BY SavedHas, TypeFacts DEF Framed, Thread, Safe, TypeOK, MachineType, CountType
<1>1. todo # << >> /\ Op.op = "exec" /\ status = "running" /\ UNCHANGED logVars
  BY DEF Exec, At, Op
<1>2. ~handler
  BY <1>0, <1>1, TodoFacts DEF Allowed, HandlerOps, InterruptOps, RollbackOps
<1>3. Elems(todo) = {Op}
  BY <1>0, <1>1, TodoFacts DEF Precedes, LastOps
<1>4. ~Has(todo, "finish") /\ Has(todo, "exec") /\ ~Has(todo, "save_registers")
  BY <1>1, <1>3 DEF Has
<1>5. wl_base <= sp /\ wl_base = kregs.sp /\ kregs.sp \in 1..MaxSp
  BY <1>0, <1>1, <1>2, <1>4, AboveBase, SavedWords
<1>6. sp \in 1..(StackSize - 2) /\ sp \in 1..StackSize /\ sp + 1 \in 1..StackSize
  BY <1>0, NmiWord
<1>7. CASE Faults
  <2>1. UNCHANGED rets /\ mem' = Write(mem, {Frame(sp + 1), Frame(sp + 2)}, RtMark)
    BY <1>0, <1>7 DEF Exec, Exception, cpuVars
  <2> QED  BY <1>1, <1>5, <1>6, <2>1, MarkView
<1>8. CASE ~Faults
  <2>1. Straight
    BY <1>8 DEF Exec
  <2>2. prog[pc].op = "ret" => sp > kregs.sp
    <3> SUFFICES ASSUME prog[pc].op = "ret" PROVE sp > kregs.sp
      OBVIOUS
    <3>1. Uncounted
      BY <1>1, <1>3, <1>4 DEF Uncounted, IsReturn, RestartOps
    <3>2. spec_depth + 1 = sp - kregs.sp
      BY <1>0, <1>1, <1>2, <1>4, <3>1 DEF DepthInv
    <3> QED  BY <1>0, <1>5, <3>2
  <2>3. \A d \in 1..MaxSp : d <= kregs.sp => rets'[d] = rets[d]
    <3>1. CASE Call \/ Return
      <4>1. PICK e \in Int : e > kregs.sp /\ (rets' = rets \/ \E v : rets' = [rets EXCEPT ![e] = v])
        <5>1. CASE Call
          <6>1. sp + 1 \in Int /\ sp + 1 > kregs.sp
            BY <1>0, <1>5
          <6> QED  BY <5>1, <6>1 DEF Call
        <5>2. CASE Return
          <6>1. sp \in Int /\ sp > kregs.sp
            BY <1>0, <2>2, <5>2 DEF Return
          <6> QED  BY <5>2, <6>1 DEF Return
        <5> QED  BY <3>1, <5>1, <5>2
      <4>2. \A d \in 1..MaxSp : d <= kregs.sp => d # e
        BY <1>5, <4>1
      <4>3. \A d \in 1..MaxSp : d # e => rets'[d] = rets[d]
        BY <1>0, <4>1
      <4> QED  BY <4>2, <4>3
    <3>2. CASE Store \/ Spill \/ Jump \/ SetIrq
      BY <3>2 DEF Store, Spill, Jump, SetIrq
    <3> QED  BY <2>1, <3>1, <3>2 DEF Straight
  <2>4. ASSUME NEW w, Shown(w)
        PROVE  Undone(wl_addrs', wl_data', wl_pos', mem', w) = Undone(wl_addrs, wl_data, wl_pos, mem, w)
    <3>1. CASE w \notin Written
      <4>1. mem'[w] = mem[w]
        BY <1>0, <1>8, <2>1, <2>4, <3>1, StraightWrites DEF Shown
      <4> QED  BY <1>1, <4>1 DEF Undone, logVars
    <3>2. CASE w \in Writes(prog[pc])
      <4>1. Logged(w)
        BY <1>0, <1>1, <1>2, <1>3, <1>4, <3>2 DEF WriteInv, Secures, Restarts, RestartOps
      <4> QED  BY <1>1, <4>1 DEF Undone, Logged, In, logVars
    <3>3. CASE w \in Written /\ w \notin Writes(prog[pc])
      <4>1. \/ w = Frame(sp) \/ w = Frame(sp + 1)
        BY <3>3 DEF Written
      <4>2. sp + 1 > kregs.sp /\ (sp > kregs.sp \/ sp = kregs.sp)
        BY <1>0, <1>5
      <4> QED  BY <1>6, <2>4, <4>1, <4>2, SavedWords
    <3> QED  BY <3>1, <3>2, <3>3
  <2> QED  BY <2>3, <2>4, SavedView
<1> QED  BY <1>7, <1>8

\* Logging a word, and a fault while logging.
LEMMA LogView ==
  ASSUME Framed, Saved, Saved', LogWord, UNCHANGED ckptVars
  PROVE  View' = View
<1>0. /\ Safe /\ TypeOK /\ TodoInv /\ in_spec /\ WlMax \in Nat /\ mem \in [Words -> Int]
      /\ wl_addrs \in [0..(WlMax - 1) -> Words] /\ wl_data \in [0..(WlMax - 1) -> Int] /\ wl_pos \in 0..WlMax
  BY SavedHas, SpecEmAssumption DEF Framed, Safe, TypeOK, MachineType, LogType
<1>1. todo # << >> /\ Op.op = "write_wl" /\ status = "running" /\ rets' = rets
  BY DEF LogWord, At, Op, cpuVars
<1>2. CASE UNCHANGED <<mem, logVars>>
  BY <1>1, <1>2, SameView
<1>3. CASE UNCHANGED logVars /\ Exception(RESTART_PAGE_FAULT, sp)
  <2>1. ~handler /\ ~Has(todo, "finish")
    <3>1. ~handler /\ \A y \in Elems(todo) : y.op # "finish"
      BY <1>0, <1>1, TodoFacts DEF Allowed, HandlerOps, InterruptOps, RollbackOps, Precedes
    <3> QED  BY <3>1 DEF Has
  <2>2. wl_base <= sp /\ sp \in 1..(StackSize - 2)
    BY <1>0, <1>1, <2>1, AboveBase, NmiWord DEF TypeOK, MachineType
  <2> QED  BY <1>1, <1>3, <2>2, MarkView DEF Exception
<1>4. CASE /\ wl_pos < WlMax /\ ~Unmapped(Op.a) /\ wl_addrs' = [wl_addrs EXCEPT ![wl_pos] = Op.a]
           /\ wl_data' = [wl_data EXCEPT ![wl_pos] = mem[Op.a]] /\ wl_pos' = wl_pos + 1 /\ mem' = mem
  <2>1. wl_pos \in 0..(WlMax - 1) /\ wl_pos \in Nat /\ wl_pos' \in Nat /\ wl_pos' = wl_pos + 1
    BY <1>0, <1>4
  <2>2. /\ \A k \in 0..(wl_pos - 1) : wl_addrs'[k] = wl_addrs[k] /\ wl_data'[k] = wl_data[k]
        /\ wl_addrs'[wl_pos] = Op.a /\ wl_data'[wl_pos] = mem[Op.a]
    BY <1>0, <1>4, <2>1
  <2>3. wl_data'[wl_pos] = mem[wl_addrs'[wl_pos]]
    BY <2>2
  <2>4. \A w : Undone(wl_addrs', wl_data', wl_pos', mem, w) = Undone(wl_addrs, wl_data, wl_pos, mem, w)
    BY <2>1, <2>2, <2>3, Push
  <2>6. \A w : Undone(wl_addrs', wl_data', wl_pos', mem', w) = Undone(wl_addrs, wl_data, wl_pos, mem, w)
    BY <1>4, <2>4
  <2> QED  BY <1>1, <2>6, SavedView
<1> QED  BY <1>2, <1>3, <1>4, Zenon DEF LogWord

\* One entry of the log is undone.
LEMMA UndoView ==
  ASSUME Framed, QuietInv, Saved, Saved', Undo, UNCHANGED ckptVars
  PROVE  View' = View
<1>0. /\ Safe /\ TypeOK /\ TodoInv /\ in_spec /\ mem \in [Words -> Int] /\ wl_pos \in Nat
      /\ wl_base \in 1..MaxSp
  BY SavedHas, SpecEmAssumption DEF Framed, Safe, TypeOK, MachineType, LogType, CkptType
<1>1. todo # << >> /\ Op.op = "undo" /\ UNCHANGED <<rets, wl_addrs, wl_data>>
  BY DEF Undo, At, Op, cpuVars
<1>2. Op \in Elems(todo)
  BY <1>0, <1>1, TodoFacts
<1>3. Op.a \in 1..(StackSize - 2) /\ wl_base <= Op.a
  BY <1>0, <1>1, <1>2 DEF Framed, NmiInv, TopInv, InStack, BaseInv, Above
<1> DEFINE x == wl_addrs[wl_pos - 1]
           top == NestedTop(Op.a)
           M == {Frame(top + 1), Frame(top + 2)}
<1>4. top \in 1..(StackSize - 2) /\ wl_base <= top
  BY <1>0, <1>3, MachineAssumption DEF NestedTop
<1>5. /\ Op.a + 1 \in 1..StackSize /\ Op.a + 1 > kregs.sp /\ Op.a + 2 \in 1..StackSize /\ Op.a + 2 > kregs.sp
      /\ top + 1 \in 1..StackSize /\ top + 1 > kregs.sp /\ top + 2 \in 1..StackSize /\ top + 2 > kregs.sp
  <2> HIDE DEF top
  <2> QED  BY <1>0, <1>3, <1>4, SavedWords, MachineAssumption
<1>6. \A w : Shown(w) => w # Frame(Op.a + 1) /\ w # Frame(Op.a + 2) /\ w \notin M
  <2> HIDE DEF top
  <2> QED  BY <1>5, SavedWords
<1>7. CASE UNCHANGED <<mem, wl_pos>>
  BY <1>1, <1>7, SameView DEF logVars
<1>8. ASSUME wl_pos > 0, wl_pos' = wl_pos - 1,
             \A w : Shown(w) => mem'[w] = IF w = x THEN wl_data[wl_pos - 1] ELSE mem[w]
      PROVE  View' = View
  <2>1. \A w : Shown(w) =>
          Undone(wl_addrs, wl_data, wl_pos', mem', w) = Undone(wl_addrs, wl_data, wl_pos, mem, w)
    <3> SUFFICES ASSUME NEW w, Shown(w)
                 PROVE  Undone(wl_addrs, wl_data, wl_pos', mem', w) = Undone(wl_addrs, wl_data, wl_pos, mem, w)
      OBVIOUS
    <3>1. /\ w = wl_addrs[wl_pos'] => mem'[w] = wl_data[wl_pos']
          /\ w # wl_addrs[wl_pos'] => mem'[w] = mem[w]
      BY <1>8
    <3>2. wl_pos \in Nat /\ wl_pos' \in Nat /\ wl_pos' = wl_pos - 1
      BY <1>0, <1>8
    <3> QED  BY <3>1, <3>2, Pop
  <2> QED  BY <1>1, <1>8, <2>1, SavedView
<1>9. CASE wl_pos > 0 /\ wl_pos' = wl_pos - 1 /\ mem' = mem /\ Skipped(x, Op.a, Op.n)
  <2>1. x = Frame(Op.a + 1) \/ x = Frame(Op.a + 2)
    BY <1>9 DEF Skipped
  <2>2. \A w : Shown(w) => w # x
    BY <1>6, <2>1
  <2> HIDE DEF x
  <2> QED  BY <1>8, <1>9, <2>2 DEF x
<1>10. CASE wl_pos > 0 /\ wl_pos' = wl_pos - 1 /\ x \in ReadOnly /\ mem' = Write(mem, M, RtMark)
  <2>1. \A w : Shown(w) => mem'[w] = mem[w]
    BY <1>6, <1>10 DEF Shown, Write
  <2>2. wl_data[wl_pos - 1] = mem[x]
    <3>1. wl_pos - 1 \in 0..(wl_pos - 1) /\ x \in Untouched
      BY <1>0, <1>10 DEF Untouched, Faulting
    <3> QED  BY <1>0, <3>1 DEF QuietInv
  <2> HIDE DEF x
  <2>3. \A w : Shown(w) => mem'[w] = IF w = x THEN wl_data[wl_pos - 1] ELSE mem[w]
    BY <2>1, <2>2
  <2> QED  BY <1>8, <1>10, <2>3 DEF x
<1>11. CASE wl_pos > 0 /\ wl_pos' = wl_pos - 1 /\ mem' = [mem EXCEPT ![x] = wl_data[wl_pos - 1]]
  <2>1. \A w \in Words : mem'[w] = IF w = x THEN wl_data[wl_pos - 1] ELSE mem[w]
    BY <1>0, <1>11
  <2> QED  BY <1>8, <1>11, <2>1 DEF Shown
<1> QED  BY <1>7, <1>9, <1>10, <1>11, Zenon DEF Undo, Exception

\* The end of the rollback: the log is empty, the frame comes from its copy, and
\* the thread or the handler returns behind the checkpoint.
LEMMA FinishView ==
  ASSUME Framed, SavedInv, Saved, Finish
  PROVE  View' = View
<1>0. /\ Safe /\ TypeOK /\ TodoInv /\ in_spec /\ mem \in [Words -> Int] /\ kregs.flags = TRUE
      /\ kregs.pc # NoInstr /\ kregs.pc \in SavedPc
  BY SavedHas DEF Framed, Safe, TypeOK, MachineType, CkptType, SavedInv
<1>1. /\ todo # << >> /\ Op.op = "finish" /\ ~in_spec' /\ mem' = FinishMem
      /\ UNCHANGED <<rets, handler, regs, kregs>>
  BY DEF Finish, At, Op, irqVars, ckptVars
<1>2. Allowed(Op, irq, handler, in_spec, init_done)
  BY <1>0, <1>1, TodoFacts
<1>3. IF handler THEN Op.a = 1 ELSE Op.a = 0
  BY <1>1, <1>2 DEF Allowed
<1>4. ~Saved'
  BY <1>1 DEF Saved
<1>5. prog[kregs.pc] \in Instr
  <2>1. prog \in Seq(Instr)
    BY <1>0, MachineAssumption DEF TypeOK, MachineType, WellFormed
  <2> QED  BY <1>0, <2>1 DEF SavedPc
<1>6. /\ ViewPc' = ViewPc /\ ViewSp' = ViewSp /\ ViewIrq' = TRUE /\ ViewIrq = TRUE
  <2>1. ViewPc = kregs.pc /\ ViewSp = kregs.sp /\ ViewIrq = TRUE
    BY DEF ViewPc, ViewSp, ViewIrq
  <2>2. CASE handler
    <3>1. regs.pc = kregs.pc /\ regs.sp = kregs.sp
      BY <1>0, <1>1, <2>2 DEF SavedInv, RollbackOps
    <3> QED  BY <1>1, <1>4, <2>1, <2>2, <3>1 DEF ViewPc, ViewSp, ViewIrq
  <2>3. CASE ~handler
    <3>1. Resume(kregs) /\ todo' = ResumeOps
      BY <1>3, <2>3 DEF Finish
    <3>2. pc' = kregs.pc /\ sp' = kregs.sp
      BY <1>0, <3>1 DEF Resume
    <3>3. Enables(ResumeOps)
      BY <1>0, <1>5, EnablesAfter DEF ResumeOps
    <3>4. Enables(todo)'
      BY <3>1, <3>3 DEF Enables
    <3>5. ViewIrq' = TRUE
      BY <3>4 DEF ViewIrq, Enables, Elems
    <3> QED  BY <1>1, <1>4, <2>1, <2>3, <3>2, <3>5 DEF ViewPc, ViewSp
  <2> QED  BY <2>2, <2>3
<1>7. ViewRets' = ViewRets
  BY <1>1, <1>6 DEF ViewRets
<1>8. \A w : Dead(w)' <=> Dead(w)
  BY <1>6 DEF Dead
<1>9. wl_pos = 0
  BY <1>0, <1>1 DEF Safe, LogInv
<1>10. ASSUME NEW w \in Words, w \notin RuntimeWords PROVE Restored(w)' = Restored(w)
  <2>1. w # SwapCondition /\ Restored(w)' = mem'[w]
    BY <1>4, <1>10, RestoredUndone DEF RuntimeWords
  <2>2. CASE w = Frame(wl_base)
    <3>1. mem'[w] = wl_stack
      BY <1>0, <1>1, <1>10, <2>1, <2>2 DEF FinishMem
    <3> QED  BY <2>1, <2>2, <3>1, RestoredUndone
  <2>3. CASE w # Frame(wl_base)
    <3>1. mem'[w] = mem[w]
      BY <1>0, <1>1, <1>10, <2>1, <2>3 DEF FinishMem
    <3>2. ~In(wl_addrs, wl_pos, w)
      BY <1>9 DEF In
    <3> QED  BY <2>1, <2>3, <3>1, <3>2, RestoredUndone DEF Undone
  <2> QED  BY <2>2, <2>3
<1>11. ViewMem' = ViewMem
  BY <1>8, <1>10 DEF ViewMem
<1> QED  BY <1>6, <1>7, <1>11 DEF View

\* The restart that begins a rollback, and a timer interrupt.
LEMMA MarkingView ==
  ASSUME Framed, Saved, Saved', Restart \/ TimerInterrupt, UNCHANGED ckptVars
  PROVE  View' = View
<1>0. /\ Safe /\ TypeOK /\ TodoInv /\ in_spec
  BY SavedHas DEF Framed, Safe
<1>1. /\ UNCHANGED <<rets, logVars>> /\ status = "running"
      /\ mem' = mem \/ mem' = Write(mem, {Frame(sp + 1), Frame(sp + 2)}, RtMark)
  BY DEF Restart, TimerInterrupt, cpuVars, At
<1>2. ~handler /\ ~Has(todo, "finish")
  <2>1. CASE Restart
    <3>1. todo # << >> /\ Op.op = "restart"
      BY <2>1 DEF Restart, At, Op
    <3>2. \A y \in Elems(todo) : y.op # "finish"
      BY <1>0, <3>1, TodoFacts DEF Precedes
    <3>3. ~handler
      BY <1>0, <3>1, ModeFacts DEF RollbackOps
    <3> QED  BY <3>2, <3>3 DEF Has
  <2>2. CASE TimerInterrupt
    <3>1. irq /\ ~handler
      BY <2>2 DEF TimerInterrupt
    <3>2. \A y \in Elems(todo) : y.op \notin Masked
      BY <1>0, <3>1 DEF TodoInv, Code, Allowed
    <3> QED  BY <3>1, <3>2 DEF Has, Masked
  <2> QED  BY <2>1, <2>2
<1>3. wl_base <= sp /\ sp \in 1..(StackSize - 2)
  BY <1>0, <1>1, <1>2, AboveBase, NmiWord DEF TypeOK, MachineType
<1>4. CASE mem' = mem
  BY <1>1, <1>4, SameView
<1>5. CASE mem' = Write(mem, {Frame(sp + 1), Frame(sp + 2)}, RtMark)
  BY <1>1, <1>3, <1>5, MarkView
<1> QED  BY <1>1, <1>4, <1>5

LEMMA SetWordView ==
  ASSUME Framed, Saved, Saved', SetWord, UNCHANGED ckptVars
  PROVE  View' = View
<1>1. todo # << >> /\ Op.op \in {"add", "set"} /\ UNCHANGED <<rets, logVars>>
  BY DEF SetWord, At, Op, cpuVars
<1>2. Allowed(Op, irq, handler, in_spec, init_done) /\ mem \in [Words -> Int]
  BY <1>1, TodoFacts DEF Framed, Safe, TypeOK, MachineType
<1>3. Op.a \in RuntimeWords
  BY <1>1, <1>2 DEF Allowed, RuntimeWords
<1>4. \A w : Shown(w) => mem'[w] = mem[w]
  BY <1>2, <1>3 DEF SetWord, Shown
<1> QED  BY <1>1, <1>4, SameView

LEMMA RollbackStepExact ==
  ASSUME ~Nmis, Kept, Saved, [Next]_vars
  PROVE  View' = View
<1>0. Base /\ WriteInv /\ QuietInv /\ SavedInv /\ in_spec
  BY SavedHas DEF Kept
<1>1. /\ ~NewCheckpoint /\ ~SaveStack /\ ~SaveRegisters /\ ~HandleTick /\ ~Iret /\ ~InitData
      /\ UNCHANGED ckptVars
  BY <1>0, SavedSteps
<1>2. Framed
  BY <1>0, SavedHas DEF Base, Framed, Unsaving
<1>3. in_spec' => Saved'
  BY <1>0, StaysSaved
<1>4. CASE Finish
  BY <1>0, <1>2, <1>4, FinishView
<1>5. CASE \/ Fetch \/ HookStore \/ HookMemcpy \/ HookRestart \/ HookCheckSpecLength \/ HookCheckCallDepth
           \/ HookNewCheckpoint \/ Enter \/ IrqRestore \/ UnsetRt \/ Select \/ Memcpy \/ RestartIrq
           \/ HookInterruptTimer \/ InitDone \/ Enable \/ SetSpecEnabled \/ UndoInUse \/ UNCHANGED vars
  <2>1. UNCHANGED <<mem, rets, logVars, in_spec>>
    BY <1>5 DEF UndoInUse, Fetch, HookStore, HookMemcpy, HookRestart, HookCheckSpecLength, HookCheckCallDepth,
           HookNewCheckpoint, Enter, IrqRestore, UnsetRt, Select, Memcpy, RestartIrq, HookInterruptTimer,
           InitDone, Enable, SetSpecEnabled, vars, mvars, cpuVars, modeVars
  <2> QED  BY <1>0, <1>1, <1>3, <2>1, SameView
<1>6. CASE Exec \/ LogWord \/ Undo \/ Restart \/ TimerInterrupt \/ SetWord
  <2>1. in_spec' = in_spec
    BY <1>6 DEF Exec, LogWord, Undo, Restart, TimerInterrupt, SetWord, modeVars
  <2>2. Saved'
    BY <1>0, <1>3, <2>1
  <2> QED  BY <1>0, <1>1, <1>2, <1>6, <2>2, ExecView, LogView, UndoView, MarkingView, SetWordView
<1> QED  BY <1>1, <1>4, <1>5, <1>6, NoNmis DEF Next, Cpu, Environment, Done

-----------------------------------------------------------------------------
(* Outside speculation *)

LEMMA IrqElems ==
  /\ ViewIrq <=> Saved \/ handler \/ IF Has(todo, "irq_restore") THEN Enables(todo) ELSE irq
  /\ ViewIrq' <=> Saved' \/ handler' \/ IF Has(todo', "irq_restore") THEN Enables(todo') ELSE irq'
BY DEF ViewIrq, Has, Enables, Elems

LEMMA OutsideView ==
  ASSUME ~Saved, ~Saved', ViewPc' = ViewPc, ViewSp' = ViewSp, rets' = rets, ViewIrq' <=> ViewIrq,
         \A w \in Words : w \notin RuntimeWords /\ ~Dead(w) => mem'[w] = mem[w]
  PROVE  View' = View
<1>1. ViewIrq' = ViewIrq
  BY Zenon DEF ViewIrq
<1>2. ViewRets' = ViewRets
  BY DEF ViewRets
<1>3. \A w : Dead(w)' <=> Dead(w)
  BY DEF Dead
<1>4. \A w : Restored(w)' = mem'[w] /\ Restored(w) = mem[w]
  BY DEF Restored
<1>5. ViewMem' = ViewMem
  BY <1>3, <1>4 DEF ViewMem
<1> QED  BY <1>1, <1>2, <1>5 DEF View

\* Code without irq_restore takes the place of the next operation.
LEMMA IrqContinue ==
  ASSUME Safe, todo # << >>, Op.op # "irq_restore", NEW s, Common(s), Continue(s), ~Saved, ~Saved',
         UNCHANGED <<irq, handler>>
  PROVE  ViewIrq' <=> ViewIrq
<1>1. Elems(todo') = Elems(s) \cup Elems(Rest) /\ Elems(todo) = {Op} \cup Elems(Rest)
  BY Replaced, TodoFacts DEF Safe, Common
<1>2. \A x \in Elems(s) : x.op # "irq_restore"
  BY DEF Common, RareOps
<1>3. /\ Has(todo', "irq_restore") <=> Has(todo, "irq_restore")
      /\ Enables(todo') <=> Enables(todo)
  BY <1>1, <1>2 DEF Has, Enables
<1> QED  BY <1>3, IrqElems

LEMMA ContinueView ==
  ASSUME Safe, todo # << >>, Op.op # "irq_restore", NEW s, Common(s), Continue(s), ~Saved, ~Saved',
         UNCHANGED <<pc, sp, rets, irq, handler, regs>>, \A w \in Words \ RuntimeWords : mem'[w] = mem[w]
  PROVE  View' = View
<1>1. ViewPc' = ViewPc /\ ViewSp' = ViewSp
  BY DEF ViewPc, ViewSp
<1>2. ViewIrq' <=> ViewIrq
  BY IrqContinue
<1> QED  BY <1>1, <1>2, OutsideView

\* A new checkpoint is not complete.
LEMMA NotSaved ==
  ASSUME ~Nmis, Base, ~in_spec, [Next]_vars
  PROVE  ~Saved /\ ~Saved' /\ (in_spec' => NewCheckpoint)
<1>0. Safe /\ TypeOK /\ TodoInv /\ SaveInv
  BY DEF Base, Safe, Thread
<1>1. in_spec' => NewCheckpoint
  BY FewChange
<1>2. ASSUME NewCheckpoint PROVE ~Saved'
  <2>1. todo # << >> /\ Op.op = "new_checkpoint" /\ Continue(<< >>)
    BY <1>2 DEF NewCheckpoint, At, Op
  <2>2. Elems(todo') = Elems(Rest) /\ Elems(todo) = {Op} \cup Elems(Rest)
    BY <1>0, <2>1, ReplacedByOne, TodoFacts
  <2>3. Has(todo, "save_registers")
    BY <1>0, <2>1, <2>2 DEF SaveInv, Has
  <2>4. Has(todo', "save_registers")
    BY <2>1, <2>2, <2>3 DEF Has
  <2> QED  BY <2>4 DEF Saved, Has, Elems
<1> QED  BY <1>1, <1>2 DEF Saved

\* Steps of the runtime that touch its own words only.
LEMMA PlainView ==
  ASSUME ~Nmis, Base, ~in_spec, [Next]_vars,
         \/ HookStore \/ HookMemcpy \/ HookRestart \/ HookCheckSpecLength \/ HookCheckCallDepth
         \/ HookNewCheckpoint \/ Restart \/ HookInterruptTimer \/ UnsetRt \/ SetWord \/ NewCheckpoint
         \/ SaveStack \/ SaveRegisters \/ InitData \/ InitDone
  PROVE  View' = View /\ UNCHANGED <<prog, status>>
<1>0. Safe /\ TypeOK /\ TodoInv /\ mem \in [Words -> Int] /\ ~Saved /\ ~Saved'
  BY NotSaved DEF Base, Safe, TypeOK, MachineType
<1>1. todo # << >> /\ Op.op # "irq_restore" /\ \E s : Common(s) /\ Continue(s)
  <2>1. CASE \/ HookStore \/ HookMemcpy \/ HookRestart \/ HookCheckSpecLength \/ HookCheckCallDepth
             \/ HookNewCheckpoint \/ Restart \/ HookInterruptTimer
    <3>1. todo # << >> /\ Op.op # "irq_restore"
      BY <2>1 DEF HookStore, HookMemcpy, HookRestart, HookCheckSpecLength, HookCheckCallDepth, HookNewCheckpoint,
             Restart, HookInterruptTimer, At, Op
    <3> QED  BY <1>0, <2>1, <3>1, Continuation
  <2>2. CASE UnsetRt \/ SetWord \/ NewCheckpoint \/ SaveStack \/ SaveRegisters \/ InitData \/ InitDone
    <3>1. todo # << >> /\ Op.op # "irq_restore" /\ Continue(<< >>)
      BY <2>2 DEF UnsetRt, SetWord, NewCheckpoint, SaveStack, SaveRegisters, InitData, InitDone, At, Op
    <3> QED  BY <3>1, CommonShort
  <2> QED  BY <2>1, <2>2
<1>2. UNCHANGED <<prog, pc, sp, rets, irq, status, handler, regs>>
  BY DEF HookStore, HookMemcpy, HookRestart, HookCheckSpecLength, HookCheckCallDepth, HookNewCheckpoint,
         Restart, HookInterruptTimer, UnsetRt, SetWord, NewCheckpoint, SaveStack, SaveRegisters, InitData, InitDone,
         mvars, cpuVars, irqVars
<1>3. \A w \in Words \ RuntimeWords : mem'[w] = mem[w]
  <2>1. CASE SetWord
    <3>1. Op.op \in {"add", "set"} /\ Allowed(Op, irq, handler, in_spec, init_done)
      BY <1>0, <1>1, <2>1, TodoFacts DEF SetWord, At, Op
    <3>2. Op.a \in RuntimeWords
      BY <3>1 DEF Allowed, RuntimeWords
    <3> QED  BY <1>0, <2>1, <3>2 DEF SetWord
  <2>2. CASE NewCheckpoint \/ InitData
    BY <1>0, <2>2 DEF NewCheckpoint, InitData, RuntimeWords
  <2>3. CASE ~(SetWord \/ NewCheckpoint \/ InitData)
    BY <2>3 DEF HookStore, HookMemcpy, HookRestart, HookCheckSpecLength, HookCheckCallDepth, HookNewCheckpoint,
           Restart, HookInterruptTimer, UnsetRt, SaveStack, SaveRegisters, InitDone, mvars
  <2> QED  BY <2>1, <2>2, <2>3
<1> QED  BY <1>0, <1>1, <1>2, <1>3, ContinueView

\* Entering the runtime saves the interrupt flag that leaving it gives back.
LEMMA EnterView ==
  ASSUME Safe, Enter, ~Saved, ~Saved'
  PROVE  View' = View /\ UNCHANGED <<prog, status>>
<1>0. TypeOK /\ TodoInv /\ irq \in BOOLEAN /\ prog[pc] \in Instr
  BY TypeFacts DEF Safe, TypeOK, MachineType
<1>1. /\ todo # << >> /\ Op.op \in EnterOps /\ Continue(Runtime(Op, irq))
      /\ UNCHANGED <<prog, pc, sp, rets, mem, status, handler, regs>>
  BY DEF Enter, At, Op, cpuVars, irqVars
<1>2. Op \in MicroOp /\ Elems(todo) = {Op} \cup Elems(Rest) /\ Op.op # "irq_restore"
  BY <1>0, <1>1, TodoFacts DEF EnterOps
<1> DEFINE R == Runtime(Op, irq)
<1>3. RuntimeFacts(R, Op, irq)
  BY <1>0, <1>1, <1>2, RuntimeCode
<1> HIDE DEF R
<1>4. R \in Seq(MicroOp) /\ Continue(R)
  BY <1>1, <1>3 DEF RuntimeFacts, Made, Sound, R
<1>5. Elems(todo') = Elems(R) \cup Elems(Rest)
  BY <1>0, <1>1, <1>4, Replaced
<1>6. Has(R, "irq_restore") /\ \A x \in Elems(R) : x.op = "irq_restore" => x.a = Flag(irq)
  BY <1>3 DEF RuntimeFacts
<1>7. Has(todo, "irq_restore") => ~irq
  BY <1>0 DEF TodoInv, Code, Allowed, Masked, Has
<1>8. Has(todo', "irq_restore") /\ (Enables(todo') <=> irq \/ Enables(todo))
  BY <1>2, <1>5, <1>6 DEF Has, Enables, Flag
<1>9. Enables(todo) => Has(todo, "irq_restore")
  BY DEF Enables, Has
<1>10. ViewIrq' <=> ViewIrq
  BY <1>1, <1>7, <1>8, <1>9, IrqElems
<1>11. ViewPc' = ViewPc /\ ViewSp' = ViewSp
  BY <1>1 DEF ViewPc, ViewSp
<1> QED  BY <1>1, <1>10, <1>11, OutsideView

LEMMA IrqRestoreView ==
  ASSUME Safe, IrqRestore, ~Saved, ~Saved'
  PROVE  View' = View /\ UNCHANGED <<prog, status>>
<1>0. TypeOK /\ TodoInv
  BY DEF Safe
<1>1. /\ todo # << >> /\ Op.op = "irq_restore" /\ Continue(<< >>) /\ irq' = (Op.a = 1)
      /\ UNCHANGED <<prog, pc, sp, rets, mem, status, handler, regs>>
  BY DEF IrqRestore, At, Op, cpuVars, irqVars
<1>2. Elems(todo') = Elems(Rest) /\ Elems(todo) = {Op} \cup Elems(Rest)
  BY <1>0, <1>1, ReplacedByOne, TodoFacts
<1>3. Op.a = 1 => ~Has(Rest, "irq_restore")
  BY <1>0, <1>1, TodoFacts DEF Precedes, Masked, Has
<1>4. Has(todo, "irq_restore") /\ (Enables(todo) <=> Op.a = 1 \/ Enables(Rest))
  BY <1>1, <1>2 DEF Has, Enables
<1>5. Enables(Rest) => Has(Rest, "irq_restore")
  BY DEF Enables, Has
<1>6. (Has(todo', "irq_restore") <=> Has(Rest, "irq_restore")) /\ (Enables(todo') <=> Enables(Rest))
  BY <1>2 DEF Has, Enables
<1>7. ViewIrq' <=> ViewIrq
  BY <1>1, <1>3, <1>4, <1>5, <1>6, IrqElems
<1>8. ViewPc' = ViewPc /\ ViewSp' = ViewSp
  BY <1>1 DEF ViewPc, ViewSp
<1> QED  BY <1>1, <1>7, <1>8, OutsideView

\* An interrupt takes frames that are not in use, and gives them back.
LEMMA TimerView ==
  ASSUME Safe, TimerInterrupt, ~Saved, ~Saved'
  PROVE  View' = View /\ UNCHANGED <<prog, status>>
<1>0. TypeOK /\ TodoInv /\ mem \in [Words -> Int] /\ sp \in 1..MaxSp
  BY DEF Safe, TypeOK, MachineType
<1>1. /\ irq /\ ~handler /\ handler' /\ regs'.pc = pc /\ regs'.sp = sp
      /\ mem' = Write(mem, {Frame(sp + 1), Frame(sp + 2)}, RtMark)
      /\ UNCHANGED <<prog, pc, sp, rets, status>>
  BY DEF TimerInterrupt, cpuVars
<1>2. ~Has(todo, "irq_restore")
  BY <1>0, <1>1 DEF TodoInv, Code, Allowed, Masked, Has
<1>3. ViewIrq' <=> ViewIrq
  BY <1>1, <1>2, IrqElems
<1>4. ViewPc' = ViewPc /\ ViewSp' = ViewSp /\ ViewSp = sp
  BY <1>1 DEF ViewPc, ViewSp
<1>5. Dead(Frame(sp + 1)) /\ Dead(Frame(sp + 2))
  BY <1>0, <1>4, MachineAssumption, SpecEmAssumption DEF Dead, Frame, StackWords
<1>6. \A w \in Words : ~Dead(w) => mem'[w] = mem[w]
  BY <1>1, <1>5 DEF Write
<1> QED  BY <1>1, <1>3, <1>4, <1>6, OutsideView

LEMMA IretView ==
  ASSUME Safe, SavedInv, Iret, ~Saved, ~Saved'
  PROVE  View' = View /\ UNCHANGED <<prog, status>>
<1>0. TypeOK /\ TodoInv
  BY DEF Safe
<1>1. /\ todo # << >> /\ Op.op = "iret" /\ ~handler' /\ todo' = regs.todo
      /\ UNCHANGED <<prog, rets, mem, regs>>
  BY DEF Iret, At, Op
<1>2. handler
  BY <1>0, <1>1, TodoFacts DEF Allowed, InterruptOps
<1>3. regs.pc # NoInstr /\ Returns(regs)
  BY <1>2 DEF SavedInv, Returns
<1>4. pc' = regs.pc /\ sp' = regs.sp /\ irq' = regs.irq /\ UNCHANGED status
  BY <1>3 DEF Iret, Resume
<1>5. Enables(todo') => Has(todo', "irq_restore")
  BY DEF Enables, Has
<1>6. Enables(todo') \/ (irq' /\ ~Has(todo', "irq_restore"))
  BY <1>1, <1>3, <1>4 DEF Returns, Enables, Has
<1>7. ViewIrq' <=> ViewIrq
  BY <1>2, <1>5, <1>6, IrqElems
<1>8. ViewPc' = ViewPc /\ ViewSp' = ViewSp
  BY <1>1, <1>2, <1>4 DEF ViewPc, ViewSp
<1> QED  BY <1>1, <1>4, <1>7, <1>8, OutsideView

LEMMA FetchView ==
  ASSUME Safe, Fetch \/ Enable \/ SetSpecEnabled, ~Saved, ~Saved'
  PROVE  View' = View /\ UNCHANGED <<prog, status>>
<1>0. TypeOK /\ TodoInv
  BY DEF Safe
<1>1. /\ todo = << >> /\ UNCHANGED <<prog, pc, sp, rets, mem, irq, status, handler, regs>>
  BY DEF Fetch, Enable, SetSpecEnabled, AtInstruction, mvars, irqVars
<1>2. ~Has(todo, "irq_restore")
  BY <1>1, Short DEF Has
<1>3. ~Has(todo', "irq_restore")
  <2>1. CASE Fetch
    <3>1. FetchFacts(todo', prog[pc])
      BY <1>0, <2>1, TextFacts DEF Fetch
    <3> QED  BY <3>1 DEF FetchFacts, Made, HookOps, Has
  <2>2. CASE Enable
    <3> DEFINE e == U("enter_init", 0, 0)
    <3>1. todo' = <<e>> /\ e.op = "enter_init"
      BY <2>2 DEF Enable, U
    <3> HIDE DEF e
    <3>2. Elems(todo') = {e}
      BY <3>1, Short
    <3> QED  BY <3>1, <3>2 DEF Has
  <2>3. CASE SetSpecEnabled
    BY <1>2, <2>3 DEF SetSpecEnabled, Has
  <2> QED  BY <2>1, <2>2, <2>3
<1>4. ViewIrq' <=> ViewIrq
  BY <1>1, <1>2, <1>3, IrqElems
<1>5. ViewPc' = ViewPc /\ ViewSp' = ViewSp
  BY <1>1 DEF ViewPc, ViewSp
<1> QED  BY <1>1, <1>4, <1>5, OutsideView

-----------------------------------------------------------------------------
(* The steps of the kernel *)

\* Outside speculation and handlers the kernel sees what there is.
LEMMA PlainState ==
  ASSUME TypeOK, ~Saved, ~handler
  PROVE  /\ ViewPc = pc /\ ViewSp = sp
         /\ DOMAIN ViewMem = Words /\ DOMAIN ViewRets = 1..MaxSp
         /\ \A w \in Words : w \notin RuntimeWords /\ ~Dead(w) => ViewMem[w] = mem[w]
         /\ \A w \in Words : w \in RuntimeWords \/ Dead(w) => ViewMem[w] = 0
         /\ \A d \in 1..MaxSp : ViewRets[d] = IF d <= sp THEN rets[d] ELSE NoReturn
BY DEF ViewPc, ViewSp, ViewMem, ViewRets, Restored

LEMMA PlainStateNext ==
  ASSUME ~Saved', ~handler'
  PROVE  /\ ViewPc' = pc' /\ ViewSp' = sp'
         /\ ViewMem' = [w \in Words |-> IF w \in RuntimeWords \/ Dead(w)' THEN 0 ELSE mem'[w]]
         /\ ViewRets' = [d \in 1..MaxSp |-> IF d <= sp' THEN rets'[d] ELSE NoReturn]
BY DEF ViewPc, ViewSp, ViewMem, ViewRets, Restored

LEMMA LiveWords ==
  ASSUME TypeOK, LiveAccess, status = "running", ~Saved, ~handler, NEW w \in Accessed(prog[pc])
  PROVE  w \in Words /\ w \notin RuntimeWords /\ ~Dead(w)
<1>1. prog \in Programs /\ pc \in DOMAIN prog /\ WellFormed(prog) /\ ViewPc = pc
  BY MachineAssumption, PlainState DEF TypeOK, MachineType
<1>2. w \in FirstHeap..(NWords - 1)
  BY <1>1 DEF Accessed, Writes, WellFormed
<1>3. w \in Words /\ w \notin RuntimeWords
  BY <1>2, MachineAssumption DEF Words, FirstHeap, RuntimeWords, IgnoreNmis, SwapCondition
<1> QED  BY <1>1, <1>3 DEF LiveAccess

LEMMA SelectBranch ==
  ASSUME Safe, LiveAccess, Select, ~in_spec, ~Saved, ~Saved'
  PROVE  Arch!Branch /\ status = "running"
<1>0. TypeOK /\ TodoInv /\ mem[SwapCondition] = 0
  BY ModeFacts DEF Safe, ModeInv
<1>1. /\ todo # << >> /\ Op.op = "select" /\ Continue(<< >>) /\ status = "running" /\ prog[pc].op = "branch"
      /\ pc' = Target(FALSE) /\ UNCHANGED <<prog, sp, rets, mem, irq, status, handler, regs>>
  <2>1. (mem[SwapCondition] = 1) = FALSE
    BY <1>0
  <2>2. pc' = Target(mem[SwapCondition] = 1)
    BY DEF Select
  <2>3. pc' = Target(FALSE)
    BY <2>1, <2>2, Zenon
  <2> QED  BY <2>3 DEF Select, At, Op, irqVars
<1>2. ~handler /\ ~handler'
  BY <1>0, <1>1, TodoFacts DEF Allowed, HandlerOps, InterruptOps, RollbackOps
<1>3. ViewIrq' <=> ViewIrq
  BY <1>0, <1>1, IrqContinue, CommonShort
<1>4. ViewIrq' = ViewIrq
  BY <1>3, Zenon DEF ViewIrq
<1> DEFINE a == prog[pc].addr \div 8
<1>5. ViewMem[a] = mem[a]
  BY <1>0, <1>1, <1>2, LiveWords, PlainState DEF Accessed
<1>6. ViewSp' = ViewSp /\ ViewPc = pc /\ ViewPc' = pc'
  BY <1>1, <1>2 DEF ViewPc, ViewSp
<1>7. \A w : Dead(w)' <=> Dead(w)
  BY <1>6 DEF Dead
<1>8. ViewMem' = ViewMem /\ ViewRets' = ViewRets
  BY <1>1, <1>6, <1>7 DEF ViewMem, ViewRets, Restored
<1>9. Arch!Target(FALSE) = Target(FALSE)
  BY <1>5, <1>6 DEF Arch!Target, Target
<1> QED  BY <1>1, <1>4, <1>6, <1>8, <1>9 DEF Arch!Branch

LEMMA TickTick ==
  ASSUME Safe, TickInv, HandleTick, ~in_spec, ~Saved, ~Saved'
  PROVE  Arch!Tick /\ status = "running"
<1>0. TypeOK /\ TodoInv /\ mem[SwapCondition] = 0 /\ mem \in [Words -> Int]
  BY ModeFacts DEF Safe, ModeInv, TypeOK, MachineType
<1>1. /\ todo # << >> /\ Op.op = "tick" /\ status = "running"
      /\ mem' = [mem EXCEPT ![Jiffies] = @ + 1, ![SwapCondition] = 0]
      /\ UNCHANGED <<prog, pc, sp, rets, irq, status, handler, regs>>
  BY <1>0 DEF HandleTick, At, Op, irqVars, cpuVars
<1>2. handler /\ handler'
  BY <1>0, <1>1, TodoFacts DEF Allowed, InterruptOps
<1>3. ViewIrq = TRUE /\ ViewIrq' = TRUE
  BY <1>2 DEF ViewIrq
<1>4. Op \in Elems(todo)
  BY <1>0, <1>1, TodoFacts
<1>5. mem[Jiffies] < MaxTicks
  BY <1>1, <1>4 DEF TickInv, Has
<1>6. ViewSp' = ViewSp /\ ViewPc' = ViewPc
  BY <1>1 DEF ViewPc, ViewSp
<1>7. \A w : Dead(w)' <=> Dead(w)
  BY <1>6 DEF Dead
<1>8. ViewRets' = ViewRets
  BY <1>1, <1>6 DEF ViewRets
<1>9. Jiffies \in Words /\ Jiffies \notin RuntimeWords /\ ~Dead(Jiffies) /\ Jiffies # SwapCondition
  BY MachineAssumption DEF Jiffies, Words, RuntimeWords, Dead, StackWords, FirstHeap, IgnoreNmis, SwapCondition
<1>10. \A w : Restored(w)' = mem'[w] /\ Restored(w) = mem[w]
  BY DEF Restored
<1>11. ViewMem[Jiffies] = mem[Jiffies]
  BY <1>9, <1>10 DEF ViewMem
<1>12. \A w \in Words : w # SwapCondition => mem'[w] = IF w = Jiffies THEN mem[w] + 1 ELSE mem[w]
  BY <1>0, <1>1, <1>9
<1>13. ViewMem' = [w \in Words |-> IF w = Jiffies THEN ViewMem[w] + 1 ELSE ViewMem[w]]
  <2>1. \A w \in Words : (IF w \in RuntimeWords \/ Dead(w)' THEN 0 ELSE Restored(w)')
                           = IF w = Jiffies THEN ViewMem[w] + 1 ELSE ViewMem[w]
    BY <1>7, <1>9, <1>10, <1>11, <1>12 DEF ViewMem, RuntimeWords
  <2> QED  BY <2>1 DEF ViewMem
<1>14. ViewMem' = [ViewMem EXCEPT ![Jiffies] = @ + 1]
  BY <1>9, <1>13 DEF ViewMem
<1> QED  BY <1>1, <1>3, <1>5, <1>6, <1>8, <1>11, <1>14 DEF Arch!Tick, Arch!Jiffies, Jiffies

\* At an instruction the code is empty behind it.
LEMMA ExecState ==
  ASSUME Safe, Exec, ~in_spec, ~Saved, ~Saved'
  PROVE  /\ status = "running" /\ ~handler /\ ~handler'
         /\ ViewIrq = irq /\ ViewIrq' = irq'
         /\ (~Faults /\ Straight) \/ Oops
         /\ Arch!Faults <=> Faults
<1>0. TypeOK /\ TodoInv /\ irq \in BOOLEAN
  BY DEF Safe, TypeOK, MachineType
<1>1. /\ todo # << >> /\ Op.op = "exec" /\ status = "running"
      /\ Continue(<< >>) /\ UNCHANGED irqVars
      /\ (~Faults /\ Straight) \/ Oops
  BY DEF Exec, At, Op
<1>2. ~handler /\ ~handler'
  BY <1>0, <1>1, TodoFacts DEF Allowed, HandlerOps, InterruptOps, RollbackOps, irqVars
<1>3. Elems(todo) = {Op} /\ Elems(todo') = {}
  <2>1. Elems(todo') = Elems(Rest) /\ Elems(todo) = {Op} \cup Elems(Rest)
    BY <1>0, <1>1, ReplacedByOne, TodoFacts
  <2>2. Elems(Rest) = {}
    BY <1>0, <1>1, TodoFacts DEF Precedes, LastOps
  <2> QED  BY <2>1, <2>2
<1>4. ~Has(todo, "irq_restore") /\ ~Has(todo', "irq_restore")
  BY <1>1, <1>3 DEF Has
<1>5. (ViewIrq <=> irq) /\ (ViewIrq' <=> irq')
  BY <1>2, <1>4, IrqElems
<1>6. irq' \in BOOLEAN
  BY <1>0, <1>1 DEF Straight, Store, Spill, Jump, Call, Return, SetIrq, Oops
<1>7. ViewIrq \in BOOLEAN /\ ViewIrq' \in BOOLEAN
  BY Zenon DEF ViewIrq
<1>8. ViewIrq = irq /\ ViewIrq' = irq'
  BY <1>0, <1>5, <1>6, <1>7
<1>9. Arch!Faults <=> Faults
  BY <1>0, <1>2, PlainState DEF Arch!Faults, Faults, Arch!Touched, Touched, Arch!Faulting, Faulting
<1> QED  BY <1>1, <1>2, <1>8, <1>9

\* The frame of the program and the next one.
LEMMA ProgramFrames ==
  ASSUME TypeOK, ~Saved, ~handler
  PROVE  /\ Frame(sp) \in Words /\ Frame(sp) \notin RuntimeWords /\ ~Dead(Frame(sp))
         /\ Frame(sp + 1) \in Words /\ Frame(sp + 1) \notin RuntimeWords /\ Dead(Frame(sp + 1))
         /\ \A w \in Words : Dead(w) <=> w \in StackWords /\ w < Frame(sp)
<1>1. ViewSp = sp /\ sp \in 1..MaxSp
  BY PlainState DEF TypeOK, MachineType
<1> QED  BY <1>1, MachineAssumption, SpecEmAssumption
         DEF Dead, Frame, StackWords, Words, RuntimeWords, FirstHeap, IgnoreNmis, SwapCondition

\* A write to words that the kernel sees.
LEMMA WriteView ==
  ASSUME TypeOK, ~Saved, ~Saved', ~handler, ~handler', sp' = sp, NEW ws, NEW v, mem' = Write(mem, ws, v),
         \A w \in ws : w \in Words /\ w \notin RuntimeWords /\ ~Dead(w)
  PROVE  ViewMem' = Write(ViewMem, ws, v)
<1>1. \A w : Dead(w)' <=> Dead(w)
  BY DEF Dead, ViewSp
<1>2. \A w \in Words : (IF w \in RuntimeWords \/ Dead(w)' THEN 0 ELSE mem'[w])
                         = IF w \in ws THEN v ELSE ViewMem[w]
  BY <1>1, PlainState DEF Write
<1>3. ViewMem' = [w \in Words |-> IF w \in ws THEN v ELSE ViewMem[w]]
  BY <1>2, PlainStateNext
<1> QED  BY <1>3 DEF Write

LEMMA StoreView ==
  ASSUME Safe, LiveAccess, Exec, Store \/ Spill, ~in_spec, ~Saved, ~Saved'
  PROVE  Arch!Store \/ Arch!Spill
<1>0. TypeOK
  BY DEF Safe
<1>1. /\ status = "running" /\ ~handler /\ ~handler' /\ ViewIrq = irq /\ ViewIrq' = irq'
      /\ Arch!Faults <=> Faults
  BY ExecState
<1>2. UNCHANGED <<prog, sp, rets, irq, status>> /\ pc' = pc + 1
  BY DEF Store, Spill
<1>3. /\ ViewPc = pc /\ ViewPc' = pc' /\ ViewSp' = ViewSp /\ ViewSp = sp /\ ViewRets' = ViewRets
  BY <1>1, <1>2 DEF ViewPc, ViewSp, ViewRets
<1>4. CASE Store
  <2>1. prog[pc].op \in {"store", "memset", "asm"} /\ ~Faults
        /\ mem' = Write(mem, Touched(prog[pc].addr, prog[pc].size), prog[pc].val)
    BY <1>4 DEF Store
  <2>2. \A w \in Touched(prog[pc].addr, prog[pc].size) : w \in Words /\ w \notin RuntimeWords /\ ~Dead(w)
    BY <1>0, <1>1, <2>1, LiveWords DEF Accessed, Writes
  <2>3. ViewMem' = Write(ViewMem, Touched(prog[pc].addr, prog[pc].size), prog[pc].val)
    BY <1>0, <1>1, <1>2, <2>1, <2>2, WriteView
  <2> QED  BY <1>1, <1>2, <1>3, <2>1, <2>3 DEF Arch!Store, Arch!Write, Write, Arch!Touched, Touched, Arch!Words, Words
<1>5. CASE Spill
  <2>1. prog[pc].op = "spill" /\ mem' = Write(mem, {Frame(sp)}, prog[pc].val)
    BY <1>5 DEF Spill
  <2>2. \A w \in {Frame(sp)} : w \in Words /\ w \notin RuntimeWords /\ ~Dead(w)
    <3>1. Frame(sp) \in Words /\ Frame(sp) \notin RuntimeWords /\ ~Dead(Frame(sp))
      BY <1>0, <1>1, ProgramFrames, Zenon
    <3> QED  BY <3>1, Zenon
  <2>3. ViewMem' = Write(ViewMem, {Frame(sp)}, prog[pc].val)
    BY <1>0, <1>1, <1>2, <2>1, <2>2, WriteView
  <2> QED  BY <1>1, <1>2, <1>3, <2>1, <2>3 DEF Arch!Spill, Arch!Write, Write, Arch!Frame, Frame, Arch!Words, Words
<1> QED  BY <1>4, <1>5

LEMMA JumpView ==
  ASSUME Safe, Exec, Jump \/ SetIrq \/ Oops, ~in_spec, ~Saved, ~Saved'
  PROVE  Arch!Jump \/ Arch!SetIrq \/ Arch!Oops
<1>0. TypeOK
  BY DEF Safe
<1>1. /\ status = "running" /\ ~handler /\ ~handler' /\ ViewIrq = irq /\ ViewIrq' = irq'
      /\ Arch!Faults <=> Faults
  BY ExecState
<1>2. UNCHANGED <<prog, sp, rets, mem>>
  BY DEF Jump, SetIrq, Oops
<1>3. /\ ViewPc = pc /\ ViewPc' = pc' /\ ViewSp' = ViewSp /\ ViewRets' = ViewRets
  BY <1>1, <1>2 DEF ViewPc, ViewSp, ViewRets
<1>4. \A w : Dead(w)' <=> Dead(w)
  BY <1>3 DEF Dead
<1>5. ViewMem' = ViewMem
  BY <1>2, <1>4 DEF ViewMem, Restored
<1>6. CASE Jump
  BY <1>1, <1>2, <1>3, <1>5, <1>6 DEF Jump, Arch!Jump
<1>7. CASE SetIrq
  BY <1>1, <1>2, <1>3, <1>5, <1>7 DEF SetIrq, Arch!SetIrq
<1>8. CASE Oops
  BY <1>1, <1>2, <1>3, <1>5, <1>8 DEF Oops, Arch!Oops
<1> QED  BY <1>6, <1>7, <1>8

\* A call takes the next frame, a return gives one back.
LEMMA CallView ==
  ASSUME Safe, Exec, Call, ~in_spec, ~Saved, ~Saved'
  PROVE  Arch!Call
<1>0. TypeOK /\ sp \in 1..MaxSp /\ rets \in [1..MaxSp -> DOMAIN prog]
  BY DEF Safe, TypeOK, MachineType
<1>1. /\ status = "running" /\ ~handler /\ ~handler' /\ ViewIrq = irq /\ ViewIrq' = irq'
      /\ Arch!Faults <=> Faults
  BY ExecState
<1>2. /\ prog[pc].op = "call" /\ ~Faults /\ sp' = sp + 1 /\ rets' = [rets EXCEPT ![sp + 1] = pc + 1]
      /\ mem' = Write(mem, {Frame(sp + 1)}, 0) /\ pc' = prog[pc].to /\ UNCHANGED <<prog, irq, status>>
  BY DEF Call
<1>3. sp + 1 \in 1..MaxSp
  BY <1>0, <1>2, MachineAssumption DEF Faults
<1>4. /\ ViewPc = pc /\ ViewPc' = pc' /\ ViewSp = sp /\ ViewSp' = sp + 1
  BY <1>1, <1>2 DEF ViewPc, ViewSp
<1>5. ViewRets' = [ViewRets EXCEPT ![sp + 1] = pc + 1]
  <2>1. \A d \in 1..MaxSp : rets'[d] = IF d = sp + 1 THEN pc + 1 ELSE rets[d]
    BY <1>0, <1>2, <1>3
  <2>2. \A d \in 1..MaxSp : (IF d <= sp' THEN rets'[d] ELSE NoReturn)
                              = IF d = sp + 1 THEN pc + 1 ELSE ViewRets[d]
    BY <1>0, <1>1, <1>2, <2>1, PlainState
  <2>3. ViewRets' = [d \in 1..MaxSp |-> IF d = sp + 1 THEN pc + 1 ELSE ViewRets[d]]
    BY <1>1, <2>2, PlainStateNext
  <2> QED  BY <2>3 DEF ViewRets
<1>6. \A w \in Words : Dead(w) <=> Dead(w)' \/ w = Frame(sp + 1)
  <2>1. Frame(sp + 1) \in Words /\ Frame(sp + 1) \in StackWords
    BY <1>0, <1>1, ProgramFrames, Zenon DEF Dead
  <2>2. \A w \in Words : w < Frame(sp) <=> w < Frame(sp + 1) \/ w = Frame(sp + 1)
    BY <1>0, MachineAssumption DEF Words, Frame
  <2> QED  BY <1>4, <2>1, <2>2 DEF Dead
<1>7. ViewMem' = Write(ViewMem, {Frame(sp + 1)}, 0)
  <2>1. \A w \in Words : (IF w \in RuntimeWords \/ Dead(w)' THEN 0 ELSE mem'[w])
                           = IF w = Frame(sp + 1) THEN 0 ELSE ViewMem[w]
    BY <1>0, <1>1, <1>2, <1>6, PlainState DEF Write
  <2>2. ViewMem' = [w \in Words |-> IF w = Frame(sp + 1) THEN 0 ELSE ViewMem[w]]
    BY <1>1, <2>1, PlainStateNext
  <2> QED  BY <2>2 DEF Write
<1> QED  BY <1>1, <1>2, <1>4, <1>5, <1>7 DEF Arch!Call, Arch!Write, Write, Arch!Frame, Frame, Arch!Words, Words

LEMMA ReturnView ==
  ASSUME Safe, Exec, Return, ~in_spec, ~Saved, ~Saved'
  PROVE  Arch!Return
<1>0. TypeOK /\ sp \in 1..MaxSp /\ rets \in [1..MaxSp -> DOMAIN prog]
  BY DEF Safe, TypeOK, MachineType
<1>1. /\ status = "running" /\ ~handler /\ ~handler' /\ ViewIrq = irq /\ ViewIrq' = irq'
  BY ExecState
<1>2. prog[pc].op = "ret" /\ UNCHANGED <<prog, irq>> /\ ViewPc = pc /\ ViewSp = sp /\ ViewPc' = pc' /\ ViewSp' = sp'
  BY <1>1 DEF Return, ViewPc, ViewSp
<1>3. CASE sp = 1
  <2>1. status' = "exited" /\ UNCHANGED <<pc, sp, rets, mem>>
    BY <1>3 DEF Return
  <2>2. \A w : Dead(w)' <=> Dead(w)
    BY <1>2, <2>1 DEF Dead
  <2>3. ViewMem' = ViewMem /\ ViewRets' = ViewRets
    BY <1>2, <2>1, <2>2 DEF ViewMem, ViewRets, Restored
  <2> QED  BY <1>1, <1>2, <1>3, <2>1, <2>3 DEF Arch!Return
<1>4. CASE sp # 1
  <2>1. /\ pc' = rets[sp] /\ sp' = sp - 1 /\ rets' = [rets EXCEPT ![sp] = NoReturn]
        /\ mem' = Write(mem, {Frame(sp)}, 0) /\ UNCHANGED status
    BY <1>4 DEF Return
  <2>2. ViewRets[sp] = rets[sp]
    BY <1>0, <1>1, PlainState
  <2>3. ViewRets' = [ViewRets EXCEPT ![sp] = NoReturn]
    <3>1. \A d \in 1..MaxSp : rets'[d] = IF d = sp THEN NoReturn ELSE rets[d]
      BY <1>0, <2>1
    <3>2. \A d \in 1..MaxSp : (IF d <= sp' THEN rets'[d] ELSE NoReturn)
                                = IF d = sp THEN NoReturn ELSE ViewRets[d]
      BY <1>0, <1>1, <2>1, <3>1, PlainState
    <3>3. ViewRets' = [d \in 1..MaxSp |-> IF d = sp THEN NoReturn ELSE ViewRets[d]]
      BY <1>1, <3>2, PlainStateNext
    <3> QED  BY <3>3 DEF ViewRets
  <2>4. \A w \in Words : Dead(w)' <=> Dead(w) \/ w = Frame(sp)
    <3>1. Frame(sp) \in Words /\ Frame(sp) \in StackWords /\ Frame(sp) = Frame(sp - 1) - 1
      BY <1>0, <1>1, ProgramFrames, MachineAssumption DEF Frame, StackWords
    <3>2. \A w \in Words : w < Frame(sp - 1) <=> w < Frame(sp) \/ w = Frame(sp)
      BY <1>0, <3>1, MachineAssumption DEF Words, Frame
    <3> QED  BY <1>2, <2>1, <3>1, <3>2 DEF Dead
  <2>5. ViewMem' = Write(ViewMem, {Frame(sp)}, 0)
    <3>1. \A w \in Words : (IF w \in RuntimeWords \/ Dead(w)' THEN 0 ELSE mem'[w])
                             = IF w = Frame(sp) THEN 0 ELSE ViewMem[w]
      BY <1>0, <1>1, <2>1, <2>4, PlainState DEF Write
    <3>2. ViewMem' = [w \in Words |-> IF w = Frame(sp) THEN 0 ELSE ViewMem[w]]
      BY <1>1, <3>1, PlainStateNext
    <3> QED  BY <3>2 DEF Write
  <2> QED  BY <1>1, <1>2, <1>4, <2>1, <2>2, <2>3, <2>5
           DEF Arch!Return, Arch!Write, Write, Arch!Frame, Frame, Arch!Words, Words, Arch!NoReturn, NoReturn
<1> QED  BY <1>3, <1>4

LEMMA ExecInstruction ==
  ASSUME Safe, LiveAccess, Exec, ~in_spec, ~Saved, ~Saved'
  PROVE  Arch!MNext
<1>1. status = "running" /\ (Straight \/ Oops)
  BY ExecState
<1>2. Arch!Straight \/ Arch!Oops
  BY <1>1, StoreView, JumpView, CallView, ReturnView DEF Straight, Arch!Straight
<1> QED  BY <1>1, <1>2 DEF Arch!MNext, Arch!Instruction

\* Outside speculation a step is one of the kernel's or none.
LEMMA OutsideStep ==
  ASSUME ~Nmis, Kept, LiveAccess, ~in_spec, [Next]_vars
  PROVE  Arch!MNext \/ (View' = View /\ UNCHANGED <<prog, status>>)
<1>0. /\ Base /\ Safe /\ TypeOK /\ TodoInv /\ TickInv /\ SavedInv /\ ~Saved /\ ~Saved'
  BY NotSaved DEF Kept, Base, Safe
<1>1. CASE Exec
  BY <1>0, <1>1, ExecInstruction, Zenon
<1>2. CASE Select \/ HandleTick
  BY <1>0, <1>2, SelectBranch, TickTick DEF Arch!MNext, Arch!Instruction
<1>3. CASE \/ HookStore \/ HookMemcpy \/ HookRestart \/ HookCheckSpecLength \/ HookCheckCallDepth
           \/ HookNewCheckpoint \/ Restart \/ HookInterruptTimer \/ UnsetRt \/ SetWord \/ NewCheckpoint
           \/ SaveStack \/ SaveRegisters \/ InitData \/ InitDone
  BY <1>0, <1>3, PlainView
<1>4. CASE Enter \/ IrqRestore \/ TimerInterrupt \/ Iret \/ Fetch \/ Enable \/ SetSpecEnabled
  BY <1>0, <1>4, EnterView, IrqRestoreView, TimerView, IretView, FetchView
<1>5. ~(Memcpy \/ LogWord \/ RestartIrq \/ Undo \/ UndoInUse \/ Finish)
  <2> SUFFICES ASSUME Memcpy \/ LogWord \/ RestartIrq \/ Undo \/ UndoInUse \/ Finish PROVE FALSE
    OBVIOUS
  <2>1. todo # << >> /\ Op.op \in LogOps \cup RollbackOps
    BY DEF Memcpy, LogWord, RestartIrq, Undo, UndoInUse, Finish, At, Op, LogOps, RollbackOps
  <2>2. Allowed(Op, irq, handler, in_spec, init_done)
    BY <1>0, <2>1, TodoFacts
  <2> QED  BY <2>1, <2>2 DEF Allowed
<1>6. CASE UNCHANGED vars
  <2>1. \A w : Restored(w)' = mem'[w] /\ Restored(w) = mem[w] /\ mem' = mem
    BY <1>0, <1>6 DEF Restored, vars, mvars
  <2>2. UNCHANGED <<prog, pc, sp, rets, irq, status, todo, handler, regs>>
    BY <1>6 DEF vars, mvars, irqVars
  <2>3. ViewPc' = ViewPc /\ ViewSp' = ViewSp
    BY <1>0, <2>2 DEF ViewPc, ViewSp
  <2>4. ViewIrq' <=> ViewIrq
    BY <1>0, <2>2, IrqElems
  <2> QED  BY <1>0, <2>1, <2>2, <2>3, <2>4, OutsideView
<1> QED  BY <1>1, <1>2, <1>3, <1>4, <1>5, <1>6, NoNmis DEF Next, Cpu, Environment, Done

-----------------------------------------------------------------------------
(* In speculation *)

\* The return that would end the thread is never reached: it restarts.
LEMMA ReturnsDeep ==
  ASSUME Base, Saved, Exec, ~Faults, prog[pc].op = "ret"
  PROVE  sp > 1
<1>0. /\ Safe /\ TypeOK /\ TodoInv /\ in_spec /\ DepthInv
      /\ sp \in 1..MaxSp /\ spec_depth \in Nat /\ kregs.sp \in 1..MaxSp
  BY SavedHas DEF Base, Thread, Safe, TypeOK, MachineType, CountType, CkptType
<1>1. todo # << >> /\ Op.op = "exec" /\ status = "running"
  BY DEF Exec, At, Op
<1>2. ~handler
  BY <1>0, <1>1, TodoFacts DEF Allowed, HandlerOps, InterruptOps, RollbackOps
<1>3. Elems(todo) = {Op}
  BY <1>0, <1>1, TodoFacts DEF Precedes, LastOps
<1>4. ~Has(todo, "finish") /\ Has(todo, "exec") /\ ~Has(todo, "save_registers")
  BY <1>1, <1>3 DEF Has
<1>5. Uncounted
  BY <1>1, <1>3, <1>4 DEF Uncounted, IsReturn, RestartOps
<1>6. spec_depth + 1 = sp - kregs.sp
  BY <1>0, <1>1, <1>2, <1>4, <1>5 DEF DepthInv
<1> QED  BY <1>0, <1>6

LEMMA StillRunning ==
  ASSUME ~Nmis, Kept, SparesInUse, Saved, [Next]_vars
  PROVE  UNCHANGED <<prog, status>>
<1>0. /\ Base /\ Safe /\ SavedInv /\ in_spec /\ kregs.pc # NoInstr
      /\ ~NewCheckpoint /\ ~SaveStack /\ ~SaveRegisters /\ ~HandleTick /\ ~Iret /\ ~InitData
  BY SavedSteps DEF Kept, Base, Saved, SavedInv
<1>1. prog' = prog
  BY FewChange
<1>2. CASE Exec
  <2>1. CASE Faults
    BY <1>0, <2>1, <1>2 DEF Exec
  <2>2. CASE ~Faults
    <3>1. Straight
      BY <1>2, <2>2 DEF Exec
    <3>2. CASE Return
      <4>1. sp > 1
        BY <1>0, <1>2, <2>2, <3>2, ReturnsDeep DEF Return
      <4>2. sp # 1
        BY <1>0, <4>1 DEF Safe, TypeOK, MachineType
      <4> QED  BY <1>1, <3>2, <4>2 DEF Return
    <3>3. CASE Store \/ Spill \/ Jump \/ Call \/ SetIrq
      BY <3>3 DEF Store, Spill, Jump, Call, SetIrq
    <3> QED  BY <3>1, <3>2, <3>3 DEF Straight
  <2> QED  BY <2>1, <2>2
<1>3. CASE Finish
  BY <1>0, <1>1, <1>3 DEF Finish, Resume
<1>4. CASE \/ Fetch \/ HookStore \/ HookMemcpy \/ HookRestart \/ HookCheckSpecLength \/ HookCheckCallDepth
           \/ HookNewCheckpoint \/ Enter \/ IrqRestore \/ UnsetRt \/ Select \/ Memcpy \/ RestartIrq
           \/ HookInterruptTimer \/ InitDone \/ Enable \/ SetSpecEnabled \/ UNCHANGED vars
           \/ LogWord \/ Undo \/ Restart \/ TimerInterrupt \/ SetWord
  BY <1>4 DEF Fetch, HookStore, HookMemcpy, HookRestart, HookCheckSpecLength, HookCheckCallDepth,
         HookNewCheckpoint, Enter, IrqRestore, UnsetRt, Select, Memcpy, RestartIrq, HookInterruptTimer,
         InitDone, Enable, SetSpecEnabled, LogWord, Undo, Restart, TimerInterrupt, SetWord, vars, mvars
<1>5. ~UndoInUse
  BY DEF UndoInUse, SparesInUse
<1> QED  BY <1>0, <1>2, <1>3, <1>4, <1>5, NoNmis DEF Next, Cpu, Environment, Done

\* A kernel that has stopped does nothing.
LEMMA Runs == ASSUME [Next]_vars, ~UNCHANGED vars PROVE status = "running"
<1>1. Cpu => status = "running"
  BY DEF Cpu, Fetch, AtInstruction, Exec, HookStore, HookMemcpy, HookRestart, HookCheckSpecLength,
      HookCheckCallDepth, HookNewCheckpoint, Enter, EnterOps, IrqRestore, UnsetRt, SetWord, SaveStack, SavePartly,
      SaveRegisters, NewCheckpoint, Select, Memcpy, LogWord, Restart, HandleTick, Iret, InitData, InitDone,
      RestartIrq, Undo, UndoInUse, Finish, HookInterruptTimer, At
<1>2. Environment => status = "running"
  BY DEF Environment, TimerInterrupt, Nmi, NmiInUndo, NmiBetweenFlags, Enable, SetSpecEnabled, AtInstruction, At
<1> QED  BY <1>1, <1>2 DEF Next, Done

\* Without NMIs, and with stores of at most eight bytes (the hook of a store has
\* the address and not the size), no step of a speculation or of its rollback
\* changes what the restart leaves, or loses control: every write of the program
\* is logged before it is done (kspecem_write_wl), spills are in the copy of the
\* frame (kspecem_save_stack), and kspecem_restore_writelog undoes exactly these,
\* also when a timer interrupt, a fault or a full log cuts in anywhere.  That
\* the log has no word that the restore itself stands on is a hypothesis: the
\* restore does not see to it.
THEOREM RollbackAlwaysExact ==
  ASSUME ~Nmis, SmallStores PROVE Spec /\ []SparesInUse => RollbackExact
<1>1. Kept /\ SparesInUse /\ [Next]_vars => [Saved => View' = View /\ status' # "lost"]_vars
  <2> SUFFICES ASSUME Kept, SparesInUse, [Next]_vars, Saved, ~UNCHANGED vars
               PROVE  View' = View /\ status' # "lost"
    OBVIOUS
  <2>1. status = "running" /\ status' = status
    BY Runs, StillRunning
  <2> QED  BY <2>1, RollbackStepExact
<1> QED  BY <1>1, KeptAlways, PTL DEF Spec, RollbackExact

LEMMA Stutters == ASSUME UNCHANGED vars PROVE View' = View /\ UNCHANGED <<prog, status>>
BY DEF vars, mvars, cfgVars, modeVars, logVars, countVars, ckptVars, irqVars, View, ViewPc, ViewSp, ViewMem,
       ViewRets, ViewIrq, Dead, Restored, Saved, Logged, FirstEntry

LEMMA InsideStep ==
  ASSUME ~Nmis, Kept, SparesInUse, in_spec, [Next]_vars
  PROVE  View' = View /\ UNCHANGED <<prog, status>>
<1>1. CASE Saved
  BY <1>1, RollbackStepExact, StillRunning
<1>2. CASE ~Saved
  <2>1. Safe /\ ChainInv /\ CopyInv
    BY DEF Kept, Base
  <2>2. SaveStack \/ SaveRegisters \/ UNCHANGED vars
    BY <1>2, <2>1, SavingStep
  <2>3. CASE SaveStack \/ SaveRegisters
    <3>1. UNCHANGED <<prog, status>>
      BY <2>3 DEF SaveStack, SaveRegisters, mvars
    <3> QED  BY <1>2, <2>1, <2>3, <3>1, SaveStackView, SaveRegistersView
  <2> QED  BY <2>2, <2>3, Stutters
<1> QED  BY <1>1, <1>2

-----------------------------------------------------------------------------
(* Refinement *)

LEMMA ArchInit == Init => Arch!MInit
<1> SUFFICES ASSUME Init PROVE Arch!MInit
  OBVIOUS
<1>1. MInit /\ todo = << >> /\ ~in_spec /\ ~handler
  BY DEF Init
<1>2. ~Saved
  BY <1>1 DEF Saved
<1>3. ViewPc = 1 /\ ViewSp = 1
  BY <1>1, <1>2 DEF ViewPc, ViewSp, MInit
<1>4. ViewMem = [w \in Words |-> 0]
  <2>1. \A w \in Words : Restored(w) = 0
    BY <1>1, <1>2 DEF Restored, MInit
  <2> QED  BY <2>1 DEF ViewMem
<1>5. ViewRets = [d \in 1..MaxSp |-> NoReturn]
  BY <1>1 DEF ViewRets, MInit
<1>6. ViewIrq = TRUE
  BY <1>1 DEF ViewIrq, MInit
<1> QED  BY <1>1, <1>3, <1>4, <1>5, <1>6 DEF MInit, Arch!MInit, Arch!Words, Words, Arch!NoReturn, NoReturn

LEMMA ArchNext ==
  ASSUME ~Nmis
  PROVE  Kept /\ LiveAccess /\ SparesInUse /\ [Next]_vars => [Arch!MNext]_(Arch!mvars)
<1> SUFFICES ASSUME Kept, LiveAccess, SparesInUse, [Next]_vars PROVE Arch!MNext \/ Arch!mvars' = Arch!mvars
  OBVIOUS
<1>1. Arch!MNext \/ (View' = View /\ UNCHANGED <<prog, status>>)
  BY OutsideStep, InsideStep
<1>2. CASE View' = View /\ UNCHANGED <<prog, status>>
  <2>1. /\ ViewPc' = ViewPc /\ ViewSp' = ViewSp /\ ViewMem' = ViewMem /\ ViewRets' = ViewRets
        /\ ViewIrq' = ViewIrq
    BY <1>2 DEF View
  <2> QED  BY <1>2, <2>1 DEF Arch!mvars
<1> QED  BY <1>1, <1>2

\* Under the same hypotheses the emulation implements the uninstrumented machine,
\* as long as the instruction that the kernel is at leaves the stack below its
\* stack pointer alone, which is where interrupts and the hooks of the runtime
\* put their frames (the kernel is built without a red zone). Speculation,
\* kspecem_restart, the hooks and interrupts are stuttering steps of it.
THEOREM EmulationTransparent ==
  ASSUME ~Nmis, SmallStores PROVE Spec /\ []LiveAccess /\ []SparesInUse => Transparent
<1>1. Init => Arch!MInit
  BY ArchInit
<1>2. Kept /\ LiveAccess /\ SparesInUse /\ [Next]_vars => [Arch!MNext]_(Arch!mvars)
  BY ArchNext
<1> QED  BY <1>1, <1>2, KeptAlways, PTL DEF Spec, Transparent, Arch!MachineSpec

\* The data of a program, swap condition included, is not on the stack, but for
\* the outermost frame, which is never dead.
StaticData ==
  \A p \in Programs : \A k \in DOMAIN p : \A w \in Accessed(p[k]) : w \notin StackWords \/ w = Frame(1)

LEMMA StaticLive == ASSUME StaticData, Kept PROVE LiveAccess
<1>0. /\ TypeOK /\ SavedInv /\ prog \in Programs /\ pc \in DOMAIN prog /\ sp \in 1..MaxSp
      /\ kregs.pc \in SavedPc /\ kregs.sp \in 1..MaxSp /\ regs.pc \in SavedPc /\ regs.sp \in 1..MaxSp
  BY DEF Kept, Base, Safe, TypeOK, MachineType, CkptType, IrqType
<1>1. ViewPc \in DOMAIN prog /\ ViewSp \in 1..MaxSp
  BY <1>0 DEF ViewPc, ViewSp, SavedPc, SavedInv
<1>2. ~Dead(Frame(1))
  BY <1>1, MachineAssumption DEF Dead, Frame
<1>3. \A w \in Accessed(prog[ViewPc]) : w \notin StackWords \/ w = Frame(1)
  BY <1>0, <1>1 DEF StaticData
<1> QED  BY <1>2, <1>3 DEF LiveAccess, Dead

\* Without NMIs, every program with stores of at most eight bytes whose data is
\* outside the stack or in its outermost frame computes under emulation what it
\* computes without (Machine): here the condition on the stack is one on the
\* text of the program, not on its executions.
THEOREM StaticTransparent ==
  ASSUME ~Nmis, SmallStores, StaticData PROVE Spec /\ []SparesInUse => Transparent
<1>1. Kept => LiveAccess
  BY StaticLive
<1> QED  BY <1>1, KeptAlways, EmulationTransparent, PTL

-----------------------------------------------------------------------------
(* Timer interrupts *)

LEMMA TickStays ==
  ASSUME ~Nmis, ReadOnly = {}, Safe, [Next]_vars, Has(todo, "tick"), ~At("tick")
  PROVE  Has(todo', "tick")
<1>0. TypeOK /\ TodoInv
  BY DEF Safe
<1>1. PICK x \in Elems(todo) : x.op = "tick"
  BY DEF Has
<1>2. todo # << >> /\ handler /\ ~irq
  <2>1. todo # << >>
    BY <1>1, Short
  <2>2. handler
    BY <1>0, <1>1 DEF TodoInv, Code, Allowed, InterruptOps
  <2> QED  BY <2>1, <2>2 DEF Safe, RegsInv
<1>3. Op.op \in HandlerOps /\ (Op.op = "finish" => Op.a = 1) /\ Op \in MicroOp
  BY <1>0, <1>2, TodoFacts DEF Allowed
<1>4. Elems(todo) = {Op} \cup Elems(Rest) /\ (Op.op \notin LastOps \/ x = Op)
  BY <1>0, <1>1, <1>2, TodoFacts DEF Precedes
<1>5. status # "running" \/ Op.op # "tick"
  BY <1>2 DEF At, Op
<1>6. CASE UNCHANGED vars
  BY <1>1, <1>6 DEF vars, Has
<1>7. CASE ~UNCHANGED vars
  <2>1. Cpu
    BY <1>2, <1>7, NoNmis DEF Next, Environment, Done, TimerInterrupt, Enable, SetSpecEnabled, AtInstruction
  <2>2. status = "running"
    BY <1>7, Runs
  <2>3. x \in Elems(Rest) /\ Op.op \notin {"iret", "tick"}
    BY <1>1, <1>4, <1>5, <2>2 DEF LastOps
  <2>4. \/ HookStore \/ HookRestart \/ HookCheckSpecLength \/ Enter \/ IrqRestore \/ UnsetRt \/ SetWord
        \/ Restart \/ RestartIrq \/ Undo \/ UndoInUse \/ Finish \/ HookInterruptTimer
    BY <1>2, <1>3, <2>1, <2>3, NoNmis DEF Cpu, Fetch, AtInstruction, Exec, HookMemcpy,
        HookCheckCallDepth, HookNewCheckpoint, SaveStack,
        SaveRegisters, NewCheckpoint, Select, Memcpy, LogWord, HandleTick, Iret, InitData, InitDone,
        At, Op, HandlerOps, InterruptOps, RollbackOps
  <2>5. ASSUME NEW s \in Seq(MicroOp), Continue(s) PROVE Has(todo', "tick")
    <3>1. Elems(todo') = Elems(s) \cup Elems(Rest)
      BY <1>0, <1>2, <2>5, Replaced
    <3> QED  BY <1>1, <2>3, <3>1 DEF Has
  <2>6. CASE HookStore \/ HookRestart \/ HookCheckSpecLength \/ Restart \/ RestartIrq \/ HookInterruptTimer
    <3>1. \E s : Common(s) /\ Continue(s)
      BY <2>6, Continuation
    <3> QED  BY <2>5, <3>1 DEF Common
  <2>7. CASE IrqRestore \/ UnsetRt \/ SetWord \/ Finish
    <3>1. Op.op = "finish" => Op.a # 0
      BY <1>3
    <3>2. Continue(<< >>)
      BY <2>7, <3>1 DEF IrqRestore, UnsetRt, SetWord, Finish, At, Op
    <3> QED  BY <2>5, <3>2, SeqEmpty
  <2>8. CASE Enter
    <3>1. Op.op \in EnterOps /\ Continue(Runtime(Op, irq)) /\ irq \in BOOLEAN /\ prog[pc] \in Instr
      BY <1>0, <2>8, TypeFacts DEF Enter, At, Op, TypeOK, MachineType
    <3>2. Runtime(Op, irq) \in Seq(MicroOp)
      BY <1>3, <3>1, RuntimeCode DEF RuntimeFacts, Made, Sound
    <3> QED  BY <2>5, <3>1, <3>2
  <2>9. CASE Undo \/ UndoInUse
    <3>1. Continue(<< >>) \/ todo' = todo
      BY <2>9, Zenon DEF Undo, UndoInUse
    <3> QED  BY <1>1, <2>5, <3>1, SeqEmpty DEF Has
  <2> QED  BY <2>4, <2>6, <2>7, <2>8, <2>9
<1> QED  BY <1>6, <1>7

\* Without NMIs and without pages that are mapped read-only, every timer interrupt
\* is handled: kspecem_hook_interrupt_timer returns to the kernel's handler
\* whatever the rollback it starts had to undo. The read-only neighbour of an
\* unaligned write is then the only way to lose one.
THEOREM TimerAlwaysHandled == ASSUME ~Nmis, ReadOnly = {} PROVE Spec => TimerHandled
<1>1. Safe /\ [Next]_vars =>
        [(\E k \in DOMAIN todo : todo[k].op = "tick") /\ ~At("tick")
           => \E k \in DOMAIN todo' : todo'[k].op = "tick"]_vars
  BY TickStays DEF Has, Elems
<1> QED  BY <1>1, SafeAlways, PTL DEF Spec, TimerHandled
=============================================================================
