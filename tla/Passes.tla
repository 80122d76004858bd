------------------------------- MODULE Passes -------------------------------
(****************************************************************************)
(* The instrumentation passes (passes/): what KSpecEm, KSpecEmSpec,         *)
(* KSpecEmPfChecker and KSpecEmCheckSpecLength do to one function.  They    *)
(* are plugins that run one after the other, in the order the build loads   *)
(* them, each on what the earlier ones left.                                *)
(*                                                                          *)
(* A function is a sequence of basic blocks, a block a sequence of          *)
(* instructions.  Bit casts and the address intrinsics that fetch a hook's  *)
(* arguments are left out.                                                  *)
(****************************************************************************)
EXTENDS Naturals, Sequences, FiniteSets, SequencesExt, Relation

CONSTANT Sources   \* the functions to compile

VARIABLES
  fn,     \* the function
  done    \* the passes that have run, in their order

vars == <<fn, done>>

PassNames == {"kspecem", "kspecem-spec", "kspecem-pf-checker", "kspecem-check-spec-length"}

Ran(p)       == p \in ToSet(done)
Before(p, q) == \E j, k \in DOMAIN done : j < k /\ done[j] = p /\ done[k] = q

-----------------------------------------------------------------------------
(* Instructions *)

\* What an inline assembly's text is: empty, in the table of exempt texts (some
\* of them only without memory operands), two texts of the table that begin with
\* a label, texts that merely begin with the same label, and any other.
AsmTexts == {"", "cli", "bswapq", "1:bug_table", "c:reachable", "1:other", "c:other", "other"}

ProgramOps == {"load", "store", "memset", "call", "icall", "asm", "br", "condbr", "ret"}

\* The functions that the init of each pass declares, for its visitors to call.
KSpecEmInit ==
  {"hook_store", "hook_memcpy", "hook_restart", "hook_interrupt_timer", "hook_interrupt_exception"}
KSpecEmSpecInit ==
  {"hook_new_checkpoint", "save_registers", "hook_save_stack", "hook_leave_rt",
   "hook_check_call_depth"}
KSpecEmPfCheckerInit == {"hook_access"}
KSpecEmCheckSpecLengthInit == {"hook_check_spec_length"}

Declares(p) ==
  CASE p = "kspecem"                   -> KSpecEmInit
    [] p = "kspecem-spec"              -> KSpecEmSpecInit
    [] p = "kspecem-pf-checker"        -> KSpecEmPfCheckerInit
    [] p = "kspecem-check-spec-length" -> KSpecEmCheckSpecLengthInit

HookOps == {"select"} \cup UNION {Declares(p) : p \in PassNames}

\* ptr names the pointer that is used: the program's own, the one hook_access
\* returned, or a variable of the runtime.
Instr ==
  [op : ProgramOps \cup HookOps, own : BOOLEAN, ptr : {"none", "own", "access", "swap", "regs"},
   asan : BOOLEAN, text : AsmTexts, mem : BOOLEAN, arg : Nat, to : SUBSET Nat]

Plain(op, ptr, arg) ==
  [op |-> op, own |-> FALSE, ptr |-> ptr, asan |-> FALSE, text |-> "", mem |-> FALSE,
   arg |-> arg, to |-> {}]

Hook(op, arg) == Plain(op, "none", arg)

IsTerminator(i) == i.op \in {"br", "condbr", "ret"}

\* Every instruction i of a block is replaced by the sequence New(i).
Expand(block, New(_)) == FlattenSeq([k \in DOMAIN block |-> New(block[k])])

Each(blocks, New(_)) == [b \in DOMAIN blocks |-> Expand(blocks[b], New)]

-----------------------------------------------------------------------------
(* Names and lists *)

Categories == {"blacklist", "timer", "exception", "nospec"}

\* The entries of the function lists that the names of the model match.
ABIList(name) ==
  CASE name = "kdfsan_alloc_page" -> {"blacklist", "nospec"}
    [] name = "timer_interrupt"   -> {"timer"}
    [] name \in {"exc_page_fault", "exc_nmi"} -> {"exception"}
    [] name \in {"kspecem_", "__dfsan", "stop_nmi", "restart_nmi"} -> {"nospec"}
    [] OTHER -> {}

\* A mutant: the suffix of a promoted function stays part of its name.
isIn_KeepSuffix(f, c) == c \in f.src \/ (~f.suffixed /\ c \in ABIList(f.name))

\* The prefix of the KDFSan pass and the suffix ".llvm." are stripped.
isIn(f, c) == c \in f.src \/ c \in ABIList(f.name)

\* Comparisons with the full name.
startswith(f, name) == f.name = name /\ ~f.prefixed
equals(f, name)     == f.name = name /\ ~f.prefixed /\ ~f.suffixed

-----------------------------------------------------------------------------
(* KSpecEm *)

RestartHook(type) == <<Hook("hook_restart", type)>>

\* The table of inline assembly that needs no restart.  The literals of the two
\* texts with a label contain "\0" and end there: the label is all they compare.
Exempt(i) ==
  \/ i.text = ""
  \/ i.text = "cli"
  \/ ~i.mem /\ i.text \in {"bswapq", "1:bug_table", "1:other", "c:reachable", "c:other"}

\* A mutant: only inline assembly restarts.
CallHook_AsmOnly(f, i) == IF i.op = "asm" /\ ~Exempt(i) THEN RestartHook(3) ELSE << >>

\* The restart before a call: 2 for an indirect one, 3 for inline assembly.
CallHook(f, i) ==
  IF isIn(f, "nospec") THEN << >>
  ELSE CASE i.op = "icall"             -> RestartHook(2)
         [] i.op = "asm" /\ ~Exempt(i) -> RestartHook(3)
         [] OTHER                      -> << >>

ReturnHook(f) == IF isIn(f, "nospec") THEN << >> ELSE RestartHook(0)

\* A mutant: functions without speculation log nothing.
WriteHook_NotNospec(f, i) ==
  IF isIn(f, "nospec") THEN << >>
  ELSE <<Plain(IF i.op = "store" THEN "hook_store" ELSE "hook_memcpy", i.ptr, 0)>>

WriteHook(f, i) ==
  IF startswith(f, "kspecem_") THEN << >>
  ELSE <<Plain(IF i.op = "store" THEN "hook_store" ELSE "hook_memcpy", i.ptr, 0)>>

KSpecEmVisit(f, i) ==
  (CASE i.op \in {"store", "memset"} -> WriteHook(f, i)
     [] i.op \in {"call", "icall", "asm"} -> CallHook(f, i)
     [] i.op = "ret" -> ReturnHook(f)
     [] OTHER -> << >>) \o <<i>>

Prepend(s, blocks) == [blocks EXCEPT ![1] = s \o @]

\* A mutant: the early return is missing, the branch goes nowhere.
Split_NoReturn(f, blocks) ==
  LET n == Len(blocks) IN
  [blocks EXCEPT ![1] =
     <<Hook("hook_interrupt_exception", 0), [Hook("condbr", 0) EXCEPT !.to = {n + 1, n + 2}]>>]
    \o <<blocks[1]>>

\* The handler of an exception: its entry block moves behind the hook and a
\* branch that returns early in speculation.
Split(f, blocks) ==
  LET n == Len(blocks) IN
  [blocks EXCEPT ![1] =
     <<Hook("hook_interrupt_exception", IF equals(f, "exc_page_fault") THEN 1 ELSE 0),
       [Hook("condbr", 0) EXCEPT !.to = {n + 1, n + 2}]>>]
    \o <<blocks[1], <<Hook("ret", 0)>>>>

KSpecEm(f) ==
  CASE isIn(f, "blacklist") -> Prepend(RestartHook(4), f.blocks)
    [] ~isIn(f, "blacklist") /\ isIn(f, "timer") ->
         Prepend(<<Hook("hook_interrupt_timer", 0)>>, f.blocks)
    [] ~isIn(f, "blacklist") /\ ~isIn(f, "timer") /\ isIn(f, "exception") ->
         Split(f, f.blocks)
    [] OTHER -> LET New(i) == KSpecEmVisit(f, i) IN Each(f.blocks, New)

-----------------------------------------------------------------------------
(* KSpecEmSpec *)

NewCheckpointHook ==
  <<Hook("hook_new_checkpoint", 0), Hook("hook_save_stack", 0), Plain("load", "regs", 0),
    Hook("save_registers", 0), Hook("hook_leave_rt", 0)>>

\* The branch with its condition selected and the swap condition cleared.
BranchVisit(i) ==
  (IF i.op = "condbr"
     THEN NewCheckpointHook \o <<Plain("load", "swap", 0), Hook("select", 0), Plain("store", "swap", 0)>>
     ELSE << >>) \o <<i>>

\* A mutant: functions without speculation are instrumented too.
SpecSkips_NotNospec(f) == \E c \in {"blacklist", "exception", "timer"} : isIn(f, c)

SpecSkips(f) == \E c \in {"blacklist", "exception", "timer", "nospec"} : isIn(f, c)

KSpecEmSpec(f) ==
  IF SpecSkips(f) THEN f.blocks
  ELSE Each(Prepend(<<Hook("hook_check_call_depth", 0)>>, f.blocks), BranchVisit)

-----------------------------------------------------------------------------
(* KSpecEmPfChecker *)

\* A mutant: accesses that KASAN does not check are redirected as well.
IsAccess_All(i) == i.op \in {"load", "store", "memset"}

IsAccess(i) == i.op \in {"load", "store", "memset"} /\ i.asan

\* The hook gets the pointer; the access then uses what the hook returns.
AccessVisit(i) ==
  IF IsAccess(i) THEN <<Plain("hook_access", i.ptr, 0), [i EXCEPT !.ptr = "access"]>> ELSE <<i>>

KSpecEmPfChecker(f) == Each(f.blocks, AccessVisit)

-----------------------------------------------------------------------------
(* KSpecEmCheckSpecLength *)

LengthSkips(f) ==
  \/ startswith(f, "__dfsan") \/ startswith(f, "kspecem_")
  \/ equals(f, "stop_nmi") \/ equals(f, "unset_rt")
  \/ f.module = "kdfsan"

\* A mutant: only the blocks that leave the function are counted.
LengthVisit_Returns(n, i) ==
  (IF i.op = "ret" THEN <<Hook("hook_check_spec_length", n)>> ELSE << >>) \o <<i>>

\* A hook before the terminator, with the length n of the block.
LengthVisit(n, i) ==
  (IF IsTerminator(i) THEN <<Hook("hook_check_spec_length", n)>> ELSE << >>) \o <<i>>

KSpecEmCheckSpecLength(f) ==
  IF LengthSkips(f) THEN f.blocks
  ELSE [b \in DOMAIN f.blocks |->
          LET New(i) == LengthVisit(Len(f.blocks[b]), i) IN Expand(f.blocks[b], New)]

-----------------------------------------------------------------------------
Init == fn \in Sources /\ done = << >>

\* A pass runs on the function's module, unless that is the runtime library.
Run(p, blocks) ==
  /\ ~Ran(p)
  /\ done' = Append(done, p)
  /\ fn' = IF fn.module = "libkspecem.a" THEN fn ELSE [fn EXCEPT !.blocks = blocks]

RunKSpecEm                == Run("kspecem", KSpecEm(fn))
RunKSpecEmSpec            == Run("kspecem-spec", KSpecEmSpec(fn))
RunKSpecEmPfChecker       == Run("kspecem-pf-checker", KSpecEmPfChecker(fn))
RunKSpecEmCheckSpecLength == Run("kspecem-check-spec-length", KSpecEmCheckSpecLength(fn))

Next == RunKSpecEm \/ RunKSpecEmSpec \/ RunKSpecEmPfChecker \/ RunKSpecEmCheckSpecLength

Spec == Init /\ [][Next]_vars

-----------------------------------------------------------------------------
(* What the runtime's model takes the passes to do *)

\* SpecEm with the order in which the passes ran; its state plays no part.
RuntimeModel(swapHooked, afterKSpecEm, afterSpec) == INSTANCE SpecEm WITH
  Programs <- {}, NWords <- 0, MaxSp <- 1, StackSize <- 5, ReadOnly <- {}, NoAccess <- {},
  MaxTicks <- 0, WlMax <- 0, MaxInstrs <- 0, MaxDepth <- 0, RestartNmiInsts <- 0,
  SwapStoreHooked <- swapHooked, LengthAfterKSpecEm <- afterKSpecEm,
  LengthAfterSpec <- afterSpec, Nmis <- FALSE,
  prog <- 0, pc <- 0, sp <- 0, rets <- 0, mem <- 0, irq <- 0, status <- 0, todo <- 0,
  init_done <- 0, swap_enabled <- 0, in_spec <- 0, wl_enabled <- 0, in_rt <- 0,
  in_restart <- 0, wl_addrs <- 0, wl_data <- 0, wl_pos <- 0, instr_count <- 0,
  spec_depth <- 0, kregs <- 0, wl_stack <- 0, wl_base <- 0, handler <- 0, regs <- 0

\* The micro-operations of SpecEm for an instruction of the compiled function;
\* those of the saving hooks are part of enter_checkpoint.
MicroOps(i) ==
  LET U(op, a) == <<[op |-> op, a |-> a, n |-> 0]>> IN
  CASE i.op = "hook_store" /\ i.ptr = "swap" -> U("hook_store", 8)
    [] i.op = "store" /\ i.ptr = "swap" -> U("set", 1)
    [] i.op \in {"hook_store", "hook_memcpy", "hook_check_call_depth", "hook_new_checkpoint",
                 "hook_check_spec_length", "select"} /\ i.ptr # "swap" -> U(i.op, 0)
    [] i.op = "hook_restart" -> U(i.op, i.arg)
    [] i.own /\ i.op # "condbr" -> U("exec", 0)
    [] OTHER -> << >>

\* The program's instructions as SpecEm has them, with its sizes and addresses
\* left open.
Instruction(i) ==
  LET I(op, to) == [op |-> op, addr |-> 0, size |-> 0, val |-> 0, to |-> to, alt |-> 0] IN
  CASE i.op \in {"store", "memset", "ret"} -> I(i.op, 0)
    [] i.op = "icall"  -> I("asm", 2)
    [] i.op = "asm"    -> IF Exempt(i) THEN I("cli", 0) ELSE I("asm", 3)
    [] i.op = "condbr" -> I("branch", 0)
    [] i.op = "br"     -> I("jump", 0)
    [] OTHER           -> I("spill", 0)

\* What SpecEm executes for an instruction.
Executed(i, swapHooked, afterKSpecEm, afterSpec) ==
  LET j == Instruction(i) IN
  RuntimeModel(swapHooked, afterKSpecEm, afterSpec)!Instrument(j) \o
    IF i.op = "condbr"
      THEN RuntimeModel(swapHooked, afterKSpecEm, afterSpec)!SwapBranch
             \o RuntimeModel(swapHooked, afterKSpecEm, afterSpec)!LengthHook(j, afterSpec)
      ELSE << >>

\* What it executes for the start of a function, and for stop_nmi and restart_nmi.
ExecutedEntry == RuntimeModel(FALSE, FALSE, FALSE)!visitEntry
ExecutedNmi(name) ==
  IF name = "stop_nmi" THEN RuntimeModel(FALSE, FALSE, FALSE)!stop_nmi
                       ELSE RuntimeModel(FALSE, FALSE, FALSE)!restart_nmi

\* The program's instructions of a block.
Own(block) == SelectSeq(block, LAMBDA i : i.own)

-----------------------------------------------------------------------------
(* Properties *)

Instrumented == fn.module # "libkspecem.a"

\* What the lists say of the function, however its name is mangled.
In(c) == c \in fn.src \cup ABIList(fn.name)

Op(b, k) == fn.blocks[b][k]

\* The type invariant: instructions, each block ended by its only terminator,
\* every branch to a block of the function, and no hook that no pass declared.
TypeOK ==
  /\ done \in Seq(PassNames) /\ IsInjective(done)
  /\ \A b \in DOMAIN fn.blocks :
       /\ fn.blocks[b] \in Seq(Instr) /\ fn.blocks[b] # << >>
       /\ \A k \in DOMAIN fn.blocks[b] :
            /\ IsTerminator(Op(b, k)) <=> k = Len(fn.blocks[b])
            /\ Op(b, k).to \subseteq DOMAIN fn.blocks
            /\ \A p \in PassNames : Op(b, k).op \in Declares(p) => Ran(p)

\* kspecem_spec_call_depth is incremented on entry exactly by the functions of
\* which every return decrements it (two passes, each with its own skips).
DepthBalanced ==
  Ran("kspecem") /\ Ran("kspecem-spec") =>
    \A b \in DOMAIN fn.blocks :
      LET block == fn.blocks[b] IN
      Last(block).op = "ret" =>
        Len(SelectSeq(fn.blocks[1], LAMBDA i : i.op = "hook_check_call_depth"))
          = Len(SelectSeq(block, LAMBDA i : i.op = "hook_restart" /\ i.arg = 0))

\* In code that may run speculatively every write of the program is logged
\* right before it, by the pointer it goes to unless hook_access replaces that
\* later on.  (The handlers of interrupts never run in speculation, blacklisted
\* functions end it.)
WritesLogged ==
  Ran("kspecem") /\ Instrumented /\ fn.name # "kspecem_"
    /\ ~In("blacklist") /\ ~In("timer") /\ ~In("exception") =>
    \A b \in DOMAIN fn.blocks : \A k \in DOMAIN fn.blocks[b] :
      Op(b, k).own /\ Op(b, k).op \in {"store", "memset"} =>
        \E j \in 1..(k - 1) :
          /\ Op(b, j).op = IF Op(b, k).op = "store" THEN "hook_store" ELSE "hook_memcpy"
          /\ Op(b, j).ptr = IF Before("kspecem", "kspecem-pf-checker") THEN "own" ELSE Op(b, k).ptr
          /\ \A l \in (j + 1)..(k - 1) : Op(b, l).op = "hook_access"

\* Nothing of a blacklisted function runs before its restart, and no handler
\* before its hook, whatever the order of the passes.
HookFirst ==
  Ran("kspecem") /\ Instrumented =>
    /\ In("blacklist") => Op(1, 1).op = "hook_restart" /\ Op(1, 1).arg = 4
    /\ In("timer") /\ ~In("blacklist") => Op(1, 1).op = "hook_interrupt_timer"
    /\ In("exception") /\ ~In("timer") /\ ~In("blacklist") =>
         Op(1, 1).op = "hook_interrupt_exception"

\* Every loop is counted: each block on a cycle has a length hook that counts
\* at least the program's instructions (the hook that ends endless speculation).
LoopsCounted ==
  LET edge == [x, y \in DOMAIN fn.blocks |-> y \in Last(fn.blocks[x]).to]
      path == TransitiveClosure(edge, DOMAIN fn.blocks)
  IN  Ran("kspecem-check-spec-length") /\ fn.module \in {"kernel", "test_kdfsan"}
        /\ fn.name \notin {"kspecem_", "__dfsan", "stop_nmi", "unset_rt"} =>
        \A b \in DOMAIN fn.blocks : path[b, b] =>
          \E k \in DOMAIN fn.blocks[b] :
            Op(b, k).op = "hook_check_spec_length" /\ Op(b, k).arg >= Len(Own(fn.blocks[b]))

\* Between the start of a checkpoint and leave_rt no pass puts another hook:
\* registers and stack are saved in one go.
CheckpointAtomic ==
  \A b \in DOMAIN fn.blocks : \A k \in DOMAIN fn.blocks[b] :
    Op(b, k).op = "hook_new_checkpoint" => SubSeq(fn.blocks[b], k, k + 4) = NewCheckpointHook

\* SpecEm executes what the passes produce, for every order of the passes: the
\* hooks of each instruction, of a function's entry, and of stop_nmi and
\* restart_nmi, in their order.
MatchesRuntime ==
  (PassNames \ {"kspecem-pf-checker"}) \subseteq ToSet(done) /\ fn.module = "kernel" =>
    /\ fn.name = "plain" /\ fn.src = {} =>
         \A swapHooked, afterKSpecEm, afterSpec \in BOOLEAN :
           /\ swapHooked   = Before("kspecem-spec", "kspecem")
           /\ afterKSpecEm = Before("kspecem", "kspecem-check-spec-length")
           /\ afterSpec    = Before("kspecem-spec", "kspecem-check-spec-length")
           => LET New(i) == Executed(i, swapHooked, afterKSpecEm, afterSpec) IN
              \A b \in DOMAIN fn.blocks :
                Expand(fn.blocks[b], MicroOps) =
                  (IF b = 1 THEN ExecutedEntry ELSE << >>) \o Expand(Own(fn.blocks[b]), New)
    /\ fn.name \in {"stop_nmi", "restart_nmi"} =>
         [k \in DOMAIN ExecutedNmi(fn.name) |-> ExecutedNmi(fn.name)[k].op] =
           FlattenSeq([k \in DOMAIN fn.blocks[1] |->
             LET i == fn.blocks[1][k] IN
             CASE i.op = "store" -> <<"add">>
               [] i.op \in {"hook_store", "hook_check_spec_length"} -> <<i.op>>
               [] OTHER -> << >>])
=============================================================================
