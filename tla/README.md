# Kasper in TLA+

Kasper looks for transient-execution gadgets in the Linux kernel. LLVM passes
(`src/passes`) instrument the kernel; a static library (`src/static/kspecem`)
is the runtime that the hooks call. At a conditional branch the runtime takes a
checkpoint, lets the branch go the wrong way, and logs every write until
something that cannot be emulated, a limit, a fault or an interrupt forces a
restart; the restart undoes the writes and resumes behind the checkpoint. In
between, the sanitizers report suspicious accesses.

The library has no locks and no threads of its own. It is hard because it is
interrupted anywhere, because its hooks nest in each other, and because its
rollback must be exact while it runs on the stack that it rolls back.

## Inventory

| Component | State | Operations | Interacts with |
|---|---|---|---|
| Runtime: `kspecem_interface.c`, `kspecem_internal.c` | `kspecem_in_speculative_emulation`, `kspecem_is_in_rt`, `kspecem_is_in_restart`, `kspecem_swap_branch_condition`, instruction count, call depth | the `kspecem_hook_*` functions, `kspecem_new_checkpoint`, `kspecem_restart` | called by instrumented code; calls all the others |
| Write log: `kspecem_undolog.c` | `kspecem_writelog_addrs`, `_data`, `kspecem_wl_position`, `_enabled` | `kspecem_store`, `kspecem_memcpy`, `kspecem_restore_writelog` | reads and writes any kernel memory |
| Stack copy, registers: `kspecem_stack.c`, `kspecem_regs.S` | `kspecem_wl_stack`, its base, `kspecem_registers` | save, restore | the checkpoint saves, the restart restores |
| Interrupts: `kspecem_interrupt.c` | the handler's `pt_regs` | timer and exception hooks | replace `pt_regs`, call `kspecem_restart(1, ...)` |
| Passes: `KSpecEm`, `KSpecEmSpec`, `KSpecEmCheckSpecLength`, `KSpecEmPfChecker` | none at run time | which hook goes before which instruction | the order of the passes is given outside the repository |
| Reports: `kspecem_bugs.c`, `kspecem_report.c` | list of pending reports, map of reported instructions, print level | report hooks, print and clear | printed by `kspecem_restart` |
| Assertions: `kspecem_assert.c` | `kspecem_spec_assert` | `kspecem_panic` | panics, or restarts and then panics |
| Initialisation, debugfs: `kspecem_init.c` | `kspecem_init_done`, settings | enable, settings | |
| Restart statistics: `kspecem_stats_restarts.c`, `kspecem_stats_inlineasm.c` | counters, a sorted list of bounded length | count a restart, print | counted by `kspecem_restart` before the rollback |
| Page-fault checker: `kspecem_pf_checker.c` | the dummy region | `kspecem_access`, from `kspecem_hook_access` | replaces pointers before the write log and the access see them, or after the log has |
| Speculation trace: `kspecem_statistics.c` | an array of events and its index | append; restarted by a checkpoint | printed by a panic |
| Whitelist: `kspecem_whitelist.c`; string utilities: `kspecem_utils.c` | the type of the whitelist | `kspecem_is_whitelist_task`, `kspecem_strncmp`, ... | the checkpoint hook asks the whitelist |
| KDFSan glue, `count-instrs`, scripts | | | external, compile time, or I/O |

What is hard in them is the list of hazards in `PROJECT.json`, each at its
line: a timer interrupt at any point of a speculation, faults inside the
rollback, hooks nested in the runtime, the balance of NMI blocking that only the
log restores, the call depth kept by two hooks with different guards, state that
an early return leaves stale, and lists at their limit.

The configuration that the repository builds and boots has one CPU
(`CONFIG_SMP` off, `nosmp`), no preemption and no NMI watchdog
(`taskfiles/TasksKernel.yml:38-41`, `scripts/run-qemu.sh:4`). The model has the
same, one thread and its interrupts. The runtime goes to some length to block
NMIs; where `Nmis` holds there are some, and what is left of the properties then is
a question of its own.

## Modules

`Machine` is the abstract specification: a kernel thread that runs a program
without instrumentation. Its instructions are the ones that the emulation tells
apart: stores of up to 8 bytes, memory intrinsics, spills that LLVM IR does not
show, conditional branches, jumps (the end of a block), calls, function entries
and returns, code that cannot be emulated (`asm`: an indirect call, inline
assembly, a blacklisted function), `cli`/`sti` and a trap. Memory is an array of
8-byte words, the granularity of the log; programs use byte addresses, so
unaligned writes exist. Three words are kernel variables: `ignore_nmis`, the swap condition,
and what the timer handler counts. The stack has one word for each frame of the
program. Words may be read-only
or unmapped. `Tick` is a timer interrupt, `Oops` an exception that the kernel
itself has to handle. All of this is external to the repository.

`SpecEm` is the instrumented thread and the runtime. It keeps the runtime's
variables under the source's names without the `kspecem_` prefix (`in_spec`
is `kspecem_in_speculative_emulation`, `in_rt` is `kspecem_is_in_rt`).
The code between two instructions is a sequence `todo` of micro-operations.
`Instrument` says which hooks the passes put before an instruction, `Runtime`
what a hook does; each micro-operation is one action, and an interrupt may come
before each of them while interrupts are enabled. The order inside a hook is
that of the source, with the nested hooks: `ENTER_KSPECEM_RT` calls `stop_nmi`,
whose store of `ignore_nmis` has a store hook of its own, which may log, fill the
log, and restart. `kspecem_restart` is the operations `restart` (checks, and the
early return for a `ret` inside the speculation), `undo` (one pass of the restore
loop each) and `finish`. Called from an interrupt (`arg` = 1) it returns and
`Iret` loads the replaced `pt_regs`; called from a hook it resumes at once. Both
resume behind `kspecem_asm_save_registers`, so the code after it
(`AfterSaveRegisters`: leave the runtime, select, clear the swap condition) runs
twice for every checkpoint.

Three constants stand for what the repository leaves open, the order of the
passes: `SwapStoreHooked` (the store that clears the swap condition has a store
hook: `KSpecEm` runs after `KSpecEmSpec`), `LengthAfterKSpecEm` and
`LengthAfterSpec` (the length hook is put in after those of the other two).
Whether the whitelist admits a task is a free choice in `HookNewCheckpoint`. The
pass loads and stores the swap condition, a bool, as an `i32`
(`KSpecEmSpec.cpp:242`, `261`, `265`); the model has one word for it.

With `Nmis` an NMI may come before any micro-operation of a speculation, whatever
the interrupt flag says; its handler has the exception hook. Where several stores
are one micro-operation and an NMI between them matters, it has an action of its
own: `NmiInUndo` (the log position is decremented, the word not yet restored),
`NmiBetweenFlags` (`kspecem_in_speculative_emulation` and
`kspecem_writelog_enabled` differ: the assertion of the hook fails, `status` becomes
"panic"), and `SavePartly` (the stack's base or some of the registers are saved).
The stack of an NMI, which is its own, is taken to be the thread's. One window is
not modelled: between `internal.c:94` and `95` speculation is over and the
condition that the log restored may still be set, so that the kernel's own NMI handler
could have a branch inverted.

A frame that the runtime or an interrupt puts on the stack is a word with the
value `RtMark`, so overwriting it is visible. The restore is on three words above
the frames in use: its hook's frame or `pt_regs`, the words from above its stack
pointer to `frameaddr`, and the words at and below the stack pointer
(`InUseBelow`), where the return address of `__memcpy` is. `Skipped` is the
check of the source and spares the first two only (`pt_regs`, and `addr > rsp`).
When the log has an entry for the third, written by a callee that
has returned since, the restore may be lucky (`Undo`) or `__memcpy` returns
somewhere (`UndoInUse`, `status` "lost"). `NestedTop` bounds the stack:
faults inside faults deeper than one level reuse the frames of the first.
While KDFSan's own runtime runs, the length hook does not count; that runtime is
not in the repository and the model has no such code.

`Reports` models `kspecem_bugs.c` with what it needs of the emulation: whether
the thread speculates, the call depth, `kspecem_is_in_restart`, and the recorded
assertion. A report carries the checkpoint of the speculation that made it, and
a printed line the checkpoint of the header it is printed under; neither is in
the code, they are there to compare.

`RestartStats` models the counters of restarts and the list of the inline
assembly that restarted most. `recorded` is a history variable: what the list was
given. The counting happens in speculation, before the rollback. So when the
list is switched on after the runtime was enabled, and was never allocated, the
write through NULL is a page fault of the speculation: it rolls back like any
other, and the restart is counted twice, as inline assembly and as page fault.

`Emulation` is the contract between `SpecEm` and the modules that only follow
whether the thread speculates: when a checkpoint, a call, a return, a restart
and the rollback may happen, and what they do to `kspecem_in_speculative_emulation`,
the call depth and `kspecem_is_in_restart`. `SpecEm`, `Reports` and `SpecTrace` are
each shown to implement it (`Contract`), so that the two small modules see no
behaviour of the emulation that the large one could not have, and their findings do not rest
on a sequence of events that cannot occur.

`SpecTrace` models `kspecem_statistics.c` and the panic: the events of
checkpoints, calls, returns and restarts, an assertion that fails anywhere, and
what `kspecem_panic_info` then prints.

`Passes` is the compiler's side: what the four passes make of one function, as
operators on sequences of instructions, and one action for each pass, so that
they run in every order. Lists, promoted and prefixed names, the exempt inline assembly,
modules that are skipped and the split of an exception handler's entry block are
those of the source. `MatchesRuntime` ties it to `SpecEm`: the hooks that `SpecEm`
executes for an instruction are exactly those that the passes leave there, for
every order and the constants that describe it. `SpecEm` is instantiated for
its constant operators only. The names of a list are represented by one each.

`Access` models the page-fault checker with the write log and the access behind
it, in words: the pointer that each hook sees depends on the order of the two
passes. `kdf_virt_addr_valid` belongs to KDFSan; the model lets it accept the mapped
words, too few of them (a mapping outside the linear one) or all (the weak
definition in `kspecem_kdf.c`). The allocation of the region may fail.

`Registers` executes `kspecem_asm_save_registers` and
`kspecem_asm_restore_registers` instruction by instruction, and the copy into `pt_regs`
slot by slot. The slots are those of `calling.h`. What counts is what compiled
code relies on after a call: callee-saved registers, stack pointer, instruction
pointer and interrupt flag.

`MCSpecEm` has the programs of the emulation's runs, `MCPasses` the functions to
compile, `MCAccess` the values of a constant.

Theorems and proofs are in modules of their own: `SpecEmSafety` and, on top of
it, `SpecEmTransparent`; `AccessProofs`, `SpecTraceProofs`, `ReportsProofs`,
`RestartStatsProofs` and `RegistersProofs`; and `DataLemmas`, which all but
`SpecEmSafety` and `RegistersProofs` use.

Operators with a suffix (`WriteWl_FirstWord`) beside an operator of the same
name are plausible bugs: in its place each breaks the property that
`PROJECT.json` lists with it.

## The refinement

`View` maps a state of `SpecEm` to one of `Machine`: while a checkpoint is valid
(`Saved`) the program counter, stack pointer and memory are those that a restart
would leave; memory comes from the copy of the frame, else from the first log
entry for the word, else from memory itself. During an interrupt the registers
are those of `pt_regs`. Stack words below the stack pointer and the two
variables of the runtime are hidden. `Arch` is the instance of `Machine` under
this mapping, and `Transparent` its specification: emulation, rollback,
interrupts and enabling are stuttering steps; only the program's own
instructions outside speculation, ticks and oopses change the view.

## Runs

| Run | Shows |
|---|---|
| `emulation` | `Transparent`: the emulation implements `Machine`. `RollbackExact`: no step of a speculation or of its rollback changes the view or loses control. `RuntimeReleased`: at each instruction NMIs are unblocked, no hook believes to be in the runtime, no inverted condition is pending. `AssertsHold`: the runtime's `lt_assert`s, that of the exception hook in every state. `DepthMatches`: the call depth is the number of frames above the checkpoint's. `HandlerNotSpeculative`: an interrupt's handler never speculates. `GuardedFramesIntact`: the restore spares the words from above its stack pointer to `frameaddr`, and `pt_regs`. `CheckpointExact`: nothing between the first and the last step of a checkpoint changes where the thread will resume. `Contract`. `TypeOK`. `SpeculationEnds` and `ThreadFinishes`, if the CPU does not stop: every speculation is over at some time, and the program's end is reached. |
| `nmis` | with NMIs at every step, and another order of the passes: `DepthMatches`, `HandlerNotSpeculative` (of the timer's handler), `Contract` |
| `reports` | `NoDuplicates`: by default an access is printed once. `ReportsAccounted`: a report leaves the list only when it is printed, is a duplicate, or printing is off. `HeadersConsistent`: reports that a timer interrupt or an exception leaves pending are printed once, those of one speculation together and never under an earlier checkpoint's header. `AssertionPanics`: an assertion that fails in speculation becomes a panic. `Contract`. `TypeOK`. |
| `restart_stats` | `ListCorrect`: the list is sorted, and an instruction is counted exactly or, once the list is full, not at all. `CountersAgree`: the total is the sum of the counters, and the list counts no more than the counter of inline assembly. `TypeOK`: also that the list stays inside its array. |
| `spec_trace` | `TraceExplains`: the trace begins with the checkpoint of the last speculation and with no other, has the call depth, ends with the restart, and is what a panic prints. `Contract`. `TypeOK`. |
| `passes` | `DepthBalanced`: a function increments the call depth if and only if its returns decrement it. `WritesLogged`: every write of code that may speculate is logged right before it, by its pointer. `HookFirst`: nothing of a handler or of a blacklisted function precedes its hook. `LoopsCounted`: every cycle has a length hook that counts enough. `CheckpointAtomic`: no hook comes between the calls of a checkpoint. `MatchesRuntime`. `TypeOK`: a well-formed function, and no hook that was not declared. |
| `access` | `MemoryExact`: a rollback restores memory, the dummy region included. `RedirectContained`: a redirected access stays inside it. `MemoryExact` holds if the checker runs before `KSpecEm`, or if every mapped address counts as valid; otherwise the log has the wrong pointer (`LogsWhatIsWritten`). `TypeOK`. |
| `registers` | `LiveRestored`: after a rollback by either path the live registers are those at the return of the save. `BufferStable`: nested checkpoints leave the saved registers alone. |
| `reports_list_bounded`, `timer_handled`, `nmi_asserts`, `restore_in_use` | the findings below |

### Bounds

The programs have a branch that is mispredicted, two or three instructions on the wrong
path chosen from every kind (aligned, unaligned, overlapping, spilled, to the
caller's frame, across a page that is read-only or unmapped, traps, calls,
loops, code that cannot be emulated), and a checkpoint in the first or in the
second frame. That is one full speculation and what follows it; a second
checkpoint is taken in the loops and calls. One tick (`MaxTicks`) is enough to
interrupt at any point, and the rollback makes the state independent of earlier
ticks. In `emulation` `MaxInstrs` 7, `MaxDepth` 2 and `WlMax` 5 let each limit strike first
in some program; the log fills in a store, in a `memset`, and in the hooks nested in the
runtime while NMIs are blocked, and is never full in others. `emulation` has nine stack words: three
frames, and room for two restores of three words each.
`nmis`, `nmi_asserts` and `restore_in_use` have ten (four frames), `MaxInstrs` 30 and `MaxDepth` 5, so that
their deepest program can call three functions inside a speculation, return from them and
be rolled back by inline assembly, not by a limit; their log of 16 entries never fills. In `Reports` a list of two, four reports and
two checkpoints suffice for a list that is full at a restart, after one, and in
the second speculation. In `RestartStats` four instructions compete for three
places over seven restarts, enough for an entry to overtake two others. A trace of
five events fills up in one speculation and not in another. The functions of `MCPasses` have an
entry, a loop and a return block with one instruction of each kind; two blocks
of a kind are instrumented alike, as no pass looks across blocks. `MCAccess` has a dummy
region of two words, so that accesses are smaller, as large, and larger than it, a
neighbour that an overrun would hit, and a log of three entries. In `Registers`
every register has a value of its own and speculation may change each.

### Fairness

`FairSpec` of `SpecEm` assumes only that the CPU goes on executing
(`WF` of `Cpu`): interrupts, enabling and settings are not fair. `FairSpec` of
`Reports` assumes that a speculation's restart is not postponed for ever, which
is what `SpeculationEnds` shows of `SpecEm`.

## Findings

Disagreements between the code and what it says of itself that have a run:

- `reports_list_bounded`: `kspecem_restart` sets `kspecem_is_in_restart` before its
  early return for a `ret` inside the speculation and never clears it there. A
  report that then finds the list full fails its assertion, `kspecem_panic` only
  records that, and the report is written behind the end of `kspecem_bugs`.
- `timer_handled`: a fault inside the rollback of a timer interrupt abandons the
  timer's handler.
- `nmi_asserts`: an NMI between the stores of `kspecem_in_speculative_emulation`
  and `kspecem_writelog_enabled` (`internal.c:42` and `48`, or `93` and `94`) fails the
  assertion at `interface.c:146` that they are equal.
- `restore_in_use`: the restore begins to spare words above its stack pointer
  (`undolog.c:137`). An entry for the word at it, or for the return address of
  `__memcpy` below it, is written back while the restore uses that word. The run
  has a program that calls deep enough inside a speculation and returns to a
  shallower restart; the programs of `emulation` do not, so that `RollbackExact`
  and `Transparent` can hold there. The two assertions about the restore's locals
  (`undolog.c:151-152`) meet the same case when one of them is at the stack pointer.

Others came up while modelling. They follow from the code as the modules state it
and have no run:

- Restarts by the timer and by exceptions other than page faults do not print
  pending reports (`restart_reports`); they are printed under the header of a later
  restart. `HeadersConsistent` says what still holds.
- "print max one report for each ip" (`kspecem_bugs.c:13`) is one for each ip and
  access type (`Key`).
- The warning that some inline assembly was not recorded is printed as soon as
  the list is full, also when nothing was left out. The converse, that it is
  not missing when something was, is part of `ListCorrect`.
- An NMI while a checkpoint is being taken resumes at an older checkpoint, or with
  half of the new registers: only maskable interrupts are off, and the hook of
  `exc_nmi` comes before the check of `ignore_nmis`. An NMI between
  `undolog.c:130` and `154` loses the entry: the word, `ignore_nmis` for one, keeps
  what speculation wrote. So with `Nmis` `CheckpointExact`, `RollbackExact`,
  `RuntimeReleased`, `GuardedFramesIntact` and `Transparent` fail, and they are checked and proved
  without; the shipped command line disables the NMI watchdog.
- Two entries of the table of safe inline assembly (`KSpecEm.cpp:284`) end at a
  `\0` in their literal and match every text that begins with the same label.
- Blacklisted functions get "nothing else" than a restart hook only from two of
  the four passes.
- An access of exactly the size of the dummy region is not redirected, against
  the comment at `kspecem_pf_checker.c:23`.
- The comment at `kspecem_whitelist.c:26-29` names `kasper_task`, `syz-executor`
  and `ls`; the code admits `mkdir`, `pwd`, `cat` and `tail`, too.
- `kspecem_asm_restore_registers` sets a return value and overwrites it.

## Proofs

Eight modules hold theorems. They are about the specifications that TLC checks,
for every value of the constants that satisfies the assumptions of the modules
(`MachineAssumption`, `SpecEmAssumption`, and the ones of the other components,
which say of a constant that it is a number, a set or a flag, and of a program
that control stays inside it). Some theorems of `SpecEmTransparent` have
hypotheses of their own, part of their statement, as do `AssertsAlwaysHold` and
`RuntimeAlwaysReleased` of `SpecEmSafety`: no NMIs (`~Nmis`), stores of at
most eight bytes (`SmallStores`), no log entry for a word that the restore stands on
(`[]SparesInUse`), no use of the stack below the stack pointer
(`LiveAccess`, or `StaticData` of the text), or no read-only pages
(`ReadOnly = {}`). Where each is needed is said below.

### The emulation

`SpecEmSafety` proves `TypeCorrect`. `TypeOK` is inductive as it stands. It is a
conjunction of parts, one for each group of variables; the lemma `Keep` carries
a part over steps that leave its variables alone, and one lemma for each group
of actions deals with the others. What is not routine in it: every continuation
that the passes and the runtime build is a sequence of micro-operations; the log
position stays inside the log because `LogWord` restarts when it is full, and a
logged address is a word of memory because an unmapped one faults first; the
call depth does not fall below zero because a return restarts at depth zero;
and control stays inside the program after a rollback because the registers of a
checkpoint, or of a `pt_regs`, always were valid.

It then proves the assertions without NMIs (`AssertsAlwaysHold`), that a timer's
handler does no work in speculation (`HandlerNeverSpeculates`) and the refinement of
`Emulation` (`EmulationContract`). Its inductive invariant `Safe` says what the
continuation may hold: which operation may come before which (`Precedes`: nothing
follows an `iret`, nothing but the undo precedes a `finish`, interrupts are not
given back before an operation that needs them off), and which may be pending
in a mode (`Allowed`: no log entry outside speculation, no checkpoint inside, only
`HandlerOps` in a handler). The same is said of the code in `pt_regs`
(`RegsInv`): after a timer's or an exception's hook it is the code behind the
checkpoint, so that nothing of the speculation survives the `iret`. `LimitInv`
is the depth limit: at the limit a restart is pending that is not that of a
return. The order is proved once for each piece of code that the runtime builds
(`RuntimeCode`, `InstrumentCode`, `ResumeCode`), and each step is then a change
at the head of the sequence.

The rest of `SpecEmSafety` is about what the program finds between two instructions.
`DepthAlwaysMatches` needs `Thread`: the hook of a call is pending until the
call is counted, a return is counted before it is done (`Uncounted`), the
operations at hand are those of the instruction at `pc` (`TextInv`, also of the
interrupted code), and registers are saved at a branch, never in the middle of a
call. `DepthAlwaysMatches`, `HandlerNeverSpeculates` and `EmulationContract` hold with
NMIs: none of them rests on what a restore writes back, and an NMI that finds a
checkpoint half saved still finds registers of some checkpoint's frame or the
current one (`PartlyThread`). `RuntimeAlwaysReleased` needs `NmiInv`, too. `ignore_nmis` is raised and
lowered by stores that are themselves logged, and a restart jumps out of any
depth of nested hooks without lowering it. The invariant is that the
continuation holds at most one `stop_nmi` under way (`NmiPrecedes`); that
`ignore_nmis` is what the continuation will lower (`BalanceInv`) except in a
rollback; that in a rollback the first log entry of the word, or the word itself
when there is none, is 1, which is what the checkpoint saw (`NmiLogInv`); and
that no change is left to do in speculation before something that logs the word
or restarts (`CoverInv`), also right behind a checkpoint that is still to come
(`CkptCovered`). So the rollback ends with 1, and the code behind the checkpoint
lowers it once. The frames marked and skipped by the restore are inside the stack
(`TopInv`), so that they are never that word. `NmiLogInv` is what an NMI inside a pass
of the restore breaks, so this theorem has the hypothesis `~Nmis`.

`SpecEmTransparent` has the theorems with the hypothesis `~Nmis`.
`CheckpointAlwaysExact` and `GuardedFramesAlwaysIntact` fail with NMIs. One between `kspecem_new_checkpoint` and the
end of the checkpoint restarts with the registers and the frame of the checkpoint
before, and when that one was taken in a deeper call, the frame copied back is
the one that holds the handler's own `pt_regs` (of the model, where an NMI is on
the thread's stack). Without NMIs nothing comes between
the three calls of a checkpoint: in the continuation `save_stack` and
`save_registers` directly follow what they belong to, with interrupts disabled
and to be enabled again (`ChainInv`), and when the registers are saved the log is
empty and the copy of the frame current (`CopyInv`). For the frames, the
operations of a rollback name the frame they run on, which holds its mark
(`FrameInv`): the restore skips the words of its own frame, a fault of the
restore marks the frames above it. The frame copied back at the end is that of the saved
registers and is at or below each of them (`BaseInv`), since the thread in
speculation is never below the checkpoint's frame, which is the depth invariant
again.

`RollbackAlwaysExact` says that no step of a speculation or of its rollback
changes the view or loses control. The hypothesis `[]SparesInUse` is for the second:
the words at and below the restore's stack pointer are not guarded by the source,
which `restore_in_use` shows, and the theorem says that they are all that is missing.
The view of a word is its first log entry, or memory when it has none, so a
write is harmless exactly if the word was logged before, is in the copied frame,
or is dead. The invariant behind it, `Kept`, adds four parts. `WriteInv`: for every
word that the instruction at hand is about to write, the word is logged, or an operation is pending that logs it or rolls back (`Secures`). `QuietInv`: log entries of words that nothing in a
speculation writes (those that fault, and the tick counter) still equal memory, so that
a rollback that faults on one of them, or a tick, loses nothing. `SavedInv`: the
registers to return to, at a rollback or after an interrupt, are those of an
instruction, with interrupts enabled. `TickInv`: the bound on ticks is not met
while one is pending. The undo takes the last entry first, so that it ends with
the first entry of each word: what remains to be undone gives the same view
after each step (`LeastElement` of `DataLemmas` names the first entry). The hypothesis
`SmallStores` is necessary: the hook of a store has its address and not its size
(`KSpecEm.cpp:397`), and a larger store writes words that were never logged.

`EmulationTransparent` is the refinement of `Machine`, step by step. In
speculation it is `RollbackAlwaysExact`. Outside, each step is an
instruction of the program, a tick, an oops, or a stutter: entering the runtime
saves the interrupt flag that leaving it gives back, hooks and interrupts change only words
below the stack pointer and the two variables that the view hides, and a
checkpoint copies what is there. `[]LiveAccess` is a hypothesis about the kernel
and not about the emulation: the instruction that the kernel is at does not
access the stack below its stack pointer, which is where interrupts and hooks put
their frames. The kernel is built without a red zone (`src/static/CMakeLists.txt:18`
repeats the kernel's flags for the runtime, `-mno-red-zone` among them). TLC confirms it, and `Kept`, on the
instance of the run `emulation`, where `Transparent` is checked without the
hypothesis. `StaticTransparent` replaces it by a condition on the text of the
program, that its data is outside the stack or in the outermost frame
(`StaticData`); the runs also have programs that write into a deeper frame, for
which only the first theorem speaks.

`TimerAlwaysHandled` complements the finding `timer_handled`: without NMIs and
without read-only pages no step drops a pending timer's work. The neighbour of
an unaligned write on a read-only page is the only way to lose one.

### The other components

`AccessProofs`: `MemoryIsExact`, from the invariant that in speculation the
first entry of a word, or the word itself, is what it was at the checkpoint
(`LogExact`), that a write about to be done is in the log (`WriteLogged`, which
uses where in its sequence of hooks an access is) and that the loop that walks the
log back restores exactly that; `RedirectIsContained`.

`SpecTraceProofs`: `TraceAlwaysExplains`, from invariants about the events
themselves (the only checkpoint is the first event, the end is the last, calls
minus returns are the depth while there is room), and `TraceContract`.

`ReportsProofs`: `NeverDuplicates`, `HeadersAlwaysConsistent`,
`ReportsAreAccounted` (an action property) and `ReportsContract`. The loop that prints is a recursive
function; `Turns` says what it does turn by turn, and an invariant of the loop
is proved by induction over its turns.

`RestartStatsProofs`: `ListAlwaysCorrect` (moving an entry of the list to
its place keeps it sorted, without duplicates, and exact) and
`CountersAlwaysAgree`, for which sums over a function and over a list are
computed by induction on finite sets and on lengths.

`RegistersProofs`: `LiveAlwaysRestored` and `BufferAlwaysStable`. The invariant
`RegistersInv` says for each routine what is in its slot after n instructions
(`SaveAt`), or has left it (`RestoreAt`), and in speculation that the buffer is
that of the checkpoint (`Kept`). Order matters in both: `rax` and `rdx` are scratch
registers of the save, `r8` and `r9` carry the stack and frame pointers through the
restore, and the flags pass over a stack that the restore has just switched to. Each instruction
is one lemma about the state it leaves. `StackAssumption` (at least six words)
gives room for the frame, a call and a push.

`DataLemmas` has what several of them use: the least-number principle and
induction in a form first-order provers can use (a property of numbers is the
set of the numbers that have it), and facts about sequences.

### Only model-checked

Liveness (`SpeculationEnds`, `ThreadFinishes`, `AssertionPanics`) is outside what the
prover handles. The properties of `Passes` are about sequences that
the passes build by mapping and flattening the instructions of a function; that these
keep order and count for every length is an induction over data.

## Plan

Left, in this order: a condition on the text of the programs that implies
`SparesInUse`; lemmas about what one pass makes of one instruction, which
`WritesLogged` and `HookFirst` would rest on.

## Not modelled

SMP and preemption (off in the shipped configuration); task switches inside a
speculation (they need an interrupt or code that restarts); the sanitizers
themselves and KDFSan, which are in submodules; the text of reports; `count-instrs`, which
prints numbers at compile time and changes nothing; the scripts, which are
process and file I/O; the whitelist, a predicate without state whose answer
`HookNewCheckpoint` leaves open; the string utilities: nothing calls `kspecem_strlcpy`,
`kspecem_strlcat` and `kspecem_itoa`, and a model of the others would repeat their loops. A change of `call_depth` through debugfs happens between
speculations, where the depth is zero: the limit is a constant. Allocation
failures during initialisation panic and are left out, other than that of the
dummy region. Instructions that no visitor handles (`atomicrmw`, `cmpxchg`,
`callbr`) and stores of more than eight bytes are outside the programs of the
model; they are listed as hazards.
