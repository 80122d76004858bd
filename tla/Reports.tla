------------------------------- MODULE Reports -------------------------------
(****************************************************************************)
(* The reports of gadgets (kspecem_bugs.c): a report made in speculation    *)
(* waits in kspecem_bugs until a restart prints it; one made outside is     *)
(* printed at once.  By default a pair of instruction and access type is    *)
(* printed once.  A failed assertion in speculation is recorded             *)
(* (kspecem_assert.c) and turned into a panic by the restart.               *)
(*                                                                          *)
(* Of the emulation only what reports depend on is kept: whether the thread *)
(* speculates, its call depth, and kspecem_is_in_restart.  SpecEm has the   *)
(* rest.                                                                    *)
(****************************************************************************)
EXTENDS Naturals, Sequences

CONSTANTS
  Ips,            \* instructions that reports are about
  AccessTypes,    \* MDS_ACCESS, CC_ACCESS, KASAN_ACCESS, PC_ACCESS
  BugsListSize,   \* BUGS_LIST_SIZE
  MaxReports,     \* bound: reports made
  MaxWindows,     \* bound: checkpoints taken
  MaxDepth,       \* bound: calls in speculation
  PrintLevels     \* levels that kasper/print_reports may be set to

ASSUME ReportsAssumption ==
  /\ BugsListSize \in Nat \ {0}
  /\ MaxReports \in Nat /\ MaxWindows \in Nat /\ MaxDepth \in Nat
  /\ PrintLevels \subseteq {"DEFAULT", "NONE", "DUPLICATES"}

VARIABLES
  in_spec,         \* kspecem_in_speculative_emulation
  spec_depth,      \* kspecem_spec_call_depth
  in_restart,      \* kspecem_is_in_restart
  spec_assert,     \* kspecem_spec_assert.fmt # -1
  bugs,            \* kspecem_bugs[0..kspecem_next_bug_index - 1]
  previous_bugs,   \* kspecem_previous_bugs_map: the <<ip, type>> whose bit is set
  print_level,     \* kspecem_print_level
  panicked,        \* the kernel has panicked
  window,          \* number of checkpoints taken; the current one when in_spec
  made,            \* number of reports made
  log              \* what has been printed, in order

vars == <<in_spec, spec_depth, in_restart, spec_assert, bugs, previous_bugs, print_level,
          panicked, window, made, log>>

\* window is where the report was made (0 outside speculation).
Bug == [ip : Ips, type : AccessTypes, window : Nat]

Key(b) == <<b.ip, b.type>>

Init ==
  /\ in_spec = FALSE
  /\ spec_depth = 0
  /\ in_restart = FALSE
  /\ spec_assert = FALSE
  /\ bugs = << >>
  /\ previous_bugs = {}
  /\ print_level = "DEFAULT"
  /\ panicked = FALSE
  /\ window = 0
  /\ made = 0
  /\ log = << >>

-----------------------------------------------------------------------------
\* A mutant: kspecem_bug_set_ip_as_reported is not called.
should_report_NoMark(b, seen) ==
  [print |-> print_level = "DUPLICATES" \/ (print_level = "DEFAULT" /\ Key(b) \notin seen),
   seen  |-> seen]

\* kspecem_should_report_access_bug: whether to print, and the map afterwards.
should_report(b, seen) ==
  [print |-> print_level = "DUPLICATES" \/ (print_level = "DEFAULT" /\ Key(b) \notin seen),
   seen  |-> IF print_level = "DEFAULT" THEN seen \cup {Key(b)} ELSE seen]

\* One printed report: with the level, and the checkpoint of the header it is
\* printed under (0 outside restarts).
Entry(b, header) == [bug |-> b, level |-> print_level, header |-> header]

\* One turn of the loop: the map and the log after the report b.
print_one(acc, b, header) ==
  LET r == should_report(b, acc.seen) IN
  [seen |-> r.seen,
   out  |-> IF r.print THEN Append(acc.out, Entry(b, header)) ELSE acc.out]

\* The map and the log after the loop over the pending reports bs.
print_all(bs, header) ==
  LET after[k \in 0..Len(bs)] ==
        IF k = 0 THEN [seen |-> previous_bugs, out |-> log]
                 ELSE print_one(after[k - 1], bs[k], header)
  IN  after[Len(bs)]

\* A mutant: kspecem_report_clear_globals is skipped for reports of a restart.
print_and_clear_NoClear(bs, header) ==
  /\ previous_bugs' = print_all(bs, header).seen
  /\ log' = print_all(bs, header).out
  /\ bugs' = IF header = 0 THEN << >> ELSE bs

\* kspecem_report_print_and_clear on the pending reports bs.
print_and_clear(bs, header) ==
  /\ previous_bugs' = print_all(bs, header).seen
  /\ log' = print_all(bs, header).out
  /\ bugs' = << >>

\* A mutant: these restarts drop the reports instead of keeping them.
restart_reports_Drop(type) ==
  IF type \in {"TIMER", "EXCEPTION"}
    THEN bugs' = << >> /\ UNCHANGED <<previous_bugs, log>>
    ELSE print_and_clear(bugs, window)

\* The part of kspecem_restart that deals with reports.
restart_reports(type) ==
  IF type \in {"TIMER", "EXCEPTION"}
    THEN UNCHANGED <<bugs, previous_bugs, log>>
    ELSE print_and_clear(bugs, window)

\* A mutant: a recorded assertion is forgotten.
restart_panics_Never == panicked

restart_panics == panicked \/ spec_assert

\* A restart that rolls back.
Rollback(type) ==
  /\ in_spec' = FALSE
  /\ spec_depth' = 0
  /\ in_restart' = FALSE
  /\ restart_reports(type)
  /\ panicked' = restart_panics

\* A mutant: no return restarts.
LeavesFrame_Always(type) == type = "RETURN" /\ ~spec_assert

\* The return of a function that was called after the checkpoint.
LeavesFrame(type) == type = "RETURN" /\ spec_depth > 0 /\ ~spec_assert

RestartTypes == {"RETURN", "LIMIT_SPEC", "TIMER", "EXCEPTION", "PAGE_FAULT"}

\* kspecem_restart.  A return below the checkpoint's frame only leaves a frame.
Restart(type) ==
  /\ ~panicked
  /\ in_spec
  /\ IF LeavesFrame(type)
       THEN /\ spec_depth' = spec_depth - 1
            /\ in_restart' = TRUE
            /\ UNCHANGED <<in_spec, bugs, previous_bugs, log, panicked>>
       ELSE Rollback(type)
  /\ UNCHANGED <<spec_assert, print_level, window, made>>

NewCheckpoint ==
  /\ ~panicked
  /\ ~in_spec
  /\ ~spec_assert
  /\ window < MaxWindows
  /\ in_spec' = TRUE
  /\ spec_depth' = 0
  /\ window' = window + 1
  /\ UNCHANGED <<in_restart, spec_assert, bugs, previous_bugs, print_level, panicked, made, log>>

\* kspecem_hook_check_call_depth.
Call ==
  /\ ~panicked
  /\ in_spec
  /\ spec_depth < MaxDepth
  /\ spec_depth' = spec_depth + 1
  /\ UNCHANGED <<in_spec, in_restart, spec_assert, bugs, previous_bugs, print_level, panicked,
                 window, made, log>>

\* kspecem_access_report after its assertion on the size of the list.
AddBug(b) ==
  IF in_spec
    THEN bugs' = Append(bugs, b) /\ UNCHANGED <<previous_bugs, log>>
    ELSE print_and_clear(Append(bugs, b), 0)

\* kspecem_hook_kasan_report, _ridl_report, _specv1_report and
\* _smotherspectre_report, outside the runtime.  When the list is full kspecem_panic panics,
\* restarts, or, if it finds kspecem_is_in_restart set, returns.
Report(ip, type) ==
  LET b    == [ip |-> ip, type |-> type, window |-> IF in_spec THEN window ELSE 0]
      full == Len(bugs) >= BugsListSize
  IN
  /\ ~panicked
  /\ made < MaxReports
  /\ made' = made + 1
  /\ \/ /\ ~full
        /\ AddBug(b)
        /\ UNCHANGED <<in_spec, spec_depth, in_restart, spec_assert, panicked>>
     \/ /\ full /\ ~in_spec
        /\ panicked' = TRUE
        /\ UNCHANGED <<in_spec, spec_depth, in_restart, spec_assert, bugs, previous_bugs, log>>
     \/ /\ full /\ in_spec /\ ~in_restart
        /\ spec_assert' = TRUE
        /\ in_spec' = FALSE
        /\ spec_depth' = 0
        /\ in_restart' = FALSE
        /\ print_and_clear(bugs, window)
        /\ panicked' = TRUE
     \/ /\ full /\ in_spec /\ in_restart
        /\ spec_assert' = TRUE
        /\ AddBug(b)
        /\ UNCHANGED <<in_spec, spec_depth, in_restart, panicked>>
  /\ UNCHANGED <<print_level, window>>

\* The debugfs file print_reports, written by a thread that does not speculate.
SetPrintLevel(level) ==
  /\ ~panicked
  /\ ~in_spec
  /\ print_level # level
  /\ print_level' = level
  /\ UNCHANGED <<in_spec, spec_depth, in_restart, spec_assert, bugs, previous_bugs, panicked,
                 window, made, log>>

Done == (panicked \/ (made = MaxReports /\ window = MaxWindows)) /\ UNCHANGED vars

Next ==
  \/ NewCheckpoint
  \/ Call
  \/ \E type \in RestartTypes : Restart(type)
  \/ \E ip \in Ips, type \in AccessTypes : Report(ip, type)
  \/ \E level \in PrintLevels : SetPrintLevel(level)
  \/ Done

Spec == Init /\ [][Next]_vars

\* Every speculation ends (SpeculationEnds of SpecEm): its restart is not
\* postponed for ever.
FairSpec == Spec /\ WF_vars(\E type \in RestartTypes : Restart(type))

\* The contract that SpecEm keeps; MaxDepth only bounds the calls.
Speculation == INSTANCE Emulation WITH Limit <- MaxDepth + 1

-----------------------------------------------------------------------------
(* Properties *)

\* The speculations that reports are made in are those of SpecEm: what is kept
\* of kspecem_restart here, and the restart of a failed assertion, follows the
\* same contract.
Contract == Speculation!EmulationSpec

\* The type invariant.
TypeOK ==
  /\ in_spec \in BOOLEAN /\ in_restart \in BOOLEAN /\ spec_assert \in BOOLEAN
  /\ panicked \in BOOLEAN
  /\ spec_depth \in 0..MaxDepth /\ window \in 0..MaxWindows /\ made \in 0..MaxReports
  /\ bugs \in Seq(Bug)
  /\ previous_bugs \subseteq Ips \X AccessTypes
  /\ print_level \in PrintLevels \cup {"DEFAULT"}
  /\ log \in Seq([bug : Bug, level : {"DEFAULT", "DUPLICATES"}, header : Nat])

\* kspecem_should_report_access_bug prints an access once by default: no two
\* lines printed at that level are about the same instruction and access type.
NoDuplicates ==
  \A j, k \in DOMAIN log :
    j # k /\ log[j].level = "DEFAULT" /\ log[k].level = "DEFAULT" =>
      Key(log[j].bug) # Key(log[k].bug)

\* A report leaves the list of pending reports only to be printed, unless its
\* access has been printed already or printing is off.
ReportsAccounted ==
  [][\A k \in DOMAIN bugs :
       \/ k \in DOMAIN bugs' /\ bugs'[k] = bugs[k]
       \/ print_level = "NONE"
       \/ \E j \in DOMAIN log' : Key(log'[j].bug) = Key(bugs[k])]_vars

\* An assertion that fails in speculation is not lost: the kernel panics.
AssertionPanics == spec_assert ~> panicked

\* Reports that stay pending after a restart by the timer or an exception are
\* printed later, under the header that kspecem_report_print_and_clear makes of
\* another checkpoint.  They are printed once, all those of one speculation under
\* one header, which is never that of an earlier checkpoint.
HeadersConsistent ==
  \A k \in DOMAIN log :
    LET made_in == log[k].bug.window IN
    /\ log[k].header = 0 \/ log[k].header >= made_in
    /\ made_in # 0 =>
         \A j \in DOMAIN log : log[j].bug.window = made_in => log[j].header = log[k].header

\* "Assert that we have not exceeded the max number of pending reports":
\* no report is written behind the end of kspecem_bugs.
ListBounded == Len(bugs) <= BugsListSize
=============================================================================
