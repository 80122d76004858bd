---------------------------- MODULE RestartStats ----------------------------
(****************************************************************************)
(* The statistics of restarts (kspecem_stats_restarts.c) and the list of    *)
(* the inline assembly that restarted most (kspecem_stats_inlineasm.c).     *)
(*                                                                          *)
(* kspecem_restart counts before it rolls back, with interrupts disabled    *)
(* and still in speculation: a fault in the counting is taken as a fault of *)
(* the speculated code, and its restart is counted too.                     *)
(****************************************************************************)
EXTENDS Naturals, Sequences, FiniteSets, SequencesExt, FiniteSetsExt

CONSTANTS
  Types,         \* restart types that occur
  Ips,           \* inline assembly that restarts
  NumIps,        \* NUM_INLINEASM_RESTART_IPS
  MaxRestarts    \* bound: restarts that are counted

ASSUME RestartStatsAssumption ==
  /\ IsFiniteSet(Types) /\ {"CALL_INLINE_ASM", "PAGE_FAULT"} \subseteq Types
  /\ NumIps \in Nat \ {0} /\ MaxRestarts \in Nat

VARIABLES
  init_done,       \* kspecem_init_done
  stats_enabled,   \* kspecem_inlineasm_restart_stats_enabled
  allocated,       \* kspecem_inlineasm_restart_stats is not NULL
  total,           \* kspecem_total_restarts
  counts,          \* the counter of each restart type
  list,            \* kspecem_inlineasm_restart_stats
  recorded         \* restarts of each ip given to the list so far

vars == <<init_done, stats_enabled, allocated, total, counts, list, recorded>>

Stat == [ip : Ips, count : Nat]

Init ==
  /\ init_done = FALSE
  /\ stats_enabled = FALSE
  /\ allocated = FALSE
  /\ total = 0
  /\ counts = [t \in Types |-> 0]
  /\ list = << >>
  /\ recorded = [ip \in Ips |-> 0]

\* A mutant: room for one more.
HasRoom_OffByOne(l) == Len(l) <= NumIps

HasRoom(l) == Len(l) < NumIps

\* A mutant: the entry stays where it is.
Place_Same(l, i, c) == i

\* Where the entry i moves to when its count becomes c: behind the last entry
\* before it that is not smaller.
Place(l, i, c) == Max({k \in 0..(i - 1) : k = 0 \/ l[k].count >= c}) + 1

NewStat(ip) == [ip |-> ip, count |-> 1]

\* kspecem_add_inlineasm_restart.
add_inlineasm_restart(l, ip) ==
  IF \E k \in DOMAIN l : l[k].ip = ip
    THEN LET i == SelectInSeq(l, LAMBDA s : s.ip = ip)
             c == l[i].count + 1
         IN  InsertAt(RemoveAt(l, i), Place(l, i, c), [ip |-> ip, count |-> c])
    ELSE IF HasRoom(l) THEN Append(l, NewStat(ip)) ELSE l

\* How often t is among the types ts.
Occurrences(ts, t) == Cardinality({k \in DOMAIN ts : ts[k] = t})

\* A mutant: the switch has no case for page faults.
count_NoPageFault(ts) ==
  /\ total' = total + Len(ts)
  /\ counts' = [t \in Types |->
                  counts[t] + IF t = "PAGE_FAULT" THEN 0 ELSE Occurrences(ts, t)]

\* The counters after restarts of the types ts.
count(ts) ==
  /\ total' = total + Len(ts)
  /\ counts' = [t \in Types |-> counts[t] + Occurrences(ts, t)]

\* kspecem_add_restart_to_statistics.  If the list was not allocated the write
\* to it faults, and the restart of the page fault takes the place of this one.
Restart(type, ip) ==
  /\ init_done
  /\ total < MaxRestarts
  /\ IF type = "CALL_INLINE_ASM" /\ stats_enabled
       THEN IF allocated
              THEN /\ count(<<type>>)
                   /\ list' = add_inlineasm_restart(list, ip)
                   /\ recorded' = [recorded EXCEPT ![ip] = @ + 1]
              ELSE /\ count(<<type, "PAGE_FAULT">>)
                   /\ UNCHANGED <<list, recorded>>
       ELSE count(<<type>>) /\ UNCHANGED <<list, recorded>>
  /\ UNCHANGED <<init_done, stats_enabled, allocated>>

\* kspecem_common_late_init: the list is allocated if it is enabled by then.
LateInit ==
  /\ ~init_done
  /\ init_done' = TRUE
  /\ allocated' = stats_enabled
  /\ UNCHANGED <<stats_enabled, total, counts, list, recorded>>

\* The debugfs file inlineasm_restart_stats_enabled.
SetStatsEnabled ==
  /\ stats_enabled' = ~stats_enabled
  /\ UNCHANGED <<init_done, allocated, total, counts, list, recorded>>

Next ==
  \/ \E type \in Types, ip \in Ips : Restart(type, ip)
  \/ LateInit
  \/ SetStatsEnabled

Spec == Init /\ [][Next]_vars

-----------------------------------------------------------------------------
(* Properties *)

\* The type invariant; the list stays inside its array.
TypeOK ==
  /\ init_done \in BOOLEAN /\ stats_enabled \in BOOLEAN /\ allocated \in BOOLEAN
  /\ total \in Nat
  /\ counts \in [Types -> Nat]
  /\ list \in Seq(Stat) /\ Len(list) <= NumIps
  /\ recorded \in [Ips -> Nat]

\* "Sorted list": whatever order restarts come in, the list is sorted by
\* decreasing counts (kspecem_add_inlineasm_restart moves one entry only).
Sorted == \A j, k \in DOMAIN list : j < k => list[j].count >= list[k].count

\* An instruction is either counted exactly or not at all, and the latter only
\* when the list is full, so that kspecem_print_inlineasm_stats warns of it.
ListExact ==
  \A ip \in Ips :
    \/ \E k \in DOMAIN list : list[k] = [ip |-> ip, count |-> recorded[ip]]
    \/ /\ \A k \in DOMAIN list : list[k].ip # ip
       /\ recorded[ip] > 0 => Len(list) = NumIps

\* What kspecem_print_inlineasm_stats may rely on, at any time.
ListCorrect == Sorted /\ ListExact

\* The counters of kspecem_print_restart_statistics agree with each other and
\* with the list, whenever its switch is set or cleared.
CountersAgree ==
  /\ total = SumFunction(counts)
  /\ SumFunction([k \in DOMAIN list |-> list[k].count]) <= counts["CALL_INLINE_ASM"]
=============================================================================
