---------------------------- MODULE ReportsProofs ----------------------------
(****************************************************************************)
(* Proofs about Reports, for every size of the list of pending reports, all *)
(* instructions and access types, and any number of speculations.           *)
(****************************************************************************)
EXTENDS Reports, DataLemmas

Line == [bug : Bug, level : {"DEFAULT", "DUPLICATES"}, header : Nat]

\* The states of the loop of kspecem_report_print_and_clear.
LoopState == [seen : SUBSET (Ips \X AccessTypes), out : Seq(Line)]

LoopStart == [seen |-> previous_bugs, out |-> log]

\* The loop over bs, turn by turn.
Turns(f, n, bs, header) ==
  /\ f \in [0..n -> LoopState]
  /\ f[0] = LoopStart
  /\ \A k \in 1..n : f[k] = print_one(f[k - 1], bs[k], header)

\* What was printed stays where it is.
Extends(new, old) == Len(old) <= Len(new) /\ \A j \in DOMAIN old : new[j] = old[j]

\* Every access that is marked has been printed.
AllPrinted(seen, out) == \A key \in seen : \E j \in DOMAIN out : Key(out[j].bug) = key

\* What is printed at the default level is marked, and is printed once.
PrintedOnce(seen, out) ==
  /\ \A j \in DOMAIN out : out[j].level = "DEFAULT" => Key(out[j].bug) \in seen
  /\ \A j, k \in DOMAIN out :
       j # k /\ out[j].level = "DEFAULT" /\ out[k].level = "DEFAULT" =>
         Key(out[j].bug) # Key(out[k].bug)

\* The new lines are about reports of the list, all under the same header.
NewLines(out, old, bs, header) ==
  \A j \in DOMAIN out \ DOMAIN old :
    out[j].header = header /\ \E i \in DOMAIN bs : out[j].bug = bs[i]

\* The reports up to the k-th are accounted for.
Accounted(out, bs, k) ==
  print_level # "NONE" =>
    \A i \in 1..k : \E j \in DOMAIN out : Key(out[j].bug) = Key(bs[i])

LoopInv(a, k, bs, header) ==
  /\ Extends(a.out, log)
  /\ AllPrinted(a.seen, a.out)
  /\ PrintedOnce(a.seen, a.out)
  /\ NewLines(a.out, log, bs, header)
  /\ Accounted(a.out, bs, k)

\* Outside speculation nothing is left of the last restart; inside, there has
\* been a checkpoint.
ModeInv == (~in_spec => ~in_restart) /\ (in_spec => window # 0)

PrintInv == AllPrinted(previous_bugs, log) /\ PrintedOnce(previous_bugs, log)

\* Nothing of the current speculation is printed before it is over.
PrintedWindows ==
  \A j \in DOMAIN log : /\ log[j].bug.window <= window
                        /\ in_spec => log[j].bug.window # window

\* Pending reports are of speculations of which nothing has been printed.
PendingWindows ==
  \A k \in DOMAIN bugs : /\ bugs[k].window \in 1..window
                         /\ \A j \in DOMAIN log : log[j].bug.window # bugs[k].window

\* The inductive invariant.
Inv == TypeOK /\ ModeInv /\ PrintInv /\ PrintedWindows /\ PendingWindows /\ HeadersConsistent

-----------------------------------------------------------------------------
(* The loop *)

\* A turn keeps the types: what is printed has a level other than NONE.
LEMMA TurnType ==
  ASSUME TypeOK, NEW a \in LoopState, NEW b \in Bug, NEW header \in Nat
  PROVE  print_one(a, b, header) \in LoopState
<1> DEFINE r == should_report(b, a.seen)
<1>1. a.seen \in SUBSET (Ips \X AccessTypes) /\ a.out \in Seq(Line)
  BY DEF LoopState
<1>2. Key(b) \in Ips \X AccessTypes
  BY DEF Key, Bug
<1>3. r.seen \in SUBSET (Ips \X AccessTypes)
  BY <1>1, <1>2 DEF should_report
<1>4. r.print => Entry(b, header) \in Line
  BY DEF should_report, Entry, Line
<1>5. (IF r.print THEN Append(a.out, Entry(b, header)) ELSE a.out) \in Seq(Line)
  BY <1>1, <1>4
<1> HIDE DEF r
<1> QED  BY <1>3, <1>5 DEF print_one, LoopState, r

\* The loop can be run to any report of the list.
LEMMA TurnsExist ==
  ASSUME TypeOK, NEW bs \in Seq(Bug), NEW header \in Nat
  PROVE  \E f : Turns(f, Len(bs), bs, header)
<1> DEFINE T == {n \in Nat : n <= Len(bs) => \E f : Turns(f, n, bs, header)}
<1>1. 0 \in T
  <2> DEFINE f == [k \in 0..0 |-> LoopStart]
  <2>1. LoopStart \in LoopState
    BY DEF LoopStart, LoopState, TypeOK, Line
  <2>2. f \in [0..0 -> LoopState] /\ f[0] = LoopStart
    BY <2>1
  <2> HIDE DEF f
  <2>3. Turns(f, 0, bs, header)
    BY <2>2 DEF Turns
  <2> QED  BY <2>3
<1>2. ASSUME NEW n \in Nat, n \in T PROVE n + 1 \in T
  <2> SUFFICES ASSUME n + 1 <= Len(bs) PROVE \E g : Turns(g, n + 1, bs, header)
    OBVIOUS
  <2>1. PICK f : Turns(f, n, bs, header)
    BY <1>2
  <2> DEFINE g == [k \in 0..(n + 1) |-> IF k <= n THEN f[k] ELSE print_one(f[n], bs[n + 1], header)]
  <2>2. f[n] \in LoopState /\ bs[n + 1] \in Bug
    BY <2>1 DEF Turns
  <2>3. print_one(f[n], bs[n + 1], header) \in LoopState
    BY <2>2, TurnType
  <2>4. g \in [0..(n + 1) -> LoopState]
    BY <2>1, <2>3 DEF Turns
  <2>5. (\A k \in 0..n : g[k] = f[k]) /\ g[n + 1] = print_one(f[n], bs[n + 1], header)
    OBVIOUS
  <2> HIDE DEF g
  <2>6. ASSUME NEW k \in 1..(n + 1) PROVE g[k] = print_one(g[k - 1], bs[k], header)
    <3>1. CASE k \in 1..n
      <4>1. k - 1 \in 0..n /\ k \in 0..n
        BY <3>1
      <4> QED  BY <2>1, <2>5, <3>1, <4>1 DEF Turns
    <3>2. CASE k = n + 1
      <4>1. k - 1 = n /\ n \in 0..n
        BY <3>2
      <4> QED  BY <2>5, <3>2, <4>1
    <3> QED  BY <3>1, <3>2
  <2>7. Turns(g, n + 1, bs, header)
    BY <2>1, <2>4, <2>5, <2>6 DEF Turns
  <2> QED  BY <2>7
<1> HIDE DEF T
<1>3. Len(bs) \in T
  BY <1>1, <1>2, SetInduction
<1> QED  BY <1>3 DEF T

\* The recursive function of print_all is that run of the loop.
LEMMA PrintAllTurns ==
  ASSUME TypeOK, NEW bs \in Seq(Bug), NEW header \in Nat
  PROVE  \E f : Turns(f, Len(bs), bs, header) /\ print_all(bs, header) = f[Len(bs)]
<1> DEFINE Body(f) == [k \in 0..Len(bs) |->
                         IF k = 0 THEN LoopStart ELSE print_one(f[k - 1], bs[k], header)]
           after == CHOOSE f : f = Body(f)
<1>1. PICK f : Turns(f, Len(bs), bs, header)
  BY TurnsExist
<1>2. f = Body(f)
  <2>1. f = [k \in 0..Len(bs) |-> f[k]]
    BY <1>1 DEF Turns
  <2>2. \A k \in 0..Len(bs) : f[k] = IF k = 0 THEN LoopStart ELSE print_one(f[k - 1], bs[k], header)
    BY <1>1 DEF Turns
  <2> QED  BY <2>1, <2>2
<1>3. after = Body(after)
  BY <1>2
<1>4. print_all(bs, header) = after[Len(bs)]
  BY DEF print_all, LoopStart
<1> HIDE DEF after
<1> DEFINE T == {n \in Nat : n <= Len(bs) => after[n] = f[n]}
<1>5. 0 \in T
  BY <1>1, <1>3 DEF Turns
<1>6. ASSUME NEW n \in Nat, n \in T PROVE n + 1 \in T
  <2> SUFFICES ASSUME n + 1 <= Len(bs) PROVE after[n + 1] = f[n + 1]
    OBVIOUS
  <2>1. after[n + 1] = print_one(after[n], bs[n + 1], header)
    BY <1>3
  <2>2. f[n + 1] = print_one(f[n], bs[n + 1], header)
    BY <1>1 DEF Turns
  <2> QED  BY <1>6, <2>1, <2>2
<1> HIDE DEF T
<1>7. Len(bs) \in T
  BY <1>5, <1>6, SetInduction
<1> QED  BY <1>1, <1>4, <1>7 DEF T

\* A turn that prints adds one line and changes no other; one that does not
\* print is about an access that is marked, or printing is off.
LEMMA TurnCases ==
  ASSUME TypeOK, NEW a \in LoopState, NEW b \in Bug, NEW header \in Nat
  PROVE  LET new == print_one(a, b, header) IN
         \/ /\ new.out = Append(a.out, Entry(b, header))
            /\ \/ print_level = "DUPLICATES" /\ new.seen = a.seen
               \/ /\ print_level = "DEFAULT" /\ new.seen = a.seen \cup {Key(b)}
                  /\ Key(b) \notin a.seen
         \/ /\ new.out = a.out /\ new.seen = a.seen
            /\ print_level = "NONE" \/ Key(b) \in a.seen
<1>1. print_level \in {"DEFAULT", "NONE", "DUPLICATES"}
  BY ReportsAssumption DEF TypeOK
<1> QED  BY <1>1 DEF print_one, should_report

LEMMA TurnInv ==
  ASSUME TypeOK, NEW bs \in Seq(Bug), NEW header \in Nat,
         NEW a \in LoopState, NEW k \in Nat, k + 1 <= Len(bs), LoopInv(a, k, bs, header)
  PROVE  LoopInv(print_one(a, bs[k + 1], header), k + 1, bs, header)
<1> DEFINE b   == bs[k + 1]
           new == print_one(a, b, header)
           old == a.out
<1>1. b \in Bug /\ new \in LoopState /\ k + 1 \in DOMAIN bs
  BY TurnType
<1>2. old \in Seq(Line) /\ log \in Seq(Line) /\ Len(log) <= Len(old)
  BY DEF LoopState, LoopInv, Extends, TypeOK, Line
<1>3. CASE new.out = old /\ new.seen = a.seen /\ (print_level = "NONE" \/ Key(b) \in a.seen)
  <2>1. Accounted(new.out, bs, k + 1)
    <3> SUFFICES ASSUME print_level # "NONE", NEW i \in 1..(k + 1)
                 PROVE  \E j \in DOMAIN old : Key(old[j].bug) = Key(bs[i])
      BY <1>3 DEF Accounted
    <3>1. CASE i \in 1..k
      BY <3>1 DEF LoopInv, Accounted
    <3>2. CASE i = k + 1
      BY <1>3, <3>2 DEF LoopInv, AllPrinted
    <3> QED  BY <3>1, <3>2
  <2> QED  BY <1>3, <2>1 DEF LoopInv
<1>4. CASE /\ new.out = Append(old, Entry(b, header))
           /\ \/ print_level = "DUPLICATES" /\ new.seen = a.seen
              \/ /\ print_level = "DEFAULT" /\ new.seen = a.seen \cup {Key(b)}
                 /\ Key(b) \notin a.seen
  <2> DEFINE n == Len(old) + 1
  <2>1. /\ DOMAIN new.out = DOMAIN old \cup {n} /\ n \notin DOMAIN old
        /\ Len(new.out) = Len(old) + 1
        /\ new.out[n] = Entry(b, header) /\ \A j \in DOMAIN old : new.out[j] = old[j]
    BY <1>2, <1>4
  <2>2. /\ new.out[n].bug = b /\ new.out[n].level = print_level
        /\ new.out[n].header = header
    BY <2>1 DEF Entry
  <2>3. DOMAIN log \subseteq DOMAIN old
    BY <1>2
  <2> HIDE DEF new, old, n, b
  <2>4. Extends(new.out, log)
    BY <1>2, <2>1, <2>3 DEF LoopInv, Extends, old
  <2>5. AllPrinted(new.seen, new.out)
    BY <1>4, <2>1, <2>2 DEF LoopInv, AllPrinted, old
  <2>6. PrintedOnce(new.seen, new.out)
    <3>1. ASSUME NEW j \in DOMAIN new.out, new.out[j].level = "DEFAULT"
          PROVE  Key(new.out[j].bug) \in new.seen
      BY <1>4, <2>1, <2>2, <3>1 DEF LoopInv, PrintedOnce, old
    <3>2. ASSUME NEW i \in DOMAIN old, new.out[n].level = "DEFAULT", new.out[i].level = "DEFAULT"
          PROVE  Key(new.out[i].bug) # Key(new.out[n].bug)
      BY <1>4, <2>1, <2>2, <3>2 DEF LoopInv, PrintedOnce, old
    <3>3. ASSUME NEW i \in DOMAIN old, NEW j \in DOMAIN old, i # j,
                 new.out[i].level = "DEFAULT", new.out[j].level = "DEFAULT"
          PROVE  Key(new.out[i].bug) # Key(new.out[j].bug)
      BY <2>1, <3>3 DEF LoopInv, PrintedOnce, old
    <3> QED  BY <2>1, <3>1, <3>2, <3>3 DEF PrintedOnce
  <2>7. NewLines(new.out, log, bs, header)
    BY <1>1, <2>1, <2>2 DEF LoopInv, NewLines, old, b
  <2>8. Accounted(new.out, bs, k + 1)
    <3> SUFFICES ASSUME print_level # "NONE", NEW i \in 1..(k + 1)
                 PROVE  \E j \in DOMAIN new.out : Key(new.out[j].bug) = Key(bs[i])
      BY DEF Accounted
    <3>1. CASE i \in 1..k
      BY <2>1, <3>1 DEF LoopInv, Accounted, old
    <3>2. CASE i = k + 1
      BY <2>1, <2>2, <3>2 DEF b
    <3> QED  BY <3>1, <3>2
  <2> QED  BY <2>4, <2>5, <2>6, <2>7, <2>8 DEF LoopInv, new, b
<1> QED  BY <1>1, <1>3, <1>4, TurnCases

\* What the whole loop does.
LEMMA PrintAllFacts ==
  ASSUME TypeOK, NEW bs \in Seq(Bug), NEW header \in Nat,
         AllPrinted(previous_bugs, log), PrintedOnce(previous_bugs, log)
  PROVE  LET result == print_all(bs, header) IN
         result \in LoopState /\ LoopInv(result, Len(bs), bs, header)
<1>1. PICK f : Turns(f, Len(bs), bs, header) /\ print_all(bs, header) = f[Len(bs)]
  BY PrintAllTurns
<1> DEFINE T == {n \in Nat : n <= Len(bs) => LoopInv(f[n], n, bs, header)}
<1>2. 0 \in T
  <2>1. f[0].seen = previous_bugs /\ f[0].out = log
    BY <1>1 DEF Turns, LoopStart
  <2>2. LoopInv(f[0], 0, bs, header)
    BY <2>1 DEF LoopInv, Extends, NewLines, Accounted, TypeOK
  <2> QED  BY <2>2
<1>3. ASSUME NEW n \in Nat, n \in T PROVE n + 1 \in T
  <2> SUFFICES ASSUME n + 1 <= Len(bs) PROVE LoopInv(f[n + 1], n + 1, bs, header)
    OBVIOUS
  <2>1. f[n] \in LoopState /\ LoopInv(f[n], n, bs, header)
    BY <1>1, <1>3 DEF Turns
  <2>2. f[n + 1] = print_one(f[n], bs[n + 1], header)
    BY <1>1 DEF Turns
  <2> QED  BY <2>1, <2>2, TurnInv
<1> HIDE DEF T
<1>4. Len(bs) \in T
  BY <1>2, <1>3, SetInduction
<1>5. f[Len(bs)] \in LoopState
  BY <1>1 DEF Turns
<1> QED  BY <1>1, <1>4, <1>5 DEF T

-----------------------------------------------------------------------------
(* The invariant *)

\* The window of what is printed is a number.
LEMMA LineWindow == ASSUME NEW l \in Seq(Line) PROVE \A j \in DOMAIN l : l[j].bug.window \in Nat
<1> TAKE j \in DOMAIN l
<1>1. l[j] \in Line
  OBVIOUS
<1>2. l[j].bug \in Bug
  BY <1>1 DEF Line
<1> QED  BY <1>2 DEF Bug

\* Whatever is printed: reports made outside speculation, or of speculations of
\* which nothing was printed, under the header of the last checkpoint or none.
LEMMA PrintAndClearInv ==
  ASSUME Inv, NEW bs \in Seq(Bug), NEW header \in {0, window},
         print_and_clear(bs, header), in_spec' = FALSE, window' = window,
         \A i \in DOMAIN bs :
           \/ bs[i].window = 0
           \/ bs[i].window \in 1..window /\ \A j \in DOMAIN log : log[j].bug.window # bs[i].window
  PROVE  /\ bugs' = << >> /\ bugs' \in Seq(Bug)
         /\ previous_bugs' \subseteq Ips \X AccessTypes /\ log' \in Seq(Line)
         /\ PrintInv' /\ PrintedWindows' /\ PendingWindows' /\ HeadersConsistent'
         /\ Accounted(log', bs, Len(bs)) /\ Extends(log', log)
<1>1. window \in Nat /\ header \in Nat
  BY ReportsAssumption DEF Inv, TypeOK
<1> DEFINE result == print_all(bs, header)
<1>2. result \in LoopState /\ LoopInv(result, Len(bs), bs, header)
  BY <1>1, PrintAllFacts DEF Inv, PrintInv
<1>3. previous_bugs' = result.seen /\ log' = result.out /\ bugs' = << >>
  BY DEF print_and_clear
<1> HIDE DEF result
<1>4. previous_bugs' \subseteq Ips \X AccessTypes /\ log' \in Seq(Line) /\ bugs' \in Seq(Bug)
  BY <1>2, <1>3 DEF LoopState
<1>5. PrintInv' /\ Accounted(log', bs, Len(bs)) /\ Extends(log', log)
  BY <1>2, <1>3 DEF LoopInv, PrintInv, AllPrinted, PrintedOnce
<1>6. log \in Seq(Line) /\ DOMAIN log \subseteq DOMAIN log' /\ \A j \in DOMAIN log : log'[j] = log[j]
  <2>1. log \in Seq(Line)
    BY DEF Inv, TypeOK, Line
  <2>2. Len(log) <= Len(log') /\ \A j \in DOMAIN log : log'[j] = log[j]
    BY <1>5 DEF Extends
  <2> QED  BY <1>4, <2>1, <2>2
<1>7. \A j \in DOMAIN log' \ DOMAIN log :
        log'[j].header = header /\ \E i \in DOMAIN bs : log'[j].bug = bs[i]
  BY <1>2, <1>3 DEF LoopInv, NewLines
<1>8. \A j \in DOMAIN log' : log'[j].bug.window \in Nat
  BY <1>4, LineWindow
<1>9. ASSUME NEW j \in DOMAIN log'
      PROVE  /\ log'[j].bug.window <= window
             /\ log'[j].header = 0 \/ log'[j].header >= log'[j].bug.window
  <2>1. CASE j \in DOMAIN log
    BY <1>6, <2>1 DEF Inv, PrintedWindows, HeadersConsistent
  <2>2. CASE j \notin DOMAIN log
    <3>1. PICK i \in DOMAIN bs : log'[j].bug = bs[i]
      BY <1>7, <2>2
    <3>2. bs[i].window <= window
      BY <1>1, <3>1
    <3> QED  BY <1>1, <1>7, <1>8, <2>2, <3>1, <3>2
  <2> QED  BY <2>1, <2>2
<1>10. ASSUME NEW j \in DOMAIN log', NEW k \in DOMAIN log',
              log'[k].bug.window # 0, log'[j].bug.window = log'[k].bug.window
       PROVE  log'[j].header = log'[k].header
  <2>1. CASE j \in DOMAIN log /\ k \in DOMAIN log
    BY <1>6, <1>10, <2>1 DEF Inv, HeadersConsistent
  <2>2. CASE j \notin DOMAIN log /\ k \notin DOMAIN log
    BY <1>7, <2>2
  <2>3. ASSUME NEW x \in DOMAIN log, NEW y \in DOMAIN log', y \notin DOMAIN log,
               log'[y].bug.window # 0
        PROVE  log'[x].bug.window # log'[y].bug.window
    <3>1. PICK i \in DOMAIN bs : log'[y].bug = bs[i]
      BY <1>7, <2>3
    <3> QED  BY <1>6, <2>3, <3>1
  <2> QED  BY <1>10, <2>1, <2>2, <2>3
<1>11. PrintedWindows' /\ PendingWindows'
  BY <1>3, <1>9 DEF PrintedWindows, PendingWindows
<1>12. HeadersConsistent'
  BY <1>9, <1>10 DEF HeadersConsistent
<1> QED  BY <1>3, <1>4, <1>5, <1>11, <1>12

LEMMA InitInv == Init => Inv
<1> SUFFICES ASSUME Init PROVE Inv
  OBVIOUS
<1>1. bugs \in Seq(Bug) /\ log \in Seq(Line) /\ previous_bugs \subseteq Ips \X AccessTypes
  BY DEF Init
<1>2. 0 \in 0..MaxDepth /\ 0 \in 0..MaxWindows /\ 0 \in 0..MaxReports
  BY ReportsAssumption
<1>3. TypeOK
  BY <1>1, <1>2 DEF Init, TypeOK, Line
<1>4. PrintInv /\ ModeInv
  BY DEF Init, PrintInv, AllPrinted, PrintedOnce, ModeInv
<1>5. PrintedWindows /\ PendingWindows /\ HeadersConsistent
  BY DEF Init, PrintedWindows, PendingWindows, HeadersConsistent
<1> QED  BY <1>3, <1>4, <1>5 DEF Inv

LEMMA NewCheckpointInv == Inv /\ NewCheckpoint => Inv'
<1> SUFFICES ASSUME Inv, NewCheckpoint PROVE Inv'
  OBVIOUS
<1>1. /\ in_spec' = TRUE /\ spec_depth' = 0 /\ window' = window + 1 /\ window < MaxWindows /\ ~in_spec
      /\ UNCHANGED <<in_restart, spec_assert, bugs, previous_bugs, print_level, panicked, made, log>>
  BY DEF NewCheckpoint
<1>2. window \in Nat /\ window' \in Nat /\ window' # 0 /\ window' \in 0..MaxWindows /\ 0 \in 0..MaxDepth
  BY <1>1, ReportsAssumption DEF Inv, TypeOK
<1>3. TypeOK'
  BY <1>1, <1>2 DEF Inv, TypeOK
<1>4. ModeInv' /\ PrintInv' /\ HeadersConsistent'
  BY <1>1, <1>2 DEF Inv, ModeInv, PrintInv, HeadersConsistent
<1>5. PrintedWindows' /\ PendingWindows'
  <2>1. \A j \in DOMAIN log : log[j].bug.window \in Nat
    <3>1. log \in Seq(Line)
      BY DEF Inv, TypeOK, Line
    <3> QED  BY <3>1, LineWindow
  <2> QED  BY <1>1, <1>2, <2>1 DEF Inv, PrintedWindows, PendingWindows
<1> QED  BY <1>3, <1>4, <1>5 DEF Inv

LEMMA CallInv == Inv /\ Call => Inv'
<1> SUFFICES ASSUME Inv, Call PROVE Inv'
  OBVIOUS
<1>1. /\ spec_depth' \in 0..MaxDepth
      /\ UNCHANGED <<in_spec, in_restart, spec_assert, bugs, previous_bugs, print_level, panicked,
                     window, made, log>>
  BY ReportsAssumption DEF Call, Inv, TypeOK
<1> QED  BY <1>1 DEF Inv, TypeOK, ModeInv, PrintInv, PrintedWindows, PendingWindows, HeadersConsistent

\* A restart that rolls back, with the reports or without.
LEMMA RollbackInv ==
  ASSUME Inv, NEW type \in RestartTypes, in_spec, Rollback(type),
         UNCHANGED <<spec_assert, print_level, window, made>>
  PROVE  Inv'
<1>1. in_spec' = FALSE /\ spec_depth' = 0 /\ in_restart' = FALSE /\ panicked' \in BOOLEAN
  BY DEF Rollback, restart_panics, Inv, TypeOK
<1>2. 0 \in 0..MaxDepth
  BY ReportsAssumption
<1>3. CASE type \in {"TIMER", "EXCEPTION"}
  <2>1. UNCHANGED <<bugs, previous_bugs, log>>
    BY <1>3 DEF Rollback, restart_reports
  <2>2. TypeOK'
    BY <1>1, <1>2, <2>1 DEF Inv, TypeOK
  <2> QED  BY <1>1, <2>1, <2>2
           DEF Inv, ModeInv, PrintInv, PrintedWindows, PendingWindows, HeadersConsistent
<1>4. CASE type \notin {"TIMER", "EXCEPTION"}
  <2>1. print_and_clear(bugs, window)
    BY <1>4 DEF Rollback, restart_reports
  <2>2. bugs \in Seq(Bug) /\ window' = window
    BY DEF Inv, TypeOK
  <2>3. /\ bugs' \in Seq(Bug) /\ previous_bugs' \subseteq Ips \X AccessTypes /\ log' \in Seq(Line)
        /\ PrintInv' /\ PrintedWindows' /\ PendingWindows' /\ HeadersConsistent'
    BY <1>1, <2>1, <2>2, PrintAndClearInv DEF Inv, PendingWindows
  <2>4. TypeOK'
    BY <1>1, <1>2, <2>3 DEF Inv, TypeOK, Line
  <2>5. ModeInv'
    BY <1>1 DEF ModeInv
  <2> QED  BY <2>3, <2>4, <2>5 DEF Inv
<1> QED  BY <1>3, <1>4

LEMMA RestartInv == ASSUME Inv, NEW type \in RestartTypes, Restart(type) PROVE Inv'
<1>1. CASE LeavesFrame(type)
  <2>1. /\ spec_depth' \in 0..MaxDepth /\ in_restart' = TRUE /\ in_spec
        /\ UNCHANGED <<in_spec, bugs, previous_bugs, log, panicked, spec_assert, print_level, window,
                       made>>
    BY <1>1, ReportsAssumption DEF Restart, LeavesFrame, Inv, TypeOK
  <2> QED  BY <2>1
           DEF Inv, TypeOK, ModeInv, PrintInv, PrintedWindows, PendingWindows, HeadersConsistent
<1>2. CASE ~LeavesFrame(type)
  BY <1>2, RollbackInv DEF Restart
<1> QED  BY <1>1, <1>2

\* The report that Report makes.
NewBug(ip, type) == [ip |-> ip, type |-> type, window |-> IF in_spec THEN window ELSE 0]

\* A report that is added to the pending ones, or printed with them.
LEMMA AddBugInv ==
  ASSUME Inv, NEW ip \in Ips, NEW type \in AccessTypes, AddBug(NewBug(ip, type)),
         UNCHANGED <<in_spec, spec_depth, in_restart, print_level, window>>,
         made' \in 0..MaxReports, spec_assert' \in BOOLEAN, panicked' \in BOOLEAN
  PROVE  Inv'
<1> DEFINE b == NewBug(ip, type)
<1>1. bugs \in Seq(Bug) /\ window \in Nat /\ log \in Seq(Line)
  BY ReportsAssumption DEF Inv, TypeOK, Line
<1>2. b \in Bug /\ b.window = (IF in_spec THEN window ELSE 0)
  BY <1>1 DEF NewBug, Bug
<1>3. /\ Append(bugs, b) \in Seq(Bug) /\ DOMAIN Append(bugs, b) = DOMAIN bugs \cup {Len(bugs) + 1}
      /\ Append(bugs, b)[Len(bugs) + 1] = b
      /\ \A k \in DOMAIN bugs : Append(bugs, b)[k] = bugs[k]
  BY <1>1, <1>2
<1> HIDE DEF b
<1>4. CASE in_spec
  <2>1. bugs' = Append(bugs, b) /\ UNCHANGED <<previous_bugs, log>>
    BY <1>4 DEF AddBug, b
  <2>2. TypeOK'
    BY <1>3, <2>1 DEF Inv, TypeOK
  <2>3. ModeInv' /\ PrintInv' /\ PrintedWindows' /\ HeadersConsistent'
    BY <2>1 DEF Inv, ModeInv, PrintInv, PrintedWindows, HeadersConsistent
  <2>4. PendingWindows'
    <3> SUFFICES ASSUME NEW k \in DOMAIN bugs'
                 PROVE  /\ bugs'[k].window \in 1..window
                        /\ \A j \in DOMAIN log : log[j].bug.window # bugs'[k].window
      BY <2>1 DEF PendingWindows
    <3>1. CASE k \in DOMAIN bugs
      BY <1>3, <2>1, <3>1 DEF Inv, PendingWindows
    <3>2. CASE k = Len(bugs) + 1
      <4>1. bugs'[k].window = window /\ window # 0
        BY <1>2, <1>3, <1>4, <2>1, <3>2 DEF Inv, ModeInv
      <4> QED  BY <1>1, <1>4, <4>1 DEF Inv, PrintedWindows
    <3> QED  BY <1>3, <2>1, <3>1, <3>2
  <2> QED  BY <2>2, <2>3, <2>4 DEF Inv
<1>5. CASE ~in_spec
  <2> DEFINE bs == Append(bugs, b)
  <2>1. print_and_clear(bs, 0)
    BY <1>5 DEF AddBug, b
  <2>2. \A i \in DOMAIN bs :
           \/ bs[i].window = 0
           \/ bs[i].window \in 1..window /\ \A j \in DOMAIN log : log[j].bug.window # bs[i].window
    BY <1>2, <1>3, <1>5 DEF Inv, PendingWindows
  <2>3. in_spec' = FALSE /\ window' = window /\ bs \in Seq(Bug)
    BY <1>3, <1>5 DEF Inv, TypeOK
  <2> HIDE DEF bs
  <2>4. /\ bugs' \in Seq(Bug) /\ previous_bugs' \subseteq Ips \X AccessTypes /\ log' \in Seq(Line)
        /\ PrintInv' /\ PrintedWindows' /\ PendingWindows' /\ HeadersConsistent'
    BY <2>1, <2>2, <2>3, PrintAndClearInv
  <2>5. TypeOK'
    BY <2>4 DEF Inv, TypeOK, Line
  <2>6. ModeInv'
    BY DEF Inv, ModeInv
  <2> QED  BY <2>4, <2>5, <2>6 DEF Inv
<1> QED  BY <1>4, <1>5

LEMMA ReportInv == ASSUME Inv, NEW ip \in Ips, NEW type \in AccessTypes, Report(ip, type) PROVE Inv'
<1> DEFINE b    == NewBug(ip, type)
           full == Len(bugs) >= BugsListSize
<1>1. made' \in 0..MaxReports /\ UNCHANGED <<print_level, window>>
  BY ReportsAssumption DEF Report, Inv, TypeOK
<1>2. CASE ~full \/ (full /\ in_spec /\ in_restart)
  <2>1. /\ AddBug(b) /\ UNCHANGED <<in_spec, spec_depth, in_restart, panicked>>
        /\ spec_assert' \in BOOLEAN
    BY <1>2 DEF Report, NewBug, Inv, TypeOK
  <2> QED  BY <1>1, <2>1, AddBugInv DEF Inv, TypeOK
<1>3. CASE full /\ ~in_spec
  <2>1. /\ panicked' = TRUE
        /\ UNCHANGED <<in_spec, spec_depth, in_restart, spec_assert, bugs, previous_bugs, log>>
    BY <1>3 DEF Report
  <2> QED  BY <1>1, <2>1
           DEF Inv, TypeOK, ModeInv, PrintInv, PrintedWindows, PendingWindows, HeadersConsistent
<1>4. CASE full /\ in_spec /\ ~in_restart
  <2>1. /\ spec_assert' = TRUE /\ in_spec' = FALSE /\ spec_depth' = 0 /\ in_restart' = FALSE
        /\ print_and_clear(bugs, window) /\ panicked' = TRUE
    BY <1>4 DEF Report
  <2>2. bugs \in Seq(Bug) /\ window' = window /\ 0 \in 0..MaxDepth
    BY <1>1, ReportsAssumption DEF Inv, TypeOK
  <2>3. /\ bugs' \in Seq(Bug) /\ previous_bugs' \subseteq Ips \X AccessTypes /\ log' \in Seq(Line)
        /\ PrintInv' /\ PrintedWindows' /\ PendingWindows' /\ HeadersConsistent'
    BY <2>1, <2>2, PrintAndClearInv DEF Inv, PendingWindows
  <2>4. TypeOK'
    BY <1>1, <2>1, <2>2, <2>3 DEF Inv, TypeOK, Line
  <2>5. ModeInv'
    BY <2>1 DEF ModeInv
  <2> QED  BY <2>3, <2>4, <2>5 DEF Inv
<1> QED  BY <1>2, <1>3, <1>4 DEF Report

LEMMA SetPrintLevelInv == ASSUME Inv, NEW level \in PrintLevels, SetPrintLevel(level) PROVE Inv'
BY DEF SetPrintLevel, Inv, TypeOK, ModeInv, PrintInv, PrintedWindows, PendingWindows,
       HeadersConsistent

LEMMA UnchangedInv == Inv /\ UNCHANGED vars => Inv'
BY DEF vars, Inv, TypeOK, ModeInv, PrintInv, PrintedWindows, PendingWindows, HeadersConsistent

LEMMA NextInv == Inv /\ [Next]_vars => Inv'
BY NewCheckpointInv, CallInv, RestartInv, ReportInv, SetPrintLevelInv, UnchangedInv DEF Next, Done

LEMMA SpecInv == Spec => []Inv
BY InitInv, NextInv, PTL DEF Spec

-----------------------------------------------------------------------------
(* Theorems *)

\* The state stays well-formed; nothing is printed while printing is off.
THEOREM TypeCorrect == Spec => []TypeOK
BY SpecInv, PTL DEF Inv

\* kspecem_should_report_access_bug prints an access once by default, whatever
\* the level was set to in between and however often it is reported.
THEOREM NeverDuplicates == Spec => []NoDuplicates
<1>1. Inv => NoDuplicates
  BY DEF Inv, PrintInv, PrintedOnce, NoDuplicates
<1> QED  BY <1>1, SpecInv, PTL

\* Reports that outlive their speculation are printed once, all those of one
\* speculation under one header, and never under that of an earlier checkpoint.
THEOREM HeadersAlwaysConsistent == Spec => []HeadersConsistent
BY SpecInv, PTL DEF Inv

\* No step loses a report that is pending.
LEMMA StepAccounts ==
  ASSUME Inv, [Next]_vars, NEW k \in DOMAIN bugs
  PROVE  \/ k \in DOMAIN bugs' /\ bugs'[k] = bugs[k]
         \/ print_level = "NONE"
         \/ \E j \in DOMAIN log' : Key(log'[j].bug) = Key(bugs[k])
<1>1. bugs \in Seq(Bug) /\ window \in Nat
  BY ReportsAssumption DEF Inv, TypeOK
<1>2. CASE UNCHANGED bugs
  BY <1>2
<1>3. ASSUME print_and_clear(bugs, window), in_spec' = FALSE, window' = window
      PROVE  print_level = "NONE" \/ \E j \in DOMAIN log' : Key(log'[j].bug) = Key(bugs[k])
  <2>1. Accounted(log', bugs, Len(bugs))
    BY <1>1, <1>3, PrintAndClearInv DEF Inv, PendingWindows
  <2> QED  BY <1>1, <2>1 DEF Accounted
<1>4. ASSUME NEW ip \in Ips, NEW type \in AccessTypes, AddBug(NewBug(ip, type)),
             UNCHANGED <<in_spec, window>>
      PROVE  \/ k \in DOMAIN bugs' /\ bugs'[k] = bugs[k]
             \/ print_level = "NONE"
             \/ \E j \in DOMAIN log' : Key(log'[j].bug) = Key(bugs[k])
  <2> DEFINE b  == NewBug(ip, type)
             bs == Append(bugs, b)
  <2>1. b \in Bug /\ b.window = (IF in_spec THEN window ELSE 0)
    BY <1>1 DEF NewBug, Bug
  <2>2. /\ bs \in Seq(Bug) /\ DOMAIN bs = DOMAIN bugs \cup {Len(bugs) + 1}
        /\ bs[Len(bugs) + 1] = b /\ \A i \in DOMAIN bugs : bs[i] = bugs[i]
        /\ k \in 1..Len(bs)
    BY <1>1, <2>1
  <2>3. CASE in_spec
    <3>1. bugs' = bs
      BY <1>4, <2>3 DEF AddBug
    <3> QED  BY <2>2, <3>1
  <2>4. CASE ~in_spec
    <3>1. print_and_clear(bs, 0) /\ in_spec' = FALSE /\ window' = window
      BY <1>4, <2>4 DEF AddBug, Inv, TypeOK
    <3>2. \A i \in DOMAIN bs :
            \/ bs[i].window = 0
            \/ bs[i].window \in 1..window /\ \A j \in DOMAIN log : log[j].bug.window # bs[i].window
      BY <2>1, <2>2, <2>4 DEF Inv, PendingWindows
    <3> HIDE DEF bs
    <3>3. Accounted(log', bs, Len(bs))
      BY <2>2, <3>1, <3>2, PrintAndClearInv
    <3> QED  BY <2>2, <3>3 DEF Accounted
  <2> QED  BY <2>3, <2>4
<1>5. CASE NewCheckpoint \/ Call \/ Done \/ \E level \in PrintLevels : SetPrintLevel(level)
  BY <1>2, <1>5 DEF NewCheckpoint, Call, Done, SetPrintLevel, vars
<1>6. CASE \E type \in RestartTypes : Restart(type)
  <2>1. PICK type \in RestartTypes : Restart(type)
    BY <1>6
  <2>2. UNCHANGED bugs \/ (print_and_clear(bugs, window) /\ in_spec' = FALSE /\ window' = window)
    BY <2>1 DEF Restart, Rollback, restart_reports
  <2> QED  BY <1>2, <1>3, <2>2
<1>7. CASE \E ip \in Ips, type \in AccessTypes : Report(ip, type)
  <2>1. PICK ip \in Ips, type \in AccessTypes : Report(ip, type)
    BY <1>7
  <2>2. \/ AddBug(NewBug(ip, type)) /\ UNCHANGED <<in_spec, window>>
        \/ UNCHANGED bugs
        \/ print_and_clear(bugs, window) /\ in_spec' = FALSE /\ window' = window
    BY <2>1 DEF Report, NewBug
  <2> QED  BY <1>2, <1>3, <1>4, <2>2
<1>8. CASE UNCHANGED vars
  BY <1>2, <1>8 DEF vars
<1> QED  BY <1>5, <1>6, <1>7, <1>8 DEF Next

\* A report leaves the list of pending reports only to be printed, unless its
\* access has been printed already or printing is off.
THEOREM ReportsAreAccounted == Spec => ReportsAccounted
<1> DEFINE Kept == \A k \in DOMAIN bugs :
                     \/ k \in DOMAIN bugs' /\ bugs'[k] = bugs[k]
                     \/ print_level = "NONE"
                     \/ \E j \in DOMAIN log' : Key(log'[j].bug) = Key(bugs[k])
<1>1. Inv /\ [Next]_vars => [Kept]_vars
  BY StepAccounts
<1> QED  BY <1>1, SpecInv, PTL DEF Spec, ReportsAccounted

\* The speculations that reports are made in keep the contract of the emulation.
THEOREM ReportsContract == Spec => Contract
<1> USE DEF Speculation!ENext, Speculation!evars
<1>1. Init => Speculation!EInit
  BY DEF Init, Speculation!EInit
<1>2. Inv /\ [Next]_vars => [Speculation!ENext]_(Speculation!evars)
  <2> SUFFICES ASSUME Inv, [Next]_vars PROVE [Speculation!ENext]_(Speculation!evars)
    OBVIOUS
  <2>1. spec_depth \in 0..MaxDepth /\ MaxDepth \in Nat
    BY ReportsAssumption DEF Inv, TypeOK
  <2>2. CASE NewCheckpoint
    BY <2>2 DEF NewCheckpoint, Inv, ModeInv, TypeOK, Speculation!ECheckpoint
  <2>3. CASE Call
    BY <2>1, <2>3 DEF Call, Speculation!ECall
  <2>4. CASE \E type \in RestartTypes : Restart(type)
    <3>1. PICK type \in RestartTypes : Restart(type)
      BY <2>4
    <3>2. CASE LeavesFrame(type)
      <4>1. spec_depth \in 1..((MaxDepth + 1) - 1)
        BY <2>1, <3>2 DEF LeavesFrame
      <4> QED  BY <3>1, <3>2, <4>1 DEF Restart, Speculation!EReturn
    <3>3. CASE ~LeavesFrame(type)
      BY <3>1, <3>3 DEF Restart, Rollback, Speculation!ERollback
    <3> QED  BY <3>2, <3>3
  <2>5. CASE \E ip \in Ips, type \in AccessTypes : Report(ip, type)
    BY <2>5 DEF Report, Speculation!ERollback
  <2>6. CASE (\E level \in PrintLevels : SetPrintLevel(level)) \/ Done \/ UNCHANGED vars
    BY <2>6 DEF SetPrintLevel, Done, vars
  <2> QED  BY <2>2, <2>3, <2>4, <2>5, <2>6 DEF Next
<1> QED  BY <1>1, <1>2, SpecInv, PTL DEF Spec, Contract, Speculation!EmulationSpec
=============================================================================
