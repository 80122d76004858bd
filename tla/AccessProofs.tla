---------------------------- MODULE AccessProofs ----------------------------
(****************************************************************************)
(* Proofs about Access, for every memory, dummy region and log size, every  *)
(* answer of kdf_virt_addr_valid and both orders of the passes.             *)
(****************************************************************************)
EXTENDS Access, DataLemmas

LogEntry == [addr : Mapped, val : Vals]

LogHook == IF acc.op = "store" THEN "hook_store" ELSE "hook_memcpy"

\* Where an access may be in the sequence of its steps.
TodoShape ==
  \/ todo = << >>
  \/ todo = <<acc.op>>
  \/ todo = <<"hook_access", acc.op>> /\ (acc.op = "load" \/ ~pfFirst)
  \/ acc.op # "load" /\ todo = <<LogHook, acc.op>>
  \/ acc.op # "load" /\ todo = <<"hook_access", LogHook, acc.op>> /\ pfFirst
  \/ acc.op # "load" /\ todo = <<LogHook, "hook_access", acc.op>> /\ ~pfFirst

\* The hook of the log has run for this write, or has none to run for.
PastLog == todo = <<acc.op>> \/ todo = <<"hook_access", acc.op>>

\* The pointer is the program's, or the dummy region's for a small access.
PointerInv ==
  todo # << >> =>
    \/ ptr = acc.ptr
    \/ ptr = pf_dummy_region /\ acc.size < DUMMY_REGION_SIZE

\* Speculation begins after the initialisation, and with an empty log.
ModeInv == (spec => init_done) /\ (~spec => log = << >>)

IsFirst(l, w, k) == k \in DOMAIN l /\ l[k].addr = w /\ \A j \in 1..(k - 1) : l[j].addr # w
HasEntry(l, w)   == \E k \in DOMAIN l : l[k].addr = w

\* In speculation the first entry of a word, or without one the word itself,
\* is what the word was at the checkpoint.
LogExact(m, l) ==
  \A w \in Words :
    /\ \A k \in DOMAIN l : IsFirst(l, w, k) => l[k].val = arch[w]
    /\ ~HasEntry(l, w) => m[w] = arch[w]

\* What is about to be written has been logged.
WriteLogged ==
  spec /\ PastLog /\ acc.op # "load" =>
    \A w \in Span(ptr, acc.size) : w \in Mapped /\ HasEntry(log, w)

ExactInv ==
  LogsWhatIsWritten =>
    /\ ~spec => mem = arch
    /\ spec => LogExact(mem, log)
    /\ WriteLogged

\* The inductive invariant.
Inv == TypeOK /\ TodoShape /\ PointerInv /\ ModeInv /\ ExactInv

-----------------------------------------------------------------------------
(* Operators *)

\* The dummy region is mapped memory, and neither NULL nor (void *) -1 is in it.
LEMMA WordFacts ==
  /\ NWords \in Nat /\ NULL \in Words /\ Dummy \in Words /\ Dummy \in Mapped
  /\ Mapped \subseteq Words /\ Words \subseteq Nat
  /\ Minus1 # Dummy /\ Minus1 # NULL
<1>1. Dummy \in Region
  BY AccessAssumption DEF Region, Span
<1>2. Dummy \in Words
  BY <1>1, AccessAssumption
<1> QED  BY <1>1, <1>2, AccessAssumption DEF Words, NULL, Minus1

LEMMA AccessFacts ==
  ASSUME NEW a \in Accesses
  PROVE  /\ a.op \in {"load", "store", "memset"}
         /\ a.ptr \in Words /\ a.ptr \in Nat
         /\ a.size \in Nat \ {0}
         /\ a.val \in Vals
<1>1. CASE a \in [op : {"load"}, ptr : Words, size : {1}, val : {0}, asan : BOOLEAN]
  <2>1. a.op = "load" /\ a.ptr \in Words /\ a.size = 1 /\ a.val = 0
    BY <1>1
  <2>2. a.ptr \in Nat
    BY <2>1, WordFacts
  <2>3. a.size \in Nat \ {0}
    BY <2>1, AccessAssumption
  <2>4. a.val \in Vals
    BY <2>1, AccessAssumption
  <2> QED  BY <2>1, <2>2, <2>3, <2>4
<1>2. CASE a \in [op : {"store"}, ptr : Words, size : {1}, val : Vals, asan : BOOLEAN]
  <2>1. a.op = "store" /\ a.ptr \in Words /\ a.size = 1 /\ a.val \in Vals
    BY <1>2
  <2>2. a.ptr \in Nat
    BY <2>1, WordFacts
  <2> QED  BY <2>1, <2>2
<1>3. CASE a \in [op : {"memset"}, ptr : Words, size : 1..MaxSize, val : Vals, asan : BOOLEAN]
  <2>1. a.op = "memset" /\ a.ptr \in Words /\ a.size \in 1..MaxSize /\ a.val \in Vals
    BY <1>3
  <2>2. a.ptr \in Nat
    BY <2>1, WordFacts
  <2>3. a.size \in Nat \ {0}
    BY <2>1, AccessAssumption
  <2>4. a.val \in Vals
    BY <2>1, AccessAssumption
  <2> QED  BY <2>1, <2>2, <2>3, <2>4
<1> QED  BY <1>1, <1>2, <1>3 DEF Accesses

LEMMA NoAccessType == NoAccess \in Accesses
BY WordFacts DEF NoAccess, Accesses

\* A word that is in the log has a first entry there.
LEMMA FirstExists ==
  ASSUME NEW l \in Seq(LogEntry), NEW w, HasEntry(l, w)
  PROVE  \E k \in DOMAIN l : IsFirst(l, w, k)
<1> DEFINE T == {k \in DOMAIN l : l[k].addr = w}
<1>1. T \subseteq Nat /\ T # {}
  BY DEF HasEntry
<1>2. PICK k \in T : \A y \in T : k <= y
  BY <1>1, LeastElement
<1>3. \A j \in 1..(k - 1) : j \in DOMAIN l /\ ~(k <= j)
  OBVIOUS
<1>4. IsFirst(l, w, k)
  BY <1>2, <1>3 DEF IsFirst
<1> QED  BY <1>4

\* The backward walk leaves a word as its first entry has it.
LEMMA RestoredWord ==
  ASSUME NEW m, NEW l \in Seq(LogEntry), NEW w \in Words
  PROVE  /\ \A k \in DOMAIN l : IsFirst(l, w, k) => Restored(m, l)[w] = l[k].val
         /\ ~HasEntry(l, w) => Restored(m, l)[w] = m[w]
<1>1. ASSUME NEW k \in DOMAIN l, IsFirst(l, w, k)
      PROVE  Restored(m, l)[w] = l[k].val
  <2> DEFINE First(j) == l[j].addr = w /\ \A i \in 1..(j - 1) : l[i].addr # w
  <2> DEFINE c == CHOOSE j \in DOMAIN l : First(j)
  <2>1. First(k)
    BY <1>1 DEF IsFirst
  <2>2. c \in DOMAIN l /\ First(c)
    BY <2>1
  <2>3. c = k
    BY <2>1, <2>2
  <2>4. \E j \in DOMAIN l : l[j].addr = w
    BY <1>1 DEF IsFirst
  <2> QED  BY <2>3, <2>4 DEF Restored
<1>2. ~HasEntry(l, w) => Restored(m, l)[w] = m[w]
  BY DEF Restored, HasEntry
<1> QED  BY <1>1, <1>2

LEMMA RestoredType ==
  ASSUME NEW m \in [Words -> Vals], NEW l \in Seq(LogEntry)
  PROVE  Restored(m, l) \in [Words -> Vals]
<1>1. ASSUME NEW w \in Words PROVE Restored(m, l)[w] \in Vals
  <2>1. CASE HasEntry(l, w)
    <3>1. PICK k \in DOMAIN l : IsFirst(l, w, k)
      BY <2>1, FirstExists
    <3>2. Restored(m, l)[w] = l[k].val
      BY <3>1, RestoredWord
    <3>3. l[k] \in LogEntry
      OBVIOUS
    <3> QED  BY <3>2, <3>3 DEF LogEntry
  <2>2. CASE ~HasEntry(l, w)
    BY <2>2, RestoredWord
  <2> QED  BY <2>1, <2>2
<1>2. Restored(m, l) = [w \in Words |-> Restored(m, l)[w]]
  BY DEF Restored
<1> QED  BY <1>1, <1>2

\* An exact log rolls back exactly.
LEMMA RestoredExact ==
  ASSUME NEW m, NEW l \in Seq(LogEntry), arch \in [Words -> Vals], LogExact(m, l)
  PROVE  Restored(m, l) = arch
<1>1. ASSUME NEW w \in Words PROVE Restored(m, l)[w] = arch[w]
  <2>1. CASE HasEntry(l, w)
    <3>1. PICK k \in DOMAIN l : IsFirst(l, w, k)
      BY <2>1, FirstExists
    <3> QED  BY <3>1, RestoredWord DEF LogExact
  <2>2. CASE ~HasEntry(l, w)
    BY <2>2, RestoredWord DEF LogExact
  <2> QED  BY <2>1, <2>2
<1>2. Restored(m, l) = [w \in Words |-> Restored(m, l)[w]]
  BY DEF Restored
<1> QED  BY <1>1, <1>2

\* What the hook of the log adds: entries for the words from p on, each with its
\* contents, that fit into the log; all of them, unless the hook restarts.
LEMMA EntriesFacts ==
  ASSUME TypeOK, NEW p \in Words, NEW size \in Nat
  PROVE  LET new == Entries(p, size) IN
         /\ new \in Seq(LogEntry)
         /\ Len(new) <= size
         /\ Len(new) > 0 => Len(log) + Len(new) <= WRITELOG_MAXLEN
         /\ \A k \in 1..Len(new) : /\ new[k].addr = p + k - 1
                                    /\ new[k].addr \in Mapped
                                    /\ new[k].val = mem[new[k].addr]
<1> DEFINE Fits(n) == /\ \A k \in 1..n : Loggable(p + k - 1, k)
                      /\ n < size => ~Loggable(p + n, n + 1)
<1>1. \E n \in 0..size : Fits(n)
  <2> DEFINE T == {n \in 0..size : n = size \/ ~Loggable(p + n, n + 1)}
  <2>1. T \subseteq Nat /\ size \in T
    OBVIOUS
  <2>2. PICK n \in T : \A y \in T : n <= y
    BY <2>1, LeastElement
  <2>3. ASSUME NEW k \in 1..n PROVE Loggable(p + k - 1, k)
    <3>1. k - 1 \in 0..size /\ k - 1 # size /\ ~(n <= k - 1)
      OBVIOUS
    <3>2. Loggable(p + (k - 1), (k - 1) + 1)
      BY <2>2, <3>1
    <3>3. p + (k - 1) = p + k - 1 /\ (k - 1) + 1 = k
      BY WordFacts
    <3> QED  BY <3>2, <3>3
  <2>4. Fits(n)
    BY <2>3
  <2> QED  BY <2>4
<1> DEFINE n == CHOOSE n \in 0..size : Fits(n)
<1>2. n \in 0..size /\ Fits(n)
  BY <1>1
<1>3. Entries(p, size) = [k \in 1..n |-> [addr |-> p + k - 1, val |-> mem[p + k - 1]]]
  BY DEF Entries
<1>4. \A k \in 1..n : p + k - 1 \in Mapped /\ Len(log) + k <= WRITELOG_MAXLEN
  BY <1>2 DEF Loggable
<1>5. \A k \in 1..n : [addr |-> p + k - 1, val |-> mem[p + k - 1]] \in LogEntry
  BY <1>4, WordFacts DEF TypeOK, LogEntry
<1> HIDE DEF n
<1>6. Entries(p, size) \in Seq(LogEntry) /\ Len(Entries(p, size)) = n
  BY <1>2, <1>3, <1>5
<1>7. n > 0 => Len(log) + n <= WRITELOG_MAXLEN
  BY <1>2, <1>4
<1> QED  BY <1>2, <1>3, <1>4, <1>6, <1>7

\* Adding entries keeps the log exact, and what it has.
LEMMA LogExtended ==
  ASSUME TypeOK, LogExact(mem, log),
         NEW new \in Seq(LogEntry),
         \A k \in 1..Len(new) : new[k].val = mem[new[k].addr]
  PROVE  /\ LogExact(mem, log \o new)
         /\ \A k \in 1..Len(new) : HasEntry(log \o new, new[k].addr)
<1> DEFINE l == log \o new
<1>1. log \in Seq(LogEntry)
  BY DEF TypeOK, LogEntry
<1>2. /\ l \in Seq(LogEntry) /\ Len(l) = Len(log) + Len(new)
      /\ \A k \in 1..Len(log) : l[k] = log[k]
      /\ \A k \in 1..Len(new) : l[Len(log) + k] = new[k]
      /\ \A k \in (Len(log) + 1)..Len(l) : l[k] = new[k - Len(log)]
  BY <1>1
<1> HIDE DEF l
<1>3. ASSUME NEW w \in Words, NEW k \in DOMAIN l, IsFirst(l, w, k)
      PROVE  l[k].val = arch[w]
  <2>1. CASE k <= Len(log)
    <3>1. k \in 1..Len(log) /\ k \in DOMAIN log /\ l[k] = log[k]
      BY <1>1, <1>2, <2>1
    <3>2. ASSUME NEW j \in 1..(k - 1) PROVE log[j].addr # w
      <4>1. j \in 1..Len(log)
        BY <1>1, <3>1
      <4> QED  BY <1>2, <1>3, <4>1 DEF IsFirst
    <3>3. IsFirst(log, w, k)
      BY <1>3, <3>1, <3>2 DEF IsFirst
    <3>4. log[k].val = arch[w]
      BY <3>1, <3>3 DEF LogExact
    <3> QED  BY <3>1, <3>4
  <2>2. CASE k > Len(log)
    <3>1. k \in (Len(log) + 1)..Len(l) /\ k - Len(log) \in 1..Len(new)
      BY <1>1, <1>2, <2>2
    <3>2. l[k] = new[k - Len(log)] /\ l[k].addr = w
      BY <1>2, <1>3, <3>1 DEF IsFirst
    <3>3. ~HasEntry(log, w)
      <4> SUFFICES ASSUME NEW j \in DOMAIN log, log[j].addr = w PROVE FALSE
        BY DEF HasEntry
      <4>1. j \in 1..Len(log) /\ j \in 1..(k - 1)
        BY <1>1, <1>2, <2>2
      <4>2. l[j].addr # w
        BY <1>3, <4>1 DEF IsFirst
      <4> QED  BY <1>2, <4>1, <4>2
    <3>4. mem[w] = arch[w]
      BY <3>3 DEF LogExact
    <3> QED  BY <3>1, <3>2, <3>4
  <2> QED  BY <1>1, <1>2, <2>1, <2>2
<1>4. ASSUME NEW w \in Words, ~HasEntry(l, w)
      PROVE  mem[w] = arch[w]
  <2>1. ~HasEntry(log, w)
    BY <1>1, <1>2, <1>4 DEF HasEntry
  <2> QED  BY <2>1 DEF LogExact
<1>5. \A k \in 1..Len(new) : HasEntry(l, new[k].addr)
  <2> TAKE k \in 1..Len(new)
  <2>1. Len(log) + k \in DOMAIN l
    BY <1>1, <1>2
  <2> QED  BY <1>2, <2>1 DEF HasEntry
<1> QED  BY <1>3, <1>4, <1>5 DEF LogExact, l

-----------------------------------------------------------------------------
(* The invariant *)

LEMMA InitInv == Init => Inv
<1> SUFFICES ASSUME Init PROVE Inv
  OBVIOUS
<1>1. mem \in [Words -> Vals]
  BY AccessAssumption DEF Init
<1>2. TypeOK
  <2>1. log \in Seq(LogEntry) /\ Len(log) <= WRITELOG_MAXLEN /\ Len(todo) <= 3
    BY AccessAssumption DEF Init
  <2>2. acc \in Accesses /\ ptr \in Words
    BY WordFacts, NoAccessType DEF Init
  <2> QED  BY <1>1, <2>1, <2>2 DEF Init, TypeOK, LogEntry
<1>3. TodoShape /\ PointerInv /\ ModeInv
  BY DEF Init, TodoShape, PointerInv, ModeInv
<1>4. ExactInv
  BY DEF Init, ExactInv, WriteLogged
<1> QED  BY <1>2, <1>3, <1>4 DEF Inv

LEMMA InitCheckerInv == Inv /\ kspecem_init_pf_checker => Inv'
<1> SUFFICES ASSUME Inv, kspecem_init_pf_checker PROVE Inv'
  OBVIOUS
<1> USE DEF Inv, kspecem_init_pf_checker, consts
<1>1. TypeOK'
  BY WordFacts DEF TypeOK
<1>2. TodoShape'
  BY DEF TodoShape
<1>3. PointerInv' /\ ModeInv'
  BY DEF PointerInv, ModeInv
<1>4. ExactInv'
  BY DEF ExactInv, LogsWhatIsWritten, WriteLogged, PastLog, LogExact
<1> QED  BY <1>1, <1>2, <1>3, <1>4

LEMMA CheckpointInv == Inv /\ Checkpoint => Inv'
<1> SUFFICES ASSUME Inv, Checkpoint PROVE Inv'
  OBVIOUS
<1> USE DEF Inv, Checkpoint, consts
<1>1. TypeOK'
  BY DEF TypeOK
<1>2. TodoShape'
  BY DEF TodoShape
<1>3. PointerInv' /\ ModeInv'
  BY DEF PointerInv, ModeInv
<1>4. ExactInv'
  <2>1. log' = << >> /\ arch' = arch /\ mem' = mem /\ todo' = << >>
    BY DEF ModeInv
  <2>2. mem = arch => LogExact(mem, log)'
    BY <2>1 DEF LogExact
  <2> QED  BY <2>1, <2>2 DEF ExactInv, LogsWhatIsWritten, WriteLogged, PastLog
<1> QED  BY <1>1, <1>2, <1>3, <1>4

\* The steps of an access, by its kind and by the order of the passes.
LEMMA StepsShape ==
  ASSUME NEW a \in Accesses
  PROVE  LET hook == IF a.op = "store" THEN "hook_store" ELSE "hook_memcpy" IN
         /\ a.op = "load" => Steps(a) \in {<<a.op>>, <<"hook_access", a.op>>}
         /\ a.op # "load" =>
              \/ Steps(a) = <<hook, a.op>>
              \/ Steps(a) = <<"hook_access", hook, a.op>> /\ pfFirst
              \/ Steps(a) = <<hook, "hook_access", a.op>> /\ ~pfFirst
<1>1. a.op \in {"load", "store", "memset"}
  BY AccessFacts
<1>2. CASE a.op = "load"
  <2>1. Logged(a) = << >> /\ Checked(a) \in {<< >>, <<"hook_access">>}
    BY <1>2 DEF Logged, Checked
  <2>2. Checked(a) \o Logged(a) = Checked(a) /\ Logged(a) \o Checked(a) = Checked(a)
    BY <2>1, ConcatNothing
  <2>3. Steps(a) = Checked(a) \o <<"load">>
    BY <1>2, <2>2 DEF Steps
  <2> QED  BY <1>2, <2>1, <2>3, ConcatNothing, ConcatPair
<1>3. CASE a.op # "load"
  <2> DEFINE hook == IF a.op = "store" THEN "hook_store" ELSE "hook_memcpy"
  <2>1. Logged(a) = <<hook>>
    BY <1>1, <1>3 DEF Logged
  <2> HIDE DEF hook
  <2>2. CASE ~a.asan
    <3>1. Steps(a) = <<hook>> \o <<a.op>>
      BY <2>1, <2>2, ConcatNothing DEF Steps, Checked
    <3> QED  BY <1>3, <3>1, ConcatPair DEF hook
  <2>3. CASE a.asan /\ pfFirst
    <3>1. Steps(a) = (<<"hook_access">> \o <<hook>>) \o <<a.op>>
      BY <2>1, <2>3 DEF Steps, Checked
    <3>2. <<"hook_access">> \o <<hook>> = <<"hook_access", hook>>
      BY ConcatPair
    <3>3. <<"hook_access", hook>> \o <<a.op>> = <<"hook_access", hook, a.op>>
      BY ConcatTriple
    <3> QED  BY <1>3, <2>3, <3>1, <3>2, <3>3 DEF hook
  <2>4. CASE a.asan /\ ~pfFirst
    <3>1. Steps(a) = (<<hook>> \o <<"hook_access">>) \o <<a.op>>
      BY <2>1, <2>4 DEF Steps, Checked
    <3>2. <<hook>> \o <<"hook_access">> = <<hook, "hook_access">>
      BY ConcatPair
    <3>3. <<hook, "hook_access">> \o <<a.op>> = <<hook, "hook_access", a.op>>
      BY ConcatTriple
    <3> QED  BY <1>3, <2>4, <3>1, <3>2, <3>3 DEF hook
  <2> QED  BY <2>2, <2>3, <2>4
<1> QED  BY <1>2, <1>3

\* What the shape says of the number of steps left.
LEMMA ShortTodo ==
  /\ \A x : <<x>> # << >> /\ Len(<<x>>) <= 3
  /\ \A x, y : <<x, y>> # << >> /\ Len(<<x, y>>) <= 3
  /\ \A x, y, z : <<x, y, z>> # << >> /\ Len(<<x, y, z>>) <= 3
OBVIOUS

LEMMA BeginInv == ASSUME Inv, NEW a \in Accesses, Begin(a) PROVE Inv'
<1> USE DEF Inv, Begin, consts
<1>1. TodoShape' /\ todo' # << >> /\ Len(todo') <= 3 /\ (PastLog' => a.op = "load")
  <2> DEFINE hook == IF a.op = "store" THEN "hook_store" ELSE "hook_memcpy"
  <2>1. /\ a.op \in {"load", "store", "memset"}
        /\ pfFirst' = pfFirst /\ acc' = a /\ LogHook' = hook
    BY AccessFacts DEF LogHook
  <2>2. CASE a.op = "load"
    <3>1. todo' \in {<<a.op>>, <<"hook_access", a.op>>}
      BY <2>2, StepsShape
    <3>2. TodoShape'
      BY <2>1, <2>2, <3>1 DEF TodoShape
    <3> QED  BY <2>2, <3>1, <3>2, ShortTodo
  <2>3. CASE a.op # "load"
    <3>1. \/ todo' = <<hook, a.op>>
          \/ todo' = <<"hook_access", hook, a.op>> /\ pfFirst
          \/ todo' = <<hook, "hook_access", a.op>> /\ ~pfFirst
      BY <2>3, StepsShape
    <3>2. hook # "hook_access" /\ hook # a.op /\ a.op # "hook_access"
      BY <2>1
    <3> HIDE DEF hook
    <3>3. TodoShape'
      BY <2>1, <2>3, <3>1 DEF TodoShape
    <3>4. todo' # << >> /\ Len(todo') <= 3
      BY <3>1, ShortTodo
    <3>5. ~PastLog'
      BY <2>1, <3>1, <3>2 DEF PastLog
    <3> QED  BY <3>3, <3>4, <3>5
  <2> QED  BY <2>2, <2>3
<1>2. TypeOK'
  BY <1>1, AccessFacts DEF TypeOK
<1>3. PointerInv' /\ ModeInv'
  BY DEF PointerInv, ModeInv
<1>4. ExactInv'
  BY <1>1 DEF ExactInv, LogsWhatIsWritten, WriteLogged, LogExact
<1> QED  BY <1>1, <1>2, <1>3, <1>4

\* What the hook of the page-fault checker finds in front of it, and leaves.
LEMMA HookAccessShape ==
  ASSUME Inv, kspecem_hook_access
  PROVE  /\ TodoShape' /\ Len(todo') <= 3
         /\ PastLog' => acc.op = "load" \/ (PastLog /\ ~pfFirst)
<1> USE DEF Inv, kspecem_hook_access, consts
<1>1. acc.op \in {"load", "store", "memset"}
  BY AccessFacts DEF TypeOK
<1>2. CASE todo = <<"hook_access", acc.op>> /\ (acc.op = "load" \/ ~pfFirst)
  BY <1>1, <1>2 DEF TodoShape, LogHook, PastLog
<1>3. CASE acc.op # "load" /\ todo = <<"hook_access", LogHook, acc.op>> /\ pfFirst
  <2>1. todo' = <<LogHook, acc.op>>
    BY <1>3
  <2> QED  BY <1>1, <1>3, <2>1 DEF TodoShape, LogHook, PastLog
<1>4. CASE todo = <<acc.op>>
  BY <1>1, <1>4
<1>5. CASE Head(todo) = LogHook
  BY <1>5 DEF LogHook
<1> QED  BY <1>2, <1>3, <1>4, <1>5 DEF TodoShape

LEMMA HookAccessInv == Inv /\ kspecem_hook_access => Inv'
<1> SUFFICES ASSUME Inv, kspecem_hook_access PROVE Inv'
  OBVIOUS
<1> USE DEF Inv, kspecem_hook_access, consts
<1>1. TodoShape' /\ Len(todo') <= 3 /\ (PastLog' => acc.op = "load" \/ (PastLog /\ ~pfFirst))
  BY HookAccessShape
<1>2. \/ ptr' = ptr
      \/ /\ spec /\ init_done /\ ptr \notin valid /\ acc.size < DUMMY_REGION_SIZE
         /\ ptr' = pf_dummy_region
  BY DEF kspecem_access
<1>3. TypeOK'
  BY <1>1, <1>2, WordFacts DEF TypeOK
<1>4. PointerInv' /\ ModeInv'
  BY <1>2 DEF PointerInv, ModeInv
<1>5. ASSUME LogsWhatIsWritten, spec, PastLog', acc.op # "load"
      PROVE  ptr' = ptr /\ PastLog
  <2>1. PastLog /\ Mapped \subseteq valid
    BY <1>1, <1>5 DEF LogsWhatIsWritten
  <2>2. ptr \in Span(ptr, acc.size)
    BY AccessFacts, WordFacts DEF Span, TypeOK
  <2>3. ptr \in Mapped
    BY <1>5, <2>1, <2>2 DEF ExactInv, WriteLogged
  <2> QED  BY <1>2, <2>1, <2>3
<1>6. LogsWhatIsWritten => WriteLogged'
  BY <1>5 DEF ExactInv, WriteLogged
<1>7. ExactInv'
  BY <1>6 DEF ExactInv, LogsWhatIsWritten, LogExact
<1> QED  BY <1>1, <1>3, <1>4, <1>7

\* What every rollback leaves, from a log that is exact.
LEMMA RolledBackInv ==
  ASSUME Inv, spec, NEW l \in Seq(LogEntry),
         LogsWhatIsWritten => LogExact(mem, l),
         RolledBack(mem, l),
         UNCHANGED <<consts, pf_dummy_region, init_done, oops, arch>>
  PROVE  Inv'
<1> USE DEF Inv, RolledBack, consts
<1>1. TypeOK'
  <2>1. (log \in Seq(LogEntry) /\ Len(log) <= WRITELOG_MAXLEN /\ Len(todo) <= 3)'
    BY AccessAssumption
  <2>2. acc' \in Accesses /\ ptr' \in Words
    BY WordFacts, NoAccessType
  <2>3. mem' \in [Words -> Vals]
    BY RestoredType DEF TypeOK
  <2> QED  BY <2>1, <2>2, <2>3 DEF TypeOK, LogEntry
<1>2. TodoShape' /\ PointerInv' /\ ModeInv'
  BY DEF TodoShape, PointerInv, ModeInv
<1>3. LogsWhatIsWritten => Restored(mem, l) = arch
  BY RestoredExact DEF TypeOK
<1>4. ExactInv'
  BY <1>3 DEF ExactInv, LogsWhatIsWritten, WriteLogged
<1> QED  BY <1>1, <1>2, <1>4

LEMMA RestartInv == Inv /\ Restart => Inv'
<1> SUFFICES ASSUME Inv, Restart PROVE Inv'
  OBVIOUS
<1>1. log \in Seq(LogEntry)
  BY DEF Inv, TypeOK, LogEntry
<1> QED  BY <1>1, RolledBackInv DEF Restart, Inv, ExactInv

\* The hook of the log is at the front, and what follows is past it.
LEMMA LogWriteShape ==
  ASSUME Inv, todo # << >>, Head(todo) \in {"hook_store", "hook_memcpy"},
         todo' = Tail(todo), acc' = acc, pfFirst' = pfFirst
  PROVE  TodoShape' /\ Len(todo') <= 3 /\ PastLog'
<1>1. acc.op \in {"load", "store", "memset"}
  BY AccessFacts DEF Inv, TypeOK
<1>2. CASE todo = <<LogHook, acc.op>>
  <2>1. todo' = <<acc.op>>
    BY <1>2
  <2> QED  BY <2>1, ShortTodo DEF TodoShape, PastLog
<1>3. CASE todo = <<LogHook, "hook_access", acc.op>> /\ ~pfFirst
  <2>1. todo' = <<"hook_access", acc.op>>
    BY <1>3
  <2> QED  BY <1>3, <2>1, ShortTodo DEF TodoShape, PastLog
<1>4. CASE Head(todo) = acc.op \/ Head(todo) = "hook_access"
  BY <1>1, <1>4
<1>5. \/ todo = <<LogHook, acc.op>>
      \/ todo = <<LogHook, "hook_access", acc.op>> /\ ~pfFirst
      \/ todo = <<acc.op>> \/ todo = <<"hook_access", acc.op>>
      \/ todo = <<"hook_access", LogHook, acc.op>>
  BY DEF Inv, TodoShape
<1> QED  BY <1>2, <1>3, <1>4, <1>5

LEMMA LogWriteInv == Inv /\ LogWrite => Inv'
<1> SUFFICES ASSUME Inv, LogWrite PROVE Inv'
  OBVIOUS
<1> DEFINE new == Entries(ptr, acc.size)
<1>1. log \in Seq(LogEntry) /\ ptr \in Words /\ ptr \in Nat /\ acc.size \in Nat \ {0}
  BY AccessFacts, WordFacts DEF Inv, TypeOK, LogEntry
<1>2. /\ new \in Seq(LogEntry)
      /\ Len(new) > 0 => Len(log) + Len(new) <= WRITELOG_MAXLEN
      /\ \A k \in 1..Len(new) : /\ new[k].addr = ptr + k - 1
                                 /\ new[k].addr \in Mapped
                                 /\ new[k].val = mem[new[k].addr]
  BY <1>1, EntriesFacts DEF Inv
<1>3. ASSUME LogsWhatIsWritten, spec
      PROVE  /\ LogExact(mem, log \o new)
             /\ \A k \in 1..Len(new) : HasEntry(log \o new, new[k].addr)
  <2>1. LogExact(mem, log)
    BY <1>3 DEF Inv, ExactInv
  <2> HIDE DEF new
  <2> QED  BY <1>2, <2>1, LogExtended DEF Inv
<1> HIDE DEF new
<1>4. CASE ~spec
  <2>1. log' = << >> \o << >> /\ todo' = Tail(todo) /\ UNCHANGED <<mem, spec, acc, ptr>>
    BY <1>4 DEF LogWrite, Inv, ModeInv
  <2>2. log' = log
    BY <1>4, <2>1, ConcatNothing DEF Inv, ModeInv
  <2>3. TodoShape' /\ Len(todo') <= 3
    BY <2>1, LogWriteShape DEF LogWrite, consts
  <2>4. TypeOK'
    BY <2>1, <2>2, <2>3 DEF Inv, TypeOK, LogWrite, consts
  <2>5. PointerInv' /\ ModeInv'
    BY <2>1, <2>2 DEF Inv, PointerInv, ModeInv, LogWrite
  <2>6. ExactInv'
    BY <1>4, <2>1 DEF Inv, ExactInv, LogsWhatIsWritten, WriteLogged, LogWrite, consts
  <2> QED  BY <2>3, <2>4, <2>5, <2>6 DEF Inv
<1>5. CASE spec /\ Len(new) = acc.size
  <2>1. log' = log \o new /\ todo' = Tail(todo) /\ UNCHANGED <<mem, spec, acc, ptr>>
    BY <1>5 DEF LogWrite, new
  <2>2. UNCHANGED <<pfFirst, valid, pf_dummy_region, init_done, oops, arch>>
    BY DEF LogWrite, consts
  <2>3. TodoShape' /\ Len(todo') <= 3
    BY <2>1, <2>2, LogWriteShape DEF LogWrite
  <2>4. log' \in Seq(LogEntry) /\ Len(log') <= WRITELOG_MAXLEN
    BY <1>1, <1>2, <1>5, <2>1
  <2>5. TypeOK'
    BY <2>1, <2>2, <2>3, <2>4 DEF Inv, TypeOK, LogEntry
  <2>6. PointerInv' /\ ModeInv'
    <3>1. todo # << >>
      BY DEF LogWrite
    <3> QED  BY <1>5, <2>1, <2>2, <3>1 DEF Inv, PointerInv, ModeInv
  <2>7. ASSUME LogsWhatIsWritten, NEW w \in Span(ptr, acc.size)
        PROVE  w \in Mapped /\ HasEntry(log', w)
    <3>1. w - ptr + 1 \in 1..Len(new) /\ w = ptr + (w - ptr + 1) - 1
      BY <1>1, <1>5 DEF Span
    <3>2. w = new[w - ptr + 1].addr
      BY <1>2, <3>1
    <3> QED  BY <1>2, <1>3, <1>5, <2>1, <2>7, <3>1, <3>2
  <2>8. LogsWhatIsWritten => WriteLogged'
    BY <2>1, <2>7 DEF WriteLogged
  <2>9. LogsWhatIsWritten => LogExact(mem, log)'
    BY <1>3, <1>5, <2>1, <2>2 DEF LogExact
  <2>10. ExactInv'
    BY <1>5, <2>1, <2>2, <2>8, <2>9 DEF ExactInv, LogsWhatIsWritten
  <2> QED  BY <2>3, <2>5, <2>6, <2>10 DEF Inv
<1>6. CASE spec /\ Len(new) # acc.size
  <2>1. RolledBack(mem, log \o new)
    BY <1>6 DEF LogWrite, new
  <2>2. log \o new \in Seq(LogEntry)
    BY <1>1, <1>2
  <2> QED  BY <1>3, <1>6, <2>1, <2>2, RolledBackInv DEF LogWrite
<1> QED  BY <1>4, <1>5, <1>6 DEF Inv, TypeOK

LEMMA TouchType ==
  ASSUME Inv, NEW m \in [Words -> Vals] PROVE Touch(m) \in [Words -> Vals]
<1>1. acc.val \in Vals
  BY AccessFacts DEF Inv, TypeOK
<1> QED  BY <1>1 DEF Touch

LEMMA PerformInv == Inv /\ Perform => Inv'
<1> SUFFICES ASSUME Inv, Perform PROVE Inv'
  OBVIOUS
<1> DEFINE faults == ~(Span(ptr, acc.size) \subseteq Mapped)
           writes == acc.op # "load"
<1>1. PastLog
  <2>1. acc.op \in {"load", "store", "memset"}
    BY AccessFacts DEF Inv, TypeOK
  <2>2. CASE Head(todo) = LogHook \/ Head(todo) = "hook_access"
    BY <2>1, <2>2 DEF Perform, LogHook
  <2>3. CASE todo = <<acc.op>>
    BY <2>3 DEF PastLog
  <2>4. Head(todo) = LogHook \/ Head(todo) = "hook_access" \/ todo = <<acc.op>>
    BY DEF Perform, Inv, TodoShape
  <2> QED  BY <2>2, <2>3, <2>4
<1>2. CASE faults /\ spec
  <2>1. log \in Seq(LogEntry)
    BY DEF Inv, TypeOK, LogEntry
  <2> QED  BY <1>2, <2>1, RolledBackInv DEF Perform, Inv, ExactInv
<1>3. CASE faults /\ ~spec
  <2>1. oops' = TRUE /\ UNCHANGED <<pfFirst, valid, pf_dummy_region, init_done, spec, mem, log, acc, ptr, todo, arch>>
    BY <1>3 DEF Perform, consts
  <2>2. TypeOK' /\ PointerInv' /\ ModeInv'
    BY <2>1 DEF Inv, TypeOK, PointerInv, ModeInv
  <2>3. TodoShape'
    BY <2>1 DEF Inv, TodoShape, LogHook
  <2>4. ExactInv'
    BY <1>3, <2>1 DEF Inv, ExactInv, LogsWhatIsWritten, WriteLogged
  <2> QED  BY <2>2, <2>3, <2>4 DEF Inv
<1>4. CASE ~faults
  <2>1. /\ mem' = IF writes THEN Touch(mem) ELSE mem
        /\ arch' = IF writes /\ ~spec THEN Touch(arch) ELSE arch
        /\ todo' = << >> /\ acc' = NoAccess /\ ptr' = NULL
        /\ UNCHANGED <<pfFirst, valid, pf_dummy_region, init_done, spec, log, oops>>
    BY <1>4 DEF Perform, consts
  <2>2. TypeOK'
    <3>1. mem' \in [Words -> Vals] /\ arch' \in [Words -> Vals]
      BY <2>1, TouchType DEF Inv, TypeOK
    <3>2. acc' \in Accesses /\ ptr' \in Words /\ Len(todo') <= 3
      BY <2>1, NoAccessType, WordFacts
    <3> QED  BY <2>1, <3>1, <3>2 DEF Inv, TypeOK
  <2>3. TodoShape' /\ PointerInv' /\ ModeInv'
    BY <2>1 DEF Inv, TodoShape, PointerInv, ModeInv
  <2>4. ASSUME LogsWhatIsWritten, spec PROVE LogExact(mem, log)'
    <3> SUFFICES ASSUME NEW w \in Words, ~HasEntry(log, w)
                 PROVE  mem'[w] = mem[w]
      BY <2>1, <2>4 DEF Inv, ExactInv, LogExact
    <3>1. writes => w \notin Span(ptr, acc.size)
      BY <1>1, <2>4 DEF Inv, ExactInv, WriteLogged
    <3> QED  BY <2>1, <3>1 DEF Touch
  <2>5. ExactInv'
    BY <2>1, <2>4 DEF Inv, ExactInv, LogsWhatIsWritten, WriteLogged, PastLog
  <2> QED  BY <2>2, <2>3, <2>5 DEF Inv
<1> QED  BY <1>2, <1>3, <1>4 DEF Inv, TypeOK

LEMMA UnchangedInv == Inv /\ UNCHANGED vars => Inv'
<1> SUFFICES ASSUME Inv, UNCHANGED vars PROVE Inv'
  OBVIOUS
<1> USE DEF Inv, vars
<1>1. TypeOK' /\ PointerInv' /\ ModeInv'
  BY DEF TypeOK, PointerInv, ModeInv
<1>2. TodoShape'
  BY DEF TodoShape, LogHook
<1>3. ExactInv'
  BY DEF ExactInv, LogsWhatIsWritten, WriteLogged, PastLog, LogExact
<1> QED  BY <1>1, <1>2, <1>3

LEMMA SpecInv == Spec => []Inv
<1>1. Inv /\ [Next]_vars => Inv'
  BY InitCheckerInv, CheckpointInv, BeginInv, HookAccessInv, LogWriteInv, PerformInv,
     RestartInv, UnchangedInv DEF Next
<1> QED  BY <1>1, InitInv, PTL DEF Spec

-----------------------------------------------------------------------------
(* Theorems *)

\* The state stays well-formed: the dummy region's pointer is used only once it
\* is set, the log holds only mapped words and never more than it has room for.
THEOREM TypeCorrect == Spec => []TypeOK
BY SpecInv, PTL DEF Inv

\* Rolling back at any step leaves memory, the dummy region included, as the
\* writes outside speculation made it, when the log names what is written.
THEOREM MemoryIsExact == Spec => []MemoryExact
<1>1. Inv => MemoryExact
  BY DEF Inv, ExactInv, MemoryExact
<1> QED  BY <1>1, SpecInv, PTL

\* kspecem_access sends an access to the dummy region only when it fits there.
THEOREM RedirectIsContained == Spec => []RedirectContained
<1>1. Inv => RedirectContained
  <2> SUFFICES ASSUME Inv, todo # << >>, ptr = Dummy, pf_dummy_region = Dummy, acc.ptr # Dummy
               PROVE  Span(ptr, acc.size) \subseteq Region
    BY DEF RedirectContained
  <2>1. acc.size < DUMMY_REGION_SIZE /\ acc.size \in Nat
    BY AccessFacts DEF Inv, PointerInv, TypeOK
  <2> QED  BY <2>1, AccessAssumption DEF Span, Region
<1> QED  BY <1>1, SpecInv, PTL
=============================================================================
