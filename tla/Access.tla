------------------------------- MODULE Access -------------------------------
(****************************************************************************)
(* The page-fault checker (kspecem_pf_checker.c and kspecem_hook_access):   *)
(* in speculation an access through a pointer that is not valid goes to a   *)
(* dummy region instead of faulting.  The module follows one access after   *)
(* the other through the hooks of KSpecEmPfChecker and KSpecEm, in either   *)
(* order of the two passes, and rolls the speculation back at any step.     *)
(*                                                                          *)
(* Addresses and sizes are in words of eight bytes.                         *)
(****************************************************************************)
EXTENDS Naturals, Sequences

CONSTANTS
  NWords,              \* number of memory words; word 0 is the NULL pointer
  Mapped,              \* the words that are mapped
  Dummy,               \* where kzalloc puts the dummy region
  DUMMY_REGION_SIZE,
  Validities,          \* the sets that kdf_virt_addr_valid may accept
  WRITELOG_MAXLEN,
  MaxSize,             \* bound: words of an access
  Vals                 \* what is stored

Words == 0..(NWords - 1)
NULL  == 0
Minus1 == NWords       \* (void *) -1

Span(p, size) == p..(p + size - 1)
Region         == Span(Dummy, DUMMY_REGION_SIZE)

ASSUME AccessAssumption ==
  /\ NWords \in Nat /\ Dummy \in Nat /\ MaxSize \in Nat /\ WRITELOG_MAXLEN \in Nat
  /\ DUMMY_REGION_SIZE \in Nat \ {0}
  /\ NULL \notin Mapped /\ Mapped \subseteq Words
  /\ Region \subseteq Mapped
  /\ 0 \in Vals

VARIABLES
  pfFirst,             \* KSpecEmPfChecker runs before KSpecEm
  valid,               \* the words for which kdf_virt_addr_valid holds
  pf_dummy_region,
  init_done,
  spec,                \* in speculative emulation
  mem,
  log,                 \* the write log: addresses and old values
  acc,                 \* the access under way
  ptr,                 \* its pointer operand, possibly replaced
  todo,                \* what is left of it
  oops,                \* the kernel faulted outside speculation
  arch                 \* memory as the writes outside speculation leave it

vars == <<pfFirst, valid, pf_dummy_region, init_done, spec, mem, log, acc, ptr, todo, oops, arch>>
consts == <<pfFirst, valid>>

\* asan: the access carries the metadata is-asan-instr.
Accesses ==
  [op : {"load"}, ptr : Words, size : {1}, val : {0}, asan : BOOLEAN]
    \cup [op : {"store"}, ptr : Words, size : {1}, val : Vals, asan : BOOLEAN]
    \cup [op : {"memset"}, ptr : Words, size : 1..MaxSize, val : Vals, asan : BOOLEAN]

NoAccess == [op |-> "load", ptr |-> NULL, size |-> 1, val |-> 0, asan |-> FALSE]

Init ==
  /\ pfFirst \in BOOLEAN
  /\ valid \in Validities
  /\ pf_dummy_region = Minus1
  /\ init_done = FALSE
  /\ spec = FALSE
  /\ mem = [w \in Words |-> 0]
  /\ arch = mem
  /\ log = << >>
  /\ acc = NoAccess
  /\ ptr = NULL
  /\ todo = << >>
  /\ oops = FALSE

\* The allocation may fail, and nobody looks.
kspecem_init_pf_checker ==
  /\ ~init_done /\ todo = << >> /\ ~oops
  /\ pf_dummy_region' \in {Dummy, NULL}
  /\ init_done' = TRUE
  /\ UNCHANGED <<consts, spec, mem, log, acc, ptr, todo, oops, arch>>

Checkpoint ==
  /\ init_done /\ ~spec /\ todo = << >> /\ ~oops
  /\ spec' = TRUE
  /\ UNCHANGED <<consts, pf_dummy_region, init_done, mem, log, acc, ptr, todo, oops, arch>>

-----------------------------------------------------------------------------
(* One access and its hooks *)

Logged(a) ==
  CASE a.op = "load"   -> << >>
    [] a.op = "store"  -> <<"hook_store">>
    [] a.op = "memset" -> <<"hook_memcpy">>

Checked(a) == IF a.asan THEN <<"hook_access">> ELSE << >>

\* A mutant: writes are logged by their original pointer, whatever the order.
Steps_LogFirst(a) == Logged(a) \o Checked(a) \o <<a.op>>

\* The steps of an access: each pass puts its hook right before the access, so
\* that the hook of the later pass is the nearer one.
Steps(a) ==
  (IF pfFirst THEN Checked(a) \o Logged(a) ELSE Logged(a) \o Checked(a)) \o <<a.op>>

Begin(a) ==
  /\ todo = << >> /\ ~oops
  /\ Span(a.ptr, a.size) \subseteq Words
  /\ spec \/ Span(a.ptr, a.size) \cap Region = {}   \* only speculation runs into the region
  /\ acc' = a
  /\ ptr' = a.ptr
  /\ todo' = Steps(a)
  /\ UNCHANGED <<consts, pf_dummy_region, init_done, spec, mem, log, oops, arch>>

\* A mutant: the size of the access is not looked at.
kspecem_access_AnySize(p, size) == IF p \notin valid THEN pf_dummy_region ELSE p

kspecem_access(p, size) ==
  IF p \notin valid /\ size < DUMMY_REGION_SIZE THEN pf_dummy_region ELSE p

kspecem_hook_access ==
  /\ todo # << >> /\ Head(todo) = "hook_access"
  /\ ptr' = IF spec /\ init_done THEN kspecem_access(ptr, acc.size) ELSE ptr
  /\ todo' = Tail(todo)
  /\ UNCHANGED <<consts, pf_dummy_region, init_done, spec, mem, log, acc, oops, arch>>

\* Memory after the log is walked backwards.
Restored(m, l) ==
  [w \in Words |->
     IF \E k \in DOMAIN l : l[k].addr = w
       THEN l[CHOOSE k \in DOMAIN l : l[k].addr = w /\ \A j \in 1..(k - 1) : l[j].addr # w].val
       ELSE m[w]]

\* The state after a restart of any kind.
RolledBack(m, l) ==
  /\ mem' = Restored(m, l)
  /\ log' = << >>
  /\ spec' = FALSE
  /\ acc' = NoAccess
  /\ ptr' = NULL
  /\ todo' = << >>

\* A mutant: the log has no end.
Loggable_NoEnd(w, k) == w \in Mapped

\* The k-th new entry, for word w, can be made: no page fault, the log not full.
Loggable(w, k) == w \in Mapped /\ Len(log) + k <= WRITELOG_MAXLEN

\* The entries that writing at p adds: up to the first that cannot be made.
Entries(p, size) ==
  LET n == CHOOSE n \in 0..size :
             /\ \A k \in 1..n : Loggable(p + k - 1, k)
             /\ n < size => ~Loggable(p + n, n + 1)
  IN  [k \in 1..n |-> [addr |-> p + k - 1, val |-> mem[p + k - 1]]]

\* hook_store and hook_memcpy: nothing outside speculation; in it a word that is
\* not mapped, and a full log, end the speculation.
LogWrite ==
  /\ todo # << >> /\ Head(todo) \in {"hook_store", "hook_memcpy"}
  /\ LET new == IF spec THEN Entries(ptr, acc.size) ELSE << >> IN
     IF ~spec \/ Len(new) = acc.size
       THEN log' = log \o new /\ todo' = Tail(todo) /\ UNCHANGED <<mem, spec, acc, ptr>>
       ELSE RolledBack(mem, log \o new)
  /\ UNCHANGED <<consts, pf_dummy_region, init_done, oops, arch>>

\* The access itself.  A page fault in speculation ends it, elsewhere it is the
\* kernel's own.
Touch(m) == [w \in Words |-> IF w \in Span(ptr, acc.size) THEN acc.val ELSE m[w]]

Perform ==
  /\ todo # << >> /\ Head(todo) = acc.op
  /\ LET faults == ~(Span(ptr, acc.size) \subseteq Mapped)
         writes == acc.op # "load"
     IN  \/ /\ ~faults
            /\ mem' = IF writes THEN Touch(mem) ELSE mem
            /\ arch' = IF writes /\ ~spec THEN Touch(arch) ELSE arch
            /\ todo' = << >>
            /\ acc' = NoAccess
            /\ ptr' = NULL
            /\ UNCHANGED <<spec, log, oops>>
         \/ /\ faults /\ spec
            /\ RolledBack(mem, log)
            /\ UNCHANGED <<oops, arch>>
         \/ /\ faults /\ ~spec
            /\ oops' = TRUE
            /\ UNCHANGED <<spec, mem, log, acc, ptr, todo, arch>>
  /\ ~oops
  /\ UNCHANGED <<consts, pf_dummy_region, init_done>>

\* Any other end of the speculation, between two steps.
Restart ==
  /\ spec
  /\ RolledBack(mem, log)
  /\ UNCHANGED <<consts, pf_dummy_region, init_done, oops, arch>>

Next ==
  \/ kspecem_init_pf_checker
  \/ Checkpoint
  \/ \E a \in Accesses : Begin(a)
  \/ kspecem_hook_access
  \/ LogWrite
  \/ Perform
  \/ Restart

Spec == Init /\ [][Next]_vars

-----------------------------------------------------------------------------
(* Properties *)

\* Types; the dummy region's pointer is never used before it is set.
TypeOK ==
  /\ pfFirst \in BOOLEAN /\ valid \in Validities
  /\ pf_dummy_region \in {Minus1, Dummy, NULL}
  /\ init_done = (pf_dummy_region # Minus1)
  /\ spec \in BOOLEAN /\ oops \in BOOLEAN
  /\ mem \in [Words -> Vals] /\ arch \in [Words -> Vals]
  /\ log \in Seq([addr : Mapped, val : Vals]) /\ Len(log) <= WRITELOG_MAXLEN
  /\ acc \in Accesses
  /\ ptr \in Words
  /\ Len(todo) <= 3

\* With KSpecEm in front, the log names the pointer before it is replaced: it
\* is exact only when every mapped word counts as valid.
LogsWhatIsWritten == pfFirst \/ Mapped \subseteq valid

\* Rolling back leaves memory, the dummy region included, as the writes outside
\* speculation made it: redirected writes are undone as well.
MemoryExact == LogsWhatIsWritten /\ ~spec => mem = arch

\* A redirected access stays inside the dummy region.
RedirectContained ==
  todo # << >> /\ ptr = Dummy /\ pf_dummy_region = Dummy /\ acc.ptr # Dummy =>
    Span(ptr, acc.size) \subseteq Region

=============================================================================
