------------------------------ MODULE MCPasses ------------------------------
(****************************************************************************)
(* Functions for Passes: an entry block, a block that loops and a block     *)
(* that returns, with one or two instructions of every kind.                *)
(****************************************************************************)
EXTENDS Passes

P(op, ptr, asan) ==
  [op |-> op, own |-> TRUE, ptr |-> ptr, asan |-> asan, text |-> "", mem |-> FALSE,
   arg |-> 0, to |-> {}]

Goto(op, to) == [P(op, "none", FALSE) EXCEPT !.to = to]
Asm(text, mem) == [P("asm", "none", FALSE) EXCEPT !.text = text, !.mem = mem]

Body ==
  {P("load", "own", TRUE), P("store", "own", TRUE), P("store", "own", FALSE),
   P("memset", "own", TRUE), P("call", "none", FALSE), P("icall", "none", FALSE)}
    \cup {Asm(text, mem) : text \in AsmTexts, mem \in BOOLEAN}

Loop(x, y, z) ==
  <<<<x, Goto("br", {2})>>, <<y, Goto("condbr", {2, 3})>>, <<z, Goto("ret", {})>>>>

Function(name, prefixed, suffixed, src, module, blocks) ==
  [name |-> name, prefixed |-> prefixed, suffixed |-> suffixed, src |-> src,
   module |-> module, blocks |-> blocks]

Stored == P("store", "own", TRUE)
Loaded == P("load", "own", TRUE)

\* Bodies of an ordinary function.
Bodies ==
  {Function("plain", FALSE, FALSE, {}, "kernel", Loop(x, y, Stored)) :
     x \in {Stored, Loaded, P("icall", "none", FALSE)}, y \in Body}
    \cup {Function("plain", FALSE, FALSE, {}, "kernel", <<<<Goto("ret", {})>>>>)}

\* Names, lists and modules.
Names ==
  {Function(name, prefixed, suffixed, src, module, Loop(Stored, P("icall", "none", FALSE), Loaded)) :
     name \in {"plain", "kdfsan_alloc_page", "timer_interrupt", "exc_page_fault", "exc_nmi",
               "kspecem_", "__dfsan", "unset_rt"},
     prefixed \in BOOLEAN, suffixed \in BOOLEAN, src \in {{}, {"nospec"}, {"blacklist"}},
     module \in {"kernel", "libkspecem.a", "kdfsan", "test_kdfsan"}}

\* ignore_nmis++ and ignore_nmis--.
NmiFunctions ==
  {Function(name, FALSE, FALSE, {}, "kernel", <<<<Loaded, Stored, Goto("ret", {})>>>>) :
     name \in {"stop_nmi", "restart_nmi"}}

AllSources == Bodies \cup Names \cup NmiFunctions
=============================================================================
