------------------------------ MODULE MCSpecEm ------------------------------
(****************************************************************************)
(* Small programs for SpecEm.  Words 3, 4 and 6 are writable data, 5 is on  *)
(* a read-only page and 7 on an unmapped one, 8 and above are the stack.    *)
(****************************************************************************)
EXTENDS SpecEm

I(op, addr, size, val, to, alt) ==
  [op |-> op, addr |-> addr, size |-> size, val |-> val, to |-> to, alt |-> alt]

St(addr, size, val) == I("store", addr, size, val, 0, 0)
Ms(addr, size, val) == I("memset", addr, size, val, 0, 0)
Sp(val)    == I("spill", 0, 1, val, 0, 0)
Br(addr, to, alt) == I("branch", addr, 1, 0, to, alt)
Jmp(to)    == I("jump", 0, 1, 0, to, 0)
CallTo(to) == I("call", 0, 1, 0, to, 0)
Entry      == I("entry", 0, 1, 0, 0, 0)
Ret        == I("ret", 0, 1, 0, 0, 0)
Asm(type)  == I("asm", 32, 8, 8, type, 0)
Cli        == I("cli", 0, 1, 0, 0, 0)
Sti        == I("sti", 0, 1, 0, 0, 0)
Trap       == I("trap", 0, 1, 0, 0, 0)

\* The branch of main (1..7) goes to 6 when word 3 is 0: a checkpoint at 2 then
\* speculates along 3, 4 and 5.  g (8..10) is the callee of the call slots.
InMain(p, x, y, z) ==
  <<p, Br(24, 3, 6), x, y, Jmp(6), z, Ret, Entry, St(128, 8, 5), Ret>>

\* main (1..3) calls g (4..9), whose branch goes to 8 when word 3 is 0: the
\* checkpoint is taken in the second frame, and word 16 is the caller's.
InCallee(x, y) ==
  <<CallTo(4), Sp(6), Ret, Entry, Br(24, 6, 8), x, y, Sp(7), Ret>>

\* A mis-speculated path calls two functions deep.
Chain ==
  <<Br(24, 2, 5), CallTo(6), Sp(7), Jmp(5), Ret,
    Entry, CallTo(9), Ret, Entry, St(112, 8, 5), Ret>>

Data   == {St(24, 8, 1), St(36, 4, 2), St(28, 8, 6), Ms(25, 14, 3)}
Fault  == {St(36, 8, 2), St(52, 4, 3), Trap}
Frames == {Sp(4), St(128, 8, 5), St(124, 8, 7), St(112, 8, 5)}
Leave  == {Asm(2), Asm(3), Asm(4), Cli}

\* What a mis-speculated path does to memory, to its frames and to control.
Emulated ==
  {InMain(Sp(9), x, y, Sp(8)) : x \in Data \cup Frames \cup {CallTo(8), Cli},
                                y \in {CallTo(8), St(28, 8, 6), Jmp(3)}}
    \cup {InMain(Sp(9), x, Sp(2), Sp(8)) : x \in Fault \cup Leave}
    \cup {InMain(p, Sp(4), Sp(5), z) : p \in {St(24, 8, 1), Cli}, z \in {Sp(8), Trap, Sti, Ms(25, 14, 3)}}
    \cup {InCallee(x, y) : x \in {CallTo(4), St(128, 8, 5), Sp(4)}, y \in {St(36, 4, 2), Jmp(5)}}
    \cup {Chain}

\* Programs that run into each of the limits.
Limited ==
  {InMain(Sp(9), x, y, Sp(8)) : x \in {St(36, 4, 2), Ms(25, 14, 3), St(128, 8, 5), Sp(4)},
                                y \in {CallTo(8), Jmp(3)}}
    \cup {InCallee(x, Sp(5)) : x \in {CallTo(4), St(128, 8, 5)}}

\* A mis-speculated path calls three functions deep, where the innermost one
\* writes its own frame (word 14 of 18), returns and is then rolled back.
DeepCallee ==
  {<<Br(24, 2, 5), CallTo(6), Asm(3), Jmp(5), Ret,
     Entry, CallTo(9), Ret, Entry, CallTo(12), Ret, Entry, St(112, 8, 5), Ret>>}

\* Programs for everything that may go wrong in a rollback.
Interrupted ==
  DeepCallee \cup {InMain(Sp(9), x, y, Sp(8)) : x \in {Ms(25, 14, 3), CallTo(8)},
                                               y \in {CallTo(8), St(28, 8, 6)}}
    \cup {InCallee(CallTo(4), St(36, 4, 2))}
=============================================================================
