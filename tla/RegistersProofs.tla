-------------------------- MODULE RegistersProofs --------------------------
(****************************************************************************)
(* Proofs about Registers, for every size of the stack.  The routines are   *)
(* straight lines of code: the invariant says, for every number n of        *)
(* instructions that are done, what registers, buffer and stack hold.       *)
(****************************************************************************)
EXTENDS Registers, SequenceTheorems, TLAPS

-----------------------------------------------------------------------------
(* Code *)

RoutineOps ==
  {"save", "load", "move", "lea8rsp", "readtop", "zero", "push", "pushf", "pop", "popf", "ret", "jmp"}

Text == [op : RoutineOps, src : Regs, dst : Regs]

LEMMA TextType ==
  /\ \A r \in Regs : Save(r) \in Text
  /\ \A r, d \in Regs : Load(r, d) \in Text /\ Move(r, d) \in Text /\ SaveAs(r, d) \in Text
  /\ \A o \in RoutineOps : Other(o) \in Text
<1>1. "rax" \in Regs
  BY DEF Regs
<1>2. "save" \in RoutineOps /\ "load" \in RoutineOps /\ "move" \in RoutineOps
  BY DEF RoutineOps
<1> QED  BY <1>1, <1>2 DEF Text, Save, Load, Move, SaveAs, Other

LEMMA Names ==
  /\ "rax" \in Regs /\ "rbx" \in Regs /\ "rcx" \in Regs /\ "rdx" \in Regs /\ "rbp" \in Regs /\ "rsi" \in Regs
  /\ "rdi" \in Regs /\ "rsp" \in Regs /\ "rip" \in Regs /\ "eflags" \in Regs /\ "r8" \in Regs /\ "r9" \in Regs
  /\ "r10" \in Regs /\ "r11" \in Regs /\ "r12" \in Regs /\ "r13" \in Regs /\ "r14" \in Regs /\ "r15" \in Regs
BY DEF Regs

LEMMA OpNames ==
  /\ "lea8rsp" \in RoutineOps /\ "readtop" \in RoutineOps /\ "zero" \in RoutineOps /\ "push" \in RoutineOps
  /\ "pushf" \in RoutineOps /\ "pop" \in RoutineOps /\ "popf" \in RoutineOps /\ "ret" \in RoutineOps
  /\ "jmp" \in RoutineOps
BY DEF RoutineOps

\* Two pieces of code, one after the other.
LEMMA ConcatAt ==
  \A s, t \in Seq(Text) :
    /\ s \o t \in Seq(Text) /\ Len(s \o t) = Len(s) + Len(t)
    /\ \A k \in 1..Len(s) : (s \o t)[k] = s[k]
    /\ \A k \in 1..Len(t) : (s \o t)[Len(s) + k] = t[k]
OBVIOUS

\* What is left of s after n instructions.
From(s, n) == SubSeq(s, n + 1, Len(s))

LEMMA FromFacts ==
  ASSUME NEW s \in Seq(Text), NEW n \in Nat, n < Len(s)
  PROVE  /\ From(s, n) # << >> /\ Len(From(s, n)) = Len(s) - n
         /\ Head(From(s, n)) = s[n + 1] /\ Tail(From(s, n)) = From(s, n + 1)
<1>1. n + 1 \in 1..Len(s) /\ Len(s) \in (n + 1)..Len(s) /\ \A i \in (n + 1)..Len(s) : s[i] \in Text
  OBVIOUS
<1>2. Head(From(s, n)) = s[n + 1] /\ Tail(From(s, n)) = From(s, n + 1)
  BY <1>1, HeadTailOfSubSeq, Zenon DEF From
<1>3. Len(From(s, n)) = Len(s) - n
  BY <1>1, SubSeqProperties DEF From
<1> QED  BY <1>1, <1>2, <1>3

LEMMA FromStart == ASSUME NEW s \in Seq(Text) PROVE From(s, 0) = s
BY SubSeqFull DEF From

LEMMA FromEnd == ASSUME NEW s \in Seq(Text) PROVE From(s, Len(s)) = << >>
BY SubSeqEmpty DEF From

-----------------------------------------------------------------------------
(* The text of the routines *)

LEMMA GeneralText ==
  /\ SaveGeneral \in Seq(Text) /\ Len(SaveGeneral) = 17
  /\ SaveGeneral[1] = Save("rax") /\ SaveGeneral[2] = Save("rbx") /\ SaveGeneral[3] = Save("rcx")
  /\ SaveGeneral[4] = Save("rdx") /\ SaveGeneral[5] = Save("rbp") /\ SaveGeneral[6] = Save("r8")
  /\ SaveGeneral[7] = Save("r9") /\ SaveGeneral[8] = Save("r10") /\ SaveGeneral[9] = Save("r11")
  /\ SaveGeneral[10] = Save("r12") /\ SaveGeneral[11] = Save("r13") /\ SaveGeneral[12] = Save("r14")
  /\ SaveGeneral[13] = Save("r15") /\ SaveGeneral[14] = Other("lea8rsp") /\ SaveGeneral[15] = SaveAs("rdx", "rsp")
  /\ SaveGeneral[16] = Other("readtop") /\ SaveGeneral[17] = SaveAs("rax", "rip")
<1> DEFINE x1 == Save("rax")
           x2 == Save("rbx")
           x3 == Save("rcx")
           x4 == Save("rdx")
           x5 == Save("rbp")
           x6 == Save("r8")
           x7 == Save("r9")
           x8 == Save("r10")
           x9 == Save("r11")
           x10 == Save("r12")
           x11 == Save("r13")
           x12 == Save("r14")
           x13 == Save("r15")
           x14 == Other("lea8rsp")
           x15 == SaveAs("rdx", "rsp")
           x16 == Other("readtop")
           x17 == SaveAs("rax", "rip")
<1>1. x1 \in Text /\ x2 \in Text /\ x3 \in Text /\ x4 \in Text /\ x5 \in Text /\ x6 \in Text /\
      x7 \in Text /\ x8 \in Text /\ x9 \in Text /\ x10 \in Text /\ x11 \in Text /\ x12 \in Text /\
      x13 \in Text /\ x14 \in Text /\ x15 \in Text /\ x16 \in Text /\ x17 \in Text
  BY TextType, Names, OpNames
<1>2. SaveGeneral = <<x1, x2, x3, x4, x5, x6, x7, x8, x9, x10, x11, x12, x13, x14, x15, x16, x17>>
  BY DEF SaveGeneral
<1> HIDE DEF x1, x2, x3, x4, x5, x6, x7, x8, x9, x10, x11, x12, x13, x14, x15, x16, x17
<1>3. /\ SaveGeneral \in Seq(Text) /\ Len(SaveGeneral) = 17
      /\ SaveGeneral[1] = x1 /\ SaveGeneral[2] = x2 /\ SaveGeneral[3] = x3
      /\ SaveGeneral[4] = x4 /\ SaveGeneral[5] = x5 /\ SaveGeneral[6] = x6
      /\ SaveGeneral[7] = x7 /\ SaveGeneral[8] = x8 /\ SaveGeneral[9] = x9
      /\ SaveGeneral[10] = x10 /\ SaveGeneral[11] = x11 /\ SaveGeneral[12] = x12
      /\ SaveGeneral[13] = x13 /\ SaveGeneral[14] = x14 /\ SaveGeneral[15] = x15
      /\ SaveGeneral[16] = x16 /\ SaveGeneral[17] = x17
  BY <1>1, <1>2
<1> QED  BY <1>3 DEF x1, x2, x3, x4, x5, x6, x7, x8, x9, x10, x11, x12, x13, x14, x15, x16, x17

LEMMA FlagsText ==
  /\ SaveFlags \in Seq(Text) /\ Len(SaveFlags) = 4
  /\ SaveFlags[1] = Other("zero") /\ SaveFlags[2] = Other("pushf") /\ SaveFlags[3] = Other("pop")
  /\ SaveFlags[4] = SaveAs("rax", "eflags")
<1> DEFINE x1 == Other("zero")
           x2 == Other("pushf")
           x3 == Other("pop")
           x4 == SaveAs("rax", "eflags")
<1>1. x1 \in Text /\ x2 \in Text /\ x3 \in Text /\ x4 \in Text
  BY TextType, Names, OpNames
<1>2. SaveFlags = <<x1, x2, x3, x4>>
  BY DEF SaveFlags
<1> HIDE DEF x1, x2, x3, x4
<1>3. /\ SaveFlags \in Seq(Text) /\ Len(SaveFlags) = 4
      /\ SaveFlags[1] = x1 /\ SaveFlags[2] = x2 /\ SaveFlags[3] = x3
      /\ SaveFlags[4] = x4
  BY <1>1, <1>2
<1> QED  BY <1>3 DEF x1, x2, x3, x4

SaveEnd == <<Other("zero"), Other("ret")>>

LEMMA SaveEndText ==
  /\ SaveEnd \in Seq(Text) /\ Len(SaveEnd) = 2
  /\ SaveEnd[1] = Other("zero") /\ SaveEnd[2] = Other("ret")
<1> DEFINE x1 == Other("zero")
           x2 == Other("ret")
<1>1. x1 \in Text /\ x2 \in Text
  BY TextType, Names, OpNames
<1>2. SaveEnd = <<x1, x2>>
  BY DEF SaveEnd
<1> HIDE DEF x1, x2
<1>3. /\ SaveEnd \in Seq(Text) /\ Len(SaveEnd) = 2
      /\ SaveEnd[1] = x1 /\ SaveEnd[2] = x2
  BY <1>1, <1>2
<1> QED  BY <1>3 DEF x1, x2

SaveCode == SaveBody \o SaveEnd

LEMMA SaveText ==
  /\ SaveCode \in Seq(Text) /\ Len(SaveCode) = 23
  /\ SaveCode[1] = Save("rax") /\ SaveCode[2] = Save("rbx") /\ SaveCode[3] = Save("rcx")
  /\ SaveCode[4] = Save("rdx") /\ SaveCode[5] = Save("rbp") /\ SaveCode[6] = Save("r8")
  /\ SaveCode[7] = Save("r9") /\ SaveCode[8] = Save("r10") /\ SaveCode[9] = Save("r11")
  /\ SaveCode[10] = Save("r12") /\ SaveCode[11] = Save("r13") /\ SaveCode[12] = Save("r14")
  /\ SaveCode[13] = Save("r15") /\ SaveCode[14] = Other("lea8rsp") /\ SaveCode[15] = SaveAs("rdx", "rsp")
  /\ SaveCode[16] = Other("readtop") /\ SaveCode[17] = SaveAs("rax", "rip") /\ SaveCode[18] = Other("zero")
  /\ SaveCode[19] = Other("pushf") /\ SaveCode[20] = Other("pop") /\ SaveCode[21] = SaveAs("rax", "eflags")
  /\ SaveCode[22] = Other("zero") /\ SaveCode[23] = Other("ret")
<1>1. /\ SaveGeneral \in Seq(Text) /\ Len(SaveGeneral) = 17 /\ SaveFlags \in Seq(Text) /\ Len(SaveFlags) = 4
      /\ SaveEnd \in Seq(Text) /\ Len(SaveEnd) = 2
  BY GeneralText, FlagsText, SaveEndText
<1>2. /\ SaveBody \in Seq(Text) /\ Len(SaveBody) = 21
      /\ \A k \in 1..17 : SaveBody[k] = SaveGeneral[k]
      /\ \A k \in 1..4 : SaveBody[17 + k] = SaveFlags[k]
  <2>1. /\ SaveBody \in Seq(Text) /\ Len(SaveBody) = Len(SaveGeneral) + Len(SaveFlags)
        /\ \A k \in 1..Len(SaveGeneral) : SaveBody[k] = SaveGeneral[k]
        /\ \A k \in 1..Len(SaveFlags) : SaveBody[Len(SaveGeneral) + k] = SaveFlags[k]
    BY <1>1, ConcatAt, Zenon DEF SaveBody
  <2> QED  BY <1>1, <2>1
<1>3. /\ SaveCode \in Seq(Text) /\ Len(SaveCode) = 23
      /\ \A k \in 1..21 : SaveCode[k] = SaveBody[k]
      /\ \A k \in 1..2 : SaveCode[21 + k] = SaveEnd[k]
  <2>1. /\ SaveCode \in Seq(Text) /\ Len(SaveCode) = Len(SaveBody) + Len(SaveEnd)
        /\ \A k \in 1..Len(SaveBody) : SaveCode[k] = SaveBody[k]
        /\ \A k \in 1..Len(SaveEnd) : SaveCode[Len(SaveBody) + k] = SaveEnd[k]
    BY <1>1, <1>2, ConcatAt, Zenon DEF SaveCode
  <2> QED  BY <1>1, <1>2, <2>1
<1>4. \A k \in 1..17 : SaveCode[k] = SaveGeneral[k]
  <2> TAKE k \in 1..17
  <2>1. k \in 1..21
    OBVIOUS
  <2>2. SaveCode[k] = SaveBody[k] /\ SaveBody[k] = SaveGeneral[k]
    BY ONLY <1>2, <1>3, <2>1, k \in 1..17, Zenon
  <2> QED  BY <2>2
<1>5. /\ SaveCode[18] = SaveFlags[1] /\ SaveCode[19] = SaveFlags[2] /\ SaveCode[20] = SaveFlags[3]
      /\ SaveCode[21] = SaveFlags[4] /\ SaveCode[22] = SaveEnd[1] /\ SaveCode[23] = SaveEnd[2]
  BY <1>2, <1>3
<1> QED  BY <1>3, <1>4, <1>5, GeneralText, FlagsText, SaveEndText

RestoreStart == <<Load("rsp", "r8"), Load("rbp", "r9"), Load("rip", "rdx")>>

LEMMA StartText ==
  /\ RestoreStart \in Seq(Text) /\ Len(RestoreStart) = 3
  /\ RestoreStart[1] = Load("rsp", "r8") /\ RestoreStart[2] = Load("rbp", "r9") /\ RestoreStart[3] = Load("rip", "rdx")
<1> DEFINE x1 == Load("rsp", "r8")
           x2 == Load("rbp", "r9")
           x3 == Load("rip", "rdx")
<1>1. x1 \in Text /\ x2 \in Text /\ x3 \in Text
  BY TextType, Names, OpNames
<1>2. RestoreStart = <<x1, x2, x3>>
  BY DEF RestoreStart
<1> HIDE DEF x1, x2, x3
<1>3. /\ RestoreStart \in Seq(Text) /\ Len(RestoreStart) = 3
      /\ RestoreStart[1] = x1 /\ RestoreStart[2] = x2 /\ RestoreStart[3] = x3
  BY <1>1, <1>2
<1> QED  BY <1>3 DEF x1, x2, x3

RestoreFrame ==
  <<Move("rsi", "rax"), Move("r8", "rsp"), Move("r9", "rbp"), Load("r8", "r8"), Load("r9", "r9")>>

LEMMA FrameText ==
  /\ RestoreFrame \in Seq(Text) /\ Len(RestoreFrame) = 5
  /\ RestoreFrame[1] = Move("rsi", "rax") /\ RestoreFrame[2] = Move("r8", "rsp") /\ RestoreFrame[3] = Move("r9", "rbp")
  /\ RestoreFrame[4] = Load("r8", "r8") /\ RestoreFrame[5] = Load("r9", "r9")
<1> DEFINE x1 == Move("rsi", "rax")
           x2 == Move("r8", "rsp")
           x3 == Move("r9", "rbp")
           x4 == Load("r8", "r8")
           x5 == Load("r9", "r9")
<1>1. x1 \in Text /\ x2 \in Text /\ x3 \in Text /\ x4 \in Text /\ x5 \in Text
  BY TextType, Names, OpNames
<1>2. RestoreFrame = <<x1, x2, x3, x4, x5>>
  BY DEF RestoreFrame
<1> HIDE DEF x1, x2, x3, x4, x5
<1>3. /\ RestoreFrame \in Seq(Text) /\ Len(RestoreFrame) = 5
      /\ RestoreFrame[1] = x1 /\ RestoreFrame[2] = x2 /\ RestoreFrame[3] = x3
      /\ RestoreFrame[4] = x4 /\ RestoreFrame[5] = x5
  BY <1>1, <1>2
<1> QED  BY <1>3 DEF x1, x2, x3, x4, x5

LEMMA RestText ==
  /\ Rest \in Seq(Text) /\ Len(Rest) = 5
  /\ Rest[1] = Load("eflags", "rax") /\ Rest[2] = Other("push") /\ Rest[3] = Other("popf")
  /\ Rest[4] = Load("rax", "rax") /\ Rest[5] = Other("jmp")
<1> DEFINE x1 == Load("eflags", "rax")
           x2 == Other("push")
           x3 == Other("popf")
           x4 == Load("rax", "rax")
           x5 == Other("jmp")
<1>1. x1 \in Text /\ x2 \in Text /\ x3 \in Text /\ x4 \in Text /\ x5 \in Text
  BY TextType, Names, OpNames
<1>2. Rest = <<x1, x2, x3, x4, x5>>
  BY DEF Rest
<1> HIDE DEF x1, x2, x3, x4, x5
<1>3. /\ Rest \in Seq(Text) /\ Len(Rest) = 5
      /\ Rest[1] = x1 /\ Rest[2] = x2 /\ Rest[3] = x3
      /\ Rest[4] = x4 /\ Rest[5] = x5
  BY <1>1, <1>2
<1> QED  BY <1>3 DEF x1, x2, x3, x4, x5

LEMMA LoadText ==
  /\ LoadEach \in Seq(Text) /\ Len(LoadEach) = 8
  /\ LoadEach[1] = Load("rbx", "rbx") /\ LoadEach[2] = Load("r10", "r10") /\ LoadEach[3] = Load("r11", "r11")
  /\ LoadEach[4] = Load("r12", "r12") /\ LoadEach[5] = Load("r13", "r13") /\ LoadEach[6] = Load("r14", "r14")
  /\ LoadEach[7] = Load("r15", "r15") /\ LoadEach[8] = Load("rcx", "rcx")
<1>1. Restored \in Seq(Regs) /\ Len(Restored) = 8 /\ DOMAIN Restored = 1..8
  BY Names DEF Restored
<1>2. /\ Restored[1] = "rbx" /\ Restored[2] = "r10" /\ Restored[3] = "r11"
      /\ Restored[4] = "r12" /\ Restored[5] = "r13" /\ Restored[6] = "r14"
      /\ Restored[7] = "r15" /\ Restored[8] = "rcx"
  BY DEF Restored
<1>3. \A k \in 1..8 : Load(Restored[k], Restored[k]) \in Text
  <2>1. \A k \in 1..8 : Restored[k] \in Regs
    BY <1>2, Names
  <2> QED  BY <2>1, TextType, Zenon
<1>4. LoadEach = [k \in 1..8 |-> Load(Restored[k], Restored[k])]
  BY <1>1 DEF LoadEach
<1>5. LoadEach \in Seq(Text) /\ Len(LoadEach) = 8 /\ \A k \in 1..8 : LoadEach[k] = Load(Restored[k], Restored[k])
  BY <1>3, <1>4
<1>6. /\ LoadEach[1] = Load(Restored[1], Restored[1]) /\ LoadEach[2] = Load(Restored[2], Restored[2]) /\ LoadEach[3] = Load(Restored[3], Restored[3])
      /\ LoadEach[4] = Load(Restored[4], Restored[4]) /\ LoadEach[5] = Load(Restored[5], Restored[5]) /\ LoadEach[6] = Load(Restored[6], Restored[6])
      /\ LoadEach[7] = Load(Restored[7], Restored[7]) /\ LoadEach[8] = Load(Restored[8], Restored[8])
  BY <1>5
<1> QED  BY <1>2, <1>5, <1>6

RestoreLoads == RestoreStart \o LoadEach
RestoreMoves == RestoreLoads \o RestoreFrame
RestoreCode  == RestoreMoves \o Rest

LEMMA RestoreIs == kspecem_asm_restore_registers = RestoreCode
BY DEF kspecem_asm_restore_registers, RestoreStart, RestoreFrame, RestoreLoads, RestoreMoves, RestoreCode

LEMMA RestoreText ==
  /\ RestoreCode \in Seq(Text) /\ Len(RestoreCode) = 21
  /\ RestoreCode[1] = Load("rsp", "r8") /\ RestoreCode[2] = Load("rbp", "r9") /\ RestoreCode[3] = Load("rip", "rdx")
  /\ RestoreCode[4] = Load("rbx", "rbx") /\ RestoreCode[5] = Load("r10", "r10") /\ RestoreCode[6] = Load("r11", "r11")
  /\ RestoreCode[7] = Load("r12", "r12") /\ RestoreCode[8] = Load("r13", "r13") /\ RestoreCode[9] = Load("r14", "r14")
  /\ RestoreCode[10] = Load("r15", "r15") /\ RestoreCode[11] = Load("rcx", "rcx") /\ RestoreCode[12] = Move("rsi", "rax")
  /\ RestoreCode[13] = Move("r8", "rsp") /\ RestoreCode[14] = Move("r9", "rbp") /\ RestoreCode[15] = Load("r8", "r8")
  /\ RestoreCode[16] = Load("r9", "r9") /\ RestoreCode[17] = Load("eflags", "rax") /\ RestoreCode[18] = Other("push")
  /\ RestoreCode[19] = Other("popf") /\ RestoreCode[20] = Load("rax", "rax") /\ RestoreCode[21] = Other("jmp")
<1>1. /\ RestoreStart \in Seq(Text) /\ Len(RestoreStart) = 3 /\ LoadEach \in Seq(Text) /\ Len(LoadEach) = 8
      /\ RestoreFrame \in Seq(Text) /\ Len(RestoreFrame) = 5 /\ Rest \in Seq(Text) /\ Len(Rest) = 5
  BY StartText, LoadText, FrameText, RestText
<1>2. /\ RestoreLoads \in Seq(Text) /\ Len(RestoreLoads) = 11
      /\ \A k \in 1..3 : RestoreLoads[k] = RestoreStart[k]
      /\ \A k \in 1..8 : RestoreLoads[3 + k] = LoadEach[k]
  <2>1. /\ RestoreLoads \in Seq(Text) /\ Len(RestoreLoads) = Len(RestoreStart) + Len(LoadEach)
        /\ \A k \in 1..Len(RestoreStart) : RestoreLoads[k] = RestoreStart[k]
        /\ \A k \in 1..Len(LoadEach) : RestoreLoads[Len(RestoreStart) + k] = LoadEach[k]
    BY <1>1, ConcatAt, Zenon DEF RestoreLoads
  <2> QED  BY <1>1, <2>1
<1>3. /\ RestoreMoves \in Seq(Text) /\ Len(RestoreMoves) = 16
      /\ \A k \in 1..11 : RestoreMoves[k] = RestoreLoads[k]
      /\ \A k \in 1..5 : RestoreMoves[11 + k] = RestoreFrame[k]
  <2>1. /\ RestoreMoves \in Seq(Text) /\ Len(RestoreMoves) = Len(RestoreLoads) + Len(RestoreFrame)
        /\ \A k \in 1..Len(RestoreLoads) : RestoreMoves[k] = RestoreLoads[k]
        /\ \A k \in 1..Len(RestoreFrame) : RestoreMoves[Len(RestoreLoads) + k] = RestoreFrame[k]
    BY <1>1, <1>2, ConcatAt, Zenon DEF RestoreMoves
  <2> QED  BY <1>1, <1>2, <2>1
<1>4. /\ RestoreCode \in Seq(Text) /\ Len(RestoreCode) = 21
      /\ \A k \in 1..16 : RestoreCode[k] = RestoreMoves[k]
      /\ \A k \in 1..5 : RestoreCode[16 + k] = Rest[k]
  <2>1. /\ RestoreCode \in Seq(Text) /\ Len(RestoreCode) = Len(RestoreMoves) + Len(Rest)
        /\ \A k \in 1..Len(RestoreMoves) : RestoreCode[k] = RestoreMoves[k]
        /\ \A k \in 1..Len(Rest) : RestoreCode[Len(RestoreMoves) + k] = Rest[k]
    BY <1>1, <1>3, ConcatAt, Zenon DEF RestoreCode
  <2> QED  BY <1>1, <1>3, <2>1
<1>5. \A k \in 1..3 : RestoreCode[k] = RestoreStart[k]
  BY <1>2, <1>3, <1>4
<1>6. /\ RestoreCode[4] = LoadEach[1] /\ RestoreCode[5] = LoadEach[2] /\ RestoreCode[6] = LoadEach[3]
      /\ RestoreCode[7] = LoadEach[4] /\ RestoreCode[8] = LoadEach[5] /\ RestoreCode[9] = LoadEach[6]
      /\ RestoreCode[10] = LoadEach[7] /\ RestoreCode[11] = LoadEach[8]
  BY <1>2, <1>3, <1>4
<1>7. /\ RestoreCode[12] = RestoreFrame[1] /\ RestoreCode[13] = RestoreFrame[2] /\ RestoreCode[14] = RestoreFrame[3]
      /\ RestoreCode[15] = RestoreFrame[4] /\ RestoreCode[16] = RestoreFrame[5]
  BY <1>3, <1>4
<1>8. /\ RestoreCode[17] = Rest[1] /\ RestoreCode[18] = Rest[2] /\ RestoreCode[19] = Rest[3]
      /\ RestoreCode[20] = Rest[4] /\ RestoreCode[21] = Rest[5]
  BY <1>4
<1> QED  BY <1>4, <1>5, <1>6, <1>7, <1>8, StartText, LoadText, FrameText, RestText
-----------------------------------------------------------------------------
(* The invariant *)

Typed ==
  /\ regs \in [Regs -> Int] /\ buf \in [Slots -> Int] /\ stack \in [0..(StackSize - 1) -> Int]

\* After n instructions of kspecem_asm_save_registers: what is in its slot, and
\* what is on its way there. The routine was entered with the stack pointer at 3.
SaveAt(n) ==
  /\ n >= 2  => buf[5] = regs["rbx"]
  /\ n >= 5  => buf[4] = regs["rbp"]
  /\ n >= 10 => buf[3] = regs["r12"]
  /\ n >= 11 => buf[2] = regs["r13"]
  /\ n >= 12 => buf[1] = regs["r14"]
  /\ n >= 13 => buf[0] = regs["r15"]
  /\ n = 14 => regs["rdx"] = 4
  /\ n >= 15 => buf[19] = 4
  /\ n = 16 => regs["rax"] = stack[3]
  /\ n >= 17 => buf[16] = stack[3]
  /\ regs["rsp"] = IF n = 19 THEN 2 ELSE 3
  /\ n = 19 => stack[2] = regs["eflags"]
  /\ n = 20 => regs["rax"] = regs["eflags"]
  /\ n >= 21 => buf[18] = regs["eflags"]

\* After n instructions of kspecem_asm_restore_registers: what has left its slot.
RestoreAt(n) ==
  /\ n \in 1..14 => regs["r8"] = buf[19]
  /\ n \in 2..15 => regs["r9"] = buf[4]
  /\ n >= 3  => regs["rdx"] = buf[16]
  /\ n >= 4  => regs["rbx"] = buf[5]
  /\ n >= 7  => regs["r12"] = buf[3]
  /\ n >= 8  => regs["r13"] = buf[2]
  /\ n >= 9  => regs["r14"] = buf[1]
  /\ n >= 10 => regs["r15"] = buf[0]
  /\ n >= 13 => regs["rsp"] = IF n = 18 THEN 3 ELSE 4
  /\ n >= 14 => regs["rbp"] = buf[4]
  /\ n = 17 => regs["rax"] = buf[18]
  /\ n = 18 => stack[3] = buf[18]
  /\ n >= 19 => regs["eflags"] = buf[18]

\* The buffer is that of the last checkpoint.
Kept ==
  /\ buf = kept
  /\ \A r \in Live : buf[Slot[r]] = ckpt[r]
  /\ buf[19] = 4

ModeInv ==
  \/ mode = "program" /\ code = << >> /\ regs["rsp"] = 4
  \/ mode = "save" /\ \E n \in 0..22 : code = From(SaveCode, n) /\ SaveAt(n)
  \/ mode = "spec" /\ code = << >> /\ Kept /\ regs["rsp"] \in 1..(StackSize - 2)
  \/ mode = "nested" /\ Kept /\ regs["rsp"] \in 1..(StackSize - 3)
       /\ \E n \in 0..1 : code = From(SaveEnd, n)
  \/ mode = "restore" /\ Kept /\ \E n \in 0..20 : code = From(RestoreCode, n) /\ RestoreAt(n)
  \/ mode = "resumed" /\ code = << >> /\ \A r \in Live : regs[r] = ckpt[r]

RegistersInv == Typed /\ ModeInv

-----------------------------------------------------------------------------
(* Single instructions *)

LEMMA SlotIs ==
  /\ Slot["r15"] = 0 /\ Slot["r14"] = 1 /\ Slot["r13"] = 2 /\ Slot["r12"] = 3 /\ Slot["rbp"] = 4
  /\ Slot["rbx"] = 5 /\ Slot["r11"] = 6 /\ Slot["r10"] = 7 /\ Slot["r9"] = 8 /\ Slot["r8"] = 9
  /\ Slot["rax"] = 10 /\ Slot["rcx"] = 11 /\ Slot["rdx"] = 12 /\ Slot["rsi"] = 13 /\ Slot["rdi"] = 14
  /\ Slot["rip"] = 16 /\ Slot["eflags"] = 18 /\ Slot["rsp"] = 19
BY DEF Slot

LEMMA SlotType == \A r \in Regs : Slot[r] \in Slots
BY SlotIs DEF Regs, Slots

\* Registers and stack keep their types.
LEMMA Written ==
  ASSUME Typed
  PROVE  /\ \A r \in Regs, v \in Int : [regs EXCEPT ![r] = v] \in [Regs -> Int]
         /\ \A r, q \in Regs, v, u \in Int : [regs EXCEPT ![r] = v, ![q] = u] \in [Regs -> Int]
         /\ \A a \in 0..(StackSize - 1), v \in Int : [stack EXCEPT ![a] = v] \in [0..(StackSize - 1) -> Int]
BY DEF Typed

LEMMA ExecuteSave ==
  ASSUME NEW r \in Regs, NEW d \in Regs, Typed, Execute(SaveAs(r, d))
  PROVE  buf' = [buf EXCEPT ![Slot[d]] = regs[r]] /\ regs' = regs /\ stack' = stack /\ Typed'
<1>1. buf' = [buf EXCEPT ![Slot[d]] = regs[r]] /\ regs' = regs /\ stack' = stack
  BY DEF Execute, SaveAs
<1>2. regs[r] \in Int
  BY DEF Typed
<1> QED  BY <1>1, <1>2 DEF Typed

LEMMA ExecuteLoad ==
  ASSUME NEW r \in Regs, NEW d \in Regs, Typed, Execute(Load(r, d))
  PROVE  regs' = [regs EXCEPT ![d] = buf[Slot[r]]] /\ buf' = buf /\ stack' = stack /\ Typed'
<1>1. regs' = [regs EXCEPT ![d] = buf[Slot[r]]] /\ buf' = buf /\ stack' = stack
  BY DEF Execute, Load, Set
<1>2. buf[Slot[r]] \in Int
  BY SlotType DEF Typed
<1> QED  BY <1>1, <1>2 DEF Typed

LEMMA ExecuteMove ==
  ASSUME NEW r \in Regs, NEW d \in Regs, Typed, Execute(Move(r, d))
  PROVE  regs' = [regs EXCEPT ![d] = regs[r]] /\ buf' = buf /\ stack' = stack /\ Typed'
<1>1. regs' = [regs EXCEPT ![d] = regs[r]] /\ buf' = buf /\ stack' = stack
  BY DEF Execute, Move, Set
<1>2. regs[r] \in Int
  BY DEF Typed
<1> QED  BY <1>1, <1>2 DEF Typed

LEMMA ExecuteZero ==
  ASSUME Typed, Execute(Other("zero"))
  PROVE  regs' = [regs EXCEPT !["rax"] = 0] /\ buf' = buf /\ stack' = stack /\ Typed'
<1>1. regs' = [regs EXCEPT !["rax"] = 0] /\ buf' = buf /\ stack' = stack
  BY DEF Execute, Other, Set
<1> QED  BY <1>1, Names DEF Typed

\* Instructions that use the stack, with the stack pointer inside.
LEMMA ExecuteStack ==
  ASSUME Typed, NEW top \in 1..(StackSize - 2), regs["rsp"] = top
  PROVE  /\ Execute(Other("lea8rsp")) =>
              regs' = [regs EXCEPT !["rdx"] = top + 1] /\ buf' = buf /\ stack' = stack /\ Typed'
         /\ Execute(Other("readtop")) =>
              regs' = [regs EXCEPT !["rax"] = stack[top]] /\ buf' = buf /\ stack' = stack /\ Typed'
         /\ Execute(Other("push")) =>
              /\ regs' = [regs EXCEPT !["rsp"] = top - 1] /\ buf' = buf /\ Typed'
              /\ stack' = [stack EXCEPT ![top - 1] = regs["rax"]]
         /\ Execute(Other("pushf")) =>
              /\ regs' = [regs EXCEPT !["rsp"] = top - 1] /\ buf' = buf /\ Typed'
              /\ stack' = [stack EXCEPT ![top - 1] = regs["eflags"]]
         /\ Execute(Other("pop")) =>
              /\ regs' = [regs EXCEPT !["rax"] = stack[top], !["rsp"] = top + 1]
              /\ buf' = buf /\ stack' = stack /\ Typed'
         /\ Execute(Other("popf")) =>
              /\ regs' = [regs EXCEPT !["eflags"] = stack[top], !["rsp"] = top + 1]
              /\ buf' = buf /\ stack' = stack /\ Typed'
         /\ Execute(Other("ret")) =>
              /\ regs' = [regs EXCEPT !["rip"] = stack[top], !["rsp"] = top + 1]
              /\ buf' = buf /\ stack' = stack /\ Typed'
<1>0. top \in 0..(StackSize - 1) /\ top - 1 \in 0..(StackSize - 1) /\ top \in Int /\ top - 1 \in Int /\ top + 1 \in Int
  BY StackAssumption
<1>1. stack[top] \in Int /\ regs["rax"] \in Int /\ regs["eflags"] \in Int
  BY <1>0, Names DEF Typed
<1>2. ASSUME Execute(Other("lea8rsp"))
      PROVE  regs' = [regs EXCEPT !["rdx"] = top + 1] /\ buf' = buf /\ stack' = stack /\ Typed'
  <2>1. regs' = [regs EXCEPT !["rdx"] = top + 1] /\ buf' = buf /\ stack' = stack
    BY <1>2 DEF Execute, Other, Set
  <2>2. regs' \in [Regs -> Int] /\ stack' \in [0..(StackSize - 1) -> Int]
    BY <1>0, <2>1, Names, Written DEF Typed
  <2> QED  BY <2>1, <2>2 DEF Typed
<1>3. ASSUME Execute(Other("readtop"))
      PROVE  regs' = [regs EXCEPT !["rax"] = stack[top]] /\ buf' = buf /\ stack' = stack /\ Typed'
  <2>1. regs' = [regs EXCEPT !["rax"] = stack[top]] /\ buf' = buf /\ stack' = stack
    BY <1>3 DEF Execute, Other, Set
  <2> QED  BY <1>1, <2>1 DEF Typed
<1>4. ASSUME Execute(Other("push"))
      PROVE  /\ regs' = [regs EXCEPT !["rsp"] = top - 1] /\ buf' = buf /\ Typed'
             /\ stack' = [stack EXCEPT ![top - 1] = regs["rax"]]
  <2>1. /\ regs' = [regs EXCEPT !["rsp"] = top - 1] /\ buf' = buf
        /\ stack' = [stack EXCEPT ![top - 1] = regs["rax"]]
    BY <1>4 DEF Execute, Other, Set
  <2>2. regs' \in [Regs -> Int] /\ stack' \in [0..(StackSize - 1) -> Int]
    BY <1>0, <1>1, <2>1, Names, Written DEF Typed
  <2> QED  BY <2>1, <2>2 DEF Typed
<1>5. ASSUME Execute(Other("pushf"))
      PROVE  /\ regs' = [regs EXCEPT !["rsp"] = top - 1] /\ buf' = buf /\ Typed'
             /\ stack' = [stack EXCEPT ![top - 1] = regs["eflags"]]
  <2>1. /\ regs' = [regs EXCEPT !["rsp"] = top - 1] /\ buf' = buf
        /\ stack' = [stack EXCEPT ![top - 1] = regs["eflags"]]
    BY <1>5 DEF Execute, Other, Set
  <2>2. regs' \in [Regs -> Int] /\ stack' \in [0..(StackSize - 1) -> Int]
    BY <1>0, <1>1, <2>1, Names, Written DEF Typed
  <2> QED  BY <2>1, <2>2 DEF Typed
<1>6. ASSUME Execute(Other("pop"))
      PROVE  /\ regs' = [regs EXCEPT !["rax"] = stack[top], !["rsp"] = top + 1]
             /\ buf' = buf /\ stack' = stack /\ Typed'
  <2>1. /\ regs' = [regs EXCEPT !["rax"] = stack[top], !["rsp"] = top + 1]
        /\ buf' = buf /\ stack' = stack
    BY <1>6 DEF Execute, Other, Set
  <2>2. regs' \in [Regs -> Int] /\ stack' \in [0..(StackSize - 1) -> Int]
    BY <1>0, <1>1, <2>1, Names, Written DEF Typed
  <2> QED  BY <2>1, <2>2 DEF Typed
<1>7. ASSUME Execute(Other("popf"))
      PROVE  /\ regs' = [regs EXCEPT !["eflags"] = stack[top], !["rsp"] = top + 1]
             /\ buf' = buf /\ stack' = stack /\ Typed'
  <2>1. /\ regs' = [regs EXCEPT !["eflags"] = stack[top], !["rsp"] = top + 1]
        /\ buf' = buf /\ stack' = stack
    BY <1>7 DEF Execute, Other, Set
  <2>2. regs' \in [Regs -> Int] /\ stack' \in [0..(StackSize - 1) -> Int]
    BY <1>0, <1>1, <2>1, Names, Written DEF Typed
  <2> QED  BY <2>1, <2>2 DEF Typed
<1>8. ASSUME Execute(Other("ret"))
      PROVE  /\ regs' = [regs EXCEPT !["rip"] = stack[top], !["rsp"] = top + 1]
             /\ buf' = buf /\ stack' = stack /\ Typed'
  <2>1. /\ regs' = [regs EXCEPT !["rip"] = stack[top], !["rsp"] = top + 1]
        /\ buf' = buf /\ stack' = stack
    BY <1>8 DEF Execute, Other, Set
  <2>2. regs' \in [Regs -> Int] /\ stack' \in [0..(StackSize - 1) -> Int]
    BY <1>0, <1>1, <2>1, Names, Written DEF Typed
  <2> QED  BY <2>1, <2>2 DEF Typed
<1> QED  BY <1>2, <1>3, <1>4, <1>5, <1>6, <1>7, <1>8

LEMMA ExecuteJmp ==
  ASSUME Typed, Execute(Other("jmp"))
  PROVE  regs' = [regs EXCEPT !["rip"] = regs["rdx"]] /\ buf' = buf /\ stack' = stack /\ Typed'
<1>1. regs' = [regs EXCEPT !["rip"] = regs["rdx"]] /\ buf' = buf /\ stack' = stack
  BY DEF Execute, Other, Set
<1> QED  BY <1>1, Names DEF Typed

-----------------------------------------------------------------------------
(* The effect of an instruction, register by register *)

LEMMA SaveEffect ==
  ASSUME Typed, NEW r \in Regs, NEW d \in Regs, Execute(SaveAs(r, d))
  PROVE  /\ Typed' /\ regs' = regs /\ stack' = stack /\ buf'[Slot[d]] = regs[r]
         /\ \A c \in Slots : c # Slot[d] => buf'[c] = buf[c]
<1>1. buf' = [buf EXCEPT ![Slot[d]] = regs[r]] /\ regs' = regs /\ stack' = stack /\ Typed'
  BY ExecuteSave
<1> QED  BY <1>1, SlotType DEF Typed

LEMMA LoadEffect ==
  ASSUME Typed, NEW r \in Regs, NEW d \in Regs, Execute(Load(r, d))
  PROVE  /\ Typed' /\ buf' = buf /\ stack' = stack /\ regs'[d] = buf[Slot[r]]
         /\ \A q \in Regs : q # d => regs'[q] = regs[q]
<1>1. regs' = [regs EXCEPT ![d] = buf[Slot[r]]] /\ buf' = buf /\ stack' = stack /\ Typed'
  BY ExecuteLoad
<1> QED  BY <1>1 DEF Typed

LEMMA MoveEffect ==
  ASSUME Typed, NEW r \in Regs, NEW d \in Regs, Execute(Move(r, d))
  PROVE  /\ Typed' /\ buf' = buf /\ stack' = stack /\ regs'[d] = regs[r]
         /\ \A q \in Regs : q # d => regs'[q] = regs[q]
<1>1. regs' = [regs EXCEPT ![d] = regs[r]] /\ buf' = buf /\ stack' = stack /\ Typed'
  BY ExecuteMove
<1> QED  BY <1>1 DEF Typed

LEMMA ZeroEffect ==
  ASSUME Typed, Execute(Other("zero"))
  PROVE  /\ Typed' /\ buf' = buf /\ stack' = stack
         /\ \A q \in Regs : q # "rax" => regs'[q] = regs[q]
<1>1. regs' = [regs EXCEPT !["rax"] = 0] /\ buf' = buf /\ stack' = stack /\ Typed'
  BY ExecuteZero
<1> QED  BY <1>1 DEF Typed

\* The instructions that use the stack where the routines do.
LEMMA StackEffect ==
  ASSUME Typed, NEW top \in 2..4, regs["rsp"] = top
  PROVE  /\ Execute(Other("lea8rsp")) =>
              /\ Typed' /\ buf' = buf /\ stack' = stack /\ regs'["rdx"] = top + 1
              /\ \A q \in Regs : q # "rdx" => regs'[q] = regs[q]
         /\ Execute(Other("readtop")) =>
              /\ Typed' /\ buf' = buf /\ stack' = stack /\ regs'["rax"] = stack[top]
              /\ \A q \in Regs : q # "rax" => regs'[q] = regs[q]
         /\ Execute(Other("push")) =>
              /\ Typed' /\ buf' = buf /\ regs'["rsp"] = top - 1 /\ stack'[top - 1] = regs["rax"]
              /\ stack'[top] = stack[top] /\ \A q \in Regs : q # "rsp" => regs'[q] = regs[q]
         /\ Execute(Other("pushf")) =>
              /\ Typed' /\ buf' = buf /\ regs'["rsp"] = top - 1 /\ stack'[top - 1] = regs["eflags"]
              /\ stack'[top] = stack[top] /\ \A q \in Regs : q # "rsp" => regs'[q] = regs[q]
         /\ Execute(Other("pop")) =>
              /\ Typed' /\ buf' = buf /\ stack' = stack /\ regs'["rax"] = stack[top]
              /\ regs'["rsp"] = top + 1
              /\ \A q \in Regs : q # "rax" /\ q # "rsp" => regs'[q] = regs[q]
         /\ Execute(Other("popf")) =>
              /\ Typed' /\ buf' = buf /\ stack' = stack /\ regs'["eflags"] = stack[top]
              /\ regs'["rsp"] = top + 1
              /\ \A q \in Regs : q # "eflags" /\ q # "rsp" => regs'[q] = regs[q]
         /\ Execute(Other("ret")) =>
              /\ Typed' /\ buf' = buf /\ stack' = stack /\ regs'["rip"] = stack[top]
              /\ regs'["rsp"] = top + 1
              /\ \A q \in Regs : q # "rip" /\ q # "rsp" => regs'[q] = regs[q]
<1>1. /\ top \in 1..(StackSize - 2) /\ top \in 0..(StackSize - 1) /\ top - 1 \in 0..(StackSize - 1)
      /\ top - 1 # top
  BY StackAssumption
<1>2. "rax" \in Regs /\ "rdx" \in Regs /\ "rsp" \in Regs /\ "eflags" \in Regs /\ "rip" \in Regs
  BY Names
<1>3. ASSUME Execute(Other("lea8rsp"))
      PROVE  /\ Typed' /\ buf' = buf /\ stack' = stack /\ regs'["rdx"] = top + 1
             /\ \A q \in Regs : q # "rdx" => regs'[q] = regs[q]
  <2>1. regs' = [regs EXCEPT !["rdx"] = top + 1] /\ buf' = buf /\ stack' = stack /\ Typed'
    BY <1>1, <1>3, ExecuteStack
  <2> QED  BY <1>1, <1>2, <2>1 DEF Typed
<1>4. ASSUME Execute(Other("readtop"))
      PROVE  /\ Typed' /\ buf' = buf /\ stack' = stack /\ regs'["rax"] = stack[top]
             /\ \A q \in Regs : q # "rax" => regs'[q] = regs[q]
  <2>1. regs' = [regs EXCEPT !["rax"] = stack[top]] /\ buf' = buf /\ stack' = stack /\ Typed'
    BY <1>1, <1>4, ExecuteStack
  <2> QED  BY <1>1, <1>2, <2>1 DEF Typed
<1>5. ASSUME Execute(Other("push"))
      PROVE  /\ Typed' /\ buf' = buf /\ regs'["rsp"] = top - 1 /\ stack'[top - 1] = regs["rax"]
             /\ stack'[top] = stack[top] /\ \A q \in Regs : q # "rsp" => regs'[q] = regs[q]
  <2>1. /\ regs' = [regs EXCEPT !["rsp"] = top - 1] /\ buf' = buf /\ Typed'
        /\ stack' = [stack EXCEPT ![top - 1] = regs["rax"]]
    BY <1>1, <1>5, ExecuteStack
  <2> QED  BY <1>1, <1>2, <2>1 DEF Typed
<1>6. ASSUME Execute(Other("pushf"))
      PROVE  /\ Typed' /\ buf' = buf /\ regs'["rsp"] = top - 1 /\ stack'[top - 1] = regs["eflags"]
             /\ stack'[top] = stack[top] /\ \A q \in Regs : q # "rsp" => regs'[q] = regs[q]
  <2>1. /\ regs' = [regs EXCEPT !["rsp"] = top - 1] /\ buf' = buf /\ Typed'
        /\ stack' = [stack EXCEPT ![top - 1] = regs["eflags"]]
    BY <1>1, <1>6, ExecuteStack
  <2> QED  BY <1>1, <1>2, <2>1 DEF Typed
<1>7. ASSUME Execute(Other("pop"))
      PROVE  /\ Typed' /\ buf' = buf /\ stack' = stack /\ regs'["rax"] = stack[top]
             /\ regs'["rsp"] = top + 1
             /\ \A q \in Regs : q # "rax" /\ q # "rsp" => regs'[q] = regs[q]
  <2>1. /\ regs' = [regs EXCEPT !["rax"] = stack[top], !["rsp"] = top + 1]
        /\ buf' = buf /\ stack' = stack /\ Typed'
    BY <1>1, <1>7, ExecuteStack
  <2> QED  BY <1>1, <1>2, <2>1 DEF Typed
<1>8. ASSUME Execute(Other("popf"))
      PROVE  /\ Typed' /\ buf' = buf /\ stack' = stack /\ regs'["eflags"] = stack[top]
             /\ regs'["rsp"] = top + 1
             /\ \A q \in Regs : q # "eflags" /\ q # "rsp" => regs'[q] = regs[q]
  <2>1. /\ regs' = [regs EXCEPT !["eflags"] = stack[top], !["rsp"] = top + 1]
        /\ buf' = buf /\ stack' = stack /\ Typed'
    BY <1>1, <1>8, ExecuteStack
  <2> QED  BY <1>1, <1>2, <2>1 DEF Typed
<1>9. ASSUME Execute(Other("ret"))
      PROVE  /\ Typed' /\ buf' = buf /\ stack' = stack /\ regs'["rip"] = stack[top]
             /\ regs'["rsp"] = top + 1
             /\ \A q \in Regs : q # "rip" /\ q # "rsp" => regs'[q] = regs[q]
  <2>1. /\ regs' = [regs EXCEPT !["rip"] = stack[top], !["rsp"] = top + 1]
        /\ buf' = buf /\ stack' = stack /\ Typed'
    BY <1>1, <1>9, ExecuteStack
  <2> QED  BY <1>1, <1>2, <2>1 DEF Typed
<1> QED  BY <1>3, <1>4, <1>5, <1>6, <1>7, <1>8, <1>9

-----------------------------------------------------------------------------
(* The routines, instruction by instruction *)

\* kspecem_asm_save_registers up to its return.
LEMMA SaveStep ==
  ASSUME NEW n \in 0..21, Typed, SaveAt(n), Execute(SaveCode[n + 1])
  PROVE  Typed' /\ SaveAt(n + 1)'
<1>1. CASE n = 0
  <2>1. SaveCode[n + 1] = Save("rax")
    BY <1>1, SaveText
  <2>2. /\ Typed' /\ regs' = regs /\ stack' = stack /\ buf'[10] = regs["rax"]
        /\ \A c \in Slots : c # 10 => buf'[c] = buf[c]
    BY <2>1, SaveEffect, Names, SlotIs DEF Save, SaveAs
  <2>3. SaveAt(1)'
    BY <1>1, <2>2 DEF SaveAt, Slots
  <2> QED  BY <1>1, <2>2, <2>3
<1>2. CASE n = 1
  <2>1. SaveCode[n + 1] = Save("rbx")
    BY <1>2, SaveText
  <2>2. /\ Typed' /\ regs' = regs /\ stack' = stack /\ buf'[5] = regs["rbx"]
        /\ \A c \in Slots : c # 5 => buf'[c] = buf[c]
    BY <2>1, SaveEffect, Names, SlotIs DEF Save, SaveAs
  <2>3. SaveAt(2)'
    BY <1>2, <2>2 DEF SaveAt, Slots
  <2> QED  BY <1>2, <2>2, <2>3
<1>3. CASE n = 2
  <2>1. SaveCode[n + 1] = Save("rcx")
    BY <1>3, SaveText
  <2>2. /\ Typed' /\ regs' = regs /\ stack' = stack /\ buf'[11] = regs["rcx"]
        /\ \A c \in Slots : c # 11 => buf'[c] = buf[c]
    BY <2>1, SaveEffect, Names, SlotIs DEF Save, SaveAs
  <2>3. SaveAt(3)'
    BY <1>3, <2>2 DEF SaveAt, Slots
  <2> QED  BY <1>3, <2>2, <2>3
<1>4. CASE n = 3
  <2>1. SaveCode[n + 1] = Save("rdx")
    BY <1>4, SaveText
  <2>2. /\ Typed' /\ regs' = regs /\ stack' = stack /\ buf'[12] = regs["rdx"]
        /\ \A c \in Slots : c # 12 => buf'[c] = buf[c]
    BY <2>1, SaveEffect, Names, SlotIs DEF Save, SaveAs
  <2>3. SaveAt(4)'
    BY <1>4, <2>2 DEF SaveAt, Slots
  <2> QED  BY <1>4, <2>2, <2>3
<1>5. CASE n = 4
  <2>1. SaveCode[n + 1] = Save("rbp")
    BY <1>5, SaveText
  <2>2. /\ Typed' /\ regs' = regs /\ stack' = stack /\ buf'[4] = regs["rbp"]
        /\ \A c \in Slots : c # 4 => buf'[c] = buf[c]
    BY <2>1, SaveEffect, Names, SlotIs DEF Save, SaveAs
  <2>3. SaveAt(5)'
    BY <1>5, <2>2 DEF SaveAt, Slots
  <2> QED  BY <1>5, <2>2, <2>3
<1>6. CASE n = 5
  <2>1. SaveCode[n + 1] = Save("r8")
    BY <1>6, SaveText
  <2>2. /\ Typed' /\ regs' = regs /\ stack' = stack /\ buf'[9] = regs["r8"]
        /\ \A c \in Slots : c # 9 => buf'[c] = buf[c]
    BY <2>1, SaveEffect, Names, SlotIs DEF Save, SaveAs
  <2>3. SaveAt(6)'
    BY <1>6, <2>2 DEF SaveAt, Slots
  <2> QED  BY <1>6, <2>2, <2>3
<1>7. CASE n = 6
  <2>1. SaveCode[n + 1] = Save("r9")
    BY <1>7, SaveText
  <2>2. /\ Typed' /\ regs' = regs /\ stack' = stack /\ buf'[8] = regs["r9"]
        /\ \A c \in Slots : c # 8 => buf'[c] = buf[c]
    BY <2>1, SaveEffect, Names, SlotIs DEF Save, SaveAs
  <2>3. SaveAt(7)'
    BY <1>7, <2>2 DEF SaveAt, Slots
  <2> QED  BY <1>7, <2>2, <2>3
<1>8. CASE n = 7
  <2>1. SaveCode[n + 1] = Save("r10")
    BY <1>8, SaveText
  <2>2. /\ Typed' /\ regs' = regs /\ stack' = stack /\ buf'[7] = regs["r10"]
        /\ \A c \in Slots : c # 7 => buf'[c] = buf[c]
    BY <2>1, SaveEffect, Names, SlotIs DEF Save, SaveAs
  <2>3. SaveAt(8)'
    BY <1>8, <2>2 DEF SaveAt, Slots
  <2> QED  BY <1>8, <2>2, <2>3
<1>9. CASE n = 8
  <2>1. SaveCode[n + 1] = Save("r11")
    BY <1>9, SaveText
  <2>2. /\ Typed' /\ regs' = regs /\ stack' = stack /\ buf'[6] = regs["r11"]
        /\ \A c \in Slots : c # 6 => buf'[c] = buf[c]
    BY <2>1, SaveEffect, Names, SlotIs DEF Save, SaveAs
  <2>3. SaveAt(9)'
    BY <1>9, <2>2 DEF SaveAt, Slots
  <2> QED  BY <1>9, <2>2, <2>3
<1>10. CASE n = 9
  <2>1. SaveCode[n + 1] = Save("r12")
    BY <1>10, SaveText
  <2>2. /\ Typed' /\ regs' = regs /\ stack' = stack /\ buf'[3] = regs["r12"]
        /\ \A c \in Slots : c # 3 => buf'[c] = buf[c]
    BY <2>1, SaveEffect, Names, SlotIs DEF Save, SaveAs
  <2>3. SaveAt(10)'
    BY <1>10, <2>2 DEF SaveAt, Slots
  <2> QED  BY <1>10, <2>2, <2>3
<1>11. CASE n = 10
  <2>1. SaveCode[n + 1] = Save("r13")
    BY <1>11, SaveText
  <2>2. /\ Typed' /\ regs' = regs /\ stack' = stack /\ buf'[2] = regs["r13"]
        /\ \A c \in Slots : c # 2 => buf'[c] = buf[c]
    BY <2>1, SaveEffect, Names, SlotIs DEF Save, SaveAs
  <2>3. SaveAt(11)'
    BY <1>11, <2>2 DEF SaveAt, Slots
  <2> QED  BY <1>11, <2>2, <2>3
<1>12. CASE n = 11
  <2>1. SaveCode[n + 1] = Save("r14")
    BY <1>12, SaveText
  <2>2. /\ Typed' /\ regs' = regs /\ stack' = stack /\ buf'[1] = regs["r14"]
        /\ \A c \in Slots : c # 1 => buf'[c] = buf[c]
    BY <2>1, SaveEffect, Names, SlotIs DEF Save, SaveAs
  <2>3. SaveAt(12)'
    BY <1>12, <2>2 DEF SaveAt, Slots
  <2> QED  BY <1>12, <2>2, <2>3
<1>13. CASE n = 12
  <2>1. SaveCode[n + 1] = Save("r15")
    BY <1>13, SaveText
  <2>2. /\ Typed' /\ regs' = regs /\ stack' = stack /\ buf'[0] = regs["r15"]
        /\ \A c \in Slots : c # 0 => buf'[c] = buf[c]
    BY <2>1, SaveEffect, Names, SlotIs DEF Save, SaveAs
  <2>3. SaveAt(13)'
    BY <1>13, <2>2 DEF SaveAt, Slots
  <2> QED  BY <1>13, <2>2, <2>3
<1>14. CASE n = 13
  <2>1. Execute(Other("lea8rsp")) /\ regs["rsp"] = 3
    BY <1>14, SaveText DEF SaveAt
  <2>2. /\ Typed' /\ buf' = buf /\ stack' = stack /\ regs'["rdx"] = 4
        /\ \A q \in Regs : q # "rdx" => regs'[q] = regs[q]
    BY <2>1, StackEffect
  <2>3. SaveAt(14)'
    BY <1>14, <2>2, Names DEF SaveAt
  <2> QED  BY <1>14, <2>2, <2>3
<1>15. CASE n = 14
  <2>1. SaveCode[n + 1] = SaveAs("rdx", "rsp")
    BY <1>15, SaveText
  <2>2. /\ Typed' /\ regs' = regs /\ stack' = stack /\ buf'[19] = regs["rdx"]
        /\ \A c \in Slots : c # 19 => buf'[c] = buf[c]
    BY <2>1, SaveEffect, Names, SlotIs
  <2>3. SaveAt(15)'
    BY <1>15, <2>2 DEF SaveAt, Slots
  <2> QED  BY <1>15, <2>2, <2>3
<1>16. CASE n = 15
  <2>1. Execute(Other("readtop")) /\ regs["rsp"] = 3
    BY <1>16, SaveText DEF SaveAt
  <2>2. /\ Typed' /\ buf' = buf /\ stack' = stack /\ regs'["rax"] = stack[3]
        /\ \A q \in Regs : q # "rax" => regs'[q] = regs[q]
    BY <2>1, StackEffect
  <2>3. SaveAt(16)'
    BY <1>16, <2>2, Names DEF SaveAt
  <2> QED  BY <1>16, <2>2, <2>3
<1>17. CASE n = 16
  <2>1. SaveCode[n + 1] = SaveAs("rax", "rip")
    BY <1>17, SaveText
  <2>2. /\ Typed' /\ regs' = regs /\ stack' = stack /\ buf'[16] = regs["rax"]
        /\ \A c \in Slots : c # 16 => buf'[c] = buf[c]
    BY <2>1, SaveEffect, Names, SlotIs
  <2>3. SaveAt(17)'
    BY <1>17, <2>2 DEF SaveAt, Slots
  <2> QED  BY <1>17, <2>2, <2>3
<1>18. CASE n = 17
  <2>1. SaveCode[n + 1] = Other("zero")
    BY <1>18, SaveText
  <2>2. /\ Typed' /\ buf' = buf /\ stack' = stack
        /\ \A q \in Regs : q # "rax" => regs'[q] = regs[q]
    BY <2>1, ZeroEffect
  <2>3. SaveAt(18)'
    BY <1>18, <2>2, Names DEF SaveAt
  <2> QED  BY <1>18, <2>2, <2>3
<1>19. CASE n = 18
  <2>1. Execute(Other("pushf")) /\ regs["rsp"] = 3
    BY <1>19, SaveText DEF SaveAt
  <2>2. /\ Typed' /\ buf' = buf /\ regs'["rsp"] = 2 /\ stack'[2] = regs["eflags"]
        /\ stack'[3] = stack[3] /\ \A q \in Regs : q # "rsp" => regs'[q] = regs[q]
    BY <2>1, StackEffect
  <2>3. SaveAt(19)'
    BY <1>19, <2>2, Names DEF SaveAt
  <2> QED  BY <1>19, <2>2, <2>3
<1>20. CASE n = 19
  <2>1. Execute(Other("pop")) /\ regs["rsp"] = 2
    BY <1>20, SaveText DEF SaveAt
  <2>2. /\ Typed' /\ buf' = buf /\ stack' = stack /\ regs'["rax"] = stack[2] /\ regs'["rsp"] = 3
        /\ \A q \in Regs : q # "rax" /\ q # "rsp" => regs'[q] = regs[q]
    BY <2>1, StackEffect
  <2>3. SaveAt(20)'
    BY <1>20, <2>2, Names DEF SaveAt
  <2> QED  BY <1>20, <2>2, <2>3
<1>21. CASE n = 20
  <2>1. SaveCode[n + 1] = SaveAs("rax", "eflags")
    BY <1>21, SaveText
  <2>2. /\ Typed' /\ regs' = regs /\ stack' = stack /\ buf'[18] = regs["rax"]
        /\ \A c \in Slots : c # 18 => buf'[c] = buf[c]
    BY <2>1, SaveEffect, Names, SlotIs
  <2>3. SaveAt(21)'
    BY <1>21, <2>2 DEF SaveAt, Slots
  <2> QED  BY <1>21, <2>2, <2>3
<1>22. CASE n = 21
  <2>1. SaveCode[n + 1] = Other("zero")
    BY <1>22, SaveText
  <2>2. /\ Typed' /\ buf' = buf /\ stack' = stack
        /\ \A q \in Regs : q # "rax" => regs'[q] = regs[q]
    BY <2>1, ZeroEffect
  <2>3. SaveAt(22)'
    BY <1>22, <2>2, Names DEF SaveAt
  <2> QED  BY <1>22, <2>2, <2>3
<1> QED  BY <1>1, <1>2, <1>3, <1>4, <1>5, <1>6, <1>7, <1>8, <1>9, <1>10, <1>11, <1>12, <1>13, <1>14, <1>15, <1>16, <1>17, <1>18, <1>19, <1>20, <1>21, <1>22

\* kspecem_asm_restore_registers up to its jump; it needs the saved stack pointer.
LEMMA RestoreStep ==
  ASSUME NEW n \in 0..19, Typed, buf[19] = 4, RestoreAt(n), Execute(RestoreCode[n + 1])
  PROVE  Typed' /\ buf' = buf /\ RestoreAt(n + 1)'
<1>1. CASE n = 0
  <2>1. RestoreCode[n + 1] = Load("rsp", "r8")
    BY <1>1, RestoreText
  <2>2. /\ Typed' /\ buf' = buf /\ stack' = stack /\ regs'["r8"] = buf[19]
        /\ \A q \in Regs : q # "r8" => regs'[q] = regs[q]
    BY <2>1, LoadEffect, Names, SlotIs
  <2>3. RestoreAt(1)'
    BY <1>1, <2>2, Names DEF RestoreAt
  <2> QED  BY <1>1, <2>2, <2>3
<1>2. CASE n = 1
  <2>1. RestoreCode[n + 1] = Load("rbp", "r9")
    BY <1>2, RestoreText
  <2>2. /\ Typed' /\ buf' = buf /\ stack' = stack /\ regs'["r9"] = buf[4]
        /\ \A q \in Regs : q # "r9" => regs'[q] = regs[q]
    BY <2>1, LoadEffect, Names, SlotIs
  <2>3. RestoreAt(2)'
    BY <1>2, <2>2, Names DEF RestoreAt
  <2> QED  BY <1>2, <2>2, <2>3
<1>3. CASE n = 2
  <2>1. RestoreCode[n + 1] = Load("rip", "rdx")
    BY <1>3, RestoreText
  <2>2. /\ Typed' /\ buf' = buf /\ stack' = stack /\ regs'["rdx"] = buf[16]
        /\ \A q \in Regs : q # "rdx" => regs'[q] = regs[q]
    BY <2>1, LoadEffect, Names, SlotIs
  <2>3. RestoreAt(3)'
    BY <1>3, <2>2, Names DEF RestoreAt
  <2> QED  BY <1>3, <2>2, <2>3
<1>4. CASE n = 3
  <2>1. RestoreCode[n + 1] = Load("rbx", "rbx")
    BY <1>4, RestoreText
  <2>2. /\ Typed' /\ buf' = buf /\ stack' = stack /\ regs'["rbx"] = buf[5]
        /\ \A q \in Regs : q # "rbx" => regs'[q] = regs[q]
    BY <2>1, LoadEffect, Names, SlotIs
  <2>3. RestoreAt(4)'
    BY <1>4, <2>2, Names DEF RestoreAt
  <2> QED  BY <1>4, <2>2, <2>3
<1>5. CASE n = 4
  <2>1. RestoreCode[n + 1] = Load("r10", "r10")
    BY <1>5, RestoreText
  <2>2. /\ Typed' /\ buf' = buf /\ stack' = stack /\ regs'["r10"] = buf[7]
        /\ \A q \in Regs : q # "r10" => regs'[q] = regs[q]
    BY <2>1, LoadEffect, Names, SlotIs
  <2>3. RestoreAt(5)'
    BY <1>5, <2>2, Names DEF RestoreAt
  <2> QED  BY <1>5, <2>2, <2>3
<1>6. CASE n = 5
  <2>1. RestoreCode[n + 1] = Load("r11", "r11")
    BY <1>6, RestoreText
  <2>2. /\ Typed' /\ buf' = buf /\ stack' = stack /\ regs'["r11"] = buf[6]
        /\ \A q \in Regs : q # "r11" => regs'[q] = regs[q]
    BY <2>1, LoadEffect, Names, SlotIs
  <2>3. RestoreAt(6)'
    BY <1>6, <2>2, Names DEF RestoreAt
  <2> QED  BY <1>6, <2>2, <2>3
<1>7. CASE n = 6
  <2>1. RestoreCode[n + 1] = Load("r12", "r12")
    BY <1>7, RestoreText
  <2>2. /\ Typed' /\ buf' = buf /\ stack' = stack /\ regs'["r12"] = buf[3]
        /\ \A q \in Regs : q # "r12" => regs'[q] = regs[q]
    BY <2>1, LoadEffect, Names, SlotIs
  <2>3. RestoreAt(7)'
    BY <1>7, <2>2, Names DEF RestoreAt
  <2> QED  BY <1>7, <2>2, <2>3
<1>8. CASE n = 7
  <2>1. RestoreCode[n + 1] = Load("r13", "r13")
    BY <1>8, RestoreText
  <2>2. /\ Typed' /\ buf' = buf /\ stack' = stack /\ regs'["r13"] = buf[2]
        /\ \A q \in Regs : q # "r13" => regs'[q] = regs[q]
    BY <2>1, LoadEffect, Names, SlotIs
  <2>3. RestoreAt(8)'
    BY <1>8, <2>2, Names DEF RestoreAt
  <2> QED  BY <1>8, <2>2, <2>3
<1>9. CASE n = 8
  <2>1. RestoreCode[n + 1] = Load("r14", "r14")
    BY <1>9, RestoreText
  <2>2. /\ Typed' /\ buf' = buf /\ stack' = stack /\ regs'["r14"] = buf[1]
        /\ \A q \in Regs : q # "r14" => regs'[q] = regs[q]
    BY <2>1, LoadEffect, Names, SlotIs
  <2>3. RestoreAt(9)'
    BY <1>9, <2>2, Names DEF RestoreAt
  <2> QED  BY <1>9, <2>2, <2>3
<1>10. CASE n = 9
  <2>1. RestoreCode[n + 1] = Load("r15", "r15")
    BY <1>10, RestoreText
  <2>2. /\ Typed' /\ buf' = buf /\ stack' = stack /\ regs'["r15"] = buf[0]
        /\ \A q \in Regs : q # "r15" => regs'[q] = regs[q]
    BY <2>1, LoadEffect, Names, SlotIs
  <2>3. RestoreAt(10)'
    BY <1>10, <2>2, Names DEF RestoreAt
  <2> QED  BY <1>10, <2>2, <2>3
<1>11. CASE n = 10
  <2>1. RestoreCode[n + 1] = Load("rcx", "rcx")
    BY <1>11, RestoreText
  <2>2. /\ Typed' /\ buf' = buf /\ stack' = stack /\ regs'["rcx"] = buf[11]
        /\ \A q \in Regs : q # "rcx" => regs'[q] = regs[q]
    BY <2>1, LoadEffect, Names, SlotIs
  <2>3. RestoreAt(11)'
    BY <1>11, <2>2, Names DEF RestoreAt
  <2> QED  BY <1>11, <2>2, <2>3
<1>12. CASE n = 11
  <2>1. RestoreCode[n + 1] = Move("rsi", "rax")
    BY <1>12, RestoreText
  <2>2. /\ Typed' /\ buf' = buf /\ stack' = stack /\ regs'["rax"] = regs["rsi"]
        /\ \A q \in Regs : q # "rax" => regs'[q] = regs[q]
    BY <2>1, MoveEffect, Names
  <2>3. RestoreAt(12)'
    BY <1>12, <2>2, Names DEF RestoreAt
  <2> QED  BY <1>12, <2>2, <2>3
<1>13. CASE n = 12
  <2>1. RestoreCode[n + 1] = Move("r8", "rsp")
    BY <1>13, RestoreText
  <2>2. /\ Typed' /\ buf' = buf /\ stack' = stack /\ regs'["rsp"] = regs["r8"]
        /\ \A q \in Regs : q # "rsp" => regs'[q] = regs[q]
    BY <2>1, MoveEffect, Names
  <2>3. RestoreAt(13)'
    BY <1>13, <2>2, Names DEF RestoreAt
  <2> QED  BY <1>13, <2>2, <2>3
<1>14. CASE n = 13
  <2>1. RestoreCode[n + 1] = Move("r9", "rbp")
    BY <1>14, RestoreText
  <2>2. /\ Typed' /\ buf' = buf /\ stack' = stack /\ regs'["rbp"] = regs["r9"]
        /\ \A q \in Regs : q # "rbp" => regs'[q] = regs[q]
    BY <2>1, MoveEffect, Names
  <2>3. RestoreAt(14)'
    BY <1>14, <2>2, Names DEF RestoreAt
  <2> QED  BY <1>14, <2>2, <2>3
<1>15. CASE n = 14
  <2>1. RestoreCode[n + 1] = Load("r8", "r8")
    BY <1>15, RestoreText
  <2>2. /\ Typed' /\ buf' = buf /\ stack' = stack /\ regs'["r8"] = buf[9]
        /\ \A q \in Regs : q # "r8" => regs'[q] = regs[q]
    BY <2>1, LoadEffect, Names, SlotIs
  <2>3. RestoreAt(15)'
    BY <1>15, <2>2, Names DEF RestoreAt
  <2> QED  BY <1>15, <2>2, <2>3
<1>16. CASE n = 15
  <2>1. RestoreCode[n + 1] = Load("r9", "r9")
    BY <1>16, RestoreText
  <2>2. /\ Typed' /\ buf' = buf /\ stack' = stack /\ regs'["r9"] = buf[8]
        /\ \A q \in Regs : q # "r9" => regs'[q] = regs[q]
    BY <2>1, LoadEffect, Names, SlotIs
  <2>3. RestoreAt(16)'
    BY <1>16, <2>2, Names DEF RestoreAt
  <2> QED  BY <1>16, <2>2, <2>3
<1>17. CASE n = 16
  <2>1. RestoreCode[n + 1] = Load("eflags", "rax")
    BY <1>17, RestoreText
  <2>2. /\ Typed' /\ buf' = buf /\ stack' = stack /\ regs'["rax"] = buf[18]
        /\ \A q \in Regs : q # "rax" => regs'[q] = regs[q]
    BY <2>1, LoadEffect, Names, SlotIs
  <2>3. RestoreAt(17)'
    BY <1>17, <2>2, Names DEF RestoreAt
  <2> QED  BY <1>17, <2>2, <2>3
<1>18. CASE n = 17
  <2>1. Execute(Other("push")) /\ regs["rsp"] = 4
    BY <1>18, RestoreText DEF RestoreAt
  <2>2. /\ Typed' /\ buf' = buf /\ regs'["rsp"] = 3 /\ stack'[3] = regs["rax"]
        /\ \A q \in Regs : q # "rsp" => regs'[q] = regs[q]
    BY <2>1, StackEffect
  <2>3. RestoreAt(18)'
    BY <1>18, <2>2, Names DEF RestoreAt
  <2> QED  BY <1>18, <2>2, <2>3
<1>19. CASE n = 18
  <2>1. Execute(Other("popf")) /\ regs["rsp"] = 3
    BY <1>19, RestoreText DEF RestoreAt
  <2>2. /\ Typed' /\ buf' = buf /\ stack' = stack /\ regs'["eflags"] = stack[3] /\ regs'["rsp"] = 4
        /\ \A q \in Regs : q # "eflags" /\ q # "rsp" => regs'[q] = regs[q]
    BY <2>1, StackEffect
  <2>3. RestoreAt(19)'
    BY <1>19, <2>2, Names DEF RestoreAt
  <2> QED  BY <1>19, <2>2, <2>3
<1>20. CASE n = 19
  <2>1. RestoreCode[n + 1] = Load("rax", "rax")
    BY <1>20, RestoreText
  <2>2. /\ Typed' /\ buf' = buf /\ stack' = stack /\ regs'["rax"] = buf[10]
        /\ \A q \in Regs : q # "rax" => regs'[q] = regs[q]
    BY <2>1, LoadEffect, Names, SlotIs
  <2>3. RestoreAt(20)'
    BY <1>20, <2>2, Names DEF RestoreAt
  <2> QED  BY <1>20, <2>2, <2>3
<1> QED  BY <1>1, <1>2, <1>3, <1>4, <1>5, <1>6, <1>7, <1>8, <1>9, <1>10, <1>11, <1>12, <1>13, <1>14, <1>15, <1>16, <1>17, <1>18, <1>19, <1>20

\* The return of kspecem_asm_save_registers: the checkpoint is complete.
LEMMA SaveReturn ==
  ASSUME Typed, SaveAt(22), Execute(SaveCode[23]), ckpt' = regs', kept' = buf'
  PROVE  Typed' /\ Kept' /\ regs'["rsp"] = 4
<1>1. Execute(Other("ret")) /\ regs["rsp"] = 3
  BY SaveText DEF SaveAt
<1>2. /\ Typed' /\ buf' = buf /\ stack' = stack /\ regs'["rip"] = stack[3] /\ regs'["rsp"] = 4
      /\ \A q \in Regs : q # "rip" /\ q # "rsp" => regs'[q] = regs[q]
  BY <1>1, StackEffect
<1>3. /\ buf'[5] = regs'["rbx"] /\ buf'[4] = regs'["rbp"] /\ buf'[3] = regs'["r12"] /\ buf'[2] = regs'["r13"]
      /\ buf'[1] = regs'["r14"] /\ buf'[0] = regs'["r15"] /\ buf'[19] = regs'["rsp"] /\ buf'[16] = regs'["rip"]
      /\ buf'[18] = regs'["eflags"] /\ buf'[19] = 4
  BY <1>2, Names DEF SaveAt
<1>4. \A r \in Live : buf'[Slot[r]] = regs'[r]
  <2>1. /\ buf'[Slot["rbx"]] = regs'["rbx"] /\ buf'[Slot["rbp"]] = regs'["rbp"] /\ buf'[Slot["r12"]] = regs'["r12"]
        /\ buf'[Slot["r13"]] = regs'["r13"] /\ buf'[Slot["r14"]] = regs'["r14"] /\ buf'[Slot["r15"]] = regs'["r15"]
        /\ buf'[Slot["rsp"]] = regs'["rsp"] /\ buf'[Slot["rip"]] = regs'["rip"] /\ buf'[Slot["eflags"]] = regs'["eflags"]
    BY <1>3, SlotIs
  <2> QED  BY <2>1 DEF Live
<1>5. \A r \in Live : buf'[Slot[r]] = ckpt'[r]
  BY <1>4
<1> QED  BY <1>2, <1>3, <1>5 DEF Kept

\* The jump at the end of kspecem_asm_restore_registers.
LEMMA RestoreJump ==
  ASSUME Typed, Kept, RestoreAt(20), Execute(RestoreCode[21]), UNCHANGED ckpt
  PROVE  Typed' /\ \A r \in Live : regs'[r] = ckpt'[r]
<1>1. Execute(Other("jmp"))
  BY RestoreText
<1>2. regs' = [regs EXCEPT !["rip"] = regs["rdx"]] /\ Typed'
  BY <1>1, ExecuteJmp
<1>3. regs'["rip"] = regs["rdx"] /\ \A q \in Regs : q # "rip" => regs'[q] = regs[q]
  BY <1>2, Names DEF Typed
<1>4. /\ regs'["rbx"] = buf[5] /\ regs'["rbp"] = buf[4] /\ regs'["r12"] = buf[3] /\ regs'["r13"] = buf[2]
      /\ regs'["r14"] = buf[1] /\ regs'["r15"] = buf[0] /\ regs'["rsp"] = buf[19] /\ regs'["rip"] = buf[16]
      /\ regs'["eflags"] = buf[18]
  BY <1>3, Names DEF RestoreAt, Kept
<1>5. \A r \in Live : regs'[r] = buf[Slot[r]]
  BY <1>4, SlotIs DEF Live
<1> QED  BY <1>2, <1>5 DEF Kept

\* A nested checkpoint only sets its result and returns.
LEMMA NestedStep ==
  ASSUME Typed, NEW n \in 0..1, NEW top \in 1..(StackSize - 3), regs["rsp"] = top, Execute(SaveEnd[n + 1])
  PROVE  /\ Typed' /\ buf' = buf
         /\ n = 0 => regs'["rsp"] = top
         /\ n = 1 => regs'["rsp"] = top + 1
<1>0. top \in 1..(StackSize - 2)
  BY StackAssumption
<1>1. CASE n = 0
  <2>1. SaveEnd[n + 1] = Other("zero")
    BY <1>1, SaveEndText
  <2> QED  BY <1>1, <2>1, ZeroEffect, Names
<1>2. CASE n = 1
  <2>1. SaveEnd[n + 1] = Other("ret")
    BY <1>2, SaveEndText
  <2>2. regs' = [regs EXCEPT !["rip"] = stack[top], !["rsp"] = top + 1] /\ buf' = buf /\ Typed'
    BY <1>0, <2>1, ExecuteStack
  <2>3. regs'["rsp"] = top + 1
    BY <2>2, Names DEF Typed
  <2> QED  BY <1>2, <2>2, <2>3
<1> QED  BY <1>1, <1>2

-----------------------------------------------------------------------------
(* The invariant is one *)

\* What is left of s, and the next instruction.
LEMMA Running ==
  ASSUME NEW s \in Seq(Text), NEW l \in Nat, Len(s) = l, NEW n \in 0..(l - 1), code = From(s, n), Run
  PROVE  /\ code # << >> /\ Execute(s[n + 1])
         /\ n < l - 1 => code' = From(s, n + 1) /\ Len(code) # 1
         /\ n = l - 1 => code' = << >> /\ Len(code) = 1
<1>1. n \in Nat /\ n < Len(s)
  OBVIOUS
<1>2. /\ code # << >> /\ Len(code) = l - n /\ Head(code) = s[n + 1] /\ Tail(code) = From(s, n + 1)
  BY <1>1, FromFacts
<1>3. Execute(s[n + 1]) /\ code' = From(s, n + 1)
  BY <1>2 DEF Run
<1>4. n = l - 1 => code' = << >>
  BY <1>3, FromEnd
<1> QED  BY <1>2, <1>3, <1>4

LEMMA RunSave ==
  ASSUME RegistersInv, Run, mode = "save" PROVE RegistersInv'
<1>1. PICK n \in 0..22 : code = From(SaveCode, n) /\ SaveAt(n)
  BY DEF RegistersInv, ModeInv
<1>2. Typed
  BY DEF RegistersInv
<1>3. /\ Execute(SaveCode[n + 1])
      /\ n < 22 => code' = From(SaveCode, n + 1) /\ Len(code) # 1
      /\ n = 22 => code' = << >> /\ Len(code) = 1
  <2>1. SaveCode \in Seq(Text) /\ 23 \in Nat /\ Len(SaveCode) = 23 /\ n \in 0..(23 - 1)
    BY SaveText
  <2>2. /\ Execute(SaveCode[n + 1])
        /\ n < 23 - 1 => code' = From(SaveCode, n + 1) /\ Len(code) # 1
        /\ n = 23 - 1 => code' = << >> /\ Len(code) = 1
    BY ONLY <1>1, <2>1, Run, Running
  <2> QED  BY <2>2
<1>4. CASE n < 22
  <2>1. n \in 0..21 /\ n + 1 \in 0..22
    BY <1>4
  <2>2. Typed' /\ SaveAt(n + 1)'
    BY <1>1, <1>2, <1>3, <2>1, SaveStep
  <2>3. mode' = "save" /\ code' = From(SaveCode, n + 1)
    BY <1>3, <1>4 DEF Run
  <2>4. ModeInv'
    <3>1. \E k \in 0..22 : code' = From(SaveCode, k) /\ SaveAt(k)'
      BY <2>1, <2>2, <2>3
    <3> QED  BY <2>3, <3>1 DEF ModeInv
  <2> QED  BY <2>2, <2>4 DEF RegistersInv
<1>5. CASE n = 22
  <2>1. mode' = "spec" /\ code' = << >> /\ ckpt' = regs' /\ kept' = buf'
    BY <1>3, <1>5 DEF Run
  <2>2. SaveAt(22) /\ Execute(SaveCode[23])
    BY <1>1, <1>3, <1>5
  <2>3. Typed' /\ Kept' /\ regs'["rsp"] = 4
    BY <1>2, <2>1, <2>2, SaveReturn
  <2> QED  BY <2>1, <2>3, StackAssumption DEF RegistersInv, ModeInv
<1> QED  BY <1>4, <1>5

LEMMA RunNested ==
  ASSUME RegistersInv, Run, mode = "nested" PROVE RegistersInv'
<1>1. Typed /\ Kept /\ regs["rsp"] \in 1..(StackSize - 3) /\ \E n \in 0..1 : code = From(SaveEnd, n)
  BY DEF RegistersInv, ModeInv
<1>2. PICK n \in 0..1 : code = From(SaveEnd, n)
  BY <1>1
<1>3. /\ Execute(SaveEnd[n + 1])
      /\ n < 1 => code' = From(SaveEnd, n + 1) /\ Len(code) # 1
      /\ n = 1 => code' = << >> /\ Len(code) = 1
  <2>1. SaveEnd \in Seq(Text) /\ 2 \in Nat /\ Len(SaveEnd) = 2 /\ n \in 0..(2 - 1)
    BY SaveEndText
  <2>2. /\ Execute(SaveEnd[n + 1])
        /\ n < 2 - 1 => code' = From(SaveEnd, n + 1) /\ Len(code) # 1
        /\ n = 2 - 1 => code' = << >> /\ Len(code) = 1
    BY ONLY <1>2, <2>1, Run, Running
  <2> QED  BY <2>2
<1>4. /\ Typed' /\ buf' = buf
      /\ n = 0 => regs'["rsp"] = regs["rsp"]
      /\ n = 1 => regs'["rsp"] = regs["rsp"] + 1
  BY <1>1, <1>3, NestedStep
<1>5. CASE n = 0
  <2>1. mode' = "nested" /\ code' = From(SaveEnd, 1) /\ UNCHANGED <<ckpt, kept>>
    BY <1>3, <1>5 DEF Run
  <2>2. Kept' /\ regs'["rsp"] \in 1..(StackSize - 3)
    BY <1>1, <1>4, <1>5, <2>1 DEF Kept
  <2> QED  BY <1>4, <2>1, <2>2 DEF RegistersInv, ModeInv
<1>6. CASE n = 1
  <2>1. mode' = "spec" /\ code' = << >> /\ UNCHANGED <<ckpt, kept>>
    BY <1>3, <1>6 DEF Run
  <2>2. Kept' /\ regs'["rsp"] \in 1..(StackSize - 2)
    BY <1>1, <1>4, <1>6, <2>1, StackAssumption DEF Kept
  <2> QED  BY <1>4, <2>1, <2>2 DEF RegistersInv, ModeInv
<1> QED  BY <1>5, <1>6

LEMMA RunRestore ==
  ASSUME RegistersInv, Run, mode = "restore" PROVE RegistersInv'
<1>1. Typed /\ Kept /\ \E n \in 0..20 : code = From(RestoreCode, n) /\ RestoreAt(n)
  BY DEF RegistersInv, ModeInv
<1>2. PICK n \in 0..20 : code = From(RestoreCode, n) /\ RestoreAt(n)
  BY <1>1
<1>3. /\ Execute(RestoreCode[n + 1])
      /\ n < 20 => code' = From(RestoreCode, n + 1) /\ Len(code) # 1
      /\ n = 20 => code' = << >> /\ Len(code) = 1
  <2>1. RestoreCode \in Seq(Text) /\ 21 \in Nat /\ Len(RestoreCode) = 21 /\ n \in 0..(21 - 1)
    BY RestoreText
  <2>2. /\ Execute(RestoreCode[n + 1])
        /\ n < 21 - 1 => code' = From(RestoreCode, n + 1) /\ Len(code) # 1
        /\ n = 21 - 1 => code' = << >> /\ Len(code) = 1
    BY ONLY <1>2, <2>1, Run, Running
  <2> QED  BY <2>2
<1>4. CASE n < 20
  <2>1. n \in 0..19 /\ n + 1 \in 0..20 /\ buf[19] = 4
    BY <1>1, <1>4 DEF Kept
  <2>2. Typed' /\ buf' = buf /\ RestoreAt(n + 1)'
    BY <1>1, <1>2, <1>3, <2>1, RestoreStep
  <2>3. mode' = "restore" /\ code' = From(RestoreCode, n + 1) /\ UNCHANGED <<ckpt, kept>>
    BY <1>3, <1>4 DEF Run
  <2>4. Kept'
    BY <1>1, <2>2, <2>3 DEF Kept
  <2>5. \E k \in 0..20 : code' = From(RestoreCode, k) /\ RestoreAt(k)'
    BY <2>1, <2>2, <2>3
  <2> QED  BY <2>2, <2>3, <2>4, <2>5 DEF RegistersInv, ModeInv
<1>5. CASE n = 20
  <2>1. mode' = "resumed" /\ code' = << >> /\ UNCHANGED <<ckpt, kept>>
    BY <1>3, <1>5 DEF Run
  <2>2. RestoreAt(20) /\ Execute(RestoreCode[21])
    BY <1>2, <1>3, <1>5
  <2>3. Typed' /\ \A r \in Live : regs'[r] = ckpt'[r]
    BY <1>1, <2>1, <2>2, RestoreJump
  <2> QED  BY <2>1, <2>3 DEF RegistersInv, ModeInv
<1> QED  BY <1>4, <1>5

LEMMA InitRegsType == InitRegs \in [Regs -> Int] /\ InitRegs["rsp"] = 4
<1>1. \A r \in Regs : Slot[r] + 5 \in Int
  BY SlotType DEF Slots
<1> DEFINE F(r) == CASE r = "rsp" -> 4 [] r = "eflags" -> Off [] r = "rip" -> Continue - 1
                     [] OTHER -> Slot[r] + 5
<1>2. \A r \in Regs : F(r) \in Int
  BY <1>1 DEF Off, Continue
<1>3. F("rsp") = 4
  OBVIOUS
<1>4. InitRegs = [r \in Regs |-> F(r)]
  BY DEF InitRegs
<1> HIDE DEF F
<1> QED  BY <1>2, <1>3, <1>4, Names

\* The registers and the return address at the start of a routine.
LEMMA CallEffect ==
  ASSUME Typed, NEW rsi \in Int, NEW ret \in Int, NEW top \in 1..(StackSize - 1), regs["rsp"] = top, Called(rsi, ret),
         buf' = buf
  PROVE  Typed' /\ regs'["rsp"] = top - 1 /\ stack'[top - 1] = ret
<1>1. top - 1 \in 0..(StackSize - 1) /\ top - 1 \in Int /\ Buffer \in Int
  BY StackAssumption DEF Buffer
<1>2. "rdi" \in Regs /\ "rsi" \in Regs /\ "rsp" \in Regs
  BY Names
<1>3. /\ regs' = [regs EXCEPT !["rdi"] = Buffer, !["rsi"] = rsi, !["rsp"] = top - 1]
      /\ stack' = [stack EXCEPT ![top - 1] = ret]
  BY DEF Called
<1>4. regs' \in [Regs -> Int] /\ regs'["rsp"] = top - 1
  BY <1>1, <1>2, <1>3 DEF Typed
<1>5. stack' \in [0..(StackSize - 1) -> Int] /\ stack'[top - 1] = ret
  BY <1>1, <1>3 DEF Typed
<1>6. buf' \in [Slots -> Int]
  BY DEF Typed
<1> QED  BY <1>4, <1>5 DEF Typed

LEMMA RegistersInit == Init => RegistersInv
<1> SUFFICES ASSUME Init PROVE RegistersInv
  OBVIOUS
<1>1. regs \in [Regs -> Int] /\ regs["rsp"] = 4
  BY InitRegsType DEF Init
<1>2. buf \in [Slots -> Int] /\ stack \in [0..(StackSize - 1) -> Int]
  BY DEF Init
<1> QED  BY <1>1, <1>2 DEF Init, RegistersInv, Typed, ModeInv

LEMMA NewCheckpointInv ==
  ASSUME RegistersInv, NEW flags \in {Off, On}, NewCheckpoint(flags) PROVE RegistersInv'
<1>1. Typed /\ regs["rsp"] = 4 /\ 4 \in 1..(StackSize - 1)
  BY StackAssumption DEF RegistersInv, ModeInv, NewCheckpoint
<1>2. flags \in Int /\ ~(flags <= -1) /\ Continue \in Int
  BY DEF Off, On, Continue
<1>3. Typed' /\ regs'["rsp"] = 3
  BY <1>1, <1>2, CallEffect DEF NewCheckpoint
<1>4. code' = From(SaveCode, 0)
  <2>1. code' = SaveCode
    BY <1>2 DEF NewCheckpoint, kspecem_asm_save_registers, SaveCode, SaveEnd
  <2> QED  BY <2>1, SaveText, FromStart
<1>5. SaveAt(0)'
  BY <1>3 DEF SaveAt
<1>6. mode' = "save" /\ \E n \in 0..22 : code' = From(SaveCode, n) /\ SaveAt(n)'
  BY <1>4, <1>5 DEF NewCheckpoint
<1> QED  BY <1>3, <1>6 DEF RegistersInv, ModeInv

LEMMA NestedCheckpointInv ==
  ASSUME RegistersInv, NestedCheckpoint PROVE RegistersInv'
<1>1. Typed /\ Kept /\ regs["rsp"] \in 2..(StackSize - 2) /\ code = << >>
  BY StackAssumption DEF RegistersInv, ModeInv, NestedCheckpoint
<1>2. PICK top \in 1..(StackSize - 1) : regs["rsp"] = top /\ top \in 2..(StackSize - 2)
  BY <1>1, StackAssumption
<1>3. Junk \in Int /\ -1 \in Int
  BY DEF Junk
<1>4. Typed' /\ regs'["rsp"] = top - 1
  BY <1>1, <1>2, <1>3, CallEffect DEF NestedCheckpoint
<1>5. code' = From(SaveEnd, 0)
  <2>1. code' = << >> \o SaveEnd
    BY DEF NestedCheckpoint, kspecem_asm_save_registers, SaveEnd
  <2>2. << >> \o SaveEnd = SaveEnd
    BY SaveEndText
  <2> QED  BY <2>1, <2>2, SaveEndText, FromStart
<1>6. mode' = "nested" /\ Kept'
  BY <1>1 DEF NestedCheckpoint, Kept
<1>7. regs'["rsp"] \in 1..(StackSize - 3)
  BY <1>2, <1>4, StackAssumption
<1> QED  BY <1>4, <1>5, <1>6, <1>7 DEF RegistersInv, ModeInv

LEMMA SpeculateInv ==
  ASSUME RegistersInv, Speculate PROVE RegistersInv'
<1>1. Typed /\ Kept /\ regs["rsp"] \in 1..(StackSize - 2)
  BY DEF RegistersInv, ModeInv, Speculate
<1>2. regs' \in [Regs -> Int] /\ regs'["rsp"] \in 1..(StackSize - 2)
  <2>1. CASE \E r \in Live \ {"rsp", "eflags"} : regs' = Set(r, Junk)
    <3>1. PICK r \in Live \ {"rsp", "eflags"} : regs' = [regs EXCEPT ![r] = Junk]
      BY <2>1 DEF Set
    <3>2. r \in Regs /\ r # "rsp" /\ Junk \in Int
      BY DEF Live, Regs, Junk
    <3> QED  BY <1>1, <3>1, <3>2, Names DEF Typed
  <2>2. CASE regs' = Set("eflags", On)
    <3>1. On \in Int /\ "eflags" \in Regs /\ "rsp" \in Regs
      BY Names DEF On
    <3> QED  BY <1>1, <2>2, <3>1 DEF Typed, Set
  <2>3. CASE \E a \in 2..(StackSize - 2) : regs' = Set("rsp", a)
    <3>1. PICK a \in 2..(StackSize - 2) : regs' = [regs EXCEPT !["rsp"] = a]
      BY <2>3 DEF Set
    <3>2. a \in Int /\ a \in 1..(StackSize - 2) /\ "rsp" \in Regs
      BY Names, StackAssumption
    <3> QED  BY <1>1, <3>1, <3>2 DEF Typed
  <2>4. CASE regs' = [r \in Regs |-> IF r \in Live THEN regs[r] ELSE Junk]
    <3>1. Junk \in Int /\ "rsp" \in Regs /\ "rsp" \in Live
      BY Names DEF Junk, Live
    <3> QED  BY <1>1, <2>4, <3>1 DEF Typed
  <2> QED  BY <2>1, <2>2, <2>3, <2>4 DEF Speculate
<1>3. UNCHANGED <<mode, code, buf, stack, ckpt, kept>> /\ mode = "spec" /\ code = << >>
  BY DEF Speculate
<1>4. Typed' /\ Kept'
  BY <1>1, <1>2, <1>3 DEF Typed, Kept
<1> QED  BY <1>2, <1>3, <1>4 DEF RegistersInv, ModeInv

LEMMA HookRestartInv ==
  ASSUME RegistersInv, HookRestart PROVE RegistersInv'
<1>1. Typed /\ Kept /\ regs["rsp"] \in 2..(StackSize - 2)
  BY StackAssumption DEF RegistersInv, ModeInv, HookRestart
<1>2. PICK top \in 2..(StackSize - 2) : regs["rsp"] = top
  BY <1>1
<1>3. top - 1 \in 0..(StackSize - 1) /\ top - 1 \in Int /\ Buffer \in Int /\ Off \in Int /\ Junk \in Int
  BY StackAssumption DEF Buffer, Off, Junk
<1>4. /\ regs' = [regs EXCEPT !["rdi"] = Buffer, !["rsi"] = 1, !["rsp"] = top - 1, !["eflags"] = Off]
      /\ stack' = [stack EXCEPT ![top - 1] = Junk] /\ UNCHANGED <<buf, ckpt, kept>>
  BY <1>2 DEF HookRestart
<1>5. Typed'
  <2>1. "rdi" \in Regs /\ "rsi" \in Regs /\ "rsp" \in Regs /\ "eflags" \in Regs
    BY Names
  <2>2. [regs EXCEPT !["rdi"] = Buffer, !["rsi"] = 1] \in [Regs -> Int]
    BY <1>1, <1>3, <2>1, Written
  <2>3. regs' = [[regs EXCEPT !["rdi"] = Buffer, !["rsi"] = 1] EXCEPT !["rsp"] = top - 1, !["eflags"] = Off]
    BY <1>4
  <2>4. regs' \in [Regs -> Int]
    BY <1>3, <2>1, <2>2, <2>3
  <2> QED  BY <1>1, <1>3, <1>4, <2>4 DEF Typed
<1>6. code' = From(RestoreCode, 0) /\ RestoreAt(0)'
  BY RestoreIs, RestoreText, FromStart DEF HookRestart, RestoreAt
<1>7. mode' = "restore" /\ Kept'
  BY <1>1, <1>4 DEF HookRestart, Kept
<1>8. \E n \in 0..20 : code' = From(RestoreCode, n) /\ RestoreAt(n)'
  BY <1>6
<1> QED  BY <1>5, <1>7, <1>8 DEF RegistersInv, ModeInv

\* The handlers copy every slot that the program relies on.
LEMMA InterruptInv ==
  ASSUME RegistersInv, Interrupt PROVE RegistersInv'
<1>1. Typed /\ Kept /\ code = << >>
  BY DEF RegistersInv, ModeInv, Interrupt
<1>2. /\ mode' = "resumed" /\ UNCHANGED <<code, buf, stack, ckpt, kept>>
      /\ regs' = [r \in Regs |-> IF Slot[r] \in CopiedSlots THEN buf[Slot[r]] ELSE regs[r]]
  BY DEF Interrupt
<1>3. Typed'
  BY <1>1, <1>2, SlotType DEF Typed
<1>4. \A r \in Live : r \in Regs /\ Slot[r] \in CopiedSlots
  BY SlotIs DEF Live, Regs, CopiedSlots
<1>5. \A r \in Live : regs'[r] = ckpt'[r]
  BY <1>1, <1>2, <1>4 DEF Kept
<1> QED  BY <1>1, <1>2, <1>3, <1>5 DEF RegistersInv, ModeInv

LEMMA AgainInv ==
  ASSUME RegistersInv, Again PROVE RegistersInv'
<1>1. Typed /\ code = << >> /\ mode' = "program" /\ regs' = InitRegs /\ UNCHANGED <<code, buf, stack, ckpt, kept>>
  BY DEF RegistersInv, ModeInv, Again
<1>2. Typed' /\ regs'["rsp"] = 4
  BY <1>1, InitRegsType DEF Typed
<1> QED  BY <1>1, <1>2 DEF RegistersInv, ModeInv

LEMMA RegistersNext == RegistersInv /\ [Next]_vars => RegistersInv'
<1> SUFFICES ASSUME RegistersInv, [Next]_vars PROVE RegistersInv'
  OBVIOUS
<1>1. CASE \E flags \in {Off, On} : NewCheckpoint(flags)
  BY <1>1, NewCheckpointInv
<1>2. CASE NestedCheckpoint \/ Speculate \/ HookRestart \/ Interrupt \/ Again
  BY <1>2, NestedCheckpointInv, SpeculateInv, HookRestartInv, InterruptInv, AgainInv
<1>3. CASE Run
  <2>1. mode = "save" \/ mode = "nested" \/ mode = "restore"
    BY <1>3 DEF RegistersInv, ModeInv, Run
  <2> QED  BY <1>3, <2>1, RunSave, RunNested, RunRestore
<1>4. CASE UNCHANGED vars
  BY <1>4 DEF vars, RegistersInv, Typed, ModeInv, SaveAt, RestoreAt, Kept
<1> QED  BY <1>1, <1>2, <1>3, <1>4 DEF Next

LEMMA RegistersAlways == Spec => []RegistersInv
<1> QED  BY RegistersInit, RegistersNext, PTL DEF Spec

-----------------------------------------------------------------------------
(* The properties *)

\* After a rollback, by kspecem_asm_restore_registers or by the frame of an
\* interrupt, the callee-saved registers, stack pointer, instruction pointer and
\* interrupt flag are those with which kspecem_asm_save_registers returned.
THEOREM LiveAlwaysRestored == Spec => []LiveRestored
<1>1. RegistersInv => LiveRestored
  BY DEF RegistersInv, ModeInv, LiveRestored
<1> QED  BY <1>1, RegistersAlways, PTL

\* Nothing in speculation changes the saved registers: kspecem_asm_save_registers
\* returns early for the branches it meets there.
THEOREM BufferAlwaysStable == Spec => []BufferStable
<1>1. RegistersInv => BufferStable
  BY DEF RegistersInv, ModeInv, BufferStable, Kept
<1> QED  BY <1>1, RegistersAlways, PTL
=============================================================================
