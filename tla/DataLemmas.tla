----------------------------- MODULE DataLemmas -----------------------------
(****************************************************************************)
(* Facts about numbers and short sequences that the proofs of several       *)
(* components need.  The least-number principle and induction are stated    *)
(* for sets of numbers, the form that the first-order provers can use: a    *)
(* property of numbers is the set of the numbers that have it.              *)
(****************************************************************************)
EXTENDS Naturals, Sequences, WellFoundedInduction, SequenceTheorems, TLAPS

-----------------------------------------------------------------------------
(* Numbers *)

Less == {p \in Nat \X Nat : p[1] < p[2]}

\* The order of the natural numbers, as a set of pairs, is well-founded.
LEMMA LessWellFounded == IsWellFoundedOn(Less, Nat)
<1>1. OpToRel(<, Nat) = Less
  BY DEF OpToRel, Less
<1> QED  BY <1>1, NatLessThanWellFounded, Zenon

\* A set of natural numbers that is not empty has a least element.
LEMMA LeastElement ==
  ASSUME NEW T, T \subseteq Nat, T # {}
  PROVE  \E x \in T : \A y \in T : x <= y
<1>1. PICK x \in T : \A y \in T : <<y, x>> \notin Less
  BY LessWellFounded, WFMin, Zenon
<1>2. ASSUME NEW y \in T PROVE x <= y
  <2>1. x \in Nat /\ y \in Nat
    OBVIOUS
  <2>2. y < x => <<y, x>> \in Less
    BY <2>1 DEF Less
  <2> QED  BY <1>1, <2>1, <2>2
<1> QED  BY <1>2

\* A set that has 0, and with each number the next, has all of them.
LEMMA SetInduction ==
  ASSUME NEW T, 0 \in T, \A n \in Nat : n \in T => n + 1 \in T
  PROVE  Nat \subseteq T
<1> SUFFICES ASSUME Nat \ T # {} PROVE FALSE
  OBVIOUS
<1>1. PICK x \in Nat \ T : \A y \in Nat \ T : x <= y
  BY LeastElement
<1>2. x # 0 /\ x - 1 \in Nat
  OBVIOUS
<1>3. x - 1 \in T
  BY <1>1, <1>2
<1> QED  BY <1>1, <1>2, <1>3

\* A bounded set of natural numbers that is not empty has a greatest element.
LEMMA GreatestElement ==
  ASSUME NEW b \in Nat, NEW T, T \subseteq 0..b, T # {}
  PROVE  \E x \in T : \A y \in T : y <= x
<1> DEFINE C == {n \in Nat : \E x \in T : x + n = b}
<1>1. \A x \in T : x \in Nat /\ b - x \in C /\ x + (b - x) = b
  OBVIOUS
<1>2. PICK n \in C : \A m \in C : n <= m
  BY <1>1, LeastElement
<1>3. PICK x \in T : x + n = b
  OBVIOUS
<1>4. ASSUME NEW y \in T PROVE y <= x
  <2>1. n <= b - y
    BY <1>1, <1>2
  <2> QED  BY <1>1, <1>3, <2>1
<1> QED  BY <1>4

-----------------------------------------------------------------------------
(* Short sequences *)

\* Two sequences of one element, one after the other.
LEMMA ConcatPair ==
  ASSUME NEW x, NEW y
  PROVE  <<x>> \o <<y>> = <<x, y>>
<1> DEFINE S == {x, y}
           c == <<x>> \o <<y>>
<1>1. <<x>> \in Seq(S) /\ <<y>> \in Seq(S) /\ <<x, y>> \in Seq(S)
  OBVIOUS
<1>2. c \in Seq(S) /\ Len(c) = 2 /\ c[1] = x /\ c[2] = y
  OBVIOUS
<1>3. Len(c) = Len(<<x, y>>) /\ \A i \in 1..Len(c) : c[i] = <<x, y>>[i]
  BY <1>2
<1> QED  BY <1>1, <1>2, <1>3, SeqEqual

\* A pair and a third element.
LEMMA ConcatTriple ==
  ASSUME NEW x, NEW y, NEW z
  PROVE  <<x, y>> \o <<z>> = <<x, y, z>>
<1> DEFINE S == {x, y, z}
           c == <<x, y>> \o <<z>>
<1>1. <<x, y>> \in Seq(S) /\ <<z>> \in Seq(S) /\ <<x, y, z>> \in Seq(S)
  OBVIOUS
<1>2. c \in Seq(S) /\ Len(c) = 3 /\ c[1] = x /\ c[2] = y /\ c[3] = z
  OBVIOUS
<1>3. Len(c) = Len(<<x, y, z>>) /\ \A i \in 1..Len(c) : c[i] = <<x, y, z>>[i]
  BY <1>2
<1> QED  BY <1>1, <1>2, <1>3, SeqEqual

\* Nothing added on either side.
LEMMA ConcatNothing ==
  /\ << >> \o << >> = << >>
  /\ \A x : << >> \o <<x>> = <<x>> /\ <<x>> \o << >> = <<x>>
OBVIOUS
=============================================================================
