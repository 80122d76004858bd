------------------------- MODULE RestartStatsProofs -------------------------
(****************************************************************************)
(* Proofs about RestartStats, for every set of restart types and of inline  *)
(* assembly, and every size of the list.                                    *)
(****************************************************************************)
EXTENDS RestartStats, FiniteSetTheorems, DataLemmas

\* The list has an instruction once, and has seen it restart.
Listed(l) ==
  /\ \A j, k \in DOMAIN l : l[j].ip = l[k].ip => j = k
  /\ \A k \in DOMAIN l : l[k].count >= 1

Decreasing(l) == \A j, k \in DOMAIN l : j < k => l[j].count >= l[k].count

Exact(l, r) ==
  \A ip \in Ips :
    \/ \E k \in DOMAIN l : l[k] = [ip |-> ip, count |-> r[ip]]
    \/ /\ \A k \in DOMAIN l : l[k].ip # ip
       /\ r[ip] > 0 => Len(l) = NumIps

-----------------------------------------------------------------------------
(* Moving an entry *)

\* m is l with the entry i replaced by e and moved to the place p before it.
Moved(m, l, i, p, e) ==
  /\ Len(m) = Len(l)
  /\ \A k \in 1..(p - 1) : m[k] = l[k]
  /\ m[p] = e
  /\ \A k \in (p + 1)..i : m[k] = l[k - 1]
  /\ \A k \in (i + 1)..Len(l) : m[k] = l[k]

\* What removing an entry and inserting it before that place does.
LEMMA MoveFacts ==
  ASSUME NEW S, NEW l \in Seq(S), NEW i \in DOMAIN l, NEW p \in 1..i, NEW e \in S
  PROVE  /\ InsertAt(RemoveAt(l, i), p, e) \in Seq(S)
         /\ Moved(InsertAt(RemoveAt(l, i), p, e), l, i, p, e)
<1> DEFINE n  == Len(l)
           a  == SubSeq(l, 1, i - 1)
           b  == SubSeq(l, i + 1, n)
           r  == RemoveAt(l, i)
<1>1. n \in Nat /\ i \in 1..n /\ p \in 1..n /\ \A k \in 1..n : l[k] \in S
  OBVIOUS
<1>2. /\ a \in Seq(S) /\ Len(a) = i - 1 /\ \A k \in 1..(i - 1) : a[k] = l[k]
      /\ b \in Seq(S) /\ Len(b) = n - i /\ \A k \in 1..(n - i) : b[k] = l[i + k]
  BY <1>1
<1> HIDE DEF n, a, b
<1>3. /\ r \in Seq(S) /\ Len(r) = n - 1
      /\ \A k \in 1..(n - 1) : r[k] = IF k < i THEN l[k] ELSE l[k + 1]
  <2>1. r = a \o b
    BY DEF RemoveAt, a, b, n
  <2>2. /\ a \o b \in Seq(S) /\ Len(a \o b) = n - 1
        /\ \A k \in 1..(n - 1) : (a \o b)[k] = IF k <= i - 1 THEN a[k] ELSE b[k - (i - 1)]
    <3>1. /\ a \o b \in Seq(S) /\ Len(a \o b) = Len(a) + Len(b)
          /\ \A k \in 1..(Len(a) + Len(b)) :
               (a \o b)[k] = IF k <= Len(a) THEN a[k] ELSE b[k - Len(a)]
      BY <1>2, ConcatProperties
    <3>2. Len(a) + Len(b) = n - 1 /\ Len(a) = i - 1
      BY <1>1, <1>2
    <3> QED  BY <3>1, <3>2
  <2>3. ASSUME NEW k \in 1..(n - 1), k >= i PROVE b[k - (i - 1)] = l[k + 1]
    <3>1. k - (i - 1) \in 1..(n - i) /\ i + (k - (i - 1)) = k + 1
      BY <1>1, <2>3
    <3> QED  BY <1>2, <3>1
  <2>4. ASSUME NEW k \in 1..(n - 1), k < i PROVE a[k] = l[k]
    BY <1>1, <1>2, <2>4
  <2> QED  BY <1>1, <2>1, <2>2, <2>3, <2>4
<1> HIDE DEF r
<1> DEFINE c == SubSeq(r, 1, p - 1)
           d == SubSeq(r, p, Len(r))
           m == InsertAt(r, p, e)
<1>4. /\ c \in Seq(S) /\ Len(c) = p - 1 /\ \A k \in 1..(p - 1) : c[k] = r[k]
      /\ d \in Seq(S) /\ Len(d) = n - p /\ \A k \in 1..(n - p) : d[k] = r[p + k - 1]
  BY <1>1, <1>3
<1>5. m = (c \o <<e>>) \o d
  BY DEF InsertAt
<1> HIDE DEF c, d, m
<1>6. /\ c \o <<e>> \in Seq(S) /\ Len(c \o <<e>>) = p
      /\ \A k \in 1..(p - 1) : (c \o <<e>>)[k] = c[k]
      /\ (c \o <<e>>)[p] = e
  BY <1>1, <1>4
<1>7. /\ m \in Seq(S) /\ Len(m) = n
      /\ \A k \in 1..p : m[k] = (c \o <<e>>)[k]
      /\ \A k \in (p + 1)..n : m[k] = d[k - p]
  <2> DEFINE ce == c \o <<e>>
  <2> HIDE DEF ce
  <2>1. ce \in Seq(S) /\ Len(ce) = p /\ m = ce \o d
    BY <1>5, <1>6 DEF ce
  <2>2. /\ m \in Seq(S) /\ Len(m) = Len(ce) + Len(d)
        /\ \A k \in 1..(Len(ce) + Len(d)) : m[k] = IF k <= Len(ce) THEN ce[k] ELSE d[k - Len(ce)]
    BY <1>4, <2>1, ConcatProperties
  <2>3. Len(ce) + Len(d) = n
    BY <1>1, <1>4, <2>1
  <2>4. \A k \in 1..p : k \in 1..n /\ k <= p
    BY <1>1
  <2>5. \A k \in (p + 1)..n : k \in 1..n /\ ~(k <= p)
    BY <1>1
  <2> QED  BY <2>1, <2>2, <2>3, <2>4, <2>5 DEF ce
<1>8. ASSUME NEW k \in 1..(p - 1) PROVE m[k] = l[k]
  BY <1>1, <1>3, <1>4, <1>6, <1>7
<1>9. ASSUME NEW k \in (p + 1)..n PROVE m[k] = r[k - 1]
  <2>1. k - p \in 1..(n - p) /\ p + (k - p) - 1 = k - 1
    BY <1>1
  <2> QED  BY <1>4, <1>7, <2>1
<1>10. ASSUME NEW k \in (p + 1)..i PROVE m[k] = l[k - 1]
  BY <1>1, <1>3, <1>9
<1>11. ASSUME NEW k \in (i + 1)..n PROVE m[k] = l[k]
  <2>1. k - 1 \in 1..(n - 1) /\ ~(k - 1 < i) /\ (k - 1) + 1 = k /\ k \in (p + 1)..n
    BY <1>1
  <2> QED  BY <1>3, <1>9, <2>1
<1>12. m[p] = e
  BY <1>1, <1>6, <1>7
<1>13. Moved(m, l, i, p, e)
  BY <1>7, <1>8, <1>10, <1>11, <1>12 DEF Moved, n
<1> QED  BY <1>7, <1>13 DEF m, r

\* The place of a new count: behind those that are not smaller, before the rest.
LEMMA PlaceFacts ==
  ASSUME NEW l \in Seq(Stat), NEW i \in DOMAIN l, NEW c \in Nat
  PROVE  LET p == Place(l, i, c) IN
         /\ p \in 1..i
         /\ p > 1 => l[p - 1].count >= c
         /\ \A k \in p..(i - 1) : ~(l[k].count >= c)
<1> DEFINE T == {k \in 0..(i - 1) : k = 0 \/ l[k].count >= c}
<1>1. i \in Nat /\ i - 1 \in Nat /\ T \subseteq 0..(i - 1) /\ 0 \in T
  OBVIOUS
<1>2. PICK x \in T : \A y \in T : y <= x
  BY <1>1, GreatestElement
<1>3. Max(T) \in T /\ \A y \in T : Max(T) >= y
  <2>1. \A y \in T : x >= y
    BY <1>1, <1>2
  <2> HIDE DEF T
  <2> QED  BY <2>1 DEF Max
<1> DEFINE g == Max(T)
<1>4. g \in 0..(i - 1) /\ (g = 0 \/ l[g].count >= c) /\ \A k \in 0..(i - 1) : l[k].count >= c => g >= k
  BY <1>3
<1>5. Place(l, i, c) = g + 1
  BY DEF Place
<1> HIDE DEF g
<1>6. ASSUME NEW k \in (g + 1)..(i - 1) PROVE ~(l[k].count >= c)
  BY <1>1, <1>4
<1>7. g + 1 \in 1..i /\ (g + 1) - 1 = g /\ (g + 1 > 1 => g # 0)
  BY <1>1, <1>4
<1> QED  BY <1>4, <1>5, <1>6, <1>7

-----------------------------------------------------------------------------
(* Adding a restart to the list *)

Numbers(l) == \A k \in DOMAIN l : l[k] \in Stat /\ l[k].ip \in Ips /\ l[k].count \in Nat

LEMMA StatNumbers == ASSUME NEW l \in Seq(Stat) PROVE Numbers(l)
<1>1. \A k \in DOMAIN l : l[k] \in Stat
  OBVIOUS
<1>2. \A k \in DOMAIN l : l[k].ip \in Ips /\ l[k].count \in Nat
  BY <1>1 DEF Stat
<1> QED  BY <1>1, <1>2 DEF Numbers

Counted(s) == [ip |-> s.ip, count |-> s.count + 1]

\* Where entry i belongs once it is counted up.
RightPlace(l, i, p) ==
  /\ p > 1 => l[p - 1].count >= l[i].count + 1
  /\ \A k \in p..(i - 1) : ~(l[k].count >= l[i].count + 1)

\* The instruction is in the list: its entry is counted up and moved.
LEMMA UpIsMove ==
  ASSUME NEW l \in Seq(Stat), NEW ip \in Ips, \E k \in DOMAIN l : l[k].ip = ip
  PROVE  \E i \in DOMAIN l : \E p \in 1..i :
           /\ l[i].ip = ip /\ RightPlace(l, i, p)
           /\ add_inlineasm_restart(l, ip) \in Seq(Stat)
           /\ Moved(add_inlineasm_restart(l, ip), l, i, p, Counted(l[i]))
<1> DEFINE I == {k \in 1..Len(l) : l[k].ip = ip}
           i == Min(I)
           c == l[i].count + 1
           e == [ip |-> ip, count |-> c]
           p == Place(l, i, c)
           m == InsertAt(RemoveAt(l, i), p, e)
<1>1. i \in DOMAIN l /\ l[i].ip = ip
  <2>1. I \subseteq Nat /\ I # {}
    OBVIOUS
  <2>2. PICK x \in I : \A y \in I : x <= y
    BY <2>1, LeastElement
  <2> HIDE DEF I
  <2>3. i \in I
    BY <2>2 DEF Min
  <2> QED  BY <2>3 DEF I
<1>2. add_inlineasm_restart(l, ip) = m
  <2>1. SelectInSeq(l, LAMBDA s : s.ip = ip) = i
    BY <1>1 DEF SelectInSeq
  <2> QED  BY <2>1 DEF add_inlineasm_restart
<1> HIDE DEF i
<1>3. c \in Nat /\ e \in Stat /\ e = Counted(l[i])
  <2>1. c \in Nat
    BY <1>1, StatNumbers DEF Numbers
  <2> QED  BY <1>1, <2>1 DEF Stat, Counted
<1>4. p \in 1..i /\ RightPlace(l, i, p)
  <2>1. /\ p \in 1..i /\ (p > 1 => l[p - 1].count >= c)
        /\ \A k \in p..(i - 1) : ~(l[k].count >= c)
    BY <1>1, <1>3, PlaceFacts
  <2> QED  BY <2>1 DEF RightPlace
<1> HIDE DEF p, e
<1>5. m \in Seq(Stat) /\ Moved(m, l, i, p, e)
  BY <1>1, <1>3, <1>4, MoveFacts
<1> QED  BY <1>1, <1>2, <1>3, <1>4, <1>5

\* Then the list stays sorted and exact.
LEMMA CountUp ==
  ASSUME NEW l \in Seq(Stat), Listed(l), Decreasing(l), NEW r \in [Ips -> Nat], Exact(l, r),
         NEW ip \in Ips, \E k \in DOMAIN l : l[k].ip = ip
  PROVE  LET m == add_inlineasm_restart(l, ip) IN
         /\ m \in Seq(Stat) /\ Len(m) = Len(l)
         /\ Listed(m) /\ Decreasing(m) /\ Exact(m, [r EXCEPT ![ip] = @ + 1])
<1> DEFINE m == add_inlineasm_restart(l, ip)
<1>1. PICK i \in DOMAIN l : \E p \in 1..i :
           /\ l[i].ip = ip /\ RightPlace(l, i, p)
           /\ m \in Seq(Stat) /\ Moved(m, l, i, p, Counted(l[i]))
  BY UpIsMove
<1>2. PICK p \in 1..i :
           /\ l[i].ip = ip /\ RightPlace(l, i, p)
           /\ m \in Seq(Stat) /\ Moved(m, l, i, p, Counted(l[i]))
  BY <1>1
<1> DEFINE c == l[i].count + 1
           e == [ip |-> ip, count |-> c]
<1>3. /\ \A k \in DOMAIN l : l[k] \in Stat /\ l[k].ip \in Ips /\ l[k].count \in Nat
      /\ c \in Nat /\ c >= 1 /\ e = Counted(l[i])
  <2>1. \A k \in DOMAIN l : l[k] \in Stat /\ l[k].ip \in Ips /\ l[k].count \in Nat
    BY StatNumbers DEF Numbers
  <2> QED  BY <1>2, <2>1 DEF Counted
<1>4. l[i] = [ip |-> ip, count |-> r[ip]]
  BY <1>2 DEF Exact, Listed
<1>5. /\ p \in 1..i /\ (p > 1 => l[p - 1].count >= c)
      /\ \A k \in p..(i - 1) : ~(l[k].count >= c)
  BY <1>2 DEF RightPlace
<1> HIDE DEF m
<1>6. /\ m \in Seq(Stat) /\ Len(m) = Len(l)
      /\ \A k \in 1..(p - 1) : m[k] = l[k]
      /\ m[p] = e
      /\ \A k \in (p + 1)..i : m[k] = l[k - 1]
      /\ \A k \in (i + 1)..Len(l) : m[k] = l[k]
  BY <1>2, <1>3 DEF Moved
<1>7. e.ip = ip /\ e.count = c /\ c = r[ip] + 1 /\ l[i].count + 1 = c
  BY <1>4
<1> HIDE DEF c, e, m
<1> DEFINE q(k) == IF k = p THEN i ELSE IF k \in (p + 1)..i THEN k - 1 ELSE k
<1>8. i \in 1..Len(l) /\ p \in 1..Len(l) /\ DOMAIN l = 1..Len(l) /\ DOMAIN m = 1..Len(l)
  BY <1>1, <1>5, <1>6
<1>9. ASSUME NEW k \in DOMAIN m
      PROVE  /\ q(k) \in DOMAIN l
             /\ k # p => q(k) # i /\ m[k] = l[q(k)]
             /\ m[k].ip = l[q(k)].ip
  <2>1. CASE k = p
    BY <1>2, <1>6, <1>7, <2>1
  <2>2. CASE k \in 1..(p - 1)
    BY <1>5, <1>6, <1>8, <2>2
  <2>3. CASE k \in (p + 1)..i
    <3>1. q(k) = k - 1 /\ k - 1 \in 1..Len(l) /\ k - 1 # i
      BY <1>5, <1>8, <2>3
    <3> HIDE DEF q
    <3> QED  BY <1>6, <1>8, <2>3, <3>1
  <2>4. CASE k \in (i + 1)..Len(l)
    BY <1>5, <1>6, <1>8, <2>4
  <2> QED  BY <1>5, <1>8, <2>1, <2>2, <2>3, <2>4
<1>10. ASSUME NEW j \in DOMAIN m, NEW k \in DOMAIN m, q(j) = q(k) PROVE j = k
  BY <1>5, <1>8, <1>10
<1>11. ASSUME NEW j \in DOMAIN l, j # i PROVE \E k \in DOMAIN m : m[k] = l[j]
  <2>1. CASE j \in 1..(p - 1)
    BY <1>6, <1>8, <2>1
  <2>2. CASE j \in p..(i - 1)
    <3>1. j + 1 \in (p + 1)..i /\ (j + 1) - 1 = j /\ j + 1 \in DOMAIN m
      BY <1>5, <1>8, <2>2
    <3> QED  BY <1>6, <3>1
  <2>3. CASE j \in (i + 1)..Len(l)
    BY <1>6, <1>8, <2>3
  <2> QED  BY <1>5, <1>8, <1>11, <2>1, <2>2, <2>3
<1>12. Listed(m)
  <2>1. ASSUME NEW j \in DOMAIN m, NEW k \in DOMAIN m, m[j].ip = m[k].ip PROVE j = k
    <3> HIDE DEF q
    <3>1. q(j) = q(k)
      BY <1>9, <2>1 DEF Listed
    <3> QED  BY <1>10, <3>1
  <2>2. ASSUME NEW k \in DOMAIN m PROVE m[k].count >= 1
    <3>1. CASE k = p
      BY <1>3, <1>6, <1>7, <3>1
    <3>2. CASE k # p
      <4> HIDE DEF q
      <4> QED  BY <1>9, <3>2 DEF Listed
    <3> QED  BY <3>1, <3>2
  <2> QED  BY <2>1, <2>2 DEF Listed
<1>13. Decreasing(m)
  <2> SUFFICES ASSUME NEW j \in DOMAIN m, NEW k \in DOMAIN m, j < k
               PROVE  m[j].count >= m[k].count
    BY DEF Decreasing
  <2>1. CASE j # p /\ k # p
    <3>1. q(j) < q(k)
      BY <1>5, <1>8, <2>1
    <3> HIDE DEF q
    <3> QED  BY <1>9, <2>1, <3>1 DEF Decreasing
  <2>2. CASE k = p
    <3>1. j \in 1..(p - 1) /\ p - 1 \in DOMAIN l /\ j \in DOMAIN l /\ (j < p - 1 \/ j = p - 1) /\ p > 1
      BY <1>5, <1>8, <2>2
    <3>2. l[j].count >= l[p - 1].count
      BY <1>3, <3>1 DEF Decreasing
    <3>3. l[p - 1].count >= c
      BY <1>5, <3>1
    <3>4. l[j].count >= c
      BY <1>3, <3>1, <3>2, <3>3
    <3> QED  BY <1>6, <1>7, <2>2, <3>1, <3>4
  <2>3. CASE j = p
    <3>1. m[j].count = c
      BY <1>6, <1>7, <2>3
    <3>2. CASE k \in (p + 1)..i
      <4>1. k - 1 \in p..(i - 1) /\ k - 1 \in DOMAIN l
        BY <1>5, <1>8, <3>2
      <4>2. m[k].count = l[k - 1].count /\ ~(l[k - 1].count >= c)
        BY <1>5, <1>6, <3>2, <4>1
      <4> QED  BY <1>3, <3>1, <4>1, <4>2
    <3>3. CASE k \in (i + 1)..Len(l)
      <4>1. m[k].count = l[k].count /\ k \in DOMAIN l /\ i < k
        BY <1>6, <1>8, <3>3
      <4>2. l[i].count >= l[k].count
        BY <1>1, <4>1 DEF Decreasing
      <4> QED  BY <1>1, <1>3, <1>7, <3>1, <4>1, <4>2
    <3> QED  BY <1>5, <1>8, <2>3, <3>2, <3>3
  <2> QED  BY <2>1, <2>2, <2>3
<1>14. Exact(m, [r EXCEPT ![ip] = @ + 1])
  <2> DEFINE s == [r EXCEPT ![ip] = @ + 1]
  <2> SUFFICES ASSUME NEW x \in Ips
               PROVE  \/ \E k \in DOMAIN m : m[k] = [ip |-> x, count |-> s[x]]
                      \/ /\ \A k \in DOMAIN m : m[k].ip # x
                         /\ s[x] > 0 => Len(m) = NumIps
    BY DEF Exact
  <2>1. CASE x = ip
    <3>1. m[p] = [ip |-> x, count |-> s[x]] /\ p \in DOMAIN m
      BY <1>6, <1>7, <1>8, <2>1 DEF e
    <3> QED  BY <3>1
  <2>2. CASE x # ip
    <3>1. s[x] = r[x]
      BY <2>2
    <3>2. CASE \E j \in DOMAIN l : l[j] = [ip |-> x, count |-> r[x]]
      <4>1. PICK j \in DOMAIN l : l[j] = [ip |-> x, count |-> r[x]]
        BY <3>2
      <4>2. j # i
        BY <1>2, <2>2, <4>1
      <4> QED  BY <1>11, <3>1, <4>1, <4>2
    <3>3. CASE (\A j \in DOMAIN l : l[j].ip # x) /\ (r[x] > 0 => Len(l) = NumIps)
      <4> HIDE DEF q
      <4>1. \A k \in DOMAIN m : m[k].ip # x
        BY <1>9, <3>3
      <4> QED  BY <1>6, <3>1, <3>3, <4>1
    <3> QED  BY <3>2, <3>3 DEF Exact
  <2> QED  BY <2>1, <2>2
<1> QED  BY <1>6, <1>12, <1>13, <1>14 DEF m

\* The instruction is not in the list: it is added while there is room.
LEMMA AddNew ==
  ASSUME NEW l \in Seq(Stat), Len(l) <= NumIps, Listed(l), Decreasing(l),
         NEW r \in [Ips -> Nat], Exact(l, r), NEW ip \in Ips, \A k \in DOMAIN l : l[k].ip # ip
  PROVE  LET m == add_inlineasm_restart(l, ip) IN
         /\ m \in Seq(Stat) /\ Len(m) <= NumIps
         /\ Listed(m) /\ Decreasing(m) /\ Exact(m, [r EXCEPT ![ip] = @ + 1])
<1> DEFINE s == [r EXCEPT ![ip] = @ + 1]
           m == add_inlineasm_restart(l, ip)
<1>1. s[ip] = r[ip] + 1 /\ \A x \in Ips : x # ip => s[x] = r[x]
  OBVIOUS
<1>2. CASE ~HasRoom(l)
  <2>1. m = l /\ Len(l) = NumIps
    BY <1>2, RestartStatsAssumption DEF add_inlineasm_restart, HasRoom
  <2> HIDE DEF s, m
  <2>2. Exact(l, s)
    BY <1>1, <2>1 DEF Exact
  <2> QED  BY <2>1, <2>2 DEF s, m
<1>3. CASE HasRoom(l)
  <2> DEFINE e == NewStat(ip)
  <2>1. m = Append(l, e) /\ Len(l) < NumIps
    BY <1>3 DEF add_inlineasm_restart, HasRoom
  <2>2. e \in Stat /\ e.ip = ip /\ e.count = 1 /\ e = [ip |-> ip, count |-> 1]
    BY DEF NewStat, Stat
  <2> HIDE DEF e, m
  <2>3. /\ m \in Seq(Stat) /\ Len(m) = Len(l) + 1 /\ DOMAIN m = DOMAIN l \cup {Len(l) + 1}
        /\ \A k \in DOMAIN l : m[k] = l[k]
        /\ m[Len(l) + 1] = e
    BY <2>1, <2>2
  <2>4. Len(m) <= NumIps
    BY <2>1, <2>3, RestartStatsAssumption
  <2>5. Listed(m)
    BY <2>2, <2>3 DEF Listed
  <2>6. Decreasing(m)
    <3> SUFFICES ASSUME NEW j \in DOMAIN m, NEW k \in DOMAIN m, j < k
                 PROVE  m[j].count >= m[k].count
      BY DEF Decreasing
    <3>1. j \in DOMAIN l
      BY <2>3
    <3>2. CASE k \in DOMAIN l
      BY <2>3, <3>1, <3>2 DEF Decreasing
    <3>3. CASE k = Len(l) + 1
      BY <2>2, <2>3, <3>1, <3>3 DEF Listed
    <3> QED  BY <2>3, <3>2, <3>3
  <2>7. r[ip] = 0
    <3>1. ~(r[ip] > 0)
      BY <2>1, RestartStatsAssumption DEF Exact
    <3> QED  BY <3>1
  <2> HIDE DEF s
  <2>8. Exact(m, s)
    <3> SUFFICES ASSUME NEW x \in Ips
                 PROVE  \/ \E k \in DOMAIN m : m[k] = [ip |-> x, count |-> s[x]]
                        \/ /\ \A k \in DOMAIN m : m[k].ip # x
                           /\ s[x] > 0 => Len(m) = NumIps
      BY DEF Exact
    <3>1. CASE x = ip
      <4>1. s[x] = 1
        BY <1>1, <2>7, <3>1
      <4> QED  BY <2>2, <2>3, <3>1, <4>1
    <3>2. CASE x # ip
      <4>1. s[x] = r[x]
        BY <1>1, <3>2
      <4>2. CASE \E k \in DOMAIN l : l[k] = [ip |-> x, count |-> r[x]]
        BY <2>3, <4>1, <4>2
      <4>3. CASE (\A k \in DOMAIN l : l[k].ip # x) /\ ~(r[x] > 0)
        <5>1. \A k \in DOMAIN m : m[k].ip # x
          BY <2>2, <2>3, <3>2, <4>3
        <5> QED  BY <4>1, <4>3, <5>1
      <4>4. Len(l) # NumIps
        BY <2>1, RestartStatsAssumption
      <4> QED  BY <4>2, <4>3, <4>4 DEF Exact
    <3> QED  BY <3>1, <3>2
  <2> QED  BY <2>3, <2>4, <2>5, <2>6, <2>8 DEF m, s
<1> QED  BY <1>2, <1>3

-----------------------------------------------------------------------------
(* Sums *)

Pick(s) == CHOOSE x \in s : TRUE

SumBody(f, g) ==
  [s \in SUBSET DOMAIN f |-> IF s = {} THEN 0 ELSE f[Pick(s)] + g[s \ {Pick(s)}]]

\* The sum of f over every subset of its domain.
Sums(f) == CHOOSE g : g = SumBody(f, g)

\* SumFunction of the library is the sum over the whole domain.
LEMMA SumDef == ASSUME NEW f PROVE SumFunction(f) = Sums(f)[DOMAIN f]
BY DEF SumFunction, SumFunctionOnSet, FoldFunctionOnSet, MapThenFoldSet, Sums, SumBody, Pick

\* Taking one element out of a finite set.
LEMMA TakeOut ==
  ASSUME NEW D, IsFiniteSet(D), NEW s \in SUBSET D, NEW x \in s
  PROVE  /\ s \ {x} \in SUBSET D
         /\ Cardinality(s) \in Nat /\ Cardinality(s \ {x}) \in Nat
         /\ Cardinality(s) = Cardinality(s \ {x}) + 1
<1>1. IsFiniteSet(s) /\ IsFiniteSet(s \ {x})
  BY FS_Subset
<1>2. Cardinality(s) \in Nat /\ Cardinality(s \ {x}) \in Nat
  BY <1>1, FS_CardinalityType
<1>3. Cardinality(s \ {x}) = Cardinality(s) - 1
  BY <1>1, FS_RemoveElement
<1> QED  BY <1>2, <1>3

LEMMA NothingLeft ==
  ASSUME NEW D, IsFiniteSet(D), NEW s \in SUBSET D, Cardinality(s) <= 0
  PROVE  s = {}
<1> SUFFICES ASSUME s # {} PROVE FALSE
  OBVIOUS
<1>1. PICK x \in s : TRUE
  OBVIOUS
<1>2. Cardinality(s) = Cardinality(s \ {x}) + 1 /\ Cardinality(s \ {x}) \in Nat
  BY TakeOut
<1> QED  BY <1>2

IsBody(b, f, g, D) ==
  /\ b = [s \in SUBSET D |-> b[s]]
  /\ b[{}] = 0
  /\ \A s \in SUBSET D : s # {} => Pick(s) \in s /\ b[s] = f[Pick(s)] + g[s \ {Pick(s)}]

\* What one more step of the recursion computes.
LEMMA BodyFacts ==
  ASSUME NEW D, NEW f \in [D -> Nat], NEW g
  PROVE  /\ IsBody(SumBody(f, g), f, g, D)
         /\ g \in [SUBSET D -> Nat] => SumBody(f, g) \in [SUBSET D -> Nat]
<1>1. DOMAIN f = D
  OBVIOUS
<1>2. \A s \in SUBSET D : s # {} => Pick(s) \in s
  BY DEF Pick
<1>3. /\ SumBody(f, g) = [s \in SUBSET D |-> SumBody(f, g)[s]]
      /\ SumBody(f, g)[{}] = 0
      /\ \A s \in SUBSET D : s # {} => SumBody(f, g)[s] = f[Pick(s)] + g[s \ {Pick(s)}]
  BY <1>1 DEF SumBody
<1>4. ASSUME g \in [SUBSET D -> Nat], NEW s \in SUBSET D PROVE SumBody(f, g)[s] \in Nat
  <2>1. CASE s = {}
    BY <1>3, <2>1
  <2>2. CASE s # {}
    <3>1. f[Pick(s)] \in Nat
      BY <1>2, <2>2
    <3>2. s \ {Pick(s)} \in SUBSET D
      OBVIOUS
    <3>3. g[s \ {Pick(s)}] \in Nat
      BY <1>4, <3>2
    <3>4. SumBody(f, g)[s] = f[Pick(s)] + g[s \ {Pick(s)}]
      BY <1>3, <2>2
    <3> QED  BY <3>1, <3>3, <3>4
  <2> QED  BY <2>1, <2>2
<1>5. IsBody(SumBody(f, g), f, g, D)
  BY <1>2, <1>3 DEF IsBody
<1> QED  BY <1>3, <1>4, <1>5

\* A finite set of numbers can be summed up.
LEMMA SumsExist ==
  ASSUME NEW D, IsFiniteSet(D), NEW f \in [D -> Nat]
  PROVE  \E g \in [SUBSET D -> Nat] : g = SumBody(f, g)
<1> DEFINE Upto(g, n) == \A s \in SUBSET D : Cardinality(s) <= n => g[s] = SumBody(f, g)[s]
           T == {n \in Nat : \E g \in [SUBSET D -> Nat] : Upto(g, n)}
<1>3. 0 \in T
  <2> DEFINE z == [s \in SUBSET D |-> 0]
  <2>1. z \in [SUBSET D -> Nat] /\ z[{}] = 0
    OBVIOUS
  <2> HIDE DEF z
  <2>2. ASSUME NEW s \in SUBSET D, Cardinality(s) <= 0 PROVE z[s] = SumBody(f, z)[s]
    <3>1. s = {}
      BY <2>2, NothingLeft
    <3>2. IsBody(SumBody(f, z), f, z, D)
      BY BodyFacts
    <3> QED  BY <2>1, <3>1, <3>2 DEF IsBody
  <2> QED  BY <2>1, <2>2
<1>4. ASSUME NEW n \in Nat, n \in T PROVE n + 1 \in T
  <2>1. PICK g \in [SUBSET D -> Nat] : Upto(g, n)
    BY <1>4
  <2> DEFINE h == SumBody(f, g)
  <2>2. h \in [SUBSET D -> Nat] /\ IsBody(h, f, g, D) /\ IsBody(SumBody(f, h), f, h, D)
    BY BodyFacts
  <2> HIDE DEF h
  <2>3. ASSUME NEW s \in SUBSET D, Cardinality(s) <= n + 1 PROVE h[s] = SumBody(f, h)[s]
    <3>1. CASE s = {}
      BY <2>2, <3>1 DEF IsBody
    <3>2. CASE s # {}
      <4>1. Pick(s) \in s /\ h[s] = f[Pick(s)] + g[s \ {Pick(s)}]
        BY <2>2, <3>2 DEF IsBody
      <4>2. SumBody(f, h)[s] = f[Pick(s)] + h[s \ {Pick(s)}]
        BY <2>2, <3>2 DEF IsBody
      <4>3. s \ {Pick(s)} \in SUBSET D /\ Cardinality(s \ {Pick(s)}) <= n
        BY <2>3, <4>1, TakeOut
      <4>4. g[s \ {Pick(s)}] = h[s \ {Pick(s)}]
        BY <2>1, <4>3 DEF h
      <4> QED  BY <4>1, <4>2, <4>4
    <3> QED  BY <3>1, <3>2
  <2>4. Upto(h, n + 1)
    BY <2>3
  <2> QED  BY <2>2, <2>4
<1> HIDE DEF T
<1>5. Cardinality(D) \in T
  BY <1>3, <1>4, SetInduction, FS_CardinalityType
<1>6. PICK g \in [SUBSET D -> Nat] : Upto(g, Cardinality(D))
  BY <1>5 DEF T
<1>7. \A s \in SUBSET D : g[s] = SumBody(f, g)[s]
  BY <1>6, FS_Subset
<1>8. g = SumBody(f, g)
  <2>1. SumBody(f, g) \in [SUBSET D -> Nat]
    BY BodyFacts
  <2> QED  BY <1>7, <2>1
<1> QED  BY <1>8

\* S has the sum of f over each subset of D.
IsSumOf(S, f, D) ==
  /\ S \in [SUBSET D -> Nat]
  /\ S[{}] = 0
  /\ \A s \in SUBSET D : \A x \in s : S[s] = f[x] + S[s \ {x}]

\* A sum is that of any one element and the rest.
LEMMA SumsFacts ==
  ASSUME NEW D, IsFiniteSet(D), NEW f \in [D -> Nat]
  PROVE  IsSumOf(Sums(f), f, D)
<1> DEFINE S == Sums(f)
<1>1. S = SumBody(f, S)
  BY SumsExist DEF Sums
<1> HIDE DEF S
<1>2. IsBody(S, f, S, D)
  <2>1. IsBody(SumBody(f, S), f, S, D)
    BY BodyFacts
  <2> QED  BY <1>1, <2>1, Zenon
<1>3. /\ S = [s \in SUBSET D |-> S[s]] /\ S[{}] = 0
      /\ \A s \in SUBSET D : s # {} => Pick(s) \in s /\ S[s] = f[Pick(s)] + S[s \ {Pick(s)}]
  BY <1>2 DEF IsBody
<1> DEFINE Good(s) == S[s] \in Nat /\ \A x \in s : S[s] = f[x] + S[s \ {x}]
           T == {n \in Nat : \A s \in SUBSET D : Cardinality(s) <= n => Good(s)}
<1>5. 0 \in T
  <2>1. ASSUME NEW s \in SUBSET D, Cardinality(s) <= 0 PROVE Good(s)
    <3>1. s = {}
      BY <2>1, NothingLeft
    <3> QED  BY <1>3, <3>1
  <2> QED  BY <2>1
<1>6. ASSUME NEW n \in Nat, n \in T PROVE n + 1 \in T
  <2> SUFFICES ASSUME NEW s \in SUBSET D, Cardinality(s) <= n + 1 PROVE Good(s)
    OBVIOUS
  <2>1. CASE s = {}
    BY <1>3, <2>1
  <2>2. CASE s # {}
    <3> DEFINE c == Pick(s)
    <3>1. c \in s /\ S[s] = f[c] + S[s \ {c}]
      BY <1>3, <2>2
    <3> HIDE DEF c
    <3>2. \A x \in s : s \ {x} \in SUBSET D /\ Cardinality(s \ {x}) <= n
      BY TakeOut
    <3>3. \A x \in s : S[s \ {x}] \in Nat /\ f[x] \in Nat
      BY <1>6, <3>2
    <3>4. ASSUME NEW x \in s PROVE S[s] = f[x] + S[s \ {x}]
      <4>1. CASE x = c
        BY <3>1, <4>1
      <4>2. CASE x # c
        <5>1. S[s \ {c}] = f[x] + S[(s \ {c}) \ {x}]
          BY <1>6, <3>1, <3>2, <4>2
        <5>2. S[s \ {x}] = f[c] + S[(s \ {x}) \ {c}]
          BY <1>6, <3>1, <3>2, <4>2
        <5>3. (s \ {c}) \ {x} = (s \ {x}) \ {c}
          OBVIOUS
        <5>4. S[(s \ {x}) \ {c}] \in Nat
          <6>1. (s \ {x}) \ {c} \in SUBSET D /\ Cardinality((s \ {x}) \ {c}) <= n
            <7>1. s \ {x} \in SUBSET D /\ c \in s \ {x} /\ Cardinality(s \ {x}) <= n
              BY <3>1, <3>2, <4>2
            <7> QED  BY <7>1, TakeOut
          <6> QED  BY <1>6, <6>1
        <5>5. S[s] = f[c] + (f[x] + S[(s \ {x}) \ {c}])
          BY <3>1, <5>1, <5>3
        <5>6. f[c] \in Nat /\ f[x] \in Nat
          BY <3>1, <3>3
        <5>7. \A i, j, k \in Nat : i + (j + k) = j + (i + k)
          OBVIOUS
        <5> QED  BY <5>2, <5>4, <5>5, <5>6, <5>7
      <4> QED  BY <4>1, <4>2
    <3>5. S[s] \in Nat
      BY <3>1, <3>3
    <3> QED  BY <3>4, <3>5
  <2> QED  BY <2>1, <2>2
<1> HIDE DEF T
<1>7. Cardinality(D) \in T
  BY <1>5, <1>6, SetInduction, FS_CardinalityType
<1>8. \A s \in SUBSET D : Good(s)
  <2>1. \A s \in SUBSET D : Cardinality(s) <= Cardinality(D)
    BY FS_Subset
  <2> QED  BY <1>7, <2>1 DEF T
<1>9. S \in [SUBSET D -> Nat]
  <2>1. \A s \in SUBSET D : S[s] \in Nat
    BY <1>8
  <2> QED  BY <1>3, <2>1
<1>10. IsSumOf(S, f, D)
  BY <1>3, <1>8, <1>9 DEF IsSumOf
<1> QED  BY <1>10 DEF S

\* Functions that agree on a set have the same sum over it.
LEMMA SameSums ==
  ASSUME NEW D, IsFiniteSet(D), NEW f \in [D -> Nat], NEW g \in [D -> Nat],
         NEW u \in SUBSET D, \A y \in u : f[y] = g[y]
  PROVE  Sums(f)[u] = Sums(g)[u]
<1> DEFINE F == Sums(f)
           G == Sums(g)
           T == {n \in Nat : \A s \in SUBSET u : Cardinality(s) <= n => F[s] = G[s]}
<1>1. /\ F[{}] = 0 /\ G[{}] = 0
      /\ \A s \in SUBSET D : \A x \in s : F[s] = f[x] + F[s \ {x}]
      /\ \A s \in SUBSET D : \A x \in s : G[s] = g[x] + G[s \ {x}]
  <2>1. IsSumOf(F, f, D)
    BY SumsFacts
  <2>2. IsSumOf(G, g, D)
    BY SumsFacts
  <2> HIDE DEF F, G
  <2> QED  BY <2>1, <2>2 DEF IsSumOf
<1> HIDE DEF F, G
<1>2. 0 \in T
  <2>1. ASSUME NEW s \in SUBSET u, Cardinality(s) <= 0 PROVE F[s] = G[s]
    <3>1. s \in SUBSET D
      OBVIOUS
    <3>2. s = {}
      BY <2>1, <3>1, NothingLeft
    <3> QED  BY <1>1, <3>2
  <2> QED  BY <2>1
<1>3. ASSUME NEW n \in Nat, n \in T PROVE n + 1 \in T
  <2> SUFFICES ASSUME NEW s \in SUBSET u, Cardinality(s) <= n + 1 PROVE F[s] = G[s]
    OBVIOUS
  <2>1. CASE s = {}
    BY <1>1, <2>1
  <2>2. CASE s # {}
    <3>1. PICK x \in s : TRUE
      BY <2>2
    <3>2. s \in SUBSET D /\ s \ {x} \in SUBSET u
      OBVIOUS
    <3>3. Cardinality(s \ {x}) <= n
      BY <3>1, <3>2, TakeOut
    <3>4. F[s \ {x}] = G[s \ {x}]
      BY <1>3, <3>2, <3>3
    <3>5. F[s] = f[x] + F[s \ {x}] /\ G[s] = g[x] + G[s \ {x}]
      BY <1>1, <3>1, <3>2
    <3> QED  BY <3>1, <3>4, <3>5
  <2> QED  BY <2>1, <2>2
<1> HIDE DEF T
<1>4. IsFiniteSet(u) /\ Cardinality(u) \in Nat
  BY FS_Subset, FS_CardinalityType
<1>5. Cardinality(u) \in T
  BY <1>2, <1>3, <1>4, SetInduction
<1> QED  BY <1>4, <1>5 DEF T, F, G

\* g is f with one more at x.
Raised(g, f, D, x) == g[x] = f[x] + 1 /\ \A y \in D : y # x => g[y] = f[y]

\* One more of one value is one more in the sum.
LEMMA SumRaised ==
  ASSUME NEW D, IsFiniteSet(D), NEW f \in [D -> Nat], NEW g \in [D -> Nat],
         NEW x \in D, Raised(g, f, D, x)
  PROVE  /\ SumFunction(g) = SumFunction(f) + 1
         /\ SumFunction(f) \in Nat
<1>0. g[x] = f[x] + 1 /\ \A y \in D : y # x => g[y] = f[y]
  BY DEF Raised
<1>1. SumFunction(f) = Sums(f)[D] /\ SumFunction(g) = Sums(g)[D]
  BY SumDef
<1>2. D \in SUBSET D /\ D \ {x} \in SUBSET D
  OBVIOUS
<1>3. Sums(f)[D] = f[x] + Sums(f)[D \ {x}] /\ Sums(f) \in [SUBSET D -> Nat]
  <2>1. IsSumOf(Sums(f), f, D)
    BY SumsFacts
  <2> QED  BY <1>2, <2>1 DEF IsSumOf
<1>4. Sums(g)[D] = g[x] + Sums(g)[D \ {x}]
  <2>1. IsSumOf(Sums(g), g, D)
    BY SumsFacts
  <2> QED  BY <1>2, <2>1 DEF IsSumOf
<1>5. Sums(f)[D \ {x}] = Sums(g)[D \ {x}]
  BY <1>0, <1>2, SameSums
<1>6. Sums(f)[D \ {x}] \in Nat /\ Sums(f)[D] \in Nat /\ f[x] \in Nat
  BY <1>2, <1>3
<1> DEFINE rest == Sums(f)[D \ {x}]
<1>7. Sums(g)[D] = (f[x] + 1) + rest /\ Sums(f)[D] = f[x] + rest
  BY <1>0, <1>3, <1>4, <1>5
<1> HIDE DEF rest
<1>8. \A a, b, c \in Nat : (a + b) + c = (a + c) + b
  OBVIOUS
<1> QED  BY <1>1, <1>6, <1>7, <1>8 DEF rest

CountsOf(l) == [k \in DOMAIN l |-> l[k].count]

\* The sum of the first k counts.
UpTo(l, k) == Sums(CountsOf(l))[1..k]

LEMMA UpToFacts ==
  ASSUME NEW l \in Seq(Stat)
  PROVE  /\ UpTo(l, 0) = 0
         /\ \A k \in 0..Len(l) : UpTo(l, k) \in Nat
         /\ \A k \in 1..Len(l) : UpTo(l, k) = l[k].count + UpTo(l, k - 1)
         /\ SumFunction(CountsOf(l)) = UpTo(l, Len(l))
<1> DEFINE D == 1..Len(l)
           f == CountsOf(l)
<1>1. IsFiniteSet(D) /\ DOMAIN l = D
  BY FS_Interval
<1>2. f \in [D -> Nat] /\ DOMAIN f = D /\ \A k \in D : f[k] = l[k].count
  BY <1>1, StatNumbers DEF CountsOf, Numbers
<1> HIDE DEF f
<1>3. /\ Sums(f) \in [SUBSET D -> Nat] /\ Sums(f)[{}] = 0
      /\ \A s \in SUBSET D : \A x \in s : Sums(f)[s] = f[x] + Sums(f)[s \ {x}]
  <2> HIDE DEF D
  <2>1. IsSumOf(Sums(f), f, D)
    BY <1>1, <1>2, SumsFacts
  <2> QED  BY <2>1 DEF IsSumOf
<1>4. ASSUME NEW k \in 0..Len(l) PROVE 1..k \in SUBSET D
  OBVIOUS
<1>5. 1..0 = {}
  OBVIOUS
<1>6. ASSUME NEW k \in 1..Len(l) PROVE Sums(f)[1..k] = l[k].count + Sums(f)[1..(k - 1)]
  <2>1. 1..k \in SUBSET D /\ k \in 1..k /\ (1..k) \ {k} = 1..(k - 1)
    OBVIOUS
  <2>2. Sums(f)[1..k] = f[k] + Sums(f)[(1..k) \ {k}]
    BY <1>3, <2>1
  <2> QED  BY <1>2, <2>1, <2>2
<1>7. SumFunction(f) = Sums(f)[1..Len(l)]
  BY <1>2, SumDef
<1> QED  BY <1>3, <1>4, <1>5, <1>6, <1>7 DEF UpTo, f

\* Moving an entry that is counted up adds one to the sum.
LEMMA MovedSum ==
  ASSUME NEW l \in Seq(Stat), NEW m \in Seq(Stat), NEW i \in DOMAIN l, NEW p \in 1..i,
         Moved(m, l, i, p, Counted(l[i]))
  PROVE  UpTo(m, Len(m)) = UpTo(l, Len(l)) + 1
<1> DEFINE n == Len(l)
           c == l[i].count + 1
           A(k) == UpTo(m, k)
           B(k) == UpTo(l, k)
           Agree(k) == /\ k < p => A(k) = B(k)
                       /\ p <= k /\ k < i => A(k) = B(k - 1) + c
                       /\ i <= k => A(k) = B(k) + 1
           T == {k \in Nat : k <= n => Agree(k)}
<1>1. /\ Len(m) = n /\ n \in Nat /\ i \in 1..n /\ p \in 1..n /\ p <= i /\ l[i].count \in Nat
      /\ m[p].count = c
      /\ \A k \in 1..(p - 1) : m[k] = l[k]
      /\ \A k \in (p + 1)..i : m[k] = l[k - 1]
      /\ \A k \in (i + 1)..n : m[k] = l[k]
  BY StatNumbers DEF Moved, Counted, Numbers
<1>2. /\ A(0) = 0 /\ \A k \in 0..n : A(k) \in Nat
      /\ \A k \in 1..n : A(k) = m[k].count + A(k - 1)
  BY <1>1, UpToFacts
<1>3. /\ B(0) = 0 /\ \A k \in 0..n : B(k) \in Nat
      /\ \A k \in 1..n : B(k) = l[k].count + B(k - 1)
  BY UpToFacts
<1>4. \A k \in 1..n : l[k].count \in Nat
  BY StatNumbers DEF Numbers
<1> HIDE DEF n, A, B
<1>5. 0 \in T
  BY <1>1, <1>2, <1>3
<1>6. ASSUME NEW k \in Nat, k \in T PROVE k + 1 \in T
  <2> DEFINE j == k + 1
  <2> SUFFICES ASSUME j <= n PROVE Agree(j)
    OBVIOUS
  <2>0. j \in Nat /\ j = k + 1 /\ k <= n /\ k < j
    BY <1>1
  <2>1. Agree(k)
    BY <1>6, <2>0
  <2> HIDE DEF j
  <2>2. j \in 1..n /\ k \in 0..n /\ j - 1 = k
    BY <1>1, <2>0
  <2>3. A(k) \in Nat /\ B(k) \in Nat /\ l[j].count \in Nat /\ c \in Nat /\ c = l[i].count + 1
    <3>1. A(k) \in Nat /\ B(k) \in Nat
      BY <1>2, <1>3, <2>2
    <3>2. l[j].count \in Nat
      BY <1>4, <2>2
    <3>3. c \in Nat /\ c = l[i].count + 1
      BY <1>1
    <3> QED  BY <3>1, <3>2, <3>3
  <2> HIDE DEF c
  <2>4. A(j) = m[j].count + A(k) /\ B(j) = l[j].count + B(k) /\ A(j) \in Nat /\ B(j) \in Nat
    <3>1. j \in 0..n
      BY <1>1, <2>2
    <3> QED  BY <1>2, <1>3, <2>2, <3>1
  <2>5. CASE j < p
    <3>1. j \in 1..(p - 1) /\ k < p /\ ~(p <= j) /\ ~(i <= j)
      BY <1>1, <2>0, <2>2, <2>5
    <3>2. A(j) = B(j)
      BY <1>1, <2>1, <2>4, <3>1
    <3> QED  BY <3>1, <3>2
  <2>6. CASE j = p
    <3>1. k < p /\ ~(j < p)
      BY <1>1, <2>0, <2>6
    <3>2. A(j) = c + B(k)
      BY <1>1, <2>1, <2>4, <2>6, <3>1
    <3>3. CASE p < i
      <4>1. A(j) = B(j - 1) + c /\ ~(i <= j)
        BY <1>1, <2>2, <2>3, <2>6, <3>2, <3>3
      <4> QED  BY <3>1, <4>1
    <3>4. CASE p = i
      <4>1. A(j) = B(j) + 1 /\ ~(j < i)
        <5>1. (l[j].count + 1) + B(k) = (l[j].count + B(k)) + 1
          <6>1. \A a, b \in Nat : (a + 1) + b = (a + b) + 1
            OBVIOUS
          <6>2. l[j].count \in Nat /\ B(k) \in Nat
            BY <2>3
          <6> QED  BY ONLY <6>1, <6>2
        <5>2. l[i] = l[j]
          BY <2>6, <3>4
        <5>3. A(j) = (l[j].count + 1) + B(k)
          BY <2>3, <3>2, <5>2
        <5> QED  BY <1>1, <2>4, <2>6, <3>4, <5>1, <5>3
      <4> QED  BY <3>1, <4>1
    <3> QED  BY <1>1, <3>3, <3>4
  <2>7. CASE p < j /\ j <= i
    <3>1. j \in (p + 1)..i /\ k \in 1..n /\ p <= k /\ k < i /\ k - 1 \in 0..n /\ ~(j < p)
      BY <1>1, <2>0, <2>2, <2>7
    <3>2. A(k) = B(k - 1) + c /\ B(k) = l[k].count + B(k - 1)
      BY <1>3, <2>1, <3>1
    <3>3. B(k - 1) \in Nat /\ l[k].count \in Nat /\ m[j] = l[k]
      BY <1>1, <1>3, <1>4, <2>2, <3>1
    <3>4. A(j) = B(k) + c
      <4>1. A(j) = l[k].count + (B(k - 1) + c)
        BY <2>4, <3>2, <3>3
      <4>2. l[k].count + (B(k - 1) + c) = (l[k].count + B(k - 1)) + c
        <5>1. \A a, b, d \in Nat : a + (b + d) = (a + b) + d
          OBVIOUS
        <5>2. l[k].count \in Nat /\ B(k - 1) \in Nat /\ c \in Nat
          BY <2>3, <3>3
        <5> QED  BY ONLY <5>1, <5>2
      <4> QED  BY <3>2, <4>1, <4>2
    <3>5. CASE j < i
      <4>1. A(j) = B(j - 1) + c /\ ~(i <= j)
        BY <1>1, <2>2, <3>4, <3>5
      <4> QED  BY <3>1, <4>1
    <3>6. CASE j = i
      <4>1. A(j) = B(j) + 1 /\ ~(j < i)
        <5>1. A(j) = B(k) + (l[j].count + 1)
          BY <2>3, <3>4, <3>6
        <5>2. B(k) + (l[j].count + 1) = (l[j].count + B(k)) + 1
          <6>1. \A a, b \in Nat : b + (a + 1) = (a + b) + 1
            OBVIOUS
          <6>2. l[j].count \in Nat /\ B(k) \in Nat
            BY <2>3
          <6> QED  BY ONLY <6>1, <6>2
        <5>3. ~(j < i)
          BY <1>1, <3>6
        <5> QED  BY ONLY <2>4, <5>1, <5>2, <5>3
      <4> QED  BY <3>1, <4>1
    <3>7. j < i \/ j = i
      <4>1. i \in Nat /\ j \in Nat /\ j <= i
        BY <1>1, <2>0, <2>7
      <4> QED  BY <4>1
    <3> QED  BY <3>5, <3>6, <3>7, Zenon
  <2>8. CASE i < j
    <3>1. j \in (i + 1)..n /\ i <= k /\ ~(j < p) /\ ~(j < i)
      BY <1>1, <2>0, <2>2, <2>8
    <3>2. A(k) = B(k) + 1 /\ m[j] = l[j]
      BY <1>1, <2>1, <3>1
    <3>3. A(j) = B(j) + 1
      <4>1. A(j) = l[j].count + (B(k) + 1)
        BY <2>4, <3>2
      <4>2. \A a, b \in Nat : a + (b + 1) = (a + b) + 1
        OBVIOUS
      <4>3. l[j].count + (B(k) + 1) = (l[j].count + B(k)) + 1
        <5>1. l[j].count \in Nat /\ B(k) \in Nat
          BY <2>3
        <5> QED  BY ONLY <4>2, <5>1
      <4> QED  BY ONLY <2>4, <4>1, <4>3
    <3> QED  BY <3>1, <3>3
  <2> QED  BY <1>1, <2>0, <2>5, <2>6, <2>7, <2>8
<1> HIDE DEF T
<1>7. n \in T
  BY <1>1, <1>5, <1>6, SetInduction
<1> QED  BY <1>1, <1>7 DEF T, A, B, n

\* A new entry adds its count of one.
LEMMA AppendedSum ==
  ASSUME NEW l \in Seq(Stat), NEW e \in Stat, e.count = 1
  PROVE  UpTo(Append(l, e), Len(l) + 1) = UpTo(l, Len(l)) + 1
<1> DEFINE n == Len(l)
           m == Append(l, e)
           T == {k \in Nat : k <= n => UpTo(m, k) = UpTo(l, k)}
<1>1. /\ m \in Seq(Stat) /\ Len(m) = n + 1 /\ n \in Nat /\ m[n + 1] = e
      /\ \A k \in 1..n : m[k] = l[k]
  OBVIOUS
<1> HIDE DEF m
<1>2. /\ UpTo(m, 0) = 0 /\ UpTo(l, 0) = 0 /\ UpTo(l, n) \in Nat
      /\ \A k \in 1..(n + 1) : UpTo(m, k) = m[k].count + UpTo(m, k - 1)
      /\ \A k \in 1..n : UpTo(l, k) = l[k].count + UpTo(l, k - 1)
  <2>1. /\ UpTo(m, 0) = 0
        /\ \A k \in 1..(n + 1) : UpTo(m, k) = m[k].count + UpTo(m, k - 1)
    <3>1. m \in Seq(Stat) /\ Len(m) = n + 1
      BY <1>1
    <3> HIDE DEF n
    <3> QED  BY ONLY <3>1, UpToFacts
  <2>2. /\ UpTo(l, 0) = 0
        /\ \A k \in 0..n : UpTo(l, k) \in Nat
        /\ \A k \in 1..n : UpTo(l, k) = l[k].count + UpTo(l, k - 1)
    BY UpToFacts
  <2> HIDE DEF n
  <2>3. n \in 0..n
    BY <1>1
  <2> QED  BY <2>1, <2>2, <2>3
<1> HIDE DEF n
<1>3. 0 \in T
  BY <1>2
<1>4. ASSUME NEW k \in Nat, k \in T PROVE k + 1 \in T
  <2> SUFFICES ASSUME k + 1 <= n PROVE UpTo(m, k + 1) = UpTo(l, k + 1)
    OBVIOUS
  <2>1. k + 1 \in 1..n /\ k + 1 \in 1..(n + 1) /\ (k + 1) - 1 = k /\ k <= n
    BY <1>1
  <2>2. UpTo(m, k + 1) = m[k + 1].count + UpTo(m, k) /\ UpTo(l, k + 1) = l[k + 1].count + UpTo(l, k)
    BY <1>2, <2>1
  <2> QED  BY <1>1, <1>4, <2>1, <2>2
<1> HIDE DEF T
<1>5. UpTo(m, n) = UpTo(l, n)
  <2>1. n \in T
    BY <1>1, <1>3, <1>4, SetInduction
  <2> QED  BY <1>1, <2>1 DEF T
<1>6. UpTo(m, n + 1) = 1 + UpTo(m, n)
  <2>1. n + 1 \in 1..(n + 1) /\ (n + 1) - 1 = n
    BY <1>1
  <2> QED  BY <1>1, <1>2, <2>1
<1> QED  BY <1>2, <1>5, <1>6 DEF m, n

\* A restart adds at most one to what the list counts.
LEMMA ListSum ==
  ASSUME NEW l \in Seq(Stat), NEW ip \in Ips, add_inlineasm_restart(l, ip) \in Seq(Stat)
  PROVE  LET m == add_inlineasm_restart(l, ip) IN
         /\ SumFunction(CountsOf(l)) \in Nat /\ SumFunction(CountsOf(m)) \in Nat
         /\ SumFunction(CountsOf(m)) <= SumFunction(CountsOf(l)) + 1
<1> DEFINE m == add_inlineasm_restart(l, ip)
<1>1. /\ SumFunction(CountsOf(l)) = UpTo(l, Len(l)) /\ SumFunction(CountsOf(m)) = UpTo(m, Len(m))
      /\ UpTo(l, Len(l)) \in Nat /\ UpTo(m, Len(m)) \in Nat
  <2>1. Len(l) \in 0..Len(l) /\ Len(m) \in 0..Len(m)
    OBVIOUS
  <2> QED  BY <2>1, UpToFacts
<1>2. CASE \E k \in DOMAIN l : l[k].ip = ip
  <2>1. PICK i \in DOMAIN l : \E p \in 1..i : Moved(m, l, i, p, Counted(l[i]))
    BY <1>2, UpIsMove
  <2>2. UpTo(m, Len(m)) = UpTo(l, Len(l)) + 1
    BY <2>1, MovedSum
  <2> QED  BY <1>1, <2>2
<1>3. CASE ~(\E k \in DOMAIN l : l[k].ip = ip) /\ HasRoom(l)
  <2>1. m = Append(l, NewStat(ip)) /\ NewStat(ip) \in Stat /\ NewStat(ip).count = 1
    BY <1>3 DEF add_inlineasm_restart, NewStat, Stat
  <2>2. Len(m) = Len(l) + 1
    BY <2>1
  <2>3. UpTo(m, Len(m)) = UpTo(l, Len(l)) + 1
    BY <2>1, <2>2, AppendedSum
  <2> QED  BY <1>1, <2>3
<1>4. CASE ~(\E k \in DOMAIN l : l[k].ip = ip) /\ ~HasRoom(l)
  <2>1. m = l
    BY <1>4 DEF add_inlineasm_restart
  <2> QED  BY <1>1, <2>1
<1> QED  BY <1>2, <1>3, <1>4

\* Zeros add up to zero.
LEMMA ZeroSum ==
  ASSUME NEW D, IsFiniteSet(D), NEW f \in [D -> Nat], \A x \in D : f[x] = 0
  PROVE  SumFunction(f) = 0
<1> DEFINE S == Sums(f)
           T == {n \in Nat : \A s \in SUBSET D : Cardinality(s) <= n => S[s] = 0}
<1>1. S[{}] = 0 /\ \A s \in SUBSET D : \A x \in s : S[s] = f[x] + S[s \ {x}]
  <2>1. IsSumOf(S, f, D)
    BY SumsFacts
  <2> HIDE DEF S
  <2> QED  BY <2>1 DEF IsSumOf
<1>2. SumFunction(f) = S[D]
  BY SumDef
<1> HIDE DEF S
<1>3. 0 \in T
  <2>1. ASSUME NEW s \in SUBSET D, Cardinality(s) <= 0 PROVE S[s] = 0
    <3>1. s = {}
      BY <2>1, NothingLeft
    <3> QED  BY <1>1, <3>1
  <2> QED  BY <2>1
<1>4. ASSUME NEW n \in Nat, n \in T PROVE n + 1 \in T
  <2> SUFFICES ASSUME NEW s \in SUBSET D, Cardinality(s) <= n + 1 PROVE S[s] = 0
    OBVIOUS
  <2>1. CASE s = {}
    BY <1>1, <2>1
  <2>2. CASE s # {}
    <3>1. PICK x \in s : TRUE
      BY <2>2
    <3>2. s \ {x} \in SUBSET D /\ Cardinality(s \ {x}) <= n
      BY <3>1, TakeOut
    <3>3. S[s] = f[x] + S[s \ {x}] /\ f[x] = 0
      BY <1>1, <3>1
    <3>4. S[s \ {x}] = 0
      BY <1>4, <3>2
    <3> QED  BY <3>3, <3>4
  <2> QED  BY <2>1, <2>2
<1> HIDE DEF T
<1>5. Cardinality(D) \in Nat
  BY FS_CardinalityType
<1>6. Cardinality(D) \in T
  BY <1>3, <1>4, <1>5, SetInduction
<1> QED  BY <1>2, <1>5, <1>6 DEF T

-----------------------------------------------------------------------------
(* The counters *)

\* A single restart occurs once.
LEMMA OneOccurrence ==
  ASSUME NEW t, NEW x
  PROVE  Occurrences(<<t>>, x) = IF x = t THEN 1 ELSE 0
<1> DEFINE K == {k \in DOMAIN <<t>> : <<t>>[k] = x}
<1>1. K = IF x = t THEN {1} ELSE {}
  OBVIOUS
<1> QED  BY <1>1, FS_EmptySet, FS_Singleton DEF Occurrences

\* A restart and the page fault in its counting occur once each.
LEMMA TwoOccurrences ==
  ASSUME NEW t, NEW u, t # u, NEW x
  PROVE  Occurrences(<<t, u>>, x) = IF x \in {t, u} THEN 1 ELSE 0
<1> DEFINE K == {k \in DOMAIN <<t, u>> : <<t, u>>[k] = x}
<1>1. K = IF x = t THEN {1} ELSE IF x = u THEN {2} ELSE {}
  OBVIOUS
<1> QED  BY <1>1, FS_EmptySet, FS_Singleton DEF Occurrences

\* The counters after one restart.
LEMMA CountedOne ==
  ASSUME NEW f \in [Types -> Nat], NEW t \in Types, NEW g,
         g = [x \in Types |-> f[x] + Occurrences(<<t>>, x)]
  PROVE  /\ g \in [Types -> Nat]
         /\ \A x \in Types : g[x] = f[x] + IF x = t THEN 1 ELSE 0
         /\ SumFunction(f) \in Nat
         /\ SumFunction(g) = SumFunction(f) + 1
<1>1. \A x \in Types : g[x] = f[x] + IF x = t THEN 1 ELSE 0
  BY OneOccurrence
<1>2. g \in [Types -> Nat]
  <2>1. \A x \in Types : g[x] \in Nat
    BY <1>1
  <2> QED  BY <2>1
<1>3. Raised(g, f, Types, t)
  BY <1>1 DEF Raised
<1>4. IsFiniteSet(Types)
  BY RestartStatsAssumption
<1>5. SumFunction(f) \in Nat /\ SumFunction(g) = SumFunction(f) + 1
  BY <1>2, <1>3, <1>4, SumRaised
<1> QED  BY <1>1, <1>2, <1>5

\* The counters after a restart that faults while it is recorded.
LEMMA CountedTwo ==
  ASSUME NEW f \in [Types -> Nat], NEW t \in Types, NEW u \in Types, t # u, NEW g,
         g = [x \in Types |-> f[x] + Occurrences(<<t, u>>, x)]
  PROVE  /\ g \in [Types -> Nat]
         /\ \A x \in Types : g[x] = f[x] + IF x \in {t, u} THEN 1 ELSE 0
         /\ SumFunction(f) \in Nat
         /\ SumFunction(g) = SumFunction(f) + 2
<1> DEFINE h == [x \in Types |-> f[x] + Occurrences(<<t>>, x)]
<1>1. \A x \in Types : g[x] = f[x] + IF x \in {t, u} THEN 1 ELSE 0
  BY TwoOccurrences
<1>2. g \in [Types -> Nat]
  <2>1. \A x \in Types : g[x] \in Nat
    BY <1>1
  <2> QED  BY <2>1
<1>3. /\ h \in [Types -> Nat] /\ \A x \in Types : h[x] = f[x] + IF x = t THEN 1 ELSE 0
      /\ SumFunction(f) \in Nat /\ SumFunction(h) = SumFunction(f) + 1
  BY CountedOne
<1> HIDE DEF h
<1>4. Raised(g, h, Types, u)
  BY <1>1, <1>3 DEF Raised
<1>5. IsFiniteSet(Types) /\ h \in [Types -> Nat]
  BY <1>3, RestartStatsAssumption
<1>6. SumFunction(g) = SumFunction(h) + 1
  BY <1>2, <1>4, <1>5, SumRaised
<1> QED  BY <1>1, <1>2, <1>3, <1>6

-----------------------------------------------------------------------------
(* The inductive invariant *)

\* CountersAgree, of given counters and a given list.
Agrees(n, f, l) ==
  /\ n = SumFunction(f)
  /\ SumFunction(CountsOf(l)) \in Nat
  /\ SumFunction(CountsOf(l)) <= f["CALL_INLINE_ASM"]

Inv ==
  /\ TypeOK
  /\ Listed(list) /\ Decreasing(list) /\ Exact(list, recorded)
  /\ Agrees(total, counts, list)

\* It implies what the runs check.
LEMMA InvImplies == Inv => TypeOK /\ ListCorrect /\ CountersAgree
<1>1. Inv => ListCorrect
  BY DEF Inv, ListCorrect, Sorted, ListExact, Decreasing, Exact
<1>2. Inv => CountersAgree
  BY DEF Inv, Agrees, CountersAgree, CountsOf
<1> QED  BY <1>1, <1>2 DEF Inv

\* Nothing is counted at first.
LEMMA InitInv == Init => Inv
<1> SUFFICES ASSUME Init PROVE Inv
  OBVIOUS
<1> USE DEF Init
<1>1. TypeOK
  <2>1. list \in Seq(Stat) /\ Len(list) <= NumIps
    BY RestartStatsAssumption
  <2>2. counts \in [Types -> Nat] /\ recorded \in [Ips -> Nat] /\ total \in Nat
    OBVIOUS
  <2> QED  BY <2>1, <2>2 DEF TypeOK
<1>2. Listed(list) /\ Decreasing(list) /\ Exact(list, recorded)
  BY DEF Listed, Decreasing, Exact
<1>3. SumFunction(counts) = 0
  <2>1. counts \in [Types -> Nat] /\ \A t \in Types : counts[t] = 0
    OBVIOUS
  <2>2. IsFiniteSet(Types)
    BY RestartStatsAssumption
  <2> QED  BY <2>1, <2>2, ZeroSum
<1>4. SumFunction(CountsOf(list)) = 0
  <2>1. list \in Seq(Stat) /\ Len(list) = 0
    OBVIOUS
  <2>2. SumFunction(CountsOf(list)) = UpTo(list, Len(list)) /\ UpTo(list, 0) = 0
    BY <2>1, UpToFacts
  <2> QED  BY <2>1, <2>2
<1>5. counts["CALL_INLINE_ASM"] = 0
  BY RestartStatsAssumption
<1> QED  BY <1>1, <1>2, <1>3, <1>4, <1>5 DEF Inv, Agrees

\* A restart of inline assembly that the list records.
LEMMA RecordedInv ==
  ASSUME Inv, NEW ip \in Ips, count(<<"CALL_INLINE_ASM">>),
         list' = add_inlineasm_restart(list, ip),
         recorded' = [recorded EXCEPT ![ip] = @ + 1],
         UNCHANGED <<init_done, stats_enabled, allocated>>
  PROVE  Inv'
<1> DEFINE C == "CALL_INLINE_ASM"
<1>1. /\ TypeOK /\ Listed(list) /\ Decreasing(list) /\ Exact(list, recorded)
      /\ Agrees(total, counts, list)
  BY DEF Inv
<1>2. /\ list \in Seq(Stat) /\ Len(list) <= NumIps /\ recorded \in [Ips -> Nat]
      /\ counts \in [Types -> Nat] /\ total \in Nat /\ C \in Types
  BY <1>1, RestartStatsAssumption DEF TypeOK
<1>3. /\ list' \in Seq(Stat) /\ Len(list') <= NumIps
      /\ Listed(list') /\ Decreasing(list') /\ Exact(list', recorded')
  <2>1. CASE \E k \in DOMAIN list : list[k].ip = ip
    BY <1>1, <1>2, <2>1, CountUp
  <2>2. CASE \A k \in DOMAIN list : list[k].ip # ip
    BY <1>1, <1>2, <2>2, AddNew
  <2> QED  BY <2>1, <2>2
<1>4. recorded' \in [Ips -> Nat]
  BY <1>2
<1>5. counts' = [x \in Types |-> counts[x] + Occurrences(<<C>>, x)] /\ total' = total + 1
  BY DEF count
<1>6. /\ counts' \in [Types -> Nat]
      /\ \A x \in Types : counts'[x] = counts[x] + IF x = C THEN 1 ELSE 0
      /\ SumFunction(counts') = SumFunction(counts) + 1
  BY <1>2, <1>5, CountedOne
<1>7. /\ SumFunction(CountsOf(list)) \in Nat /\ SumFunction(CountsOf(list')) \in Nat
      /\ SumFunction(CountsOf(list')) <= SumFunction(CountsOf(list)) + 1
  BY <1>2, <1>3, ListSum
<1>8. counts'[C] = counts[C] + 1 /\ counts[C] \in Nat
  BY <1>2, <1>6
<1>9. SumFunction(CountsOf(list')) <= counts'[C]
  <2>1. SumFunction(CountsOf(list)) <= counts[C]
    BY <1>1 DEF Agrees
  <2> QED  BY <1>7, <1>8, <2>1
<1>10. Agrees(total', counts', list')
  BY <1>1, <1>5, <1>6, <1>7, <1>9 DEF Agrees
<1>11. TypeOK'
  BY <1>1, <1>2, <1>3, <1>4, <1>5, <1>6 DEF TypeOK
<1> QED  BY <1>3, <1>10, <1>11 DEF Inv

\* A restart of which only the type is counted.
LEMMA CountedInv ==
  ASSUME Inv, NEW type \in Types, count(<<type>>),
         UNCHANGED <<init_done, stats_enabled, allocated, list, recorded>>
  PROVE  Inv'
<1> DEFINE C == "CALL_INLINE_ASM"
<1>1. TypeOK /\ Agrees(total, counts, list)
  BY DEF Inv
<1>2. counts \in [Types -> Nat] /\ total \in Nat /\ C \in Types
  BY <1>1, RestartStatsAssumption DEF TypeOK
<1>3. counts' = [x \in Types |-> counts[x] + Occurrences(<<type>>, x)] /\ total' = total + 1
  BY DEF count
<1>4. /\ counts' \in [Types -> Nat]
      /\ \A x \in Types : counts'[x] = counts[x] + IF x = type THEN 1 ELSE 0
      /\ SumFunction(counts') = SumFunction(counts) + 1
  BY <1>2, <1>3, CountedOne
<1>5. counts'[C] >= counts[C] /\ counts[C] \in Nat /\ counts'[C] \in Nat
  BY <1>2, <1>4
<1>6. Agrees(total', counts', list)
  <2>1. SumFunction(CountsOf(list)) <= counts'[C]
    BY <1>1, <1>5 DEF Agrees
  <2> QED  BY <1>1, <1>3, <1>4, <2>1 DEF Agrees
<1>7. TypeOK'
  BY <1>1, <1>2, <1>3, <1>4 DEF TypeOK
<1> QED  BY <1>6, <1>7 DEF Inv

\* A restart that faults while the list records it counts twice.
LEMMA FaultedInv ==
  ASSUME Inv, count(<<"CALL_INLINE_ASM", "PAGE_FAULT">>),
         UNCHANGED <<init_done, stats_enabled, allocated, list, recorded>>
  PROVE  Inv'
<1> DEFINE C == "CALL_INLINE_ASM"
           P == "PAGE_FAULT"
<1>1. TypeOK /\ Agrees(total, counts, list)
  BY DEF Inv
<1>2. counts \in [Types -> Nat] /\ total \in Nat /\ C \in Types /\ P \in Types /\ C # P
  BY <1>1, RestartStatsAssumption DEF TypeOK
<1>3. counts' = [x \in Types |-> counts[x] + Occurrences(<<C, P>>, x)] /\ total' = total + 2
  BY DEF count
<1>4. /\ counts' \in [Types -> Nat]
      /\ \A x \in Types : counts'[x] = counts[x] + IF x \in {C, P} THEN 1 ELSE 0
      /\ SumFunction(counts') = SumFunction(counts) + 2
  BY <1>2, <1>3, CountedTwo
<1>5. counts'[C] >= counts[C] /\ counts[C] \in Nat /\ counts'[C] \in Nat
  BY <1>2, <1>4
<1>6. Agrees(total', counts', list)
  <2>1. SumFunction(CountsOf(list)) <= counts'[C]
    BY <1>1, <1>5 DEF Agrees
  <2> QED  BY <1>1, <1>3, <1>4, <2>1 DEF Agrees
<1>7. TypeOK'
  BY <1>1, <1>2, <1>3, <1>4 DEF TypeOK
<1> QED  BY <1>6, <1>7 DEF Inv

\* Every step keeps the invariant.
LEMMA NextInv == Inv /\ [Next]_vars => Inv'
<1> SUFFICES ASSUME Inv, [Next]_vars PROVE Inv'
  OBVIOUS
<1>1. ASSUME NEW type \in Types, NEW ip \in Ips, Restart(type, ip) PROVE Inv'
  <2>1. CASE type = "CALL_INLINE_ASM" /\ stats_enabled /\ allocated
    BY <1>1, <2>1, RecordedInv DEF Restart
  <2>2. CASE type = "CALL_INLINE_ASM" /\ stats_enabled /\ ~allocated
    BY <1>1, <2>2, FaultedInv DEF Restart
  <2>3. CASE ~(type = "CALL_INLINE_ASM" /\ stats_enabled)
    BY <1>1, <2>3, CountedInv DEF Restart
  <2> QED  BY <2>1, <2>2, <2>3
<1>2. CASE LateInit
  BY <1>2 DEF LateInit, Inv, TypeOK
<1>3. CASE SetStatsEnabled
  BY <1>3 DEF SetStatsEnabled, Inv, TypeOK
<1>4. CASE UNCHANGED vars
  BY <1>4 DEF vars, Inv, TypeOK
<1> QED  BY <1>1, <1>2, <1>3, <1>4 DEF Next

-----------------------------------------------------------------------------
(* Theorems *)

\* The invariant holds in every reachable state.
LEMMA AlwaysInv == Spec => []Inv
BY InitInv, NextInv, PTL DEF Spec

\* The counters are numbers and kspecem_add_inlineasm_restart never writes
\* behind the array of NumIps entries.
THEOREM TypeCorrect == Spec => []TypeOK
<1>1. Inv => TypeOK
  BY InvImplies
<1> QED  BY <1>1, AlwaysInv, PTL

\* However restarts come, the list of kspecem_print_inlineasm_stats is sorted,
\* and counts an instruction exactly or, once it is full, not at all.
THEOREM ListAlwaysCorrect == Spec => []ListCorrect
<1>1. Inv => ListCorrect
  BY InvImplies
<1> QED  BY <1>1, AlwaysInv, PTL

\* kspecem_total_restarts is the sum of the counters of the types, also when
\* the counting of a restart faults, and the list has no more restarts than the
\* counter of inline assembly.
THEOREM CountersAlwaysAgree == Spec => []CountersAgree
<1>1. Inv => CountersAgree
  BY InvImplies
<1> QED  BY <1>1, AlwaysInv, PTL
=============================================================================
