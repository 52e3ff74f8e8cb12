------------------------------ MODULE LayoutProofs ------------------------------
(***************************************************************************)
(* However blocks nest and flush, no instruction is lost, doubled or moved *)
(* (EmissionOrder), the address of the next one is known while its scopes  *)
(* are open (ProgramAddressExact), and calls go where they were compiled   *)
(* to (CallsExact): for every program, depth of nesting and number of      *)
(* locals.                                                                 *)
(***************************************************************************)
EXTENDS Layout, FiniteSets, FiniteSetTheorems, SequenceTheorems, WellFoundedInduction, TLAPS

Listed(s) == s \in Seq({s[i] : i \in DOMAIN s})

(* The k-th list numbers the instructions behind ends[k - 1] up to ends[k].  *)
Runs(ends, list, n) ==
    /\ ends[0] = 0
    /\ ends[Len(list)] = n
    /\ \A k \in 1..Len(list) : ends[k] = ends[k - 1] + Len(list[k])
    /\ \A k \in 1..Len(list) : \A i \in 1..Len(list[k]) : list[k][i] = ends[k - 1] + i

Counted == \A k \in 1..Len(lists) : counts[k] = Len(lists[k])

InRuns == \E ends \in [0..Len(lists) -> Nat] : Runs(ends, lists, Len(instructions))

ListsInv ==
    /\ Listed(instructions)
    /\ lists \in Seq(Seq(Nat)) /\ Len(lists) >= 1
    /\ counts \in Seq(Nat) /\ Len(counts) = Len(lists)
    /\ Counted
    /\ InRuns

Blocks(frames) == {i \in DOMAIN frames : frames[i].kind = "block"}

(* Every block being parsed has a list of its own, behind the root's.       *)
BlocksInv ==
    /\ control \in Seq(Frames)
    /\ Len(lists) = Cardinality(Blocks(control)) + 1

LayoutInv == ListsInv /\ BlocksInv

-----------------------------------------------------------------------------
(* Sequences *)

LEMMA ListedParts ==
    ASSUME NEW s, NEW S, s \in Seq(S)
    PROVE  /\ Listed(s) /\ Len(s) \in Nat /\ DOMAIN s = 1..Len(s)
           /\ \A i \in 1..Len(s) : s[i] \in S
<1>1. /\ Len(s) \in Nat /\ DOMAIN s = 1..Len(s)
      /\ \A i \in 1..Len(s) : s[i] \in S
  OBVIOUS
<1>2. s \in [1..Len(s) -> {s[i] : i \in DOMAIN s}]
  BY <1>1
<1>3. Listed(s)
  <2> DEFINE T == {s[i] : i \in DOMAIN s}
             n == Len(s)
  <2>1. n \in Nat /\ s \in [1..n -> T]
    BY <1>1, <1>2
  <2> HIDE DEF T, n
  <2>2. s \in UNION {[1..k -> T] : k \in Nat}
    BY <2>1
  <2>3. s \in Seq(T)
    BY <2>2, SeqDef
  <2>4. QED
    BY <2>3 DEF Listed, T
<1>4. QED
  BY <1>1, <1>3

(* The first entries of a sequence.                                         *)
LEMMA FrontPart ==
    ASSUME NEW S, NEW s \in Seq(S), NEW m \in Nat, m <= Len(s)
    PROVE  /\ SubSeq(s, 1, m) \in Seq(S) /\ Len(SubSeq(s, 1, m)) = m
           /\ \A k \in 1..m : SubSeq(s, 1, m)[k] = s[k]
<1> DEFINE front == SubSeq(s, 1, m)
<1>1. \A k \in 1..m : k \in 1..Len(s)
  OBVIOUS
<1>2. \A k \in 1..m : s[k] \in S
  BY <1>1, ElementOfSeq
<1>3. /\ front \in Seq(S)
      /\ Len(front) = IF 1 <= m THEN m - 1 + 1 ELSE 0
      /\ \A k \in 1..(m - 1 + 1) : front[k] = s[1 + k - 1]
  BY <1>2, SubSeqProperties
<1> HIDE DEF front
<1>4. Len(front) = m
  BY <1>3
<1>5. ASSUME NEW k \in 1..m PROVE front[k] = s[k]
  <2>1. k \in 1..(m - 1 + 1) /\ 1 + k - 1 = k
    OBVIOUS
  <2>2. QED
    BY <1>3, <2>1
<1>6. QED
  BY <1>3, <1>4, <1>5 DEF front

(* What is appended, and what a patch rewrites, leaves a list a list.       *)
LEMMA ListedAfter ==
    ASSUME NEW s, Listed(s), NEW T, NEW t \in Seq(T)
    PROVE  Listed(s \o t) /\ Len(s \o t) = Len(s) + Len(t)
<1> DEFINE S == {s[i] : i \in DOMAIN s}
<1>1. s \in Seq(S)
  BY DEF Listed
<1> HIDE DEF S
<1>2. s \in Seq(S \cup T) /\ t \in Seq(S \cup T)
  BY <1>1
<1>3. s \o t \in Seq(S \cup T) /\ Len(s \o t) = Len(s) + Len(t)
  BY <1>2
<1>4. QED
  BY <1>3, ListedParts

LEMMA ListedRewritten ==
    ASSUME NEW s, Listed(s), NEW t, t = [i \in DOMAIN s |-> t[i]]
    PROVE  Listed(t) /\ Len(t) = Len(s)
<1>1. Len(s) \in Nat /\ DOMAIN s = 1..Len(s)
  BY DEF Listed
<1> DEFINE T == {t[i] : i \in 1..Len(s)}
<1>2. t \in [1..Len(s) -> T]
  BY <1>1
<1>3. t \in Seq(T) /\ Len(t) = Len(s)
  <2> HIDE DEF T
  <2>1. QED
    BY <1>1, <1>2
<1>4. QED
  BY <1>3, ListedParts

(* A property of 1 that passes from one number to the next holds up to n.   *)
LEMMA UpTo ==
    ASSUME NEW n \in Nat, NEW S, n >= 1 => 1 \in S,
           \A k \in 2..n : k - 1 \in S => k \in S
    PROVE  1..n \subseteq S
<1> DEFINE T == (1..n) \ S
<1>1. SUFFICES ASSUME T # {} PROVE FALSE
  OBVIOUS
<1>2. T \subseteq Nat
  OBVIOUS
<1>3. PICK x \in T : \A y \in T : ~(<<y, x>> \in OpToRel(<, Nat))
  BY <1>1, <1>2, NatLessThanWellFounded, WFMin
<1>4. \A y \in T : ~(y < x)
  BY <1>2, <1>3 DEF OpToRel
<1>5. x \in 2..n
  OBVIOUS
<1>6. x - 1 \in 1..n /\ x - 1 < x
  BY <1>5
<1>7. x - 1 \in S
  BY <1>4, <1>6
<1>8. QED
  BY <1>5, <1>7

-----------------------------------------------------------------------------
(* From runs to the two properties *)

(* upTo[k], the total of the first k counts, is where the k-th list ends.   *)
LEMMA AddressIsEnd ==
    ASSUME ListsInv
    PROVE  ProgramAddressExact
<1> DEFINE n == Len(lists)
           Sum(f) == f = [k \in DOMAIN counts |-> IF k = 1 THEN counts[1] ELSE f[k - 1] + counts[k]]
           upTo == CHOOSE f : Sum(f)
<1>1. PICK ends \in [0..n -> Nat] : Runs(ends, lists, Len(instructions))
  BY DEF ListsInv, InRuns
<1>2. /\ n \in Nat /\ n >= 1 /\ DOMAIN counts = 1..n
      /\ \A k \in 1..n : counts[k] \in Nat
      /\ \A k \in 1..n : ends[k] = ends[k - 1] + counts[k]
      /\ ends[0] = 0 /\ ends[n] = Len(instructions)
      /\ \A k \in 0..n : ends[k] \in Nat
  <2>1. n \in Nat /\ n >= 1 /\ DOMAIN counts = 1..n
    BY DEF ListsInv
  <2>2. \A k \in 1..n : counts[k] \in Nat
    BY DEF ListsInv
  <2>3. \A k \in 1..n : ends[k] = ends[k - 1] + counts[k]
    BY <1>1 DEF ListsInv, Counted, Runs
  <2>4. ends[0] = 0 /\ ends[n] = Len(instructions)
    BY <1>1 DEF Runs
  <2>5. \A k \in 0..n : ends[k] \in Nat
    BY <1>1
  <2>6. QED
    BY <2>1, <2>2, <2>3, <2>4, <2>5
<1>3. ProgramAddress = upTo[n]
  BY <1>2 DEF ProgramAddress, ListsInv
<1> HIDE DEF n
<1>4. Sum([k \in 1..n |-> ends[k]])
  <2> DEFINE f == [k \in 1..n |-> ends[k]]
  <2>1. ASSUME NEW k \in 1..n
        PROVE  f[k] = IF k = 1 THEN counts[1] ELSE f[k - 1] + counts[k]
    BY <1>2
  <2>2. QED
    BY <1>2, <2>1
<1>5. Sum(upTo)
  <2> HIDE DEF Sum
  <2>1. QED
    BY <1>4
<1> HIDE DEF upTo
<1>6. \A k \in 1..n : upTo[k] = IF k = 1 THEN counts[1] ELSE upTo[k - 1] + counts[k]
  BY <1>2, <1>5
<1> DEFINE S == {k \in 1..n : upTo[k] = ends[k]}
<1>7. 1..n \subseteq S
  <2>1. 1 \in S
    BY <1>2, <1>6
  <2>2. ASSUME NEW k \in 2..n, k - 1 \in S
        PROVE  k \in S
    <3>1. k \in 1..n /\ k # 1 /\ k - 1 \in 1..n
      BY <1>2, <2>2
    <3>2. upTo[k - 1] = ends[k - 1]
      BY <2>2
    <3>3. upTo[k] = upTo[k - 1] + counts[k] /\ ends[k] = ends[k - 1] + counts[k]
      BY <1>2, <1>6, <3>1
    <3>4. QED
      BY <3>1, <3>2, <3>3
  <2> HIDE DEF S
  <2>3. QED
    BY <1>2, <2>1, <2>2, UpTo
<1>8. QED
  BY <1>2, <1>3, <1>7 DEF ProgramAddressExact

(* A run of numbers put behind the numbers before it.                       *)
LEMMA Counting ==
    ASSUME NEW a \in Nat, NEW t \in Seq(Nat), \A j \in 1..Len(t) : t[j] = a + j
    PROVE  [j \in 1..a |-> j] \o t = [j \in 1..(a + Len(t)) |-> j]
<1> DEFINE s == [j \in 1..a |-> j]
           u == [j \in 1..(a + Len(t)) |-> j]
<1>1. s \in Seq(Nat) /\ Len(s) = a
  OBVIOUS
<1>2. u \in Seq(Nat) /\ Len(u) = a + Len(t)
  OBVIOUS
<1>3. s \o t \in Seq(Nat) /\ Len(s \o t) = a + Len(t)
  <2> HIDE DEF s
  <2>1. QED
    BY <1>1
<1>4. ASSUME NEW j \in 1..(a + Len(t))
      PROVE  (s \o t)[j] = u[j]
  <2>1. CASE j <= a
    <3>1. (s \o t)[j] = s[j]
      <4> HIDE DEF s
      <4>1. QED
        BY <1>1, <2>1
    <3>2. QED
      BY <2>1, <3>1
  <2>2. CASE j > a
    <3>1. (s \o t)[j] = t[j - a]
      <4> HIDE DEF s
      <4>1. QED
        BY <1>1, <2>2
    <3>2. QED
      BY <2>2, <3>1
  <2>3. QED
    BY <2>1, <2>2
<1> HIDE DEF s, u
<1>5. s \o t = u
  <2> DEFINE m == a + Len(t)
             v == s \o t
  <2> HIDE DEF m, v
  <2>1. v \in Seq(Nat) /\ Len(v) = m /\ u \in Seq(Nat) /\ Len(u) = m
    BY <1>2, <1>3 DEF m, v
  <2>2. v \in [1..m -> Nat] /\ u \in [1..m -> Nat]
    BY <2>1
  <2>3. \A j \in 1..m : v[j] = u[j]
    BY <1>4 DEF m, v
  <2>4. v = u
    <3> DEFINE D == 1..m
    <3>1. v \in [D -> Nat] /\ u \in [D -> Nat] /\ \A j \in D : v[j] = u[j]
      BY <2>2, <2>3
    <3> HIDE DEF D
    <3>2. QED
      BY <3>1
  <2>5. QED
    BY <2>4 DEF v
<1>6. QED
  BY <1>5 DEF s, u

LEMMA OrderFromRuns ==
    ASSUME ListsInv
    PROVE  EmissionOrder
<1> DEFINE n == Len(lists)
           Flat(f) == f = [k \in 1..n |-> IF k = 1 THEN lists[k] ELSE f[k - 1] \o lists[k]]
           flatten == CHOOSE f : Flat(f)
           Upward(m) == [j \in 1..m |-> j]
<1>1. PICK ends \in [0..n -> Nat] : Runs(ends, lists, Len(instructions))
  BY DEF ListsInv, InRuns
<1>2. n \in Nat /\ n >= 1
  BY DEF ListsInv
<1>3. \A k \in 0..n : ends[k] \in Nat
  BY <1>1
<1>4. \A k \in 1..n : lists[k] \in Seq(Nat)
  BY DEF ListsInv
<1>5. \A k \in 1..n : ends[k] = ends[k - 1] + Len(lists[k])
  BY <1>1 DEF Runs
<1>6. ends[0] = 0 /\ ends[n] = Len(instructions)
  BY <1>1 DEF Runs
<1>7. \A k \in 1..n : \A i \in 1..Len(lists[k]) : lists[k][i] = ends[k - 1] + i
  BY <1>1 DEF Runs
<1>8. FlattenSeq(lists) = flatten[n]
  BY <1>2 DEF FlattenSeq
<1>9. Numbers = 1..Len(instructions)
  BY DEF ListsInv, Listed, Numbers
<1> HIDE DEF n
<1>10. lists[1] = Upward(ends[1])
  <2>1. lists[1] \in Seq(Nat) /\ Len(lists[1]) = ends[1]
    BY <1>2, <1>3, <1>4, <1>5, <1>6
  <2>2. \A j \in 1..ends[1] : lists[1][j] = j
    BY <1>2, <1>3, <1>6, <1>7, <2>1
  <2>3. QED
    BY <2>1, <2>2
<1>11. ASSUME NEW k \in 1..n, k # 1
       PROVE  Upward(ends[k - 1]) \o lists[k] = Upward(ends[k])
  <2>1. ends[k - 1] \in Nat /\ lists[k] \in Seq(Nat)
    BY <1>2, <1>3, <1>4
  <2>2. \A j \in 1..Len(lists[k]) : lists[k][j] = ends[k - 1] + j
    BY <1>7
  <2>3. ends[k] = ends[k - 1] + Len(lists[k])
    BY <1>5
  <2> HIDE DEF Upward
  <2>4. [j \in 1..ends[k - 1] |-> j] \o lists[k] = [j \in 1..(ends[k - 1] + Len(lists[k])) |-> j]
    BY <2>1, <2>2, Counting
  <2>5. QED
    BY <2>3, <2>4 DEF Upward
<1> HIDE DEF Upward
<1>12. Flat([k \in 1..n |-> Upward(ends[k])])
  <2> DEFINE f == [k \in 1..n |-> Upward(ends[k])]
  <2>1. ASSUME NEW k \in 1..n
        PROVE  f[k] = IF k = 1 THEN lists[k] ELSE f[k - 1] \o lists[k]
    <3>1. CASE k = 1
      BY <1>10, <3>1
    <3>2. CASE k # 1
      <4>1. k - 1 \in 1..n
        BY <1>2, <3>2
      <4>2. f[k - 1] = Upward(ends[k - 1]) /\ f[k] = Upward(ends[k])
        BY <4>1
      <4>3. QED
        BY <1>11, <3>2, <4>2
    <3>3. QED
      BY <3>1, <3>2
  <2>2. QED
    BY <2>1
<1>13. Flat(flatten)
  <2> HIDE DEF Flat
  <2>1. QED
    BY <1>12
<1> HIDE DEF flatten
<1>14. \A k \in 1..n : flatten[k] = IF k = 1 THEN lists[k] ELSE flatten[k - 1] \o lists[k]
  BY <1>13
<1> DEFINE S == {k \in 1..n : flatten[k] = Upward(ends[k])}
<1>15. 1..n \subseteq S
  <2>1. 1 \in S
    BY <1>2, <1>10, <1>14
  <2>2. ASSUME NEW k \in 2..n, k - 1 \in S
        PROVE  k \in S
    <3>1. k \in 1..n /\ k # 1
      BY <1>2, <2>2
    <3>2. flatten[k - 1] = Upward(ends[k - 1])
      BY <2>2
    <3>3. flatten[k] = flatten[k - 1] \o lists[k]
      BY <1>14, <3>1
    <3>4. QED
      BY <1>11, <3>1, <3>2, <3>3
  <2> HIDE DEF S
  <2>3. QED
    BY <1>2, <2>1, <2>2, UpTo
<1>16. flatten[n] = Upward(Len(instructions))
  BY <1>2, <1>6, <1>15
<1>17. QED
  BY <1>8, <1>9, <1>16 DEF EmissionOrder, Upward

-----------------------------------------------------------------------------
(* The four things that happen to the lists *)

LEMMA OneReplaced ==
    ASSUME NEW S, NEW s \in Seq(S), NEW i \in 1..Len(s), NEW e \in S
    PROVE  /\ [s EXCEPT ![i] = e] \in Seq(S) /\ Len([s EXCEPT ![i] = e]) = Len(s)
           /\ [s EXCEPT ![i] = e][i] = e
           /\ \A k \in 1..Len(s) : k # i => [s EXCEPT ![i] = e][k] = s[k]
<1> DEFINE t == [s EXCEPT ![i] = e]
<1>1. s \in [1..Len(s) -> S] /\ Len(s) \in Nat
  OBVIOUS
<1>2. t \in [1..Len(s) -> S] /\ t[i] = e /\ \A k \in 1..Len(s) : k # i => t[k] = s[k]
  BY <1>1
<1>3. t \in Seq(S) /\ Len(t) = Len(s)
  BY <1>1, <1>2
<1>4. QED
  BY <1>2, <1>3

(* The step leaves the first m - 1 lists alone, and the m-th, now the last, *)
(* goes on where they end.                                                  *)
GoesOn(ends, m) ==
    /\ ends \in [0..Len(lists) -> Nat] /\ Runs(ends, lists, Len(instructions))
    /\ m \in 1..(Len(lists) + 1)
    /\ lists' \in Seq(Seq(Nat)) /\ Len(lists') = m
    /\ \A k \in 1..(m - 1) : lists'[k] = lists[k]
    /\ counts' \in Seq(Nat) /\ Len(counts') = m
    /\ \A k \in 1..(m - 1) : counts'[k] = counts[k]
    /\ counts'[m] = Len(lists'[m])
    /\ Len(instructions') = ends[m - 1] + Len(lists'[m])
    /\ \A i \in 1..Len(lists'[m]) : lists'[m][i] = ends[m - 1] + i

LEMMA NewLastRun ==
    ASSUME ListsInv, Listed(instructions)', NEW ends, NEW m, GoesOn(ends, m)
    PROVE  ListsInv'
<1> DEFINE n == Len(lists)
           new == [k \in 0..m |-> IF k = m THEN Len(instructions') ELSE ends[k]]
<1>1. /\ n \in Nat /\ \A k \in 1..n : counts[k] = Len(lists[k])
      /\ Len(instructions') \in Nat /\ m \in 1..(n + 1)
  BY DEF ListsInv, Counted, Listed, GoesOn
<1>2. /\ ends[0] = 0
      /\ \A k \in 1..n : ends[k] = ends[k - 1] + Len(lists[k])
      /\ \A k \in 1..n : \A i \in 1..Len(lists[k]) : lists[k][i] = ends[k - 1] + i
      /\ \A k \in 0..n : ends[k] \in Nat
  BY DEF Runs, GoesOn
<1> HIDE DEF n
<1>3. /\ m \in Nat /\ m >= 1 /\ m - 1 \in 0..n
      /\ \A k \in 0..(m - 1) : k \in 0..n
  BY <1>1
<1>4. /\ new \in [0..m -> Nat] /\ new[m] = Len(instructions')
      /\ \A k \in 0..(m - 1) : new[k] = ends[k]
  BY <1>1, <1>2, <1>3
<1>11. /\ lists' \in Seq(Seq(Nat)) /\ Len(lists') = m
       /\ counts' \in Seq(Nat) /\ Len(counts') = m
       /\ \A k \in 1..(m - 1) : lists'[k] = lists[k] /\ counts'[k] = counts[k]
  BY DEF GoesOn
<1>12. /\ counts'[m] = Len(lists'[m])
       /\ Len(instructions') = ends[m - 1] + Len(lists'[m])
       /\ \A i \in 1..Len(lists'[m]) : lists'[m][i] = ends[m - 1] + i
  BY DEF GoesOn
<1> HIDE DEF new
<1>5. ASSUME NEW k \in 1..m
      PROVE  /\ new[k] = new[k - 1] + Len(lists'[k])
             /\ \A i \in 1..Len(lists'[k]) : lists'[k][i] = new[k - 1] + i
             /\ counts'[k] = Len(lists'[k])
  <2>1. CASE k < m
    <3>1. k - 1 \in 0..(m - 1) /\ k \in 0..(m - 1) /\ k \in 1..(m - 1) /\ k \in 1..n
      BY <1>1, <1>3, <2>1
    <3>2. new[k] = ends[k] /\ new[k - 1] = ends[k - 1]
      BY <1>4, <3>1
    <3>3. lists'[k] = lists[k] /\ counts'[k] = counts[k]
      BY <1>11, <3>1
    <3>4. ends[k] = ends[k - 1] + Len(lists[k]) /\ counts[k] = Len(lists[k])
      BY <1>1, <1>2, <3>1
    <3>5. \A i \in 1..Len(lists[k]) : lists[k][i] = ends[k - 1] + i
      BY <1>2, <3>1
    <3>6. QED
      BY <3>2, <3>3, <3>4, <3>5
  <2>2. CASE k = m
    <3>1. new[m - 1] = ends[m - 1]
      BY <1>3, <1>4
    <3>2. QED
      BY <1>4, <1>12, <2>2, <3>1
  <2>3. k < m \/ k = m
    BY <1>3
  <2>4. QED
    BY <2>1, <2>2, <2>3
<1>6. new[0] = 0
  BY <1>2, <1>3, <1>4
<1>7. Runs(new, lists', Len(instructions'))
  BY <1>4, <1>5, <1>6, <1>11 DEF Runs
<1>8. InRuns'
  BY <1>4, <1>7, <1>11 DEF InRuns
<1>9. Counted'
  BY <1>5, <1>11 DEF Counted
<1>10. QED
  BY <1>3, <1>8, <1>9, <1>11 DEF ListsInv

LEMMA RunOn ==
    ASSUME NEW a \in Nat, NEW s \in Seq(Nat), NEW t \in Seq(Nat),
           \A i \in 1..Len(s) : s[i] = a + i,
           \A i \in 1..Len(t) : t[i] = a + Len(s) + i
    PROVE  /\ s \o t \in Seq(Nat) /\ Len(s \o t) = Len(s) + Len(t)
           /\ \A i \in 1..Len(s \o t) : (s \o t)[i] = a + i
<1>1. s \o t \in Seq(Nat) /\ Len(s \o t) = Len(s) + Len(t)
  OBVIOUS
<1>2. ASSUME NEW i \in 1..(Len(s) + Len(t))
      PROVE  (s \o t)[i] = a + i
  <2>1. CASE i <= Len(s)
    <3>1. (s \o t)[i] = s[i] /\ i \in 1..Len(s)
      BY <2>1
    <3>2. QED
      BY <3>1
  <2>2. CASE i > Len(s)
    <3>1. (s \o t)[i] = t[i - Len(s)] /\ i - Len(s) \in 1..Len(t)
      BY <2>2
    <3>2. t[i - Len(s)] = a + Len(s) + (i - Len(s))
      BY <3>1
    <3>3. Len(s) \in Nat /\ i \in Nat
      OBVIOUS
    <3>4. QED
      BY <3>1, <3>2, <3>3
  <2>3. QED
    BY <2>1, <2>2
<1>3. QED
  BY <1>1, <1>2

(* What every step may use of the lists before it.                          *)
LEMMA ListsFacts ==
    ASSUME ListsInv
    PROVE  \E ends \in [0..Len(lists) -> Nat] :
              /\ Runs(ends, lists, Len(instructions))
              /\ ends[Len(lists)] = Len(instructions)
              /\ \A k \in 0..Len(lists) : ends[k] \in Nat
              /\ \A k \in 1..Len(lists) :
                    /\ lists[k] \in Seq(Nat) /\ Len(lists[k]) \in Nat
                    /\ ends[k] = ends[k - 1] + Len(lists[k])
                    /\ \A i \in 1..Len(lists[k]) : lists[k][i] = ends[k - 1] + i
                    /\ counts[k] = Len(lists[k])
<1>1. PICK ends \in [0..Len(lists) -> Nat] : Runs(ends, lists, Len(instructions))
  BY DEF ListsInv, InRuns
<1>2. \A k \in 1..Len(lists) : lists[k] \in Seq(Nat) /\ Len(lists[k]) \in Nat
  BY DEF ListsInv
<1>3. \A k \in 1..Len(lists) : counts[k] = Len(lists[k])
  BY DEF ListsInv, Counted
<1>4. \A k \in 0..Len(lists) : ends[k] \in Nat
  BY <1>1
<1>5. WITNESS ends \in [0..Len(lists) -> Nat]
<1>6. QED
  BY <1>1, <1>2, <1>3, <1>4 DEF Runs

(* New instructions go behind the last of the innermost list.               *)
LEMMA AddKeepsLists ==
    ASSUME ListsInv, NEW t \in Seq(Nat), \A i \in 1..Len(t) : t[i] = Len(instructions) + i,
           Listed(instructions)', Len(instructions') = Len(instructions) + Len(t),
           lists' = [lists EXCEPT ![Len(lists)] = @ \o t],
           counts' = [counts EXCEPT ![Len(counts)] = @ + Len(t)]
    PROVE  ListsInv' /\ Len(lists') = Len(lists)
<1> DEFINE n == Len(lists)
           longer == lists[n] \o t
<1>1. n \in Nat /\ n >= 1 /\ n \in 1..n /\ n \in 1..(n + 1)
  BY DEF ListsInv
<1>2. PICK ends \in [0..n -> Nat] :
          /\ Runs(ends, lists, Len(instructions)) /\ ends[n] = Len(instructions)
          /\ \A k \in 0..n : ends[k] \in Nat
          /\ \A k \in 1..n :
                /\ lists[k] \in Seq(Nat) /\ Len(lists[k]) \in Nat
                /\ ends[k] = ends[k - 1] + Len(lists[k])
                /\ \A i \in 1..Len(lists[k]) : lists[k][i] = ends[k - 1] + i
                /\ counts[k] = Len(lists[k])
  BY ListsFacts
<1>3. /\ ends[n - 1] \in Nat /\ n - 1 \in 0..n
      /\ counts[n] = Len(lists[n]) /\ Len(lists[n]) \in Nat
      /\ ends[n - 1] + Len(lists[n]) = Len(instructions)
  <2>1. n - 1 \in 0..n
    BY <1>1
  <2>2. ends[n - 1] \in Nat
    BY <1>2, <2>1
  <2>3. counts[n] = Len(lists[n]) /\ Len(lists[n]) \in Nat /\ ends[n] = ends[n - 1] + Len(lists[n])
    BY <1>1, <1>2
  <2>4. QED
    BY <1>2, <2>1, <2>2, <2>3
<1>4. /\ longer \in Seq(Nat) /\ Len(longer) = Len(lists[n]) + Len(t)
      /\ \A i \in 1..Len(longer) : longer[i] = ends[n - 1] + i
  <2>1. lists[n] \in Seq(Nat) /\ ends[n - 1] + Len(lists[n]) = Len(instructions)
    BY <1>1, <1>2
  <2>2. \A i \in 1..Len(lists[n]) : lists[n][i] = ends[n - 1] + i
    BY <1>1, <1>2
  <2>3. \A i \in 1..Len(t) : t[i] = ends[n - 1] + Len(lists[n]) + i
    BY <2>1
  <2>4. QED
    BY <1>3, <2>1, <2>2, <2>3, RunOn
<1> HIDE DEF longer
<1>5. /\ lists' \in Seq(Seq(Nat)) /\ Len(lists') = n /\ lists'[n] = longer
      /\ \A k \in 1..(n - 1) : lists'[k] = lists[k]
  <2> DEFINE Q == Seq(Nat)
             l1 == [lists EXCEPT ![n] = longer]
  <2>1. lists \in Seq(Q) /\ longer \in Q
    BY <1>4 DEF ListsInv
  <2> HIDE DEF Q
  <2>2. /\ l1 \in Seq(Q) /\ Len(l1) = Len(lists) /\ l1[n] = longer
        /\ \A k \in 1..Len(lists) : k # n => l1[k] = lists[k]
    BY <1>1, <2>1, OneReplaced
  <2>3. lists' = l1
    BY DEF longer
  <2>4. \A k \in 1..(n - 1) : k \in 1..Len(lists) /\ k # n
    BY <1>1
  <2> HIDE DEF l1
  <2>5. QED
    BY <2>2, <2>3, <2>4 DEF Q
<1>6. /\ counts' \in Seq(Nat) /\ Len(counts') = n /\ counts'[n] = Len(longer)
      /\ \A k \in 1..(n - 1) : counts'[k] = counts[k]
  <2>1. counts \in Seq(Nat) /\ Len(counts) = n
    BY DEF ListsInv
  <2>2. counts[n] + Len(t) = Len(longer) /\ counts[n] + Len(t) \in Nat
    BY <1>3, <1>4
  <2>3. counts' = [counts EXCEPT ![n] = counts[n] + Len(t)]
    BY <2>1
  <2>4. /\ counts' \in Seq(Nat) /\ Len(counts') = Len(counts) /\ counts'[n] = counts[n] + Len(t)
        /\ \A k \in 1..Len(counts) : k # n => counts'[k] = counts[k]
    BY <1>1, <2>1, <2>2, <2>3, OneReplaced
  <2>5. QED
    BY <1>1, <2>1, <2>2, <2>4
<1>7. Len(instructions') = ends[n - 1] + Len(longer)
  <2>1. Len(t) \in Nat
    OBVIOUS
  <2>2. Len(longer) = Len(lists[n]) + Len(t)
    BY <1>4
  <2>3. Len(instructions') = Len(instructions) + Len(t)
    OBVIOUS
  <2>4. (ends[n - 1] + Len(lists[n])) + Len(t) = ends[n - 1] + (Len(lists[n]) + Len(t))
    BY <1>3, <2>1
  <2>5. QED
    BY <1>3, <2>2, <2>3, <2>4, Zenon
<1>8. GoesOn(ends, n)
  BY <1>1, <1>2, <1>4, <1>5, <1>6, <1>7 DEF GoesOn
<1>9. QED
  BY <1>5, <1>8, NewLastRun

(* A new scope begins with an empty list.                                   *)
LEMMA OpenKeepsLists ==
    ASSUME ListsInv, lists' = Append(lists, <<>>), counts' = Append(counts, 0),
           instructions' = instructions
    PROVE  ListsInv' /\ Len(lists') = Len(lists) + 1
<1> DEFINE n == Len(lists)
<1>1. n \in Nat /\ counts \in Seq(Nat) /\ Len(counts) = n /\ lists \in Seq(Seq(Nat))
  BY DEF ListsInv
<1>2. PICK ends \in [0..n -> Nat] :
          Runs(ends, lists, Len(instructions)) /\ ends[n] = Len(instructions)
  BY ListsFacts
<1>3. /\ lists' \in Seq(Seq(Nat)) /\ Len(lists') = n + 1 /\ lists'[n + 1] = <<>>
      /\ \A k \in 1..n : lists'[k] = lists[k]
  <2> DEFINE Q == Seq(Nat)
  <2>1. lists \in Seq(Q) /\ <<>> \in Q
    BY <1>1
  <2> HIDE DEF Q
  <2>2. lists' \in Seq(Q) /\ Len(lists') = n + 1 /\ lists'[n + 1] = <<>>
    BY <2>1
  <2>3. \A k \in 1..n : lists'[k] = lists[k]
    BY <2>1
  <2>4. QED
    BY <2>2, <2>3 DEF Q
<1>4. /\ counts' \in Seq(Nat) /\ Len(counts') = n + 1 /\ counts'[n + 1] = 0
      /\ \A k \in 1..n : counts'[k] = counts[k]
  BY <1>1
<1>5. n + 1 \in 1..(Len(lists) + 1) /\ (n + 1) - 1 = n
  BY <1>1
<1>6. Len(lists'[n + 1]) = 0 /\ Len(instructions') = ends[n] + 0 /\ Listed(instructions)'
  BY <1>1, <1>2, <1>3 DEF ListsInv, Listed
<1>7. GoesOn(ends, n + 1)
  BY <1>2, <1>3, <1>4, <1>5, <1>6 DEF GoesOn
<1>8. QED
  BY <1>3, <1>6, <1>7, NewLastRun

(* A scope that ends goes behind what its parent has, pops included.        *)
LEMMA FlushKeepsLists ==
    ASSUME ListsInv, Len(lists) >= 2,
           NEW t \in Seq(Nat), \A i \in 1..Len(t) : t[i] = Len(instructions) + i,
           Listed(instructions)', Len(instructions') = Len(instructions) + Len(t),
           lists' = Flushed(Last(lists) \o t),
           counts' = [Front(counts) EXCEPT ![Len(counts) - 1] = @ + Last(counts) + Len(t)]
    PROVE  ListsInv' /\ Len(lists') = Len(lists) - 1
<1> DEFINE n == Len(lists)
           m == n - 1
           tail == lists[n] \o t
           longer == lists[m] \o tail
<1>1. n \in Nat /\ n >= 2 /\ n \in 1..n /\ m \in Nat /\ m \in 1..n /\ m \in 1..m /\ m \in 1..(n + 1)
  BY DEF ListsInv
<1>2. PICK ends \in [0..n -> Nat] :
          /\ Runs(ends, lists, Len(instructions)) /\ ends[n] = Len(instructions)
          /\ \A k \in 0..n : ends[k] \in Nat
          /\ \A k \in 1..n :
                /\ lists[k] \in Seq(Nat) /\ Len(lists[k]) \in Nat
                /\ ends[k] = ends[k - 1] + Len(lists[k])
                /\ \A i \in 1..Len(lists[k]) : lists[k][i] = ends[k - 1] + i
                /\ counts[k] = Len(lists[k])
  BY ListsFacts
<1>3. /\ m = n - 1 /\ lists[n] \in Seq(Nat) /\ lists[m] \in Seq(Nat)
      /\ Len(lists[n]) \in Nat /\ Len(lists[m]) \in Nat /\ Len(t) \in Nat
      /\ ends[m - 1] \in Nat /\ ends[m] \in Nat
      /\ ends[m] = ends[m - 1] + Len(lists[m])
      /\ Len(instructions) = ends[m] + Len(lists[n])
      /\ counts[n] = Len(lists[n]) /\ counts[m] = Len(lists[m])
  <2>1. m - 1 \in 0..n /\ m \in 0..n
    BY <1>1
  <2>2. lists[n] \in Seq(Nat) /\ Len(lists[n]) \in Nat /\ lists[m] \in Seq(Nat) /\ Len(lists[m]) \in Nat
    BY <1>1, <1>2
  <2>3. ends[m] = ends[m - 1] + Len(lists[m]) /\ counts[m] = Len(lists[m])
    BY <1>1, <1>2
  <2>4. ends[n] = ends[n - 1] + Len(lists[n]) /\ counts[n] = Len(lists[n])
    BY <1>1, <1>2
  <2>5. ends[m - 1] \in Nat /\ ends[m] \in Nat
    BY <1>2, <2>1
  <2>6. QED
    BY <1>2, <2>2, <2>3, <2>4, <2>5
<1>4. /\ tail \in Seq(Nat) /\ Len(tail) = Len(lists[n]) + Len(t)
      /\ \A i \in 1..Len(tail) : tail[i] = ends[m] + i
  <2>1. \A i \in 1..Len(lists[n]) : lists[n][i] = ends[m] + i
    BY <1>1, <1>2
  <2>2. \A i \in 1..Len(t) : t[i] = ends[m] + Len(lists[n]) + i
    BY <1>3
  <2>3. QED
    BY <1>3, <2>1, <2>2, RunOn
<1> HIDE DEF tail
<1>5. /\ longer \in Seq(Nat) /\ Len(longer) = Len(lists[m]) + Len(tail)
      /\ \A i \in 1..Len(longer) : longer[i] = ends[m - 1] + i
  <2>1. \A i \in 1..Len(lists[m]) : lists[m][i] = ends[m - 1] + i
    BY <1>1, <1>2
  <2>2. \A i \in 1..Len(tail) : tail[i] = ends[m - 1] + Len(lists[m]) + i
    BY <1>3, <1>4
  <2> DEFINE a == ends[m - 1]
             low == lists[m]
  <2>3. a \in Nat /\ low \in Seq(Nat) /\ tail \in Seq(Nat)
    BY <1>3, <1>4
  <2>4. \A i \in 1..Len(low) : low[i] = a + i
    BY <2>1
  <2>5. \A i \in 1..Len(tail) : tail[i] = a + Len(low) + i
    BY <2>2
  <2> HIDE DEF a, low
  <2>6. /\ low \o tail \in Seq(Nat) /\ Len(low \o tail) = Len(low) + Len(tail)
        /\ \A i \in 1..Len(low \o tail) : (low \o tail)[i] = a + i
    BY <2>3, <2>4, <2>5, RunOn
  <2>7. QED
    BY <2>6 DEF a, low
<1> HIDE DEF longer
<1>6. /\ lists' \in Seq(Seq(Nat)) /\ Len(lists') = m /\ lists'[m] = longer
      /\ \A k \in 1..(m - 1) : lists'[k] = lists[k]
  <2> DEFINE Q == Seq(Nat)
             front == SubSeq(lists, 1, m)
             l1 == [front EXCEPT ![m] = longer]
  <2>1. lists \in Seq(Q) /\ longer \in Q
    BY <1>5 DEF ListsInv
  <2> HIDE DEF Q
  <2>0. Len(lists) = n
    OBVIOUS
  <2>2. front \in Seq(Q) /\ Len(front) = m /\ \A k \in 1..m : front[k] = lists[k]
    BY <1>1, <2>1, <2>0, FrontPart
  <2>3. lists' = l1
    BY <1>1, <2>2 DEF Flushed, Front, Last, longer, tail
  <2> HIDE DEF front
  <2>4. /\ l1 \in Seq(Q) /\ Len(l1) = Len(front) /\ l1[m] = longer
        /\ \A k \in 1..Len(front) : k # m => l1[k] = front[k]
    BY <1>1, <2>1, <2>2, OneReplaced
  <2>5. \A k \in 1..(m - 1) : k \in 1..m /\ k # m
    BY <1>1
  <2> HIDE DEF l1
  <2>6. QED
    BY <2>2, <2>3, <2>4, <2>5 DEF Q
<1>7. /\ counts' \in Seq(Nat) /\ Len(counts') = m /\ counts'[m] = Len(longer)
      /\ \A k \in 1..(m - 1) : counts'[k] = counts[k]
  <2> DEFINE front == SubSeq(counts, 1, m)
             total == counts[m] + counts[n] + Len(t)
             c1 == [front EXCEPT ![m] = total]
  <2>1. counts \in Seq(Nat) /\ Len(counts) = n
    BY DEF ListsInv
  <2>2. front \in Seq(Nat) /\ Len(front) = m /\ \A k \in 1..m : front[k] = counts[k]
    <3>1. m \in Nat /\ m <= Len(counts)
      BY <1>1, <2>1
    <3> DEFINE k == m
    <3> HIDE DEF k
    <3>2. k \in Nat /\ k <= Len(counts)
      BY <3>1 DEF k
    <3>3. /\ SubSeq(counts, 1, k) \in Seq(Nat) /\ Len(SubSeq(counts, 1, k)) = k
          /\ \A j \in 1..k : SubSeq(counts, 1, k)[j] = counts[j]
      BY <2>1, <3>2, FrontPart
    <3>4. QED
      BY <3>3 DEF k
  <2>3. counts' = c1
    BY <1>1, <2>1, <2>2 DEF Front, Last
  <2>4. total \in Nat /\ total = Len(longer)
    <3>1. Len(longer) = Len(lists[m]) + (Len(lists[n]) + Len(t))
      BY <1>4, <1>5
    <3>2. total = (Len(lists[m]) + Len(lists[n])) + Len(t)
      BY <1>3
    <3>3. \A a, b, c \in Nat : (a + b) + c \in Nat /\ (a + b) + c = a + (b + c)
      OBVIOUS
    <3> HIDE DEF total
    <3>4. QED
      BY <1>3, <3>1, <3>2, <3>3, Zenon
  <2> HIDE DEF front, total
  <2>5. /\ c1 \in Seq(Nat) /\ Len(c1) = Len(front) /\ c1[m] = total
        /\ \A k \in 1..Len(front) : k # m => c1[k] = front[k]
    BY <1>1, <2>2, <2>4, OneReplaced
  <2>6. \A k \in 1..(m - 1) : k \in 1..m /\ k # m
    BY <1>1
  <2> HIDE DEF c1
  <2>7. QED
    BY <2>2, <2>3, <2>4, <2>5, <2>6
<1>8. Len(instructions') = ends[m - 1] + Len(longer)
  <2>1. Len(instructions') = Len(instructions) + Len(t)
    OBVIOUS
  <2>2. Len(longer) = Len(lists[m]) + (Len(lists[n]) + Len(t))
    BY <1>4, <1>5
  <2>3. ((ends[m - 1] + Len(lists[m])) + Len(lists[n])) + Len(t)
           = ends[m - 1] + (Len(lists[m]) + (Len(lists[n]) + Len(t)))
    <3> DEFINE a == ends[m - 1]
               b == Len(lists[m])
               c == Len(lists[n])
               d == Len(t)
    <3>1. a \in Nat /\ b \in Nat /\ c \in Nat /\ d \in Nat
      BY <1>3
    <3> HIDE DEF a, b, c, d
    <3>2. ((a + b) + c) + d = a + (b + (c + d))
      BY <3>1
    <3>3. QED
      BY <3>2 DEF a, b, c, d
  <2>4. QED
    BY <1>3, <2>1, <2>2, <2>3, Zenon
<1>9. GoesOn(ends, m)
  BY <1>1, <1>2, <1>5, <1>6, <1>7, <1>8 DEF GoesOn
<1>10. QED
  BY <1>6, <1>9, NewLastRun

-----------------------------------------------------------------------------
(* Steps on the lists *)

LEMMA AddStep ==
    ASSUME ListsInv, NEW T, NEW new \in Seq(T), Add(new)
    PROVE  ListsInv' /\ Len(lists') = Len(lists)
<1> DEFINE t == [i \in DOMAIN new |-> Len(instructions) + i]
<1>1. Len(instructions) \in Nat /\ Listed(instructions)
  BY DEF ListsInv, Listed
<1>2. DOMAIN new = 1..Len(new) /\ Len(new) \in Nat
  OBVIOUS
<1>3. t \in Seq(Nat) /\ Len(t) = Len(new) /\ \A i \in 1..Len(t) : t[i] = Len(instructions) + i
  BY <1>1, <1>2
<1>4. Listed(instructions)' /\ Len(instructions') = Len(instructions) + Len(new)
  BY <1>1, ListedAfter DEF Add
<1>5. /\ lists' = [lists EXCEPT ![Len(lists)] = @ \o t]
      /\ counts' = [counts EXCEPT ![Len(counts)] = @ + Len(new)]
  BY DEF Add
<1> HIDE DEF t
<1>6. QED
  BY <1>3, <1>4, <1>5, AddKeepsLists

(* A patched instruction is still the same one in the lists.                *)
LEMMA RewriteStep ==
    ASSUME ListsInv, instructions' = [i \in Numbers |-> instructions'[i]],
           UNCHANGED <<lists, counts>>
    PROVE  ListsInv' /\ Len(lists') = Len(lists)
<1>1. Listed(instructions)' /\ Len(instructions') = Len(instructions)
  BY ListedRewritten DEF ListsInv, Numbers
<1>2. QED
  BY <1>1 DEF ListsInv, Counted, InRuns, Runs

(* A patch followed by one new instruction.                                 *)
LEMMA PatchAndAdd ==
    ASSUME ListsInv, NEW number, NEW offset, NEW goal, NEW new,
           instructions' = Append(Patch(number, offset, goal), new),
           lists' = [lists EXCEPT ![Len(lists)] = Append(@, NextNumber)],
           counts' = [counts EXCEPT ![Len(counts)] = @ + 1]
    PROVE  ListsInv' /\ Len(lists') = Len(lists)
<1> DEFINE p == Patch(number, offset, goal)
           n == Len(lists)
<1>1. Len(instructions) \in Nat /\ Listed(instructions) /\ DOMAIN instructions = 1..Len(instructions)
  BY DEF ListsInv, Listed
<1>2. p = [i \in DOMAIN instructions |-> p[i]]
  BY DEF Patch
<1> HIDE DEF p
<1>3. Listed(p) /\ Len(p) = Len(instructions)
  BY <1>1, <1>2, ListedRewritten
<1>4. Append(p, new) = p \o <<new>>
  <2> DEFINE T == {p[i] : i \in DOMAIN p}
             U == T \cup {new}
  <2>1. p \in Seq(T)
    BY <1>3 DEF Listed
  <2> HIDE DEF T
  <2>2. p \in Seq(U) /\ new \in U
    BY <2>1, SeqMonotonic
  <2> HIDE DEF U
  <2>3. QED
    BY <2>2
<1>5. <<new>> \in Seq({new}) /\ Len(<<new>>) = 1
  OBVIOUS
<1>6. Listed(instructions)' /\ Len(instructions') = Len(instructions) + 1
  BY <1>3, <1>4, <1>5, ListedAfter DEF p
<1>7. lists[n] \in Seq(Nat) /\ n \in 1..n
  BY DEF ListsInv
<1>8. Append(lists[n], NextNumber) = lists[n] \o <<NextNumber>>
  BY <1>7
<1>9. lists' = [lists EXCEPT ![n] = @ \o <<NextNumber>>]
  BY <1>8
<1>10. /\ <<NextNumber>> \in Seq(Nat) /\ Len(<<NextNumber>>) = 1
       /\ \A i \in 1..Len(<<NextNumber>>) : <<NextNumber>>[i] = Len(instructions) + i
  BY <1>1 DEF NextNumber
<1>11. QED
  BY <1>6, <1>9, <1>10, AddKeepsLists

LEMMA MainStep ==
    ASSUME ListsInv, BeginMainMethod
    PROVE  ListsInv' /\ Len(lists') = Len(lists)
<1> DEFINE p == [i \in Numbers |-> IF instructions[i].role = "start"
                              THEN [instructions[i] EXCEPT !.target = NextNumber, !.goal = NextNumber]
                              ELSE instructions[i]]
           two == <<Plain, Plain>>
           t == <<NextNumber, NextNumber + 1>>
<1>1. Len(instructions) \in Nat /\ Listed(instructions)
  BY DEF ListsInv, Listed
<1>2. p = [i \in DOMAIN instructions |-> p[i]]
  BY DEF Numbers
<1>3. instructions' = p \o two /\ lists' = [lists EXCEPT ![Len(lists)] = @ \o t]
      /\ counts' = [counts EXCEPT ![Len(counts)] = @ + 2]
  BY DEF BeginMainMethod
<1>4. two \in Seq({Plain}) /\ Len(two) = 2
  OBVIOUS
<1> HIDE DEF p, two
<1>5. Listed(p) /\ Len(p) = Len(instructions)
  BY <1>1, <1>2, ListedRewritten
<1>6. Listed(instructions)' /\ Len(instructions') = Len(instructions) + 2
  BY <1>3, <1>4, <1>5, ListedAfter
<1>7. t \in Seq(Nat) /\ Len(t) = 2 /\ \A i \in 1..Len(t) : t[i] = Len(instructions) + i
  BY <1>1 DEF NextNumber
<1> HIDE DEF t
<1>8. QED
  BY <1>3, <1>6, <1>7, AddKeepsLists

LEMMA EndStep ==
    ASSUME ListsInv, Len(lists) >= 2, EndBlock
    PROVE  ListsInv' /\ Len(lists') = Len(lists) - 1
<1>1. PICK locals \in 0..MaxLocals :
        LET pops == [i \in 1..(2 * locals) |-> Plain]
            list == Last(lists) \o [i \in DOMAIN pops |-> Len(instructions) + i]
        IN  /\ instructions' = instructions \o pops
            /\ lists' = Flushed(list)
            /\ counts' = [Front(counts) EXCEPT ![Len(counts) - 1] = @ + Last(counts) + Len(pops)]
  BY DEF EndBlock
<1> DEFINE pops == [i \in 1..(2 * locals) |-> Plain]
           t == [i \in DOMAIN pops |-> Len(instructions) + i]
<1>2. MaxLocals \in Nat
  BY LayoutAssumption
<1>3. pops \in Seq({Plain}) /\ Len(pops) \in Nat /\ DOMAIN pops = 1..Len(pops)
  BY <1>2
<1>4. /\ instructions' = instructions \o pops
      /\ lists' = Flushed(Last(lists) \o t)
      /\ counts' = [Front(counts) EXCEPT ![Len(counts) - 1] = @ + Last(counts) + Len(pops)]
  BY <1>1
<1> HIDE DEF pops
<1>5. Len(instructions) \in Nat /\ Listed(instructions)
  BY DEF ListsInv, Listed
<1>6. t \in Seq(Nat) /\ Len(t) = Len(pops) /\ \A i \in 1..Len(t) : t[i] = Len(instructions) + i
  BY <1>3, <1>5
<1>7. Listed(instructions)' /\ Len(instructions') = Len(instructions) + Len(pops)
  BY <1>3, <1>4, <1>5, ListedAfter
<1> HIDE DEF t
<1>8. QED
  BY <1>4, <1>6, <1>7, FlushKeepsLists

-----------------------------------------------------------------------------
(* The parser's frames *)

LEMMA BlocksFinite ==
    ASSUME NEW s \in Seq(Frames)
    PROVE  /\ Blocks(s) \subseteq 1..Len(s)
           /\ IsFiniteSet(Blocks(s)) /\ Cardinality(Blocks(s)) \in Nat
<1>1. Len(s) \in Nat /\ Blocks(s) \subseteq 1..Len(s)
  BY DEF Blocks
<1>2. IsFiniteSet(1..Len(s))
  BY <1>1, FS_Interval
<1>3. QED
  BY <1>1, <1>2, FS_Subset, FS_CardinalityType

LEMMA Pushed ==
    ASSUME NEW s \in Seq(Frames), NEW f \in Frames
    PROVE  /\ Append(s, f) \in Seq(Frames)
           /\ Cardinality(Blocks(Append(s, f)))
                = Cardinality(Blocks(s)) + (IF f.kind = "block" THEN 1 ELSE 0)
<1> DEFINE a == Append(s, f)
<1>1. Len(s) \in Nat /\ DOMAIN s = 1..Len(s)
  OBVIOUS
<1>2. a \in Seq(Frames) /\ DOMAIN a = 1..(Len(s) + 1) /\ a[Len(s) + 1] = f
      /\ \A k \in 1..Len(s) : a[k] = s[k]
  BY <1>1
<1> HIDE DEF a
<1>3. Blocks(a) = Blocks(s) \cup (IF f.kind = "block" THEN {Len(s) + 1} ELSE {})
  BY <1>1, <1>2 DEF Blocks
<1>4. Len(s) + 1 \notin Blocks(s) /\ IsFiniteSet(Blocks(s)) /\ Cardinality(Blocks(s)) \in Nat
  BY <1>1, BlocksFinite
<1>5. CASE f.kind = "block"
  BY <1>2, <1>3, <1>4, <1>5, FS_AddElement DEF a
<1>6. CASE f.kind # "block"
  <2>1. Blocks(a) = Blocks(s)
    BY <1>3, <1>6
  <2>2. QED
    BY <1>2, <1>4, <1>6, <2>1 DEF a
<1>7. QED
  BY <1>5, <1>6

LEMMA Popped ==
    ASSUME NEW s \in Seq(Frames), s # <<>>
    PROVE  /\ Front(s) \in Seq(Frames) /\ Last(s) \in Frames
           /\ Cardinality(Blocks(Front(s)))
                = Cardinality(Blocks(s)) - (IF Last(s).kind = "block" THEN 1 ELSE 0)
<1> DEFINE n == Len(s)
           r == SubSeq(s, 1, n - 1)
<1>1. n \in Nat /\ n >= 1 /\ DOMAIN s = 1..n /\ s[n] \in Frames
  OBVIOUS
<1>2. r \in Seq(Frames) /\ DOMAIN r = 1..(n - 1) /\ \A k \in 1..(n - 1) : r[k] = s[k]
  BY <1>1
<1>3. Front(s) = r /\ Last(s) = s[n]
  BY DEF Front, Last
<1> HIDE DEF r
<1>4. IsFiniteSet(Blocks(s)) /\ Cardinality(Blocks(s)) \in Nat
  BY BlocksFinite
<1>5. CASE s[n].kind = "block"
  <2>1. n \in Blocks(s) /\ Blocks(r) = Blocks(s) \ {n}
    BY <1>1, <1>2, <1>5 DEF Blocks
  <2>2. Cardinality(Blocks(r)) = Cardinality(Blocks(s)) - 1
    BY <1>4, <2>1, FS_RemoveElement
  <2>3. QED
    BY <1>1, <1>2, <1>3, <1>5, <2>2
<1>6. CASE s[n].kind # "block"
  <2>1. Blocks(r) = Blocks(s)
    <3> HIDE DEF n
    <3>1. ASSUME NEW k \in 1..n, s[k].kind = "block"
          PROVE  k \in 1..(n - 1) /\ r[k].kind = "block"
      <4>1. k # n
        BY <1>6, <3>1
      <4>2. k \in 1..(n - 1)
        BY <1>1, <4>1
      <4>3. QED
        BY <1>2, <3>1, <4>2
    <3>2. ASSUME NEW k \in 1..(n - 1), r[k].kind = "block"
          PROVE  k \in 1..n /\ s[k].kind = "block"
      BY <1>1, <1>2, <3>2
    <3>3. Blocks(s) = {k \in 1..n : s[k].kind = "block"}
      BY <1>1 DEF Blocks
    <3>4. Blocks(r) = {k \in 1..(n - 1) : r[k].kind = "block"}
      BY <1>2 DEF Blocks
    <3>5. QED
      BY <3>1, <3>2, <3>3, <3>4
  <2>2. QED
    BY <1>1, <1>2, <1>3, <1>4, <1>6, <2>1
<1>7. QED
  BY <1>5, <1>6

(* The innermost frame is replaced, by one that is a block only if it was.  *)
LEMMA Replaced ==
    ASSUME NEW s \in Seq(Frames), s # <<>>, NEW f \in Frames,
           (f.kind = "block") = (Last(s).kind = "block")
    PROVE  /\ Append(Front(s), f) \in Seq(Frames)
           /\ Cardinality(Blocks(Append(Front(s), f))) = Cardinality(Blocks(s))
<1>1. Cardinality(Blocks(s)) \in Nat
  BY BlocksFinite
<1>2. /\ Front(s) \in Seq(Frames)
      /\ Cardinality(Blocks(Front(s)))
           = Cardinality(Blocks(s)) - (IF Last(s).kind = "block" THEN 1 ELSE 0)
  BY Popped
<1>3. /\ Append(Front(s), f) \in Seq(Frames)
      /\ Cardinality(Blocks(Append(Front(s), f)))
           = Cardinality(Blocks(Front(s))) + (IF f.kind = "block" THEN 1 ELSE 0)
  BY <1>2, Pushed
<1>4. QED
  BY <1>1, <1>2, <1>3

SameBlocks == control' \in Seq(Frames) /\ Cardinality(Blocks(control')) = Cardinality(Blocks(control))

LEMMA ReducedStep ==
    ASSUME control \in Seq(Frames), control # <<>>, Last(control).kind # "block",
           NEW size \in Nat, Reduced(Front(control), size)
    PROVE  SameBlocks
<1> DEFINE outer == Front(control)
           f == [Last(outer) EXCEPT !.stage = "parsed", !.size = size]
<1>1. /\ outer \in Seq(Frames) /\ Cardinality(Blocks(control)) \in Nat
      /\ Cardinality(Blocks(outer)) = Cardinality(Blocks(control))
  BY Popped, BlocksFinite
<1> HIDE DEF outer
<1>2. CASE outer # <<>> /\ Last(outer).kind = "else"
  <2>1. Last(outer) \in Frames
    BY <1>1, <1>2, Popped
  <2>2. f \in Frames /\ f.kind = Last(outer).kind
    BY <2>1 DEF Frames, Kinds
  <2>3. control' = Append(Front(outer), f)
    BY <1>2 DEF Reduced, outer
  <2> HIDE DEF f
  <2>4. QED
    BY <1>1, <1>2, <2>2, <2>3, Replaced DEF SameBlocks
<1>3. CASE ~(outer # <<>> /\ Last(outer).kind = "else")
  <2>1. control' = outer
    BY <1>3 DEF Reduced, outer
  <2>2. QED
    BY <1>1, <2>1 DEF SameBlocks
<1>4. QED
  BY <1>2, <1>3

(* What the inner invariants say of the state a step starts from.           *)
LEMMA StepFacts ==
    ASSUME LayoutInv
    PROVE  /\ control \in Seq(Frames) /\ NextNumber \in Nat /\ LastInstruction \in Nat
           /\ Last(counts) \in Nat
           /\ control # <<>> => Last(control) \in Frames
           /\ InBlock => Len(lists) >= 2
<1>1. Len(instructions) \in Nat /\ Len(lists) >= 1 /\ Len(lists) \in Nat
  BY DEF LayoutInv, ListsInv, Listed
<1>2. control \in Seq(Frames) /\ NextNumber \in Nat
  BY <1>1 DEF LayoutInv, BlocksInv, NextNumber
<1>3. Last(counts) \in Nat
  BY <1>1 DEF LayoutInv, ListsInv, Last
<1>4. LastInstruction \in Nat
  <2>1. Last(lists) \in Seq(Nat)
    BY <1>1 DEF LayoutInv, ListsInv, Last
  <2>2. CASE Last(lists) = <<>>
    BY <2>2 DEF LastInstruction, NULL
  <2>3. CASE Last(lists) # <<>>
    <3>1. Last(Last(lists)) \in Nat
      BY <2>1, <2>3 DEF Last
    <3>2. QED
      BY <2>3, <3>1 DEF LastInstruction
  <2>4. QED
    BY <2>2, <2>3
<1>5. control # <<>> => Last(control) \in Frames
  BY <1>2, Popped
<1>6. ASSUME InBlock
      PROVE  Len(lists) >= 2
  <2>1. control # <<>> /\ Last(control).kind = "block"
    BY <1>6 DEF InBlock, Innermost
  <2>2. /\ Front(control) \in Seq(Frames)
        /\ Cardinality(Blocks(Front(control))) = Cardinality(Blocks(control)) - 1
    BY <1>2, <2>1, Popped
  <2>3. Cardinality(Blocks(Front(control))) \in Nat /\ Cardinality(Blocks(control)) \in Nat
    BY <1>2, <2>2, BlocksFinite
  <2>4. QED
    BY <1>1, <2>2, <2>3 DEF LayoutInv, BlocksInv
<1>7. QED
  BY <1>2, <1>3, <1>4, <1>5, <1>6

(* A step that opens or closes no block leaves as many lists.               *)
LEMMA SameDepth ==
    ASSUME LayoutInv, ListsInv', Len(lists') = Len(lists), SameBlocks
    PROVE  LayoutInv'
BY DEF LayoutInv, BlocksInv, SameBlocks

LEMMA UntouchedControl ==
    ASSUME LayoutInv, control' = control
    PROVE  SameBlocks
BY DEF LayoutInv, BlocksInv, SameBlocks

LEMMA UntouchedLists ==
    ASSUME LayoutInv, UNCHANGED <<instructions, lists, counts>>
    PROVE  ListsInv' /\ Len(lists') = Len(lists)
BY DEF LayoutInv, ListsInv, Counted, InRuns, Runs, Listed

LEMMA StatementsKeepInv ==
    ASSUME LayoutInv, Statements
    PROVE  LayoutInv'
<1>1. /\ control \in Seq(Frames) /\ NextNumber \in Nat /\ LastInstruction \in Nat
      /\ Last(counts) \in Nat
      /\ control # <<>> => Last(control) \in Frames
      /\ InBlock => Len(lists) >= 2
      /\ ListsInv
  BY StepFacts DEF LayoutInv
<1>2. ASSUME NEW kind \in Kinds, NEW stage \in {"condition", "body", "parsed"}, NEW jump \in Nat
      PROVE  Frame(kind, stage, jump) \in Frames /\ Frame(kind, stage, jump).kind = kind
  BY DEF Frame, Frames, NULL
<1>3. CASE Code
  <2>1. <<Plain>> \in Seq({Plain}) /\ Add(<<Plain>>) /\ control' = control
    BY <1>3 DEF Code
  <2>2. QED
    BY <1>1, <2>1, AddStep, UntouchedControl, SameDepth
<1>4. CASE If
  <2> DEFINE f == Frame("if", "condition", NULL)
  <2>1. f \in Frames /\ f.kind = "if"
    BY <1>2 DEF Kinds, NULL
  <2>2. control' = Append(control, f) /\ UNCHANGED <<instructions, lists, counts>>
    BY <1>4 DEF If
  <2> HIDE DEF f
  <2>3. SameBlocks
    BY <1>1, <2>1, <2>2, Pushed, BlocksFinite DEF SameBlocks
  <2>4. QED
    BY <2>2, <2>3, UntouchedLists, SameDepth
<1>5. CASE While
  <2> DEFINE f == [Frame("while", "condition", NULL) EXCEPT !.before = LastInstruction, !.first = NextNumber]
  <2>1. f \in Frames /\ f.kind = "while"
    BY <1>1 DEF Frame, Frames, Kinds, NULL
  <2>2. control' = Append(control, f) /\ UNCHANGED <<instructions, lists, counts>>
    BY <1>5 DEF While
  <2> HIDE DEF f
  <2>3. SameBlocks
    BY <1>1, <2>1, <2>2, Pushed, BlocksFinite DEF SameBlocks
  <2>4. QED
    BY <2>2, <2>3, UntouchedLists, SameDepth
<1>6. CASE ConditionalJumpPlaceholder
  <2> DEFINE new == Instruction(Last(control).kind, TRUE, 0, NULL, NULL)
             f == [Last(control) EXCEPT !.stage = "body", !.jump = NextNumber]
  <2>1. <<new>> \in Seq({new}) /\ Add(<<new>>) /\ control' = Append(Front(control), f)
    BY <1>6 DEF ConditionalJumpPlaceholder, Replace
  <2>2. control # <<>> /\ Last(control) \in Frames
    BY <1>1, <1>6 DEF ConditionalJumpPlaceholder, InCondition, Innermost
  <2>3. f \in Frames /\ f.kind = Last(control).kind
    BY <1>1, <2>2 DEF Frames
  <2> HIDE DEF f, new
  <2>4. SameBlocks
    BY <1>1, <2>1, <2>2, <2>3, Replaced DEF SameBlocks
  <2>5. QED
    BY <1>1, <2>1, <2>4, AddStep, SameDepth
<1>7. CASE BeginBlock
  <2> DEFINE f == Frame("block", "body", NULL)
  <2>1. f \in Frames /\ f.kind = "block"
    BY <1>2 DEF Kinds, NULL
  <2>2. /\ control' = Append(control, f) /\ instructions' = instructions
        /\ lists' = Append(lists, <<>>) /\ counts' = Append(counts, 0)
    BY <1>7 DEF BeginBlock
  <2> HIDE DEF f
  <2>3. control' \in Seq(Frames) /\ Cardinality(Blocks(control')) = Cardinality(Blocks(control)) + 1
    BY <1>1, <2>1, <2>2, Pushed
  <2>4. ListsInv' /\ Len(lists') = Len(lists) + 1
    BY <1>1, <2>2, OpenKeepsLists
  <2>5. Cardinality(Blocks(control)) \in Nat
    BY <1>1, BlocksFinite
  <2>6. QED
    BY <2>3, <2>4, <2>5 DEF LayoutInv, BlocksInv
<1>8. CASE EndBlock
  <2>1. InBlock /\ control # <<>> /\ Last(control).kind = "block"
    BY <1>8 DEF EndBlock, InBlock, Innermost
  <2>2. ListsInv' /\ Len(lists') = Len(lists) - 1
    BY <1>1, <1>8, <2>1, EndStep
  <2> DEFINE outer == Front(control)
  <2>3. /\ outer \in Seq(Frames)
        /\ Cardinality(Blocks(outer)) = Cardinality(Blocks(control)) - 1
        /\ Cardinality(Blocks(control)) \in Nat
    BY <1>1, <2>1, Popped, BlocksFinite
  <2>4. control' \in Seq(Frames) /\ Cardinality(Blocks(control')) = Cardinality(Blocks(outer))
    <3>1. PICK size \in Nat :
            control' = IF outer # <<>> /\ Last(outer).stage = "body" /\ Last(outer).kind # "block"
                       THEN Append(Front(outer), [Last(outer) EXCEPT !.stage = "parsed", !.size = size])
                       ELSE outer
      <4>1. PICK locals \in 0..MaxLocals :
              control' = IF outer # <<>> /\ Last(outer).stage = "body" /\ Last(outer).kind # "block"
                         THEN Append(Front(outer),
                                [Last(outer) EXCEPT !.stage = "parsed",
                                                    !.size = BlockSize([i \in 1..(2 * locals) |-> Plain])])
                         ELSE outer
        BY <1>8 DEF EndBlock
      <4>2. Len([i \in 1..(2 * locals) |-> Plain]) \in Nat
        BY LayoutAssumption
      <4>3. BlockSize([i \in 1..(2 * locals) |-> Plain]) \in Nat
        BY <1>1, <4>2 DEF BlockSize
      <4>4. QED
        BY <4>1, <4>3
    <3> DEFINE f == [Last(outer) EXCEPT !.stage = "parsed", !.size = size]
    <3> HIDE DEF outer
    <3>2. CASE outer # <<>> /\ Last(outer).stage = "body" /\ Last(outer).kind # "block"
      <4>1. Last(outer) \in Frames
        BY <2>3, <3>2, Popped
      <4>2. f \in Frames /\ f.kind = Last(outer).kind
        BY <4>1 DEF Frames
      <4>3. control' = Append(Front(outer), f)
        BY <3>1, <3>2
      <4> HIDE DEF f
      <4>4. QED
        BY <2>3, <3>2, <4>2, <4>3, Replaced
    <3>3. CASE ~(outer # <<>> /\ Last(outer).stage = "body" /\ Last(outer).kind # "block")
      BY <2>3, <3>1, <3>3
    <3>4. QED
      BY <3>2, <3>3
  <2>5. QED
    BY <2>2, <2>3, <2>4 DEF LayoutInv, BlocksInv
<1>9. CASE SingleIfStatement
  <2>1. /\ control # <<>> /\ Last(control).kind = "if" /\ Last(control) \in Frames
        /\ instructions' = Patch(Last(control).jump, Last(control).size + 1, NextNumber)
        /\ Reduced(Front(control), Last(control).size + 1)
        /\ UNCHANGED <<lists, counts>>
    BY <1>1, <1>9 DEF SingleIfStatement, Innermost
  <2>2. Last(control).size + 1 \in Nat
    BY <2>1 DEF Frames
  <2>3. SameBlocks
    BY <1>1, <2>1, <2>2, ReducedStep
  <2>4. instructions' = [i \in Numbers |-> instructions'[i]]
    BY <2>1 DEF Patch, Numbers
  <2>5. QED
    BY <1>1, <2>1, <2>3, <2>4, RewriteStep, SameDepth
<1>10. CASE TakenIfStatement
  <2> DEFINE f == [Frame("else", "body", NextNumber) EXCEPT !.taken = Last(control).size + 1]
  <2>1. /\ control # <<>> /\ Last(control).kind = "if" /\ Last(control) \in Frames
        /\ control' = Append(Front(control), f)
    BY <1>1, <1>10 DEF TakenIfStatement, Innermost, Replace
  <2>2. f \in Frames /\ f.kind = "else"
    <3>1. Last(control).size + 1 \in Nat
      BY <2>1 DEF Frames
    <3>2. Frame("else", "body", NextNumber) \in Frames /\ Frame("else", "body", NextNumber).kind = "else"
      BY <1>1, <1>2 DEF Kinds
    <3>3. QED
      BY <3>1, <3>2 DEF Frames
  <2> HIDE DEF f
  <2>3. SameBlocks
    BY <1>1, <2>1, <2>2, Replaced DEF SameBlocks
  <2>4. ListsInv' /\ Len(lists') = Len(lists)
    BY <1>1, <1>10, PatchAndAdd DEF TakenIfStatement
  <2>5. QED
    BY <2>3, <2>4, SameDepth
<1>11. CASE ElseIf
  <2> DEFINE f == Frame("if", "condition", NULL)
  <2>1. f \in Frames /\ f.kind = "if"
    BY <1>2 DEF Kinds, NULL
  <2>2. /\ control' = Append(control, f) /\ UNCHANGED <<lists, counts>>
        /\ instructions' = [i \in Numbers |-> instructions'[i]]
    BY <1>11 DEF ElseIf, Numbers
  <2> HIDE DEF f
  <2>3. SameBlocks
    BY <1>1, <2>1, <2>2, Pushed, BlocksFinite DEF SameBlocks
  <2>4. QED
    BY <1>1, <2>2, <2>3, RewriteStep, SameDepth
<1>12. CASE IfElseStatement
  <2>1. /\ control # <<>> /\ Last(control).kind = "else" /\ Last(control) \in Frames
        /\ instructions' = Patch(Last(control).jump, Last(control).size + 1, NextNumber)
        /\ Reduced(Front(control), Last(control).taken + Last(control).size + 1)
        /\ UNCHANGED <<lists, counts>>
    BY <1>1, <1>12 DEF IfElseStatement, Innermost
  <2>2. Last(control).taken + Last(control).size + 1 \in Nat
    BY <2>1 DEF Frames
  <2>3. SameBlocks
    BY <1>1, <2>1, <2>2, ReducedStep
  <2>4. instructions' = [i \in Numbers |-> instructions'[i]]
    BY <2>1 DEF Patch, Numbers
  <2>5. QED
    BY <1>1, <2>1, <2>3, <2>4, RewriteStep, SameDepth
<1>13. CASE WhileStatement
  <2>1. /\ control # <<>> /\ Last(control).kind = "while" /\ control' = Front(control)
    BY <1>13 DEF WhileStatement, Innermost
  <2>2. SameBlocks
    BY <1>1, <2>1, Popped, BlocksFinite DEF SameBlocks
  <2>3. ListsInv' /\ Len(lists') = Len(lists)
    BY <1>1, <1>13, PatchAndAdd DEF WhileStatement
  <2>4. QED
    BY <2>2, <2>3, SameDepth
<1>14. CASE \E f \in FunctionNames : FunctionCall(f)
  <2>1. PICK a, b : Add(<<a, b>>) /\ control' = control
    BY <1>14 DEF FunctionCall
  <2>2. <<a, b>> \in Seq({a, b})
    OBVIOUS
  <2>3. QED
    BY <1>1, <2>1, <2>2, AddStep, UntouchedControl, SameDepth
<1>15. QED
  BY <1>3, <1>4, <1>5, <1>6, <1>7, <1>8, <1>9, <1>10, <1>11, <1>12, <1>13, <1>14 DEF Statements

LEMMA TopLevelKeepsInv ==
    ASSUME LayoutInv, TopLevel
    PROVE  LayoutInv'
<1>1. ListsInv
  BY DEF LayoutInv
<1>2. ASSUME NEW T, NEW new \in Seq(T), Add(new), control' = control
      PROVE  LayoutInv'
  BY <1>1, <1>2, AddStep, UntouchedControl, SameDepth
<1>3. CASE ProgramStart
  <2>1. PICK a : Add(<<a>>) /\ control' = control
    BY <1>3 DEF ProgramStart
  <2>2. <<a>> \in Seq({a})
    OBVIOUS
  <2>3. QED
    BY <1>2, <2>1, <2>2
<1>4. CASE \E f \in FunctionNames : BeginFunctionDefinition(f)
  <2>1. Add(<<Plain, Plain>>) /\ control' = control
    BY <1>4 DEF BeginFunctionDefinition
  <2>2. <<Plain, Plain>> \in Seq({Plain})
    OBVIOUS
  <2>3. QED
    BY <1>2, <2>1, <2>2
<1>5. CASE EndFunctionDefinition
  <2>1. Add(<<Plain>>) /\ control' = control
    BY <1>5 DEF EndFunctionDefinition
  <2>2. <<Plain>> \in Seq({Plain})
    OBVIOUS
  <2>3. QED
    BY <1>2, <2>1, <2>2
<1>6. CASE BeginMainMethod
  <2>1. control' = control
    BY <1>6 DEF BeginMainMethod
  <2>2. QED
    BY <1>1, <1>6, <2>1, MainStep, UntouchedControl, SameDepth
<1>7. CASE EndMainMethod
  <2>1. control' = control /\ UNCHANGED <<instructions, lists, counts>>
    BY <1>7 DEF EndMainMethod
  <2>2. QED
    BY <2>1, UntouchedLists, UntouchedControl, SameDepth
<1>8. CASE ResolveReferences
  <2>1. /\ control' = control /\ UNCHANGED <<lists, counts>>
        /\ instructions' = [i \in Numbers |-> instructions'[i]]
    BY <1>8 DEF ResolveReferences
  <2>2. QED
    BY <1>1, <2>1, RewriteStep, UntouchedControl, SameDepth
<1>9. QED
  BY <1>3, <1>4, <1>5, <1>6, <1>7, <1>8 DEF TopLevel

-----------------------------------------------------------------------------
LEMMA LayoutStarts ==
    ASSUME Init
    PROVE  LayoutInv
<1>1. /\ Len(instructions) = 0 /\ Listed(instructions)
      /\ lists \in Seq(Seq(Nat)) /\ Len(lists) = 1 /\ Len(lists[1]) = 0
      /\ counts \in Seq(Nat) /\ Len(counts) = 1 /\ counts[1] = 0
  BY DEF Init, Listed
<1>2. InRuns
  <2> DEFINE ends == [k \in 0..1 |-> 0]
  <2>1. ends \in [0..Len(lists) -> Nat] /\ Runs(ends, lists, Len(instructions))
    BY <1>1 DEF Runs
  <2>2. QED
    BY <2>1 DEF InRuns
<1>3. control \in Seq(Frames) /\ Blocks(control) = {}
  BY DEF Init, Blocks
<1>4. QED
  BY <1>1, <1>2, <1>3, FS_EmptySet DEF LayoutInv, ListsInv, BlocksInv, Counted

LEMMA LayoutStep ==
    ASSUME LayoutInv, [Next]_vars
    PROVE  LayoutInv'
<1>1. CASE Statements
  BY <1>1, StatementsKeepInv
<1>2. CASE TopLevel
  BY <1>2, TopLevelKeepsInv
<1>3. CASE Finished \/ UNCHANGED vars
  <2>1. UNCHANGED <<instructions, lists, counts>> /\ control' = control
    BY <1>3 DEF Finished, vars
  <2>2. QED
    BY <2>1, UntouchedLists, UntouchedControl, SameDepth
<1>4. QED
  BY <1>1, <1>2, <1>3 DEF Next

(* However blocks nest, end and free their locals, scope_flush keeps the    *)
(* instructions in the order in which they were added, each once.           *)
THEOREM OrderIsKept == Spec => []EmissionOrder
<1>1. LayoutInv => EmissionOrder
  BY OrderFromRuns DEF LayoutInv
<1>2. QED
  BY <1>1, LayoutStarts, LayoutStep, PTL DEF Spec

(* current_program_address, the sum of the open scopes' counts, is always   *)
(* the final address of the next instruction.                               *)
THEOREM AddressIsFinal == Spec => []ProgramAddressExact
<1>1. LayoutInv => ProgramAddressExact
  BY AddressIsEnd DEF LayoutInv
<1>2. QED
  BY <1>1, LayoutStarts, LayoutStep, PTL DEF Spec

-----------------------------------------------------------------------------
(* Types, and the calls *)

Roles == {"code", "start", "call", "return_address", "if", "else", "elseif", "while", "loop",
          "first_loop"}
Branches == {"if", "else", "elseif", "while"}

IsItem(x) ==
    /\ x = Instruction(x.role, x.relative, x.value, x.target, x.goal)
    /\ x.role \in Roles /\ x.goal \in Nat

(* An entry that resolving will turn into an exact address.                 *)
Aimed(x, n) == x.target = x.goal /\ x.goal \in 1..n /\ x.relative = FALSE

Ready(x, n, settled) ==
    /\ x.role = "call" => Aimed(x, n)
    /\ x.role = "start" /\ settled => Aimed(x, n)
    /\ x.role = "start" => x.relative = FALSE
    /\ x.role = "return_address" => x.value = x.goal - 1

(* main has begun, so the jump of program_start has its target.             *)
Settled == phase \in {"main_head", "main_body", "main_tail", "parsed", "resolved"}

ItemsIn(items) == \A i \in DOMAIN items : IsItem(items[i])
ReadyIn(items, settled) == \A i \in DOMAIN items : Ready(items[i], Len(items), settled)

(* The jump a frame remembers is one of those that patches may change.      *)
Jumping(f) == f.kind = "else" \/ (f.kind # "block" /\ f.stage # "condition")

Owners(items) ==
    {f \in Frames : Jumping(f) => f.jump \in DOMAIN items /\ items[f.jump].role \in Branches}

(* Statements are parsed exactly in bodies, and a body is a block.          *)
PhaseInv ==
    /\ phase \in {"globals", "toplevel", "function_head", "function_body", "function_tail",
                  "main_head", "main_body", "main_tail", "parsed", "resolved"}
    /\ control # <<>> <=> phase \in {"function_body", "main_body"}
    /\ control # <<>> => control[1].kind = "block"

EntriesIn(table, n) == \A i \in DOMAIN table : table[i].entry \in 1..n

CallsInv ==
    /\ LayoutInv
    /\ PhaseInv
    /\ control \in Seq(Owners(instructions))
    /\ ItemsIn(instructions)
    /\ phase # "resolved" => ReadyIn(instructions, Settled)
    /\ functions \in Seq([name : FunctionNames, entry : Nat])
    /\ EntriesIn(functions, Len(instructions))
    /\ CallsExact

-----------------------------------------------------------------------------
(* A branch stays a branch, so what a frame owned it owns still.            *)
RolesKept(old, new) ==
    \A i \in DOMAIN old : /\ i \in DOMAIN new
                          /\ old[i].role \in Branches => new[i].role \in Branches

LEMMA OwnersKept ==
    ASSUME NEW old, NEW new, RolesKept(old, new)
    PROVE  Owners(old) \subseteq Owners(new)
BY DEF RolesKept, Owners

LEMMA OwnedOn ==
    ASSUME NEW old, NEW new, RolesKept(old, new), NEW s \in Seq(Owners(old))
    PROVE  s \in Seq(Owners(new))
<1>1. Owners(old) \subseteq Owners(new)
  BY OwnersKept
<1>2. QED
  BY <1>1

LEMMA ItemsAdded ==
    ASSUME NEW old, Listed(old), ItemsIn(old), NEW T, NEW new \in Seq(T),
           \A j \in 1..Len(new) : IsItem(new[j])
    PROVE  /\ ItemsIn(old \o new) /\ RolesKept(old, old \o new)
           /\ \A i \in DOMAIN old : (old \o new)[i] = old[i]
           /\ \A j \in 1..Len(new) : Len(old) + j \in DOMAIN (old \o new) /\ (old \o new)[Len(old) + j] = new[j]
<1> DEFINE S == {old[i] : i \in DOMAIN old} \cup T
           both == old \o new
<1>1. old \in Seq(S) /\ new \in Seq(S)
  BY DEF Listed
<1> HIDE DEF S
<1>2. /\ DOMAIN old = 1..Len(old) /\ Len(old) \in Nat /\ Len(new) \in Nat
      /\ DOMAIN both = 1..(Len(old) + Len(new))
      /\ \A i \in 1..Len(old) : both[i] = old[i]
      /\ \A j \in 1..Len(new) : both[Len(old) + j] = new[j]
  BY <1>1
<1> HIDE DEF both
<1>3. ASSUME NEW i \in DOMAIN both
      PROVE  i \in DOMAIN old \/ \E j \in 1..Len(new) : i = Len(old) + j
  <2>1. CASE i <= Len(old)
    BY <1>2, <2>1
  <2>2. CASE i > Len(old)
    <3>1. i - Len(old) \in 1..Len(new) /\ i = Len(old) + (i - Len(old))
      BY <1>2, <2>2
    <3>2. QED
      BY <3>1
  <2>3. QED
    BY <1>2, <2>1, <2>2
<1>4. ItemsIn(both)
  BY <1>2, <1>3 DEF ItemsIn
<1>5. \A i \in DOMAIN old : i \in DOMAIN both
  BY <1>2
<1>6. \A j \in 1..Len(new) : Len(old) + j \in DOMAIN both
  BY <1>2
<1>7. RolesKept(old, both)
  BY <1>2, <1>5 DEF RolesKept
<1>8. QED
  BY <1>2, <1>4, <1>6, <1>7 DEF both

LEMMA ReadyAdded ==
    ASSUME NEW old, Listed(old), ItemsIn(old), NEW settled, ReadyIn(old, settled),
           NEW T, NEW new \in Seq(T),
           \A j \in 1..Len(new) : IsItem(new[j]) /\ Ready(new[j], Len(old) + Len(new), settled)
    PROVE  ReadyIn(old \o new, settled)
<1> DEFINE both == old \o new
<1>1. /\ \A i \in DOMAIN old : both[i] = old[i]
      /\ \A j \in 1..Len(new) : both[Len(old) + j] = new[j]
  BY ItemsAdded
<1>2. /\ Len(both) = Len(old) + Len(new) /\ Listed(both)
  BY ListedAfter
<1>3. DOMAIN old = 1..Len(old) /\ DOMAIN both = 1..Len(both) /\ Len(old) \in Nat /\ Len(new) \in Nat
  BY <1>2 DEF Listed
<1> HIDE DEF both
<1>4. ASSUME NEW i \in DOMAIN both
      PROVE  Ready(both[i], Len(both), settled)
  <2>1. CASE i <= Len(old)
    <3>1. i \in DOMAIN old /\ Ready(old[i], Len(old), settled)
      BY <1>2, <1>3, <2>1 DEF ReadyIn
    <3>2. \A x \in Nat : x \in 1..Len(old) => x \in 1..Len(both)
      BY <1>2, <1>3
    <3>3. old[i].goal \in Nat
      BY <3>1 DEF ItemsIn, IsItem
    <3>4. QED
      BY <1>1, <3>1, <3>2, <3>3 DEF Ready, Aimed
  <2>2. CASE i > Len(old)
    <3>1. i - Len(old) \in 1..Len(new) /\ i = Len(old) + (i - Len(old))
      BY <1>2, <1>3, <2>2
    <3>2. QED
      BY <1>1, <1>2, <3>1
  <2>3. QED
    BY <1>2, <1>3, <2>1, <2>2
<1>5. QED
  BY <1>4 DEF ReadyIn, both

(* Rewriting branches into branches disturbs no call.                       *)
LEMMA BranchesRewritten ==
    ASSUME NEW old, Listed(old), ItemsIn(old), NEW new, new = [i \in DOMAIN old |-> new[i]],
           \A i \in DOMAIN old : \/ new[i] = old[i]
                                 \/ /\ old[i].role \in Branches /\ new[i].role \in Branches
                                    /\ IsItem(new[i])
    PROVE  /\ Listed(new) /\ Len(new) = Len(old) /\ ItemsIn(new) /\ RolesKept(old, new)
           /\ \A settled : ReadyIn(old, settled) => ReadyIn(new, settled)
<1>1. Listed(new) /\ Len(new) = Len(old) /\ DOMAIN new = DOMAIN old
  BY ListedRewritten
<1>2. ItemsIn(new)
  BY <1>1 DEF ItemsIn
<1>3. RolesKept(old, new)
  BY <1>1 DEF RolesKept
<1>4. ASSUME NEW settled, ReadyIn(old, settled)
      PROVE  ReadyIn(new, settled)
  <2>1. ASSUME NEW i \in DOMAIN new
        PROVE  Ready(new[i], Len(new), settled)
    <3>1. CASE new[i] = old[i]
      BY <1>1, <1>4, <3>1 DEF ReadyIn
    <3>2. CASE new[i].role \in Branches
      BY <3>2 DEF Ready, Branches
    <3>3. QED
      BY <1>1, <3>1, <3>2
  <2>2. QED
    BY <2>1 DEF ReadyIn
<1>5. QED
  BY <1>1, <1>2, <1>3, <1>4

LEMMA PatchedBranch ==
    ASSUME Listed(instructions), ItemsIn(instructions), NEW number \in Numbers,
           instructions[number].role \in Branches, NEW offset, NEW goal \in Nat
    PROVE  LET new == Patch(number, offset, goal)
           IN  /\ Listed(new) /\ Len(new) = Len(instructions) /\ ItemsIn(new)
               /\ RolesKept(instructions, new)
               /\ \A settled : ReadyIn(instructions, settled) => ReadyIn(new, settled)
<1> DEFINE new == Patch(number, offset, goal)
<1>1. new = [i \in DOMAIN instructions |-> new[i]]
  BY DEF Patch
<1>2. ASSUME NEW i \in DOMAIN instructions, i # number
      PROVE  new[i] = instructions[i]
  BY <1>2 DEF Patch
<1>3. IsItem(instructions[number])
  BY DEF ItemsIn, Numbers
<1>4. new[number] = [instructions[number] EXCEPT !.value = offset, !.goal = goal]
  BY DEF Patch, Numbers
<1>5. new[number].role \in Branches /\ IsItem(new[number])
  BY <1>3, <1>4 DEF IsItem, Instruction
<1> HIDE DEF new
<1>6. \A i \in DOMAIN instructions :
          \/ new[i] = instructions[i]
          \/ instructions[i].role \in Branches /\ new[i].role \in Branches /\ IsItem(new[i])
  BY <1>2, <1>5
<1>7. /\ Listed(new) /\ Len(new) = Len(instructions) /\ ItemsIn(new)
      /\ RolesKept(instructions, new)
      /\ \A settled : ReadyIn(instructions, settled) => ReadyIn(new, settled)
  BY <1>1, <1>6, BranchesRewritten
<1>8. QED
  BY <1>7 DEF new

LEMMA ElseIfMarked ==
    ASSUME Listed(instructions), ItemsIn(instructions), NEW number \in Numbers,
           instructions[number].role \in Branches
    PROVE  LET new == [instructions EXCEPT ![number].role = "elseif"]
           IN  /\ Listed(new) /\ Len(new) = Len(instructions) /\ ItemsIn(new)
               /\ RolesKept(instructions, new)
               /\ \A settled : ReadyIn(instructions, settled) => ReadyIn(new, settled)
<1> DEFINE new == [instructions EXCEPT ![number].role = "elseif"]
<1>1. new = [i \in DOMAIN instructions |-> new[i]]
  OBVIOUS
<1>2. ASSUME NEW i \in DOMAIN instructions, i # number
      PROVE  new[i] = instructions[i]
  BY <1>2
<1>3. IsItem(instructions[number])
  BY DEF ItemsIn, Numbers
<1>4. new[number] = [instructions[number] EXCEPT !.role = "elseif"]
  BY DEF Numbers
<1>5. new[number].role \in Branches /\ IsItem(new[number])
  BY <1>3, <1>4 DEF IsItem, Instruction, Branches, Roles
<1> HIDE DEF new
<1>6. \A i \in DOMAIN instructions :
          \/ new[i] = instructions[i]
          \/ instructions[i].role \in Branches /\ new[i].role \in Branches /\ IsItem(new[i])
  BY <1>2, <1>5
<1>7. /\ Listed(new) /\ Len(new) = Len(instructions) /\ ItemsIn(new)
      /\ RolesKept(instructions, new)
      /\ \A settled : ReadyIn(instructions, settled) => ReadyIn(new, settled)
  BY <1>1, <1>6, BranchesRewritten
<1>8. QED
  BY <1>7 DEF new

LEMMA EntriesOn ==
    ASSUME NEW table \in Seq([name : FunctionNames, entry : Nat]), NEW n \in Nat, NEW m \in Nat,
           n <= m, EntriesIn(table, n)
    PROVE  EntriesIn(table, m)
BY DEF EntriesIn

(* A step inside statements, or outside them, that leaves phase alone and   *)
(* keeps calls ready.                                                       *)
Keeps ==
    /\ ItemsIn(instructions') /\ RolesKept(instructions, instructions')
    /\ Len(instructions) <= Len(instructions') /\ Len(instructions') \in Nat
    /\ ReadyIn(instructions', Settled)

LEMMA AddKeeps ==
    ASSUME CallsInv, phase # "resolved", NEW T, NEW new \in Seq(T), Add(new),
           \A j \in 1..Len(new) : IsItem(new[j]) /\ Ready(new[j], Len(instructions) + Len(new), Settled)
    PROVE  Keeps
<1>1. Listed(instructions) /\ ItemsIn(instructions) /\ ReadyIn(instructions, Settled)
  BY DEF CallsInv, LayoutInv, ListsInv
<1>2. instructions' = instructions \o new
  BY DEF Add
<1>3. ItemsIn(instructions') /\ RolesKept(instructions, instructions')
  BY <1>1, <1>2, ItemsAdded
<1>4. ReadyIn(instructions', Settled)
  BY <1>1, <1>2, ReadyAdded
<1>5. Len(instructions') = Len(instructions) + Len(new) /\ Len(instructions) \in Nat /\ Len(new) \in Nat
  BY <1>1, <1>2, ListedAfter DEF Listed
<1>6. QED
  BY <1>3, <1>4, <1>5 DEF Keeps

(* What is no call is ready.                                                *)
LEMMA NoCall ==
    ASSUME NEW role \in Roles \ {"call", "start", "return_address"}, NEW relative, NEW value,
           NEW target, NEW goal \in Nat, NEW n, NEW settled
    PROVE  LET x == Instruction(role, relative, value, target, goal)
           IN  IsItem(x) /\ Ready(x, n, settled)
BY DEF IsItem, Ready, Instruction

LEMMA PlainIsNoCall ==
    ASSUME NEW n, NEW settled
    PROVE  IsItem(Plain) /\ Ready(Plain, n, settled)
BY DEF IsItem, Ready, Instruction, Plain, NULL, Roles

-----------------------------------------------------------------------------
(* Inside a body, the outermost frame is its block.                         *)

Base(s, S) == s \in Seq(S) /\ s # <<>> /\ s[1].kind = "block"

LEMMA BasePushed ==
    ASSUME NEW S, NEW s, Base(s, S), NEW f \in S
    PROVE  Base(Append(s, f), S)
<1>1. s \in Seq(S) /\ Len(s) >= 1 /\ Len(s) \in Nat
  BY DEF Base
<1>2. Append(s, f) \in Seq(S) /\ Append(s, f)[1] = s[1] /\ Len(Append(s, f)) >= 1
  BY <1>1
<1>3. QED
  BY <1>2 DEF Base

LEMMA BasePopped ==
    ASSUME NEW S, NEW s, Base(s, S), Last(s).kind # "block" \/ Len(s) > 1
    PROVE  /\ Base(Front(s), S)
           /\ \A f \in S : Base(Append(Front(s), f), S)
<1>1. s \in Seq(S) /\ Len(s) \in Nat /\ Len(s) >= 1 /\ s[1].kind = "block"
  BY DEF Base
<1>2. Len(s) > 1
  BY <1>1 DEF Last
<1>3. Front(s) \in Seq(S) /\ Front(s)[1] = s[1] /\ Len(Front(s)) >= 1
  BY <1>1, <1>2 DEF Front
<1>4. Base(Front(s), S)
  BY <1>1, <1>3 DEF Base
<1>5. QED
  BY <1>4, BasePushed

(* A finished part is owned as the open one was.                            *)
LEMMA OwnedParsed ==
    ASSUME NEW items, NEW s, Base(s, Owners(items)), Jumping(Last(s)), NEW size \in Nat
    PROVE  Base(Append(Front(s), [Last(s) EXCEPT !.stage = "parsed", !.size = size]), Owners(items))
<1> DEFINE g == Last(s)
           f == [g EXCEPT !.stage = "parsed", !.size = size]
<1>1. g \in Owners(items)
  <2> DEFINE S == Owners(items)
  <2> HIDE DEF S
  <2>1. s \in Seq(S) /\ s # <<>>
    BY DEF Base, S
  <2>2. s[Len(s)] \in S
    BY <2>1
  <2>3. QED
    BY <2>2 DEF Last, S
<1>2. g \in Frames /\ Jumping(g)
  BY <1>1 DEF Owners
<1>3. f \in Frames /\ f.kind = g.kind /\ f.jump = g.jump
  BY <1>2 DEF Frames
<1>4. g.kind # "block"
  BY <1>2 DEF Jumping
<1> HIDE DEF f
<1>5. f \in Owners(items)
  BY <1>1, <1>2, <1>3 DEF Owners
<1>6. Base(Append(Front(s), f), Owners(items))
  BY <1>4, <1>5, BasePopped
<1>7. QED
  BY <1>6 DEF f

LEMMA EntriesKept ==
    ASSUME CallsInv, Len(instructions) <= Len(instructions'), Len(instructions') \in Nat
    PROVE  EntriesIn(functions, Len(instructions'))
<1>1. functions \in Seq([name : FunctionNames, entry : Nat]) /\ EntriesIn(functions, Len(instructions))
  BY DEF CallsInv
<1>2. Len(instructions) \in Nat
  BY DEF CallsInv, LayoutInv, ListsInv, Listed
<1>3. QED
  BY <1>1, <1>2, EntriesOn

LEMMA Aside ==
    ASSUME CallsInv, LayoutInv', Keeps, phase # "resolved", UNCHANGED <<phase, control, functions>>
    PROVE  CallsInv'
<1>1. control' \in Seq(Owners(instructions'))
  BY OwnedOn DEF CallsInv, Keeps
<1>2. EntriesIn(functions, Len(instructions'))
  BY EntriesKept DEF Keeps
<1>3. PhaseInv' /\ Settled' = Settled
  BY DEF CallsInv, PhaseInv, Settled
<1>4. CallsExact'
  BY DEF CallsExact, Exact
<1>5. QED
  BY <1>1, <1>2, <1>3, <1>4 DEF CallsInv, Keeps

LEMMA Within ==
    ASSUME CallsInv, LayoutInv', Keeps, control # <<>>,
           Base(control', Owners(instructions')), UNCHANGED <<phase, functions>>
    PROVE  CallsInv'
<1>1. EntriesIn(functions, Len(instructions'))
  BY EntriesKept DEF Keeps
<1>2. phase \in {"function_body", "main_body"}
  BY DEF CallsInv, PhaseInv
<1>3. PhaseInv' /\ Settled' = Settled
  BY <1>2 DEF CallsInv, PhaseInv, Settled, Base
<1>4. CallsExact'
  BY <1>2 DEF CallsExact, Exact
<1>5. control' \in Seq(Owners(instructions'))
  BY DEF Base
<1>6. QED
  BY <1>1, <1>2, <1>3, <1>4, <1>5 DEF CallsInv, Keeps

(* What the invariant says inside a statement.                              *)
LEMMA InStatement ==
    ASSUME CallsInv, control # <<>>
    PROVE  /\ Base(control, Owners(instructions)) /\ Last(control) \in Owners(instructions)
           /\ Last(control) \in Frames /\ phase \in {"function_body", "main_body"}
           /\ Listed(instructions) /\ ItemsIn(instructions) /\ ReadyIn(instructions, Settled)
           /\ Len(instructions) \in Nat /\ NextNumber \in Nat /\ LastInstruction \in Nat
           /\ NextNumber = Len(instructions) + 1
           /\ Numbers = 1..Len(instructions)
<1>1. Base(control, Owners(instructions)) /\ phase \in {"function_body", "main_body"}
  BY DEF CallsInv, PhaseInv, Base
<1>2. Last(control) \in Owners(instructions)
  BY <1>1 DEF Base, Last
<1>3. Last(control) \in Frames
  BY <1>2 DEF Owners
<1>4. Listed(instructions) /\ ItemsIn(instructions) /\ ReadyIn(instructions, Settled)
  BY <1>1 DEF CallsInv, LayoutInv, ListsInv
<1>5. NextNumber \in Nat /\ LastInstruction \in Nat
  BY StepFacts DEF CallsInv
<1>6. Len(instructions) \in Nat /\ NextNumber = Len(instructions) + 1 /\ Numbers = 1..Len(instructions)
  BY <1>4 DEF Listed, NextNumber, Numbers
<1>7. QED
  BY <1>1, <1>2, <1>3, <1>4, <1>5, <1>6

(* Nothing emitted.                                                         *)
LEMMA SilentKeeps ==
    ASSUME CallsInv, phase # "resolved", UNCHANGED instructions
    PROVE  Keeps
BY DEF CallsInv, LayoutInv, ListsInv, Listed, Keeps, RolesKept

-----------------------------------------------------------------------------
(* Steps and calls *)

(* A patch, and a jump behind it.                                           *)
LEMMA PatchKeeps ==
    ASSUME CallsInv, phase # "resolved", NEW number \in Numbers,
           instructions[number].role \in Branches, NEW offset, NEW goal \in Nat,
           instructions' = Patch(number, offset, goal)
    PROVE  Keeps
<1>1. Listed(instructions) /\ ItemsIn(instructions) /\ ReadyIn(instructions, Settled)
  BY DEF CallsInv, LayoutInv, ListsInv
<1>2. /\ Len(instructions') = Len(instructions) /\ ItemsIn(instructions')
      /\ RolesKept(instructions, instructions') /\ ReadyIn(instructions', Settled)
  BY <1>1, PatchedBranch
<1>3. Len(instructions) \in Nat
  BY <1>1 DEF Listed
<1>4. QED
  BY <1>2, <1>3 DEF Keeps

LEMMA PatchAndAddKeeps ==
    ASSUME CallsInv, phase # "resolved", NEW number \in Numbers,
           instructions[number].role \in Branches, NEW offset, NEW goal \in Nat,
           NEW new, IsItem(new), Ready(new, Len(instructions) + 1, Settled),
           instructions' = Append(Patch(number, offset, goal), new)
    PROVE  /\ Keeps
           /\ NextNumber \in DOMAIN instructions' /\ instructions'[NextNumber] = new
<1> DEFINE p == Patch(number, offset, goal)
           one == <<new>>
<1>1. Listed(instructions) /\ ItemsIn(instructions) /\ ReadyIn(instructions, Settled)
  BY DEF CallsInv, LayoutInv, ListsInv
<1>2. /\ Listed(p) /\ Len(p) = Len(instructions) /\ ItemsIn(p)
      /\ RolesKept(instructions, p) /\ ReadyIn(p, Settled)
  BY <1>1, PatchedBranch
<1> HIDE DEF p
<1>3. instructions' = p \o one
  BY <1>2 DEF p, Listed
<1>4. one \in Seq({new}) /\ Len(one) = 1 /\ one[1] = new
  OBVIOUS
<1> HIDE DEF one
<1>5. \A j \in 1..Len(one) : IsItem(one[j]) /\ Ready(one[j], Len(p) + Len(one), Settled)
  BY <1>2, <1>4
<1>12. \A j \in 1..Len(one) : IsItem(one[j])
  BY <1>5
<1>6. /\ ItemsIn(instructions') /\ RolesKept(p, instructions')
      /\ \A j \in 1..Len(one) : Len(p) + j \in DOMAIN instructions' /\ instructions'[Len(p) + j] = one[j]
  <2> DEFINE T == {new}
  <2>1. one \in Seq(T)
    BY <1>4
  <2> HIDE DEF T
  <2>2. /\ ItemsIn(p \o one) /\ RolesKept(p, p \o one)
        /\ \A j \in 1..Len(one) : Len(p) + j \in DOMAIN (p \o one) /\ (p \o one)[Len(p) + j] = one[j]
    BY <1>2, <1>12, <2>1, ItemsAdded
  <2>3. QED
    BY <1>3, <2>2
<1>7. ReadyIn(instructions', Settled)
  BY <1>2, <1>3, <1>4, <1>5, ReadyAdded
<1>8. Len(instructions') = Len(instructions) + 1 /\ Len(instructions) \in Nat
  <2>1. Len(p \o one) = Len(p) + Len(one)
    BY <1>2, <1>4, ListedAfter
  <2>2. Len(instructions) \in Nat
    BY <1>1 DEF Listed
  <2>3. QED
    BY <1>2, <1>3, <1>4, <2>1, <2>2
<1>9. RolesKept(instructions, instructions')
  BY <1>2, <1>6 DEF RolesKept
<1>10. NextNumber \in DOMAIN instructions' /\ instructions'[NextNumber] = new
  BY <1>2, <1>4, <1>6 DEF NextNumber
<1>11. QED
  BY <1>6, <1>7, <1>8, <1>9, <1>10 DEF Keeps

LEMMA ReducedBase ==
    ASSUME CallsInv, control # <<>>, Last(control).kind # "block", RolesKept(instructions, instructions'),
           NEW size \in Nat, Reduced(Front(control), size)
    PROVE  Base(control', Owners(instructions'))
<1> DEFINE outer == Front(control)
<1>1. Base(control, Owners(instructions'))
  BY OwnedOn, InStatement DEF Base
<1>2. Base(outer, Owners(instructions'))
  BY <1>1, BasePopped
<1> HIDE DEF outer
<1>3. CASE outer # <<>> /\ Last(outer).kind = "else"
  <2>1. control' = Append(Front(outer), [Last(outer) EXCEPT !.stage = "parsed", !.size = size])
    BY <1>3 DEF Reduced, outer
  <2>2. Jumping(Last(outer))
    BY <1>3 DEF Jumping
  <2>3. QED
    BY <1>2, <2>1, <2>2, OwnedParsed
<1>4. CASE ~(outer # <<>> /\ Last(outer).kind = "else")
  BY <1>2, <1>4 DEF Reduced, outer
<1>5. QED
  BY <1>3, <1>4

(* The jump of the frame on top is a branch that is there.                  *)
LEMMA OwnJump ==
    ASSUME CallsInv, control # <<>>, Jumping(Last(control))
    PROVE  /\ Last(control).jump \in Numbers
           /\ instructions[Last(control).jump].role \in Branches
BY InStatement DEF Owners, Numbers

LEMMA StatementsKeepCalls ==
    ASSUME CallsInv, Statements
    PROVE  CallsInv'
<1>1. LayoutInv'
  BY StatementsKeepInv DEF CallsInv
<1>2. ASSUME control # <<>>
      PROVE  /\ Base(control, Owners(instructions)) /\ Last(control) \in Frames
             /\ phase # "resolved" /\ NextNumber \in Nat /\ LastInstruction \in Nat
             /\ NextNumber = Len(instructions) + 1 /\ Len(instructions) \in Nat
             /\ Numbers = 1..Len(instructions)
  BY <1>2, InStatement
<1>3. ASSUME NEW f \in Frames, ~Jumping(f)
      PROVE  f \in Owners(instructions) /\ f \in Owners(instructions')
  BY <1>3 DEF Owners
<1>4. ASSUME NEW kind \in Kinds, NEW stage \in {"condition", "body", "parsed"}, NEW jump \in Nat
      PROVE  /\ Frame(kind, stage, jump) \in Frames
             /\ Frame(kind, stage, jump).kind = kind /\ Frame(kind, stage, jump).stage = stage
             /\ Frame(kind, stage, jump).jump = jump
  BY DEF Frame, Frames, NULL
<1>5. CASE Code
  <2>1. <<Plain>> \in Seq({Plain}) /\ Add(<<Plain>>) /\ UNCHANGED <<phase, control, functions>>
    BY <1>5 DEF Code
  <2>2. phase # "resolved"
    BY <1>2, <1>5 DEF Code, Emitting, InBlock, InCondition, Innermost
  <2>3. \A j \in 1..Len(<<Plain>>) :
            IsItem(<<Plain>>[j]) /\ Ready(<<Plain>>[j], Len(instructions) + Len(<<Plain>>), Settled)
    <3> DEFINE one == <<Plain>>
    <3>1. \A j \in 1..Len(one) : one[j] = Plain
      OBVIOUS
    <3> HIDE DEF one
    <3>2. \A j \in 1..Len(one) : IsItem(one[j]) /\ Ready(one[j], Len(instructions) + Len(one), Settled)
      BY <3>1, PlainIsNoCall
    <3>3. QED
      BY <3>2 DEF one
  <2>4. Keeps
    BY <2>1, <2>2, <2>3, AddKeeps
  <2>5. QED
    BY <1>1, <2>1, <2>2, <2>4, Aside
<1>6. CASE If
  <2> DEFINE f == Frame("if", "condition", NULL)
  <2>1. f \in Frames /\ ~Jumping(f)
    BY <1>4 DEF Kinds, NULL, Jumping
  <2>2. control' = Append(control, f) /\ UNCHANGED <<phase, instructions, functions>> /\ control # <<>>
    BY <1>6 DEF If, StatementStart, InBlock, Innermost
  <2> HIDE DEF f
  <2>3. Base(control', Owners(instructions'))
    BY <1>2, <1>3, <2>1, <2>2, BasePushed
  <2>4. QED
    BY <1>1, <1>2, <2>2, <2>3, SilentKeeps, Within
<1>7. CASE While
  <2> DEFINE f == [Frame("while", "condition", NULL) EXCEPT !.before = LastInstruction, !.first = NextNumber]
  <2>1. control' = Append(control, f) /\ UNCHANGED <<phase, instructions, functions>> /\ control # <<>>
    BY <1>7 DEF While, StatementStart, InBlock, Innermost
  <2>2. f \in Frames /\ ~Jumping(f)
    BY <1>2, <2>1 DEF Frame, Frames, Kinds, NULL, Jumping
  <2> HIDE DEF f
  <2>3. Base(control', Owners(instructions'))
    BY <1>2, <1>3, <2>1, <2>2, BasePushed
  <2>4. QED
    BY <1>1, <1>2, <2>1, <2>3, SilentKeeps, Within
<1>8. CASE ConditionalJumpPlaceholder
  <2> DEFINE new == Instruction(Last(control).kind, TRUE, 0, NULL, NULL)
             one == <<new>>
             f == [Last(control) EXCEPT !.stage = "body", !.jump = NextNumber]
  <2>1. /\ Add(one) /\ control' = Append(Front(control), f) /\ UNCHANGED <<phase, functions>>
        /\ control # <<>> /\ Last(control).kind \in {"if", "while"}
    BY <1>8 DEF ConditionalJumpPlaceholder, Replace, InCondition, Innermost
  <2>2. f \in Frames /\ f.jump = NextNumber /\ f.kind = Last(control).kind
    BY <1>2, <2>1 DEF Frames
  <2>3. /\ IsItem(new) /\ Ready(new, Len(instructions) + 1, Settled)
        /\ new.role \in Branches
    BY <2>1, NoCall DEF NULL, Roles, Branches, Instruction
  <2> HIDE DEF new, f
  <2>4. one \in Seq({new}) /\ Len(one) = 1 /\ one[1] = new
    OBVIOUS
  <2>5. \A j \in 1..Len(one) : IsItem(one[j]) /\ Ready(one[j], Len(instructions) + Len(one), Settled)
    BY <2>3, <2>4
  <2> HIDE DEF one
  <2>6. Keeps
    BY <1>2, <2>1, <2>4, <2>5, AddKeeps
  <2>7. /\ instructions' = instructions \o one
        /\ Len(instructions) + 1 \in DOMAIN instructions' /\ instructions'[Len(instructions) + 1] = new
    <3>1. instructions' = instructions \o one
      BY <2>1 DEF Add
    <3>2. Listed(instructions) /\ ItemsIn(instructions)
      BY DEF CallsInv, LayoutInv, ListsInv
    <3>5. \A j \in 1..Len(one) : IsItem(one[j])
      BY <2>5
    <3>3. \A j \in 1..Len(one) : Len(instructions) + j \in DOMAIN instructions'
                                /\ instructions'[Len(instructions) + j] = one[j]
      <4> DEFINE T == {new}
                 old == instructions
      <4>1. one \in Seq(T)
        BY <2>4
      <4> HIDE DEF T
      <4>2. \A j \in 1..Len(one) : Len(old) + j \in DOMAIN (old \o one) /\ (old \o one)[Len(old) + j] = one[j]
        BY <3>2, <3>5, <4>1, ItemsAdded
      <4>3. QED
        BY <3>1, <4>2
    <3>4. QED
      BY <2>4, <3>1, <3>3
  <2>8. f \in Owners(instructions')
    BY <1>2, <2>1, <2>2, <2>3, <2>7 DEF Owners
  <2>9. Base(control, Owners(instructions'))
    BY <1>2, <2>1, <2>6, OwnedOn DEF Base, Keeps
  <2>10. Base(control', Owners(instructions'))
    BY <2>1, <2>8, <2>9, BasePopped
  <2>11. QED
    BY <1>1, <2>1, <2>6, <2>10, Within
<1>9. CASE BeginBlock
  <2> DEFINE f == Frame("block", "body", NULL)
  <2>1. f \in Frames /\ f.kind = "block" /\ ~Jumping(f)
    BY <1>4 DEF Kinds, NULL, Jumping
  <2>2. /\ control' = Append(control, f) /\ UNCHANGED <<instructions, functions>>
        /\ phase' = CASE phase = "function_head" -> "function_body"
                      [] phase = "main_head" -> "main_body"
                      [] OTHER -> phase
        /\ control # <<>> \/ (control = <<>> /\ phase \in {"function_head", "main_head"})
    BY <1>9 DEF BeginBlock, StatementStart, InBlock, Innermost
  <2> HIDE DEF f
  <2>3. f \in Owners(instructions')
    BY <1>3, <2>1
  <2>4. CASE control # <<>>
    <3>1. Base(control', Owners(instructions'))
      BY <1>2, <2>2, <2>3, <2>4, BasePushed
    <3>2. phase' = phase
      BY <2>2, <2>4, InStatement
    <3>3. QED
      BY <1>1, <1>2, <2>2, <2>4, <3>1, <3>2, SilentKeeps, Within
  <2>5. CASE control = <<>>
    <3>1. control' = <<f>>
      BY <2>2, <2>5
    <3>2. /\ control' \in Seq(Owners(instructions')) /\ control' # <<>>
          /\ control'[1].kind = "block"
      <4> DEFINE S == Owners(instructions')
      <4> HIDE DEF S
      <4>1. f \in S
        BY <2>3 DEF S
      <4>2. QED
        BY <2>1, <3>1, <4>1 DEF S
    <3>3. phase \in {"function_head", "main_head"}
      BY <2>2, <2>5
    <3>4. \/ phase = "function_head" /\ phase' = "function_body"
          \/ phase = "main_head" /\ phase' = "main_body"
      BY <2>2, <3>3
    <3>5. PhaseInv' /\ Settled' = Settled
      BY <3>2, <3>4 DEF PhaseInv, Settled
    <3>6. CallsExact'
      BY <3>4 DEF CallsExact, Exact
    <3>7. QED
      BY <1>1, <2>2, <3>2, <3>4, <3>5, <3>6 DEF CallsInv
  <2>6. QED
    BY <2>4, <2>5
<1>10. CASE EndBlock
  <2>1. control # <<>> /\ Last(control).kind = "block" /\ functions' = functions
    BY <1>10 DEF EndBlock, InBlock, Innermost
  <2>2. PICK locals \in 0..MaxLocals :
          /\ instructions' = instructions \o [i \in 1..(2 * locals) |-> Plain]
          /\ control' = IF Front(control) # <<>> /\ Last(Front(control)).stage = "body"
                                               /\ Last(Front(control)).kind # "block"
                        THEN Append(Front(Front(control)),
                                [Last(Front(control)) EXCEPT !.stage = "parsed",
                                                    !.size = BlockSize([i \in 1..(2 * locals) |-> Plain])])
                        ELSE Front(control)
    BY <1>10 DEF EndBlock
  <2> DEFINE pops == [i \in 1..(2 * locals) |-> Plain]
  <2>3. pops \in Seq({Plain}) /\ Len(pops) \in Nat /\ \A j \in 1..Len(pops) : pops[j] = Plain
    BY LayoutAssumption
  <2>4. BlockSize(pops) \in Nat
    BY <2>3, StepFacts DEF BlockSize, CallsInv
  <2> HIDE DEF pops
  <2>5. \A j \in 1..Len(pops) :
            IsItem(pops[j]) /\ Ready(pops[j], Len(instructions) + Len(pops), Settled)
    BY <2>3, PlainIsNoCall
  <2>6. Keeps
    <3>1. Listed(instructions) /\ ItemsIn(instructions) /\ ReadyIn(instructions, Settled)
      BY <2>1, InStatement
    <3>2. instructions' = instructions \o pops
      BY <2>2 DEF pops
    <3>3. ItemsIn(instructions') /\ RolesKept(instructions, instructions')
      BY <2>3, <2>5, <3>1, <3>2, ItemsAdded
    <3>4. ReadyIn(instructions', Settled)
      BY <2>3, <2>5, <3>1, <3>2, ReadyAdded
    <3>5. Len(instructions') = Len(instructions) + Len(pops) /\ Len(instructions) \in Nat
      BY <2>3, <3>1, <3>2, ListedAfter DEF Listed
    <3>6. QED
      BY <2>3, <3>3, <3>4, <3>5 DEF Keeps
  <2>7. Base(control, Owners(instructions'))
    BY <1>2, <2>1, <2>6, OwnedOn DEF Base, Keeps
  <2> DEFINE outer == Front(control)
  <2>8. CASE Len(control) > 1
    <3>1. Base(outer, Owners(instructions'))
      BY <2>7, <2>8, BasePopped
    <3> HIDE DEF outer
    <3>2. Base(control', Owners(instructions'))
      <4>1. CASE outer # <<>> /\ Last(outer).stage = "body" /\ Last(outer).kind # "block"
        <5>1. Jumping(Last(outer))
          BY <4>1 DEF Jumping
        <5>2. control' = Append(Front(outer), [Last(outer) EXCEPT !.stage = "parsed", !.size = BlockSize(pops)])
          BY <2>2, <4>1 DEF outer, pops
        <5>3. QED
          BY <2>4, <3>1, <5>1, <5>2, OwnedParsed
      <4>2. CASE ~(outer # <<>> /\ Last(outer).stage = "body" /\ Last(outer).kind # "block")
        <5>1. control' = outer
          BY <2>2, <4>2 DEF outer
        <5>2. QED
          BY <3>1, <5>1
      <4>3. QED
        BY <4>1, <4>2
    <3>3. phase' = phase
      BY <1>10, <2>8 DEF EndBlock
    <3>4. QED
      BY <1>1, <2>1, <2>6, <3>2, <3>3, Within
  <2>9. CASE Len(control) <= 1
    <3>1. outer = <<>>
      <4>1. control \in Seq(Frames)
        BY DEF CallsInv, LayoutInv, BlocksInv
      <4>2. QED
        BY <2>1, <2>9, <4>1 DEF Front
    <3>2. control' = <<>>
      BY <2>2, <3>1
    <3>3. phase' = IF phase = "function_body" THEN "function_tail" ELSE "main_tail"
      BY <1>10, <2>9 DEF EndBlock
    <3>4. \/ phase = "function_body" /\ phase' = "function_tail"
          \/ phase = "main_body" /\ phase' = "main_tail"
      BY <2>1, <3>3, InStatement
    <3>5. PhaseInv' /\ Settled' = Settled
      BY <3>2, <3>4 DEF PhaseInv, Settled
    <3>6. CallsExact'
      BY <3>4 DEF CallsExact, Exact
    <3>7. control' \in Seq(Owners(instructions'))
      BY <3>2
    <3>8. functions' \in Seq([name : FunctionNames, entry : Nat]) /\ EntriesIn(functions', Len(instructions'))
      BY <2>1, <2>6, EntriesKept DEF CallsInv, Keeps
    <3>9. QED
      BY <1>1, <2>6, <3>5, <3>6, <3>7, <3>8 DEF CallsInv, Keeps
  <2>10. Len(control) \in Nat
    BY DEF CallsInv, LayoutInv, BlocksInv
  <2>11. QED
    BY <2>8, <2>9, <2>10
<1>11. CASE SingleIfStatement
  <2>1. /\ control # <<>> /\ Last(control).kind = "if" /\ Last(control).stage = "parsed"
        /\ instructions' = Patch(Last(control).jump, Last(control).size + 1, NextNumber)
        /\ Reduced(Front(control), Last(control).size + 1)
        /\ UNCHANGED <<phase, functions>>
    BY <1>11 DEF SingleIfStatement, Innermost
  <2>2. Last(control).size + 1 \in Nat /\ Jumping(Last(control))
    BY <1>2, <2>1 DEF Frames, Jumping
  <2>3. Keeps
    BY <1>2, <2>1, <2>2, OwnJump, PatchKeeps
  <2>4. Base(control', Owners(instructions'))
    BY <2>1, <2>2, <2>3, ReducedBase DEF Keeps
  <2>5. QED
    BY <1>1, <2>1, <2>3, <2>4, Within
<1>12. CASE TakenIfStatement
  <2> DEFINE new == Instruction("else", TRUE, 0, NULL, NULL)
             f == [Frame("else", "body", NextNumber) EXCEPT !.taken = Last(control).size + 1]
  <2>1. /\ control # <<>> /\ Last(control).kind = "if" /\ Last(control).stage = "parsed"
        /\ instructions' = Append(Patch(Last(control).jump, Last(control).size + 2, NextNumber + 1), new)
        /\ control' = Append(Front(control), f) /\ UNCHANGED <<phase, functions>>
    BY <1>12 DEF TakenIfStatement, Innermost, Replace
  <2>2. Last(control).size + 1 \in Nat /\ Jumping(Last(control)) /\ NextNumber \in Nat /\ NextNumber + 1 \in Nat
    <3>1. Last(control).size \in Nat
      BY <1>2, <2>1 DEF Frames
    <3>2. Jumping(Last(control))
      BY <2>1 DEF Jumping
    <3>3. QED
      BY <1>2, <2>1, <3>1, <3>2
  <2>3. f \in Frames /\ f.jump = NextNumber
    <3>1. Frame("else", "body", NextNumber) \in Frames /\ Frame("else", "body", NextNumber).jump = NextNumber
      BY <1>4, <2>2 DEF Kinds
    <3>2. QED
      BY <2>2, <3>1 DEF Frames
  <2>4. IsItem(new) /\ Ready(new, Len(instructions) + 1, Settled) /\ new.role \in Branches
    BY NoCall DEF NULL, Roles, Branches, Instruction
  <2> HIDE DEF new, f
  <2>5. Last(control).jump \in Numbers /\ instructions[Last(control).jump].role \in Branches
    BY <2>1, <2>2, OwnJump
  <2>6. /\ Keeps
        /\ NextNumber \in DOMAIN instructions' /\ instructions'[NextNumber] = new
    BY <1>2, <2>1, <2>2, <2>4, <2>5, PatchAndAddKeeps
  <2>7. f \in Owners(instructions')
    BY <2>3, <2>4, <2>6 DEF Owners
  <2>8. Base(control, Owners(instructions'))
    BY <1>2, <2>1, <2>6, OwnedOn DEF Base, Keeps
  <2>9. Base(control', Owners(instructions'))
    BY <2>1, <2>7, <2>8, BasePopped
  <2>10. QED
    BY <1>1, <2>1, <2>6, <2>9, Within
<1>13. CASE ElseIf
  <2> DEFINE f == Frame("if", "condition", NULL)
  <2>1. f \in Frames /\ ~Jumping(f)
    BY <1>4 DEF Kinds, NULL, Jumping
  <2>2. /\ control # <<>> /\ Last(control).kind = "else" /\ control' = Append(control, f)
        /\ instructions' = [instructions EXCEPT ![Last(control).jump].role = "elseif"]
        /\ UNCHANGED <<phase, functions>>
    BY <1>13 DEF ElseIf, Innermost
  <2> HIDE DEF f
  <2>3. Last(control).jump \in Numbers /\ instructions[Last(control).jump].role \in Branches
    BY <2>2, OwnJump DEF Jumping
  <2>4. /\ Len(instructions') = Len(instructions) /\ ItemsIn(instructions')
        /\ RolesKept(instructions, instructions') /\ ReadyIn(instructions', Settled)
    BY <2>2, <2>3, InStatement, ElseIfMarked
  <2>5. Keeps
    BY <1>2, <2>2, <2>4 DEF Keeps
  <2>6. Base(control, Owners(instructions'))
    BY <1>2, <2>2, <2>4, OwnedOn DEF Base
  <2>7. Base(control', Owners(instructions'))
    BY <1>3, <2>1, <2>2, <2>6, BasePushed
  <2>8. QED
    BY <1>1, <2>2, <2>5, <2>7, Within
<1>14. CASE IfElseStatement
  <2>1. /\ control # <<>> /\ Last(control).kind = "else"
        /\ instructions' = Patch(Last(control).jump, Last(control).size + 1, NextNumber)
        /\ Reduced(Front(control), Last(control).taken + Last(control).size + 1)
        /\ UNCHANGED <<phase, functions>>
    BY <1>14 DEF IfElseStatement, Innermost
  <2>2. Last(control).taken + Last(control).size + 1 \in Nat /\ Jumping(Last(control))
    BY <1>2, <2>1 DEF Frames, Jumping
  <2>3. Keeps
    BY <1>2, <2>1, <2>2, OwnJump, PatchKeeps
  <2>4. Base(control', Owners(instructions'))
    BY <2>1, <2>2, <2>3, ReducedBase DEF Keeps
  <2>5. QED
    BY <1>1, <2>1, <2>3, <2>4, Within
<1>15. CASE WhileStatement
  <2> DEFINE frame == Last(control)
             role == IF frame.before = NULL THEN "first_loop" ELSE "loop"
             back == Instruction(role, FALSE, 0, FirstAfter(frame.before), frame.first)
  <2>1. /\ control # <<>> /\ frame.kind = "while" /\ frame.stage = "parsed"
        /\ instructions' = Append(Patch(frame.jump, frame.size + 2, NextNumber + 1), back)
        /\ control' = Front(control) /\ UNCHANGED <<phase, functions>>
    BY <1>15 DEF WhileStatement, Innermost
  <2>2. /\ Jumping(frame) /\ NextNumber + 1 \in Nat
        /\ frame.before \in Nat /\ frame.first \in Nat
    BY <1>2, <2>1 DEF Frames, Jumping
  <2>3. role \in Roles \ {"call", "start", "return_address"}
    BY DEF Roles
  <2>4. IsItem(back) /\ Ready(back, Len(instructions) + 1, Settled)
    BY <2>2, <2>3, NoCall
  <2> HIDE DEF back
  <2>5. frame.jump \in Numbers /\ instructions[frame.jump].role \in Branches
    BY <2>1, <2>2, OwnJump
  <2>6. Keeps
    BY <1>2, <2>1, <2>2, <2>4, <2>5, PatchAndAddKeeps
  <2>7. Base(control, Owners(instructions'))
    BY <1>2, <2>1, <2>6, OwnedOn DEF Base, Keeps
  <2>8. Base(control', Owners(instructions'))
    BY <2>1, <2>7, BasePopped
  <2>9. QED
    BY <1>1, <2>1, <2>6, <2>8, Within
<1>16. CASE \E f \in FunctionNames : FunctionCall(f)
  <2>1. PICK entry \in Numbers :
          /\ Add(<<Instruction("return_address", FALSE, ProgramAddress + 2, NULL, NextNumber + 2),
                   Instruction("call", FALSE, 0, entry, entry)>>)
          /\ UNCHANGED <<phase, control, functions>>
    BY <1>16 DEF FunctionCall
  <2> DEFINE a == Instruction("return_address", FALSE, ProgramAddress + 2, NULL, NextNumber + 2)
             b == Instruction("call", FALSE, 0, entry, entry)
             both == <<a, b>>
  <2>2. phase # "resolved"
    BY <1>2, <1>16 DEF FunctionCall, Emitting, InBlock, InCondition, Innermost
  <2>3. /\ Len(instructions) \in Nat /\ NextNumber = Len(instructions) + 1
        /\ Numbers = 1..Len(instructions)
    BY DEF CallsInv, LayoutInv, ListsInv, Listed, NextNumber, Numbers
  <2>4. ProgramAddress = Len(instructions)
    BY AddressIsEnd DEF CallsInv, LayoutInv, ProgramAddressExact
  <2>5. IsItem(a) /\ Ready(a, Len(instructions) + 2, Settled)
    BY <2>3, <2>4 DEF IsItem, Ready, Instruction, Roles, NULL
  <2>6. IsItem(b) /\ Ready(b, Len(instructions) + 2, Settled)
    BY <2>3 DEF IsItem, Ready, Aimed, Instruction, Roles
  <2>7. Add(both) /\ UNCHANGED <<phase, control, functions>>
    BY <2>1
  <2> HIDE DEF a, b
  <2>8. both \in Seq({a, b}) /\ Len(both) = 2 /\ both[1] = a /\ both[2] = b
    OBVIOUS
  <2> HIDE DEF both
  <2>9. \A j \in 1..Len(both) : IsItem(both[j]) /\ Ready(both[j], Len(instructions) + Len(both), Settled)
    BY <2>5, <2>6, <2>8
  <2>10. Keeps
    BY <2>2, <2>7, <2>8, <2>9, AddKeeps
  <2>11. QED
    BY <1>1, <2>2, <2>7, <2>10, Aside
<1>17. QED
  BY <1>5, <1>6, <1>7, <1>8, <1>9, <1>10, <1>11, <1>12, <1>13, <1>14, <1>15, <1>16 DEF Statements

(* Outside bodies: no frames.                                               *)
LEMMA Outside ==
    ASSUME CallsInv, LayoutInv', Keeps, phase # "resolved", phase' # "resolved",
           PhaseInv', Settled' = Settled, control = <<>>, control' = <<>>,
           functions' \in Seq([name : FunctionNames, entry : Nat]),
           EntriesIn(functions', Len(instructions'))
    PROVE  CallsInv'
<1>1. control' \in Seq(Owners(instructions'))
  OBVIOUS
<1>2. CallsExact'
  BY DEF CallsExact, Exact
<1>3. QED
  BY <1>1, <1>2 DEF CallsInv, Keeps

LEMMA MainKeepsCalls ==
    ASSUME CallsInv, LayoutInv', BeginMainMethod
    PROVE  CallsInv'
<1> DEFINE N == Len(instructions)
           p == [i \in Numbers |-> IF instructions[i].role = "start"
                              THEN [instructions[i] EXCEPT !.target = NextNumber, !.goal = NextNumber]
                              ELSE instructions[i]]
           two == <<Plain, Plain>>
<1>1. /\ phase = "toplevel" /\ phase' = "main_head"
      /\ instructions' = p \o two /\ UNCHANGED <<control, functions>>
  BY DEF BeginMainMethod
<1>2. /\ control = <<>> /\ ItemsIn(instructions) /\ ReadyIn(instructions, Settled)
      /\ Listed(instructions)
  BY <1>1 DEF CallsInv, PhaseInv, LayoutInv, ListsInv
<1>3. N \in Nat /\ Numbers = 1..N /\ NextNumber = N + 1 /\ DOMAIN instructions = 1..N
  BY <1>2 DEF Listed, Numbers, NextNumber
<1>4. ASSUME NEW i \in 1..N
      PROVE  IsItem(p[i]) /\ Ready(p[i], N + 2, TRUE)
  <2>1. IsItem(instructions[i]) /\ Ready(instructions[i], N, Settled)
    BY <1>2, <1>3 DEF ItemsIn, ReadyIn
  <2>2. CASE instructions[i].role = "start"
    <3>1. p[i] = [instructions[i] EXCEPT !.target = NextNumber, !.goal = NextNumber]
      BY <1>3, <2>2
    <3>2. /\ p[i].role = "start" /\ p[i].target = N + 1 /\ p[i].goal = N + 1
          /\ p[i].relative = FALSE /\ p[i].value = instructions[i].value
          /\ p[i] = Instruction("start", FALSE, p[i].value, N + 1, N + 1)
      BY <1>3, <2>1, <2>2, <3>1 DEF IsItem, Ready, Instruction
    <3>3. N + 1 \in 1..(N + 2) /\ N + 1 \in Nat
      BY <1>3
    <3> HIDE DEF p
    <3>4. QED
      BY <3>2, <3>3 DEF IsItem, Ready, Aimed, Roles
  <2>3. CASE instructions[i].role # "start"
    <3>1. p[i] = instructions[i]
      BY <1>3, <2>3
    <3>2. \A x \in 1..N : x \in 1..(N + 2)
      BY <1>3
    <3> HIDE DEF p, N
    <3>3. QED
      BY <2>1, <2>3, <3>1, <3>2 DEF Ready, Aimed
  <2>4. QED
    BY <2>2, <2>3
<1>5. Listed(p) /\ Len(p) = N /\ DOMAIN p = 1..N
  <2>1. p = [i \in DOMAIN instructions |-> p[i]]
    BY DEF Numbers
  <2> HIDE DEF p
  <2>2. QED
    BY <1>2, <1>3, <2>1, ListedRewritten DEF Listed
<1>6. two \in Seq({Plain}) /\ Len(two) = 2 /\ \A j \in 1..2 : two[j] = Plain
  OBVIOUS
<1> HIDE DEF two, p, N
<1>7. ItemsIn(p)
  BY <1>4, <1>5 DEF ItemsIn
<1>8. \A j \in 1..Len(two) : IsItem(two[j])
  BY <1>6, PlainIsNoCall
<1>9. /\ ItemsIn(instructions')
      /\ \A i \in DOMAIN p : instructions'[i] = p[i]
      /\ \A j \in 1..Len(two) : instructions'[Len(p) + j] = two[j]
  BY <1>1, <1>5, <1>6, <1>7, <1>8, ItemsAdded
<1>10. Listed(instructions') /\ Len(instructions') = N + 2
  BY <1>1, <1>5, <1>6, ListedAfter
<1>11. DOMAIN instructions' = 1..(N + 2)
  BY <1>10 DEF Listed
<1>12. ASSUME NEW i \in 1..(N + 2)
       PROVE  Ready(instructions'[i], N + 2, TRUE)
  <2>1. CASE i <= N
    <3>1. i \in 1..N
      BY <1>3, <2>1
    <3>2. QED
      BY <1>4, <1>5, <1>9, <3>1
  <2>2. CASE i > N
    <3>1. i - N \in 1..2 /\ i = N + (i - N)
      BY <1>3, <2>2
    <3>2. instructions'[i] = Plain
      BY <1>5, <1>6, <1>9, <3>1
    <3>3. QED
      BY <3>2, PlainIsNoCall
  <2>3. i <= N \/ i > N
    BY <1>3
  <2>4. QED
    BY <2>1, <2>2, <2>3
<1>13. Settled'
  BY <1>1 DEF Settled
<1>14. ReadyIn(instructions', Settled')
  BY <1>10, <1>11, <1>12, <1>13 DEF ReadyIn
<1>15. EntriesIn(functions', Len(instructions'))
  BY <1>1, <1>3, <1>10, EntriesKept DEF N
<1>16. PhaseInv' /\ CallsExact'
  BY <1>1, <1>2 DEF PhaseInv, CallsExact, Exact
<1>17. control' \in Seq(Owners(instructions'))
  BY <1>1, <1>2
<1>18. QED
  BY <1>1, <1>9, <1>14, <1>15, <1>16, <1>17 DEF CallsInv

(* At the end one list is left, and it numbers everything: an instruction's *)
(* address is its number less one.                                          *)
LEMMA AddressInRoot ==
    ASSUME LayoutInv, control = <<>>, NEW number \in Numbers
    PROVE  Address(number) = number - 1
<1>1. Blocks(control) = {}
  BY DEF Blocks
<1>2. Len(lists) = 1
  <2>1. Cardinality(Blocks(control)) = 0
    BY <1>1, FS_EmptySet
  <2>2. Len(lists) = Cardinality(Blocks(control)) + 1
    BY DEF LayoutInv, BlocksInv
  <2>3. QED
    BY <2>1, <2>2
<1>3. PICK ends \in [0..Len(lists) -> Nat] :
        /\ ends[Len(lists)] = Len(instructions)
        /\ \A k \in 1..Len(lists) :
             /\ lists[k] \in Seq(Nat) /\ Len(lists[k]) \in Nat
             /\ ends[k] = ends[k - 1] + Len(lists[k])
             /\ \A i \in 1..Len(lists[k]) : lists[k][i] = ends[k - 1] + i
        /\ ends[0] = 0
  BY ListsFacts DEF LayoutInv, Runs
<1>4. /\ lists[1] \in Seq(Nat) /\ Len(lists[1]) \in Nat
      /\ Len(instructions) = ends[0] + Len(lists[1]) /\ ends[0] = 0
      /\ \A i \in 1..Len(lists[1]) : lists[1][i] = ends[0] + i
  BY <1>2, <1>3
<1>5. DOMAIN lists[1] = 1..Len(lists[1]) /\ Len(lists[1]) = Len(instructions)
  BY <1>4
<1>6. \A i \in DOMAIN lists[1] : lists[1][i] = i
  BY <1>4, <1>5
<1>7. Numbers = 1..Len(instructions)
  BY DEF LayoutInv, ListsInv, Listed, Numbers
<1> DEFINE P(i) == i \in DOMAIN lists[1] /\ lists[1][i] = number
<1>8. number \in DOMAIN lists[1] /\ \A i \in DOMAIN lists[1] : lists[1][i] = number <=> i = number
  BY <1>5, <1>6, <1>7
<1>9. (CHOOSE i \in DOMAIN lists[1] : lists[1][i] = number) = number
  BY <1>8
<1>10. number # NULL
  BY <1>5, <1>4, <1>7 DEF NULL
<1>11. QED
  BY <1>9, <1>10 DEF Address

LEMMA ResolvingIsExact ==
    ASSUME CallsInv, LayoutInv', ResolveReferences
    PROVE  CallsInv'
<1>1. /\ phase = "parsed" /\ phase' = "resolved" /\ UNCHANGED <<lists, counts, control, functions>>
      /\ instructions' =
           [i \in Numbers |->
               IF Opcode(instructions[i].role) = "other" THEN instructions[i]
               ELSE [instructions[i] EXCEPT !.value = IF instructions[i].relative
                                                      THEN Address(i) + @
                                                      ELSE Address(instructions[i].target)]]
  BY DEF ResolveReferences
<1>2. /\ control = <<>> /\ ItemsIn(instructions) /\ ReadyIn(instructions, Settled) /\ Settled
      /\ Listed(instructions)
  BY <1>1 DEF CallsInv, PhaseInv, LayoutInv, ListsInv, Settled
<1>3. Numbers = 1..Len(instructions) /\ Len(instructions) \in Nat /\ DOMAIN instructions' = Numbers
  BY <1>1, <1>2 DEF Listed, Numbers
<1>4. ASSUME NEW i \in Numbers
      PROVE  /\ IsItem(instructions'[i])
             /\ instructions'[i].role \in {"start", "call", "return_address"}
                  => instructions'[i].value = instructions'[i].goal - 1
  <2>1. IsItem(instructions[i]) /\ Ready(instructions[i], Len(instructions), Settled)
    BY <1>2 DEF ItemsIn, ReadyIn, Numbers
  <2>2. CASE Opcode(instructions[i].role) = "other"
    <3>1. instructions'[i] = instructions[i]
      BY <1>1, <2>2
    <3>2. instructions[i].role \notin {"start", "call"}
      BY <2>2 DEF Opcode
    <3>3. QED
      BY <2>1, <3>1, <3>2 DEF Ready
  <2>3. CASE Opcode(instructions[i].role) # "other"
    <3> DEFINE value == IF instructions[i].relative THEN Address(i) + instructions[i].value
                        ELSE Address(instructions[i].target)
    <3>1. instructions'[i] = [instructions[i] EXCEPT !.value = value]
      BY <1>1, <2>3
    <3>2. ASSUME instructions[i].role \in {"start", "call"}
          PROVE  value = instructions[i].goal - 1
      <4>1. Aimed(instructions[i], Len(instructions))
        BY <1>2, <2>1, <3>2 DEF Ready
      <4>2. instructions[i].goal \in Numbers
        BY <1>3, <4>1 DEF Aimed
      <4>3. Address(instructions[i].goal) = instructions[i].goal - 1
        BY <1>2, <4>2, AddressInRoot DEF CallsInv
      <4>4. QED
        BY <4>1, <4>3 DEF Aimed
    <3> HIDE DEF value
    <3>3. /\ instructions'[i].role = instructions[i].role /\ instructions'[i].goal = instructions[i].goal
          /\ instructions'[i].value = value /\ IsItem(instructions'[i])
      BY <2>1, <3>1 DEF IsItem, Instruction
    <3>4. instructions[i].role # "return_address"
      BY <2>3 DEF Opcode
    <3>5. QED
      BY <3>2, <3>3, <3>4
  <2>4. QED
    BY <2>2, <2>3
<1>5. ItemsIn(instructions')
  BY <1>3, <1>4 DEF ItemsIn
<1>6. CallsExact'
  BY <1>3, <1>4 DEF CallsExact, Exact, Numbers
<1>7. Len(instructions') = Len(instructions)
  BY <1>1, <1>2, ListedRewritten DEF Numbers
<1>8. EntriesIn(functions', Len(instructions')) /\ functions' \in Seq([name : FunctionNames, entry : Nat])
  BY <1>1, <1>7 DEF CallsInv
<1>9. PhaseInv' /\ control' \in Seq(Owners(instructions'))
  BY <1>1, <1>2 DEF PhaseInv
<1>10. QED
  BY <1>1, <1>5, <1>6, <1>8, <1>9 DEF CallsInv

LEMMA TopLevelKeepsCalls ==
    ASSUME CallsInv, TopLevel
    PROVE  CallsInv'
<1>1. LayoutInv'
  BY TopLevelKeepsInv DEF CallsInv
<1>2. Len(instructions) \in Nat /\ NextNumber = Len(instructions) + 1
  BY DEF CallsInv, LayoutInv, ListsInv, Listed, NextNumber
<1>3. CASE ProgramStart
  <2> DEFINE a == Instruction("start", FALSE, 0, NULL, NULL)
             one == <<a>>
  <2>1. phase = "globals" /\ phase' = "toplevel" /\ Add(one) /\ UNCHANGED <<control, functions>>
    BY <1>3 DEF ProgramStart
  <2>2. control = <<>> /\ PhaseInv' /\ Settled' = Settled /\ ~Settled
    BY <2>1 DEF CallsInv, PhaseInv, Settled
  <2>3. IsItem(a) /\ Ready(a, Len(instructions) + 1, Settled)
    BY <2>2 DEF IsItem, Ready, Instruction, Roles, NULL
  <2> HIDE DEF a
  <2>4. one \in Seq({a}) /\ Len(one) = 1 /\ one[1] = a
    OBVIOUS
  <2> HIDE DEF one
  <2>5. \A j \in 1..Len(one) : IsItem(one[j]) /\ Ready(one[j], Len(instructions) + Len(one), Settled)
    BY <2>3, <2>4
  <2>6. Keeps
    BY <2>1, <2>4, <2>5, AddKeeps
  <2>7. functions' \in Seq([name : FunctionNames, entry : Nat]) /\ EntriesIn(functions', Len(instructions'))
    BY <2>1, <2>6, EntriesKept DEF CallsInv, Keeps
  <2>8. QED
    BY <1>1, <2>1, <2>2, <2>6, <2>7, Outside
<1>4. CASE \E f \in FunctionNames : BeginFunctionDefinition(f)
  <2> DEFINE two == <<Plain, Plain>>
  <2>1. PICK f \in FunctionNames :
          /\ phase = "toplevel" /\ phase' = "function_head" /\ Add(two) /\ control' = control
          /\ functions' = Append(functions, [name |-> f, entry |-> NextNumber])
    BY <1>4 DEF BeginFunctionDefinition
  <2>2. control = <<>> /\ PhaseInv' /\ Settled' = Settled
    BY <2>1 DEF CallsInv, PhaseInv, Settled
  <2>3. two \in Seq({Plain}) /\ Len(two) = 2 /\ \A j \in 1..2 : two[j] = Plain
    OBVIOUS
  <2> HIDE DEF two
  <2>4. \A j \in 1..Len(two) : IsItem(two[j]) /\ Ready(two[j], Len(instructions) + Len(two), Settled)
    BY <2>3, PlainIsNoCall
  <2>5. Keeps
    BY <2>1, <2>3, <2>4, AddKeeps
  <2>6. Len(instructions') = Len(instructions) + 2
    BY <2>1, <2>3, ListedAfter DEF Add, CallsInv, LayoutInv, ListsInv
  <2>7. functions' \in Seq([name : FunctionNames, entry : Nat]) /\ EntriesIn(functions', Len(instructions'))
    <3> DEFINE n == Len(instructions')
               e == [name |-> f, entry |-> NextNumber]
    <3>1. functions \in Seq([name : FunctionNames, entry : Nat]) /\ EntriesIn(functions, n)
      BY <2>5, EntriesKept DEF CallsInv, Keeps
    <3>2. e \in [name : FunctionNames, entry : Nat] /\ e.entry \in 1..n
      BY <1>2, <2>6
    <3>3. functions' = Append(functions, e)
      BY <2>1
    <3> HIDE DEF n, e
    <3>4. QED
      BY <3>1, <3>2, <3>3 DEF EntriesIn, n
  <2>8. QED
    BY <1>1, <2>1, <2>2, <2>5, <2>7, Outside
<1>5. CASE EndFunctionDefinition
  <2> DEFINE one == <<Plain>>
  <2>1. phase = "function_tail" /\ phase' = "toplevel" /\ Add(one) /\ UNCHANGED <<control, functions>>
    BY <1>5 DEF EndFunctionDefinition
  <2>2. control = <<>> /\ PhaseInv' /\ Settled' = Settled
    BY <2>1 DEF CallsInv, PhaseInv, Settled
  <2>3. one \in Seq({Plain}) /\ Len(one) = 1 /\ one[1] = Plain
    OBVIOUS
  <2> HIDE DEF one
  <2>4. \A j \in 1..Len(one) : IsItem(one[j]) /\ Ready(one[j], Len(instructions) + Len(one), Settled)
    BY <2>3, PlainIsNoCall
  <2>5. Keeps
    BY <2>1, <2>3, <2>4, AddKeeps
  <2>6. functions' \in Seq([name : FunctionNames, entry : Nat]) /\ EntriesIn(functions', Len(instructions'))
    BY <2>1, <2>5, EntriesKept DEF CallsInv, Keeps
  <2>7. QED
    BY <1>1, <2>1, <2>2, <2>5, <2>6, Outside
<1>6. CASE BeginMainMethod
  BY <1>1, <1>6, MainKeepsCalls
<1>7. CASE EndMainMethod
  <2>1. /\ phase = "main_tail" /\ phase' = "parsed"
        /\ UNCHANGED <<instructions, control, functions>>
    BY <1>7 DEF EndMainMethod
  <2>2. control = <<>> /\ PhaseInv' /\ Settled' = Settled
    BY <2>1 DEF CallsInv, PhaseInv, Settled
  <2>3. Keeps
    BY <2>1, SilentKeeps
  <2>4. functions' \in Seq([name : FunctionNames, entry : Nat]) /\ EntriesIn(functions', Len(instructions'))
    BY <2>1 DEF CallsInv
  <2>5. QED
    BY <1>1, <2>1, <2>2, <2>3, <2>4, Outside
<1>8. CASE ResolveReferences
  BY <1>1, <1>8, ResolvingIsExact
<1>9. QED
  BY <1>3, <1>4, <1>5, <1>6, <1>7, <1>8 DEF TopLevel

LEMMA CallsStart ==
    ASSUME Init
    PROVE  CallsInv
<1>1. phase = "globals" /\ instructions = <<>> /\ control = <<>> /\ functions = <<>>
  BY DEF Init
<1>2. PhaseInv /\ CallsExact
  BY <1>1 DEF PhaseInv, CallsExact, Exact
<1>3. ItemsIn(instructions) /\ ReadyIn(instructions, Settled)
  BY <1>1 DEF ItemsIn, ReadyIn
<1>4. control \in Seq(Owners(instructions)) /\ functions \in Seq([name : FunctionNames, entry : Nat])
  BY <1>1
<1>5. EntriesIn(functions, Len(instructions))
  BY <1>1 DEF EntriesIn
<1>6. QED
  BY <1>2, <1>3, <1>4, <1>5, LayoutStarts DEF CallsInv

LEMMA CallsStep ==
    ASSUME CallsInv, [Next]_vars
    PROVE  CallsInv'
<1>1. CASE Statements
  BY <1>1, StatementsKeepCalls
<1>2. CASE TopLevel
  BY <1>2, TopLevelKeepsCalls
<1>3. CASE Finished \/ UNCHANGED vars
  <2>1. UNCHANGED vars
    BY <1>3 DEF Finished
  <2>2. LayoutInv'
    BY LayoutStep DEF CallsInv
  <2>3. /\ phase' = phase /\ instructions' = instructions /\ control' = control
        /\ functions' = functions
    BY <2>1 DEF vars
  <2>4. PhaseInv' /\ CallsExact' /\ Settled' = Settled
    BY <2>3 DEF CallsInv, PhaseInv, CallsExact, Exact, Settled, Numbers
  <2>5. QED
    BY <2>2, <2>3, <2>4 DEF CallsInv
<1>4. QED
  BY <1>1, <1>2, <1>3 DEF Next

(* The program starts at main, every call goes to the entry it was compiled *)
(* with, and its return address is the instruction behind it, however much  *)
(* code is nested, flushed and added around them afterwards.                *)
THEOREM CallsAreExact == Spec => []CallsExact
<1>1. CallsInv => CallsExact
  BY DEF CallsInv
<1>2. QED
  BY <1>1, CallsStart, CallsStep, PTL DEF Spec
===============================================================================
