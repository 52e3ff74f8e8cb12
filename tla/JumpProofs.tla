------------------------------- MODULE JumpProofs -------------------------------
(***************************************************************************)
(* Where jumps go once resolved: conditions (ConditionsExact), the ends of *)
(* taken branches (ElseJumpsExact) and loops (LaterLoopsExact), for every  *)
(* program, depth of nesting and number of locals; and the types of the    *)
(* layout's state.                                                         *)
(*                                                                         *)
(* A jump is patched when its statement is complete, with a size added up  *)
(* from the counts of the blocks in between.  The invariant says where the *)
(* open statements stand in the meantime: with no code of its own between  *)
(* its jump and its block, nor behind its block.                           *)
(***************************************************************************)
EXTENDS LayoutProofs

-----------------------------------------------------------------------------
(* Where lists end, and how deep a frame is *)

(* What Runs says, with the function it is said of.                         *)
EndsOf(list, n) == CHOOSE ends \in [0..Len(list) -> Nat] : Runs(ends, list, n)

InRunsOf(list, n) == \E ends \in [0..Len(list) -> Nat] : Runs(ends, list, n)

LEMMA EndsFacts ==
    ASSUME NEW list \in Seq(Seq(Nat)), NEW n, InRunsOf(list, n)
    PROVE  LET e == EndsOf(list, n)
           IN  /\ e[0] = 0 /\ e[Len(list)] = n
               /\ \A k \in 0..Len(list) : e[k] \in Nat
               /\ \A k \in 1..Len(list) : e[k] = e[k - 1] + Len(list[k])
               /\ \A k \in 1..Len(list) : \A i \in 1..Len(list[k]) : list[k][i] = e[k - 1] + i
<1> DEFINE e == EndsOf(list, n)
<1>1. e \in [0..Len(list) -> Nat] /\ Runs(e, list, n)
  BY DEF EndsOf, InRunsOf
<1>2. \A k \in 0..Len(list) : e[k] \in Nat
  BY <1>1
<1> HIDE DEF e
<1>3. QED
  BY <1>1, <1>2 DEF Runs, e

(* Lists that agree up to the m-th end alike up to there.                   *)
Agreed(old, n, new, n1, m) ==
    /\ old \in Seq(Seq(Nat)) /\ InRunsOf(old, n)
    /\ new \in Seq(Seq(Nat)) /\ InRunsOf(new, n1)
    /\ m \in Nat /\ m <= Len(old) /\ m <= Len(new)
    /\ \A k \in 1..m : new[k] = old[k]

LEMMA EndsAgree ==
    ASSUME NEW old, NEW n, NEW new, NEW n1, NEW m, Agreed(old, n, new, n1, m)
    PROVE  \A k \in 0..m : EndsOf(new, n1)[k] = EndsOf(old, n)[k]
<1> DEFINE e == EndsOf(old, n)
           d == EndsOf(new, n1)
           S == {k \in 1..m : d[k] = e[k]}
<1>0. /\ old \in Seq(Seq(Nat)) /\ InRunsOf(old, n)
      /\ new \in Seq(Seq(Nat)) /\ InRunsOf(new, n1)
      /\ m \in Nat /\ m <= Len(old) /\ m <= Len(new)
      /\ \A k \in 1..m : new[k] = old[k]
  BY DEF Agreed
<1>1. e[0] = 0 /\ \A k \in 1..Len(old) : e[k] = e[k - 1] + Len(old[k])
  BY <1>0, EndsFacts
<1>2. d[0] = 0 /\ \A k \in 1..Len(new) : d[k] = d[k - 1] + Len(new[k])
  BY <1>0, EndsFacts
<1> HIDE DEF e, d
<1>3. Len(old) \in Nat /\ Len(new) \in Nat
  BY <1>0
<1>4. \A k \in 1..m : k \in 1..Len(old) /\ k \in 1..Len(new)
  BY <1>0, <1>3
<1>5. ASSUME NEW k \in 1..m, d[k - 1] = e[k - 1]
      PROVE  d[k] = e[k]
  BY <1>0, <1>1, <1>2, <1>4, <1>5
<1>6. m >= 1 => 1 \in S
  <2>1. ASSUME m >= 1
        PROVE  1 \in S
    <3>1. 1 \in 1..m /\ 1 - 1 = 0
      BY <1>0, <2>1
    <3>2. QED
      BY <1>1, <1>2, <1>5, <3>1
  <2>2. QED
    BY <2>1
<1>7. \A k \in 2..m : k - 1 \in S => k \in S
  <2>1. ASSUME NEW k \in 2..m, k - 1 \in S
        PROVE  k \in S
    <3>1. k \in 1..m
      OBVIOUS
    <3>2. QED
      BY <1>5, <2>1, <3>1
  <2>2. QED
    BY <2>1
<1> HIDE DEF S
<1>8. 1..m \subseteq S
  BY <1>0, <1>6, <1>7, UpTo
<1>9. \A k \in 1..m : d[k] = e[k]
  BY <1>8 DEF S
<1>10. \A k \in 0..m : k = 0 \/ k \in 1..m
  OBVIOUS
<1>11. QED
  BY <1>1, <1>2, <1>9, <1>10 DEF d, e

(* The number of the list that code of the p-th frame goes to.              *)
Depth(frames, p) == Cardinality({i \in 1..p : frames[i].kind = "block"}) + 1

LEMMA DepthFacts ==
    ASSUME NEW frames, NEW p \in Nat
    PROVE  /\ Depth(frames, p) \in Nat /\ Depth(frames, p) >= 1
           /\ frames[p + 1].kind = "block" => Depth(frames, p + 1) = Depth(frames, p) + 1
           /\ frames[p + 1].kind # "block" => Depth(frames, p + 1) = Depth(frames, p)
           /\ \A q \in Nat : p <= q => Depth(frames, p) <= Depth(frames, q)
<1> DEFINE B(q) == {i \in 1..q : frames[i].kind = "block"}
<1>1. ASSUME NEW q \in Nat
      PROVE  IsFiniteSet(B(q)) /\ Cardinality(B(q)) \in Nat
  <2>1. IsFiniteSet(1..q) /\ B(q) \subseteq 1..q
    BY FS_Interval
  <2>2. QED
    BY <2>1, FS_Subset, FS_CardinalityType
<1>2. Depth(frames, p) \in Nat /\ Depth(frames, p) >= 1
  BY <1>1 DEF Depth
<1>3. ASSUME frames[p + 1].kind = "block"
      PROVE  Depth(frames, p + 1) = Depth(frames, p) + 1
  <2>1. B(p + 1) = B(p) \cup {p + 1} /\ p + 1 \notin B(p)
    BY <1>3
  <2> HIDE DEF B
  <2>2. Cardinality(B(p + 1)) = Cardinality(B(p)) + 1
    BY <1>1, <2>1, FS_AddElement
  <2>3. QED
    BY <2>2 DEF Depth, B
<1>4. ASSUME frames[p + 1].kind # "block"
      PROVE  Depth(frames, p + 1) = Depth(frames, p)
  <2>1. B(p + 1) = B(p)
    BY <1>4
  <2>2. QED
    BY <2>1 DEF Depth
<1>5. ASSUME NEW q \in Nat, p <= q
      PROVE  Depth(frames, p) <= Depth(frames, q)
  <2>1. B(p) \subseteq B(q)
    BY <1>5
  <2> HIDE DEF B
  <2>2. Cardinality(B(p)) <= Cardinality(B(q))
    BY <1>1, <2>1, FS_Subset
  <2>3. Cardinality(B(p)) \in Nat /\ Cardinality(B(q)) \in Nat
    BY <1>1
  <2>4. QED
    BY <2>2, <2>3 DEF Depth, B
<1>6. QED
  BY <1>2, <1>3, <1>4, <1>5

LEMMA DepthKept ==
    ASSUME NEW old, NEW new, NEW p \in Nat, \A i \in 1..p : new[i].kind = old[i].kind
    PROVE  Depth(new, p) = Depth(old, p)
<1>1. {i \in 1..p : new[i].kind = "block"} = {i \in 1..p : old[i].kind = "block"}
  OBVIOUS
<1>2. QED
  BY <1>1 DEF Depth

LEMMA DepthIsLists ==
    ASSUME NEW frames \in Seq(Frames), NEW n, n = Cardinality(Blocks(frames)) + 1
    PROVE  Depth(frames, Len(frames)) = n
<1>1. DOMAIN frames = 1..Len(frames)
  OBVIOUS
<1>2. QED
  BY <1>1 DEF Depth, Blocks

-----------------------------------------------------------------------------
(* Where the open statements stand *)

(* A loop that has code before it in its list, which ends at n.             *)
Follows(f, start, n) ==
    /\ f.first = f.before + 1 /\ start < f.before /\ f.before <= n
    /\ f.stage # "condition" => f.before < f.jump /\ f.jump <= n

Sits(f, start, n) == f.kind = "while" /\ f.before # NULL => Follows(f, start, n)

Marked(f, items) == f.kind = "else" /\ f.jump \in DOMAIN items /\ items[f.jump].role = "elseif"

(* What is open on top of f: a block, begun behind the jump of f, or the    *)
(* rest of an else-if.                                                      *)
Under(f, g, end, items) ==
    \/ f.kind = "block"
    \/ g.kind = "block" /\ f.stage = "body" /\ f.jump = end
    \/ g.kind \notin {"block", "while"} /\ Marked(f, items)

(* The innermost statement: nothing is emitted between its jump and its     *)
(* block, nor behind its block.                                             *)
Top(f, items) ==
    f.kind # "block" =>
        /\ f.stage = "body" => f.jump = Len(items)
        /\ f.stage = "parsed" => f.jump + f.size = Len(items) \/ Marked(f, items)

Standing(frames, ends, items) ==
    /\ \A p \in 1..Len(frames) : Sits(frames[p], ends[Depth(frames, p) - 1], Len(items))
    /\ \A p \in 1..(Len(frames) - 1) :
          Under(frames[p], frames[p + 1], ends[Depth(frames, p)], items)
    /\ \A p \in 1..Len(frames) : p = Len(frames) => Top(frames[p], items)

(* A jump that is not patched yet belongs to an open statement.             *)
Owned(frames, i) == \E p \in 1..Len(frames) : Jumping(frames[p]) /\ frames[p].jump = i

Closed(x, i, n, frames) ==
    /\ x.role \in {"if", "else", "while"} =>
          x.relative = TRUE /\ (x.value = x.goal - i \/ Owned(frames, i))
    /\ x.role = "loop" => Aimed(x, n)

ClosedIn(items, frames) == \A i \in DOMAIN items : Closed(items[i], i, Len(items), frames)

TargetsIn(items) == \A i \in DOMAIN items : items[i].target \in Nat

Ends == EndsOf(lists, Len(instructions))

(* The inductive invariant: what the calls need, where open statements      *)
(* stand, and the jumps that are right or still to be patched; once they    *)
(* are resolved, the jumps themselves.                                      *)
JumpsInv ==
    /\ CallsInv
    /\ Standing(control, Ends, instructions)
    /\ phase # "resolved" => ClosedIn(instructions, control)
    /\ TargetsIn(instructions)
    /\ Exact({"if", "else", "while", "loop"})

(* A step leaves the first q frames as they are, may put another on them,   *)
(* and touches no list but the one that is then the last.                   *)
Shape(old, oldEnds, oldItems, k, new, newEnds, newItems, q) ==
    /\ old \in Seq(Frames) /\ new \in Seq(Frames)
    /\ q \in Nat /\ q <= Len(old) /\ Len(new) \in {q, q + 1}
    /\ \A p \in 1..q : new[p] = old[p]
    /\ Len(oldItems) \in Nat /\ Len(newItems) \in Nat /\ Len(oldItems) <= Len(newItems)
    /\ \A f \in Frames : Marked(f, oldItems) => Marked(f, newItems)
    /\ Depth(new, Len(new)) = k
    /\ \A d \in 0..(k - 1) : newEnds[d] = oldEnds[d]

LEMMA StandingKept ==
    ASSUME NEW old, NEW oldEnds, NEW oldItems, NEW k, NEW new, NEW newEnds, NEW newItems, NEW q,
           Shape(old, oldEnds, oldItems, k, new, newEnds, newItems, q),
           Standing(old, oldEnds, oldItems),
           \A p \in 1..Len(new) : p = Len(new) => Top(new[p], newItems),
           Len(new) = q + 1 =>
               /\ Sits(new[q + 1], oldEnds[Depth(new, q + 1) - 1], Len(newItems))
               /\ q > 0 => Under(old[q], new[q + 1], oldEnds[Depth(old, q)], newItems)
    PROVE  Standing(new, newEnds, newItems)
<1> DEFINE n == Len(oldItems)
           m == Len(newItems)
           L == Len(new)
<1>1. /\ old \in Seq(Frames) /\ new \in Seq(Frames) /\ q \in Nat /\ q <= Len(old) /\ Len(old) \in Nat
      /\ L \in {q, q + 1} /\ n \in Nat /\ m \in Nat /\ n <= m
      /\ L \in Nat
  BY DEF Shape
<1>2. /\ \A p \in 1..q : new[p] = old[p]
      /\ \A f \in Frames : Marked(f, oldItems) => Marked(f, newItems)
  BY DEF Shape
<1>14. Depth(new, L) = k /\ \A d \in 0..(k - 1) : newEnds[d] = oldEnds[d]
  BY DEF Shape
<1> HIDE DEF n, m, L
<1>3. ASSUME NEW p \in 1..L
      PROVE  /\ Depth(new, p) \in Nat /\ Depth(new, p) >= 1 /\ Depth(new, p) <= k
             /\ k \in Nat
  <2>1. p \in Nat /\ p <= L
    BY <1>1
  <2>2. Depth(new, p) \in Nat /\ Depth(new, p) >= 1 /\ Depth(new, p) <= Depth(new, L)
    BY <1>1, <2>1, DepthFacts
  <2>3. Depth(new, L) \in Nat
    BY <1>1, DepthFacts
  <2>4. QED
    BY <1>14, <2>2, <2>3
<1>4. ASSUME NEW p \in 1..L
      PROVE  newEnds[Depth(new, p) - 1] = oldEnds[Depth(new, p) - 1]
  <2> DEFINE d == Depth(new, p)
  <2>1. d \in Nat /\ d >= 1 /\ d <= k /\ k \in Nat
    BY <1>3
  <2> HIDE DEF d
  <2>2. d - 1 \in 0..(k - 1)
    BY <2>1
  <2>3. QED
    BY <1>14, <2>2 DEF d
<1>5. ASSUME NEW p \in 1..q
      PROVE  /\ Depth(new, p) = Depth(old, p) /\ new[p] = old[p] /\ old[p] \in Frames
             /\ p \in 1..L /\ p \in 1..Len(old)
  <2>1. p \in Nat /\ \A i \in 1..p : i \in 1..q
    BY <1>1
  <2>2. \A i \in 1..p : new[i].kind = old[i].kind
    BY <1>2, <2>1
  <2>3. Depth(new, p) = Depth(old, p)
    BY <2>1, <2>2, DepthKept
  <2>4. p \in 1..L /\ p \in 1..Len(old)
    BY <1>1
  <2>5. QED
    BY <1>1, <1>2, <2>3, <2>4
<1>6. ASSUME NEW p \in 1..L
      PROVE  Sits(new[p], newEnds[Depth(new, p) - 1], m)
  <2>1. CASE p <= q
    <3>1. p \in 1..q
      BY <1>1, <2>1
    <3>2. Sits(old[p], oldEnds[Depth(old, p) - 1], n)
      BY <1>5, <3>1 DEF Standing, n
    <3>3. old[p].before \in Nat /\ old[p].jump \in Nat
      BY <1>5, <3>1 DEF Frames
    <3>4. Sits(old[p], oldEnds[Depth(old, p) - 1], m)
      BY <1>1, <3>2, <3>3 DEF Sits, Follows
    <3>5. QED
      BY <1>4, <1>5, <3>1, <3>4
  <2>2. CASE p > q
    <3>1. p = q + 1 /\ L = q + 1
      BY <1>1, <2>2
    <3>2. Sits(new[q + 1], oldEnds[Depth(new, q + 1) - 1], m)
      BY <3>1 DEF L, m
    <3>3. QED
      BY <1>4, <3>1, <3>2
  <2>3. QED
    BY <1>1, <2>1, <2>2
<1>7. ASSUME NEW p \in 1..(L - 1)
      PROVE  Under(new[p], new[p + 1], newEnds[Depth(new, p)], newItems)
  <2>1. p \in 1..q /\ p \in 1..L /\ p + 1 \in 1..L
    BY <1>1
  <2>2. new[p] = old[p] /\ Depth(new, p) = Depth(old, p) /\ old[p] \in Frames
    BY <1>5, <2>1
  <2>3. Under(old[p], new[p + 1], oldEnds[Depth(old, p)], newItems)
    <3>1. CASE p < q
      <4>1. p + 1 \in 1..q /\ p \in 1..(Len(old) - 1)
        BY <1>1, <2>1, <3>1
      <4>2. Under(old[p], old[p + 1], oldEnds[Depth(old, p)], oldItems)
        BY <4>1 DEF Standing
      <4>3. new[p + 1] = old[p + 1]
        BY <1>2, <4>1
      <4>4. QED
        BY <1>2, <2>2, <4>2, <4>3 DEF Under
    <3>2. CASE p = q
      <4>1. L = q + 1 /\ q > 0
        BY <1>1, <2>1, <3>2
      <4>2. QED
        BY <3>2, <4>1 DEF L
    <3>3. QED
      BY <1>1, <2>1, <3>1, <3>2
  <2>4. ASSUME new[p + 1].kind = "block"
        PROVE  newEnds[Depth(new, p)] = oldEnds[Depth(new, p)]
    <3> DEFINE d == Depth(new, p)
    <3>1. p \in Nat
      BY <1>1
    <3>2. Depth(new, p + 1) = d + 1 /\ d \in Nat
      BY <2>4, <3>1, DepthFacts
    <3>3. Depth(new, p + 1) <= k /\ k \in Nat
      BY <1>3, <2>1
    <3> HIDE DEF d
    <3>4. d \in 0..(k - 1)
      BY <3>2, <3>3
    <3>5. QED
      BY <1>14, <3>4 DEF d
  <2>5. CASE new[p + 1].kind = "block"
    BY <2>2, <2>3, <2>4, <2>5
  <2>6. CASE new[p + 1].kind # "block"
    BY <2>2, <2>3, <2>6 DEF Under
  <2>7. QED
    BY <2>5, <2>6
<1>8. \A p \in 1..L : p = L => Top(new[p], newItems)
  BY DEF L
<1>9. QED
  BY <1>6, <1>7, <1>8 DEF Standing, L, m

(* The same, of a step of the specification.                                *)
MarksKept ==
    \A i \in Numbers : /\ i \in DOMAIN instructions'
                       /\ instructions[i].role = "elseif" => instructions'[i].role = "elseif"

Prefix(q) ==
    /\ q \in Nat /\ q <= Len(control) /\ Len(control') \in {q, q + 1}
    /\ \A p \in 1..q : control'[p] = control[p]

ListsBelow == Len(lists') <= Len(lists) + 1 /\ \A k \in 1..(Len(lists') - 1) : lists'[k] = lists[k]

LEMMA EndsBelow ==
    ASSUME LayoutInv, LayoutInv', ListsBelow
    PROVE  \A d \in 0..(Len(lists') - 1) : EndsOf(lists', Len(instructions'))[d] = Ends[d]
<1> DEFINE m == Len(lists') - 1
<1>1. /\ lists \in Seq(Seq(Nat)) /\ Len(lists) \in Nat /\ InRunsOf(lists, Len(instructions))
      /\ lists' \in Seq(Seq(Nat)) /\ Len(lists') >= 1 /\ Len(lists') \in Nat
      /\ InRunsOf(lists', Len(instructions'))
  BY DEF LayoutInv, ListsInv, InRuns, InRunsOf
<1>2. m \in Nat /\ m <= Len(lists) /\ m <= Len(lists')
  BY <1>1 DEF ListsBelow
<1>3. \A k \in 1..m : lists'[k] = lists[k]
  BY DEF ListsBelow
<1>4. Agreed(lists, Len(instructions), lists', Len(instructions'), m)
  BY <1>1, <1>2, <1>3 DEF Agreed
<1> HIDE DEF m
<1>5. \A d \in 0..m : EndsOf(lists', Len(instructions'))[d] = EndsOf(lists, Len(instructions))[d]
  BY <1>4, EndsAgree
<1>6. QED
  BY <1>5 DEF m, Ends

LEMMA Stands ==
    ASSUME JumpsInv, LayoutInv', NEW q, Prefix(q), ListsBelow, MarksKept,
           Len(instructions) <= Len(instructions'),
           \A p \in 1..Len(control') : p = Len(control') => Top(control'[p], instructions'),
           Len(control') = q + 1 =>
               /\ Sits(control'[q + 1], Ends[Depth(control', q + 1) - 1], Len(instructions'))
               /\ q > 0 => Under(control[q], control'[q + 1], Ends[Depth(control, q)], instructions')
    PROVE  Standing(control', EndsOf(lists', Len(instructions')), instructions')
<1> DEFINE e == EndsOf(lists', Len(instructions'))
<1>1. \A d \in 0..(Len(lists') - 1) : e[d] = Ends[d]
  BY EndsBelow DEF JumpsInv, CallsInv
<1> HIDE DEF e
<1>2. /\ control \in Seq(Frames) /\ control' \in Seq(Frames)
      /\ Len(lists') = Cardinality(Blocks(control')) + 1
      /\ Len(instructions) \in Nat /\ Len(instructions') \in Nat
  <2>1. LayoutInv
    BY DEF JumpsInv, CallsInv
  <2>2. control \in Seq(Frames) /\ Listed(instructions)
    BY <2>1 DEF LayoutInv, BlocksInv, ListsInv
  <2>3. /\ control' \in Seq(Frames) /\ Len(lists') = Cardinality(Blocks(control')) + 1
        /\ Listed(instructions')
    BY DEF LayoutInv, BlocksInv, ListsInv, Blocks, Listed
  <2>4. Len(instructions) \in Nat /\ Len(instructions') \in Nat
    BY <2>2, <2>3 DEF Listed
  <2>5. QED
    BY <2>2, <2>3, <2>4
<1>3. Depth(control', Len(control')) = Len(lists')
  BY <1>2, DepthIsLists
<1>4. \A f \in Frames : Marked(f, instructions) => Marked(f, instructions')
  BY DEF MarksKept, Marked, Numbers
<1>5. Shape(control, Ends, instructions, Len(lists'), control', e, instructions', q)
  BY <1>1, <1>2, <1>3, <1>4 DEF Shape, Prefix
<1>6. Standing(control, Ends, instructions)
  BY DEF JumpsInv
<1>7. QED
  BY <1>5, <1>6, StandingKept DEF e

(* What the invariant says where the parser is.                             *)
LEMMA Here ==
    ASSUME JumpsInv
    PROVE  /\ control \in Seq(Frames) /\ Len(control) \in Nat /\ Len(instructions) \in Nat
           /\ Len(lists) \in Nat /\ Len(lists) >= 1
           /\ Depth(control, Len(control)) = Len(lists)
           /\ Numbers = 1..Len(instructions) /\ NextNumber = Len(instructions) + 1
           /\ Ends[Len(lists)] = Len(instructions) /\ Ends[Len(lists) - 1] \in Nat
           /\ Last(counts) \in Nat /\ Ends[Len(lists) - 1] + Last(counts) = Len(instructions)
           /\ LastInstruction # NULL =>
                LastInstruction = Len(instructions) /\ Ends[Len(lists) - 1] < Len(instructions)
           /\ LastInstruction \in Nat
<1> DEFINE K == Len(lists)
           N == Len(instructions)
<1>1. /\ control \in Seq(Frames) /\ Len(control) \in Nat /\ N \in Nat
      /\ K \in Nat /\ K >= 1 /\ K \in 1..K
      /\ lists \in Seq(Seq(Nat)) /\ InRunsOf(lists, N)
      /\ counts \in Seq(Nat) /\ Len(counts) = K /\ counts[K] = Len(lists[K])
      /\ Numbers = 1..N /\ NextNumber = N + 1
      /\ K = Cardinality(Blocks(control)) + 1
  <2>1. ListsInv /\ BlocksInv
    BY DEF JumpsInv, CallsInv, LayoutInv
  <2>2. control \in Seq(Frames) /\ Len(control) \in Nat /\ K = Cardinality(Blocks(control)) + 1
    BY <2>1 DEF BlocksInv
  <2>3. N \in Nat /\ Numbers = 1..N /\ NextNumber = N + 1
    BY <2>1 DEF ListsInv, Listed, Numbers, NextNumber
  <2>4. lists \in Seq(Seq(Nat)) /\ K >= 1 /\ counts \in Seq(Nat) /\ Len(counts) = K
    BY <2>1 DEF ListsInv
  <2>5. K \in Nat
    BY <2>4
  <2>6. K \in 1..K
    BY <2>4, <2>5
  <2>7. counts[K] = Len(lists[K])
    BY <2>1, <2>6 DEF ListsInv, Counted
  <2>8. InRunsOf(lists, N)
    BY <2>1 DEF ListsInv, InRuns, InRunsOf
  <2>9. QED
    BY <2>2, <2>3, <2>4, <2>5, <2>6, <2>7, <2>8
<1> DEFINE E == EndsOf(lists, N)
<1>11. /\ E[K] = N /\ \A k \in 0..K : E[k] \in Nat
       /\ \A k \in 1..K : E[k] = E[k - 1] + Len(lists[k])
       /\ \A k \in 1..K : \A i \in 1..Len(lists[k]) : lists[k][i] = E[k - 1] + i
  <2>1. lists \in Seq(Seq(Nat)) /\ InRunsOf(lists, N)
    BY <1>1
  <2> HIDE DEF N, E
  <2>2. LET e == EndsOf(lists, N)
        IN  /\ e[0] = 0 /\ e[Len(lists)] = N
            /\ \A k \in 0..Len(lists) : e[k] \in Nat
            /\ \A k \in 1..Len(lists) : e[k] = e[k - 1] + Len(lists[k])
            /\ \A k \in 1..Len(lists) : \A i \in 1..Len(lists[k]) : lists[k][i] = e[k - 1] + i
    BY <2>1, EndsFacts
  <2>3. QED
    BY <2>2 DEF E
<1> HIDE DEF K, N
<1>2. /\ Ends[K] = N /\ \A k \in 0..K : Ends[k] \in Nat
      /\ \A k \in 1..K : Ends[k] = Ends[k - 1] + Len(lists[k])
      /\ \A k \in 1..K : \A i \in 1..Len(lists[k]) : lists[k][i] = Ends[k - 1] + i
  BY <1>11 DEF Ends, N
<1>3. K - 1 \in 0..K
  BY <1>1
<1>4. Ends[K - 1] \in Nat /\ Ends[K] = Ends[K - 1] + Len(lists[K])
  BY <1>1, <1>2, <1>3
<1>5. Last(counts) = counts[K] /\ Last(lists) = lists[K]
  BY <1>1 DEF Last, K
<1>6. lists[K] \in Seq(Nat) /\ Len(lists[K]) \in Nat
  BY <1>1 DEF K
<1>7. LastInstruction # NULL => LastInstruction = N /\ Ends[K - 1] < N
  <2>1. CASE lists[K] = <<>>
    BY <1>5, <2>1 DEF LastInstruction
  <2>2. CASE lists[K] # <<>>
    <3>1. Len(lists[K]) >= 1 /\ Len(lists[K]) \in 1..Len(lists[K])
      BY <1>6, <2>2
    <3>2. LastInstruction = lists[K][Len(lists[K])]
      BY <1>5, <2>2 DEF LastInstruction, Last
    <3>3. lists[K][Len(lists[K])] = Ends[K - 1] + Len(lists[K])
      BY <1>1, <1>2, <3>1
    <3>4. QED
      BY <1>2, <1>4, <1>6, <3>1, <3>2, <3>3
  <2>3. QED
    BY <2>1, <2>2
<1>8. Depth(control, Len(control)) = K
  BY <1>1, DepthIsLists
<1>9. LastInstruction \in Nat /\ Last(counts) \in Nat
  BY StepFacts DEF JumpsInv, CallsInv
<1>10. QED
  BY <1>1, <1>2, <1>4, <1>5, <1>7, <1>8, <1>9 DEF K, N

(* ... and of the innermost frame, and the one it is in.                    *)
LEMMA HereOnTop ==
    ASSUME JumpsInv, control # <<>>
    PROVE  LET n == Len(control)
           IN  /\ n >= 1 /\ Last(control) = control[n] /\ control[n] \in Frames
               /\ control[n] \in Owners(instructions)
               /\ phase \in {"function_body", "main_body"}
               /\ Top(control[n], instructions)
               /\ Sits(control[n], Ends[Len(lists) - 1], Len(instructions))
               /\ n - 1 > 0 => /\ control[n - 1] \in Frames /\ control[n - 1] \in Owners(instructions)
                               /\ Under(control[n - 1], control[n], Ends[Depth(control, n - 1)], instructions)
               /\ ClosedIn(instructions, control)
<1> DEFINE n == Len(control)
<1>1. control \in Seq(Frames) /\ control \in Seq(Owners(instructions))
  BY DEF JumpsInv, CallsInv, LayoutInv, BlocksInv
<1>2. n \in Nat /\ n >= 1 /\ n \in 1..n /\ control[n] \in Frames /\ Last(control) = control[n]
  BY <1>1 DEF Last
<1>3. \A p \in 1..n : control[p] \in Owners(instructions)
  <2> DEFINE S == Owners(instructions)
  <2>1. control \in Seq(S)
    BY <1>1
  <2> HIDE DEF S
  <2>2. \A p \in 1..n : control[p] \in S
    BY <2>1
  <2>3. QED
    BY <2>2 DEF S
<1>4. Standing(control, Ends, instructions)
  BY DEF JumpsInv
<1>5. phase \in {"function_body", "main_body"}
  BY DEF JumpsInv, CallsInv, PhaseInv
<1>6. ClosedIn(instructions, control)
  BY <1>5 DEF JumpsInv
<1>7. Depth(control, n) = Len(lists)
  BY Here
<1>8. Top(control[n], instructions) /\ Sits(control[n], Ends[Len(lists) - 1], Len(instructions))
  BY <1>2, <1>4, <1>7 DEF Standing
<1>9. ASSUME n - 1 > 0
      PROVE  /\ control[n - 1] \in Frames /\ control[n - 1] \in Owners(instructions)
             /\ Under(control[n - 1], control[n], Ends[Depth(control, n - 1)], instructions)
  <2>1. n - 1 \in 1..n /\ n - 1 \in 1..(n - 1) /\ (n - 1) + 1 = n
    BY <1>2, <1>9
  <2>2. control[n - 1] \in Frames
    BY <1>1, <2>1
  <2>3. Under(control[n - 1], control[(n - 1) + 1], Ends[Depth(control, n - 1)], instructions)
    BY <1>4, <2>1 DEF Standing
  <2>4. QED
    BY <1>3, <2>1, <2>2, <2>3
<1>10. QED
  BY <1>2, <1>3, <1>5, <1>6, <1>8, <1>9

-----------------------------------------------------------------------------
(* What every step has to show *)

(* The frames above the first q, before and after.                          *)
NewTop(q, patched) ==
    /\ \A p \in 1..Len(control') : p = Len(control') => Top(control'[p], instructions')
    /\ Len(control') = q + 1 =>
          /\ Sits(control'[q + 1], Ends[Depth(control', q + 1) - 1], Len(instructions'))
          /\ q > 0 => Under(control[q], control'[q + 1], Ends[Depth(control, q)], instructions')
    /\ \A p \in (q + 1)..Len(control) : Jumping(control[p]) =>
          \/ control[p].jump = patched
          \/ /\ Len(control') = q + 1 /\ Jumping(control'[q + 1])
             /\ control'[q + 1].jump = control[p].jump

(* The instructions that are new, and the one that is patched.              *)
NewItems(patched) ==
    /\ Len(instructions) <= Len(instructions')
    /\ MarksKept
    /\ \A i \in Numbers : i # patched => instructions'[i] = instructions[i]
    /\ \A i \in DOMAIN instructions' : i \notin Numbers \/ i = patched =>
          /\ Closed(instructions'[i], i, Len(instructions'), control')
          /\ instructions'[i].target \in Nat

(* A step that does so keeps the invariant.                                 *)
LEMMA Kept ==
    ASSUME JumpsInv, CallsInv', phase # "resolved", phase' # "resolved", ListsBelow,
           NEW q, Prefix(q), NEW patched, NewTop(q, patched), NewItems(patched)
    PROVE  JumpsInv'
<1> DEFINE N == Len(instructions)
           M == Len(instructions')
<1>1. Standing(control', EndsOf(lists', M), instructions')
  BY Stands DEF NewTop, NewItems, CallsInv
<1>2. /\ control \in Seq(Frames) /\ control' \in Seq(Frames)
      /\ N \in Nat /\ M \in Nat /\ N <= M /\ DOMAIN instructions' = 1..M
      /\ Numbers = DOMAIN instructions
      /\ ItemsIn(instructions)
  <2>1. /\ control \in Seq(Frames) /\ control' \in Seq(Frames)
        /\ Listed(instructions) /\ Listed(instructions') /\ ItemsIn(instructions)
    BY DEF JumpsInv, CallsInv, LayoutInv, BlocksInv, ListsInv
  <2>2. N \in Nat /\ M \in Nat /\ DOMAIN instructions' = 1..M /\ Numbers = DOMAIN instructions
    BY <2>1 DEF Listed, Numbers
  <2>3. N <= M
    BY DEF NewItems
  <2>4. QED
    BY <2>1, <2>2, <2>3
<1>3. ASSUME NEW i, i # patched, Owned(control, i)
      PROVE  Owned(control', i)
  <2>1. PICK p \in 1..Len(control) : Jumping(control[p]) /\ control[p].jump = i
    BY <1>3 DEF Owned
  <2>2. q \in Nat /\ q <= Len(control) /\ Len(control') \in {q, q + 1} /\ Len(control) \in Nat
    BY <1>2 DEF Prefix
  <2>3. CASE p <= q
    <3>1. p \in 1..q /\ p \in 1..Len(control')
      BY <2>2, <2>3
    <3>2. QED
      BY <2>1, <3>1 DEF Prefix, Owned
  <2>4. CASE p > q
    <3>1. p \in (q + 1)..Len(control)
      BY <2>2, <2>4
    <3>2. Len(control') = q + 1 /\ Jumping(control'[q + 1]) /\ control'[q + 1].jump = i
      BY <1>3, <2>1, <3>1 DEF NewTop
    <3>3. q + 1 \in 1..Len(control')
      BY <2>2, <3>2
    <3>4. QED
      BY <3>2, <3>3 DEF Owned
  <2>5. QED
    BY <2>2, <2>3, <2>4
<1>4. ClosedIn(instructions, control) /\ TargetsIn(instructions)
  BY DEF JumpsInv
<1>5. ASSUME NEW i \in DOMAIN instructions'
      PROVE  Closed(instructions'[i], i, M, control') /\ instructions'[i].target \in Nat
  <2>1. CASE i \notin Numbers \/ i = patched
    BY <2>1 DEF NewItems
  <2>2. CASE i \in Numbers /\ i # patched
    <3> DEFINE x == instructions[i]
    <3>1. instructions'[i] = x
      BY <2>2 DEF NewItems
    <3>2. Closed(x, i, N, control) /\ x.target \in Nat
      BY <1>2, <1>4, <2>2 DEF ClosedIn, TargetsIn
    <3>3. x.goal \in Nat
      BY <1>2, <2>2 DEF ItemsIn, IsItem
    <3> HIDE DEF x, N, M
    <3>4. x.goal \in 1..N => x.goal \in 1..M
      BY <1>2, <3>3
    <3>5. Closed(x, i, M, control')
      BY <1>3, <2>2, <3>2, <3>4 DEF Closed, Aimed
    <3>6. QED
      BY <3>1, <3>2, <3>5
  <2>3. QED
    BY <2>1, <2>2
<1>6. ClosedIn(instructions', control') /\ TargetsIn(instructions')
  BY <1>5 DEF ClosedIn, TargetsIn
<1>7. Exact({"if", "else", "while", "loop"})'
  BY DEF Exact
<1>8. QED
  BY <1>1, <1>6, <1>7 DEF JumpsInv, Ends

(* A jump of no statement, or none at all.                                  *)
Loose(x) == x.role \notin {"if", "else", "while", "loop"} /\ x.target \in Nat

LEMMA Appended ==
    ASSUME JumpsInv, NEW T, NEW new \in Seq(T), instructions' = instructions \o new,
           \A j \in 1..Len(new) :
              /\ new[j].target \in Nat
              /\ Closed(new[j], Len(instructions) + j, Len(instructions) + Len(new), control')
    PROVE  NewItems(0) /\ Len(instructions') = Len(instructions) + Len(new)
<1> DEFINE N == Len(instructions)
           S == {instructions[i] : i \in DOMAIN instructions} \cup T
<1>1. instructions \in Seq(S) /\ new \in Seq(S)
  BY DEF JumpsInv, CallsInv, LayoutInv, ListsInv, Listed
<1> HIDE DEF S
<1>2. /\ N \in Nat /\ Len(new) \in Nat /\ Numbers = 1..N
      /\ Len(instructions') = N + Len(new) /\ DOMAIN instructions' = 1..(N + Len(new))
      /\ \A i \in 1..N : instructions'[i] = instructions[i]
      /\ \A i \in (N + 1)..(N + Len(new)) : instructions'[i] = new[i - N]
  BY <1>1 DEF Numbers
<1>3. MarksKept
  BY <1>2 DEF MarksKept
<1>4. ASSUME NEW i \in DOMAIN instructions', i \notin Numbers \/ i = 0
      PROVE  /\ Closed(instructions'[i], i, Len(instructions'), control')
             /\ instructions'[i].target \in Nat
  <2>1. i \in (N + 1)..(N + Len(new)) /\ i - N \in 1..Len(new) /\ N + (i - N) = i
    <3> DEFINE c == Len(new)
    <3>1. N \in Nat /\ c \in Nat /\ i \in 1..(N + c) /\ i \notin 1..N
      BY <1>2, <1>4
    <3> HIDE DEF N, c
    <3>2. i \in (N + 1)..(N + c) /\ i - N \in 1..c /\ N + (i - N) = i
      BY <3>1
    <3>3. QED
      BY <3>2 DEF c
  <2>2. instructions'[i] = new[i - N]
    BY <1>2, <2>1
  <2>3. QED
    BY <1>2, <2>1, <2>2
<1>5. QED
  BY <1>2, <1>3, <1>4 DEF NewItems

LEMMA LooseIsClosed ==
    ASSUME NEW x, Loose(x), NEW i, NEW n, NEW frames
    PROVE  x.target \in Nat /\ Closed(x, i, n, frames)
BY DEF Loose, Closed

LEMMA Unwritten ==
    ASSUME JumpsInv, instructions' = instructions
    PROVE  NewItems(0) /\ Len(instructions') = Len(instructions)
<1>1. Len(instructions) \in Nat /\ DOMAIN instructions = 1..Len(instructions)
  BY DEF JumpsInv, CallsInv, LayoutInv, ListsInv, Listed
<1>2. QED
  BY <1>1 DEF NewItems, MarksKept, Numbers

(* A patch of the right distance, or of an else-if.                         *)
Right(number, offset, goal) ==
    /\ control # <<>>
    /\ number \in Numbers /\ instructions[number].role \in Branches /\ goal \in Nat
    /\ offset = goal - number \/ instructions[number].role = "elseif"

AsPatched(p, number) ==
    /\ Listed(p) /\ Len(p) = Len(instructions) /\ DOMAIN p = Numbers
    /\ \A i \in Numbers : i # number => p[i] = instructions[i]
    /\ \A i \in Numbers : p[i].role = instructions[i].role
    /\ p[number].target \in Nat
    /\ \A n, frames : Closed(p[number], number, n, frames)

LEMMA Patched ==
    ASSUME JumpsInv, NEW number, NEW offset, NEW goal, Right(number, offset, goal)
    PROVE  AsPatched(Patch(number, offset, goal), number)
<1> DEFINE p == Patch(number, offset, goal)
           x == instructions[number]
<1>0. /\ control # <<>> /\ number \in Numbers /\ x.role \in Branches /\ goal \in Nat
      /\ offset = goal - number \/ x.role = "elseif"
  BY DEF Right
<1>1. /\ Listed(instructions) /\ ItemsIn(instructions) /\ ClosedIn(instructions, control)
      /\ TargetsIn(instructions)
  BY <1>0, HereOnTop DEF JumpsInv, CallsInv, LayoutInv, ListsInv
<1>2. Listed(p) /\ Len(p) = Len(instructions) /\ DOMAIN p = Numbers
  <2>1. p = [i \in DOMAIN instructions |-> p[i]]
    BY DEF Patch
  <2>2. DOMAIN p = Numbers
    BY DEF Patch, Numbers
  <2> HIDE DEF p
  <2>3. QED
    BY <1>1, <2>1, <2>2, ListedRewritten
<1>3. \A i \in Numbers : i # number => p[i] = instructions[i]
  BY DEF Patch, Numbers
<1>4. p[number] = [x EXCEPT !.value = offset, !.goal = goal]
  BY <1>0 DEF Patch, Numbers
<1>5. IsItem(x) /\ Closed(x, number, Len(instructions), control) /\ x.target \in Nat
  BY <1>0, <1>1 DEF ItemsIn, ClosedIn, TargetsIn, Numbers
<1>6. /\ p[number].role = x.role /\ p[number].relative = x.relative /\ p[number].target = x.target
      /\ p[number].value = offset /\ p[number].goal = goal
  BY <1>4, <1>5 DEF IsItem, Instruction
<1> HIDE DEF p, x
<1>7. \A i \in Numbers : p[i].role = instructions[i].role
  BY <1>3, <1>6 DEF x
<1>8. \A n, frames : Closed(p[number], number, n, frames)
  BY <1>0, <1>5, <1>6 DEF Closed, Branches
<1>9. QED
  BY <1>2, <1>3, <1>5, <1>6, <1>7, <1>8 DEF p, AsPatched

LEMMA PatchedItems ==
    ASSUME JumpsInv, NEW number, NEW offset, NEW goal, Right(number, offset, goal),
           instructions' = Patch(number, offset, goal)
    PROVE  NewItems(number) /\ Len(instructions') = Len(instructions)
<1>1. AsPatched(instructions', number)
  BY Patched
<1>2. Len(instructions) \in Nat
  BY Here
<1>3. QED
  BY <1>1, <1>2 DEF AsPatched, NewItems, MarksKept

LEMMA Ontop ==
    ASSUME NEW S, NEW s \in Seq(S), NEW f \in S
    PROVE  /\ Append(s, f) \in Seq(S) /\ Len(Append(s, f)) = Len(s) + 1 /\ Len(s) \in Nat
           /\ Append(s, f)[Len(s) + 1] = f
           /\ \A p \in 1..Len(s) : Append(s, f)[p] = s[p]
OBVIOUS

LEMMA PatchedAndAdded ==
    ASSUME JumpsInv, NEW number, NEW offset, NEW goal, Right(number, offset, goal),
           NEW new, instructions' = Append(Patch(number, offset, goal), new),
           new.target \in Nat, Closed(new, NextNumber, NextNumber, control')
    PROVE  /\ NewItems(number) /\ Len(instructions') = NextNumber
           /\ instructions'[NextNumber] = new
<1> DEFINE p == Patch(number, offset, goal)
           N == Len(instructions)
           S == {p[i] : i \in DOMAIN p} \cup {new}
<1>1. N \in Nat /\ Numbers = 1..N /\ NextNumber = N + 1
  BY Here
<1>2. AsPatched(p, number) /\ instructions' = Append(p, new)
  BY Patched
<1> HIDE DEF p
<1>3. /\ Listed(p) /\ Len(p) = N /\ DOMAIN p = Numbers
      /\ \A i \in Numbers : i # number => p[i] = instructions[i]
      /\ \A i \in Numbers : p[i].role = instructions[i].role
      /\ p[number].target \in Nat
      /\ \A n, frames : Closed(p[number], number, n, frames)
  BY <1>2 DEF AsPatched
<1>4. p \in Seq(S) /\ new \in S
  BY <1>3 DEF Listed
<1> HIDE DEF S
<1>5. /\ Len(instructions') = N + 1 /\ DOMAIN instructions' = 1..(N + 1)
      /\ instructions'[N + 1] = new
      /\ \A i \in 1..N : instructions'[i] = p[i]
  <2>1. /\ Append(p, new) \in Seq(S) /\ Len(Append(p, new)) = Len(p) + 1
        /\ Append(p, new)[Len(p) + 1] = new
        /\ \A i \in 1..Len(p) : Append(p, new)[i] = p[i]
    BY <1>4, Ontop
  <2>2. DOMAIN Append(p, new) = 1..Len(Append(p, new))
    BY <2>1
  <2>3. QED
    BY <1>2, <1>3, <2>1, <2>2
<1>6. MarksKept
  BY <1>1, <1>3, <1>5 DEF MarksKept
<1>7. ASSUME NEW i \in DOMAIN instructions', i \notin Numbers \/ i = number
      PROVE  /\ Closed(instructions'[i], i, Len(instructions'), control')
             /\ instructions'[i].target \in Nat
  <2>1. CASE i = number
    BY <1>1, <1>3, <1>5, <2>1
  <2>2. CASE i # number
    <3>1. i = N + 1
      BY <1>1, <1>5, <1>7, <2>2
    <3>2. QED
      BY <1>1, <1>5, <3>1
  <2>3. QED
    BY <2>1, <2>2
<1>8. \A i \in Numbers : i # number => instructions'[i] = instructions[i]
  BY <1>1, <1>3, <1>5
<1>9. QED
  BY <1>1, <1>5, <1>6, <1>7, <1>8 DEF NewItems

LEMMA MarkedItems ==
    ASSUME JumpsInv, control # <<>>, NEW number \in Numbers, instructions[number].role \in Branches,
           instructions' = [instructions EXCEPT ![number].role = "elseif"]
    PROVE  /\ NewItems(number) /\ Len(instructions') = Len(instructions)
           /\ number \in DOMAIN instructions' /\ instructions'[number].role = "elseif"
<1> DEFINE x == instructions[number]
<1>1. Listed(instructions) /\ ItemsIn(instructions) /\ TargetsIn(instructions) /\ Len(instructions) \in Nat
  BY Here DEF JumpsInv, CallsInv, LayoutInv, ListsInv
<1>2. instructions' = [i \in DOMAIN instructions |-> instructions'[i]]
  OBVIOUS
<1>3. DOMAIN instructions' = Numbers /\ \A i \in Numbers : i # number => instructions'[i] = instructions[i]
  BY DEF Numbers
<1>4. Len(instructions') = Len(instructions)
  BY <1>1, <1>2, ListedRewritten
<1>5. IsItem(x) /\ x.target \in Nat
  BY <1>1 DEF ItemsIn, TargetsIn, Numbers
<1>6. instructions'[number] = [x EXCEPT !.role = "elseif"]
  BY DEF Numbers
<1>7. instructions'[number].role = "elseif" /\ instructions'[number].target \in Nat
  BY <1>5, <1>6 DEF IsItem, Instruction
<1>8. Loose(instructions'[number])
  BY <1>7 DEF Loose
<1>9. MarksKept
  BY <1>3, <1>7 DEF MarksKept
<1>10. \A n, frames : Closed(instructions'[number], number, n, frames)
  BY <1>8, LooseIsClosed
<1>11. QED
  BY <1>1, <1>3, <1>4, <1>7, <1>9, <1>10 DEF NewItems

-----------------------------------------------------------------------------
(* The lists below the last one stay *)

LEMMA SameBelow ==
    ASSUME LayoutInv, lists' = lists
    PROVE  ListsBelow /\ Len(lists') = Len(lists)
<1>1. Len(lists) \in Nat
  BY DEF LayoutInv, ListsInv
<1>2. QED
  BY <1>1 DEF ListsBelow

LEMMA AddBelow ==
    ASSUME LayoutInv, LayoutInv', NEW x, lists' = [lists EXCEPT ![Len(lists)] = x]
    PROVE  ListsBelow /\ Len(lists') = Len(lists)
<1> DEFINE K == Len(lists)
<1>1. lists \in Seq(Seq(Nat)) /\ lists' \in Seq(Seq(Nat))
  BY DEF LayoutInv, ListsInv
<1>2. K \in Nat /\ Len(lists') \in Nat /\ DOMAIN lists = 1..K /\ DOMAIN lists' = 1..Len(lists')
  BY <1>1
<1>3. DOMAIN lists' = DOMAIN lists /\ \A k \in 1..K : k # K => lists'[k] = lists[k]
  BY <1>2
<1> DEFINE M == Len(lists')
<1> HIDE DEF K, M
<1>4. 1..M = 1..K /\ K \in Nat /\ M \in Nat
  BY <1>2, <1>3 DEF K, M
<1>5. M = K
  BY <1>4
<1>6. \A k \in 1..(M - 1) : k \in 1..K /\ k # K
  BY <1>4, <1>5
<1>7. \A k \in 1..(M - 1) : lists'[k] = lists[k]
  BY <1>3, <1>6
<1>8. M <= K + 1
  BY <1>4, <1>5
<1>9. QED
  BY <1>5, <1>7, <1>8 DEF ListsBelow, K, M

LEMMA OpenBelow ==
    ASSUME LayoutInv, lists' = Append(lists, <<>>)
    PROVE  ListsBelow /\ Len(lists') = Len(lists) + 1
<1> DEFINE Q == Seq(Nat)
<1>1. lists \in Seq(Q) /\ <<>> \in Q
  BY DEF LayoutInv, ListsInv
<1> HIDE DEF Q
<1>2. QED
  BY <1>1 DEF ListsBelow

LEMMA FlushBelow ==
    ASSUME LayoutInv, LayoutInv', Len(lists) >= 2, NEW list, lists' = Flushed(list)
    PROVE  ListsBelow /\ Len(lists') = Len(lists) - 1
<1> DEFINE K == Len(lists)
           M == Len(lists')
           front == SubSeq(lists, 1, K - 1)
           Q == Seq(Nat)
<1>1. lists \in Seq(Q) /\ lists' \in Seq(Q)
  BY DEF LayoutInv, ListsInv
<1> HIDE DEF Q
<1>2. K \in Nat /\ M \in Nat /\ K >= 2 /\ DOMAIN lists' = 1..M
  BY <1>1
<1>3. DOMAIN front = 1..(K - 1) /\ \A k \in 1..(K - 1) : front[k] = lists[k]
  BY <1>1, <1>2
<1>4. lists' = [front EXCEPT ![K - 1] = @ \o list]
  BY DEF Flushed, Front
<1> HIDE DEF front, K, M
<1>5. DOMAIN lists' = DOMAIN front /\ \A k \in DOMAIN front : k # K - 1 => lists'[k] = front[k]
  BY <1>4
<1>6. 1..M = 1..(K - 1)
  BY <1>2, <1>3, <1>5
<1>7. M = K - 1
  BY <1>2, <1>6
<1>8. \A k \in 1..(M - 1) : k \in 1..(K - 1) /\ k # K - 1
  BY <1>2, <1>7
<1>9. \A k \in 1..(M - 1) : lists'[k] = lists[k]
  BY <1>3, <1>5, <1>8
<1>10. QED
  BY <1>2, <1>7, <1>9 DEF ListsBelow, K, M

-----------------------------------------------------------------------------
(* The parser's frames, and what is left when the innermost go *)

LEMMA Below ==
    ASSUME NEW S, NEW s \in Seq(S), s # <<>>
    PROVE  /\ Front(s) \in Seq(S) /\ Len(Front(s)) = Len(s) - 1 /\ Len(s) \in Nat /\ Len(s) >= 1
           /\ Last(s) = s[Len(s)]
           /\ \A p \in 1..(Len(s) - 1) : Front(s)[p] = s[p]
<1> DEFINE n == Len(s)
           r == SubSeq(s, 1, n - 1)
<1>1. n \in Nat /\ n >= 1
  OBVIOUS
<1>2. r \in Seq(S) /\ DOMAIN r = 1..(n - 1) /\ \A p \in 1..(n - 1) : r[p] = s[p]
  BY <1>1
<1>3. Front(s) = r /\ Last(s) = s[n]
  BY DEF Front, Last
<1> HIDE DEF r, n
<1>4. Len(r) \in Nat /\ 1..Len(r) = 1..(n - 1)
  BY <1>2
<1>5. Len(r) = n - 1
  BY <1>1, <1>4
<1>6. QED
  BY <1>1, <1>2, <1>3, <1>5 DEF n

LEMMA Swapped ==
    ASSUME NEW S, NEW s \in Seq(S), s # <<>>, NEW f \in S
    PROVE  /\ Append(Front(s), f) \in Seq(S) /\ Len(Append(Front(s), f)) = Len(s)
           /\ Len(s) \in Nat /\ Len(s) >= 1
           /\ Append(Front(s), f)[Len(s)] = f
           /\ \A p \in 1..(Len(s) - 1) : Append(Front(s), f)[p] = s[p]
<1>1. /\ Front(s) \in Seq(S) /\ Len(Front(s)) = Len(s) - 1 /\ Len(s) \in Nat /\ Len(s) >= 1
      /\ \A p \in 1..(Len(s) - 1) : Front(s)[p] = s[p]
  BY Below
<1> DEFINE r == Front(s)
<1> HIDE DEF r
<1>2. /\ Append(r, f) \in Seq(S) /\ Len(Append(r, f)) = Len(r) + 1
      /\ Append(r, f)[Len(r) + 1] = f /\ \A p \in 1..Len(r) : Append(r, f)[p] = r[p]
  BY <1>1, Ontop DEF r
<1>3. Len(r) = Len(s) - 1 /\ Len(r) + 1 = Len(s) /\ \A p \in 1..(Len(s) - 1) : r[p] = s[p]
  BY <1>1 DEF r
<1>4. QED
  BY <1>1, <1>2, <1>3 DEF r

-----------------------------------------------------------------------------
(* The ways a step changes the frames *)

Quiet == phase # "resolved" /\ phase' # "resolved"

(* Code that is no statement's jump, where the parser emits some.           *)
LEMMA Emits ==
    ASSUME JumpsInv, CallsInv', Quiet, NEW T, NEW new \in Seq(T), Add(new), control' = control,
           control = <<>> \/ Last(control).kind = "block" \/ Last(control).stage = "condition",
           \A j \in 1..Len(new) : Loose(new[j])
    PROVE  JumpsInv'
<1> DEFINE n == Len(control)
<1>1. n \in Nat /\ Len(instructions) \in Nat /\ control \in Seq(Frames)
  BY Here
<1>2. instructions' = instructions \o new /\ ListsBelow
  <2>1. lists' = [lists EXCEPT ![Len(lists)] = @ \o [i \in DOMAIN new |-> Len(instructions) + i]]
    BY DEF Add
  <2>2. ListsBelow
    BY <2>1, AddBelow DEF JumpsInv, CallsInv
  <2>3. QED
    BY <2>2 DEF Add
<1>3. NewItems(0)
  <2>1. \A j \in 1..Len(new) :
           /\ new[j].target \in Nat
           /\ Closed(new[j], Len(instructions) + j, Len(instructions) + Len(new), control')
    BY LooseIsClosed
  <2>2. QED
    BY <1>2, <2>1, Appended
<1>4. Prefix(n)
  BY <1>1 DEF Prefix
<1>5. ASSUME NEW p \in 1..n, p = n
      PROVE  Top(control[p], instructions')
  <2>1. control # <<>> /\ Last(control) = control[p]
    BY <1>1, <1>5 DEF Last
  <2>2. QED
    BY <2>1 DEF Top
<1>6. NewTop(n, 0)
  BY <1>1, <1>5 DEF NewTop
<1>7. QED
  BY <1>2, <1>3, <1>4, <1>6, Kept DEF Quiet

(* A frame f is put on the others.                                          *)
LEMMA Pushes ==
    ASSUME JumpsInv, CallsInv', Quiet, ListsBelow, NEW patched, NewItems(patched),
           NEW f \in Frames, control' = Append(control, f),
           Top(f, instructions'),
           f.kind = "block" \/ Sits(f, Ends[Len(lists) - 1], Len(instructions')),
           Len(control) > 0 => Under(control[Len(control)], f, Ends[Len(lists)], instructions')
    PROVE  JumpsInv'
<1> DEFINE n == Len(control)
<1>1. n \in Nat /\ control \in Seq(Frames) /\ Depth(control, n) = Len(lists)
  BY Here
<1>2. /\ Len(control') = n + 1 /\ control'[n + 1] = f
      /\ \A p \in 1..n : control'[p] = control[p]
  BY <1>1, Ontop
<1>3. Prefix(n)
  BY <1>1, <1>2 DEF Prefix
<1>4. Sits(f, Ends[Depth(control', n + 1) - 1], Len(instructions'))
  <2>1. CASE f.kind = "block"
    BY <2>1 DEF Sits
  <2>2. CASE f.kind # "block"
    <3>1. Depth(control', n + 1) = Depth(control', n)
      BY <1>1, <1>2, <2>2, DepthFacts
    <3>2. Depth(control', n) = Depth(control, n)
      BY <1>1, <1>2, DepthKept
    <3>3. QED
      BY <1>1, <2>2, <3>1, <3>2
  <2>3. QED
    BY <2>1, <2>2
<1>5. n > 0 => Under(control[n], control'[n + 1], Ends[Depth(control, n)], instructions')
  BY <1>1, <1>2
<1>6. \A p \in 1..Len(control') : p = Len(control') => Top(control'[p], instructions')
  BY <1>2
<1>7. (n + 1)..n = {}
  BY <1>1
<1>8. NewTop(n, patched)
  BY <1>2, <1>4, <1>5, <1>6, <1>7 DEF NewTop
<1>9. QED
  BY <1>3, <1>8, Kept DEF Quiet

(* A frame f comes in place of the innermost, which is no block.            *)
LEMMA Swaps ==
    ASSUME JumpsInv, CallsInv', Quiet, ListsBelow, NEW patched, NewItems(patched),
           control # <<>>, Last(control).kind # "block",
           NEW f \in Frames, f.kind # "block", f.kind = "while" => Last(control).kind = "while",
           control' = Append(Front(control), f),
           Top(f, instructions'), Sits(f, Ends[Len(lists) - 1], Len(instructions')),
           Jumping(Last(control)) =>
               \/ Last(control).jump = patched
               \/ Jumping(f) /\ f.jump = Last(control).jump
    PROVE  JumpsInv'
<1> DEFINE n == Len(control)
           q == n - 1
<1>1. /\ n \in Nat /\ n >= 1 /\ control \in Seq(Frames) /\ Depth(control, n) = Len(lists)
      /\ Last(control) = control[n]
  BY Here, HereOnTop
<1>2. /\ Len(control') = n /\ control'[n] = f
      /\ \A p \in 1..(n - 1) : control'[p] = control[p]
  BY <1>1, Swapped
<1>3. q \in Nat /\ q + 1 = n
  BY <1>1
<1>4. Prefix(q)
  BY <1>1, <1>2, <1>3 DEF Prefix
<1>5. Depth(control', n) = Depth(control, n)
  <2>1. control'[q + 1].kind # "block" /\ control[q + 1].kind # "block"
    BY <1>1, <1>2, <1>3
  <2>2. Depth(control', q) = Depth(control, q)
    BY <1>2, <1>3, DepthKept
  <2> HIDE DEF q
  <2>3. Depth(control', q + 1) = Depth(control', q)
    BY <1>3, <2>1, DepthFacts
  <2>4. Depth(control, q + 1) = Depth(control, q)
    BY <1>3, <2>1, DepthFacts
  <2>5. QED
    BY <1>3, <2>2, <2>3, <2>4
<1>6. ASSUME q > 0
      PROVE  Under(control[q], f, Ends[Depth(control, q)], instructions')
  <2>1. control[q] \in Frames /\ Under(control[q], control[n], Ends[Depth(control, q)], instructions)
    BY <1>6, HereOnTop
  <2>2. Marked(control[q], instructions) => Marked(control[q], instructions')
    BY DEF NewItems, MarksKept, Marked, Numbers
  <2>3. QED
    BY <1>1, <2>1, <2>2 DEF Under
<1>7. \A p \in 1..Len(control') : p = Len(control') => Top(control'[p], instructions')
  BY <1>2
<1>8. \A p \in (q + 1)..n : p = n
  BY <1>1
<1> HIDE DEF q, n
<1>9. NewTop(q, patched)
  <2>1. Len(control') = q + 1 /\ control'[q + 1] = f
    BY <1>2, <1>3
  <2>2. Sits(control'[q + 1], Ends[Depth(control', q + 1) - 1], Len(instructions'))
    BY <1>1, <1>3, <1>5, <2>1
  <2>3. q > 0 => Under(control[q], control'[q + 1], Ends[Depth(control, q)], instructions')
    BY <1>6, <2>1
  <2>4. ASSUME NEW p \in (q + 1)..Len(control), Jumping(control[p])
        PROVE  \/ control[p].jump = patched
               \/ /\ Len(control') = q + 1 /\ Jumping(control'[q + 1])
                  /\ control'[q + 1].jump = control[p].jump
    <3>1. control[p] = Last(control)
      BY <1>1, <1>8, <2>4 DEF n
    <3>2. QED
      BY <2>1, <2>4, <3>1
  <2>5. QED
    BY <1>7, <2>2, <2>3, <2>4 DEF NewTop
<1>10. QED
  BY <1>4, <1>9, Kept DEF Quiet

(* The innermost frame goes; what it was in, if anything, is a block.       *)
LEMMA Pops ==
    ASSUME JumpsInv, CallsInv', Quiet, ListsBelow, NEW patched, NewItems(patched),
           control # <<>>, control' = Front(control),
           Len(control) > 1 => control[Len(control) - 1].kind = "block",
           Jumping(Last(control)) => Last(control).jump = patched
    PROVE  JumpsInv'
<1> DEFINE n == Len(control)
           q == n - 1
<1>1. n \in Nat /\ n >= 1 /\ control \in Seq(Frames) /\ Last(control) = control[n]
  BY Here, HereOnTop
<1>2. Len(control') = q /\ \A p \in 1..q : control'[p] = control[p]
  BY <1>1, Below
<1>3. q \in Nat /\ q <= n /\ \A p \in (q + 1)..n : p = n
  BY <1>1
<1>4. Prefix(q)
  BY <1>2, <1>3 DEF Prefix
<1>5. ASSUME NEW p \in 1..Len(control'), p = Len(control')
      PROVE  Top(control'[p], instructions')
  <2>1. p = q /\ n > 1 /\ control'[p] = control[q]
    BY <1>1, <1>2, <1>3, <1>5
  <2>2. control'[p].kind = "block"
    BY <2>1
  <2>3. QED
    BY <2>2 DEF Top
<1>6. Len(control') # q + 1
  BY <1>2, <1>3
<1>7. \A p \in (q + 1)..n : control[p] = Last(control)
  BY <1>1, <1>3
<1>8. NewTop(q, patched)
  BY <1>5, <1>6, <1>7 DEF NewTop
<1>9. QED
  BY <1>4, <1>8, Kept DEF Quiet

(* The two innermost frames go, and f comes in their place: the outer one   *)
(* with its part complete.                                                  *)
Completed(g, f) ==
    /\ g.kind # "block" /\ f.kind = g.kind /\ f.stage = "parsed" /\ f.jump = g.jump
    /\ f.before = g.before /\ f.first = g.first
    /\ g.kind = "while" => g.stage # "condition"

LEMMA Completes ==
    ASSUME JumpsInv, CallsInv', Quiet, ListsBelow, NEW patched, NewItems(patched),
           Len(control) > 1, NEW f \in Frames, Completed(control[Len(control) - 1], f),
           control' = Append(Front(Front(control)), f),
           Top(f, instructions'),
           Jumping(Last(control)) => Last(control).jump = patched
    PROVE  JumpsInv'
<1> DEFINE n == Len(control)
           m == n - 1
           q == m - 1
           g == control[m]
           outer == Front(control)
<1>1. n \in Nat /\ n > 1 /\ control \in Seq(Frames) /\ control # <<>> /\ Last(control) = control[n]
  BY Here, HereOnTop
<1>2. m \in Nat /\ m >= 1 /\ q \in Nat /\ q + 1 = m /\ m + 1 = n
  BY <1>1
<1>3. outer \in Seq(Frames) /\ Len(outer) = m /\ \A p \in 1..m : outer[p] = control[p]
  BY <1>1, Below
<1> HIDE DEF outer
<1>4. outer # <<>>
  BY <1>2, <1>3
<1>5. Len(control') = m /\ control'[m] = f /\ \A p \in 1..q : control'[p] = outer[p]
  BY <1>3, <1>4, Swapped DEF outer
<1>6. \A p \in 1..q : control'[p] = control[p]
  BY <1>2, <1>3, <1>5
<1>7. Prefix(q)
  BY <1>1, <1>2, <1>5, <1>6 DEF Prefix
<1>8. g \in Frames /\ g.kind # "block" /\ f.kind = g.kind
  BY <1>1, <1>2 DEF Completed
<1>9. Depth(control', m) = Depth(control, m)
  <2>1. control'[q + 1].kind # "block" /\ control[q + 1].kind # "block"
    BY <1>2, <1>5, <1>8
  <2>2. Depth(control', q) = Depth(control, q)
    BY <1>2, <1>6, DepthKept
  <2> HIDE DEF q
  <2>3. Depth(control', q + 1) = Depth(control', q)
    BY <1>2, <2>1, DepthFacts
  <2>4. Depth(control, q + 1) = Depth(control, q)
    BY <1>2, <2>1, DepthFacts
  <2>5. QED
    BY <1>2, <2>2, <2>3, <2>4
<1>10. Standing(control, Ends, instructions)
  BY DEF JumpsInv
<1>11. Sits(f, Ends[Depth(control, m) - 1], Len(instructions'))
  <2>1. m \in 1..n
    BY <1>1, <1>2
  <2>2. Sits(g, Ends[Depth(control, m) - 1], Len(instructions))
    BY <1>10, <2>1 DEF Standing
  <2>3. Len(instructions) \in Nat /\ Len(instructions') \in Nat /\ Len(instructions) <= Len(instructions')
    <3>1. Listed(instructions) /\ Listed(instructions')
      BY DEF JumpsInv, CallsInv, LayoutInv, ListsInv
    <3>2. Len(instructions) <= Len(instructions')
      BY DEF NewItems
    <3>3. QED
      BY <3>1, <3>2 DEF Listed
  <2>4. g.before \in Nat /\ g.jump \in Nat
    BY <1>8 DEF Frames
  <2>5. Completed(g, f)
    OBVIOUS
  <2> HIDE DEF g
  <2>6. QED
    BY <2>2, <2>3, <2>4, <2>5 DEF Sits, Follows, Completed
<1>12. ASSUME q > 0
      PROVE  Under(control[q], f, Ends[Depth(control, q)], instructions')
  <2>1. q \in 1..n /\ q \in 1..(n - 1)
    BY <1>1, <1>2, <1>12
  <2>2. Under(control[q], g, Ends[Depth(control, q)], instructions) /\ control[q] \in Frames
    <3>1. Under(control[q], control[q + 1], Ends[Depth(control, q)], instructions)
      BY <1>10, <2>1 DEF Standing
    <3>2. QED
      BY <1>1, <1>2, <2>1, <3>1
  <2>3. Marked(control[q], instructions) => Marked(control[q], instructions')
    BY DEF NewItems, MarksKept, Marked, Numbers
  <2>4. QED
    BY <1>8, <2>2, <2>3 DEF Under
<1>13. \A p \in 1..Len(control') : p = Len(control') => Top(control'[p], instructions')
  BY <1>5
<1>14. g.jump = f.jump /\ Jumping(f)
  BY <1>8 DEF Completed, Jumping
<1> HIDE DEF q, m, n
<1>15. \A p \in (q + 1)..n : p = m \/ p = n
  BY <1>1, <1>2
<1>16. NewTop(q, patched)
  <2>1. Len(control') = q + 1 /\ control'[q + 1] = f
    BY <1>2, <1>5
  <2>2. Sits(control'[q + 1], Ends[Depth(control', q + 1) - 1], Len(instructions'))
    BY <1>2, <1>9, <1>11, <2>1
  <2>3. q > 0 => Under(control[q], control'[q + 1], Ends[Depth(control, q)], instructions')
    BY <1>12, <2>1
  <2>4. ASSUME NEW p \in (q + 1)..Len(control), Jumping(control[p])
        PROVE  \/ control[p].jump = patched
               \/ /\ Len(control') = q + 1 /\ Jumping(control'[q + 1])
                  /\ control'[q + 1].jump = control[p].jump
    <3>1. CASE p = m
      BY <1>14, <2>1, <3>1
    <3>2. CASE p = n
      BY <1>1, <2>4, <3>2
    <3>3. QED
      BY <1>15, <2>4, <3>1, <3>2 DEF n
  <2>5. QED
    BY <1>13, <2>2, <2>3, <2>4 DEF NewTop
<1>17. QED
  BY <1>7, <1>16, Kept DEF Quiet

(* The step of Reduced.                                                     *)
LEMMA Reduces ==
    ASSUME JumpsInv, CallsInv', Quiet, UNCHANGED lists, control # <<>>,
           Last(control).kind \in {"if", "else"}, Last(control).stage = "parsed",
           NewItems(Last(control).jump), NEW size \in Nat, Reduced(Front(control), size)
    PROVE  JumpsInv'
<1> DEFINE n == Len(control)
           m == n - 1
           outer == Front(control)
<1>1. /\ n \in Nat /\ n >= 1 /\ control \in Seq(Frames) /\ Last(control) = control[n]
      /\ m > 0 => /\ control[m] \in Frames
                  /\ Under(control[m], control[n], Ends[Depth(control, m)], instructions)
  BY Here, HereOnTop
<1>2. outer \in Seq(Frames) /\ Len(outer) = m /\ \A p \in 1..m : outer[p] = control[p]
  BY <1>1, Below
<1>3. ListsBelow
  BY SameBelow DEF JumpsInv, CallsInv
<1> HIDE DEF outer, n, m
<1>4. n = Len(control) /\ m = n - 1
  BY DEF n, m
<1>5. outer # <<>> => m > 0 /\ Last(outer) = control[m]
  BY <1>1, <1>2, <1>4 DEF Last
<1>6. ASSUME m > 0
      PROVE  control[m].kind = "block" \/ Marked(control[m], instructions)
  BY <1>1, <1>6 DEF Under
<1>7. CASE outer # <<>> /\ Last(outer).kind = "else"
  <2> DEFINE g == control[m]
             f == [g EXCEPT !.stage = "parsed", !.size = size]
  <2>1. control' = Append(Front(outer), f) /\ g \in Frames /\ g.kind = "else" /\ m > 0
    BY <1>1, <1>5, <1>7 DEF Reduced, outer
  <2>2. Marked(g, instructions)
    BY <1>6, <2>1
  <2>3. f \in Frames /\ Completed(g, f) /\ f.jump = g.jump /\ f.kind = g.kind
    BY <2>1 DEF Frames, Completed
  <2> HIDE DEF f, g
  <2>4. Marked(f, instructions')
    BY <2>2, <2>3 DEF Marked, NewItems, MarksKept, Numbers
  <2>5. Top(f, instructions')
    BY <2>3, <2>4 DEF Top, Completed
  <2>6. Len(control) > 1 /\ Completed(control[Len(control) - 1], f)
    BY <1>1, <1>4, <2>1, <2>3 DEF g
  <2>7. control' = Append(Front(Front(control)), f)
    BY <2>1 DEF outer
  <2>8. QED
    BY <1>3, <2>3, <2>5, <2>6, <2>7, Completes
<1>8. CASE ~(outer # <<>> /\ Last(outer).kind = "else")
  <2>1. control' = Front(control)
    BY <1>8 DEF Reduced, outer
  <2>2. ASSUME Len(control) > 1
        PROVE  control[Len(control) - 1].kind = "block"
    <3>1. m > 0 /\ outer # <<>>
      BY <1>1, <1>2, <1>4, <2>2
    <3>2. control[m].kind # "else"
      BY <1>5, <1>8, <3>1
    <3>3. QED
      BY <1>4, <1>6, <3>1, <3>2 DEF Marked
  <2>3. QED
    BY <1>3, <2>1, <2>2, Pops
<1>9. QED
  BY <1>7, <1>8

-----------------------------------------------------------------------------
(* Steps and jumps *)

LEMMA LoosePlain == Loose(Plain)
BY DEF Loose, Plain, Instruction, NULL

(* The pointer behind an instruction of the last list that is not its last. *)
LEMMA NextInList ==
    ASSUME JumpsInv, NEW before \in Nat, Ends[Len(lists) - 1] < before, before < Len(instructions)
    PROVE  FirstAfter(before) = before + 1
<1> DEFINE K == Len(lists)
           E == EndsOf(lists, Len(instructions))
           list == lists[K]
           start == E[K - 1]
<1>1. lists \in Seq(Seq(Nat)) /\ InRunsOf(lists, Len(instructions)) /\ K \in Nat /\ K >= 1
  BY DEF JumpsInv, CallsInv, LayoutInv, ListsInv, InRuns, InRunsOf
<1>2. K \in 1..K /\ K - 1 \in 0..K /\ list \in Seq(Nat) /\ Len(list) \in Nat /\ DOMAIN list = 1..Len(list)
  BY <1>1
<1>3. /\ E[K] = Len(instructions) /\ \A k \in 0..K : E[k] \in Nat
      /\ \A k \in 1..K : E[k] = E[k - 1] + Len(lists[k])
      /\ \A k \in 1..K : \A i \in 1..Len(lists[k]) : lists[k][i] = E[k - 1] + i
  <2> HIDE DEF E
  <2>1. LET e == EndsOf(lists, Len(instructions))
        IN  /\ e[0] = 0 /\ e[Len(lists)] = Len(instructions)
            /\ \A k \in 0..Len(lists) : e[k] \in Nat
            /\ \A k \in 1..Len(lists) : e[k] = e[k - 1] + Len(lists[k])
            /\ \A k \in 1..Len(lists) : \A i \in 1..Len(lists[k]) : lists[k][i] = e[k - 1] + i
    BY <1>1, EndsFacts
  <2>2. QED
    BY <2>1 DEF E
<1>4. start < before
  BY DEF Ends
<1>5. Last(lists) = list
  BY DEF Last
<1> HIDE DEF E, K
<1>6. start \in Nat /\ E[K] = start + Len(list) /\ \A i \in 1..Len(list) : list[i] = start + i
  BY <1>2, <1>3
<1> DEFINE N == Len(instructions)
           a == before - start
<1>7. N = start + Len(list) /\ N \in Nat
  BY <1>2, <1>3, <1>6
<1> HIDE DEF start, list, N
<1>8. before < N
  BY DEF N
<1>9. a \in 1..Len(list) /\ a + 1 \in 1..Len(list) /\ a < Len(list) /\ start + a = before
  BY <1>2, <1>4, <1>6, <1>7, <1>8
<1>10. ASSUME NEW i \in DOMAIN list
       PROVE  list[i] = before <=> i = a
  <2>1. i \in 1..Len(list) /\ i \in Nat /\ a \in Nat
    BY <1>2, <1>9
  <2>2. list[i] = start + i
    BY <1>6, <2>1
  <2> HIDE DEF a
  <2>3. start + i = start + a <=> i = a
    BY <1>6, <2>1
  <2>4. QED
    BY <1>9, <2>2, <2>3
<1>11. (CHOOSE i \in DOMAIN list : list[i] = before) = a
  BY <1>2, <1>9, <1>10
<1>12. before # NULL
  BY <1>4, <1>6 DEF NULL
<1>13. list[a + 1] = before + 1
  BY <1>6, <1>9
<1> HIDE DEF a
<1>14. FirstAfter(before) = list[a + 1]
  BY <1>5, <1>9, <1>11, <1>12 DEF FirstAfter
<1>15. QED
  BY <1>13, <1>14

(* A block begins: right behind the jump of its statement, if it has one.   *)
LEMMA BeginsBlock ==
    ASSUME JumpsInv, CallsInv', BeginBlock
    PROVE  JumpsInv'
<1> DEFINE f == Frame("block", "body", NULL)
<1>1. /\ control' = Append(control, f) /\ instructions' = instructions
      /\ lists' = Append(lists, <<>>)
      /\ phase' = CASE phase = "function_head" -> "function_body"
                    [] phase = "main_head" -> "main_body"
                    [] OTHER -> phase
      /\ \/ InBlock
         \/ control # <<>> /\ Last(control).kind # "block" /\ Last(control).stage = "body"
         \/ control = <<>> /\ phase \in {"function_head", "main_head"}
  BY DEF BeginBlock, StatementStart, Innermost
<1>2. f \in Frames /\ f.kind = "block"
  BY DEF Frame, Frames, Kinds, NULL
<1> HIDE DEF f
<1>3. Quiet
  <2>1. phase # "resolved"
    BY <1>1, HereOnTop DEF InBlock, Innermost
  <2>2. QED
    BY <1>1, <2>1 DEF Quiet
<1>4. ListsBelow /\ NewItems(0)
  BY <1>1, OpenBelow, Unwritten DEF JumpsInv, CallsInv
<1>5. Top(f, instructions')
  BY <1>2 DEF Top
<1>6. ASSUME Len(control) > 0
      PROVE  Under(control[Len(control)], f, Ends[Len(lists)], instructions')
  <2>1. control # <<>> /\ Len(control) \in Nat
    BY <1>6, Here
  <2>2. /\ Last(control) = control[Len(control)] /\ Top(control[Len(control)], instructions)
        /\ Ends[Len(lists)] = Len(instructions)
    BY <2>1, Here, HereOnTop
  <2>3. CASE InBlock
    BY <2>2, <2>3 DEF InBlock, Innermost, Under
  <2>4. CASE Last(control).kind # "block" /\ Last(control).stage = "body"
    BY <1>2, <2>2, <2>4 DEF Top, Under
  <2>5. QED
    BY <1>1, <2>1, <2>3, <2>4
<1>7. QED
  BY <1>1, <1>2, <1>3, <1>4, <1>5, <1>6, Pushes

(* A block ends: its count is the distance from the jump to what follows.   *)
LEMMA EndsABlock ==
    ASSUME JumpsInv, CallsInv', EndBlock
    PROVE  JumpsInv'
<1> DEFINE n == Len(control)
           m == n - 1
           outer == Front(control)
<1>1. /\ control # <<>> /\ Last(control).kind = "block"
      /\ phase' = IF n > 1 THEN phase
                  ELSE IF phase = "function_body" THEN "function_tail" ELSE "main_tail"
  BY DEF EndBlock, InBlock, Innermost
<1>2. PICK locals \in 0..MaxLocals :
        LET pops == [i \in 1..(2 * locals) |-> Plain]
            list == Last(lists) \o [i \in DOMAIN pops |-> Len(instructions) + i]
            size == BlockSize(pops)
        IN  /\ instructions' = instructions \o pops
            /\ lists' = Flushed(list)
            /\ control' = IF outer # <<>> /\ Last(outer).stage = "body" /\ Last(outer).kind # "block"
                          THEN Append(Front(outer),
                                      [Last(outer) EXCEPT !.stage = "parsed", !.size = size])
                          ELSE outer
  BY DEF EndBlock
<1> DEFINE pops == [i \in 1..(2 * locals) |-> Plain]
           size == BlockSize(pops)
           list == Last(lists) \o [i \in DOMAIN pops |-> Len(instructions) + i]
<1>3. pops \in Seq({Plain}) /\ Len(pops) \in Nat /\ \A j \in 1..Len(pops) : pops[j] = Plain
  BY LayoutAssumption
<1>4. /\ instructions' = instructions \o pops /\ lists' = Flushed(list)
      /\ control' = IF outer # <<>> /\ Last(outer).stage = "body" /\ Last(outer).kind # "block"
                    THEN Append(Front(outer), [Last(outer) EXCEPT !.stage = "parsed", !.size = size])
                    ELSE outer
  BY <1>2
<1>5. size = Last(counts) + Len(pops)
  BY DEF BlockSize
<1> HIDE DEF pops, size, list
<1>6. NewItems(0) /\ Len(instructions') = Len(instructions) + Len(pops)
  <2>1. \A j \in 1..Len(pops) :
           /\ pops[j].target \in Nat
           /\ Closed(pops[j], Len(instructions) + j, Len(instructions) + Len(pops), control')
    BY <1>3, LoosePlain, LooseIsClosed
  <2>2. QED
    BY <1>3, <1>4, <2>1, Appended
<1>7. ListsBelow
  BY <1>4, FlushBelow, StepFacts DEF EndBlock, JumpsInv, CallsInv
<1>8. /\ n \in Nat /\ n >= 1 /\ control \in Seq(Frames) /\ Last(control) = control[n]
      /\ phase \in {"function_body", "main_body"}
      /\ m > 0 => /\ control[m] \in Frames
                  /\ Under(control[m], control[n], Ends[Depth(control, m)], instructions)
      /\ Depth(control, n) = Len(lists) /\ Len(lists) \in Nat
      /\ Ends[Len(lists) - 1] \in Nat /\ Last(counts) \in Nat /\ Len(instructions) \in Nat
      /\ Ends[Len(lists) - 1] + Last(counts) = Len(instructions)
  BY <1>1, Here, HereOnTop
<1>9. Quiet
  BY <1>1, <1>8 DEF Quiet
<1>10. outer \in Seq(Frames) /\ Len(outer) = m /\ \A p \in 1..m : outer[p] = control[p]
  BY <1>1, <1>8, Below
<1>11. ~Jumping(Last(control))
  BY <1>1 DEF Jumping
<1> HIDE DEF outer, n, m
<1>12. n = Len(control) /\ m = n - 1
  BY DEF n, m
<1>13. outer # <<>> => m > 0 /\ Last(outer) = control[m]
  BY <1>8, <1>10, <1>12 DEF Last
<1>14. CASE outer # <<>> /\ Last(outer).stage = "body" /\ Last(outer).kind # "block"
  <2> DEFINE g == control[m]
             f == [g EXCEPT !.stage = "parsed", !.size = size]
  <2>1. control' = Append(Front(outer), f) /\ g \in Frames /\ g.kind # "block" /\ g.stage = "body" /\ m > 0
    BY <1>4, <1>8, <1>13, <1>14
  <2>2. size \in Nat
    BY <1>3, <1>5, <1>8
  <2>3. f \in Frames /\ Completed(g, f) /\ f.jump = g.jump /\ f.size = size
    BY <2>1, <2>2 DEF Frames, Completed
  <2>4. Depth(control, m) = Len(lists) - 1
    <3>1. m \in Nat /\ m + 1 = n
      BY <1>8, <1>12, <2>1
    <3>2. control[m + 1].kind = "block"
      BY <1>1, <1>8, <3>1
    <3>3. Depth(control, m + 1) = Depth(control, m) + 1 /\ Depth(control, m) \in Nat
      BY <3>1, <3>2, DepthFacts
    <3> DEFINE d == Depth(control, m)
               K == Len(lists)
    <3>4. K = d + 1 /\ d \in Nat
      BY <1>8, <3>1, <3>3
    <3> HIDE DEF d, K
    <3>5. d = K - 1
      BY <3>4
    <3>6. QED
      BY <3>5 DEF d, K
  <2>5. Under(g, control[n], Ends[Len(lists) - 1], instructions)
    BY <1>8, <2>1, <2>4
  <2>6. g.jump = Ends[Len(lists) - 1]
    BY <1>1, <1>8, <2>1, <2>5 DEF Under
  <2> HIDE DEF f, g
  <2> DEFINE N == Len(instructions)
             M == Len(instructions')
             end == Ends[Len(lists) - 1]
             c == Last(counts)
  <2>7. f.jump + f.size = Len(instructions')
    <3>1. M = N + Len(pops) /\ end + c = N /\ N \in Nat /\ end \in Nat /\ c \in Nat /\ f.jump = end
          /\ f.size = c + Len(pops)
      BY <1>5, <1>6, <1>8, <2>3, <2>6
    <3> HIDE DEF M, N, end, c
    <3>2. f.jump + f.size = M
      BY <1>3, <3>1
    <3>3. QED
      BY <3>2 DEF M
  <2>8. Top(f, instructions')
    BY <2>3, <2>7 DEF Top, Completed
  <2>9. Len(control) > 1 /\ Completed(control[Len(control) - 1], f)
    BY <1>8, <1>12, <2>1, <2>3 DEF g
  <2>10. control' = Append(Front(Front(control)), f)
    BY <2>1 DEF outer
  <2>11. QED
    BY <1>6, <1>7, <1>9, <1>11, <2>3, <2>8, <2>9, <2>10, Completes
<1>15. CASE ~(outer # <<>> /\ Last(outer).stage = "body" /\ Last(outer).kind # "block")
  <2>1. control' = Front(control)
    BY <1>4, <1>15 DEF outer
  <2>2. ASSUME Len(control) > 1
        PROVE  control[Len(control) - 1].kind = "block"
    <3>1. m > 0 /\ outer # <<>>
      BY <1>8, <1>10, <1>12, <2>2
    <3>2. control[m].kind = "block" \/ control[m].stage = "body"
      BY <1>1, <1>8, <3>1 DEF Under
    <3>3. QED
      BY <1>12, <1>13, <1>15, <3>1, <3>2
  <2>3. QED
    BY <1>1, <1>6, <1>7, <1>9, <1>11, <2>1, <2>2, Pops
<1>16. QED
  BY <1>14, <1>15

(* A loop remembers what is before it in its list, if anything is.          *)
LEMMA Whiles ==
    ASSUME JumpsInv, CallsInv', While
    PROVE  JumpsInv'
<1> DEFINE f == [Frame("while", "condition", NULL) EXCEPT !.before = LastInstruction, !.first = NextNumber]
<1>1. /\ control' = Append(control, f) /\ UNCHANGED <<phase, instructions, lists>>
      /\ control # <<>> /\ Last(control).kind = "block"
  BY DEF While, StatementStart, InBlock, Innermost
<1>2. /\ LastInstruction \in Nat /\ NextNumber = Len(instructions) + 1 /\ Len(instructions) \in Nat
      /\ NextNumber \in Nat
  BY Here
<1>3. /\ f \in Frames /\ f.kind = "while" /\ f.stage = "condition"
      /\ f.before = LastInstruction /\ f.first = NextNumber
  BY <1>2 DEF Frame, Frames, Kinds, NULL
<1> HIDE DEF f
<1>4. Quiet
  BY <1>1, HereOnTop DEF Quiet
<1>5. ListsBelow /\ NewItems(0)
  BY <1>1, SameBelow, Unwritten DEF JumpsInv, CallsInv
<1>6. Top(f, instructions')
  BY <1>3 DEF Top
<1>7. Sits(f, Ends[Len(lists) - 1], Len(instructions'))
  <2>1. LastInstruction # NULL =>
          LastInstruction = Len(instructions) /\ Ends[Len(lists) - 1] < Len(instructions)
    BY Here
  <2>2. QED
    BY <1>1, <1>2, <1>3, <2>1 DEF Sits, Follows
<1>8. Under(control[Len(control)], f, Ends[Len(lists)], instructions')
  BY <1>1, HereOnTop DEF Under
<1>9. QED
  BY <1>1, <1>3, <1>4, <1>5, <1>6, <1>7, <1>8, Pushes

(* if, else-if, and their conditions.                                       *)
LEMMA Ifs ==
    ASSUME JumpsInv, CallsInv', If
    PROVE  JumpsInv'
<1> DEFINE f == Frame("if", "condition", NULL)
<1>1. /\ control' = Append(control, f) /\ UNCHANGED <<phase, instructions, lists>>
      /\ control # <<>> /\ Last(control).kind = "block"
  BY DEF If, StatementStart, InBlock, Innermost
<1>2. f \in Frames /\ f.kind = "if" /\ f.stage = "condition"
  BY DEF Frame, Frames, Kinds, NULL
<1> HIDE DEF f
<1>3. Quiet
  BY <1>1, HereOnTop DEF Quiet
<1>4. ListsBelow /\ NewItems(0)
  BY <1>1, SameBelow, Unwritten DEF JumpsInv, CallsInv
<1>5. Top(f, instructions') /\ Sits(f, Ends[Len(lists) - 1], Len(instructions'))
  BY <1>2 DEF Top, Sits
<1>6. Under(control[Len(control)], f, Ends[Len(lists)], instructions')
  BY <1>1, HereOnTop DEF Under
<1>7. QED
  BY <1>1, <1>2, <1>3, <1>4, <1>5, <1>6, Pushes

LEMMA ElseIfs ==
    ASSUME JumpsInv, CallsInv', ElseIf
    PROVE  JumpsInv'
<1> DEFINE f == Frame("if", "condition", NULL)
           number == Last(control).jump
<1>1. /\ control' = Append(control, f) /\ UNCHANGED <<phase, lists>>
      /\ instructions' = [instructions EXCEPT ![number].role = "elseif"]
      /\ control # <<>> /\ Last(control).kind = "else"
  BY DEF ElseIf, Innermost
<1>2. f \in Frames /\ f.kind = "if" /\ f.stage = "condition"
  BY DEF Frame, Frames, Kinds, NULL
<1>3. number \in Numbers /\ instructions[number].role \in Branches
  BY <1>1, OwnJump DEF Jumping, JumpsInv
<1> HIDE DEF f
<1>4. Quiet
  BY <1>1, HereOnTop DEF Quiet
<1>5. ListsBelow
  BY <1>1, SameBelow DEF JumpsInv, CallsInv
<1>6. NewItems(number) /\ number \in DOMAIN instructions' /\ instructions'[number].role = "elseif"
  BY <1>1, <1>3, MarkedItems
<1>7. Top(f, instructions') /\ Sits(f, Ends[Len(lists) - 1], Len(instructions'))
  BY <1>2 DEF Top, Sits
<1>8. Under(control[Len(control)], f, Ends[Len(lists)], instructions')
  BY <1>1, <1>2, <1>6, HereOnTop DEF Under, Marked
<1>9. QED
  BY <1>1, <1>2, <1>4, <1>5, <1>6, <1>7, <1>8, Pushes

LEMMA Placeholders ==
    ASSUME JumpsInv, CallsInv', ConditionalJumpPlaceholder
    PROVE  JumpsInv'
<1> DEFINE g == Last(control)
           new == Instruction(g.kind, TRUE, 0, NULL, NULL)
           one == <<new>>
           f == [g EXCEPT !.stage = "body", !.jump = NextNumber]
           n == Len(control)
<1>1. /\ Add(one) /\ control' = Append(Front(control), f) /\ phase' = phase
      /\ control # <<>> /\ g.kind \in {"if", "while"} /\ g.stage = "condition"
  BY DEF ConditionalJumpPlaceholder, Replace, InCondition, Innermost
<1>2. /\ g \in Frames /\ g = control[n] /\ n \in Nat /\ n >= 1 /\ control \in Seq(Frames)
      /\ Len(instructions) \in Nat /\ NextNumber = Len(instructions) + 1 /\ NextNumber \in Nat
      /\ Sits(g, Ends[Len(lists) - 1], Len(instructions))
      /\ Ends[Len(lists) - 1] \in Nat
  BY <1>1, Here, HereOnTop
<1>3. /\ f \in Frames /\ f.kind = g.kind /\ f.stage = "body" /\ f.jump = NextNumber
      /\ f.before = g.before /\ f.first = g.first
  BY <1>2 DEF Frames
<1>4. new.role = g.kind /\ new.relative = TRUE /\ new.target \in Nat
  BY DEF Instruction, NULL
<1>5. g.before \in Nat
  BY <1>2 DEF Frames
<1> HIDE DEF g, new, f
<1>6. one \in Seq({new}) /\ Len(one) = 1 /\ one[1] = new
  OBVIOUS
<1> HIDE DEF one
<1>7. control'[n] = f /\ Len(control') = n
  BY <1>1, <1>2, <1>3, Swapped
<1>8. Closed(new, Len(instructions) + 1, Len(instructions) + 1, control')
  <2>1. Jumping(f)
    BY <1>1, <1>3 DEF Jumping
  <2>2. Owned(control', Len(instructions) + 1)
    BY <1>2, <1>3, <1>7, <2>1 DEF Owned
  <2>3. QED
    BY <1>1, <1>4, <2>2 DEF Closed
<1>9. instructions' = instructions \o one
  BY <1>1 DEF Add
<1>10. NewItems(0) /\ Len(instructions') = Len(instructions) + 1
  <2>1. \A j \in 1..Len(one) :
           /\ one[j].target \in Nat
           /\ Closed(one[j], Len(instructions) + j, Len(instructions) + Len(one), control')
    BY <1>4, <1>6, <1>8
  <2>2. QED
    BY <1>6, <1>9, <2>1, Appended
<1>11. ListsBelow
  <2>1. lists' = [lists EXCEPT ![Len(lists)] = @ \o [i \in DOMAIN one |-> Len(instructions) + i]]
    BY <1>1 DEF Add
  <2>2. QED
    BY <2>1, AddBelow DEF JumpsInv, CallsInv
<1>12. Quiet
  BY <1>1, HereOnTop DEF Quiet
<1>13. Top(f, instructions')
  BY <1>2, <1>3, <1>10 DEF Top
<1>14. Sits(f, Ends[Len(lists) - 1], Len(instructions'))
  BY <1>2, <1>3, <1>5, <1>10 DEF Sits, Follows
<1>15. ~Jumping(g)
  BY <1>1 DEF Jumping
<1>16. QED
  BY <1>1, <1>3, <1>10, <1>11, <1>12, <1>13, <1>14, <1>15, Swaps DEF g

(* The jump of a complete statement is patched by just the distance.        *)
LEMMA Distance ==
    ASSUME JumpsInv, control # <<>>, Last(control).kind # "block", Last(control).stage = "parsed"
    PROVE  LET f == Last(control)
           IN  /\ Jumping(f) /\ f.jump \in Numbers /\ instructions[f.jump].role \in Branches
               /\ f.size \in Nat /\ f.taken \in Nat /\ f.jump \in Nat
               /\ NextNumber \in Nat
               /\ \/ \A k \in Nat : f.size + 1 + k = (NextNumber + k) - f.jump
                  \/ f.kind = "else" /\ instructions[f.jump].role = "elseif"
<1> DEFINE f == Last(control)
<1>1. Jumping(f)
  BY DEF Jumping
<1>2. f \in Frames /\ Top(f, instructions) /\ Len(instructions) \in Nat /\ NextNumber = Len(instructions) + 1
  BY Here, HereOnTop
<1>3. f.jump \in Numbers /\ instructions[f.jump].role \in Branches
  BY <1>1, OwnJump DEF JumpsInv
<1>4. f.size \in Nat /\ f.taken \in Nat /\ f.jump \in Nat
  BY <1>2 DEF Frames
<1>5. \/ f.jump + f.size = Len(instructions)
      \/ f.kind = "else" /\ instructions[f.jump].role = "elseif"
  BY <1>2 DEF Top, Marked
<1> HIDE DEF f
<1>6. f.jump + f.size = Len(instructions) => \A k \in Nat : f.size + 1 + k = (NextNumber + k) - f.jump
  BY <1>2, <1>4
<1>7. \/ \A k \in Nat : f.size + 1 + k = (NextNumber + k) - f.jump
      \/ f.kind = "else" /\ instructions[f.jump].role = "elseif"
  BY <1>5, <1>6
<1>8. NextNumber \in Nat
  BY <1>2
<1>9. QED
  BY <1>1, <1>3, <1>4, <1>7, <1>8 DEF f

(* Statements are complete.                                                 *)
LEMMA SingleIfs ==
    ASSUME JumpsInv, CallsInv', SingleIfStatement
    PROVE  JumpsInv'
<1> DEFINE f == Last(control)
<1>1. /\ control # <<>> /\ f.kind = "if" /\ f.stage = "parsed"
      /\ instructions' = Patch(f.jump, f.size + 1, NextNumber)
      /\ Reduced(Front(control), f.size + 1) /\ UNCHANGED <<phase, lists>>
  BY DEF SingleIfStatement, Innermost
<1>2. /\ f.jump \in Numbers /\ instructions[f.jump].role \in Branches
      /\ f.size \in Nat /\ f.jump \in Nat /\ NextNumber \in Nat
      /\ \A k \in Nat : f.size + 1 + k = (NextNumber + k) - f.jump
  BY <1>1, Distance
<1> HIDE DEF f
<1>3. f.size + 1 = NextNumber - f.jump /\ f.size + 1 \in Nat
  BY <1>2
<1>4. NewItems(f.jump)
  BY <1>1, <1>2, <1>3, PatchedItems DEF Right
<1>5. Quiet
  BY <1>1, HereOnTop DEF Quiet
<1>6. QED
  BY <1>1, <1>3, <1>4, <1>5, Reduces DEF f

LEMMA IfElses ==
    ASSUME JumpsInv, CallsInv', IfElseStatement
    PROVE  JumpsInv'
<1> DEFINE f == Last(control)
<1>1. /\ control # <<>> /\ f.kind = "else" /\ f.stage = "parsed"
      /\ instructions' = Patch(f.jump, f.size + 1, NextNumber)
      /\ Reduced(Front(control), f.taken + f.size + 1) /\ UNCHANGED <<phase, lists>>
  BY DEF IfElseStatement, Innermost
<1>2. /\ f.jump \in Numbers /\ instructions[f.jump].role \in Branches
      /\ f.size \in Nat /\ f.taken \in Nat /\ f.jump \in Nat /\ NextNumber \in Nat
      /\ \/ \A k \in Nat : f.size + 1 + k = (NextNumber + k) - f.jump
         \/ instructions[f.jump].role = "elseif"
  BY <1>1, Distance
<1> HIDE DEF f
<1>3. f.size + 1 = NextNumber - f.jump \/ instructions[f.jump].role = "elseif"
  BY <1>2
<1>4. NewItems(f.jump)
  BY <1>1, <1>2, <1>3, PatchedItems DEF Right
<1>5. Quiet
  BY <1>1, HereOnTop DEF Quiet
<1>6. f.taken + f.size + 1 \in Nat
  BY <1>2
<1>7. QED
  BY <1>1, <1>4, <1>5, <1>6, Reduces DEF f

LEMMA TakenIfs ==
    ASSUME JumpsInv, CallsInv', TakenIfStatement
    PROVE  JumpsInv'
<1> DEFINE g == Last(control)
           new == Instruction("else", TRUE, 0, NULL, NULL)
           f == [Frame("else", "body", NextNumber) EXCEPT !.taken = g.size + 1]
           n == Len(control)
<1>1. /\ control # <<>> /\ g.kind = "if" /\ g.stage = "parsed"
      /\ instructions' = Append(Patch(g.jump, g.size + 2, NextNumber + 1), new)
      /\ lists' = [lists EXCEPT ![Len(lists)] = Append(@, NextNumber)]
      /\ control' = Append(Front(control), f) /\ phase' = phase
  BY DEF TakenIfStatement, Innermost, Replace
<1>2. /\ g.jump \in Numbers /\ instructions[g.jump].role \in Branches
      /\ g.size \in Nat /\ g.jump \in Nat /\ NextNumber \in Nat
      /\ \A k \in Nat : g.size + 1 + k = (NextNumber + k) - g.jump
  BY <1>1, Distance
<1>3. n \in Nat /\ n >= 1 /\ control \in Seq(Frames)
  BY <1>1, Here, HereOnTop
<1> HIDE DEF g
<1>4. g.size + 2 = (NextNumber + 1) - g.jump /\ NextNumber + 1 \in Nat
  BY <1>2
<1>5. f \in Frames /\ f.kind = "else" /\ f.stage = "body" /\ f.jump = NextNumber
  <2>1. g.size + 1 \in Nat
    BY <1>2
  <2>2. QED
    BY <1>2, <2>1 DEF Frame, Frames, Kinds, NULL
<1>6. new.role = "else" /\ new.relative = TRUE /\ new.target \in Nat
  BY DEF Instruction, NULL
<1> HIDE DEF f, new
<1>7. control'[n] = f /\ Len(control') = n
  BY <1>1, <1>3, <1>5, Swapped
<1>8. Jumping(f)
  BY <1>5 DEF Jumping
<1>9. Closed(new, NextNumber, NextNumber, control')
  <2>1. Owned(control', NextNumber)
    BY <1>3, <1>5, <1>7, <1>8 DEF Owned
  <2>2. QED
    BY <1>6, <2>1 DEF Closed
<1>10. NewItems(g.jump) /\ Len(instructions') = NextNumber
  BY <1>1, <1>2, <1>4, <1>6, <1>9, PatchedAndAdded DEF Right
<1>11. ListsBelow
  BY <1>1, AddBelow DEF JumpsInv, CallsInv
<1>12. Quiet
  BY <1>1, HereOnTop DEF Quiet
<1>13. Top(f, instructions') /\ Sits(f, Ends[Len(lists) - 1], Len(instructions'))
  BY <1>5, <1>10 DEF Top, Sits
<1>14. QED
  BY <1>1, <1>5, <1>10, <1>11, <1>12, <1>13, Swaps DEF g

LEMMA LoopsBack ==
    ASSUME JumpsInv, CallsInv', WhileStatement
    PROVE  JumpsInv'
<1> DEFINE f == Last(control)
           role == IF f.before = NULL THEN "first_loop" ELSE "loop"
           back == Instruction(role, FALSE, 0, FirstAfter(f.before), f.first)
           N == Len(instructions)
           n == Len(control)
<1>1. /\ control # <<>> /\ f.kind = "while" /\ f.stage = "parsed"
      /\ instructions' = Append(Patch(f.jump, f.size + 2, NextNumber + 1), back)
      /\ lists' = [lists EXCEPT ![Len(lists)] = Append(@, NextNumber)]
      /\ control' = Front(control) /\ phase' = phase
  BY DEF WhileStatement, Innermost
<1>2. /\ f.jump \in Numbers /\ instructions[f.jump].role \in Branches
      /\ f.size \in Nat /\ f.jump \in Nat /\ NextNumber \in Nat
      /\ \A k \in Nat : f.size + 1 + k = (NextNumber + k) - f.jump
  BY <1>1, Distance
<1>3. /\ n \in Nat /\ n >= 1 /\ control \in Seq(Frames) /\ N \in Nat /\ NextNumber = N + 1
      /\ Sits(f, Ends[Len(lists) - 1], N) /\ Ends[Len(lists) - 1] \in Nat /\ f \in Frames
  BY <1>1, Here, HereOnTop
<1>4. f.before \in Nat /\ f.first \in Nat
  BY <1>3 DEF Frames
<1>5. /\ back.role = role /\ back.relative = FALSE /\ back.target = FirstAfter(f.before)
      /\ back.goal = f.first
  BY DEF Instruction
<1> HIDE DEF back
<1>6. Closed(back, NextNumber, NextNumber, control') /\ back.target \in Nat
  <2>1. CASE f.before = NULL
    <3>1. FirstAfter(f.before) = 0
      BY <2>1 DEF FirstAfter, NULL
    <3>2. back.role = "first_loop"
      BY <1>5, <2>1
    <3>3. QED
      BY <1>5, <3>1, <3>2 DEF Closed
  <2>2. CASE f.before # NULL
    <3>1. /\ f.first = f.before + 1 /\ Ends[Len(lists) - 1] < f.before
          /\ f.before < f.jump /\ f.jump <= N
      BY <1>1, <1>3, <2>2 DEF Sits, Follows
    <3> HIDE DEF f
    <3>2. f.before < N
      <4>1. f.before \in Nat /\ f.jump \in Nat /\ N \in Nat /\ f.before < f.jump /\ f.jump <= N
        BY <1>2, <1>3, <1>4, <3>1
      <4> HIDE DEF N
      <4>2. QED
        BY <4>1
    <3>3. FirstAfter(f.before) = f.before + 1
      BY <1>4, <3>1, <3>2, NextInList
    <3>4. f.before + 1 \in Nat /\ f.before + 1 \in 1..NextNumber
      BY <1>3, <1>4, <3>2
    <3>5. back.role = "loop"
      BY <1>5, <2>2
    <3>6. Aimed(back, NextNumber)
      BY <1>5, <3>1, <3>3, <3>4 DEF Aimed
    <3>7. QED
      BY <1>5, <3>3, <3>4, <3>5, <3>6 DEF Closed
  <2>3. QED
    BY <2>1, <2>2
<1>7. f.size + 2 = (NextNumber + 1) - f.jump /\ NextNumber + 1 \in Nat
  <2> HIDE DEF f
  <2>1. QED
    BY <1>2
<1>8. NewItems(f.jump)
  BY <1>1, <1>2, <1>6, <1>7, PatchedAndAdded DEF Right
<1>9. ListsBelow
  BY <1>1, AddBelow DEF JumpsInv, CallsInv
<1>10. Quiet
  BY <1>1, HereOnTop DEF Quiet
<1>11. ASSUME n > 1
       PROVE  control[n - 1].kind = "block"
  <2>1. Under(control[n - 1], control[n], Ends[Depth(control, n - 1)], instructions) /\ f = control[n]
    BY <1>1, <1>3, <1>11, HereOnTop
  <2>2. QED
    BY <1>1, <2>1 DEF Under
<1>12. QED
  BY <1>1, <1>8, <1>9, <1>10, <1>11, Pops

LEMMA StatementsKeepJumps ==
    ASSUME JumpsInv, Statements
    PROVE  JumpsInv'
<1>1. CallsInv'
  BY StatementsKeepCalls DEF JumpsInv
<1>2. PhaseInv
  BY DEF JumpsInv, CallsInv
<1>3. CASE Code
  <2> DEFINE one == <<Plain>>
  <2>1. one \in Seq({Plain}) /\ \A j \in 1..Len(one) : one[j] = Plain
    OBVIOUS
  <2>2. Add(one) /\ control' = control /\ phase' = phase /\ Emitting
    BY <1>3 DEF Code
  <2> HIDE DEF one
  <2>3. \A j \in 1..Len(one) : Loose(one[j])
    BY <2>1, LoosePlain
  <2>4. /\ Quiet
        /\ control = <<>> \/ Last(control).kind = "block" \/ Last(control).stage = "condition"
    BY <1>2, <2>2 DEF Emitting, InBlock, InCondition, Innermost, PhaseInv, Quiet
  <2>5. QED
    BY <1>1, <2>1, <2>2, <2>3, <2>4, Emits
<1>4. CASE \E f \in FunctionNames : FunctionCall(f)
  <2>1. PICK entry \in Numbers :
          /\ Add(<<Instruction("return_address", FALSE, ProgramAddress + 2, NULL, NextNumber + 2),
                   Instruction("call", FALSE, 0, entry, entry)>>)
          /\ UNCHANGED <<phase, control, functions>>
    BY <1>4 DEF FunctionCall
  <2> DEFINE a == Instruction("return_address", FALSE, ProgramAddress + 2, NULL, NextNumber + 2)
             b == Instruction("call", FALSE, 0, entry, entry)
             both == <<a, b>>
  <2>2. /\ Quiet
        /\ control = <<>> \/ Last(control).kind = "block" \/ Last(control).stage = "condition"
    BY <1>2, <1>4, <2>1 DEF FunctionCall, Emitting, InBlock, InCondition, Innermost, PhaseInv, Quiet
  <2>3. entry \in Nat
    BY Here
  <2>4. Loose(a) /\ Loose(b)
    BY <2>3 DEF Loose, Instruction, NULL
  <2>5. Add(both) /\ control' = control
    BY <2>1
  <2> HIDE DEF a, b
  <2>6. both \in Seq({a, b}) /\ Len(both) = 2 /\ both[1] = a /\ both[2] = b
    OBVIOUS
  <2> HIDE DEF both
  <2>7. \A j \in 1..Len(both) : Loose(both[j])
    BY <2>4, <2>6
  <2>8. QED
    BY <1>1, <2>2, <2>5, <2>6, <2>7, Emits
<1>5. QED
  BY <1>1, <1>3, <1>4, Ifs, Whiles, Placeholders, BeginsBlock, EndsABlock, SingleIfs, TakenIfs, ElseIfs,
     IfElses, LoopsBack DEF Statements

LEMMA Joined ==
    ASSUME NEW S, NEW s \in Seq(S), NEW t \in Seq(S)
    PROVE  /\ Len(s \o t) = Len(s) + Len(t) /\ DOMAIN (s \o t) = 1..(Len(s) + Len(t))
           /\ \A i \in 1..Len(s) : (s \o t)[i] = s[i]
           /\ \A j \in 1..Len(t) : (s \o t)[Len(s) + j] = t[j]
<1>1. Len(s) \in Nat /\ Len(t) \in Nat
  OBVIOUS
<1>2. QED
  BY <1>1

(* main_jump gets its target; nothing else is a jump of a statement.        *)
LEMMA MainKeepsJumps ==
    ASSUME JumpsInv, CallsInv', BeginMainMethod
    PROVE  JumpsInv'
<1> DEFINE N == Len(instructions)
           p == [i \in Numbers |-> IF instructions[i].role = "start"
                              THEN [instructions[i] EXCEPT !.target = NextNumber, !.goal = NextNumber]
                              ELSE instructions[i]]
           two == <<Plain, Plain>>
           M == Len(instructions')
<1>1. /\ phase = "toplevel" /\ phase' = "main_head"
      /\ instructions' = p \o two /\ control' = control
  BY DEF BeginMainMethod
<1>2. /\ control = <<>> /\ ItemsIn(instructions) /\ TargetsIn(instructions) /\ Listed(instructions)
      /\ ClosedIn(instructions, control)
  BY <1>1 DEF JumpsInv, CallsInv, PhaseInv, LayoutInv, ListsInv
<1>3. N \in Nat /\ Numbers = 1..N /\ NextNumber = N + 1 /\ DOMAIN instructions = 1..N
  BY <1>2 DEF Listed, Numbers, NextNumber
<1>4. ASSUME NEW i \in 1..N
      PROVE  p[i].target \in Nat /\ Closed(p[i], i, N + 2, <<>>)
  <2> DEFINE x == instructions[i]
  <2>1. IsItem(x) /\ x.target \in Nat /\ Closed(x, i, N, <<>>)
    BY <1>2, <1>3 DEF ItemsIn, TargetsIn, ClosedIn
  <2>2. CASE x.role = "start"
    <3>1. p[i] = [x EXCEPT !.target = NextNumber, !.goal = NextNumber]
      BY <1>3, <2>2
    <3>2. p[i].role = "start" /\ p[i].target = N + 1
      BY <1>3, <2>1, <2>2, <3>1 DEF IsItem, Instruction
    <3> HIDE DEF p
    <3>3. QED
      BY <1>3, <3>2 DEF Closed
  <2>3. CASE x.role # "start"
    <3>1. p[i] = x
      BY <1>3, <2>3
    <3>2. \A g \in 1..N : g \in 1..(N + 2)
      BY <1>3
    <3> HIDE DEF p, x
    <3>3. QED
      BY <2>1, <3>1, <3>2 DEF Closed, Aimed
  <2>4. QED
    BY <2>2, <2>3
<1>5. /\ Listed(p) /\ Len(p) = N
  <2>1. p = [i \in DOMAIN instructions |-> p[i]]
    BY DEF Numbers
  <2> HIDE DEF p
  <2>2. QED
    BY <1>2, <2>1, ListedRewritten
<1> DEFINE S == {p[i] : i \in DOMAIN p} \cup {Plain}
<1>6. p \in Seq(S) /\ two \in Seq(S) /\ Len(two) = 2 /\ two[1] = Plain /\ two[2] = Plain
  <2> HIDE DEF p
  <2>1. p \in Seq(S)
    BY <1>5 DEF Listed
  <2>2. Plain \in S
    OBVIOUS
  <2> HIDE DEF S
  <2>3. QED
    BY <2>1, <2>2
<1> HIDE DEF p, S, two
<1>7. /\ M = N + 2 /\ DOMAIN instructions' = 1..(N + 2)
      /\ \A i \in 1..N : instructions'[i] = p[i]
      /\ instructions'[N + 1] = Plain /\ instructions'[N + 2] = Plain
  <2>1. /\ Len(p \o two) = Len(p) + Len(two) /\ DOMAIN (p \o two) = 1..(Len(p) + Len(two))
        /\ \A i \in 1..Len(p) : (p \o two)[i] = p[i]
        /\ \A j \in 1..Len(two) : (p \o two)[Len(p) + j] = two[j]
    <3>1. p \in Seq(S) /\ two \in Seq(S)
      BY <1>6
    <3>2. QED
      BY <3>1, Joined
  <2>2. 1 \in 1..Len(two) /\ 2 \in 1..Len(two)
    BY <1>6
  <2>3. QED
    BY <1>1, <1>5, <1>6, <2>1, <2>2
<1>8. ASSUME NEW i \in DOMAIN instructions'
      PROVE  instructions'[i].target \in Nat /\ Closed(instructions'[i], i, M, control')
  <2>1. i \in 1..N \/ i = N + 1 \/ i = N + 2
    BY <1>3, <1>7
  <2>2. CASE i \in 1..N
    BY <1>1, <1>2, <1>4, <1>7, <2>2
  <2>3. CASE i = N + 1 \/ i = N + 2
    <3>1. instructions'[i] = Plain
      BY <1>7, <2>3
    <3>2. QED
      BY <3>1, LoosePlain, LooseIsClosed
  <2>4. QED
    BY <2>1, <2>2, <2>3
<1>9. ClosedIn(instructions', control') /\ TargetsIn(instructions')
  BY <1>8 DEF ClosedIn, TargetsIn
<1>10. Standing(control', Ends', instructions')
  BY <1>1, <1>2 DEF Standing
<1>11. Exact({"if", "else", "while", "loop"})'
  BY <1>1 DEF Exact
<1>12. QED
  BY <1>9, <1>10, <1>11 DEF JumpsInv

(* Addresses are numbers less one, so a right distance gives a right jump.  *)
LEMMA ResolvingKeepsJumps ==
    ASSUME JumpsInv, CallsInv', ResolveReferences
    PROVE  JumpsInv'
<1>1. /\ phase = "parsed" /\ phase' = "resolved" /\ UNCHANGED <<lists, counts, control, functions>>
      /\ instructions' =
           [i \in Numbers |->
               IF Opcode(instructions[i].role) = "other" THEN instructions[i]
               ELSE [instructions[i] EXCEPT !.value = IF instructions[i].relative
                                                      THEN Address(i) + @
                                                      ELSE Address(instructions[i].target)]]
  BY DEF ResolveReferences
<1>2. /\ control = <<>> /\ ItemsIn(instructions) /\ ClosedIn(instructions, control) /\ Listed(instructions)
      /\ TargetsIn(instructions) /\ LayoutInv
  BY <1>1 DEF JumpsInv, CallsInv, PhaseInv, LayoutInv, ListsInv
<1>3. Numbers = 1..Len(instructions) /\ Len(instructions) \in Nat /\ DOMAIN instructions' = Numbers
  BY <1>1, <1>2 DEF Listed, Numbers
<1>4. ASSUME NEW i \in Numbers
      PROVE  /\ instructions'[i].target \in Nat
             /\ instructions'[i].role \in {"if", "else", "while", "loop"}
                  => instructions'[i].value = instructions'[i].goal - 1
  <2> DEFINE x == instructions[i]
             value == IF x.relative THEN Address(i) + x.value ELSE Address(x.target)
  <2>1. IsItem(x) /\ Closed(x, i, Len(instructions), <<>>) /\ x.target \in Nat
    BY <1>2 DEF ItemsIn, ClosedIn, TargetsIn, Numbers
  <2>2. CASE Opcode(x.role) = "other"
    <3>1. instructions'[i] = x
      BY <1>1, <2>2
    <3>2. x.role \notin {"if", "else", "while", "loop"}
      BY <2>2 DEF Opcode
    <3>3. QED
      BY <2>1, <3>1, <3>2
  <2>3. CASE Opcode(x.role) # "other"
    <3>1. instructions'[i] = [x EXCEPT !.value = value]
      BY <1>1, <2>3
    <3> HIDE DEF value
    <3>2. /\ instructions'[i].role = x.role /\ instructions'[i].goal = x.goal
          /\ instructions'[i].value = value /\ instructions'[i].target = x.target
      BY <2>1, <3>1 DEF IsItem, Instruction
    <3>3. ASSUME x.role \in {"if", "else", "while"}
          PROVE  value = x.goal - 1
      <4>1. ~Owned(<<>>, i)
        BY DEF Owned
      <4>2. x.relative = TRUE /\ x.value = x.goal - i
        BY <2>1, <3>3, <4>1 DEF Closed
      <4>3. Address(i) = i - 1
        BY <1>2, AddressInRoot
      <4>4. x.goal \in Nat /\ i \in Nat
        BY <1>3, <2>1 DEF IsItem
      <4>5. value = (i - 1) + (x.goal - i)
        BY <4>2, <4>3 DEF value
      <4> HIDE DEF x
      <4>6. QED
        BY <4>4, <4>5
    <3>4. ASSUME x.role = "loop"
          PROVE  value = x.goal - 1
      <4>1. Aimed(x, Len(instructions))
        BY <2>1, <3>4 DEF Closed
      <4>2. x.goal \in Numbers
        BY <1>3, <4>1 DEF Aimed
      <4>3. Address(x.goal) = x.goal - 1
        BY <1>2, <4>2, AddressInRoot
      <4>4. QED
        BY <4>1, <4>3 DEF Aimed, value
    <3>5. QED
      BY <2>1, <3>2, <3>3, <3>4
  <2>4. QED
    BY <2>2, <2>3
<1>5. Exact({"if", "else", "while", "loop"})' /\ TargetsIn(instructions')
  BY <1>3, <1>4 DEF Exact, TargetsIn, Numbers
<1>6. Standing(control', Ends', instructions')
  BY <1>1, <1>2 DEF Standing
<1>7. QED
  BY <1>1, <1>5, <1>6 DEF JumpsInv

LEMMA TopLevelKeepsJumps ==
    ASSUME JumpsInv, TopLevel
    PROVE  JumpsInv'
<1>1. CallsInv'
  BY TopLevelKeepsCalls DEF JumpsInv
<1>2. PhaseInv
  BY DEF JumpsInv, CallsInv
<1>3. CASE ProgramStart
  <2> DEFINE a == Instruction("start", FALSE, 0, NULL, NULL)
             one == <<a>>
  <2>1. Add(one) /\ control' = control /\ phase = "globals" /\ phase' = "toplevel"
    BY <1>3 DEF ProgramStart
  <2>2. Loose(a)
    BY DEF Loose, Instruction, NULL
  <2> HIDE DEF a
  <2>3. one \in Seq({a}) /\ Len(one) = 1 /\ one[1] = a
    OBVIOUS
  <2> HIDE DEF one
  <2>4. (\A j \in 1..Len(one) : Loose(one[j])) /\ Quiet /\ control = <<>>
    BY <1>2, <2>1, <2>2, <2>3 DEF Quiet, PhaseInv
  <2>5. QED
    BY <1>1, <2>1, <2>3, <2>4, Emits
<1>4. CASE \E f \in FunctionNames : BeginFunctionDefinition(f)
  <2> DEFINE two == <<Plain, Plain>>
  <2>1. Add(two) /\ control' = control /\ phase = "toplevel" /\ phase' = "function_head"
    BY <1>4 DEF BeginFunctionDefinition
  <2>2. two \in Seq({Plain}) /\ \A j \in 1..Len(two) : two[j] = Plain
    OBVIOUS
  <2> HIDE DEF two
  <2>3. (\A j \in 1..Len(two) : Loose(two[j])) /\ Quiet /\ control = <<>>
    BY <1>2, <2>1, <2>2, LoosePlain DEF Quiet, PhaseInv
  <2>4. QED
    BY <1>1, <2>1, <2>2, <2>3, Emits
<1>5. CASE EndFunctionDefinition
  <2> DEFINE one == <<Plain>>
  <2>1. Add(one) /\ control' = control /\ phase = "function_tail" /\ phase' = "toplevel"
    BY <1>5 DEF EndFunctionDefinition
  <2>2. one \in Seq({Plain}) /\ \A j \in 1..Len(one) : one[j] = Plain
    OBVIOUS
  <2> HIDE DEF one
  <2>3. (\A j \in 1..Len(one) : Loose(one[j])) /\ Quiet /\ control = <<>>
    BY <1>2, <2>1, <2>2, LoosePlain DEF Quiet, PhaseInv
  <2>4. QED
    BY <1>1, <2>1, <2>2, <2>3, Emits
<1>6. CASE BeginMainMethod
  BY <1>1, <1>6, MainKeepsJumps
<1>7. CASE EndMainMethod
  <2>1. /\ phase = "main_tail" /\ phase' = "parsed" /\ UNCHANGED <<instructions, lists, control>>
    BY <1>7 DEF EndMainMethod
  <2>2. ClosedIn(instructions', control') /\ TargetsIn(instructions') /\ Ends' = Ends
    BY <2>1 DEF JumpsInv, Ends
  <2>3. Standing(control', Ends', instructions') /\ Exact({"if", "else", "while", "loop"})'
    BY <2>1, <2>2 DEF JumpsInv, Exact
  <2>4. QED
    BY <1>1, <2>2, <2>3 DEF JumpsInv
<1>8. CASE ResolveReferences
  BY <1>1, <1>8, ResolvingKeepsJumps
<1>9. QED
  BY <1>3, <1>4, <1>5, <1>6, <1>7, <1>8 DEF TopLevel

LEMMA JumpsStart ==
    ASSUME Init
    PROVE  JumpsInv
<1>1. phase = "globals" /\ instructions = <<>> /\ control = <<>>
  BY DEF Init
<1>2. Standing(control, Ends, instructions)
  BY <1>1 DEF Standing
<1>3. ClosedIn(instructions, control) /\ TargetsIn(instructions)
  BY <1>1 DEF ClosedIn, TargetsIn
<1>4. Exact({"if", "else", "while", "loop"})
  BY <1>1 DEF Exact
<1>5. QED
  BY <1>2, <1>3, <1>4, CallsStart DEF JumpsInv

LEMMA JumpsStep ==
    ASSUME JumpsInv, [Next]_vars
    PROVE  JumpsInv'
<1>1. CASE Statements
  BY <1>1, StatementsKeepJumps
<1>2. CASE TopLevel
  BY <1>2, TopLevelKeepsJumps
<1>3. CASE Finished \/ UNCHANGED vars
  <2>1. UNCHANGED vars
    BY <1>3 DEF Finished
  <2>2. CallsInv'
    BY CallsStep DEF JumpsInv
  <2>3. phase' = phase /\ instructions' = instructions /\ control' = control /\ lists' = lists
    BY <2>1 DEF vars
  <2>4. Ends' = Ends /\ Exact({"if", "else", "while", "loop"})'
    BY <2>3 DEF JumpsInv, Exact, Ends, Numbers
  <2>5. QED
    BY <2>2, <2>3, <2>4 DEF JumpsInv
<1>4. QED
  BY <1>1, <1>2, <1>3 DEF Next

LEMMA JumpsAlways == Spec => []JumpsInv
BY JumpsStart, JumpsStep, PTL DEF Spec

(* Every condition of an if or a while, once resolved, goes to its else     *)
(* part or just behind its statement, however much was nested in between.   *)
THEOREM ConditionsAreExact == Spec => []ConditionsExact
<1>1. JumpsInv => ConditionsExact
  BY DEF JumpsInv, ConditionsExact, Exact
<1>2. QED
  BY <1>1, JumpsAlways, PTL

(* The jump that ends a taken branch goes just behind its else block.       *)
THEOREM ElseJumpsAreExact == Spec => []ElseJumpsExact
<1>1. JumpsInv => ElseJumpsExact
  BY DEF JumpsInv, ElseJumpsExact, Exact
<1>2. QED
  BY <1>1, JumpsAlways, PTL

(* A loop with code before it in its block goes back to the first           *)
(* instruction of its condition.                                            *)
THEOREM LaterLoopsAreExact == Spec => []LaterLoopsExact
<1>1. JumpsInv => LaterLoopsExact
  BY DEF JumpsInv, LaterLoopsExact, Exact
<1>2. QED
  BY <1>1, JumpsAlways, PTL

LEMMA LayoutTypes ==
    ASSUME JumpsInv
    PROVE  TypeOK
<1> DEFINE N == Len(instructions)
           K == Len(lists)
<1>1. /\ ItemsIn(instructions) /\ TargetsIn(instructions) /\ PhaseInv
      /\ control \in Seq(Frames) /\ functions \in Seq([name : FunctionNames, entry : Nat])
      /\ EntriesIn(functions, N) /\ Len(counts) = K
      /\ LayoutInv
  BY DEF JumpsInv, CallsInv, LayoutInv, ListsInv, BlocksInv
<1>2. Numbers = 1..N /\ N \in Nat
  BY Here
<1>3. \A i \in Numbers :
        /\ instructions[i].role \in {"code", "start", "call", "return_address", "if", "else",
                                     "elseif", "while", "loop", "first_loop"}
        /\ {instructions[i].target, instructions[i].goal} \subseteq Nat
  BY <1>1 DEF ItemsIn, TargetsIn, IsItem, Roles, Numbers
<1>4. PICK ends \in [0..K -> Nat] :
        /\ ends[K] = N
        /\ \A k \in 1..K : /\ lists[k] \in Seq(Nat) /\ Len(lists[k]) \in Nat
                           /\ ends[k] = ends[k - 1] + Len(lists[k])
                           /\ \A i \in 1..Len(lists[k]) : lists[k][i] = ends[k - 1] + i
        /\ ends[0] = 0
  BY <1>1, ListsFacts DEF LayoutInv, Runs
<1>5. K \in Nat /\ K >= 1 /\ DOMAIN lists = 1..K
  BY <1>1 DEF LayoutInv, ListsInv
<1> HIDE DEF N, K
(* From the last list down, no end is beyond n.                             *)
<1>6. \A k \in 0..K : ends[k] <= N
  <2> DEFINE S == {j \in 1..K : ends[K - j] <= N}
  <2>1. ASSUME NEW k \in 1..K
        PROVE  ends[k] = ends[k - 1] + Len(lists[k]) /\ ends[k] \in Nat /\ ends[k - 1] \in Nat /\ Len(lists[k]) \in Nat
    <3>1. k \in 0..K /\ k - 1 \in 0..K
      BY <1>5
    <3>2. QED
      BY <1>4, <3>1
  <2>2. 1 \in S
    <3>1. K \in 1..K /\ 1 \in 1..K
      BY <1>5
    <3>2. /\ ends[K] = N /\ ends[K] = ends[K - 1] + Len(lists[K])
          /\ ends[K - 1] \in Nat /\ Len(lists[K]) \in Nat
      BY <1>4, <2>1, <3>1
    <3> DEFINE a == ends[K - 1]
               c == Len(lists[K])
    <3>3. N = a + c /\ a \in Nat /\ c \in Nat
      BY <3>2
    <3> HIDE DEF a, c
    <3>4. a <= N
      BY <1>2, <3>3
    <3>5. QED
      BY <3>1, <3>4 DEF a
  <2>3. \A j \in 2..K : j - 1 \in S => j \in S
    <3>1. ASSUME NEW j \in 2..K, j - 1 \in S
          PROVE  j \in S
      <4> DEFINE k == K - (j - 1)
      <4>1. k \in 1..K /\ k - 1 = K - j /\ j \in 1..K
        BY <1>5
      <4>2. ends[k] <= N
        BY <3>1
      <4> HIDE DEF k
      <4>3. ends[k - 1] <= N
        BY <1>2, <2>1, <4>1, <4>2
      <4>4. QED
        BY <4>1, <4>3
    <3>2. QED
      BY <3>1
  <2> HIDE DEF S
  <2>4. 1..K \subseteq S
    BY <1>5, <2>2, <2>3, UpTo
  <2>5. ASSUME NEW k \in 0..K
        PROVE  ends[k] <= N
    <3>1. CASE k = K
      BY <1>2, <1>4, <3>1
    <3>2. CASE k # K
      <4>1. K - k \in 1..K /\ K - (K - k) = k
        BY <1>5, <3>2
      <4>2. QED
        BY <2>4, <4>1 DEF S
    <3>3. QED
      BY <3>1, <3>2
  <2>6. QED
    BY <2>5
<1>7. ASSUME NEW k \in 1..K
      PROVE  lists[k] \in Seq(Numbers)
  <2> DEFINE l == lists[k]
  <2>1. /\ l \in Seq(Nat) /\ Len(l) \in Nat /\ ends[k] = ends[k - 1] + Len(l)
        /\ \A i \in 1..Len(l) : l[i] = ends[k - 1] + i
    BY <1>4
  <2>2. k \in 0..K /\ k - 1 \in 0..K
    BY <1>5
  <2>3. ends[k - 1] \in Nat /\ ends[k] <= N /\ ends[k] \in Nat
    BY <1>4, <1>6, <2>2
  <2> DEFINE a == ends[k - 1]
             b == ends[k]
  <2>4. a \in Nat /\ b \in Nat /\ b = a + Len(l) /\ b <= N /\ \A i \in 1..Len(l) : l[i] = a + i
    BY <2>1, <2>3
  <2> HIDE DEF a, b, l
  <2>5. \A i \in 1..Len(l) : l[i] \in Numbers
    BY <1>2, <2>1, <2>4
  <2>6. DOMAIN l = 1..Len(l) /\ l = [i \in 1..Len(l) |-> l[i]]
    BY <2>1
  <2>7. l \in Seq(Numbers)
    BY <2>1, <2>5, <2>6
  <2>8. QED
    BY <2>7 DEF l
<1>8. \A i \in DOMAIN control : control[i] \in Frames
  BY <1>1
<1>9. \A i \in DOMAIN functions : functions[i].entry \in Numbers
  BY <1>1, <1>2 DEF EntriesIn
<1>10. Len(counts) = Len(lists)
  BY <1>1 DEF K
<1>11. \A i \in DOMAIN lists : lists[i] \in Seq(Numbers)
  BY <1>5, <1>7
<1>12. QED
  BY <1>1, <1>3, <1>8, <1>9, <1>10, <1>11 DEF TypeOK, PhaseInv

(* The types of the layout's state: in particular every entry of a list,    *)
(* and every entry of a function, is the number of an instruction there is. *)
THEOREM LayoutTyped == Spec => []TypeOK
<1>1. JumpsInv => TypeOK
  BY LayoutTypes
<1>2. QED
  BY <1>1, JumpsAlways, PTL
=================================================================================
