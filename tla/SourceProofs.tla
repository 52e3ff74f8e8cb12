----------------------------- MODULE SourceProofs -----------------------------
(***************************************************************************)
(* The generated code does what the source says (ImplementsSource): every  *)
(* step of CodeGen, for every program, register file, memory and nesting   *)
(* of calls and blocks, is a step of SourceSemantics or none.              *)
(***************************************************************************)
EXTENDS CodeGenProofs, WellFoundedInduction

(* The mapping: the values of the operands, the cells the visible names     *)
(* stand for, and those of the names the open blocks give back.             *)
ValuesOf(list, r) == [i \in DOMAIN list |-> r[list[i]]]
CellOf(symbol, fp) ==
    IF symbol.storage = "global" THEN Byte(symbol.place) ELSE LocalCell(fp, symbol.place)
EnvironmentOf(table, fp) ==
    [x \in {table[i].name : i \in DOMAIN table} |->
        CellOf(table[CHOOSE i \in DOMAIN table : IsNewest(table, i, x)], fp)]
HiddenOf(open, table, fp) ==
    [i \in DOMAIN open |-> EnvironmentOf(SubSeq(table, 1, open[i].symbol_table_base), fp)]

Values == ValuesOf(operands, cpu.r)
Env == EnvironmentOf(symbols, cpu.r[REG_FP])
Hidden == HiddenOf(scopes, symbols, cpu.r[REG_FP])

MappedEnv == Environment(symbols)
MappedHidden == [i \in DOMAIN scopes |-> Environment(SubSeq(symbols, 1, scopes[i].symbol_table_base))]
MappedValues == [i \in DOMAIN operands |-> cpu.r[operands[i]]]

(* The substitutions of Source, as written in CodeGen, are the mapping.     *)
LEMMA Mapped ==
    /\ MappedValues = Values /\ MappedValues' = Values'
    /\ MappedEnv = Env /\ MappedEnv' = Env'
    /\ MappedHidden = Hidden /\ MappedHidden' = Hidden'
BY DEF MappedValues, MappedEnv, MappedHidden, Values, Env, Hidden, ValuesOf, EnvironmentOf,
       HiddenOf, CellOf, Environment, SymbolCell

(* What the refinement rests on: blocks and lists nest, every held value    *)
(* has a register of its own, and a register served again for a global      *)
(* holds what memory has.                                                   *)
SourceInv == ShapeInv /\ RegisterInv /\ CacheInv

-----------------------------------------------------------------------------
(* Values *)

(* The values of the operands are words, one for each operand.              *)
LEMMA ValuesAre ==
    ASSUME NEW list \in Seq(General), NEW r \in [Registers -> Word]
    PROVE  /\ ValuesOf(list, r) \in Seq(Word)
           /\ Len(ValuesOf(list, r)) = Len(list) /\ DOMAIN ValuesOf(list, r) = 1..Len(list)
           /\ \A i \in 1..Len(list) : ValuesOf(list, r)[i] = r[list[i]] /\ r[list[i]] \in Word
<1> DEFINE n == Len(list)
           v == ValuesOf(list, r)
<1>1. n \in Nat /\ DOMAIN list = 1..n /\ \A i \in 1..n : list[i] \in Registers
  BY RegisterNumbers
<1>2. v = [i \in 1..n |-> r[list[i]]] /\ \A i \in 1..n : r[list[i]] \in Word
  BY <1>1 DEF ValuesOf
<1> HIDE DEF n, v
<1>3. v \in [1..n -> Word]
  BY <1>2
<1>4. v \in Seq(Word) /\ Len(v) = n
  BY <1>1, <1>3
<1>5. QED
  BY <1>2, <1>4 DEF n, v

(* Two sequences of values are equal when their entries are.                *)
LEMMA SameValues ==
    ASSUME NEW S, NEW s \in Seq(S), NEW t \in Seq(S), Len(s) = Len(t),
           \A i \in 1..Len(s) : s[i] = t[i]
    PROVE  s = t
OBVIOUS

(* A push leaves the values below alone when its code leaves the registers  *)
(* of the operands alone.                                                   *)
LEMMA ValuesPush ==
    ASSUME NEW list \in Seq(General), NEW reg \in General,
           NEW r \in [Registers -> Word], NEW r2 \in [Registers -> Word],
           \A i \in 1..Len(list) : r2[list[i]] = r[list[i]]
    PROVE  ValuesOf(Append(list, reg), r2) = Append(ValuesOf(list, r), r2[reg])
<1> DEFINE longer == Append(list, reg)
           s == ValuesOf(longer, r2)
           v == ValuesOf(list, r)
           t == Append(v, r2[reg])
           n == Len(list)
<1>1. /\ n \in Nat /\ longer \in Seq(General) /\ Len(longer) = n + 1 /\ longer[n + 1] = reg
      /\ \A i \in 1..n : longer[i] = list[i]
  OBVIOUS
<1>2. /\ v \in Seq(Word) /\ Len(v) = n /\ \A i \in 1..n : v[i] = r[list[i]]
  BY ValuesAre
<1>3. r2[reg] \in Word
  BY RegisterNumbers
<1> HIDE DEF longer
<1>4. s \in Seq(Word) /\ Len(s) = n + 1 /\ \A i \in 1..(n + 1) : s[i] = r2[longer[i]]
  BY <1>1, ValuesAre
<1> HIDE DEF v, s
<1>5. /\ t \in Seq(Word) /\ Len(t) = n + 1 /\ t[n + 1] = r2[reg]
      /\ \A i \in 1..n : t[i] = v[i]
  BY <1>2, <1>3, AppendProperties
<1> HIDE DEF t
<1>6. ASSUME NEW i \in 1..(n + 1) PROVE s[i] = t[i]
  <2>1. CASE i = n + 1
    BY <1>1, <1>4, <1>5, <2>1
  <2>2. CASE i # n + 1
    <3>1. i \in 1..n
      BY <1>1, <2>2
    <3>2. QED
      BY <1>1, <1>2, <1>4, <1>5, <3>1
  <2>3. QED
    BY <2>1, <2>2
<1> HIDE DEF n
<1>7. s = t
  BY <1>4, <1>5, <1>6, SameValues
<1>8. QED
  BY <1>7 DEF s, t, v, longer

(* The values of the first operands are the first values.                   *)
LEMMA ValuesFront ==
    ASSUME NEW list \in Seq(General), NEW r \in [Registers -> Word], NEW n \in Nat, n <= Len(list)
    PROVE  /\ SubSeq(list, 1, n) \in Seq(General) /\ Len(SubSeq(list, 1, n)) = n
           /\ \A i \in 1..n : SubSeq(list, 1, n)[i] = list[i]
           /\ ValuesOf(SubSeq(list, 1, n), r) = SubSeq(ValuesOf(list, r), 1, n)
<1> DEFINE front == SubSeq(list, 1, n)
           s == ValuesOf(front, r)
           v == ValuesOf(list, r)
           t == SubSeq(v, 1, n)
<1>1. Len(list) \in Nat /\ \A i \in 1..n : i \in 1..Len(list)
  OBVIOUS
<1>2. front \in Seq(General) /\ Len(front) = n /\ \A i \in 1..n : front[i] = list[i]
  OBVIOUS
<1>3. v \in Seq(Word) /\ Len(v) = Len(list) /\ \A i \in 1..Len(list) : v[i] = r[list[i]]
  BY ValuesAre
<1> HIDE DEF front
<1>4. s \in Seq(Word) /\ Len(s) = n /\ \A i \in 1..n : s[i] = r[front[i]]
  BY <1>2, ValuesAre
<1> HIDE DEF v, s
<1>5. t \in Seq(Word) /\ Len(t) = n /\ \A i \in 1..n : t[i] = v[i]
  BY <1>1, <1>3
<1> HIDE DEF t
<1>6. s = t
  BY <1>1, <1>2, <1>3, <1>4, <1>5, SameValues
<1>7. QED
  BY <1>2, <1>6 DEF front, s, t, v

(* No operands, no values.                                                  *)
LEMMA NoValues == \A r : ValuesOf(<<>>, r) = <<>>
BY DEF ValuesOf

-----------------------------------------------------------------------------
(* Names and their cells *)

(* A set of numbers up to n that is not empty has a greatest one.           *)
LEMMA GreatestExists ==
    ASSUME NEW n \in Nat, NEW S, S \subseteq 1..n, S # {}
    PROVE  \E i \in S : \A j \in S : j <= i
<1> DEFINE T == {n - i : i \in S}
<1>1. T \subseteq Nat /\ T # {}
  <2>1. \A i \in 1..n : n - i \in Nat
    OBVIOUS
  <2>2. PICK i \in S : TRUE
    OBVIOUS
  <2>3. n - i \in T
    OBVIOUS
  <2>4. T \subseteq Nat
    BY <2>1
  <2>5. QED
    BY <2>3, <2>4
<1> HIDE DEF T
<1>2. PICK k \in T : \A l \in T : ~(<<l, k>> \in OpToRel(<, Nat))
  BY <1>1, NatLessThanWellFounded, WFMin
<1>3. \A l \in T : k \in Nat /\ l \in Nat /\ ~(l < k)
  BY <1>1, <1>2 DEF OpToRel
<1>4. PICK i \in S : k = n - i
  BY DEF T
<1>5. ASSUME NEW j \in S PROVE j <= i
  <2>1. n - j \in T
    BY DEF T
  <2>2. ~(n - j < n - i) /\ i \in Nat /\ j \in Nat
    BY <1>3, <1>4, <2>1
  <2>3. QED
    BY <2>2
<1>6. QED
  BY <1>5

(* A name in a table has a newest entry, and only one.                      *)
LEMMA NewestExists ==
    ASSUME NEW table \in Seq(Symbols), NEW x, x \in {table[i].name : i \in DOMAIN table}
    PROVE  \E i \in DOMAIN table : IsNewest(table, i, x)
<1> DEFINE n == Len(table)
           S == {i \in 1..n : table[i].name = x}
<1>1. n \in Nat /\ DOMAIN table = 1..n /\ S \subseteq 1..n /\ S # {}
  OBVIOUS
<1> HIDE DEF n
<1>2. PICK i \in S : \A j \in S : j <= i
  <2> HIDE DEF S
  <2>1. QED
    BY <1>1, GreatestExists
<1>3. IsNewest(table, i, x)
  BY <1>1, <1>2 DEF IsNewest
<1>4. QED
  BY <1>1, <1>3

(* The newest entry of a name is unique.                                    *)
LEMMA NewestIsOne ==
    ASSUME NEW table \in Seq(Symbols), NEW x, NEW i, NEW j,
           IsNewest(table, i, x), IsNewest(table, j, x)
    PROVE  i = j
<1>1. i \in Nat /\ j \in Nat /\ i <= j /\ j <= i
  BY DEF IsNewest
<1>2. QED
  BY <1>1

(* Every symbol has a cell.                                                 *)
LEMMA CellIsWord ==
    ASSUME NEW symbol \in Symbols, NEW fp \in Word
    PROVE  CellOf(symbol, fp) \in Word
<1>1. symbol.place \in Int /\ fp - symbol.place \in Int
  BY ByteIsWord DEF Symbols
<1>2. QED
  BY <1>1, ByteIsWord DEF CellOf, LocalCell

(* A name stands for the cell of its newest entry; a name in no entry for   *)
(* none.                                                                    *)
LEMMA EnvironmentIs ==
    ASSUME NEW table \in Seq(Symbols), NEW fp \in Word
    PROVE  /\ DOMAIN EnvironmentOf(table, fp) = {table[i].name : i \in DOMAIN table}
           /\ \A x, i : IsNewest(table, i, x) =>
                /\ x \in DOMAIN EnvironmentOf(table, fp)
                /\ EnvironmentOf(table, fp)[x] = CellOf(table[i], fp)
           /\ \A x : Unknown(table, x) => x \notin DOMAIN EnvironmentOf(table, fp)
           /\ \A x \in DOMAIN EnvironmentOf(table, fp) :
                x \in Names /\ EnvironmentOf(table, fp)[x] \in Word
<1> DEFINE names == {table[i].name : i \in DOMAIN table}
           env == EnvironmentOf(table, fp)
<1>1. env = [x \in names |-> CellOf(table[CHOOSE i \in DOMAIN table : IsNewest(table, i, x)], fp)]
  BY DEF EnvironmentOf
<1> HIDE DEF env
<1>2. ASSUME NEW x, NEW i, IsNewest(table, i, x)
      PROVE  x \in names /\ env[x] = CellOf(table[i], fp)
  <2>1. i \in DOMAIN table /\ x \in names
    BY <1>2 DEF IsNewest
  <2> DEFINE j == CHOOSE j \in DOMAIN table : IsNewest(table, j, x)
  <2>2. IsNewest(table, j, x)
    BY <1>2, <2>1
  <2>3. env[x] = CellOf(table[j], fp)
    BY <1>1, <2>1
  <2> HIDE DEF j
  <2>4. j = i
    BY <1>2, <2>2, NewestIsOne
  <2>5. QED
    BY <2>1, <2>3, <2>4
<1>3. ASSUME NEW x, Unknown(table, x) PROVE x \notin names
  BY <1>3 DEF Unknown
<1>4. ASSUME NEW x \in names PROVE x \in Names /\ env[x] \in Word
  <2>1. PICK i \in DOMAIN table : IsNewest(table, i, x)
    BY NewestExists
  <2>2. table[i] \in Symbols /\ table[i].name = x
    BY <2>1 DEF IsNewest
  <2>3. CellOf(table[i], fp) \in Word
    BY <2>2, CellIsWord
  <2>4. x \in Names
    BY <2>2 DEF Symbols
  <2>5. QED
    BY <1>2, <2>1, <2>3, <2>4
<1>5. DOMAIN env = names
  BY <1>1
<1> HIDE DEF names
<1>6. QED
  BY <1>2, <1>3, <1>4, <1>5 DEF env, names

(* A declaration gives its name its cell and leaves the others theirs.      *)
LEMMA EnvironmentDeclares ==
    ASSUME NEW table \in Seq(Symbols), NEW fp \in Word, NEW symbol \in Symbols
    PROVE  EnvironmentOf(Append(table, symbol), fp) =
               [y \in DOMAIN EnvironmentOf(table, fp) \cup {symbol.name} |->
                   IF y = symbol.name THEN CellOf(symbol, fp) ELSE EnvironmentOf(table, fp)[y]]
<1> DEFINE longer == Append(table, symbol)
           old == EnvironmentOf(table, fp)
           new == EnvironmentOf(longer, fp)
           n == Len(table)
<1>1. /\ n \in Nat /\ DOMAIN table = 1..n /\ longer \in Seq(Symbols) /\ DOMAIN longer = 1..(n + 1)
      /\ longer[n + 1] = symbol /\ \A i \in 1..n : longer[i] = table[i]
  OBVIOUS
<1> HIDE DEF longer, n
<1>2. /\ DOMAIN old = {table[i].name : i \in DOMAIN table}
      /\ \A x, i : IsNewest(table, i, x) => old[x] = CellOf(table[i], fp)
  BY EnvironmentIs
<1>3. /\ DOMAIN new = {longer[i].name : i \in DOMAIN longer}
      /\ \A x, i : IsNewest(longer, i, x) => new[x] = CellOf(longer[i], fp)
  <2>1. longer \in Seq(Symbols)
    BY <1>1
  <2>2. DOMAIN new = {longer[i].name : i \in DOMAIN longer}
    BY <2>1, EnvironmentIs
  <2>3. \A x, i : IsNewest(longer, i, x) => new[x] = CellOf(longer[i], fp)
    BY <2>1, EnvironmentIs
  <2>4. QED
    BY <2>2, <2>3
<1>4. DOMAIN new = DOMAIN old \cup {symbol.name}
  <2>1. 1..(n + 1) = 1..n \cup {n + 1}
    BY <1>1
  <2>2. QED
    BY <1>1, <1>2, <1>3, <2>1
<1>5. new[symbol.name] = CellOf(symbol, fp)
  <2>1. IsNewest(longer, n + 1, symbol.name)
    BY <1>1 DEF IsNewest
  <2>2. QED
    BY <1>1, <1>3, <2>1
<1>6. ASSUME NEW y \in DOMAIN old, y # symbol.name PROVE new[y] = old[y]
  <2>1. PICK i \in DOMAIN table : IsNewest(table, i, y)
    BY <1>2, NewestExists
  <2>2. IsNewest(longer, i, y)
    <3>1. i \in DOMAIN longer /\ longer[i].name = y
      BY <1>1, <2>1 DEF IsNewest
    <3>2. ASSUME NEW j \in DOMAIN longer, longer[j].name = y PROVE j <= i
      <4>1. j # n + 1
        BY <1>1, <1>6, <3>2
      <4>2. j \in 1..n
        BY <1>1, <4>1
      <4>3. j \in DOMAIN table /\ table[j].name = y
        BY <1>1, <3>2, <4>2
      <4>4. QED
        BY <2>1, <4>3 DEF IsNewest
    <3>3. QED
      BY <3>1, <3>2 DEF IsNewest
  <2>3. longer[i] = table[i]
    BY <1>1
  <2>4. QED
    BY <1>2, <1>3, <2>1, <2>2, <2>3
<1>7. new = [y \in DOMAIN new |-> new[y]]
  BY DEF EnvironmentOf
<1> HIDE DEF old, new
<1>8. new = [y \in DOMAIN old \cup {symbol.name} |->
                IF y = symbol.name THEN CellOf(symbol, fp) ELSE old[y]]
  BY <1>4, <1>5, <1>6, <1>7
<1>9. QED
  BY <1>8 DEF old, new, longer

-----------------------------------------------------------------------------
(* What the open blocks give back *)

(* The first entries of a table and of one that begins with it.             *)
LEMMA SamePrefix ==
    ASSUME NEW s \in Seq(Symbols), NEW t \in Seq(Symbols), NEW n \in Nat, NEW k \in Nat, k <= n,
           n <= Len(s), n <= Len(t), \A i \in 1..n : s[i] = t[i]
    PROVE  SubSeq(s, 1, k) = SubSeq(t, 1, k)
OBVIOUS

(* A sequence that never descends is nowhere above its last entry.          *)
LEMMA BelowLast ==
    ASSUME NEW n \in Nat, NEW f, \A i \in 1..n : f[i] \in Nat,
           \A i \in 1..n : i < n => f[i] <= f[i + 1]
    PROVE  \A i \in 1..n : f[i] <= f[n]
<1> DEFINE S == {i \in 1..n : ~(f[i] <= f[n])}
<1>1. SUFFICES ASSUME S # {} PROVE FALSE
  OBVIOUS
<1>2. PICK i \in S : \A j \in S : j <= i
  <2>1. S \subseteq 1..n
    OBVIOUS
  <2> HIDE DEF S
  <2>2. QED
    BY <1>1, <2>1, GreatestExists
<1>3. i \in 1..n /\ ~(f[i] <= f[n])
  OBVIOUS
<1>4. n \in 1..n /\ f[n] \in Nat /\ i # n
  BY <1>3
<1>5. i + 1 \in 1..n /\ i < n /\ ~(i + 1 <= i)
  BY <1>3, <1>4
<1>6. i + 1 \notin S
  BY <1>2, <1>5
<1>7. f[i + 1] <= f[n] /\ f[i] <= f[i + 1]
  BY <1>5, <1>6
<1>8. f[i] \in Nat /\ f[i + 1] \in Nat
  BY <1>5
<1>9. QED
  BY <1>3, <1>4, <1>7, <1>8

(* Every open block keeps symbols that are still there when it ends, those  *)
(* inside it too.                                                           *)
LEMMA ScopesAscend ==
    ASSUME ShapeInv, scopes # <<>>, InsideFunction
    PROVE  LET n == Len(scopes)
           IN  /\ n \in Nat \ {0} /\ DOMAIN scopes = 1..n
               /\ \A i \in 1..n : /\ scopes[i].symbol_table_base \in Nat
                                  /\ scopes[i].symbol_table_base <= scopes[n].symbol_table_base
                                  /\ scopes[i].symbol_table_base <= Len(symbols)
               /\ scopes[n].local_offset_base \in Nat
<1> DEFINE n == Len(scopes)
           f == [i \in 1..n |-> scopes[i].local_offset_base]
<1>1. n \in Nat \ {0} /\ DOMAIN scopes = 1..n /\ n \in 1..n
  BY DEF ShapeInv, TypeOK
<1>2. \A i \in 1..n : /\ scopes[i].symbol_table_base \in Nat /\ scopes[i].local_offset_base \in Nat
                      /\ scopes[i].symbol_table_base = frame_base + scopes[i].local_offset_base
  <2>1. \A i \in 1..n : scopes[i] \in Scopes
    BY <1>1 DEF ShapeInv, TypeOK
  <2>2. \A i \in 1..n : scopes[i].symbol_table_base = frame_base + scopes[i].local_offset_base
    BY <1>1 DEF ShapeInv, BasesAgree
  <2> HIDE DEF n
  <2>3. QED
    BY <2>1, <2>2 DEF Scopes
<1>3. frame_base \in Nat /\ next_local_offset \in Nat /\ Len(symbols) = frame_base + next_local_offset
  BY DEF ShapeInv, TypeOK, SlotsOwned
<1>4. /\ \A i \in 1..n : i < n => scopes[i].local_offset_base <= scopes[i + 1].local_offset_base
      /\ scopes[n].local_offset_base <= next_local_offset
  <2>1. \A i \in 1..n : scopes[i].local_offset_base <=
                              IF i = n THEN next_local_offset ELSE scopes[i + 1].local_offset_base
    BY <1>1 DEF ShapeInv, BasesAgree
  <2> HIDE DEF n
  <2>2. \A i \in 1..n : i < n => i # n
    BY <1>1
  <2>3. QED
    BY <1>1, <2>1, <2>2
<1> HIDE DEF n
<1>5. \A i \in 1..n : f[i] <= f[n]
  <2>1. /\ \A i \in 1..n : f[i] \in Nat
        /\ \A i \in 1..n : i < n => f[i] <= f[i + 1]
    <3>1. \A i \in 1..n : i < n => i + 1 \in 1..n
      BY <1>1
    <3>2. QED
      BY <1>2, <1>4, <3>1
  <2> HIDE DEF f
  <2>2. QED
    BY <1>1, <2>1, BelowLast
<1>6. ASSUME NEW i \in 1..n
      PROVE  /\ scopes[i].symbol_table_base \in Nat
             /\ scopes[i].symbol_table_base <= scopes[n].symbol_table_base
             /\ scopes[i].symbol_table_base <= Len(symbols)
  <2>1. scopes[i].local_offset_base <= scopes[n].local_offset_base
    BY <1>1, <1>5
  <2>2. /\ scopes[i].symbol_table_base = frame_base + scopes[i].local_offset_base
        /\ scopes[n].symbol_table_base = frame_base + scopes[n].local_offset_base
        /\ scopes[i].local_offset_base \in Nat /\ scopes[n].local_offset_base \in Nat
    BY <1>1, <1>2
  <2> DEFINE b == scopes[i].local_offset_base
             l == scopes[n].local_offset_base
             m == Len(symbols)
  <2>3. /\ b \in Nat /\ l \in Nat /\ b <= l /\ l <= next_local_offset /\ m = frame_base + next_local_offset
        /\ frame_base \in Nat /\ next_local_offset \in Nat
    BY <1>3, <1>4, <2>1, <2>2
  <2> HIDE DEF b, l, m
  <2>4. frame_base + b \in Nat /\ frame_base + b <= frame_base + l /\ frame_base + b <= m
    BY <2>3
  <2>5. QED
    BY <2>2, <2>4 DEF b, l, m
<1>7. scopes[n].local_offset_base \in Nat
  BY <1>1, <1>2
<1>8. QED
  BY <1>1, <1>6, <1>7 DEF n

(* The names the open blocks give back depend on their symbols only.        *)
LEMMA HiddenSame ==
    ASSUME NEW open \in Seq(Scopes), NEW s \in Seq(Symbols), NEW t \in Seq(Symbols), NEW fp,
           NEW n \in Nat, n <= Len(s), n <= Len(t), \A i \in 1..n : s[i] = t[i],
           \A i \in DOMAIN open : open[i].symbol_table_base <= n
    PROVE  HiddenOf(open, s, fp) = HiddenOf(open, t, fp)
<1>1. ASSUME NEW i \in DOMAIN open
      PROVE  SubSeq(s, 1, open[i].symbol_table_base) = SubSeq(t, 1, open[i].symbol_table_base)
  <2>1. open[i].symbol_table_base \in Nat /\ open[i].symbol_table_base <= n
    <3>1. open[i] \in Scopes
      OBVIOUS
    <3>2. QED
      BY <3>1 DEF Scopes
  <2>2. QED
    BY <2>1, SamePrefix
<1>2. QED
  BY <1>1 DEF HiddenOf

(* No open block gives names back.                                          *)
LEMMA NothingHidden == \A table, fp : HiddenOf(<<>>, table, fp) = <<>>
BY DEF HiddenOf

-----------------------------------------------------------------------------
(* The steps of the source, in the terms of the mapping *)

(* The lists, the memory and the names are as they were.                    *)
RestKept == calls' = calls /\ cpu'.m = cpu.m /\ Env' = Env /\ Hidden' = Hidden

(* Each lemma As... restates one operation of the source over Values, Env   *)
(* and Hidden.                                                              *)
LEMMA AsLiteral ==
    ASSUME NEW v \in Literals, Values' = Append(Values, v % WordSize), RestKept, Saw("literal", Nothing, <<v>>)
    PROVE  Source!Literal
BY Mapped DEF Source!Literal, Source!Compute, Source!Done, MappedValues, MappedEnv, MappedHidden,
              RestKept, Saw, Event, Nothing

(* The value of a name is that of its cell, 0 for an unknown one.           *)
LEMMA AsRead ==
    ASSUME NEW x \in Names,
           Values' = Append(Values, IF x \in DOMAIN Env THEN cpu.m[Env[x]] ELSE 0),
           RestKept, Saw("read", x, <<>>)
    PROVE  Source!Read
BY Mapped DEF Source!Read, Source!Compute, Source!Done, MappedValues, MappedEnv, MappedHidden,
              RestKept, Saw, Event

(* The address of a name is its cell.                                       *)
LEMMA AsAddressOf ==
    ASSUME NEW x \in Names, NEW address \in Word, x \in DOMAIN Env => address = Env[x],
           Values' = Append(Values, address), RestKept, Saw("address", x, <<>>)
    PROVE  Source!AddressOf
BY Mapped DEF Source!AddressOf, Source!Cell, Source!Compute, Source!Done, MappedValues, MappedEnv,
              MappedHidden, RestKept, Saw, Event, Word

(* A binary operation works on the last two values, the older one left.     *)
LEMMA AsCombine ==
    ASSUME NEW op \in BinaryOps, Values \in Seq(Word), NEW n \in Nat, Len(Values) = n + 2,
           Values' = Append(SubSeq(Values, 1, n), Alu(op, Values[n + 1], Values[n + 2]) % WordSize),
           RestKept, Saw("binary", op, <<>>)
    PROVE  Source!Combine
<1>1. MappedValues = Values /\ MappedValues' = Values'
  BY Mapped
<1> DEFINE v == Values
           f == SubSeq(v, 1, n + 1)
<1>2. /\ v \in Seq(Word) /\ Len(v) = n + 2 /\ n \in Nat
      /\ f \in Seq(Word) /\ Len(f) = n + 1 /\ f[n + 1] = v[n + 1] /\ SubSeq(f, 1, n) = SubSeq(v, 1, n)
  OBVIOUS
<1> HIDE DEF v, f
<1>3. Len(v) >= 2 /\ Len(v) - 1 = n + 1 /\ Len(f) - 1 = n
  BY <1>2
<1>4. /\ Source!Front(MappedValues) = f /\ Source!Front(f) = SubSeq(v, 1, n)
      /\ Source!Last(f) = v[n + 1] /\ Source!Last(MappedValues) = v[n + 2]
  BY <1>1, <1>2, <1>3 DEF Source!Front, Source!Last, v, f
<1>5. MappedValues' = Append(Source!Front(Source!Front(MappedValues)),
                             Alu(op, Source!Last(Source!Front(MappedValues)),
                                 Source!Last(MappedValues)) % WordSize)
  BY <1>1, <1>4 DEF v
<1>6. Len(MappedValues) >= 2
  BY <1>1, <1>3 DEF v
<1>7. QED
  BY <1>5, <1>6, Mapped
     DEF Source!Combine, Source!Compute, Source!Done, MappedValues, MappedEnv, MappedHidden,
         RestKept, Saw, Event, Nothing

(* A negation or a pointer read replaces the last value.                    *)
LEMMA AsTop ==
    ASSUME Values \in Seq(Word), NEW n \in Nat, Len(Values) = n + 1, RestKept,
           \/ /\ Values' = Append(SubSeq(Values, 1, n), IF Values[n + 1] = 0 THEN 1 ELSE 0)
              /\ Saw("not", Nothing, <<>>)
           \/ /\ Values' = Append(SubSeq(Values, 1, n), cpu.m[Values[n + 1]])
              /\ Saw("follow", Nothing, <<>>)
    PROVE  Source!Negate \/ Source!Follow
<1>1. MappedValues = Values /\ MappedValues' = Values'
  BY Mapped
<1>2. Len(Values) - 1 = n /\ Values # <<>>
  OBVIOUS
<1>3. /\ Source!Front(MappedValues) = SubSeq(Values, 1, n)
      /\ Source!Last(MappedValues) = Values[n + 1]
  BY <1>1, <1>2 DEF Source!Front, Source!Last
<1>4. /\ MappedValues # <<>>
      /\ \/ /\ MappedValues' = Append(Source!Front(MappedValues),
                                      IF Source!Last(MappedValues) = 0 THEN 1 ELSE 0)
            /\ Saw("not", Nothing, <<>>)
         \/ /\ MappedValues' = Append(Source!Front(MappedValues), cpu.m[Source!Last(MappedValues)])
            /\ Saw("follow", Nothing, <<>>)
  BY <1>1, <1>2, <1>3
<1>5. QED
  BY <1>4, Mapped
     DEF Source!Negate, Source!Follow, Source!Compute, Source!Done, MappedValues, MappedEnv,
         MappedHidden, RestKept, Saw, Event, Nothing

(* A declaration gives the name a cell and the cell the value.              *)
LEMMA AsDeclare ==
    ASSUME NEW x \in Names, NEW cell \in Word, NEW v \in Word,
           Values = <<v>> \/ (Values = <<>> /\ v = 0), Values' = <<>>,
           cpu'.m = [cpu.m EXCEPT ![cell] = v],
           Env' = [y \in DOMAIN Env \cup {x} |-> IF y = x THEN cell ELSE Env[y]],
           calls' = calls, Hidden' = Hidden, Saw("declare", x, <<>>)
    PROVE  Source!Declare
<1>1. cell \in Source!Cell /\ v \in Source!Cell
  BY DEF Source!Cell, Word
<1>2. /\ MappedValues = <<v>> \/ (MappedValues = <<>> /\ v = 0)
      /\ MappedEnv' = [y \in DOMAIN MappedEnv \cup {x} |-> IF y = x THEN cell ELSE MappedEnv[y]]
      /\ MappedValues' = <<>> /\ MappedHidden' = MappedHidden
  BY Mapped
<1>3. /\ cpu'.m = [cpu.m EXCEPT ![cell] = v] /\ calls' = calls
      /\ event' = [kind |-> "declare", subject |-> x, values |-> <<>>]
  BY DEF Saw, Event
<1>4. \E y \in Names, place \in Source!Cell, value \in Source!Cell :
          /\ MappedValues = <<value>> \/ (MappedValues = <<>> /\ value = 0)
          /\ cpu'.m = [cpu.m EXCEPT ![place] = value]
          /\ MappedEnv' = [z \in DOMAIN MappedEnv \cup {y} |-> IF z = y THEN place ELSE MappedEnv[z]]
          /\ event' = [kind |-> "declare", subject |-> y, values |-> <<>>]
  BY <1>1, <1>2, <1>3, Zenon
<1>5. QED
  BY <1>2, <1>3, <1>4, Zenon
     DEF Source!Declare, Source!Done, MappedValues, MappedEnv, MappedHidden

(* An assignment writes the cell of its name, if it has one.                *)
LEMMA AsAssign ==
    ASSUME NEW x \in Names, Len(Values) = 1, Values' = <<>>,
           cpu'.m = IF x \in DOMAIN Env THEN [cpu.m EXCEPT ![Env[x]] = Values[1]] ELSE cpu.m,
           calls' = calls, Env' = Env, Hidden' = Hidden, Saw("assign", x, <<>>)
    PROVE  Source!Assign
BY Mapped DEF Source!Assign, Source!Done, MappedValues, MappedEnv, MappedHidden, Saw, Event

(* The older of two values is where the newer one goes.                     *)
LEMMA AsStore ==
    ASSUME Len(Values) = 2, Values' = <<>>, cpu'.m = [cpu.m EXCEPT ![Values[1]] = Values[2]],
           calls' = calls, Env' = Env, Hidden' = Hidden, Saw("store", Nothing, <<>>)
    PROVE  Source!StoreThrough
BY Mapped DEF Source!StoreThrough, Source!Done, MappedValues, MappedEnv, MappedHidden, Saw, Event,
              Nothing

(* A printed or discarded value changes nothing.                            *)
LEMMA AsUse ==
    ASSUME Len(Values) = 1, Values' = <<>>, RestKept,
           Saw("print", Nothing, Values) \/ Saw("discard", Nothing, <<>>)
    PROVE  Source!ShowValue \/ Source!Discard
BY Mapped DEF Source!ShowValue, Source!Discard, Source!Done, MappedValues, MappedEnv, MappedHidden,
              RestKept, Saw, Event, Nothing

(* Past a branch not taken the memory is the same.                          *)
LEMMA AsBranch ==
    ASSUME Len(Values) = 1, Values' = <<>>, Saw("branch", Nothing, Values),
           IF Values[1] # 0 THEN cpu'.m = cpu.m ELSE cpu'.m \in [Word -> Word],
           calls' = calls, Env' = Env, Hidden' = Hidden
    PROVE  Source!Branch
BY Mapped DEF Source!Branch, Source!Done, Source!Memory, Source!Cell, MappedValues, MappedEnv,
              MappedHidden, Saw, Event, Nothing, Word

(* A return shows its value and what it restored.                           *)
LEMMA AsReturn ==
    ASSUME Len(Values) = 1, Values' = <<>>, NEW sp \in Word, NEW fp \in Word, NEW ra \in Word,
           Saw("return", Nothing, <<Values[1], sp, fp, ra>>), cpu'.m \in [Word -> Word],
           calls' = calls, Env' = Env, Hidden' = Hidden
    PROVE  Source!Return
BY Mapped DEF Source!Return, Source!Done, Source!Memory, Source!Cell, MappedValues, MappedEnv,
              MappedHidden, Saw, Event, Nothing, Word

(* A point reached by a jump finds any memory.                              *)
LEMMA AsReached ==
    ASSUME Values = <<>>, Values' = <<>>, Saw("join", Nothing, <<>>), cpu'.m \in [Word -> Word],
           calls' = calls, Env' = Env, Hidden' = Hidden
    PROVE  Source!Reached
BY Mapped DEF Source!Reached, Source!Done, Source!Memory, Source!Cell, MappedValues, MappedEnv,
              MappedHidden, Saw, Event, Nothing, Word

(* A block keeps the names before it.                                       *)
LEMMA AsOpenBlock ==
    ASSUME Hidden' = Append(Hidden, Env), Env' = Env, Values' = Values, calls' = calls,
           cpu'.m = cpu.m, Saw("open", Nothing, <<>>)
    PROVE  Source!OpenBlock
BY Mapped DEF Source!OpenBlock, Source!Done, MappedValues, MappedEnv, MappedHidden, Saw, Event,
              Nothing

(* A block gives back the names it kept.                                    *)
LEMMA AsCloseBlock ==
    ASSUME Hidden # <<>>, Env' = Hidden[Len(Hidden)], Hidden' = SubSeq(Hidden, 1, Len(Hidden) - 1),
           Values' = Values, calls' = calls, cpu'.m = cpu.m, Saw("close", Nothing, <<>>)
    PROVE  Source!CloseBlock
BY Mapped DEF Source!CloseBlock, Source!Done, Source!Front, Source!Last, MappedValues, MappedEnv,
              MappedHidden, Saw, Event, Nothing

(* A list starts above the values there are and counts its arguments.       *)
LEMMA AsList ==
    ASSUME \/ /\ calls' = Append(calls, [base |-> Len(Values), count |-> 0])
              /\ Saw("list", Nothing, <<>>)
           \/ /\ calls # <<>> /\ calls' = [calls EXCEPT ![Len(calls)].count = @ + 1]
              /\ Saw("argument", Nothing, <<>>),
           Values' = Values, cpu'.m = cpu.m, Env' = Env, Hidden' = Hidden
    PROVE  Source!OpenList \/ Source!PassArgument
BY Mapped DEF Source!OpenList, Source!PassArgument, Source!Done, MappedValues, MappedEnv,
              MappedHidden, Saw, Event, Nothing

(* A call shows the values of its list and replaces them by its result.     *)
LEMMA AsCall ==
    ASSUME calls # <<>>, NEW f \in FunctionNames, NEW result \in Word,
           Len(Values) = calls[Len(calls)].base + calls[Len(calls)].count,
           Saw("call", f, SubSeq(Values, calls[Len(calls)].base + 1, Len(Values))),
           Values' = Append(SubSeq(Values, 1, calls[Len(calls)].base), result),
           calls' = SubSeq(calls, 1, Len(calls) - 1), cpu'.m \in [Word -> Word],
           Env' = Env, Hidden' = Hidden
    PROVE  Source!Call
BY Mapped DEF Source!Call, Source!Done, Source!Front, Source!Last, Source!Memory, Source!Cell,
              MappedValues, MappedEnv, MappedHidden, Saw, Event, Word

(* Between functions nothing is held and nothing is hidden.                 *)
LEMMA AsNewFrame ==
    ASSUME Values = <<>>, Values' = <<>>, Hidden = <<>>, Hidden' = <<>>, calls' = calls,
           cpu'.m \in [Word -> Word], DOMAIN Env' \subseteq Names, \A x \in DOMAIN Env' : Env'[x] \in Word,
           NEW shown, Saw("frame", Nothing, shown)
    PROVE  Source!NewFrame
BY Mapped DEF Source!NewFrame, Source!Memory, Source!Cell, MappedValues, MappedEnv, MappedHidden,
              Saw, Event, Word

(* The compiler gives up, and nothing changes.                              *)
LEMMA AsAbandoned ==
    ASSUME Values' = Values, RestKept, Saw("exit", Nothing, <<>>)
    PROVE  Source!Abandoned
BY Mapped DEF Source!Abandoned, Source!Done, MappedValues, MappedEnv, MappedHidden, RestKept, Saw,
              Event, Nothing

-----------------------------------------------------------------------------
(* What the instructions of an expression leave in a register *)

(* A difference may be truncated at every step or once at the end.          *)
LEMMA ByteOfDifference ==
    ASSUME NEW a \in Int, NEW b \in Int
    PROVE  Byte(a - Byte(b)) = Byte(a - b)
<1> DEFINE w == WordSize
           x == b % w
           q == b \div w
           c == a - x
           d == a - b
<1>0. w \in Nat \ {0}
  BY WordSizeAssumption, LastGeneralAssumption
<1> HIDE DEF w
<1>1. x \in Int /\ q \in Int /\ b = w * q + x
  BY <1>0, DivisionWithRemainder
<1> HIDE DEF x, q
<1>2. c \in Int /\ d \in Int /\ c = w * q + d
  BY <1>0, <1>1
<1> HIDE DEF c, d
<1>3. /\ c % w \in 0..(w - 1) /\ c = w * (c \div w) + (c % w) /\ c \div w \in Int
      /\ d % w \in 0..(w - 1) /\ d = w * (d \div w) + (d % w) /\ d \div w \in Int
  BY <1>0, <1>2, DivisionWithRemainder
<1> DEFINE i == c \div w
           j == d \div w
<1> HIDE DEF i, j
<1>4. w * q + w * j = w * (q + j) /\ q + j \in Int
  <2>1. j \in Int /\ w \in Int
    BY <1>0, <1>3 DEF j
  <2>2. \A k, l, m \in Int : k * l + k * m = k * (l + m)
    OBVIOUS
  <2>3. QED
    BY <1>1, <2>1, <2>2
<1>5. w * i + (c % w) = w * (q + j) + (d % w)
  <2>1. c = w * i + (c % w) /\ d = w * j + (d % w)
    BY <1>3 DEF i, j
  <2>2. w * i + (c % w) = w * q + (w * j + (d % w))
    BY <1>2, <2>1
  <2>3. /\ w * q \in Int /\ w * j \in Int /\ d % w \in Int
    BY <1>0, <1>1, <1>3 DEF j
  <2>4. \A k, l, m \in Int : k + (l + m) = (k + l) + m
    OBVIOUS
  <2>5. w * q + (w * j + (d % w)) = (w * q + w * j) + (d % w)
    BY <2>3, <2>4
  <2>6. QED
    BY <1>4, <2>2, <2>5
<1>6. c % w = d % w
  BY <1>0, <1>3, <1>4, <1>5, RemainderIsUnique DEF i
<1>7. QED
  BY <1>6 DEF c, d, x, w, Byte

(* One register of the machine is written, no other and no cell.            *)
Writes(before, after, reg, value) ==
    /\ after \in MachineStates
    /\ after.m = before.m
    /\ after.r[reg] = value
    /\ \A other \in Registers \ {reg} : after.r[other] = before.r[other]

(* Each instruction of an expression writes its register only.              *)
LEMMA Written ==
    ASSUME NEW machine \in MachineStates, NEW reg \in Registers
    PROVE  /\ \A value \in Int : Writes(machine, Afc(machine, reg, value), reg, Byte(value))
           /\ \A address \in Word : Writes(machine, Load(machine, reg, address), reg, machine.m[address])
           /\ \A from \in Registers :
                /\ Writes(machine, Cop(machine, reg, from), reg, machine.r[from])
                /\ Writes(machine, Not(machine, reg, from), reg, IF machine.r[from] = 0 THEN 1 ELSE 0)
                /\ Writes(machine, LoadR(machine, reg, from), reg, machine.m[machine.r[from]])
           /\ \A op \in AllBinaryOps, a, b \in Registers :
                Writes(machine, Ternary(machine, op, reg, a, b), reg,
                       Byte(Alu(op, machine.r[a], machine.r[b])))
<1>1. \A value \in Int : Writes(machine, SetRegister(machine, reg, value), reg, Byte(value))
  BY SetRegisterType DEF Writes
<1>2. \A value \in Word : Writes(machine, SetRegister(machine, reg, value), reg, value)
  <2>1. \A value \in Word : value \in Int /\ Byte(value) = value
    BY ByteIsWord
  <2>2. QED
    BY <1>1, <2>1
<1>3. /\ \A from \in Registers : machine.r[from] \in Word
      /\ \A a \in Word : machine.m[a] \in Word
  BY MachineParts
<1>4. ASSUME NEW from \in Registers
      PROVE  Truth(machine.r[from] = 0) \in Word
             /\ Truth(machine.r[from] = 0) = IF machine.r[from] = 0 THEN 1 ELSE 0
  BY WordSizeAssumption, LastGeneralAssumption DEF Truth, Word
<1>5. ASSUME NEW op \in AllBinaryOps, NEW a \in Registers, NEW b \in Registers
      PROVE  Alu(op, machine.r[a], machine.r[b]) \in Int
  BY <1>3, AluIsInteger
<1>6. ASSUME NEW address \in Word
      PROVE  Writes(machine, Load(machine, reg, address), reg, machine.m[address])
  BY <1>2, <1>3, ByteIsWord DEF Load
<1>7. ASSUME NEW from \in Registers
      PROVE  /\ Writes(machine, Cop(machine, reg, from), reg, machine.r[from])
             /\ Writes(machine, Not(machine, reg, from), reg, IF machine.r[from] = 0 THEN 1 ELSE 0)
             /\ Writes(machine, LoadR(machine, reg, from), reg, machine.m[machine.r[from]])
  BY <1>2, <1>3, <1>4 DEF Cop, Not, LoadR
<1>8. ASSUME NEW op \in AllBinaryOps, NEW a \in Registers, NEW b \in Registers
      PROVE  Writes(machine, Ternary(machine, op, reg, a, b), reg,
                    Byte(Alu(op, machine.r[a], machine.r[b])))
  BY <1>1, <1>5 DEF Ternary
<1>9. \A value \in Int : Writes(machine, Afc(machine, reg, value), reg, Byte(value))
  BY <1>1 DEF Afc
<1>10. QED
  BY <1>6, <1>7, <1>8, <1>9

(* The address of a local, fp less its offset, is in tmp.                   *)
LEMMA LocalAddressWritten ==
    ASSUME NEW machine \in MachineStates, NEW offset \in Nat
    PROVE  Writes(machine, ComputeLocalAddress(machine, offset), REG_TMP,
                  LocalCell(machine.r[REG_FP], offset))
<1> DEFINE loaded == Afc(machine, REG_TMP, offset)
<1>1. REG_TMP \in Registers /\ REG_FP \in Registers /\ REG_FP # REG_TMP
  BY FrameRegisters
<1>2. Writes(machine, loaded, REG_TMP, Byte(offset))
  BY <1>1, Written
<1>3. ComputeLocalAddress(machine, offset) = Ternary(loaded, "SUB", REG_TMP, REG_FP, REG_TMP)
  BY DEF ComputeLocalAddress
<1> HIDE DEF loaded
<1>4. /\ loaded \in MachineStates /\ loaded.r[REG_FP] = machine.r[REG_FP]
      /\ loaded.r[REG_TMP] = Byte(offset)
  BY <1>1, <1>2 DEF Writes
<1>5. Writes(loaded, ComputeLocalAddress(machine, offset), REG_TMP,
             Byte(Alu("SUB", loaded.r[REG_FP], loaded.r[REG_TMP])))
  BY <1>1, <1>3, <1>4, Written DEF AllBinaryOps
<1>6. Alu("SUB", loaded.r[REG_FP], loaded.r[REG_TMP]) = machine.r[REG_FP] - Byte(offset)
  BY <1>4 DEF Alu
<1>7. machine.r[REG_FP] \in Int
  BY <1>1, MachineParts
<1>8. Byte(machine.r[REG_FP] - Byte(offset)) = LocalCell(machine.r[REG_FP], offset)
  BY <1>7, ByteOfDifference DEF LocalCell
<1>9. QED
  BY <1>2, <1>5, <1>6, <1>8 DEF Writes

-----------------------------------------------------------------------------
(* What a step does to the values, the names and the hidden names *)

(* What the invariant says of each variable, in the form the steps use it.  *)
LEMMA Parts ==
    ASSUME SourceInv
    PROVE  /\ TypeOK /\ ListsNest /\ AddressesFit /\ CacheSound
           /\ operands \in Seq(General) /\ Len(operands) \in Nat /\ DOMAIN operands = 1..Len(operands)
           /\ \A i \in 1..Len(operands) : operands[i] \in General /\ operands[i] \in Registers
           /\ cpu \in MachineStates /\ cpu.r \in [Registers -> Word] /\ cpu.m \in [Word -> Word]
           /\ cpu.r[REG_FP] \in Word /\ cpu.r[REG_SP] \in Word
           /\ symbols \in Seq(Symbols) /\ scopes \in Seq(Scopes)
           /\ Distinct(operands) /\ InUse(registers) = HeldIn(operands)
           /\ \A reg \in Available(registers) : \A i \in 1..Len(operands) : operands[i] # reg
           /\ Values \in Seq(Word) /\ Len(Values) = Len(operands)
           /\ \A i \in 1..Len(operands) : Values[i] = cpu.r[operands[i]] /\ Values[i] \in Word
<1>1. /\ TypeOK /\ ListsNest /\ AddressesFit /\ CacheSound /\ RegisterDiscipline
  BY DEF SourceInv, ShapeInv, RegisterInv, CacheInv
<1>2. /\ operands \in Seq(General) /\ cpu \in MachineStates
      /\ symbols \in Seq(Symbols) /\ scopes \in Seq(Scopes)
  BY <1>1 DEF TypeOK
<1>3. /\ Len(operands) \in Nat /\ DOMAIN operands = 1..Len(operands)
      /\ \A i \in 1..Len(operands) : operands[i] \in General /\ operands[i] \in Registers
  BY <1>2, RegisterNumbers
<1>4. cpu.r \in [Registers -> Word] /\ cpu.m \in [Word -> Word]
  BY <1>2 DEF MachineStates
<1>5. cpu.r[REG_FP] \in Word /\ cpu.r[REG_SP] \in Word
  BY <1>4, RegisterNumbers
<1>6. Distinct(operands) /\ InUse(registers) = HeldIn(operands)
  BY <1>1, Discipline
<1>7. \A reg \in Available(registers) : \A i \in 1..Len(operands) : operands[i] # reg
  BY <1>3, <1>6 DEF Available, InUse, HeldIn
<1>8. /\ Values \in Seq(Word) /\ Len(Values) = Len(operands)
      /\ \A i \in 1..Len(operands) : Values[i] = cpu.r[operands[i]] /\ Values[i] \in Word
  BY <1>2, <1>4, ValuesAre DEF Values
<1>9. QED
  BY <1>1, <1>2, <1>3, <1>4, <1>5, <1>6, <1>7, <1>8

(* The types of the next state, likewise.                                   *)
LEMMA NextParts ==
    ASSUME TypeOK'
    PROVE  /\ operands' \in Seq(General) /\ cpu'.r \in [Registers -> Word]
           /\ cpu'.m \in [Word -> Word] /\ symbols' \in Seq(Symbols) /\ scopes' \in Seq(Scopes)
           /\ cpu'.r[REG_FP] \in Word
<1>1. /\ operands' \in Seq(General) /\ cpu'.r \in [Registers -> Word]
      /\ cpu'.m \in [Word -> Word] /\ symbols' \in Seq(Symbols) /\ scopes' \in Seq(Scopes)
  BY DEF TypeOK, MachineStates
<1>2. QED
  BY <1>1, RegisterNumbers

(* Nothing happened to the names.                                           *)
LEMMA SameNames ==
    ASSUME symbols' = symbols, scopes' = scopes, cpu'.r[REG_FP] = cpu.r[REG_FP]
    PROVE  Env' = Env /\ Hidden' = Hidden
BY DEF Env, Hidden

(* The operands from some point on give way to one in reg.                  *)
LEMMA ValuesReplaced ==
    ASSUME SourceInv, TypeOK', NEW n \in Nat, n <= Len(operands), NEW reg \in General,
           operands' = Append(SubSeq(operands, 1, n), reg),
           \A i \in 1..n : cpu'.r[operands[i]] = cpu.r[operands[i]]
    PROVE  Values' = Append(SubSeq(Values, 1, n), cpu'.r[reg])
<1> DEFINE front == SubSeq(operands, 1, n)
<1>1. operands \in Seq(General) /\ cpu.r \in [Registers -> Word] /\ cpu'.r \in [Registers -> Word]
  BY Parts, NextParts
<1>2. /\ front \in Seq(General) /\ Len(front) = n /\ \A i \in 1..n : front[i] = operands[i]
      /\ ValuesOf(front, cpu.r) = SubSeq(Values, 1, n)
  BY <1>1, ValuesFront DEF Values
<1>3. operands' = Append(front, reg)
  OBVIOUS
<1> HIDE DEF front
<1>4. \A i \in 1..Len(front) : cpu'.r[front[i]] = cpu.r[front[i]]
  <2>1. \A i \in 1..n : cpu'.r[operands[i]] = cpu.r[operands[i]]
    OBVIOUS
  <2>2. \A i \in 1..n : cpu'.r[front[i]] = cpu.r[front[i]]
    BY <1>2, <2>1
  <2>3. QED
    BY <1>2, <2>2
<1>5. ValuesOf(Append(front, reg), cpu'.r) = Append(ValuesOf(front, cpu.r), cpu'.r[reg])
  BY <1>1, <1>2, <1>4, ValuesPush
<1>6. QED
  BY <1>2, <1>3, <1>5 DEF Values

(* A fresh register is pushed; its code writes no other register but tmp.   *)
LEMMA ValuePushed ==
    ASSUME SourceInv, TypeOK', NEW reg \in General, reg \in Available(registers),
           operands' = Append(operands, reg), cpu'.m = cpu.m,
           \A other \in Registers \ {reg, REG_TMP} : cpu'.r[other] = cpu.r[other],
           calls' = calls, state' = state
    PROVE  Values' = Append(Values, cpu'.r[reg]) /\ RestKept
<1>1. /\ operands \in Seq(General) /\ cpu.r \in [Registers -> Word] /\ cpu'.r \in [Registers -> Word]
      /\ \A i \in 1..Len(operands) : operands[i] \in General /\ operands[i] # reg
  BY Parts, NextParts
<1>2. \A i \in 1..Len(operands) : cpu'.r[operands[i]] = cpu.r[operands[i]]
  BY <1>1, FrameRegisters
<1>3. Values' = Append(Values, cpu'.r[reg])
  BY <1>1, <1>2, ValuesPush DEF Values
<1>4. cpu'.r[REG_FP] = cpu.r[REG_FP]
  BY FrameRegisters
<1>5. Env' = Env /\ Hidden' = Hidden
  BY <1>4, SameNames DEF state
<1>6. QED
  BY <1>3, <1>5 DEF RestKept

(* A value pushed in a fresh register, and nothing else changed.            *)
LEMMA PushedBy ==
    ASSUME SourceInv, TypeOK', NEW reg \in General, Fresh(reg), NEW machine, NEW value,
           PushTemporary(reg, machine), Writes(cpu, machine, reg, value)
    PROVE  Values' = Append(Values, value) /\ RestKept
<1>1. /\ reg \in Available(registers) /\ operands' = Append(operands, reg) /\ cpu' = machine
      /\ calls' = calls /\ state' = state
  BY DEF Fresh, IsLowest, PushTemporary
<1>2. /\ cpu'.m = cpu.m /\ cpu'.r[reg] = value
      /\ \A other \in Registers \ {reg, REG_TMP} : cpu'.r[other] = cpu.r[other]
  BY <1>1 DEF Writes
<1>3. QED
  BY <1>1, <1>2, ValuePushed

-----------------------------------------------------------------------------
(* Expressions *)

(* The newest symbol of a name says where its cell is.                      *)
LEMMA NamedBy ==
    ASSUME SourceInv, NEW i, NEW x, IsNewest(symbols, i, x)
    PROVE  /\ x \in DOMAIN Env /\ Env[x] \in Word
           /\ symbols[i].place \in Nat
           /\ symbols[i].storage = "global" => symbols[i].place \in Word /\ Env[x] = symbols[i].place
           /\ symbols[i].storage = "local" => Env[x] = LocalCell(cpu.r[REG_FP], symbols[i].place)
<1>1. symbols \in Seq(Symbols) /\ cpu.r[REG_FP] \in Word /\ TypeOK /\ AddressesFit
  BY Parts
<1>2. x \in DOMAIN Env /\ Env[x] = CellOf(symbols[i], cpu.r[REG_FP]) /\ Env[x] \in Word
  <2> DEFINE env == EnvironmentOf(symbols, cpu.r[REG_FP])
  <2>1. /\ \A y, j : IsNewest(symbols, j, y) =>
              y \in DOMAIN env /\ env[y] = CellOf(symbols[j], cpu.r[REG_FP])
        /\ \A y \in DOMAIN env : env[y] \in Word
    BY <1>1, EnvironmentIs
  <2> HIDE DEF env
  <2>2. Env = env
    BY DEF Env, env
  <2>3. QED
    BY <2>1, <2>2
<1>3. i \in DOMAIN symbols
  BY DEF IsNewest
<1>4. symbols[i].place \in Nat
  BY <1>1, <1>3, PlaceIsNat
<1>5. symbols[i].storage = "global" => symbols[i].place \in Word
  BY <1>1, <1>3, AddressIsCell
<1>6. symbols[i].storage = "global" => Env[x] = symbols[i].place
  BY <1>2, <1>5, ByteIsWord DEF CellOf
<1>7. QED
  BY <1>2, <1>4, <1>5, <1>6 DEF CellOf

(* A name with no symbol stands for no cell.                                *)
LEMMA NamedByNone ==
    ASSUME SourceInv, NEW x, Unknown(symbols, x)
    PROVE  x \notin DOMAIN Env
<1>1. symbols \in Seq(Symbols) /\ cpu.r[REG_FP] \in Word
  BY Parts
<1>2. QED
  BY <1>1, EnvironmentIs DEF Env

(* A constant is loaded as a byte.                                          *)
LEMMA LiteralStep ==
    ASSUME SourceInv, TypeOK', NEW v \in Literals, ConstantLoad(v)
    PROVE  Source!Literal
<1>1. PICK reg \in General : Fresh(reg) /\ PushTemporary(reg, Afc(cpu, reg, v))
  BY DEF ConstantLoad
<1>2. v \in Int /\ cpu \in MachineStates /\ reg \in Registers
  BY Parts, CodeGenAssumption, RegisterNumbers
<1>3. Writes(cpu, Afc(cpu, reg, v), reg, Byte(v))
  BY <1>2, Written
<1>4. Values' = Append(Values, Byte(v)) /\ RestKept
  BY <1>1, <1>3, PushedBy
<1>5. Values' = Append(Values, v % WordSize)
  BY <1>4 DEF Byte
<1>6. Saw("literal", Nothing, <<v>>)
  BY DEF ConstantLoad
<1>7. QED
  BY <1>4, <1>5, <1>6, AsLiteral

(* An unknown name reads as 0.                                              *)
LEMMA ReadUnknownStep ==
    ASSUME SourceInv, TypeOK', NEW x \in Names, LoadUnknown(x)
    PROVE  Source!Read
<1>1. PICK reg \in General : Fresh(reg) /\ PushTemporary(reg, Afc(cpu, reg, 0))
  BY DEF LoadUnknown
<1>2. cpu \in MachineStates /\ reg \in Registers
  BY Parts, RegisterNumbers
<1>3. Byte(0) = 0
  BY ByteIsWord
<1>4. Writes(cpu, Afc(cpu, reg, 0), reg, 0)
  BY <1>2, <1>3, Written
<1>5. Values' = Append(Values, 0) /\ RestKept
  BY <1>1, <1>4, PushedBy
<1>6. x \notin DOMAIN Env
  BY NamedByNone DEF LoadUnknown
<1>7. QED
  BY <1>5, <1>6, AsRead DEF LoadUnknown

(* A local is read at fp less its offset.                                   *)
LEMMA ReadLocalStep ==
    ASSUME SourceInv, TypeOK', NEW x \in Names, LoadLocal(x)
    PROVE  Source!Read
<1>1. PICK i \in DOMAIN symbols, reg \in General :
          /\ IsNewest(symbols, i, x) /\ symbols[i].storage = "local" /\ Fresh(reg)
          /\ PushTemporary(reg, LoadR(ComputeLocalAddress(cpu, symbols[i].place), reg, REG_TMP))
  BY DEF LoadLocal
<1> DEFINE addressed == ComputeLocalAddress(cpu, symbols[i].place)
           machine == LoadR(addressed, reg, REG_TMP)
<1>2. /\ x \in DOMAIN Env /\ Env[x] = LocalCell(cpu.r[REG_FP], symbols[i].place)
      /\ symbols[i].place \in Nat
  BY <1>1, NamedBy
<1>3. cpu \in MachineStates /\ reg \in Registers /\ REG_TMP \in Registers
  BY Parts, RegisterNumbers, FrameRegisters
<1>4. Writes(cpu, addressed, REG_TMP, Env[x])
  BY <1>2, <1>3, LocalAddressWritten
<1>5. /\ reg \in Available(registers) /\ operands' = Append(operands, reg) /\ cpu' = machine
      /\ calls' = calls /\ state' = state
  BY <1>1 DEF Fresh, IsLowest, PushTemporary
<1> HIDE DEF addressed
<1>6. addressed \in MachineStates /\ addressed.m = cpu.m /\ addressed.r[REG_TMP] = Env[x]
  BY <1>4 DEF Writes
<1>7. Writes(addressed, machine, reg, cpu.m[Env[x]])
  BY <1>3, <1>6, Written
<1> HIDE DEF machine
<1>8. /\ cpu'.m = cpu.m /\ cpu'.r[reg] = cpu.m[Env[x]]
      /\ \A other \in Registers \ {reg, REG_TMP} : cpu'.r[other] = cpu.r[other]
  BY <1>4, <1>5, <1>7 DEF Writes
<1>9. Values' = Append(Values, cpu.m[Env[x]]) /\ RestKept
  BY <1>5, <1>8, ValuePushed
<1>10. QED
  BY <1>2, <1>9, AsRead DEF LoadLocal

(* Nothing is emitted: that the register still has what memory has is       *)
(* CacheSound.                                                              *)
LEMMA ReadCachedStep ==
    ASSUME SourceInv, TypeOK', NEW x \in Names, LoadCached(x)
    PROVE  Source!Read
<1>1. PICK i \in DOMAIN symbols, reg \in General :
          /\ IsNewest(symbols, i, x) /\ symbols[i].storage = "global"
          /\ IsLowest(reg, CleanCopies(registers, symbols[i].place))
          /\ operands' = Append(operands, reg)
  BY DEF LoadCached
<1>2. /\ x \in DOMAIN Env /\ Env[x] = symbols[i].place
      /\ symbols[i].place \in Nat
  BY <1>1, NamedBy
<1>3. /\ reg \in Available(registers) /\ registers[reg].memory_address = symbols[i].place
      /\ ~registers[reg].temporary
  BY <1>1 DEF IsLowest, CleanCopies
<1>4. BoundCopy(reg)
  BY <1>2, <1>3, RegisterNumbers DEF BoundCopy
<1>5. cpu.r[reg] = cpu.m[Env[x]]
  BY <1>2, <1>3, <1>4, Parts DEF CacheSound, Agrees
<1>6. cpu' = cpu /\ calls' = calls /\ state' = state
  BY DEF LoadCached
<1>7. Values' = Append(Values, cpu'.r[reg]) /\ RestKept
  BY <1>1, <1>3, <1>6, ValuePushed
<1>8. Values' = Append(Values, cpu.m[Env[x]])
  BY <1>5, <1>6, <1>7
<1>9. QED
  BY <1>2, <1>7, <1>8, AsRead DEF LoadCached

(* A global is read at its address.                                         *)
LEMMA ReadGlobalStep ==
    ASSUME SourceInv, TypeOK', NEW x \in Names, LoadGlobal(x)
    PROVE  Source!Read
<1>1. PICK i \in DOMAIN symbols, reg \in General :
          /\ IsNewest(symbols, i, x) /\ symbols[i].storage = "global" /\ Fresh(reg)
          /\ operands' = Append(operands, reg)
          /\ cpu' = Load(cpu, reg, symbols[i].place)
  BY DEF LoadGlobal
<1>2. /\ x \in DOMAIN Env /\ Env[x] = symbols[i].place /\ symbols[i].place \in Word
  BY <1>1, NamedBy
<1>3. cpu \in MachineStates /\ reg \in Registers /\ reg \in Available(registers)
  BY <1>1, Parts, RegisterNumbers DEF Fresh, IsLowest
<1>4. Writes(cpu, cpu', reg, cpu.m[Env[x]])
  BY <1>1, <1>2, <1>3, Written
<1>5. /\ cpu'.m = cpu.m /\ cpu'.r[reg] = cpu.m[Env[x]]
      /\ \A other \in Registers \ {reg, REG_TMP} : cpu'.r[other] = cpu.r[other]
  BY <1>4 DEF Writes
<1>6. calls' = calls /\ state' = state /\ Saw("read", x, <<>>)
  BY DEF LoadGlobal
<1>7. Values' = Append(Values, cpu.m[Env[x]]) /\ RestKept
  BY <1>1, <1>3, <1>5, <1>6, ValuePushed
<1>8. QED
  BY <1>2, <1>6, <1>7, AsRead

(* The address of a local is fp less its offset, in the register itself.    *)
LEMMA AddressOfLocalStep ==
    ASSUME SourceInv, TypeOK', NEW x \in Names, AddressOfLocal(x)
    PROVE  Source!AddressOf
<1>1. PICK i \in DOMAIN symbols, reg \in General :
          /\ IsNewest(symbols, i, x) /\ symbols[i].storage = "local" /\ Fresh(reg)
          /\ PushTemporary(reg, Ternary(Afc(cpu, reg, symbols[i].place), "SUB", reg, REG_FP, reg))
  BY DEF AddressOfLocal
<1> DEFINE place == symbols[i].place
           fp == cpu.r[REG_FP]
           loaded == Afc(cpu, reg, place)
           machine == Ternary(loaded, "SUB", reg, REG_FP, reg)
<1>2. /\ x \in DOMAIN Env /\ Env[x] = LocalCell(fp, place) /\ Env[x] \in Word
      /\ place \in Nat
  BY <1>1, NamedBy
<1>3. /\ cpu \in MachineStates /\ reg \in Registers /\ REG_FP \in Registers /\ reg # REG_FP
      /\ fp \in Int
  <2>1. cpu \in MachineStates /\ fp \in Word
    BY Parts
  <2>2. reg \in Registers /\ REG_FP \in Registers /\ reg # REG_FP
    BY FrameRegisters
  <2> HIDE DEF fp
  <2>3. QED
    BY <2>1, <2>2, ByteIsWord
<1>4. PushTemporary(reg, machine)
  BY <1>1
<1>5. Writes(cpu, loaded, reg, Byte(place))
  BY <1>2, <1>3, Written
<1> HIDE DEF loaded
<1>6. loaded \in MachineStates /\ loaded.r[REG_FP] = fp /\ loaded.r[reg] = Byte(place)
  BY <1>3, <1>5 DEF Writes
<1>7. Writes(loaded, machine, reg, Byte(Alu("SUB", loaded.r[REG_FP], loaded.r[reg])))
  BY <1>3, <1>6, Written DEF AllBinaryOps
<1> HIDE DEF machine
<1>8. Byte(Alu("SUB", loaded.r[REG_FP], loaded.r[reg])) = Env[x]
  <2>1. Alu("SUB", loaded.r[REG_FP], loaded.r[reg]) = fp - Byte(place)
    BY <1>6 DEF Alu
  <2> HIDE DEF fp, place
  <2>2. Byte(fp - Byte(place)) = Byte(fp - place)
    BY <1>2, <1>3, ByteOfDifference
  <2>3. QED
    BY <1>2, <2>1, <2>2 DEF LocalCell
<1>9. Writes(cpu, machine, reg, Env[x])
  BY <1>5, <1>7, <1>8 DEF Writes
<1>10. Values' = Append(Values, Env[x]) /\ RestKept
  BY <1>1, <1>4, <1>9, PushedBy
<1>11. QED
  BY <1>2, <1>10, AsAddressOf DEF AddressOfLocal

(* The address of a global is its place.                                    *)
LEMMA AddressOfGlobalStep ==
    ASSUME SourceInv, TypeOK', NEW x \in Names, AddressOfGlobal(x)
    PROVE  Source!AddressOf
<1>1. PICK i \in DOMAIN symbols, reg \in General :
          /\ IsNewest(symbols, i, x) /\ symbols[i].storage = "global" /\ Fresh(reg)
          /\ PushTemporary(reg, Afc(cpu, reg, symbols[i].place))
  BY DEF AddressOfGlobal
<1>2. /\ x \in DOMAIN Env /\ Env[x] = symbols[i].place /\ symbols[i].place \in Word
      /\ symbols[i].place \in Nat
  BY <1>1, NamedBy
<1>3. cpu \in MachineStates /\ reg \in Registers /\ Byte(symbols[i].place) = Env[x]
  BY <1>2, Parts, RegisterNumbers, ByteIsWord
<1>4. Writes(cpu, Afc(cpu, reg, symbols[i].place), reg, Env[x])
  BY <1>2, <1>3, Written
<1>5. Values' = Append(Values, Env[x]) /\ RestKept
  BY <1>1, <1>4, PushedBy
<1>6. QED
  BY <1>2, <1>5, AsAddressOf DEF AddressOfGlobal

(* An unknown name has whatever address its register held.                  *)
LEMMA AddressOfUnknownStep ==
    ASSUME SourceInv, TypeOK', NEW x \in Names, AddressOfUnknown(x)
    PROVE  Source!AddressOf
<1>1. PICK reg \in General : Fresh(reg) /\ operands' = Append(operands, reg)
  BY DEF AddressOfUnknown
<1>2. /\ cpu' = cpu /\ calls' = calls /\ state' = state /\ Saw("address", x, <<>>)
      /\ reg \in Available(registers)
  BY <1>1 DEF AddressOfUnknown, Fresh, IsLowest
<1>3. Values' = Append(Values, cpu.r[reg]) /\ RestKept
  BY <1>1, <1>2, ValuePushed
<1>4. x \notin DOMAIN Env
  BY NamedByNone DEF AddressOfUnknown
<1>5. cpu.r[reg] \in Word
  BY Parts, RegisterNumbers
<1>6. QED
  BY <1>2, <1>3, <1>4, <1>5, AsAddressOf

(* With the same machine and the same tables the mapping is the same.       *)
LEMMA SameMachine ==
    ASSUME operands' = operands, cpu' = cpu, symbols' = symbols, scopes' = scopes
    PROVE  Values' = Values /\ Env' = Env /\ Hidden' = Hidden
BY DEF Values, Env, Hidden

(* A sequence ends with its last entry.                                     *)
LEMMA FrontAndLast ==
    ASSUME NEW list \in Seq(General), NEW n \in Nat, n < Len(list)
    PROVE  SubSeq(list, 1, n + 1) = Append(SubSeq(list, 1, n), list[n + 1])
<1> DEFINE front == SubSeq(list, 1, n)
           s == SubSeq(list, 1, n + 1)
           t == Append(front, list[n + 1])
<1>1. Len(list) \in Nat /\ n + 1 \in 1..Len(list) /\ \A i \in 1..(n + 1) : i \in 1..Len(list)
  OBVIOUS
<1>2. list[n + 1] \in General
  BY <1>1
<1>3. front \in Seq(General) /\ Len(front) = n /\ \A i \in 1..n : front[i] = list[i]
  OBVIOUS
<1>4. s \in Seq(General) /\ Len(s) = n + 1 /\ \A i \in 1..(n + 1) : s[i] = list[i]
  <2>1. n + 1 \in Nat /\ n + 1 <= Len(list)
    BY <1>1
  <2> DEFINE k == n + 1
  <2> HIDE DEF k
  <2>2. k \in Nat /\ k <= Len(list)
    BY <2>1 DEF k
  <2>3. /\ SubSeq(list, 1, k) \in Seq(General) /\ Len(SubSeq(list, 1, k)) = k
        /\ \A i \in 1..k : SubSeq(list, 1, k)[i] = list[i]
    BY <2>2
  <2>4. QED
    BY <2>3 DEF k
<1> HIDE DEF front
<1>5. /\ t \in Seq(General) /\ Len(t) = n + 1 /\ t[n + 1] = list[n + 1]
      /\ \A i \in 1..n : t[i] = front[i]
  BY <1>2, <1>3, AppendProperties
<1> HIDE DEF s, t
<1>6. ASSUME NEW i \in 1..(n + 1) PROVE s[i] = t[i]
  <2>1. i = n + 1 \/ i \in 1..n
    OBVIOUS
  <2>2. QED
    BY <1>3, <1>4, <1>5, <2>1
<1>7. s = t
  BY <1>4, <1>5, <1>6, SameValues
<1>8. QED
  BY <1>7 DEF s, t, front

(* The operation leaves the left operand's register with the result; the    *)
(* operands below are in other registers (RegisterDiscipline).              *)
LEMMA CombineStep ==
    ASSUME SourceInv, TypeOK', NEW op \in BinaryOps, Binary(op)
    PROVE  Source!Combine
<1> DEFINE n == Len(operands) - 2
           left == operands[Len(operands) - 1]
<1>1. /\ Len(operands) >= Held + 2 /\ Held \in Nat /\ Len(operands) \in Nat
  BY Parts, HeldIsNat DEF Binary
<1>2. /\ n \in Nat /\ Len(operands) = n + 2 /\ Len(operands) - 1 = n + 1
      /\ n + 1 \in 1..Len(operands) /\ n + 2 \in 1..Len(operands)
      /\ \A i \in 1..n : i \in 1..Len(operands) /\ i # n + 1
  BY <1>1
<1> HIDE DEF n
<1>3. left = operands[n + 1] /\ Top = operands[n + 2]
  BY <1>2 DEF Top
<1>4. /\ left \in General /\ left \in Registers /\ Top \in Registers
      /\ cpu \in MachineStates /\ op \in AllBinaryOps
      /\ \A i \in 1..n : operands[i] \in Registers /\ operands[i] # left
  <2>1. /\ \A i \in 1..Len(operands) : operands[i] \in General /\ operands[i] \in Registers
        /\ Distinct(operands) /\ DOMAIN operands = 1..Len(operands) /\ cpu \in MachineStates
    BY Parts
  <2>2. \A i \in 1..n : operands[i] # operands[n + 1]
    BY <1>2, <2>1 DEF Distinct
  <2>3. QED
    BY <1>2, <1>3, <2>1, <2>2, CodeGenAssumption
<1>5. cpu' = Ternary(cpu, op, left, left, Top) /\ operands' = Pop
  BY DEF Binary
<1>6. Writes(cpu, cpu', left, Byte(Alu(op, cpu.r[left], cpu.r[Top])))
  BY <1>4, <1>5, Written
<1>7. operands' = Append(SubSeq(operands, 1, n), left)
  <2>1. n < Len(operands) /\ operands \in Seq(General)
    BY <1>2, Parts
  <2>2. SubSeq(operands, 1, n + 1) = Append(SubSeq(operands, 1, n), operands[n + 1])
    BY <1>2, <2>1, FrontAndLast
  <2>3. Pop = SubSeq(operands, 1, n + 1)
    BY <1>2 DEF Pop
  <2>4. QED
    BY <1>3, <1>5, <2>2, <2>3
<1>8. \A i \in 1..n : cpu'.r[operands[i]] = cpu.r[operands[i]]
  BY <1>4, <1>6 DEF Writes
<1>9. Values' = Append(SubSeq(Values, 1, n), cpu'.r[left])
  <2>1. n <= Len(operands)
    BY <1>2
  <2>2. QED
    BY <1>2, <1>4, <1>7, <1>8, <2>1, ValuesReplaced
<1>10. /\ Values[n + 1] = cpu.r[left] /\ Values[n + 2] = cpu.r[Top]
       /\ Len(Values) = n + 2 /\ Values \in Seq(Word)
  BY <1>2, <1>3, Parts
<1>11. cpu'.r[left] = Alu(op, Values[n + 1], Values[n + 2]) % WordSize
  BY <1>6, <1>10 DEF Writes, Byte
<1>12. RestKept
  <2>1. cpu'.m = cpu.m /\ cpu'.r[REG_FP] = cpu.r[REG_FP]
    BY <1>4, <1>6, FrameRegisters DEF Writes
  <2>2. calls' = calls /\ symbols' = symbols /\ scopes' = scopes
    BY DEF Binary, state
  <2>3. QED
    BY <2>1, <2>2, SameNames DEF RestKept
<1>13. QED
  BY <1>2, <1>9, <1>10, <1>11, <1>12, AsCombine DEF Binary

(* NOT and the pointer read work in the register of their operand.          *)
LEMMA OverwriteStep ==
    ASSUME SourceInv, TypeOK', Unary \/ PointerLoad
    PROVE  Source!Negate \/ Source!Follow
<1> DEFINE n == Len(operands) - 1
<1>1. Len(operands) > Held /\ Held \in Nat /\ Len(operands) \in Nat
  BY Parts, HeldIsNat DEF Unary, PointerLoad, Overwrite
<1>2. /\ n \in Nat /\ Len(operands) = n + 1 /\ n + 1 \in 1..Len(operands)
      /\ \A i \in 1..n : i \in 1..Len(operands) /\ i # n + 1
  BY <1>1
<1> HIDE DEF n
<1>3. Top = operands[n + 1]
  BY <1>2 DEF Top
<1>4. /\ Top \in General /\ Top \in Registers /\ cpu \in MachineStates
      /\ \A i \in 1..n : operands[i] \in Registers /\ operands[i] # Top
  <2>1. /\ \A i \in 1..Len(operands) : operands[i] \in General /\ operands[i] \in Registers
        /\ Distinct(operands) /\ DOMAIN operands = 1..Len(operands) /\ cpu \in MachineStates
    BY Parts
  <2>2. \A i \in 1..n : operands[i] # operands[n + 1]
    BY <1>2, <2>1 DEF Distinct
  <2>3. QED
    BY <1>2, <1>3, <2>1, <2>2
<1>5. operands' = operands /\ calls' = calls /\ symbols' = symbols /\ scopes' = scopes
  BY DEF Unary, PointerLoad, Overwrite, state
<1>6. operands' = Append(SubSeq(operands, 1, n), Top)
  <2>1. n < Len(operands) /\ operands \in Seq(General)
    BY <1>2, Parts
  <2>2. SubSeq(operands, 1, n + 1) = Append(SubSeq(operands, 1, n), operands[n + 1])
    BY <1>2, <2>1, FrontAndLast
  <2>3. operands = SubSeq(operands, 1, n + 1)
    <3> DEFINE k == n + 1
    <3>1. k = Len(operands)
      BY <1>2
    <3> HIDE DEF k
    <3>2. operands = SubSeq(operands, 1, k)
      BY <2>1, <3>1
    <3>3. QED
      BY <3>2 DEF k
  <2>4. QED
    BY <1>3, <1>5, <2>2, <2>3
<1>7. Values[n + 1] = cpu.r[Top] /\ Len(Values) = n + 1 /\ Values \in Seq(Word)
  BY <1>2, <1>3, Parts
<1>8. ASSUME NEW value, Writes(cpu, cpu', Top, value)
      PROVE  Values' = Append(SubSeq(Values, 1, n), value) /\ RestKept
  <2>1. \A i \in 1..n : cpu'.r[operands[i]] = cpu.r[operands[i]]
    BY <1>4, <1>8 DEF Writes
  <2>2. n <= Len(operands)
    BY <1>2
  <2>3. Values' = Append(SubSeq(Values, 1, n), cpu'.r[Top])
    BY <1>2, <1>4, <1>6, <2>1, <2>2, ValuesReplaced
  <2>4. cpu'.m = cpu.m /\ cpu'.r[REG_FP] = cpu.r[REG_FP] /\ cpu'.r[Top] = value
    BY <1>4, <1>8, FrameRegisters DEF Writes
  <2>5. QED
    BY <1>5, <2>3, <2>4, SameNames DEF RestKept
<1>9. CASE Unary
  <2>1. cpu' = Not(cpu, Top, Top) /\ Saw("not", Nothing, <<>>)
    BY <1>9 DEF Unary, Overwrite
  <2>2. Writes(cpu, cpu', Top, IF Values[n + 1] = 0 THEN 1 ELSE 0)
    BY <1>4, <1>7, <2>1, Written
  <2>3. QED
    BY <1>2, <1>7, <1>8, <2>1, <2>2, AsTop
<1>10. CASE PointerLoad
  <2>1. cpu' = LoadR(cpu, Top, Top) /\ Saw("follow", Nothing, <<>>)
    BY <1>10 DEF PointerLoad, Overwrite
  <2>2. Writes(cpu, cpu', Top, cpu.m[Values[n + 1]])
    BY <1>4, <1>7, <2>1, Written
  <2>3. QED
    BY <1>2, <1>7, <1>8, <2>1, <2>2, AsTop
<1>11. QED
  BY <1>9, <1>10

(* exit() changes nothing the source knows of.                              *)
LEMMA ExitStep ==
    ASSUME Exit
    PROVE  Source!Abandoned
<1>1. /\ operands' = operands /\ calls' = calls /\ cpu' = cpu /\ symbols' = symbols
      /\ scopes' = scopes /\ Saw("exit", Nothing, <<>>)
  BY DEF Exit, state
<1>2. QED
  BY <1>1, SameMachine, AsAbandoned DEF RestKept

(* Every step of an expression is one of the source.                        *)
LEMMA ExpressionStep ==
    ASSUME SourceInv, TypeOK', Expression
    PROVE  Source!Next
<1>1. CASE \E v \in Literals : ConstantLoad(v)
  BY <1>1, LiteralStep DEF Source!Next
<1>2. CASE \E x \in Names : \/ LoadUnknown(x) \/ LoadLocal(x) \/ LoadCached(x) \/ LoadGlobal(x)
  BY <1>2, ReadUnknownStep, ReadLocalStep, ReadCachedStep, ReadGlobalStep DEF Source!Next
<1>3. CASE \E x \in Names : \/ AddressOfLocal(x) \/ AddressOfGlobal(x) \/ AddressOfUnknown(x)
  BY <1>3, AddressOfLocalStep, AddressOfGlobalStep, AddressOfUnknownStep DEF Source!Next
<1>4. CASE \E op \in BinaryOps : Binary(op)
  BY <1>4, CombineStep DEF Source!Next
<1>5. CASE Unary \/ PointerLoad
  BY <1>5, OverwriteStep DEF Source!Next
<1>6. CASE OutOfRegisters
  BY <1>6, ExitStep DEF OutOfRegisters, Source!Next
<1>7. QED
  BY <1>1, <1>2, <1>3, <1>4, <1>5, <1>6 DEF Expression

-----------------------------------------------------------------------------
(* Statements *)

(* The one value of a statement is in the register of the one operand.      *)
LEMMA OneLeft ==
    ASSUME SourceInv, Len(operands) = 1
    PROVE  /\ Len(Values) = 1 /\ Values[1] = cpu.r[Top] /\ Values = <<cpu.r[Top]>>
           /\ Top \in General /\ Top \in Registers /\ cpu.r[Top] \in Word
<1>1. /\ Top = operands[1] /\ 1 \in 1..Len(operands)
      /\ Values \in Seq(Word) /\ Len(Values) = 1 /\ Values[1] = cpu.r[operands[1]]
      /\ operands[1] \in General /\ operands[1] \in Registers /\ cpu.r[operands[1]] \in Word
  BY Parts DEF Top
<1>2. Values = <<Values[1]>>
  BY <1>1
<1>3. QED
  BY <1>1, <1>2

(* A statement that consumed its operands left no value.                    *)
LEMMA NoneLeft ==
    /\ operands = <<>> => Values = <<>>
    /\ operands' = <<>> => Values' = <<>>
BY NoValues DEF Values

(* Symbols are added behind those the open blocks give back.                *)
LEMMA HiddenKept ==
    ASSUME SourceInv, TypeOK', phase # "exit", scopes' = scopes, cpu'.r[REG_FP] = cpu.r[REG_FP],
           Len(symbols) <= Len(symbols'), \A i \in 1..Len(symbols) : symbols'[i] = symbols[i]
    PROVE  Hidden' = Hidden
<1>1. /\ symbols \in Seq(Symbols) /\ symbols' \in Seq(Symbols) /\ scopes \in Seq(Scopes)
  BY Parts, NextParts
<1>2. CASE scopes = <<>>
  BY <1>2, NothingHidden DEF Hidden
<1>3. CASE scopes # <<>>
  <2>1. ShapeInv /\ InsideFunction
    BY <1>3 DEF SourceInv, ShapeInv, BasesAgree, InsideFunction, Bodies
  <2>2. \A i \in DOMAIN scopes : scopes[i].symbol_table_base <= Len(symbols)
    BY <1>3, <2>1, ScopesAscend
  <2> DEFINE n == Len(symbols)
             fp == cpu.r[REG_FP]
  <2>3. n \in Nat /\ n <= Len(symbols) /\ n <= Len(symbols')
    BY <1>1
  <2>4. HiddenOf(scopes, symbols', fp) = HiddenOf(scopes, symbols, fp)
    <3>1. \A i \in 1..n : symbols'[i] = symbols[i]
      OBVIOUS
    <3>2. \A i \in DOMAIN scopes : scopes[i].symbol_table_base <= n
      BY <2>2
    <3> HIDE DEF n, fp
    <3>3. QED
      BY <1>1, <2>3, <3>1, <3>2, HiddenSame
  <2>5. QED
    BY <2>4 DEF Hidden
<1>4. QED
  BY <1>2, <1>3

(* The name x stands for the cell now, every other name for what it did.    *)
NamesAfter(x, cell) ==
    /\ Hidden' = Hidden /\ cell \in Word
    /\ Env' = [y \in DOMAIN Env \cup {x} |-> IF y = x THEN cell ELSE Env[y]]

(* A declared name is in the table and gets its cell, and no other changes. *)
LEMMA NameDeclared ==
    ASSUME SourceInv, TypeOK', phase # "exit", scopes' = scopes, cpu'.r[REG_FP] = cpu.r[REG_FP],
           NEW x \in Names, NEW place \in Nat, NEW cell,
           \/ Declare(x, "global", place) /\ cell = Byte(place)
           \/ Declare(x, "local", place) /\ cell = LocalCell(cpu.r[REG_FP], place)
    PROVE  NamesAfter(x, cell)
<1>0. PICK storage \in {"global", "local"} :
          /\ Declare(x, storage, place)
          /\ cell = IF storage = "global" THEN Byte(place) ELSE LocalCell(cpu.r[REG_FP], place)
  OBVIOUS
<1> DEFINE symbol == [name |-> x, storage |-> storage, place |-> place]
           fp == cpu.r[REG_FP]
<1>1. symbol \in Symbols /\ symbols \in Seq(Symbols) /\ fp \in Word /\ symbols' = Append(symbols, symbol)
  BY <1>0, Parts DEF Symbols, Declare
<1>2. symbol.name = x /\ symbol.storage = storage /\ symbol.place = place
  OBVIOUS
<1> HIDE DEF symbol
<1>3. Hidden' = Hidden
  <2>1. Len(symbols) <= Len(symbols') /\ \A i \in 1..Len(symbols) : symbols'[i] = symbols[i]
    BY <1>1
  <2>2. QED
    BY <2>1, HiddenKept
<1>4. CellOf(symbol, fp) = cell
  BY <1>0, <1>2 DEF CellOf
<1>5. CellOf(symbol, fp) \in Word
  BY <1>1, CellIsWord
<1>6. EnvironmentOf(Append(symbols, symbol), fp) =
          [y \in DOMAIN EnvironmentOf(symbols, fp) \cup {symbol.name} |->
              IF y = symbol.name THEN CellOf(symbol, fp) ELSE EnvironmentOf(symbols, fp)[y]]
  BY <1>1, EnvironmentDeclares
<1>7. Env = EnvironmentOf(symbols, fp) /\ Env' = EnvironmentOf(Append(symbols, symbol), fp)
  BY <1>1 DEF Env
<1>8. Env' = [y \in DOMAIN Env \cup {x} |-> IF y = x THEN CellOf(symbol, fp) ELSE Env[y]]
  BY <1>2, <1>6, <1>7
<1>9. QED
  BY <1>3, <1>4, <1>5, <1>8 DEF NamesAfter

(* Storing a register in a local writes its cell and nothing else but tmp.  *)
LEMMA LocalStored ==
    ASSUME NEW machine \in MachineStates, NEW offset \in Nat, NEW reg \in General
    PROVE  LET after == StoreR(ComputeLocalAddress(machine, offset), REG_TMP, reg)
           IN  /\ after \in MachineStates
               /\ after.m = [machine.m EXCEPT ![LocalCell(machine.r[REG_FP], offset)] = machine.r[reg]]
               /\ \A other \in Registers \ {REG_TMP} : after.r[other] = machine.r[other]
<1> DEFINE addressed == ComputeLocalAddress(machine, offset)
           cell == LocalCell(machine.r[REG_FP], offset)
           after == StoreR(addressed, REG_TMP, reg)
<1>1. Writes(machine, addressed, REG_TMP, cell)
  BY LocalAddressWritten
<1>2. reg \in Registers /\ reg # REG_TMP /\ REG_TMP \in Registers
  BY FrameRegisters
<1>3. /\ addressed \in MachineStates /\ addressed.m = machine.m /\ addressed.r[REG_TMP] = cell
      /\ \A other \in Registers \ {REG_TMP} : addressed.r[other] = machine.r[other]
  BY <1>1 DEF Writes
<1>4. addressed.r[reg] = machine.r[reg] /\ addressed.r[reg] \in Word /\ cell \in Word
  BY <1>2, <1>3, MachineParts
<1> HIDE DEF addressed, cell
<1>5. after = SetCell(addressed, cell, machine.r[reg])
  BY <1>3, <1>4 DEF StoreR
<1> HIDE DEF after
<1>6. /\ after \in MachineStates /\ after.r = addressed.r
      /\ after.m = [addressed.m EXCEPT ![cell] = machine.r[reg]]
  BY <1>3, <1>4, <1>5, SetCellType
<1>7. QED
  BY <1>3, <1>6 DEF after, cell, addressed

(* Local or global, the value goes to the cell the name gets.               *)
LEMMA DeclareStep ==
    ASSUME SourceInv, TypeOK', NEW x \in Names, NEW machine \in MachineStates, NEW table,
           NEW reg \in General, machine.m = cpu.m, machine.r[REG_FP] = cpu.r[REG_FP],
           Values = <<machine.r[reg]>> \/ (Values = <<>> /\ machine.r[reg] = 0),
           InExpression, IF InsideFunction THEN DeclareLocal(x, machine, reg)
                                           ELSE DeclareGlobal(x, machine, table, reg),
           operands' = <<>>, calls' = calls, scopes' = scopes, Saw("declare", x, <<>>)
    PROVE  Source!Declare
<1> DEFINE v == machine.r[reg]
<1>1. reg \in Registers /\ REG_FP \in Registers /\ REG_FP # REG_TMP /\ REG_FP # REG_SP /\ v \in Word
  BY FrameRegisters, MachineParts
<1>2. phase # "exit" /\ Values' = <<>>
  BY NoneLeft DEF InExpression, Bodies
<1>3. TypeOK /\ AddressesFit
  BY Parts
<1>4. CASE InsideFunction
  <2> DEFINE place == next_local_offset
             cell == LocalCell(cpu.r[REG_FP], place)
             stored == StoreR(ComputeLocalAddress(machine, place), REG_TMP, reg)
  <2>1. Declare(x, "local", place) /\ cpu' = StackPush(stored) /\ place \in Nat
    BY <1>3, <1>4 DEF DeclareLocal, TypeOK
  <2>2. /\ stored \in MachineStates /\ stored.m = [cpu.m EXCEPT ![cell] = v]
        /\ stored.r[REG_FP] = cpu.r[REG_FP]
    BY <1>1, <2>1, LocalStored
  <2> HIDE DEF stored
  <2>3. cpu'.m = [cpu.m EXCEPT ![cell] = v] /\ cpu'.r[REG_FP] = cpu.r[REG_FP]
    BY <1>1, <2>1, <2>2, StackPushEffect
  <2>4. NamesAfter(x, cell)
    <3>1. Declare(x, "local", place) /\ cell = LocalCell(cpu.r[REG_FP], place)
      BY <2>1
    <3> HIDE DEF cell, place
    <3>2. QED
      BY <1>2, <2>1, <2>3, <3>1, NameDeclared
  <2>5. QED
    BY <1>1, <1>2, <2>3, <2>4, AsDeclare DEF NamesAfter
<1>5. CASE ~InsideFunction
  <2> DEFINE place == next_global_address
  <2>1. /\ Declare(x, "global", place) /\ cpu' = Store(machine, place, reg) /\ place \in Nat
        /\ Len(symbols) < MaxSymbols
    BY <1>3, <1>5 DEF DeclareGlobal, Declare, TypeOK
  <2>2. Byte(place) \in Word
    BY <2>1, ByteIsWord
  <2>3. cpu'.m = [cpu.m EXCEPT ![Byte(place)] = v] /\ cpu'.r[REG_FP] = cpu.r[REG_FP]
    BY <1>1, <2>1, <2>2, SetCellType DEF Store
  <2>4. NamesAfter(x, Byte(place))
    <3> HIDE DEF place
    <3>1. QED
      BY <1>2, <2>1, <2>3, NameDeclared
  <2>5. QED
    BY <1>1, <1>2, <2>2, <2>3, <2>4, AsDeclare DEF NamesAfter
<1>6. QED
  BY <1>4, <1>5

(* A declaration without a value stores the 0 it loads itself.              *)
LEMMA DeclarationStep ==
    ASSUME SourceInv, TypeOK', NEW x \in Names, Declaration(x) \/ EmptyDeclaration(x)
    PROVE  Source!Declare
<1>1. CASE Declaration(x)
  <2>1. OneValue /\ InExpression /\ Len(operands) = 1
    BY <1>1 DEF Declaration, OneValue
  <2>2. Values = <<cpu.r[Top]>> /\ Top \in General /\ cpu \in MachineStates
    BY <2>1, OneLeft, Parts
  <2>3. /\ IF InsideFunction THEN DeclareLocal(x, cpu, Top)
                             ELSE DeclareGlobal(x, cpu, registers, Top)
        /\ operands' = <<>> /\ calls' = calls /\ scopes' = scopes /\ Saw("declare", x, <<>>)
    BY <1>1 DEF Declaration
  <2>4. QED
    BY <2>1, <2>2, <2>3, DeclareStep
<1>2. CASE EmptyDeclaration(x)
  <2>1. PICK reg \in General :
            IF InsideFunction THEN DeclareLocal(x, Afc(cpu, reg, 0), reg)
            ELSE DeclareGlobal(x, Afc(cpu, reg, 0),
                               RegisterMarkTemporary(RegisterAlloc(registers, reg), reg), reg)
    BY <1>2 DEF EmptyDeclaration
  <2> DEFINE machine == Afc(cpu, reg, 0)
  <2>2. Byte(0) = 0 /\ reg \in Registers /\ cpu \in MachineStates
    BY ByteIsWord, RegisterNumbers, Parts
  <2>3. Writes(cpu, machine, reg, 0)
    BY <2>2, Written
  <2>4. /\ InExpression /\ operands = <<>> /\ operands' = <<>> /\ calls' = calls
        /\ scopes' = scopes /\ Saw("declare", x, <<>>)
    BY <1>2 DEF EmptyDeclaration
  <2>5. Values = <<>>
    BY <2>4, NoneLeft
  <2> HIDE DEF machine
  <2>6. /\ machine \in MachineStates /\ machine.m = cpu.m /\ machine.r[reg] = 0
        /\ machine.r[REG_FP] = cpu.r[REG_FP]
    BY <2>3, FrameRegisters DEF Writes
  <2>7. \E table : IF InsideFunction THEN DeclareLocal(x, machine, reg)
                                     ELSE DeclareGlobal(x, machine, table, reg)
    BY <2>1 DEF machine
  <2>8. QED
    BY <2>4, <2>5, <2>6, <2>7, DeclareStep
<1>3. QED
  BY <1>1, <1>2

(* Assignments write the variable's own cell, or none.                      *)
LEMMA AssignStep ==
    ASSUME SourceInv, TypeOK', NEW x \in Names, AssignUnknown(x) \/ AssignLocal(x) \/ AssignGlobal(x)
    PROVE  Source!Assign
<1>1. /\ Len(operands) = 1 /\ operands' = <<>> /\ calls' = calls /\ symbols' = symbols
      /\ scopes' = scopes /\ Saw("assign", x, <<>>)
  BY DEF AssignUnknown, AssignLocal, AssignGlobal, OneValue, state
<1>2. /\ Len(Values) = 1 /\ Values[1] = cpu.r[Top] /\ Values' = <<>>
      /\ Top \in General /\ Top \in Registers /\ cpu.r[Top] \in Word
  BY <1>1, OneLeft, NoneLeft
<1>3. cpu \in MachineStates /\ REG_FP \in Registers /\ REG_FP # REG_TMP
  BY Parts, FrameRegisters
<1>4. CASE AssignUnknown(x)
  <2>1. cpu' = cpu /\ x \notin DOMAIN Env
    BY <1>4, NamedByNone DEF AssignUnknown
  <2>2. QED
    BY <1>1, <1>2, <2>1, SameNames, AsAssign
<1>5. CASE AssignLocal(x)
  <2>1. PICK i \in DOMAIN symbols :
            /\ IsNewest(symbols, i, x) /\ symbols[i].storage = "local"
            /\ cpu' = StoreR(ComputeLocalAddress(cpu, symbols[i].place), REG_TMP, Top)
    BY <1>5 DEF AssignLocal
  <2>2. /\ x \in DOMAIN Env /\ symbols[i].place \in Nat
        /\ Env[x] = LocalCell(cpu.r[REG_FP], symbols[i].place)
    BY <2>1, NamedBy
  <2>3. cpu'.m = [cpu.m EXCEPT ![Env[x]] = Values[1]] /\ cpu'.r[REG_FP] = cpu.r[REG_FP]
    BY <1>2, <1>3, <2>1, <2>2, LocalStored
  <2>4. QED
    BY <1>1, <1>2, <2>2, <2>3, SameNames, AsAssign
<1>6. CASE AssignGlobal(x)
  <2>1. PICK i \in DOMAIN symbols :
            /\ IsNewest(symbols, i, x) /\ symbols[i].storage = "global"
            /\ cpu' = Store(cpu, symbols[i].place, Top)
    BY <1>6 DEF AssignGlobal
  <2>2. x \in DOMAIN Env /\ symbols[i].place \in Word /\ Env[x] = symbols[i].place
    BY <2>1, NamedBy
  <2>3. Byte(symbols[i].place) = Env[x]
    BY <2>2, ByteIsWord
  <2>4. cpu' = SetCell(cpu, Env[x], Values[1])
    BY <1>2, <2>1, <2>3 DEF Store
  <2>5. cpu'.m = [cpu.m EXCEPT ![Env[x]] = Values[1]] /\ cpu'.r = cpu.r
    BY <1>2, <1>3, <2>2, <2>4, SetCellType
  <2>6. QED
    BY <1>1, <1>2, <2>2, <2>5, SameNames, AsAssign
<1>7. QED
  BY <1>4, <1>5, <1>6

(* A store through a pointer writes the cell its first operand names.       *)
LEMMA StoreStep ==
    ASSUME SourceInv, TypeOK', PointerStore
    PROVE  Source!StoreThrough
<1>1. /\ Len(operands) = 2 /\ cpu' = StoreR(cpu, operands[1], operands[2]) /\ operands' = <<>>
      /\ calls' = calls /\ symbols' = symbols /\ scopes' = scopes /\ Saw("store", Nothing, <<>>)
  BY DEF PointerStore, state
<1>2. 1 \in 1..Len(operands) /\ 2 \in 1..Len(operands)
  BY <1>1
<1>3. /\ Values[1] = cpu.r[operands[1]] /\ Values[2] = cpu.r[operands[2]]
      /\ Values[1] \in Word /\ Values[2] \in Word /\ Len(Values) = 2 /\ cpu \in MachineStates
  BY <1>1, <1>2, Parts
<1>4. cpu' = SetCell(cpu, Values[1], Values[2])
  BY <1>1, <1>3 DEF StoreR
<1>5. cpu'.m = [cpu.m EXCEPT ![Values[1]] = Values[2]] /\ cpu'.r = cpu.r
  BY <1>3, <1>4, SetCellType
<1>6. Values' = <<>>
  BY <1>1, NoneLeft
<1>7. QED
  BY <1>1, <1>3, <1>5, <1>6, SameNames, AsStore

(* Printing shows the value; a discarded one is just freed.                 *)
LEMMA UseStep ==
    ASSUME SourceInv, TypeOK', PrintStatement \/ DiscardExpression
    PROVE  Source!ShowValue \/ Source!Discard
<1>1. /\ Len(operands) = 1 /\ operands' = <<>> /\ calls' = calls /\ symbols' = symbols
      /\ scopes' = scopes /\ cpu' = cpu
      /\ Saw("print", Nothing, <<cpu.r[Top]>>) \/ Saw("discard", Nothing, <<>>)
  BY DEF PrintStatement, DiscardExpression, OneValue, state
<1>2. Values = <<cpu.r[Top]>> /\ Len(Values) = 1 /\ Values' = <<>>
  BY <1>1, OneLeft, NoneLeft
<1>3. Saw("print", Nothing, Values) \/ Saw("discard", Nothing, <<>>)
  BY <1>1, <1>2
<1>4. RestKept
  BY <1>1, SameNames DEF RestKept
<1>5. QED
  BY <1>2, <1>3, <1>4, AsUse

(* Up to its jump the suffix writes sp, fp, ra and tmp only.                *)
LEMMA SuffixReturns ==
    ASSUME NEW machine \in MachineStates
    PROVE  LET gone == FunctionSuffix(machine)
           IN  /\ gone \in MachineStates /\ gone.r[REG_RETURN] = machine.r[REG_RETURN]
               /\ gone.r[REG_SP] \in Word /\ gone.r[REG_FP] \in Word /\ gone.r[REG_RA] \in Word
<1>1. /\ REG_RETURN \in Registers \ {REG_SP, REG_FP, REG_RA, REG_TMP}
      /\ {REG_SP, REG_FP, REG_RA, REG_TMP} \subseteq Registers
  BY LastGeneralAssumption, RegisterNumbers
     DEF REG_RETURN, REG_SP, REG_FP, REG_RA, REG_TMP, General, REG_FIRST_GENERAL, REG_LAST_GENERAL
<1> DEFINE Same(after) == after \in MachineStates /\ after.r[REG_RETURN] = machine.r[REG_RETURN]
<1>2. ASSUME NEW before \in MachineStates, NEW after, NEW reg, NEW value,
             before.r[REG_RETURN] = machine.r[REG_RETURN],
             reg \in {REG_SP, REG_FP, REG_RA, REG_TMP}, Writes(before, after, reg, value)
      PROVE  Same(after)
  BY <1>1, <1>2 DEF Writes
<1>3. ASSUME NEW before, Same(before)
      PROVE  /\ Same(Cop(before, REG_SP, REG_FP))
             /\ Same(LoadR(before, REG_FP, REG_SP))
             /\ Same(LoadR(before, REG_RA, REG_SP))
             /\ Same(StackPop(before))
  <2>1. before \in MachineStates /\ before.r[REG_RETURN] = machine.r[REG_RETURN]
    BY <1>3
  <2>2. /\ \E value : Writes(before, Cop(before, REG_SP, REG_FP), REG_SP, value)
        /\ \E value : Writes(before, LoadR(before, REG_FP, REG_SP), REG_FP, value)
        /\ \E value : Writes(before, LoadR(before, REG_RA, REG_SP), REG_RA, value)
    BY <1>1, <2>1, Written
  <2>3. Same(StackPop(before))
    <3> DEFINE loaded == Afc(before, REG_TMP, 1)
    <3>1. Writes(before, loaded, REG_TMP, Byte(1))
      BY <1>1, <2>1, Written
    <3>2. Same(loaded)
      BY <1>2, <2>1, <3>1
    <3>3. StackPop(before) = Ternary(loaded, "ADD", REG_SP, REG_SP, REG_TMP)
      BY DEF StackPop
    <3> HIDE DEF loaded
    <3>4. \E value : Writes(loaded, StackPop(before), REG_SP, value)
      BY <1>1, <3>2, <3>3, Written DEF AllBinaryOps
    <3>5. QED
      BY <1>2, <3>2, <3>4
  <2>4. QED
    BY <1>2, <2>1, <2>2, <2>3
<1>4. Same(machine)
  OBVIOUS
<1> HIDE DEF Same
<1>5. Same(FunctionSuffix(machine))
  BY <1>3, <1>4 DEF FunctionSuffix
<1>6. QED
  BY <1>1, <1>5, MachineParts DEF Same

(* The suffix leaves the value in r0 while it restores the frame.           *)
LEMMA ReturnStep ==
    ASSUME SourceInv, TypeOK', ReturnStatement
    PROVE  Source!Return
<1> DEFINE copied == Cop(cpu, REG_RETURN, Top)
           gone == FunctionSuffix(copied)
<1>1. /\ Len(operands) = 1 /\ operands' = <<>> /\ calls' = calls /\ symbols' = symbols
      /\ scopes' = scopes /\ Elsewhere
      /\ Saw("return", Nothing,
             <<gone.r[REG_RETURN], gone.r[REG_SP], gone.r[REG_FP], gone.r[REG_RA]>>)
  BY DEF ReturnStatement, OneValue, state
<1>2. /\ Len(Values) = 1 /\ Values[1] = cpu.r[Top] /\ Values' = <<>> /\ Top \in Registers
      /\ cpu \in MachineStates /\ TypeOK
  BY <1>1, OneLeft, NoneLeft, Parts
<1>3. Writes(cpu, copied, REG_RETURN, cpu.r[Top])
  BY <1>2, FrameRegisters, Written
<1> HIDE DEF copied
<1>4. copied \in MachineStates /\ copied.r[REG_RETURN] = Values[1]
  BY <1>2, <1>3 DEF Writes
<1>5. /\ gone.r[REG_RETURN] = Values[1]
      /\ gone.r[REG_SP] \in Word /\ gone.r[REG_FP] \in Word /\ gone.r[REG_RA] \in Word
  BY <1>4, SuffixReturns
<1> HIDE DEF gone
<1>6. Saw("return", Nothing, <<Values[1], gone.r[REG_SP], gone.r[REG_FP], gone.r[REG_RA]>>)
  BY <1>1, <1>5
<1>7. cpu'.m \in [Word -> Word] /\ cpu'.r[REG_FP] = cpu.r[REG_FP]
  BY <1>1, <1>2, ElsewhereType, NextParts
<1>8. Env' = Env /\ Hidden' = Hidden
  BY <1>1, <1>7, SameNames
<1>9. QED
  BY <1>1, <1>2, <1>5, <1>6, <1>7, <1>8, AsReturn

(* The condition shown is the value the parser held.                        *)
LEMMA BranchStep ==
    ASSUME SourceInv, TypeOK', ConditionalJump
    PROVE  Source!Branch
<1>1. /\ Len(operands) = 1 /\ operands' = <<>> /\ calls' = calls /\ symbols' = symbols
      /\ scopes' = scopes /\ Saw("branch", Nothing, <<cpu.r[Top]>>)
      /\ IF cpu.r[Top] # 0 THEN cpu' = cpu ELSE Elsewhere
  BY DEF ConditionalJump, OneValue, state
<1>2. /\ Len(Values) = 1 /\ Values = <<cpu.r[Top]>> /\ Values[1] = cpu.r[Top] /\ Values' = <<>>
      /\ TypeOK
  BY <1>1, OneLeft, NoneLeft, Parts
<1>3. cpu'.m \in [Word -> Word] /\ cpu'.r[REG_FP] = cpu.r[REG_FP]
  BY <1>1, <1>2, ElsewhereType, NextParts
<1>4. IF Values[1] # 0 THEN cpu'.m = cpu.m ELSE cpu'.m \in [Word -> Word]
  BY <1>1, <1>2, <1>3
<1>5. Saw("branch", Nothing, Values)
  BY <1>1, <1>2
<1>6. QED
  BY <1>1, <1>2, <1>3, <1>4, <1>5, SameNames, AsBranch

(* At a join no value is held in a register.                                *)
LEMMA JoinStep ==
    ASSUME SourceInv, TypeOK', Join
    PROVE  Source!Reached
<1>1. /\ operands = <<>> /\ operands' = <<>> /\ calls' = calls /\ symbols' = symbols
      /\ scopes' = scopes /\ Elsewhere /\ Saw("join", Nothing, <<>>)
  BY DEF Join, StatementStart, state
<1>2. cpu'.m \in [Word -> Word] /\ cpu'.r[REG_FP] = cpu.r[REG_FP]
  BY <1>1, Parts, ElsewhereType, NextParts
<1>3. QED
  BY <1>1, <1>2, NoneLeft, SameNames, AsReached

(* What each open block gives back.                                         *)
LEMMA HiddenIs ==
    ASSUME NEW open \in Seq(Scopes), NEW table, NEW fp
    PROVE  /\ HiddenOf(open, table, fp) = [i \in 1..Len(open) |-> HiddenOf(open, table, fp)[i]]
           /\ \A i \in 1..Len(open) : HiddenOf(open, table, fp)[i] =
                  EnvironmentOf(SubSeq(table, 1, open[i].symbol_table_base), fp)
<1>1. DOMAIN open = 1..Len(open)
  OBVIOUS
<1>2. QED
  BY <1>1 DEF HiddenOf

(* What a list of n entries is, as a sequence.                              *)
LEMMA ListIs ==
    ASSUME NEW n \in Nat, NEW f, f = [i \in 1..n |-> f[i]]
    PROVE  f \in Seq({f[i] : i \in 1..n}) /\ Len(f) = n
<1> DEFINE S == {f[i] : i \in 1..n}
<1>1. f \in [1..n -> S]
  OBVIOUS
<1> HIDE DEF S
<1>2. f \in Seq(S) /\ Len(f) = n
  BY <1>1
<1>3. QED
  BY <1>2 DEF S

(* The base a block records is the table as it stands.                      *)
LEMMA BlockOpens ==
    ASSUME SourceInv, TypeOK', BeginBlock
    PROVE  Source!OpenBlock
<1> DEFINE n == Len(scopes)
           fp == cpu.r[REG_FP]
           opened == Append(scopes, OpenScope)
           old == HiddenOf(scopes, symbols, fp)
           new == HiddenOf(opened, symbols, fp)
<1>1. /\ operands' = operands /\ calls' = calls /\ cpu' = cpu /\ symbols' = symbols
      /\ scopes' = opened /\ Saw("open", Nothing, <<>>)
  BY DEF BeginBlock
<1>2. /\ n \in Nat /\ scopes \in Seq(Scopes) /\ symbols \in Seq(Symbols) /\ OpenScope \in Scopes
  <2>1. scopes \in Seq(Scopes) /\ symbols \in Seq(Symbols) /\ next_local_offset \in Nat
    BY Parts DEF TypeOK
  <2>2. Len(scopes) \in Nat /\ Len(symbols) \in Nat
    BY <2>1
  <2>3. OpenScope \in Scopes
    BY <2>1, <2>2 DEF OpenScope, Scopes
  <2>4. QED
    BY <2>1, <2>2, <2>3
<1>3. /\ opened \in Seq(Scopes) /\ Len(opened) = n + 1 /\ opened[n + 1] = OpenScope
      /\ \A i \in 1..n : opened[i] = scopes[i]
  BY <1>2
<1> HIDE DEF opened
<1>4. new = [i \in 1..(n + 1) |-> new[i]] /\ old = [i \in 1..n |-> old[i]]
  <2>1. new = [i \in 1..Len(opened) |-> new[i]]
    BY <1>3, HiddenIs
  <2>2. old = [i \in 1..n |-> old[i]]
    BY <1>2, HiddenIs
  <2> HIDE DEF new, old, n
  <2>3. QED
    BY <1>3, <2>1, <2>2
<1>5. /\ \A i \in 1..(n + 1) : new[i] = EnvironmentOf(SubSeq(symbols, 1, opened[i].symbol_table_base), fp)
      /\ \A i \in 1..n : old[i] = EnvironmentOf(SubSeq(symbols, 1, scopes[i].symbol_table_base), fp)
  BY <1>2, <1>3, HiddenIs
<1>6. \A i \in 1..n : new[i] = old[i]
  <2>1. \A i \in 1..n : i \in 1..(n + 1)
    BY <1>2
  <2> HIDE DEF n, old, new
  <2>2. QED
    BY <1>3, <1>5, <2>1
<1>7. new[n + 1] = Env
  <2>1. SubSeq(symbols, 1, Len(symbols)) = symbols
    BY <1>2
  <2>2. n + 1 \in 1..(n + 1) /\ OpenScope.symbol_table_base = Len(symbols)
    BY <1>2 DEF OpenScope
  <2> HIDE DEF new
  <2>3. new[n + 1] = EnvironmentOf(symbols, fp)
    BY <1>3, <1>5, <2>1, <2>2
  <2>4. QED
    BY <2>3 DEF Env
<1> HIDE DEF n, old, new
<1>8. new = Append(old, Env)
  <2> DEFINE S == {old[i] : i \in 1..n} \cup {Env}
             T == {old[i] : i \in 1..n}
             t == Append(old, Env)
  <2>1. old \in Seq(T) /\ Len(old) = n
    BY <1>2, <1>4, ListIs
  <2>2. old \in Seq(S) /\ Env \in S
    <3>1. T \subseteq S /\ Env \in S
      OBVIOUS
    <3> HIDE DEF S, T
    <3>2. QED
      BY <2>1, <3>1, SeqMonotonic
  <2> HIDE DEF S
  <2>3. /\ t \in Seq(S) /\ Len(t) = n + 1 /\ t[n + 1] = Env /\ \A i \in 1..n : t[i] = old[i]
    BY <2>1, <2>2, AppendProperties
  <2> HIDE DEF t
  <2>4. \A i \in 1..(n + 1) : i = n + 1 \/ i \in 1..n
    BY <1>2
  <2>5. \A i \in 1..(n + 1) : new[i] = t[i]
    BY <1>6, <1>7, <2>3, <2>4
  <2>6. t = [i \in 1..(n + 1) |-> t[i]]
    BY <2>3
  <2>7. new = t
    BY <1>4, <2>5, <2>6
  <2>8. QED
    BY <2>7 DEF t
<1>9. Hidden = old /\ Hidden' = new /\ Env' = Env /\ Values' = Values
  BY <1>1 DEF Hidden, Env, Values, old, new
<1>10. QED
  BY <1>1, <1>8, <1>9, AsOpenBlock

(* The names at the end of a block are those of the symbols before it.      *)
LEMMA BlockCloses ==
    ASSUME SourceInv, TypeOK', EndBlock
    PROVE  Source!CloseBlock
<1> DEFINE n == Len(scopes)
           fp == cpu.r[REG_FP]
           base == scopes[n].symbol_table_base
           before == SubSeq(symbols, 1, base)
           left == SubSeq(scopes, 1, n - 1)
           count == next_local_offset - scopes[n].local_offset_base
<1>1. /\ scopes # <<>> /\ InsideFunction /\ ShapeInv
      /\ operands' = operands /\ calls' = calls /\ symbols' = before /\ scopes' = left
      /\ cpu' = StackPops(cpu, count) /\ Saw("close", Nothing, <<>>)
  BY DEF EndBlock, StatementStart, InBody, Bodies, InsideFunction, SourceInv
<1>2. /\ cpu \in MachineStates /\ symbols \in Seq(Symbols) /\ scopes \in Seq(Scopes)
      /\ operands \in Seq(General) /\ cpu.r \in [Registers -> Word]
      /\ \A i \in 1..Len(operands) : operands[i] \in General
  BY Parts
<1>3. /\ n \in Nat \ {0} /\ DOMAIN scopes = 1..n
      /\ \A i \in 1..n : /\ scopes[i].symbol_table_base \in Nat
                         /\ scopes[i].symbol_table_base <= base
                         /\ scopes[i].symbol_table_base <= Len(symbols)
  BY <1>1, ScopesAscend
<1>4. cpu'.m = cpu.m /\ cpu'.r[REG_FP] = fp /\ \A reg \in General : cpu'.r[reg] = cpu.r[reg]
  <2>1. REG_FP \notin {REG_TMP, REG_SP} /\ REG_FP \in Registers
    BY FrameRegisters
  <2>2. {REG_TMP, REG_SP} \cap General = {} /\ General \subseteq Registers
    BY RegisterNumbers
  <2>3. cpu = [r |-> cpu.r, m |-> cpu.m]
    BY <1>2 DEF MachineStates
  <2> HIDE DEF fp, count
  <2>4. cpu' = cpu \/ \E x, y : cpu' = [cpu EXCEPT !.r[REG_TMP] = x, !.r[REG_SP] = y]
    BY <1>1 DEF StackPops
  <2>5. CASE cpu' = cpu
    BY <2>5 DEF fp
  <2>6. ASSUME NEW x, NEW y, cpu' = [cpu EXCEPT !.r[REG_TMP] = x, !.r[REG_SP] = y]
        PROVE  cpu'.m = cpu.m /\ \A reg \in Registers : reg \notin {REG_TMP, REG_SP}
                                                            => cpu'.r[reg] = cpu.r[reg]
    BY <1>2, <2>3, <2>6
  <2>7. QED
    BY <2>1, <2>2, <2>4, <2>5, <2>6 DEF fp
<1>5. Values' = Values
  <2>1. cpu'.r \in [Registers -> Word]
    BY NextParts
  <2>2. \A i \in 1..Len(operands) : cpu'.r[operands[i]] = cpu.r[operands[i]]
    BY <1>2, <1>4
  <2>3. /\ ValuesOf(operands, cpu'.r) \in Seq(Word) /\ Len(ValuesOf(operands, cpu'.r)) = Len(operands)
        /\ \A i \in 1..Len(operands) : ValuesOf(operands, cpu'.r)[i] = cpu'.r[operands[i]]
        /\ ValuesOf(operands, cpu.r) \in Seq(Word) /\ Len(ValuesOf(operands, cpu.r)) = Len(operands)
        /\ \A i \in 1..Len(operands) : ValuesOf(operands, cpu.r)[i] = cpu.r[operands[i]]
    BY <1>2, <2>1, ValuesAre
  <2>4. ValuesOf(operands, cpu'.r) = ValuesOf(operands, cpu.r)
    BY <2>2, <2>3, SameValues
  <2>5. QED
    BY <1>1, <2>4 DEF Values
<1> DEFINE old == HiddenOf(scopes, symbols, fp)
           new == HiddenOf(left, before, fp)
<1>6. Hidden = old /\ Hidden' = new /\ Env' = EnvironmentOf(before, fp)
  BY <1>1, <1>4 DEF Hidden, Env
<1>7. /\ left \in Seq(Scopes) /\ Len(left) = n - 1 /\ n - 1 \in Nat
      /\ \A i \in 1..(n - 1) : left[i] = scopes[i]
  BY <1>2, <1>3
<1>8. /\ base \in Nat /\ base <= Len(symbols) /\ before \in Seq(Symbols) /\ Len(before) = base
      /\ \A i \in 1..base : before[i] = symbols[i]
  BY <1>2, <1>3
<1>9. /\ old = [i \in 1..n |-> old[i]]
      /\ \A i \in 1..n : old[i] = EnvironmentOf(SubSeq(symbols, 1, scopes[i].symbol_table_base), fp)
  <2> HIDE DEF fp
  <2>1. old = [i \in 1..n |-> old[i]]
    BY <1>2, HiddenIs
  <2>2. \A i \in 1..n : old[i] = EnvironmentOf(SubSeq(symbols, 1, scopes[i].symbol_table_base), fp)
    BY <1>2, HiddenIs
  <2>3. QED
    BY <2>1, <2>2
<1>10. new = HiddenOf(left, symbols, fp)
  <2>1. \A i \in DOMAIN left : left[i].symbol_table_base <= base
    <3>1. DOMAIN left = 1..(n - 1) /\ \A i \in 1..(n - 1) : i \in 1..n
      BY <1>3, <1>7
    <3> HIDE DEF left, base, n
    <3>2. QED
      BY <1>3, <1>7, <3>1
  <2> HIDE DEF left, base, before, n, fp, old, new
  <2>a. left \in Seq(Scopes) /\ before \in Seq(Symbols) /\ symbols \in Seq(Symbols) /\ base \in Nat
    BY <1>2, <1>7, <1>8
  <2>b. base <= Len(before) /\ base <= Len(symbols) /\ \A i \in 1..base : before[i] = symbols[i]
    BY <1>8
  <2>2. HiddenOf(left, before, fp) = HiddenOf(left, symbols, fp)
    BY <2>a, <2>b, <2>1, HiddenSame
  <2>3. QED
    BY <2>2 DEF new
<1>11. /\ new = [i \in 1..(n - 1) |-> new[i]]
       /\ \A i \in 1..(n - 1) : new[i] = old[i]
  <2> DEFINE same == HiddenOf(left, symbols, fp)
  <2> HIDE DEF left
  <2>1. /\ same = [i \in 1..Len(left) |-> same[i]]
        /\ \A i \in 1..Len(left) : same[i] = EnvironmentOf(SubSeq(symbols, 1, left[i].symbol_table_base), fp)
    BY <1>7, HiddenIs
  <2>2. \A i \in 1..(n - 1) : i \in 1..n
    BY <1>3
  <2> HIDE DEF old, n, fp, same, new
  <2>3. same = new /\ Len(left) = n - 1
    BY <1>7, <1>10 DEF same
  <2>4. \A i \in 1..(n - 1) : same[i] = old[i]
    BY <1>7, <1>9, <2>1, <2>2, <2>3
  <2>5. same = [i \in 1..(n - 1) |-> same[i]]
    BY <2>1, <2>3
  <2>6. QED
    BY <2>3, <2>4, <2>5
<1>12. old # <<>> /\ Len(old) = n /\ old[n] = EnvironmentOf(before, fp)
  <2> HIDE DEF old
  <2>1. old \in Seq({old[i] : i \in 1..n}) /\ Len(old) = n
    BY <1>3, <1>9, ListIs
  <2>2. n \in 1..n
    BY <1>3
  <2>3. QED
    BY <1>3, <1>9, <2>1, <2>2
<1>13. new = SubSeq(old, 1, Len(old) - 1)
  <2> HIDE DEF old, new, n
  <2>1. old \in Seq({old[i] : i \in 1..n}) /\ Len(old) = n
    BY <1>3, <1>9, ListIs
  <2>2. SubSeq(old, 1, n - 1) = [i \in 1..(n - 1) |-> old[i]]
    BY <1>3, <2>1
  <2>3. QED
    BY <1>11, <1>12, <2>2
<1> HIDE DEF old, new, n, before, fp
<1>14. QED
  BY <1>1, <1>4, <1>5, <1>6, <1>12, <1>13, AsCloseBlock

(* Every statement is a step of the source.                                 *)
LEMMA StatementStep ==
    ASSUME SourceInv, TypeOK', Statement
    PROVE  Source!Next
<1>1. CASE \E x \in Names : Declaration(x) \/ EmptyDeclaration(x)
  BY <1>1, DeclarationStep DEF Source!Next
<1>2. CASE \E x \in Names : AssignUnknown(x) \/ AssignLocal(x) \/ AssignGlobal(x)
  BY <1>2, AssignStep DEF Source!Next
<1>3. CASE PointerStore
  BY <1>3, StoreStep DEF Source!Next
<1>4. CASE PrintStatement \/ DiscardExpression
  BY <1>4, UseStep DEF Source!Next
<1>5. CASE ReturnStatement
  BY <1>5, ReturnStep DEF Source!Next
<1>6. CASE ConditionalJump
  BY <1>6, BranchStep DEF Source!Next
<1>7. CASE Join
  BY <1>7, JoinStep DEF Source!Next
<1>8. CASE BeginBlock
  BY <1>8, BlockOpens DEF Source!Next
<1>9. CASE EndBlock
  BY <1>9, BlockCloses DEF Source!Next
<1>10. QED
  BY <1>1, <1>2, <1>3, <1>4, <1>5, <1>6, <1>7, <1>8, <1>9 DEF Statement

-----------------------------------------------------------------------------
(* Calls *)

(* An argument list records how many values lie below it.                   *)
LEMMA ListStep ==
    ASSUME SourceInv, BeginFunctionArguments \/ AddFunctionArgument
    PROVE  Source!OpenList \/ Source!PassArgument
<1>1. /\ operands' = operands /\ cpu' = cpu /\ symbols' = symbols /\ scopes' = scopes
      /\ \/ /\ calls' = Append(calls, [base |-> Len(operands), count |-> 0])
            /\ Saw("list", Nothing, <<>>)
         \/ /\ calls # <<>> /\ calls' = [calls EXCEPT ![Len(calls)].count = @ + 1]
            /\ Saw("argument", Nothing, <<>>)
  BY DEF BeginFunctionArguments, AddFunctionArgument, state
<1>2. Len(Values) = Len(operands)
  BY Parts
<1>3. Values' = Values /\ Env' = Env /\ Hidden' = Hidden
  BY <1>1, SameMachine
<1>4. QED
  BY <1>1, <1>2, <1>3, AsList

(* Pushed below sp, fewer cells than there are never meet.                  *)
LEMMA CellsApart ==
    ASSUME NEW sp \in Int, NEW a \in Nat, NEW b \in Nat, a < WordSize, b < WordSize,
           Byte(sp - a) = Byte(sp - b)
    PROVE  a = b
<1> DEFINE w == WordSize
           c == sp - a
           d == sp - b
<1>0. w \in Nat \ {0}
  BY WordSizeAssumption, LastGeneralAssumption
<1>1. c \in Int /\ d \in Int /\ c - d = b - a /\ c % w = d % w /\ a < w /\ b < w
  BY DEF Byte
<1> HIDE DEF w, c, d
<1>2. /\ c % w \in 0..(w - 1) /\ c = w * (c \div w) + (c % w) /\ c \div w \in Int
      /\ d % w \in 0..(w - 1) /\ d = w * (d \div w) + (d % w) /\ d \div w \in Int
  BY <1>0, <1>1, DivisionWithRemainder
<1> DEFINE i == c \div w
           j == d \div w
           x == c % w
           y == d % w
<1> HIDE DEF i, j, x, y
<1>3. /\ x \in Int /\ y \in Int /\ x = y /\ i \in Int /\ j \in Int /\ w \in Int
      /\ c = w * i + x /\ d = w * j + y
  BY <1>0, <1>1, <1>2 DEF i, j, x, y
<1>4. w * (i - j) = w * i - w * j /\ i - j \in Int
  <2>1. \A k, l, m \in Int : k * (l - m) = k * l - k * m
    OBVIOUS
  <2>2. QED
    BY <1>3, <2>1
<1>5. w * (i - j) = b - a
  <2> DEFINE p == w * i
             q == w * j
  <2>1. p \in Int /\ q \in Int
    BY <1>3
  <2>2. c = p + x /\ d = q + y /\ w * (i - j) = p - q
    BY <1>3, <1>4
  <2> HIDE DEF p, q
  <2>3. QED
    BY <1>1, <1>3, <2>1, <2>2
<1>6. b - a < w /\ -w < b - a
  BY <1>0, <1>1
<1>7. i - j = 0
  BY <1>0, <1>4, <1>5, <1>6, SmallMultiple
<1>8. w * (i - j) = 0
  BY <1>3, <1>7
<1>9. QED
  BY <1>5, <1>8

(* The saved registers and the arguments of a call together are no more     *)
(* than the general registers, so their pushes stay apart in memory.        *)
LEMMA PushesFit ==
    ASSUME SourceInv, calls # <<>>
    PROVE  /\ SavedRegisters \subseteq General /\ IsFiniteSet(SavedRegisters)
           /\ Cardinality(SavedRegisters) \in Nat /\ Len(Arguments) \in Nat
           /\ Cardinality(SavedRegisters) + Len(Arguments) < WordSize
<1> DEFINE c == Len(Arguments)
           base == calls[Len(calls)].base
<1>1. /\ Arguments \in Seq(General) /\ c \in Nat /\ DOMAIN Arguments = 1..c /\ base \in Nat
      /\ \A i \in DOMAIN Arguments : base + i \in DOMAIN operands /\ Arguments[i] = operands[base + i]
  BY Parts, ArgumentsType
<1>2. Distinct(operands)
  BY Parts
<1>3. \A i, j \in 1..c : Arguments[i] = Arguments[j] => i = j
  <2> HIDE DEF c
  <2>1. ASSUME NEW i \in 1..c, NEW j \in 1..c, Arguments[i] = Arguments[j] PROVE i = j
    <3>1. base + i \in DOMAIN operands /\ base + j \in DOMAIN operands
          /\ operands[base + i] = operands[base + j]
      BY <1>1, <2>1
    <3>2. base + i = base + j
      BY <1>2, <3>1 DEF Distinct
    <3> HIDE DEF base
    <3>3. QED
      BY <1>1, <3>2
  <2>2. QED
    BY <2>1
<1>4. IsFiniteSet(General) /\ Cardinality(General) = LastGeneral
  <2>1. 1 \in Int /\ LastGeneral \in Int /\ ~(1 > LastGeneral) /\ LastGeneral - 1 + 1 = LastGeneral
    BY LastGeneralAssumption
  <2>2. General = 1..LastGeneral
    BY DEF General, REG_FIRST_GENERAL, REG_LAST_GENERAL
  <2>3. QED
    BY <2>1, <2>2, FS_Interval
<1>5. /\ SavedRegisters \subseteq General /\ ArgumentRegisters \subseteq General
      /\ SavedRegisters \cap ArgumentRegisters = {}
  BY <1>1 DEF SavedRegisters, ArgumentRegisters, InUse
<1>6. /\ IsFiniteSet(SavedRegisters) /\ IsFiniteSet(ArgumentRegisters)
      /\ Cardinality(SavedRegisters) \in Nat /\ Cardinality(ArgumentRegisters) \in Nat
  BY <1>4, <1>5, FS_Subset, FS_CardinalityType
<1>7. Cardinality(SavedRegisters) + Cardinality(ArgumentRegisters) <= LastGeneral
  <2> DEFINE S == SavedRegisters
             A == ArgumentRegisters
  <2> HIDE DEF S, A
  <2>1. IsFiniteSet(S) /\ IsFiniteSet(A) /\ S \cap A = {} /\ S \cup A \in SUBSET General
    BY <1>5, <1>6 DEF S, A
  <2>2. Cardinality(S \cup A) = Cardinality(S) + Cardinality(A) - Cardinality(S \cap A)
    BY <2>1, FS_Union
  <2>3. Cardinality(S \cup A) <= LastGeneral
    BY <1>4, <2>1, FS_Subset
  <2>4. Cardinality(S \cap A) = 0
    BY <2>1, FS_EmptySet
  <2>5. Cardinality(S) \in Nat /\ Cardinality(A) \in Nat
    BY <1>6 DEF S, A
  <2>6. QED
    BY <2>2, <2>3, <2>4, <2>5 DEF S, A
<1>8. c <= Cardinality(ArgumentRegisters)
  <2>1. Arguments \in [1..c -> ArgumentRegisters]
    <3>1. \A i \in 1..c : Arguments[i] \in ArgumentRegisters
      BY <1>1 DEF ArgumentRegisters
    <3>2. Arguments = [i \in 1..c |-> Arguments[i]]
      BY <1>1
    <3>3. QED
      BY <3>1, <3>2
  <2>2. Arguments \in Injection(1..c, ArgumentRegisters)
    BY <1>1, <1>3, <2>1 DEF Injection, IsInjective
  <2>3. Cardinality(1..c) <= Cardinality(ArgumentRegisters)
    BY <1>6, <2>2, FS_Injection
  <2>4. Cardinality(1..c) = c
    <3> HIDE DEF c
    <3>1. 1 \in Int /\ c \in Int /\ (1 > c => c = 0) /\ c - 1 + 1 = c
      BY <1>1
    <3>2. QED
      BY <3>1, FS_Interval
  <2>5. QED
    BY <2>3, <2>4
<1>9. Cardinality(SavedRegisters) + c < WordSize
  <2> DEFINE s == Cardinality(SavedRegisters)
             a == Cardinality(ArgumentRegisters)
  <2>1. s \in Nat /\ a \in Nat /\ s + a <= LastGeneral /\ c <= a /\ c \in Nat
        /\ LastGeneral \in Nat /\ WordSize \in Nat /\ LastGeneral < WordSize
    BY <1>1, <1>6, <1>7, <1>8, LastGeneralAssumption, WordSizeAssumption
  <2> HIDE DEF s, a, c
  <2>2. s + c < WordSize
    BY <2>1
  <2>3. QED
    BY <2>2 DEF s
<1>10. QED
  BY <1>1, <1>5, <1>6, <1>9

(* Where a register is pushed among the saved ones.                         *)
PlaceOf(reg) == Cardinality({s \in SavedRegisters : s < reg})

(* The saved registers are pushed to different places, below their number.  *)
LEMMA PlacesAre ==
    ASSUME SourceInv, calls # <<>>
    PROVE  /\ \A reg \in SavedRegisters : /\ PlaceOf(reg) \in Nat
                                          /\ PlaceOf(reg) < Cardinality(SavedRegisters)
           /\ \A reg, other \in SavedRegisters : PlaceOf(reg) = PlaceOf(other) => reg = other
<1> DEFINE S == SavedRegisters
           Below(reg) == {s \in S : s < reg}
<1>1. IsFiniteSet(S) /\ \A reg \in S : reg \in Int
  <2>1. S \subseteq General /\ IsFiniteSet(S)
    BY PushesFit
  <2>2. QED
    BY <2>1 DEF General
<1>2. \A reg \in S : IsFiniteSet(Below(reg)) /\ Cardinality(Below(reg)) \in Nat
  <2>1. \A reg \in S : Below(reg) \in SUBSET S
    OBVIOUS
  <2> HIDE DEF S, Below
  <2>2. QED
    BY <1>1, <2>1, FS_Subset, FS_CardinalityType
<1>3. ASSUME NEW reg \in S, NEW T \in SUBSET S, Below(reg) \cup {reg} \subseteq T
      PROVE  Cardinality(Below(reg)) < Cardinality(T)
  <2>1. reg \notin Below(reg)
    BY <1>1
  <2> HIDE DEF Below, S
  <2>2. /\ Cardinality(Below(reg) \cup {reg}) = Cardinality(Below(reg)) + 1
        /\ IsFiniteSet(Below(reg) \cup {reg}) /\ IsFiniteSet(T) /\ Cardinality(T) \in Nat
    BY <1>1, <1>2, <2>1, FS_AddElement, FS_Subset, FS_CardinalityType
  <2>3. Cardinality(Below(reg) \cup {reg}) <= Cardinality(T)
    BY <1>3, <2>2, FS_Subset
  <2>4. Cardinality(Below(reg)) \in Nat
    BY <1>2
  <2>5. QED
    BY <2>2, <2>3, <2>4
<1>4. \A reg \in S : Cardinality(Below(reg)) < Cardinality(S)
  <2>1. \A reg \in S : Below(reg) \cup {reg} \subseteq S
    OBVIOUS
  <2> HIDE DEF Below, S
  <2>2. QED
    BY <1>3, <2>1
<1>5. ASSUME NEW reg \in S, NEW other \in S, reg < other
      PROVE  Cardinality(Below(reg)) < Cardinality(Below(other))
  <2>1. Below(reg) \cup {reg} \subseteq Below(other) /\ Below(other) \in SUBSET S
    BY <1>1, <1>5
  <2> HIDE DEF Below, S
  <2>2. QED
    BY <1>3, <2>1
<1>6. ASSUME NEW reg \in S, NEW other \in S, Cardinality(Below(reg)) = Cardinality(Below(other))
      PROVE  reg = other
  <2> HIDE DEF Below, S
  <2>1. reg \in Int /\ other \in Int /\ Cardinality(Below(reg)) \in Nat /\ Cardinality(Below(other)) \in Nat
    BY <1>1, <1>2
  <2>2. ~(reg < other) /\ ~(other < reg)
    BY <1>5, <1>6, <2>1
  <2>3. QED
    BY <2>1, <2>2
<1>7. \A reg : PlaceOf(reg) = Cardinality(Below(reg))
  BY DEF PlaceOf
<1> HIDE DEF Below
<1>8. QED
  BY <1>2, <1>4, <1>6, <1>7

(* What the pushes leave: each saved register and each argument in a cell   *)
(* of its own.                                                              *)
LEMMA PushesKept ==
    ASSUME SourceInv, calls # <<>>
    PROVE  /\ \A reg \in SavedRegisters : /\ SavedCell(reg) \in Word
                                          /\ CallerMemory[SavedCell(reg)] = cpu.r[reg]
           /\ \A i \in 1..Len(Arguments) : /\ PushedArgumentCell(i) \in Word
                                           /\ CallerMemory[PushedArgumentCell(i)] = cpu.r[Arguments[i]]
<1> DEFINE sp == cpu.r[REG_SP]
           n == Cardinality(SavedRegisters)
           c == Len(Arguments)
<1>1. sp \in Int /\ n \in Nat /\ c \in Nat /\ n + c < WordSize /\ WordSize \in Nat /\ DOMAIN Arguments = 1..c
  <2>1. sp \in Word
    BY Parts
  <2>2. Arguments \in Seq(General)
    BY Parts, ArgumentsType
  <2>3. QED
    BY <2>1, <2>2, PushesFit, WordSizeAssumption DEF Word
<1>2. \A reg \in SavedRegisters : /\ PlaceOf(reg) \in Nat /\ PlaceOf(reg) < n
                                  /\ SavedCell(reg) = Byte(sp - PlaceOf(reg))
  BY PlacesAre DEF SavedCell, PlaceOf
<1>3. \A i \in 1..c : PushedArgumentCell(i) = Byte(sp - (n + (i - 1))) /\ n + (i - 1) \in Nat
  <2>1. \A i \in 1..c : PushedArgumentCell(i) = Byte(sp - n - (i - 1))
    BY DEF PushedArgumentCell
  <2> HIDE DEF sp, n, c
  <2>2. \A i \in 1..c : sp - n - (i - 1) = sp - (n + (i - 1)) /\ n + (i - 1) \in Nat
    BY <1>1
  <2>3. QED
    BY <2>1, <2>2
<1> HIDE DEF sp, n, c
<1>4. \A reg \in SavedRegisters : SavedCell(reg) \in Word
  <2>1. \A reg \in SavedRegisters : sp - PlaceOf(reg) \in Int
    BY <1>1, <1>2
  <2>2. QED
    BY <1>2, <2>1, ByteIsWord
<1>5. \A i \in 1..c : PushedArgumentCell(i) \in Word
  <2>1. \A i \in 1..c : sp - (n + (i - 1)) \in Int
    BY <1>1
  <2>2. QED
    BY <1>3, <2>1, ByteIsWord
<1>6. \A reg, other \in SavedRegisters : SavedCell(reg) = SavedCell(other) => reg = other
  <2>1. ASSUME NEW reg \in SavedRegisters, NEW other \in SavedRegisters, SavedCell(reg) = SavedCell(other)
        PROVE  reg = other
    <3>1. /\ PlaceOf(reg) \in Nat /\ PlaceOf(reg) < WordSize /\ PlaceOf(other) \in Nat
          /\ PlaceOf(other) < WordSize /\ Byte(sp - PlaceOf(reg)) = Byte(sp - PlaceOf(other))
      <4>1. /\ PlaceOf(reg) \in Nat /\ PlaceOf(reg) < n /\ PlaceOf(other) \in Nat
            /\ PlaceOf(other) < n
        BY <1>2
      <4>2. PlaceOf(reg) < WordSize /\ PlaceOf(other) < WordSize
        BY <1>1, <4>1
      <4>3. QED
        BY <1>2, <2>1, <4>1, <4>2
    <3>2. PlaceOf(reg) = PlaceOf(other)
      BY <1>1, <3>1, CellsApart
    <3>3. QED
      BY <3>2, PlacesAre
  <2>2. QED
    BY <2>1
<1>7. \A i, j \in 1..c : PushedArgumentCell(i) = PushedArgumentCell(j) => i = j
  <2>1. ASSUME NEW i \in 1..c, NEW j \in 1..c, PushedArgumentCell(i) = PushedArgumentCell(j)
        PROVE  i = j
    <3>1. /\ n + (i - 1) \in Nat /\ n + (i - 1) < WordSize /\ n + (j - 1) \in Nat
          /\ n + (j - 1) < WordSize /\ i \in Int /\ j \in Int
      BY <1>1
    <3>2. Byte(sp - (n + (i - 1))) = Byte(sp - (n + (j - 1)))
      BY <1>3, <2>1
    <3>3. n + (i - 1) = n + (j - 1)
      BY <1>1, <3>1, <3>2, CellsApart
    <3>4. QED
      BY <1>1, <3>1, <3>3
  <2>2. QED
    BY <2>1
<1>8. ASSUME NEW reg \in SavedRegisters, NEW i \in 1..c PROVE SavedCell(reg) # PushedArgumentCell(i)
  <2> SUFFICES ASSUME SavedCell(reg) = PushedArgumentCell(i) PROVE FALSE
    OBVIOUS
  <2>1. /\ PlaceOf(reg) \in Nat /\ PlaceOf(reg) < n /\ n + (i - 1) \in Nat /\ n + (i - 1) < WordSize
        /\ n <= n + (i - 1)
    BY <1>1, <1>2
  <2>2. PlaceOf(reg) < WordSize /\ PlaceOf(reg) < n + (i - 1)
    BY <1>1, <2>1
  <2>3. Byte(sp - PlaceOf(reg)) = Byte(sp - (n + (i - 1)))
    BY <1>2, <1>3
  <2>4. PlaceOf(reg) = n + (i - 1)
    BY <1>1, <2>1, <2>2, <2>3, CellsApart
  <2>5. QED
    BY <2>1, <2>2, <2>4
<1>9. ASSUME NEW reg \in SavedRegisters PROVE CallerMemory[SavedCell(reg)] = cpu.r[reg]
  <2> DEFINE a == SavedCell(reg)
             found == CHOOSE other \in SavedRegisters : a = SavedCell(other)
  <2>1. found \in SavedRegisters /\ a = SavedCell(found)
    OBVIOUS
  <2>2. found = reg
    <3> HIDE DEF found
    <3>1. QED
      BY <1>6, <2>1
  <2>3. a \in Word /\ a \in SavedCells
    BY <1>4 DEF SavedCells
  <2>4. CallerMemory[a] = cpu.r[found]
    BY <2>3 DEF CallerMemory
  <2>5. QED
    BY <2>2, <2>4
<1>10. ASSUME NEW i \in 1..c PROVE CallerMemory[PushedArgumentCell(i)] = cpu.r[Arguments[i]]
  <2> DEFINE a == PushedArgumentCell(i)
             found == CHOOSE j \in DOMAIN Arguments : a = PushedArgumentCell(j)
  <2>1. found \in DOMAIN Arguments /\ a = PushedArgumentCell(found)
    BY <1>1
  <2>2. found = i
    <3> HIDE DEF found
    <3>1. QED
      BY <1>1, <1>7, <2>1
  <2>3. a \in Word /\ a \notin SavedCells
    BY <1>5, <1>8 DEF SavedCells
  <2>4. \E j \in DOMAIN Arguments : a = PushedArgumentCell(j)
    BY <2>1
  <2>5. CallerMemory[a] = cpu.r[Arguments[found]]
    <3> HIDE DEF a
    <3>1. QED
      BY <2>3, <2>4 DEF CallerMemory, found
  <2>6. QED
    BY <2>2, <2>5
<1>11. QED
  BY <1>4, <1>5, <1>9, <1>10 DEF c

(* The callee finds argument i where the caller pushed it.                  *)
LEMMA ArgumentFound ==
    ASSUME SourceInv, calls # <<>>, NEW i \in 1..Len(Arguments)
    PROVE  ArgumentCell(CalleeFrame, Len(Arguments), i - 1) = PushedArgumentCell(i)
<1> DEFINE sp == cpu.r[REG_SP]
           n == Cardinality(SavedRegisters)
           c == Len(Arguments)
           x == sp - n - c - 2
           y == c - (i - 1) + 2
<1>1. sp \in Int /\ n \in Nat /\ c \in Nat /\ i \in Int
  <2>1. sp \in Word
    BY Parts
  <2>2. QED
    BY <2>1, PushesFit DEF Word
<1>2. CalleeFrame = Byte(x) /\ PushedArgumentCell(i) = Byte(sp - n - (i - 1))
  BY DEF CalleeFrame, PushedArgumentCell
<1>3. ArgumentCell(CalleeFrame, c, i - 1) = Byte(CalleeFrame + c - (i - 1) + 2)
  BY DEF ArgumentCell
<1> HIDE DEF sp, n, c
<1>4. x \in Int /\ y \in Int /\ x + y = sp - n - (i - 1)
  BY <1>1
<1>5. Byte(x) \in Word /\ Byte(x) \in Int
  <2> HIDE DEF x
  <2>1. Byte(x) \in Word
    BY <1>4, ByteIsWord
  <2>2. QED
    BY <2>1, WordSizeAssumption DEF Word
<1>6. CalleeFrame + c - (i - 1) + 2 = Byte(x) + y
  <2> HIDE DEF x
  <2>1. QED
    BY <1>1, <1>2, <1>5
<1>7. Byte(Byte(x) + y) = Byte(x + y)
  <2> HIDE DEF x, y
  <2>1. QED
    BY <1>4, ByteOfSum
<1>8. ArgumentCell(CalleeFrame, c, i - 1) = PushedArgumentCell(i)
  BY <1>2, <1>3, <1>4, <1>6, <1>7
<1>9. QED
  BY <1>8 DEF c

(* The values the parser holds below an argument list are in registers the  *)
(* call saves.                                                              *)
LEMMA HeldIsSaved ==
    ASSUME SourceInv, calls # <<>>, Len(operands) = Held
    PROVE  \A i \in 1..calls[Len(calls)].base : operands[i] \in SavedRegisters
<1> DEFINE base == calls[Len(calls)].base
           c == Len(Arguments)
<1>1. /\ DOMAIN Arguments = 1..c /\ c \in Nat /\ base \in Nat /\ Len(operands) = base + c
      /\ \A j \in 1..c : base + j \in DOMAIN operands /\ Arguments[j] = operands[base + j]
  <2>1. Arguments \in Seq(General) /\ c = calls[Len(calls)].count
    BY Parts, ArgumentsType
  <2>2. QED
    BY <2>1, Parts, ArgumentsType
<1>2. /\ Distinct(operands) /\ InUse(registers) = HeldIn(operands)
      /\ DOMAIN operands = 1..Len(operands)
  BY Parts
<1> SUFFICES ASSUME NEW i \in 1..base PROVE operands[i] \in SavedRegisters
  OBVIOUS
<1> HIDE DEF base, c
<1>3. i \in DOMAIN operands /\ \A j \in 1..c : base + j # i
  BY <1>1, <1>2
<1>4. operands[i] \in InUse(registers)
  BY <1>2, <1>3 DEF HeldIn
<1>5. operands[i] \notin ArgumentRegisters
  <2>1. ASSUME NEW j \in 1..c PROVE operands[i] # Arguments[j]
    <3>1. base + j \in DOMAIN operands /\ base + j # i /\ Arguments[j] = operands[base + j]
      BY <1>1, <1>3
    <3>2. QED
      BY <1>2, <1>3, <3>1 DEF Distinct
  <2>2. QED
    BY <1>1, <2>1 DEF ArgumentRegisters
<1>6. QED
  BY <1>4, <1>5 DEF SavedRegisters

(* The callee finds the arguments in order, and the values below the list   *)
(* are what they were: their registers were saved, and each came back from  *)
(* its own cell.                                                            *)
LEMMA CallStep ==
    ASSUME SourceInv, TypeOK', RegisterDiscipline', NEW f \in FunctionNames, FunctionCall(f)
    PROVE  Source!Call
<1> DEFINE base == calls[Len(calls)].base
           count == calls[Len(calls)].count
           c == Len(Arguments)
           list == [i \in DOMAIN Arguments |-> CallerMemory[ArgumentCell(CalleeFrame, c, i - 1)]]
<1>1. /\ calls # <<>> /\ Len(operands) = Held /\ calls' = SubSeq(calls, 1, Len(calls) - 1)
      /\ symbols' = symbols /\ scopes' = scopes /\ Saw("call", f, list)
  BY DEF FunctionCall, state
<1>2. PICK reg \in General, r \in RegisterFiles, m \in Memories :
          operands' = Append(SubSeq(operands, 1, base), reg) /\ CallReturns(reg, r, m)
  BY DEF FunctionCall
<1>3. /\ base \in Nat /\ count \in Nat /\ c = count /\ Held = base + count
      /\ Arguments \in Seq(General) /\ c \in Nat /\ DOMAIN Arguments = 1..c
      /\ \A i \in 1..c : base + i \in DOMAIN operands /\ Arguments[i] = operands[base + i]
  BY <1>1, Parts, ArgumentsType
<1>4. /\ operands \in Seq(General) /\ DOMAIN operands = 1..Len(operands)
      /\ Values \in Seq(Word) /\ Len(Values) = Len(operands)
      /\ \A i \in 1..Len(operands) : Values[i] = cpu.r[operands[i]] /\ Values[i] \in Word
  BY Parts
<1>5. Len(Values) = base + count /\ base <= Len(operands)
  <2> HIDE DEF base, count
  <2>1. QED
    BY <1>1, <1>3, <1>4
<1>6. list = SubSeq(Values, base + 1, Len(Values))
  <2>1. \A i \in 1..c : list[i] = Values[base + i] /\ Values[base + i] \in Word
    <3>1. ASSUME NEW i \in 1..c PROVE list[i] = Values[base + i] /\ Values[base + i] \in Word
      <4>1. list[i] = CallerMemory[PushedArgumentCell(i)]
        BY <1>1, <1>3, ArgumentFound
      <4>2. list[i] = cpu.r[Arguments[i]]
        BY <1>1, <4>1, PushesKept
      <4>3. base + i \in 1..Len(operands) /\ Arguments[i] = operands[base + i]
        BY <1>3, <1>4
      <4> HIDE DEF list, base
      <4>4. QED
        BY <1>4, <4>2, <4>3
    <3>2. QED
      BY <3>1
  <2>2. list = [i \in 1..c |-> list[i]]
    BY <1>3
  <2> HIDE DEF list, base, count, c
  <2>3. list \in [1..c -> Word]
    BY <2>1, <2>2
  <2>4. list \in Seq(Word) /\ Len(list) = c
    BY <1>3, <2>3
  <2> DEFINE shown == SubSeq(Values, base + 1, Len(Values))
             v == Values
  <2>5. v \in Seq(Word) /\ Len(v) = base + c
    BY <1>3, <1>4, <1>5
  <2>6. /\ SubSeq(v, base + 1, base + c) \in Seq(Word) /\ Len(SubSeq(v, base + 1, base + c)) = c
        /\ \A i \in 1..c : SubSeq(v, base + 1, base + c)[i] = v[base + i]
    <3> HIDE DEF v
    <3>1. QED
      BY <1>3, <2>5
  <2>7. shown \in Seq(Word) /\ Len(shown) = c /\ \A i \in 1..c : shown[i] = Values[base + i]
    BY <2>5, <2>6
  <2> HIDE DEF shown
  <2>8. list = shown
    BY <2>1, <2>4, <2>7, SameValues
  <2>9. QED
    BY <2>8 DEF shown
<1>7. /\ cpu'.r[REG_FP] = cpu.r[REG_FP]
      /\ \A k \in SavedRegisters : k # reg => cpu'.r[k] = cpu.r[k]
  <2> DEFINE back == [a \in Word |-> IF a \in SavedCells THEN CallerMemory[a] ELSE m[a]]
             Given(k) == CASE k = reg -> r[REG_RETURN]
                       [] k \in {REG_SP, REG_FP} -> cpu.r[k]
                       [] k \in SavedRegisters -> back[SavedCell(k)]
                       [] k = REG_TMP /\ SavedRegisters \cup ArgumentRegisters # {} -> 1
                       [] OTHER -> r[k]
  <2>1. cpu'.r = [k \in Registers |-> Given(k)]
    BY <1>2 DEF CallReturns
  <2>2. \A k \in SavedRegisters : back[SavedCell(k)] = cpu.r[k]
    BY <1>1, PushesKept DEF SavedCells
  <2>3. /\ General \subseteq Registers /\ SavedRegisters \subseteq General
        /\ {REG_FP, REG_SP, REG_TMP} \subseteq Registers \ General /\ REG_FP # REG_TMP
    BY <1>1, PushesFit, FrameRegisters, RegisterNumbers
  <2> HIDE DEF back
  <2>4. Given(REG_FP) = cpu.r[REG_FP]
    BY <2>3
  <2>5. ASSUME NEW k \in SavedRegisters, k # reg PROVE Given(k) = cpu.r[k]
    <3>1. k \notin {REG_SP, REG_FP, REG_TMP}
      BY <2>3
    <3>2. Given(k) = back[SavedCell(k)]
      BY <2>5, <3>1
    <3>3. QED
      BY <2>2, <3>2
  <2> HIDE DEF Given
  <2>6. QED
    BY <2>1, <2>3, <2>4, <2>5
<1>8. \A i \in 1..base : operands[i] \in SavedRegisters /\ operands[i] # reg
  <2>1. \A i \in 1..base : operands[i] \in SavedRegisters
    BY <1>1, HeldIsSaved
  <2>2. Distinct(operands')
    BY Discipline
  <2> DEFINE front == SubSeq(operands, 1, base)
             longer == Append(front, reg)
  <2>3. /\ front \in Seq(General) /\ Len(front) = base /\ \A i \in 1..base : front[i] = operands[i]
    BY <1>3, <1>4, <1>5
  <2> HIDE DEF front, base
  <2>4. /\ DOMAIN longer = 1..(base + 1) /\ longer[base + 1] = reg
        /\ \A i \in 1..base : longer[i] = front[i]
    BY <1>3, <2>3
  <2>5. operands' = longer
    BY <1>2 DEF front
  <2> HIDE DEF longer
  <2>6. \A i \in 1..base : longer[i] # longer[base + 1]
    <3>1. \A i \in 1..base : i \in 1..(base + 1) /\ base + 1 \in 1..(base + 1) /\ i # base + 1
      BY <1>3
    <3>2. QED
      BY <2>2, <2>4, <2>5, <3>1 DEF Distinct
  <2>7. \A i \in 1..base : operands[i] # reg
    BY <2>3, <2>4, <2>6
  <2>8. QED
    BY <2>1, <2>7
<1>9. Values' = Append(SubSeq(Values, 1, base), cpu'.r[reg])
  <2>1. \A i \in 1..base : cpu'.r[operands[i]] = cpu.r[operands[i]]
    BY <1>7, <1>8
  <2> HIDE DEF base
  <2>2. QED
    BY <1>2, <1>3, <1>5, <2>1, ValuesReplaced
<1>10. cpu'.r[reg] \in Word
  BY NextParts, RegisterNumbers
<1>11. Env' = Env /\ Hidden' = Hidden /\ cpu'.m \in [Word -> Word]
  BY <1>1, <1>7, SameNames, NextParts
<1>12. Saw("call", f, SubSeq(Values, base + 1, Len(Values)))
  <2> HIDE DEF list
  <2>1. QED
    BY <1>1, <1>6
<1>13. QED
  BY <1>1, <1>5, <1>9, <1>10, <1>11, <1>12, AsCall

(* Lists, arguments and calls are steps of the source.                      *)
LEMMA CallExpressionStep ==
    ASSUME SourceInv, TypeOK', RegisterDiscipline', CallExpression
    PROVE  Source!Next
<1>1. CASE BeginFunctionArguments \/ AddFunctionArgument
  BY <1>1, ListStep DEF Source!Next
<1>2. CASE \E f \in FunctionNames : FunctionCall(f)
  BY <1>2, CallStep DEF Source!Next
<1>3. CASE \E f \in FunctionNames : CallFails(f)
  BY <1>3, ExitStep DEF CallFails, Source!Next
<1>4. QED
  BY <1>1, <1>2, <1>3 DEF CallExpression

-----------------------------------------------------------------------------
(* The top level *)

(* Outside the bodies no value is held and no block is open.                *)
LEMMA FrameStep ==
    ASSUME SourceInv, TypeOK', operands = <<>>, operands' = <<>>, scopes = <<>>, scopes' = <<>>,
           calls' = calls, NEW shown, Saw("frame", Nothing, shown)
    PROVE  Source!NewFrame
<1>1. Values = <<>> /\ Values' = <<>> /\ Hidden = <<>> /\ Hidden' = <<>>
  BY NoneLeft, NothingHidden DEF Hidden
<1>2. symbols' \in Seq(Symbols) /\ cpu'.r[REG_FP] \in Word /\ cpu'.m \in [Word -> Word]
  BY NextParts
<1>3. \A x \in DOMAIN Env' : x \in Names /\ Env'[x] \in Word
  <2> DEFINE table == symbols'
             fp == cpu'.r[REG_FP]
  <2>1. Env' = EnvironmentOf(table, fp)
    BY DEF Env
  <2>2. table \in Seq(Symbols) /\ fp \in Word
    BY <1>2
  <2> HIDE DEF table, fp
  <2>3. \A x \in DOMAIN EnvironmentOf(table, fp) : x \in Names /\ EnvironmentOf(table, fp)[x] \in Word
    BY <2>2, EnvironmentIs
  <2>4. QED
    BY <2>1, <2>3
<1>4. DOMAIN Env' \subseteq Names
  BY <1>3
<1>5. QED
  BY <1>1, <1>2, <1>3, <1>4, AsNewFrame

(* Every step between functions is a new frame of the source, or its end.   *)
LEMMA TopLevelStep ==
    ASSUME SourceInv, TypeOK', TopLevel
    PROVE  Source!Next
<1>1. \A parameters \in ParameterLists : DefinitionFails(parameters) => Source!Next
  BY ExitStep DEF DefinitionFails, Source!Next
<1>2. ASSUME phase \notin Bodies \cup {"exit"}, operands = <<>>, operands' = operands, scopes' = scopes,
             calls' = calls, NEW shown, Saw("frame", Nothing, shown)
      PROVE  Source!Next
  <2>1. scopes = <<>>
    BY <1>2 DEF SourceInv, ShapeInv, BasesAgree
  <2>2. Source!NewFrame
    BY <1>2, <2>1, FrameStep
  <2>3. QED
    BY <2>2 DEF Source!Next
<1>3. phase \notin Bodies \cup {"globals", "exit"} => operands = <<>>
  BY DEF SourceInv, RegisterInv, NothingHeld
<1>4. CASE ProgramStart
  BY <1>2, <1>4 DEF ProgramStart, Bodies, state
<1>5. CASE \E f \in FunctionNames, parameters \in ParameterLists : BeginFunctionDefinition(f, parameters)
  BY <1>2, <1>3, <1>5 DEF BeginFunctionDefinition, Bodies
<1>6. CASE EndFunctionDefinition
  BY <1>2, <1>3, <1>6 DEF EndFunctionDefinition, Bodies, state
<1>7. CASE BeginMainMethod
  BY <1>2, <1>3, <1>7 DEF BeginMainMethod, Bodies
<1>8. CASE EndMainMethod
  BY <1>2, <1>3, <1>8 DEF EndMainMethod, Bodies, state
<1>9. QED
  BY <1>1, <1>4, <1>5, <1>6, <1>7, <1>8 DEF TopLevel

-----------------------------------------------------------------------------
(* The refinement *)

(* The invariant is inductive: its parts are, one after the other.          *)
LEMMA SourceInvStep == SourceInv /\ [Next]_vars => SourceInv'
BY ShapeStep, RegisterStep, CacheStep DEF SourceInv

(* The program starts where the source does.                                *)
LEMMA SourceInit == Init => Source!Init
<1> SUFFICES ASSUME Init PROVE Source!Init
  OBVIOUS
<1>1. /\ operands = <<>> /\ calls = <<>> /\ scopes = <<>> /\ symbols = <<>>
      /\ event = Event("start", Nothing, <<>>)
  BY DEF Init
<1>2. cpu.m \in [Word -> Word]
  BY CodeGenAssumption DEF Init
<1>3. Values = <<>> /\ Hidden = <<>>
  BY <1>1, NoneLeft, NothingHidden DEF Hidden
<1>4. Env = [x \in {} |-> 0]
  <2>1. {symbols[i].name : i \in DOMAIN symbols} = {}
    BY <1>1
  <2>2. QED
    BY <2>1 DEF Env, EnvironmentOf
<1>5. QED
  BY <1>1, <1>2, <1>3, <1>4, Mapped
     DEF Source!Init, Source!Memory, Source!Cell, MappedValues, MappedEnv, MappedHidden, Event,
         Nothing, Word

(* Every step of the code generator is a step of the source or a stutter.   *)
LEMMA SourceStep == SourceInv /\ SourceInv' /\ [Next]_vars => [Source!Next]_(Source!source)
<1> SUFFICES ASSUME SourceInv, SourceInv', [Next]_vars PROVE [Source!Next]_(Source!source)
  OBVIOUS
<1>1. TypeOK' /\ RegisterDiscipline'
  BY DEF SourceInv, ShapeInv, RegisterInv
<1>2. CASE UNCHANGED vars
  <2>1. /\ operands' = operands /\ calls' = calls /\ cpu' = cpu /\ symbols' = symbols
        /\ scopes' = scopes /\ event' = event
    BY <1>2 DEF vars, state
  <2>2. QED
    BY <2>1, SameMachine, Mapped DEF Source!source, MappedValues, MappedEnv, MappedHidden
<1>3. CASE Next
  BY <1>1, <1>2, <1>3, ExpressionStep, StatementStep, CallExpressionStep, TopLevelStep
     DEF Next, Finished
<1>4. QED
  BY <1>2, <1>3

(* ImplementsSource: for every program the parser may accept, every memory  *)
(* and every register file, the code the code_* calls emit does what the    *)
(* source says, operation by operation.                                     *)
THEOREM CodeImplementsSource == Spec => ImplementsSource
<1>1. Init => SourceInv
  BY ShapeInit, RegisterInit, CacheInit DEF SourceInv
<1>2. QED
  BY <1>1, SourceInvStep, SourceInit, SourceStep, PTL DEF Spec, ImplementsSource, Source!Spec

==============================================================================
