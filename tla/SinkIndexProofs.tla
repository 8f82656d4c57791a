--------------------------- MODULE SinkIndexProofs ---------------------------
(***************************************************************************)
(* Proofs that the sink factory builds the cache schema the spec gives:   *)
(* SchemaMatchesSpec for every schema, key and bound.                     *)
(*                                                                         *)
(* The secondary indexes are FlattenSeq of the indexes of each field.     *)
(* FlattenSeq is a recursive function of a LET; FlatFn names the same     *)
(* fixpoint so that its prefixes can be reasoned about, and induction on  *)
(* the fields is done as a least counterexample (NatHasLeast, from the    *)
(* well-foundedness of < on Nat), so that no theorem with an operator     *)
(* parameter is needed.  Good(fs, s, n) is what build_indexes promises of *)
(* the indexes s of the first n fields.                                   *)
(***************************************************************************)
EXTENDS SinkSchemaProofs, WellFoundedInduction, SequenceTheorems

(* Every non-empty set of naturals has a least element: the induction   *)
(* principle the lemmas below use, as a least counterexample.            *)
LEMMA NatHasLeast ==
    \A T \in SUBSET Nat : T # {} => \E x \in T : \A y \in T : x <= y
<1>. SUFFICES ASSUME NEW T \in SUBSET Nat, T # {}
              PROVE  \E x \in T : \A y \in T : x <= y
  OBVIOUS
<1>1. \E x \in T : \A y \in T : ~(<<y, x>> \in OpToRel(<, Nat))
  BY NatLessThanWellFounded, WFMin
<1>2. ASSUME NEW x \in Nat, NEW y \in Nat, ~(<<y, x>> \in OpToRel(<, Nat))
      PROVE  x <= y
  <2>1. <<y, x>> \in Nat \X Nat
    OBVIOUS
  <2>2. ~(y < x)
    BY <1>2, <2>1 DEF OpToRel
  <2>. QED
    BY <2>2
<1>. QED
  BY <1>1, <1>2

FlatFn(seqs) == CHOOSE f : f = [i \in 1..Len(seqs) |->
                      IF i = 1 THEN seqs[i] ELSE f[i - 1] \o seqs[i]]

(* FlattenSeq of a non-empty sequence is the last prefix concatenation.  *)
LEMMA FlattenIsFlatFn ==
    ASSUME NEW seqs, Len(seqs) # 0
    PROVE  FlattenSeq(seqs) = FlatFn(seqs)[Len(seqs)]
BY DEF FlattenSeq, FlatFn
Numeric == {"UInt", "Int", "Float", "Boolean", "Decimal", "Timestamp", "Date", "Point"}
Unindexed == {"Text", "Binary", "Bson"}

IndexDefs == {SortedInverted(<<i>>) : i \in Nat} \cup {FullText(i) : i \in Nat}

SpecUpTo(fs, n) ==
    {SortedInverted(<<i>>) : i \in {j \in 1..n : fs[j].typ \notin Unindexed}}
    \cup {FullText(i) : i \in {j \in 1..n : fs[j].typ = "String"}}

Good(fs, s, n) ==
    /\ s \in Seq(IndexDefs)
    /\ ToSet(s) = SpecUpTo(fs, n)
    /\ IsInjective(s)
    /\ \A j \in 1..Len(s) - 1 : s[j].fields[1] <= s[j + 1].fields[1]
    /\ \A j \in 1..Len(s) : s[j].fields[1] \in 1..n

(* The indexes build_indexes adds for one field are good indexes for     *)
(* the schema's fields up to that one.                                    *)
LEMMA FieldGood ==
    ASSUME NEW fs \in Seq(Field), NEW n \in 1..Len(fs)
    PROVE  LET t == FieldIndexes(n, fs[n].typ) IN
           /\ t \in Seq(IndexDefs)
           /\ IsInjective(t)
           /\ \A j \in 1..Len(t) : t[j].fields[1] = n
           /\ SpecUpTo(fs, n) = SpecUpTo(fs, n - 1) \cup ToSet(t)
<1>. DEFINE t == FieldIndexes(n, fs[n].typ)
            typ == fs[n].typ
<1>0. typ \in Numeric \cup {"String"} \cup Unindexed
  <2>1. fs[n] \in Field
    BY ElementOfSeq
  <2>. QED
    BY <2>1, SchemaAssumption DEF Field, Numeric, Unindexed
<1>1. SpecUpTo(fs, n) = SpecUpTo(fs, n - 1)
        \cup (IF typ \notin Unindexed THEN {SortedInverted(<<n>>)} ELSE {})
        \cup (IF typ = "String" THEN {FullText(n)} ELSE {})
  <2>1. {j \in 1..n : fs[j].typ \notin Unindexed} =
          {j \in 1..n - 1 : fs[j].typ \notin Unindexed} \cup
          (IF typ \notin Unindexed THEN {n} ELSE {})
    OBVIOUS
  <2>2. {j \in 1..n : fs[j].typ = "String"} =
          {j \in 1..n - 1 : fs[j].typ = "String"} \cup (IF typ = "String" THEN {n} ELSE {})
    OBVIOUS
  <2>. QED
    BY <2>1, <2>2 DEF SpecUpTo
<1>2. SortedInverted(<<n>>) \in IndexDefs /\ FullText(n) \in IndexDefs
      /\ SortedInverted(<<n>>).fields[1] = n /\ FullText(n).fields[1] = n
      /\ SortedInverted(<<n>>) # FullText(n)
  BY DEF IndexDefs, SortedInverted, FullText
<1>3. CASE typ \in Numeric
  <2>1. t = << SortedInverted(<<n>>) >>
    BY <1>3, Zenon DEF FieldIndexes, Numeric
  <2>2. typ \notin Unindexed /\ typ # "String"
    BY <1>3 DEF Numeric, Unindexed
  <2>. QED
    BY <1>1, <1>2, <2>1, <2>2 DEF IsInjective, ToSet
<1>4. CASE typ = "String"
  <2>1. t = << SortedInverted(<<n>>), FullText(n) >>
    BY <1>4, Zenon DEF FieldIndexes
  <2>2. typ \notin Unindexed
    BY <1>4 DEF Unindexed
  <2>3. /\ t \in Seq(IndexDefs) /\ Len(t) = 2 /\ DOMAIN t = 1..2
        /\ t[1] = SortedInverted(<<n>>) /\ t[2] = FullText(n)
    BY <1>2, <2>1
  <2>4. ToSet(t) = {SortedInverted(<<n>>), FullText(n)}
    BY <2>3 DEF ToSet
  <2>. QED
    BY <1>1, <1>2, <1>4, <2>2, <2>3, <2>4 DEF IsInjective
<1>5. CASE typ \in Unindexed
  <2>1. t = << >>
    BY <1>5, Zenon DEF FieldIndexes, Unindexed
  <2>. QED
    BY <1>1, <1>5, <2>1 DEF IsInjective, ToSet, Unindexed
<1>. QED
  BY <1>0, <1>3, <1>4, <1>5

(* Appending the next field's indexes to good indexes for the fields     *)
(* before it gives good indexes for the fields up to it.                  *)
LEMMA ConcatGood ==
    ASSUME NEW fs \in Seq(Field), NEW n \in 2..Len(fs), NEW s, Good(fs, s, n - 1)
    PROVE  Good(fs, s \o FieldIndexes(n, fs[n].typ), n)
<1>. DEFINE t == FieldIndexes(n, fs[n].typ)
            u == s \o t
<1>1. /\ t \in Seq(IndexDefs)
      /\ IsInjective(t)
      /\ \A j \in 1..Len(t) : t[j].fields[1] = n
      /\ SpecUpTo(fs, n) = SpecUpTo(fs, n - 1) \cup ToSet(t)
  BY FieldGood
<1>2. s \in Seq(IndexDefs)
  BY DEF Good
<1>3. /\ u \in Seq(IndexDefs)
      /\ Len(u) = Len(s) + Len(t)
      /\ \A i \in 1..Len(s) + Len(t) : u[i] = IF i <= Len(s) THEN s[i] ELSE t[i - Len(s)]
  BY <1>1, <1>2, ConcatProperties
<1>4. \A j \in 1..Len(u) : /\ j <= Len(s) => u[j].fields[1] \in 1..n - 1
                           /\ j > Len(s) => u[j].fields[1] = n
  BY <1>1, <1>3 DEF Good
<1>5. ToSet(u) = ToSet(s) \cup ToSet(t)
  <2>1. DOMAIN u = 1..Len(u) /\ DOMAIN s = 1..Len(s) /\ DOMAIN t = 1..Len(t)
    BY <1>1, <1>2, <1>3, LenProperties
  <2>2. ASSUME NEW i \in 1..Len(u) PROVE u[i] \in ToSet(s) \cup ToSet(t)
    <3>1. CASE i <= Len(s)
      <4>1. i \in DOMAIN s /\ u[i] = s[i]
        BY <3>1, <2>1, <1>3
      <4>. QED
        BY <4>1 DEF ToSet
    <3>2. CASE i > Len(s)
      <4>1. i - Len(s) \in DOMAIN t /\ u[i] = t[i - Len(s)]
        BY <3>2, <2>1, <1>3
      <4>. QED
        BY <4>1 DEF ToSet
    <3>. QED
      BY <3>1, <3>2
  <2>3. ASSUME NEW i \in 1..Len(s) PROVE s[i] \in ToSet(u)
    <3>1. i \in DOMAIN u /\ u[i] = s[i]
      BY <2>1, <1>3
    <3>. QED
      BY <3>1 DEF ToSet
  <2>4. ASSUME NEW i \in 1..Len(t) PROVE t[i] \in ToSet(u)
    <3>1. Len(s) + i \in DOMAIN u /\ u[Len(s) + i] = t[i]
      BY <2>1, <1>3
    <3>. QED
      BY <3>1 DEF ToSet
  <2>. QED
    BY <2>1, <2>2, <2>3, <2>4 DEF ToSet
<1>6. IsInjective(u)
  <2>. SUFFICES ASSUME NEW a \in 1..Len(u), NEW b \in 1..Len(u), u[a] = u[b]
               PROVE  a = b
    BY <1>3 DEF IsInjective
  <2>1. CASE a <= Len(s) /\ b <= Len(s)
    BY <2>1, <1>2, <1>3 DEF Good, IsInjective
  <2>2. CASE a > Len(s) /\ b > Len(s)
    <3>1. t[a - Len(s)] = t[b - Len(s)] /\ a - Len(s) \in 1..Len(t) /\ b - Len(s) \in 1..Len(t)
      BY <2>2, <1>3
    <3>. QED
      BY <3>1, <1>1 DEF IsInjective
  <2>3. CASE (a <= Len(s)) # (b <= Len(s))
    BY <2>3, <1>4
  <2>. QED
    BY <2>1, <2>2, <2>3
<1>7. \A j \in 1..Len(u) - 1 : u[j].fields[1] <= u[j + 1].fields[1]
  <2>. SUFFICES ASSUME NEW j \in 1..Len(u) - 1 PROVE u[j].fields[1] <= u[j + 1].fields[1]
    OBVIOUS
  <2>1. CASE j < Len(s)
    BY <2>1, <1>3 DEF Good
  <2>2. CASE j = Len(s)
    <3>1. j \in 1..Len(u) /\ j + 1 \in 1..Len(u) /\ j <= Len(s) /\ j + 1 > Len(s)
      BY <2>2, <1>3
    <3>. QED
      BY <3>1, <1>4
  <2>3. CASE j > Len(s)
    <3>1. j \in 1..Len(u) /\ j + 1 \in 1..Len(u) /\ j > Len(s) /\ j + 1 > Len(s)
      BY <2>3, <1>3
    <3>. QED
      BY <3>1, <1>4
  <2>. QED
    BY <2>1, <2>2, <2>3, <1>3
<1>8. ToSet(s) = SpecUpTo(fs, n - 1)
  BY DEF Good
<1>9. \A j \in 1..Len(u) : u[j].fields[1] \in 1..n
  BY <1>4
<1>. QED
  BY <1>1, <1>3, <1>5, <1>6, <1>7, <1>8, <1>9 DEF Good

(* The prefix concatenations of the per-field indexes exist.             *)
LEMMA FlatExists ==
    ASSUME NEW S, NEW seqs \in Seq(Seq(S)), Len(seqs) # 0
    PROVE  FlatFn(seqs) = [i \in 1..Len(seqs) |->
                              IF i = 1 THEN seqs[i] ELSE FlatFn(seqs)[i - 1] \o seqs[i]]
<1>. DEFINE L == Len(seqs)
            Ok(g, n) == /\ g \in [1..n -> Seq(S)]
                        /\ \A i \in 1..n : g[i] = IF i = 1 THEN seqs[i] ELSE g[i - 1] \o seqs[i]
            T == {n \in 0..L : ~\E g : Ok(g, n)}
<1>0. /\ L \in Nat
      /\ T \in SUBSET Nat
      /\ \A n \in 0..L : n \notin T => \E g : Ok(g, n)
  <2>1. L \in Nat
    BY LenProperties
  <2>. QED
    BY <2>1
<1>. HIDE DEF T
<1>1. T = {}
  <2>. SUFFICES ASSUME T # {} PROVE FALSE
    OBVIOUS
  <2>1. PICK m \in T : \A y \in T : m <= y
    BY <1>0, NatHasLeast
  <2>2. m \in 0..L /\ ~\E g : Ok(g, m)
    BY <2>1 DEF T
  <2>3. CASE m = 0
    <3>1. Ok([i \in 1..0 |-> << >>], 0)
      OBVIOUS
    <3>. QED
      BY <2>2, <2>3, <3>1
  <2>4. CASE m # 0
    <3>1. m - 1 \in 0..L /\ m - 1 \notin T
      BY <2>1, <2>2, <2>4
    <3>2. PICK g : Ok(g, m - 1)
      BY <3>1, <1>0
    <3>. DEFINE h == [i \in 1..m |-> IF i < m THEN g[i]
                                    ELSE IF m = 1 THEN seqs[1] ELSE g[m - 1] \o seqs[m]]
    <3>3. m \in 1..L
      BY <2>2, <2>4
    <3>4. h \in [1..m -> Seq(S)]
      BY <3>2, <3>3
    <3>5. ASSUME NEW i \in 1..m PROVE h[i] = IF i = 1 THEN seqs[i] ELSE h[i - 1] \o seqs[i]
      <4>1. CASE i < m
        <5>1. h[i] = g[i] /\ i \in 1..m - 1
          BY <4>1, <3>3
        <5>2. i # 1 => h[i - 1] = g[i - 1]
          BY <4>1, <3>3
        <5>. QED
          BY <3>2, <5>1, <5>2
      <4>2. CASE i = m /\ m = 1
        BY <4>2, <3>3
      <4>3. CASE i = m /\ m # 1
        <5>0. i \in 2..m /\ ~(i < m) /\ i - 1 \in 1..m /\ i - 1 < m
          BY <4>3, <3>3
        <5>1. h[i] = g[m - 1] \o seqs[m] /\ h[i - 1] = g[m - 1]
          BY <5>0, <4>3, Zenon
        <5>2. i # 1 /\ seqs[i] = seqs[m]
          BY <5>0, <4>3
        <5>. QED
          BY <5>1, <5>2, <4>3, Zenon
      <4>. QED
        BY <4>1, <4>2, <4>3, <3>3
    <3>6. Ok(h, m)
      BY <3>4, <3>5
    <3>. QED
      BY <2>2, <3>6
  <2>. QED
    BY <2>3, <2>4
<1>2. PICK g : Ok(g, L)
  <2>1. L \in 0..L /\ L \notin T
    BY <1>0, <1>1
  <2>. QED
    BY <1>0, <2>1
<1>3. g = [i \in 1..L |-> IF i = 1 THEN seqs[i] ELSE g[i - 1] \o seqs[i]]
  BY <1>2
<1>. QED
  BY <1>3 DEF FlatFn

(* The index sequences get_output_schema flattens, one per field.          *)
IdxSeqs(fs) == [i \in 1..Len(fs) |-> FieldIndexes(i, fs[i].typ)]

(* The first field's indexes are good for the first field.               *)
LEMMA FirstGood ==
    ASSUME NEW fs \in Seq(Field), Len(fs) # 0
    PROVE  Good(fs, FieldIndexes(1, fs[1].typ), 1)
<1>. DEFINE t == FieldIndexes(1, fs[1].typ)
<1>1. /\ t \in Seq(IndexDefs)
      /\ IsInjective(t)
      /\ \A j \in 1..Len(t) : t[j].fields[1] = 1
      /\ SpecUpTo(fs, 1) = SpecUpTo(fs, 0) \cup ToSet(t)
  BY FieldGood
<1>2. SpecUpTo(fs, 0) = {}
  BY DEF SpecUpTo
<1>3. Len(t) \in Nat
  BY <1>1
<1>4. \A j \in 1..Len(t) - 1 : t[j].fields[1] <= t[j + 1].fields[1]
  BY <1>1, <1>3
<1>5. ToSet(t) = SpecUpTo(fs, 1)
  BY <1>1, <1>2
<1>6. \A j \in 1..Len(t) : t[j].fields[1] \in 1..1
  BY <1>1
<1>. QED
  BY <1>1, <1>4, <1>5, <1>6 DEF Good

(* The flattened indexes of build_indexes are good for all the fields:   *)
(* the spec's set, each once, in field order, by induction on the fields. *)
LEMMA SecondaryGood ==
    ASSUME NEW fs \in Seq(Field)
    PROVE  Good(fs, SecondaryIndexes(fs), Len(fs))
<1>. DEFINE L == Len(fs)
            seqs == IdxSeqs(fs)
<1>1. CASE L = 0
  <2>1. SecondaryIndexes(fs) = << >>
    BY <1>1 DEF SecondaryIndexes, FlattenSeq
  <2>. QED
    BY <1>1, <2>1 DEF Good, ToSet, SpecUpTo, IsInjective
<1>2. CASE L # 0
  <2>1. seqs \in Seq(Seq(IndexDefs)) /\ Len(seqs) = L
    BY FieldGood DEF IdxSeqs
  <2>. DEFINE F == FlatFn(seqs)
  <2>2. F = [i \in 1..L |-> IF i = 1 THEN seqs[i] ELSE F[i - 1] \o seqs[i]]
    BY <1>2, <2>1, FlatExists
  <2>3. SecondaryIndexes(fs) = F[L]
    BY <1>2, <2>1, FlattenIsFlatFn DEF SecondaryIndexes, IdxSeqs
  <2>. DEFINE T == {n \in 1..L : ~Good(fs, F[n], n)}
  <2>4. T = {}
    <3>. SUFFICES ASSUME T # {} PROVE FALSE
      OBVIOUS
    <3>0. T \in SUBSET Nat
      OBVIOUS
    <3>. HIDE DEF T
    <3>1. PICK m \in T : \A y \in T : m <= y
      BY <3>0, NatHasLeast
    <3>2. m \in 1..L /\ ~Good(fs, F[m], m)
      BY <3>1 DEF T
    <3>3. CASE m = 1
      <4>1. F[1] = FieldIndexes(1, fs[1].typ)
        <5>1. 1 \in 1..L
          BY <1>2
        <5>. QED
          BY <2>2, <5>1 DEF IdxSeqs
      <4>. QED
        BY <3>2, <3>3, <4>1, <1>2, FirstGood
    <3>4. CASE m # 1
      <4>1. m - 1 \in 1..L /\ m - 1 \notin T
        BY <3>1, <3>2, <3>4
      <4>2. Good(fs, F[m - 1], m - 1)
        BY <4>1 DEF T
      <4>3. F[m] = F[m - 1] \o FieldIndexes(m, fs[m].typ)
        BY <2>2, <3>2, <3>4 DEF IdxSeqs
      <4>4. m \in 2..L
        BY <3>2, <3>4
      <4>. QED
        BY <3>2, <4>2, <4>3, <4>4, ConcatGood
    <3>. QED
      BY <3>3, <3>4
  <2>5. L \in 1..L
    BY <1>2
  <2>. QED
    BY <2>3, <2>4, <2>5
<1>. QED
  BY <1>1, <1>2

(* The position create_primary_indexes finds for a name: the least        *)
(* position of a field of that name, or 0 when there is none.             *)
LEMMA PositionSpec ==
    ASSUME NEW fs \in Seq(Field), NEW nm
    PROVE  /\ (\A i \in 1..Len(fs) : fs[i].name # nm) => Position(fs, nm) = 0
           /\ (\E i \in 1..Len(fs) : fs[i].name = nm) =>
                /\ Position(fs, nm) \in 1..Len(fs)
                /\ Position(fs, nm) =
                     CHOOSE i \in 1..Len(fs) : /\ fs[i].name = nm
                                               /\ \A i2 \in 1..i - 1 : fs[i2].name # nm
<1>. DEFINE I == {i \in 1..Len(fs) : fs[i].name = nm}
            First(i) == /\ fs[i].name = nm
                        /\ \A i2 \in 1..i - 1 : fs[i2].name # nm
<1>1. Position(fs, nm) = IF I # {} THEN Min(I) ELSE 0
  BY DEF Position, SelectInSeq
<1>2. CASE \A i \in 1..Len(fs) : fs[i].name # nm
  BY <1>1, <1>2
<1>3. CASE \E i \in 1..Len(fs) : fs[i].name = nm
  <2>0. I \in SUBSET Nat /\ I # {} /\ Len(fs) \in Nat
    BY <1>3
  <2>1. PICK m \in I : \A y \in I : m <= y
    BY <2>0, NatHasLeast
  <2>2. Min(I) = m
    <3>1. \A x \in I : (\A y \in I : x <= y) => x = m
      BY <2>0, <2>1
    <3>. QED
      BY <2>1, <3>1 DEF Min
  <2>3. (CHOOSE i \in 1..Len(fs) : First(i)) = m
    <3>1. m \in 1..Len(fs) /\ First(m)
      BY <2>0, <2>1
    <3>2. \A x \in 1..Len(fs) : First(x) => x = m
      BY <2>0, <2>1
    <3>. QED
      BY <3>1, <3>2
  <2>. QED
    BY <1>1, <1>3, <2>1, <2>2, <2>3
<1>. QED
  BY <1>2, <1>3

(* The match on the configured and the upstream primary index, arm by arm. *)
LEMMA PrimaryIndexArms ==
    ASSUME NEW c, NEW up
    PROVE  LET p == PrimaryIndex(c, up) IN
           /\ c = << >> => p.ok /\ p.index = up
           /\ c # << >> /\ up = << >> => p.ok /\ p.index = c
           /\ c # << >> /\ up # << >> /\ up # c => ~p.ok
           /\ c # << >> /\ up = c => p.ok /\ p.index = c
<1>1. c = << >> => PrimaryIndex(c, up) = [ok |-> TRUE, index |-> up]
  BY Zenon DEF PrimaryIndex
<1>2. c # << >> /\ up = << >> => PrimaryIndex(c, up) = [ok |-> TRUE, index |-> c]
  BY Zenon DEF PrimaryIndex
<1>3. c # << >> /\ up # << >> /\ up # c => PrimaryIndex(c, up) = [ok |-> FALSE, index |-> << >>]
  BY Zenon DEF PrimaryIndex
<1>4. c # << >> /\ up = c => PrimaryIndex(c, up) = [ok |-> TRUE, index |-> c]
  BY Zenon DEF PrimaryIndex
<1>5. c = << >> => PrimaryIndex(c, up).ok /\ PrimaryIndex(c, up).index = up
  BY <1>1
<1>6. c # << >> /\ up = << >> => PrimaryIndex(c, up).ok /\ PrimaryIndex(c, up).index = c
  BY <1>2
<1>7. c # << >> /\ up # << >> /\ up # c => ~PrimaryIndex(c, up).ok
  BY <1>3
<1>8. c # << >> /\ up = c => PrimaryIndex(c, up).ok /\ PrimaryIndex(c, up).index = c
  BY <1>4
<1>. QED
  BY <1>5, <1>6, <1>7, <1>8

(* The configured positions: FieldNotFound exactly when a name matches no *)
(* field; otherwise the spec's positions, empty exactly when no name is   *)
(* configured.                                                             *)
LEMMA ConfiguredPositions ==
    ASSUME NEW fs \in Seq(Field), NEW ns \in Seq(Names)
    PROVE  /\ CreatePrimaryIndexesFails(fs, ns) <=>
                \E j \in 1..Len(ns) : \A i \in 1..Len(fs) : fs[i].name # ns[j]
           /\ ~CreatePrimaryIndexesFails(fs, ns) =>
                CreatePrimaryIndexes(fs, ns) = SpecPositions(fs, ns)
           /\ CreatePrimaryIndexes(fs, ns) = << >> <=> ns = << >>
<1>1. \A j \in 1..Len(ns) :
        (Position(fs, ns[j]) = 0) <=> \A i \in 1..Len(fs) : fs[i].name # ns[j]
  BY PositionSpec
<1>2. CreatePrimaryIndexesFails(fs, ns) <=>
        \E j \in 1..Len(ns) : \A i \in 1..Len(fs) : fs[i].name # ns[j]
  BY <1>1 DEF CreatePrimaryIndexesFails
<1>3. ASSUME ~CreatePrimaryIndexesFails(fs, ns)
      PROVE  CreatePrimaryIndexes(fs, ns) = SpecPositions(fs, ns)
  <2>1. ASSUME NEW j \in 1..Len(ns)
        PROVE  Position(fs, ns[j]) =
                 CHOOSE i \in 1..Len(fs) : /\ fs[i].name = ns[j]
                                           /\ \A i2 \in 1..i - 1 : fs[i2].name # ns[j]
    <3>1. \E i \in 1..Len(fs) : fs[i].name = ns[j]
      BY <1>2, <1>3
    <3>. QED
      BY <3>1, PositionSpec
  <2>. QED
    BY <2>1 DEF CreatePrimaryIndexes, SpecPositions
<1>4. CreatePrimaryIndexes(fs, ns) = << >> <=> ns = << >>
  <2>1. DOMAIN CreatePrimaryIndexes(fs, ns) = 1..Len(ns) /\ DOMAIN ns = 1..Len(ns)
        /\ DOMAIN << >> = {}
    BY DEF CreatePrimaryIndexes
  <2>2. CASE Len(ns) = 0
    <3>1. ns = << >>
      BY <2>2
    <3>2. CreatePrimaryIndexes(fs, ns) = << >>
      BY <2>2 DEF CreatePrimaryIndexes
    <3>. QED
      BY <3>1, <3>2
  <2>3. CASE Len(ns) # 0
    <3>1. 1 \in 1..Len(ns)
      BY <2>3
    <3>. QED
      BY <2>1, <3>1
  <2>. QED
    BY <2>2, <2>3
<1>. QED
  BY <1>2, <1>3, <1>4

(* get_output_schema agrees with the spec: it fails (FieldNotFound or     *)
(* MismatchPrimaryKey) exactly when the endpoint is misconfigured, and    *)
(* otherwise returns the spec's primary index and the secondary indexes.  *)
LEMMA GetOutputSchemaSpec ==
    ASSUME NEW fs \in Seq(Field), NEW ns \in Seq(Names), NEW up
    PROVE  LET s == GetOutputSchema(fs, up, ns) IN
           /\ s.error \in {"FieldNotFound", "MismatchPrimaryKey", "none"}
           /\ s.error # "none" => Misconfigured(fs, up, ns)
           /\ s.error = "none" =>
                /\ ~Misconfigured(fs, up, ns)
                /\ s.primary = IF ns = << >> THEN up ELSE SpecPositions(fs, ns)
                /\ s.secondary = SecondaryIndexes(fs)
<1>. DEFINE s == GetOutputSchema(fs, up, ns)
            c == CreatePrimaryIndexes(fs, ns)
            p == PrimaryIndex(c, up)
<1>1. CASE CreatePrimaryIndexesFails(fs, ns)
  <2>1. s = [error |-> "FieldNotFound"]
    BY <1>1 DEF GetOutputSchema
  <2>2. Misconfigured(fs, up, ns)
    BY <1>1, ConfiguredPositions DEF Misconfigured
  <2>. QED
    BY <2>1, <2>2
<1>2. CASE ~CreatePrimaryIndexesFails(fs, ns)
  <2>1. s = IF ~p.ok THEN [error |-> "MismatchPrimaryKey"]
            ELSE [error |-> "none", primary |-> p.index,
                  secondary |-> SecondaryIndexes(fs)]
    BY <1>2 DEF GetOutputSchema
  <2>2. c = SpecPositions(fs, ns) /\ (c = << >> <=> ns = << >>)
    BY <1>2, ConfiguredPositions
  <2>3. ~\E j \in 1..Len(ns) : \A i \in 1..Len(fs) : fs[i].name # ns[j]
    BY <1>2, ConfiguredPositions
  <2>4. CASE ns = << >>
    <3>1. p.ok /\ p.index = up
      BY <2>2, <2>4, PrimaryIndexArms
    <3>2. ~Misconfigured(fs, up, ns)
      BY <2>3, <2>4 DEF Misconfigured
    <3>. QED
      BY <2>1, <2>4, <3>1, <3>2
  <2>5. CASE ns # << >> /\ up = << >>
    <3>1. p.ok /\ p.index = c
      BY <2>2, <2>5, PrimaryIndexArms
    <3>2. ~Misconfigured(fs, up, ns)
      BY <2>3, <2>5 DEF Misconfigured
    <3>. QED
      BY <2>1, <2>2, <2>5, <3>1, <3>2
  <2>6. CASE ns # << >> /\ up # << >> /\ up # c
    <3>1. ~p.ok
      BY <2>2, <2>6, PrimaryIndexArms
    <3>2. Misconfigured(fs, up, ns)
      BY <2>2, <2>6 DEF Misconfigured
    <3>. QED
      BY <2>1, <3>1, <3>2
  <2>7. CASE ns # << >> /\ up = c
    <3>1. p.ok /\ p.index = c
      BY <2>2, <2>7, PrimaryIndexArms
    <3>2. ~Misconfigured(fs, up, ns)
      BY <2>2, <2>3, <2>7 DEF Misconfigured
    <3>. QED
      BY <2>1, <2>2, <2>7, <3>1, <3>2
  <2>. QED
    BY <2>4, <2>5, <2>6, <2>7
<1>. QED
  BY <1>1, <1>2

(* The secondary indexes build_indexes creates are the spec's set, each   *)
(* once, in the order of the fields they index.                            *)
LEMMA SecondarySpec ==
    ASSUME NEW fs \in Seq(Field)
    PROVE  /\ ToSet(SecondaryIndexes(fs)) = SpecSecondary(fs)
           /\ IsInjective(SecondaryIndexes(fs))
           /\ \A j \in 1..Len(SecondaryIndexes(fs)) - 1 :
                SecondaryIndexes(fs)[j].fields[1] <= SecondaryIndexes(fs)[j + 1].fields[1]
<1>1. SpecUpTo(fs, Len(fs)) = SpecSecondary(fs)
  BY DEF SpecUpTo, SpecSecondary, Unindexed
<1>. QED
  BY <1>1, SecondaryGood DEF Good

(***************************************************************************)
(* SchemaMatchesSpec.  It is not inductive alone: a build reaches "built" *)
(* through "creating", "aliasing" and "opened", and create_cache writes   *)
(* the schema the cache keeps.  SchemaIInv adds to CacheIInv that an      *)
(* error of get_output_schema is the one it returns for this (unchanging) *)
(* configuration, that every phase past prepare was reached only when it  *)
(* returned no error, that every cache created holds the schema it        *)
(* returns, and that a built sink's cache is the schema of the cache it   *)
(* opened.                                                                 *)
(***************************************************************************)
OutSchema == GetOutputSchema(fields, upstreamIndex, names)

SchemaFacts ==
    /\ error \in {"FieldNotFound", "MismatchPrimaryKey"} => error = OutSchema.error
    /\ phase \in {"prepared", "creating", "aliasing", "opened", "built"} =>
         OutSchema.error = "none"
    /\ \A c \in created :
         cacheSchema[c] = [primary |-> OutSchema.primary, secondary |-> OutSchema.secondary]
    /\ phase = "built" => cache = cacheSchema[open]

SchemaIInv == CacheIInv /\ SchemaFacts

(* No step changes the configuration get_output_schema reads.              *)
LEMMA OutSchemaFixed ==
    ASSUME UNCHANGED <<fields, upstreamIndex, names>>
    PROVE  OutSchema' = OutSchema
BY DEF OutSchema

(* A new sink factory satisfies SchemaIInv.                              *)
LEMMA InitSchemaIInv == Init => SchemaIInv
BY InitCacheIInv DEF Init, SchemaIInv, SchemaFacts

(* prepare keeps the schema facts.                                        *)
LEMMA PrepareSchema == SchemaIInv /\ Prepare => SchemaFacts'
<1> SUFFICES ASSUME SchemaIInv, Prepare PROVE SchemaFacts'
  OBVIOUS
<1>1. OutSchema' = OutSchema
  BY OutSchemaFixed DEF Prepare
<1>. QED
  BY <1>1 DEF Prepare, OutSchema, persisted, SchemaIInv, SchemaFacts

(* build (get_output_schema, then open or create) keeps them.            *)
LEMMA BuildSchema == SchemaIInv /\ Build => SchemaFacts'
<1> SUFFICES ASSUME SchemaIInv, Build PROVE SchemaFacts'
  OBVIOUS
<1>1. OutSchema' = OutSchema
  BY OutSchemaFixed DEF Build
<1>. QED
  BY <1>1 DEF Build, BuildFails, OutSchema, persisted, SchemaIInv, SchemaFacts

(* create_cache records the schema get_output_schema returned.           *)
LEMMA CreateCacheSchema == SchemaIInv /\ CreateCache => SchemaFacts'
<1> SUFFICES ASSUME SchemaIInv, CreateCache PROVE SchemaFacts'
  OBVIOUS
<1>1. OutSchema' = OutSchema
  BY OutSchemaFixed DEF CreateCache
<1>. QED
  BY <1>1 DEF CreateCache, BuildFails, OutSchema, SchemaIInv, SchemaFacts

(* create_alias keeps the schema facts.                                   *)
LEMMA CreateAliasSchema == SchemaIInv /\ CreateAlias => SchemaFacts'
<1> SUFFICES ASSUME SchemaIInv, CreateAlias PROVE SchemaFacts'
  OBVIOUS
<1>1. OutSchema' = OutSchema
  BY OutSchemaFixed DEF CreateAlias
<1>. QED
  BY <1>1 DEF CreateAlias, BuildFails, OutSchema, SchemaIInv, SchemaFacts

(* CacheSink::new takes the schema of the cache it opened.                *)
LEMMA NewSinkSchema == SchemaIInv /\ NewSink => SchemaFacts'
<1> SUFFICES ASSUME SchemaIInv, NewSink PROVE SchemaFacts'
  OBVIOUS
<1>1. OutSchema' = OutSchema
  BY OutSchemaFixed DEF NewSink
<1>. QED
  BY <1>1 DEF NewSink, BuildFails, OutSchema, persisted, SchemaIInv, SchemaFacts

(* A commit keeps the schema facts.                                       *)
LEMMA CommitEpochSchema == SchemaIInv /\ CommitEpoch => SchemaFacts'
<1> SUFFICES ASSUME SchemaIInv, CommitEpoch PROVE SchemaFacts'
  OBVIOUS
<1>1. OutSchema' = OutSchema
  BY OutSchemaFixed DEF CommitEpoch
<1>. QED
  BY <1>1 DEF CommitEpoch, OutSchema, SchemaIInv, SchemaFacts

(* A crash keeps the persisted schemas and restarts the factory.          *)
LEMMA CrashSchema == SchemaIInv /\ Crash => SchemaFacts'
<1> SUFFICES ASSUME SchemaIInv, Crash PROVE SchemaFacts'
  OBVIOUS
<1>1. OutSchema' = OutSchema
  BY OutSchemaFixed DEF Crash
<1>. QED
  BY <1>1 DEF Crash, OutSchema, persisted, SchemaIInv, SchemaFacts

(* Every step of the sink factory keeps SchemaIInv.                      *)
LEMMA NextSchemaIInv == SchemaIInv /\ [Next]_vars => SchemaIInv'
<1> SUFFICES ASSUME SchemaIInv, [Next]_vars PROVE SchemaIInv'
  OBVIOUS
<1>1. CacheIInv'
  BY NextCacheIInv DEF SchemaIInv
<1>2. UNCHANGED vars => SchemaFacts'
  <2> SUFFICES ASSUME UNCHANGED vars PROVE SchemaFacts'
    OBVIOUS
  <2>1. UNCHANGED <<fields, upstreamIndex, names, phase, error, cache, open,
                    created, cacheSchema>>
    BY DEF vars, persisted
  <2>. QED
    BY <2>1 DEF OutSchema, SchemaIInv, SchemaFacts
<1>3. SchemaFacts'
  BY <1>2, PrepareSchema, BuildSchema, CreateCacheSchema, CreateAliasSchema,
     NewSinkSchema, CommitEpochSchema, CrashSchema DEF Next
<1>. QED
  BY <1>1, <1>3 DEF SchemaIInv

(* SchemaIInv holds in every state of every behaviour.                     *)
THEOREM SchemaIInvInvariant == Spec => []SchemaIInv
BY InitSchemaIInv, NextSchemaIInv, PTL DEF Spec

(* SchemaIInv, with the lemmas on get_output_schema, gives the spec's    *)
(* schema for an error and for a built sink.                             *)
LEMMA SchemaIInvImplies == SchemaIInv => SchemaMatchesSpec
<1> SUFFICES ASSUME SchemaIInv PROVE SchemaMatchesSpec
  OBVIOUS
<1>1. fields \in Seq(Field) /\ names \in Seq(Names)
  BY DEF SchemaIInv, CacheIInv, TypeOK
<1>. DEFINE s == GetOutputSchema(fields, upstreamIndex, names)
<1>2. /\ s.error # "none" => Misconfigured(fields, upstreamIndex, names)
      /\ s.error = "none" =>
           /\ ~Misconfigured(fields, upstreamIndex, names)
           /\ s.primary = IF names = << >> THEN upstreamIndex
                          ELSE SpecPositions(fields, names)
           /\ s.secondary = SecondaryIndexes(fields)
  BY <1>1, GetOutputSchemaSpec
<1>3. /\ ToSet(SecondaryIndexes(fields)) = SpecSecondary(fields)
      /\ IsInjective(SecondaryIndexes(fields))
      /\ \A j \in 1..Len(SecondaryIndexes(fields)) - 1 :
           SecondaryIndexes(fields)[j].fields[1] <= SecondaryIndexes(fields)[j + 1].fields[1]
  BY <1>1, SecondarySpec
<1>4. error \in {"FieldNotFound", "MismatchPrimaryKey"} =>
        Misconfigured(fields, upstreamIndex, names)
  BY <1>2 DEF SchemaIInv, SchemaFacts, OutSchema
<1>5. ASSUME phase = "built"
      PROVE  /\ s.error = "none"
             /\ cache = [primary |-> s.primary, secondary |-> s.secondary]
  <2>1. open \in created
    BY <1>5 DEF SchemaIInv, CacheIInv, TypeOK
  <2>. QED
    BY <1>5, <2>1 DEF SchemaIInv, SchemaFacts, OutSchema
<1>. QED
  BY <1>2, <1>3, <1>4, <1>5 DEF SchemaMatchesSpec

(* Every error get_output_schema returns (FieldNotFound, MismatchPrimaryKey) *)
(* means the endpoint really is misconfigured, and a built sink's cache has *)
(* the primary index the spec gives (the configured key's first matching   *)
(* positions, else the upstream index) and exactly the spec's secondary    *)
(* indexes, each once and in field order: for every schema and key of any  *)
(* length, whatever the crashes and cache names.                           *)
THEOREM SchemaMatchesSpecInvariant == Spec => []SchemaMatchesSpec
BY SchemaIInvInvariant, SchemaIInvImplies, PTL

=============================================================================
