-------------------------- MODULE ExpansionProofs -------------------------
(***************************************************************************)
(* expand_variables() for every token, all values of the variables and     *)
(* every size of the array.                                                *)
(***************************************************************************)
EXTENDS Expansion, Integers, SequenceTheorems, WellFoundedInduction, TLAPS

---------------------------------------------------------------------------
(* Least elements, and the concatenation of a sequence of texts. *)

LEMMA LeastExists ==
  ASSUME NEW S \in SUBSET Nat, S # {}
  PROVE  \E x \in S : \A y \in S : x <= y
<1>1. PICK x \in S : \A y \in S : ~(<<y, x>> \in OpToRel(<, Nat))
  BY WFMin, NatLessThanWellFounded
<1>2. \A y \in S : y < x => <<y, x>> \in {ss \in Nat \X Nat : ss[1] < ss[2]}
  OBVIOUS
<1>3. \A y \in S : ~(y < x) BY <1>1, <1>2, Zenon DEF OpToRel
<1> QED BY <1>3

LEMMA MinProperty ==
  ASSUME NEW S \in SUBSET Nat, S # {}
  PROVE  Min(S) \in S /\ \A y \in S : Min(S) <= y
<1>1. \E x \in S : \A y \in S : x <= y BY LeastExists
<1> QED BY <1>1 DEF Min

Unfolds(q, f, n) == f[1] = q[1] /\ \A k \in 2 .. n : f[k] = f[k - 1] \o q[k]

(* No counterexample is the least one, so the recursion has a solution. *)
LEMMA UnfoldingExists ==
  ASSUME NEW S, NEW q \in Seq(Seq(S)), NEW n \in 1 .. Len(q)
  PROVE  \E f \in [1 .. n -> Seq(S)] : Unfolds(q, f, n)
<1> DEFINE Bad == {m \in 1 .. Len(q) : ~ \E f \in [1 .. m -> Seq(S)] : Unfolds(q, f, m)}
<1>1. Len(q) \in Nat /\ \A k \in 1 .. Len(q) : q[k] \in Seq(S) BY LenProperties, ElementOfSeq
<1> SUFFICES ASSUME Bad # {} PROVE FALSE OBVIOUS
<1>2. Bad \in SUBSET Nat BY <1>1
<1>3. PICK m \in Bad : \A k \in Bad : m <= k BY <1>2, LeastExists
<1>4. m \in 1 .. Len(q) /\ ~ \E f \in [1 .. m -> Seq(S)] : Unfolds(q, f, m) BY <1>3
<1>5. CASE m = 1
  <2> DEFINE g == [k \in 1 .. m |-> q[1]]
  <2>1. g \in [1 .. m -> Seq(S)] BY <1>1, <1>4
  <2>2. Unfolds(q, g, m) BY <1>5 DEF Unfolds
  <2> QED BY <1>4, <2>1, <2>2
<1>6. CASE m # 1
  <2>1. m - 1 \in 1 .. Len(q) /\ m - 1 \notin Bad
    <3>1. m \in Nat /\ m > 1 /\ m - 1 \in 1 .. Len(q) /\ ~(m <= m - 1) BY <1>1, <1>4, <1>6
    <3> HIDE DEF Bad
    <3> QED BY <1>3, <3>1
  <2>2. PICK f \in [1 .. m - 1 -> Seq(S)] : Unfolds(q, f, m - 1) BY <2>1
  <2>3. PICK last \in Seq(S) : last = f[m - 1] \o q[m]
    <3>1. f[m - 1] \in Seq(S) /\ q[m] \in Seq(S) BY <1>1, <1>4, <2>1
    <3>2. f[m - 1] \o q[m] \in Seq(S) BY <3>1, ConcatProperties
    <3> QED BY <3>2
  <2> DEFINE g == [k \in 1 .. m |-> IF k = m THEN last ELSE f[k]]
  <2>4. g \in [1 .. m -> Seq(S)] BY <1>1, <1>4
  <2>5. Unfolds(q, g, m)
    <3>1. g[1] = q[1] BY <1>1, <1>4, <1>6, <2>2 DEF Unfolds
    <3>2. ASSUME NEW k \in 2 .. m PROVE g[k] = g[k - 1] \o q[k]
      <4>1. g[k - 1] = f[k - 1] BY <1>1, <1>4
      <4>2. CASE k = m
        <5>1. g[k] = last BY <1>1, <1>4, <4>2
        <5> HIDE DEF g
        <5> QED BY <2>3, <4>1, <4>2, <5>1
      <4>3. CASE k # m
        <5>1. k \in 2 .. m - 1 /\ g[k] = f[k] BY <1>1, <1>4, <4>3
        <5> QED BY <2>2, <4>1, <5>1 DEF Unfolds
      <4> QED BY <4>2, <4>3
    <3> QED BY <3>1, <3>2 DEF Unfolds
  <2> QED BY <1>4, <2>4, <2>5
<1> QED BY <1>5, <1>6

LEMMA FlattenProperty ==
  ASSUME NEW S, NEW q \in Seq(Seq(S)), Len(q) # 0
  PROVE  \E f \in [1 .. Len(q) -> Seq(S)] : Unfolds(q, f, Len(q)) /\ FlattenSeq(q) = f[Len(q)]
<1>1. Len(q) \in Nat /\ Len(q) \in 1 .. Len(q) BY LenProperties
<1> DEFINE Body(f) == [k \in 1 .. Len(q) |-> IF k = 1 THEN q[k] ELSE f[k - 1] \o q[k]]
           F == CHOOSE f : f = Body(f)
<1>2. PICK f \in [1 .. Len(q) -> Seq(S)] : Unfolds(q, f, Len(q)) BY <1>1, UnfoldingExists
<1>3. f = Body(f)
  <2>1. ASSUME NEW k \in 1 .. Len(q) PROVE f[k] = Body(f)[k]
    <3>1. Body(f)[k] = IF k = 1 THEN q[k] ELSE f[k - 1] \o q[k] OBVIOUS
    <3>2. k # 1 => k \in 2 .. Len(q) BY <1>1
    <3> HIDE DEF Body
    <3> QED BY <1>2, <3>1, <3>2 DEF Unfolds
  <2>2. DOMAIN Body(f) = 1 .. Len(q) /\ DOMAIN f = 1 .. Len(q) OBVIOUS
  <2> QED BY <2>1, <2>2
<1>4. F = Body(F)
  <2> HIDE DEF Body
  <2> QED BY <1>3, Zenon
<1>5. FlattenSeq(q) = F[Len(q)] BY DEF FlattenSeq
<1> HIDE DEF F
<1>6. \A k \in 1 .. Len(q) : F[k] = IF k = 1 THEN q[k] ELSE F[k - 1] \o q[k]
  BY <1>4
<1> DEFINE Differ == {k \in 1 .. Len(q) : F[k] # f[k]}
<1>7. Differ = {}
  <2> SUFFICES ASSUME Differ # {} PROVE FALSE OBVIOUS
  <2>1. Differ \in SUBSET Nat BY <1>1
  <2>2. PICK m \in Differ : \A k \in Differ : m <= k BY <2>1, LeastExists
  <2>3. m \in 1 .. Len(q) /\ F[m] # f[m] BY <2>2
  <2>4. CASE m = 1 BY <1>2, <1>6, <2>3, <2>4 DEF Unfolds
  <2>5. CASE m # 1
    <3>1. m \in 2 .. Len(q) /\ m - 1 \in 1 .. Len(q) /\ ~(m <= m - 1) BY <1>1, <2>3, <2>5
    <3>2. F[m - 1] = f[m - 1] BY <2>2, <3>1
    <3>3. F[m] = F[m - 1] \o q[m] BY <1>6, <2>3, <2>5
    <3>4. f[m] = f[m - 1] \o q[m] BY <1>2, <3>1 DEF Unfolds
    <3> QED BY <2>3, <3>2, <3>3, <3>4
  <2> QED BY <2>4, <2>5
<1>8. F[Len(q)] = f[Len(q)] BY <1>1, <1>7
<1> QED BY <1>2, <1>5, <1>8

---------------------------------------------------------------------------
(* The expansion of a token, place by place. *)

Value(e, s, n) == IF s[n] = Dollar THEN ValueAt(e, s, n) ELSE Empty

(* P[n] is what the text before the first '$' and those of the '$' up to   *)
(* place n expand to.                                                      *)
IsPartial(P, e, s) ==
  /\ P \in [0 .. Len(s) -> Seq(Chars)]
  /\ P[0] = NameAt(s, 0)
  /\ \A n \in 1 .. Len(s) : P[n] = P[n - 1] \o Value(e, s, n)
  /\ P[Len(s)] = Expanded(e, s)

Partial(e, s) == CHOOSE P : IsPartial(P, e, s)

(* The name behind place k, when the next '$' is at place n or there is    *)
(* none.                                                                   *)
LEMMA NameProperty ==
  ASSUME NEW s \in Seq(Chars), NEW k \in 0 .. Len(s)
  PROVE  /\ NameAt(s, k) \in Seq(Chars)
         /\ \A n \in k + 1 .. Len(s) :
              s[n] = Dollar /\ (\A m \in k + 1 .. n - 1 : s[m] # Dollar)
                => NameAt(s, k) = SubSeq(s, k + 1, n - 1)
         /\ (\A m \in k + 1 .. Len(s) : s[m] # Dollar) => NameAt(s, k) = SubSeq(s, k + 1, Len(s))
         /\ \A m \in 1 .. Len(NameAt(s, k)) : NameAt(s, k)[m] # Dollar
<1>1. Len(s) \in Nat /\ DOMAIN s = 1 .. Len(s) /\ \A m \in 1 .. Len(s) : s[m] \in Chars
  BY LenProperties, ElementOfSeq
<1> DEFINE next == {l \in Dollars(s) : l > k}
<1>2. next \in SUBSET Nat /\ \A l : l \in next <=> l \in k + 1 .. Len(s) /\ s[l] = Dollar
  BY <1>1 DEF Dollars
<1>3. next # {} => Min(next) \in next /\ \A y \in next : Min(next) <= y BY <1>2, MinProperty
<1> DEFINE end == IF next = {} THEN Len(s) ELSE Min(next) - 1
<1>4. NameAt(s, k) = SubSeq(s, k + 1, end) BY DEF NameAt
<1> HIDE DEF next
<1>5. end \in k .. Len(s) BY <1>1, <1>2, <1>3
<1>6. \A m \in k + 1 .. end : s[m] # Dollar BY <1>1, <1>2, <1>3
<1>7. ASSUME NEW n \in k + 1 .. Len(s), s[n] = Dollar, \A m \in k + 1 .. n - 1 : s[m] # Dollar
      PROVE  end = n - 1
  BY <1>1, <1>2, <1>3, <1>7
<1>8. (\A m \in k + 1 .. Len(s) : s[m] # Dollar) => end = Len(s) BY <1>2
<1> HIDE DEF end
<1>9. end \in Int /\ k + 1 \in Int /\ \A m \in k + 1 .. end : s[m] \in Chars BY <1>1, <1>5
<1>10. /\ SubSeq(s, k + 1, end) \in Seq(Chars)
       /\ Len(SubSeq(s, k + 1, end)) = IF k + 1 <= end THEN end - (k + 1) + 1 ELSE 0
       /\ \A m \in 1 .. end - (k + 1) + 1 : SubSeq(s, k + 1, end)[m] = s[(k + 1) + m - 1]
  BY <1>9, SubSeqProperties
<1>11. ASSUME NEW m \in 1 .. Len(SubSeq(s, k + 1, end))
       PROVE  SubSeq(s, k + 1, end)[m] # Dollar
  <2>1. m \in 1 .. end - (k + 1) + 1 /\ (k + 1) + m - 1 \in k + 1 .. end
    BY <1>1, <1>5, <1>10
  <2> QED BY <1>6, <1>10, <2>1
<1> QED BY <1>4, <1>7, <1>8, <1>10, <1>11

LEMMA ValueProperty ==
  ASSUME NEW e \in Envs, NEW s \in Seq(Chars), NEW n \in 1 .. Len(s)
  PROVE  Value(e, s, n) \in Seq(Chars) /\ Len(Value(e, s, n)) <= MaxStr
<1>1. MaxStr \in Nat /\ MaxStr >= 1 BY SizesAssumption
<1>2. Empty \in Seq(Chars) /\ Len(Empty) = 0 BY EmptySeq DEF Empty
<1>3. <<Dollar>> \in Seq(Chars) /\ Len(<<Dollar>>) = 1
  <2>1. PICK d \in Chars : d = Dollar BY CharsAssumption
  <2>2. <<d>> \in Seq(Chars) /\ Len(<<d>>) = 1 OBVIOUS
  <2> QED BY <2>1, <2>2
<1>4. \A name \in DOMAIN e : e[name] \in Seq(Chars) /\ Len(e[name]) <= MaxStr
  BY EnvsAssumption
<1>5. ASSUME NEW name
      PROVE  /\ find_val_with_key(e, name) \in Seq(Chars)
             /\ Len(find_val_with_key(e, name)) <= MaxStr
  <2>1. CASE name \in DOMAIN e
    <3>1. find_val_with_key(e, name) = e[name] BY <2>1 DEF find_val_with_key
    <3> QED BY <1>4, <2>1, <3>1
  <2>2. CASE name \notin DOMAIN e
    <3>1. find_val_with_key(e, name) = Empty BY <2>2 DEF find_val_with_key
    <3> QED BY <1>1, <1>2, <3>1
  <2> QED BY <2>1, <2>2
<1>6. \/ Value(e, s, n) = Empty \/ Value(e, s, n) = <<Dollar>>
      \/ Value(e, s, n) = find_val_with_key(e, NameAt(s, n))
  BY DEF Value, ValueAt
<1>7. CASE Value(e, s, n) = find_val_with_key(e, NameAt(s, n)) BY <1>5, <1>7
<1>8. CASE Value(e, s, n) = Empty BY <1>1, <1>2, <1>8
<1>9. CASE Value(e, s, n) = <<Dollar>>
  <2>1. PICK d : d = <<Dollar>> OBVIOUS
  <2> QED BY <1>1, <1>3, <1>9, <2>1
<1> QED BY <1>6, <1>7, <1>8, <1>9, Zenon

LEMMA Associative == \A x, y, z \in Seq(Chars) : (x \o y) \o z = x \o (y \o z)
OBVIOUS

LEMMA PartialProperty ==
  ASSUME NEW e \in Envs, NEW s \in Seq(Chars)
  PROVE  IsPartial(Partial(e, s), e, s)
<1>1. Len(s) \in Nat BY LenProperties
<1>2. PICK name \in Seq(Chars) : name = NameAt(s, 0) BY <1>1, NameProperty
<1> DEFINE q == [n \in 1 .. Len(s) |-> Value(e, s, n)]
<1>3. q \in Seq(Seq(Chars)) /\ Len(q) = Len(s) /\ \A n \in 1 .. Len(s) : q[n] = Value(e, s, n)
  <2>1. \A n \in 1 .. Len(s) : Value(e, s, n) \in Seq(Chars) BY ValueProperty
  <2> QED BY <1>1, <2>1
<1>4. Expanded(e, s) = name \o FlattenSeq(q) BY <1>2 DEF Expanded, Value
<1> HIDE DEF q
<1>5. CASE Len(s) = 0
  <2> DEFINE P == [n \in 0 .. Len(s) |-> name]
  <2>1. q = <<>> BY <1>3, <1>5, EmptySeq
  <2>2. FlattenSeq(q) = <<>> BY <1>3, <1>5, <2>1 DEF FlattenSeq
  <2>3. name \o <<>> = name BY ConcatEmptySeq
  <2>4. IsPartial(P, e, s) BY <1>1, <1>2, <1>4, <1>5, <2>2, <2>3 DEF IsPartial
  <2> QED BY <2>4 DEF Partial
<1>6. CASE Len(s) # 0
  <2>1. PICK f \in [1 .. Len(q) -> Seq(Chars)] :
          Unfolds(q, f, Len(q)) /\ FlattenSeq(q) = f[Len(q)]
    BY <1>3, <1>6, FlattenProperty
  <2>2. \A n \in 1 .. Len(s) : f[n] \in Seq(Chars) /\ name \o f[n] \in Seq(Chars)
    BY <1>3, ConcatProperties
  <2> DEFINE P == [n \in 0 .. Len(s) |-> IF n = 0 THEN name ELSE name \o f[n]]
  <2>3. P \in [0 .. Len(s) -> Seq(Chars)] /\ P[0] = name
    <3>1. \A n \in 0 .. Len(s) : n # 0 => n \in 1 .. Len(s) BY <1>1
    <3>2. \A n \in 0 .. Len(s) : (IF n = 0 THEN name ELSE name \o f[n]) \in Seq(Chars)
      BY <2>2, <3>1
    <3> QED BY <1>1, <3>2
  <2>4. P[Len(s)] = Expanded(e, s) BY <1>1, <1>3, <1>4, <1>6, <2>1
  <2>5. ASSUME NEW n \in 1 .. Len(s) PROVE P[n] = P[n - 1] \o Value(e, s, n)
    <3>1. P[n] = name \o f[n] BY <1>1
    <3>2. CASE n = 1
      <4>1. f[n] = Value(e, s, n) BY <1>3, <2>1, <3>2 DEF Unfolds
      <4>2. P[n - 1] = name BY <1>1, <3>2
      <4> HIDE DEF P
      <4> QED BY <3>1, <4>1, <4>2
    <3>3. CASE n # 1
      <4>1. n \in 2 .. Len(q) /\ n - 1 \in 1 .. Len(s) BY <1>1, <1>3, <3>3
      <4>2. f[n] = f[n - 1] \o q[n] BY <2>1, <4>1 DEF Unfolds
      <4>3. P[n - 1] = name \o f[n - 1] BY <1>1, <4>1
      <4>4. PICK x \in Seq(Chars), y \in Seq(Chars) : x = f[n - 1] /\ y = q[n]
        BY <1>3, <2>2, <4>1, ValueProperty
      <4>5. (name \o x) \o y = name \o (x \o y) BY Associative, Zenon
      <4> HIDE DEF P
      <4> QED BY <1>3, <3>1, <4>2, <4>3, <4>4, <4>5
    <3> QED BY <3>2, <3>3
  <2> HIDE DEF P
  <2>6. IsPartial(P, e, s) BY <1>2, <2>3, <2>4, <2>5 DEF IsPartial
  <2> QED BY <2>6 DEF Partial
<1> QED BY <1>5, <1>6

(* What a later '$' adds comes behind what is there. *)
LEMMA PartialGrows ==
  ASSUME NEW e \in Envs, NEW s \in Seq(Chars), NEW P, IsPartial(P, e, s),
         NEW m \in 0 .. Len(s), NEW n \in m .. Len(s)
  PROVE  Len(P[m]) <= Len(P[n]) /\ \A k \in 1 .. Len(P[m]) : P[n][k] = P[m][k]
<1>1. Len(s) \in Nat BY LenProperties
<1>2. \A k \in 0 .. Len(s) : P[k] \in Seq(Chars) /\ Len(P[k]) \in Nat
  BY LenProperties DEF IsPartial
<1> DEFINE Extends(x, y) == Len(x) <= Len(y) /\ \A k \in 1 .. Len(x) : y[k] = x[k]
           Bad == {k \in m .. Len(s) : ~Extends(P[m], P[k])}
<1> SUFFICES ASSUME Bad # {} PROVE FALSE OBVIOUS
<1>3. Bad \in SUBSET Nat BY <1>1
<1>4. PICK b \in Bad : \A k \in Bad : b <= k BY <1>3, LeastExists
<1>5. b \in m .. Len(s) /\ ~Extends(P[m], P[b]) BY <1>4
<1>6. b # m BY <1>2, <1>5
<1>7. b - 1 \in m .. Len(s) /\ b \in 1 .. Len(s) /\ ~(b <= b - 1) BY <1>1, <1>5, <1>6
<1>8. Extends(P[m], P[b - 1])
  <2>1. b - 1 \notin Bad
    <3> HIDE DEF Bad
    <3> QED BY <1>4, <1>7
  <2> QED BY <1>7, <2>1
<1>9. P[b] = P[b - 1] \o Value(e, s, b) BY <1>7 DEF IsPartial
<1>10. PICK x \in Seq(Chars), v \in Seq(Chars), u \in Seq(Chars) :
         x = P[b - 1] /\ v = Value(e, s, b) /\ u = P[m]
  <2>1. b - 1 \in 0 .. Len(s) BY <1>1, <1>7
  <2>2. Value(e, s, b) \in Seq(Chars) BY <1>7, ValueProperty
  <2> QED BY <1>2, <2>1, <2>2
<1>11. /\ Len(x \o v) = Len(x) + Len(v) /\ Len(x) \in Nat /\ Len(v) \in Nat /\ Len(u) \in Nat
       /\ \A k \in 1 .. Len(x) + Len(v) : (x \o v)[k] = IF k <= Len(x) THEN x[k] ELSE v[k - Len(x)]
  BY ConcatProperties, LenProperties
<1>12. Extends(u, x \o v) BY <1>8, <1>10, <1>11
<1> QED BY <1>5, <1>9, <1>10, <1>12

(* Places without a '$' add nothing. *)
LEMMA PartialFlat ==
  ASSUME NEW e \in Envs, NEW s \in Seq(Chars), NEW P, IsPartial(P, e, s),
         NEW n \in 1 .. Len(s), s[n] # Dollar
  PROVE  P[n] = P[n - 1]
<1>1. Len(s) \in Nat BY LenProperties
<1>2. PICK x \in Seq(Chars) : x = P[n - 1]
  <2>1. n - 1 \in 0 .. Len(s) BY <1>1
  <2> QED BY <2>1 DEF IsPartial
<1>3. Value(e, s, n) = <<>> BY DEF Value, Empty
<1>4. x \o <<>> = x BY ConcatEmptySeq
<1> QED BY <1>2, <1>3, <1>4 DEF IsPartial

LEMMA FlatUpTo ==
  ASSUME NEW e \in Envs, NEW s \in Seq(Chars), NEW P, IsPartial(P, e, s),
         NEW n \in 0 .. Len(s), \A k \in 1 .. n : s[k] # Dollar
  PROVE  P[n] = P[0]
<1>1. Len(s) \in Nat BY LenProperties
<1> DEFINE Bad == {k \in 0 .. n : P[k] # P[0]}
<1> SUFFICES ASSUME Bad # {} PROVE FALSE BY <1>1
<1>2. Bad \in SUBSET Nat BY <1>1
<1>3. PICK b \in Bad : \A k \in Bad : b <= k BY <1>2, LeastExists
<1>4. b \in 0 .. n /\ P[b] # P[0] BY <1>3
<1>5. b - 1 \in 0 .. n /\ b \in 1 .. Len(s) /\ b \in 1 .. n /\ ~(b <= b - 1) BY <1>1, <1>4
<1>6. P[b - 1] = P[0] BY <1>3, <1>5
<1>7. P[b] = P[b - 1] BY <1>5, PartialFlat
<1> QED BY <1>4, <1>6, <1>7

LEMMA NoDollarNothing ==
  ASSUME NEW e \in Envs, NEW s \in Seq(Chars), \A k \in 1 .. Len(s) : s[k] # Dollar
  PROVE  Expanded(e, s) = s
<1>1. Len(s) \in Nat BY LenProperties
<1>2. PICK P : IsPartial(P, e, s) BY PartialProperty
<1>3. PICK n \in 0 .. Len(s) : n = Len(s) BY <1>1
<1>4. P[Len(s)] = P[0] BY <1>2, <1>3, FlatUpTo
<1>5. NameAt(s, 0) = SubSeq(s, 0 + 1, Len(s))
  <2>1. PICK z \in 0 .. Len(s) : z = 0 BY <1>1
  <2>2. \A m \in z + 1 .. Len(s) : s[m] # Dollar BY <1>1, <2>1
  <2>3. NameAt(s, z) = SubSeq(s, z + 1, Len(s)) BY <2>2, NameProperty
  <2> QED BY <2>1, <2>3
<1>6. SubSeq(s, 0 + 1, Len(s)) = s BY <1>1
<1> QED BY <1>2, <1>4, <1>5, <1>6 DEF IsPartial

---------------------------------------------------------------------------
(* strncat() into the array. *)

LEMMA PrefixProperty ==
  ASSUME NEW s \in Seq(Chars), NEW n \in Nat
  PROVE  /\ Prefix(s, n) \in Seq(Chars)
         /\ Len(Prefix(s, n)) = IF Len(s) < n THEN Len(s) ELSE n
         /\ \A k \in 1 .. Len(Prefix(s, n)) : Prefix(s, n)[k] = s[k]
         /\ Len(s) <= n => Prefix(s, n) = s
<1>1. Len(s) \in Nat /\ \A k \in 1 .. Len(s) : s[k] \in Chars BY LenProperties, ElementOfSeq
<1>2. PICK l \in Nat : l = IF Len(s) < n THEN Len(s) ELSE n BY <1>1
<1>3. \A k \in 1 .. l : s[k] \in Chars BY <1>1, <1>2
<1>4. PICK p : p = SubSeq(s, 1, l) OBVIOUS
<1>5. p \in Seq(Chars) /\ Len(p) = l /\ \A k \in 1 .. l : p[k] = s[k]
  <2>1. /\ SubSeq(s, 1, l) \in Seq(Chars)
        /\ Len(SubSeq(s, 1, l)) = IF 1 <= l THEN l - 1 + 1 ELSE 0
        /\ \A k \in 1 .. l - 1 + 1 : SubSeq(s, 1, l)[k] = s[1 + k - 1]
    BY <1>3, SubSeqProperties
  <2> QED BY <1>4, <2>1
<1>6. Prefix(s, n) = p BY <1>2, <1>4 DEF Prefix
<1>7. Len(s) <= n => p = s BY <1>1, <1>2, <1>5, SeqEqual
<1> QED BY <1>2, <1>5, <1>6, <1>7

LEMMA IsPrefixOf ==
  ASSUME NEW a \in Seq(Chars), NEW s \in Seq(Chars), NEW n \in Nat,
         Len(a) = IF Len(s) < n THEN Len(s) ELSE n, \A k \in 1 .. Len(a) : a[k] = s[k]
  PROVE  a = Prefix(s, n)
<1>1. PICK p \in Seq(Chars) : p = Prefix(s, n) BY PrefixProperty
<1>2. Len(p) = Len(a) /\ \A k \in 1 .. Len(a) : p[k] = s[k] BY <1>1, PrefixProperty
<1> QED BY <1>1, <1>2, SeqEqual

LEMMA ModProperty ==
  ASSUME NEW w \in Nat, w > 0, NEW a \in Nat
  PROVE  (a < w => a % w = a) /\ (w <= a /\ a < w + w => a % w = a - w)
OBVIOUS

(* The lengths of the array, the text and the value, the characters copied *)
(* and the room before and after.                                          *)
RoomBefore(max, w, la, lt, lv, n, r, r2) ==
  /\ w > max /\ lv <= max /\ r < w
  /\ la = IF lt < max THEN lt ELSE max
  /\ lt <= max => r = max - lt
  /\ lt > max => r = w + max - lt /\ r >= 1
  /\ n = IF lv < r THEN lv ELSE r
  /\ r2 = (r + w - lv) % w

RoomAfter(max, w, la, lt, lv, n, r2) ==
  /\ r2 \in 0 .. w - 1
  /\ la + n > max => lt + lv >= max
  /\ la + n <= max =>
       /\ la + n = IF lt + lv < max THEN lt + lv ELSE max
       /\ lt + lv <= max => r2 = max - (lt + lv)
       /\ lt + lv > max => r2 = w + max - (lt + lv) /\ r2 >= 1

LEMMA RoomArithmetic ==
  ASSUME NEW max \in Nat, NEW w \in Nat, NEW la \in Nat, NEW lt \in Nat, NEW lv \in Nat,
         NEW n \in Nat, NEW r \in Nat, NEW r2, RoomBefore(max, w, la, lt, lv, n, r, r2)
  PROVE  RoomAfter(max, w, la, lt, lv, n, r2)
<1>1. PICK x \in Nat : x = r + w - lv BY DEF RoomBefore
<1>2. x < w + w /\ w > 0 BY <1>1 DEF RoomBefore
<1>3. (x < w => x % w = x) /\ (w <= x => x % w = x - w) BY <1>2, ModProperty
<1>4. r2 = IF lv <= r THEN r - lv ELSE r + w - lv
  <2>1. r2 = x % w BY <1>1 DEF RoomBefore
  <2> QED BY <1>1, <1>3, <2>1
<1>5. /\ w > max /\ lv <= max /\ r < w
      /\ la = IF lt < max THEN lt ELSE max
      /\ lt <= max => r = max - lt
      /\ lt > max => r = w + max - lt /\ r >= 1
      /\ n = IF lv < r THEN lv ELSE r
  BY DEF RoomBefore
<1> QED BY <1>4, <1>5 DEF RoomAfter

(* The array holds what fits of text, and remaining is the room left, less *)
(* what has been cut.                                                      *)
Fits(a, r, text) ==
  /\ a = Prefix(text, MaxStr)
  /\ Len(text) <= MaxStr => r = MaxStr - Len(text)
  /\ Len(text) > MaxStr => r = Word + MaxStr - Len(text) /\ r >= 1

Joined(z, x, y) ==
  /\ z \in Seq(Chars) /\ Len(z) = Len(x) + Len(y)
  /\ \A k \in 1 .. Len(x) + Len(y) : z[k] = IF k <= Len(x) THEN x[k] ELSE y[k - Len(x)]

LEMMA Concatenation ==
  ASSUME NEW x \in Seq(Chars), NEW y \in Seq(Chars), NEW z, z = x \o y
  PROVE  Joined(z, x, y)
<1>1. /\ x \o y \in Seq(Chars) /\ Len(x \o y) = Len(x) + Len(y)
      /\ \A k \in 1 .. Len(x) + Len(y) :
           (x \o y)[k] = IF k <= Len(x) THEN x[k] ELSE y[k - Len(x)]
  BY ConcatProperties
<1> QED BY <1>1 DEF Joined

LEMMA FrontProperty ==
  ASSUME NEW s \in Seq(Chars), NEW n \in Nat, n <= Len(s)
  PROVE  \E p \in Seq(Chars) : p = SubSeq(s, 1, n) /\ Len(p) = n /\ \A k \in 1 .. n : p[k] = s[k]
<1>1. Len(s) \in Nat /\ \A k \in 1 .. Len(s) : s[k] \in Chars BY LenProperties, ElementOfSeq
<1>2. \A k \in 1 .. n : s[k] \in Chars BY <1>1
<1>3. /\ SubSeq(s, 1, n) \in Seq(Chars)
      /\ Len(SubSeq(s, 1, n)) = IF 1 <= n THEN n - 1 + 1 ELSE 0
      /\ \A k \in 1 .. n - 1 + 1 : SubSeq(s, 1, n)[k] = s[1 + k - 1]
  BY <1>2, SubSeqProperties
<1>4. PICK p : p = SubSeq(s, 1, n) OBVIOUS
<1>5. p \in Seq(Chars) /\ Len(p) = n /\ \A k \in 1 .. n : p[k] = s[k] BY <1>3, <1>4
<1> QED BY <1>4, <1>5

LEMMA StrncatFits ==
  ASSUME TypeOK, NEW text \in Seq(Chars), NEW v \in Seq(Chars), Len(v) <= MaxStr,
         Fits(array, remaining, text), NEW goto, Strncat(v, goto)
  PROVE  /\ remaining' \in 0 .. Word - 1
         /\ array' \in Seq(Chars)
         /\ \/ pc' = goto /\ Fits(array', remaining', text \o v)
            \/ pc' = "overflow" /\ Len(text \o v) >= MaxStr
<1>1. MaxStr \in Nat /\ Word \in Nat /\ Word > MaxStr BY SizesAssumption
<1>2. PICK a \in Seq(Chars), r \in Nat : a = array /\ r = remaining /\ r < Word
  BY <1>1 DEF TypeOK
<1>3. PICK la \in Nat, lv \in Nat, lt \in Nat : la = Len(a) /\ lv = Len(v) /\ lt = Len(text)
  BY LenProperties
<1>4. PICK n \in Nat : n = IF lv < r THEN lv ELSE r OBVIOUS
<1>5. PICK r2 : r2 = (r + Word - lv) % Word OBVIOUS
<1>6. /\ remaining' = r2 /\ array' = a \o SubSeq(v, 1, n)
      /\ pc' = IF Len(array') <= MaxStr THEN goto ELSE "overflow"
  BY <1>2, <1>3, <1>4, <1>5 DEF Strncat, Decrease
<1>7. /\ la = IF lt < MaxStr THEN lt ELSE MaxStr
      /\ \A k \in 1 .. la : a[k] = text[k]
  <2>1. a = Prefix(text, MaxStr) BY <1>2 DEF Fits
  <2> QED BY <1>1, <1>3, <2>1, PrefixProperty
<1>8. /\ lt <= MaxStr => r = MaxStr - lt
      /\ lt > MaxStr => r = Word + MaxStr - lt /\ r >= 1
  BY <1>2, <1>3 DEF Fits
<1>9. lv <= MaxStr BY <1>3
<1>10. /\ r2 \in 0 .. Word - 1
       /\ la + n > MaxStr => lt + lv >= MaxStr
       /\ la + n <= MaxStr =>
            /\ la + n = IF lt + lv < MaxStr THEN lt + lv ELSE MaxStr
            /\ lt + lv <= MaxStr => r2 = MaxStr - (lt + lv)
            /\ lt + lv > MaxStr => r2 = Word + MaxStr - (lt + lv) /\ r2 >= 1
  <2>1. RoomBefore(MaxStr, Word, la, lt, lv, n, r, r2)
    BY <1>1, <1>2, <1>4, <1>5, <1>7, <1>8, <1>9 DEF RoomBefore
  <2>2. RoomAfter(MaxStr, Word, la, lt, lv, n, r2) BY <1>1, <2>1, RoomArithmetic
  <2> QED BY <2>2 DEF RoomAfter
<1>11. PICK front \in Seq(Chars) :
         front = SubSeq(v, 1, n) /\ Len(front) = n /\ \A k \in 1 .. n : front[k] = v[k]
  <2>1. n <= Len(v) BY <1>3, <1>4
  <2> QED BY <2>1, FrontProperty
<1>12. PICK a2 \in Seq(Chars) :
         /\ a2 = a \o front /\ Len(a2) = la + n
         /\ \A k \in 1 .. la + n : a2[k] = IF k <= la THEN a[k] ELSE front[k - la]
  <2>1. PICK z : z = a \o front OBVIOUS
  <2>2. Joined(z, a, front) BY <2>1, Concatenation
  <2>3. z \in Seq(Chars) /\ Len(z) = la + n BY <1>3, <1>11, <2>2 DEF Joined
  <2>4. \A k \in 1 .. la + n : z[k] = IF k <= la THEN a[k] ELSE front[k - la]
    BY <1>3, <1>11, <2>2 DEF Joined
  <2> QED BY <2>1, <2>3, <2>4
<1>13. PICK new \in Seq(Chars) :
         /\ new = text \o v /\ Len(new) = lt + lv
         /\ \A k \in 1 .. lt + lv : new[k] = IF k <= lt THEN text[k] ELSE v[k - lt]
  <2>1. PICK z : z = text \o v OBVIOUS
  <2>2. Joined(z, text, v) BY <2>1, Concatenation
  <2> QED BY <1>3, <2>1, <2>2 DEF Joined
<1>14. array' = a2 /\ Len(array') = la + n BY <1>6, <1>11, <1>12
<1>15. CASE la + n > MaxStr
  <2>1. pc' = "overflow" BY <1>1, <1>6, <1>15, <1>14
  <2> QED BY <1>3, <1>6, <1>10, <1>12, <1>13, <1>15, <1>14, <2>1
<1>16. CASE la + n <= MaxStr
  <2>1. pc' = goto /\ array' = a2 BY <1>1, <1>6, <1>16, <1>14
  <2>2. la + n = IF lt + lv < MaxStr THEN lt + lv ELSE MaxStr BY <1>10, <1>16
  <2>3. ASSUME NEW k \in 1 .. la + n PROVE a2[k] = new[k]
    <3>1. k \in 1 .. lt + lv BY <1>1, <2>2
    <3>2. CASE k <= la
      <4>1. k <= lt /\ k \in 1 .. la BY <1>1, <1>7, <3>2
      <4> QED BY <1>7, <1>12, <1>13, <3>1, <3>2, <4>1
    <3>3. CASE k > la
      <4>1. la = lt BY <1>1, <1>7, <1>16, <3>3
      <4>2. k - la \in 1 .. n /\ ~(k <= la) BY <3>3
      <4>3. a2[k] = front[k - la] BY <1>12, <4>2
      <4>4. new[k] = v[k - la] BY <1>13, <3>1, <4>1, <4>2
      <4> QED BY <1>11, <4>2, <4>3, <4>4
    <3> QED BY <3>2, <3>3
  <2>4. a2 = Prefix(new, MaxStr)
    <3>1. Len(a2) = IF Len(new) < MaxStr THEN Len(new) ELSE MaxStr BY <1>12, <1>13, <2>2
    <3>2. \A k \in 1 .. Len(a2) : a2[k] = new[k] BY <1>12, <2>3
    <3> QED BY <1>1, <3>1, <3>2, IsPrefixOf
  <2>5. Fits(a2, r2, new) BY <1>10, <1>13, <1>16, <2>4 DEF Fits
  <2> QED BY <1>6, <1>10, <1>12, <1>13, <1>16, <2>1, <2>5
<1> QED BY <1>1, <1>15, <1>16

---------------------------------------------------------------------------
(* The inductive invariant. *)

(* There is no '$' between place d and the loop counter. *)
Since(d) ==
  /\ \A k \in d + 1 .. i - 1 : input[k] # Dollar
  /\ var_name = SubSeq(input, d + 1, i - 1)
  /\ Partial(env, input)[i - 1] = Partial(env, input)[d]

(* The array holds what comes before the text or name that is being read. *)
LoopInv ==
  pc = "loop" =>
    /\ i <= Len(input) + 1
    /\ \/ taking_var = 0 /\ Fits(array, remaining, Empty) /\ Since(0)
       \/ /\ taking_var = 1
          /\ \E d \in 1 .. i - 1 : /\ input[d] = Dollar /\ Since(d)
                                   /\ Fits(array, remaining, Partial(env, input)[d - 1])

(* Only a '$' at the end of the token may be left. *)
RestInv ==
  pc = "rest" =>
    /\ var_name = Empty
    /\ taking_var = 0 => array = Prefix(Expanded(env, input), MaxStr)
    /\ taking_var = 1 => /\ Len(input) > 0 /\ input[Len(input)] = Dollar
                         /\ Fits(array, remaining, Partial(env, input)[Len(input) - 1])

(* The second pass is given what the first one has returned. *)
PassInv ==
  /\ pass = 1 /\ pc # "prompt" => input = token
  /\ pass = 2 => pc # "prompt" /\ input = Prefix(Expanded(env, token), MaxStr)

IInv == TypeOK /\ LoopInv /\ RestInv /\ PassInv /\ ReturnsExpansion

LEMMA EmptyFits == Fits(Empty, MaxStr, Empty) /\ Empty \in Seq(Chars) /\ Len(Empty) = 0
<1>1. MaxStr \in Nat BY SizesAssumption
<1>2. Empty \in Seq(Chars) /\ Len(Empty) = 0 BY EmptySeq DEF Empty
<1>3. Empty = Prefix(Empty, MaxStr)
  <2>1. PICK s \in Seq(Chars) : s = Empty BY <1>2
  <2>2. Len(s) <= MaxStr BY <1>1, <1>2, <2>1
  <2>3. Prefix(s, MaxStr) = s BY <1>1, <2>2, PrefixProperty
  <2> QED BY <2>1, <2>3
<1> QED BY <1>1, <1>2, <1>3 DEF Fits

LEMMA StateProperty ==
  ASSUME TypeOK
  PROVE  /\ env \in Envs /\ input \in Seq(Chars) /\ Len(input) \in Nat /\ Len(input) <= MaxStr
         /\ DOMAIN input = 1 .. Len(input) /\ \A k \in 1 .. Len(input) : input[k] \in Chars
         /\ MaxStr \in Nat /\ i \in Nat /\ i >= 1
         /\ IsPartial(Partial(env, input), env, input)
<1>1. env \in Envs /\ input \in Seq(Chars) /\ Len(input) <= MaxStr /\ MaxStr \in Nat
      /\ i \in Nat /\ i >= 1
  BY SizesAssumption DEF TypeOK
<1>2. /\ Len(input) \in Nat /\ DOMAIN input = 1 .. Len(input)
      /\ \A k \in 1 .. Len(input) : input[k] \in Chars
  BY <1>1, LenProperties, ElementOfSeq
<1>3. IsPartial(Partial(env, input), env, input) BY <1>1, PartialProperty
<1> QED BY <1>1, <1>2, <1>3

(* What the text and the '$' up to place n expand to comes first. *)
LEMMA PartialFirst ==
  ASSUME TypeOK, NEW n \in 0 .. Len(input), NEW x \in Seq(Chars), x = Partial(env, input)[n]
  PROVE  /\ Expanded(env, input) \in Seq(Chars) /\ Len(x) <= Len(Expanded(env, input))
         /\ Len(Expanded(env, input)) \in Nat
         /\ \A k \in 1 .. Len(x) : Expanded(env, input)[k] = x[k]
<1>1. PICK P : P = Partial(env, input) OBVIOUS
<1>2. PICK e \in Envs, s \in Seq(Chars) : e = env /\ s = input BY StateProperty
<1>3. IsPartial(P, e, s) BY <1>1, <1>2, StateProperty
<1>4. Len(s) \in Nat /\ n \in 0 .. Len(s) /\ Len(s) \in n .. Len(s) BY <1>2, LenProperties
<1>5. Len(P[n]) <= Len(P[Len(s)]) /\ \A k \in 1 .. Len(P[n]) : P[Len(s)][k] = P[n][k]
  BY <1>3, <1>4, PartialGrows
<1>6. P[Len(s)] \in Seq(Chars) /\ P[Len(s)] = Expanded(e, s) BY <1>3, <1>4 DEF IsPartial
<1>7. Len(P[Len(s)]) \in Nat BY <1>6, LenProperties
<1> QED BY <1>1, <1>2, <1>5, <1>6, <1>7

LEMMA CallStarts ==
  ASSUME NEW s \in Seq(Chars), Len(s) <= MaxStr, expand_variables(s), env \in Envs, UNCHANGED env
  PROVE  LoopInv' /\ RestInv' /\ ReturnsExpansion'
<1>1. /\ pc' = "loop" /\ input' = s /\ i' = 1 /\ array' = Empty /\ remaining' = MaxStr
      /\ taking_var' = 0 /\ var_name' = Empty
  BY DEF expand_variables
<1>2. Len(s) \in Nat BY LenProperties
<1>3. Fits(array', remaining', Empty) BY <1>1, EmptyFits
<1>4. SubSeq(s, 0 + 1, 1 - 1) = Empty
  <2>1. SubSeq(s, 1, 0) = <<>> BY SubSeqEmpty
  <2> QED BY <2>1 DEF Empty
<1>5. Since(0)'
  <2>1. \A k \in 0 + 1 .. i' - 1 : input'[k] # Dollar BY <1>1
  <2>2. var_name' = SubSeq(input', 0 + 1, i' - 1) BY <1>1, <1>4
  <2>3. i' - 1 = 0 BY <1>1
  <2> QED BY <2>1, <2>2, <2>3 DEF Since
<1>6. i' <= Len(input') + 1 BY <1>1, <1>2
<1> QED BY <1>1, <1>3, <1>5, <1>6 DEF LoopInv, RestInv, ReturnsExpansion

LEMMA SubSeqGrows ==
  ASSUME NEW s \in Seq(Chars), NEW m \in Nat, NEW n \in Nat, m <= n, n < Len(s)
  PROVE  /\ Append(SubSeq(s, m + 1, n), s[n + 1]) = SubSeq(s, m + 1, n + 1)
         /\ SubSeq(s, m + 1, n) \in Seq(Chars) /\ Len(SubSeq(s, m + 1, n)) = n - m
<1>1. Len(s) \in Nat /\ \A k \in 1 .. Len(s) : s[k] \in Chars BY LenProperties, ElementOfSeq
<1>2. PICK a : a = SubSeq(s, m + 1, n) OBVIOUS
<1>3. PICK b : b = SubSeq(s, m + 1, n + 1) OBVIOUS
<1>4. a \in Seq(Chars) /\ Len(a) = n - m /\ \A k \in 1 .. n - m : a[k] = s[m + k]
  <2>1. \A k \in m + 1 .. n : s[k] \in Chars BY <1>1
  <2>2. /\ SubSeq(s, m + 1, n) \in Seq(Chars)
        /\ Len(SubSeq(s, m + 1, n)) = IF m + 1 <= n THEN n - (m + 1) + 1 ELSE 0
        /\ \A k \in 1 .. n - (m + 1) + 1 : SubSeq(s, m + 1, n)[k] = s[(m + 1) + k - 1]
    BY <2>1, SubSeqProperties
  <2> QED BY <1>2, <2>2
<1>5. b \in Seq(Chars) /\ Len(b) = n + 1 - m /\ \A k \in 1 .. n + 1 - m : b[k] = s[m + k]
  <2>1. \A k \in m + 1 .. n + 1 : s[k] \in Chars BY <1>1
  <2>2. PICK l \in Nat : l = n + 1 OBVIOUS
  <2>3. /\ SubSeq(s, m + 1, l) \in Seq(Chars)
        /\ Len(SubSeq(s, m + 1, l)) = IF m + 1 <= l THEN l - (m + 1) + 1 ELSE 0
        /\ \A k \in 1 .. l - (m + 1) + 1 : SubSeq(s, m + 1, l)[k] = s[(m + 1) + k - 1]
    BY <2>1, <2>2, SubSeqProperties
  <2> QED BY <1>3, <2>2, <2>3
<1>6. PICK c \in Chars : c = s[n + 1] BY <1>1
<1>7. PICK d : d = Append(a, c) OBVIOUS
<1>8. /\ d \in Seq(Chars) /\ Len(d) = n - m + 1 /\ d[n - m + 1] = c
      /\ \A k \in 1 .. n - m : d[k] = a[k]
  BY <1>4, <1>7, AppendProperties
<1>9. \A k \in 1 .. n + 1 - m : d[k] = b[k]
  <2> SUFFICES ASSUME NEW k \in 1 .. n + 1 - m PROVE d[k] = b[k] OBVIOUS
  <2>1. CASE k = n - m + 1
    <3>1. m + k = n + 1 BY <2>1
    <3> QED BY <1>5, <1>6, <1>8, <2>1, <3>1
  <2>2. CASE k # n - m + 1
    <3>1. k \in 1 .. n - m BY <2>2
    <3> QED BY <1>4, <1>5, <1>8, <3>1
  <2> QED BY <2>1, <2>2
<1>10. d = b
  <2>1. Len(d) = Len(b) /\ \A k \in 1 .. Len(d) : d[k] = b[k] BY <1>5, <1>8, <1>9
  <2> QED BY <1>5, <1>8, <2>1, SeqEqual
<1> QED BY <1>2, <1>3, <1>4, <1>6, <1>7, <1>10

LEMMA CharacterSince ==
  ASSUME TypeOK, NEW d \in 0 .. i - 1, Since(d), i <= Len(input), input[i] # Dollar,
         i' = i + 1, var_name' = Append(var_name, input[i]), UNCHANGED <<input, env>>
  PROVE  /\ Since(d)'
         /\ var_name' = SubSeq(input, d + 1, i)
         /\ var_name' \in Seq(Chars) /\ Len(var_name') = i - d
<1>0. PICK P : P = Partial(env, input) OBVIOUS
<1>1. PICK s \in Seq(Chars), n \in Nat, e \in Envs :
        s = input /\ n = i - 1 /\ e = env /\ P = Partial(env, input)
  BY <1>0, StateProperty
<1>2. /\ d \in Nat /\ d <= n /\ n < Len(s) /\ i = n + 1 /\ Len(s) \in Nat
  BY <1>1, StateProperty
<1>3. /\ Append(SubSeq(s, d + 1, n), s[n + 1]) = SubSeq(s, d + 1, n + 1)
      /\ SubSeq(s, d + 1, n) \in Seq(Chars) /\ Len(SubSeq(s, d + 1, n)) = n - d
  BY <1>2, SubSeqGrows
<1>4. var_name = SubSeq(s, d + 1, n) BY <1>1 DEF Since
<1>5. var_name' = SubSeq(s, d + 1, n + 1) BY <1>1, <1>2, <1>3, <1>4
<1>6. var_name' \in Seq(Chars) /\ Len(var_name') = i - d
  <2>1. PICK a \in Seq(Chars) : a = var_name /\ Len(a) = n - d BY <1>3, <1>4
  <2>2. s[n + 1] \in Chars BY <1>2, ElementOfSeq
  <2>3. Append(a, s[n + 1]) \in Seq(Chars) /\ Len(Append(a, s[n + 1])) = Len(a) + 1
    BY <2>2, AppendProperties
  <2> QED BY <1>1, <1>2, <2>1, <2>3
<1>7. IsPartial(P, e, s) BY <1>1, StateProperty
<1>8. P[n + 1] = P[n + 1 - 1] BY <1>1, <1>2, <1>7, PartialFlat
<1>9. P[n] = P[d] BY <1>1 DEF Since
<1>10. n + 1 - 1 = n /\ i' - 1 = n + 1 BY <1>2
<1>11. P[n + 1] = P[d] BY <1>8, <1>9, <1>10
<1>12. \A k \in d + 1 .. i' - 1 : input'[k] # Dollar
  <2>1. \A k \in d + 1 .. i' - 1 : k = i \/ k \in d + 1 .. i - 1 BY <1>2, <1>10
  <2> QED BY <2>1 DEF Since
<1>13. Since(d)' BY <1>1, <1>5, <1>10, <1>11, <1>12 DEF Since
<1> QED BY <1>1, <1>2, <1>5, <1>6, <1>13

(* Before a '$', and behind the token, var_name is the text or name read. *)
LEMMA NameRead ==
  ASSUME TypeOK, NEW d \in 0 .. i - 1, Since(d), i <= Len(input) + 1,
         i <= Len(input) => input[i] = Dollar
  PROVE  var_name = NameAt(input, d)
<1>1. PICK s \in Seq(Chars), j \in Nat : s = input /\ j = i BY StateProperty
<1>2. Len(s) \in Nat /\ d \in 0 .. Len(s) /\ d \in Nat /\ d <= j - 1 BY <1>1, StateProperty
<1>3. \A k \in d + 1 .. j - 1 : s[k] # Dollar BY <1>1 DEF Since
<1>4. var_name = SubSeq(s, d + 1, j - 1) BY <1>1 DEF Since
<1>5. CASE j <= Len(s)
  <2>1. j \in d + 1 .. Len(s) /\ s[j] = Dollar BY <1>1, <1>2, <1>5
  <2>2. NameAt(s, d) = SubSeq(s, d + 1, j - 1) BY <1>2, <1>3, <2>1, NameProperty
  <2> QED BY <1>1, <1>4, <2>2
<1>6. CASE j > Len(s)
  <2>1. j - 1 = Len(s) BY <1>1, <1>2, <1>6
  <2>2. NameAt(s, d) = SubSeq(s, d + 1, Len(s)) BY <1>2, <1>3, <2>1, NameProperty
  <2> QED BY <1>1, <1>4, <2>1, <2>2
<1> QED BY <1>2, <1>5, <1>6

(* A '$' at the loop counter, whose array holds all that comes before it. *)
LEMMA DollarRead ==
  ASSUME TypeOK, i <= Len(input), input[i] = Dollar, i' = i + 1, var_name' = Empty,
         taking_var' = 1, pc' = "loop", UNCHANGED <<input, env>>,
         Fits(array', remaining', Partial(env, input)[i - 1])
  PROVE  LoopInv'
<1>1. i \in Nat /\ i >= 1 /\ Len(input) \in Nat BY StateProperty
<1>2. i' - 1 = i /\ i \in 1 .. i' - 1 /\ i' <= Len(input') + 1 BY <1>1
<1>3. SubSeq(input, i + 1, i) = Empty
  <2>1. PICK s : s = input OBVIOUS
  <2>2. PICK j \in Nat : j = i BY <1>1
  <2>3. SubSeq(s, j + 1, j) = <<>> BY SubSeqEmpty
  <2> QED BY <2>1, <2>2, <2>3 DEF Empty
<1>4. PICK d \in Nat : d = i BY <1>1
<1>5. Since(d)'
  <2>1. \A k \in d + 1 .. i' - 1 : input'[k] # Dollar BY <1>2, <1>4
  <2>2. var_name' = SubSeq(input', d + 1, i' - 1) BY <1>2, <1>3, <1>4
  <2>3. Partial(env', input')[i' - 1] = Partial(env', input')[d] BY <1>2, <1>4
  <2> QED BY <2>1, <2>2, <2>3 DEF Since
<1>6. /\ d \in 1 .. i' - 1 /\ input'[d] = Dollar
      /\ Fits(array', remaining', Partial(env', input')[d - 1])
  BY <1>2, <1>4
<1> QED BY <1>2, <1>5, <1>6 DEF LoopInv

(* strncat() of the next text or value. *)
LEMMA StrncatNext ==
  ASSUME TypeOK, NEW text \in Seq(Chars), NEW v \in Seq(Chars), Len(v) <= MaxStr,
         Fits(array, remaining, text), NEW goto, Strncat(v, goto),
         NEW n \in 0 .. Len(input), Partial(env, input)[n] = text \o v
  PROVE  /\ remaining' \in 0 .. Word - 1
         /\ array' \in Seq(Chars)
         /\ \/ pc' = goto /\ Fits(array', remaining', Partial(env, input)[n])
            \/ pc' = "overflow" /\ Len(Expanded(env, input)) >= MaxStr
<1>1. /\ remaining' \in 0 .. Word - 1
      /\ array' \in Seq(Chars)
      /\ \/ pc' = goto /\ Fits(array', remaining', text \o v)
         \/ pc' = "overflow" /\ Len(text \o v) >= MaxStr
  BY StrncatFits
<1>2. PICK x \in Seq(Chars) : x = text \o v BY ConcatProperties
<1>3. Len(x) <= Len(Expanded(env, input)) /\ Len(Expanded(env, input)) \in Nat
  BY <1>2, PartialFirst
<1>4. Len(x) \in Nat /\ MaxStr \in Nat BY SizesAssumption, LenProperties
<1>5. Len(x) >= MaxStr => Len(Expanded(env, input)) >= MaxStr BY <1>3, <1>4
<1> QED BY <1>1, <1>2, <1>5

(* The value of the '$' at place d. *)
LEMMA ValueRead ==
  ASSUME TypeOK, NEW d \in 1 .. Len(input), input[d] = Dollar
  PROVE  \E text \in Seq(Chars), v \in Seq(Chars) :
           /\ text = Partial(env, input)[d - 1] /\ Len(v) <= MaxStr
           /\ Partial(env, input)[d] = text \o v
           /\ v = IF d = Len(input) THEN <<Dollar>>
                  ELSE find_val_with_key(env, NameAt(input, d))
<1>1. PICK P : P = Partial(env, input) OBVIOUS
<1>2. PICK e \in Envs, s \in Seq(Chars) : e = env /\ s = input BY StateProperty
<1>3. IsPartial(P, e, s) /\ Len(s) \in Nat BY <1>1, <1>2, StateProperty
<1>4. d \in 1 .. Len(s) /\ d - 1 \in 0 .. Len(s) BY <1>2, <1>3
<1>5. PICK text \in Seq(Chars) : text = P[d - 1] BY <1>3, <1>4 DEF IsPartial
<1>6. PICK v \in Seq(Chars) : v = Value(e, s, d) /\ Len(v) <= MaxStr BY <1>4, ValueProperty
<1>7. P[d] = text \o v BY <1>3, <1>4, <1>5, <1>6 DEF IsPartial
<1>8. v = IF d = Len(s) THEN <<Dollar>> ELSE find_val_with_key(e, NameAt(s, d))
  BY <1>2, <1>6 DEF Value, ValueAt
<1> QED BY <1>1, <1>2, <1>5, <1>6, <1>7, <1>8

---------------------------------------------------------------------------
(* Every step keeps the invariant. *)

LEMMA CallTyped ==
  ASSUME NEW s \in Seq(Chars), Len(s) <= MaxStr, expand_variables(s), env \in Envs,
         UNCHANGED env, pass' \in {1, 2}, token' \in Inputs \cup {Empty}
  PROVE  TypeOK'
<1>1. MaxStr \in Nat /\ Word \in Nat /\ Word > MaxStr BY SizesAssumption
<1>2. Empty \in Seq(Chars) /\ Len(Empty) = 0 BY EmptyFits
<1>3. MaxStr \in 0 .. Word - 1 /\ 1 \in 1 .. MaxStr + 1 /\ Len(Empty) <= MaxStr BY <1>1, <1>2
<1> QED BY <1>2, <1>3 DEF TypeOK, expand_variables

LEMMA MainStep ==
  ASSUME IInv, NEW t \in Inputs, main(t)
  PROVE  IInv'
<1>1. TypeOK BY DEF IInv
<1>2. t \in Seq(Chars) /\ Len(t) <= MaxStr BY InputsAssumption
<1>3. pass' = 1 /\ token' = t /\ env' = env /\ env \in Envs BY <1>1 DEF main, TypeOK
<1>4. CASE expand_variables(t)
  <2>1. LoopInv' /\ RestInv' /\ ReturnsExpansion' BY <1>2, <1>3, <1>4, CallStarts
  <2>2. TypeOK' BY <1>2, <1>3, <1>4, CallTyped
  <2>3. PassInv' BY <1>3, <1>4 DEF PassInv, expand_variables
  <2> QED BY <2>1, <2>2, <2>3 DEF IInv
<1>5. CASE /\ ~Contains(t, Dollar)
           /\ pc' = "returned" /\ input' = t /\ array' = t
           /\ UNCHANGED <<i, remaining, taking_var, var_name>>
  <2>1. \A k \in 1 .. Len(t) : t[k] # Dollar BY <1>5 DEF Contains
  <2>2. Expanded(env, t) = t BY <1>2, <1>3, <2>1, NoDollarNothing
  <2>3. Prefix(t, MaxStr) = t BY <1>2, SizesAssumption, PrefixProperty
  <2>4. ReturnsExpansion' BY <1>3, <1>5, <2>2, <2>3 DEF ReturnsExpansion
  <2>5. LoopInv' /\ RestInv' BY <1>5 DEF LoopInv, RestInv
  <2>6. PassInv' BY <1>3, <1>5 DEF PassInv
  <2>7. TypeOK' BY <1>1, <1>2, <1>3, <1>5 DEF TypeOK
  <2> QED BY <2>4, <2>5, <2>6, <2>7 DEF IInv
<1> QED BY <1>4, <1>5 DEF main

LEMMA ExpandedType ==
  ASSUME NEW e \in Envs, NEW s \in Seq(Chars)
  PROVE  Expanded(e, s) \in Seq(Chars)
<1>1. Len(s) \in Nat /\ Len(s) \in 0 .. Len(s) BY LenProperties
<1>2. IsPartial(Partial(e, s), e, s) BY PartialProperty
<1> QED BY <1>1, <1>2 DEF IsPartial

LEMMA ExpandAgainStep ==
  ASSUME IInv, ExpandAgain
  PROVE  IInv'
<1>1. TypeOK BY DEF IInv
<1>2. /\ pc = "returned" /\ pass = 1 /\ pass' = 2 /\ expand_variables(array)
      /\ token' = token /\ env' = env
  BY DEF ExpandAgain
<1>3. input = token /\ array = Prefix(Expanded(env, input), MaxStr)
  BY <1>2 DEF IInv, PassInv, ReturnsExpansion
<1>4. array \in Seq(Chars) /\ Len(array) <= MaxStr /\ env \in Envs
  <2>1. env \in Envs /\ input \in Seq(Chars) /\ array \in Seq(Chars) BY <1>1 DEF TypeOK
  <2>2. PICK x \in Seq(Chars) : x = Expanded(env, input) BY <2>1, ExpandedType
  <2>3. Len(Prefix(x, MaxStr)) = IF Len(x) < MaxStr THEN Len(x) ELSE MaxStr
    BY SizesAssumption, PrefixProperty
  <2>4. Len(x) \in Nat /\ MaxStr \in Nat BY SizesAssumption, LenProperties
  <2> QED BY <1>3, <2>1, <2>2, <2>3, <2>4
<1>5. token \in Inputs \cup {Empty} BY <1>1 DEF TypeOK
<1>6. LoopInv' /\ RestInv' /\ ReturnsExpansion' BY <1>2, <1>4, CallStarts
<1>7. TypeOK' BY <1>2, <1>4, <1>5, CallTyped
<1>8. PassInv' BY <1>2, <1>3 DEF PassInv, expand_variables
<1> QED BY <1>6, <1>7, <1>8 DEF IInv

LEMMA NextTokenStep ==
  ASSUME IInv, NextToken
  PROVE  IInv'
<1>1. TypeOK BY DEF IInv
<1>2. /\ pc' = "prompt" /\ pass' = 1 /\ token' = Empty /\ input' = Empty /\ i' = 1
      /\ array' = Empty /\ remaining' = MaxStr /\ taking_var' = 0 /\ var_name' = Empty
      /\ env' = env
  BY DEF NextToken
<1>3. MaxStr \in Nat /\ Word \in Nat /\ Word > MaxStr BY SizesAssumption
<1>4. Empty \in Seq(Chars) /\ Len(Empty) = 0 BY EmptyFits
<1>5. MaxStr \in 0 .. Word - 1 /\ 1 \in 1 .. MaxStr + 1 /\ Len(Empty) <= MaxStr BY <1>3, <1>4
<1>6. TypeOK' BY <1>1, <1>2, <1>4, <1>5 DEF TypeOK
<1>7. LoopInv' /\ RestInv' /\ PassInv' /\ ReturnsExpansion'
  BY <1>2 DEF LoopInv, RestInv, PassInv, ReturnsExpansion
<1> QED BY <1>6, <1>7 DEF IInv

LEMMA PassStep ==
  ASSUME IInv, pc # "prompt", pc' # "prompt", UNCHANGED <<pass, token, env, input>>
  PROVE  PassInv'
BY DEF IInv, PassInv

(* No room is left only when the array holds MAX_STR_LEN characters. *)
LEMMA NoRoomStep ==
  ASSUME IInv, NoRoom
  PROVE  IInv'
<1>1. TypeOK BY DEF IInv
<1>2. /\ pc = "loop" /\ i <= Len(input) /\ remaining = 0 /\ pc' = "returned"
      /\ UNCHANGED <<pass, token, env, local>>
  <2>1. i \in Nat /\ Len(input) \in Nat BY <1>1, StateProperty
  <2>2. remaining \in Nat BY <1>1, SizesAssumption DEF TypeOK
  <2> QED BY <2>1, <2>2 DEF NoRoom, AtEnd
<1>3. MaxStr \in Nat /\ MaxStr >= 1 BY SizesAssumption
<1>4. taking_var = 1
  <2> SUFFICES ASSUME taking_var # 1 PROVE FALSE OBVIOUS
  <2>1. Fits(array, remaining, Empty) BY <1>2 DEF IInv, LoopInv
  <2>2. Len(Empty) = 0 BY EmptyFits
  <2>3. remaining = MaxStr BY <1>3, <2>1, <2>2 DEF Fits
  <2> QED BY <1>2, <1>3, <2>3
<1>5. PICK d \in 1 .. i - 1 : Fits(array, remaining, Partial(env, input)[d - 1])
  BY <1>2, <1>4 DEF IInv, LoopInv
<1>6. PICK n \in 0 .. Len(input) : n = d - 1 BY <1>1, <1>2, StateProperty
<1>7. PICK x \in Seq(Chars) : x = Partial(env, input)[n]
  <2>1. IsPartial(Partial(env, input), env, input) BY <1>1, StateProperty
  <2> QED BY <2>1 DEF IsPartial
<1>8. Len(x) \in Nat BY LenProperties
<1>9. array = Prefix(x, MaxStr) /\ Len(x) = MaxStr
  <2>1. Fits(array, remaining, x) BY <1>5, <1>6, <1>7
  <2> QED BY <1>2, <1>3, <1>8, <2>1 DEF Fits
<1>10. array = x BY <1>3, <1>8, <1>9, PrefixProperty
<1>11. PICK y \in Seq(Chars) :
         y = Expanded(env, input) /\ Len(x) <= Len(y) /\ \A k \in 1 .. Len(x) : y[k] = x[k]
  BY <1>1, <1>7, PartialFirst
<1>12. Len(y) \in Nat BY LenProperties
<1>13. x = Prefix(y, MaxStr)
  <2>1. Len(x) = IF Len(y) < MaxStr THEN Len(y) ELSE MaxStr BY <1>3, <1>9, <1>11, <1>12
  <2>2. \A k \in 1 .. Len(x) : x[k] = y[k] BY <1>11
  <2> QED BY <1>3, <2>1, <2>2, IsPrefixOf
<1>14. ReturnsExpansion' BY <1>2, <1>10, <1>11, <1>13 DEF ReturnsExpansion, local
<1>15. TypeOK' BY <1>1, <1>2 DEF TypeOK, local
<1>16. LoopInv' /\ RestInv' BY <1>2 DEF LoopInv, RestInv
<1>17. PassInv' BY <1>2, PassStep DEF local
<1> QED BY <1>14, <1>15, <1>16, <1>17 DEF IInv

LEMMA NameLength ==
  ASSUME TypeOK, NEW d \in 0 .. i - 1, Since(d), i <= Len(input) + 1
  PROVE  (var_name = Empty) <=> (d = i - 1)
<1>1. PICK s \in Seq(Chars), j \in Nat : s = input /\ j = i BY StateProperty
<1>2. Len(s) \in Nat /\ d \in Nat /\ d <= j - 1 /\ j <= Len(s) + 1 BY <1>1, StateProperty
<1>3. PICK n \in Nat : n = j - 1 BY <1>2
<1>4. var_name = SubSeq(s, d + 1, n) BY <1>1, <1>3 DEF Since
<1>5. \A k \in d + 1 .. n : s[k] \in Chars
  <2>1. \A k \in d + 1 .. n : k \in 1 .. Len(s) BY <1>2, <1>3
  <2> QED BY <2>1, ElementOfSeq
<1>6. /\ SubSeq(s, d + 1, n) \in Seq(Chars)
      /\ Len(SubSeq(s, d + 1, n)) = IF d + 1 <= n THEN n - (d + 1) + 1 ELSE 0
  BY <1>2, <1>5, SubSeqProperties
<1>7. PICK name \in Seq(Chars) : name = var_name /\ Len(name) = n - d
  <2>1. PICK x : x = SubSeq(s, d + 1, n) OBVIOUS
  <2>2. x \in Seq(Chars) /\ Len(x) = IF d + 1 <= n THEN n - (d + 1) + 1 ELSE 0 BY <1>6, <2>1
  <2>3. Len(x) = n - d BY <1>2, <1>3, <2>2
  <2> QED BY <1>4, <2>1, <2>2, <2>3
<1>8. name = <<>> <=> Len(name) = 0 BY EmptySeq
<1> QED BY <1>1, <1>2, <1>3, <1>7, <1>8 DEF Empty

(* An array without room for a '\0' is filled by a token without a '$'. *)
LEMMA CharacterStep ==
  ASSUME IInv, Character
  PROVE  IInv'
<1>1. TypeOK BY DEF IInv
<1>2. /\ pc = "loop" /\ input[i] # Dollar /\ var_name' = Append(var_name, input[i])
      /\ pc' = IF Len(var_name') < MaxStr THEN "loop" ELSE "overflow"
      /\ i' = i + 1
      /\ UNCHANGED <<pass, token, env, input, array, remaining, taking_var>>
  BY DEF Character, Looping
<1>3. /\ i \in Nat /\ i >= 1 /\ Len(input) \in Nat /\ MaxStr \in Nat
      /\ Len(input) <= MaxStr /\ i <= Len(input)
  <2>1. i \in Nat /\ i >= 1 /\ Len(input) \in Nat /\ MaxStr \in Nat /\ Len(input) <= MaxStr
    BY <1>1, StateProperty
  <2> QED BY <2>1 DEF Character, Looping, AtEnd
<1>4. \E d \in 0 .. i - 1 :
        /\ Since(d)
        /\ \/ d = 0 /\ taking_var = 0 /\ Fits(array, remaining, Empty)
           \/ /\ d > 0 /\ taking_var = 1 /\ input[d] = Dollar
              /\ Fits(array, remaining, Partial(env, input)[d - 1])
  <2>1. CASE taking_var = 0
    <3>1. Since(0) /\ Fits(array, remaining, Empty) BY <1>2, <2>1 DEF IInv, LoopInv
    <3>2. 0 \in 0 .. i - 1 BY <1>3
    <3> QED BY <2>1, <3>1, <3>2
  <2>2. CASE taking_var # 0
    <3>1. taking_var = 1 BY <1>1, <2>2 DEF TypeOK
    <3>2. PICK d \in 1 .. i - 1 : /\ input[d] = Dollar /\ Since(d)
                                  /\ Fits(array, remaining, Partial(env, input)[d - 1])
      BY <1>2, <3>1 DEF IInv, LoopInv
    <3>3. d \in 0 .. i - 1 /\ d > 0 BY <1>3
    <3> QED BY <3>1, <3>2, <3>3
  <2> QED BY <2>1, <2>2
<1>5. PICK d \in 0 .. i - 1 :
        /\ Since(d)
        /\ \/ d = 0 /\ taking_var = 0 /\ Fits(array, remaining, Empty)
           \/ /\ d > 0 /\ taking_var = 1 /\ input[d] = Dollar
              /\ Fits(array, remaining, Partial(env, input)[d - 1])
  BY <1>4
<1>6. Since(d)' /\ var_name' \in Seq(Chars) /\ Len(var_name') = i - d
  BY <1>1, <1>2, <1>3, <1>5, CharacterSince
<1>7. TypeOK'
  <2>1. Len(var_name') <= MaxStr /\ i' \in 1 .. MaxStr + 1 BY <1>2, <1>3, <1>6
  <2> QED BY <1>1, <1>2, <1>6, <2>1 DEF TypeOK
<1>8. LoopInv'
  <2>1. i' <= Len(input') + 1 BY <1>2, <1>3
  <2>2. CASE d = 0
    <3>1. Since(0)' BY <1>6, <2>2
    <3>2. taking_var' = 0 /\ Fits(array', remaining', Empty) BY <1>2, <1>5, <2>2
    <3> QED BY <2>1, <3>1, <3>2 DEF LoopInv
  <2>3. CASE d # 0
    <3>1. /\ taking_var' = 1 /\ input'[d] = Dollar
          /\ Fits(array', remaining', Partial(env', input')[d - 1])
      BY <1>2, <1>5, <2>3
    <3>2. d \in 1 .. i' - 1 BY <1>2, <1>3, <2>3
    <3> QED BY <1>6, <2>1, <3>1, <3>2 DEF LoopInv
  <2> QED BY <2>2, <2>3
<1>9. ReturnsExpansion'
  <2>1. CASE Len(var_name') < MaxStr BY <1>2, <2>1 DEF ReturnsExpansion
  <2>2. CASE ~(Len(var_name') < MaxStr)
    <3>1. d = 0 /\ i = Len(input) /\ Len(input) = MaxStr BY <1>3, <1>6, <2>2
    <3>2. \A k \in 1 .. Len(input) : input[k] # Dollar BY <1>2, <1>3, <1>6, <3>1 DEF Since
    <3>3. Expanded(env, input) = input BY <1>1, <3>2, StateProperty, NoDollarNothing
    <3> QED BY <1>2, <1>3, <2>2, <3>1, <3>3 DEF ReturnsExpansion
  <2> QED BY <2>1, <2>2
<1>10. RestInv' BY <1>2 DEF RestInv
<1>11. PassInv' BY <1>2, PassStep
<1> QED BY <1>7, <1>8, <1>9, <1>10, <1>11 DEF IInv

(* A step behind which a '$' has been read, or the array is overrun. *)
LEMMA AfterDollar ==
  ASSUME IInv, pc = "loop", i <= Len(input), input[i] = Dollar, i' = i + 1,
         var_name' = Empty, taking_var' = 1, UNCHANGED <<pass, token, env, input>>,
         remaining' \in 0 .. Word - 1, array' \in Seq(Chars),
         \/ pc' = "loop" /\ Fits(array', remaining', Partial(env, input)[i - 1])
         \/ pc' = "overflow" /\ Len(Expanded(env, input)) >= MaxStr
  PROVE  IInv'
<1>1. TypeOK BY DEF IInv
<1>2. /\ i \in Nat /\ i >= 1 /\ Len(input) \in Nat /\ MaxStr \in Nat /\ Len(input) <= MaxStr
  BY <1>1, StateProperty
<1>3. TypeOK'
  <2>1. Empty \in Seq(Chars) /\ Len(Empty) <= MaxStr /\ i' \in 1 .. MaxStr + 1
    BY <1>2, EmptyFits
  <2> QED BY <1>1, <2>1 DEF TypeOK
<1>4. LoopInv'
  <2>1. CASE pc' = "loop" BY <1>1, <2>1, DollarRead
  <2>2. CASE pc' # "loop" BY <2>2 DEF LoopInv
  <2> QED BY <2>1, <2>2
<1>5. RestInv' /\ ReturnsExpansion' BY DEF RestInv, ReturnsExpansion
<1>6. PassInv' BY PassStep
<1> QED BY <1>3, <1>4, <1>5, <1>6 DEF IInv

LEMMA FirstDollarStep ==
  ASSUME IInv, FirstDollar
  PROVE  IInv'
<1>1. TypeOK BY DEF IInv
<1>2. /\ pc = "loop" /\ input[i] = Dollar /\ taking_var = 0 /\ taking_var' = 1
      /\ \/ var_name = Empty /\ UNCHANGED <<pc, array, remaining, var_name>>
         \/ var_name # Empty /\ Strncat(var_name, "loop") /\ var_name' = Empty
      /\ i' = i + 1 /\ UNCHANGED <<pass, token, env, input>>
  BY DEF FirstDollar, Looping, Cleared
<1>3. i \in Nat /\ i >= 1 /\ Len(input) \in Nat /\ i <= Len(input)
  <2>1. i \in Nat /\ i >= 1 /\ Len(input) \in Nat BY <1>1, StateProperty
  <2> QED BY <2>1 DEF FirstDollar, Looping, AtEnd
<1>4. Since(0) /\ Fits(array, remaining, Empty) BY <1>2 DEF IInv, LoopInv
<1>5. PICK z \in 0 .. i - 1 : z = 0 BY <1>3
<1>6. var_name = NameAt(input, 0)
  <2>1. var_name = NameAt(input, z) BY <1>1, <1>2, <1>3, <1>4, <1>5, NameRead
  <2> QED BY <1>5, <2>1
<1>7. PICK v \in Seq(Chars) : v = var_name /\ Len(v) <= MaxStr BY <1>1 DEF TypeOK
<1>8. Partial(env, input)[0] = v /\ Partial(env, input)[i - 1] = v
  <2>1. IsPartial(Partial(env, input), env, input) BY <1>1, StateProperty
  <2>2. Partial(env, input)[0] = v BY <1>6, <1>7, <2>1 DEF IsPartial
  <2> QED BY <1>4, <2>2 DEF Since
<1>9. CASE var_name = Empty
  <2>1. pc' = "loop" /\ array' = array /\ remaining' = remaining /\ var_name' = Empty
    BY <1>2, <1>9
  <2>2. /\ remaining \in 0 .. Word - 1 /\ array \in Seq(Chars)
    BY <1>1 DEF TypeOK
  <2>3. Fits(array', remaining', Partial(env, input)[i - 1]) BY <1>4, <1>7, <1>8, <1>9, <2>1
  <2> QED BY <1>2, <1>3, <2>1, <2>2, <2>3, AfterDollar
<1>10. CASE var_name # Empty
  <2>1. Strncat(v, "loop") /\ var_name' = Empty BY <1>2, <1>7, <1>10
  <2>2. PICK text \in Seq(Chars) : text = Empty BY EmptyFits
  <2>3. text \o v = v BY <2>2, ConcatEmptySeq DEF Empty
  <2>4. PICK n \in 0 .. Len(input) : n = 0 BY <1>3
  <2>5. Partial(env, input)[n] = text \o v BY <1>8, <2>3, <2>4
  <2>6. /\ remaining' \in 0 .. Word - 1
        /\ array' \in Seq(Chars)
        /\ \/ pc' = "loop" /\ Fits(array', remaining', Partial(env, input)[n])
           \/ pc' = "overflow" /\ Len(Expanded(env, input)) >= MaxStr
    BY <1>1, <1>4, <1>7, <2>1, <2>2, <2>5, StrncatNext
  <2>7. Partial(env, input)[n] = Partial(env, input)[i - 1] BY <1>8, <2>4
  <2> QED BY <1>2, <1>3, <2>1, <2>6, <2>7, AfterDollar
<1> QED BY <1>9, <1>10

LEMMA NextDollarStep ==
  ASSUME IInv, NextDollar
  PROVE  IInv'
<1>1. TypeOK BY DEF IInv
<1>2. /\ pc = "loop" /\ input[i] = Dollar /\ taking_var = 1 /\ taking_var' = taking_var
      /\ Strncat(find_val_with_key(env, var_name), "loop") /\ var_name' = Empty
      /\ i' = i + 1 /\ UNCHANGED <<pass, token, env, input>>
  BY DEF NextDollar, Looping
<1>3. i \in Nat /\ i >= 1 /\ Len(input) \in Nat /\ i <= Len(input)
  <2>1. i \in Nat /\ i >= 1 /\ Len(input) \in Nat BY <1>1, StateProperty
  <2> QED BY <2>1 DEF NextDollar, Looping, AtEnd
<1>4. PICK d \in 1 .. i - 1 : /\ input[d] = Dollar /\ Since(d)
                              /\ Fits(array, remaining, Partial(env, input)[d - 1])
  BY <1>2 DEF IInv, LoopInv
<1>5. d \in 0 .. i - 1 /\ d \in 1 .. Len(input) /\ d \in 0 .. Len(input) /\ d # Len(input)
  BY <1>3
<1>6. var_name = NameAt(input, d) BY <1>1, <1>2, <1>3, <1>4, <1>5, NameRead
<1>7. PICK text \in Seq(Chars), v \in Seq(Chars) :
           /\ text = Partial(env, input)[d - 1] /\ Len(v) <= MaxStr
           /\ Partial(env, input)[d] = text \o v
           /\ v = find_val_with_key(env, NameAt(input, d))
  BY <1>1, <1>4, <1>5, ValueRead
<1>8. Strncat(v, "loop") /\ Fits(array, remaining, text) BY <1>2, <1>4, <1>6, <1>7
<1>9. /\ remaining' \in 0 .. Word - 1
      /\ array' \in Seq(Chars)
      /\ \/ pc' = "loop" /\ Fits(array', remaining', Partial(env, input)[d])
         \/ pc' = "overflow" /\ Len(Expanded(env, input)) >= MaxStr
  BY <1>1, <1>5, <1>7, <1>8, StrncatNext
<1>10. Partial(env, input)[d] = Partial(env, input)[i - 1] BY <1>4 DEF Since
<1> QED BY <1>2, <1>3, <1>9, <1>10, AfterDollar


(* A step behind the loop that leaves the whole expansion in the array, or *)
(* overruns it.                                                            *)
LEMMA AfterValue ==
  ASSUME IInv, pc \in {"loop", "rest"}, NEW goto \in {"rest", "returned"},
         taking_var' = 0, var_name' = Empty, i' = i, UNCHANGED <<pass, token, env, input>>,
         remaining' \in 0 .. Word - 1, array' \in Seq(Chars),
         \/ pc' = goto /\ Fits(array', remaining', Partial(env, input)[Len(input)])
         \/ pc' = "overflow" /\ Len(Expanded(env, input)) >= MaxStr
  PROVE  IInv'
<1>1. TypeOK BY DEF IInv
<1>2. TypeOK'
  <2>1. Empty \in Seq(Chars) /\ Len(Empty) <= MaxStr BY EmptyFits, SizesAssumption
  <2> QED BY <1>1, <2>1 DEF TypeOK
<1>3. IsPartial(Partial(env, input), env, input) BY <1>1, StateProperty
<1>4. Partial(env, input)[Len(input)] = Expanded(env, input) BY <1>3 DEF IsPartial
<1>5. pc' = goto => array' = Prefix(Expanded(env, input), MaxStr) BY <1>4 DEF Fits
<1>6. LoopInv' BY DEF LoopInv
<1>7. RestInv' BY <1>5 DEF RestInv
<1>8. ReturnsExpansion' BY <1>5 DEF ReturnsExpansion
<1>9. PassInv' BY PassStep
<1> QED BY <1>2, <1>6, <1>7, <1>8, <1>9 DEF IInv

LEMMA LoopEndsStep ==
  ASSUME IInv, LoopEnds
  PROVE  IInv'
<1>1. TypeOK BY DEF IInv
<1>2. /\ pc = "loop" /\ taking_var' = (IF var_name = Empty THEN taking_var ELSE 0)
      /\ \/ var_name = Empty /\ pc' = "rest" /\ UNCHANGED <<array, remaining>>
         \/ /\ var_name # Empty
            /\ Strncat(IF taking_var = 0 THEN var_name ELSE find_val_with_key(env, var_name),
                       "rest")
      /\ var_name' = Empty /\ i' = i /\ UNCHANGED <<pass, token, env, input>>
  BY DEF LoopEnds
<1>3. i \in Nat /\ Len(input) \in Nat /\ i = Len(input) + 1 /\ i - 1 = Len(input)
  <2>1. i \in Nat /\ i >= 1 /\ Len(input) \in Nat BY <1>1, StateProperty
  <2>2. i <= Len(input) + 1 BY <1>2 DEF IInv, LoopInv
  <2> QED BY <2>1, <2>2 DEF LoopEnds, AtEnd
<1>4. /\ remaining \in 0 .. Word - 1 /\ array \in Seq(Chars)
      /\ taking_var \in {0, 1}
  BY <1>1 DEF TypeOK
<1>5. CASE taking_var = 0
  <2>1. Since(0) /\ Fits(array, remaining, Empty) BY <1>2, <1>5 DEF IInv, LoopInv
  <2>2. PICK z \in 0 .. i - 1 : z = 0 /\ z \in 0 .. Len(input) BY <1>3
  <2>3. var_name = NameAt(input, z) BY <1>1, <1>3, <2>1, <2>2, NameRead
  <2>4. PICK v \in Seq(Chars) : v = var_name /\ Len(v) <= MaxStr BY <1>1 DEF TypeOK
  <2>5. Partial(env, input)[z] = v /\ Partial(env, input)[Len(input)] = v
    <3>1. IsPartial(Partial(env, input), env, input) BY <1>1, StateProperty
    <3>2. Partial(env, input)[z] = v BY <2>2, <2>3, <2>4, <3>1 DEF IsPartial
    <3> QED BY <1>3, <2>1, <2>2, <3>2 DEF Since
  <2>6. taking_var' = 0 BY <1>2, <1>5
  <2>7. CASE var_name = Empty
    <3>1. pc' = "rest" /\ array' = array /\ remaining' = remaining BY <1>2, <2>7
    <3>2. Fits(array', remaining', Partial(env, input)[Len(input)])
      BY <2>1, <2>4, <2>5, <2>7, <3>1
    <3> QED BY <1>2, <1>4, <2>6, <3>1, <3>2, AfterValue
  <2>8. CASE var_name # Empty
    <3>1. Strncat(v, "rest") BY <1>2, <1>5, <2>4, <2>8
    <3>2. PICK text \in Seq(Chars) : text = Empty BY EmptyFits
    <3>3. text \o v = v BY <3>2, ConcatEmptySeq DEF Empty
    <3>4. Partial(env, input)[z] = text \o v BY <2>5, <3>3
    <3>5. /\ remaining' \in 0 .. Word - 1
          /\ array' \in Seq(Chars)
          /\ \/ pc' = "rest" /\ Fits(array', remaining', Partial(env, input)[z])
             \/ pc' = "overflow" /\ Len(Expanded(env, input)) >= MaxStr
      BY <1>1, <2>1, <2>2, <2>4, <3>1, <3>2, <3>4, StrncatNext
    <3> QED BY <1>2, <2>5, <2>6, <3>5, AfterValue
  <2> QED BY <2>7, <2>8
<1>6. CASE taking_var = 1
  <2>1. PICK d \in 1 .. i - 1 : /\ input[d] = Dollar /\ Since(d)
                                /\ Fits(array, remaining, Partial(env, input)[d - 1])
    BY <1>2, <1>6 DEF IInv, LoopInv
  <2>2. d \in 0 .. i - 1 /\ d \in 1 .. Len(input) /\ d \in 0 .. Len(input) BY <1>3
  <2>3. (var_name = Empty) <=> (d = Len(input))
    <3>1. i <= Len(input) + 1 BY <1>3
    <3>2. (var_name = Empty) <=> (d = i - 1) BY <1>1, <2>1, <2>2, <3>1, NameLength
    <3> QED BY <1>3, <3>2
  <2>4. CASE var_name = Empty
    <3>1. pc' = "rest" /\ array' = array /\ remaining' = remaining /\ taking_var' = taking_var
      BY <1>2, <2>4
    <3>2. d = Len(input) /\ Len(input) > 0
      <4>1. d = Len(input) BY <2>3, <2>4
      <4>2. Len(input) > 0 BY <1>3, <2>2
      <4> QED BY <4>1, <4>2
    <3>3. RestInv' BY <1>2, <1>6, <2>1, <3>1, <3>2 DEF RestInv
    <3>4. LoopInv' /\ ReturnsExpansion' BY <3>1 DEF LoopInv, ReturnsExpansion
    <3>5. TypeOK'
      <4>1. Empty \in Seq(Chars) /\ Len(Empty) <= MaxStr BY EmptyFits, SizesAssumption
      <4> QED BY <1>1, <1>2, <3>1, <4>1 DEF TypeOK
    <3>6. PassInv' BY <1>2, <3>1, PassStep
    <3> QED BY <3>3, <3>4, <3>5, <3>6 DEF IInv
  <2>5. CASE var_name # Empty
    <3>1. d # Len(input) BY <1>3, <2>3, <2>5
    <3>2. var_name = NameAt(input, d) BY <1>1, <1>3, <2>1, <2>2, NameRead
    <3>3. PICK text \in Seq(Chars), v \in Seq(Chars) :
               /\ text = Partial(env, input)[d - 1] /\ Len(v) <= MaxStr
               /\ Partial(env, input)[d] = text \o v
               /\ v = find_val_with_key(env, NameAt(input, d))
      BY <1>1, <2>1, <2>2, <3>1, ValueRead
    <3>4. Strncat(v, "rest") /\ Fits(array, remaining, text)
      BY <1>2, <1>6, <2>1, <2>5, <3>2, <3>3
    <3>5. /\ remaining' \in 0 .. Word - 1
          /\ array' \in Seq(Chars)
          /\ \/ pc' = "rest" /\ Fits(array', remaining', Partial(env, input)[d])
             \/ pc' = "overflow" /\ Len(Expanded(env, input)) >= MaxStr
      BY <1>1, <2>2, <3>3, <3>4, StrncatNext
    <3>6. Partial(env, input)[d] = Partial(env, input)[Len(input)] BY <1>3, <2>1 DEF Since
    <3>7. taking_var' = 0 BY <1>2, <2>5
    <3> QED BY <1>2, <3>5, <3>6, <3>7, AfterValue
  <2> QED BY <2>4, <2>5
<1> QED BY <1>4, <1>5, <1>6

LEMMA RestStep ==
  ASSUME IInv, Rest
  PROVE  IInv'
<1>1. TypeOK BY DEF IInv
<1>2. /\ pc = "rest" /\ taking_var' = 0 /\ var_name' = var_name /\ i' = i
      /\ UNCHANGED <<pass, token, env, input>>
  BY DEF Rest
<1>3. /\ remaining \in 0 .. Word - 1 /\ array \in Seq(Chars)
      /\ taking_var \in {0, 1}
  BY <1>1 DEF TypeOK
<1>4. var_name = Empty BY <1>2 DEF IInv, RestInv
<1>5. CASE taking_var = 0
  <2>1. pc' = "returned" /\ array' = array /\ remaining' = remaining
    BY <1>5 DEF Rest, LoneDollar
  <2>2. array = Prefix(Expanded(env, input), MaxStr) BY <1>2, <1>5 DEF IInv, RestInv
  <2>3. ReturnsExpansion' BY <1>2, <2>1, <2>2 DEF ReturnsExpansion
  <2>4. LoopInv' /\ RestInv' BY <2>1 DEF LoopInv, RestInv
  <2>5. TypeOK' BY <1>1, <1>2, <2>1 DEF TypeOK
  <2>6. PassInv' BY <1>2, <2>1, PassStep
  <2> QED BY <2>3, <2>4, <2>5, <2>6 DEF IInv
<1>6. CASE taking_var = 1
  <2>1. Strncat(<<Dollar>>, "returned") BY <1>4, <1>6 DEF Rest, LoneDollar
  <2>2. /\ Len(input) > 0 /\ input[Len(input)] = Dollar
        /\ Fits(array, remaining, Partial(env, input)[Len(input) - 1])
    BY <1>2, <1>6 DEF IInv, RestInv
  <2>3. PICK d \in 1 .. Len(input) : d = Len(input) /\ d \in 0 .. Len(input)
    <3>1. Len(input) \in Nat BY <1>1, StateProperty
    <3> QED BY <2>2, <3>1
  <2>4. PICK text \in Seq(Chars), v \in Seq(Chars) :
             /\ text = Partial(env, input)[d - 1] /\ Len(v) <= MaxStr
             /\ Partial(env, input)[d] = text \o v
             /\ v = <<Dollar>>
    BY <1>1, <2>2, <2>3, ValueRead
  <2>5. Strncat(v, "returned") /\ Fits(array, remaining, text) BY <2>1, <2>2, <2>3, <2>4
  <2>6. /\ remaining' \in 0 .. Word - 1
        /\ array' \in Seq(Chars)
        /\ \/ pc' = "returned" /\ Fits(array', remaining', Partial(env, input)[d])
           \/ pc' = "overflow" /\ Len(Expanded(env, input)) >= MaxStr
    BY <1>1, <2>3, <2>4, <2>5, StrncatNext
  <2> QED BY <1>2, <1>4, <2>3, <2>6, AfterValue
<1> QED BY <1>3, <1>5, <1>6

LEMMA InitInv == Init => IInv
<1> SUFFICES ASSUME Init PROVE IInv OBVIOUS
<1>1. MaxStr \in Nat /\ Word \in Nat /\ Word > MaxStr BY SizesAssumption
<1>2. Empty \in Seq(Chars) /\ Len(Empty) = 0 BY EmptyFits
<1>3. MaxStr \in 0 .. Word - 1 /\ 1 \in 1 .. MaxStr + 1 /\ Len(Empty) <= MaxStr BY <1>1, <1>2
<1>4. TypeOK BY <1>2, <1>3 DEF Init, TypeOK
<1>5. LoopInv /\ RestInv /\ PassInv /\ ReturnsExpansion
  BY DEF Init, LoopInv, RestInv, PassInv, ReturnsExpansion
<1> QED BY <1>4, <1>5 DEF IInv

LEMMA StutterStep ==
  ASSUME IInv, UNCHANGED vars
  PROVE  IInv'
<1>1. UNCHANGED <<pc, pass, token, env, input, i, array, remaining, taking_var, var_name>>
  BY DEF vars, local
<1>2. TypeOK' BY <1>1 DEF IInv, TypeOK
<1>3. LoopInv' BY <1>1 DEF IInv, LoopInv, Since
<1>4. RestInv' BY <1>1 DEF IInv, RestInv
<1>5. PassInv' /\ ReturnsExpansion' BY <1>1 DEF IInv, PassInv, ReturnsExpansion
<1> QED BY <1>2, <1>3, <1>4, <1>5 DEF IInv

(* In every state of expand_variables() the array holds what fits of the   *)
(* expansion of the characters read so far, and remaining what is left of  *)
(* it, modulo 2^64 (variables.c:192-297).                                  *)
THEOREM Invariant == Spec => []IInv
<1>1. Init => IInv BY InitInv
<1>2. IInv /\ [Next]_vars => IInv'
  <2> SUFFICES ASSUME IInv, [Next]_vars PROVE IInv' OBVIOUS
  <2>1. ASSUME NEW t \in Inputs, main(t) PROVE IInv' BY <2>1, MainStep
  <2>2. CASE bn_echo \/ AssignExpanded BY <2>2, ExpandAgainStep DEF bn_echo, AssignExpanded
  <2>3. CASE NextToken BY <2>3, NextTokenStep
  <2>4. CASE NoRoom BY <2>4, NoRoomStep
  <2>5. CASE Character BY <2>5, CharacterStep
  <2>6. CASE FirstDollar BY <2>6, FirstDollarStep
  <2>7. CASE NextDollar BY <2>7, NextDollarStep
  <2>8. CASE LoopEnds BY <2>8, LoopEndsStep
  <2>9. CASE Rest BY <2>9, RestStep
  <2>10. CASE UNCHANGED vars BY <2>10, StutterStep
  <2> QED BY <2>1, <2>2, <2>3, <2>4, <2>5, <2>6, <2>7, <2>8, <2>9, <2>10 DEF Next
<1> QED BY <1>1, <1>2, PTL DEF Spec

(* The loop counter stays within the token, remaining stays a size_t when  *)
(* it wraps, and what main() hands to the second pass fits an array again, *)
(* for every token and all values (variables.c:192-297).  How much is      *)
(* written to the array is not bounded here: see ReturnsExpansion.         *)
THEOREM TypeCorrect == Spec => []TypeOK
<1>1. IInv => TypeOK BY DEF IInv
<1> QED BY <1>1, Invariant, PTL

(* What expand_variables() returns is the expansion, cut at MAX_STR_LEN    *)
(* characters, and only an expansion of that length may overrun the array  *)
(* (variables.c:192-297).                                                  *)
THEOREM ReturnsExpansionCorrect == Spec => []ReturnsExpansion
<1>1. IInv => ReturnsExpansion BY DEF IInv
<1> QED BY <1>1, Invariant, PTL

---------------------------------------------------------------------------
(* The second pass. *)

NoDollar(x) == \A k \in 1 .. Len(x) : x[k] # Dollar

(* A '$' at the last place at most: it stands for itself. *)
EndOnly(x) == \A k \in 1 .. Len(x) - 1 : x[k] # Dollar

LEMMA EndOnlyUnchanged ==
  ASSUME NEW e \in Envs, NEW s \in Seq(Chars), EndOnly(s)
  PROVE  Expanded(e, s) = s
<1>1. Len(s) \in Nat BY LenProperties
<1>2. CASE \A k \in 1 .. Len(s) : s[k] # Dollar BY <1>2, NoDollarNothing
<1>3. CASE ~ \A k \in 1 .. Len(s) : s[k] # Dollar
  <2>1. PICK k \in 1 .. Len(s) : s[k] = Dollar BY <1>3
  <2>2. k = Len(s) BY <1>1, <2>1 DEF EndOnly
  <2>3. PICK n \in Nat : n = Len(s) - 1 BY <1>1, <2>2
  <2>4. n + 1 = Len(s) /\ s[n + 1] = Dollar /\ n < Len(s) /\ n \in 0 .. Len(s)
        /\ n + 1 \in 1 .. Len(s) /\ n + 1 - 1 = n
    BY <1>1, <2>1, <2>2, <2>3
  <2>5. \A m \in 1 .. n : s[m] # Dollar BY <2>3 DEF EndOnly
  <2>6. PICK P : IsPartial(P, e, s) BY PartialProperty
  <2>7. P[n] = P[0] BY <2>4, <2>5, <2>6, FlatUpTo
  <2>8. PICK z \in Nat : z = 0 OBVIOUS
  <2>9. NameAt(s, 0) = SubSeq(s, z + 1, n)
    <3>1. PICK l \in z + 1 .. Len(s) : l = n + 1 /\ l - 1 = n /\ z \in 0 .. Len(s)
      BY <1>1, <2>4, <2>8
    <3>2. \A m \in z + 1 .. l - 1 : s[m] # Dollar BY <2>5, <2>8, <3>1
    <3>3. NameAt(s, z) = SubSeq(s, z + 1, l - 1) BY <2>4, <3>1, <3>2, NameProperty
    <3> QED BY <2>8, <3>1, <3>3
  <2>10. PICK x \in Seq(Chars) : x = SubSeq(s, z + 1, n) /\ P[n] = x
    <3>1. P[n] \in Seq(Chars) BY <2>4, <2>6 DEF IsPartial
    <3>2. P[n] = SubSeq(s, z + 1, n) BY <2>6, <2>7, <2>9 DEF IsPartial
    <3> QED BY <3>1, <3>2
  <2>11. P[Len(s)] = x \o <<Dollar>>
    <3>1. \A m \in 1 .. Len(s) : P[m] = P[m - 1] \o Value(e, s, m) BY <2>6 DEF IsPartial
    <3>2. PICK m \in 1 .. Len(s) : m = Len(s) /\ m - 1 = n /\ s[m] = Dollar BY <2>4
    <3>3. P[m] = P[n] \o Value(e, s, m) BY <3>1, <3>2
    <3>4. Value(e, s, m) = <<Dollar>> BY <3>2 DEF Value, ValueAt
    <3> QED BY <2>10, <3>2, <3>3, <3>4
  <2>12. PICK c \in Chars : c = Dollar BY CharsAssumption
  <2>13. Append(x, c) = SubSeq(s, z + 1, n + 1)
    <3>1. Append(SubSeq(s, z + 1, n), s[n + 1]) = SubSeq(s, z + 1, n + 1)
      BY <2>4, <2>8, SubSeqGrows
    <3> QED BY <2>4, <2>10, <2>12, <3>1
  <2>14. Append(x, c) = x \o <<c>> BY AppendIsConcat
  <2>15. SubSeq(s, z + 1, n + 1) = s
    <3>1. SubSeq(s, 1, Len(s)) = s OBVIOUS
    <3> QED BY <2>4, <2>8, <3>1
  <2>16. P[Len(s)] = s BY <2>11, <2>12, <2>13, <2>14, <2>15
  <2> QED BY <2>6, <2>16 DEF IsPartial
<1> QED BY <1>2, <1>3

LEMMA NoDollarJoined ==
  ASSUME NEW x \in Seq(Chars), NEW y \in Seq(Chars), NEW z, z = x \o y, NoDollar(x)
  PROVE  (NoDollar(y) => NoDollar(z)) /\ (Len(y) <= 1 => EndOnly(z))
<1>1. Joined(z, x, y) BY Concatenation
<1>2. Len(x) \in Nat /\ Len(y) \in Nat BY LenProperties
<1>3. ASSUME NoDollar(y), NEW k \in 1 .. Len(z) PROVE z[k] # Dollar
  <2>1. k \in 1 .. Len(x) + Len(y) BY <1>1 DEF Joined
  <2>2. CASE k <= Len(x)
    <3>1. k \in 1 .. Len(x) /\ z[k] = x[k] BY <1>1, <1>2, <2>1, <2>2 DEF Joined
    <3> QED BY <3>1 DEF NoDollar
  <2>3. CASE ~(k <= Len(x))
    <3>1. k - Len(x) \in 1 .. Len(y) /\ z[k] = y[k - Len(x)]
      BY <1>1, <1>2, <2>1, <2>3 DEF Joined
    <3> QED BY <1>3, <3>1 DEF NoDollar
  <2> QED BY <2>2, <2>3
<1>4. ASSUME Len(y) <= 1, NEW k \in 1 .. Len(z) - 1 PROVE z[k] # Dollar
  <2>1. Len(z) = Len(x) + Len(y) BY <1>1 DEF Joined
  <2>2. k \in 1 .. Len(x) + Len(y) /\ k \in 1 .. Len(x) BY <1>2, <1>4, <2>1
  <2>3. z[k] = x[k] BY <1>1, <2>2 DEF Joined
  <2> QED BY <2>2, <2>3 DEF NoDollar
<1> QED BY <1>3, <1>4 DEF NoDollar, EndOnly

LEMMA ExpandedEndOnly ==
  ASSUME NEW e \in Envs, \A n \in DOMAIN e : Dollars(e[n]) = {}, NEW s \in Seq(Chars)
  PROVE  Expanded(e, s) \in Seq(Chars) /\ EndOnly(Expanded(e, s))
<1>1. Len(s) \in Nat BY LenProperties
<1>2. PICK P : IsPartial(P, e, s) BY PartialProperty
<1>3. NoDollar(Empty) BY EmptyFits DEF NoDollar
<1>4. ASSUME NEW name PROVE NoDollar(find_val_with_key(e, name))
  <2>1. CASE name \in DOMAIN e
    <3>1. PICK x \in Seq(Chars) : x = e[name] BY <2>1, EnvsAssumption
    <3>2. DOMAIN x = 1 .. Len(x) BY LenProperties
    <3>3. \A k \in 1 .. Len(x) : x[k] # Dollar BY <2>1, <3>1, <3>2 DEF Dollars
    <3> QED BY <2>1, <3>1, <3>3 DEF find_val_with_key, NoDollar
  <2>2. CASE name \notin DOMAIN e BY <1>3, <2>2 DEF find_val_with_key
  <2> QED BY <2>1, <2>2
<1>5. NoDollar(P[0])
  <2>1. PICK z \in 0 .. Len(s) : z = 0 BY <1>1
  <2>2. \A m \in 1 .. Len(NameAt(s, z)) : NameAt(s, z)[m] # Dollar BY NameProperty
  <2> QED BY <1>2, <2>1, <2>2 DEF IsPartial, NoDollar
<1>6. \A n \in 0 .. Len(s) : P[n] \in Seq(Chars) BY <1>2 DEF IsPartial
<1>7. \A n \in 0 .. Len(s) - 1 : NoDollar(P[n])
  <2> DEFINE Bad == {n \in 0 .. Len(s) - 1 : ~NoDollar(P[n])}
  <2> SUFFICES ASSUME Bad # {} PROVE FALSE OBVIOUS
  <2>1. Bad \in SUBSET Nat BY <1>1
  <2>2. PICK b \in Bad : \A k \in Bad : b <= k BY <2>1, LeastExists
  <2>3. b \in 0 .. Len(s) - 1 /\ ~NoDollar(P[b]) BY <2>2
  <2>4. b # 0 BY <1>5, <2>3
  <2>5. /\ b - 1 \in 0 .. Len(s) - 1 /\ b - 1 \in 0 .. Len(s) /\ b \in 1 .. Len(s)
        /\ b # Len(s) /\ ~(b <= b - 1)
    BY <1>1, <2>3, <2>4
  <2>6. NoDollar(P[b - 1]) BY <2>2, <2>5
  <2>7. PICK x \in Seq(Chars), v \in Seq(Chars) : x = P[b - 1] /\ v = Value(e, s, b)
    BY <1>6, <2>5, ValueProperty
  <2>8. NoDollar(v)
    <3>1. v = Empty \/ v = find_val_with_key(e, NameAt(s, b)) BY <2>5, <2>7 DEF Value, ValueAt
    <3> QED BY <1>3, <1>4, <3>1
  <2>9. P[b] = x \o v BY <1>2, <2>5, <2>7 DEF IsPartial
  <2> QED BY <2>3, <2>6, <2>7, <2>8, <2>9, NoDollarJoined
<1>8. EndOnly(P[Len(s)])
  <2>1. CASE Len(s) = 0
    <3>1. PICK x \in Seq(Chars) : x = P[0] BY <1>1, <1>6
    <3>2. \A k \in 1 .. Len(x) - 1 : k \in 1 .. Len(x) BY LenProperties
    <3> QED BY <1>5, <2>1, <3>1, <3>2 DEF NoDollar, EndOnly
  <2>2. CASE Len(s) # 0
    <3>1. /\ Len(s) - 1 \in 0 .. Len(s) - 1 /\ Len(s) - 1 \in 0 .. Len(s)
          /\ Len(s) \in 1 .. Len(s)
      BY <1>1, <2>2
    <3>2. PICK x \in Seq(Chars), v \in Seq(Chars) :
            x = P[Len(s) - 1] /\ v = Value(e, s, Len(s))
      BY <1>6, <3>1, ValueProperty
    <3>3. P[Len(s)] = x \o v BY <1>2, <3>1, <3>2 DEF IsPartial
    <3>4. Len(v) <= 1
      <4>1. CASE s[Len(s)] = Dollar
        <5>1. v = <<Dollar>> BY <3>2, <4>1 DEF Value, ValueAt
        <5>2. PICK c \in Chars : c = Dollar BY CharsAssumption
        <5>3. Len(<<c>>) = 1 OBVIOUS
        <5> QED BY <5>1, <5>2, <5>3
      <4>2. CASE s[Len(s)] # Dollar
        <5>1. v = Empty BY <3>2, <4>2 DEF Value
        <5> QED BY <5>1, EmptyFits
      <4> QED BY <4>1, <4>2
    <3>5. NoDollar(x) BY <1>7, <3>1, <3>2
    <3> QED BY <3>3, <3>4, <3>5, NoDollarJoined
  <2> QED BY <2>1, <2>2
<1>9. P[Len(s)] = Expanded(e, s) /\ P[Len(s)] \in Seq(Chars) BY <1>1, <1>2, <1>6 DEF IsPartial
<1> QED BY <1>8, <1>9

LEMMA PrefixEndOnly ==
  ASSUME NEW x \in Seq(Chars), EndOnly(x), NEW n \in Nat
  PROVE  EndOnly(Prefix(x, n))
<1>1. PICK p \in Seq(Chars) :
        /\ p = Prefix(x, n) /\ Len(p) = (IF Len(x) < n THEN Len(x) ELSE n)
        /\ \A k \in 1 .. Len(p) : p[k] = x[k]
  BY PrefixProperty
<1>2. Len(p) \in Nat /\ Len(x) \in Nat BY LenProperties
<1>3. \A k \in 1 .. Len(p) - 1 : k \in 1 .. Len(p) /\ k \in 1 .. Len(x) - 1 BY <1>1, <1>2
<1> QED BY <1>1, <1>3 DEF EndOnly

(* When no value has a '$', what the second pass of echo or an assignment  *)
(* returns is what the first one has returned: only a '$' at the very end  *)
(* can be left, and it stands for itself (mysh.c:104-112, builtins.c:74,   *)
(* commands.c:268).                                                        *)
THEOREM SecondPassCorrect == Spec => []SecondPassHarmless
<1>1. IInv => SecondPassHarmless
  <2> SUFFICES ASSUME IInv, pc = "returned", pass = 2,
                      \A n \in DOMAIN env : Dollars(env[n]) = {}
               PROVE  array = Prefix(Expanded(env, token), MaxStr)
    BY DEF SecondPassHarmless
  <2>1. TypeOK BY DEF IInv
  <2>2. token \in Seq(Chars)
    <3>1. token \in Inputs \cup {Empty} BY <2>1 DEF TypeOK
    <3> QED BY <3>1, InputsAssumption, EmptyFits
  <2>3. env \in Envs /\ MaxStr \in Nat BY <2>1, StateProperty
  <2>4. PICK y \in Seq(Chars) : y = Expanded(env, token) /\ EndOnly(y)
    BY <2>2, <2>3, ExpandedEndOnly
  <2>5. PICK x \in Seq(Chars) : x = Prefix(y, MaxStr) /\ Len(x) <= MaxStr /\ EndOnly(x)
    <3>1. /\ Prefix(y, MaxStr) \in Seq(Chars)
          /\ Len(Prefix(y, MaxStr)) = IF Len(y) < MaxStr THEN Len(y) ELSE MaxStr
      BY <2>3, PrefixProperty
    <3>2. EndOnly(Prefix(y, MaxStr)) BY <2>3, <2>4, PrefixEndOnly
    <3>3. Len(y) \in Nat BY LenProperties
    <3>4. Len(Prefix(y, MaxStr)) <= MaxStr BY <2>3, <3>1, <3>3
    <3> QED BY <3>1, <3>2, <3>4
  <2>6. input = x BY <2>4, <2>5 DEF IInv, PassInv
  <2>7. Expanded(env, x) = x BY <2>3, <2>5, EndOnlyUnchanged
  <2>8. Prefix(x, MaxStr) = x BY <2>3, <2>5, PrefixProperty
  <2>9. array = Prefix(Expanded(env, input), MaxStr) BY DEF IInv, ReturnsExpansion
  <2> QED BY <2>4, <2>5, <2>6, <2>7, <2>8, <2>9
<1> QED BY <1>1, Invariant, PTL
===========================================================================
