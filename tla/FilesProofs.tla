---------------------------- MODULE FilesProofs ----------------------------
(***************************************************************************)
(* Proofs about the file system builtins, for every file system, every     *)
(* set of paths and variables and every size of the buffers.               *)
(***************************************************************************)
EXTENDS Files, SequenceTheorems, FiniteSetTheorems, WellFoundedInduction, TLAPS

---------------------------------------------------------------------------
(* Types. *)

LEMMA TypeInit == Init => TypeOK
<1> SUFFICES ASSUME Init PROVE TypeOK OBVIOUS
<1>1. tree \in Trees /\ Root \in tree.dirs BY TreesAssumption DEF Init
<1>2. free \in 0 .. MaxFree BY SizesAssumption DEF Init
<1>3. cmd \in Commands BY DEF Init, Commands
<1> QED BY <1>1, <1>2, <1>3 DEF Init, TypeOK

LEMMA TypeReturns ==
  ASSUME TypeOK, NEW name, NEW arg, NEW r \in {0, -1}, NEW o, Returns(name, arg, r, o),
         [name |-> name, arg |-> arg] \in Commands, cwd' \in tree.dirs, free' \in 0 .. MaxFree
  PROVE  TypeOK'
<1>1. tree' = tree /\ tree \in Trees BY DEF TypeOK, Returns
<1>2. cmd' \in Commands /\ ret' \in {0, -1} BY DEF Returns
<1>3. was' \in [cwd : tree.dirs, free : 0 .. MaxFree] BY DEF TypeOK, Returns
<1>4. Commands' = Commands BY DEF Commands, Idle
<1> QED BY <1>1, <1>2, <1>3, <1>4 DEF TypeOK

LEMMA TypeNext == TypeOK /\ [Next]_vars => TypeOK'
<1> SUFFICES ASSUME TypeOK, [Next]_vars PROVE TypeOK' OBVIOUS
<1>1. /\ tree \in Trees /\ cwd \in tree.dirs /\ free \in 0 .. MaxFree
      /\ cmd \in Commands /\ ret \in {0, -1} /\ was \in [cwd : tree.dirs, free : 0 .. MaxFree]
  BY DEF TypeOK
<1>2. ASSUME NEW p \in Paths, NEW name \in {"cd", "cat", "wc"}
      PROVE  [name |-> name, arg |-> p] \in Commands
  BY DEF Commands
<1>3. ASSUME NEW p \in Paths, bn_cd(p) PROVE TypeOK'
  <2> DEFINE x == Lookup(tree, cwd, cd_path(p))
  <2>1. free' \in 0 .. MaxFree BY <1>1, <1>3 DEF bn_cd
  <2>2. [name |-> "cd", arg |-> p] \in Commands BY <1>2
  <2>3. CASE x \in tree.dirs /\ cwd' = x /\ Returns("cd", p, 0, EmptyBag)
    BY <2>1, <2>2, <2>3, TypeReturns
  <2>4. CASE UNCHANGED cwd /\ Returns("cd", p, -1, EmptyBag)
    BY <1>1, <2>1, <2>2, <2>4, TypeReturns
  <2> QED BY <1>3, <2>3, <2>4 DEF bn_cd
<1>4. ASSUME NEW p \in Paths, bn_cat(p) PROVE TypeOK'
  <2>1. free' \in 0 .. MaxFree /\ cwd' \in tree.dirs BY <1>1, <1>4 DEF bn_cat
  <2>2. [name |-> "cat", arg |-> p] \in Commands BY <1>2
  <2>3. PICK r, o : r \in {0, -1} /\ Returns("cat", p, r, o) BY <1>4 DEF bn_cat
  <2> QED BY <2>1, <2>2, <2>3, TypeReturns
<1>5. ASSUME NEW p \in Paths, bn_wc(p) PROVE TypeOK'
  <2>1. cwd' \in tree.dirs BY <1>1, <1>5 DEF bn_wc
  <2>2. free' \in 0 .. MaxFree BY <1>1, <1>5, SizesAssumption DEF bn_wc, Opens
  <2>3. [name |-> "wc", arg |-> p] \in Commands BY <1>2
  <2>4. PICK r, o : r \in {0, -1} /\ Returns("wc", p, r, o) BY <1>5 DEF bn_wc
  <2> QED BY <2>1, <2>2, <2>3, <2>4, TypeReturns
<1>6. ASSUME NEW tokens \in LsArgs, bn_ls(tokens) PROVE TypeOK'
  <2>1. free' \in 0 .. MaxFree /\ cwd' \in tree.dirs BY <1>1, <1>6 DEF bn_ls
  <2>2. [name |-> "ls", arg |-> tokens] \in Commands BY DEF Commands
  <2>3. PICK r, o : r \in {0, -1} /\ Returns("ls", tokens, r, o) BY <1>6 DEF bn_ls
  <2> QED BY <2>1, <2>2, <2>3, TypeReturns
<1>7. CASE Prompt
  <2>1. tree' = tree /\ cwd' = cwd /\ free' = free /\ ret' = 0 BY <1>7 DEF Prompt
  <2>2. was' \in [cwd : tree.dirs, free : 0 .. MaxFree] BY <1>1, <1>7 DEF Prompt
  <2>3. cmd' \in Commands BY <1>7 DEF Prompt, Commands
  <2>4. Commands' = Commands BY DEF Commands, Idle
  <2> QED BY <1>1, <2>1, <2>2, <2>3, <2>4 DEF TypeOK
<1>8. CASE UNCHANGED vars
  <2>1. /\ tree' = tree /\ cwd' = cwd /\ free' = free /\ cmd' = cmd /\ ret' = ret /\ was' = was
    BY <1>8 DEF vars
  <2> QED BY <1>1, <2>1 DEF TypeOK, Commands, Idle
<1> QED BY <1>3, <1>4, <1>5, <1>6, <1>7, <1>8 DEF Next

(* Every command leaves the shell in a directory of the file system and    *)
(* with a number of free descriptors, however many files wc has left open  *)
(* (builtins.c:400, 536).                                                  *)
THEOREM TypeCorrect == Spec => []TypeOK
<1> QED BY TypeInit, TypeNext, PTL DEF Spec
---------------------------------------------------------------------------
(* Induction: no counterexample is the least one. *)

LEMMA LeastExists ==
  ASSUME NEW S \in SUBSET Nat, S # {}
  PROVE  \E x \in S : \A y \in S : x <= y
<1>1. PICK x \in S : \A y \in S : ~(<<y, x>> \in OpToRel(<, Nat))
  BY WFMin, NatLessThanWellFounded
<1>2. \A y \in S : y < x => <<y, x>> \in {ss \in Nat \X Nat : ss[1] < ss[2]}
  OBVIOUS
<1>3. \A y \in S : ~(y < x) BY <1>1, <1>2, Zenon DEF OpToRel
<1> QED BY <1>3

LEMMA MinProperty ==
  ASSUME NEW S \in SUBSET Nat, S # {}
  PROVE  Min(S) \in S /\ \A y \in S : Min(S) <= y
<1>1. \E x \in S : \A y \in S : x <= y BY LeastExists
<1> QED BY <1>1 DEF Min

(* f is what n turns of a loop lead to, one after the other, from x. *)
Turns(f, x, step, n) == f[0] = x /\ \A k \in 1 .. n : f[k] = step[<<k, f[k - 1]>>]

LEMMA LoopRuns ==
  ASSUME NEW X, NEW x \in X, NEW n \in Nat, NEW step \in [(1 .. n) \X X -> X]
  PROVE  \E f \in [0 .. n -> X] : Turns(f, x, step, n)
<1> DEFINE Bad == {m \in 0 .. n : ~ \E f \in [0 .. m -> X] : Turns(f, x, step, m)}
<1> SUFFICES ASSUME Bad # {} PROVE FALSE OBVIOUS
<1>1. Bad \in SUBSET Nat OBVIOUS
<1>2. PICK m \in Bad : \A k \in Bad : m <= k BY <1>1, LeastExists
<1>3. m \in 0 .. n /\ ~ \E f \in [0 .. m -> X] : Turns(f, x, step, m) BY <1>2
<1>4. CASE m = 0
  <2> DEFINE g == [k \in 0 .. m |-> x]
  <2>1. g \in [0 .. m -> X] /\ g[0] = x BY <1>4
  <2>2. Turns(g, x, step, m) BY <1>4, <2>1 DEF Turns
  <2> QED BY <1>3, <2>1, <2>2
<1>5. CASE m # 0
  <2>1. m \in 1 .. n /\ m - 1 \in 0 .. n /\ ~(m <= m - 1) BY <1>3, <1>5
  <2>2. m - 1 \notin Bad
    <3> HIDE DEF Bad
    <3> QED BY <1>2, <2>1
  <2>3. PICK f \in [0 .. m - 1 -> X] : Turns(f, x, step, m - 1) BY <2>1, <2>2
  <2>4. f[m - 1] \in X BY <2>1, <2>3
  <2>5. <<m, f[m - 1]>> \in (1 .. n) \X X BY <2>1, <2>4
  <2>6. PICK last \in X : last = step[<<m, f[m - 1]>>] BY <2>5
  <2> DEFINE g == [k \in 0 .. m |-> IF k = m THEN last ELSE f[k]]
  <2>7. g \in [0 .. m -> X]
    <3>1. \A k \in 0 .. m : k # m => k \in 0 .. m - 1 BY <2>1
    <3> QED BY <2>3, <3>1
  <2>8. /\ g[m] = last /\ \A k \in 0 .. m - 1 : g[k] = f[k]
    BY <2>1
  <2> HIDE DEF g
  <2>9. g[0] = x BY <2>1, <2>3, <2>8 DEF Turns
  <2>10. ASSUME NEW k \in 1 .. m PROVE g[k] = step[<<k, g[k - 1]>>]
    <3>1. k - 1 \in 0 .. m - 1 /\ g[k - 1] = f[k - 1] BY <2>1, <2>8
    <3>2. CASE k = m BY <2>6, <2>8, <3>1, <3>2
    <3>3. CASE k # m
      <4>1. k \in 1 .. m - 1 /\ k \in 0 .. m - 1 BY <2>1, <3>3
      <4> QED BY <2>3, <2>8, <3>1, <4>1 DEF Turns
    <3> QED BY <3>2, <3>3
  <2>11. Turns(g, x, step, m) BY <2>9, <2>10 DEF Turns
  <2> QED BY <1>3, <2>7, <2>11
<1> QED BY <1>4, <1>5

---------------------------------------------------------------------------
(* The way a path goes. *)

Reach(t, x) == Nodes(t) \cup {NoNode, x}

LEMMA TreeFacts ==
  ASSUME NEW t \in Trees
  PROVE  /\ Root \in t.dirs /\ NoNode \notin t.dirs
         /\ \A x \in t.dirs : x \in Seq(STRING) /\ (x # Root => Front(x) \in t.dirs)
BY TreesAssumption DEF Nodes

LEMMA ComponentReach ==
  ASSUME NEW t \in Trees, NEW x, NEW y, NEW c
  PROVE  Component(t, y, c) \in Reach(t, x)
BY TreeFacts DEF Component, Reach, Nodes

Walks(w, t, x, s) == w[0] = x /\ \A k \in 1 .. Len(s) : w[k] = Component(t, w[k - 1], s[k])

LEMMA WalkProperty ==
  ASSUME NEW t \in Trees, NEW x, NEW C, NEW s \in Seq(C)
  PROVE  \E w \in [0 .. Len(s) -> Reach(t, x)] : Walks(w, t, x, s) /\ Walk(t, x, s) = w[Len(s)]
<1> DEFINE n == Len(s)
           X == Reach(t, x)
           Body(w) == [k \in 0 .. n |-> IF k = 0 THEN x ELSE Component(t, w[k - 1], s[k])]
           W == CHOOSE w : w = Body(w)
           step == [ky \in (1 .. n) \X X |-> Component(t, ky[2], s[ky[1]])]
<1>1. n \in Nat BY LenProperties
<1>2. x \in X BY DEF Reach
<1>3. step \in [(1 .. n) \X X -> X] BY ComponentReach
<1>4. \A k \in 1 .. n, y \in X : step[<<k, y>>] = Component(t, y, s[k]) OBVIOUS
<1>5. PICK f \in [0 .. n -> X] : Turns(f, x, step, n)
  <2> HIDE DEF n, X, step
  <2> QED BY <1>1, <1>2, <1>3, LoopRuns
<1>6. f = Body(f)
  <2>1. ASSUME NEW k \in 0 .. n PROVE f[k] = Body(f)[k]
    <3>1. Body(f)[k] = IF k = 0 THEN x ELSE Component(t, f[k - 1], s[k]) OBVIOUS
    <3>2. CASE k = 0
      <4> HIDE DEF Body
      <4> QED BY <1>5, <3>1, <3>2 DEF Turns
    <3>3. CASE k # 0
      <4>1. k \in 1 .. n /\ k - 1 \in 0 .. n BY <1>1, <3>3
      <4>2. f[k - 1] \in X BY <4>1
      <4>3. f[k] = step[<<k, f[k - 1]>>] BY <1>5, <4>1 DEF Turns
      <4> HIDE DEF Body, step
      <4> QED BY <1>4, <3>1, <3>3, <4>1, <4>2, <4>3
    <3> QED BY <3>2, <3>3
  <2>2. DOMAIN Body(f) = 0 .. n /\ DOMAIN f = 0 .. n OBVIOUS
  <2> QED BY <2>1, <2>2
<1>7. W = Body(W)
  <2> HIDE DEF Body
  <2> QED BY <1>6, Zenon
<1>8. Walk(t, x, s) = W[n] BY DEF Walk
<1> HIDE DEF W
<1>9. /\ DOMAIN W = 0 .. n
      /\ \A k \in 0 .. n : W[k] = IF k = 0 THEN x ELSE Component(t, W[k - 1], s[k])
  BY <1>7
<1>10. W \in [0 .. n -> X]
  <2>1. \A k \in 0 .. n : W[k] \in X BY <1>2, <1>9, ComponentReach
  <2>2. W = [k \in 0 .. n |-> W[k]] BY <1>7
  <2> QED BY <2>1, <2>2
<1>11. Walks(W, t, x, s) BY <1>1, <1>9 DEF Walks
<1> QED BY <1>8, <1>10, <1>11
(* From place i on, w goes the way of the texts c from x. *)
Follows(w, i, t, x, c) ==
  w[i] = x /\ \A k \in 1 .. Len(c) : w[i + k] = Component(t, w[i + k - 1], c[k])

Meets(w, i, v, c) == w[i + Len(c)] = v[Len(c)]

LEMMA WalksAgree ==
  ASSUME NEW t, NEW C, NEW c \in Seq(C), NEW w, NEW i \in Nat, NEW x,
         Follows(w, i, t, x, c), NEW v, Walks(v, t, x, c)
  PROVE  Meets(w, i, v, c)
<1> DEFINE m == Len(c)
<1>0. m \in Nat BY LenProperties
<1> DEFINE Bad == {k \in 0 .. m : w[i + k] # v[k]}
<1> SUFFICES ASSUME Bad # {} PROVE FALSE BY <1>0 DEF Meets
<1>1. Bad \in SUBSET Nat BY <1>0
<1>2. PICK b \in Bad : \A k \in Bad : b <= k BY <1>1, LeastExists
<1>3. b \in 0 .. m /\ w[i + b] # v[b] BY <1>2
<1>4. b # 0 BY <1>3 DEF Walks, Follows
<1>5. b \in 1 .. m /\ b - 1 \in 0 .. m /\ ~(b <= b - 1) /\ i + (b - 1) = i + b - 1
  BY <1>0, <1>3, <1>4
<1>6. b - 1 \notin Bad
  <2> HIDE DEF Bad
  <2> QED BY <1>2, <1>5
<1>7. w[i + b - 1] = v[b - 1] BY <1>5, <1>6
<1> QED BY <1>3, <1>5, <1>7 DEF Walks, Follows

(* A path of two parts is walked one after the other. *)
LEMMA WalkConcat ==
  ASSUME NEW t \in Trees, NEW x, NEW C, NEW a \in Seq(C), NEW b \in Seq(C)
  PROVE  Walk(t, x, a \o b) = Walk(t, Walk(t, x, a), b)
<1>1. /\ Len(a) \in Nat /\ Len(b) \in Nat /\ a \o b \in Seq(C) /\ Len(a \o b) = Len(a) + Len(b)
      /\ \A k \in 1 .. Len(a) + Len(b) : (a \o b)[k] = IF k <= Len(a) THEN a[k] ELSE b[k - Len(a)]
  BY LenProperties, ConcatProperties
<1>2. PICK s \in Seq(C) : s = a \o b BY <1>1
<1>3. PICK y : y = Walk(t, x, a) OBVIOUS
<1>4. PICK w : Walks(w, t, x, s) /\ Walk(t, x, s) = w[Len(s)] BY WalkProperty
<1>5. PICK u : Walks(u, t, x, a) /\ Walk(t, x, a) = u[Len(a)] BY WalkProperty
<1>6. PICK v : Walks(v, t, y, b) /\ Walk(t, y, b) = v[Len(b)] BY WalkProperty
<1>7. w[Len(a)] = u[Len(a)]
  <2>1. PICK z \in Nat : z = 0 OBVIOUS
  <2>2. w[z] = x BY <1>4, <2>1 DEF Walks
  <2>3. ASSUME NEW k \in 1 .. Len(a) PROVE w[z + k] = Component(t, w[z + k - 1], a[k])
    <3>1. k \in 1 .. Len(s) /\ s[k] = a[k] /\ z + k = k /\ z + k - 1 = k - 1 BY <1>1, <1>2, <2>1
    <3> QED BY <1>4, <3>1 DEF Walks
  <2>4. Follows(w, z, t, x, a) BY <2>2, <2>3 DEF Follows
  <2>5. Meets(w, z, u, a) BY <1>5, <2>4, WalksAgree
  <2> QED BY <1>1, <2>1, <2>5 DEF Meets
<1>8. w[Len(a) + Len(b)] = v[Len(b)]
  <2>1. w[Len(a)] = y BY <1>3, <1>5, <1>7
  <2>2. ASSUME NEW k \in 1 .. Len(b) PROVE w[Len(a) + k] = Component(t, w[Len(a) + k - 1], b[k])
    <3>1. Len(a) + k \in 1 .. Len(a) + Len(b) /\ ~(Len(a) + k <= Len(a)) /\ Len(a) + k - Len(a) = k
      BY <1>1
    <3>2. Len(a) + k \in 1 .. Len(s) /\ s[Len(a) + k] = b[k] BY <1>1, <1>2, <3>1
    <3> QED BY <1>4, <3>2 DEF Walks
  <2>3. PICK i \in Nat : i = Len(a) BY <1>1
  <2>4. Follows(w, i, t, y, b) BY <2>1, <2>2, <2>3 DEF Follows
  <2>5. Meets(w, i, v, b) BY <1>6, <2>4, WalksAgree
  <2> QED BY <2>3, <2>5 DEF Meets
<1> QED BY <1>1, <1>2, <1>3, <1>4, <1>6, <1>8

LEMMA WalkShort ==
  ASSUME NEW t \in Trees, NEW x, NEW c
  PROVE  /\ Walk(t, x, <<>>) = x
         /\ Walk(t, x, <<c>>) = Component(t, x, c)
<1>1. PICK e \in Seq({c}) : e = <<>>
  <2>1. <<>> \in Seq({c}) OBVIOUS
  <2> QED BY <2>1
<1>2. PICK o \in Seq({c}) : o = <<c>>
  <2>1. <<c>> \in Seq({c}) OBVIOUS
  <2> QED BY <2>1
<1>3. Len(e) = 0 BY <1>1
<1>4. Len(o) = 1 /\ o[1] = c BY <1>2
<1>5. PICK w : Walks(w, t, x, e) /\ Walk(t, x, e) = w[Len(e)] BY WalkProperty
<1>6. PICK v : Walks(v, t, x, o) /\ Walk(t, x, o) = v[Len(o)] BY WalkProperty
<1>7. w[0] = x /\ v[0] = x BY <1>5, <1>6 DEF Walks
<1>8. v[1] = Component(t, v[1 - 1], o[1])
  <2>1. 1 \in 1 .. Len(o) BY <1>4
  <2> QED BY <1>6, <2>1 DEF Walks
<1> QED BY <1>1, <1>2, <1>3, <1>4, <1>5, <1>6, <1>7, <1>8

(* Where a path fails does not matter. *)
Same(t, x, y) == x = y \/ (x \notin t.dirs /\ y \notin t.dirs)

LEMMA ComponentSame ==
  ASSUME NEW t \in Trees, NEW x, NEW y, Same(t, x, y), NEW c
  PROVE  Same(t, Component(t, x, c), Component(t, y, c))
BY DEF Same, Component

LEMMA WalkSame ==
  ASSUME NEW t \in Trees, NEW x, NEW y, Same(t, x, y), NEW C, NEW s \in Seq(C)
  PROVE  Same(t, Walk(t, x, s), Walk(t, y, s))
<1>1. Len(s) \in Nat BY LenProperties
<1>2. PICK w : Walks(w, t, x, s) /\ Walk(t, x, s) = w[Len(s)] BY WalkProperty
<1>3. PICK v : Walks(v, t, y, s) /\ Walk(t, y, s) = v[Len(s)] BY WalkProperty
<1> DEFINE Bad == {k \in 0 .. Len(s) : ~Same(t, w[k], v[k])}
<1>4. Bad = {}
  <2> SUFFICES ASSUME Bad # {} PROVE FALSE OBVIOUS
  <2>1. Bad \in SUBSET Nat BY <1>1
  <2>2. PICK b \in Bad : \A k \in Bad : b <= k BY <2>1, LeastExists
  <2>3. b \in 0 .. Len(s) /\ ~Same(t, w[b], v[b]) BY <2>2
  <2>4. b # 0 BY <1>2, <1>3, <2>3 DEF Walks
  <2>5. b \in 1 .. Len(s) /\ b - 1 \in 0 .. Len(s) /\ ~(b <= b - 1) BY <1>1, <2>3, <2>4
  <2>6. b - 1 \notin Bad
    <3> HIDE DEF Bad
    <3> QED BY <2>2, <2>5
  <2>7. Same(t, w[b - 1], v[b - 1]) BY <2>5, <2>6
  <2>8. Same(t, Component(t, w[b - 1], s[b]), Component(t, v[b - 1], s[b])) BY <2>7, ComponentSame
  <2>9. w[b] = Component(t, w[b - 1], s[b]) /\ v[b] = Component(t, v[b - 1], s[b])
    BY <1>2, <1>3, <2>5 DEF Walks
  <2> QED BY <2>3, <2>8, <2>9
<1>5. Same(t, w[Len(s)], v[Len(s)]) BY <1>1, <1>4
<1> QED BY <1>2, <1>3, <1>5
LEMMA SameTransitive ==
  ASSUME NEW t, NEW x, NEW y, NEW z, Same(t, x, y), Same(t, y, z)
  PROVE  Same(t, x, z) /\ Same(t, z, x)
BY DEF Same

---------------------------------------------------------------------------
(* "..." and "....". *)

LEMMA UpFurther ==
  ASSUME NEW S, NEW x \in Seq(S), NEW n \in Nat
  PROVE  Up(x, n) \in Seq(S) /\ Up(Up(x, n), 1) = Up(x, n + 1)
<1>1. Len(x) \in Nat BY LenProperties
<1>2. CASE n > Len(x)
  <2>1. Up(x, n) = <<>> /\ Up(x, n + 1) = <<>> BY <1>1, <1>2 DEF Up, Root
  <2>2. Up(<<>>, 1) = <<>> BY DEF Up, Root
  <2> QED BY <2>1, <2>2
<1>3. CASE n <= Len(x)
  <2>1. PICK y \in Seq(S) : y = SubSeq(x, 1, Len(x) - n)
    <3>1. SubSeq(x, 1, Len(x) - n) \in Seq(S) BY <1>1, <1>3
    <3> QED BY <3>1
  <2>2. Up(x, n) = y BY <1>1, <1>3, <2>1 DEF Up
  <2>3. Len(y) = Len(x) - n /\ \A k \in 1 .. Len(x) - n : y[k] = x[k] BY <1>1, <1>3, <2>1
  <2>4. CASE n = Len(x)
    <3>1. Up(y, 1) = <<>> BY <1>1, <2>3, <2>4 DEF Up, Root
    <3>2. Up(x, n + 1) = <<>> BY <1>1, <2>4 DEF Up, Root
    <3> QED BY <2>2, <3>1, <3>2
  <2>5. CASE n < Len(x)
    <3>1. Up(y, 1) = SubSeq(y, 1, Len(x) - n - 1) BY <1>1, <2>3, <2>5 DEF Up
    <3>2. Up(x, n + 1) = SubSeq(x, 1, Len(x) - n - 1) BY <1>1, <2>5 DEF Up
    <3>3. SubSeq(y, 1, Len(x) - n - 1) = SubSeq(x, 1, Len(x) - n - 1)
      BY <1>1, <2>3, <2>5
    <3> QED BY <2>2, <3>1, <3>2, <3>3
  <2> QED BY <1>1, <1>3, <2>2, <2>4, <2>5
<1> QED BY <1>1, <1>2, <1>3

LEMMA DotsAreText == NoText # ".."
BY Zenon DEF NoText

LEMMA UpOne ==
  ASSUME NEW t \in Trees, NEW x \in t.dirs
  PROVE  Component(t, x, "..") = Up(x, 1) /\ Up(x, 1) \in t.dirs
<1>1. x \in Seq(STRING) /\ Root \in t.dirs /\ (x # Root => Front(x) \in t.dirs) BY TreeFacts
<1>2. Component(t, x, "..") = IF x = Root THEN Root ELSE Front(x)
  BY DotsAreText DEF Component
<1>3. Up(x, 1) = IF x = Root THEN Root ELSE Front(x)
  <2>1. CASE x = Root BY <2>1 DEF Up, Root
  <2>2. CASE x # Root
    <3>1. Len(x) \in Nat /\ Len(x) # 0 BY <1>1, <2>2, LenProperties, EmptySeq DEF Root
    <3> QED BY <2>2, <3>1 DEF Up, Front
  <2> QED BY <2>1, <2>2
<1> QED BY <1>1, <1>2, <1>3

LEMMA WalkUp ==
  ASSUME NEW t \in Trees, NEW x
  PROVE  /\ x \in t.dirs => Walk(t, x, <<"..", "..">>) = Up(x, 2)
         /\ x \in t.dirs => Walk(t, x, <<"..", "..", "..">>) = Up(x, 3)
         /\ x \notin t.dirs => /\ Walk(t, x, <<"..", "..">>) \notin t.dirs
                               /\ Walk(t, x, <<"..", "..", "..">>) \notin t.dirs
<1> DEFINE C == {".."}
<1>1. PICK one \in Seq(C), two \in Seq(C) : one = <<"..">> /\ two = <<"..", "..">>
  <2>1. <<"..">> \in Seq(C) /\ <<"..", "..">> \in Seq(C) OBVIOUS
  <2> QED BY <2>1
<1>2. <<"..", "..">> = one \o one /\ <<"..", "..", "..">> = two \o one BY <1>1
<1>3. \A y : Walk(t, y, one) = Component(t, y, "..") BY <1>1, WalkShort
<1>4. Walk(t, x, two) = Component(t, Component(t, x, ".."), "..")
  <2>1. Walk(t, x, one \o one) = Walk(t, Walk(t, x, one), one) BY WalkConcat
  <2> QED BY <1>1, <1>2, <1>3, <2>1
<1>5. Walk(t, x, two \o one) = Component(t, Component(t, Component(t, x, ".."), ".."), "..")
  <2>1. Walk(t, x, two \o one) = Walk(t, Walk(t, x, two), one) BY WalkConcat
  <2> QED BY <1>3, <1>4, <2>1
<1>6. ASSUME x \in t.dirs
      PROVE  Walk(t, x, two) = Up(x, 2) /\ Walk(t, x, two \o one) = Up(x, 3)
  <2>1. x \in Seq(STRING) BY <1>6, TreeFacts
  <2>2. Component(t, x, "..") = Up(x, 1) /\ Up(x, 1) \in t.dirs BY <1>6, UpOne
  <2>3. Component(t, Up(x, 1), "..") = Up(Up(x, 1), 1) /\ Up(Up(x, 1), 1) \in t.dirs BY <2>2, UpOne
  <2>4. Up(Up(x, 1), 1) = Up(x, 2)
    <3>1. PICK n \in Nat : n = 1 OBVIOUS
    <3>2. Up(Up(x, n), 1) = Up(x, n + 1) BY <2>1, UpFurther
    <3> QED BY <3>1, <3>2
  <2>5. Component(t, Up(x, 2), "..") = Up(Up(x, 2), 1) BY <2>3, <2>4, UpOne
  <2>6. Up(Up(x, 2), 1) = Up(x, 3)
    <3>1. PICK n \in Nat : n = 2 OBVIOUS
    <3>2. Up(Up(x, n), 1) = Up(x, n + 1) BY <2>1, UpFurther
    <3> QED BY <3>1, <3>2
  <2> QED BY <1>4, <1>5, <2>2, <2>3, <2>4, <2>5, <2>6
<1>7. ASSUME x \notin t.dirs
      PROVE  Walk(t, x, two) \notin t.dirs /\ Walk(t, x, two \o one) \notin t.dirs
  <2>1. NoNode \notin t.dirs BY TreeFacts
  <2>2. \A y : y \notin t.dirs => Component(t, y, "..") = NoNode BY DEF Component
  <2> QED BY <1>4, <1>5, <1>7, <2>1, <2>2
<1> QED BY <1>1, <1>2, <1>6, <1>7

(* The texts of a path, with those of the dots. *)
Texts == STRING \cup {".."}

LEMMA SingleText ==
  ASSUME NEW S, NEW c \in S
  PROVE  <<c>> \in Seq(S)
OBVIOUS

LEMMA PieceProperty ==
  ASSUME NEW c \in STRING
  PROVE  /\ Piece(c) \in Path
         /\ Dots(Piece(c)).parts \in Seq(Texts) /\ Piece(c).parts \in Seq(Texts)
<1>1. Piece(c) \in Path
  <2>1. CASE IsVar(c) BY <2>1, PathsAssumption DEF Piece, IsVar
  <2>2. CASE ~IsVar(c)
    <3>1. <<c>> \in Seq(STRING) BY SingleText
    <3> QED BY <2>2, <3>1 DEF Piece, Path, Rel
  <2> QED BY <2>1, <2>2
<1>2. PICK p \in Path : p = Piece(c) BY <1>1
<1>3. p.parts \in Seq(STRING) BY DEF Path
<1>4. p.parts \in Seq(Texts)
  <2>1. PICK s \in Seq(STRING) : s = p.parts BY <1>3
  <2>2. s \in Seq(Texts) BY DEF Texts
  <2> QED BY <2>1, <2>2
<1>5. <<"..", "..">> \in Seq(Texts) /\ <<"..", "..", "..">> \in Seq(Texts) BY DEF Texts
<1> QED BY <1>1, <1>2, <1>4, <1>5 DEF Dots, Rel

LEMMA LeadsProperty ==
  ASSUME NEW t \in Trees, NEW x, NEW c \in STRING
  PROVE  Same(t, Walk(t, x, Dots(Piece(c)).parts), Leads(t, x, c))
<1>1. NoNode \notin t.dirs BY TreeFacts
<1>2. x \notin t.dirs => \A d : Walk(t, x, <<d>>) = NoNode BY WalkShort DEF Component
<1>3. Rel(<<"...">>) # Rel(<<"....">>) /\ \A s : Rel(s).parts = s BY DEF Rel
<1>4. CASE Piece(c) = Rel(<<"...">>)
  <2>1. Dots(Piece(c)).parts = <<"..", "..">> BY <1>3, <1>4 DEF Dots
  <2>2. CASE x \in t.dirs
    <3>1. Leads(t, x, c) = Up(x, 2) BY <1>3, <1>4, <2>2 DEF Leads
    <3> QED BY <2>1, <2>2, <3>1, WalkUp DEF Same
  <2>3. CASE x \notin t.dirs
    <3>1. Leads(t, x, c) = Walk(t, x, <<"...">>) BY <1>3, <1>4, <2>3 DEF Leads
    <3>2. Walk(t, x, <<"..", "..">>) \notin t.dirs BY <2>3, WalkUp
    <3> QED BY <1>1, <1>2, <2>1, <2>3, <3>1, <3>2 DEF Same
  <2> QED BY <2>2, <2>3
<1>5. CASE Piece(c) = Rel(<<"....">>)
  <2>1. Dots(Piece(c)).parts = <<"..", "..", "..">> BY <1>3, <1>5 DEF Dots
  <2>2. CASE x \in t.dirs
    <3>1. Leads(t, x, c) = Up(x, 3) BY <1>3, <1>5, <2>2 DEF Leads
    <3> QED BY <2>1, <2>2, <3>1, WalkUp DEF Same
  <2>3. CASE x \notin t.dirs
    <3>1. Leads(t, x, c) = Walk(t, x, <<"....">>) BY <1>3, <1>5, <2>3 DEF Leads
    <3>2. Walk(t, x, <<"..", "..", "..">>) \notin t.dirs BY <2>3, WalkUp
    <3> QED BY <1>1, <1>2, <2>1, <2>3, <3>1, <3>2 DEF Same
  <2> QED BY <2>2, <2>3
<1>6. CASE Piece(c) # Rel(<<"...">>) /\ Piece(c) # Rel(<<"....">>)
  <2>1. Dots(Piece(c)) = Piece(c) BY <1>6 DEF Dots
  <2>2. Leads(t, x, c) = Walk(t, x, Piece(c).parts) BY <1>6 DEF Leads
  <2> QED BY <2>1, <2>2 DEF Same
<1> QED BY <1>4, <1>5, <1>6

LEMMA LeadsSame ==
  ASSUME NEW t \in Trees, NEW x, NEW y, Same(t, x, y), NEW c \in STRING
  PROVE  Same(t, Walk(t, x, Dots(Piece(c)).parts), Leads(t, y, c))
<1>1. PICK s \in Seq(Texts) : s = Dots(Piece(c)).parts BY PieceProperty
<1>2. Same(t, Walk(t, x, s), Walk(t, y, s)) BY WalkSame
<1>3. Same(t, Walk(t, y, s), Leads(t, y, c)) BY <1>1, LeadsProperty
<1> QED BY <1>1, <1>2, <1>3, SameTransitive
---------------------------------------------------------------------------
(* A path put together from pieces. *)

Unfolds(q, f, n) == f[1] = q[1] /\ \A k \in 2 .. n : f[k] = f[k - 1] \o q[k]

(* No counterexample is the least one, so the recursion has a solution. *)
LEMMA UnfoldingExists ==
  ASSUME NEW S, NEW q \in Seq(Seq(S)), NEW n \in 1 .. Len(q)
  PROVE  \E f \in [1 .. n -> Seq(S)] : Unfolds(q, f, n)
<1> DEFINE Bad == {m \in 1 .. Len(q) : ~ \E f \in [1 .. m -> Seq(S)] : Unfolds(q, f, m)}
<1>1. Len(q) \in Nat /\ \A k \in 1 .. Len(q) : q[k] \in Seq(S) BY LenProperties, ElementOfSeq
<1> SUFFICES ASSUME Bad # {} PROVE FALSE OBVIOUS
<1>2. Bad \in SUBSET Nat BY <1>1
<1>3. PICK m \in Bad : \A k \in Bad : m <= k BY <1>2, LeastExists
<1>4. m \in 1 .. Len(q) /\ ~ \E f \in [1 .. m -> Seq(S)] : Unfolds(q, f, m) BY <1>3
<1>5. CASE m = 1
  <2> DEFINE g == [k \in 1 .. m |-> q[1]]
  <2>1. g \in [1 .. m -> Seq(S)] BY <1>1, <1>4
  <2>2. Unfolds(q, g, m) BY <1>5 DEF Unfolds
  <2> QED BY <1>4, <2>1, <2>2
<1>6. CASE m # 1
  <2>1. m - 1 \in 1 .. Len(q) /\ m - 1 \notin Bad
    <3>1. m \in Nat /\ m > 1 /\ m - 1 \in 1 .. Len(q) /\ ~(m <= m - 1) BY <1>1, <1>4, <1>6
    <3> HIDE DEF Bad
    <3> QED BY <1>3, <3>1
  <2>2. PICK f \in [1 .. m - 1 -> Seq(S)] : Unfolds(q, f, m - 1) BY <2>1
  <2>3. PICK last \in Seq(S) : last = f[m - 1] \o q[m]
    <3>1. f[m - 1] \in Seq(S) /\ q[m] \in Seq(S) BY <1>1, <1>4, <2>1
    <3>2. f[m - 1] \o q[m] \in Seq(S) BY <3>1, ConcatProperties
    <3> QED BY <3>2
  <2> DEFINE g == [k \in 1 .. m |-> IF k = m THEN last ELSE f[k]]
  <2>4. g \in [1 .. m -> Seq(S)] BY <1>1, <1>4
  <2>5. Unfolds(q, g, m)
    <3>1. g[1] = q[1]
      <4>1. 1 \in 1 .. m /\ 1 # m BY <1>1, <1>4, <1>6
      <4>2. g[1] = f[1] BY <4>1
      <4> HIDE DEF g
      <4> QED BY <2>2, <4>2 DEF Unfolds
    <3>2. ASSUME NEW k \in 2 .. m PROVE g[k] = g[k - 1] \o q[k]
      <4>1. g[k - 1] = f[k - 1] BY <1>1, <1>4
      <4>2. CASE k = m
        <5>1. g[k] = last BY <1>1, <1>4, <4>2
        <5> HIDE DEF g
        <5> QED BY <2>3, <4>1, <4>2, <5>1
      <4>3. CASE k # m
        <5>1. k \in 2 .. m - 1 /\ g[k] = f[k] BY <1>1, <1>4, <4>3
        <5> QED BY <2>2, <4>1, <5>1 DEF Unfolds
      <4> QED BY <4>2, <4>3
    <3> QED BY <3>1, <3>2 DEF Unfolds
  <2> QED BY <1>4, <2>4, <2>5
<1> QED BY <1>5, <1>6

LEMMA FlattenProperty ==
  ASSUME NEW S, NEW q \in Seq(Seq(S)), Len(q) # 0
  PROVE  \E f \in [1 .. Len(q) -> Seq(S)] : Unfolds(q, f, Len(q)) /\ FlattenSeq(q) = f[Len(q)]
<1>1. Len(q) \in Nat /\ Len(q) \in 1 .. Len(q) BY LenProperties
<1> DEFINE Body(f) == [k \in 1 .. Len(q) |-> IF k = 1 THEN q[k] ELSE f[k - 1] \o q[k]]
           F == CHOOSE f : f = Body(f)
<1>2. PICK f \in [1 .. Len(q) -> Seq(S)] : Unfolds(q, f, Len(q)) BY <1>1, UnfoldingExists
<1>3. f = Body(f)
  <2>1. ASSUME NEW k \in 1 .. Len(q) PROVE f[k] = Body(f)[k]
    <3>1. Body(f)[k] = IF k = 1 THEN q[k] ELSE f[k - 1] \o q[k] OBVIOUS
    <3>2. k # 1 => k \in 2 .. Len(q) BY <1>1
    <3> HIDE DEF Body
    <3> QED BY <1>2, <3>1, <3>2 DEF Unfolds
  <2>2. DOMAIN Body(f) = 1 .. Len(q) /\ DOMAIN f = 1 .. Len(q) OBVIOUS
  <2> QED BY <2>1, <2>2
<1>4. F = Body(F)
  <2> HIDE DEF Body
  <2> QED BY <1>3, Zenon
<1>5. FlattenSeq(q) = F[Len(q)] BY DEF FlattenSeq
<1> HIDE DEF F
<1>6. \A k \in 1 .. Len(q) : F[k] = IF k = 1 THEN q[k] ELSE F[k - 1] \o q[k]
  BY <1>4
<1> DEFINE Differ == {k \in 1 .. Len(q) : F[k] # f[k]}
<1>7. Differ = {}
  <2> SUFFICES ASSUME Differ # {} PROVE FALSE OBVIOUS
  <2>1. Differ \in SUBSET Nat BY <1>1
  <2>2. PICK m \in Differ : \A k \in Differ : m <= k BY <2>1, LeastExists
  <2>3. m \in 1 .. Len(q) /\ F[m] # f[m] BY <2>2
  <2>4. CASE m = 1 BY <1>2, <1>6, <2>3, <2>4 DEF Unfolds
  <2>5. CASE m # 1
    <3>1. m \in 2 .. Len(q) /\ m - 1 \in 1 .. Len(q) /\ ~(m <= m - 1) BY <1>1, <2>3, <2>5
    <3>2. F[m - 1] = f[m - 1] BY <2>2, <3>1
    <3>3. F[m] = F[m - 1] \o q[m] BY <1>6, <2>3, <2>5
    <3>4. f[m] = f[m - 1] \o q[m] BY <1>2, <3>1 DEF Unfolds
    <3> QED BY <2>3, <3>2, <3>3, <3>4
  <2> QED BY <2>4, <2>5
<1>8. F[Len(q)] = f[Len(q)] BY <1>1, <1>7
<1> QED BY <1>2, <1>5, <1>8

LEMMA UpDirs ==
  ASSUME NEW t \in Trees, NEW x \in t.dirs
  PROVE  Up(x, 2) \in t.dirs /\ Up(x, 3) \in t.dirs
<1>1. x \in Seq(STRING) BY TreeFacts
<1>2. Up(x, 1) \in t.dirs BY UpOne
<1>3. ASSUME NEW n \in Nat, Up(x, n) \in t.dirs PROVE Up(x, n + 1) \in t.dirs
  <2>1. Up(Up(x, n), 1) \in t.dirs BY <1>3, UpOne
  <2>2. Up(Up(x, n), 1) = Up(x, n + 1) BY <1>1, UpFurther
  <2> QED BY <2>1, <2>2
<1>4. Up(x, 1 + 1) \in t.dirs BY <1>2, <1>3
<1>5. Up(x, 2) \in t.dirs BY <1>4
<1>6. Up(x, 2 + 1) \in t.dirs BY <1>3, <1>5
<1> QED BY <1>5, <1>6

LEMMA LeadsReach ==
  ASSUME NEW t \in Trees, NEW x, NEW y \in Reach(t, x), NEW c \in STRING
  PROVE  Leads(t, y, c) \in Reach(t, x)
<1>1. y \in t.dirs => Up(y, 2) \in t.dirs /\ Up(y, 3) \in t.dirs BY UpDirs
<1>2. PICK s \in Seq(Texts) : s = Piece(c).parts BY PieceProperty
<1>3. PICK w \in [0 .. Len(s) -> Reach(t, y)] : Walk(t, y, s) = w[Len(s)] BY WalkProperty
<1>4. Len(s) \in 0 .. Len(s) BY LenProperties
<1>5. Walk(t, y, s) \in Reach(t, y) BY <1>3, <1>4
<1>6. Reach(t, y) \subseteq Reach(t, x) BY DEF Reach
<1>7. t.dirs \subseteq Reach(t, x) BY DEF Reach, Nodes
<1> QED BY <1>1, <1>2, <1>5, <1>6, <1>7 DEF Leads

Travels(j, t, x, s) == j[0] = x /\ \A k \in 1 .. Len(s) : j[k] = Leads(t, j[k - 1], s[k])

LEMMA JourneyProperty ==
  ASSUME NEW t \in Trees, NEW x, NEW s \in Seq(STRING)
  PROVE  \E j : Travels(j, t, x, s) /\ Journey(t, x, s) = j[Len(s)]
<1> DEFINE n == Len(s)
           X == Reach(t, x)
           Body(j) == [k \in 0 .. n |-> IF k = 0 THEN x ELSE Leads(t, j[k - 1], s[k])]
           J == CHOOSE j : j = Body(j)
           step == [ky \in (1 .. n) \X X |-> Leads(t, ky[2], s[ky[1]])]
<1>1. n \in Nat /\ \A k \in 1 .. n : s[k] \in STRING BY LenProperties, ElementOfSeq
<1>2. x \in X BY DEF Reach
<1>3. step \in [(1 .. n) \X X -> X]
  <2>1. \A k \in 1 .. n, y \in X : Leads(t, y, s[k]) \in X BY <1>1, LeadsReach
  <2> QED BY <2>1
<1>4. \A k \in 1 .. n, y \in X : step[<<k, y>>] = Leads(t, y, s[k]) OBVIOUS
<1>5. PICK f \in [0 .. n -> X] : Turns(f, x, step, n)
  <2> HIDE DEF n, X, step
  <2> QED BY <1>1, <1>2, <1>3, LoopRuns
<1>6. f = Body(f)
  <2>1. ASSUME NEW k \in 0 .. n PROVE f[k] = Body(f)[k]
    <3>1. Body(f)[k] = IF k = 0 THEN x ELSE Leads(t, f[k - 1], s[k]) OBVIOUS
    <3>2. CASE k = 0
      <4> HIDE DEF Body
      <4> QED BY <1>5, <3>1, <3>2 DEF Turns
    <3>3. CASE k # 0
      <4>1. k \in 1 .. n /\ k - 1 \in 0 .. n BY <1>1, <3>3
      <4>2. f[k - 1] \in X BY <4>1
      <4>3. f[k] = step[<<k, f[k - 1]>>] BY <1>5, <4>1 DEF Turns
      <4> HIDE DEF Body, step
      <4> QED BY <1>4, <3>1, <3>3, <4>1, <4>2, <4>3
    <3> QED BY <3>2, <3>3
  <2>2. DOMAIN Body(f) = 0 .. n /\ DOMAIN f = 0 .. n OBVIOUS
  <2> QED BY <2>1, <2>2
<1>7. J = Body(J)
  <2> HIDE DEF Body
  <2> QED BY <1>6, Zenon
<1>8. Journey(t, x, s) = J[n] BY DEF Journey
<1> HIDE DEF J
<1>9. \A k \in 0 .. n : J[k] = IF k = 0 THEN x ELSE Leads(t, J[k - 1], s[k]) BY <1>7
<1>10. Travels(J, t, x, s) BY <1>1, <1>9 DEF Travels
<1> QED BY <1>8, <1>10

(* What cd_path() puts in place of each text of its argument. *)
Steps(s) == [k \in 1 .. Len(s) |-> IF s[k] # NoText THEN Dots(Piece(s[k])).parts ELSE <<>>]

LEMMA StepsType ==
  ASSUME NEW s \in Seq(STRING)
  PROVE  /\ Steps(s) \in Seq(Seq(Texts)) /\ Len(Steps(s)) = Len(s)
         /\ \A k \in 1 .. Len(s) :
              Steps(s)[k] = IF s[k] # NoText THEN Dots(Piece(s[k])).parts ELSE <<>>
<1>1. Len(s) \in Nat /\ \A k \in 1 .. Len(s) : s[k] \in STRING BY LenProperties, ElementOfSeq
<1>2. <<>> \in Seq(Texts) OBVIOUS
<1>3. ASSUME NEW k \in 1 .. Len(s) PROVE Steps(s)[k] \in Seq(Texts)
  BY <1>1, <1>2, PieceProperty DEF Steps
<1>4. DOMAIN Steps(s) = 1 .. Len(s) /\ Steps(s) = [k \in 1 .. Len(s) |-> Steps(s)[k]] BY DEF Steps
<1>5. Steps(s) \in [1 .. Len(s) -> Seq(Texts)] BY <1>3, <1>4
<1>6. Steps(s) \in Seq(Seq(Texts)) /\ Len(Steps(s)) = Len(s)
  <2>1. PICK f \in [1 .. Len(s) -> Seq(Texts)] : f = Steps(s) BY <1>5
  <2>2. f \in Seq(Seq(Texts)) /\ Len(f) = Len(s) BY <1>1
  <2> QED BY <2>1, <2>2
<1> QED BY <1>6 DEF Steps

LEMMA StepSame ==
  ASSUME NEW t \in Trees, NEW x, NEW y, Same(t, x, y), NEW s \in Seq(STRING), NEW k \in 1 .. Len(s)
  PROVE  Same(t, Walk(t, x, Steps(s)[k]), Leads(t, y, s[k]))
<1>1. s[k] \in STRING BY ElementOfSeq
<1>2. Steps(s)[k] = IF s[k] # NoText THEN Dots(Piece(s[k])).parts ELSE <<>> BY StepsType
<1>3. CASE s[k] # NoText BY <1>1, <1>2, <1>3, LeadsSame
<1>4. CASE s[k] = NoText
  <2>1. Walk(t, x, <<>>) = x BY WalkShort
  <2>2. NoText # "..." /\ NoText # "...." BY Zenon DEF NoText
  <2>3. Piece(NoText) = Rel(<<NoText>>) BY PathsAssumption DEF Piece, IsVar
  <2>4. Rel(<<NoText>>) # Rel(<<"...">>) /\ Rel(<<NoText>>) # Rel(<<"....">>)
    <3>1. \A a, b : <<a>> = <<b>> => a = b OBVIOUS
    <3> QED BY <2>2, <3>1 DEF Rel
  <2>5. Leads(t, y, NoText) = Walk(t, y, <<NoText>>)
    <3>1. Rel(<<NoText>>).parts = <<NoText>> BY DEF Rel
    <3> QED BY <2>3, <2>4, <3>1 DEF Leads
  <2>6. Walk(t, y, <<NoText>>) = IF y \in t.dirs THEN y ELSE NoNode BY WalkShort DEF Component
  <2>7. NoNode \notin t.dirs BY TreeFacts
  <2> QED BY <1>2, <1>4, <2>1, <2>5, <2>6, <2>7 DEF Same
<1> QED BY <1>3, <1>4

(* Walking the path that cd has put together is the journey its argument   *)
(* describes.                                                              *)
LEMMA CdWalks ==
  ASSUME NEW t \in Trees, NEW x, NEW s \in Seq(STRING)
  PROVE  Same(t, Walk(t, x, FlattenSeq(Steps(s))), Journey(t, x, s))
<1>1. Len(s) \in Nat BY LenProperties
<1>2. PICK q \in Seq(Seq(Texts)) : q = Steps(s) BY StepsType
<1>3. Len(q) = Len(s) BY <1>2, StepsType
<1>4. PICK j : Travels(j, t, x, s) /\ Journey(t, x, s) = j[Len(s)] BY JourneyProperty
<1>5. CASE Len(s) = 0
  <2>1. q = <<>> /\ FlattenSeq(q) = <<>> BY <1>3, <1>5, EmptySeq DEF FlattenSeq
  <2>2. Walk(t, x, <<>>) = x BY WalkShort
  <2>3. Journey(t, x, s) = x BY <1>4, <1>5 DEF Travels
  <2> QED BY <1>2, <2>1, <2>2, <2>3 DEF Same
<1>6. CASE Len(s) # 0
  <2>1. PICK f \in [1 .. Len(q) -> Seq(Texts)] : Unfolds(q, f, Len(q)) /\ FlattenSeq(q) = f[Len(q)]
    BY <1>3, <1>6, FlattenProperty
  <2> DEFINE Bad == {k \in 1 .. Len(s) : ~Same(t, Walk(t, x, f[k]), j[k])}
  <2>2. Bad = {}
    <3> SUFFICES ASSUME Bad # {} PROVE FALSE OBVIOUS
    <3>1. Bad \in SUBSET Nat BY <1>1
    <3>2. PICK b \in Bad : \A k \in Bad : b <= k BY <3>1, LeastExists
    <3>3. b \in 1 .. Len(s) /\ ~Same(t, Walk(t, x, f[b]), j[b]) BY <3>2
    <3>4. j[b] = Leads(t, j[b - 1], s[b]) BY <1>4, <3>3 DEF Travels
    <3>5. CASE b = 1
      <4>1. f[b] = Steps(s)[b] BY <1>2, <2>1, <3>5 DEF Unfolds
      <4>2. j[b - 1] = x BY <1>4, <3>5 DEF Travels
      <4>3. Same(t, x, x) BY DEF Same
      <4>4. Same(t, Walk(t, x, Steps(s)[b]), Leads(t, x, s[b])) BY <3>3, <4>3, StepSame
      <4> QED BY <3>3, <3>4, <4>1, <4>2, <4>4
    <3>6. CASE b # 1
      <4>1. b \in 2 .. Len(q) /\ b - 1 \in 1 .. Len(s) /\ ~(b <= b - 1) BY <1>1, <1>3, <3>3, <3>6
      <4>2. b - 1 \notin Bad
        <5> HIDE DEF Bad
        <5> QED BY <3>2, <4>1
      <4>3. Same(t, Walk(t, x, f[b - 1]), j[b - 1]) BY <4>1, <4>2
      <4>4. f[b] = f[b - 1] \o q[b] BY <2>1, <4>1 DEF Unfolds
      <4>5. PICK front \in Seq(Texts), last \in Seq(Texts) : front = f[b - 1] /\ last = q[b]
        <5>1. f[b - 1] \in Seq(Texts) BY <1>3, <2>1, <4>1
        <5>2. q[b] \in Seq(Texts) BY <1>3, <3>3, ElementOfSeq
        <5> QED BY <5>1, <5>2
      <4>6. Walk(t, x, f[b]) = Walk(t, Walk(t, x, f[b - 1]), Steps(s)[b])
        <5>1. Walk(t, x, front \o last) = Walk(t, Walk(t, x, front), last) BY WalkConcat
        <5> QED BY <1>2, <4>4, <4>5, <5>1
      <4>7. Same(t, Walk(t, Walk(t, x, f[b - 1]), Steps(s)[b]), Leads(t, j[b - 1], s[b]))
        BY <3>3, <4>3, StepSame
      <4> QED BY <3>3, <3>4, <4>6, <4>7
    <3> QED BY <3>5, <3>6
  <2>3. Len(s) \in 1 .. Len(s) BY <1>1, <1>6
  <2>4. Same(t, Walk(t, x, f[Len(s)]), j[Len(s)]) BY <2>2, <2>3
  <2> QED BY <1>2, <1>3, <1>4, <2>1, <2>4
<1> QED BY <1>5, <1>6
---------------------------------------------------------------------------
(* cd *)

LEMMA FlattenNotEmpty ==
  ASSUME NEW S, NEW q \in Seq(Seq(S)), Len(q) # 0, q[1] # <<>>
  PROVE  FlattenSeq(q) # <<>>
<1>1. Len(q) \in Nat /\ Len(q) \in 1 .. Len(q) BY LenProperties
<1>2. PICK f \in [1 .. Len(q) -> Seq(S)] : Unfolds(q, f, Len(q)) /\ FlattenSeq(q) = f[Len(q)]
  BY FlattenProperty
<1> DEFINE Bad == {k \in 1 .. Len(q) : f[k] = <<>>}
<1>3. Bad = {}
  <2> SUFFICES ASSUME Bad # {} PROVE FALSE OBVIOUS
  <2>1. Bad \in SUBSET Nat BY <1>1
  <2>2. PICK b \in Bad : \A k \in Bad : b <= k BY <2>1, LeastExists
  <2>3. b \in 1 .. Len(q) /\ f[b] = <<>> BY <2>2
  <2>4. b # 1 BY <1>2, <2>3 DEF Unfolds
  <2>5. b \in 2 .. Len(q) /\ b - 1 \in 1 .. Len(q) /\ ~(b <= b - 1) BY <1>1, <2>3, <2>4
  <2>6. b - 1 \notin Bad
    <3> HIDE DEF Bad
    <3> QED BY <2>2, <2>5
  <2>7. PICK front \in Seq(S), last \in Seq(S) : front = f[b - 1] /\ last = q[b]
    <3>1. f[b - 1] \in Seq(S) /\ q[b] \in Seq(S) BY <1>2, <2>3, <2>5, ElementOfSeq
    <3> QED BY <3>1
  <2>8. front # <<>> BY <2>5, <2>6, <2>7
  <2>9. Len(front) # 0 /\ Len(front) \in Nat /\ Len(last) \in Nat BY <2>8, EmptySeq, LenProperties
  <2>10. Len(front \o last) = Len(front) + Len(last) BY ConcatProperties
  <2>11. f[b] = front \o last BY <1>2, <2>5, <2>7 DEF Unfolds
  <2>12. Len(front \o last) = 0
    <3>1. front \o last = <<>> BY <2>3, <2>11
    <3>2. \A z : z = <<>> => Len(z) = 0 OBVIOUS
    <3> QED BY <3>1, <3>2
  <2> QED BY <2>9, <2>10, <2>12
<1> QED BY <1>1, <1>2, <1>3

LEMMA DotsKeepAbs ==
  ASSUME NEW p \in Path
  PROVE  Dots(p).abs = p.abs /\ (p.parts # <<>> => Dots(p).parts # <<>>)
<1>1. \A z : Rel(z).abs = FALSE /\ Rel(z).parts = z BY DEF Rel
<1>2. <<"..", "..">> # <<>> /\ <<"..", "..", "..">> # <<>> OBVIOUS
<1>3. CASE p = Rel(<<"...">>)
  <2>1. Dots(p) = Rel(<<"..", "..">>) BY <1>3 DEF Dots
  <2> QED BY <1>1, <1>2, <1>3, <2>1
<1>4. CASE p # Rel(<<"...">>) /\ p = Rel(<<"....">>)
  <2>1. Dots(p) = Rel(<<"..", "..", "..">>) BY <1>4 DEF Dots
  <2> QED BY <1>1, <1>2, <1>4, <2>1
<1>5. CASE p # Rel(<<"...">>) /\ p # Rel(<<"....">>)
  <2>1. Dots(p) = p BY <1>5 DEF Dots
  <2> QED BY <2>1
<1> QED BY <1>3, <1>4, <1>5

LEMMA CdPathParts ==
  ASSUME NEW p \in Paths
  PROVE  cd_path(p).parts = FlattenSeq(Steps(p.parts))
<1>1. p.parts \in Seq(STRING) BY PathsAssumption DEF Path
<1>2. PICK s \in Seq(STRING) : s = p.parts BY <1>1
<1>3. DOMAIN s = 1 .. Len(s) BY LenProperties
<1> DEFINE at == strtok(p)
           pieces == [k \in at |-> Dots(Piece(s[k]))]
           g == [k \in 1 .. Len(s) |-> IF k \in at THEN pieces[k].parts ELSE <<>>]
<1>4. cd_path(p).parts = FlattenSeq(g) BY <1>2 DEF cd_path, Join
<1>5. \A k \in 1 .. Len(s) : k \in at <=> s[k] # NoText BY <1>2, <1>3 DEF strtok
<1> HIDE DEF at
<1>6. \A k \in at : pieces[k] = Dots(Piece(s[k])) OBVIOUS
<1> HIDE DEF pieces
<1>7. \A k \in 1 .. Len(s) :
        (IF k \in at THEN pieces[k].parts ELSE <<>>)
          = (IF s[k] # NoText THEN Dots(Piece(s[k])).parts ELSE <<>>)
  BY <1>5, <1>6
<1>8. g = Steps(s) BY <1>7 DEF Steps
<1> HIDE DEF g
<1> QED BY <1>2, <1>4, <1>8

(* No variable of the argument stands for nothing. *)
NoEmptyValue(p) == \A v \in DOMAIN Value \cap ToSet(p.parts) : Value[v] # Rel(<<>>)

Above(p) == p.abs \/ (p.parts # <<>> /\ Piece(p.parts[1]).abs)

LEMMA FirstPart ==
  ASSUME NEW p \in Paths, NoEmptyValue(p), ~p.abs, p.parts # <<>>
  PROVE  /\ p.parts[1] \in STRING /\ p.parts[1] # NoText /\ Len(p.parts) \in Nat \ {0}
         /\ Piece(p.parts[1]).abs \/ Piece(p.parts[1]).parts # <<>>
<1>1. PICK s \in Seq(STRING) : s = p.parts BY PathsAssumption DEF Path
<1>2. Len(s) \in Nat \ {0} /\ DOMAIN s = 1 .. Len(s) BY <1>1, LenProperties, EmptySeq
<1>3. 1 \in DOMAIN s /\ s[1] \in STRING BY <1>2, ElementOfSeq
<1>4. s[1] # NoText BY <1>1, PathsAssumption
<1>5. CASE IsVar(s[1])
  <2>1. s[1] \in ToSet(s) BY <1>3 DEF ToSet
  <2>2. Value[s[1]] \in Path /\ Value[s[1]] # Rel(<<>>)
    BY <1>1, <1>5, <2>1, PathsAssumption DEF IsVar, NoEmptyValue
  <2>3. PICK v \in Path : v = Value[s[1]] BY <2>2
  <2>4. v.abs \/ v.parts # <<>>
    <3>1. v = [abs |-> v.abs, parts |-> v.parts] /\ v.abs \in BOOLEAN BY DEF Path
    <3> QED BY <2>2, <2>3, <3>1 DEF Rel
  <2>5. Piece(s[1]) = v BY <1>5, <2>3 DEF Piece
  <2> QED BY <1>1, <1>2, <1>3, <1>4, <2>4, <2>5
<1>6. CASE ~IsVar(s[1])
  <2>1. Piece(s[1]).parts = <<s[1]>> BY <1>6 DEF Piece, Rel
  <2>2. <<s[1]>> # <<>> OBVIOUS
  <2> QED BY <1>1, <1>2, <1>3, <1>4, <2>1, <2>2
<1> QED BY <1>5, <1>6

LEMMA CdPathAbs ==
  ASSUME NEW p \in Paths, NoEmptyValue(p)
  PROVE  cd_path(p).abs <=> Above(p)
<1>1. PICK s \in Seq(STRING) : s = p.parts BY PathsAssumption DEF Path
<1>2. DOMAIN s = 1 .. Len(s) /\ Len(s) \in Nat BY LenProperties
<1> DEFINE at == strtok(p)
           pieces == [k \in at |-> Dots(Piece(s[k]))]
           first == pieces[Min(at)]
<1>3. cd_path(p).abs <=> \/ p.abs
                         \/ at # {} /\ (first.abs \/ (first.parts = <<>> /\ at # {Min(at)}))
  <2>1. DOMAIN pieces = at OBVIOUS
  <2>2. cd_path(p) = Join(p.abs, Len(p.parts), pieces) BY <1>1 DEF cd_path
  <2> HIDE DEF pieces, at
  <2> QED BY <2>1, <2>2 DEF Join
<1>4. CASE p.abs BY <1>3, <1>4 DEF Above
<1>5. CASE ~p.abs /\ s = <<>>
  <2>1. at = {} BY <1>1, <1>5 DEF strtok
  <2> HIDE DEF at, first
  <2> QED BY <1>1, <1>3, <1>5, <2>1 DEF Above
<1>6. CASE ~p.abs /\ s # <<>>
  <2>1. /\ s[1] \in STRING /\ s[1] # NoText /\ Len(s) # 0
        /\ Piece(s[1]).abs \/ Piece(s[1]).parts # <<>>
    BY <1>1, <1>6, FirstPart
  <2>2. 1 \in at /\ at \in SUBSET Nat /\ \A k \in at : 1 <= k BY <1>1, <1>2, <2>1 DEF strtok
  <2>3. Min(at) = 1
    <3> HIDE DEF at
    <3>1. Min(at) \in at /\ \A k \in at : Min(at) <= k BY <2>2, MinProperty
    <3>2. PICK m \in Nat : m = Min(at) BY <2>2, <3>1
    <3>3. m <= 1 /\ 1 <= m BY <2>2, <3>1, <3>2
    <3>4. m = 1 BY <3>3
    <3> QED BY <3>2, <3>4
  <2>4. first = Dots(Piece(s[1])) BY <2>2, <2>3
  <2>5. PICK v \in Path : v = Piece(s[1]) BY <2>1, PieceProperty
  <2>6. Dots(v).abs = v.abs /\ (v.parts # <<>> => Dots(v).parts # <<>>) BY DotsKeepAbs
  <2> HIDE DEF at, first
  <2> QED BY <1>1, <1>3, <1>6, <2>1, <2>2, <2>4, <2>5, <2>6 DEF Above
<1> QED BY <1>4, <1>5, <1>6

(* Where the directory is that cd looks up. *)
LEMMA CdLookup ==
  ASSUME NEW t \in Trees, NEW d, NEW p \in Paths, NoEmptyValue(p), NEW start,
         start = (IF Above(p) THEN Root ELSE d), NEW y, y = Lookup(t, d, cd_path(p)),
         NEW x, x = Journey(t, start, p.parts)
  PROVE  /\ y \in t.dirs <=> (x \in t.dirs /\ (Above(p) \/ p.parts # <<>>))
         /\ y \in t.dirs => y = x
<1>1. PICK s \in Seq(STRING) : s = p.parts BY PathsAssumption DEF Path
<1>2. PICK q : q = FlattenSeq(Steps(s)) OBVIOUS
<1>3. cd_path(p).parts = q /\ (cd_path(p).abs <=> Above(p)) BY <1>1, <1>2, CdPathParts, CdPathAbs
<1>4. Same(t, Walk(t, start, q), x) BY <1>1, <1>2, CdWalks
<1>5. NoNode \notin t.dirs BY TreeFacts
<1>6. CASE ~Above(p) /\ s = <<>>
  <2>1. Steps(s) = <<>>
    <3>1. Len(s) = 0 /\ Len(Steps(s)) = 0 /\ Steps(s) \in Seq(Seq(Texts)) BY <1>6, StepsType
    <3> QED BY <3>1, EmptySeq
  <2>2. q = <<>> BY <1>2, <2>1 DEF FlattenSeq
  <2>3. y = NoNode BY <1>3, <1>6, <2>2 DEF Lookup
  <2> QED BY <1>1, <1>5, <1>6, <2>3
<1>7. CASE Above(p) \/ s # <<>>
  <2>1. ~(~cd_path(p).abs /\ cd_path(p).parts = <<>>)
    <3>1. CASE Above(p) BY <1>3, <3>1
    <3>2. CASE ~Above(p)
      <4>1. ~p.abs /\ ~Piece(s[1]).abs /\ s # <<>> BY <1>1, <1>7, <3>2 DEF Above
      <4>2. s[1] \in STRING /\ s[1] # NoText /\ Len(s) \in Nat \ {0} /\ Piece(s[1]).parts # <<>>
        BY <1>1, <4>1, FirstPart
      <4>3. Steps(s) \in Seq(Seq(Texts)) /\ Len(Steps(s)) # 0 /\ Steps(s)[1] = Dots(Piece(s[1])).parts
        BY <4>2, StepsType
      <4>4. PICK v \in Path : v = Piece(s[1]) BY <4>2, PieceProperty
      <4>5. Steps(s)[1] # <<>> BY <4>2, <4>3, <4>4, DotsKeepAbs
      <4>6. q # <<>> BY <1>2, <4>3, <4>5, FlattenNotEmpty
      <4> QED BY <1>3, <4>6
    <3> QED BY <3>1, <3>2
  <2>2. y = Walk(t, start, q)
    <3>1. y = Walk(t, IF cd_path(p).abs THEN Root ELSE d, cd_path(p).parts) BY <2>1 DEF Lookup
    <3> QED BY <1>3, <3>1
  <2> QED BY <1>1, <1>4, <1>7, <2>2 DEF Same
<1> QED BY <1>6, <1>7

LEMMA CdNext == TypeOK /\ CdArrives /\ [Next]_vars => CdArrives'
<1> SUFFICES ASSUME TypeOK, CdArrives, [Next]_vars PROVE CdArrives' OBVIOUS
<1>1. ASSUME NEW p \in Paths, bn_cd(p) PROVE CdArrives'
  <2>1. PICK y : y = Lookup(tree, cwd, cd_path(p)) OBVIOUS
  <2>2. PICK start : start = (IF Above(p) THEN Root ELSE cwd) OBVIOUS
  <2>3. PICK x : x = Journey(tree, start, p.parts) OBVIOUS
  <2>4. tree \in Trees BY DEF TypeOK
  <2>5. cmd' = [name |-> "cd", arg |-> p] /\ was' = [cwd |-> cwd, free |-> free] /\ tree' = tree
    BY <1>1 DEF bn_cd, Returns
  <2>6. /\ y \in tree.dirs => cwd' = y /\ ret' = 0
        /\ y \notin tree.dirs => cwd' = cwd /\ ret' = -1
    BY <1>1, <2>1 DEF bn_cd, Returns
  <2> DEFINE there == x \in tree.dirs /\ (Above(p) \/ p.parts # <<>>)
  <2>7. ASSUME NoEmptyValue(p)
        PROVE  cwd' = (IF there THEN x ELSE cwd) /\ ret' = (IF there THEN 0 ELSE -1)
    <3>1. /\ y \in tree.dirs <=> there
          /\ y \in tree.dirs => y = x
      BY <2>1, <2>2, <2>3, <2>4, <2>7, CdLookup
    <3> HIDE DEF there
    <3> QED BY <2>6, <3>1
  <2>8. cmd'.arg = p /\ was'.cwd = cwd BY <2>5
  <2> QED BY <2>2, <2>3, <2>5, <2>7, <2>8 DEF CdArrives, NoEmptyValue, Above
<1>2. CASE \/ \E p \in Paths : bn_cat(p) \/ bn_wc(p)
           \/ \E tokens \in LsArgs : bn_ls(tokens)
           \/ Prompt
  <2>1. cmd'.name # "cd" BY <1>2 DEF bn_cat, bn_wc, bn_ls, Prompt, Returns, Idle
  <2> QED BY <2>1 DEF CdArrives
<1>3. CASE UNCHANGED vars
  <2>1. tree' = tree /\ cwd' = cwd /\ cmd' = cmd /\ ret' = ret /\ was' = was BY <1>3 DEF vars
  <2> QED BY <2>1 DEF CdArrives
<1> QED BY <1>1, <1>2, <1>3 DEF Next

(* cd leads where its argument says, whatever the file system, the         *)
(* variables and the directories "..." and "...." go up through            *)
(* (builtins.c:317-405).                                                   *)
THEOREM CdArrivesAlways == Spec => []CdArrives
<1>1. Init => CdArrives BY DEF Init, Idle, CdArrives
<1> QED BY <1>1, TypeCorrect, CdNext, PTL DEF Spec
---------------------------------------------------------------------------
(* wc *)

GapAt(s, k) == s[k] \in {NL, Space}

LinesTo(s, k) == {l \in 1 .. k : s[l] = NL}
StartsTo(s, k) == {l \in 1 .. k : ~GapAt(s, l) /\ (l > 1 => GapAt(s, l - 1))}

(* What wc has counted when it has read k characters. *)
Counted(s, k) ==
  [chars |-> k, lines |-> Cardinality(LinesTo(s, k)), words |-> Cardinality(StartsTo(s, k)),
   in_word |-> IF k = 0 \/ GapAt(s, k) THEN 0 ELSE 1]

LEMMA OneMore ==
  ASSUME NEW k \in Nat, k # 0, NEW A \in SUBSET (1 .. k - 1)
  PROVE  /\ Cardinality(A) \in Nat
         /\ Cardinality(A \cup {k}) = Cardinality(A) + 1
<1>1. 1 \in Int /\ k - 1 \in Int OBVIOUS
<1>2. IsFiniteSet(1 .. k - 1) BY <1>1, FS_Interval
<1>3. IsFiniteSet(A) BY <1>2, FS_Subset
<1>4. k \notin A OBVIOUS
<1> QED BY <1>3, <1>4, FS_AddElement, FS_CardinalityType

LEMMA CountedStep ==
  ASSUME NEW S, NEW s \in Seq(S), NEW k \in 1 .. Len(s)
  PROVE  Counted(s, k) = Count(Counted(s, k - 1), s[k])
<1>1. Len(s) \in Nat /\ k \in Nat /\ k # 0 /\ k - 1 \in Nat BY LenProperties
<1> DEFINE L == LinesTo(s, k - 1)
           W == StartsTo(s, k - 1)
<1>2. L \in SUBSET (1 .. k - 1) /\ W \in SUBSET (1 .. k - 1) BY DEF LinesTo, StartsTo
<1>3. \A l : l \in 1 .. k <=> l \in 1 .. k - 1 \/ l = k BY <1>1
<1>4. LinesTo(s, k) = IF s[k] = NL THEN L \cup {k} ELSE L
  <2>1. \A l : l \in LinesTo(s, k) <=> l \in L \/ (l = k /\ s[k] = NL) BY <1>3 DEF LinesTo
  <2> HIDE DEF L
  <2> QED BY <2>1
<1> DEFINE new == ~GapAt(s, k) /\ (k = 1 \/ GapAt(s, k - 1))
<1>5. StartsTo(s, k) = IF new THEN W \cup {k} ELSE W
  <2>1. k > 1 <=> k # 1 BY <1>1
  <2>2. \A l : l \in StartsTo(s, k) <=> l \in W \/ (l = k /\ new) BY <1>3, <2>1 DEF StartsTo
  <2> HIDE DEF W, new
  <2> QED BY <2>2
<1> HIDE DEF L, W
<1>6. /\ Cardinality(LinesTo(s, k)) = IF s[k] = NL THEN Cardinality(L) + 1 ELSE Cardinality(L)
      /\ Cardinality(StartsTo(s, k)) = IF new THEN Cardinality(W) + 1 ELSE Cardinality(W)
  BY <1>1, <1>2, <1>4, <1>5, OneMore
<1>7. PICK n : n = Counted(s, k - 1) OBVIOUS
<1>8. /\ n.chars = k - 1 /\ n.lines = Cardinality(L) /\ n.words = Cardinality(W)
      /\ n.in_word = IF k - 1 = 0 \/ GapAt(s, k - 1) THEN 0 ELSE 1
  BY <1>7 DEF Counted, L, W
<1>9. new <=> s[k] \notin {NL, Space} /\ n.in_word = 0 BY <1>1, <1>8 DEF GapAt
<1> HIDE DEF new
<1>10. n.chars + 1 = k BY <1>1, <1>8
<1>11. (IF k = 0 \/ GapAt(s, k) THEN 0 ELSE 1) = (IF s[k] \in {NL, Space} THEN 0 ELSE 1)
  BY <1>1 DEF GapAt
<1>12. Count(n, s[k]) = [chars |-> n.chars + 1,
                         lines |-> IF s[k] = NL THEN n.lines + 1 ELSE n.lines,
                         words |-> IF new THEN n.words + 1 ELSE n.words,
                         in_word |-> IF s[k] \in {NL, Space} THEN 0 ELSE 1]
  BY <1>9 DEF Count
<1> QED BY <1>6, <1>7, <1>8, <1>10, <1>11, <1>12 DEF Counted

LEMMA WcProperty ==
  ASSUME NEW S, NEW s \in Seq(S)
  PROVE  WcCounts(s) = Counted(s, Len(s))
<1> DEFINE m == Len(s)
           zero == [chars |-> 0, lines |-> 0, words |-> 0, in_word |-> 0]
           Body(n) == [k \in 0 .. m |-> IF k = 0 THEN zero ELSE Count(n[k - 1], s[k])]
           N == CHOOSE n : n = Body(n)
           h == [k \in 0 .. m |-> Counted(s, k)]
<1>1. m \in Nat BY LenProperties
<1>2. Counted(s, 0) = zero
  <2>1. LinesTo(s, 0) = {} /\ StartsTo(s, 0) = {} BY DEF LinesTo, StartsTo
  <2> QED BY <2>1, FS_EmptySet DEF Counted
<1>3. h = Body(h)
  <2>1. ASSUME NEW k \in 0 .. m PROVE h[k] = Body(h)[k]
    <3>1. Body(h)[k] = IF k = 0 THEN zero ELSE Count(h[k - 1], s[k]) OBVIOUS
    <3>2. h[k] = Counted(s, k) OBVIOUS
    <3>3. CASE k = 0
      <4> HIDE DEF Body, h, zero
      <4> QED BY <1>2, <3>1, <3>2, <3>3
    <3>4. CASE k # 0
      <4>1. k \in 1 .. Len(s) /\ k - 1 \in 0 .. m BY <1>1, <3>4
      <4>2. h[k - 1] = Counted(s, k - 1) BY <4>1
      <4> HIDE DEF Body, h
      <4> QED BY <3>1, <3>2, <3>4, <4>1, <4>2, CountedStep
    <3> QED BY <3>3, <3>4
  <2>2. DOMAIN Body(h) = 0 .. m /\ DOMAIN h = 0 .. m OBVIOUS
  <2>3. \E X, Y : h \in [0 .. m -> X] /\ Body(h) \in [0 .. m -> Y]
    <3>1. h \in [0 .. m -> {h[k] : k \in 0 .. m}] OBVIOUS
    <3>2. Body(h) \in [0 .. m -> {Body(h)[k] : k \in 0 .. m}] OBVIOUS
    <3> QED BY <3>1, <3>2
  <2> HIDE DEF h, Body
  <2> QED BY <2>1, <2>2, <2>3
<1>4. N = Body(N)
  <2> HIDE DEF Body, h
  <2> QED BY <1>3, Zenon
<1>5. WcCounts(s) = N[m] BY DEF WcCounts
<1> HIDE DEF N
<1>6. \A k \in 0 .. m : N[k] = IF k = 0 THEN zero ELSE Count(N[k - 1], s[k]) BY <1>4
<1> HIDE DEF zero, Body
<1> DEFINE Bad == {k \in 0 .. m : N[k] # Counted(s, k)}
<1>7. Bad = {}
  <2> SUFFICES ASSUME Bad # {} PROVE FALSE OBVIOUS
  <2>1. Bad \in SUBSET Nat BY <1>1
  <2>2. PICK b \in Bad : \A k \in Bad : b <= k BY <2>1, LeastExists
  <2>3. b \in 0 .. m /\ N[b] # Counted(s, b) BY <2>2
  <2>4. b # 0 BY <1>2, <1>6, <2>3
  <2>5. b \in 1 .. Len(s) /\ b - 1 \in 0 .. m /\ ~(b <= b - 1) BY <1>1, <2>3, <2>4
  <2>6. b - 1 \notin Bad
    <3> HIDE DEF Bad
    <3> QED BY <2>2, <2>5
  <2>7. N[b - 1] = Counted(s, b - 1) BY <2>5, <2>6
  <2>8. N[b] = Count(N[b - 1], s[b]) BY <1>6, <2>3, <2>4
  <2>9. Counted(s, b) = Count(Counted(s, b - 1), s[b]) BY <2>5, CountedStep
  <2> QED BY <2>3, <2>7, <2>8, <2>9
<1>8. N[m] = Counted(s, m) BY <1>1, <1>7
<1> QED BY <1>5, <1>8
---------------------------------------------------------------------------
(* cat *)

LEMMA MaxProperty ==
  ASSUME NEW n \in Nat, NEW S \in SUBSET (0 .. n), S # {}
  PROVE  Max(S) \in S /\ \A y \in S : y <= Max(S)
<1> DEFINE R == {m \in 0 .. n : n - m \in S}
<1>1. R \in SUBSET Nat OBVIOUS
<1>2. R # {}
  <2>1. PICK y \in S : TRUE OBVIOUS
  <2>2. n - y \in 0 .. n /\ n - (n - y) = y OBVIOUS
  <2>3. n - y \in R BY <2>1, <2>2
  <2> QED BY <2>3
<1>3. PICK r \in R : \A y \in R : r <= y BY <1>1, <1>2, LeastExists
<1>4. n - r \in S /\ r \in 0 .. n BY <1>3
<1>5. ASSUME NEW y \in S PROVE n - r >= y
  <2>1. n - y \in 0 .. n /\ n - (n - y) = y OBVIOUS
  <2>2. n - y \in R BY <2>1
  <2>3. r <= n - y BY <1>3, <2>2
  <2> QED BY <1>4, <2>1, <2>3
<1>6. \E x \in S : \A y \in S : x >= y BY <1>4, <1>5
<1>7. Max(S) \in S /\ \A y \in S : Max(S) >= y
  <2> HIDE DEF R
  <2> QED BY <1>6 DEF Max
<1> QED BY <1>7

(* The newline before place k. *)
LineOf(s, k) == Max({0} \cup {l \in 1 .. k - 1 : s[l] = NL})

LEMMA LineProperty ==
  ASSUME NEW s, NEW k \in Nat, k # 0
  PROVE  /\ LineOf(s, k) \in 0 .. k - 1
         /\ LineOf(s, k) # 0 => s[LineOf(s, k)] = NL
         /\ \A l \in 1 .. k - 1 : s[l] = NL => l <= LineOf(s, k)
<1> DEFINE A == {0} \cup {l \in 1 .. k - 1 : s[l] = NL}
<1>1. k - 1 \in Nat /\ A \in SUBSET (0 .. k - 1) /\ A # {} OBVIOUS
<1>2. Max(A) \in A /\ \A y \in A : y <= Max(A)
  <2> HIDE DEF A
  <2> QED BY <1>1, MaxProperty
<1>3. LineOf(s, k) = Max(A) BY DEF LineOf
<1>4. PICK m \in 0 .. k - 1 : m = Max(A) BY <1>1, <1>2
<1>5. m # 0 => s[m] = NL BY <1>2, <1>4
<1>6. \A l \in 1 .. k - 1 : s[l] = NL => l <= m BY <1>2, <1>4
<1> QED BY <1>3, <1>4, <1>5, <1>6

LEMMA SameLine ==
  ASSUME NEW s, NEW a \in Nat, NEW j \in Nat, j # 0, \A l \in 1 .. j - 1 : s[a + l] # NL
  PROVE  LineOf(s, a + j) = LineOf(s, a + 1)
<1>1. a + 1 \in Nat /\ a + 1 # 0 /\ a + j \in Nat /\ a + j # 0 OBVIOUS
<1>2. PICK x : x = LineOf(s, a + 1) OBVIOUS
<1>3. PICK y : y = LineOf(s, a + j) OBVIOUS
<1>4. /\ x \in 0 .. a + 1 - 1 /\ (x # 0 => s[x] = NL)
      /\ \A l \in 1 .. a + 1 - 1 : s[l] = NL => l <= x
  BY <1>1, <1>2, LineProperty
<1>5. /\ y \in 0 .. a + j - 1 /\ (y # 0 => s[y] = NL)
      /\ \A l \in 1 .. a + j - 1 : s[l] = NL => l <= y
  BY <1>1, <1>3, LineProperty
<1>6. y <= a
  <2> SUFFICES ASSUME y > a PROVE FALSE BY <1>5
  <2>1. y - a \in 1 .. j - 1 /\ a + (y - a) = y /\ y # 0 BY <1>5
  <2> QED BY <1>5, <2>1
<1>7. x <= y
  <2>1. x = 0 \/ x \in 1 .. a + j - 1 BY <1>4
  <2> QED BY <1>4, <1>5, <2>1
<1>8. y <= x
  <2>1. y = 0 \/ y \in 1 .. a + 1 - 1 BY <1>5, <1>6
  <2> QED BY <1>4, <1>5, <2>1
<1>9. x = y BY <1>4, <1>5, <1>7, <1>8
<1> QED BY <1>2, <1>3, <1>9

LEMMA Remainder ==
  ASSUME NEW c \in Nat, c # 0, NEW m \in Nat, NEW r \in 0 .. c - 1
  PROVE  (m * c + r) % c = r
OBVIOUS

(* Places of the text where a buffer begins. *)
Aligned(s, a) == a = Len(s) \/ \E m \in Nat : a = LineOf(s, a + 1) + m * Chunk

FitsAt(s, k) == (k - LineOf(s, k) - 1) % Chunk < MaxStr

LEMMA FitsInBuffer ==
  ASSUME NEW S, NEW s \in Seq(S), NEW a \in 0 .. Len(s) - 1, Aligned(s, a),
         NEW j \in 1 .. Chunk, \A l \in 1 .. j - 1 : s[a + l] # NL
  PROVE  FitsAt(s, a + j) <=> j <= MaxStr
<1>1. Len(s) \in Nat /\ a \in Nat /\ a # Len(s) /\ Chunk \in Nat /\ Chunk # 0 /\ MaxStr \in Nat
  BY SizesAssumption, LenProperties
<1>2. PICK m \in Nat : a = LineOf(s, a + 1) + m * Chunk BY <1>1 DEF Aligned
<1>3. PICK x \in Nat : x = LineOf(s, a + 1)
  <2>1. a + 1 \in Nat /\ a + 1 # 0 BY <1>1
  <2>2. LineOf(s, a + 1) \in 0 .. a + 1 - 1 BY <2>1, LineProperty
  <2> QED BY <1>1, <2>2
<1>4. j \in Nat /\ j # 0 BY <1>1
<1>5. PICK k \in Nat : k = a + j BY <1>1, <1>4
<1>6. PICK mc \in Nat : mc = m * Chunk BY <1>1
<1>7. k - x - 1 = mc + (j - 1) /\ j - 1 \in 0 .. Chunk - 1 BY <1>1, <1>2, <1>3, <1>4, <1>5, <1>6
<1>8. (mc + (j - 1)) % Chunk = j - 1 BY <1>1, <1>6, <1>7, Remainder
<1>9. LineOf(s, k) = x
  <2>1. LineOf(s, a + j) = LineOf(s, a + 1) BY <1>1, <1>4, SameLine
  <2> QED BY <1>3, <1>5, <2>1
<1>10. FitsAt(s, k) <=> (k - x - 1) % Chunk < MaxStr BY <1>9 DEF FitsAt
<1>11. (k - x - 1) % Chunk = j - 1 BY <1>7, <1>8
<1> QED BY <1>1, <1>4, <1>5, <1>10, <1>11

LEMMA FgetsProperty ==
  ASSUME NEW S, NEW s \in Seq(S), NEW a \in 0 .. Len(s) - 1, NEW n, n = FgetsLength(s, a)
  PROVE  /\ n \in 1 .. Len(s) - a /\ n <= Chunk
         /\ \A l \in 1 .. n - 1 : s[a + l] # NL
         /\ n = Chunk \/ n = Len(s) - a \/ s[a + n] = NL
<1>1. Len(s) \in Nat /\ Len(s) - a \in Nat /\ Len(s) - a # 0 /\ Chunk \in Nat /\ Chunk # 0
  BY SizesAssumption, LenProperties
<1> DEFINE A == {Chunk, Len(s) - a} \cup {k \in 1 .. Len(s) - a : s[a + k] = NL}
<1>2. A \in SUBSET Nat /\ A # {} BY <1>1
<1>3. n = Min(A) BY DEF FgetsLength
<1>4. n \in A /\ \A y \in A : n <= y
  <2> HIDE DEF A
  <2> QED BY <1>2, <1>3, MinProperty
<1>5. n <= Chunk /\ n <= Len(s) - a BY <1>4
<1>6. n \in Nat /\ n # 0 BY <1>1, <1>4
<1>7. ASSUME NEW l \in 1 .. n - 1 PROVE s[a + l] # NL
  <2>1. l \in 1 .. Len(s) - a /\ ~(n <= l) BY <1>1, <1>5, <1>6
  <2> QED BY <1>4, <2>1
<1>8. n = Chunk \/ n = Len(s) - a \/ s[a + n] = NL BY <1>4
<1> QED BY <1>1, <1>5, <1>6, <1>7, <1>8

LEMMA AlignedNext ==
  ASSUME NEW S, NEW s \in Seq(S), NEW a \in 0 .. Len(s) - 1, Aligned(s, a),
         NEW n \in Nat, n = FgetsLength(s, a)
  PROVE  Aligned(s, a + n)
<1>1. Len(s) \in Nat /\ a \in Nat /\ a # Len(s) /\ Chunk \in Nat BY SizesAssumption, LenProperties
<1>2. /\ n \in 1 .. Len(s) - a
      /\ \A l \in 1 .. n - 1 : s[a + l] # NL
      /\ n = Chunk \/ n = Len(s) - a \/ s[a + n] = NL
  BY FgetsProperty
<1>3. CASE n = Len(s) - a
  <2>1. a + n = Len(s) BY <1>1, <1>2, <1>3
  <2> QED BY <2>1 DEF Aligned
<1>4. CASE s[a + n] = NL
  <2>1. a + n + 1 \in Nat /\ a + n + 1 # 0 /\ a + n \in 1 .. a + n + 1 - 1 BY <1>1, <1>2
  <2>2. PICK x \in Nat : x = LineOf(s, a + n + 1)
    <3>1. LineOf(s, a + n + 1) \in 0 .. a + n + 1 - 1 BY <2>1, LineProperty
    <3> QED BY <1>1, <3>1
  <2>3. x \in 0 .. a + n + 1 - 1 /\ a + n <= x BY <1>4, <2>1, <2>2, LineProperty
  <2>4. a + n = x + 0 * Chunk
    <3>1. 0 * Chunk = 0 BY <1>1
    <3>2. a + n = x
      <4>1. a \in Nat BY <1>1
      <4> QED BY <2>3, <4>1
    <3>3. x + 0 = x OBVIOUS
    <3> QED BY <3>1, <3>2, <3>3
  <2> QED BY <2>2, <2>4 DEF Aligned
<1>5. CASE n = Chunk /\ s[a + n] # NL
  <2>1. PICK j \in Nat : j = n + 1 OBVIOUS
  <2>2. j # 0 /\ a + j = a + n + 1
    <3>1. a \in Nat BY <1>1
    <3> QED BY <2>1, <3>1
  <2>3. LineOf(s, a + n + 1) = LineOf(s, a + 1)
    <3>1. \A l \in 1 .. j - 1 : l \in 1 .. n - 1 \/ l = n BY <1>1, <1>2, <2>1
    <3>2. \A l \in 1 .. j - 1 : s[a + l] # NL BY <1>2, <1>5, <3>1
    <3>3. LineOf(s, a + j) = LineOf(s, a + 1) BY <1>1, <2>2, <3>2, SameLine
    <3> QED BY <2>2, <3>3
  <2>4. PICK m \in Nat : a = LineOf(s, a + 1) + m * Chunk BY <1>1 DEF Aligned
  <2>5. PICK x : x = LineOf(s, a + 1) OBVIOUS
  <2>6. x \in Nat
    <3>1. a + 1 \in Nat /\ a + 1 # 0 BY <1>1
    <3>2. LineOf(s, a + 1) \in 0 .. a + 1 - 1 BY <3>1, LineProperty
    <3> QED BY <1>1, <2>5, <3>2
  <2>7. (m + 1) * Chunk = m * Chunk + Chunk BY <1>1
  <2>8. PICK mc \in Nat : mc = m * Chunk BY <1>1
  <2>9. a + n = x + (m + 1) * Chunk BY <1>1, <1>5, <2>4, <2>5, <2>6, <2>7, <2>8
  <2>10. m + 1 \in Nat OBVIOUS
  <2> QED BY <2>3, <2>5, <2>9, <2>10 DEF Aligned
<1> QED BY <1>2, <1>3, <1>4, <1>5
(* The characters of the text that are written. *)
Kept(s) == [k \in DOMAIN s |-> IF FitsAt(s, k) THEN <<s[k]>> ELSE <<>>]

(* P[a] is what is written of the first a characters. *)
IsWritten(P, S, s) ==
  /\ P \in [0 .. Len(s) -> Seq(S)] /\ P[0] = <<>>
  /\ \A k \in 1 .. Len(s) : P[k] = P[k - 1] \o (IF FitsAt(s, k) THEN <<s[k]>> ELSE <<>>)
  /\ P[Len(s)] = FlattenSeq(Kept(s))

LEMMA WrittenExists ==
  ASSUME NEW S, NEW s \in Seq(S)
  PROVE  \E P : IsWritten(P, S, s)
<1>1. /\ Len(s) \in Nat /\ DOMAIN s = 1 .. Len(s)
      /\ \A k \in 1 .. Len(s) : s[k] \in S
  BY LenProperties, ElementOfSeq
<1>2. <<>> \in Seq(S) /\ \A c \in S : <<c>> \in Seq(S) OBVIOUS
<1>3. \A k \in 1 .. Len(s) : (IF FitsAt(s, k) THEN <<s[k]>> ELSE <<>>) \in Seq(S) BY <1>1, <1>2
<1>4. PICK q \in [1 .. Len(s) -> Seq(S)] : q = Kept(s) BY <1>1, <1>3 DEF Kept
<1>5. q \in Seq(Seq(S)) /\ Len(q) = Len(s) BY <1>1
<1>6. \A k \in 1 .. Len(s) : q[k] = IF FitsAt(s, k) THEN <<s[k]>> ELSE <<>> BY <1>1, <1>4 DEF Kept
<1>7. CASE Len(s) = 0
  <2>1. q = <<>> /\ FlattenSeq(q) = <<>> BY <1>5, <1>7, EmptySeq DEF FlattenSeq
  <2> DEFINE P == [k \in 0 .. Len(s) |-> <<>>]
  <2>2. P \in [0 .. Len(s) -> Seq(S)] /\ P[0] = <<>> BY <1>2, <1>7
  <2>3. \A k \in 1 .. Len(s) : FALSE BY <1>7
  <2> HIDE DEF P
  <2>4. IsWritten(P, S, s) BY <1>4, <1>7, <2>1, <2>2, <2>3 DEF IsWritten
  <2> QED BY <2>4
<1>8. CASE Len(s) # 0
  <2>1. PICK f \in [1 .. Len(q) -> Seq(S)] : Unfolds(q, f, Len(q)) /\ FlattenSeq(q) = f[Len(q)]
    BY <1>5, <1>8, FlattenProperty
  <2> DEFINE P == [k \in 0 .. Len(s) |-> IF k = 0 THEN <<>> ELSE f[k]]
  <2>2. \A k \in 0 .. Len(s) : k = 0 \/ k \in 1 .. Len(q) BY <1>1, <1>5
  <2>3. P \in [0 .. Len(s) -> Seq(S)] BY <1>2, <2>1, <2>2
  <2>4. P[0] = <<>> /\ \A k \in 1 .. Len(s) : P[k] = f[k] BY <1>1
  <2> HIDE DEF P
  <2>5. ASSUME NEW k \in 1 .. Len(s) PROVE P[k] = P[k - 1] \o q[k]
    <3>1. CASE k = 1
      <4>1. P[k] = q[k] BY <2>1, <2>4, <3>1 DEF Unfolds
      <4>2. P[k - 1] = <<>> BY <2>4, <3>1
      <4>3. q[k] \in Seq(S) BY <1>4
      <4>4. <<>> \o q[k] = q[k] BY <4>3, ConcatEmptySeq
      <4> QED BY <4>1, <4>2, <4>4
    <3>2. CASE k # 1
      <4>1. k \in 2 .. Len(q) /\ k - 1 \in 1 .. Len(s) BY <1>1, <1>5, <3>2
      <4> QED BY <2>1, <2>4, <4>1 DEF Unfolds
    <3> QED BY <3>1, <3>2
  <2>6. P[Len(s)] = FlattenSeq(q)
    <3>1. Len(s) \in 1 .. Len(s) BY <1>1, <1>8
    <3> QED BY <1>5, <2>1, <2>4, <3>1
  <2>7. IsWritten(P, S, s) BY <1>4, <1>6, <2>3, <2>4, <2>5, <2>6 DEF IsWritten
  <2> QED BY <2>7
<1> QED BY <1>7, <1>8

LEMMA OneLonger ==
  ASSUME NEW S, NEW s \in Seq(S), NEW a \in Nat, NEW j \in Nat, a + j + 1 <= Len(s)
  PROVE  SubSeq(s, a + 1, a + j) \o <<s[a + j + 1]>> = SubSeq(s, a + 1, a + j + 1)
<1>1. Len(s) \in Nat /\ a + j + 1 \in 1 .. Len(s) BY LenProperties
<1>2. PICK x \in Seq(S) : x = SubSeq(s, a + 1, a + j)
  <2>1. SubSeq(s, a + 1, a + j) \in Seq(S) BY <1>1
  <2> QED BY <2>1
<1>3. PICK y \in Seq(S) : y = SubSeq(s, a + 1, a + j + 1)
  <2>1. SubSeq(s, a + 1, a + j + 1) \in Seq(S) BY <1>1
  <2> QED BY <2>1
<1>4. Len(x) = j /\ \A k \in 1 .. j : x[k] = s[a + k] BY <1>1, <1>2
<1>5. Len(y) = j + 1 /\ \A k \in 1 .. j + 1 : y[k] = s[a + k] BY <1>1, <1>3
<1>6. PICK z \in Seq(S) : z = <<s[a + j + 1]>>
  <2>1. s[a + j + 1] \in S BY <1>1, ElementOfSeq
  <2>2. <<s[a + j + 1]>> \in Seq(S) BY <2>1
  <2> QED BY <2>2
<1>7. Len(z) = 1 /\ z[1] = s[a + j + 1] BY <1>6
<1>8. /\ x \o z \in Seq(S) /\ Len(x \o z) = j + 1
      /\ \A k \in 1 .. j + 1 : (x \o z)[k] = IF k <= j THEN x[k] ELSE z[k - j]
  <2>1. /\ x \o z \in Seq(S) /\ Len(x \o z) = Len(x) + Len(z)
        /\ \A k \in 1 .. Len(x) + Len(z) : (x \o z)[k] = IF k <= Len(x) THEN x[k] ELSE z[k - Len(x)]
    BY ConcatProperties
  <2>2. Len(x) = j /\ Len(z) = 1 BY <1>4, <1>7
  <2> QED BY <2>1, <2>2
<1>9. \A k \in 1 .. j + 1 : (x \o z)[k] = y[k]
  <2>1. ASSUME NEW k \in 1 .. j + 1 PROVE (x \o z)[k] = y[k]
    <3>1. CASE k <= j
      <4>1. k \in 1 .. j BY <3>1
      <4> QED BY <1>4, <1>5, <1>8, <3>1, <4>1
    <3>2. CASE ~(k <= j)
      <4>1. k - j = 1 /\ a + k = a + j + 1 BY <3>2
      <4> QED BY <1>5, <1>7, <1>8, <3>2, <4>1
    <3> QED BY <3>1, <3>2
  <2> QED BY <2>1
<1>10. PICK u \in Seq(S) : u = x \o z BY <1>8
<1>11. u = y BY <1>5, <1>8, <1>9, <1>10, SeqEqual
<1> QED BY <1>2, <1>3, <1>6, <1>10, <1>11
(* How much of n characters is written. *)
Cut(n) == IF n <= MaxStr THEN n ELSE MaxStr

LEMMA DisplayProperty ==
  ASSUME NEW S, NEW s \in Seq(S), \A k \in 1 .. Len(s) : s[k] # Nul
  PROVE  display_message(s) = SubSeq(s, 1, Cut(Len(s)))
<1>1. Len(s) \in Nat /\ DOMAIN s = 1 .. Len(s) /\ MaxStr \in Nat BY SizesAssumption, LenProperties
<1>2. {k - 1 : k \in {l \in DOMAIN s : s[l] = Nul}} = {} BY <1>1
<1> DEFINE A == {Len(s), MaxStr}
<1>3. A \in SUBSET Nat /\ A # {} BY <1>1
<1>4. Min(A) \in A /\ \A y \in A : Min(A) <= y
  <2> HIDE DEF A
  <2> QED BY <1>3, MinProperty
<1>5. Min(A) = Cut(Len(s)) BY <1>1, <1>4 DEF Cut
<1>6. {Len(s), MaxStr} \cup {k - 1 : k \in {l \in DOMAIN s : s[l] = Nul}} = A BY <1>2
<1> HIDE DEF A
<1> QED BY <1>5, <1>6 DEF display_message

IsPart(x, S, s, a, n) == x \in Seq(S) /\ Len(x) = n /\ \A k \in 1 .. n : x[k] = s[a + k]

LEMMA SubProperty ==
  ASSUME NEW S, NEW s \in Seq(S), NEW a \in Nat, NEW n \in Nat, a + n <= Len(s)
  PROVE  IsPart(SubSeq(s, a + 1, a + n), S, s, a, n)
<1>1. Len(s) \in Nat BY LenProperties
<1> QED BY <1>1 DEF IsPart

LEMMA SubOfSub ==
  ASSUME NEW S, NEW s \in Seq(S), NEW a \in Nat, NEW n \in Nat, a + n <= Len(s), NEW m \in 0 .. n
  PROVE  SubSeq(SubSeq(s, a + 1, a + n), 1, m) = SubSeq(s, a + 1, a + m)
<1>1. Len(s) \in Nat BY LenProperties
<1>2. PICK x : x = SubSeq(s, a + 1, a + n) OBVIOUS
<1>3. x \in Seq(S) /\ Len(x) = n /\ \A k \in 1 .. n : x[k] = s[a + k]
  <2>1. IsPart(SubSeq(s, a + 1, a + n), S, s, a, n) BY SubProperty
  <2> QED BY <1>2, <2>1 DEF IsPart
<1>4. PICK y : y = SubSeq(s, a + 1, a + m) OBVIOUS
<1>5. y \in Seq(S) /\ Len(y) = m /\ \A k \in 1 .. m : y[k] = s[a + k]
  <2>1. m \in Nat /\ a + m <= Len(s) BY <1>1
  <2>2. IsPart(SubSeq(s, a + 1, a + m), S, s, a, m) BY <2>1, SubProperty
  <2> QED BY <1>4, <2>2 DEF IsPart
<1>6. PICK z \in Seq(S) : z = SubSeq(x, 1, m)
  <2>1. SubSeq(x, 1, m) \in Seq(S) BY <1>3
  <2> QED BY <2>1
<1>7. Len(z) = m /\ \A k \in 1 .. m : z[k] = x[k] BY <1>3, <1>6
<1>8. \A k \in 1 .. m : z[k] = y[k]
  <2>1. \A k \in 1 .. m : k \in 1 .. n OBVIOUS
  <2> QED BY <1>3, <1>5, <1>7, <2>1
<1>9. z = y BY <1>5, <1>7, <1>8, SeqEqual
<1> QED BY <1>2, <1>4, <1>6, <1>9

IsAssociative(S) == \A u, v, w \in Seq(S) : (u \o v) \o w = u \o (v \o w)

LEMMA Associative == ASSUME NEW S PROVE IsAssociative(S)
BY DEF IsAssociative

(* Of j characters of a buffer that begins at place a those are written    *)
(* that display_message() lets through.                                    *)
UpTo(P, s, a, j) == P[a + j] = P[a] \o SubSeq(s, a + 1, a + Cut(j))

LEMMA OneMoreWritten ==
  ASSUME NEW S, NEW s \in Seq(S), NEW P, IsWritten(P, S, s), NEW a \in 0 .. Len(s) - 1, Aligned(s, a),
         NEW j \in Nat, a + j + 1 <= Len(s), j + 1 <= Chunk, \A l \in 1 .. j : s[a + l] # NL,
         UpTo(P, s, a, j)
  PROVE  UpTo(P, s, a, j + 1)
<1>1. Len(s) \in Nat /\ a \in Nat /\ Chunk \in Nat /\ MaxStr \in Nat BY SizesAssumption, LenProperties
<1>2. PICK b \in Nat : b = j + 1 OBVIOUS
<1>3. PICK k \in 1 .. Len(s) : k = a + j + 1
  <2>1. a + j + 1 \in 1 .. Len(s) BY <1>1
  <2> QED BY <2>1
<1>4. k - 1 = a + j /\ k = a + b /\ k \in Nat BY <1>1, <1>2, <1>3
<1>5. PICK pa \in Seq(S), y \in Seq(S) : pa = P[a] /\ y = P[a + j]
  <2>1. a \in 0 .. Len(s) /\ a + j \in 0 .. Len(s) BY <1>1
  <2> QED BY <2>1 DEF IsWritten
<1>6. P[k] = y \o (IF FitsAt(s, k) THEN <<s[k]>> ELSE <<>>)
  <2>1. P[k] = P[k - 1] \o (IF FitsAt(s, k) THEN <<s[k]>> ELSE <<>>) BY DEF IsWritten
  <2> QED BY <1>4, <1>5, <2>1
<1>7. FitsAt(s, k) <=> b <= MaxStr
  <2>1. b \in 1 .. Chunk /\ b - 1 = j BY <1>1, <1>2
  <2>2. FitsAt(s, a + b) <=> b <= MaxStr BY <2>1, FitsInBuffer
  <2> QED BY <1>4, <2>2
<1>8. CASE b <= MaxStr
  <2>1. Cut(j) = j /\ Cut(b) = b BY <1>1, <1>2, <1>8 DEF Cut
  <2>2. SubSeq(s, a + 1, a + j) \o <<s[a + j + 1]>> = SubSeq(s, a + 1, a + j + 1) BY <1>1, OneLonger
  <2>3. PICK x \in Seq(S) : x = SubSeq(s, a + 1, a + j)
    <3>1. SubSeq(s, a + 1, a + j) \in Seq(S) BY <1>1
    <3> QED BY <3>1
  <2>4. PICK z \in Seq(S) : z = <<s[k]>>
    <3>1. s[k] \in S BY ElementOfSeq
    <3>2. <<s[k]>> \in Seq(S) BY <3>1
    <3> QED BY <3>2
  <2>5. x \o z = SubSeq(s, a + 1, a + b)
    <3>1. a + j + 1 = a + b BY <1>3, <1>4
    <3> QED BY <1>3, <2>2, <2>3, <2>4, <3>1
  <2>6. y = pa \o x BY <1>5, <2>1, <2>3 DEF UpTo
  <2>7. P[k] = y \o z BY <1>6, <1>7, <1>8, <2>4
  <2>8. (pa \o x) \o z = pa \o (x \o z)
    <3>1. IsAssociative(S) BY Associative
    <3>2. \A u, v, w \in Seq(S) : (u \o v) \o w = u \o (v \o w) BY <3>1 DEF IsAssociative
    <3>3. \A v, w \in Seq(S) : (pa \o v) \o w = pa \o (v \o w) BY <3>2, Zenon
    <3>4. \A w \in Seq(S) : (pa \o x) \o w = pa \o (x \o w) BY <3>3, Zenon
    <3> QED BY <3>4, Zenon
  <2>9. P[a + b] = P[a] \o SubSeq(s, a + 1, a + Cut(b))
    <3>1. P[k] = pa \o (x \o z) BY <2>6, <2>7, <2>8
    <3> QED BY <1>4, <1>5, <2>1, <2>5, <3>1
  <2> QED BY <1>2, <2>9 DEF UpTo
<1>9. CASE ~(b <= MaxStr)
  <2>1. Cut(j) = MaxStr /\ Cut(b) = MaxStr BY <1>1, <1>2, <1>9 DEF Cut
  <2>2. y \o <<>> = y BY ConcatEmptySeq
  <2>3. P[k] = y BY <1>6, <1>7, <1>9, <2>2
  <2>4. P[a + b] = P[a] \o SubSeq(s, a + 1, a + Cut(b)) BY <1>4, <1>5, <2>1, <2>3 DEF UpTo
  <2> QED BY <1>2, <2>4 DEF UpTo
<1> QED BY <1>8, <1>9

(* A buffer is written as the text says. *)
LEMMA BufferWritten ==
  ASSUME NEW S, NEW s \in Seq(S), NEW P, IsWritten(P, S, s), NEW a \in 0 .. Len(s) - 1, Aligned(s, a),
         NEW n \in Nat, n = FgetsLength(s, a), \A k \in 1 .. Len(s) : s[k] # Nul
  PROVE  P[a + n] = P[a] \o display_message(SubSeq(s, a + 1, a + n))
<1>1. Len(s) \in Nat /\ a \in Nat /\ Chunk \in Nat /\ MaxStr \in Nat BY SizesAssumption, LenProperties
<1>2. n \in 1 .. Len(s) - a /\ n <= Chunk /\ \A l \in 1 .. n - 1 : s[a + l] # NL BY FgetsProperty
<1>3. a + n <= Len(s)
  <2>1. n <= Len(s) - a BY <1>2
  <2> QED BY <1>1, <2>1
<1> DEFINE Bad == {j \in 0 .. n : ~UpTo(P, s, a, j)}
<1>4. Bad = {}
  <2> SUFFICES ASSUME Bad # {} PROVE FALSE OBVIOUS
  <2>1. Bad \in SUBSET Nat OBVIOUS
  <2>2. PICK b \in Bad : \A j \in Bad : b <= j BY <2>1, LeastExists
  <2>3. b \in 0 .. n /\ ~UpTo(P, s, a, b) BY <2>2
  <2>4. b # 0
    <3> SUFFICES ASSUME b = 0 PROVE FALSE OBVIOUS
    <3>1. Cut(0) = 0 /\ a + 0 = a BY <1>1 DEF Cut
    <3>2. SubSeq(s, a + 1, a) = <<>> BY <1>1
    <3>3. P[a] \in Seq(S)
      <4>1. a \in 0 .. Len(s) BY <1>1
      <4> QED BY <4>1 DEF IsWritten
    <3>4. P[a] \o <<>> = P[a] BY <3>3, ConcatEmptySeq
    <3>5. UpTo(P, s, a, 0) BY <3>1, <3>2, <3>4 DEF UpTo
    <3> QED BY <2>3, <3>5
  <2>5. PICK j \in Nat : j = b - 1 BY <2>3, <2>4
  <2>6. j \in 0 .. n /\ ~(b <= j) /\ b = j + 1 BY <2>3, <2>4, <2>5
  <2>7. UpTo(P, s, a, j)
    <3>1. j \notin Bad
      <4> HIDE DEF Bad
      <4> QED BY <2>2, <2>6
    <3> QED BY <2>6, <3>1
  <2> HIDE DEF Bad
  <2>8. j + 1 <= n BY <2>3, <2>6
  <2>9. a + j + 1 <= Len(s) /\ j + 1 <= Chunk BY <1>1, <1>2, <1>3, <2>8
  <2>10. \A l \in 1 .. j : s[a + l] # NL
    <3>1. \A l \in 1 .. j : l \in 1 .. n - 1 BY <2>8
    <3> QED BY <1>2, <3>1
  <2>11. UpTo(P, s, a, j + 1) BY <2>7, <2>9, <2>10, OneMoreWritten
  <2> QED BY <2>3, <2>6, <2>11
<1>5. UpTo(P, s, a, n) BY <1>4
<1> HIDE DEF Bad
<1>6. PICK x : x = SubSeq(s, a + 1, a + n) OBVIOUS
<1>7. x \in Seq(S) /\ Len(x) = n /\ \A k \in 1 .. n : x[k] = s[a + k]
  <2>1. a \in Nat BY <1>1
  <2>2. IsPart(SubSeq(s, a + 1, a + n), S, s, a, n) BY <1>3, <2>1, SubProperty
  <2> QED BY <1>6, <2>2 DEF IsPart
<1>8. \A k \in 1 .. Len(x) : x[k] # Nul
  <2>1. \A k \in 1 .. n : a + k \in 1 .. Len(s) BY <1>1, <1>3
  <2> QED BY <1>7, <2>1
<1>9. PICK m \in 0 .. n : m = Cut(n)
  <2>1. Cut(n) \in 0 .. n BY <1>1 DEF Cut
  <2> QED BY <2>1
<1>10. display_message(x) = SubSeq(x, 1, m)
  <2>1. display_message(x) = SubSeq(x, 1, Cut(Len(x))) BY <1>7, <1>8, DisplayProperty
  <2> QED BY <1>7, <1>9, <2>1
<1>11. SubSeq(SubSeq(s, a + 1, a + n), 1, m) = SubSeq(s, a + 1, a + m) BY <1>1, <1>3, SubOfSub
<1> QED BY <1>5, <1>6, <1>9, <1>10, <1>11 DEF UpTo

(* What the loop of cat has done after k turns. *)
CatInv(P, s, k, st) ==
  /\ st \in [at : 0 .. Len(s), out : {P[a] : a \in 0 .. Len(s)}]
  /\ k <= st.at /\ Aligned(s, st.at) /\ st.out = P[st.at]

LEMMA CatTurnKeeps ==
  ASSUME NEW S, NEW s \in Seq(S), NEW P, IsWritten(P, S, s), \A l \in 1 .. Len(s) : s[l] # Nul,
         NEW k \in Nat, k < Len(s), NEW st, CatInv(P, s, k, st)
  PROVE  CatInv(P, s, k + 1, CatTurn(s, st))
<1>1. Len(s) \in Nat BY LenProperties
<1>2. PICK a \in 0 .. Len(s) : a = st.at BY DEF CatInv
<1>3. k <= a /\ Aligned(s, a) /\ st.out = P[a] BY <1>2 DEF CatInv
<1>4. CASE a = Len(s)
  <2>1. CatTurn(s, st) = st BY <1>2, <1>4 DEF CatTurn
  <2>2. k + 1 <= a BY <1>1, <1>4
  <2> QED BY <1>2, <2>1, <2>2 DEF CatInv
<1>5. CASE a # Len(s)
  <2>1. a \in 0 .. Len(s) - 1 BY <1>1, <1>5
  <2>2. PICK n : n = FgetsLength(s, a) OBVIOUS
  <2>3. n \in 1 .. Len(s) - a BY <2>1, <2>2, FgetsProperty
  <2>4. n \in Nat BY <2>3
  <2>5. PICK e \in 0 .. Len(s) : e = a + n
    <3>1. a + n \in 0 .. Len(s) BY <1>1, <2>1, <2>3
    <3> QED BY <3>1
  <2>6. Aligned(s, e) BY <1>3, <2>1, <2>2, <2>4, <2>5, AlignedNext
  <2>7. P[e] = P[a] \o display_message(SubSeq(s, a + 1, e))
    <3>1. P[a + n] = P[a] \o display_message(SubSeq(s, a + 1, a + n))
      BY <1>3, <2>1, <2>2, <2>4, BufferWritten
    <3> QED BY <2>5, <3>1
  <2>8. CatTurn(s, st) = [at |-> e, out |-> P[e]] BY <1>2, <1>3, <1>5, <2>2, <2>5, <2>7 DEF CatTurn
  <2>9. k + 1 <= e
    <3>1. 1 <= n /\ a \in Nat BY <1>1, <2>3
    <3> QED BY <1>3, <2>4, <2>5, <3>1
  <2> QED BY <2>6, <2>8, <2>9 DEF CatInv
<1> QED BY <1>4, <1>5

LEMMA CatProperty ==
  ASSUME NEW S, NEW s \in Seq(S), \A l \in 1 .. Len(s) : s[l] # Nul
  PROVE  CatOutput(s) = FlattenSeq(Kept(s))
<1>1. Len(s) \in Nat /\ Chunk \in Nat BY LenProperties, SizesAssumption
<1>2. PICK P : IsWritten(P, S, s) BY WrittenExists
<1> DEFINE m == Len(s)
           zero == [at |-> 0, out |-> <<>>]
           Body(c) == [k \in 0 .. m |-> IF k = 0 THEN zero ELSE CatTurn(s, c[k - 1])]
           C == CHOOSE c : c = Body(c)
           X == {st \in [at : 0 .. m, out : {P[a] : a \in 0 .. m}] : CatInv(P, s, 0, st)}
           step == [kx \in (1 .. m) \X X |-> CatTurn(s, kx[2])]
<1>3. CatInv(P, s, 0, zero)
  <2>1. LineOf(s, 0 + 1) = 0
    <3>1. LineOf(s, 1) \in 0 .. 1 - 1 BY LineProperty
    <3> QED BY <3>1
  <2>2. 0 = LineOf(s, 0 + 1) + 0 * Chunk
    <3>1. 0 * Chunk = 0 BY <1>1
    <3> QED BY <2>1, <3>1
  <2>3. Aligned(s, 0) BY <2>2 DEF Aligned
  <2>4. P[0] = <<>> /\ 0 \in 0 .. Len(s) BY <1>1, <1>2 DEF IsWritten
  <2>5. zero.at = 0 /\ zero.out = P[0] BY <2>4
  <2>6. zero \in [at : 0 .. Len(s), out : {P[a] : a \in 0 .. Len(s)}] BY <2>4
  <2> HIDE DEF zero
  <2> QED BY <2>3, <2>5, <2>6 DEF CatInv
<1>4. zero \in X BY <1>3 DEF CatInv
<1>5. ASSUME NEW st \in X, NEW k \in 1 .. m PROVE CatTurn(s, st) \in X
  <2>1. PICK z \in Nat : z = 0 OBVIOUS
  <2>2. CatInv(P, s, z, st) /\ z < Len(s) BY <1>1, <2>1
  <2>3. PICK y : y = CatTurn(s, st) OBVIOUS
  <2>4. CatInv(P, s, z + 1, y) BY <1>2, <2>2, <2>3, CatTurnKeeps
  <2>5. CatInv(P, s, 0, y) BY <2>1, <2>4 DEF CatInv
  <2>6. y \in X BY <2>5 DEF CatInv
  <2> HIDE DEF X
  <2> QED BY <2>3, <2>6
<1>6. step \in [(1 .. m) \X X -> X]
  <2> HIDE DEF X
  <2> QED BY <1>5
<1>7. \A k \in 1 .. m, y \in X : step[<<k, y>>] = CatTurn(s, y)
  <2> HIDE DEF X
  <2> QED OBVIOUS
<1>8. PICK f \in [0 .. m -> X] : Turns(f, zero, step, m)
  <2> HIDE DEF X, zero, step
  <2> QED BY <1>1, <1>4, <1>6, LoopRuns
<1> HIDE DEF X, step
<1>9. f = Body(f)
  <2>1. ASSUME NEW k \in 0 .. m PROVE f[k] = Body(f)[k]
    <3>1. Body(f)[k] = IF k = 0 THEN zero ELSE CatTurn(s, f[k - 1]) OBVIOUS
    <3> HIDE DEF zero, Body
    <3>2. CASE k = 0 BY <1>8, <3>1, <3>2 DEF Turns
    <3>3. CASE k # 0
      <4>1. k \in 1 .. m /\ k - 1 \in 0 .. m BY <1>1, <3>3
      <4>2. f[k - 1] \in X BY <4>1
      <4>3. f[k] = step[<<k, f[k - 1]>>] BY <1>8, <4>1 DEF Turns
      <4> QED BY <1>7, <3>1, <3>3, <4>1, <4>2, <4>3
    <3> QED BY <3>2, <3>3
  <2>2. DOMAIN Body(f) = 0 .. m /\ DOMAIN f = 0 .. m OBVIOUS
  <2> QED BY <2>1, <2>2
<1>10. C = Body(C)
  <2> HIDE DEF Body
  <2> QED BY <1>9, Zenon
<1>11. CatOutput(s) = C[m].out BY DEF CatOutput
<1> HIDE DEF C
<1>12. \A k \in 0 .. m : C[k] = IF k = 0 THEN zero ELSE CatTurn(s, C[k - 1]) BY <1>10
<1> HIDE DEF zero, Body
<1> DEFINE Bad == {k \in 0 .. m : ~CatInv(P, s, k, C[k])}
<1>13. Bad = {}
  <2> SUFFICES ASSUME Bad # {} PROVE FALSE OBVIOUS
  <2>1. Bad \in SUBSET Nat BY <1>1
  <2>2. PICK b \in Bad : \A k \in Bad : b <= k BY <2>1, LeastExists
  <2>3. b \in 0 .. m /\ ~CatInv(P, s, b, C[b]) BY <2>2
  <2>4. b # 0 BY <1>3, <1>12, <2>3
  <2>5. PICK j \in Nat : j = b - 1 BY <1>1, <2>3, <2>4
  <2>6. j \in 0 .. m /\ ~(b <= j) /\ b = j + 1 /\ j < Len(s) BY <1>1, <2>3, <2>4, <2>5
  <2>7. CatInv(P, s, j, C[j])
    <3>1. j \notin Bad
      <4> HIDE DEF Bad
      <4> QED BY <2>2, <2>6
    <3> QED BY <2>6, <3>1
  <2>8. CatInv(P, s, j + 1, CatTurn(s, C[j])) BY <1>2, <2>6, <2>7, CatTurnKeeps
  <2>9. C[b] = CatTurn(s, C[j]) BY <1>12, <2>3, <2>4, <2>5
  <2> QED BY <2>3, <2>6, <2>8, <2>9
<1>14. CatInv(P, s, m, C[m]) BY <1>1, <1>13
<1>15. C[m].at = Len(s) /\ C[m].out = P[C[m].at]
  <2>1. C[m].at \in 0 .. Len(s) /\ Len(s) <= C[m].at /\ C[m].out = P[C[m].at] BY <1>14 DEF CatInv
  <2> QED BY <1>1, <2>1
<1> QED BY <1>2, <1>11, <1>15 DEF IsWritten

---------------------------------------------------------------------------
(* What cat and wc print. *)

LEMMA TextType ==
  ASSUME NEW t \in Trees, NEW x
  PROVE  Text(t, x) \in Seq(STRING)
<1>1. <<>> \in Seq(STRING) OBVIOUS
<1> QED BY <1>1, TreesAssumption DEF Text

(* OutputExact of a text s. *)
CatExact(s, o) ==
  Nul \notin ToSet(s) /\ (\A k \in DOMAIN s : LineBefore(s, k) < MaxStr) => o = s
WcExact(s, o) ==
  o = <<Cardinality({k \in DOMAIN s : ~GapAt(s, k) /\ (k > 1 => GapAt(s, k - 1))}), Len(s),
        Cardinality({k \in DOMAIN s : s[k] = NL})>>

LEMMA SmallRemainder ==
  ASSUME NEW n \in Nat, NEW c \in Nat, c # 0, NEW m \in Nat, n < m
  PROVE  n % c < m
<1>1. CASE n < c
  <2>1. n = 0 * c + n /\ n \in 0 .. c - 1 BY <1>1
  <2>2. n % c = n BY <2>1, Remainder
  <2> QED BY <2>2
<1>2. CASE ~(n < c)
  <2>1. n % c \in 0 .. c - 1 OBVIOUS
  <2> QED BY <1>2, <2>1
<1> QED BY <1>1, <1>2

(* With short lines everything fits, and what is written is the text. *)
LEMMA AllKept ==
  ASSUME NEW S, NEW s \in Seq(S), \A k \in DOMAIN s : LineBefore(s, k) < MaxStr
  PROVE  FlattenSeq(Kept(s)) = s
<1>1. Len(s) \in Nat /\ DOMAIN s = 1 .. Len(s) BY LenProperties
<1>2. ASSUME NEW k \in 1 .. Len(s) PROVE FitsAt(s, k)
  <2>1. k \in Nat /\ k # 0 BY <1>1
  <2>2. PICK x : x = LineOf(s, k) OBVIOUS
  <2>3. x \in 0 .. k - 1 BY <2>1, <2>2, LineProperty
  <2>4. LineBefore(s, k) = k - 1 - x BY <2>2 DEF LineBefore, LineOf
  <2>5. PICK n \in Nat : n = k - x - 1 /\ n = k - 1 - x BY <2>1, <2>3
  <2>6. n < MaxStr BY <1>1, <2>4, <2>5
  <2>7. n % Chunk < MaxStr BY <2>6, SizesAssumption, SmallRemainder
  <2> QED BY <2>2, <2>5, <2>7 DEF FitsAt
<1>3. PICK P : IsWritten(P, S, s) BY WrittenExists
<1>4. /\ P \in [0 .. Len(s) -> Seq(S)] /\ P[0] = <<>> /\ P[Len(s)] = FlattenSeq(Kept(s))
      /\ \A k \in 1 .. Len(s) : P[k] = P[k - 1] \o <<s[k]>>
  BY <1>2, <1>3 DEF IsWritten
<1> DEFINE Bad == {k \in 0 .. Len(s) : P[k] # SubSeq(s, 1, k)}
<1>5. Bad = {}
  <2> SUFFICES ASSUME Bad # {} PROVE FALSE OBVIOUS
  <2>1. Bad \in SUBSET Nat BY <1>1
  <2>2. PICK b \in Bad : \A k \in Bad : b <= k BY <2>1, LeastExists
  <2>3. b \in 0 .. Len(s) /\ P[b] # SubSeq(s, 1, b) BY <2>2
  <2>4. b # 0
    <3>1. SubSeq(s, 1, 0) = <<>> OBVIOUS
    <3> QED BY <1>4, <2>3, <3>1
  <2>5. PICK j \in Nat : j = b - 1 BY <1>1, <2>3, <2>4
  <2>6. j \in 0 .. Len(s) /\ ~(b <= j) /\ b = j + 1 /\ b \in 1 .. Len(s)
    BY <1>1, <2>3, <2>4, <2>5
  <2>7. P[j] = SubSeq(s, 1, j)
    <3>1. j \notin Bad
      <4> HIDE DEF Bad
      <4> QED BY <2>2, <2>6
    <3> QED BY <2>6, <3>1
  <2>8. P[b] = SubSeq(s, 1, j) \o <<s[j + 1]>> BY <1>4, <2>5, <2>6, <2>7
  <2>9. SubSeq(s, 0 + 1, 0 + j) \o <<s[0 + j + 1]>> = SubSeq(s, 0 + 1, 0 + j + 1)
    <3>1. 0 + j + 1 <= Len(s) BY <1>1, <2>6
    <3> QED BY <3>1, OneLonger
  <2>10. 0 + 1 = 1 /\ 0 + j = j /\ 0 + j + 1 = j + 1 OBVIOUS
  <2> QED BY <2>3, <2>6, <2>8, <2>9, <2>10
<1>6. P[Len(s)] = SubSeq(s, 1, Len(s)) BY <1>1, <1>5
<1>7. SubSeq(s, 1, Len(s)) = s OBVIOUS
<1> QED BY <1>4, <1>6, <1>7

LEMMA CatIsExact == ASSUME NEW S, NEW s \in Seq(S) PROVE CatExact(s, CatOutput(s))
<1> SUFFICES ASSUME Nul \notin ToSet(s), \A k \in DOMAIN s : LineBefore(s, k) < MaxStr
             PROVE  CatOutput(s) = s
  BY DEF CatExact
<1>1. \A l \in 1 .. Len(s) : s[l] # Nul BY LenProperties DEF ToSet
<1>2. CatOutput(s) = FlattenSeq(Kept(s)) BY <1>1, CatProperty
<1> QED BY <1>2, AllKept

LEMMA WcIsExact ==
  ASSUME NEW S, NEW s \in Seq(S), NEW n, n = WcCounts(s)
  PROVE  WcExact(s, <<n.words, n.chars, n.lines>>)
<1>1. n = Counted(s, Len(s)) BY WcProperty
<1>2. /\ n.words = Cardinality(StartsTo(s, Len(s))) /\ n.chars = Len(s)
      /\ n.lines = Cardinality(LinesTo(s, Len(s)))
  BY <1>1 DEF Counted
<1>3. DOMAIN s = 1 .. Len(s) BY LenProperties
<1> QED BY <1>2, <1>3 DEF WcExact, StartsTo, LinesTo

LEMMA OutputNext == TypeOK /\ OutputExact /\ [Next]_vars => OutputExact'
<1> SUFFICES ASSUME TypeOK, OutputExact, [Next]_vars PROVE OutputExact' OBVIOUS
<1>1. tree \in Trees BY DEF TypeOK
<1>2. OutputExact' <=>
        (cmd'.name \in {"cat", "wc"} /\ ret' = 0 /\ ~HasVar(cmd'.arg) =>
           LET s == Text(tree', Lookup(tree', cwd', cmd'.arg))
           IN (cmd'.name = "cat" => CatExact(s, out')) /\ (cmd'.name = "wc" => WcExact(s, out')))
  BY DEF OutputExact, CatExact, WcExact, GapAt
<1>3. ASSUME NEW p \in Paths, bn_cat(p) PROVE OutputExact'
  <2>1. cmd' = [name |-> "cat", arg |-> p] /\ tree' = tree /\ cwd' = cwd
    BY <1>3 DEF bn_cat, Returns
  <2>2. ASSUME ret' = 0, ~HasVar(p) PROVE CatExact(Text(tree, Lookup(tree, cwd, p)), out')
    <3>1. file_path(p) = p BY <2>2 DEF file_path
    <3>2. PICK s \in Seq(STRING) : s = Text(tree, Lookup(tree, cwd, p)) BY <1>1, TextType
    <3>3. out' = CatOutput(s) BY <1>3, <2>2, <3>1, <3>2 DEF bn_cat, Returns
    <3> QED BY <3>2, <3>3, CatIsExact
  <2>3. cmd'.name = "cat" /\ cmd'.arg = p BY <2>1
  <2> QED BY <1>2, <2>1, <2>2, <2>3
<1>4. ASSUME NEW p \in Paths, bn_wc(p) PROVE OutputExact'
  <2>1. cmd' = [name |-> "wc", arg |-> p] /\ tree' = tree /\ cwd' = cwd
    BY <1>4 DEF bn_wc, Returns
  <2>2. ASSUME ret' = 0, ~HasVar(p) PROVE WcExact(Text(tree, Lookup(tree, cwd, p)), out')
    <3>1. file_path(p) = p BY <2>2 DEF file_path
    <3>2. PICK s \in Seq(STRING) : s = Text(tree, Lookup(tree, cwd, p)) BY <1>1, TextType
    <3>3. PICK n : n = WcCounts(s) OBVIOUS
    <3>4. out' = <<n.words, n.chars, n.lines>> BY <1>4, <2>2, <3>1, <3>2, <3>3 DEF bn_wc, Returns
    <3> QED BY <3>2, <3>3, <3>4, WcIsExact
  <2>3. cmd'.name = "wc" /\ cmd'.arg = p BY <2>1
  <2> QED BY <1>2, <2>1, <2>2, <2>3
<1>5. CASE \/ \E p \in Paths : bn_cd(p)
           \/ \E tokens \in LsArgs : bn_ls(tokens)
           \/ Prompt
  <2>1. cmd'.name \notin {"cat", "wc"} BY <1>5 DEF bn_cd, bn_ls, Prompt, Returns, Idle
  <2> QED BY <1>2, <2>1
<1>6. CASE UNCHANGED vars
  <2>1. /\ tree' = tree /\ cwd' = cwd /\ cmd' = cmd /\ ret' = ret /\ out' = out
    BY <1>6 DEF vars
  <2> QED BY <2>1 DEF OutputExact
<1> QED BY <1>3, <1>4, <1>5, <1>6 DEF Next

(* cat prints a text without '\0' as it is if its lines have at most       *)
(* MAX_STR_LEN characters, however many lines and buffers it takes, and wc *)
(* counts what its names say, for every text (builtins.c:408-586,          *)
(* io_helpers.c:13).                                                       *)
THEOREM OutputIsExact == Spec => []OutputExact
<1>1. Init => OutputExact BY DEF Init, Idle, OutputExact
<1> QED BY <1>1, TypeCorrect, OutputNext, PTL DEF Spec

---------------------------------------------------------------------------
(* The listing of a set of directories as a bag: N[d] are the names shown  *)
(* of directory d.                                                         *)

Showing(N, D, n) == {d \in D : n \in N[d]}

BagOf(N, D) == [n \in UNION {N[d] : d \in D} |-> Cardinality(Showing(N, D, n))]

Copies(b, n) == IF n \in DOMAIN b THEN b[n] ELSE 0

LEMMA BagOfProperty ==
  ASSUME NEW N, NEW D, NEW n
  PROVE  Copies(BagOf(N, D), n) = Cardinality(Showing(N, D, n))
<1>1. n \in DOMAIN BagOf(N, D) <=> \E d \in D : n \in N[d] BY DEF BagOf
<1>2. n \in DOMAIN BagOf(N, D) => BagOf(N, D)[n] = Cardinality(Showing(N, D, n)) BY DEF BagOf
<1>3. ASSUME n \notin DOMAIN BagOf(N, D) PROVE Cardinality(Showing(N, D, n)) = 0
  <2>1. Showing(N, D, n) = {} BY <1>1, <1>3 DEF Showing
  <2> QED BY <2>1, FS_EmptySet
<1> QED BY <1>2, <1>3 DEF Copies

LEMMA BagOfNone == ASSUME NEW N PROVE BagOf(N, {}) = EmptyBag
BY DEF BagOf, EmptyBag, SetToBag

LEMMA BagOfOne == ASSUME NEW N, NEW x PROVE BagOf(N, {x}) = SetToBag(N[x])
<1>1. UNION {N[d] : d \in {x}} = N[x] OBVIOUS
<1>2. ASSUME NEW n \in N[x] PROVE Cardinality(Showing(N, {x}, n)) = 1
  <2>1. Showing(N, {x}, n) = {x} BY <1>2 DEF Showing
  <2> QED BY <2>1, FS_Singleton
<1> QED BY <1>1, <1>2 DEF BagOf, SetToBag

LEMMA BagSum ==
  ASSUME NEW X, NEW Y
  PROVE  X (+) Y = [n \in DOMAIN X \cup DOMAIN Y |-> Copies(X, n) + Copies(Y, n)]
BY DEF (+), Copies

LEMMA BagOfSplit ==
  ASSUME NEW N, NEW A, NEW B, IsFiniteSet(A), IsFiniteSet(B), A \cap B = {}
  PROVE  BagOf(N, A \cup B) = BagOf(N, A) (+) BagOf(N, B)
<1> DEFINE X == BagOf(N, A)
           Y == BagOf(N, B)
           Z == BagOf(N, A \cup B)
<1>1. DOMAIN Z = DOMAIN X \cup DOMAIN Y BY DEF BagOf
<1>2. ASSUME NEW n PROVE Copies(Z, n) = Copies(X, n) + Copies(Y, n)
  <2> DEFINE a == Showing(N, A, n)
             b == Showing(N, B, n)
  <2>1. Showing(N, A \cup B, n) = a \cup b /\ a \cap b = {} /\ a \subseteq A /\ b \subseteq B
    BY DEF Showing
  <2> HIDE DEF a, b
  <2>2. IsFiniteSet(a) /\ IsFiniteSet(b) BY <2>1, FS_Subset
  <2>3. Cardinality(a) \in Nat /\ Cardinality(b) \in Nat BY <2>2, FS_CardinalityType
  <2>4. Cardinality(a \cup b) = Cardinality(a) + Cardinality(b) - Cardinality(a \cap b)
    BY <2>2, FS_Union
  <2>5. Cardinality(a \cap b) = 0 BY <2>1, FS_EmptySet
  <2>6. Cardinality(a \cup b) = Cardinality(a) + Cardinality(b) BY <2>3, <2>4, <2>5
  <2>7. Copies(X, n) = Cardinality(a) /\ Copies(Y, n) = Cardinality(b) BY BagOfProperty DEF a, b
  <2>8. Copies(Z, n) = Cardinality(a \cup b) BY <2>1, BagOfProperty
  <2> QED BY <2>6, <2>7, <2>8
<1>3. Z = [n \in DOMAIN Z |-> Z[n]] BY DEF BagOf
<1>4. \A n \in DOMAIN Z : Z[n] = Copies(Z, n) BY DEF Copies
<1> HIDE DEF X, Y, Z
<1>5. Z = [n \in DOMAIN Z |-> Copies(X, n) + Copies(Y, n)] BY <1>2, <1>3, <1>4
<1>6. Z = [n \in DOMAIN X \cup DOMAIN Y |-> Copies(X, n) + Copies(Y, n)] BY <1>1, <1>5
<1>7. Z = X (+) Y BY <1>6, BagSum
<1> QED BY <1>7 DEF Z, X, Y

(* The loop over the entries, each of which has the directories D[e] below *)
(* it.                                                                     *)
Spread(x, D, s) == {x} \cup UNION {D[e] : e \in s}

Distinct(U, x, D) ==
  /\ IsFiniteSet(U) /\ x \in U
  /\ \A e \in DOMAIN D : D[e] \subseteq U /\ x \notin D[e]
  /\ \A e, f \in DOMAIN D : e # f => D[e] \cap D[f] = {}

LEMMA SpreadStep ==
  ASSUME NEW N, NEW U, NEW x, NEW D, Distinct(U, x, D),
         NEW s \in SUBSET DOMAIN D, NEW c \in s
  PROVE  BagOf(N, Spread(x, D, s)) = BagOf(N, D[c]) (+) BagOf(N, Spread(x, D, s \ {c}))
<1> DEFINE A == D[c]
           B == Spread(x, D, s \ {c})
<1>1. Spread(x, D, s) = A \cup B BY DEF Spread
<1>2. A \cap B = {} BY DEF Spread, Distinct
<1>3. A \subseteq U /\ B \subseteq U BY DEF Spread, Distinct
<1> HIDE DEF A, B
<1>4. IsFiniteSet(A) /\ IsFiniteSet(B) BY <1>3, FS_Subset DEF Distinct
<1>5. BagOf(N, A \cup B) = BagOf(N, A) (+) BagOf(N, B) BY <1>2, <1>4, BagOfSplit
<1> QED BY <1>1, <1>5 DEF A, B

LEMMA ListDirectoryProperty ==
  ASSUME NEW N, NEW U, NEW x, NEW D, IsFiniteSet(DOMAIN D), Distinct(U, x, D),
         NEW below, below = [e \in DOMAIN D |-> BagOf(N, D[e])]
  PROVE  ListDirectory(N[x], below) = BagOf(N, Spread(x, D, DOMAIN D))
<1> DEFINE S == DOMAIN D
           base == SetToBag(N[x])
           pick(s) == CHOOSE e \in s : TRUE
           Body(f) == [s \in SUBSET S |-> IF s = {} THEN base
                                           ELSE below[pick(s)] (+) f[s \ {pick(s)}]]
           I == CHOOSE f : f = Body(f)
           h == [s \in SUBSET S |-> BagOf(N, Spread(x, D, s))]
<1>1. DOMAIN below = S OBVIOUS
<1>2. ListDirectory(N[x], below) = I[S] BY <1>1 DEF ListDirectory, MapThenFoldSet
<1>3. BagOf(N, Spread(x, D, {})) = base
  <2>1. Spread(x, D, {}) = {x} BY DEF Spread
  <2> QED BY <2>1, BagOfOne
<1>4. ASSUME NEW s \in SUBSET S, s # {}
      PROVE  pick(s) \in s /\ BagOf(N, Spread(x, D, s)) =
                                below[pick(s)] (+) BagOf(N, Spread(x, D, s \ {pick(s)}))
  <2>1. pick(s) \in s BY <1>4
  <2> HIDE DEF pick
  <2>2. below[pick(s)] = BagOf(N, D[pick(s)]) BY <2>1
  <2> QED BY <2>1, <2>2, SpreadStep
<1> HIDE DEF pick, base
<1>5. h = Body(h)
  <2>1. ASSUME NEW s \in SUBSET S PROVE h[s] = IF s = {} THEN base ELSE below[pick(s)] (+) h[s \ {pick(s)}]
    <3>1. h[s] = BagOf(N, Spread(x, D, s)) /\ h[s \ {pick(s)}] = BagOf(N, Spread(x, D, s \ {pick(s)}))
      OBVIOUS
    <3> HIDE DEF h
    <3> QED BY <1>3, <1>4, <3>1
  <2>2. h = [s \in SUBSET S |-> h[s]] OBVIOUS
  <2> HIDE DEF h
  <2> QED BY <2>1, <2>2
<1>6. I = Body(I)
  <2> HIDE DEF Body, h
  <2> QED BY <1>5, Zenon
<1> HIDE DEF I
<1>7. \A s \in SUBSET S : I[s] = IF s = {} THEN base ELSE below[pick(s)] (+) I[s \ {pick(s)}]
  BY <1>6
<1> HIDE DEF Body
<1> DEFINE Wrong == {s \in SUBSET S : I[s] # BagOf(N, Spread(x, D, s))}
           Bad == {Cardinality(s) : s \in Wrong}
<1>8. ASSUME NEW s \in SUBSET S PROVE IsFiniteSet(s) /\ Cardinality(s) \in Nat
  BY FS_Subset, FS_CardinalityType
<1>9. Wrong = {}
  <2> SUFFICES ASSUME Wrong # {} PROVE FALSE OBVIOUS
  <2>1. Bad \in SUBSET Nat /\ Bad # {} BY <1>8
  <2> HIDE DEF Bad
  <2>2. PICK b \in Bad : \A k \in Bad : b <= k BY <2>1, LeastExists
  <2>3. PICK s \in Wrong : b = Cardinality(s) BY <2>2 DEF Bad
  <2>4. s \in SUBSET S /\ I[s] # BagOf(N, Spread(x, D, s)) BY <2>3
  <2>5. s # {} BY <1>3, <1>7, <2>4
  <2>6. pick(s) \in s BY <1>4, <2>4, <2>5
  <2>7. Cardinality(s \ {pick(s)}) = b - 1 /\ b \in Nat BY <1>8, <2>3, <2>4, <2>6, FS_RemoveElement
  <2>8. s \ {pick(s)} \notin Wrong
    <3> HIDE DEF Wrong
    <3>1. s \ {pick(s)} \in Wrong => b - 1 \in Bad BY <2>7 DEF Bad
    <3> QED BY <2>2, <2>7, <3>1
  <2>9. s \ {pick(s)} \in SUBSET S BY <2>4
  <2>10. I[s \ {pick(s)}] = BagOf(N, Spread(x, D, s \ {pick(s)})) BY <2>8, <2>9
  <2>11. I[s] = below[pick(s)] (+) I[s \ {pick(s)}] BY <1>7, <2>4, <2>5
  <2> QED BY <1>4, <2>4, <2>5, <2>10, <2>11
<1>10. I[S] = BagOf(N, Spread(x, D, S)) BY <1>9
<1> QED BY <1>2, <1>10
---------------------------------------------------------------------------
(* The directories below one another. *)

LEMMA PrefixProperty ==
  ASSUME NEW S, NEW x \in Seq(S), NEW d \in Seq(S)
  PROVE  /\ Len(x) \in Nat /\ Len(d) \in Nat
         /\ IsPrefix(x, d) <=> Len(x) <= Len(d) /\ \A i \in 1 .. Len(x) : x[i] = d[i]
         /\ IsPrefix(x, d) => x = SubSeq(d, 1, Len(x))
<1>1. Len(x) \in Nat /\ Len(d) \in Nat BY LenProperties
<1>2. x = SubSeq(x, 1, Len(x)) BY <1>1
<1>3. ASSUME Len(x) <= Len(d)
      PROVE  x = SubSeq(d, 1, Len(x)) <=> \A i \in 1 .. Len(x) : x[i] = d[i]
  BY <1>1, <1>3
<1> QED BY <1>1, <1>2, <1>3 DEF IsPrefix

LEMMA DirsAbove ==
  ASSUME NEW t \in Trees, NEW d \in t.dirs, NEW k \in 0 .. Len(d)
  PROVE  SubSeq(d, 1, k) \in t.dirs
<1>1. d \in Seq(STRING) BY TreeFacts
<1>2. Len(d) \in Nat BY <1>1, LenProperties
<1> DEFINE Bad == {n \in 0 .. Len(d) : Up(d, n) \notin t.dirs}
<1>3. Bad = {}
  <2> SUFFICES ASSUME Bad # {} PROVE FALSE OBVIOUS
  <2>1. Bad \in SUBSET Nat BY <1>2
  <2>2. PICK b \in Bad : \A n \in Bad : b <= n BY <2>1, LeastExists
  <2>3. b \in 0 .. Len(d) /\ Up(d, b) \notin t.dirs BY <2>2
  <2>4. Up(d, 0) = d
    <3>1. Up(d, 0) = SubSeq(d, 1, Len(d)) BY <1>2 DEF Up
    <3> QED BY <1>1, <3>1
  <2>5. b # 0 BY <2>3, <2>4
  <2>6. b - 1 \in 0 .. Len(d) /\ ~(b <= b - 1) /\ b - 1 \in Nat /\ (b - 1) + 1 = b BY <1>2, <2>3, <2>5
  <2>7. b - 1 \notin Bad
    <3> HIDE DEF Bad
    <3> QED BY <2>2, <2>6
  <2>8. Up(d, b - 1) \in t.dirs BY <2>6, <2>7
  <2>9. Up(Up(d, b - 1), 1) = Up(d, b) BY <1>1, <2>6, UpFurther
  <2> QED BY <2>3, <2>8, <2>9, UpOne
<1>4. Len(d) - k \in 0 .. Len(d) /\ Len(d) - (Len(d) - k) = k /\ ~(Len(d) - k > Len(d)) BY <1>2
<1>5. Up(d, Len(d) - k) \in t.dirs BY <1>3, <1>4
<1>6. Up(d, Len(d) - k) = SubSeq(d, 1, k)
  <2>1. Up(d, Len(d) - k) = SubSeq(d, 1, Len(d) - (Len(d) - k)) BY <1>4 DEF Up
  <2> QED BY <1>4, <2>1
<1> QED BY <1>5, <1>6

(* No directory is deeper than there are directories. *)
LEMMA DepthBounded ==
  ASSUME NEW t \in Trees, NEW d \in t.dirs
  PROVE  Len(d) \in Nat /\ Cardinality(t.dirs) \in Nat /\ Len(d) < Cardinality(t.dirs)
<1>1. d \in Seq(STRING) BY TreeFacts
<1>2. Len(d) \in Nat BY <1>1, LenProperties
<1>3. IsFiniteSet(t.dirs)
  <2>1. IsFiniteSet(Nodes(t)) BY TreesAssumption
  <2>2. t.dirs \subseteq Nodes(t) BY DEF Nodes
  <2> QED BY <2>1, <2>2, FS_Subset
<1>4. Cardinality(t.dirs) \in Nat BY <1>3, FS_CardinalityType
<1> DEFINE f == [k \in 0 .. Len(d) |-> SubSeq(d, 1, k)]
<1>5. f \in Injection(0 .. Len(d), t.dirs)
  <2>1. f \in [0 .. Len(d) -> t.dirs] BY DirsAbove
  <2>2. ASSUME NEW j \in 0 .. Len(d) PROVE Len(f[j]) = j BY <1>1, <1>2
  <2>3. ASSUME NEW j \in 0 .. Len(d), NEW k \in 0 .. Len(d), f[j] = f[k] PROVE j = k
    BY <2>2, <2>3
  <2> QED BY <2>1, <2>3 DEF Injection, IsInjective
<1>6. IsFiniteSet(0 .. Len(d)) /\ Cardinality(0 .. Len(d)) = Len(d) + 1
  <2>1. 0 \in Int /\ Len(d) \in Int /\ ~(0 > Len(d)) /\ Len(d) - 0 + 1 = Len(d) + 1 BY <1>2
  <2> QED BY <2>1, FS_Interval
<1>7. Cardinality(0 .. Len(d)) <= Cardinality(t.dirs)
  <2> HIDE DEF f
  <2> QED BY <1>3, <1>5, FS_Injection
<1> QED BY <1>2, <1>4, <1>6, <1>7
(* The calls of recursive_ls(), those a call makes, and the directories    *)
(* that are printed by it and by the calls below it.                       *)
Calls(t, m) == [path : Nodes(t), remain_depth : Int, fds : 0 .. m]

Remain(info, c) == IF info.has_depth = 0 THEN -1 ELSE c.remain_depth

SubCall(info, c, e) ==
  [path |-> Append(c.path, e), remain_depth |-> Remain(info, c) - 1, fds |-> c.fds - 1]

Within(info, c, n) == n < c.fds /\ (Remain(info, c) >= 0 => n < Remain(info, c))

Under(t, info, c) == {d \in t.dirs : IsPrefix(c.path, d) /\ Within(info, c, Len(d) - Len(c.path))}

Ends(t, info, c) == Remain(info, c) = 0 \/ c.path \notin t.dirs \/ c.fds = 0

LEMMA UnderNothing ==
  ASSUME NEW t \in Trees, NEW info, NEW m \in Nat, NEW c \in Calls(t, m), Ends(t, info, c)
  PROVE  Under(t, info, c) = {}
<1> SUFFICES ASSUME NEW d \in Under(t, info, c) PROVE FALSE OBVIOUS
<1>1. d \in t.dirs /\ IsPrefix(c.path, d) /\ Within(info, c, Len(d) - Len(c.path)) BY DEF Under
<1>2. c.path \in Seq(STRING) /\ d \in Seq(STRING) BY <1>1, TreeFacts, TreesAssumption DEF Calls
<1>3. /\ Len(c.path) \in Nat /\ Len(d) \in Nat /\ Len(c.path) <= Len(d)
      /\ c.path = SubSeq(d, 1, Len(c.path))
  BY <1>1, <1>2, PrefixProperty
<1>4. Len(c.path) \in 0 .. Len(d) BY <1>3
<1>5. c.path \in t.dirs BY <1>1, <1>3, <1>4, DirsAbove
<1>6. c.fds \in Nat /\ Remain(info, c) \in Int BY DEF Calls, Remain
<1> HIDE DEF Remain
<1> QED BY <1>1, <1>3, <1>5, <1>6 DEF Ends, Within

LEMMA BelowProperty ==
  ASSUME NEW t \in Trees, NEW x \in t.dirs
  PROVE  /\ IsFiniteSet(Below(t, x)) /\ Entries(t, x) \ {".", ".."} = Below(t, x)
         /\ \A e \in Below(t, x) : e \in STRING /\ Append(x, e) \in Nodes(t)
         /\ \A e \in STRING : Append(x, e) \in Nodes(t) => e \in Below(t, x)
<1> DEFINE Z == {z \in Nodes(t) \ {Root} : Front(z) = x}
           f == [z \in Z |-> Last(z)]
<1>1. Below(t, x) = {Last(y) : y \in Z} BY DEF Below
<1>2. IsFiniteSet(Z)
  <2>1. Z \subseteq Nodes(t) OBVIOUS
  <2> QED BY <2>1, TreesAssumption, FS_Subset
<1>3. f \in Surjection(Z, Below(t, x)) BY <1>1 DEF Surjection
<1>4. IsFiniteSet(Below(t, x))
  <2> HIDE DEF f, Z
  <2> QED BY <1>2, <1>3, FS_Surjection
<1>5. \A e \in Below(t, x) : e \notin {".", ".."} BY <1>1, TreesAssumption
<1>6. Entries(t, x) \ {".", ".."} = Below(t, x) BY <1>5 DEF Entries
<1>7. x \in Seq(STRING) BY TreeFacts
<1>8. ASSUME NEW e \in Below(t, x) PROVE e \in STRING /\ Append(x, e) \in Nodes(t)
  <2>1. PICK z \in Z : e = Last(z) BY <1>1, <1>8
  <2>2. z \in Nodes(t) /\ z # Root /\ Front(z) = x /\ z \in Seq(STRING) BY <2>1, TreesAssumption
  <2>3. Len(z) \in Nat /\ Len(z) # 0
    <3>1. Len(z) \in Nat /\ (Len(z) = 0 => z = <<>>) BY <2>2, LenProperties, EmptySeq
    <3> QED BY <2>2, <3>1 DEF Root
  <2>4. Last(z) = z[Len(z)] /\ Front(z) = SubSeq(z, 1, Len(z) - 1) BY DEF Last, Front
  <2>5. e \in STRING BY <2>1, <2>2, <2>3, <2>4, ElementOfSeq
  <2>6. Append(SubSeq(z, 1, Len(z) - 1), z[Len(z)]) = z BY <2>2, <2>3
  <2> QED BY <2>1, <2>2, <2>4, <2>5, <2>6
<1>9. ASSUME NEW e \in STRING, Append(x, e) \in Nodes(t) PROVE e \in Below(t, x)
  <2> DEFINE z == Append(x, e)
  <2>1. Len(x) \in Nat BY <1>7, LenProperties
  <2>2. Len(z) = Len(x) + 1 /\ z[Len(x) + 1] = e /\ z \in Seq(STRING) BY <1>7, <2>1, AppendProperties
  <2>3. z # Root BY <2>1, <2>2 DEF Root
  <2>4. Last(z) = e /\ Front(z) = SubSeq(z, 1, Len(x)) BY <2>1, <2>2 DEF Last, Front
  <2>5. SubSeq(z, 1, Len(x)) = x BY <1>7, <2>1
  <2> HIDE DEF z
  <2>6. z \in Z BY <1>9, <2>3, <2>4, <2>5 DEF z
  <2> QED BY <1>1, <2>4, <2>6
<1> QED BY <1>4, <1>6, <1>8, <1>9

LEMMA SubCallProperty ==
  ASSUME NEW t \in Trees, NEW info, NEW m \in Nat, NEW c \in Calls(t, m), ~Ends(t, info, c),
         NEW e \in Below(t, c.path)
  PROVE  /\ SubCall(info, c, e) \in Calls(t, m) /\ SubCall(info, c, e).fds = c.fds - 1
         /\ SubCall(info, c, e).path = Append(c.path, e)
         /\ \A n \in Nat : Within(info, SubCall(info, c, e), n) <=> Within(info, c, n + 1)
<1> DEFINE b == SubCall(info, c, e)
<1>1. c.path \in t.dirs /\ c.fds \in 0 .. m /\ c.fds # 0 /\ Remain(info, c) # 0 BY DEF Ends, Calls
<1>2. Append(c.path, e) \in Nodes(t) BY <1>1, BelowProperty
<1>3. Remain(info, c) \in Int BY DEF Remain, Calls
<1>4. /\ b.path = Append(c.path, e) /\ b.remain_depth = Remain(info, c) - 1 /\ b.fds = c.fds - 1
  BY DEF SubCall
<1>5. b \in Calls(t, m)
  <2>1. Remain(info, c) - 1 \in Int /\ c.fds - 1 \in 0 .. m BY <1>1, <1>3
  <2> QED BY <1>2, <2>1 DEF SubCall, Calls
<1>6. Remain(info, b) = IF info.has_depth = 0 THEN Remain(info, c) ELSE Remain(info, c) - 1
  BY <1>4 DEF Remain
<1>7. info.has_depth = 0 => Remain(info, c) = -1 BY DEF Remain
<1> HIDE DEF b, Remain
<1>8. ASSUME NEW n \in Nat PROVE Within(info, b, n) <=> Within(info, c, n + 1)
  <2>1. PICK f \in Nat, r \in Int : f = c.fds /\ r = Remain(info, c) BY <1>1, <1>3
  <2>2. n < f - 1 <=> n + 1 < f BY <2>1
  <2>3. CASE info.has_depth = 0
    <3>1. Remain(info, b) = -1 /\ r = -1 BY <1>6, <1>7, <2>1, <2>3
    <3> QED BY <1>4, <2>1, <2>2, <3>1 DEF Within
  <2>4. CASE info.has_depth # 0
    <3>1. Remain(info, b) = r - 1 /\ r # 0 BY <1>1, <1>6, <2>1, <2>4
    <3>2. (r - 1 >= 0 => n < r - 1) <=> (r >= 0 => n + 1 < r) BY <2>1, <3>1
    <3> QED BY <1>4, <2>1, <2>2, <3>1, <3>2 DEF Within
  <2> QED BY <2>3, <2>4
<1> QED BY <1>4, <1>5, <1>8 DEF b
(* What lies under a directory: itself, and what lies under its entries. *)
LEMMA UnderSplit ==
  ASSUME NEW t \in Trees, NEW info, NEW m \in Nat, NEW c \in Calls(t, m), ~Ends(t, info, c),
         NEW D, D = [e \in Below(t, c.path) |-> Under(t, info, SubCall(info, c, e))]
  PROVE  /\ Under(t, info, c) = Spread(c.path, D, DOMAIN D)
         /\ Distinct(t.dirs, c.path, D)
<1> DEFINE x == c.path
           E == Below(t, x)
           k == Len(x)
<1>1. x \in t.dirs /\ c.fds \in Nat /\ c.fds # 0 /\ Remain(info, c) # 0 BY DEF Ends, Calls
<1>2. x \in Seq(STRING) /\ k \in Nat BY <1>1, TreeFacts, LenProperties
<1>3. Remain(info, c) \in Int BY DEF Remain, Calls
<1>4. ASSUME NEW e \in E, NEW d \in t.dirs
      PROVE  d \in D[e] <=> /\ Len(d) > k /\ d[k + 1] = e /\ IsPrefix(x, d)
                            /\ Within(info, c, Len(d) - k)
  <2> DEFINE b == SubCall(info, c, e)
             y == Append(x, e)
  <2>1. e \in STRING /\ d \in Seq(STRING) /\ b.path = y
    <3>1. e \in STRING BY <1>1, BelowProperty
    <3>2. d \in Seq(STRING) BY TreeFacts
    <3>3. b.path = y BY DEF SubCall
    <3> QED BY <3>1, <3>2, <3>3
  <2>2. y \in Seq(STRING) /\ Len(y) = k + 1 /\ y[k + 1] = e /\ \A i \in 1 .. k : y[i] = x[i]
    BY <1>2, <2>1, AppendProperties
  <2>3. d \in D[e] <=> IsPrefix(y, d) /\ Within(info, b, Len(d) - (k + 1))
    <3>1. D[e] = Under(t, info, b) OBVIOUS
    <3> HIDE DEF b
    <3> QED BY <2>1, <2>2, <3>1 DEF Under
  <2>4. Len(d) \in Nat BY <2>1, LenProperties
  <2>5. IsPrefix(x, d) <=> k <= Len(d) /\ \A i \in 1 .. k : x[i] = d[i] BY <1>2, <2>1, PrefixProperty
  <2>6. IsPrefix(y, d) <=> k + 1 <= Len(d) /\ \A i \in 1 .. k + 1 : y[i] = d[i]
    <3> HIDE DEF y, k
    <3> QED BY <2>1, <2>2, PrefixProperty
  <2> HIDE DEF b, y, k
  <2>7. IsPrefix(y, d) <=> Len(d) > k /\ d[k + 1] = e /\ IsPrefix(x, d)
    <3>1. \A i \in 1 .. k + 1 : i \in 1 .. k \/ i = k + 1 BY <1>2
    <3>2. \A i \in 1 .. k : i \in 1 .. k + 1 BY <1>2
    <3>3. k + 1 \in 1 .. k + 1 BY <1>2
    <3>4. (\A i \in 1 .. k + 1 : y[i] = d[i]) <=> e = d[k + 1] /\ \A i \in 1 .. k : x[i] = d[i]
      BY <2>2, <3>1, <3>2, <3>3
    <3>5. k + 1 <= Len(d) <=> Len(d) > k BY <1>2, <2>4
    <3>6. Len(d) > k => k <= Len(d) BY <1>2, <2>4
    <3> QED BY <2>5, <2>6, <3>4, <3>5, <3>6
  <2>8. ASSUME Len(d) > k PROVE Within(info, b, Len(d) - (k + 1)) <=> Within(info, c, Len(d) - k)
    <3>1. Len(d) - (k + 1) \in Nat /\ (Len(d) - (k + 1)) + 1 = Len(d) - k BY <1>2, <2>4, <2>8
    <3>2. \A n \in Nat : Within(info, b, n) <=> Within(info, c, n + 1) BY SubCallProperty DEF b
    <3> QED BY <3>1, <3>2
  <2> QED BY <2>3, <2>7, <2>8
<1>5. ASSUME NEW e \in E PROVE D[e] \subseteq t.dirs /\ x \notin D[e]
  <2>1. D[e] \subseteq t.dirs BY DEF Under
  <2>2. ~(Len(x) > k) BY <1>2
  <2> QED BY <1>1, <1>4, <2>1, <2>2
<1>6. ASSUME NEW e \in E, NEW f \in E, e # f PROVE D[e] \cap D[f] = {}
  BY <1>4, <1>5, <1>6
<1>7. IsFiniteSet(t.dirs)
  <2>1. IsFiniteSet(Nodes(t)) BY TreesAssumption
  <2>2. t.dirs \subseteq Nodes(t) BY DEF Nodes
  <2> QED BY <2>1, <2>2, FS_Subset
<1>8. DOMAIN D = E OBVIOUS
<1>9. Distinct(t.dirs, x, D) BY <1>1, <1>5, <1>6, <1>7, <1>8 DEF Distinct
<1>10. x \in Under(t, info, c)
  <2>1. IsPrefix(x, x) BY <1>2, PrefixProperty
  <2>2. Within(info, c, 0) /\ Len(x) - Len(x) = 0 BY <1>1, <1>2, <1>3 DEF Within
  <2> QED BY <1>1, <2>1, <2>2 DEF Under
<1>11. ASSUME NEW d \in t.dirs, d # x, d \in Under(t, info, c) PROVE \E e \in E : d \in D[e]
  <2>1. d \in Seq(STRING) /\ IsPrefix(x, d) /\ Within(info, c, Len(d) - k) BY <1>11, TreeFacts DEF Under
  <2>2. Len(d) \in Nat /\ k <= Len(d) /\ \A i \in 1 .. k : x[i] = d[i] BY <1>2, <2>1, PrefixProperty
  <2>3. Len(d) > k
    <3>1. Len(d) = k => d = x BY <1>2, <2>1, <2>2, SeqEqual
    <3> QED BY <1>2, <1>11, <2>2, <3>1
  <2>4. k + 1 \in 1 .. Len(d) /\ k + 1 \in 0 .. Len(d) BY <1>2, <2>2, <2>3
  <2>5. d[k + 1] \in STRING BY <2>1, <2>4, ElementOfSeq
  <2>6. SubSeq(d, 1, k + 1) \in t.dirs BY <2>4, DirsAbove
  <2>7. x = SubSeq(d, 1, k) BY <1>2, <2>1, PrefixProperty
  <2>8. SubSeq(d, 1, k + 1) = Append(SubSeq(d, 1, k), d[k + 1]) BY <1>2, <2>1, <2>2, <2>3
  <2>9. Append(x, d[k + 1]) \in Nodes(t) BY <2>6, <2>7, <2>8 DEF Nodes
  <2>10. d[k + 1] \in E BY <1>1, <2>5, <2>9, BelowProperty
  <2> QED BY <1>4, <2>1, <2>3, <2>10
<1>12. ASSUME NEW e \in E, NEW d \in D[e] PROVE d \in Under(t, info, c)
  <2>1. d \in t.dirs BY <1>5, <1>12
  <2>2. IsPrefix(x, d) /\ Within(info, c, Len(d) - Len(x)) BY <1>4, <1>12, <2>1
  <2> QED BY <2>1, <2>2 DEF Under
<1>13. Under(t, info, c) \subseteq t.dirs BY DEF Under
<1> HIDE DEF E, x
<1>14. Under(t, info, c) = {x} \cup UNION {D[e] : e \in E} BY <1>10, <1>11, <1>12, <1>13
<1>15. Under(t, info, c) = Spread(x, D, DOMAIN D) BY <1>8, <1>14 DEF Spread
<1> QED BY <1>9, <1>15 DEF x
(* recursive_ls() lists the directories under the first one. *)
Names(t, info) == [d \in t.dirs |-> Printed(t, d, info)]

LEMMA RecursiveProperty ==
  ASSUME NEW t \in Trees, NEW info, NEW m \in Nat, NEW x \in t.dirs, info.depth \in Int
  PROVE  recursive_ls(t, x, info, m) =
           BagOf(Names(t, info),
                 Under(t, info, [path |-> x, remain_depth |-> info.depth, fds |-> m]))
<1> DEFINE N == Names(t, info)
           C == Calls(t, m)
           Turn(f, c) == IF Ends(t, info, c) THEN EmptyBag
                         ELSE ListDirectory(Printed(t, c.path, info),
                                [e \in Entries(t, c.path) \ {".", ".."} |-> f[SubCall(info, c, e)]])
           Body(f) == [c \in C |-> Turn(f, c)]
           L == CHOOSE f : f = Body(f)
           h == [c \in C |-> BagOf(N, Under(t, info, c))]
           c0 == [path |-> x, remain_depth |-> info.depth, fds |-> m]
<1>1. recursive_ls(t, x, info, m) = L[c0]
  BY DEF recursive_ls, Calls, Ends, Remain, SubCall, Deeper
<1>2. ASSUME NEW c \in C PROVE Turn(h, c) = BagOf(N, Under(t, info, c))
  <2>1. CASE Ends(t, info, c)
    <3>1. Under(t, info, c) = {} BY <2>1, UnderNothing
    <3> QED BY <2>1, <3>1, BagOfNone
  <2>2. CASE ~Ends(t, info, c)
    <3> DEFINE E == Below(t, c.path)
               D == [e \in E |-> Under(t, info, SubCall(info, c, e))]
               below == [e \in DOMAIN D |-> BagOf(N, D[e])]
    <3>1. c.path \in t.dirs BY <2>2 DEF Ends
    <3>2. IsFiniteSet(E) /\ Entries(t, c.path) \ {".", ".."} = E BY <3>1, BelowProperty
    <3>3. \A e \in E : SubCall(info, c, e) \in C BY <2>2, SubCallProperty
    <3>4. \A e \in E : h[SubCall(info, c, e)] = BagOf(N, D[e]) BY <3>3
    <3>5. N[c.path] = Printed(t, c.path, info) BY <3>1 DEF Names
    <3>6. DOMAIN D = E OBVIOUS
    <3>7. /\ Under(t, info, c) = Spread(c.path, D, DOMAIN D)
          /\ Distinct(t.dirs, c.path, D)
      BY <2>2, UnderSplit
    <3>8. [e \in E |-> h[SubCall(info, c, e)]] = below BY <3>4
    <3>9. Turn(h, c) = ListDirectory(N[c.path], below)
      <4> HIDE DEF h, N, below, E
      <4> QED BY <2>2, <3>2, <3>5, <3>8
    <3>10. ListDirectory(N[c.path], below) = BagOf(N, Spread(c.path, D, DOMAIN D))
      <4>1. IsFiniteSet(DOMAIN D) BY <3>2, <3>6
      <4> HIDE DEF N, D, E
      <4> QED BY <3>7, <4>1, ListDirectoryProperty
    <3> QED BY <3>7, <3>9, <3>10
  <2> QED BY <2>1, <2>2
<1>3. h = Body(h)
  <2> HIDE DEF Turn
  <2> QED BY <1>2
<1>4. L = Body(L)
  <2> HIDE DEF Body, h
  <2> QED BY <1>3, Zenon
<1> HIDE DEF L
<1>5. \A c \in C : L[c] = Turn(L, c)
  <2> HIDE DEF Turn
  <2> QED BY <1>4
<1> DEFINE Wrong == {c \in C : L[c] # h[c]}
           Bad == {c.fds : c \in Wrong}
<1>6. Wrong = {}
  <2> SUFFICES ASSUME Wrong # {} PROVE FALSE OBVIOUS
  <2>1. Bad \in SUBSET Nat /\ Bad # {}
    <3>1. \A c \in Wrong : c.fds \in Nat BY DEF Calls
    <3> HIDE DEF Wrong
    <3> QED BY <3>1
  <2> HIDE DEF Bad
  <2>2. PICK b \in Bad : \A k \in Bad : b <= k BY <2>1, LeastExists
  <2>3. PICK c \in Wrong : b = c.fds BY <2>2 DEF Bad
  <2>4. c \in C /\ L[c] # h[c] BY <2>3
  <2>5. h[c] = Turn(h, c)
    <3> HIDE DEF Turn
    <3> QED BY <1>2, <2>4
  <2>6. L[c] = Turn(L, c)
    <3> HIDE DEF Turn, h
    <3> QED BY <1>5, <2>4
  <2>7. ~Ends(t, info, c)
    <3> HIDE DEF h
    <3> QED BY <2>4, <2>5, <2>6
  <2>8. c.path \in t.dirs /\ b \in Nat BY <2>3, <2>4, <2>7 DEF Ends, Calls
  <2>9. Entries(t, c.path) \ {".", ".."} = Below(t, c.path) BY <2>8, BelowProperty
  <2>10. ASSUME NEW e \in Below(t, c.path) PROVE L[SubCall(info, c, e)] = h[SubCall(info, c, e)]
    <3>1. SubCall(info, c, e) \in C /\ SubCall(info, c, e).fds = b - 1
      <4>1. c \in C BY <2>4
      <4>2. SubCall(info, c, e) \in C /\ SubCall(info, c, e).fds = c.fds - 1
        BY <2>7, <4>1, SubCallProperty
      <4> QED BY <2>3, <4>2
    <3> HIDE DEF h, Wrong
    <3>2. SubCall(info, c, e) \in Wrong => b - 1 \in Bad BY <3>1 DEF Bad
    <3>3. SubCall(info, c, e) \notin Wrong BY <2>2, <2>8, <3>2
    <3> QED BY <3>1, <3>3 DEF Wrong
  <2>11. Turn(L, c) = Turn(h, c)
    <3> HIDE DEF h
    <3> QED BY <2>9, <2>10
  <2> QED BY <2>4, <2>5, <2>6, <2>11
<1>7. c0 \in C
  <2>1. x \in Nodes(t) /\ m \in 0 .. m BY DEF Nodes
  <2> QED BY <2>1 DEF Calls
<1>8. h[c0] = BagOf(N, Under(t, info, c0))
  <2> HIDE DEF c0
  <2> QED BY <1>7
<1>9. L[c0] = h[c0]
  <2> HIDE DEF c0, h
  <2> QED BY <1>6, <1>7
<1> QED BY <1>1, <1>8, <1>9
---------------------------------------------------------------------------
(* The options. *)

Infos ==
  [has_path : Nat, path : STRING \cup {"."}, has_rec : {0, 1}, has_substring : {0, 1},
   has_depth : {0, 1}, depth : Int, substring : STRING \cup {"none"}, valid : {0, 1}]

(* What the tokens before place i have made of info. *)
Boundary(a, i) == i > 1 => a[i - 1] \notin {"--f", "--d"}

ParsedF(a, i, info) ==
  /\ \A j \in 1 .. i - 1 : a[j] = "--f" =>
       /\ j + 1 < i /\ a[j + 1] \notin OptionLike \cup {NoText}
       /\ info.has_substring = 1 /\ info.substring = a[j + 1]
  /\ info.has_substring = 1 => \E j \in 1 .. i - 1 : a[j] = "--f"

ParsedD(a, i, info) ==
  /\ \A j \in 1 .. i - 1 : a[j] = "--d" => j + 1 < i /\ a[j + 1] \in DOMAIN Number /\ info.has_depth = 1
  /\ info.has_depth = 1 =>
       \E j \in 1 .. i - 1 : /\ a[j] = "--d" /\ info.depth = Number[a[j + 1]]
                             /\ \A l \in 1 .. i - 1 : a[l] = "--d" => l <= j

ParsedRec(a, i, info) == info.has_rec = 1 <=> \E j \in 1 .. i - 1 : a[j] = "--rec"

ParsedPath(a, i, info) ==
  /\ info.has_path = 0 => info.path = "." /\ \A j \in 1 .. i - 1 : j \notin PathsIn(a)
  /\ info.has_path # 0 =>
       \E j \in PathsIn(a) : j < i /\ info.path = a[j] /\ \A l \in PathsIn(a) : l < i => l = j

Parsed(a, i, info) ==
  /\ Boundary(a, i) /\ ParsedF(a, i, info) /\ ParsedD(a, i, info)
  /\ ParsedRec(a, i, info) /\ ParsedPath(a, i, info) /\ info.has_path \in {0, 1}

ParseInv(a, k, st) ==
  /\ st \in [i : 1 .. Len(a) + 1, info : Infos]
  /\ k < st.i \/ st.i = Len(a) + 1
  /\ st.info.valid = 1 => Parsed(a, st.i, st.info)
  /\ st.info.valid = 0 => st.i = Len(a) + 1 /\ ~WellFormed(a)

LEMMA KeepsF ==
  ASSUME NEW a, NEW i \in Nat, NEW n \in Nat, i <= n, NEW info, NEW new, ParsedF(a, i, info),
         \A j \in i .. n - 1 : a[j] # "--f",
         new.has_substring = info.has_substring, new.substring = info.substring
  PROVE  ParsedF(a, n, new)
<1>1. \A j \in 1 .. n - 1 : j \in 1 .. i - 1 \/ j \in i .. n - 1 OBVIOUS
<1>2. \A j \in 1 .. i - 1 : j \in 1 .. n - 1 OBVIOUS
<1>3. ASSUME NEW j \in 1 .. n - 1, a[j] = "--f"
      PROVE  /\ j + 1 < n /\ a[j + 1] \notin OptionLike \cup {NoText}
             /\ new.has_substring = 1 /\ new.substring = a[j + 1]
  <2>1. j \in 1 .. i - 1 BY <1>1, <1>3
  <2>2. /\ j + 1 < i /\ a[j + 1] \notin OptionLike \cup {NoText}
        /\ info.has_substring = 1 /\ info.substring = a[j + 1]
    BY <1>3, <2>1 DEF ParsedF
  <2>3. j + 1 < n BY <2>2
  <2> QED BY <2>2, <2>3
<1>4. ASSUME new.has_substring = 1 PROVE \E j \in 1 .. n - 1 : a[j] = "--f"
  BY <1>2, <1>4 DEF ParsedF
<1> QED BY <1>3, <1>4 DEF ParsedF

LEMMA KeepsD ==
  ASSUME NEW a, NEW i \in Nat, NEW n \in Nat, i <= n, NEW info, NEW new, ParsedD(a, i, info),
         \A j \in i .. n - 1 : a[j] # "--d",
         new.has_depth = info.has_depth, new.depth = info.depth
  PROVE  ParsedD(a, n, new)
<1>1. \A j \in 1 .. n - 1 : j \in 1 .. i - 1 \/ j \in i .. n - 1 OBVIOUS
<1>2. \A j \in 1 .. i - 1 : j \in 1 .. n - 1 OBVIOUS
<1>3. ASSUME NEW j \in 1 .. n - 1, a[j] = "--d"
      PROVE  j + 1 < n /\ a[j + 1] \in DOMAIN Number /\ new.has_depth = 1
  <2>1. j \in 1 .. i - 1 BY <1>1, <1>3
  <2>2. j + 1 < i /\ a[j + 1] \in DOMAIN Number /\ info.has_depth = 1 BY <1>3, <2>1 DEF ParsedD
  <2>3. j + 1 < n BY <2>2
  <2> QED BY <2>2, <2>3
<1>4. ASSUME new.has_depth = 1
      PROVE  \E j \in 1 .. n - 1 : /\ a[j] = "--d" /\ new.depth = Number[a[j + 1]]
                                   /\ \A l \in 1 .. n - 1 : a[l] = "--d" => l <= j
  <2>1. PICK j \in 1 .. i - 1 : /\ a[j] = "--d" /\ info.depth = Number[a[j + 1]]
                                /\ \A l \in 1 .. i - 1 : a[l] = "--d" => l <= j
    BY <1>4 DEF ParsedD
  <2>2. \A l \in 1 .. n - 1 : a[l] = "--d" => l <= j BY <1>1, <2>1
  <2> QED BY <1>2, <2>1, <2>2
<1> QED BY <1>3, <1>4 DEF ParsedD

LEMMA KeepsRec ==
  ASSUME NEW a, NEW i \in Nat, NEW n \in Nat, i <= n, NEW info, NEW new, ParsedRec(a, i, info),
         \A j \in i .. n - 1 : a[j] # "--rec", new.has_rec = info.has_rec
  PROVE  ParsedRec(a, n, new)
<1>1. \A j \in 1 .. n - 1 : j \in 1 .. i - 1 \/ j \in i .. n - 1 OBVIOUS
<1>2. \A j \in 1 .. i - 1 : j \in 1 .. n - 1 OBVIOUS
<1> QED BY <1>1, <1>2 DEF ParsedRec

LEMMA KeepsPath ==
  ASSUME NEW a, NEW i \in Nat, NEW n \in Nat, i <= n, NEW info, NEW new, ParsedPath(a, i, info),
         \A j \in i .. n - 1 : j \notin PathsIn(a), PathsIn(a) \subseteq Nat,
         new.has_path = info.has_path, new.path = info.path
  PROVE  ParsedPath(a, n, new)
<1>1. \A j \in 1 .. n - 1 : j \in 1 .. i - 1 \/ j \in i .. n - 1 OBVIOUS
<1>2. \A j \in PathsIn(a) : j < n => j < i OBVIOUS
<1>3. \A j \in PathsIn(a) : j < i => j < n OBVIOUS
<1>4. ASSUME new.has_path = 0 PROVE new.path = "." /\ \A j \in 1 .. n - 1 : j \notin PathsIn(a)
  BY <1>1, <1>4 DEF ParsedPath
<1>5. ASSUME new.has_path # 0
      PROVE  \E j \in PathsIn(a) : j < n /\ new.path = a[j] /\ \A l \in PathsIn(a) : l < n => l = j
  <2>1. PICK j \in PathsIn(a) : j < i /\ info.path = a[j] /\ \A l \in PathsIn(a) : l < i => l = j
    BY <1>5 DEF ParsedPath
  <2> QED BY <1>2, <1>3, <2>1
<1> QED BY <1>4, <1>5 DEF ParsedPath
LEMMA PathsInPlaces ==
  ASSUME NEW a \in Seq(STRING)
  PROVE  PathsIn(a) \subseteq 1 .. Len(a) /\ DOMAIN a = 1 .. Len(a) /\ Len(a) \in Nat
BY LenProperties DEF PathsIn

LEMMA ParseStops ==
  ASSUME NEW a \in Seq(STRING), NEW k, ~WellFormed(a), NEW info \in Infos, info.valid = 0
  PROVE  ParseInv(a, k, [i |-> Len(a) + 1, info |-> info])
<1> DEFINE st == [i |-> Len(a) + 1, info |-> info]
<1>1. Len(a) \in Nat BY LenProperties
<1>2. st.i = Len(a) + 1 /\ st.info = info OBVIOUS
<1>3. st \in [i : 1 .. Len(a) + 1, info : Infos] BY <1>1
<1> HIDE DEF st
<1>4. ParseInv(a, k, st) BY <1>2, <1>3 DEF ParseInv
<1> QED BY <1>4 DEF st

LEMMA ParseGoesOn ==
  ASSUME NEW a, NEW k \in Nat, NEW i \in Nat, k < i, i \in 1 .. Len(a) + 1, NEW info \in Infos,
         info.valid = 1, Parsed(a, i, info)
  PROVE  ParseInv(a, k, [i |-> i, info |-> info])
<1> DEFINE st == [i |-> i, info |-> info]
<1>1. st.i = i /\ st.info = info OBVIOUS
<1>2. st \in [i : 1 .. Len(a) + 1, info : Infos] OBVIOUS
<1> HIDE DEF st
<1>3. ParseInv(a, k, st) BY <1>1, <1>2 DEF ParseInv
<1> QED BY <1>3 DEF st

(* The loop is at place i and has not ended. *)
AtToken(a, k, i, info, st) ==
  /\ a \in Seq(STRING) /\ k \in Nat /\ i \in 1 .. Len(a) /\ k < i /\ info \in Infos /\ info.valid = 1
  /\ st.i = i /\ st.info = info /\ Parsed(a, i, info)

LEMMA TurnF ==
  ASSUME NEW a, NEW k, NEW i, NEW info, NEW st, AtToken(a, k, i, info, st), a[i] = "--f"
  PROVE  ParseInv(a, k + 1, parse_turn(a, st))
<1>1. a \in Seq(STRING) /\ k \in Nat /\ i \in 1 .. Len(a) /\ k < i /\ info \in Infos /\ info.valid = 1
  BY DEF AtToken
<1>2. Len(a) \in Nat /\ DOMAIN a = 1 .. Len(a) /\ PathsIn(a) \subseteq 1 .. Len(a) BY <1>1, PathsInPlaces
<1>3. i # Len(a) + 1 BY <1>1, <1>2
<1> DEFINE s == a[i + 1]
           no == i + 1 = Len(a) + 1 \/ NoSubstring(info, s)
           bad == [info EXCEPT !.valid = 0]
           new == [info EXCEPT !.has_substring = 1, !.substring = s]
<1>4. parse_turn(a, st) = IF no THEN [i |-> Len(a) + 1, info |-> bad] ELSE [i |-> i + 2, info |-> new]
  BY <1>3 DEF parse_turn, AtToken
<1>5. i \in At(a, "--f") BY <1>1, <1>2 DEF At
<1>6. CASE no
  <2>1. bad \in Infos /\ bad.valid = 0 BY <1>1 DEF Infos
  <2>2. ~WellFormed(a)
    <3>1. CASE i + 1 = Len(a) + 1
      <4>1. ~(i < Len(a)) BY <1>1, <1>2, <3>1
      <4> QED BY <1>5, <4>1 DEF WellFormed
    <3>2. CASE s \in OptionLike \cup {NoText} BY <1>5, <3>2 DEF WellFormed
    <3>3. CASE info.has_substring = 1 /\ info.substring # s
      <4>1. ParsedF(a, i, info) BY DEF AtToken, Parsed
      <4>2. PICK j \in 1 .. i - 1 : a[j] = "--f" BY <3>3, <4>1 DEF ParsedF
      <4>3. info.substring = a[j + 1] BY <4>1, <4>2 DEF ParsedF
      <4>4. j \in At(a, "--f") BY <1>1, <1>2, <4>2 DEF At
      <4> QED BY <1>5, <3>3, <4>3, <4>4 DEF WellFormed
    <3> QED BY <1>6, <3>1, <3>2, <3>3 DEF NoSubstring
  <2> HIDE DEF bad, no
  <2>3. ParseInv(a, k + 1, [i |-> Len(a) + 1, info |-> bad]) BY <1>1, <2>1, <2>2, ParseStops
  <2> QED BY <1>4, <1>6, <2>3
<1>7. CASE ~no
  <2>1. i + 1 \in 1 .. Len(a) /\ s \notin OptionLike \cup {NoText} BY <1>1, <1>2, <1>7 DEF NoSubstring
  <2>2. info.has_substring = 1 => info.substring = s BY <1>7 DEF NoSubstring
  <2>3. s \in STRING BY <1>1, <2>1, ElementOfSeq
  <2>4. new \in Infos /\ new.valid = 1 BY <1>1, <2>3 DEF Infos
  <2>5. /\ new.has_substring = 1 /\ new.substring = s
        /\ new.has_depth = info.has_depth /\ new.depth = info.depth
        /\ new.has_rec = info.has_rec /\ new.has_path = info.has_path /\ new.path = info.path
    BY <1>1 DEF Infos
  <2>6. PICK n \in Nat : n = i + 2 BY <1>1, <1>2
  <2>7. i \in Nat /\ i <= n /\ \A j \in i .. n - 1 : j = i \/ j = i + 1 BY <1>1, <1>2, <2>6
  <2>8. Boundary(a, i) /\ ParsedF(a, i, info) /\ ParsedD(a, i, info) /\ ParsedRec(a, i, info)
        /\ ParsedPath(a, i, info) /\ info.has_path \in {0, 1}
    BY DEF AtToken, Parsed
  <2> HIDE DEF new, no
  <2>9. ParsedF(a, n, new)
    <3> HIDE DEF s
    <3>1. ASSUME NEW j \in 1 .. n - 1, a[j] = "--f"
          PROVE  j + 1 < n /\ a[j + 1] \notin OptionLike \cup {NoText} /\ s = a[j + 1]
      <4>1. j \in 1 .. i - 1 \/ j = i \/ j = i + 1 BY <1>1, <1>2, <2>6
      <4>2. j # i + 1 BY <2>1, <3>1 DEF s, OptionLike
      <4>3. CASE j = i
        <5>1. i + 1 < n BY <2>6, <2>7
        <5> QED BY <2>1, <4>3, <5>1 DEF s
      <4>4. CASE j \in 1 .. i - 1
        <5>1. /\ j + 1 < i /\ a[j + 1] \notin OptionLike \cup {NoText}
              /\ info.has_substring = 1 /\ info.substring = a[j + 1]
          BY <2>8, <3>1, <4>4 DEF ParsedF
        <5>2. j + 1 < n BY <2>7, <4>4, <5>1
        <5> QED BY <2>2, <5>1, <5>2
      <4> QED BY <4>1, <4>2, <4>3, <4>4
    <3>2. i \in 1 .. n - 1 BY <1>1, <2>6, <2>7
    <3> QED BY <2>5, <3>1, <3>2 DEF ParsedF
  <2>10. \A j \in i .. n - 1 : a[j] # "--d" /\ a[j] # "--rec" BY <2>1, <2>7 DEF OptionLike
  <2>11. ParsedD(a, n, new) BY <2>5, <2>7, <2>8, <2>10, KeepsD
  <2>12. ParsedRec(a, n, new) BY <2>5, <2>7, <2>8, <2>10, KeepsRec
  <2>13. \A j \in i .. n - 1 : j \notin PathsIn(a)
    <3>1. i \notin PathsIn(a) BY DEF PathsIn
    <3>2. i + 1 > 1 /\ (i + 1) - 1 = i BY <1>1, <2>7
    <3>3. i + 1 \notin PathsIn(a) BY <3>2 DEF PathsIn
    <3> QED BY <2>7, <3>1, <3>3
  <2>14. PathsIn(a) \subseteq Nat BY <1>2
  <2>15. ParsedPath(a, n, new) BY <2>5, <2>7, <2>8, <2>13, <2>14, KeepsPath
  <2>16. Boundary(a, n)
    <3>1. n - 1 = i + 1 BY <2>6, <2>7
    <3> QED BY <2>1, <3>1 DEF Boundary, OptionLike
  <2>17. Parsed(a, n, new) BY <2>5, <2>8, <2>9, <2>11, <2>12, <2>15, <2>16 DEF Parsed
  <2>18. k + 1 \in Nat /\ k + 1 < n /\ n \in 1 .. Len(a) + 1 BY <1>1, <1>2, <2>1, <2>6
  <2>19. ParseInv(a, k + 1, [i |-> n, info |-> new]) BY <2>4, <2>17, <2>18, ParseGoesOn
  <2> QED BY <1>4, <1>7, <2>6, <2>19
<1> QED BY <1>6, <1>7
LEMMA TurnD ==
  ASSUME NEW a, NEW k, NEW i, NEW info, NEW st, AtToken(a, k, i, info, st), a[i] = "--d"
  PROVE  ParseInv(a, k + 1, parse_turn(a, st))
<1>1. a \in Seq(STRING) /\ k \in Nat /\ i \in 1 .. Len(a) /\ k < i /\ info \in Infos /\ info.valid = 1
  BY DEF AtToken
<1>2. Len(a) \in Nat /\ DOMAIN a = 1 .. Len(a) /\ PathsIn(a) \subseteq 1 .. Len(a) BY <1>1, PathsInPlaces
<1>3. i # Len(a) + 1 BY <1>1, <1>2
<1> DEFINE s == a[i + 1]
           no == i + 1 = Len(a) + 1 \/ s \notin DOMAIN Number
           bad == [info EXCEPT !.valid = 0]
           new == [info EXCEPT !.has_depth = 1, !.depth = Number[s]]
<1>4. parse_turn(a, st) = IF no THEN [i |-> Len(a) + 1, info |-> bad] ELSE [i |-> i + 2, info |-> new]
  BY <1>3 DEF parse_turn, AtToken
<1>5. i \in At(a, "--d") BY <1>1, <1>2 DEF At
<1>6. CASE no
  <2>1. bad \in Infos /\ bad.valid = 0 BY <1>1 DEF Infos
  <2>2. ~WellFormed(a)
    <3>1. CASE i + 1 = Len(a) + 1
      <4>1. ~(i < Len(a)) BY <1>1, <1>2, <3>1
      <4> QED BY <1>5, <4>1 DEF WellFormed
    <3>2. CASE s \notin DOMAIN Number BY <1>5, <3>2 DEF WellFormed
    <3> QED BY <1>6, <3>1, <3>2
  <2> HIDE DEF bad, no
  <2>3. ParseInv(a, k + 1, [i |-> Len(a) + 1, info |-> bad]) BY <1>1, <2>1, <2>2, ParseStops
  <2> QED BY <1>4, <1>6, <2>3
<1>7. CASE ~no
  <2>1. i + 1 \in 1 .. Len(a) /\ s \in DOMAIN Number BY <1>1, <1>2, <1>7
  <2>2. Number[s] \in Int /\ s \notin OptionLike BY <2>1, LsAssumption
  <2>3. new \in Infos /\ new.valid = 1 BY <1>1, <2>2 DEF Infos
  <2>4. /\ new.has_depth = 1 /\ new.depth = Number[s]
        /\ new.has_substring = info.has_substring /\ new.substring = info.substring
        /\ new.has_rec = info.has_rec /\ new.has_path = info.has_path /\ new.path = info.path
    BY <1>1 DEF Infos
  <2>5. PICK n \in Nat : n = i + 2 BY <1>1, <1>2
  <2>6. i \in Nat /\ i <= n /\ \A j \in i .. n - 1 : j = i \/ j = i + 1 BY <1>1, <1>2, <2>5
  <2>7. Boundary(a, i) /\ ParsedF(a, i, info) /\ ParsedD(a, i, info) /\ ParsedRec(a, i, info)
        /\ ParsedPath(a, i, info) /\ info.has_path \in {0, 1}
    BY DEF AtToken, Parsed
  <2> HIDE DEF new, no
  <2>8. ParsedD(a, n, new)
    <3> HIDE DEF s
    <3>1. ASSUME NEW j \in 1 .. n - 1, a[j] = "--d"
          PROVE  j + 1 < n /\ a[j + 1] \in DOMAIN Number /\ j <= i
      <4>1. j \in 1 .. i - 1 \/ j = i \/ j = i + 1 BY <1>1, <1>2, <2>5
      <4>2. j # i + 1 BY <2>2, <3>1 DEF s, OptionLike
      <4>3. CASE j = i
        <5>1. i + 1 < n /\ i <= i BY <2>5, <2>6
        <5> QED BY <2>1, <4>3, <5>1 DEF s
      <4>4. CASE j \in 1 .. i - 1
        <5>1. j + 1 < i /\ a[j + 1] \in DOMAIN Number BY <2>7, <3>1, <4>4 DEF ParsedD
        <5>2. j + 1 < n /\ j <= i BY <2>6, <4>4, <5>1
        <5> QED BY <5>1, <5>2
      <4> QED BY <4>1, <4>2, <4>3, <4>4
    <3>2. i \in 1 .. n - 1 BY <1>1, <2>5, <2>6
    <3>3. \E j \in 1 .. n - 1 : /\ a[j] = "--d" /\ new.depth = Number[a[j + 1]]
                                /\ \A l \in 1 .. n - 1 : a[l] = "--d" => l <= j
      BY <2>4, <3>1, <3>2 DEF s
    <3> QED BY <2>4, <3>1, <3>3 DEF ParsedD
  <2>9. \A j \in i .. n - 1 : a[j] # "--f" /\ a[j] # "--rec" BY <2>2, <2>6 DEF OptionLike
  <2>10. ParsedF(a, n, new) BY <2>4, <2>6, <2>7, <2>9, KeepsF
  <2>11. ParsedRec(a, n, new) BY <2>4, <2>6, <2>7, <2>9, KeepsRec
  <2>12. \A j \in i .. n - 1 : j \notin PathsIn(a)
    <3>1. i \notin PathsIn(a) BY DEF PathsIn
    <3>2. i + 1 > 1 /\ (i + 1) - 1 = i BY <1>1, <2>6
    <3>3. i + 1 \notin PathsIn(a) BY <3>2 DEF PathsIn
    <3> QED BY <2>6, <3>1, <3>3
  <2>13. PathsIn(a) \subseteq Nat BY <1>2
  <2>14. ParsedPath(a, n, new) BY <2>4, <2>6, <2>7, <2>12, <2>13, KeepsPath
  <2>15. Boundary(a, n)
    <3>1. n - 1 = i + 1 BY <2>5, <2>6
    <3> QED BY <2>2, <3>1 DEF Boundary, OptionLike
  <2>16. Parsed(a, n, new) BY <2>4, <2>7, <2>8, <2>10, <2>11, <2>14, <2>15 DEF Parsed
  <2>17. k + 1 \in Nat /\ k + 1 < n /\ n \in 1 .. Len(a) + 1 BY <1>1, <1>2, <2>1, <2>5
  <2>18. ParseInv(a, k + 1, [i |-> n, info |-> new]) BY <2>3, <2>16, <2>17, ParseGoesOn
  <2> QED BY <1>4, <1>7, <2>5, <2>18
<1> QED BY <1>6, <1>7

LEMMA TurnRec ==
  ASSUME NEW a, NEW k, NEW i, NEW info, NEW st, AtToken(a, k, i, info, st), a[i] = "--rec"
  PROVE  ParseInv(a, k + 1, parse_turn(a, st))
<1>1. a \in Seq(STRING) /\ k \in Nat /\ i \in 1 .. Len(a) /\ k < i /\ info \in Infos /\ info.valid = 1
  BY DEF AtToken
<1>2. Len(a) \in Nat /\ DOMAIN a = 1 .. Len(a) /\ PathsIn(a) \subseteq 1 .. Len(a) BY <1>1, PathsInPlaces
<1>3. i # Len(a) + 1 BY <1>1, <1>2
<1> DEFINE new == [info EXCEPT !.has_rec = 1]
<1>4. parse_turn(a, st) = [i |-> i + 1, info |-> new] BY <1>3 DEF parse_turn, AtToken
<1>5. new \in Infos /\ new.valid = 1 BY <1>1 DEF Infos
<1>6. /\ new.has_rec = 1 /\ new.has_depth = info.has_depth /\ new.depth = info.depth
      /\ new.has_substring = info.has_substring /\ new.substring = info.substring
      /\ new.has_path = info.has_path /\ new.path = info.path
  BY <1>1 DEF Infos
<1> HIDE DEF new
<1>7. PICK n \in Nat : n = i + 1 BY <1>1, <1>2
<1>8. i \in Nat /\ i <= n /\ n - 1 = i /\ (\A j \in i .. n - 1 : j = i) /\ i \in 1 .. n - 1
  BY <1>1, <1>2, <1>7
<1>9. Boundary(a, i) /\ ParsedF(a, i, info) /\ ParsedD(a, i, info) /\ ParsedRec(a, i, info)
      /\ ParsedPath(a, i, info) /\ info.has_path \in {0, 1}
  BY DEF AtToken, Parsed
<1>10. \A j \in i .. n - 1 : a[j] # "--f" /\ a[j] # "--d" /\ j \notin PathsIn(a) BY <1>8 DEF PathsIn
<1>11. ParsedF(a, n, new) BY <1>6, <1>8, <1>9, <1>10, KeepsF
<1>12. ParsedD(a, n, new) BY <1>6, <1>8, <1>9, <1>10, KeepsD
<1>13. ParsedRec(a, n, new) BY <1>6, <1>8 DEF ParsedRec
<1>14. PathsIn(a) \subseteq Nat BY <1>2
<1>15. ParsedPath(a, n, new) BY <1>6, <1>8, <1>9, <1>10, <1>14, KeepsPath
<1>16. Boundary(a, n) BY <1>8 DEF Boundary
<1>17. Parsed(a, n, new) BY <1>6, <1>9, <1>11, <1>12, <1>13, <1>15, <1>16 DEF Parsed
<1>18. k + 1 \in Nat /\ k + 1 < n /\ n \in 1 .. Len(a) + 1 BY <1>1, <1>2, <1>7
<1>19. ParseInv(a, k + 1, [i |-> n, info |-> new]) BY <1>5, <1>17, <1>18, ParseGoesOn
<1> QED BY <1>4, <1>7, <1>19

LEMMA TurnPath ==
  ASSUME NEW a, NEW k, NEW i, NEW info, NEW st, AtToken(a, k, i, info, st),
         a[i] \notin {"--f", "--d", "--rec"}
  PROVE  ParseInv(a, k + 1, parse_turn(a, st))
<1>1. a \in Seq(STRING) /\ k \in Nat /\ i \in 1 .. Len(a) /\ k < i /\ info \in Infos /\ info.valid = 1
  BY DEF AtToken
<1>2. Len(a) \in Nat /\ DOMAIN a = 1 .. Len(a) /\ PathsIn(a) \subseteq 1 .. Len(a) BY <1>1, PathsInPlaces
<1>3. i # Len(a) + 1 BY <1>1, <1>2
<1> DEFINE bad == [info EXCEPT !.has_path = @ + 1, !.valid = 0]
           new == [info EXCEPT !.has_path = 1, !.path = a[i]]
<1>4. parse_turn(a, st) = IF info.has_path > 0 THEN [i |-> Len(a) + 1, info |-> bad]
                          ELSE [i |-> i + 1, info |-> new]
  BY <1>3 DEF parse_turn, AtToken
<1>5. Boundary(a, i) /\ ParsedF(a, i, info) /\ ParsedD(a, i, info) /\ ParsedRec(a, i, info)
      /\ ParsedPath(a, i, info) /\ info.has_path \in {0, 1}
  BY DEF AtToken, Parsed
<1>6. i \in PathsIn(a) BY <1>1, <1>2, <1>5 DEF PathsIn, Boundary
<1>7. CASE info.has_path > 0
  <2>1. bad \in Infos /\ bad.valid = 0
    <3>1. info.has_path + 1 \in Nat BY <1>5
    <3>2. PICK v \in Nat : v = info.has_path + 1 BY <3>1
    <3>3. bad = [info EXCEPT !.has_path = v, !.valid = 0] BY <3>2
    <3>4. [info EXCEPT !.has_path = v, !.valid = 0] \in Infos BY <1>1 DEF Infos
    <3>5. [info EXCEPT !.has_path = v, !.valid = 0].valid = 0 BY <1>1 DEF Infos
    <3> HIDE DEF bad
    <3> QED BY <3>3, <3>4, <3>5
  <2>2. PICK j \in PathsIn(a) : j < i BY <1>5, <1>7 DEF ParsedPath
  <2>3. ~(Cardinality(PathsIn(a)) <= 1)
    <3>1. IsFiniteSet(PathsIn(a))
      <4>1. IsFiniteSet(1 .. Len(a)) BY <1>2, FS_Interval
      <4> QED BY <1>2, <4>1, FS_Subset
    <3>2. {j, i} \subseteq PathsIn(a) BY <1>6, <2>2
    <3>3. j # i BY <1>1, <2>2
    <3>4. Cardinality({j, i}) = 2
      <4>1. IsFiniteSet({j}) /\ Cardinality({j}) = 1 BY FS_Singleton
      <4>2. Cardinality({j} \cup {i}) = Cardinality({j}) + 1 BY <3>3, <4>1, FS_AddElement
      <4>3. {j} \cup {i} = {j, i} OBVIOUS
      <4> QED BY <4>1, <4>2, <4>3
    <3>5. Cardinality({j, i}) <= Cardinality(PathsIn(a)) BY <3>1, <3>2, FS_Subset
    <3>6. Cardinality(PathsIn(a)) \in Nat BY <3>1, FS_CardinalityType
    <3> QED BY <3>4, <3>5, <3>6
  <2>4. ~WellFormed(a) BY <2>3 DEF WellFormed
  <2> HIDE DEF bad
  <2>5. ParseInv(a, k + 1, [i |-> Len(a) + 1, info |-> bad]) BY <1>1, <2>1, <2>4, ParseStops
  <2> QED BY <1>4, <1>7, <2>5
<1>8. CASE ~(info.has_path > 0)
  <2>1. info.has_path = 0 BY <1>5, <1>8
  <2>2. a[i] \in STRING BY <1>1, ElementOfSeq
  <2>3. new \in Infos /\ new.valid = 1 BY <1>1, <2>2 DEF Infos
  <2>4. /\ new.has_path = 1 /\ new.path = a[i] /\ new.has_rec = info.has_rec
        /\ new.has_depth = info.has_depth /\ new.depth = info.depth
        /\ new.has_substring = info.has_substring /\ new.substring = info.substring
    BY <1>1 DEF Infos
  <2> HIDE DEF new
  <2>5. PICK n \in Nat : n = i + 1 BY <1>1, <1>2
  <2>6. i \in Nat /\ i <= n /\ n - 1 = i /\ (\A j \in i .. n - 1 : j = i) BY <1>1, <1>2, <2>5
  <2>7. \A j \in i .. n - 1 : a[j] # "--f" /\ a[j] # "--d" /\ a[j] # "--rec" BY <2>6
  <2>8. ParsedF(a, n, new) BY <1>5, <2>4, <2>6, <2>7, KeepsF
  <2>9. ParsedD(a, n, new) BY <1>5, <2>4, <2>6, <2>7, KeepsD
  <2>10. ParsedRec(a, n, new) BY <1>5, <2>4, <2>6, <2>7, KeepsRec
  <2>11. ParsedPath(a, n, new)
    <3>1. i < n BY <2>5, <2>6
    <3>2. ASSUME NEW l \in PathsIn(a), l < n PROVE l = i
      <4>1. l \in 1 .. Len(a) BY <1>2
      <4>2. l \in 1 .. i - 1 \/ l = i BY <1>2, <2>5, <2>6, <3>2, <4>1
      <4> QED BY <1>5, <2>1, <4>2 DEF ParsedPath
    <3> QED BY <1>6, <2>4, <3>1, <3>2 DEF ParsedPath
  <2>12. Boundary(a, n) BY <2>6 DEF Boundary
  <2>13. Parsed(a, n, new) BY <2>4, <2>8, <2>9, <2>10, <2>11, <2>12 DEF Parsed
  <2>14. k + 1 \in Nat /\ k + 1 < n /\ n \in 1 .. Len(a) + 1 BY <1>1, <1>2, <2>5
  <2>15. ParseInv(a, k + 1, [i |-> n, info |-> new]) BY <2>3, <2>13, <2>14, ParseGoesOn
  <2> QED BY <1>4, <1>8, <2>5, <2>15
<1> QED BY <1>7, <1>8
LEMMA ParseTurnKeeps ==
  ASSUME NEW a \in Seq(STRING), NEW k \in Nat, NEW st, ParseInv(a, k, st)
  PROVE  ParseInv(a, k + 1, parse_turn(a, st))
<1>1. Len(a) \in Nat BY LenProperties
<1>2. PICK i \in 1 .. Len(a) + 1, info \in Infos : st.i = i /\ st.info = info BY DEF ParseInv
<1>3. CASE i = Len(a) + 1
  <2>1. parse_turn(a, st) = st BY <1>2, <1>3 DEF parse_turn
  <2> QED BY <1>2, <1>3, <2>1 DEF ParseInv
<1>4. CASE i # Len(a) + 1
  <2>1. i \in 1 .. Len(a) BY <1>1, <1>4
  <2>2. info.valid # 0 /\ k < i BY <1>2, <1>4 DEF ParseInv
  <2>3. info.valid = 1 BY <2>2 DEF Infos
  <2>4. Parsed(a, i, info) BY <1>2, <2>3 DEF ParseInv
  <2>5. AtToken(a, k, i, info, st) BY <1>2, <2>1, <2>2, <2>3, <2>4 DEF AtToken
  <2>6. CASE a[i] = "--f" BY <2>5, <2>6, TurnF
  <2>7. CASE a[i] = "--d" BY <2>5, <2>7, TurnD
  <2>8. CASE a[i] = "--rec" BY <2>5, <2>8, TurnRec
  <2>9. CASE a[i] \notin {"--f", "--d", "--rec"} BY <2>5, <2>9, TurnPath
  <2> QED BY <2>6, <2>7, <2>8, <2>9
<1> QED BY <1>3, <1>4

LEMMA ParseStart ==
  ASSUME NEW a \in Seq(STRING)
  PROVE  ParseInv(a, 0, [i |-> 1, info |-> Info])
<1>1. Len(a) \in Nat BY LenProperties
<1>2. Info \in Infos BY DEF Info, Infos
<1>3. /\ Info.valid = 1 /\ Info.has_path = 0 /\ Info.path = "." /\ Info.has_rec = 0
      /\ Info.has_substring = 0 /\ Info.has_depth = 0
  BY DEF Info
<1>4. PICK i \in Nat : i = 1 OBVIOUS
<1>5. 0 < i /\ i \in 1 .. Len(a) + 1 /\ ~(i > 1) /\ \A j \in 1 .. i - 1 : FALSE BY <1>1, <1>4
<1>6. Parsed(a, i, Info)
  BY <1>3, <1>5 DEF Parsed, Boundary, ParsedF, ParsedD, ParsedRec, ParsedPath
<1>7. ParseInv(a, 0, [i |-> i, info |-> Info]) BY <1>2, <1>3, <1>5, <1>6, ParseGoesOn
<1> QED BY <1>4, <1>7

(* What parse_ls() returns. *)
LEMMA ParseProperty ==
  ASSUME NEW a \in Seq(STRING)
  PROVE  \E st : ParseInv(a, Len(a), st) /\ parse_ls(a) = st.info
<1> DEFINE m == Len(a)
           zero == [i |-> 1, info |-> Info]
           Body(c) == [k \in 0 .. m |-> IF k = 0 THEN zero ELSE parse_turn(a, c[k - 1])]
           C == CHOOSE c : c = Body(c)
           X == {st \in [i : 1 .. m + 1, info : Infos] : ParseInv(a, 0, st)}
           step == [kx \in (1 .. m) \X X |-> parse_turn(a, kx[2])]
<1>1. m \in Nat BY LenProperties
<1>2. ParseInv(a, 0, zero) BY ParseStart
<1>3. zero \in X BY <1>2 DEF ParseInv
<1>4. ASSUME NEW st \in X PROVE parse_turn(a, st) \in X
  <2>1. PICK z \in Nat : z = 0 OBVIOUS
  <2>2. ParseInv(a, z, st) BY <2>1
  <2>3. PICK y : y = parse_turn(a, st) OBVIOUS
  <2>4. ParseInv(a, z + 1, y) BY <2>2, <2>3, ParseTurnKeeps
  <2>5. y \in [i : 1 .. m + 1, info : Infos] BY <2>4 DEF ParseInv
  <2>6. 0 < y.i BY <1>1, <2>5
  <2>7. ParseInv(a, 0, y) BY <2>4, <2>6 DEF ParseInv
  <2>8. y \in X BY <2>5, <2>7
  <2> HIDE DEF X
  <2> QED BY <2>3, <2>8
<1>5. step \in [(1 .. m) \X X -> X]
  <2> HIDE DEF X
  <2> QED BY <1>4
<1>6. \A k \in 1 .. m, y \in X : step[<<k, y>>] = parse_turn(a, y)
  <2> HIDE DEF X
  <2> QED OBVIOUS
<1>7. PICK f \in [0 .. m -> X] : Turns(f, zero, step, m)
  <2> HIDE DEF X, zero, step
  <2> QED BY <1>1, <1>3, <1>5, LoopRuns
<1> HIDE DEF X, step
<1>8. f = Body(f)
  <2>1. ASSUME NEW k \in 0 .. m PROVE f[k] = Body(f)[k]
    <3>1. Body(f)[k] = IF k = 0 THEN zero ELSE parse_turn(a, f[k - 1]) OBVIOUS
    <3> HIDE DEF zero, Body
    <3>2. CASE k = 0 BY <1>7, <3>1, <3>2 DEF Turns
    <3>3. CASE k # 0
      <4>1. k \in 1 .. m /\ k - 1 \in 0 .. m BY <1>1, <3>3
      <4>2. f[k - 1] \in X BY <4>1
      <4>3. f[k] = step[<<k, f[k - 1]>>] BY <1>7, <4>1 DEF Turns
      <4> QED BY <1>6, <3>1, <3>3, <4>1, <4>2, <4>3
    <3> QED BY <3>2, <3>3
  <2>2. DOMAIN Body(f) = 0 .. m /\ DOMAIN f = 0 .. m OBVIOUS
  <2> QED BY <2>1, <2>2
<1>9. C = Body(C)
  <2> HIDE DEF Body
  <2> QED BY <1>8, Zenon
<1>10. parse_ls(a) = C[m].info BY DEF parse_ls
<1> HIDE DEF C
<1>11. \A k \in 0 .. m : C[k] = IF k = 0 THEN zero ELSE parse_turn(a, C[k - 1]) BY <1>9
<1> HIDE DEF zero, Body
<1> DEFINE Bad == {k \in 0 .. m : ~ParseInv(a, k, C[k])}
<1>12. Bad = {}
  <2> SUFFICES ASSUME Bad # {} PROVE FALSE OBVIOUS
  <2>1. Bad \in SUBSET Nat BY <1>1
  <2>2. PICK b \in Bad : \A k \in Bad : b <= k BY <2>1, LeastExists
  <2>3. b \in 0 .. m /\ ~ParseInv(a, b, C[b]) BY <2>2
  <2>4. b # 0 BY <1>2, <1>11, <2>3
  <2>5. PICK j \in Nat : j = b - 1 BY <1>1, <2>3, <2>4
  <2>6. j \in 0 .. m /\ ~(b <= j) /\ b = j + 1 BY <1>1, <2>3, <2>4, <2>5
  <2>7. ParseInv(a, j, C[j])
    <3>1. j \notin Bad
      <4> HIDE DEF Bad
      <4> QED BY <2>2, <2>6
    <3> QED BY <2>6, <3>1
  <2>8. ParseInv(a, j + 1, parse_turn(a, C[j])) BY <2>7, ParseTurnKeeps
  <2>9. C[b] = parse_turn(a, C[j]) BY <1>11, <2>3, <2>4, <2>5
  <2> QED BY <2>3, <2>6, <2>8, <2>9
<1>13. ParseInv(a, m, C[m]) BY <1>1, <1>12
<1> QED BY <1>10, <1>13
(* What the options ask for is what parse_ls() has found. *)
LEMMA ParseMeaning ==
  ASSUME NEW a \in Seq(STRING), NEW info, info = parse_ls(a)
  PROVE  /\ info \in Infos /\ (info.valid # 1 => ~WellFormed(a))
         /\ info.valid = 1 =>
              /\ info.has_path <= 1 /\ (WellFormed(a) <=> ~(info.has_rec = 0 /\ info.has_depth = 1))
              /\ StartOf(a) = PathOf[info.path]
              /\ info.has_rec = 1 <=> At(a, "--rec") # {}
              /\ info.has_substring = 1 <=> At(a, "--f") # {}
              /\ At(a, "--f") # {} => info.substring = a[Max(At(a, "--f")) + 1]
              /\ info.has_depth = 1 <=> At(a, "--d") # {}
              /\ At(a, "--d") # {} => info.depth = Number[a[Max(At(a, "--d")) + 1]]
<1>1. PICK st : ParseInv(a, Len(a), st) /\ info = st.info BY ParseProperty
<1>2. Len(a) \in Nat /\ DOMAIN a = 1 .. Len(a) /\ PathsIn(a) \subseteq 1 .. Len(a) BY PathsInPlaces
<1>3. info \in Infos BY <1>1 DEF ParseInv
<1>4. info.valid # 1 => ~WellFormed(a)
  <2>1. info.valid # 1 => info.valid = 0 BY <1>3 DEF Infos
  <2> QED BY <1>1, <2>1 DEF ParseInv
<1>5. ASSUME info.valid = 1
      PROVE  /\ info.has_path <= 1 /\ (WellFormed(a) <=> ~(info.has_rec = 0 /\ info.has_depth = 1))
             /\ StartOf(a) = PathOf[info.path]
             /\ info.has_rec = 1 <=> At(a, "--rec") # {}
             /\ info.has_substring = 1 <=> At(a, "--f") # {}
             /\ At(a, "--f") # {} => info.substring = a[Max(At(a, "--f")) + 1]
             /\ info.has_depth = 1 <=> At(a, "--d") # {}
             /\ At(a, "--d") # {} => info.depth = Number[a[Max(At(a, "--d")) + 1]]
  <2>1. PICK i \in 1 .. Len(a) + 1 : i = st.i BY <1>1 DEF ParseInv
  <2>2. Len(a) < i \/ i = Len(a) + 1 BY <1>1, <2>1 DEF ParseInv
  <2>3. i = Len(a) + 1 BY <1>2, <2>1, <2>2
  <2>4. i - 1 = Len(a) /\ 1 .. i - 1 = 1 .. Len(a) BY <1>2, <2>3
  <2>5. Parsed(a, i, info) BY <1>1, <1>5, <2>1 DEF ParseInv
  <2>6. ParsedF(a, i, info) /\ ParsedD(a, i, info) /\ ParsedRec(a, i, info) /\ ParsedPath(a, i, info)
        /\ info.has_path \in {0, 1}
    BY <2>5 DEF Parsed
  <2>7. \A option : \A j : j \in At(a, option) <=> j \in 1 .. i - 1 /\ a[j] = option
    BY <1>2, <2>4 DEF At
  <2>8. \A option : At(a, option) \in SUBSET (0 .. Len(a)) BY <1>2 DEF At
  <2>9. info.has_rec = 1 <=> At(a, "--rec") # {} BY <2>6, <2>7 DEF ParsedRec
  <2>10. info.has_substring = 1 <=> At(a, "--f") # {} BY <2>6, <2>7 DEF ParsedF
  <2>11. ASSUME At(a, "--f") # {} PROVE info.substring = a[Max(At(a, "--f")) + 1]
    <3>1. Max(At(a, "--f")) \in At(a, "--f") BY <1>2, <2>8, <2>11, MaxProperty
    <3> QED BY <2>6, <2>7, <3>1 DEF ParsedF
  <2>12. info.has_depth = 1 <=> At(a, "--d") # {} BY <2>6, <2>7 DEF ParsedD
  <2>13. ASSUME At(a, "--d") # {} PROVE info.depth = Number[a[Max(At(a, "--d")) + 1]]
    <3>1. /\ Max(At(a, "--d")) \in At(a, "--d") /\ \A y \in At(a, "--d") : y <= Max(At(a, "--d"))
      BY <1>2, <2>8, <2>13, MaxProperty
    <3>2. PICK j \in 1 .. i - 1 : /\ a[j] = "--d" /\ info.depth = Number[a[j + 1]]
                                  /\ \A l \in 1 .. i - 1 : a[l] = "--d" => l <= j
      BY <2>6, <2>12, <2>13 DEF ParsedD
    <3>3. PICK l \in 1 .. i - 1 : l = Max(At(a, "--d")) /\ a[l] = "--d" BY <2>7, <3>1
    <3>4. j <= l /\ l <= j BY <2>7, <3>1, <3>2, <3>3
    <3>5. j = l BY <3>4
    <3> QED BY <3>2, <3>3, <3>5
  <2>14. Cardinality(PathsIn(a)) <= 1 /\ StartOf(a) = PathOf[info.path]
    <3>1. CASE info.has_path = 0
      <4>1. PathsIn(a) = {} /\ info.path = "." BY <1>2, <2>4, <2>6, <3>1 DEF ParsedPath
      <4> QED BY <4>1, FS_EmptySet DEF StartOf
    <3>2. CASE info.has_path # 0
      <4>1. PICK j \in PathsIn(a) : j < i /\ info.path = a[j] /\ \A l \in PathsIn(a) : l < i => l = j
        BY <2>6, <3>2 DEF ParsedPath
      <4>2. \A l \in PathsIn(a) : l < i BY <1>2, <2>3
      <4>3. PathsIn(a) = {j} BY <4>1, <4>2
      <4>4. Cardinality(PathsIn(a)) = 1 BY <4>3, FS_Singleton
      <4>5. (CHOOSE l \in PathsIn(a) : TRUE) = j BY <4>3
      <4>6. StartOf(a) = PathOf[a[j]] BY <4>3, <4>5 DEF StartOf
      <4> QED BY <4>1, <4>4, <4>6
    <3> QED BY <3>1, <3>2
  <2>15. \A j \in At(a, "--f") : j < Len(a) /\ a[j + 1] \notin OptionLike \cup {NoText}
    <3>1. \A j \in At(a, "--f") : j + 1 < i /\ a[j + 1] \notin OptionLike \cup {NoText}
      BY <2>6, <2>7 DEF ParsedF
    <3>2. \A j \in At(a, "--f") : j \in Nat BY <2>7
    <3>3. \A j \in Nat : j + 1 < i => j < Len(a) BY <1>2, <2>3
    <3> QED BY <3>1, <3>2, <3>3
  <2>16. \A j, l \in At(a, "--f") : a[l + 1] = a[j + 1] BY <2>6, <2>7 DEF ParsedF
  <2>17. \A j \in At(a, "--d") : j < Len(a) /\ a[j + 1] \in DOMAIN Number
    <3>1. \A j \in At(a, "--d") : j + 1 < i /\ a[j + 1] \in DOMAIN Number
      BY <2>6, <2>7 DEF ParsedD
    <3>2. \A j \in At(a, "--d") : j \in Nat BY <2>7
    <3>3. \A j \in Nat : j + 1 < i => j < Len(a) BY <1>2, <2>3
    <3> QED BY <3>1, <3>2, <3>3
  <2>18. info.has_rec \in {0, 1} BY <1>3 DEF Infos
  <2>19. WellFormed(a) <=> ~(info.has_rec = 0 /\ info.has_depth = 1)
    BY <2>9, <2>12, <2>14, <2>15, <2>16, <2>17, <2>18 DEF WellFormed
  <2>20. info.has_path <= 1 BY <2>6
  <2> QED BY <2>9, <2>10, <2>11, <2>12, <2>13, <2>14, <2>19, <2>20
<1> QED BY <1>3, <1>4, <1>5

---------------------------------------------------------------------------
(* What ls prints. *)

Start(info, x, fds) == [path |-> x, remain_depth |-> info.depth, fds |-> fds]

(* The levels recursive_ls() goes down to if nothing stops it, and the     *)
(* directories it reaches with the descriptors there are.                  *)
Allowed(t, a) ==
  LET depth == Number[a[Max(At(a, "--d")) + 1]] IN
  IF At(a, "--rec") = {} THEN 1
  ELSE IF At(a, "--d") = {} \/ depth < 0 THEN Cardinality(t.dirs)
  ELSE depth

Reached(t, a, start, fds) ==
  LET levels == IF At(a, "--rec") = {} THEN 1 ELSE Min({Allowed(t, a), fds - 1})
  IN  {x \in t.dirs : IsPrefix(start, x) /\ Len(x) - Len(start) < levels}

LEMMA LevelsProperty ==
  ASSUME NEW L \in Nat, NEW f \in Nat, NEW n \in Nat
  PROVE  n < Min({L, f}) <=> n < L /\ n < f
<1>1. Min({L, f}) \in {L, f} /\ \A y \in {L, f} : Min({L, f}) <= y BY MinProperty
<1> QED BY <1>1

LEMMA ReachedProperty ==
  ASSUME NEW t \in Trees, NEW a \in Seq(STRING), NEW info, info = parse_ls(a), info.valid = 1,
         WellFormed(a), NEW x \in t.dirs, NEW fds \in Nat, fds # 0
  PROVE  /\ info.has_rec = 1 => Reached(t, a, x, fds) = Under(t, info, Start(info, x, fds - 1))
         /\ info.has_rec # 1 => Reached(t, a, x, fds) = {x}
<1>1. /\ info \in Infos
      /\ info.has_rec = 1 <=> At(a, "--rec") # {}
      /\ info.has_depth = 1 <=> At(a, "--d") # {}
      /\ At(a, "--d") # {} => info.depth = Number[a[Max(At(a, "--d")) + 1]]
  BY ParseMeaning
<1>2. \A d \in t.dirs : d \in Seq(STRING) BY TreeFacts
<1>3. Len(x) \in Nat BY <1>2, LenProperties
<1>4. ASSUME NEW d \in t.dirs, IsPrefix(x, d)
      PROVE  Len(d) - Len(x) \in Nat /\ (Len(d) = Len(x) => d = x)
  <2>1. Len(d) \in Nat /\ Len(x) <= Len(d) /\ x = SubSeq(d, 1, Len(x))
    BY <1>2, <1>4, PrefixProperty
  <2>2. d = SubSeq(d, 1, Len(d)) BY <1>2, <2>1
  <2>3. Len(d) = Len(x) => d = x BY <2>1, <2>2, Zenon
  <2>4. Len(d) \in Nat /\ Len(x) <= Len(d) BY <2>1
  <2>5. Len(d) - Len(x) \in Nat BY <1>3, <2>4
  <2> QED BY <2>3, <2>5
<1>5. CASE info.has_rec # 1
  <2>1. Reached(t, a, x, fds) = {d \in t.dirs : IsPrefix(x, d) /\ Len(d) - Len(x) < 1}
    BY <1>1, <1>5 DEF Reached
  <2>2. ASSUME NEW d \in t.dirs, IsPrefix(x, d), Len(d) - Len(x) < 1 PROVE d = x
    <3>1. Len(d) \in Nat BY <1>2, LenProperties
    <3>2. Len(d) = Len(x) BY <1>3, <1>4, <2>2, <3>1
    <3> QED BY <1>4, <2>2, <3>2
  <2>3. IsPrefix(x, x) /\ Len(x) - Len(x) < 1 BY <1>2, <1>3, PrefixProperty
  <2> QED BY <1>5, <2>1, <2>2, <2>3
<1>6. CASE info.has_rec = 1
  <2> DEFINE L == Allowed(t, a)
             c == Start(info, x, fds - 1)
             r == Remain(info, c)
  <2>1. Reached(t, a, x, fds) = {d \in t.dirs : IsPrefix(x, d) /\ Len(d) - Len(x) < Min({L, fds - 1})}
    BY <1>1, <1>6 DEF Reached
  <2>2. c.path = x /\ c.fds = fds - 1 /\ c.remain_depth = info.depth BY DEF Start
  <2>3. r = IF At(a, "--d") = {} THEN -1 ELSE Number[a[Max(At(a, "--d")) + 1]]
    <3>1. info.has_depth \in {0, 1} BY <1>1 DEF Infos
    <3> HIDE DEF c
    <3> QED BY <1>1, <2>2, <3>1 DEF Remain
  <2>4. info.depth \in Int BY <1>1 DEF Infos
  <2>5. r \in Int BY <2>2, <2>4 DEF Remain
  <2>6. Cardinality(t.dirs) \in Nat BY DepthBounded
  <2>7. L = IF r < 0 THEN Cardinality(t.dirs) ELSE r
    <3> HIDE DEF r, c
    <3>1. At(a, "--rec") # {} BY <1>1, <1>6
    <3>2. CASE At(a, "--d") = {}
      <4>1. r < 0 BY <2>3, <3>2
      <4> QED BY <3>1, <3>2, <4>1 DEF Allowed
    <3>3. CASE At(a, "--d") # {} BY <2>3, <3>1, <3>3 DEF Allowed
    <3> QED BY <3>2, <3>3
  <2> HIDE DEF L, r
  <2>8. L \in Nat /\ fds - 1 \in Nat BY <2>5, <2>6, <2>7
  <2>9. ASSUME NEW d \in t.dirs, IsPrefix(x, d)
        PROVE  Len(d) - Len(x) < Min({L, fds - 1}) <=> Within(info, c, Len(d) - Len(c.path))
    <3>1. PICK n \in Nat : n = Len(d) - Len(x) BY <1>4, <2>9
    <3>2. n < Cardinality(t.dirs)
      <4>1. Len(d) \in Nat /\ Len(d) < Cardinality(t.dirs) BY DepthBounded
      <4> QED BY <1>3, <2>6, <3>1, <4>1
    <3>3. n < L <=> (r >= 0 => n < r) BY <2>5, <2>6, <2>7, <3>2
    <3>4. n < Min({L, fds - 1}) <=> n < L /\ n < fds - 1 BY <2>8, LevelsProperty
    <3>5. Within(info, c, n) <=> n < fds - 1 /\ (r >= 0 => n < r) BY <2>2 DEF Within, r
    <3> HIDE DEF c
    <3> QED BY <2>2, <3>1, <3>3, <3>4, <3>5
  <2>10. Under(t, info, c) = {d \in t.dirs : IsPrefix(x, d) /\ Within(info, c, Len(d) - Len(c.path))}
    BY <2>2 DEF Under
  <2> HIDE DEF c
  <2>11. Reached(t, a, x, fds) = Under(t, info, c) BY <2>1, <2>9, <2>10
  <2> QED BY <1>6, <2>11 DEF c
<1> QED BY <1>5, <1>6
(* What a command ls with arguments a in directory d prints. *)
ListingOK(t, d, a, fds, r, o) ==
  LET start == Lookup(t, d, StartOf(a))
      ok == WellFormed(a) /\ start \in t.dirs /\ fds > 0
      shown(n) == {x \in Reached(t, a, start, fds) : n \in Entries(t, x) \cap Wanted(t, a)}
  IN /\ r = IF ok THEN 0 ELSE -1
     /\ ok => \A n \in UNION {Entries(t, x) : x \in t.dirs} : Copies(o, n) = Cardinality(shown(n))
     /\ ~ok => o = EmptyBag

LEMMA ShownProperty ==
  ASSUME NEW t \in Trees, NEW a \in Seq(STRING), NEW info, info = parse_ls(a), info.valid = 1,
         NEW D \in SUBSET t.dirs, NEW n
  PROVE  Showing(Names(t, info), D, n) = {x \in D : n \in Entries(t, x) \cap Wanted(t, a)}
<1>1. /\ info.has_substring = 1 <=> At(a, "--f") # {}
      /\ At(a, "--f") # {} => info.substring = a[Max(At(a, "--f")) + 1]
  BY ParseMeaning
<1>2. ASSUME NEW x \in D PROVE n \in Names(t, info)[x] <=> n \in Entries(t, x) \cap Wanted(t, a)
  <2>1. x \in t.dirs OBVIOUS
  <2>2. Names(t, info)[x] = Printed(t, x, info) BY <2>1 DEF Names
  <2>3. CASE At(a, "--f") = {}
    <3>1. Printed(t, x, info) = Entries(t, x) BY <1>1, <2>3 DEF Printed
    <3>2. Wanted(t, a) = UNION {Entries(t, y) : y \in t.dirs} BY <2>3 DEF Wanted
    <3>3. Entries(t, x) \subseteq Wanted(t, a) BY <2>1, <3>2
    <3> QED BY <2>2, <3>1, <3>3
  <2>4. CASE At(a, "--f") # {}
    <3>1. Printed(t, x, info) = Entries(t, x) \cap strstr[info.substring] BY <1>1, <2>4 DEF Printed
    <3>2. Wanted(t, a) = strstr[info.substring] BY <1>1, <2>4 DEF Wanted
    <3> QED BY <2>2, <3>1, <3>2
  <2> QED BY <2>3, <2>4
<1> QED BY <1>2 DEF Showing

LEMMA LsIsExact ==
  ASSUME NEW t \in Trees, NEW d \in t.dirs, NEW a \in Seq(STRING), NEW fds \in Nat, NEW info,
         info = parse_ls(a), NEW x, x = Lookup(t, d, PathOf[info.path]), NEW bad,
         bad <=> \/ info.has_path > 1 \/ info.valid # 1
                 \/ info.has_rec = 0 /\ info.has_depth = 1
                 \/ x \notin t.dirs \/ fds = 0,
         NEW r, NEW o,
         \/ bad /\ r = -1 /\ o = EmptyBag
         \/ ~bad /\ info.has_rec = 1 /\ r = 0 /\ o = recursive_ls(t, x, info, fds - 1)
         \/ ~bad /\ info.has_rec = 0 /\ r = 0 /\ o = SetToBag(Printed(t, x, info))
  PROVE  ListingOK(t, d, a, fds, r, o)
<1> DEFINE start == Lookup(t, d, StartOf(a))
           ok == WellFormed(a) /\ start \in t.dirs /\ fds > 0
           D == Reached(t, a, start, fds)
           N == Names(t, info)
<1>1. /\ info \in Infos /\ (info.valid # 1 => ~WellFormed(a))
      /\ info.valid = 1 =>
           /\ info.has_path <= 1 /\ (WellFormed(a) <=> ~(info.has_rec = 0 /\ info.has_depth = 1))
           /\ StartOf(a) = PathOf[info.path]
  BY ParseMeaning
<1>2. fds > 0 <=> fds # 0 OBVIOUS
<1>3. info.valid = 1 => ~(info.has_path > 1)
  <2>1. info.has_path \in Nat BY <1>1 DEF Infos
  <2> QED BY <1>1, <2>1
<1>4. ok <=> ~bad
  <2>1. CASE info.valid # 1 BY <1>1, <2>1
  <2>2. CASE info.valid = 1
    <3>1. start = x BY <1>1, <2>2
    <3> HIDE DEF start
    <3> QED BY <1>1, <1>2, <1>3, <2>2, <3>1
  <2> QED BY <2>1, <2>2
<1>5. CASE bad
  <2>1. ~ok /\ r = -1 /\ o = EmptyBag BY <1>4, <1>5
  <2> QED BY <2>1 DEF ListingOK
<1>6. CASE ~bad
  <2>1. ok /\ r = 0 BY <1>4, <1>6
  <2>2. info.valid = 1 /\ start = x /\ x \in t.dirs /\ WellFormed(a) /\ fds # 0 BY <1>1, <1>6, <2>1
  <2>3. D \in SUBSET t.dirs BY DEF Reached
  <2>4. o = BagOf(N, D)
    <3>1. CASE info.has_rec = 1
      <4>1. D = Under(t, info, Start(info, x, fds - 1)) BY <2>2, <3>1, ReachedProperty
      <4>2. o = recursive_ls(t, x, info, fds - 1) BY <1>6, <3>1
      <4>3. fds - 1 \in Nat BY <2>2
      <4>4. info.depth \in Int BY <1>1 DEF Infos
      <4>5. recursive_ls(t, x, info, fds - 1) = BagOf(N, Under(t, info, Start(info, x, fds - 1)))
        BY <2>2, <4>3, <4>4, RecursiveProperty DEF Start
      <4> HIDE DEF D, N
      <4> QED BY <4>1, <4>2, <4>5
    <3>2. CASE info.has_rec # 1
      <4>1. D = {x} BY <2>2, <3>2, ReachedProperty
      <4>2. o = SetToBag(Printed(t, x, info)) BY <1>6, <3>2
      <4>3. N[x] = Printed(t, x, info) BY <2>2 DEF Names
      <4> HIDE DEF D, N
      <4> QED BY <4>1, <4>2, <4>3, BagOfOne
    <3> QED BY <3>1, <3>2
  <2>5. ASSUME NEW n
        PROVE  Copies(o, n) = Cardinality({y \in D : n \in Entries(t, y) \cap Wanted(t, a)})
    <3>1. Copies(BagOf(N, D), n) = Cardinality(Showing(N, D, n)) BY BagOfProperty
    <3>2. Showing(N, D, n) = {y \in D : n \in Entries(t, y) \cap Wanted(t, a)}
      <4> HIDE DEF D
      <4> QED BY <2>2, <2>3, ShownProperty
    <3> HIDE DEF D, N
    <3> QED BY <2>4, <3>1, <3>2
  <2> QED BY <2>1, <2>5 DEF ListingOK
<1> QED BY <1>5, <1>6

(* What is reached is what was asked for, but for want of descriptors. *)
LEMMA ReachedAsked ==
  ASSUME NEW t \in Trees, NEW a \in Seq(STRING), Sensible(a), NEW start \in t.dirs,
         NEW fds \in Nat, fds # 0
  PROVE  /\ Reached(t, a, start, fds) \subseteq LookedInto(t, a, start)
         /\ Enough(t, a, start, fds) => Reached(t, a, start, fds) = LookedInto(t, a, start)
<1>1. Len(a) \in Nat /\ DOMAIN a = 1 .. Len(a) BY LenProperties
<1>2. CASE At(a, "--rec") = {} BY <1>2 DEF Reached, LookedInto, Levels
<1>3. CASE At(a, "--rec") # {}
  <2>1. PICK L : L = Levels(t, a) OBVIOUS
  <2>2. L \in Nat /\ Allowed(t, a) = L
    <3>1. CASE At(a, "--d") = {}
      <4>1. L = Cardinality(t.dirs) /\ Allowed(t, a) = L BY <1>3, <2>1, <3>1 DEF Levels, Allowed
      <4> QED BY <4>1, DepthBounded
    <3>2. CASE At(a, "--d") # {}
      <4>1. At(a, "--d") \in SUBSET (0 .. Len(a)) BY <1>1 DEF At
      <4>2. PICK k : k = Max(At(a, "--d")) OBVIOUS
      <4>3. k \in At(a, "--d") BY <1>1, <3>2, <4>1, <4>2, MaxProperty
      <4>4. a[k + 1] \in DOMAIN Number /\ Number[a[k + 1]] > 0
        BY <4>3 DEF Sensible, WellFormed
      <4>5. L = Number[a[k + 1]] BY <1>3, <2>1, <3>2, <4>2 DEF Levels
      <4>6. L \in Int /\ L > 0 BY <4>4, <4>5, LsAssumption
      <4>7. ~(L < 0) /\ L \in Nat BY <4>6
      <4>8. Allowed(t, a) = L BY <1>3, <3>2, <4>2, <4>5, <4>7 DEF Allowed
      <4> QED BY <4>7, <4>8
    <3> QED BY <3>1, <3>2
  <2>3. fds - 1 \in Nat OBVIOUS
  <2>4. Reached(t, a, start, fds)
          = {x \in t.dirs : IsPrefix(start, x) /\ Len(x) - Len(start) < Min({L, fds - 1})}
    BY <1>3, <2>2 DEF Reached
  <2>5. LookedInto(t, a, start)
          = {x \in t.dirs : IsPrefix(start, x) /\ Len(x) - Len(start) < L}
    BY <2>1 DEF LookedInto
  <2>6. ASSUME NEW x \in t.dirs, IsPrefix(start, x)
        PROVE  /\ Len(x) - Len(start) \in Nat
               /\ Len(x) - Len(start) < Min({L, fds - 1}) <=>
                    Len(x) - Len(start) < L /\ Len(x) - Len(start) < fds - 1
    <3>1. start \in Seq(STRING) /\ x \in Seq(STRING) BY TreeFacts
    <3>2. Len(x) \in Nat /\ Len(start) \in Nat /\ Len(start) <= Len(x)
      BY <2>6, <3>1, PrefixProperty, LenProperties
    <3>3. PICK n \in Nat : n = Len(x) - Len(start) BY <3>2
    <3>4. n < Min({L, fds - 1}) <=> n < L /\ n < fds - 1 BY <2>2, <2>3, LevelsProperty
    <3> QED BY <3>3, <3>4
  <2>7. Reached(t, a, start, fds) \subseteq LookedInto(t, a, start) BY <2>4, <2>5, <2>6
  <2>8. ASSUME Enough(t, a, start, fds), NEW x \in LookedInto(t, a, start)
        PROVE  x \in Reached(t, a, start, fds)
    <3>1. x \in t.dirs /\ IsPrefix(start, x) /\ Len(x) - Len(start) < L BY <2>5, <2>8
    <3>2. Len(x) - Len(start) + 2 <= fds BY <1>3, <2>8 DEF Enough
    <3>3. PICK n \in Nat : n = Len(x) - Len(start) BY <2>6, <3>1
    <3>4. n < fds - 1 BY <3>2, <3>3
    <3> QED BY <2>4, <2>6, <3>1, <3>3, <3>4
  <2> QED BY <2>7, <2>8
<1> QED BY <1>2, <1>3

(* ListingExact of a command ls with arguments a in directory d. *)
Asked(t, d, a, fds, r, o) ==
  LET start == Lookup(t, d, StartOf(a))
      ok    == Sensible(a) /\ start \in t.dirs /\ fds > 0
  IN /\ r = IF ok THEN 0 ELSE -1
     /\ ok => \A n \in AllNames(t) :
                /\ Copies(o, n) <= Due(t, a, start, n)
                /\ Enough(t, a, start, fds) => Copies(o, n) = Due(t, a, start, n)
     /\ ~ok => o = EmptyBag

LEMMA AskedProperty ==
  ASSUME NEW t \in Trees, NEW d \in t.dirs, NEW a \in Seq(STRING), NEW fds \in Nat, NEW r, NEW o,
         ListingOK(t, d, a, fds, r, o), WellFormed(a) => Sensible(a)
  PROVE  Asked(t, d, a, fds, r, o)
<1> DEFINE start == Lookup(t, d, StartOf(a))
           ok == Sensible(a) /\ start \in t.dirs /\ fds > 0
<1>1. WellFormed(a) <=> Sensible(a) BY DEF Sensible
<1>2. /\ r = IF ok THEN 0 ELSE -1
      /\ ~ok => o = EmptyBag
      /\ ok => \A n \in AllNames(t) :
                 Copies(o, n) = Cardinality({x \in Reached(t, a, start, fds) :
                                               n \in Entries(t, x) \cap Wanted(t, a)})
  BY <1>1 DEF ListingOK, AllNames
<1>3. ASSUME ok, NEW n \in AllNames(t)
      PROVE  /\ Copies(o, n) <= Due(t, a, start, n)
             /\ Enough(t, a, start, fds) => Copies(o, n) = Due(t, a, start, n)
  <2> DEFINE R == {x \in Reached(t, a, start, fds) : n \in Entries(t, x) \cap Wanted(t, a)}
             D == {x \in LookedInto(t, a, start) : n \in Entries(t, x) \cap Wanted(t, a)}
  <2>1. Copies(o, n) = Cardinality(R) /\ Due(t, a, start, n) = Cardinality(D)
    BY <1>2, <1>3 DEF Due
  <2>2. fds # 0 BY <1>3
  <2>3. /\ Reached(t, a, start, fds) \subseteq LookedInto(t, a, start)
        /\ Enough(t, a, start, fds) => Reached(t, a, start, fds) = LookedInto(t, a, start)
    <3> HIDE DEF start
    <3> QED BY <1>3, <2>2, ReachedAsked
  <2>4. R \subseteq D /\ (Enough(t, a, start, fds) => R = D)
    <3> HIDE DEF start
    <3> QED BY <2>3
  <2>5. IsFiniteSet(D)
    <3>1. D \subseteq Nodes(t) BY DEF LookedInto, Nodes
    <3>2. IsFiniteSet(Nodes(t)) BY TreesAssumption
    <3> HIDE DEF D
    <3> QED BY <3>1, <3>2, FS_Subset
  <2> HIDE DEF R, D, start
  <2>6. Cardinality(R) <= Cardinality(D) BY <2>4, <2>5, FS_Subset
  <2> QED BY <2>1, <2>4, <2>6
<1> QED BY <1>2, <1>3 DEF Asked

LEMMA ListingNext == TypeOK /\ ListingExact /\ [Next]_vars => ListingExact'
<1> SUFFICES ASSUME TypeOK, ListingExact, [Next]_vars PROVE ListingExact' OBVIOUS
<1>1. tree \in Trees /\ cwd \in tree.dirs /\ free \in Nat BY DEF TypeOK
<1>2. ListingExact' <=>
        (cmd'.name = "ls" /\ (WellFormed(cmd'.arg) => Sensible(cmd'.arg)) =>
           Asked(tree', cwd', cmd'.arg, was'.free, ret', out'))
  BY DEF ListingExact, Asked, Shown, Copies, BagIn, BagToSet
<1>3. ASSUME NEW p \in Paths, bn_cd(p) \/ bn_cat(p) \/ bn_wc(p) PROVE ListingExact'
  <2>1. cmd'.name # "ls" BY <1>3 DEF bn_cd, bn_cat, bn_wc, Returns
  <2> QED BY <1>2, <2>1
<1>4. ASSUME Prompt PROVE ListingExact'
  <2>1. cmd'.name # "ls" BY <1>4 DEF Prompt, Idle
  <2> QED BY <1>2, <2>1
<1>5. ASSUME NEW a \in LsArgs, bn_ls(a) PROVE ListingExact'
  <2> DEFINE info == parse_ls(a)
             x == Lookup(tree, cwd, PathOf[info.path])
             bad == \/ info.has_path > 1 \/ info.valid # 1
                    \/ info.has_rec = 0 /\ info.has_depth = 1
                    \/ x \notin tree.dirs \/ free = 0
  <2>1. a \in Seq(STRING) BY LsAssumption
  <2>2. tree' = tree /\ cwd' = cwd /\ cmd'.arg = a /\ was'.free = free BY <1>5 DEF bn_ls, Returns
  <2>3. \/ bad /\ ret' = -1 /\ out' = EmptyBag
        \/ ~bad /\ info.has_rec = 1 /\ ret' = 0 /\ out' = recursive_ls(tree, x, info, free - 1)
        \/ ~bad /\ info.has_rec = 0 /\ ret' = 0 /\ out' = SetToBag(Printed(tree, x, info))
    BY <1>5 DEF bn_ls, Returns
  <2>4. PICK i, y, b, r, o : i = info /\ y = x /\ b = bad /\ r = ret' /\ o = out' OBVIOUS
  <2> HIDE DEF info, x
  <2>5. ListingOK(tree, cwd, a, free, r, o)
    <3>1. i = parse_ls(a) /\ y = Lookup(tree, cwd, PathOf[i.path]) BY <2>4 DEF info, x
    <3>2. b <=> \/ i.has_path > 1 \/ i.valid # 1
                \/ i.has_rec = 0 /\ i.has_depth = 1
                \/ y \notin tree.dirs \/ free = 0
      BY <2>4
    <3>3. \/ b /\ r = -1 /\ o = EmptyBag
          \/ ~b /\ i.has_rec = 1 /\ r = 0 /\ o = recursive_ls(tree, y, i, free - 1)
          \/ ~b /\ i.has_rec = 0 /\ r = 0 /\ o = SetToBag(Printed(tree, y, i))
      BY <2>3, <2>4
    <3> QED BY <1>1, <2>1, <3>1, <3>2, <3>3, LsIsExact
  <2>6. (WellFormed(a) => Sensible(a)) => Asked(tree, cwd, a, free, r, o)
    BY <1>1, <2>1, <2>5, AskedProperty
  <2> QED BY <1>2, <2>2, <2>4, <2>6
<1>6. ASSUME UNCHANGED vars PROVE ListingExact'
  BY <1>6 DEF vars, ListingExact, Shown
<1> QED BY <1>3, <1>4, <1>5, <1>6 DEF Next

(* ls refuses the lines that are not well formed and prints every entry of *)
(* every directory it was asked for as often as it occurs, provided that   *)
(* the depths are positive and there is a descriptor for every level;      *)
(* with fewer descriptors it prints no name more often than that           *)
(* (builtins.c:96-315).                                                    *)
THEOREM ListingIsExact == Spec => []ListingExact
<1>1. Init => ListingExact
  <2> SUFFICES ASSUME Init PROVE ListingExact OBVIOUS
  <2>1. cmd.name # "ls" BY DEF Init, Idle
  <2> QED BY <2>1 DEF ListingExact
<1> QED BY <1>1, ListingNext, TypeCorrect, PTL DEF Spec
============================================================================
