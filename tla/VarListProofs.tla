--------------------------- MODULE VarListProofs ---------------------------
(***************************************************************************)
(* Proofs about the list of shell variables: types, unique keys, and the   *)
(* refinement of Environment on the names that are no prefixes.            *)
(***************************************************************************)
EXTENDS VarList, WellFoundedInduction, TLAPS

(* A token has a first '='. *)
LEMMA FirstEquals ==
  ASSUME NEW s \in Tokens
  PROVE  pos(s) \in 1 .. Len(s)
<1> DEFINE T == {i \in 1 .. Len(s) : s[i] = Equals}
           R == OpToRel(<, Nat)
<1>1. s \in Seq(STRING) /\ HasEquals(s) BY TokensAssumption
<1>2. T # {} /\ T \subseteq Nat BY <1>1 DEF HasEquals
<1>3. IsWellFoundedOn(R, Nat) BY NatLessThanWellFounded
<1>4. PICK x \in T : \A y \in T : ~(<<y, x>> \in R)
  <2> HIDE DEF T, R
  <2>. QED BY <1>2, <1>3, WFMin
<1>5. \A j \in 1 .. x - 1 : s[j] # Equals
  <2>1. R = {ss \in Nat \X Nat : ss[1] < ss[2]} BY Zenon DEF OpToRel
  <2> HIDE DEF R
  <2>2. \A j, k \in Nat : j < k => <<j, k>> \in R BY <2>1
  <2>3. SUFFICES ASSUME NEW j \in 1 .. x - 1, s[j] = Equals PROVE FALSE OBVIOUS
  <2>4. Len(s) \in Nat /\ x \in 1 .. Len(s) BY <1>1, <1>4
  <2>5. j \in T /\ j \in Nat /\ x \in Nat /\ j < x BY <2>3, <2>4
  <2>. QED BY <1>4, <2>2, <2>5
<1>. QED BY <1>1, <1>5 DEF pos

(* Names are sequences of characters. *)
LEMMA NamesAreSeqs == \A k \in Names : k \in Seq(STRING)
<1> SUFFICES ASSUME NEW s \in Tokens PROVE find_key(s) \in Seq(STRING)
  BY DEF Names
<1>1. s \in Seq(STRING) BY TokensAssumption
<1>2. pos(s) \in 1 .. Len(s) BY FirstEquals
<1>. QED BY <1>1, <1>2 DEF find_key

(* strncmp() finds a key equal to itself. *)
LEMMA MatchesItself ==
  ASSUME NEW i, nodes[i].key \in Names
  PROVE  KeyMatches(i, nodes[i].key)
<1>1. nodes[i].key \in Seq(STRING) BY NamesAreSeqs
<1>. QED BY <1>1 DEF KeyMatches

(* A node holds a name and a value. *)
LEMMA NodeType ==
  ASSUME TypeOK, NEW i \in 1 .. Len(nodes)
  PROVE  nodes[i] \in Nodes /\ nodes[i].key \in Names /\ nodes[i].value \in Values
<1>1. nodes[i] \in Nodes BY DEF TypeOK
<1>. QED BY <1>1 DEF Nodes

(* What find_val_with_key() returns is a value that was stored, or "". *)
LEMMA LookupType ==
  ASSUME TypeOK, UniqueKeys, NEW k
  PROVE  find_val_with_key(k) \in Values
<1>1. CASE \E i \in 1 .. Len(nodes) : nodes[i].key = k
  <2>1. PICK i \in 1 .. Len(nodes) : nodes[i].key = k BY <1>1
  <2>2. Found(i, k) BY <2>1 DEF Found, UniqueKeys, TypeOK
  <2>3. (CHOOSE n \in 1 .. Len(nodes) : Found(n, k)) \in 1 .. Len(nodes) BY <2>2
  <2>. QED BY <1>1, <2>3, NodeType DEF find_val_with_key
<1>2. CASE ~\E i \in 1 .. Len(nodes) : nodes[i].key = k
  BY <1>2 DEF find_val_with_key, Values
<1>. QED BY <1>1, <1>2

IInv == TypeOK /\ NewerNotPrefix

LEMMA UniqueFromInv == IInv => UniqueKeys
<1> SUFFICES ASSUME IInv, NEW i \in 1 .. Len(nodes), NEW j \in 1 .. Len(nodes),
                    nodes[i].key = nodes[j].key, i < j
             PROVE  FALSE
  BY DEF UniqueKeys, IInv, TypeOK
<1>1. nodes[i].key \in Names BY NodeType DEF IInv
<1>2. KeyMatches(i, nodes[j].key) BY <1>1, MatchesItself
<1>. QED BY <1>2 DEF IInv, NewerNotPrefix

(* set_variable() keeps the types and the order of the keys. *)
LEMMA SetVariableInv ==
  ASSUME IInv, NEW key \in Names, NEW value \in Values, set_variable(key, value),
         pc' = pc
  PROVE  IInv'
<1> USE DEF IInv, TypeOK
<1>1. CASE \E i \in 1 .. Len(nodes) :
             FirstMatch(i, key) /\ nodes' = [nodes EXCEPT ![i].value = value]
  <2>1. PICK i \in 1 .. Len(nodes) : nodes' = [nodes EXCEPT ![i].value = value] BY <1>1
  <2> DEFINE r == [nodes[i] EXCEPT !.value = value]
  <2>2. nodes[i] \in Nodes BY NodeType
  <2>3. r \in Nodes /\ r.key = nodes[i].key BY <2>2 DEF Nodes
  <2>4. nodes' = [nodes EXCEPT ![i] = r] BY <2>1
  <2> HIDE DEF r
  <2>5. Len(nodes') = Len(nodes) /\ nodes' \in Seq(Nodes) BY <2>3, <2>4
  <2>6. \A n \in 1 .. Len(nodes) : nodes'[n].key = nodes[n].key BY <2>3, <2>4
  <2>7. NewerNotPrefix' BY <2>5, <2>6 DEF NewerNotPrefix, KeyMatches
  <2>8. stored' \in {<<>>} \cup (Names \X Values) BY DEF set_variable
  <2>. QED BY <2>5, <2>7, <2>8
<1>2. CASE NoMatch(key) /\ nodes' = Append(nodes, NewNode(key, value))
  <2>1. Len(nodes') = Len(nodes) + 1 /\ nodes' \in Seq(Nodes) BY <1>2 DEF NewNode, Nodes
  <2>2. \A n \in 1 .. Len(nodes) : nodes'[n] = nodes[n] BY <1>2
  <2>3. nodes'[Len(nodes) + 1].key = key BY <1>2 DEF NewNode
  <2>4. NewerNotPrefix'
    BY <1>2, <2>1, <2>2, <2>3 DEF NewerNotPrefix, KeyMatches, NoMatch
  <2>5. stored' \in {<<>>} \cup (Names \X Values) BY DEF set_variable
  <2>. QED BY <2>1, <2>4, <2>5
<1>3. CASE UNCHANGED nodes
  BY <1>3 DEF set_variable, NewerNotPrefix, KeyMatches
<1>. QED BY <1>1, <1>2, <1>3 DEF set_variable

LEMMA InitInv == Init => IInv
BY DEF Init, IInv, TypeOK, NewerNotPrefix

(* What a step is, seen from the list. *)
LEMMA Steps ==
  ASSUME IInv, [Next]_vars
  PROVE  \/ \E key \in Names, value \in Values : set_variable(key, value) /\ pc' = pc
         \/ UNCHANGED nodes /\ pc' = pc /\ stored' \in {<<>>, stored}
         \/ remove_all_var
<1>1. ASSUME NEW s \in Tokens, Assignment(s)
      PROVE  \E key \in Names, value \in Values : set_variable(key, value) /\ pc' = pc
  <2>1. find_key(s) \in Names /\ find_value(s) \in Values
    BY <1>1 DEF Assignment, Names, Values
  <2>. QED BY <1>1, <2>1 DEF Assignment
<1>2. ASSUME NEW key \in Names, NEW other \in Names, AssignmentFrom(key, other)
      PROVE  \E k \in Names, value \in Values : set_variable(k, value) /\ pc' = pc
  <2>1. find_val_with_key(other) \in Values BY LookupType, UniqueFromInv DEF IInv
  <2>. QED BY <1>2, <2>1 DEF AssignmentFrom
<1>3. ASSUME NEW s \in Tokens, InvalidName(s)
      PROVE  UNCHANGED nodes /\ pc' = pc /\ stored' \in {<<>>, stored}
  BY <1>3 DEF InvalidName
<1>4. CASE UNCHANGED vars BY <1>4 DEF vars
<1>. QED BY <1>1, <1>2, <1>3, <1>4 DEF Next

LEMMA NextInv == IInv /\ [Next]_vars => IInv'
<1> SUFFICES ASSUME IInv, [Next]_vars PROVE IInv' OBVIOUS
<1>1. CASE \E key \in Names, value \in Values : set_variable(key, value) /\ pc' = pc
  BY <1>1, SetVariableInv
<1>2. CASE UNCHANGED nodes /\ pc' = pc /\ stored' \in {<<>>, stored}
  BY <1>2 DEF IInv, TypeOK, NewerNotPrefix, KeyMatches
<1>3. CASE remove_all_var
  BY <1>3 DEF remove_all_var, IInv, TypeOK, NewerNotPrefix
<1>. QED BY <1>1, <1>2, <1>3, Steps

LEMMA Invariant == Spec => []IInv
<1>. QED BY InitInv, NextInv, PTL DEF Spec

(* The list holds names and values the user typed, whatever the tokens. *)
THEOREM TypeCorrect == Spec => []TypeOK
<1>1. IInv => TypeOK BY DEF IInv
<1>. QED BY Invariant, <1>1, PTL

(* No name ever has two nodes, although set_variable() compares prefixes:  *)
(* a new node is only made when its key is a prefix of no key in the list. *)
THEOREM KeysUnique == Spec => []UniqueKeys
<1>. QED BY Invariant, UniqueFromInv, PTL

---------------------------------------------------------------------------
(* The refinement. *)

(* A lookup that finds a node, and one that finds none, in any list. *)
Lookup(list, k) ==
  IF \E i \in 1 .. Len(list) : list[i].key = k
  THEN list[CHOOSE i \in 1 .. Len(list) :
              list[i].key = k /\ \A j \in i + 1 .. Len(list) : list[j].key # k].value
  ELSE Empty

LEMMA LookupFinds ==
  ASSUME NEW list, Len(list) \in Nat, NEW i \in 1 .. Len(list),
         \A m, n \in 1 .. Len(list) : list[m].key = list[n].key => m = n
  PROVE  Lookup(list, list[i].key) = list[i].value
<1> DEFINE k == list[i].key
           IsIt(n) == list[n].key = k /\ \A j \in n + 1 .. Len(list) : list[j].key # k
<1>1. IsIt(i) OBVIOUS
<1>2. \A n \in 1 .. Len(list) : IsIt(n) => n = i OBVIOUS
<1>3. (CHOOSE n \in 1 .. Len(list) : IsIt(n)) = i
  <2> HIDE DEF IsIt
  <2>. QED BY <1>1, <1>2
<1>. QED BY <1>3 DEF Lookup

LEMMA LookupIsFind ==
  /\ \A k : find_val_with_key(k) = Lookup(nodes, k)
  /\ \A k : find_val_with_key(k)' = Lookup(nodes', k)
BY DEF find_val_with_key, Lookup, Found

(* An assignment changes the lookup of its own name only, as far as the    *)
(* separate names are concerned.                                           *)
LEMMA SetVariableAssigns ==
  ASSUME IInv, UniqueKeys', TypeOK',
         NEW key \in Names, NEW value \in Values, set_variable(key, value), stored' # <<>>
  PROVE  \A n \in Separate :
           Lookup(nodes', n) = IF n = key THEN value ELSE Lookup(nodes, n)
<1> USE DEF IInv, TypeOK
<1>0. UniqueKeys BY UniqueFromInv
<1> SUFFICES ASSUME NEW n \in Separate
             PROVE  Lookup(nodes', n) = IF n = key THEN value ELSE Lookup(nodes, n)
  OBVIOUS
<1>1. CASE \E i \in 1 .. Len(nodes) :
             FirstMatch(i, key) /\ nodes' = [nodes EXCEPT ![i].value = value]
  <2>1. PICK i \in 1 .. Len(nodes) :
          FirstMatch(i, key) /\ nodes' = [nodes EXCEPT ![i].value = value]
    BY <1>1
  <2>2. IsPrefixOf(key, nodes[i].key) /\ nodes[i].key \in Names
    BY <2>1, NodeType DEF FirstMatch, KeyMatches, IsPrefixOf
  <2> DEFINE r == [nodes[i] EXCEPT !.value = value]
  <2>3. r.key = nodes[i].key /\ r.value = value BY NodeType DEF Nodes
  <2>4. nodes' = [nodes EXCEPT ![i] = r] BY <2>1
  <2> HIDE DEF r
  <2>5. /\ Len(nodes') = Len(nodes)
        /\ nodes'[i].key = nodes[i].key /\ nodes'[i].value = value
        /\ \A j \in 1 .. Len(nodes) : j # i => nodes'[j] = nodes[j]
    BY <2>3, <2>4
  <2>6. CASE n = key
    <3>1. nodes[i].key = n BY <2>2, <2>6 DEF Separate
    <3>. QED BY <2>5, <2>6, <3>1, LookupFinds DEF UniqueKeys
  <2>7. CASE n # key
    <3>0. nodes[i].key # n BY <2>2, <2>7 DEF Separate
    <3>1. CASE \E j \in 1 .. Len(nodes) : nodes[j].key = n
      <4>1. PICK j \in 1 .. Len(nodes) : nodes[j].key = n BY <3>1
      <4>2. nodes'[j] = nodes[j] BY <2>5, <3>0, <4>1
      <4>3. Lookup(nodes, n) = nodes[j].value BY <1>0, <4>1, LookupFinds DEF UniqueKeys
      <4>4. Lookup(nodes', n) = nodes'[j].value
        BY <2>5, <4>1, <4>2, LookupFinds DEF UniqueKeys
      <4>. QED BY <2>7, <4>2, <4>3, <4>4
    <3>2. CASE ~\E j \in 1 .. Len(nodes) : nodes[j].key = n
      <4>1. ~\E j \in 1 .. Len(nodes') : nodes'[j].key = n BY <2>5, <3>0, <3>2
      <4>. QED BY <2>7, <3>2, <4>1 DEF Lookup
    <3>. QED BY <3>1, <3>2
  <2>. QED BY <2>6, <2>7
<1>2. CASE NoMatch(key) /\ nodes' = Append(nodes, NewNode(key, value))
  <2>1. /\ Len(nodes') = Len(nodes) + 1
        /\ nodes'[Len(nodes) + 1].key = key /\ nodes'[Len(nodes) + 1].value = value
        /\ \A j \in 1 .. Len(nodes) : nodes'[j] = nodes[j]
    BY <1>2 DEF NewNode
  <2>2. Lookup(nodes', key) = value
    <3>1. Len(nodes) + 1 \in 1 .. Len(nodes') BY <2>1
    <3>. QED BY <2>1, <3>1, LookupFinds DEF UniqueKeys
  <2>3. ASSUME n # key PROVE Lookup(nodes', n) = Lookup(nodes, n)
    <3>1. CASE \E j \in 1 .. Len(nodes) : nodes[j].key = n
      <4>1. PICK j \in 1 .. Len(nodes) : nodes[j].key = n BY <3>1
      <4>2. nodes'[j] = nodes[j] /\ j \in 1 .. Len(nodes') BY <2>1
      <4>3. Lookup(nodes, n) = nodes[j].value BY <1>0, <4>1, LookupFinds DEF UniqueKeys
      <4>4. Lookup(nodes', n) = nodes'[j].value
        BY <4>1, <4>2, LookupFinds DEF UniqueKeys
      <4>. QED BY <4>2, <4>3, <4>4
    <3>2. CASE ~\E j \in 1 .. Len(nodes) : nodes[j].key = n
      <4>1. ~\E j \in 1 .. Len(nodes') : nodes'[j].key = n
        <5>1. ASSUME NEW j \in 1 .. Len(nodes') PROVE nodes'[j].key # n
          <6>1. CASE j = Len(nodes) + 1 BY <2>1, <2>3, <6>1
          <6>2. CASE j # Len(nodes) + 1
            <7>1. j \in 1 .. Len(nodes) BY <2>1, <6>2
            <7>. QED BY <2>1, <3>2, <7>1
          <6>. QED BY <6>1, <6>2
        <5>. QED BY <5>1
      <4>. QED BY <3>2, <4>1 DEF Lookup
    <3>. QED BY <3>1, <3>2
  <2>. QED BY <2>2, <2>3
<1>. QED BY <1>1, <1>2 DEF set_variable

(* On the separate names the list implements the map from names to values  *)
(* that Environment describes: set_variable() and find_val_with_key() are  *)
(* the assignment and the lookup of one name (variables.c:94-189).         *)
THEOREM ImplementsEnvironment == Spec => EnvironmentSpec
<1> DEFINE env == [n \in Separate |-> find_val_with_key(n)]
<1>1. Init => E!Init
  <2>1. <<>> \notin Separate \X Values OBVIOUS
  <2>. QED BY <2>1 DEF Init, E!Init, find_val_with_key, StoredSeparate
<1>2. IInv /\ IInv' /\ [Next]_vars => [E!Next]_(E!vars)
  <2> SUFFICES ASSUME IInv, IInv', [Next]_vars
               PROVE  E!Next \/ (env' = env /\ StoredSeparate' = StoredSeparate)
    BY DEF E!vars
  <2>1. UniqueKeys /\ UniqueKeys' BY UniqueFromInv, PTL
  <2>2. ASSUME nodes' = nodes PROVE env' = env BY <2>2, LookupIsFind
  <2>3. ASSUME stored' = <<>> PROVE StoredSeparate' = <<>>
    <3>1. <<>> \notin Separate \X Values OBVIOUS
    <3>. QED BY <2>3, <3>1 DEF StoredSeparate
  <2>4. ASSUME NEW key \in Names, NEW value \in Values, set_variable(key, value),
               stored' # <<>>
        PROVE  E!Next
    <3>1. \A n \in Separate :
            Lookup(nodes', n) = IF n = key THEN value ELSE Lookup(nodes, n)
      BY <2>1, <2>4, SetVariableAssigns DEF IInv
    <3>2. stored' = <<key, value>> BY <2>4 DEF set_variable
    <3>3. CASE key \in Separate
      <4>1. env' = [env EXCEPT ![key] = value] BY <3>1, <3>3, LookupIsFind
      <4>2. StoredSeparate' = <<key, value>> BY <3>2, <3>3 DEF StoredSeparate
      <4>. QED BY <3>3, <4>1, <4>2 DEF E!Next, E!Assign
    <3>4. CASE key \notin Separate
      <4>1. env' = env BY <3>1, <3>4, LookupIsFind
      <4>2. StoredSeparate' = <<>> BY <3>2, <3>4 DEF StoredSeparate
      <4>. QED BY <4>1, <4>2 DEF E!Next, E!OtherLine
    <3>. QED BY <3>3, <3>4
  <2>5. ASSUME NEW key \in Names, NEW value \in Values, set_variable(key, value),
               stored' = <<>>
        PROVE  E!Next
    <3>1. <<key, value>> # <<>> OBVIOUS
    <3>2. nodes' = nodes BY <2>5, <3>1 DEF set_variable
    <3>. QED BY <2>2, <2>3, <2>5, <3>2 DEF E!Next, E!OtherLine
  <2>6. CASE UNCHANGED nodes /\ stored' \in {<<>>, stored}
    <3>1. CASE stored' = <<>> BY <2>2, <2>3, <2>6, <3>1 DEF E!Next, E!OtherLine
    <3>2. CASE stored' = stored BY <2>2, <2>6, <3>2 DEF StoredSeparate
    <3>. QED BY <2>6, <3>1, <3>2
  <2>7. CASE remove_all_var
    <3>1. env' = [n \in Separate |-> Empty]
      BY <2>7 DEF remove_all_var, find_val_with_key
    <3>. QED BY <2>3, <2>7, <3>1 DEF remove_all_var, E!Next, E!Forget
  <2>. QED BY <2>4, <2>5, <2>6, <2>7, Steps
<1>. QED BY <1>1, <1>2, Invariant, PTL DEF Spec, EnvironmentSpec, E!Spec
============================================================================
