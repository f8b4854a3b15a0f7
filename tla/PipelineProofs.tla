-------------------------- MODULE PipelineProofs --------------------------
(***************************************************************************)
(* Pipelines of any number of commands, over pipes of any capacity, for    *)
(* every line.                                                             *)
(***************************************************************************)
EXTENDS Pipeline, Integers, SequenceTheorems, FiniteSetTheorems, WellFoundedInduction, TLAPS

---------------------------------------------------------------------------
(* Sets of naturals. *)

LEMMA LeastExists ==
  ASSUME NEW S \in SUBSET Nat, S # {}
  PROVE  \E x \in S : \A y \in S : x <= y
<1>1. PICK x \in S : \A y \in S : ~(<<y, x>> \in OpToRel(<, Nat))
  BY WFMin, NatLessThanWellFounded
<1>2. \A y \in S : y < x => <<y, x>> \in {ss \in Nat \X Nat : ss[1] < ss[2]}
  OBVIOUS
<1>3. \A y \in S : ~(y < x) BY <1>1, <1>2, Zenon DEF OpToRel
<1> QED BY <1>3

LEMMA GreatestExists ==
  ASSUME NEW S \in SUBSET Nat, S # {}, NEW n \in Nat, \A y \in S : y <= n
  PROVE  \E x \in S : \A y \in S : y <= x
<1> DEFINE D == {d \in Nat : n - d \in S}
<1>1. D # {}
  <2>1. PICK y \in S : TRUE OBVIOUS
  <2>2. n - y \in Nat /\ n - (n - y) = y BY <2>1
  <2> QED BY <2>1, <2>2
<1>2. PICK d \in D : \A c \in D : d <= c BY <1>1, LeastExists
<1>3. ASSUME NEW y \in S PROVE y <= n - d
  <2>1. n - y \in D OBVIOUS
  <2> QED BY <1>2, <2>1
<1> QED BY <1>2, <1>3

(* A finite set of naturals has an n-th element. *)
LEMMA NthExists ==
  ASSUME NEW B \in SUBSET Nat, IsFiniteSet(B), NEW n \in 1 .. Cardinality(B)
  PROVE  \E e \in B : Cardinality({b \in B : b < e}) = n - 1
<1> DEFINE Below(e) == {b \in B : b < e}
           Bad == {m \in 1 .. Cardinality(B) : \A e \in B : Cardinality(Below(e)) # m - 1}
<1>1. Cardinality(B) \in Nat BY FS_CardinalityType
<1>2. SUFFICES ASSUME Bad # {} PROVE FALSE OBVIOUS
<1>3. Bad \in SUBSET Nat BY <1>1
<1>4. PICK m \in Bad : \A k \in Bad : m <= k BY <1>2, <1>3, LeastExists
<1>5. m \in Nat /\ 1 <= m /\ m <= Cardinality(B) /\ \A e \in B : Cardinality(Below(e)) # m - 1
  BY <1>1, <1>4
<1>6. CASE m = 1
  <2>1. B # {}
    <3>1. Cardinality({}) = 0 BY FS_EmptySet
    <3> QED BY <1>5, <3>1
  <2>2. PICK e \in B : \A b \in B : e <= b BY <2>1, LeastExists
  <2>3. Below(e) = {}
    <3>1. \A b \in B : ~(b < e) BY <2>2
    <3> QED BY <3>1
  <2>4. Cardinality(Below(e)) = 0 BY <2>3, FS_EmptySet
  <2> QED BY <1>5, <1>6, <2>4
<1>7. CASE m > 1
  <2>1. m - 1 \in 1 .. Cardinality(B) /\ m - 1 \notin Bad BY <1>1, <1>3, <1>4, <1>5, <1>7
  <2>2. PICK e \in B : Cardinality(Below(e)) = m - 1 - 1 BY <2>1
  <2>3. /\ IsFiniteSet(Below(e))
        /\ Cardinality(Below(e) \cup {e}) = Cardinality(Below(e)) + 1
    <3>1. Below(e) \in SUBSET B /\ e \notin Below(e) OBVIOUS
    <3>2. IsFiniteSet(Below(e)) BY <3>1, FS_Subset
    <3> HIDE DEF Below
    <3> QED BY <3>1, <3>2, FS_AddElement
  <2>4. {b \in B : b > e} # {}
    <3>1. SUFFICES ASSUME {b \in B : b > e} = {} PROVE FALSE OBVIOUS
    <3>2. \A b \in B : b < e \/ b = e BY <3>1
    <3>3. B = Below(e) \cup {e} BY <3>2
    <3> HIDE DEF Below
    <3> QED BY <1>5, <2>2, <2>3, <3>3
  <2>5. PICK f \in {b \in B : b > e} : \A b \in {b \in B : b > e} : f <= b
    BY <2>4, LeastExists
  <2>6. Below(f) = Below(e) \cup {e}
    <3>1. \A b \in B : b < f <=> b < e \/ b = e BY <2>5
    <3> QED BY <3>1
  <2> HIDE DEF Below
  <2>7. Cardinality(Below(f)) = m - 1 BY <1>5, <2>2, <2>3, <2>6
  <2> QED BY <1>5, <2>5, <2>7
<1> QED BY <1>5, <1>6, <1>7

---------------------------------------------------------------------------
(* Parsing. *)

(* What execute_command() and execute_pipeline() have tested of a line     *)
(* that gets to be run.                                                    *)
WellFormed(t) == ~IsBar(t, 1) /\ ~IsBar(t, Len(t)) /\ ~SyntaxError(t)

LEMMA LineProperty ==
  ASSUME NEW t \in Lines
  PROVE  /\ t \in Seq(STRING) /\ Len(t) \in Nat /\ Len(t) >= 1 /\ DOMAIN t = 1 .. Len(t)
         /\ Bars(t) \in SUBSET Nat /\ IsFiniteSet(Bars(t)) /\ Cardinality(Bars(t)) \in Nat
         /\ Len(t) + 1 \in Bars(t)
         /\ \A b \in Bars(t) : 1 <= b /\ b <= Len(t) + 1 /\ (b <= Len(t) => IsBar(t, b))
<1>1. t \in Seq(STRING) /\ \E k \in 1 .. Len(t) : t[k] = Bar BY LinesAssumption
<1>2. Len(t) \in Nat /\ DOMAIN t = 1 .. Len(t) BY <1>1, LenProperties
<1>3. Len(t) >= 1 BY <1>1, <1>2
<1>4. /\ Len(t) + 1 \in Bars(t)
      /\ \A b \in Bars(t) : b \in Nat /\ 1 <= b /\ b <= Len(t) + 1 /\ (b <= Len(t) => IsBar(t, b))
  BY <1>2 DEF Bars
<1>5. Bars(t) \in SUBSET Nat BY <1>4
<1>6. IsFiniteSet(Bars(t)) BY <1>2, <1>4, <1>5, FS_BoundedSetOfNaturals
<1>7. Cardinality(Bars(t)) \in Nat BY <1>6, FS_CardinalityType
<1> QED BY <1>1, <1>2, <1>3, <1>4, <1>5, <1>6, <1>7

(* The two loops agree on how many commands there are. *)
LEMMA CountsProperty ==
  ASSUME NEW t \in Lines, WellFormed(t)
  PROVE  Cardinality(Bars(t)) = CountPipes(t) + 1
<1> DEFINE B == {k \in DOMAIN t : IsBar(t, k)}
<1>1. Len(t) \in Nat /\ DOMAIN t = 1 .. Len(t) BY LineProperty
<1>2. ASSUME NEW k \in DOMAIN t, IsBar(t, k), k > 1, IsBar(t, k - 1) PROVE FALSE
  <2>1. k = 2 \/ k \in 3 .. Len(t) BY <1>1, <1>2
  <2>2. CASE k = 2
    <3>1. k - 1 = 1 BY <2>2
    <3> QED BY <1>2, <3>1 DEF WellFormed
  <2>3. CASE k \in 3 .. Len(t) BY <1>2, <2>3 DEF WellFormed, SyntaxError
  <2> QED BY <2>1, <2>2, <2>3
<1>3. CountPipes(t) = Cardinality(B)
  <2>1. B = {k \in DOMAIN t : IsBar(t, k) /\ ~(k > 1 /\ IsBar(t, k - 1))} BY <1>2
  <2> QED BY <2>1 DEF CountPipes
<1>4. B \in SUBSET Nat /\ Len(t) + 1 \notin B /\ \A b \in B : b <= Len(t) BY <1>1
<1> HIDE DEF B
<1>5. IsFiniteSet(B) BY <1>1, <1>4, FS_BoundedSetOfNaturals
<1>6. Cardinality(B \cup {Len(t) + 1}) = Cardinality(B) + 1
  <2>1. PICK x : x = Len(t) + 1 OBVIOUS
  <2> QED BY <1>4, <1>5, <2>1, FS_AddElement
<1> QED BY <1>3, <1>6 DEF Bars, B

(* Every command is a part of the line that is not empty. *)
LEMMA CommandProperty ==
  ASSUME NEW t \in Lines, WellFormed(t), NEW n \in 1 .. Cardinality(Bars(t))
  PROVE  Command(t, n) \in Seq(STRING) /\ Command(t, n) # <<>>
<1>1. /\ t \in Seq(STRING) /\ Len(t) \in Nat /\ Len(t) >= 1
      /\ Bars(t) \in SUBSET Nat /\ IsFiniteSet(Bars(t))
      /\ \A b \in Bars(t) : 1 <= b /\ b <= Len(t) + 1 /\ (b <= Len(t) => IsBar(t, b))
  BY LineProperty
<1>2. PICK end : end = CHOOSE e \in Bars(t) : Cardinality({b \in Bars(t) : b < e}) = n - 1
  OBVIOUS
<1>3. end \in Bars(t)
  <2>1. \E e \in Bars(t) : Cardinality({b \in Bars(t) : b < e}) = n - 1 BY <1>1, NthExists
  <2> QED BY <1>2, <2>1
<1>4. PICK start : start = CHOOSE s \in {0} \cup Bars(t) :
                             s < end /\ \A b \in Bars(t) : b < end => b <= s
  OBVIOUS
<1>5. start \in {0} \cup Bars(t) /\ start < end
  <2> DEFINE S == {s \in {0} \cup Bars(t) : s < end}
  <2>1. S \in SUBSET Nat /\ 0 \in S /\ end \in Nat /\ \A s \in S : s <= end BY <1>1, <1>3
  <2>2. PICK s \in S : \A y \in S : y <= s BY <2>1, GreatestExists
  <2>3. s \in {0} \cup Bars(t) /\ s < end /\ \A b \in Bars(t) : b < end => b <= s
    BY <2>2
  <2> QED BY <1>4, <2>3
<1>6. Command(t, n) = SubSeq(t, start + 1, end - 1) BY <1>2, <1>4 DEF Command
<1>7. start \in Nat /\ end \in Nat /\ end <= Len(t) + 1 BY <1>1, <1>3, <1>5
<1>8. start # end - 1
  <2>1. SUFFICES ASSUME start = end - 1 PROVE FALSE OBVIOUS
  <2>2. start # 0
    <3>1. SUFFICES ASSUME start = 0 PROVE FALSE OBVIOUS
    <3>2. end = 1 /\ end <= Len(t) BY <1>1, <1>7, <2>1, <3>1
    <3> QED BY <1>1, <1>3, <3>2 DEF WellFormed
  <2>3. start \in Bars(t) /\ start <= Len(t) /\ IsBar(t, start)
    BY <1>1, <1>5, <1>7, <2>1, <2>2
  <2>4. CASE end = Len(t) + 1
    <3>1. start = Len(t) BY <1>1, <2>1, <2>4
    <3> QED BY <2>3, <3>1 DEF WellFormed
  <2>5. CASE end <= Len(t)
    <3>1. IsBar(t, end) /\ IsBar(t, end - 1) BY <1>1, <1>3, <2>1, <2>3, <2>5
    <3>2. end = 2 \/ end \in 3 .. Len(t) BY <1>1, <1>7, <2>1, <2>2, <2>5
    <3>3. CASE end = 2
      <4>1. end - 1 = 1 BY <3>3
      <4> QED BY <3>1, <4>1 DEF WellFormed
    <3>4. CASE end \in 3 .. Len(t) BY <3>1, <3>4 DEF WellFormed, SyntaxError
    <3> QED BY <3>2, <3>3, <3>4
  <2> QED BY <1>1, <1>7, <2>4, <2>5
<1>9. PICK a, b \in Nat : a = start + 1 /\ b = end - 1 BY <1>5, <1>7
<1>10. 1 <= a /\ a <= b /\ b <= Len(t) BY <1>1, <1>5, <1>7, <1>8, <1>9
<1>11. \A k \in a .. b : t[k] \in STRING BY <1>1, <1>10, ElementOfSeq
<1>12. /\ SubSeq(t, a, b) \in Seq(STRING)
       /\ Len(SubSeq(t, a, b)) = IF a <= b THEN b - a + 1 ELSE 0
  BY <1>11, SubSeqProperties
<1>13. SubSeq(t, a, b) # <<>> BY <1>10, <1>12, EmptySeq
<1> QED BY <1>6, <1>9, <1>12, <1>13

LEMMA CommandsProperty ==
  ASSUME NEW t \in Lines, WellFormed(t)
  PROVE  /\ Commands(t) \in Seq(Seq(STRING))
         /\ Len(Commands(t)) = CountPipes(t) + 1 /\ Len(Commands(t)) <= MaxCommands
         /\ Len(Commands(t)) >= 1
         /\ \A n \in 1 .. Len(Commands(t)) : Commands(t)[n] # <<>>
<1>1. PICK m \in Nat : m = Cardinality(Bars(t)) BY LineProperty
<1>2. m = CountPipes(t) + 1 /\ m <= MaxCommands
  BY <1>1, CountsProperty, CommandsAssumption DEF WellFormed
<1>3. m >= 1
  <2>1. Bars(t) # {} /\ IsFiniteSet(Bars(t)) BY LineProperty
  <2>2. m # 0 BY <1>1, <2>1, FS_EmptySet
  <2> QED BY <2>2
<1>4. \A n \in 1 .. m : Command(t, n) \in Seq(STRING) /\ Command(t, n) # <<>>
  BY <1>1, CommandProperty
<1>5. Commands(t) = [n \in 1 .. m |-> Command(t, n)] BY <1>1 DEF Commands
<1>6. Commands(t) \in Seq(Seq(STRING)) BY <1>4, <1>5, IsASeq
<1>7. Len(Commands(t)) = m BY <1>5, <1>6, LenProperties
<1> QED BY <1>2, <1>3, <1>4, <1>5, <1>6, <1>7

---------------------------------------------------------------------------
(* The inductive invariant. *)

(* The line, and what execute_pipeline() has made of it. *)
LineInv ==
  /\ pc \in {"prompt", "split"} => commands = <<>>
  /\ pc = "split" => /\ tokens \in Lines /\ number_of_pipes = CountPipes(tokens)
                     /\ ~IsBar(tokens, 1) /\ ~IsBar(tokens, Len(tokens))
  /\ pc \in {"pipe", "fork", "wait"} => commands # <<>>
  /\ commands # <<>> => /\ Len(commands) = number_of_pipes + 1 /\ Len(commands) <= MaxCommands
                        /\ \A n \in 1 .. Len(commands) : commands[n] # <<>>

(* The counter of its loops. *)
LoopInv ==
  /\ pc \in {"prompt", "split", "pipe"} => i = 1
  /\ pc \in {"prompt", "split", "pipe", "fork"} => success = 1
  /\ pc = "fork" => i <= Len(commands) + 1
  /\ pc = "wait" => i <= Len(commands)

(* There are no children but those the fork loop has started. *)
ChildInv ==
  /\ \A c \in Children : state[c] # "none" => c <= Len(commands)
  /\ pc \in {"prompt", "split", "pipe"} => \A c \in Children : state[c] = "none"
  /\ pc = "fork" => \A c \in Children : c >= i => state[c] = "none"

(* Whoever has a descriptor of the array open is about to close it. *)
EndsInv ==
  /\ \A c \in Children : ends[c] # {} => state[c] = "forked"
  /\ pc \notin {"fork", "returned"} => ends[Shell] = {}

(* Undisturbed, the wait loop has reaped every child before the i-th, and  *)
(* nothing changes their exit codes any more.                              *)
CodeInv ==
  /\ pc = "wait" /\ ~disturbed =>
       /\ \A c \in Children : c < i => state[c] = "none"
       /\ success = 1 <=> \A c \in 1 .. i - 1 : code[c] = "ok"
  /\ pc = "returned" /\ ~disturbed /\ commands # <<>> => \A c \in Children : state[c] = "none"

IInv ==
  TypeOK /\ LineInv /\ LoopInv /\ ChildInv /\ EndsInv /\ CodeInv /\ NoLeak /\ ExitCodesDecide

---------------------------------------------------------------------------
(* The steps of the shell. *)

LEMMA Constants ==
  /\ MaxCommands \in Nat /\ MaxCommands >= 1 /\ Cap \in Nat /\ CatCap \in Nat /\ CatCap >= 1
  /\ MaxTyped \in Nat
  /\ Shell \in Procs /\ Shell \notin Children /\ Children \subseteq Procs /\ Children \subseteq Nat
  /\ \A p \in Procs : p = Shell \/ p \in Children
  /\ \A c \in Children : c \in Nat /\ 1 <= c /\ c <= MaxCommands
BY BoundsAssumption DEF Shell, Procs, Children

LEMMA InitIInv == Init => IInv
<1> SUFFICES ASSUME Init PROVE IInv OBVIOUS
<1>1. TypeOK
  <2>1. <<>> \in Seq(Seq(STRING)) BY EmptySeq
  <2>2. /\ 1 \in 1 .. MaxCommands + 1 /\ 0 \in 0 .. Cap
        /\ 0 \in 0 .. CatCap /\ 0 \in 0 .. MaxTyped
    BY Constants
  <2>3. /\ ends \in [Procs -> SUBSET PipeEnds]
        /\ state \in [Children -> {"none", "forked", "run", "zombie"}]
        /\ code \in [Children -> Codes] /\ did \in [Children -> 0 .. 2]
        /\ held \in [Children -> 0 .. CatCap]
        /\ content \in [1 .. MaxCommands - 1 -> 0 .. Cap]
    BY <2>2 DEF Init, Codes
  <2> QED BY <2>1, <2>2, <2>3 DEF Init, TypeOK
<1>2. LineInv /\ LoopInv /\ ChildInv /\ CodeInv BY DEF Init, LineInv, LoopInv, ChildInv, CodeInv
<1>3. EndsInv /\ NoLeak /\ ExitCodesDecide
  BY Constants DEF Init, EndsInv, NoLeak, ExitCodesDecide
<1> QED BY <1>1, <1>2, <1>3 DEF IInv

LEMMA ExecuteCommandPreserves ==
  ASSUME IInv, NEW t \in Lines, execute_command(t) PROVE IInv'
<1>1. TypeOK BY DEF IInv
<1>2. CountPipes(t) \in Nat
  <2>1. Len(t) \in Nat /\ DOMAIN t = 1 .. Len(t) BY LineProperty
  <2> DEFINE B == {k \in DOMAIN t : IsBar(t, k) /\ ~(k > 1 /\ IsBar(t, k - 1))}
  <2>2. B \in SUBSET Nat /\ \A b \in B : b <= Len(t) BY <2>1
  <2>3. IsFiniteSet(B) BY <2>1, <2>2, FS_BoundedSetOfNaturals
  <2>4. Cardinality(B) \in Nat BY <2>3, FS_CardinalityType
  <2> QED BY <2>4 DEF CountPipes
<1>3. /\ pc = "prompt" /\ tokens' = t /\ number_of_pipes' = CountPipes(t)
      /\ \/ pc' = "returned" /\ result' = "-1"
         \/ ~IsBar(t, 1) /\ ~IsBar(t, Len(t)) /\ pc' = "split" /\ UNCHANGED result
      /\ typed' \in 0 .. MaxTyped
      /\ UNCHANGED <<commands, i, status, success, disturbed,
                     ends, state, code, did, held, content>>
  BY DEF execute_command
<1>4. TypeOK' BY <1>1, <1>2, <1>3 DEF TypeOK
<1>5. commands = <<>> /\ ends[Shell] = {} /\ i = 1 /\ success = 1
      /\ \A c \in Children : state[c] = "none"
  BY <1>3 DEF IInv, LineInv, LoopInv, ChildInv, EndsInv
<1>6. LineInv' /\ LoopInv' /\ ChildInv' /\ EndsInv' /\ CodeInv'
  BY <1>3, <1>5 DEF IInv, LineInv, LoopInv, ChildInv, EndsInv, CodeInv
<1>7. NoLeak' /\ ExitCodesDecide' BY <1>3, <1>5 DEF NoLeak, ExitCodesDecide
<1> QED BY <1>4, <1>6, <1>7 DEF IInv

LEMMA SplitPreserves == ASSUME IInv, Split PROVE IInv'
<1>1. TypeOK BY DEF IInv
<1>2. /\ pc = "split" /\ tokens \in Lines /\ number_of_pipes = CountPipes(tokens)
      /\ ~IsBar(tokens, 1) /\ ~IsBar(tokens, Len(tokens))
      /\ commands = <<>> /\ ends[Shell] = {} /\ i = 1 /\ success = 1
      /\ \A c \in Children : state[c] = "none"
  BY DEF Split, IInv, LineInv, LoopInv, ChildInv, EndsInv
<1>3. UNCHANGED <<tokens, number_of_pipes, i, status, success, disturbed,
                  ends, state, code, did, held, content, typed>>
  BY DEF Split, world
<1>4. CASE SyntaxError(tokens)
  <2>1. pc' = "returned" /\ result' = "-1" /\ UNCHANGED commands BY <1>4 DEF Split
  <2>2. TypeOK' BY <1>1, <1>3, <2>1 DEF TypeOK
  <2>3. LineInv' /\ LoopInv' /\ ChildInv' /\ EndsInv' /\ CodeInv' /\ NoLeak' /\ ExitCodesDecide'
    BY <1>2, <1>3, <2>1
    DEF IInv, LineInv, LoopInv, ChildInv, EndsInv, CodeInv, NoLeak, ExitCodesDecide
  <2> QED BY <2>2, <2>3 DEF IInv
<1>5. CASE ~SyntaxError(tokens)
  <2>1. pc' = "pipe" /\ commands' = Commands(tokens) /\ UNCHANGED result BY <1>5 DEF Split
  <2>2. /\ commands' \in Seq(Seq(STRING))
        /\ Len(commands') = number_of_pipes + 1 /\ Len(commands') <= MaxCommands
        /\ Len(commands') >= 1
        /\ \A n \in 1 .. Len(commands') : commands'[n] # <<>>
    BY <1>2, <1>5, <2>1, CommandsProperty DEF WellFormed
  <2>3. commands' # <<>> BY <2>2, EmptySeq
  <2>4. TypeOK' BY <1>1, <1>3, <2>1, <2>2 DEF TypeOK
  <2>5. LineInv' /\ LoopInv' /\ ChildInv' /\ EndsInv' /\ CodeInv' /\ NoLeak' /\ ExitCodesDecide'
    BY <1>2, <1>3, <2>1, <2>2, <2>3
    DEF IInv, LineInv, LoopInv, ChildInv, EndsInv, CodeInv, NoLeak, ExitCodesDecide
  <2> QED BY <2>4, <2>5 DEF IInv
<1> QED BY <1>4, <1>5

LEMMA CreatePipesPreserves == ASSUME IInv, CreatePipes PROVE IInv'
<1>1. TypeOK BY DEF IInv
<1>2. /\ pc = "pipe" /\ pc' = "fork" /\ ends' = [ends EXCEPT ![Shell] = NewPipes]
      /\ UNCHANGED <<tokens, number_of_pipes, commands, i, status, success, result, disturbed,
                     state, code, did, held, content, typed>>
  BY DEF CreatePipes
<1>3. NewPipes \in SUBSET PipeEnds
  <2>1. /\ number_of_pipes \in Nat /\ number_of_pipes <= MaxCommands - 1
    BY <1>1, <1>2, Constants DEF IInv, LineInv, TypeOK
  <2>2. 1 .. number_of_pipes \subseteq 1 .. MaxCommands - 1 BY <2>1, Constants
  <2> QED BY <2>2 DEF NewPipes, PipeEnds
<1>4. TypeOK' BY <1>1, <1>2, <1>3, Constants DEF TypeOK
<1>5. \A c \in Children : ends'[c] = ends[c] BY <1>1, <1>2, Constants DEF TypeOK
<1>6. Len(commands) \in Nat BY <1>1, LenProperties DEF TypeOK
<1>7. LineInv' /\ LoopInv' /\ ChildInv' /\ EndsInv' /\ CodeInv' /\ NoLeak' /\ ExitCodesDecide'
  BY <1>2, <1>5, <1>6
  DEF IInv, LineInv, LoopInv, ChildInv, EndsInv, CodeInv, NoLeak, ExitCodesDecide
<1> QED BY <1>4, <1>7 DEF IInv

(* pipe() or fork() fails. *)
LEMMA FailurePreserves == ASSUME IInv, PipeFails \/ ForkFails PROVE IInv'
<1>1. TypeOK BY DEF IInv
<1>2. /\ pc \in {"pipe", "fork"} /\ pc' = "returned" /\ result' = "-1" /\ disturbed' = TRUE
      /\ pc = "fork" => i <= Len(commands)
      /\ UNCHANGED <<tokens, number_of_pipes, commands, i, status, success,
                     ends, state, code, did, held, content, typed>>
  BY DEF PipeFails, ForkFails, world
<1>3. TypeOK' BY <1>1, <1>2 DEF TypeOK
<1>4. LineInv' /\ LoopInv' /\ ChildInv' /\ EndsInv' /\ CodeInv' /\ NoLeak' /\ ExitCodesDecide'
  BY <1>2 DEF IInv, LineInv, LoopInv, ChildInv, EndsInv, CodeInv, NoLeak, ExitCodesDecide
<1> QED BY <1>3, <1>4 DEF IInv

LEMMA ForkPreserves == ASSUME IInv, Fork PROVE IInv'
<1>1. TypeOK BY DEF IInv
<1>2. /\ pc = "fork" /\ i <= Len(commands) /\ i' = i + 1
      /\ state' = [state EXCEPT ![i] = "forked"] /\ ends' = [ends EXCEPT ![i] = ends[Shell]]
      /\ UNCHANGED <<pc, tokens, number_of_pipes, commands, status, success, result, disturbed,
                     code, did, held, content, typed>>
  BY DEF Fork, ReadyToFork
<1>3. /\ Len(commands) \in Nat /\ Len(commands) <= MaxCommands /\ i \in Nat /\ 1 <= i
  BY <1>1, <1>2, LenProperties, Constants DEF IInv, TypeOK, LineInv
<1>4. i \in Children /\ i' \in 1 .. MaxCommands + 1 BY <1>2, <1>3, Constants DEF Children
<1>5. TypeOK' BY <1>1, <1>2, <1>4, Constants DEF TypeOK
<1>6. \A c \in Children : c # i => state'[c] = state[c] /\ ends'[c] = ends[c]
  BY <1>1, <1>2, <1>4, Constants DEF TypeOK
<1>7. state'[i] = "forked" BY <1>1, <1>2, <1>4 DEF TypeOK
<1>8. LineInv' /\ LoopInv' /\ CodeInv' /\ NoLeak' /\ ExitCodesDecide'
  BY <1>2, <1>3 DEF IInv, LineInv, LoopInv, CodeInv, NoLeak, ExitCodesDecide
<1>9. ChildInv' BY <1>2, <1>3, <1>6, <1>7, Constants DEF IInv, ChildInv
<1>10. EndsInv' BY <1>2, <1>6, <1>7 DEF IInv, EndsInv
<1> QED BY <1>5, <1>8, <1>9, <1>10 DEF IInv

LEMMA ClosePipesPreserves == ASSUME IInv, ClosePipes PROVE IInv'
<1>1. TypeOK BY DEF IInv
<1>2. /\ pc = "fork" /\ i > Len(commands) /\ pc' = "wait" /\ i' = 1
      /\ ends' = [ends EXCEPT ![Shell] = {}]
      /\ UNCHANGED <<tokens, number_of_pipes, commands, status, success, result, disturbed,
                     state, code, did, held, content, typed>>
  BY DEF ClosePipes, ShellKeeps
<1>3. commands # <<>> /\ commands \in Seq(Seq(STRING)) /\ success = 1
  BY <1>1, <1>2 DEF IInv, LineInv, LoopInv, TypeOK
<1>4. Len(commands) \in Nat /\ 1 <= Len(commands) BY <1>3
<1>5. TypeOK'
  <2>1. 1 \in 1 .. MaxCommands + 1 BY Constants
  <2> QED BY <1>1, <1>2, <2>1, Constants DEF TypeOK
<1>6. /\ ends'[Shell] = {}
      /\ \A c \in Children : ends'[c] = ends[c]
  BY <1>1, <1>2, Constants DEF TypeOK
<1>7. LineInv' /\ LoopInv' /\ ChildInv' /\ EndsInv' /\ NoLeak' /\ ExitCodesDecide'
  BY <1>2, <1>3, <1>4, <1>6 DEF IInv, LineInv, LoopInv, ChildInv, EndsInv, NoLeak, ExitCodesDecide
<1>8. CodeInv' BY <1>2, <1>3, Constants DEF CodeInv
<1> QED BY <1>5, <1>7, <1>8 DEF IInv

LEMMA SuccessType ==
  ASSUME TypeOK, NEW st \in Codes \cup {"unset"}
  PROVE  SuccessAfter(st) \subseteq {0, 1}
BY DEF TypeOK, SuccessAfter

LEMMA WaitPreserves == ASSUME IInv, Wait PROVE IInv'
<1>1. TypeOK BY DEF IInv
<1>2. /\ pc = "wait" /\ state[i] = "zombie" /\ state' = [state EXCEPT ![i] = "none"]
      /\ Waited(code[i])
      /\ UNCHANGED <<disturbed, ends, code, did, held, content, typed>>
  BY DEF Wait
<1>3. /\ Len(commands) \in Nat /\ Len(commands) <= MaxCommands /\ i \in Nat /\ 1 <= i
      /\ i <= Len(commands) /\ commands # <<>>
  BY <1>1, <1>2, LenProperties, Constants DEF IInv, TypeOK, LineInv, LoopInv
<1>4. i \in Children /\ i + 1 \in 1 .. MaxCommands + 1 BY <1>3, Constants DEF Children
<1>5. code[i] \in Codes /\ code[i] # "unset" BY <1>1, <1>4 DEF TypeOK, Codes
<1>6. success' = IF code[i] = "ok" THEN success ELSE 0
  BY <1>2, <1>5 DEF Waited, SuccessAfter
<1>7. /\ status' = code[i] /\ i' = i + 1
      /\ \/ i < Len(commands) /\ UNCHANGED <<pc, result>>
         \/ /\ i = Len(commands) /\ pc' = "returned"
            /\ result' = IF success' = 1 THEN "0" ELSE "-1"
      /\ UNCHANGED <<tokens, number_of_pipes, commands>>
  BY <1>2 DEF Waited
<1>8. success' \in {0, 1} BY <1>1, <1>6 DEF TypeOK
<1>9. TypeOK' BY <1>1, <1>2, <1>4, <1>5, <1>7, <1>8 DEF TypeOK
<1>10. /\ state'[i] = "none"
       /\ \A c \in Children : c # i => state'[c] = state[c]
  BY <1>1, <1>2, <1>4 DEF TypeOK
<1>11. ends[Shell] = {} /\ \A c \in Children : ends[c] # {} => state[c] = "forked"
  BY <1>2 DEF IInv, EndsInv
<1>12. EndsInv' /\ NoLeak' BY <1>2, <1>7, <1>10, <1>11 DEF EndsInv, NoLeak
<1>13. LineInv' /\ LoopInv' BY <1>2, <1>3, <1>7 DEF IInv, LineInv, LoopInv
<1>14. ChildInv' BY <1>2, <1>7, <1>10 DEF IInv, ChildInv
<1>15. ASSUME ~disturbed
       PROVE  /\ \A c \in Children : c < i' => state'[c] = "none"
              /\ success' = 1 <=> \A c \in 1 .. i' - 1 : code[c] = "ok"
  <2>1. /\ \A c \in Children : c < i => state[c] = "none"
        /\ success = 1 <=> \A c \in 1 .. i - 1 : code[c] = "ok"
    BY <1>2, <1>15 DEF IInv, CodeInv
  <2>2. \A c \in Children : c < i' => state'[c] = "none"
    BY <1>3, <1>7, <1>10, <2>1, Constants
  <2>3. \A c \in 1 .. i' - 1 : c \in 1 .. i - 1 \/ c = i BY <1>3, <1>7
  <2>4. i \in 1 .. i' - 1 /\ \A c \in 1 .. i - 1 : c \in 1 .. i' - 1 BY <1>3, <1>7
  <2> QED BY <1>6, <2>1, <2>2, <2>3, <2>4
<1>16. CASE i < Len(commands)
  BY <1>2, <1>3, <1>7, <1>15, <1>16, <1>9, <1>12, <1>13, <1>14
  DEF IInv, CodeInv, ExitCodesDecide
<1>17. CASE i = Len(commands)
  <2>1. ASSUME ~disturbed PROVE \A c \in Children : state'[c] = "none"
    <3>1. \A c \in Children : c < i' \/ c > Len(commands) BY <1>3, <1>7, <1>17, Constants
    <3>2. \A c \in Children : c > Len(commands) => state'[c] = "none"
      BY <1>3, <1>7, <1>14, <1>9, Constants DEF ChildInv, TypeOK
    <3> QED BY <1>15, <2>1, <3>1, <3>2
  <2>2. ASSUME ~disturbed
        PROVE  result' = "0" <=> \A c \in 1 .. Len(commands) : code[c] = "ok"
    <3>1. i' - 1 = Len(commands) BY <1>3, <1>7, <1>17
    <3> QED BY <1>7, <1>15, <1>17, <2>2, <3>1
  <2>3. pc' = "returned" BY <1>3, <1>7, <1>17
  <2>4. CodeInv' BY <1>2, <2>1, <2>3 DEF CodeInv
  <2>5. ExitCodesDecide' BY <1>2, <1>7, <2>2 DEF ExitCodesDecide
  <2> QED BY <1>9, <1>12, <1>13, <1>14, <2>4, <2>5 DEF IInv
<1> QED BY <1>3, <1>16, <1>17

LEMMA InterruptPreserves == ASSUME IInv, Interrupt PROVE IInv'
<1>1. TypeOK BY DEF IInv
<1>2. /\ pc = "wait" /\ disturbed' = TRUE /\ Waited(status) /\ UNCHANGED <<ends, content, typed>>
  BY DEF Interrupt
<1>3. /\ Len(commands) \in Nat /\ Len(commands) <= MaxCommands /\ i \in Nat /\ 1 <= i
      /\ i <= Len(commands) /\ commands # <<>>
  BY <1>1, <1>2, LenProperties, Constants DEF IInv, TypeOK, LineInv, LoopInv
<1>4. i + 1 \in 1 .. MaxCommands + 1 BY <1>3, Constants
<1>5. /\ state' \in [Children -> {"none", "forked", "run", "zombie"}]
      /\ code' \in [Children -> Codes] /\ did' \in [Children -> 0 .. 2]
      /\ held' \in [Children -> 0 .. CatCap]
      /\ \A c \in Children : state'[c] = state[c] \/ (state[c] = "run" /\ state'[c] = "zombie")
  <2>1. PICK hit \in SUBSET {c \in Children :
                              Run(c) /\ (Kind(c) = "yes" \/ InRead(c) \/ InWrite(c))} :
       /\ state' = [c \in Children |-> IF c \in hit /\ Dies(c) THEN "zombie" ELSE state[c]]
       /\ code' = [c \in Children |-> IF c \in hit /\ Dies(c) THEN CodeAfter(c) ELSE code[c]]
       /\ did' = [c \in Children |-> IF c \in hit THEN DidAfter(c) ELSE did[c]]
       /\ held' = [c \in Children |-> IF c \in hit THEN HeldAfter(c) ELSE held[c]]
    BY DEF Interrupt
  <2>2. \A c \in Children : CodeAfter(c) \in Codes BY DEF CodeAfter, EndCode, Codes
  <2>3. \A c \in hit : c \in Children /\ state[c] = "run" BY <2>1 DEF Run
  <2>4. ASSUME NEW c \in Children PROVE DidAfter(c) \in 0 .. 2
    <3>1. did[c] \in 0 .. 2 BY <1>1 DEF TypeOK
    <3>2. CASE Kind(c) = "wc" BY <3>2 DEF DidAfter
    <3>3. CASE Kind(c) \in {"source", "file"} /\ did[c] < 2 BY <3>1, <3>3 DEF DidAfter
    <3>4. CASE Kind(c) # "wc" /\ ~(Kind(c) \in {"source", "file"} /\ did[c] < 2)
      BY <3>1, <3>4 DEF DidAfter
    <3> QED BY <3>2, <3>3, <3>4
  <2>5. \A c \in Children : HeldAfter(c) \in 0 .. CatCap BY Constants DEF HeldAfter
  <2> QED BY <1>1, <2>1, <2>2, <2>3, <2>4, <2>5 DEF TypeOK
<1>6. /\ status' = status /\ i' = i + 1
      /\ \/ i < Len(commands) /\ UNCHANGED <<pc, result>>
         \/ /\ i = Len(commands) /\ pc' = "returned"
            /\ result' = IF success' = 1 THEN "0" ELSE "-1"
      /\ UNCHANGED <<tokens, number_of_pipes, commands>>
  BY <1>2 DEF Waited
<1>7. success' \in {0, 1} BY <1>1, <1>2, SuccessType DEF Waited, TypeOK
<1>8. TypeOK' BY <1>1, <1>2, <1>4, <1>5, <1>6, <1>7 DEF TypeOK
<1>9. ends[Shell] = {} /\ \A c \in Children : ends[c] # {} => state[c] = "forked"
  BY <1>2 DEF IInv, EndsInv
<1>10. EndsInv' /\ NoLeak' BY <1>2, <1>5, <1>6, <1>9 DEF EndsInv, NoLeak
<1>11. LineInv' /\ LoopInv' BY <1>2, <1>3, <1>6 DEF IInv, LineInv, LoopInv
<1>12. ChildInv' BY <1>2, <1>5, <1>6 DEF IInv, ChildInv
<1>13. CodeInv' /\ ExitCodesDecide' BY <1>2 DEF CodeInv, ExitCodesDecide
<1> QED BY <1>8, <1>10, <1>11, <1>12, <1>13 DEF IInv

LEMMA NextLinePreserves == ASSUME IInv, NextLine PROVE IInv'
<1>1. DOMAIN content = 1 .. MaxCommands - 1 BY DEF IInv, TypeOK
<1>2. Init' BY <1>1 DEF NextLine, Fresh, Init
<1> QED BY <1>2, InitIInv, PTL

LEMMA ExitPreserves == ASSUME IInv, Exit PROVE IInv'
<1>1. TypeOK BY DEF IInv
<1>2. /\ pc' = "exited" /\ ends' = [ends EXCEPT ![Shell] = {}]
      /\ UNCHANGED <<tokens, number_of_pipes, commands, i, status, success, result, disturbed,
                     state, code, did, held, content, typed>>
  BY DEF Exit
<1>3. TypeOK' BY <1>1, <1>2, Constants DEF TypeOK
<1>4. ends'[Shell] = {} /\ \A c \in Children : ends'[c] = ends[c]
  BY <1>1, <1>2, Constants DEF TypeOK
<1>5. LineInv' /\ LoopInv' /\ ChildInv' /\ EndsInv' /\ CodeInv' /\ NoLeak' /\ ExitCodesDecide'
  BY <1>2, <1>4 DEF IInv, LineInv, LoopInv, ChildInv, EndsInv, CodeInv, NoLeak, ExitCodesDecide
<1> QED BY <1>3, <1>5 DEF IInv

---------------------------------------------------------------------------
(* The steps of the children. *)

LEMMA AvailableType ==
  ASSUME TypeOK, NEW c \in Children PROVE Available(c) \in Nat
<1>1. content \in [1 .. MaxCommands - 1 -> 0 .. Cap] /\ typed \in 0 .. MaxTyped BY DEF TypeOK
<1>2. c # 1 => c - 1 \in 1 .. MaxCommands - 1 BY Constants
<1> QED BY <1>1, <1>2, Constants DEF Available

(* A pipe never holds more than it can, nor less than nothing. *)
LEMMA MovedType ==
  ASSUME TypeOK, NEW c \in Children, NEW taken \in Nat, NEW written \in Nat,
         Moved(c, taken, written), taken <= Available(c),
         ~IsLast(c) /\ c \in 1 .. MaxCommands - 1 => content[c] + written <= Cap
  PROVE  content' \in [1 .. MaxCommands - 1 -> 0 .. Cap] /\ typed' \in 0 .. MaxTyped
<1>1. content \in [1 .. MaxCommands - 1 -> 0 .. Cap] /\ typed \in 0 .. MaxTyped BY DEF TypeOK
<1>2. /\ content' = [j \in 1 .. MaxCommands - 1 |->
           content[j] - (IF j = c - 1 THEN taken ELSE 0)
                      + (IF j = c /\ ~IsLast(c) THEN written ELSE 0)]
      /\ typed' = IF c = 1 THEN typed - taken ELSE typed
  BY <1>1 DEF Moved
<1>3. ASSUME NEW j \in 1 .. MaxCommands - 1
      PROVE  content[j] - (IF j = c - 1 THEN taken ELSE 0)
                        + (IF j = c /\ ~IsLast(c) THEN written ELSE 0) \in 0 .. Cap
  <2>1. content[j] \in Nat /\ content[j] <= Cap /\ Cap \in Nat /\ j \in Nat /\ 1 <= j /\ c \in Nat
    BY <1>1, Constants
  <2>2. CASE j = c - 1
    <3>1. taken <= content[j] BY <2>1, <2>2 DEF Available
    <3> QED BY <2>1, <2>2, <3>1
  <2>3. CASE j = c BY <2>1, <2>3
  <2>4. CASE j # c - 1 /\ j # c BY <2>1, <2>4
  <2> QED BY <2>2, <2>3, <2>4
<1>4. typed' \in 0 .. MaxTyped
  <2>1. CASE c = 1
    <3>1. taken <= typed BY <2>1 DEF Available
    <3> QED BY <1>1, <1>2, <2>1, <3>1, Constants
  <2>2. CASE c # 1 BY <1>1, <1>2, <2>2
  <2> QED BY <2>1, <2>2
<1> QED BY <1>2, <1>3, <1>4

(* What a child does to the state the invariant is about: it starts to run *)
(* or comes to its end.                                                    *)
LEMMA ChildStepPreserves ==
  ASSUME IInv, NEW c \in Children, state[c] \in {"forked", "run"}, UNCHANGED shell, TypeOK',
         \A d \in Children : d # c => state'[d] = state[d] /\ code'[d] = code[d],
         \A p \in Procs : p # c => ends'[p] = ends[p],
         \/ UNCHANGED <<state, code, ends>>
         \/ state'[c] \in {"run", "zombie"} /\ ends'[c] = {}
  PROVE  IInv'
<1>1. UNCHANGED <<pc, tokens, number_of_pipes, commands, i, status, success, result, disturbed>>
  BY DEF shell
<1>2. c # Shell /\ ends'[Shell] = ends[Shell] BY Constants
<1>3. /\ c <= Len(commands) /\ c \in Nat /\ i \in Nat /\ 1 <= c /\ c <= MaxCommands
      /\ Len(commands) \in Nat
  BY Constants, LenProperties DEF IInv, ChildInv, TypeOK
<1>4. LineInv' /\ LoopInv' BY <1>1 DEF IInv, LineInv, LoopInv
<1>5. ChildInv' BY <1>1, <1>3 DEF IInv, ChildInv
<1>6. EndsInv' BY <1>1, <1>2, Constants DEF IInv, EndsInv
<1>7. NoLeak' BY <1>1, <1>2 DEF IInv, NoLeak
<1>8. pc = "wait" /\ ~disturbed => i <= c BY <1>3 DEF IInv, CodeInv
<1>9. CodeInv'
  <2>1. ~(pc = "returned" /\ ~disturbed /\ commands # <<>>) BY DEF IInv, CodeInv
  <2>2. ASSUME pc = "wait", ~disturbed
        PROVE  /\ \A d \in Children : d < i => state'[d] = "none"
               /\ success = 1 <=> \A d \in 1 .. i - 1 : code'[d] = "ok"
    <3>1. /\ \A d \in Children : d < i => state[d] = "none"
          /\ success = 1 <=> \A d \in 1 .. i - 1 : code[d] = "ok"
      BY <2>2 DEF IInv, CodeInv
    <3>2. \A d \in 1 .. i - 1 : d # c /\ d \in Children
      BY <1>3, <1>8, <2>2, Constants DEF Children
    <3>3. \A d \in Children : d < i => d # c BY <1>3, <1>8, <2>2
    <3> QED BY <3>1, <3>2, <3>3
  <2> QED BY <1>1, <2>1, <2>2 DEF CodeInv
<1>10. ExitCodesDecide'
  <2>1. ~(pc = "returned" /\ ~disturbed /\ commands # <<>>) BY DEF IInv, CodeInv
  <2> QED BY <1>1, <2>1 DEF ExitCodesDecide
<1> QED BY <1>4, <1>5, <1>6, <1>7, <1>9, <1>10 DEF IInv

LEMMA EndsProperty ==
  ASSUME TypeOK, NEW c \in Children, NEW how \in Codes, Ends(c, how)
  PROVE  /\ state' \in [Children -> {"none", "forked", "run", "zombie"}]
         /\ code' \in [Children -> Codes] /\ ends' \in [Procs -> SUBSET PipeEnds]
         /\ \A d \in Children : d # c => state'[d] = state[d] /\ code'[d] = code[d]
         /\ \A p \in Procs : p # c => ends'[p] = ends[p]
         /\ state'[c] = "zombie" /\ ends'[c] = {}
BY Constants DEF TypeOK, Ends

LEMMA ChildPreserves == ASSUME IInv, NEW c \in Children, Child(c) PROVE IInv'
<1>1. TypeOK BY DEF IInv
<1>2. CASE SetUp(c)
  <2>1. /\ state[c] = "forked" /\ state' = [state EXCEPT ![c] = "run"]
        /\ ends' = [ends EXCEPT ![c] = {}] /\ UNCHANGED <<shell, code, did, held, content, typed>>
    BY <1>2 DEF SetUp, ChildKeeps
  <2>2. TypeOK' BY <1>1, <2>1, Constants DEF TypeOK, shell
  <2>3. /\ \A d \in Children : d # c => state'[d] = state[d] /\ code'[d] = code[d]
        /\ \A p \in Procs : p # c => ends'[p] = ends[p]
        /\ state'[c] = "run" /\ ends'[c] = {}
    BY <1>1, <2>1, Constants DEF TypeOK
  <2> QED BY <2>1, <2>2, <2>3, ChildStepPreserves
<1>3. CASE BrokenPipe(c) \/ Finishes(c) \/ (ReadsEnd(c) /\ Kind(c) = "cat")
  <2>1. PICK how \in Codes : Ends(c, how)
    BY <1>3 DEF BrokenPipe, Finishes, ReadsEnd, EndCode, Codes
  <2>2. state[c] = "run" /\ UNCHANGED <<shell, did, held, content, typed>>
    BY <1>3 DEF BrokenPipe, Finishes, ReadsEnd, Run
  <2>3. /\ state' \in [Children -> {"none", "forked", "run", "zombie"}]
        /\ code' \in [Children -> Codes] /\ ends' \in [Procs -> SUBSET PipeEnds]
        /\ \A d \in Children : d # c => state'[d] = state[d] /\ code'[d] = code[d]
        /\ \A p \in Procs : p # c => ends'[p] = ends[p]
        /\ state'[c] = "zombie" /\ ends'[c] = {}
    BY <1>1, <2>1, EndsProperty
  <2>4. TypeOK' BY <1>1, <2>2, <2>3 DEF TypeOK, shell
  <2> QED BY <2>2, <2>3, <2>4, ChildStepPreserves
<1>4. CASE Produces(c)
  <2>1. /\ state[c] = "run"
        /\ Kind(c) = "yes" \/ did[c] < 2
        /\ Room(c, 1) /\ Moved(c, 0, 1)
        /\ did' = [did EXCEPT ![c] = IF Kind(c) = "yes" THEN did[c] ELSE did[c] + 1]
        /\ UNCHANGED <<shell, ends, state, code, held>>
    BY <1>4 DEF Produces, Run
  <2>2. content' \in [1 .. MaxCommands - 1 -> 0 .. Cap] /\ typed' \in 0 .. MaxTyped
    <3>1. 0 <= Available(c) BY <1>1, AvailableType
    <3>2. PICK n \in Nat : n = 0 OBVIOUS
    <3>3. PICK m \in Nat : m = 1 OBVIOUS
    <3> QED BY <1>1, <2>1, <3>1, <3>2, <3>3, MovedType DEF Room
  <2>3. did' \in [Children -> 0 .. 2]
    <3>1. did \in [Children -> 0 .. 2] BY <1>1 DEF TypeOK
    <3> QED BY <2>1, <3>1
  <2>4. TypeOK' BY <1>1, <2>1, <2>2, <2>3 DEF TypeOK, shell
  <2> QED BY <2>1, <2>4, ChildStepPreserves
<1>5. CASE Consumes(c)
  <2>1. /\ state[c] = "run" /\ did' = [did EXCEPT ![c] = 1]
        /\ UNCHANGED <<shell, ends, state, code>>
    BY <1>5 DEF Consumes, Run
  <2>2. PICK n \in 1 .. Available(c) :
          /\ Moved(c, n, 0)
          /\ held' = [held EXCEPT ![c] =
                        IF Kind(c) = "wc" THEN 0 ELSE IF n > CatCap THEN CatCap ELSE n]
    BY <1>5 DEF Consumes
  <2>3. Available(c) \in Nat BY <1>1, AvailableType
  <2>4. content' \in [1 .. MaxCommands - 1 -> 0 .. Cap] /\ typed' \in 0 .. MaxTyped
    <3>1. PICK m \in Nat : m = 0 OBVIOUS
    <3>2. ASSUME ~IsLast(c), c \in 1 .. MaxCommands - 1 PROVE content[c] + m <= Cap
      BY <1>1, <3>1, <3>2, Constants DEF TypeOK
    <3>3. n \in Nat /\ n <= Available(c) BY <2>2, <2>3
    <3> QED BY <1>1, <2>2, <3>1, <3>2, <3>3, MovedType
  <2>5. held' \in [Children -> 0 .. CatCap]
    <3>1. held \in [Children -> 0 .. CatCap] BY <1>1 DEF TypeOK
    <3>2. (IF Kind(c) = "wc" THEN 0 ELSE IF n > CatCap THEN CatCap ELSE n) \in 0 .. CatCap
      BY <2>2, <2>3, Constants
    <3> QED BY <2>2, <3>1, <3>2
  <2>6. did' \in [Children -> 0 .. 2] BY <1>1, <2>1 DEF TypeOK
  <2>7. TypeOK' BY <1>1, <2>1, <2>4, <2>5, <2>6 DEF TypeOK, shell
  <2> QED BY <2>1, <2>7, ChildStepPreserves
<1>6. CASE Writes(c)
  <2>1. /\ state[c] = "run" /\ Room(c, held[c]) /\ Moved(c, 0, held[c])
        /\ held' = [held EXCEPT ![c] = 0]
        /\ UNCHANGED <<shell, ends, state, code, did>>
    BY <1>6 DEF Writes, Run
  <2>2. held \in [Children -> 0 .. CatCap] /\ 0 \in 0 .. CatCap BY <1>1, Constants DEF TypeOK
  <2>3. content' \in [1 .. MaxCommands - 1 -> 0 .. Cap] /\ typed' \in 0 .. MaxTyped
    <3>1. 0 <= Available(c) BY <1>1, AvailableType
    <3>2. PICK n \in Nat : n = 0 OBVIOUS
    <3>3. PICK m \in Nat : m = held[c] BY <2>2
    <3> QED BY <1>1, <2>1, <3>1, <3>2, <3>3, MovedType DEF Room
  <2>4. held' \in [Children -> 0 .. CatCap] BY <2>1, <2>2
  <2>5. TypeOK' BY <1>1, <2>1, <2>3, <2>4 DEF TypeOK, shell
  <2> QED BY <2>1, <2>5, ChildStepPreserves
<1>7. CASE ReadsEnd(c) /\ Kind(c) # "cat"
  <2>1. /\ state[c] = "run"
        /\ did' = [did EXCEPT ![c] = 2] /\ held' = [held EXCEPT ![c] = 1]
        /\ UNCHANGED <<shell, ends, state, code, content, typed>>
    BY <1>7 DEF ReadsEnd, Run
  <2>2. did' \in [Children -> 0 .. 2] BY <1>1, <2>1 DEF TypeOK
  <2>3. held' \in [Children -> 0 .. CatCap]
    <3>1. held \in [Children -> 0 .. CatCap] /\ 1 \in 0 .. CatCap BY <1>1, Constants DEF TypeOK
    <3> QED BY <2>1, <3>1
  <2>4. TypeOK' BY <1>1, <2>1, <2>2, <2>3 DEF TypeOK, shell
  <2> QED BY <2>1, <2>4, ChildStepPreserves
<1> QED BY <1>2, <1>3, <1>4, <1>5, <1>6, <1>7 DEF Child

LEMMA NextIInv == ASSUME IInv, [Next]_vars PROVE IInv'
<1>1. CASE UNCHANGED vars
  BY <1>1 DEF vars, shell, world, IInv, TypeOK, LineInv, LoopInv, ChildInv, EndsInv, CodeInv,
     NoLeak, ExitCodesDecide
<1> QED BY <1>1, ExecuteCommandPreserves, SplitPreserves, CreatePipesPreserves, FailurePreserves,
       ForkPreserves, ClosePipesPreserves, WaitPreserves, InterruptPreserves, NextLinePreserves,
       ExitPreserves, ChildPreserves
    DEF Next, execute_pipeline

---------------------------------------------------------------------------
(* The inductive invariant holds for all lines and capacities. *)
THEOREM Invariant == Spec => []IInv
BY InitIInv, NextIInv, PTL DEF Spec

(* Types: in particular the indices of the fork and the wait loop stay     *)
(* within the arrays, and no pipe holds more than its capacity.            *)
THEOREM TypeCorrect == Spec => []TypeOK
<1>1. IInv => TypeOK BY DEF IInv
<1> QED BY <1>1, Invariant, PTL

(* The number of pipes counted in execute_command() and the number of      *)
(* commands execute_pipeline() makes of the line agree for every line, and *)
(* no command is empty (commands.c:62-104, 198-220).                       *)
THEOREM CountsCorrect == Spec => []CountsAgree
<1>1. IInv => CountsAgree
  <2> SUFFICES ASSUME IInv, Started PROVE CountsAgree BY DEF CountsAgree
  <2>1. commands # <<>> /\ commands \in Seq(Seq(STRING))
    BY DEF IInv, TypeOK, LineInv, Started
  <2>2. DOMAIN commands = 1 .. Len(commands) BY <2>1, LenProperties
  <2> QED BY <2>1, <2>2 DEF IInv, LineInv, CountsAgree
<1> QED BY <1>1, Invariant, PTL

(* While the shell waits, only its two neighbours have a pipe open, for    *)
(* any number of commands (commands.c:133-145, 176).                       *)
THEOREM NeighboursCorrect == Spec => []OnlyNeighbours
<1>1. IInv => OnlyNeighbours
  <2> SUFFICES ASSUME IInv, pc = "wait", \A c \in Children : state[c] # "forked"
               PROVE  \A j \in 1 .. MaxCommands - 1 :
                        Writers(j) \subseteq {j} /\ Readers(j) \subseteq {j + 1}
    BY DEF OnlyNeighbours
  <2>1. \A p \in Procs : ends[p] = {} BY Constants DEF IInv, EndsInv
  <2> QED BY <2>1 DEF Writers, Readers
<1> QED BY <1>1, Invariant, PTL

(* The shell leaves no pipe open behind a pipeline, unless a fork() failed *)
(* (commands.c:109-126, 176).                                              *)
THEOREM NoLeakCorrect == Spec => []NoLeak
<1>1. IInv => NoLeak BY DEF IInv
<1> QED BY <1>1, Invariant, PTL

(* Undisturbed, a pipeline of any number of commands succeeds if and only  *)
(* if each of them did (commands.c:57).                                    *)
THEOREM ExitCodesCorrect == Spec => []ExitCodesDecide
<1>1. IInv => ExitCodesDecide BY DEF IInv
<1> QED BY <1>1, Invariant, PTL
===========================================================================
