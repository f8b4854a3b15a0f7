---------------------------- MODULE Expansion -----------------------------
(***************************************************************************)
(* expand_variables(), one character of the token per step, and the two    *)
(* passes it makes over a token: main() expands every token with a '$',    *)
(* and bn_echo(), or the branch of execute_command() for an assignment,    *)
(* expands the result again.                                               *)
(*                                                                         *)
(* The result goes into an array of MAX_STR_LEN characters.  The room left *)
(* is a size_t that is decreased by the full length of every text, also of *)
(* one that strncat() had to cut, so it may wrap round.  Names and text    *)
(* are collected in var_name, an array of the same size, whose last place  *)
(* is for the '\0'.                                                        *)
(***************************************************************************)
EXTENDS Naturals, Sequences, SequencesExt

CONSTANTS
  Chars,    \* the characters of a token and of a value
  MaxStr,   \* MAX_STR_LEN
  Word,     \* SIZE_MAX + 1
  Inputs,   \* the tokens the user types
  Envs      \* the values of the variables, each a function of the names

Dollar == "$"
Empty == <<>>

ASSUME CharsAssumption == Dollar \in Chars
ASSUME SizesAssumption == MaxStr \in Nat \ {0} /\ Word \in Nat /\ Word > MaxStr
ASSUME InputsAssumption == \A t \in Inputs : t \in Seq(Chars) /\ Len(t) <= MaxStr
ASSUME EnvsAssumption ==
  \A e \in Envs : \A n \in DOMAIN e : e[n] \in Seq(Chars) /\ Len(e[n]) <= MaxStr

VARIABLES
  pc,          \* "prompt", "loop", "rest" (behind the loop), "returned", "overflow"
  pass,        \* 1: called by main(), 2: called for the result of pass 1
  token,       \* history: the token the user typed
  env,         \* what find_val_with_key() finds
  input, i,    \* the argument, and the loop counter
  array, remaining, taking_var, var_name

local == <<input, i, array, remaining, taking_var, var_name>>
vars == <<pc, pass, token, env, local>>

TypeOK ==
  /\ pc \in {"prompt", "loop", "rest", "returned", "overflow"}
  /\ pass \in {1, 2}
  /\ token \in Inputs \cup {Empty} /\ env \in Envs
  /\ input \in Seq(Chars) /\ Len(input) <= MaxStr
  /\ i \in 1 .. MaxStr + 1
  /\ array \in Seq(Chars)
  /\ remaining \in 0 .. Word - 1
  /\ taking_var \in {0, 1}
  /\ var_name \in Seq(Chars) /\ Len(var_name) <= MaxStr

Init ==
  /\ pc = "prompt" /\ pass = 1 /\ token = Empty /\ env \in Envs
  /\ input = Empty /\ i = 1 /\ array = Empty /\ remaining = MaxStr
  /\ taking_var = 0 /\ var_name = Empty

---------------------------------------------------------------------------
find_val_with_key(e, key) == IF key \in DOMAIN e THEN e[key] ELSE Empty

(* The argument and the locals of a new call. *)
expand_variables(s) ==
  /\ pc' = "loop"
  /\ input' = s /\ i' = 1 /\ array' = Empty /\ remaining' = MaxStr
  /\ taking_var' = 0 /\ var_name' = Empty

main(t) ==
  /\ pc = "prompt"
  /\ pass' = 1 /\ token' = t
  /\ \/ Contains(t, Dollar) /\ expand_variables(t)
     \/ /\ ~Contains(t, Dollar)
        /\ pc' = "returned" /\ input' = t /\ array' = t
        /\ UNCHANGED <<i, remaining, taking_var, var_name>>
  /\ UNCHANGED env

(* A second call for what main() has put in place of the token. *)
ExpandAgain ==
  /\ pc = "returned" /\ pass = 1
  /\ pass' = 2
  /\ expand_variables(array)
  /\ UNCHANGED <<token, env>>

bn_echo == ExpandAgain

(* name=value with a '$' left in the value.  The name and the '=' have no  *)
(* '$' and are copied as they are; they are left out here.                 *)
AssignExpanded == Contains(array, Dollar) /\ ExpandAgain

NextToken ==
  /\ pc \in {"returned", "overflow"}
  /\ pc' = "prompt" /\ pass' = 1 /\ token' = Empty
  /\ input' = Empty /\ i' = 1 /\ array' = Empty /\ remaining' = MaxStr
  /\ taking_var' = 0 /\ var_name' = Empty
  /\ UNCHANGED env

---------------------------------------------------------------------------
(* x_faulty is a variant of x with a plausible programming error;          *)
(* PROJECT.json says which property each one breaks.                       *)
Decrease_faulty(n) == IF n > remaining THEN Word ELSE remaining - n

(* remaining -= n *)
Decrease(n) == (remaining + Word - n) % Word

(* strncat(array, s, remaining), and the room left after it.  Nothing      *)
(* keeps it inside the array but remaining itself.                         *)
Strncat(s, goto) ==
  /\ array' = array \o SubSeq(s, 1, IF Len(s) < remaining THEN Len(s) ELSE remaining)
  /\ pc' = IF Len(array') <= MaxStr THEN goto ELSE "overflow"
  /\ remaining' = Decrease(Len(s))

Cleared_faulty == var_name

(* memset() of var_name behind a text that is no variable. *)
Cleared == Empty

AtEnd == i > Len(input)

Looping == pc = "loop" /\ ~AtEnd /\ remaining >= 1

(* No room is left: the rest of the token is dropped. *)
NoRoom ==
  /\ pc = "loop" /\ ~AtEnd /\ remaining < 1
  /\ pc' = "returned"
  /\ UNCHANGED <<pass, token, env, local>>

(* With no room for the '\0' behind it strlen(var_name) runs out of it. *)
Character ==
  /\ Looping /\ input[i] # Dollar
  /\ var_name' = Append(var_name, input[i])
  /\ pc' = IF Len(var_name') < MaxStr THEN pc ELSE "overflow"
  /\ i' = i + 1
  /\ UNCHANGED <<pass, token, env, input, array, remaining, taking_var>>

(* The first '$', with or without text before it. *)
FirstDollar ==
  /\ Looping /\ input[i] = Dollar /\ taking_var = 0
  /\ taking_var' = 1
  /\ \/ var_name = Empty /\ UNCHANGED <<pc, array, remaining, var_name>>
     \/ var_name # Empty /\ Strncat(var_name, "loop") /\ var_name' = Cleared
  /\ i' = i + 1
  /\ UNCHANGED <<pass, token, env, input>>

(* A '$' that ends the name of a variable. *)
NextDollar ==
  /\ Looping /\ input[i] = Dollar /\ taking_var = 1
  /\ Strncat(find_val_with_key(env, var_name), "loop")
  /\ var_name' = Empty
  /\ i' = i + 1
  /\ UNCHANGED <<pass, token, env, input, taking_var>>

LoopEnds ==
  /\ pc = "loop" /\ AtEnd
  /\ taking_var' = IF var_name = Empty THEN taking_var ELSE 0
  /\ \/ var_name = Empty /\ pc' = "rest" /\ UNCHANGED <<array, remaining>>
     \/ /\ var_name # Empty
        /\ Strncat(IF taking_var = 0 THEN var_name ELSE find_val_with_key(env, var_name), "rest")
  /\ var_name' = Empty
  /\ UNCHANGED <<pass, token, env, input, i>>

LoneDollar_faulty == var_name = Empty

LoneDollar == var_name = Empty /\ taking_var = 1

(* A '$' with nothing behind it stands for itself. *)
Rest ==
  /\ pc = "rest"
  /\ \/ LoneDollar /\ Strncat(<<Dollar>>, "returned")
     \/ ~LoneDollar /\ pc' = "returned" /\ UNCHANGED <<array, remaining>>
  /\ taking_var' = 0
  /\ UNCHANGED <<pass, token, env, input, i, var_name>>

Next ==
  \/ \E t \in Inputs : main(t)
  \/ bn_echo \/ AssignExpanded \/ NextToken
  \/ NoRoom \/ Character \/ FirstDollar \/ NextDollar \/ LoopEnds \/ Rest

Spec == Init /\ [][Next]_vars

---------------------------------------------------------------------------
(* Properties. *)

(* The definition of an expansion: the text before the first '$', then for *)
(* every '$' the value of the name up to the next one; a '$' at the end of *)
(* the token stands for itself.                                            *)
Dollars(s) == {k \in DOMAIN s : s[k] = Dollar}

NameAt(s, k) ==
  LET next == {l \in Dollars(s) : l > k}
      end == IF next = {} THEN Len(s) ELSE Min(next) - 1
  IN  SubSeq(s, k + 1, end)

ValueAt(e, s, k) ==
  IF k = Len(s) THEN <<Dollar>> ELSE find_val_with_key(e, NameAt(s, k))

Expanded(e, s) ==
  NameAt(s, 0) \o
    FlattenSeq([n \in 1 .. Len(s) |-> IF s[n] = Dollar THEN ValueAt(e, s, n) ELSE Empty])

Prefix(s, n) == SubSeq(s, 1, IF Len(s) < n THEN Len(s) ELSE n)

(* "return expanded variables, with given input" (variables.c:191): when   *)
(* the call returns, the array holds the expansion, cut at MAX_STR_LEN     *)
(* characters, for every arrangement of text, names, unknown names, '$'    *)
(* next to each other and at the end, and every filling of the array; and  *)
(* it returns if the expansion is shorter than that: the wrap of remaining *)
(* does no harm to one that fits (variables.c:192-297).                    *)
ReturnsExpansion ==
  /\ pc = "returned" => array = Prefix(Expanded(env, input), MaxStr)
  /\ pc = "overflow" => Len(Expanded(env, input)) >= MaxStr

(* Expanding twice is expanding once, as long as no variable has a '$' in  *)
(* its value: echo and assignments may expand what main() has expanded     *)
(* (mysh.c:104-112, builtins.c:76, commands.c:268).                        *)
SecondPassHarmless ==
  pc = "returned" /\ pass = 2 /\ (\A n \in DOMAIN env : Dollars(env[n]) = {}) =>
    array = Prefix(Expanded(env, token), MaxStr)
============================================================================
