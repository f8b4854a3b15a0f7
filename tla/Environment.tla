---------------------------- MODULE Environment ----------------------------
(***************************************************************************)
(* What the shell's variables promise: a name has a value, "" at first; an *)
(* assignment that is reported as stored changes the value of the name it  *)
(* names and of no other; the end of the shell forgets them all.           *)
(***************************************************************************)
CONSTANTS Names, Values, Empty

VARIABLES
  env,    \* the value of each name
  last    \* the assignment reported as stored by the last line, or <<>>

vars == <<env, last>>

Init == env = [n \in Names |-> Empty] /\ last = <<>>

Assign(n, v) == env' = [env EXCEPT ![n] = v] /\ last' = <<n, v>>

(* Any other line: what it does is invisible here. *)
OtherLine == env' = env /\ last' = <<>>

Forget == env' = [n \in Names |-> Empty] /\ last' = <<>>

Next == OtherLine \/ Forget \/ \E n \in Names, v \in Values : Assign(n, v)

Spec == Init /\ [][Next]_vars
============================================================================
