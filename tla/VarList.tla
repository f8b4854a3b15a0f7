------------------------------ MODULE VarList ------------------------------
(***************************************************************************)
(* The shell variables: the linked list of variables.c, and the branch of  *)
(* execute_command() for a line that is one token with a '=' in it.  A     *)
(* token is a sequence of characters, since the defects to look for are in *)
(* how names are cut out and compared.                                     *)
(***************************************************************************)
EXTENDS Naturals, Sequences

CONSTANTS
  Tokens,   \* the assignments the user types
  Letters,  \* isalpha(), and '_'
  Digits    \* isdigit()

Equals == "="

HasEquals(s) == \E i \in 1 .. Len(s) : s[i] = Equals

ASSUME TokensAssumption == \A s \in Tokens : s \in Seq(STRING) /\ HasEquals(s)
ASSUME LettersAssumption == Equals \notin Letters \cup Digits

VARIABLES
  nodes,   \* the list, oldest node first: its head is the last element
  pc,      \* "prompt" or "exited"
  stored   \* history: the last assignment that was stored, as <<name, value>>

vars == <<nodes, pc, stored>>

Empty == <<>>

---------------------------------------------------------------------------
(* Parsing. *)

(* strchr(s, '=') *)
pos(s) == CHOOSE i \in 1 .. Len(s) : s[i] = Equals /\ \A j \in 1 .. i - 1 : s[j] # Equals

find_key(s) == SubSeq(s, 1, pos(s) - 1)

find_value(s) == SubSeq(s, pos(s) + 1, Len(s))

is_valid_varname(s) ==
  LET key == find_key(s) IN
    /\ Len(key) > 0
    /\ key[1] \in Letters
    /\ \A i \in 2 .. Len(key) : key[i] \in Letters \cup Digits

Names == {find_key(s) : s \in {t \in Tokens : is_valid_varname(t)}}

Values == {find_value(s) : s \in Tokens} \cup {Empty}

Nodes == [key : Names, value : Values]

---------------------------------------------------------------------------
(* The list. *)

(* strncmp(current->key, key, strlen(key)) == 0 *)
KeyMatches(i, key) ==
  Len(key) <= Len(nodes[i].key) /\ SubSeq(nodes[i].key, 1, Len(key)) = key

(* x_faulty is a variant of x with a plausible programming error;          *)
(* PROJECT.json says which property each one breaks.                       *)
NoMatch_faulty(key) == \A i \in 1 .. Len(nodes) : i = Len(nodes) => ~KeyMatches(i, key)

NoMatch(key) == \A i \in 1 .. Len(nodes) : ~KeyMatches(i, key)

FirstMatch_faulty(i, key) == i = Len(nodes) /\ ~NoMatch(key)

(* The first node from the head that matches. *)
FirstMatch(i, key) ==
  KeyMatches(i, key) /\ \A j \in i + 1 .. Len(nodes) : ~KeyMatches(j, key)

NewNode_faulty(key, value) == [key |-> key]

NewNode(key, value) == [key |-> key, value |-> value]

set_variable(key, value) ==
  \/ /\ \E i \in 1 .. Len(nodes) :
          FirstMatch(i, key) /\ nodes' = [nodes EXCEPT ![i].value = value]
     /\ stored' = <<key, value>>
  \/ /\ NoMatch(key)
     /\ nodes' = Append(nodes, NewNode(key, value))
     /\ stored' = <<key, value>>
  \/ UNCHANGED nodes /\ stored' = <<>>       \* strdup() or malloc() fails

(* The node find_val_with_key() stops at. *)
Found(i, key) ==
  nodes[i].key = key /\ \A j \in i + 1 .. Len(nodes) : nodes[j].key # key

find_val_with_key(key) ==
  IF \E i \in 1 .. Len(nodes) : nodes[i].key = key
  THEN nodes[CHOOSE i \in 1 .. Len(nodes) : Found(i, key)].value
  ELSE Empty

---------------------------------------------------------------------------
(* The lines of the user. *)

Init ==
  /\ nodes = <<>>
  /\ pc = "prompt"
  /\ stored = <<>>

(* name=value, with no '$' in the value. *)
Assignment(s) ==
  /\ pc = "prompt"
  /\ is_valid_varname(s)
  /\ set_variable(find_key(s), find_value(s))
  /\ UNCHANGED pc

(* key=$other: main() expands the token before it is cut at the '=', and   *)
(* the branch itself a value that names a variable only after that.        *)
AssignmentFrom(key, other) ==
  /\ pc = "prompt"
  /\ set_variable(key, find_val_with_key(other))
  /\ UNCHANGED pc

InvalidName(s) ==
  /\ pc = "prompt"
  /\ ~is_valid_varname(s)
  /\ stored' = <<>>
  /\ UNCHANGED <<nodes, pc>>

(* exit calls remove_all_var(). *)
remove_all_var ==
  /\ pc = "prompt"
  /\ nodes' = <<>>
  /\ pc' = "exited"
  /\ stored' = <<>>

Next ==
  \/ \E s \in Tokens : Assignment(s) \/ InvalidName(s)
  \/ \E key, other \in Names : AssignmentFrom(key, other)
  \/ remove_all_var

Spec == Init /\ [][Next]_vars

---------------------------------------------------------------------------
(* Properties. *)

TypeOK ==
  /\ nodes \in Seq(Nodes)
  /\ pc \in {"prompt", "exited"}
  /\ stored \in {<<>>} \cup (Names \X Values)

(* The strengthening of UniqueKeys: the newer key is not a prefix.         *)
NewerNotPrefix ==
  \A i, j \in 1 .. Len(nodes) : i < j => ~KeyMatches(i, nodes[j].key)

(* No name has two nodes: a second one would hide the first for good and   *)
(* keep its value in memory (variables.c:101-117).  The loop compares      *)
(* prefixes, so this rests on a stronger fact: a newer key is never a      *)
(* prefix of an older one.                                                 *)
UniqueKeys ==
  \A i, j \in 1 .. Len(nodes) : nodes[i].key = nodes[j].key => i = j

IsPrefixOf(k, l) == Len(k) <= Len(l) /\ SubSeq(l, 1, Len(k)) = k

(* The names of which the user has no other that begins with the name, or  *)
(* that the name begins with.                                              *)
Separate ==
  {n \in Names : \A m \in Names : IsPrefixOf(m, n) \/ IsPrefixOf(n, m) => m = n}

StoredSeparate == IF stored \in Separate \X Values THEN stored ELSE <<>>

(* On the separate names the list implements Environment: an assignment    *)
(* that is stored changes the value of its own name and of no other, also  *)
(* when the rest of the names overwrite one another (variables.c:94-138).  *)
E == INSTANCE Environment WITH Names <- Separate, last <- StoredSeparate,
                               env <- [n \in Separate |-> find_val_with_key(n)]
EnvironmentSpec == E!Spec
============================================================================
