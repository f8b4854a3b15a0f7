----------------------------- MODULE MCVarList -----------------------------
(* Instances of VarList for TLC. *)
EXTENDS VarList

MCLetters == {"a", "b", "_"}
MCDigits == {"1"}

Assign(key, value) == key \o <<Equals>> \o value

SomeValues == {<<>>, <<"1">>, <<"a", "=">>}

(* a is a prefix of a1; bb and _1 are separate names; 1a and the empty     *)
(* name are invalid.                                                       *)
MCTokens ==
  {Assign(key, value) : key \in {<<"a">>, <<"a", "1">>, <<"b", "b">>, <<"_", "1">>,
                                 <<"1", "a">>, <<>>},
                        value \in SomeValues}
============================================================================
