--------------------------- MODULE MCExpansion ----------------------------
(* Instances of Expansion for TLC. *)
EXTENDS Expansion

(* Names a and b, the unknown name c, and longer unknown ones. *)
MCInputs == BoundedSeq(Chars, MaxStr)

MCValues == {<<>>, <<"a">>, <<"a", "b", "a">>, <<"b", "b", "a", "b">>, <<Dollar>>, <<Dollar, "a">>}

MCEnvs == [{<<"a">>, <<"b">>} -> MCValues]
============================================================================
