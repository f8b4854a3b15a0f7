------------------------------ MODULE MCFiles ------------------------------
(* Instances of Files for TLC. *)
EXTENDS Files

Abs(parts) == [abs |-> TRUE, parts |-> parts]

(* Lines shorter and longer than the buffer, blanks at either end, '\0'.   *)
Texts ==
  {<<>>, <<"x">>, <<"x", NL>>, <<NL, "x", "y", "x", NL>>, <<Space, "x", Space, NL, "x">>,
   <<"x", "y", "z", "y", "x", "z", "y", NL, "z">>, <<"x", Nul, "x", NL, "x">>,
   <<NL, NL, Space, Space>>, <<"x", NL, "y", NL, "y", "x">>}

(* A tree with the same names on several levels, and one of a single path. *)
Bushy == {<<>>, <<"a">>, <<"a", "b">>, <<"b">>, <<"b", "a">>, <<"b", "a", "b">>}
Deep == {<<>>, <<"a">>, <<"a", "a">>, <<"a", "a", "ab">>}

MCTrees ==
  {[dirs |-> Deep, text |-> [f \in {<<"a", "a", "x">>} |-> s]] : s \in Texts}
  \cup {[dirs |-> Bushy, text |-> [f \in {<<"x">>, <<"b", "a", "ab">>} |-> <<"x">>]]}

MCValue == [v \in {"$d", "$p", "$e", "$r"} |->
              CASE v = "$d" -> Rel(<<"...">>) [] v = "$p" -> Rel(<<"a", "b">>)
                [] v = "$e" -> Rel(<<>>) [] v = "$r" -> Abs(<<"b", "">>)]

MCNumber == [t \in {"", "0", "1", "2", "4294967295"} |->
               CASE t \in {"", "0"} -> 0 [] t = "1" -> 1 [] t = "2" -> 2 [] t = "4294967295" -> -1]

MCstrstr == [s \in {"a", "b", ".", "0", "1", "2", "4294967295"} |->
  CASE s = "a" -> {"a", "ab"} [] s = "b" -> {"b", "ab"} [] s = "." -> {".", ".."} [] OTHER -> {}]

Words == {"--f", "--d", "--rec", "--recs", "", "0", "1", "2", "4294967295", "a", "b", "."}

MCPathOf == [t \in Words |-> IF t = "" THEN Rel(<<>>) ELSE Rel(<<t>>)]

(* Every line of up to three words, and every order of up to three options. *)
Options == {<<"--rec">>, <<"--d", "0">>, <<"--d", "2">>, <<"--f", "a">>, <<"--f", "b">>, <<"b">>}

MCLsArgs == BoundedSeq(Words, 3) \cup {FlattenSeq(s) : s \in BoundedSeq(Options, 3)}

Parts == {"", "a", "b", "x", "..", "...", "....", "$d"}

MCPaths ==
  {Abs(s) : s \in BoundedSeq({"", "a", "...", "$r"}, 2)}
  \cup {Rel(s) : s \in {z \in BoundedSeq(Parts, 2) : z = <<>> \/ z[1] # ""} \cup
                       {<<"b", "a", c>> : c \in Parts} \cup
                       {<<"$p">>, <<"$e">>, <<"$e", "">>, <<"$e", "a">>, <<"a", "a", "x">>,
                        <<"..", "$p">>, <<"$r">>, <<"$r", "a">>, <<"$d", "$r">>}}
============================================================================
