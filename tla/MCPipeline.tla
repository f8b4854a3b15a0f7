---------------------------- MODULE MCPipeline ----------------------------
(* Instances of Pipeline for TLC. *)
EXTENDS Pipeline, Integers, SequencesExt

Words == {"echo", "cat", "wc", "yes", "x"}

CONSTANT MaxTokens

(* The words behind the first of a command are its arguments; which ones   *)
(* does not matter, and one line has them in one command only.             *)
Arguments(t) == {k \in 2 .. Len(t) : t[k] # Bar /\ t[k - 1] # Bar}

MCLines ==
  {t \in BoundedSeq(Words \cup {Bar}, MaxTokens) :
     /\ Contains(t, Bar)
     /\ \A k, l \in Arguments(t) : t[k] = "x" /\ k - l \in {0, 1, -1}}
===========================================================================
