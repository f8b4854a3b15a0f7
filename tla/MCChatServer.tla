--------------------------- MODULE MCChatServer ---------------------------
(* Instances of ChatServer for TLC. *)
EXTENDS ChatServer, TLC

(* Connections are only compared for equality. *)
ClientSymmetry == Permutations(Clients)
===========================================================================
