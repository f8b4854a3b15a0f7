---------------------------- MODULE ChatSystem ----------------------------
(***************************************************************************)
(* The chat server together with the shell's own client in the place of    *)
(* the abstract peers: the loop of bn_start_client() with its blocking     *)
(* write, over sockets that hold a bounded amount in either direction.     *)
(* What the client does with its terminal, with Ctrl-C and when the server *)
(* is gone is in Terminal; here a user types a line or leaves, or uses the *)
(* builtin send instead, and nobody presses Ctrl-C in the terminal of the  *)
(* server (ChatServer has that).                                           *)
(***************************************************************************)
EXTENDS ChatServer

CONSTANT InCap   \* segments the server may leave unread before a write to it blocks

ASSUME InCapAssumption == InCap \in Nat \ {0}

(* The client sends all kinds of segment, and a message of its, in up to   *)
(* two segments, fits into the buffer of the server.                       *)
ASSUME ClientAssumption == Sends = Kinds /\ BufCap >= 2

VARIABLES
  cpc,     \* of each client: "shell", "select", "write", "rest" of a message, "socket"; "send",
           \* "close" of bn_send(); "gone"
  typed,   \* lines typed for each client that it has not sent completely
  ready    \* clients whose last select() found the socket readable

clientVars == <<cpc, typed, ready>>
sysVars == <<vars, clientVars>>

SysInit ==
  /\ Init
  /\ cpc = [c \in Clients |-> "shell"]
  /\ typed = [c \in Clients |-> 0]
  /\ ready = {}

---------------------------------------------------------------------------
(* The client. *)

(* Bounds of the model: one line is typed ahead, and there is room for two *)
(* segments for every line.                                                *)
MayType == SegmentsSent + 2 * (1 + MapThenSumSet(LAMBDA d : typed[d], Clients)) <= MaxSegments

UserTypes(c) ==
  /\ cpc[c] = "select" /\ typed[c] = 0 /\ MayType
  /\ typed' = [typed EXCEPT ![c] = 1]
  /\ UNCHANGED <<vars, cpc, ready>>

connect_to_server(c) ==
  /\ cpc[c] = "shell"
  /\ PeerConnects(c)
  /\ cpc' = [cpc EXCEPT ![c] = "select"]
  /\ UNCHANGED <<typed, ready>>

SockReadable(c) == unread[c] > 0

(* The terminal is served before the socket. *)
ClientSelect(c) ==
  /\ cpc[c] = "select"
  /\ typed[c] > 0 \/ SockReadable(c)
  /\ ready' = IF SockReadable(c) THEN ready \cup {c} ELSE ready \ {c}
  /\ cpc' = [cpc EXCEPT ![c] = IF typed[c] > 0 THEN "write" ELSE "socket"]
  /\ UNCHANGED <<vars, typed>>

AfterWrite(c) == IF c \in ready THEN "socket" ELSE "select"

(* x_faulty is a variant of x with a plausible programming error;          *)
(* PROJECT.json says which property each one breaks.                       *)
MayCut_faulty(c) == TRUE

(* A message of the client has MAX_USER_MSG characters and a CRLF at most, *)
(* that is two segments, and so has the buffer of the server.              *)
MayCut(c) == cpc[c] = "write"

(* write_to_socket(): all of the message at once, or a first part of it    *)
(* and the rest when there is room.                                        *)
ClientWrites(c) ==
  /\ cpc[c] \in {"write", "rest"}
  /\ Len(in[c]) < InCap
  /\ \/ /\ MayCut(c) /\ PeerSends(c, "part")
        /\ cpc' = [cpc EXCEPT ![c] = "rest"]
        /\ UNCHANGED typed
     \/ /\ \E kind \in {"chat", "connected"} : PeerSends(c, kind)
        /\ cpc' = [cpc EXCEPT ![c] = AfterWrite(c)]
        /\ typed' = [typed EXCEPT ![c] = 0]
  /\ UNCHANGED ready

ClientReads(c) ==
  /\ cpc[c] = "socket" /\ unread[c] > 0
  /\ PeerReads(c)
  /\ cpc' = [cpc EXCEPT ![c] = "select"]
  /\ UNCHANGED <<typed, ready>>

(* Ctrl-C or Ctrl-D. *)
ClientLeaves(c) ==
  /\ cpc[c] \in {"select", "write", "rest", "socket"}
  /\ PeerCloses(c)
  /\ cpc' = [cpc EXCEPT ![c] = "gone"]
  /\ UNCHANGED <<typed, ready>>

(* bn_send(): one message, with its words cut to MAX_USER_MSG characters,  *)
(* in one write(), and nothing is read.                                    *)
SendConnects(c) ==
  /\ cpc[c] = "shell" /\ MayType
  /\ PeerConnects(c)
  /\ cpc' = [cpc EXCEPT ![c] = "send"]
  /\ typed' = [typed EXCEPT ![c] = 1]
  /\ UNCHANGED ready

SendWrites(c) ==
  /\ cpc[c] = "send"
  /\ \E kind \in {"chat", "connected"} : PeerSends(c, kind)
  /\ cpc' = [cpc EXCEPT ![c] = "close"]
  /\ typed' = [typed EXCEPT ![c] = 0]
  /\ UNCHANGED ready

SendCloses(c) ==
  /\ cpc[c] = "close"
  /\ PeerCloses(c)
  /\ cpc' = [cpc EXCEPT ![c] = "gone"]
  /\ UNCHANGED <<typed, ready>>

bn_send(c) == SendWrites(c) \/ SendCloses(c)

bn_start_client(c) == ClientSelect(c) \/ ClientWrites(c) \/ ClientReads(c)

SysNext ==
  \/ run_server /\ UNCHANGED clientVars
  \/ \E c \in Clients :
       \/ UserTypes(c) \/ connect_to_server(c) \/ bn_start_client(c) \/ ClientLeaves(c)
       \/ SendConnects(c) \/ bn_send(c)

SysSpec == SysInit /\ [][SysNext]_sysVars

(* The server process and the client processes keep running. *)
FairSysSpec ==
  /\ SysSpec
  /\ WF_sysVars(run_server /\ UNCHANGED clientVars)
  /\ \A c \in Clients : WF_sysVars(bn_start_client(c)) /\ WF_sysVars(bn_send(c))

---------------------------------------------------------------------------
(* Properties. *)

(* The server never closes the connection of a client that is still there: *)
(* however its messages are cut on the way, what the client puts between   *)
(* two CRLFs fits into the buffer of the server, where a full buffer is    *)
(* taken for the end of the connection (builtins.c:859-887, socket.c:69).  *)
NeverThrownOut == \A c \in Clients : conn[c] = "closed" => cpc[c] = "gone"

(* The server is blocked in a write to a client that is blocked in a write *)
(* to the server.                                                          *)
MutualWait(c) ==
  /\ Blocked(c)
  /\ \/ pc = "send" /\ dest = c
     \/ /\ pc = "drain" /\ curr = c
        /\ find_network_newline(buf[c]) # 0 /\ Message.kind = "connected"
  /\ cpc[c] \in {"write", "rest"} /\ Len(in[c]) >= InCap

(* A line that was typed reaches the server and is served, and this for    *)
(* all clients at once: the only thing that stops the service are a client *)
(* and the server that wait for each other in write(), which takes as many *)
(* unread bytes as both sockets hold (server.c:229, builtins.c:887).       *)
LinesServed ==
  \A c \in Clients :
    (typed[c] > 0 \/ in[c] # <<>>)
      ~> \/ typed[c] = 0 /\ in[c] = <<>>
         \/ cpc[c] = "gone" \/ ~Alive
         \/ \E d \in Clients : MutualWait(d)
===========================================================================
