---------------------------- MODULE ChatServer ----------------------------
(***************************************************************************)
(* The chat server: run_server() with accept_connection(), the helpers of  *)
(* chat_helpers.c and the framing of socket.c.  The server is one process  *)
(* with one select() loop and blocking sockets; the peers connect, send,   *)
(* read, close and reset while it is in the middle of a round, so a step   *)
(* of the model ends wherever the server makes a system call whose result  *)
(* depends on a peer.                                                      *)
(*                                                                         *)
(* A connection, its descriptor and its node in the linked list are one    *)
(* value of Clients.  The byte stream of a peer is a sequence of segments: *)
(* "part" holds no CRLF, "chat" and "connected" are the bytes that         *)
(* complete a chat message or the request \connected.                      *)
(***************************************************************************)
EXTENDS Naturals, Sequences, SequencesExt, FiniteSetsExt

CONSTANTS
  Clients,      \* connections the peers may open
  NULL,
  Sends,        \* kinds of segment the peers send
  MaxSegments,  \* segments all peers send together (bound of the model)
  BufCap,       \* segments that fit in client_socket.buf
  SockCap,      \* messages a peer may leave unread before a write to it blocks
  Sigint        \* TRUE: Ctrl-C in the terminal reaches the server too

Kinds == {"part", "chat", "connected"}

ASSUME ClientsAssumption == NULL \notin Clients
ASSUME BoundsAssumption == MaxSegments \in Nat /\ BufCap \in Nat \ {0} /\ SockCap \in Nat \ {0}
ASSUME SendsAssumption == Sends \subseteq Kinds
ASSUME SigintAssumption == Sigint \in BOOLEAN

VARIABLES
  pc,           \* "select", "read", "drain", "send"; "uaf" after the sanitizer's abort
  clients,      \* the linked list, head first
  username,     \* curr->username: NULL is 0, "client<n>" is n
  buf,          \* client_socket.buf
  client_id, client_connected, all_fds, listen_fds,
  curr, dest,   \* the two cursors into the list
  conn,         \* "none", "open", "fin" and "reset" by the peer, "closed" by the server
  backlog,      \* connections not accepted yet
  in,           \* bytes sent by the peer that the server has not read
  unread,       \* messages written to the peer that it has not read
  sent,         \* segments and chat messages sent by the peer
  log,          \* history: chat messages <<sender, n>> in the order of broadcast
  joined,       \* history: length of log when the connection was accepted
  got           \* history: positions in log of the messages written to the peer, those
                \* included whose write a Ctrl-C has cut off

server == <<pc, clients, username, buf, client_id, client_connected, all_fds, listen_fds, curr, dest>>
peers == <<conn, backlog, in, unread, sent>>
history == <<log, joined, got>>
vars == <<server, peers, history>>

Segments == [kind : Kinds, n : Nat]

TypeOK ==
  /\ pc \in {"select", "read", "drain", "send", "uaf"}
  /\ clients \in Seq(Clients) /\ backlog \in Seq(Clients)
  /\ username \in [Clients -> Nat]
  /\ buf \in [Clients -> Seq(Segments)] /\ in \in [Clients -> Seq(Segments)]
  /\ client_id \in Nat /\ client_connected \in Nat
  /\ all_fds \subseteq Clients /\ listen_fds \subseteq Clients
  /\ curr \in Clients \cup {NULL} /\ dest \in Clients \cup {NULL}
  /\ conn \in [Clients -> {"none", "open", "fin", "reset", "closed"}]
  /\ unread \in [Clients -> 0 .. SockCap]
  /\ sent \in [Clients -> [segments : Nat, chats : Nat]]
  /\ log \in Seq(Clients \X Nat)
  /\ joined \in [Clients -> Nat] /\ got \in [Clients -> Seq(Nat)]

Init ==
  /\ pc = "select"
  /\ clients = <<>> /\ backlog = <<>> /\ log = <<>>
  /\ username = [c \in Clients |-> 0]
  /\ buf = [c \in Clients |-> <<>>] /\ in = [c \in Clients |-> <<>>]
  /\ client_id = 0 /\ client_connected = 0
  /\ all_fds = {} /\ listen_fds = {}
  /\ curr = NULL /\ dest = NULL
  /\ conn = [c \in Clients |-> "none"]
  /\ unread = [c \in Clients |-> 0]
  /\ sent = [c \in Clients |-> [segments |-> 0, chats |-> 0]]
  /\ joined = [c \in Clients |-> 0] /\ got = [c \in Clients |-> <<>>]

---------------------------------------------------------------------------
(* The linked list. *)

InList(c) == Contains(clients, c)
IndexOf(c) == CHOOSE i \in DOMAIN clients : clients[i] = c
First(list) == IF list = <<>> THEN NULL ELSE Head(list)
next(c) == IF IndexOf(c) = Len(clients) THEN NULL ELSE clients[IndexOf(c) + 1]

(* x_faulty is a variant of x with a plausible programming error;          *)
(* PROJECT.json says which property each one breaks.                       *)
AfterRemoval_faulty(c) == IF next(c) = NULL THEN NULL ELSE next(next(c))

(* What remove_client() leaves in the cursor it is given. *)
AfterRemoval(c) == next(c)

remove_client(c) == clients' = RemoveAt(clients, IndexOf(c))

(* close() and FD_CLR() of a descriptor. *)
CloseFd_faulty(c) ==
  /\ conn' = [conn EXCEPT ![c] = "closed"]
  /\ UNCHANGED all_fds

CloseFd(c) ==
  /\ conn' = [conn EXCEPT ![c] = "closed"]
  /\ all_fds' = all_fds \ {c}

(* The loop over the clients moves on to the first descriptor in ready at  *)
(* position i or later; when there is none the round is over, and the      *)
(* descriptors it left in listen_fds are dead.                             *)
Proceed(list, ready, i) ==
  LET ahead == {j \in i .. Len(list) : list[j] \in ready} IN
    IF ahead = {}
    THEN pc' = "select" /\ curr' = NULL /\ listen_fds' = {}
    ELSE pc' = "read" /\ curr' = list[Min(ahead)] /\ listen_fds' = ready

---------------------------------------------------------------------------
(* select() and accept_connection(): one round starts. *)

Readable(c) == in[c] # <<>> \/ conn[c] \in {"fin", "reset"}

accept_connection_faulty(c) ==
  /\ backlog' = Tail(backlog)
  /\ clients' = Append(clients, c)
  /\ all_fds' = all_fds
  /\ client_connected' = client_connected + 1
  /\ joined' = [joined EXCEPT ![c] = Len(log)]

accept_connection_uncounted(c) ==
  /\ backlog' = Tail(backlog)
  /\ clients' = Append(clients, c)
  /\ all_fds' = all_fds \cup {c}
  /\ client_connected' = client_connected
  /\ joined' = [joined EXCEPT ![c] = Len(log)]

accept_connection(c) ==
  /\ backlog' = Tail(backlog)
  /\ clients' = Append(clients, c)
  /\ all_fds' = all_fds \cup {c}
  /\ client_connected' = client_connected + 1
  /\ joined' = [joined EXCEPT ![c] = Len(log)]

(* The descriptor of a client accepted in this round is not in listen_fds. *)
Select ==
  /\ pc = "select"
  /\ LET ready == {c \in all_fds : Readable(c)} IN
       /\ \/ backlog # <<>> /\ accept_connection(Head(backlog))
          \/ /\ backlog = <<>> /\ ready # {}
             /\ UNCHANGED <<backlog, clients, all_fds, client_connected, joined>>
       /\ Proceed(clients', ready, 1)
  /\ UNCHANGED <<username, buf, client_id, dest, conn, in, unread, sent, log, got>>

---------------------------------------------------------------------------
(* The loop over the clients. *)

(* Position of the first segment that ends in a CRLF, 0 for the code's -1. *)
find_network_newline(b) == SelectInSeq(b, LAMBDA s : s.kind # "part")

(* set_username(curr, ++client_id), for a client that has no name yet. *)
set_username_faulty(c) ==
  /\ client_id' = client_id
  /\ username' = [username EXCEPT ![c] = IF @ = 0 THEN client_id + 1 ELSE @]

set_username(c) ==
  IF username[c] = 0
  THEN client_id' = client_id + 1 /\ username' = [username EXCEPT ![c] = client_id + 1]
  ELSE UNCHANGED <<client_id, username>>

(* read_from_client() returns 0 or 2: one read() takes some of the bytes   *)
(* that are there, as many as fit.                                         *)
ReadBytes ==
  /\ pc = "read"
  /\ \E k \in 1 .. Len(in[curr]) :
       /\ Len(buf[curr]) + k <= BufCap
       /\ LET newbuf == buf[curr] \o SubSeq(in[curr], 1, k) IN
            /\ buf' = [buf EXCEPT ![curr] = newbuf]
            /\ in' = [in EXCEPT ![curr] = SubSeq(@, k + 1, Len(@))]
            /\ \/ /\ find_network_newline(newbuf) # 0
                  /\ set_username(curr)
                  /\ pc' = "drain"
                  /\ UNCHANGED <<curr, listen_fds>>
               \/ /\ find_network_newline(newbuf) = 0
                  /\ Proceed(clients, listen_fds, IndexOf(curr) + 1)
                  /\ UNCHANGED <<client_id, username>>
  /\ UNCHANGED <<clients, client_connected, all_fds, dest, conn, backlog, unread, sent, history>>

(* read_from_client() returns 1 or -1: end of file, a reset, or no room    *)
(* left in the buffer, where read() is asked for 0 bytes.                  *)
Disconnect ==
  /\ pc = "read"
  /\ in[curr] = <<>> \/ Len(buf[curr]) = BufCap
  /\ CloseFd(curr)
  /\ client_connected' = client_connected - 1
  /\ remove_client(curr)
  /\ Proceed(clients', listen_fds, IndexOf(curr))
  /\ UNCHANGED <<username, buf, client_id, dest, backlog, in, unread, sent, history>>

---------------------------------------------------------------------------
(* The loop over the complete messages of one client. *)

Message == buf[curr][find_network_newline(buf[curr])]

get_message_faulty ==
  LET newline == find_network_newline(buf[curr]) IN
    newline # 0 /\ buf' = [buf EXCEPT ![curr] = <<>>]

(* get_message() succeeds and moves the rest of the buffer to the front. *)
get_message ==
  LET newline == find_network_newline(buf[curr]) IN
    newline # 0 /\ buf' = [buf EXCEPT ![curr] = SubSeq(@, newline + 1, Len(@))]

DrainEnds_faulty ==
  /\ pc = "drain"
  /\ Proceed(clients, listen_fds, IndexOf(curr) + 1)
  /\ UNCHANGED <<clients, username, buf, client_id, client_connected, all_fds, dest, peers,
                 history>>

DrainEnds ==
  /\ pc = "drain" /\ find_network_newline(buf[curr]) = 0
  /\ Proceed(clients, listen_fds, IndexOf(curr) + 1)
  /\ UNCHANGED <<clients, username, buf, client_id, client_connected, all_fds, dest, peers,
                 history>>

(* write_to_socket(): a write to a peer that has closed succeeds, and is   *)
(* answered with a reset sooner or later; a write to a peer that does not  *)
(* read blocks.                                                            *)
CanWrite(c) == conn[c] = "fin" \/ (conn[c] = "open" /\ unread[c] < SockCap)
Blocked(c) == conn[c] = "open" /\ unread[c] = SockCap

WriteTo(c) ==
  /\ \E answer \in IF conn[c] = "fin" THEN {"fin", "reset"} ELSE {"open"} :
       conn' = [conn EXCEPT ![c] = answer]
  /\ unread' = [unread EXCEPT ![c] = IF conn[c] = "open" THEN @ + 1 ELSE @]

(* The request \connected: the count goes to the one client that asked,    *)
(* and the result of the write is ignored.                                 *)
ReplyCount ==
  /\ pc = "drain"
  /\ get_message /\ Message.kind = "connected"
  /\ \/ CanWrite(curr) /\ WriteTo(curr)
     \/ conn[curr] = "reset" /\ UNCHANGED <<conn, unread>>
  /\ UNCHANGED <<pc, clients, username, client_id, client_connected, all_fds, listen_fds, curr,
                 dest, backlog, in, sent, history>>

ReplyInterrupted ==
  /\ pc = "drain"
  /\ get_message /\ Message.kind = "connected"
  /\ Blocked(curr) /\ Sigint
  /\ UNCHANGED <<pc, clients, username, client_id, client_connected, all_fds, listen_fds, curr,
                 dest, peers, history>>

StartBroadcast ==
  /\ pc = "drain"
  /\ get_message /\ Message.kind = "chat"
  /\ log' = Append(log, <<curr, Message.n>>)
  /\ dest' = First(clients)
  /\ pc' = "send"
  /\ UNCHANGED <<clients, username, client_id, client_connected, all_fds, listen_fds, curr,
                 peers, joined, got>>

---------------------------------------------------------------------------
(* The loop that sends one message to every client. *)

Freed(c) == ~InList(c)

Sending == pc = "send" /\ dest # NULL

SendTo ==
  /\ Sending /\ CanWrite(dest)
  /\ WriteTo(dest)
  /\ got' = [got EXCEPT ![dest] = IF conn[dest] = "open" THEN Append(@, Len(log)) ELSE @]
  /\ dest' = next(dest)
  /\ UNCHANGED <<pc, clients, username, buf, client_id, client_connected, all_fds, listen_fds,
                 curr, backlog, in, sent, log, joined>>

(* write() fails with EINTR, write_buf_to_client() returns 1: the client   *)
(* stays, without the message.  The error text reads curr->username.       *)
SendInterrupted ==
  /\ Sending /\ Blocked(dest) /\ Sigint
  /\ \/ Freed(curr) /\ pc' = "uaf" /\ UNCHANGED <<dest, got>>
     \/ /\ ~Freed(curr)
        /\ dest' = next(dest)
        /\ got' = [got EXCEPT ![dest] = Append(@, Len(log))]
        /\ UNCHANGED pc
  /\ UNCHANGED <<clients, username, buf, client_id, client_connected, all_fds, listen_fds, curr,
                 peers, log, joined>>

(* write() fails with EPIPE or ECONNRESET, write_buf_to_client() returns   *)
(* 2: the client is removed, be it curr itself; client_connected is not    *)
(* adjusted.                                                               *)
SendFails ==
  /\ Sending /\ conn[dest] = "reset"
  /\ \/ /\ Freed(curr)
        /\ pc' = "uaf"
        /\ UNCHANGED <<clients, all_fds, dest, conn>>
     \/ /\ ~Freed(curr)
        /\ CloseFd(dest)
        /\ remove_client(dest)
        /\ dest' = AfterRemoval(dest)
        /\ UNCHANGED pc
  /\ UNCHANGED <<username, buf, client_id, client_connected, listen_fds, curr, backlog, in,
                 unread, sent, history>>

(* "After sending message, print it to server shell": reads curr again. *)
BroadcastEnds ==
  /\ pc = "send" /\ dest = NULL
  /\ pc' = IF Freed(curr) THEN "uaf" ELSE "drain"
  /\ UNCHANGED <<clients, username, buf, client_id, client_connected, all_fds, listen_fds, curr,
                 dest, peers, history>>

---------------------------------------------------------------------------
(* The peers. *)

PeerConnects(c) ==
  /\ conn[c] = "none"
  /\ conn' = [conn EXCEPT ![c] = "open"]
  /\ backlog' = Append(backlog, c)
  /\ UNCHANGED <<server, in, unread, sent, history>>

SegmentsSent == MapThenSumSet(LAMBDA d : sent[d].segments, Clients)

PeerSends(c, kind) ==
  /\ conn[c] = "open"
  /\ SegmentsSent < MaxSegments
  /\ LET chats == sent[c].chats + IF kind = "chat" THEN 1 ELSE 0 IN
       /\ in' = [in EXCEPT ![c] = Append(@, [kind |-> kind, n |-> chats])]
       /\ sent' = [sent EXCEPT ![c] = [segments |-> @.segments + 1, chats |-> chats]]
  /\ UNCHANGED <<server, conn, backlog, unread, history>>

PeerReads(c) ==
  /\ conn[c] = "open" /\ unread[c] > 0
  /\ unread' = [unread EXCEPT ![c] = @ - 1]
  /\ UNCHANGED <<server, conn, backlog, in, sent, history>>

(* close() with unread input resets the connection. *)
PeerCloses(c) ==
  /\ conn[c] = "open"
  /\ conn' = [conn EXCEPT ![c] = IF unread[c] > 0 THEN "reset" ELSE "fin"]
  /\ UNCHANGED <<server, backlog, in, unread, sent, history>>

---------------------------------------------------------------------------
run_server ==
  \/ Select \/ ReadBytes \/ Disconnect
  \/ DrainEnds \/ ReplyCount \/ StartBroadcast
  \/ SendTo \/ SendFails \/ BroadcastEnds

Peer(c) ==
  \/ PeerConnects(c) \/ PeerReads(c) \/ PeerCloses(c)
  \/ \E kind \in Sends : PeerSends(c, kind)

Next ==
  \/ run_server
  \/ SendInterrupted \/ ReplyInterrupted
  \/ \E c \in Clients : Peer(c)

Spec == Init /\ [][Next]_vars

---------------------------------------------------------------------------
(* Properties. *)

Alive == pc # "uaf"

(* Both ways out of the list, a closed connection and a failed broadcast,  *)
(* keep the list and the descriptor set of select() together: no           *)
(* descriptor is watched without a node, no node is left unwatched, and no *)
(* node is linked twice (server.c:242-247, 265-269).                       *)
FdsMatchList ==
  Alive => /\ all_fds = ToSet(clients)
           /\ \A i, j \in DOMAIN clients : clients[i] = clients[j] => i = j
           /\ \A c \in all_fds : conn[c] # "closed"

(* A message is never broadcast for a client that has no name yet, and no  *)
(* two clients ever have the same name (server.c:189-194, 220).            *)
NamesOK ==
  /\ pc \in {"drain", "send"} => username[curr] # 0
  /\ \A c, d \in Clients : username[c] = username[d] /\ username[c] # 0 => c = d

(* When the server goes back to select() no complete message is left in a  *)
(* buffer, where it would wait until its client sends something more       *)
(* (server.c:198).                                                         *)
NothingStuck ==
  pc = "select" => \A c \in ToSet(clients) : find_network_newline(buf[c]) = 0

(* The numbers of the messages of c in the log l, followed by those of the *)
(* messages in its stream, are 1, 2, 3, ... up to chats.                   *)
Numbered(c, l, stream, chats) ==
  LET logged  == {i \in DOMAIN l : l[i][1] = c}
      waiting == {i \in DOMAIN stream : stream[i].kind = "chat"}
  IN  /\ \A i, j \in logged : i < j => l[i][2] < l[j][2]
      /\ \A i, j \in waiting : i < j => stream[i].n < stream[j].n
      /\ \A i \in logged, j \in waiting : l[i][2] < stream[j].n
      /\ {l[i][2] : i \in logged} \cup {stream[j].n : j \in waiting} = 1 .. chats

(* However the stream of a client is cut into reads, each of its messages  *)
(* is broadcast once and in order: what was broadcast, what is buffered    *)
(* and what is unread together are what it sent (socket.c:65-121).         *)
FramingExact ==
  \A c \in Clients : conn[c] # "closed" =>
    Numbered(c, log, buf[c] \o in[c], sent[c].chats)

(* "Accept incoming messages from clients, and send to all other connected *)
(* clients" (server.c:168-171): between two rounds a connected client has  *)
(* been sent every message of the others since it was accepted, each once  *)
(* and in the order of the broadcasts; the only one it may miss is one     *)
(* whose write to this very client was cut off by a Ctrl-C.                *)
NoGaps ==
  pc = "select" => \A c \in ToSet(clients) : conn[c] = "open" =>
    /\ \A j, k \in DOMAIN got[c] : j < k => got[c][j] < got[c][k]
    /\ {i \in ToSet(got[c]) : log[i][1] # c}
         = {i \in joined[c] + 1 .. Len(log) : log[i][1] # c}

(* remove_client() is to "update curr pointer" (chat_helpers.c:64): the    *)
(* loop over the clients never goes on with a node that was freed.         *)
NoUseAfterFree == pc # "uaf"
===========================================================================
