----------------------------- MODULE Terminal -----------------------------
(***************************************************************************)
(* The terminal of the shell and its two readers: get_input(), which uses  *)
(* read() and, for the rest of a line that is too long, getchar(); and the *)
(* loop of bn_start_client(), which uses select() and fgets().  getchar()  *)
(* and fgets() go through the buffer of stdin, which read() and select()   *)
(* know nothing of, and Ctrl-C may come at any moment of it all.           *)
(*                                                                         *)
(* A line is its length, the newline included.  Of the first line in the   *)
(* queue some characters may have been read, and some of those still there *)
(* may sit in the buffer of stdin.  A line of length 0 is Ctrl-D: read()   *)
(* returns 0.                                                              *)
(***************************************************************************)
EXTENDS Naturals, Sequences

CONSTANTS
  MaxStr,    \* MAX_STR_LEN
  MaxMsg,    \* MAX_USER_MSG
  Block,     \* size of the buffer of stdin
  Lengths,   \* lengths of the lines the user types
  MaxLines   \* lines the user types ahead (bound of the model)

ASSUME SizesAssumption ==
  MaxStr \in Nat \ {0} /\ MaxMsg \in Nat \ {0} /\ Block \in Nat \ {0} /\ MaxLines \in Nat \ {0}
ASSUME LengthsAssumption == Lengths \subseteq Nat

VARIABLES
  pc,         \* "prompt", "execute", "junk"; "connect", "top", "select", "stdin", "write",
              \* "socket" of bn_start_client(); "exited"
  tty,        \* the lines typed and not read to their end
  buffered,   \* characters of the first line that are in the buffer of stdin
  feof,       \* the end of file indicator of stdin
  handler,    \* the handler of SIGINT: "shell" or "client"
  old_sa,     \* the handler bn_start_client() saved
  disconnect_client,
  has_unread_data,
  fdset,      \* what select() found ready: "stdin", "sock"
  sock,       \* "closed", "quiet", "data" to read, "eof" when the server has closed,
              \* "reset" when it has answered to a write after that, or closed with data unread
  line,       \* history: the length of the line the shell or the client works on
  pieces,     \* history: lengths of the messages that line has been sent in
  whole,      \* history: the line came to the shell in one piece
  unrestored, \* history: a connect failed since the handler was last restored
  why         \* history: what made the shell exit

client == <<handler, old_sa, disconnect_client, has_unread_data, fdset, sock, unrestored>>
vars == <<pc, tty, buffered, feof, client, line, pieces, whole, why>>

Chunks == [len : Nat, left : Nat]

ClientPcs == {"top", "select", "stdin", "write", "socket"}

TypeOK ==
  /\ pc \in {"prompt", "execute", "junk", "connect", "exited"} \cup ClientPcs
  /\ tty \in Seq(Chunks)
  /\ buffered \in 0 .. Block + 1
  /\ feof \in BOOLEAN
  /\ handler \in {"shell", "client"} /\ old_sa \in {"shell", "client"}
  /\ disconnect_client \in {0, 1} /\ has_unread_data \in {0, 1}
  /\ fdset \subseteq {"stdin", "sock"}
  /\ sock \in {"closed", "quiet", "data", "eof", "reset"}
  /\ line \in Nat /\ pieces \in Seq(Nat)
  /\ whole \in BOOLEAN /\ unrestored \in BOOLEAN
  /\ why \in {"none", "eof", "exit", "ctrl-c", "server"}

Init ==
  /\ pc = "prompt" /\ tty = <<>> /\ buffered = 0 /\ feof = FALSE
  /\ handler = "shell" /\ old_sa = "shell" /\ disconnect_client = 0
  /\ has_unread_data = 0 /\ fdset = {} /\ sock = "closed"
  /\ line = 0 /\ pieces = <<>> /\ whole = TRUE /\ unrestored = FALSE /\ why = "none"

---------------------------------------------------------------------------
(* The queue of the terminal. *)

Least(m, n) == IF m < n THEN m ELSE n

(* Takes n characters off the first line. *)
Take(n) ==
  LET rest == [Head(tty) EXCEPT !.left = @ - n]
  IN  IF rest.left = 0 THEN Tail(tty) ELSE <<rest>> \o Tail(tty)

AtEof == tty # <<>> /\ Head(tty).len = 0

HasText == tty # <<>> /\ Head(tty).len > 0

Type(len) ==
  /\ pc # "exited" /\ Len(tty) < MaxLines
  /\ tty' = Append(tty, [len |-> len, left |-> len])
  /\ UNCHANGED <<pc, buffered, feof, client, line, pieces, whole, why>>

---------------------------------------------------------------------------
(* get_input() and the commands of the shell. *)

(* x_faulty is a variant of x with a plausible programming error;          *)
(* PROJECT.json says which property each one breaks.                       *)
TooLong_faulty(n) == n >= MaxStr

TooLong(n) == n > MaxStr

(* read() of at most MAX_STR_LEN + 1 bytes. *)
get_input ==
  /\ pc = "prompt" /\ HasText
  /\ LET n == Least(Head(tty).left - buffered, MaxStr + 1) IN
       /\ tty' = Take(n)
       /\ pc' = IF TooLong(n) THEN "junk" ELSE "execute"
       /\ line' = Head(tty).len
       /\ whole' = (n = Head(tty).len)
  /\ pieces' = <<>>
  /\ UNCHANGED <<buffered, feof, client, why>>

Eof ==
  /\ pc = "prompt" /\ AtEof
  /\ pc' = "exited" /\ why' = "eof"
  /\ UNCHANGED <<tty, buffered, feof, client, line, pieces, whole>>

(* The loop stops at the newline, the last character of the line. *)
JunkEnds(n) == n = Head(tty).left

(* getchar() until the buffer of stdin is used up or the newline is found; *)
(* an empty buffer is filled from the first line there is.                 *)
Junk ==
  /\ pc = "junk" /\ HasText /\ ~feof
  /\ LET n == IF buffered > 0 THEN buffered ELSE Least(Head(tty).left, Block) IN
       /\ tty' = Take(n)
       /\ buffered' = 0
       /\ pc' = IF JunkEnds(n) THEN "prompt" ELSE "junk"
  /\ UNCHANGED <<feof, client, line, pieces, whole, why>>

(* getchar() returns EOF at Ctrl-D, and from then on. *)
JunkEof ==
  /\ pc = "junk"
  /\ \/ feof /\ UNCHANGED <<tty, feof>>
     \/ ~feof /\ AtEof /\ tty' = Tail(tty) /\ feof' = TRUE
  /\ pc' = "prompt"
  /\ UNCHANGED <<buffered, client, line, pieces, whole, why>>

(* A command that does not touch the terminal, and the empty line. *)
OtherCommand ==
  /\ pc = "execute"
  /\ pc' = "prompt"
  /\ UNCHANGED <<tty, buffered, feof, client, line, pieces, whole, why>>

Exit ==
  /\ pc = "execute"
  /\ pc' = "exited" /\ why' = "exit"
  /\ UNCHANGED <<tty, buffered, feof, client, line, pieces, whole>>

---------------------------------------------------------------------------
(* bn_start_client(): from the command line to the loop. *)

bn_start_client ==
  /\ pc = "execute"
  /\ pc' = "connect"
  /\ disconnect_client' = 0
  /\ old_sa' = handler /\ handler' = "client"
  /\ UNCHANGED <<tty, buffered, feof, has_unread_data, fdset, sock, line, pieces, whole,
                 unrestored, why>>

connect_to_server ==
  /\ pc = "connect"
  /\ pc' = "top"
  /\ sock' = "quiet" /\ has_unread_data' = 0 /\ fdset' = {}
  /\ UNCHANGED <<tty, buffered, feof, handler, old_sa, disconnect_client, line, pieces, whole,
                 unrestored, why>>

(* The handler is not put back. *)
ConnectFails ==
  /\ pc = "connect"
  /\ pc' = "prompt"
  /\ unrestored' = TRUE
  /\ UNCHANGED <<tty, buffered, feof, handler, old_sa, disconnect_client, has_unread_data, fdset,
                 sock, line, pieces, whole, why>>

(* close(), sigaction() with the saved handler, return 0. *)
Return ==
  /\ pc' = "prompt"
  /\ sock' = "closed" /\ fdset' = {}
  /\ handler' = old_sa /\ UNCHANGED unrestored

(* exit(): the shell is gone with the client. *)
ClientExit(reason) ==
  /\ pc' = "exited" /\ why' = reason
  /\ sock' = "closed"

Stay_faulty == TRUE

(* The condition of the loop. *)
Stay == disconnect_client = 0

Top ==
  /\ pc = "top"
  /\ \/ Stay /\ pc' = "select" /\ UNCHANGED <<sock, why>>
     \/ ~Stay /\ ClientExit("ctrl-c")
  /\ UNCHANGED <<tty, buffered, feof, handler, old_sa, disconnect_client, has_unread_data, fdset,
                 line, pieces, whole, unrestored>>

SockReady == sock \in {"data", "eof", "reset"}

Watched_faulty == IF pieces = <<>> THEN {"stdin", "sock"} ELSE {"sock"}

(* With a rest of a line in the buffer of stdin select() only polls the    *)
(* socket; otherwise it waits for either.                                  *)
Watched == IF has_unread_data = 0 THEN {"stdin", "sock"} ELSE {"sock"}

Select ==
  /\ pc = "select"
  /\ fdset' = {f \in Watched : IF f = "sock" THEN SockReady ELSE tty # <<>>}
  /\ has_unread_data = 1 \/ fdset' # {}
  /\ pc' = IF has_unread_data = 1 \/ "stdin" \in fdset' THEN "stdin" ELSE "socket"
  /\ UNCHANGED <<tty, buffered, feof, handler, old_sa, disconnect_client, has_unread_data, sock,
                 line, pieces, whole, unrestored, why>>

---------------------------------------------------------------------------
(* The part of the loop that reads the terminal. *)

(* Characters that one fgets() leaves in the buffer of stdin: it fills the *)
(* buffer, a block at a time, until it has n characters.                   *)
BufferedAfter(n) ==
  IF n <= buffered THEN buffered - n
  ELSE LET blocks == (n - buffered + Block - 1) \div Block
       IN  Least(blocks * Block, Head(tty).left - buffered) - (n - buffered)

Unread_faulty == 0

(* has_unread_data after a line that was cut. *)
Unread == 1

PushBack_faulty == 0

(* ungetc() of the last character of a line that was cut. *)
PushBack == 1

fgets ==
  /\ pc = "stdin" /\ HasText /\ ~feof
  /\ LET first == Head(tty)
         n == Least(first.left, MaxMsg + 1)
         sentBefore == IF has_unread_data = 1 THEN pieces ELSE <<>>
     IN  /\ line' = first.len
         /\ pieces' = Append(sentBefore, n - 1)
         /\ \/ /\ n = first.left                   \* the newline was read
               /\ has_unread_data' = 0
               /\ tty' = Tail(tty) /\ buffered' = 0
            \/ /\ n < first.left
               /\ has_unread_data' = Unread
               /\ tty' = Take(n - PushBack)
               /\ buffered' = BufferedAfter(n) + PushBack
  /\ pc' = "write"
  /\ UNCHANGED <<feof, handler, old_sa, disconnect_client, fdset, sock, whole, unrestored, why>>

(* fgets() returns NULL and feof() is true: Ctrl-D, now or earlier. *)
FgetsEof ==
  /\ pc = "stdin"
  /\ \/ feof /\ UNCHANGED <<tty, feof>>
     \/ ~feof /\ AtEof /\ tty' = Tail(tty) /\ feof' = TRUE
  /\ Return
  /\ UNCHANGED <<buffered, old_sa, disconnect_client, has_unread_data, line, pieces, whole, why>>

AfterStdin == IF "sock" \in fdset THEN "socket" ELSE "top"

(* A write to a server that has closed succeeds as well, until its answer, *)
(* a reset, has come.                                                      *)
write_to_socket ==
  /\ pc = "write" /\ sock # "reset"
  /\ pc' = AfterStdin
  /\ sock' \in IF sock = "eof" THEN {"eof", "reset"} ELSE {sock}
  /\ UNCHANGED <<tty, buffered, feof, handler, old_sa, disconnect_client, has_unread_data, fdset,
                 line, pieces, whole, unrestored, why>>

(* A write after a reset, an error or SIGPIPE; and a Ctrl-C that           *)
(* interrupts a write() that blocks.                                       *)
WriteFails ==
  /\ pc = "write"
  /\ \/ sock = "reset" /\ ClientExit("server")
     \/ disconnect_client = 1 /\ ClientExit("ctrl-c")
  /\ UNCHANGED <<tty, buffered, feof, handler, old_sa, disconnect_client, has_unread_data, fdset,
                 line, pieces, whole, unrestored>>

---------------------------------------------------------------------------
(* The part of the loop that reads the socket. *)

read_from_socket ==
  /\ pc = "socket"
  /\ \/ sock = "data" /\ sock' = "quiet" /\ pc' = "top" /\ UNCHANGED why
     \/ sock \in {"eof", "reset"} /\ ClientExit("server")
  /\ UNCHANGED <<tty, buffered, feof, handler, old_sa, disconnect_client, has_unread_data, fdset,
                 line, pieces, whole, unrestored>>

ServerSends ==
  /\ \/ sock = "quiet" /\ sock' \in {"data", "eof", "reset"}
     \/ sock \in {"data", "eof"} /\ sock' = "reset"
  /\ UNCHANGED <<pc, tty, buffered, feof, handler, old_sa, disconnect_client, has_unread_data,
                 fdset, line, pieces, whole, unrestored, why>>

---------------------------------------------------------------------------
(* Ctrl-C. *)

Flagged_faulty == 2

(* What client_signal_handler() stores. *)
Flagged == 1

(* The handler runs; the system call the process is in goes on, or the     *)
(* process was not in one that can be interrupted.                         *)
CtrlC ==
  /\ handler = "client" /\ pc # "exited"
  /\ disconnect_client = 0 /\ disconnect_client' = Flagged
  /\ UNCHANGED <<pc, tty, buffered, feof, handler, old_sa, has_unread_data, fdset, sock, line,
                 pieces, whole, unrestored, why>>

(* read() of the shell fails: an empty line.  getchar() returns EOF.       *)
CtrlCInRead ==
  /\ pc \in {"prompt", "junk"} /\ tty = <<>>
  /\ pc' = "prompt"
  /\ disconnect_client' = IF handler = "client" THEN Flagged ELSE disconnect_client
  /\ UNCHANGED <<tty, buffered, feof, handler, old_sa, has_unread_data, fdset, sock, line, pieces,
                 whole, unrestored, why>>

(* connect() fails. *)
CtrlCInConnect ==
  /\ pc = "connect"
  /\ pc' = "prompt"
  /\ disconnect_client' = Flagged /\ unrestored' = TRUE
  /\ UNCHANGED <<tty, buffered, feof, handler, old_sa, has_unread_data, fdset, sock, line, pieces,
                 whole, why>>

(* select() fails while it waits. *)
CtrlCInSelect ==
  /\ pc = "select" /\ has_unread_data = 0 /\ tty = <<>> /\ ~SockReady
  /\ disconnect_client' = Flagged
  /\ Return
  /\ UNCHANGED <<tty, buffered, feof, old_sa, has_unread_data, line, pieces, whole, why>>

(* select() polls the socket only, fails, and that is taken for an error. *)
CtrlCInPoll ==
  /\ pc = "select" /\ has_unread_data = 1 /\ ~SockReady
  /\ disconnect_client' = Flagged
  /\ ClientExit("ctrl-c")
  /\ UNCHANGED <<tty, buffered, feof, handler, old_sa, has_unread_data, fdset, line, pieces,
                 whole, unrestored>>

Shell == get_input \/ Eof \/ Junk \/ JunkEof \/ OtherCommand

Client ==
  \/ connect_to_server \/ Top \/ Select \/ fgets \/ FgetsEof
  \/ write_to_socket \/ WriteFails \/ read_from_socket

Next ==
  \/ Shell \/ Client
  \/ Exit \/ bn_start_client \/ ConnectFails
  \/ CtrlC \/ CtrlCInRead \/ CtrlCInConnect \/ CtrlCInSelect \/ CtrlCInPoll
  \/ ServerSends
  \/ \E len \in Lengths : Type(len)

Spec == Init /\ [][Next]_vars

(* The process runs, and the server takes what the client writes. *)
FairSpec == Spec /\ WF_vars(Shell) /\ WF_vars(Client)

---------------------------------------------------------------------------
(* Properties. *)

(* read() and stdin never get into each other's way: when the shell reads, *)
(* and when the client waits in select(), no character is hidden in the    *)
(* buffer of stdin, whatever was too long before (io_helpers.c:49,         *)
(* builtins.c:827-885).                                                    *)
NothingHidden ==
  pc = "prompt" \/ (pc = "select" /\ has_unread_data = 0) => buffered = 0

(* "Command is limited to 128-characters" (README.md): what the shell      *)
(* executes is a whole line, never the tail of one that was too long, and  *)
(* the loop that drops that tail drops nothing else, unless the line had   *)
(* MAX_STR_LEN + 1 characters with its newline, which leave no tail to     *)
(* drop.  Both hold until Ctrl-D sets the end of file indicator of stdin:  *)
(* from then on the loop drops nothing (io_helpers.c:44-50).               *)
LinesKeptApart ==
  ~feof =>
    /\ pc = "execute" => whole
    /\ pc = "junk" /\ line # MaxStr + 1 =>
         tty # <<>> /\ Head(tty).len = line /\ Head(tty).left < line

(* The messages a line of n characters is sent in: all but the last of     *)
(* MAX_USER_MSG characters.                                                *)
Cut(n) ==
  IF n = 0 THEN <<0>>
  ELSE [k \in 1 .. (n + MaxMsg - 1) \div MaxMsg |-> Least(MaxMsg, n - (k - 1) * MaxMsg)]

(* A line of any length reaches the server complete: cut into messages     *)
(* of at most MAX_USER_MSG characters, none of them lost or sent twice at  *)
(* the cuts, and no empty one at the end (builtins.c:859-887).             *)
SplitExact ==
  pieces # <<>> /\ pc \in ClientPcs /\ has_unread_data = 0 => pieces = Cut(line - 1)

(* "Typing Crtl C returns to shell and does not terminate the program"     *)
(* (builtins.c:789).                                                       *)
CtrlCReturns == why # "ctrl-c"

(* A Ctrl-C that finds the client busy ends it before it waits for input   *)
(* again, and back at the prompt the shell has its own handler of SIGINT   *)
(* again, unless an earlier connection could not be made (builtins.c:789,  *)
(* 809, 822, 836, 863).  A Ctrl-C between the test of the flag and the     *)
(* call of select() has to wait for the next line or message.              *)
CtrlCEndsClient ==
  (pc \in ClientPcs \ {"select"} /\ disconnect_client # 0) ~>
    (pc = "exited" \/ (pc = "prompt" /\ (handler = "shell" \/ unrestored)))

(* What the user types is taken off the terminal in the end, by whoever    *)
(* reads it at the time: neither the shell nor the client gets stuck       *)
(* before a line that is there (builtins.c:822-921).                       *)
LinesAreRead ==
  []<>(tty = <<>> \/ pc = "exited") \/ []<><<\E len \in Lengths : Type(len)>>_vars
============================================================================
