--------------------------- MODULE ServerControl ---------------------------
(***************************************************************************)
(* Who controls the chat server: start_server(), cleanup_server(), the     *)
(* builtins start-server and close-server, and the handlers and exits of   *)
(* main().  The globals server_pid and server_num are ordinary memory, so  *)
(* every fork() gives the child its own copy: the background jobs and the  *)
(* servers carry on with what the shell knew when it forked them.          *)
(* server_port, which is only printed, is left out.                        *)
(***************************************************************************)
EXTENDS Naturals

CONSTANTS
  Pids,    \* process ids, used again once a process has been reaped
  Shell,   \* the shell the user starts
  Ports,
  Zero,    \* what fork() returns in the child
  None     \* -1

ASSUME ShellAssumption == Shell \in Pids
ASSUME SentinelAssumption == Zero \notin Pids /\ None \notin Pids

VARIABLES
  role,        \* what each process is doing
  injob,       \* TRUE: the process runs one line of a background job, then exits
  parent,      \* the process that will reap it; None is init
  server_pid, server_num,   \* each process's copy
  port,        \* the port a server listens on, or is about to
  term         \* processes with a pending SIGTERM

vars == <<role, injob, parent, server_pid, server_num, port, term>>
globals == <<server_pid, server_num>>

(* "forked" is a shell or job between the fork of start_server() and the   *)
(* assignment of server_num, "ending" a job after its one line.            *)
Roles == {"none", "shell", "job", "forked", "ending", "starting", "server", "zombie"}

Live(p) == role[p] \notin {"none", "zombie"}

TypeOK ==
  /\ role \in [Pids -> Roles]
  /\ injob \in [Pids -> BOOLEAN]
  /\ parent \in [Pids -> Pids \cup {None}]
  /\ server_pid \in [Pids -> Pids \cup {Zero, None}]
  /\ server_num \in [Pids -> {0, 1}]
  /\ port \in [Pids -> Ports \cup {None}]
  /\ term \subseteq Pids

Init ==
  /\ role = [p \in Pids |-> IF p = Shell THEN "shell" ELSE "none"]
  /\ injob = [p \in Pids |-> FALSE]
  /\ parent = [p \in Pids |-> None]
  /\ server_pid = [p \in Pids |-> None]
  /\ server_num = [p \in Pids |-> 0]
  /\ port = [p \in Pids |-> None]
  /\ term = {}

---------------------------------------------------------------------------
(* Processes. *)

(* A job that has run its line is about to exit, a shell reads the next. *)
AfterLine(p) == IF injob[p] THEN "ending" ELSE "shell"

(* The end of a process: its memory and its sockets are gone and its       *)
(* children are left to init.                                              *)
Dies(p) ==
  /\ role' = [role EXCEPT ![p] = "zombie"]
  /\ injob' = [injob EXCEPT ![p] = FALSE]
  /\ parent' = [q \in Pids |-> IF parent[q] = p THEN None ELSE parent[q]]
  /\ server_pid' = [server_pid EXCEPT ![p] = None]
  /\ server_num' = [server_num EXCEPT ![p] = 0]
  /\ port' = [port EXCEPT ![p] = None]

(* A pending signal is handled before the process goes on. *)
Runs(p, roles) == role[p] \in roles /\ p \notin term

(* "cmd &" *)
Background(s, c) ==
  /\ Runs(s, {"shell"}) /\ role[c] = "none"
  /\ role' = [role EXCEPT ![c] = "job"]
  /\ injob' = [injob EXCEPT ![c] = TRUE]
  /\ parent' = [parent EXCEPT ![c] = s]
  /\ server_pid' = [server_pid EXCEPT ![c] = server_pid[s]]
  /\ server_num' = [server_num EXCEPT ![c] = server_num[s]]
  /\ UNCHANGED <<port, term>>

JobEnds(p) ==
  /\ Runs(p, {"job", "ending"})
  /\ Dies(p)
  /\ UNCHANGED term

(* The waitpid() loop of display_done_process(). *)
Reap(s) ==
  /\ Runs(s, {"shell"})
  /\ LET reaped == {p \in Pids : role[p] = "zombie" /\ parent[p] = s} IN
       /\ reaped # {}
       /\ role' = [p \in Pids |-> IF p \in reaped THEN "none" ELSE role[p]]
       /\ parent' = [p \in Pids |-> IF p \in reaped THEN None ELSE parent[p]]
       /\ term' = term \ reaped
  /\ UNCHANGED <<injob, globals, port>>

InitReaps(p) ==
  /\ role[p] = "zombie" /\ parent[p] = None
  /\ role' = [role EXCEPT ![p] = "none"]
  /\ term' = term \ {p}
  /\ UNCHANGED <<injob, parent, globals, port>>

---------------------------------------------------------------------------
(* Starting a server. *)

(* x_faulty is a variant of x with a plausible programming error;          *)
(* PROJECT.json says which property each one breaks.                       *)
PidAfterFork_faulty(s, c) == [server_pid EXCEPT ![c] = server_pid[s], ![s] = c]

PidAfterFork_port(s, c) == [server_pid EXCEPT ![c] = Zero, ![s] = 8080]

(* server_pid = pid, in the child and in the parent. *)
PidAfterFork(s, c) == [server_pid EXCEPT ![c] = Zero, ![s] = c]

start_server(s, c, n) ==
  /\ Runs(s, {"shell", "job"}) /\ role[c] = "none"
  /\ role' = [role EXCEPT ![c] = "starting", ![s] = "forked"]
  /\ injob' = [injob EXCEPT ![c] = injob[s]]
  /\ parent' = [parent EXCEPT ![c] = s]
  /\ server_pid' = PidAfterFork(s, c)
  /\ server_num' = [server_num EXCEPT ![c] = server_num[s]]
  /\ port' = [port EXCEPT ![c] = n]
  /\ UNCHANGED term

ForkFails(s) ==
  /\ Runs(s, {"shell", "job"})
  /\ role' = [role EXCEPT ![s] = AfterLine(s)]
  /\ server_pid' = [server_pid EXCEPT ![s] = None]
  /\ UNCHANGED <<injob, parent, server_num, port, term>>

(* server_num = 1, after start_server() has returned in the parent. *)
bn_start_server(s) ==
  /\ Runs(s, {"forked"})
  /\ role' = [role EXCEPT ![s] = AfterLine(s)]
  /\ server_num' = [server_num EXCEPT ![s] = 1]
  /\ UNCHANGED <<injob, parent, server_pid, port, term>>

Busy(n) == \E p \in Pids : role[p] = "server" /\ port[p] = n

(* setup_server_socket() *)
SetupSucceeds(c) ==
  /\ Runs(c, {"starting"}) /\ ~Busy(port[c])
  /\ role' = [role EXCEPT ![c] = "server"]
  /\ UNCHANGED <<injob, parent, globals, port, term>>

(* setup_server_socket() fails, on a busy port for certain, and run_server *)
(* returns -1 in the child, which goes on with what its parent was doing:  *)
(* the loop of main(), or the exit of a job.                               *)
SetupFails(c) ==
  /\ Runs(c, {"starting"})
  /\ role' = [role EXCEPT ![c] = AfterLine(c)]
  /\ port' = [port EXCEPT ![c] = None]
  /\ UNCHANGED <<injob, parent, globals, term>>

(* Without a socket setup_server_socket() calls exit(1). *)
SocketFails(c) ==
  /\ Runs(c, {"starting"})
  /\ Dies(c)
  /\ UNCHANGED term

---------------------------------------------------------------------------
(* Stopping it. *)

Holds(s) == server_num[s] > 0 /\ server_pid[s] \in Pids

CleanupSignals_faulty(s) == {}

(* The process that cleanup_server() sends SIGTERM to, if there is one. *)
CleanupSignals(s) == {p \in Pids : Holds(s) /\ p = server_pid[s] /\ role[p] # "none"}

(* cleanup_server() in a process that goes on: a failed kill() leaves the  *)
(* globals as they were.                                                   *)
cleanup_server(s) ==
  IF CleanupSignals(s) = {}
  THEN UNCHANGED globals
  ELSE /\ server_pid' = [server_pid EXCEPT ![s] = None]
       /\ server_num' = [server_num EXCEPT ![s] = 0]

bn_close_server(s) ==
  /\ Runs(s, {"shell", "job"})
  /\ cleanup_server(s)
  /\ term' = term \cup CleanupSignals(s)
  /\ role' = [role EXCEPT ![s] = AfterLine(s)]
  /\ UNCHANGED <<injob, parent, port>>

(* The command exit. *)
Exit(s) ==
  /\ Runs(s, {"shell"})
  /\ term' = term \cup CleanupSignals(s)
  /\ Dies(s)

(* get_input() calls exit(0) at the end of the input. *)
EofExit(s) ==
  /\ Runs(s, {"shell"})
  /\ Dies(s)
  /\ UNCHANGED term

(* SIGTERM or SIGHUP from outside: the kill builtin, the terminal. *)
UserSignals(p) ==
  /\ Live(p)
  /\ term' = term \cup {p}
  /\ UNCHANGED <<role, injob, parent, globals, port>>

(* The handler is inherited by all processes forked from the shell. *)
exit_handler(p) ==
  /\ p \in term /\ Live(p)
  /\ term' = (term \ {p}) \cup CleanupSignals(p)
  /\ Dies(p)

---------------------------------------------------------------------------
Next ==
  \E p \in Pids :
    \/ JobEnds(p) \/ Reap(p) \/ InitReaps(p)
    \/ ForkFails(p) \/ bn_start_server(p) \/ SetupSucceeds(p) \/ SetupFails(p)
    \/ SocketFails(p) \/ bn_close_server(p) \/ Exit(p) \/ EofExit(p)
    \/ UserSignals(p) \/ exit_handler(p)
    \/ \E c \in Pids : Background(p, c) \/ \E n \in Ports : start_server(p, c, n)

Spec == Init /\ [][Next]_vars

(* The kernel delivers pending signals, and nothing in the code blocks     *)
(* them.                                                                   *)
FairSpec == Spec /\ \A p \in Pids : WF_vars(exit_handler(p))

---------------------------------------------------------------------------
(* Properties. *)

(* A server holds no server: the 0 that fork() leaves in its copy of       *)
(* server_pid keeps cleanup_server() from acting there (server.c:31, 285). *)
ServersHoldNone ==
  \A p \in Pids : role[p] \in {"starting", "server"} => server_pid[p] = Zero

(* The handler that a server inherits from the shell ends this server and  *)
(* signals nobody: closing one server never takes another one down         *)
(* (mysh.c:26-29).                                                         *)
ServerEndsAlone ==
  [][\A p \in Pids : role[p] \in {"starting", "server"} /\ role'[p] = "zombie"
                       => term' \subseteq term]_vars

(* A signal to a shell also stops the server it has started last: the      *)
(* handler passes it on (mysh.c:26-29, server.c:283-303).                  *)
SignalStopsServer ==
  \A s, p \in Pids :
    (role[s] = "shell" /\ s \in term /\ Holds(s) /\ server_pid[s] = p /\ role[p] = "server")
      ~> (role[p] # "server")

(* "child process run the server" (server.c:36): a process that            *)
(* start_server() forked never becomes a second shell on the terminal.     *)
ChildRunsServer == \A p \in Pids : p # Shell => role[p] # "shell"
============================================================================
