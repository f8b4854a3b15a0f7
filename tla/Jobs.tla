------------------------------- MODULE Jobs -------------------------------
(***************************************************************************)
(* The background job table of mysh: the parallel arrays                   *)
(* available_indices and bg_processes, the branch of main() that starts a  *)
(* job with '&', display_done_process(), and the builtins ps and kill that *)
(* read and write the table.  The table is plain memory of a single        *)
(* threaded shell; what makes it hard is that the processes it describes   *)
(* live and die on their own, that a wait in execute_bin() can be cut      *)
(* short by a signal, and that the kernel gives the pid of a reaped        *)
(* process to somebody else.                                               *)
(***************************************************************************)
EXTENDS Naturals

CONSTANTS
  MaxProcess,  \* MAX_PROCESS, the number of slots
  Pids,        \* process ids the kernel hands out
  NoPid,       \* the 0 that static storage gives to bg_processes[i].pid
  Signals,     \* kinds of signal the user passes to the kill builtin
  Commands     \* what stands before the '&': "cmd", or "empty" for a '&' alone

SignalKinds == {"fatal", "int", "benign"}

ASSUME MaxProcessAssumption == MaxProcess \in Nat \ {0}
ASSUME PidsAssumption == NoPid \notin Pids
ASSUME SignalsAssumption == Signals \subseteq SignalKinds
ASSUME CommandsAssumption == Commands \subseteq {"cmd", "empty"}

Slots == 0 .. MaxProcess - 1

(* The values of available_indices (commands.h:27). *)
Running == 0
Free    == 1
Done    == 2
Killed  == 3

VARIABLES
  pc,          \* where the shell is: "prompt", "exec", "wait", "exited"; "aborted"
               \* after an out of bounds read, "badfree" after an invalid free()
  avail,       \* available_indices
  bgPid,       \* bg_processes[i].pid
  is_running,  \* bg_processes[i].is_running
  command,     \* bg_processes[i].command
  proc,        \* the kernel's view of each pid; "spared": it lives on after a signal
               \* for which kill has marked its job, "dying": it got a fatal one
  fg,          \* the child execute_bin() is waiting for, or NoPid
  launched,    \* history: children started with '&', accepted and not reaped yet
  announced    \* history: slots whose present job has had its "Done" line

vars == <<pc, avail, bgPid, is_running, command, proc, fg, launched, announced>>
table == <<avail, bgPid, is_running, command, announced>>

TypeOK ==
  /\ pc \in {"prompt", "exec", "wait", "exited", "aborted", "badfree"}
  /\ avail \in [Slots -> {Running, Free, Done, Killed}]
  /\ bgPid \in [Slots -> Pids \cup {NoPid}]
  /\ is_running \in [Slots -> {0, 1}]
  /\ command \in [Slots -> {"cmd", "empty"}]
  /\ proc \in [Pids -> {"none", "run", "spared", "dying", "zombie", "foreign"}]
  /\ fg \in Pids \cup {NoPid}
  /\ launched \subseteq Pids
  /\ announced \subseteq Slots

Init ==
  /\ pc = "prompt"
  /\ avail = [i \in Slots |-> Free]
  /\ bgPid = [i \in Slots |-> NoPid]
  /\ is_running = [i \in Slots |-> 0]
  /\ command = [i \in Slots |-> "empty"]
  /\ proc = [p \in Pids |-> "none"]
  /\ fg = NoPid
  /\ launched = {}
  /\ announced = {}

---------------------------------------------------------------------------
(* The loops over the table. *)

(* Every loop starts at 0 and stops at the first free slot. *)
Scanned == {i \in Slots : \A j \in 0 .. i : avail[j] # Free}

(* With no free slot the loops whose test reads available_indices[i]       *)
(* before it compares i with MAX_PROCESS read one element too many.  The   *)
(* sanitizers of the Makefile abort there; in a build without them the     *)
(* value does not matter, because the comparison then ends the loop.       *)
Full == \A i \in Slots : avail[i] # Free

OutOfBounds ==
  /\ Full
  /\ pc' = "aborted"
  /\ UNCHANGED <<table, proc, fg, launched>>

IsChild(p) == proc[p] \in {"run", "spared", "dying", "zombie"}

(* The pids bn_ps prints. *)
PsListing == {bgPid[i] : i \in {j \in Scanned : is_running[j] = 1}}

(* x_faulty (and x_int, x_signo) is a variant of x with a plausible        *)
(* programming error; PROJECT.json says which property each one breaks.    *)
find_new_spot_faulty(i) == avail[i] = Free

find_new_spot(i) == avail[i] = Free /\ \A j \in 0 .. i - 1 : avail[j] # Free

---------------------------------------------------------------------------
(* Reading a line: main() calls display_done_process() for every line it   *)
(* reads, before it looks at the line.                                     *)

Zombies_faulty == {p \in launched : proc[p] = "zombie"}

(* The children waitpid(-1, &status, WNOHANG) returns, one after another.  *)
Zombies == {p \in Pids : proc[p] = "zombie"}

(* Slots the waitpid() loop finds. *)
Reaped == {i \in Scanned : is_running[i] = 1 /\ bgPid[i] \in Zombies}

(* Slots announced: those, and the ones the kill builtin has marked. *)
Announced == Reaped \cup {i \in Scanned : avail[i] = Killed}

availAfterLoops == [i \in Slots |-> IF i \in Announced THEN Done ELSE avail[i]]

runningAfterLoops_faulty == [i \in Slots |-> IF i \in Reaped THEN 0 ELSE is_running[i]]

runningAfterLoops == [i \in Slots |-> IF i \in Announced THEN 0 ELSE is_running[i]]

all_terminated_faulty == \E i \in Scanned : availAfterLoops[i] # Running

all_terminated == \A i \in Scanned : availAfterLoops[i] # Running

display_done_process ==
  /\ pc = "prompt"
  /\ \/ OutOfBounds
     \/ /\ pc' = "exec"
        /\ proc' = [p \in Pids |-> IF p \in Zombies THEN "none" ELSE proc[p]]
        /\ launched' = launched \ Zombies
        /\ is_running' = runningAfterLoops
        /\ announced' = announced \cup Announced
        /\ avail' = IF all_terminated THEN [i \in Slots |-> Free] ELSE availAfterLoops
        /\ UNCHANGED <<bgPid, command, fg>>

---------------------------------------------------------------------------
(* Executing the line. *)

(* An empty line, an interrupted read, a failed fork, and every builtin    *)
(* that touches neither the table nor a process.                           *)
OtherLine ==
  /\ pc = "exec"
  /\ pc' = "prompt"
  /\ UNCHANGED <<table, proc, fg, launched>>

add_bg_process(p, cmd, i) ==
  /\ avail' = [avail EXCEPT ![i] = Running]
  /\ bgPid' = [bgPid EXCEPT ![i] = p]
  /\ is_running' = [is_running EXCEPT ![i] = 1]
  /\ command' = [command EXCEPT ![i] = cmd]
  /\ announced' = announced \ {i}

(* "cmd &": the child is forked before a slot is looked for. *)
RunInBackground(p, cmd) ==
  /\ pc = "exec"
  /\ proc[p] = "none"
  /\ pc' = "prompt"
  /\ proc' = [proc EXCEPT ![p] = "run"]
  /\ \/ /\ \E i \in Slots : find_new_spot(i) /\ add_bg_process(p, cmd, i)
        /\ launched' = launched \cup {p}
     \/ Full /\ UNCHANGED <<table, launched>>      \* "Too many background processes"
  /\ UNCHANGED fg

(* bn_ps frees the first word of the command, and the array in the table   *)
(* itself when the command has no word.                                    *)
FreesTable == \E i \in Scanned : is_running[i] = 1 /\ command[i] = "empty"

bn_ps ==
  /\ pc = "exec"
  /\ \/ FreesTable /\ pc' = "badfree" /\ UNCHANGED <<table, proc, fg, launched>>
     \/ ~FreesTable /\ OutOfBounds
     \/ ~FreesTable /\ pc' = "prompt" /\ UNCHANGED <<table, proc, fg, launched>>

KillMatch_faulty(p, i) == i = 0 /\ i \in Scanned

(* The slot the loop of bn_kill marks: the first that holds the pid. *)
KillMatch(p, i) ==
  /\ i \in Scanned
  /\ bgPid[i] = p
  /\ \A j \in 0 .. i - 1 : bgPid[j] # p

MarkKilled_int(p, sig) ==
  avail' = [i \in Slots |-> IF KillMatch(p, i) THEN Killed ELSE avail[i]]

MarkKilled_signo(p, sig) ==
  avail' = [i \in Slots |-> IF KillMatch(p, i) THEN 9 ELSE avail[i]]

(* Every signal but SIGINT marks the job as killed. *)
MarkKilled(p, sig) ==
  avail' = [i \in Slots |-> IF KillMatch(p, i) /\ sig # "int" THEN Killed ELSE avail[i]]

Marks(p, sig) == sig # "int" /\ \E i \in Slots : KillMatch(p, i) /\ is_running[i] = 1

Signalled(p, sig) ==
  IF sig = "fatal" /\ proc[p] \in {"run", "spared"} THEN "dying"
  ELSE IF sig = "benign" /\ proc[p] = "run" /\ Marks(p, sig) THEN "spared"
  ELSE proc[p]

(* kill(2) succeeds for every process that exists, a zombie included.      *)
(* With no such process the builtin fails and nothing changes (OtherLine). *)
bn_kill(p, sig) ==
  /\ pc = "exec"
  /\ proc[p] # "none"
  /\ pc' = "prompt"
  /\ MarkKilled(p, sig)
  /\ proc' = [proc EXCEPT ![p] = Signalled(p, sig)]
  /\ UNCHANGED <<bgPid, is_running, command, announced, fg, launched>>

(* atoi() makes 0 of a word that is no number, and kill(0, signo) signals  *)
(* the process group, the shell included.                                  *)
bn_kill_group(sig) ==
  /\ pc = "exec"
  /\ pc' = IF sig = "fatal" THEN "exited" ELSE "prompt"
  /\ MarkKilled(NoPid, sig)
  /\ proc' = [p \in Pids |-> IF sig = "fatal" /\ proc[p] \in {"run", "spared"} THEN "dying"
                             ELSE proc[p]]
  /\ UNCHANGED <<bgPid, is_running, command, announced, fg, launched>>

(* A foreground command: fork, then waitpid(pid, &status, 0). *)
execute_bin(p) ==
  /\ pc = "exec"
  /\ proc[p] = "none"
  /\ pc' = "wait"
  /\ fg' = p
  /\ proc' = [proc EXCEPT ![p] = "run"]
  /\ UNCHANGED <<table, launched>>

WaitReturns ==
  /\ pc = "wait"
  /\ proc[fg] = "zombie"
  /\ pc' = "prompt"
  /\ proc' = [proc EXCEPT ![fg] = "none"]
  /\ fg' = NoPid
  /\ UNCHANGED <<table, launched>>

(* The handler of SIGINT is installed without SA_RESTART: waitpid() fails  *)
(* with EINTR and execute_bin() returns, its child still there.            *)
WaitInterrupted ==
  /\ pc = "wait"
  /\ pc' = "prompt"
  /\ fg' = NoPid
  /\ UNCHANGED <<table, proc, launched>>

Exit ==
  /\ pc = "exec"
  /\ pc' = "exited"
  /\ UNCHANGED <<table, proc, fg, launched>>

---------------------------------------------------------------------------
(* The kernel and the other processes of the user. *)

ChildExits(p) ==
  /\ proc[p] \in {"run", "spared", "dying"}
  /\ proc' = [proc EXCEPT ![p] = "zombie"]
  /\ UNCHANGED <<pc, table, fg, launched>>

ForeignStarts(p) ==
  /\ proc[p] = "none"
  /\ proc' = [proc EXCEPT ![p] = "foreign"]
  /\ UNCHANGED <<pc, table, fg, launched>>

ForeignEnds(p) ==
  /\ proc[p] = "foreign"
  /\ proc' = [proc EXCEPT ![p] = "none"]
  /\ UNCHANGED <<pc, table, fg, launched>>

Next ==
  \/ display_done_process
  \/ OtherLine
  \/ bn_ps
  \/ WaitReturns
  \/ WaitInterrupted
  \/ Exit
  \/ \E sig \in Signals : bn_kill_group(sig)
  \/ \E p \in Pids :
       \/ \E cmd \in Commands : RunInBackground(p, cmd)
       \/ execute_bin(p)
       \/ ChildExits(p)
       \/ ForeignStarts(p)
       \/ ForeignEnds(p)
       \/ \E sig \in Signals : bn_kill(p, sig)

Spec == Init /\ [][Next]_vars

---------------------------------------------------------------------------
(* Properties. *)

(* The slots in use are 0 .. k for some k: no free slot lies before one in *)
(* use.  All loops over the table stop at the first free slot, so a slot   *)
(* behind a hole would be invisible to ps, kill and the reaper             *)
(* (commands.c:335, 350, 365, builtins.c:593, 657).                        *)
OccupiedPrefix ==
  \A i, j \in Slots : (j < i /\ avail[i] # Free) => avail[j] # Free

(* The two arrays agree: a running job is marked so in both, and a slot    *)
(* that is free or announced holds no running job, also after the table    *)
(* was reset as a whole (commands.c:374).                                  *)
ArraysAgree ==
  \A i \in Slots : /\ avail[i] = Running => is_running[i] = 1
                   /\ avail[i] \in {Free, Done} => is_running[i] = 0

(* An entry that ps shows is an unreaped background child of this shell,   *)
(* and no two entries show the same pid, although the kernel gives pids of *)
(* reaped children to new processes: a pid leaves the listing in the same  *)
(* call that reaps it (commands.c:332-349).                                *)
ListedAreChildren ==
  \A i \in Slots : is_running[i] = 1 =>
    /\ bgPid[i] \in launched
    /\ \A j \in Slots : (is_running[j] = 1 /\ bgPid[j] = bgPid[i]) => j = i

(* The children that count as launched are exactly unreaped ones. *)
LaunchedAreChildren == \A p \in launched : IsChild(p)

(* The job table is consistent with itself and with the kernel.            *)
TableInv == OccupiedPrefix /\ ArraysAgree /\ ListedAreChildren /\ LaunchedAreChildren

(* A job keeps its number: as long as an entry is running no step gives    *)
(* its slot to another process, the reset of the table included.           *)
JobKeepsSlot ==
  [][\A i \in Slots : is_running[i] = 1 /\ is_running'[i] = 1
                        => bgPid'[i] = bgPid[i] /\ avail'[i] # Free]_vars

(* "shows all the processes running in the background" (builtins.c:588):   *)
(* ps lists every job that runs, unless kill has sent it a signal that it  *)
(* survived; not one is lost to a signal for another job, to "kill 0", to  *)
(* SIGINT, or to a job that is refused because the table is full.          *)
PsListsEveryJob == \A p \in launched : proc[p] = "run" => p \in PsListing

(* "display all the process that are done" (commands.c:322): a job whose   *)
(* Done line was printed has ended, or will because it got a fatal signal, *)
(* or is one that survived a signal sent with kill.                        *)
DoneMeansDone ==
  \A i \in announced : bgPid[i] \in launched /\ proc[bgPid[i]] = "run"
                         => \E j \in Slots : j # i /\ bgPid[j] = bgPid[i] /\ is_running[j] = 1

(* As long as lines keep being read, every ended child is reaped, also a   *)
(* foreground child whose wait was interrupted (commands.c:332).           *)
EventuallyReaped ==
  ([]<><<display_done_process>>_vars) =>
     \A p \in Pids : (proc[p] = "zombie") ~> (proc[p] = "none")
===========================================================================
