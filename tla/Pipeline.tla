----------------------------- MODULE Pipeline -----------------------------
(***************************************************************************)
(* Pipelines: the part of execute_command() that looks for '|', and        *)
(* execute_pipeline(), which splits the line, creates the pipes, forks one *)
(* child per command and waits for all of them.                            *)
(*                                                                         *)
(* A pipe ends for its reader when the last descriptor of its write end is *)
(* closed, and breaks for its writer when the last one of its read end is; *)
(* both ends of every pipe are inherited by every child, so whether a      *)
(* pipeline ends at all depends on who has closed what.  The processes run *)
(* concurrently; the commands are the builtins echo, cat and wc, the       *)
(* program yes, and anything else is an unknown command.                   *)
(***************************************************************************)
EXTENDS Naturals, Sequences, FiniteSets

CONSTANTS
  Lines,       \* the lines with a '|' the user types, each a sequence of tokens
  MaxCommands, \* most commands in one of them
  Cap,         \* units of data that fit into a pipe
  CatCap,      \* units display_message() writes at most (MAX_STR_LEN)
  MaxTyped     \* units the user types for the first command of a line (bound of the model)

Bar == "|"

ASSUME LinesAssumption ==
  \A t \in Lines : t \in Seq(STRING) /\ \E i \in 1 .. Len(t) : t[i] = Bar
ASSUME BoundsAssumption ==
  /\ MaxCommands \in Nat \ {0} /\ Cap \in Nat \ {0} /\ CatCap \in Nat \ {0} /\ CatCap <= Cap
  /\ MaxTyped \in Nat

Shell == 0
Children == 1 .. MaxCommands
Procs == {Shell} \cup Children
PipeEnds == (1 .. MaxCommands - 1) \X {"r", "w"}

VARIABLES
  pc,        \* "prompt", "split", "pipe", "fork", "wait", "returned", "exited"
  tokens,    \* the line
  number_of_pipes,
  commands,  \* the commands the line was split into
  i,         \* the child the fork loop or the wait loop is at
  ends,      \* the descriptors in the array pipes that each process has open
  state,     \* of each child: "none", "forked", "run", "zombie"
  code,      \* how each child ended: "ok", "fail" or "signal"
  did,       \* progress of each child
  held,      \* units cat or wc is about to write
  content,   \* units in each pipe
  typed,     \* units on the terminal for the first command, then comes Ctrl-D
  status,    \* of the last waitpid() that succeeded, "unset" before the first
  success,
  result,    \* of the last pipeline
  disturbed  \* history: a fork, a pipe() or a wait of this pipeline failed

shell == <<pc, tokens, number_of_pipes, commands, i, status, success, result, disturbed>>
world == <<ends, state, code, did, held, content, typed>>
vars == <<shell, world>>

Codes == {"ok", "fail", "signal"}

TypeOK ==
  /\ pc \in {"prompt", "split", "pipe", "fork", "wait", "returned", "exited"}
  /\ tokens \in Lines \cup {<<>>}
  /\ number_of_pipes \in Nat
  /\ commands \in Seq(Seq(STRING))
  /\ i \in 1 .. MaxCommands + 1
  /\ ends \in [Procs -> SUBSET PipeEnds]
  /\ state \in [Children -> {"none", "forked", "run", "zombie"}]
  /\ code \in [Children -> Codes]
  /\ did \in [Children -> 0 .. 2]
  /\ held \in [Children -> 0 .. CatCap]
  /\ content \in [1 .. MaxCommands - 1 -> 0 .. Cap]
  /\ typed \in 0 .. MaxTyped
  /\ status \in Codes \cup {"unset"}
  /\ success \in {0, 1}
  /\ result \in {"none", "0", "-1"}
  /\ disturbed \in BOOLEAN

Init ==
  /\ pc = "prompt" /\ tokens = <<>> /\ number_of_pipes = 0 /\ commands = <<>> /\ i = 1
  /\ status = "unset" /\ success = 1 /\ result = "none" /\ disturbed = FALSE
  /\ ends = [p \in Procs |-> {}]
  /\ state = [c \in Children |-> "none"]
  /\ code = [c \in Children |-> "ok"]
  /\ did = [c \in Children |-> 0]
  /\ held = [c \in Children |-> 0]
  /\ content = [j \in 1 .. MaxCommands - 1 |-> 0]
  /\ typed = 0

---------------------------------------------------------------------------
(* Parsing. *)

IsBar(t, k) == t[k] = Bar

(* x_faulty is a variant of x with a plausible programming error;          *)
(* PROJECT.json says which property each one breaks.                       *)
CountPipes_faulty(t) == IF \E k \in DOMAIN t : IsBar(t, k) THEN 1 ELSE 0

(* The loop over the tokens skips a '|' that follows a '|'. *)
CountPipes(t) ==
  Cardinality({k \in DOMAIN t : IsBar(t, k) /\ ~(k > 1 /\ IsBar(t, k - 1))})

(* The loop of execute_pipeline() stops at a '|' with no word before it in *)
(* any command but the first.                                              *)
SyntaxError(t) == \E k \in 3 .. Len(t) : IsBar(t, k) /\ IsBar(t, k - 1)

(* Positions of the '|', the line ending in one more. *)
Bars(t) == {k \in DOMAIN t : IsBar(t, k)} \cup {Len(t) + 1}

ASSUME CommandsAssumption ==
  \A t \in Lines :
    ~IsBar(t, 1) /\ ~IsBar(t, Len(t)) /\ ~SyntaxError(t) => Cardinality(Bars(t)) <= MaxCommands

Command(t, n) ==
  LET end == CHOOSE e \in Bars(t) : Cardinality({b \in Bars(t) : b < e}) = n - 1
      start == CHOOSE s \in {0} \cup Bars(t) :
                 s < end /\ \A b \in Bars(t) : b < end => b <= s
  IN  SubSeq(t, start + 1, end - 1)

Commands(t) == [n \in 1 .. Cardinality(Bars(t)) |-> Command(t, n)]

---------------------------------------------------------------------------
(* The shell. *)

execute_command(t) ==
  /\ pc = "prompt"
  /\ tokens' = t
  /\ number_of_pipes' = CountPipes(t)
  /\ \/ /\ IsBar(t, 1) \/ IsBar(t, Len(t))
        /\ pc' = "returned" /\ result' = "-1"
     \/ /\ ~IsBar(t, 1) /\ ~IsBar(t, Len(t))
        /\ pc' = "split" /\ UNCHANGED result
  /\ typed' \in 0 .. MaxTyped
  /\ UNCHANGED <<commands, i, status, success, disturbed, ends, state, code, did, held, content>>

Split ==
  /\ pc = "split"
  /\ \/ /\ SyntaxError(tokens)
        /\ pc' = "returned" /\ result' = "-1"
        /\ UNCHANGED commands
     \/ /\ ~SyntaxError(tokens)
        /\ pc' = "pipe"
        /\ commands' = Commands(tokens)
        /\ UNCHANGED result
  /\ UNCHANGED <<tokens, number_of_pipes, i, status, success, disturbed, world>>

NewPipes_faulty == (1 .. number_of_pipes + 1) \X {"r", "w"}

NewPipes == (1 .. number_of_pipes) \X {"r", "w"}

CreatePipes ==
  /\ pc = "pipe"
  /\ pc' = "fork"
  /\ ends' = [ends EXCEPT ![Shell] = NewPipes]
  /\ UNCHANGED <<tokens, number_of_pipes, commands, i, status, success, result, disturbed,
                 state, code, did, held, content, typed>>

(* pipe() fails: the pipes created before are closed again. *)
PipeFails ==
  /\ pc = "pipe"
  /\ pc' = "returned" /\ result' = "-1" /\ disturbed' = TRUE
  /\ UNCHANGED <<tokens, number_of_pipes, commands, i, status, success, world>>

ReadyToFork_faulty == i <= Len(commands) /\ (i > 1 => state[i - 1] = "zombie")

(* All children are started before the first one is waited for. *)
ReadyToFork == i <= Len(commands)

Fork ==
  /\ pc = "fork" /\ ReadyToFork
  /\ state' = [state EXCEPT ![i] = "forked"]
  /\ ends' = [ends EXCEPT ![i] = ends[Shell]]
  /\ i' = i + 1
  /\ UNCHANGED <<pc, tokens, number_of_pipes, commands, status, success, result, disturbed,
                 code, did, held, content, typed>>

(* fork() fails: the pipes stay open in the shell, and nobody waits for    *)
(* the children already started.                                           *)
ForkFails ==
  /\ pc = "fork" /\ i <= Len(commands)
  /\ pc' = "returned" /\ result' = "-1" /\ disturbed' = TRUE
  /\ UNCHANGED <<tokens, number_of_pipes, commands, i, status, success, world>>

ShellKeeps_faulty == {<<number_of_pipes, "w">>}

(* What stays open after the two loops that close all pipes. *)
ShellKeeps == {}

ClosePipes ==
  /\ pc = "fork" /\ i > Len(commands)
  /\ pc' = "wait"
  /\ i' = 1
  /\ ends' = [ends EXCEPT ![Shell] = ShellKeeps]
  /\ UNCHANGED <<tokens, number_of_pipes, commands, status, success, result, disturbed,
                 state, code, did, held, content, typed>>

(* An unset status is whatever the stack holds. *)
SuccessAfter_faulty(st) == {IF st = "fail" THEN 0 ELSE success}

SuccessAfter(st) ==
  IF st = "unset" THEN {0, success} ELSE {IF st = "ok" THEN success ELSE 0}

(* The end of one turn of the wait loop. *)
Waited(st) ==
  /\ status' = st
  /\ success' \in SuccessAfter(st)
  /\ i' = i + 1
  /\ \/ i < Len(commands) /\ UNCHANGED <<pc, result>>
     \/ /\ i = Len(commands)
        /\ pc' = "returned"
        /\ result' = IF success' = 1 THEN "0" ELSE "-1"
  /\ UNCHANGED <<tokens, number_of_pipes, commands>>

Wait ==
  /\ pc = "wait"
  /\ state[i] = "zombie"
  /\ state' = [state EXCEPT ![i] = "none"]
  /\ Waited(code[i])
  /\ UNCHANGED <<disturbed, ends, code, did, held, content, typed>>

Fresh ==
  /\ tokens' = <<>> /\ number_of_pipes' = 0 /\ commands' = <<>> /\ i' = 1
  /\ status' = "unset" /\ success' = 1 /\ result' = "none" /\ disturbed' = FALSE
  /\ ends' = [p \in Procs |-> {}]
  /\ state' = [c \in Children |-> "none"]
  /\ code' = [c \in Children |-> "ok"]
  /\ did' = [c \in Children |-> 0]
  /\ held' = [c \in Children |-> 0]
  /\ content' = [j \in DOMAIN content |-> 0]
  /\ typed' = 0

(* The shell goes on to the next line whatever this one has left behind.   *)
(* Children that nobody waits for and pipes that a failed fork() left open *)
(* are not followed beyond it: the next pipeline has pipes of its own, and *)
(* display_done_process() reaps those children when they have ended.       *)
NextLine ==
  /\ pc = "returned"
  /\ pc' = "prompt"
  /\ Fresh

Exit ==
  /\ pc \in {"prompt", "returned"}
  /\ pc' = "exited"
  /\ ends' = [ends EXCEPT ![Shell] = {}]
  /\ UNCHANGED <<tokens, number_of_pipes, commands, i, status, success, result, disturbed,
                 state, code, did, held, content, typed>>

---------------------------------------------------------------------------
(* The children. *)

ChildKeeps_faulty(c) == {e \in ends[c] : e[1] > c}

(* After dup2() a child closes all descriptors of the array. *)
ChildKeeps(c) == {}

SetUp(c) ==
  /\ state[c] = "forked"
  /\ state' = [state EXCEPT ![c] = "run"]
  /\ ends' = [ends EXCEPT ![c] = ChildKeeps(c)]
  /\ UNCHANGED <<shell, code, did, held, content, typed>>

(* Besides the array, standard input and output of a child that is set up. *)
Readers(j) ==
  {p \in Procs : <<j, "r">> \in ends[p]} \cup {c \in Children : c = j + 1 /\ state[c] = "run"}
Writers(j) ==
  {p \in Procs : <<j, "w">> \in ends[p]} \cup {c \in Children : c = j /\ state[c] = "run"}

(* What a command does with its input: "cat" and "wc" read all of it,      *)
(* "source", "file" and "yes" nothing; "fail" just ends.                   *)
Kind(c) ==
  LET name == commands[c][1]
      args == Len(commands[c]) - 1
  IN  CASE name = "echo" -> "source"
        [] name = "yes" -> "yes"
        [] name \in {"cat", "wc"} -> IF args = 0 THEN name ELSE IF args = 1 THEN "file" ELSE "fail"
        [] OTHER -> "fail"

Reads(c) == Kind(c) \in {"cat", "wc"}

Run(c) == state[c] = "run"

(* exit(), or death by a signal: all descriptors are closed. *)
Ends(c, how) ==
  /\ state' = [state EXCEPT ![c] = "zombie"]
  /\ code' = [code EXCEPT ![c] = how]
  /\ ends' = [ends EXCEPT ![c] = {}]

IsLast(c) == c = Len(commands)

(* Room for n units in the output of c; the terminal takes everything. *)
Room(c, n) == IsLast(c) \/ (Readers(c) # {} /\ content[c] + n <= Cap)

(* The first command reads the terminal. *)
Moved(c, taken, written) ==
  /\ content' = [j \in DOMAIN content |->
       content[j] - (IF j = c - 1 THEN taken ELSE 0)
                  + (IF j = c /\ ~IsLast(c) THEN written ELSE 0)]
  /\ typed' = IF c = 1 THEN typed - taken ELSE typed

(* Units the input of c holds. *)
Available(c) == IF c = 1 THEN typed ELSE content[c - 1]

EndOfInput(c) == Available(c) = 0 /\ (c > 1 => Writers(c - 1) = {})

(* echo writes its text and a newline; a file has up to two lines. *)
Produces(c) ==
  /\ Run(c) /\ Kind(c) \in {"source", "file", "yes"}
  /\ Kind(c) = "yes" \/ did[c] < 2
  /\ Room(c, 1)
  /\ Moved(c, 0, 1)
  /\ did' = [did EXCEPT ![c] = IF Kind(c) = "yes" THEN @ ELSE @ + 1]
  /\ UNCHANGED <<shell, ends, state, code, held>>

(* A read() returns any part of what is there.  bn_cat() hands all of it   *)
(* to display_message(), which writes MAX_STR_LEN bytes; bn_wc() counts.   *)
Consumes(c) ==
  /\ Run(c) /\ Reads(c) /\ held[c] = 0 /\ did[c] < 2
  /\ \E n \in 1 .. Available(c) :
       /\ Moved(c, n, 0)
       /\ held' = [held EXCEPT ![c] =
                     IF Kind(c) = "wc" THEN 0 ELSE IF n > CatCap THEN CatCap ELSE n]
  /\ did' = [did EXCEPT ![c] = 1]
  /\ UNCHANGED <<shell, ends, state, code>>

(* The write() that follows, which waits for room. *)
Writes(c) ==
  /\ Run(c) /\ held[c] > 0 /\ Room(c, held[c])
  /\ Moved(c, 0, held[c])
  /\ held' = [held EXCEPT ![c] = 0]
  /\ UNCHANGED <<shell, ends, state, code, did>>

(* Writing to a pipe that nobody can read kills the writer. *)
BrokenPipe(c) ==
  /\ Run(c) /\ ~IsLast(c) /\ Readers(c) = {}
  /\ \/ Kind(c) = "yes"
     \/ Kind(c) \in {"source", "file"} /\ did[c] < 2
     \/ held[c] > 0
  /\ Ends(c, "signal")
  /\ UNCHANGED <<shell, did, held, content, typed>>

(* cat fails if it has read nothing at all. *)
EndCode(c) == IF did[c] = 0 THEN "fail" ELSE "ok"

(* read() returns 0: cat ends, wc has its counts to write. *)
ReadsEnd(c) ==
  /\ Run(c) /\ Reads(c) /\ held[c] = 0 /\ did[c] < 2 /\ EndOfInput(c)
  /\ \/ Kind(c) = "cat" /\ Ends(c, EndCode(c)) /\ UNCHANGED <<did, held>>
     \/ /\ Kind(c) = "wc"
        /\ did' = [did EXCEPT ![c] = 2] /\ held' = [held EXCEPT ![c] = 1]
        /\ UNCHANGED <<ends, state, code>>
  /\ UNCHANGED <<shell, content, typed>>

(* The end of the other commands: cat of an empty file succeeds with no    *)
(* output, and cat and wc fail when there is no such file.                 *)
Finishes(c) ==
  /\ Run(c)
  /\ \/ Kind(c) = "source" /\ did[c] = 2 /\ Ends(c, "ok")
     \/ Kind(c) = "wc" /\ did[c] = 2 /\ held[c] = 0 /\ Ends(c, "ok")
     \/ Kind(c) = "file" /\ (did[c] > 0 \/ commands[c][1] = "cat") /\ Ends(c, "ok")
     \/ Kind(c) = "file" /\ did[c] = 0 /\ Ends(c, "fail")
     \/ Kind(c) = "fail" /\ Ends(c, "fail")
  /\ UNCHANGED <<shell, did, held, content, typed>>

---------------------------------------------------------------------------
(* Ctrl-C. *)

InRead(c) == Reads(c) /\ held[c] = 0 /\ did[c] < 2 /\ (c = 1 \/ Available(c) = 0)

InWrite(c) ==
  \/ held[c] > 0 /\ ~Room(c, held[c])
  \/ Kind(c) \in {"source", "file"} /\ did[c] < 2 /\ ~Room(c, 1)

(* The signal ends the program; the builtins still have the handler of the *)
(* shell.  cat and wc take a read() that fails for the end of input, and   *)
(* display_message() does not look at the result of write().               *)
Dies(c) == Kind(c) = "yes" \/ (Kind(c) = "cat" /\ InRead(c))
CodeAfter(c) == IF Kind(c) = "yes" THEN "signal" ELSE EndCode(c)
DidAfter(c) ==
  CASE Kind(c) = "wc" -> 2
    [] Kind(c) \in {"source", "file"} /\ did[c] < 2 -> did[c] + 1
    [] OTHER -> did[c]
HeldAfter(c) == IF Kind(c) = "wc" /\ InRead(c) THEN 1 ELSE 0

(* Ctrl-C while the shell waits: waitpid() fails with EINTR and leaves     *)
(* status as it is.  Of the children it matters to those that are in a     *)
(* read() or a write() that waits, and to the programs.                    *)
Interrupt ==
  /\ pc = "wait" /\ state[i] # "zombie"
  /\ disturbed' = TRUE
  /\ \E hit \in SUBSET {c \in Children : Run(c) /\ (Kind(c) = "yes" \/ InRead(c) \/ InWrite(c))} :
       /\ state' = [c \in Children |-> IF c \in hit /\ Dies(c) THEN "zombie" ELSE state[c]]
       /\ code' = [c \in Children |-> IF c \in hit /\ Dies(c) THEN CodeAfter(c) ELSE code[c]]
       /\ did' = [c \in Children |-> IF c \in hit THEN DidAfter(c) ELSE did[c]]
       /\ held' = [c \in Children |-> IF c \in hit THEN HeldAfter(c) ELSE held[c]]
  /\ Waited(status)
  /\ UNCHANGED <<ends, content, typed>>

execute_pipeline == Split \/ CreatePipes \/ Fork \/ ClosePipes \/ Wait

Child(c) ==
  \/ SetUp(c) \/ Produces(c) \/ Consumes(c) \/ Writes(c) \/ BrokenPipe(c)
  \/ ReadsEnd(c) \/ Finishes(c)

Next ==
  \/ \E t \in Lines : execute_command(t)
  \/ execute_pipeline
  \/ PipeFails
  \/ ForkFails
  \/ Interrupt
  \/ NextLine
  \/ Exit
  \/ \E c \in Children : Child(c)

Spec == Init /\ [][Next]_vars

(* The shell and its children are processes of their own.  No failure of a *)
(* system call and no Ctrl-C is ever certain to come.                      *)
FairSpec ==
  /\ Spec
  /\ WF_vars(execute_pipeline)
  /\ \A c \in Children : WF_vars(Child(c))

---------------------------------------------------------------------------
(* Properties. *)

Started == pc \in {"fork", "wait"}

(* The pipes are counted in one loop and the line is split in another, and *)
(* the arrays of the second are sized by the first: whatever stands in the *)
(* line, there is one command more than there are pipes, and no command is *)
(* empty (commands.c:62-104, 198-220).                                     *)
CountsAgree ==
  Started => /\ Len(commands) = number_of_pipes + 1
             /\ \A n \in DOMAIN commands : commands[n] # <<>>

(* Nobody but its two neighbours has a pipe open once the shell waits and  *)
(* the children have set themselves up, so the end of a command is what    *)
(* the next one and the one before it get to see (commands.c:133-145, 176).*)
OnlyNeighbours ==
  pc = "wait" /\ (\A c \in Children : state[c] # "forked") =>
    \A j \in 1 .. MaxCommands - 1 : Writers(j) \subseteq {j} /\ Readers(j) \subseteq {j + 1}

(* Back at the prompt the shell has no pipe open, except after a fork that *)
(* failed (commands.c:109-126, 176).                                       *)
NoLeak ==
  pc = "returned" /\ ends[Shell] # {} => result = "-1" /\ disturbed /\ i <= Len(commands)

(* "Return 0 on success, -1 on failure" (commands.c:57): undisturbed, a    *)
(* pipeline succeeds if and only if each of its commands did.              *)
ExitCodesDecide ==
  pc = "returned" /\ ~disturbed /\ commands # <<>> =>
    (result = "0" <=> \A c \in 1 .. Len(commands) : code[c] = "ok")

(* Every yes has a command behind it that ends without having read all of  *)
(* its input, and no wc in between.                                        *)
Finite ==
  \A c \in 1 .. Len(commands) : Kind(c) = "yes" =>
    \E d \in c + 1 .. Len(commands) :
      /\ Kind(d) \notin {"cat", "wc", "yes"}
      /\ \A e \in c + 1 .. d - 1 : Kind(e) # "wc"

(* Every pipeline comes to its end, whatever the capacity of the pipes: no *)
(* reader waits for a writer that is gone, no writer for a reader that is  *)
(* gone, and the shell does not wait for ever (commands.c:121-193).        *)
PipelineReturns == (Started /\ Finite) ~> (pc = "returned")
===========================================================================
