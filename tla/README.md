# A TLA+ verification of mysh

`mysh` is a Unix shell in C (about 2,500 lines under `src/src/`) with variables,
pipes, background jobs and a chat system: any shell can start a chat server as a
child process and any shell can join it as a client. This directory holds TLA+
models of it, TLC configurations that check them on small instances, and proofs
checked by TLAPS. `PROJECT.json` maps each definition to its source lines.

## 1. The system

| Component | Source | State | Operations |
|---|---|---|---|
| Main loop and input | `mysh.c`, `io_helpers.c` | `input_buf`, `token_arr`, the buffer of stdin | read a line, reap, expand, tokenize, dispatch; handlers for SIGINT, SIGTERM, SIGHUP |
| Background jobs | `commands.c` 308-398, `mysh.c` 134-186, `builtins.c` 588-666 | `available_indices`, `bg_processes` | `&`, `display_done_process`, `ps`, `kill` |
| Command execution | `commands.c` 20-305 | pipes and children while a line runs | `execute_bin`, pipelines, the assignment branch |
| Variables | `variables.c` | linked list `head` | `set_variable`, `find_val_with_key`, `expand_variables`, `remove_all_var` |
| Server control | `server.c` 16-48, 283-302, `builtins.c` 668-702, `mysh.c` 26-64 | `server_pid`, `server_num`, one copy per process | `start-server`, `close-server`, `exit`, end of input, `exit_handler` |
| Chat server | `server.c` 50-276, `chat_helpers.c` | client list, `all_fds`, `client_id`, `client_connected` | accept, read, disconnect, name, broadcast, `\connected` |
| Socket layer | `socket.c` | `buf`, `inbuf` per connection | `read_from_socket`, `get_message`, `write_to_socket`, set-up, connect |
| Chat client, `send` | `builtins.c` 704-925 | `disconnect_client`, `has_unread_data`, the saved handler | the client loop, Ctrl-C, Ctrl-D |
| File builtins | `builtins.c` 54-586 | working directory, open descriptors | `ls`, `cd`, `cat`, `wc`, `echo` |

How they interact. The shell is single threaded; concurrency comes from the
processes around it. `main()` calls `display_done_process()` for each line before it
looks at the line, so the job table learns of a child's end only then, while `ps`
and `kill` use it in between. `fork()` copies `server_pid` and `server_num`, so jobs
and servers carry stale copies, and they inherit the handler that acts on them; in
a pipeline it copies both ends of every pipe. The server talks to clients over
blocking TCP sockets, in the same process group as the shell, so Ctrl-C reaches it
too. The terminal has two readers: `read()` in the shell, `getchar()` and `fgets()`
through the buffer of stdin. No handler is installed with `SA_RESTART`: each
blocking call can fail with `EINTR`.

What is hard here, and what would be correct:

* the job table identifies processes by pid, in an array that is only reset as a
  whole: it must have no holes, list its own running children and only those, keep
  job numbers, and reap everybody, though children end at any moment and pids come back;
* a pipeline ends only if every process closes what it inherited: each reader must see
  the end of its input and each writer the loss of its reader;
* the server removes list nodes inside two nested loops over that list, in two
  places with different bookkeeping, and peers fail between any two system calls:
  list and descriptor set must agree and nobody may miss or repeat a message;
* the stream of a client is cut at arbitrary places: framing must be exact, and a
  message must fit the receiver's buffer however it is cut;
* client and server both write to blocking sockets before they read;
* lines longer than a buffer are handled in three different ways by three readers
  that share one terminal;
* the globals of server control are duplicated by `fork()`: a process that is
  terminated must not take down somebody else's server;
* variable names are cut out of tokens and compared by prefix, and values are
  expanded into arrays of a fixed size, twice.

`PROJECT.json` lists these hazards line by line.

## 2. The modules

| Module | Role |
|---|---|
| `Jobs`, `MCJobs` | the job table, the processes it describes, `ps`, `kill`, the foreground wait |
| `JobsProofs` | proofs about `Jobs` |
| `Pipeline`, `MCPipeline` | `execute_command` up to the pipeline, `execute_pipeline`, its children; the lines of the instance |
| `PipelineProofs` | proofs about `Pipeline` |
| `ChatServer`, `MCChatServer` | `run_server()` with its helpers, and abstract peers; symmetry of connections |
| `ChatSystem` | extends `ChatServer`: the shell's own client and `send` in the place of the peers |
| `ChatProofs` | proofs about `ChatServer`, and on top of them about `ChatSystem`; it implements `ChatServer` |
| `Terminal` | `get_input()` and `bn_start_client()` on one terminal, with Ctrl-C and Ctrl-D |
| `TerminalProofs` | proofs about `Terminal` |
| `Environment` | abstract: a map from names to values |
| `VarList`, `MCVarList` | the linked list of variables and the assignment line; instantiates `Environment` |
| `VarListProofs` | proofs about `VarList`, the refinement included |
| `Expansion`, `MCExpansion` | `expand_variables()`, one character per step, and a reference definition |
| `ExpansionProofs` | proofs about `Expansion` and the reference definition |
| `Files`, `MCFiles` | `cd`, `ls`, `cat` and `wc` of a file; the trees and lines of the instance |
| `FilesProofs` | proofs about `Files` |
| `ServerControl` | `start-server`, `close-server` and the handlers over all processes |
| `ServerControlProofs` | proofs about `ServerControl` |

Definitions named `x_faulty` (or `x_` and a word) are variants of `x` with a
plausible programming error, used to confirm that each property can fail.

### Jobs

`avail`, `bgPid`, `is_running`, `command` are the two arrays of `commands.c` 17-18;
`proc` is the kernel's view of each pid: no process, a running child, one that survived
a signal for which `kill` marked its job (`"spared"`), one with a fatal signal on its way,
a zombie, or somebody else's process. `pc` is the place in `main()`: `"prompt"` (about
to read), `"exec"` (line read and table updated), `"wait"` (in the `waitpid` of
`execute_bin`). A line read is the whole of `display_done_process`: the `waitpid` loop,
the loop over killed jobs and the reset of the table are one action, since the shell
does them without a pause that another process could use to touch the table. With a
full table the loops read one element too many: `OutOfBounds` aborts, as the build of
the Makefile does, or the loop just ends, as in a build without sanitizers; both are
allowed. `"badfree"` is the invalid `free()` of `ps`. `launched` and `announced` are
history variables; a job that is refused because the table is full runs on, but is
none of the shell's jobs. The kinds of signal are `"fatal"` (the job will end), `"int"`
(the one `bn_kill` excludes) and `"benign"` (the job goes on). `bn_kill_group` is `kill`
with a word that `atoi()` turns into 0. The handlers' effect on a wait is
`WaitInterrupted`.

### Pipeline

`pc` follows `execute_command` and `execute_pipeline`; `ends[p]` are the descriptors of the
array `pipes` that process `p` has open, in the shell and in each child from its fork to
its exit. Standard input and output of a child that is set up are derived: it reads
pipe `c - 1` and writes pipe `c`. The commands are classified by what they do with
their input (`Kind`): `echo` and a file argument write a little and end, `yes` writes
for ever, `cat` and `wc` read to the end, everything else fails. Data is counted in units;
a pipe holds `Cap` of them. The first command reads the terminal, where the user has typed
`typed` units before the end of file. `cat` and `wc` read (`Consumes`, `ReadsEnd`) and write (`Writes`)
in separate steps, `held` being what is to be written, so they can block, lose their reader or be
interrupted in between. Ctrl-C hits the waiting shell and any of the children that
are blocked; the builtins among them have inherited the shell's handler, take a
failed `read()` for the end of their input, and do not notice a failed `write()`. `status` is
`"unset"` until the first wait that succeeds, and a test of an unset status may go either way.
The shell goes on to the next line whatever a pipeline has left behind; children that nobody
waits for and pipes that a failed fork left open are not followed beyond that point.

### ChatServer and ChatSystem

The server's steps end at the system calls whose outcome depends on a peer:
`Select` (with `accept_connection`), `ReadBytes`/`Disconnect` for one ready client,
one message out of the buffer (`ReplyCount`, `ReplyInterrupted`, `StartBroadcast`,
`DrainEnds`), and one write per receiver (`SendTo`, `SendFails`, `SendInterrupted`,
`BroadcastEnds`). `curr` and `dest` are the two cursors. A step of the code that follows
without such a call (going on to the next ready client, `Proceed`) belongs to the
action before it. A connection, its descriptor and its node are one value of
`Clients`. Within a round descriptors are closed but none is opened, so the reuse of
descriptor numbers by the kernel makes no difference to `listen_fds`.

The byte stream is a sequence of segments; `"part"` has no CRLF, the others end
in one. `read()` takes any number of them that fit, so a message may be split, and
several may arrive together. A message is the unit of a write. The peers connect,
send, read, close and reset at any time; a write to a peer that has closed succeeds
and may provoke a reset. `log`, `joined`, `got` are history; `got` counts a message whose
write to this client was interrupted as dealt with, and includes the client's own messages, which the
server sends back to it. `"uaf"` is the abort at the
first use of a freed node.

`ChatSystem` replaces the peers. Its clients follow the loop of `bn_start_client`: `select`,
then the terminal with a blocking write in one or two parts, then the socket. The
socket towards the server is bounded too (`InCap`), which is what lets both sides block.
`bn_send` connects, writes once and closes without ever reading.

### Terminal

A line is its length with the newline, a line of length 0 is Ctrl-D. `tty` holds the
lines not read to their end and `buffered` the number of characters of the first one that
sit in the buffer of stdin. `get_input` reads at most `MaxStr + 1` characters; a longer
line is dropped by `Junk`, a block of the buffer at a time. The client's loop is `Top`,
`Select`, `fgets`, `write_to_socket`, `read_from_socket`; `fgets` cuts a line into messages
and pushes the last character back. Ctrl-C runs whichever handler is installed
(`CtrlC`), or interrupts a call that blocks: `read()`, `connect()`, the waiting `select()`,
the polling `select()`, `write()`. `feof` is the sticky end of file indicator of stdin.
A write to a server that has closed succeeds, and the next one after its reset has come does not.

### VarList, Environment, Expansion

`nodes` is the list, oldest node first (the code inserts at the head). Names are
sequences of characters because the comparison `strncmp(current->key, key,
strlen(key))` is what matters. `set_variable` has three outcomes: update of the
first match, a new node, or failed allocation. `AssignmentFrom` is the branch for
a value with a `$` in it.
`Environment` is the promise: an assignment reported as stored (`stored`, a history
variable) changes its own name's value and no other.

`Expansion` takes the lookup for granted and steps through the loop of `expand_variables`.
`remaining` is a word that wraps (`Word`), as `size_t` does. `Strncat` writes whatever `remaining`
lets it write, behind `array` too; a call that has done so, or that reads behind `var_name`, ends in
`"overflow"`. The second pass is the one of `echo` (`bn_echo`) and of the assignment branch
(`AssignExpanded`). `Expanded` is the reference: text, then for every `$`
the value of the name behind it. `Chars` is the alphabet; only `$` has a meaning in it.

### Files

A path is its leading `/` and its components; a file system is a set of directories
and the texts of the files. `cd_path` (with `...` and `....`) and the loops of `parse_ls`,
`recursive_ls`, `cat` and `wc` are operators, one turn of a loop an operator of its own
(`parse_turn`, `CatTurn`, `Count`, `ListDirectory`); the four builtins are actions. What lasts
between commands is the working directory and `free`, the number of descriptors left, which
`wc` lowers for good because it never closes its file. Tokens reach the builtins after the
expansion by `main()`, so a variable in a path is the rare case of a value that ends in
a `$`. What `ls` prints is a bag, since the order of `readdir()` is not known. The properties
have definitions of their own: `Journey` goes along the argument of `cd` as it was typed; `WellFormed`
says which lines of `ls` the code should accept, `Sensible` adds that a depth is positive, and `LookedInto`
which directories a line asks for, `Enough` whether there are descriptors for them; `OutputExact` is
about the text of the file, not about buffers.

### ServerControl

Every process has its own `server_pid` and `server_num`. Roles follow the code: a
shell, a background job, the parent between `fork()` and `server_num = 1`
(`"forked"`), the child before and after `setup_server_socket`. A child whose
set-up fails continues as what its parent was, which is what the code does (`SetupFails`, for any
reason: `malloc`, `setsockopt`, `bind`, `listen`); only a failed `socket()` makes it exit (`SocketFails`).
`term` holds pending SIGTERM/SIGHUP; `exit_handler` runs `cleanup_server` and
exits, in every process forked from the shell. `server_port`, only printed, is
left out.

## 3. The runs

| Run | Instance | Shows |
|---|---|---|
| `jobs` | 2 slots, 3 pids, all signals | no holes, only children listed, `ps` complete, Done means done, numbers kept, everybody reaped |
| `pipeline` | all lines of up to 5 words, 2 pipes of 2 units, 1 unit typed | counts agree, nothing leaks, exit codes decide, every pipeline returns |
| `chat_server` | 3 clients, 3 segments, Ctrl-C | list/descriptors/names/framing/delivery |
| `chat_system` | 2 clients, 2 lines, sockets of 1, fairness | nobody thrown out, lines served |
| `terminal` | 9 lengths, 2 lines ahead, fairness | buffers, lines kept apart (but for 129 characters, and after Ctrl-D), cuts, Ctrl-C, progress |
| `var_list` | 4 valid and 2 invalid names, 3 values | unique keys, refinement of `Environment` |
| `expansion` | tokens and values of up to 5 characters | `expand_variables` against its definition, twice |
| `files` | 9 trees, 5 descriptors | `cd`, `ls`, `cat`, `wc` against their definitions |
| `server_control` | the shell and 2 more pids, 2 ports, fairness | a server ends alone, a signalled shell stops its server |
| `chat_use_after_free` | expected violation | `curr` freed by its own broadcast (`server.c:258`) |
| `client_ctrl_c` | expected violation | Ctrl-C ends the shell, not only the client (`builtins.c:822`) |
| `server_second_shell` | expected violation | a failed set-up leaves a second shell (`server.c:39`) |

An expected violation states what a comment or the repository's README says; the finding in
`PROJECT.json` quotes it. Where the code differs from a comment or the README on a case that no
run is about, the property about that code leaves out exactly this case, its comment says so, and
section 5 quotes the line that the code contradicts.

Bounds and why they are enough:

* `MaxProcess` 2, `Pids` 3: a hole needs two slots, a refused job one pid more than slots;
  with reuse of pids an announced job keeps its slot while its pid is given out again.
  The proofs cover all sizes.
* `MaxTokens` 5: three commands with every arrangement of bars, or two with an argument.
  `MaxCommands` 3: a command with a pipe on either side. `Cap` 2 and `CatCap` 1: a pipe
  that fills up, and a `cat` that drops a part of what it read. `MaxTyped` 1: a first command that
  reads something, or nothing.
* `Clients` 3: a client is removed before, at and behind the cursors, with the
  sender first, in the middle or last. In `ChatSystem` 2: a sender and a receiver.
* `MaxSegments` 3, for all peers together: two fragments and the end of one message,
  three messages in one read, or messages of three senders; 4 in `ChatSystem`, for two
  lines in two parts. `BufCap` 2: three fragments overflow the buffer, and the longest
  message of the client just fits. `SockCap` 1, `InCap` 1: one unread message blocks the
  next write, in either direction.
* `Terminal`: `MaxStr` 2, `MaxMsg` 3, `Block` 2, lengths 0 to 8: below, at and above each limit
  and its multiples; two lines, so that one can be damaged by the other.
* names `a`, `a1` (a prefix pair), `bb`, `_1` (separate), `1a` and the empty name
  (invalid); values empty, one character, and one that contains `=`.
* `Expansion`: `MaxStr` 5, values up to 4 characters, with and without `$`: cut values, wrap of
  `remaining` and text behind it. `Word` 16 is more than three times the array.
* `Files`: four levels of directories, the same names on several levels, texts shorter
  and longer than a buffer of `Chunk` 3 and an output of `MaxStr` 2, five descriptors; depths
  0 to 2, none, and one that does not fit into an `int`.
* 3 pids in `ServerControl`: shell and two servers, or a shell, its job and the job's
  server, with reuse of pids; two ports so that two servers run and one is busy.

Deadlock checking is off where the system may stop: the shell exits, the peers have
sent what they send, all processes have ended. `Expansion` and `Files` have it on.

Fairness. `Pipeline!FairSpec`: the shell and each child are processes that keep running;
no failure and no Ctrl-C is ever certain; the user ends the input of the first command. `ChatSystem!FairSysSpec`: the server and the
client processes keep running; users need not type, leave or connect.
`Terminal!FairSpec`: the process keeps running; nothing is assumed of the user and of the
server. `ServerControl!FairSpec`: a pending signal is delivered; nothing in the code
blocks signals. `EventuallyReaped` has its assumption in the formula: lines keep being
read; it assumes nothing about when children end.

## 4. What is proved

For all values of the constants, by TLAPS:

* `JobsProofs`: `TypeCorrect`, `NoHoles`, `StatusConsistent`, `PsShowsChildren`,
  `RunningJobKeepsSlot`, `PsComplete`, `DoneIsTrue`. The inductive invariant has two layers.
  `IInv` is `TypeOK /\ TableInv /\ FgInv`: `OccupiedPrefix` makes the loops, which stop at the
  first free slot, reach every slot in use (`ScannedIsOccupied`), so a reaped pid always
  leaves the listing, which `ListedAreChildren` needs to survive pid reuse; `FgInv` says the
  awaited child is no job, so `WaitReturns` takes no job's pid. On top of it stands
  `JobInv`: every running job that was spared no signal has a slot marked as running in
  both arrays (`RunningHaveSlot`), and an announced slot holds no such job
  (`AnnouncedEnded`). `PsComplete` and `DoneIsTrue` need both: neither completeness of `ps` nor
  the truth of a Done line is inductive by itself, since both depend on what `kill` marks.
* `VarListProofs`: `TypeCorrect`, `KeysUnique`, `ImplementsEnvironment`. `UniqueKeys` is
  not inductive: it rests on `NewerNotPrefix`, no newer key is a prefix of an older
  one, which `set_variable` preserves because it appends only when nothing matches.
  The refinement is for `Separate` names, those that neither begin another name in use
  nor begin with one; it cannot hold for the others (section 5).
* `ServerControlProofs`: `TypeCorrect`, `ServerDiesAlone`, from `ServersHoldNone`: the
  0 that `fork()` returns in the child is kept in its `server_pid`, and
  `cleanup_server` tests for a positive one.
* `ChatProofs`, the server: `TypeCorrect`, `FdsCorrect`, `NamesCorrect`, `NothingStuckCorrect` from
  `IInv`, then `NoGapsCorrect` and `FramingCorrect` on top of it. `FdsMatchList` alone is not
  inductive: `accept` adds to both list and set, so it takes `BacklogInv` (a connection
  enters the list once, from the backlog, with an empty buffer), and a broadcast removes
  nodes while both cursors stand in the list (`CursorInv`: `curr` may be freed while the
  server sends, `dest` not). `NamesInv` bounds every name by `client_id`, so a new one is
  fresh. `BufInv`: only the client being served has a complete message. `NoGaps` speaks of
  the moments between rounds and of the messages of others; `DeliveryInv` says for the middle
  of a broadcast who has been sent the last message, the sender included, and who is still
  due, and `DeliveredInOrder` that what is left without a client's own messages has no gap
  either. `FramingExact` is inductive given `IInv`; its
  two lemmas say what a sent segment (`NumberedSend`) and a message taken out of the
  buffer (`NumberedTake`) do to the numbering of one client's messages.
* `ChatProofs`, with the shell's clients: `ClientsArePeers` is `SysSpec => Spec`: each step of a client of the
  shell or of `send` is a step of a peer, so all of the above holds with them.
  `NeverThrownOutCorrect` rests on `StreamInv` (a client cuts a message once at most, so a
  buffer of two segments always has room or a complete message), `ReadyInv` (what
  `select()` found readable is still readable when its turn comes, however many
  broadcasts lie between, so `read()` cannot report an end that is none) and `GoneInv`.
* `TerminalProofs`: `TypeCorrect`, `NothingHiddenCorrect`, `LinesKeptApartCorrect`,
  `SplitCorrect`. Needed: only the first line of the queue is partly read (`QueueInv`), the
  buffer of stdin is empty unless the client is cutting a line (`BufferInv`), the first line
  is otherwise untouched (`FreshInv`), and what has been sent of the line is a multiple of
  `MAX_USER_MSG` characters (`PiecesInv`). The proof of `LinesKeptApart` failed at first: after a
  Ctrl-D in the client the end of file indicator of stdin is set, `getchar()` in `get_input`
  returns at once and the rest of a long line stays. The property says so now
  (`~feof`), and the instance has the lengths (6 to 8) at which that happens. So `LinesKeptApart`
  leaves out two cases, in both of which the code does not keep lines apart: the time after such a
  Ctrl-D, and what follows a line of 128 characters and its newline (section 5).
* `PipelineProofs`: `TypeCorrect`, `CountsCorrect`, `NeighboursCorrect`, `NoLeakCorrect`,
  `ExitCodesCorrect`. `CountsCorrect` needs that `Command`, which chooses the n-th bar by
  counting those before it, finds one and no two the same. `ExitCodesDecide` is about the
  moment the pipeline returns; `CodeInv` is its form within the wait loop.
* `ExpansionProofs`: `TypeCorrect`, `ReturnsExpansionCorrect`, `SecondPassCorrect`. The invariant
  relates the loop to the reference: `Partial(e, s)[n]` is what the text before the first
  `$` and the `$` up to place `n` expand to. `LoopInv` says that no `$` lies between the last one
  read, `d`, and the loop counter, that `var_name` is the text in between, and that the array
  `Fits` `Partial[d - 1]`: it is cut at `MaxStr`, and `remaining` is the room left modulo `Word`.
  `StrncatFits` does the arithmetic: once `remaining` has wrapped the array is full, and any
  text that follows overruns it or is empty. `TypeCorrect` does not bound the
  array: a `strncat()` that writes behind it makes it longer than `MAX_STR_LEN`, and `pc` is
  then `"overflow"`. `SecondPassCorrect` then needs only facts about the reference: with values free of `$` an expansion has a `$` at its last place at most, so
  has every prefix of it, and such a text expands to itself.
* `FilesProofs`: `TypeCorrect`, `CdArrivesAlways`, `ListingIsExact`, `OutputIsExact`. The actions are
  simple here and the loops inside them are not, so the invariants are those of the loops.
  `CdArrives` compares one walk along the path that `cd_path` puts together with the journey
  along its parts (`CdWalks`, by `WalkConcat`); the two need not fail with the same value,
  hence the relation `Same`: the same directory, or none in either case. For `wc`, `Counted(s, k)`
  counts the first `k` characters by definition. For `cat`, `CatInv` says that a buffer begins at
  a place `Aligned` with its line and that the output so far is what `display_message`
  keeps of the text so far; `AllKept` says that this is the text itself if no line has
  more than `MAX_STR_LEN` characters, the case `OutputExact` is about.
  For `ls` there are two parts. `ParseInv` relates `ls_info` to the tokens read: which options were seen, that the last depth counts and all substrings agree,
  that no option is waiting for its argument (`Boundary`), and that a line is given up only
  if it is not `WellFormed`. `BagOf` turns a set of directories into the bag of their entries, and
  the bag of a disjoint union is the sum of the bags (`BagOfSplit`); a directory within depth and
  descriptors is its first level and the disjoint union of what lies under its entries
  (`UnderSplit`), so the recursion prints each directory exactly once (`RecursiveProperty`).
  `ReachedAsked` compares the directories reached with those asked for: they are the same
  if the descriptors last (`Enough`) and a part of them otherwise.
  That `ls --rec` without a depth ends is `DepthBounded`: no directory is deeper than there
  are directories.

Facts by induction (that `FlattenSeq` unfolds as its recursion says, that `Partial` grows, that
places without `$` add nothing, that the n-th bar exists, what the loops of `Files` and the
recursion of `ls` compute) are proved by a least
counterexample (`LeastExists`, from the well-foundedness of `<`), since the induction rules
of the library take an operator that the provers do not instantiate. That a recursive function
exists at all is proved too: by a closed form that satisfies its equation, or by `LoopRuns`,
which builds the states of a loop one turn after the other.

Assumptions on constants are the named ASSUMEs of the modules. Those that are not just
types or positive sizes: sentinels that are no pids and no clients; assignment tokens
contain a `=`, which is no letter or digit; a line has at most `MaxCommands` commands
(`CommandsAssumption`, a bound of the model, for every value of it); a client's message,
in its two parts, fits the server's buffer (`ClientAssumption`: `MAX_USER_MSG` and `\r\n` are
shorter than `BUF_SIZE`); tokens and values have at most `MAX_STR_LEN` characters
(`InputsAssumption`, `EnvsAssumption`: both come out of a line of that length, or out of
`expand_variables`), and `size_t` exceeds `MAX_STR_LEN` (`SizesAssumption`). In `Files`: a file
system is a finite tree in which every node lies in a directory and none is called `.` or `..`
(`TreesAssumption`); a relative path does not begin with an empty component, since the `/` behind it
would make it absolute (`PathsAssumption`); an option of `ls` is no number (`LsAssumption`).

Every invariant and action property of the passing runs is also a theorem. Only model-checked
are the liveness properties, which are out of the prover's reach: `EventuallyReaped`,
`PipelineReturns`, `LinesServed`, `CtrlCEndsClient`, `LinesAreRead` and `SignalStopsServer`.

## 5. Known deviations that no run is about

The models contain all of these; properties name them as exceptions where needed.

* `builtins.c:658`: `kill` marks a job as killed for every signal but SIGINT. A job that
  survives the signal is announced as Done and no longer listed by `ps` (`"spared"` in `Jobs`).
* `commands.c:350`: with all slots taken the loops read one element too many; the build of
  the Makefile aborts there, before a job can be refused. A refused job runs on, unlisted.
* `commands.c:353`: an announced job stays in its slot until all jobs have ended, so a
  `kill` of its pid has it announced a second time.
* `builtins.c:598`: a line with only `&` registers a job with an empty command; `ps`
  before that child is reaped passes the table's own array to `free()`.
* `commands.c:124`: a fork that fails in a pipeline leaves the pipes open in the shell and
  the commands already started unawaited.
* `commands.c:185`: the result of `waitpid()` is not looked at. When Ctrl-C interrupts it, the
  status of an earlier child, or an unset one, decides the result: a pipeline can return 0 while
  a later command still runs or has died ("Return 0 on success, -1 on failure",
  `commands.c:57`). `ExitCodesDecide` leaves disturbed pipelines out.
* `server.c:228`: a broadcast goes to its sender too, since the guard is commented out ("send to all
  other connected clients", `server.c:170`). `NoGaps` is about the messages of others.
* `server.c:229`: Ctrl-C while the server is blocked in a write makes that client miss
  the message and stay connected.
* `server.c:245`: a client removed by a failed broadcast is not taken off
  `client_connected`, which `\connected` reports.
* `builtins.c:887`: a client and the server can block each other in `write()`
  (`MutualWait`); it takes as many unread bytes as both sockets hold.
* `builtins.c:691`: after a second `start-server`, `close-server` reaches the second
  server only and records that none runs.
* `builtins.c:809`: a connection that fails leaves the client's handler of SIGINT in the shell.
* `builtins.c:829`: a Ctrl-C just before `select()` waits for the next line or message.
* `mysh.c:27`: a background job inherits `server_pid` and `server_num` and the handler of SIGTERM:
  a job of a builtin that is terminated takes the shell's server down with it.
* `io_helpers.c:44`: a command of 128 characters makes 129 with its newline and is refused
  ("Command is limited to 128-characters", the repository's `README.md:7`); the loop that drops
  the rest of it then drops the following line. After a Ctrl-D in the client the rest of an
  overlong line is not dropped at all, but executed. `LinesKeptApart` leaves both out.
* `variables.c:106`: assigning `a` when `a1` exists changes `a1`, if the node of `a1` is found
  first, returns 0, and `a` stays unset ("return 0 if stored successfully",
  `variables.c:92`). The refinement of `Environment` leaves such names out.
* `variables.c:252`, `263`: an expansion that is too long can be written behind the array,
  and `echo` of one of 128 characters runs out of `var_name`.
* `builtins.c:552`, `110`: `wc` never closes its file; with few descriptors left `ls --rec` silently
  stops at a lower depth and returns 0 ("traverse until the end", `builtins.c:102`; "Return 0 on
  success and -1 on error", `builtins.c:163`). `ListingExact` then says only that no name is
  made up.
* `builtins.c:268`: 0 and the empty word pass for a depth ("check if depth is given as positive
  integer", `builtins.c:267`), and so does a number beyond `int`, which may come out of `atoi()`
  negative: `ls --rec` then has no limit. `ListingExact` leaves all of them out.
* `io_helpers.c:14`: `cat` prints the first 128 characters of each line or buffer ("print out the
  content", `builtins.c:409`). `OutputExact` is about texts with shorter lines.
* `builtins.c:451`: `cat` and `wc` drop the leading `/` of a path with a `$` in it; in `cd` an
  empty variable in front of a `/` makes the path absolute.

## 6. Not modelled, and what is left

* Formatting and wording of messages, the loop with which `echo` joins its words, host
  lookup in `connect_to_server` (one way for it to fail), failures of `malloc` outside
  `set_variable`, failures of `accept` and `select` other than `EINTR`, `FD_SETSIZE`, the
  async-signal safety of `exit_handler`, `clean_exit` (never called), negative pids of `kill`.
* `tokenize_input`, `temp_buffer` (each `|` takes three of its 257 characters, so 65 of them
  in a long line overrun it) and `expanded_tokens` (256 entries that are never given back):
  plain counting, with no order of events to explore.
* Lengths of paths: `cd` appends a `/` without a bound, and `....` makes a path longer than the
  line; symbolic links, the order of `readdir()`, permissions.
* The newline that a builtin of a pipeline, which inherits the shell's handler of SIGINT, writes
  into its pipe when it is interrupted; the children and pipe ends that a failed or
  interrupted pipeline leaves behind are not followed past the pipeline.
* The flush of the terminal's queue on Ctrl-C, and a server's write that is cut in the
  middle of a message.

Worth proving next: the safety parts of the liveness arguments, such as that a pipeline in
which no process can move has returned.
