---------------------------- MODULE JobsProofs ----------------------------
(***************************************************************************)
(* The job table is correct for every table size, every set of pids and    *)
(* every set of signals, with and without the sanitizers.                  *)
(***************************************************************************)
EXTENDS Jobs, TLAPS

(* execute_bin() waits for a child of its own, and the child is not a job. *)
FgInv ==
  /\ pc = "wait" <=> fg # NoPid
  /\ fg # NoPid => IsChild(fg) /\ fg \notin launched

IInv == TypeOK /\ TableInv /\ FgInv

(* With the slots in use forming a prefix, the loops visit all of them. *)
LEMMA ScannedIsOccupied ==
  ASSUME TypeOK, OccupiedPrefix
  PROVE  Scanned = {i \in Slots : avail[i] # Free}
BY MaxProcessAssumption DEF TypeOK, OccupiedPrefix, Scanned, Slots, Free

LEMMA InitIInv == Init => IInv
BY MaxProcessAssumption, PidsAssumption
DEF Init, IInv, TypeOK, TableInv, FgInv, OccupiedPrefix, ArraysAgree,
    ListedAreChildren, LaunchedAreChildren, Slots, Free, Running, Done, Killed

(* A step that leaves the table, fg and launched alone keeps the invariant *)
(* if it loses no child.                                                   *)
LEMMA TableUntouched ==
  ASSUME IInv, UNCHANGED <<table, launched>>,
         pc' \in {"prompt", "exec", "wait", "exited", "aborted", "badfree"},
         proc' \in [Pids -> {"none", "run", "spared", "dying", "zombie", "foreign"}],
         \A p \in launched : IsChild(p)', FgInv', fg' \in Pids \cup {NoPid}
  PROVE  IInv'
BY DEF IInv, TypeOK, TableInv, FgInv, OccupiedPrefix, ArraysAgree, table,
       ListedAreChildren, LaunchedAreChildren

(* One pass over the table: the core of the argument.  Whatever the pass   *)
(* reaps leaves the listing, because the loop reaches every slot in use.   *)
LEMMA DisplayPreserves == ASSUME IInv, display_done_process PROVE IInv'
<1>1. CASE OutOfBounds
  BY <1>1, TableUntouched DEF display_done_process, OutOfBounds, IInv, TypeOK, TableInv,
     FgInv, LaunchedAreChildren, IsChild
<1>2. CASE ~OutOfBounds
  <2> USE DEF Free, Running, Done, Killed
  <2>1. Scanned = {i \in Slots : avail[i] # Free}
    BY ScannedIsOccupied DEF IInv, TableInv
  <2>2. /\ pc = "prompt" /\ pc' = "exec" /\ fg' = fg /\ bgPid' = bgPid
        /\ command' = command
        /\ proc' = [p \in Pids |-> IF p \in Zombies THEN "none" ELSE proc[p]]
        /\ launched' = launched \ Zombies
        /\ is_running' = runningAfterLoops
        /\ announced' = announced \cup Announced
        /\ avail' = IF all_terminated THEN [i \in Slots |-> Free] ELSE availAfterLoops
    BY <1>2 DEF display_done_process
  <2>3. TypeOK'
    BY <2>2 DEF IInv, TypeOK, runningAfterLoops, availAfterLoops, Announced, Reaped, Scanned
  <2>4. ASSUME NEW i \in Slots, is_running[i] = 1
        PROVE  i \in Scanned
    BY <2>1, <2>4 DEF IInv, TypeOK, TableInv, ArraysAgree
  <2>5. OccupiedPrefix'
    BY <2>2, <2>1 DEF IInv, TypeOK, TableInv, OccupiedPrefix, availAfterLoops, Announced, Reaped
  <2>6. ArraysAgree'
    <3>1. CASE all_terminated
      BY <3>1, <2>1, <2>2, <2>4 DEF IInv, TypeOK, TableInv, ArraysAgree, all_terminated,
         availAfterLoops, runningAfterLoops, Announced, Reaped
    <3>2. CASE ~all_terminated
      BY <3>2, <2>2, <2>4 DEF IInv, TypeOK, TableInv, ArraysAgree,
         availAfterLoops, runningAfterLoops, Announced, Reaped
    <3> QED BY <3>1, <3>2
  <2>7. ListedAreChildren'
    <3> SUFFICES ASSUME NEW i \in Slots, is_running'[i] = 1
                 PROVE  /\ bgPid'[i] \in launched'
                        /\ \A j \in Slots : (is_running'[j] = 1 /\ bgPid'[j] = bgPid'[i]) => j = i
      BY DEF ListedAreChildren
    <3>1. \A j \in Slots : is_running'[j] = 1 => is_running[j] = 1 /\ j \notin Announced
      BY <2>2 DEF IInv, TypeOK, runningAfterLoops
    <3>2. bgPid[i] \notin Zombies
      BY <3>1, <2>4 DEF Announced, Reaped
    <3> QED BY <3>1, <3>2, <2>2 DEF IInv, TableInv, ListedAreChildren
  <2>8. LaunchedAreChildren'
    BY <2>2 DEF IInv, TypeOK, TableInv, LaunchedAreChildren, IsChild
  <2>9. FgInv'
    BY <2>2, PidsAssumption DEF IInv, TypeOK, FgInv, IsChild
  <2> QED BY <2>3, <2>5, <2>6, <2>7, <2>8, <2>9 DEF IInv, TableInv
<1> QED BY <1>1, <1>2

LEMMA RunInBackgroundPreserves ==
  ASSUME IInv, NEW p \in Pids, NEW cmd \in Commands, RunInBackground(p, cmd)
  PROVE  IInv'
<1> USE DEF Free, Running, Done, Killed
<1>1. /\ pc = "exec" /\ pc' = "prompt" /\ proc[p] = "none" /\ fg' = fg
      /\ proc' = [proc EXCEPT ![p] = "run"]
      /\ launched' \in {launched, launched \cup {p}}
  BY DEF RunInBackground
<1>2. p \notin launched
  BY <1>1 DEF IInv, TableInv, LaunchedAreChildren, IsChild
<1>3. LaunchedAreChildren' /\ FgInv'
  BY <1>1, PidsAssumption DEF IInv, TypeOK, TableInv, LaunchedAreChildren, FgInv, IsChild
<1>4. CASE UNCHANGED <<table, launched>>
  BY <1>1, <1>3, <1>4 DEF IInv, TypeOK, TableInv, OccupiedPrefix, ArraysAgree,
     ListedAreChildren, table
<1>5. ASSUME NEW i \in Slots, find_new_spot(i), add_bg_process(p, cmd, i),
             launched' = launched \cup {p}
      PROVE  IInv'
  <2>1. TypeOK'
    BY <1>1, <1>5, CommandsAssumption DEF IInv, TypeOK, add_bg_process
  <2>2. OccupiedPrefix'
    BY <1>5, MaxProcessAssumption DEF IInv, TypeOK, TableInv, OccupiedPrefix, find_new_spot,
       add_bg_process, Slots
  <2>3. ArraysAgree'
    BY <1>5 DEF IInv, TypeOK, TableInv, ArraysAgree, add_bg_process
  <2>4. ListedAreChildren'
    BY <1>1, <1>2, <1>5 DEF IInv, TypeOK, TableInv, ListedAreChildren, add_bg_process
  <2> QED BY <1>3, <2>1, <2>2, <2>3, <2>4 DEF IInv, TableInv
<1> QED BY <1>4, <1>5 DEF RunInBackground

(* kill marks slots that are in use, and signals lose no child. *)
LEMMA KillPreserves ==
  ASSUME IInv, NEW p \in Pids \cup {NoPid}, NEW sig \in Signals, MarkKilled(p, sig),
         pc = "exec", pc' \in {"prompt", "exited"},
         proc' \in [Pids -> {"none", "run", "spared", "dying", "zombie", "foreign"}],
         \A q \in Pids : IsChild(q) => IsChild(q)',
         UNCHANGED <<bgPid, is_running, command, announced, fg, launched>>
  PROVE  IInv'
<1> USE DEF Free, Running, Done, Killed
<1>1. avail' \in [Slots -> {Running, Free, Done, Killed}]
  BY DEF IInv, TypeOK, MarkKilled
<1>2. \A i \in Slots : /\ avail'[i] = Free <=> avail[i] = Free
                       /\ avail'[i] \in {avail[i], Killed}
  <2> SUFFICES ASSUME NEW i \in Slots
               PROVE  /\ avail'[i] = Free <=> avail[i] = Free
                      /\ avail'[i] \in {avail[i], Killed}
    OBVIOUS
  <2>1. KillMatch(p, i) => avail[i] # Free
    BY DEF KillMatch, Scanned, Slots
  <2> QED BY <2>1 DEF IInv, TypeOK, MarkKilled
<1>3. TypeOK' /\ LaunchedAreChildren' /\ FgInv'
  BY <1>1, PidsAssumption DEF IInv, TypeOK, TableInv, LaunchedAreChildren, FgInv
<1>4. OccupiedPrefix' /\ ArraysAgree' /\ ListedAreChildren'
  BY <1>1, <1>2 DEF IInv, TypeOK, TableInv, OccupiedPrefix, ArraysAgree, ListedAreChildren
<1> QED BY <1>3, <1>4 DEF IInv, TableInv

LEMMA BnKillPreserves ==
  ASSUME IInv, NEW sig \in Signals,
         bn_kill_group(sig) \/ \E p \in Pids : bn_kill(p, sig)
  PROVE  IInv'
<1>1. CASE bn_kill_group(sig)
  BY <1>1, KillPreserves DEF bn_kill_group, IInv, TypeOK, IsChild
<1>2. ASSUME NEW p \in Pids, bn_kill(p, sig) PROVE IInv'
  BY <1>2, KillPreserves DEF bn_kill, Signalled, IInv, TypeOK, IsChild
<1> QED BY <1>1, <1>2

(* The steps that leave the table alone. *)
LEMMA OthersPreserve ==
  ASSUME IInv,
         \/ OtherLine \/ bn_ps \/ WaitReturns \/ WaitInterrupted \/ Exit
         \/ \E p \in Pids : execute_bin(p) \/ ChildExits(p) \/ ForeignStarts(p) \/ ForeignEnds(p)
         \/ UNCHANGED vars
  PROVE  IInv'
<1> USE PidsAssumption DEF IInv, TypeOK, TableInv, LaunchedAreChildren, FgInv, IsChild
<1>1. CASE OtherLine \/ bn_ps \/ Exit
  BY <1>1, TableUntouched DEF OtherLine, bn_ps, OutOfBounds, Exit
<1>2. CASE WaitReturns
  BY <1>2, TableUntouched DEF WaitReturns
<1>3. CASE WaitInterrupted
  BY <1>3, TableUntouched DEF WaitInterrupted
<1>4. ASSUME NEW p \in Pids, execute_bin(p) PROVE IInv'
  BY <1>4, TableUntouched DEF execute_bin
<1>5. ASSUME NEW p \in Pids, ChildExits(p) \/ ForeignStarts(p) \/ ForeignEnds(p) PROVE IInv'
  BY <1>5, TableUntouched DEF ChildExits, ForeignStarts, ForeignEnds
<1>6. CASE UNCHANGED vars
  BY <1>6, TableUntouched DEF vars, table
<1> QED BY <1>1, <1>2, <1>3, <1>4, <1>5, <1>6

(* IInv is inductive. *)
LEMMA NextIInv == IInv /\ [Next]_vars => IInv'
<1> SUFFICES ASSUME IInv, [Next]_vars PROVE IInv'
  OBVIOUS
<1> QED
  BY DisplayPreserves, RunInBackgroundPreserves, BnKillPreserves, OthersPreserve DEF Next

LEMMA SpecIInv == Spec => []IInv
BY InitIInv, NextIInv, PTL DEF Spec

(***************************************************************************)
(* The second layer: which jobs have a slot.  PsListsEveryJob is not       *)
(* inductive, because a slot that is marked as killed is still listed and  *)
(* leaves the listing with the next line: a job that runs and has survived *)
(* no signal needs a slot that is not marked.                              *)
(***************************************************************************)
HasSlot(p) == \E i \in Slots : is_running[i] = 1 /\ bgPid[i] = p /\ avail[i] = Running

RunningHaveSlot == \A p \in launched : proc[p] = "run" => HasSlot(p)

AnnouncedEnded == \A i \in announced : is_running[i] = 0

JobInv == RunningHaveSlot /\ AnnouncedEnded

LEMMA InitJobInv == Init => JobInv
BY DEF Init, JobInv, RunningHaveSlot, AnnouncedEnded

(* A step that leaves the table alone and starts no job. *)
LEMMA JobsUntouched ==
  ASSUME JobInv, UNCHANGED table, launched' \subseteq launched,
         \A p \in launched : proc'[p] = "run" => proc[p] = "run"
  PROVE  JobInv'
BY DEF JobInv, RunningHaveSlot, AnnouncedEnded, HasSlot, table

LEMMA DisplayJobInv ==
  ASSUME IInv, JobInv, display_done_process PROVE JobInv'
<1>1. CASE OutOfBounds
  BY <1>1, JobsUntouched DEF OutOfBounds
<1>2. CASE ~OutOfBounds
  <2> USE DEF Free, Running, Done, Killed
  <2>1. /\ bgPid' = bgPid
        /\ proc' = [p \in Pids |-> IF p \in Zombies THEN "none" ELSE proc[p]]
        /\ launched' = launched \ Zombies
        /\ is_running' = runningAfterLoops
        /\ announced' = announced \cup Announced
        /\ avail' = IF all_terminated THEN [i \in Slots |-> Free] ELSE availAfterLoops
    BY <1>2 DEF display_done_process
  <2>2. Scanned = {i \in Slots : avail[i] # Free}
    BY ScannedIsOccupied DEF IInv, TableInv
  <2>3. RunningHaveSlot'
    <3> SUFFICES ASSUME NEW p \in launched', proc'[p] = "run" PROVE HasSlot(p)'
      BY DEF RunningHaveSlot
    <3>1. p \in launched /\ p \in Pids /\ p \notin Zombies /\ proc[p] = "run"
      BY <2>1 DEF IInv, TypeOK
    <3>2. PICK i \in Slots : is_running[i] = 1 /\ bgPid[i] = p /\ avail[i] = Running
      BY <3>1 DEF JobInv, RunningHaveSlot, HasSlot
    <3>3. i \in Scanned /\ i \notin Announced
      BY <2>2, <3>1, <3>2 DEF Announced, Reaped
    <3>4. availAfterLoops[i] = Running /\ is_running'[i] = 1
      BY <2>1, <3>2, <3>3 DEF availAfterLoops, runningAfterLoops
    <3>5. avail'[i] = Running
      BY <2>1, <3>3, <3>4 DEF all_terminated
    <3> QED BY <2>1, <3>2, <3>4, <3>5 DEF HasSlot
  <2>4. AnnouncedEnded'
    <3>1. \A i \in announced' : i \in Slots /\ (i \in Announced \/ is_running[i] = 0)
      BY <2>1 DEF IInv, TypeOK, JobInv, AnnouncedEnded, Announced, Reaped, Scanned
    <3> QED BY <2>1, <3>1 DEF AnnouncedEnded, runningAfterLoops
  <2> QED BY <2>3, <2>4 DEF JobInv
<1> QED BY <1>1, <1>2

LEMMA RunInBackgroundJobInv ==
  ASSUME IInv, JobInv, NEW p \in Pids, NEW cmd \in Commands, RunInBackground(p, cmd)
  PROVE  JobInv'
<1> USE DEF Free, Running
<1>1. proc[p] = "none" /\ proc' = [proc EXCEPT ![p] = "run"] /\ p \notin launched
  BY DEF RunInBackground, IInv, TableInv, LaunchedAreChildren, IsChild
<1>2. CASE UNCHANGED <<table, launched>>
  BY <1>1, <1>2, JobsUntouched DEF IInv, TypeOK
<1>3. ASSUME NEW i \in Slots, find_new_spot(i), add_bg_process(p, cmd, i),
             launched' = launched \cup {p}
      PROVE  JobInv'
  <2>1. is_running[i] = 0
    BY <1>3 DEF find_new_spot, IInv, TypeOK, TableInv, ArraysAgree
  <2>2. \A q \in launched : HasSlot(q) => HasSlot(q)'
    BY <1>3, <2>1 DEF HasSlot, add_bg_process, IInv, TypeOK
  <2>3. HasSlot(p)'
    BY <1>3 DEF HasSlot, add_bg_process, IInv, TypeOK
  <2>4. RunningHaveSlot'
    BY <1>1, <1>3, <2>2, <2>3 DEF RunningHaveSlot, JobInv, IInv, TypeOK
  <2>5. AnnouncedEnded'
    BY <1>3 DEF AnnouncedEnded, JobInv, add_bg_process, IInv, TypeOK
  <2> QED BY <2>4, <2>5 DEF JobInv
<1> QED BY <1>2, <1>3 DEF RunInBackground

(* A signal takes the slot of a job only from a job that it ends or that   *)
(* counts as spared.                                                       *)
LEMMA KillJobInv ==
  ASSUME IInv, JobInv, NEW sig \in Signals,
         bn_kill_group(sig) \/ \E p \in Pids : bn_kill(p, sig)
  PROVE  JobInv'
<1> USE DEF Free, Running, Killed
<1>1. AnnouncedEnded'
  BY DEF bn_kill, bn_kill_group, JobInv, AnnouncedEnded
<1>2. CASE bn_kill_group(sig)
  <2>1. ASSUME NEW q \in launched', proc'[q] = "run" PROVE HasSlot(q)'
    <3>1. q \in launched /\ q \in Pids /\ proc[q] = "run"
      BY <1>2, <2>1 DEF bn_kill_group, IInv, TypeOK
    <3>2. PICK i \in Slots : is_running[i] = 1 /\ bgPid[i] = q /\ avail[i] = Running
      BY <3>1 DEF JobInv, RunningHaveSlot, HasSlot
    <3>3. ~KillMatch(NoPid, i)
      BY <3>1, <3>2, PidsAssumption DEF KillMatch
    <3> QED BY <1>2, <3>2, <3>3 DEF bn_kill_group, MarkKilled, HasSlot
  <2> QED BY <1>1, <2>1 DEF JobInv, RunningHaveSlot
<1>3. ASSUME NEW p \in Pids, bn_kill(p, sig) PROVE JobInv'
  <2>1. ASSUME NEW q \in launched', proc'[q] = "run" PROVE HasSlot(q)'
    <3>1. q \in launched /\ q \in Pids /\ proc[q] = "run"
      BY <1>3, <2>1 DEF bn_kill, Signalled, IInv, TypeOK
    <3>2. PICK i \in Slots : is_running[i] = 1 /\ bgPid[i] = q /\ avail[i] = Running
      BY <3>1 DEF JobInv, RunningHaveSlot, HasSlot
    <3>3. KillMatch(p, i) => sig = "int"
      <4>1. KillMatch(p, i) => q = p
        BY <3>2 DEF KillMatch
      <4>2. KillMatch(p, i) /\ sig # "int" => Marks(p, sig)
        BY <3>2 DEF Marks
      <4> QED BY <1>3, <2>1, <3>1, <4>1, <4>2, SignalsAssumption
              DEF bn_kill, Signalled, SignalKinds, IInv, TypeOK
    <3> QED BY <1>3, <3>2, <3>3 DEF bn_kill, MarkKilled, HasSlot
  <2> QED BY <1>1, <2>1 DEF JobInv, RunningHaveSlot
<1> QED BY <1>2, <1>3

LEMMA NextJobInv == IInv /\ JobInv /\ [Next]_vars => JobInv'
<1> SUFFICES ASSUME IInv, JobInv, [Next]_vars PROVE JobInv'
  OBVIOUS
<1>1. CASE OtherLine \/ bn_ps \/ Exit \/ WaitInterrupted \/ UNCHANGED vars
  BY <1>1, JobsUntouched DEF OtherLine, bn_ps, OutOfBounds, Exit, WaitInterrupted, vars, table
<1>2. CASE WaitReturns
  BY <1>2, JobsUntouched DEF WaitReturns, IInv, TypeOK
<1>3. ASSUME NEW p \in Pids,
             execute_bin(p) \/ ChildExits(p) \/ ForeignStarts(p) \/ ForeignEnds(p)
      PROVE  JobInv'
  BY <1>3, JobsUntouched DEF execute_bin, ChildExits, ForeignStarts, ForeignEnds,
     IInv, TypeOK, TableInv, LaunchedAreChildren, IsChild
<1> QED BY <1>1, <1>2, <1>3, DisplayJobInv, RunInBackgroundJobInv, KillJobInv DEF Next

LEMMA SpecJobInv == Spec => [](IInv /\ JobInv)
<1>1. IInv /\ JobInv /\ [Next]_vars => (IInv /\ JobInv)'
  BY NextIInv, NextJobInv
<1>2. Init => IInv /\ JobInv
  BY InitIInv, InitJobInv
<1> QED BY <1>1, <1>2, PTL DEF Spec

(* ps shows every job that runs and has survived no signal, for every      *)
(* number of slots, also with a full table and pids that are used again.   *)
THEOREM PsComplete == Spec => []PsListsEveryJob
<1>1. IInv /\ JobInv => PsListsEveryJob
  <2> SUFFICES ASSUME IInv, JobInv, NEW p \in launched, proc[p] = "run"
               PROVE  p \in PsListing
    BY DEF PsListsEveryJob
  <2>1. PICK i \in Slots : is_running[i] = 1 /\ bgPid[i] = p /\ avail[i] = Running
    BY DEF JobInv, RunningHaveSlot, HasSlot
  <2>2. i \in Scanned
    BY <2>1, ScannedIsOccupied DEF IInv, TableInv, Running, Free
  <2> QED BY <2>1, <2>2 DEF PsListing
<1> QED BY <1>1, SpecJobInv, PTL

(* No Done line is printed for a job that runs and got no signal it could  *)
(* have survived.                                                          *)
THEOREM DoneIsTrue == Spec => []DoneMeansDone
<1>1. IInv /\ JobInv => DoneMeansDone
  BY DEF DoneMeansDone, JobInv, RunningHaveSlot, HasSlot, AnnouncedEnded
<1> QED BY <1>1, SpecJobInv, PTL

(* Type correctness of the job table. *)
THEOREM TypeCorrect == Spec => []TypeOK
<1>1. IInv => TypeOK BY DEF IInv
<1> QED BY <1>1, SpecIInv, PTL

(* No hole ever opens in the table, so every loop over it sees every job. *)
THEOREM NoHoles == Spec => []OccupiedPrefix
<1>1. IInv => OccupiedPrefix BY DEF IInv, TableInv
<1> QED BY <1>1, SpecIInv, PTL

(* What ps shows are distinct unreaped children of the shell, whatever the *)
(* order in which children end, signals arrive and pids are reused.        *)
THEOREM PsShowsChildren == Spec => []ListedAreChildren
<1>1. IInv => ListedAreChildren BY DEF IInv, TableInv
<1> QED BY <1>1, SpecIInv, PTL

(* The status array and the flags agree. *)
THEOREM StatusConsistent == Spec => []ArraysAgree
<1>1. IInv => ArraysAgree BY DEF IInv, TableInv
<1> QED BY <1>1, SpecIInv, PTL

(* A running job keeps its slot, and so its job number, until it is        *)
(* announced: only a free slot is ever given away, and a free slot holds   *)
(* no running job.                                                         *)
THEOREM RunningJobKeepsSlot == Spec => JobKeepsSlot
<1> DEFINE Keeps == \A i \in Slots : is_running[i] = 1 /\ is_running'[i] = 1
                                        => bgPid'[i] = bgPid[i] /\ avail'[i] # Free
<1>1. ASSUME IInv, [Next]_vars PROVE [Keeps]_vars
  <2>1. CASE UNCHANGED vars
    BY <2>1
  <2>2. CASE Next
    <3>1. \A i \in Slots : is_running'[i] = 1 => avail'[i] # Free
      BY <1>1, NextIInv DEF IInv, TableInv, ArraysAgree
    <3>2. ASSUME NEW p \in Pids, NEW cmd \in Commands, RunInBackground(p, cmd)
          PROVE  \A i \in Slots : is_running[i] = 1 => bgPid'[i] = bgPid[i]
      BY <1>1, <3>2 DEF RunInBackground, find_new_spot, add_bg_process, table,
         IInv, TypeOK, TableInv, ArraysAgree
    <3>3. CASE \A p \in Pids : \A cmd \in Commands : ~RunInBackground(p, cmd)
      <4>1. bgPid' = bgPid
        BY <2>2, <3>3 DEF Next, display_done_process, OutOfBounds, OtherLine, bn_ps, WaitReturns,
           WaitInterrupted, Exit, execute_bin, ChildExits, ForeignStarts, ForeignEnds,
           bn_kill, bn_kill_group, table
      <4> QED BY <4>1, <3>1
    <3> QED BY <3>1, <3>2, <3>3
  <2> QED BY <1>1, <2>1, <2>2
<1> QED BY <1>1, SpecIInv, PTL DEF Spec, JobKeepsSlot
===========================================================================
