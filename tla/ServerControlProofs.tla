------------------------ MODULE ServerControlProofs ------------------------
(***************************************************************************)
(* Proofs about the control of the chat server, for any number of          *)
(* processes and ports.                                                    *)
(***************************************************************************)
EXTENDS ServerControl, TLAPS

IInv == TypeOK /\ ServersHoldNone

LEMMA InitInv == Init => IInv
BY ShellAssumption DEF Init, IInv, TypeOK, ServersHoldNone, Roles

(* A process that ends keeps the types, and holds no server. *)
LEMMA DiesInv ==
  ASSUME IInv, NEW p \in Pids, Dies(p), NEW T \in SUBSET Pids, term' = T
  PROVE  IInv'
BY DEF IInv, TypeOK, ServersHoldNone, Dies, Roles

LEMMA NextInv == IInv /\ [Next]_vars => IInv'
<1> SUFFICES ASSUME IInv, [Next]_vars PROVE IInv' OBVIOUS
<1> USE SentinelAssumption DEF IInv, TypeOK, ServersHoldNone, Roles, Runs, AfterLine
<1>1. ASSUME NEW p \in Pids, JobEnds(p) PROVE IInv'
  BY <1>1, DiesInv DEF JobEnds
<1>2. ASSUME NEW p \in Pids, Reap(p) PROVE IInv'
  BY <1>2 DEF Reap, globals
<1>3. ASSUME NEW p \in Pids, InitReaps(p) PROVE IInv'
  BY <1>3 DEF InitReaps, globals
<1>4. ASSUME NEW p \in Pids, ForkFails(p) PROVE IInv'
  BY <1>4 DEF ForkFails
<1>5. ASSUME NEW p \in Pids, bn_start_server(p) PROVE IInv'
  BY <1>5 DEF bn_start_server
<1>6. ASSUME NEW p \in Pids, SetupSucceeds(p) PROVE IInv'
  BY <1>6 DEF SetupSucceeds, globals
<1>7. ASSUME NEW p \in Pids, SetupFails(p) PROVE IInv'
  BY <1>7 DEF SetupFails, globals
<1>8. ASSUME NEW p \in Pids, bn_close_server(p) PROVE IInv'
  BY <1>8 DEF bn_close_server, cleanup_server, CleanupSignals, globals
<1>9. ASSUME NEW p \in Pids, Exit(p) PROVE IInv'
  <2>1. term \cup CleanupSignals(p) \in SUBSET Pids BY DEF CleanupSignals
  <2>. QED BY <1>9, <2>1, DiesInv DEF Exit
<1>10. ASSUME NEW p \in Pids, EofExit(p) PROVE IInv'
  BY <1>10, DiesInv DEF EofExit
<1>11. ASSUME NEW p \in Pids, UserSignals(p) PROVE IInv'
  BY <1>11 DEF UserSignals, globals
<1>12. ASSUME NEW p \in Pids, exit_handler(p) PROVE IInv'
  <2>1. (term \ {p}) \cup CleanupSignals(p) \in SUBSET Pids BY DEF CleanupSignals
  <2>. QED BY <1>12, <2>1, DiesInv DEF exit_handler
<1>13. ASSUME NEW p \in Pids, NEW c \in Pids, Background(p, c) PROVE IInv'
  BY <1>13 DEF Background
<1>14. ASSUME NEW p \in Pids, NEW c \in Pids, NEW n \in Ports, start_server(p, c, n)
       PROVE  IInv'
  BY <1>14 DEF start_server, PidAfterFork
<1>15. ASSUME NEW p \in Pids, SocketFails(p) PROVE IInv'
  BY <1>15, DiesInv DEF SocketFails
<1>16. CASE UNCHANGED vars
  BY <1>16 DEF vars
<1>. QED
  BY <1>1, <1>2, <1>3, <1>4, <1>5, <1>6, <1>7, <1>8, <1>9, <1>10, <1>11, <1>12, <1>13,
     <1>14, <1>15, <1>16 DEF Next

LEMMA Invariant == Spec => []IInv
<1>. QED BY InitInv, NextInv, PTL DEF Spec

(* Types, for any set of processes and ports. *)
THEOREM TypeCorrect == Spec => []TypeOK
<1>1. IInv => TypeOK BY DEF IInv
<1>. QED BY Invariant, <1>1, PTL

(* The process that ends in a step is the one that the action names, and   *)
(* for a server that action is exit_handler() or the exit(1) for want of a *)
(* socket.                                                                 *)
LEMMA ServerStep ==
  ASSUME IInv, Next, NEW p \in Pids, role[p] \in {"starting", "server"}, role'[p] = "zombie"
  PROVE  exit_handler(p) \/ SocketFails(p)
<1> USE DEF IInv, TypeOK, Roles, Runs, AfterLine
<1>1. ASSUME NEW q \in Pids, JobEnds(q) PROVE FALSE
  BY <1>1 DEF JobEnds, Dies
<1>2. ASSUME NEW q \in Pids, Reap(q) PROVE FALSE BY <1>2 DEF Reap
<1>3. ASSUME NEW q \in Pids, InitReaps(q) PROVE FALSE BY <1>3 DEF InitReaps
<1>4. ASSUME NEW q \in Pids, ForkFails(q) PROVE FALSE BY <1>4 DEF ForkFails
<1>5. ASSUME NEW q \in Pids, bn_start_server(q) PROVE FALSE BY <1>5 DEF bn_start_server
<1>6. ASSUME NEW q \in Pids, SetupSucceeds(q) PROVE FALSE BY <1>6 DEF SetupSucceeds
<1>7. ASSUME NEW q \in Pids, SetupFails(q) PROVE FALSE BY <1>7 DEF SetupFails
<1>8. ASSUME NEW q \in Pids, bn_close_server(q) PROVE FALSE BY <1>8 DEF bn_close_server
<1>9. ASSUME NEW q \in Pids, Exit(q) PROVE FALSE BY <1>9 DEF Exit, Dies
<1>10. ASSUME NEW q \in Pids, EofExit(q) PROVE FALSE BY <1>10 DEF EofExit, Dies
<1>11. ASSUME NEW q \in Pids, UserSignals(q) PROVE FALSE BY <1>11 DEF UserSignals
<1>12. ASSUME NEW q \in Pids, exit_handler(q) PROVE q = p
  BY <1>12 DEF exit_handler, Dies
<1>13. ASSUME NEW q \in Pids, NEW c \in Pids, Background(q, c) PROVE FALSE
  BY <1>13 DEF Background
<1>14. ASSUME NEW q \in Pids, NEW c \in Pids, NEW n \in Ports, start_server(q, c, n)
       PROVE  FALSE
  BY <1>14 DEF start_server
<1>15. ASSUME NEW q \in Pids, SocketFails(q) PROVE q = p
  BY <1>15 DEF SocketFails, Dies
<1>. QED
  BY <1>1, <1>2, <1>3, <1>4, <1>5, <1>6, <1>7, <1>8, <1>9, <1>10, <1>11, <1>12, <1>13,
     <1>14, <1>15 DEF Next

(* A server that ends signals nobody, whatever the shells and jobs around  *)
(* it have started, closed or forgotten: cleanup_server() does not act     *)
(* where server_pid is the 0 of fork() (mysh.c:26-29, server.c:31, 285).   *)
THEOREM ServerDiesAlone == Spec => ServerEndsAlone
<1>1. IInv /\ [Next]_vars =>
        [\A p \in Pids : role[p] \in {"starting", "server"} /\ role'[p] = "zombie"
                           => term' \subseteq term]_vars
  <2> SUFFICES ASSUME IInv, Next, NEW p \in Pids, role[p] \in {"starting", "server"},
                      role'[p] = "zombie"
               PROVE  term' \subseteq term
    OBVIOUS
  <2>1. exit_handler(p) \/ SocketFails(p) BY ServerStep
  <2>2. server_pid[p] = Zero BY DEF IInv, ServersHoldNone
  <2>3. CleanupSignals(p) = {} BY <2>2, SentinelAssumption DEF CleanupSignals, Holds
  <2>. QED BY <2>1, <2>3 DEF exit_handler, SocketFails
<1>. QED BY <1>1, Invariant, PTL DEF Spec, ServerEndsAlone
============================================================================
