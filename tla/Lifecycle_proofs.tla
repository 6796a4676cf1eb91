---------------------------- MODULE Lifecycle_proofs ----------------------------
(***************************************************************************)
(* Proofs about the life of the process: what tasks, sockets and           *)
(* connections can be at any time, and that the socket file of an instance *)
(* that ended in good order is gone, for any number of instances and of    *)
(* Envoys.                                                                 *)
(***************************************************************************)
EXTENDS Lifecycle, TLAPS

USE NobodyAssumption

-----------------------------------------------------------------------------
(* A step, sorted by what it may do: End comes with many of them.          *)

\* The end of an instance keeps the types, whatever the guard before it.
LEMMA EndTyped ==
  ASSUME TypeOK, NEW p \in Process, NEW how \in {"done", "failed"}, End(p, how),
         file' \in Process \union {Nobody}
  PROVE  TypeOK'
BY DEF TypeOK, End, MainTo, Main, Server, Socket

LEMMA ServerOfRunningMain ==
  ASSUME TypeOK, NEW p \in Process, server[p] # "none"
  PROVE  main[p] \in {"awaitReady", "awaitLds", "issuing", "joining"}
BY DEF TypeOK

LEMMA TypeStep == TypeOK /\ [Next]_vars => TypeOK'
<1> SUFFICES ASSUME TypeOK, [Next]_vars PROVE TypeOK'
  OBVIOUS
<1>1. ASSUME NEW p \in Process, Start(p) PROVE TypeOK'
  BY <1>1 DEF TypeOK, Start, MainTo, Main, Server, Socket, Ended
<1>2. ASSUME NEW p \in Process, SetUp(p) PROVE TypeOK'
  BY <1>2 DEF TypeOK, SetUp, MainTo, Main
<1>3. ASSUME NEW p \in Process, SetUpFails(p) \/ NoSocket(p) \/ RemoveFails(p) PROVE TypeOK'
  BY <1>3, EndTyped DEF TypeOK, SetUpFails, NoSocket, RemoveFails
<1>4. ASSUME NEW p \in Process, RemoveExisting(p) PROVE TypeOK'
  BY <1>4 DEF TypeOK, RemoveExisting, MainTo, Main
<1>5. ASSUME NEW p \in Process, BindPath(p) PROVE TypeOK'
  BY <1>5 DEF TypeOK, BindPath, MainTo, Main
<1>6. ASSUME NEW p \in Process, BindFails(p) PROVE TypeOK'
  <2>1. file' \in Process \union {Nobody}
    BY <1>6 DEF TypeOK, BindFails
  <2> QED BY <1>6, <2>1, EndTyped DEF BindFails
<1>7. ASSUME NEW p \in Process, UseSystemdOnly(p) PROVE TypeOK'
  BY <1>7 DEF TypeOK, UseSystemdOnly, MainTo, Main
<1>8. ASSUME NEW p \in Process, SpawnServer(p) PROVE TypeOK'
  BY <1>8 DEF TypeOK, SpawnServer, MainTo, Main, Server
<1>9. ASSUME NEW p \in Process, AwaitReady(p) \/ WaitForLds(p) \/ Issued(p) PROVE TypeOK'
  BY <1>9 DEF TypeOK, AwaitReady, WaitForLds, Issued, MainTo, Main
<1>10. ASSUME NEW p \in Process, Join(p) PROVE TypeOK'
  BY <1>10, EndTyped DEF TypeOK, Join
<1>11. ASSUME NEW p \in Process, Signal(p) PROVE TypeOK'
  <2>1. CASE End(p, "failed")
    BY <1>11, <2>1, EndTyped DEF TypeOK, Signal
  <2>2. CASE ~End(p, "failed")
    BY <1>11, <2>2, ServerOfRunningMain DEF TypeOK, Signal, ServerTo, Server
  <2> QED BY <2>1, <2>2
<1>12. ASSUME NEW p \in Process, Crash(p) PROVE TypeOK'
  BY <1>12, EndTyped DEF TypeOK, Crash
<1>13. ASSUME NEW p \in Process, SendReady(p) \/ Serve(p) \/ ServeFails(p) PROVE TypeOK'
  BY <1>13, ServerOfRunningMain DEF TypeOK, SendReady, Serve, ServeFails, ServerTo, Server
<1>14. ASSUME NEW p \in Process, Drained(p) PROVE TypeOK'
  BY <1>14, ServerOfRunningMain DEF TypeOK, Drained, ServerTo, Server
<1>15. ASSUME NEW p \in Process, NEW c \in Client, Connect(c, p) \/ OpenLds(c, p)
       PROVE  TypeOK'
  BY <1>15 DEF TypeOK, Connect, OpenLds
<1>16. ASSUME NEW c \in Client, Disconnect(c) PROVE TypeOK'
  BY <1>16 DEF TypeOK, Disconnect
<1>17. CASE UNCHANGED vars
  BY <1>17 DEF TypeOK, vars
<1> QED
  BY <1>1, <1>2, <1>3, <1>4, <1>5, <1>6, <1>7, <1>8, <1>9, <1>10, <1>11, <1>12,
     <1>13, <1>14, <1>15, <1>16, <1>17 DEF Next, MainNext

\* Tasks, files and connections are what run() and XdsServer::run can make
\* them; in particular there is no server task before main spawns it and none
\* after main ended (main.rs:117-217, server.rs:29-75).
THEOREM LifecycleTypeCorrect == Spec => []TypeOK
<1>1. Init => TypeOK
  BY DEF Init, TypeOK, Main, Server, Socket
<1> QED
  BY <1>1, TypeStep, PTL DEF Spec

-----------------------------------------------------------------------------
(***************************************************************************)
(* NoFileAfterOrderlyEnd speaks of main at its end; what has to be kept    *)
(* until then is that the server, once it has stopped, left no file of     *)
(* this instance that it could remove, and that nothing but a bind of this *)
(* instance makes one.                                                     *)
(***************************************************************************)
Gone(p) == server[p] = "stopped" \/ main[p] = "done"

FileInv ==
  \A p \in Process : Gone(p) /\ "path" \in sockets[p] => file # p \/ unremoved[p]

\* The only steps after which an instance has a file it did not have before.
LEMMA FileIsBound ==
  ASSUME TypeOK, [Next]_vars, NEW p \in Process, file' = p, file # p
  PROVE  main[p] = "removed" /\ main'[p] # "done" /\ server'[p] # "stopped"
<1>1. ASSUME NEW q \in Process, BindPath(q) \/ BindFails(q)
      PROVE  main[p] = "removed" /\ main'[p] # "done" /\ server'[p] # "stopped"
  BY <1>1 DEF TypeOK, BindPath, BindFails, End, MainTo
<1>2. ASSUME NEW q \in Process, Drained(q) \/ RemoveExisting(q)
      PROVE  FALSE
  BY <1>2 DEF Drained, RemoveExisting
<1>3. \/ file' = file
      \/ \E q \in Process : BindPath(q) \/ BindFails(q) \/ Drained(q) \/ RemoveExisting(q)
  BY DEF Next, MainNext, vars, Start, SetUp, SetUpFails, UseSystemdOnly, NoSocket,
         SpawnServer, AwaitReady, WaitForLds, Issued, Join, SendReady, Serve, ServeFails,
         Signal, Crash, Connect, OpenLds, Disconnect, RemoveFails
<1> QED
  BY <1>1, <1>2, <1>3

\* An instance is gone only after its server stopped, has the sockets it was
\* started with, and no other instance answers for what it could not remove.
LEMMA GoneStep ==
  ASSUME TypeOK, [Next]_vars, NEW p \in Process, Gone(p)'
  PROVE  /\ sockets'[p] = sockets[p]
         /\ (Gone(p) /\ unremoved'[p] = unremoved[p]) \/ Drained(p)
<1> USE DEF Gone
<1> DEFINE Stays == sockets'[p] = sockets[p] /\ Gone(p) /\ unremoved'[p] = unremoved[p]
<1>1. ASSUME NEW q \in Process, Start(q) PROVE Stays
  BY <1>1 DEF TypeOK, Start, MainTo, Ended
<1>2. ASSUME NEW q \in Process, MainNext(q) PROVE Stays
  <2>1. CASE Join(q)
    BY <1>2, <2>1 DEF TypeOK, Join, End, MainTo
  <2>2. CASE ~Join(q)
    BY <1>2, <2>2 DEF TypeOK, MainNext, SetUp, SetUpFails, RemoveExisting, RemoveFails, BindPath,
       BindFails, UseSystemdOnly, NoSocket, SpawnServer, AwaitReady, WaitForLds, Issued,
       End, MainTo
  <2> QED BY <2>1, <2>2
<1>3. ASSUME NEW q \in Process, Signal(q) \/ Crash(q) PROVE Stays
  BY <1>3 DEF TypeOK, Signal, Crash, End, MainTo, ServerTo
<1>4. ASSUME NEW q \in Process, SendReady(q) \/ Serve(q) \/ ServeFails(q) PROVE Stays
  BY <1>4 DEF TypeOK, SendReady, Serve, ServeFails, ServerTo
<1>5. ASSUME NEW q \in Process, Drained(q)
      PROVE  sockets'[p] = sockets[p] /\ (Stays \/ Drained(p))
  BY <1>5 DEF TypeOK, Drained, ServerTo
<1>6. CASE UNCHANGED << main, server, sockets, unremoved >>
  BY <1>6
<1> QED
  BY <1>1, <1>2, <1>3, <1>4, <1>5, <1>6
     DEF Next, vars, Connect, OpenLds, Disconnect

LEMMA FileStep == TypeOK /\ FileInv /\ [Next]_vars => FileInv'
<1> SUFFICES ASSUME TypeOK, FileInv, [Next]_vars,
                    NEW p \in Process, Gone(p)', "path" \in sockets'[p]
             PROVE  file' # p \/ unremoved'[p]
  BY DEF FileInv
<1>1. CASE file = p /\ Drained(p)
  BY <1>1, GoneStep, NobodyAssumption DEF Drained, TypeOK
<1>2. CASE file = p /\ ~Drained(p)
  BY <1>2, GoneStep DEF FileInv
<1>3. CASE file # p
  BY <1>3, FileIsBound DEF Gone
<1> QED BY <1>1, <1>2, <1>3

\* A socket file that is left behind is the trace of a failure: an instance
\* that was given a socket_path and ended in good order has no file there,
\* whatever the other instances did to it in between, unless the removal
\* itself failed (server.rs:64-69).
THEOREM OrderlyEndLeavesNoFile == Spec => []NoFileAfterOrderlyEnd
<1>1. Init => FileInv
  BY DEF Init, FileInv
<1>2. FileInv => NoFileAfterOrderlyEnd
  BY DEF FileInv, Gone, NoFileAfterOrderlyEnd
<1> QED
  BY <1>1, <1>2, FileStep, LifecycleTypeCorrect, PTL DEF Spec
=============================================================================
