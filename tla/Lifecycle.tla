------------------------------ MODULE Lifecycle ------------------------------
(***************************************************************************)
(* The life of the process: run() of src/main.rs, from its setup to its    *)
(* shutdown, with the server task of src/xds/server.rs and the socket file *)
(* they share with other instances of the program.                         *)
(*                                                                         *)
(* Two tasks make the life of an instance: main binds the sockets, spawns  *)
(* the server, waits for an LDS stream, issues the certificates and then   *)
(* joins the server; the server serves until a signal and drains its       *)
(* connections before it ends.  Instances overlap when one is started      *)
(* while another still drains, and meet in the file at socket_path.        *)
(*                                                                         *)
(* An identifier stands for one instance after another.  How listeners,    *)
(* secrets and orders evolve meanwhile is modelled in XdsState, Renewal    *)
(* and ChallengeRouting.                                                   *)
(***************************************************************************)
CONSTANTS
  Process,      \* instances that may run at the same time
  Client,       \* Envoys: each is connected to one instance at most
  Nobody        \* no file; no connection

ASSUME NobodyAssumption == Nobody \notin Process

VARIABLES
  main,         \* where run() is, or how it ended
  server,       \* where the spawned XdsServer::run is
  sockets,      \* the sockets an instance is given: systemd's, socket_path
  file,         \* whose bind created the file that is at socket_path
  peer,         \* the instance each Envoy is connected to
  ldsSeen,      \* XdsState::lds_connected
  signalled,    \* a signal was received by the handlers of the instance
  unremoved     \* history: its socket file could not be removed at the end

vars == << main, server, sockets, file, peer, ldsSeen, signalled, unremoved >>

Main == {"starting", "binding", "removed", "bound", "awaitReady", "awaitLds",
         "issuing", "joining", "done", "failed"}
Server == {"none", "spawned", "ready", "serving", "draining", "stopped", "errored"}
Socket == {"systemd", "path"}

Ended(p) == main[p] \in {"done", "failed"}
NobodyConnected(p) == \A c \in Client : peer[c] # p

Init ==
  /\ main = [p \in Process |-> "done"]          \* none has been started yet
  /\ server = [p \in Process |-> "none"]
  /\ sockets = [p \in Process |-> {}]
  /\ file = Nobody
  /\ peer = [c \in Client |-> Nobody]
  /\ ldsSeen = [p \in Process |-> FALSE]
  /\ signalled = [p \in Process |-> FALSE]
  /\ unremoved = [p \in Process |-> FALSE]

-----------------------------------------------------------------------------
(* Main moves on, or ends and takes the server and the connections along.  *)

MainTo(p, place) == main' = [main EXCEPT ![p] = place]

\* Mutant: the server outlives main.
EndLeavingServer(p, how) ==
  /\ MainTo(p, how)
  /\ peer' = [c \in Client |-> IF peer[c] = p THEN Nobody ELSE peer[c]]
  /\ ldsSeen' = [ldsSeen EXCEPT ![p] = FALSE]
  /\ signalled' = [signalled EXCEPT ![p] = FALSE]
  /\ UNCHANGED << server, sockets, unremoved >>

End(p, how) ==
  /\ MainTo(p, how)
  /\ server' = [server EXCEPT ![p] = "none"]
  /\ peer' = [c \in Client |-> IF peer[c] = p THEN Nobody ELSE peer[c]]
  /\ ldsSeen' = [ldsSeen EXCEPT ![p] = FALSE]
  /\ signalled' = [signalled EXCEPT ![p] = FALSE]
  /\ UNCHANGED << sockets, unremoved >>

Start(p) ==
  /\ Ended(p)
  /\ MainTo(p, "starting")
  /\ \E given \in SUBSET Socket : sockets' = [sockets EXCEPT ![p] = given]
  /\ unremoved' = [unremoved EXCEPT ![p] = FALSE]
  /\ UNCHANGED << server, file, peer, ldsSeen, signalled >>

\* The storage, the account, the workload; the listeners and clusters.
SetUp(p) ==
  /\ main[p] = "starting"
  /\ MainTo(p, "binding")
  /\ UNCHANGED << server, sockets, file, peer, ldsSeen, signalled, unremoved >>

\* One of these fails, the account after its retries, or systemd_listeners.
SetUpFails(p) ==
  /\ main[p] = "starting"
  /\ End(p, "failed")
  /\ UNCHANGED file

\* bind_unix_socket removes what is at socket_path, whoever bound it ...
RemoveExisting(p) ==
  /\ main[p] = "binding"
  /\ "path" \in sockets[p]
  /\ file' = Nobody
  /\ MainTo(p, "removed")
  /\ UNCHANGED << server, sockets, peer, ldsSeen, signalled, unremoved >>

\* It cannot, or what was there is removed by another instance meanwhile.
RemoveFails(p) ==
  /\ main[p] = "binding"
  /\ "path" \in sockets[p]
  /\ End(p, "failed")
  /\ UNCHANGED file

\* ... and binds, unless another instance was faster.
BindPath(p) ==
  /\ main[p] = "removed"
  /\ file = Nobody
  /\ file' = p
  /\ MainTo(p, "bound")
  /\ UNCHANGED << server, sockets, peer, ldsSeen, signalled, unremoved >>

\* The directory, the bind or the permissions fail, the latter with the file
\* already there.
BindFails(p) ==
  /\ main[p] = "removed"
  /\ file' \in IF file = Nobody THEN {Nobody, p} ELSE {file}
  /\ End(p, "failed")

UseSystemdOnly(p) ==
  /\ main[p] = "binding"
  /\ sockets[p] = {"systemd"}
  /\ MainTo(p, "bound")
  /\ UNCHANGED << server, sockets, file, peer, ldsSeen, signalled, unremoved >>

NoSocket(p) ==
  /\ main[p] = "binding"
  /\ sockets[p] = {}
  /\ End(p, "failed")
  /\ UNCHANGED file

SpawnServer(p) ==
  /\ main[p] = "bound"
  /\ MainTo(p, "awaitReady")
  /\ server' = [server EXCEPT ![p] = "spawned"]
  /\ UNCHANGED << sockets, file, peer, ldsSeen, signalled, unremoved >>

AwaitReady(p) ==
  /\ main[p] = "awaitReady"
  /\ server[p] # "spawned"
  /\ MainTo(p, "awaitLds")
  /\ UNCHANGED << server, sockets, file, peer, ldsSeen, signalled, unremoved >>

\* Mutant: an LDS stream must be there when main looks.
WaitForConnectedLds(p) ==
  /\ main[p] = "awaitLds"
  /\ ldsSeen[p] /\ \E c \in Client : peer[c] = p
  /\ MainTo(p, "issuing")
  /\ UNCHANGED << server, sockets, file, peer, ldsSeen, signalled, unremoved >>

WaitForLds(p) ==
  /\ main[p] = "awaitLds"
  /\ ldsSeen[p]
  /\ MainTo(p, "issuing")
  /\ UNCHANGED << server, sockets, file, peer, ldsSeen, signalled, unremoved >>

\* initial_issuance returns Ok whatever the orders came to; the renewal loop
\* is spawned.
Issued(p) ==
  /\ main[p] = "issuing"
  /\ MainTo(p, "joining")
  /\ UNCHANGED << server, sockets, file, peer, ldsSeen, signalled, unremoved >>

Join(p) ==
  /\ main[p] = "joining"
  /\ \/ server[p] = "stopped" /\ End(p, "done")
     \/ server[p] = "errored" /\ End(p, "failed")
  /\ UNCHANGED file

-----------------------------------------------------------------------------
(* The server.                                                             *)

ServerTo(p, place) == server' = [server EXCEPT ![p] = place]

SendReady(p) ==
  /\ server[p] = "spawned"
  /\ ServerTo(p, "ready")
  /\ UNCHANGED << main, sockets, file, peer, ldsSeen, signalled, unremoved >>

\* The shutdown future is polled for the first time: this is what installs
\* the signal handlers.
Serve(p) ==
  /\ server[p] = "ready"
  /\ ServerTo(p, "serving")
  /\ UNCHANGED << main, sockets, file, peer, ldsSeen, signalled, unremoved >>

\* Accepting fails: the error leaves run() before its cleanup.
ServeFails(p) ==
  /\ server[p] = "serving"
  /\ ServerTo(p, "errored")
  /\ UNCHANGED << main, sockets, file, peer, ldsSeen, signalled, unremoved >>

\* Mutant: the socket file is left to the next instance.
DrainedLeavingFile(p) ==
  /\ server[p] = "draining"
  /\ NobodyConnected(p)
  /\ ServerTo(p, "stopped")
  /\ UNCHANGED << main, sockets, file, peer, ldsSeen, signalled, unremoved >>

\* Every connection is closed; what is at socket_path is removed, or cannot
\* be, which is ignored.
Drained(p) ==
  /\ server[p] = "draining"
  /\ NobodyConnected(p)
  /\ ServerTo(p, "stopped")
  /\ \/ /\ file' = IF "path" \in sockets[p] THEN Nobody ELSE file
        /\ UNCHANGED unremoved
     \/ /\ "path" \in sockets[p]
        /\ unremoved' = [unremoved EXCEPT ![p] = TRUE]
        /\ UNCHANGED file
  /\ UNCHANGED << main, sockets, peer, ldsSeen, signalled >>

-----------------------------------------------------------------------------
(* The environment.                                                        *)

\* SIGTERM or Ctrl+C, with the default action until there are handlers.  The
\* handlers stay installed, so that a second signal does nothing.
Signal(p) ==
  /\ ~Ended(p)
  /\ \/ /\ server[p] \in {"none", "spawned", "ready"}
        /\ End(p, "failed")
     \/ /\ server[p] = "serving"
        /\ signalled' = [signalled EXCEPT ![p] = TRUE]
        /\ ServerTo(p, "draining")
        /\ UNCHANGED << main, sockets, peer, ldsSeen, unremoved >>
  /\ UNCHANGED file

\* SIGKILL, a panic of main, the machine.
Crash(p) ==
  /\ ~Ended(p)
  /\ End(p, "failed")
  /\ UNCHANGED file

Connect(c, p) ==
  /\ peer[c] = Nobody
  /\ server[p] = "serving"
  /\ file = p \/ "systemd" \in sockets[p]
  /\ peer' = [peer EXCEPT ![c] = p]
  /\ UNCHANGED << main, server, sockets, file, ldsSeen, signalled, unremoved >>

\* stream_listeners calls mark_lds_connected.
OpenLds(c, p) ==
  /\ peer[c] = p
  /\ server[p] = "serving"
  /\ ldsSeen' = [ldsSeen EXCEPT ![p] = TRUE]
  /\ UNCHANGED << main, server, sockets, file, peer, signalled, unremoved >>

Disconnect(c) ==
  /\ peer[c] # Nobody
  /\ peer' = [peer EXCEPT ![c] = Nobody]
  /\ UNCHANGED << main, server, sockets, file, ldsSeen, signalled, unremoved >>

-----------------------------------------------------------------------------
MainNext(p) ==
  \/ SetUp(p) \/ SetUpFails(p) \/ RemoveExisting(p) \/ RemoveFails(p) \/ BindPath(p)
  \/ BindFails(p) \/ UseSystemdOnly(p) \/ NoSocket(p) \/ SpawnServer(p) \/ AwaitReady(p)
  \/ WaitForLds(p) \/ Issued(p) \/ Join(p)

Next ==
  \/ \E p \in Process :
       \/ Start(p) \/ MainNext(p) \/ Signal(p) \/ Crash(p)
       \/ SendReady(p) \/ Serve(p) \/ ServeFails(p) \/ Drained(p)
       \/ \E c \in Client : Connect(c, p) \/ OpenLds(c, p)
  \/ \E c \in Client : Disconnect(c)

(***************************************************************************)
(* The two tasks are polled whenever they can move, and initial issuance   *)
(* ends: Issued is part of MainNext.  Nobody has to start, to signal, to   *)
(* connect or to leave: an xDS stream ends on the side of the client only, *)
(* and nothing bounds the drain while it is there.                         *)
(***************************************************************************)
Fairness ==
  \A p \in Process :
    /\ WF_vars(MainNext(p))
    /\ WF_vars(SendReady(p) \/ Serve(p) \/ Drained(p))

Spec == Init /\ [][Next]_vars /\ Fairness

-----------------------------------------------------------------------------
(* Tasks, files and connections are what the code can make them.           *)
TypeOK ==
  /\ main \in [Process -> Main]
  /\ server \in [Process -> Server]
  /\ sockets \in [Process -> SUBSET Socket]
  /\ file \in Process \union {Nobody}
  /\ peer \in [Client -> Process \union {Nobody}]
  /\ ldsSeen \in [Process -> BOOLEAN]
  /\ signalled \in [Process -> BOOLEAN]
  /\ unremoved \in [Process -> BOOLEAN]
  /\ \A p \in Process :
       main[p] \notin {"awaitReady", "awaitLds", "issuing", "joining"} => server[p] = "none"

(***************************************************************************)
(* A socket file that is left behind is the trace of a failure: whatever   *)
(* the other instances do to the file, one that was given a socket_path    *)
(* and ended in good order has no file there, unless it could not remove   *)
(* it (server.rs:64-69).                                                   *)
(***************************************************************************)
NoFileAfterOrderlyEnd ==
  \A p \in Process :
    main[p] = "done" /\ "path" \in sockets[p] => file # p \/ unremoved[p]

(***************************************************************************)
(* A signal ends an instance that has seen an LDS stream, once its clients *)
(* have left: the server is drained, main finishes its issuance and joins  *)
(* it, although every stream is gone by then (main.rs:199-217).            *)
(***************************************************************************)
ShutdownCompletes ==
  \A p \in Process : signalled[p] /\ ldsSeen[p] /\ NobodyConnected(p) ~> Ended(p)

(***************************************************************************)
(* Stated by comments and messages, and not so.                            *)
(***************************************************************************)

\* main.rs:156: "Received SIGTERM, shutting down".  Not so if no LDS stream
\* was opened before, whether or not there is a client.
SignalEndsProcess == \A p \in Process : signalled[p] /\ NobodyConnected(p) ~> Ended(p)

\* The same message.  Not so as long as some client stays.
DrainEnds == \A p \in Process : server[p] = "draining" ~> server[p] # "draining"

\* server.rs:64: the files that are cleaned up were created by this process.
RemovesOwnFile ==
  [][\A p \in Process :
       server[p] = "draining" /\ server'[p] = "stopped" => file \in {p, file'}]_vars
=============================================================================
