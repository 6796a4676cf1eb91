------------------------------- MODULE XdsState -------------------------------
(***************************************************************************)
(* The shared state of the xDS server (src/xds/state.rs) and the LDS, CDS  *)
(* and SDS streams that serve it (src/xds/lds.rs, cds.rs, sds.rs).         *)
(*                                                                         *)
(* An update_* call replaces the contents of one resource type under one   *)
(* lock, releases it, and only then bumps the version and notifies; a      *)
(* response reads the version under one lock and the contents under        *)
(* another.  Each of these is a step of its own here, so that updates and  *)
(* responses interleave as they do on the multi-threaded runtime.          *)
(*                                                                         *)
(* Contents are identified by how many times they were replaced.  Every    *)
(* resource type has one writer at a time, as in main.rs: the listeners    *)
(* are written by run() and later by the state updater only, the clusters  *)
(* by run(), the secrets by the renewal manager.  A "stream" here is a     *)
(* slot that one connection after another may use.                         *)
(***************************************************************************)
EXTENDS Broadcast

CONSTANTS
  Resource,     \* the resource types: listeners, clusters, secrets
  Listeners,    \* the one whose first stream releases wait_for_lds
  Initial,      \* those that run() fills before it starts the server
  Stream,       \* connections from Envoy
  Kind,         \* the resource type each of them asks for
  MaxUpdates    \* bound: how often a resource type is replaced

ASSUME ResourceAssumption == Listeners \in Resource /\ Initial \subseteq Resource
ASSUME KindAssumption == Kind \in [Stream -> Resource]
ASSUME MaxUpdatesAssumption == MaxUpdates \in Nat

VARIABLES
  version,      \* XdsState::version
  contents,     \* XdsState::{listeners, clusters, secrets}
  inFlight,     \* stored, lock released, version not bumped yet
  covers,       \* history: the updates whose caller was answered by version v
  backlog,      \* the receivers of XdsState::notify
  connected,    \* XdsState::lds_connected
  waiter,       \* the task in wait_for_lds
  phase,        \* where each stream is in its handler
  label,        \* the version a response under construction will carry, or 0
  view          \* the last response of each stream: its version and contents

storeVars  == << version, contents, inFlight, covers >>
gateVars   == << connected, waiter >>
streamVars == << phase, label, view >>
vars == << storeVars, backlog, gateVars, streamVars >>

Phase == {"closed", "connecting", "building", "labelled", "waiting"}
Waiter == {"before", "registered", "notified", "parked", "returned"}

Init ==
  /\ version = 0
  /\ contents = [r \in Resource |-> 0]
  /\ inFlight = [r \in Resource |-> FALSE]
  /\ covers = [v \in {0} |-> [r \in Resource |-> 0]]
  /\ backlog = [s \in Stream |-> Unsubscribed]
  /\ connected = FALSE
  /\ waiter = "before"
  /\ phase = [s \in Stream |-> "closed"]
  /\ label = [s \in Stream |-> 0]
  /\ view = [s \in Stream |-> [version |-> 0, content |-> 0]]

-----------------------------------------------------------------------------
(* Updates.                                                                *)

\* update_listeners, update_clusters, update_secret: the replacement ...
Store(r) ==
  /\ ~inFlight[r]
  /\ contents[r] < MaxUpdates
  /\ contents' = [contents EXCEPT ![r] = @ + 1]
  /\ inFlight' = [inFlight EXCEPT ![r] = TRUE]
  /\ UNCHANGED << version, covers, backlog, gateVars, streamVars >>

\* Mutant: the version is bumped first, the contents are stored after it.
BumpBeforeStore(r) ==
  /\ version' = version + 1
  /\ covers' = [v \in 0 .. version + 1 |->
                  IF v = version + 1
                  THEN [covers[version] EXCEPT ![r] = @ + 1]
                  ELSE covers[v]]
  /\ inFlight' = [inFlight EXCEPT ![r] = FALSE]
  /\ backlog' = Send(backlog)
  /\ UNCHANGED << contents, gateVars, streamVars >>

\* ... and bump_version, which notifies before it releases the version.
Bump(r) ==
  /\ inFlight[r]
  /\ version' = version + 1
  /\ covers' = [v \in 0 .. version + 1 |->
                  IF v = version + 1
                  THEN [covers[version] EXCEPT ![r] = @ + 1]
                  ELSE covers[v]]
  /\ inFlight' = [inFlight EXCEPT ![r] = FALSE]
  /\ backlog' = Send(backlog)
  /\ UNCHANGED << contents, gateVars, streamVars >>

\* notify_change: a notification that comes with no new version.
NotifyChange ==
  /\ backlog' = Send(backlog)
  /\ UNCHANGED << storeVars, gateVars, streamVars >>

-----------------------------------------------------------------------------
(* wait_for_lds, in the task that runs main.                               *)

\* run() spawns the server after its first update_listeners, update_clusters,
\* and waits for a listener stream after that.
Serving == \A r \in Initial : covers[version][r] > 0

WaitRegister ==
  /\ Serving
  /\ waiter = "before"
  /\ waiter' = "registered"
  /\ UNCHANGED << storeVars, backlog, connected, streamVars >>

\* Mutant: the flag is not looked at after registering.
WaitCheckBlind ==
  /\ waiter \in {"registered", "notified"}
  /\ waiter' = IF waiter = "notified" THEN "returned" ELSE "parked"
  /\ UNCHANGED << storeVars, backlog, connected, streamVars >>

WaitCheck ==
  /\ waiter \in {"registered", "notified"}
  /\ waiter' = IF connected \/ waiter = "notified" THEN "returned" ELSE "parked"
  /\ UNCHANGED << storeVars, backlog, connected, streamVars >>

-----------------------------------------------------------------------------
(* Streams.                                                                *)

\* stream_clusters, stream_secrets, and stream_listeners once a listener
\* stream has been seen: subscribe, then build the first response.
Open(s) ==
  /\ Serving
  /\ phase[s] = "closed"
  /\ Kind[s] = Listeners => connected
  /\ phase' = [phase EXCEPT ![s] = "building"]
  /\ backlog' = Subscribe(backlog, s)
  /\ UNCHANGED << storeVars, gateVars, label, view >>

\* The first stream_listeners: mark_lds_connected swaps the flag ...
OpenFirst(s) ==
  /\ Serving
  /\ phase[s] = "closed"
  /\ Kind[s] = Listeners
  /\ ~connected
  /\ connected' = TRUE
  /\ phase' = [phase EXCEPT ![s] = "connecting"]
  /\ UNCHANGED << storeVars, backlog, waiter, label, view >>

\* Mutant: the first stream raises the flag and wakes nobody.
NotifyNobody(s) ==
  /\ phase[s] = "connecting"
  /\ phase' = [phase EXCEPT ![s] = "building"]
  /\ backlog' = Subscribe(backlog, s)
  /\ UNCHANGED << storeVars, gateVars, label, view >>

\* ... then wakes the waiters; the handler goes on to subscribe.
NotifyWaiters(s) ==
  /\ phase[s] = "connecting"
  /\ waiter' = CASE waiter = "registered" -> "notified"
                 [] waiter = "parked"     -> "returned"
                 [] OTHER                 -> waiter
  /\ phase' = [phase EXCEPT ![s] = "building"]
  /\ backlog' = Subscribe(backlog, s)
  /\ UNCHANGED << storeVars, connected, label, view >>

\* fetch_listeners, fetch_clusters, fetch_secrets: one response, no receiver.
Fetch(s) ==
  /\ Serving
  /\ phase[s] = "closed"
  /\ phase' = [phase EXCEPT ![s] = "building"]
  /\ UNCHANGED << storeVars, backlog, gateVars, label, view >>

\* Mutant: a response carries the number that came over the channel, where
\* notify_change sends 0.
ReadVersionFromChannel(s) ==
  /\ phase[s] = "building"
  /\ label' \in {[label EXCEPT ![s] = v] : v \in {0, version}}
  /\ phase' = [phase EXCEPT ![s] = "labelled"]
  /\ UNCHANGED << storeVars, backlog, gateVars, view >>

\* build_response reads the version first ...
ReadVersion(s) ==
  /\ phase[s] = "building"
  /\ label' = [label EXCEPT ![s] = version]
  /\ phase' = [phase EXCEPT ![s] = "labelled"]
  /\ UNCHANGED << storeVars, backlog, gateVars, view >>

\* Mutant: a response holds what was stored when its version was current.
RespondFromSnapshot(s) ==
  /\ phase[s] = "labelled"
  /\ view' = [view EXCEPT ![s] =
                [version |-> label[s], content |-> covers[label[s]][Kind[s]]]]
  /\ phase' = [phase EXCEPT ![s] =
                IF backlog[s] = Unsubscribed THEN "closed" ELSE "waiting"]
  /\ label' = [label EXCEPT ![s] = 0]
  /\ UNCHANGED << storeVars, backlog, gateVars >>

\* ... and the contents under another lock; the response is then sent.
Respond(s) ==
  /\ phase[s] = "labelled"
  /\ view' = [view EXCEPT ![s] =
                [version |-> label[s], content |-> contents[Kind[s]]]]
  /\ phase' = [phase EXCEPT ![s] =
                IF backlog[s] = Unsubscribed THEN "closed" ELSE "waiting"]
  /\ label' = [label EXCEPT ![s] = 0]
  /\ UNCHANGED << storeVars, backlog, gateVars >>

\* rx.recv() returns Ok: another response.
Receive(s) ==
  /\ phase[s] = "waiting"
  /\ CanReceive(backlog, s)
  /\ backlog' = Recv(backlog, s)
  /\ phase' = [phase EXCEPT ![s] = "building"]
  /\ UNCHANGED << storeVars, gateVars, label, view >>

\* Mutant: a lagging stream subscribes again and waits for the next change.
LagResubscribes(s) ==
  /\ phase[s] = "waiting"
  /\ HasLagged(backlog, s)
  /\ backlog' = Subscribe(backlog, s)
  /\ UNCHANGED << storeVars, gateVars, streamVars >>

\* rx.recv() returns Err(Lagged): the loop ends and with it the stream.
Lag(s) ==
  /\ phase[s] = "waiting"
  /\ HasLagged(backlog, s)
  /\ backlog' = Drop(backlog, s)
  /\ phase' = [phase EXCEPT ![s] = "closed"]
  /\ UNCHANGED << storeVars, gateVars, label, view >>

\* The client goes away; tonic drops the stream wherever it is suspended.
Disconnect(s) ==
  /\ phase[s] \in {"building", "labelled", "waiting"}
  /\ backlog' = Drop(backlog, s)
  /\ phase' = [phase EXCEPT ![s] = "closed"]
  /\ label' = [label EXCEPT ![s] = 0]
  /\ UNCHANGED << storeVars, gateVars, view >>

-----------------------------------------------------------------------------
Next ==
  \/ \E r \in Resource : Store(r) \/ Bump(r)
  \/ NotifyChange
  \/ WaitRegister \/ WaitCheck
  \/ \E s \in Stream :
       \/ Open(s) \/ OpenFirst(s) \/ NotifyWaiters(s) \/ Fetch(s)
       \/ ReadVersion(s) \/ Respond(s) \/ Receive(s) \/ Lag(s) \/ Disconnect(s)

(***************************************************************************)
(* The runtime keeps polling tasks that can move: an update that stored    *)
(* its contents bumps the version, a waiter checks the flag, a handler     *)
(* runs on, and a client that stays connected keeps reading its stream.    *)
(* Nothing obliges anyone to update, to connect or to leave.               *)
(***************************************************************************)
Fairness ==
  /\ \A r \in Resource : WF_vars(Bump(r))
  /\ WF_vars(WaitCheck)
  /\ \A s \in Stream :
       /\ WF_vars(NotifyWaiters(s))
       /\ WF_vars(ReadVersion(s))
       /\ WF_vars(Respond(s))
       /\ WF_vars(Receive(s))
       /\ WF_vars(Lag(s))

Safety == Init /\ [][Next]_vars

Spec == Safety /\ Fairness

-----------------------------------------------------------------------------
(* The state of every part of the component is what its code can make it.  *)
TypeOK ==
  /\ version \in Nat
  /\ contents \in [Resource -> Nat]
  /\ inFlight \in [Resource -> BOOLEAN]
  /\ covers \in [0 .. version -> [Resource -> Nat]]
  /\ backlog \in [Stream -> Backlog]
  /\ connected \in BOOLEAN
  /\ waiter \in Waiter
  /\ phase \in [Stream -> Phase]
  /\ label \in [Stream -> 0 .. version]
  /\ view \in [Stream -> [version : 0 .. version, content : Nat]]

(***************************************************************************)
(* A response that carries version v holds every update whose caller had   *)
(* been answered when v was current: the version is read before the        *)
(* contents and stored contents precede their version (state.rs 88-110,    *)
(* build_response).  The two are read under different locks, so this       *)
(* depends on both orders at once.                                         *)
(***************************************************************************)
VersionCoversContents ==
  \A s \in Stream : view[s].content >= covers[view[s].version][Kind[s]]

(***************************************************************************)
(* A stream that waits with nothing left to receive has already given its  *)
(* client every acknowledged update: no notification falls between the     *)
(* subscription, the reads of a response and the next recv.                *)
(***************************************************************************)
NoMissedUpdate ==
  \A s \in Stream :
    phase[s] = "waiting" /\ backlog[s] = 0
      => view[s].content >= covers[version][Kind[s]]

(***************************************************************************)
(* wait_for_lds loses no wake-up: while a parked waiter has not been       *)
(* released although the flag is up, the stream that raised the flag is    *)
(* still about to notify (mark_lds_connected, wait_for_lds).               *)
(***************************************************************************)
NoLostWakeup ==
  waiter = "parked" /\ connected => \E s \in Stream : phase[s] = "connecting"

(***************************************************************************)
(* No client is taken back: on a connection and from one connection to the *)
(* next, neither the version nor the contents it holds decrease, however   *)
(* updates interleave with the two reads of a response.                    *)
(***************************************************************************)
Forward(s) ==
  /\ view'[s].version >= view[s].version
  /\ view'[s].content >= view[s].content

ClientsNeverGoBack == [][\A s \in Stream : Forward(s)]_vars

(***************************************************************************)
(* What the comment on XdsState::version says it is for: a client that     *)
(* gets other contents also gets another version (state.rs:15).            *)
(***************************************************************************)
ChangesHaveVersions ==
  [][\A s \in Stream :
       view[s].version > 0 /\ view'[s].content # view[s].content
         => view'[s].version # view[s].version]_vars

(***************************************************************************)
(* Once a listener stream has been seen, a task that waits for one goes    *)
(* on: the start of issuance is not lost (main.rs:199).                    *)
(***************************************************************************)
WaiterIsReleased == connected /\ waiter # "before" ~> waiter = "returned"

(***************************************************************************)
(* The server implements DiscoveryFeed: with versions, channel and         *)
(* half-done steps hidden, an open stream hands out acknowledged updates   *)
(* in order and does not leave one undelivered while it stays open.  A     *)
(* reader that lags is closed, never left waiting on old contents.         *)
(***************************************************************************)
Feed == INSTANCE DiscoveryFeed WITH
  acked <- covers[version],
  open  <- {s \in Stream : phase[s] # "closed"},
  view  <- [s \in Stream |-> view[s].content]

ImplementsFeed == Feed!Spec

\* Without the liveness; ImplementsFeed is checked, and this is proved.
ImplementsFeedSafety == Feed!Safety
=============================================================================
