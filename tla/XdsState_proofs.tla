---------------------------- MODULE XdsState_proofs ----------------------------
(***************************************************************************)
(* Proofs about XdsState, for every set of resource types and of streams,  *)
(* every capacity of the notification channel and every number of updates. *)
(*                                                                         *)
(* The argument: Accounting ties the stored contents to the acknowledged   *)
(* updates, so whoever reads the contents gets everything that was         *)
(* acknowledged before, at any version read earlier (CoversMonotone); what *)
(* a client holds is a past value of the contents (ViewIsPast).  Inv is    *)
(* the conjunction, and is inductive.                                      *)
(***************************************************************************)
EXTENDS XdsState, TLAPS

\* An update in flight is the only one that is stored and not acknowledged.
Accounting ==
  \A r \in Resource :
    contents[r] = covers[version][r] + (IF inFlight[r] THEN 1 ELSE 0)

\* No version covers more than the current one.
CoversMonotone ==
  \A r \in Resource : \A v \in 0 .. version : covers[v][r] <= covers[version][r]

\* A client holds contents that were once current, under a version that is
\* not newer than the one of the response being built for it.
ViewIsPast ==
  \A s \in Stream :
    /\ view[s].content <= contents[Kind[s]]
    /\ phase[s] = "labelled" => view[s].version <= label[s]

Inv ==
  /\ TypeOK
  /\ Accounting
  /\ CoversMonotone
  /\ ViewIsPast
  /\ VersionCoversContents
  /\ NoMissedUpdate

USE ResourceAssumption, KindAssumption, MaxUpdatesAssumption, CapacityAssumption

(***************************************************************************)
(* What the operators on the channel do to the set of backlogs.            *)
(***************************************************************************)
LEMMA SendType ==
  ASSUME NEW b \in [Stream -> Backlog]
  PROVE  /\ Send(b) \in [Stream -> Backlog]
         /\ \A s \in Stream : Send(b)[s] # 0
BY DEF Send, AfterSend, Backlog, Unsubscribed, Lagged

LEMMA ReceiverType ==
  ASSUME NEW b \in [Stream -> Backlog], NEW s \in Stream
  PROVE  /\ Subscribe(b, s) \in [Stream -> Backlog]
         /\ Drop(b, s) \in [Stream -> Backlog]
         /\ CanReceive(b, s) => Recv(b, s) \in [Stream -> Backlog]
BY DEF Subscribe, Drop, CanReceive, Recv, Backlog, Unsubscribed, Lagged

(***************************************************************************)
(* The step of bump_version on the history of acknowledged updates: older  *)
(* versions keep what they cover, the new one covers one update more.      *)
(***************************************************************************)
LEMMA BumpCovers ==
  ASSUME TypeOK, NEW r \in Resource, Bump(r)
  PROVE  /\ version' = version + 1
         /\ covers' \in [0 .. version' -> [Resource -> Nat]]
         /\ \A v \in 0 .. version : covers'[v] = covers[v]
         /\ covers'[version'] = [covers[version] EXCEPT ![r] = @ + 1]
BY DEF TypeOK, Bump

LEMMA InitInv == Init => Inv
<1> SUFFICES ASSUME Init PROVE Inv
  OBVIOUS
<1>1. TypeOK
  <2>1. 0 .. version = {0}
    BY DEF Init
  <2>2. covers \in [0 .. version -> [Resource -> Nat]]
    BY <2>1 DEF Init
  <2>3. /\ label \in [Stream -> 0 .. version]
        /\ view \in [Stream -> [version : 0 .. version, content : Nat]]
    BY <2>1 DEF Init
  <2>4. backlog \in [Stream -> Backlog]
    BY DEF Init, Backlog, Unsubscribed, Lagged
  <2> QED
    BY <2>2, <2>3, <2>4 DEF Init, TypeOK, Waiter, Phase
<1>2. Accounting /\ CoversMonotone /\ ViewIsPast
  BY DEF Init, Accounting, CoversMonotone, ViewIsPast
<1>3. VersionCoversContents /\ NoMissedUpdate
  BY DEF Init, VersionCoversContents, NoMissedUpdate
<1> QED
  BY <1>1, <1>2, <1>3 DEF Inv

(***************************************************************************)
(* The steps of an update.                                                 *)
(***************************************************************************)
LEMMA StoreInv ==
  ASSUME Inv, NEW r \in Resource, Store(r)
  PROVE  Inv'
<1> USE DEF Inv, Store, storeVars, gateVars, streamVars
<1>1. contents' \in [Resource -> Nat] /\ \A q \in Resource : contents[q] <= contents'[q]
  BY DEF TypeOK
<1>2. TypeOK'
  BY <1>1 DEF TypeOK
<1>3. Accounting'
  BY DEF TypeOK, Accounting
<1>4. CoversMonotone'
  BY DEF CoversMonotone
<1>5. ViewIsPast'
  <2> SUFFICES ASSUME NEW s \in Stream
               PROVE  view[s].content <= contents'[Kind[s]]
    BY DEF ViewIsPast
  <2>1. /\ Kind[s] \in Resource
        /\ view[s].content \in Nat
        /\ contents[Kind[s]] \in Nat
        /\ contents'[Kind[s]] \in Nat
    BY <1>1 DEF TypeOK
  <2>2. view[s].content <= contents[Kind[s]]
    BY DEF ViewIsPast
  <2> QED
    BY <1>1, <2>1, <2>2
<1>6. VersionCoversContents' /\ NoMissedUpdate'
  BY DEF VersionCoversContents, NoMissedUpdate
<1> QED
  BY <1>2, <1>3, <1>4, <1>5, <1>6

LEMMA BumpInv ==
  ASSUME Inv, NEW r \in Resource, Bump(r)
  PROVE  Inv'
<1> USE DEF Inv
<1> DEFINE new == version + 1
<1>1. /\ version' = new
      /\ version \in Nat
      /\ covers' \in [0 .. new -> [Resource -> Nat]]
      /\ \A v \in 0 .. version : covers'[v] = covers[v]
      /\ covers'[new] = [covers[version] EXCEPT ![r] = @ + 1]
  BY BumpCovers DEF TypeOK
<1>2. \A q \in Resource :
        /\ covers[version][q] \in Nat
        /\ covers'[new][q] = covers[version][q] + (IF q = r THEN 1 ELSE 0)
  BY <1>1 DEF TypeOK
<1>3. TypeOK'
  <2>1. backlog' \in [Stream -> Backlog]
    BY SendType DEF TypeOK, Bump
  <2>2. label' \in [Stream -> 0 .. version'] /\
        view' \in [Stream -> [version : 0 .. version', content : Nat]]
    BY <1>1 DEF TypeOK, Bump, streamVars
  <2> QED
    BY <1>1, <2>1, <2>2 DEF TypeOK, Bump, gateVars, streamVars
<1>4. Accounting'
  BY <1>1, <1>2 DEF TypeOK, Accounting, Bump
<1>5. CoversMonotone'
  <2> SUFFICES ASSUME NEW q \in Resource, NEW v \in 0 .. new
               PROVE  covers'[v][q] <= covers'[new][q]
    BY <1>1 DEF CoversMonotone
  <2>1. CASE v = new
    BY <2>1, <1>1
  <2>2. CASE v # new
    <3>1. v \in 0 .. version /\ covers[v][q] \in Nat
      BY <2>2, <1>1 DEF TypeOK
    <3>2. covers'[v][q] <= covers[version][q]
      BY <3>1, <1>1 DEF CoversMonotone
    <3>3. covers'[v][q] \in Nat
      BY <3>1, <1>1
    <3>4. covers[version][q] \in Nat /\ covers[version][q] <= covers'[new][q]
      BY <1>2
    <3>5. covers'[new][q] \in Nat
      BY <1>2
    <3> QED
      BY <3>2, <3>3, <3>4, <3>5
  <2> QED
    BY <2>1, <2>2
<1>6. ViewIsPast'
  BY DEF ViewIsPast, Bump, streamVars
<1>7. VersionCoversContents'
  <2> SUFFICES ASSUME NEW s \in Stream
               PROVE  view[s].content >= covers'[view[s].version][Kind[s]]
    BY DEF VersionCoversContents, Bump, streamVars
  <2>1. covers'[view[s].version] = covers[view[s].version]
    BY <1>1 DEF TypeOK
  <2> QED
    BY <2>1 DEF VersionCoversContents
<1>8. NoMissedUpdate'
  <2>1. \A s \in Stream : backlog'[s] # 0
    BY SendType DEF TypeOK, Bump
  <2> QED
    BY <2>1 DEF NoMissedUpdate
<1> QED
  BY <1>3, <1>4, <1>5, <1>6, <1>7, <1>8

LEMMA NotifyChangeInv ==
  ASSUME Inv, NotifyChange
  PROVE  Inv'
<1> USE DEF Inv, NotifyChange, storeVars, gateVars, streamVars
<1>1. backlog' \in [Stream -> Backlog] /\ \A s \in Stream : backlog'[s] # 0
  BY SendType DEF TypeOK
<1>2. TypeOK'
  BY <1>1 DEF TypeOK
<1>3. Accounting' /\ CoversMonotone' /\ ViewIsPast' /\ VersionCoversContents'
  BY DEF Accounting, CoversMonotone, ViewIsPast, VersionCoversContents
<1>4. NoMissedUpdate'
  BY <1>1 DEF NoMissedUpdate
<1> QED
  BY <1>2, <1>3, <1>4

(***************************************************************************)
(* The steps of wait_for_lds, and those that open, end or advance a stream *)
(* without giving its client anything.                                     *)
(***************************************************************************)
LEMMA WaitInv ==
  ASSUME Inv, WaitRegister \/ WaitCheck
  PROVE  Inv'
<1> USE DEF Inv, WaitRegister, WaitCheck, storeVars, streamVars
<1>1. TypeOK'
  BY DEF TypeOK, Waiter
<1>2. Accounting' /\ CoversMonotone' /\ ViewIsPast'
  BY DEF Accounting, CoversMonotone, ViewIsPast
<1>3. VersionCoversContents' /\ NoMissedUpdate'
  BY DEF VersionCoversContents, NoMissedUpdate
<1> QED
  BY <1>1, <1>2, <1>3

LEMMA QuietStreamInv ==
  ASSUME Inv, NEW s \in Stream,
         UNCHANGED << storeVars, view >>,
         backlog' \in [Stream -> Backlog],
         connected' \in BOOLEAN,
         waiter' \in Waiter,
         label' \in [Stream -> 0 .. version],
         NEW p \in Phase \ {"waiting"},
         phase' = [phase EXCEPT ![s] = p],
         p = "labelled" => label'[s] = version,
         \A q \in Stream \ {s} : label'[q] = label[q] /\ backlog'[q] = backlog[q]
  PROVE  Inv'
<1> USE DEF Inv, storeVars
<1>1. TypeOK'
  BY DEF TypeOK
<1>2. Accounting' /\ CoversMonotone' /\ VersionCoversContents'
  BY DEF Accounting, CoversMonotone, VersionCoversContents
<1>3. ViewIsPast'
  <2> SUFFICES ASSUME NEW q \in Stream, phase'[q] = "labelled"
               PROVE  view[q].version <= label'[q]
    BY DEF ViewIsPast
  <2>1. CASE q = s
    BY <2>1 DEF TypeOK
  <2>2. CASE q # s
    BY <2>2 DEF TypeOK, ViewIsPast
  <2> QED
    BY <2>1, <2>2
<1>4. NoMissedUpdate'
  BY DEF NoMissedUpdate, TypeOK
<1> QED
  BY <1>1, <1>2, <1>3, <1>4

LEMMA StreamInv ==
  ASSUME Inv, NEW s \in Stream,
         \/ Open(s) \/ OpenFirst(s) \/ NotifyWaiters(s) \/ Fetch(s)
         \/ ReadVersion(s) \/ Receive(s) \/ Lag(s) \/ Disconnect(s)
  PROVE  Inv'
<1> USE DEF Inv, storeVars, gateVars, Phase
<1>1. CASE Open(s)
  <2>1. \A q \in Stream \ {s} : backlog'[q] = backlog[q]
    BY <1>1 DEF Open, Subscribe, TypeOK
  <2> QED
    BY <1>1, <2>1, ReceiverType, QuietStreamInv DEF Open, TypeOK
<1>2. CASE OpenFirst(s)
  BY <1>2, QuietStreamInv DEF OpenFirst, TypeOK
<1>3. CASE NotifyWaiters(s)
  <2>1. \A q \in Stream \ {s} : backlog'[q] = backlog[q]
    BY <1>3 DEF NotifyWaiters, Subscribe, TypeOK
  <2>2. waiter' \in Waiter
    BY <1>3 DEF NotifyWaiters, TypeOK, Waiter
  <2> QED
    BY <1>3, <2>1, <2>2, ReceiverType, QuietStreamInv DEF NotifyWaiters, TypeOK
<1>4. CASE Fetch(s)
  BY <1>4, QuietStreamInv DEF Fetch, TypeOK
<1>5. CASE ReadVersion(s)
  <2>1. version \in 0 .. version
    BY DEF TypeOK
  <2>2. label' \in [Stream -> 0 .. version]
    BY <1>5, <2>1 DEF ReadVersion, TypeOK
  <2>3. label'[s] = version /\ \A q \in Stream \ {s} : label'[q] = label[q]
    BY <1>5 DEF ReadVersion, TypeOK
  <2> QED
    BY <1>5, <2>2, <2>3, QuietStreamInv DEF ReadVersion, TypeOK
<1>6. CASE Receive(s)
  <2>1. \A q \in Stream \ {s} : backlog'[q] = backlog[q]
    BY <1>6 DEF Receive, Recv, TypeOK
  <2> QED
    BY <1>6, <2>1, ReceiverType, QuietStreamInv DEF Receive, TypeOK
<1>7. CASE Lag(s) \/ Disconnect(s)
  <2>1. /\ UNCHANGED << storeVars, gateVars, view >>
        /\ backlog' = Drop(backlog, s)
        /\ phase' = [phase EXCEPT ![s] = "closed"]
        /\ label' \in {label, [label EXCEPT ![s] = 0]}
    BY <1>7 DEF Lag, Disconnect
  <2>2. \A q \in Stream \ {s} : label'[q] = label[q] /\ backlog'[q] = backlog[q]
    BY <2>1 DEF Drop, TypeOK
  <2>3. label' \in [Stream -> 0 .. version]
    <3>1. 0 \in 0 .. version
      BY DEF TypeOK
    <3> QED
      BY <2>1, <3>1 DEF TypeOK
  <2> QED
    BY <2>1, <2>2, <2>3, ReceiverType, QuietStreamInv DEF TypeOK
<1> QED
  BY <1>1, <1>2, <1>3, <1>4, <1>5, <1>6, <1>7

(***************************************************************************)
(* The step that gives a client its response.                              *)
(***************************************************************************)
LEMMA RespondInv ==
  ASSUME Inv, NEW s \in Stream, Respond(s)
  PROVE  Inv'
<1> USE DEF Inv, Respond, storeVars, gateVars
<1> DEFINE k == Kind[s]
<1>1. /\ k \in Resource
      /\ version \in Nat
      /\ label[s] \in 0 .. version
      /\ contents[k] \in Nat
      /\ covers[version][k] \in Nat
      /\ covers[label[s]][k] \in Nat
  BY DEF TypeOK
<1>2. /\ view'[s] = [version |-> label[s], content |-> contents[k]]
      /\ \A q \in Stream \ {s} : view'[q] = view[q] /\ phase'[q] = phase[q]
      /\ phase'[s] \in {"closed", "waiting"}
  BY DEF TypeOK
<1>3. contents[k] >= covers[version][k] /\ covers[version][k] >= covers[label[s]][k]
  <2>1. contents[k] = covers[version][k] + (IF inFlight[k] THEN 1 ELSE 0)
    BY <1>1 DEF Accounting
  <2>2. covers[version][k] >= covers[label[s]][k]
    BY <1>1 DEF CoversMonotone
  <2> QED
    BY <1>1, <2>1, <2>2
<1>4. TypeOK'
  <2>1. view' \in [Stream -> [version : 0 .. version, content : Nat]]
    BY <1>1 DEF TypeOK
  <2>2. label' \in [Stream -> 0 .. version]
    BY <1>1 DEF TypeOK
  <2>3. phase' \in [Stream -> Phase]
    BY DEF TypeOK, Phase
  <2> QED
    BY <2>1, <2>2, <2>3 DEF TypeOK
<1>5. Accounting' /\ CoversMonotone'
  BY DEF Accounting, CoversMonotone
<1>6. ViewIsPast'
  <2> SUFFICES ASSUME NEW q \in Stream
               PROVE  /\ view'[q].content <= contents[Kind[q]]
                      /\ phase'[q] = "labelled" => view'[q].version <= label'[q]
    BY DEF ViewIsPast
  <2>1. CASE q = s
    BY <2>1, <1>1, <1>2
  <2>2. CASE q # s
    <3>1. label'[q] = label[q]
      BY <2>2 DEF TypeOK
    <3> QED
      BY <2>2, <3>1, <1>2 DEF ViewIsPast
  <2> QED
    BY <2>1, <2>2
<1>7. VersionCoversContents'
  <2> SUFFICES ASSUME NEW q \in Stream
               PROVE  view'[q].content >= covers[view'[q].version][Kind[q]]
    BY DEF VersionCoversContents
  <2>1. CASE q = s
    BY <2>1, <1>1, <1>2, <1>3
  <2>2. CASE q # s
    BY <2>2, <1>2 DEF VersionCoversContents
  <2> QED
    BY <2>1, <2>2
<1>8. NoMissedUpdate'
  <2> SUFFICES ASSUME NEW q \in Stream, phase'[q] = "waiting", backlog[q] = 0
               PROVE  view'[q].content >= covers[version][Kind[q]]
    BY DEF NoMissedUpdate
  <2>1. CASE q = s
    BY <2>1, <1>1, <1>2, <1>3
  <2>2. CASE q # s
    BY <2>2, <1>2 DEF NoMissedUpdate
  <2> QED
    BY <2>1, <2>2
<1> QED
  BY <1>4, <1>5, <1>6, <1>7, <1>8

LEMMA NextInv == Inv /\ [Next]_vars => Inv'
<1> SUFFICES ASSUME Inv, [Next]_vars PROVE Inv'
  OBVIOUS
<1>1. ASSUME NEW r \in Resource, Store(r) PROVE Inv'
  BY <1>1, StoreInv
<1>2. ASSUME NEW r \in Resource, Bump(r) PROVE Inv'
  BY <1>2, BumpInv
<1>3. CASE NotifyChange
  BY <1>3, NotifyChangeInv
<1>4. CASE WaitRegister \/ WaitCheck
  BY <1>4, WaitInv
<1>5. ASSUME NEW s \in Stream, Respond(s) PROVE Inv'
  BY <1>5, RespondInv
<1>6. ASSUME NEW s \in Stream,
             \/ Open(s) \/ OpenFirst(s) \/ NotifyWaiters(s) \/ Fetch(s)
             \/ ReadVersion(s) \/ Receive(s) \/ Lag(s) \/ Disconnect(s)
      PROVE  Inv'
  BY <1>6, StreamInv
<1>7. CASE UNCHANGED vars
  BY <1>7 DEF Inv, vars, storeVars, gateVars, streamVars, TypeOK, Accounting,
              CoversMonotone, ViewIsPast, VersionCoversContents, NoMissedUpdate
<1> QED
  BY <1>1, <1>2, <1>3, <1>4, <1>5, <1>6, <1>7 DEF Next

(***************************************************************************)
(* The invariant, and the properties it contains: the state is well typed  *)
(* (TypeOK), a response holds all that its version covers, and a stream    *)
(* with nothing left to receive has missed no acknowledged update.         *)
(***************************************************************************)
THEOREM InvHolds == Spec => []Inv
<1>1. Init => Inv
  BY InitInv
<1>2. Inv /\ [Next]_vars => Inv'
  BY NextInv
<1> QED
  BY <1>1, <1>2, PTL DEF Spec, Safety

\* Every reachable state is well typed (state.rs 14-29).
THEOREM TypeCorrect == Spec => []TypeOK
<1>1. Inv => TypeOK
  BY DEF Inv
<1> QED
  BY <1>1, InvHolds, PTL

\* A response never lacks an update its version covers: build_response reads
\* the version before the contents, update_* stores before it bumps.
THEOREM VersionsCoverContents == Spec => []VersionCoversContents
<1>1. Inv => VersionCoversContents
  BY DEF Inv
<1> QED
  BY <1>1, InvHolds, PTL

\* No update is lost between subscribe, build_response and recv.
THEOREM NoUpdateIsMissed == Spec => []NoMissedUpdate
<1>1. Inv => NoMissedUpdate
  BY DEF Inv
<1> QED
  BY <1>1, InvHolds, PTL

(***************************************************************************)
(* No step takes a client back to an older version or to older contents.   *)
(***************************************************************************)
THEOREM NoClientGoesBack == Spec => ClientsNeverGoBack
<1>1. ASSUME Inv, [Next]_vars, NEW s \in Stream
      PROVE  Forward(s)
  <2> USE DEF Forward
  <2>1. /\ view[s].version \in Nat /\ view[s].content \in Nat
        /\ label[s] \in Nat /\ contents[Kind[s]] \in Nat
    BY <1>1 DEF Inv, TypeOK
  <2>2. CASE view' = view
    BY <2>1, <2>2
  <2>3. ASSUME NEW q \in Stream, Respond(q)
        PROVE  Forward(s)
    <3>1. CASE q = s
      <4>1. view'[s] = [version |-> label[s], content |-> contents[Kind[s]]]
        BY <1>1, <2>3, <3>1 DEF Inv, TypeOK, Respond
      <4>2. view[s].version <= label[s] /\ view[s].content <= contents[Kind[s]]
        BY <1>1, <2>3, <3>1 DEF Inv, ViewIsPast, Respond
      <4> QED
        BY <2>1, <4>1, <4>2
    <3>2. CASE q # s
      <4>1. view'[s] = view[s]
        BY <1>1, <2>3, <3>2 DEF Inv, TypeOK, Respond
      <4> QED
        BY <2>1, <4>1
    <3> QED
      BY <3>1, <3>2
  <2>4. view' = view \/ \E q \in Stream : Respond(q)
    BY <1>1 DEF Next, Store, Bump, NotifyChange, WaitRegister, WaitCheck, Open,
                OpenFirst, NotifyWaiters, Fetch, ReadVersion, Receive, Lag,
                Disconnect, vars, streamVars
  <2> QED
    BY <2>2, <2>3, <2>4
<1>2. Inv /\ [Next]_vars => [\A s \in Stream : Forward(s)]_vars
  BY <1>1
<1>3. Spec => [][Next]_vars
  BY PTL DEF Spec, Safety
<1> QED
  BY <1>2, <1>3, InvHolds, PTL DEF ClientsNeverGoBack

(***************************************************************************)
(* wait_for_lds: the flag goes up in a step that leaves its stream about   *)
(* to notify, and a task parks only while the flag is down.                *)
(***************************************************************************)
GateInv ==
  /\ waiter = "parked" /\ connected => \E s \in Stream : phase[s] = "connecting"
  /\ phase \in [Stream -> Phase]
  /\ \A s, t \in Stream :
       phase[s] = "connecting" /\ phase[t] = "connecting" => s = t
  /\ \A s \in Stream : phase[s] = "connecting" => connected
  /\ waiter = "notified" => connected

LEMMA GateStep == GateInv /\ [Next]_vars => GateInv'
<1> SUFFICES ASSUME GateInv, [Next]_vars PROVE GateInv'
  OBVIOUS
<1> USE DEF GateInv, Phase
<1>1. CASE UNCHANGED << waiter, connected, phase >>
  BY <1>1
<1>2. CASE WaitRegister \/ WaitCheck
  BY <1>2 DEF WaitRegister, WaitCheck, streamVars
<1>3. ASSUME NEW s \in Stream, OpenFirst(s) PROVE GateInv'
  BY <1>3 DEF OpenFirst
<1>4. ASSUME NEW s \in Stream, NotifyWaiters(s) PROVE GateInv'
  BY <1>4 DEF NotifyWaiters
<1>5. ASSUME NEW s \in Stream, NEW p \in Phase \ {"connecting"},
             UNCHANGED gateVars,
             phase[s] # "connecting",
             phase' = [phase EXCEPT ![s] = p]
      PROVE  GateInv'
  BY <1>5 DEF gateVars
<1>6. ASSUME NEW s \in Stream,
             \/ Open(s) \/ Fetch(s) \/ ReadVersion(s) \/ Respond(s)
             \/ Receive(s) \/ Lag(s) \/ Disconnect(s)
      PROVE  GateInv'
  <2>1. UNCHANGED gateVars /\ phase[s] # "connecting"
    BY <1>6 DEF Open, Fetch, ReadVersion, Respond, Receive, Lag, Disconnect
  <2>2. \E p \in Phase \ {"connecting"} : phase' = [phase EXCEPT ![s] = p]
    BY <1>6 DEF Open, Fetch, ReadVersion, Respond, Receive, Lag, Disconnect
  <2> QED
    BY <1>5, <2>1, <2>2
<1> QED
  BY <1>1, <1>2, <1>3, <1>4, <1>6
  DEF Next, Store, Bump, NotifyChange, vars, gateVars, streamVars

\* wait_for_lds creates its Notified future before it looks at the flag, so a
\* notify_waiters between the two is not lost (state.rs 72-85).
THEOREM NoWakeupIsLost == Spec => []NoLostWakeup
<1>1. Init => GateInv
  BY DEF Init, GateInv, Phase
<1>2. GateInv => NoLostWakeup
  BY DEF GateInv, NoLostWakeup
<1> QED
  BY <1>1, <1>2, GateStep, PTL DEF Spec, Safety

(***************************************************************************)
(* Refinement: every step of the server is a step of DiscoveryFeed, or one *)
(* that DiscoveryFeed does not see.                                        *)
(***************************************************************************)
Opened == {s \in Stream : phase[s] # "closed"}

LEMMA FeedInit == Init => Feed!Init
<1> SUFFICES ASSUME Init PROVE Feed!Init
  OBVIOUS
<1>1. covers[version] = [r \in Resource |-> 0]
  BY DEF Init
<1>2. [s \in Stream |-> view[s].content] = [s \in Stream |-> 0]
  BY DEF Init
<1>3. Opened = {}
  BY DEF Init, Opened
<1> QED
  BY <1>1, <1>2, <1>3 DEF Init, Feed!Init, Opened

\* Steps that leave the contents and every response alone.
LEMMA FeedStream ==
  ASSUME Inv, NEW s \in Stream, NEW p \in Phase,
         UNCHANGED << storeVars, view >>,
         phase' = [phase EXCEPT ![s] = p]
  PROVE  [Feed!Next]_(Feed!vars)
<1> USE DEF storeVars
<1>1. phase \in [Stream -> Phase]
  BY DEF Inv, TypeOK
<1>2. CASE p = "closed" /\ phase[s] # "closed"
  <2>1. s \in Opened /\ Opened' = Opened \ {s}
    BY <1>1, <1>2 DEF Opened
  <2>2. Feed!Close(s)
    BY <2>1 DEF Feed!Close, Opened
  <2> QED
    BY <2>2 DEF Feed!Next
<1>3. CASE p # "closed" /\ phase[s] = "closed"
  <2>1. s \notin Opened /\ Opened' = Opened \union {s}
    BY <1>1, <1>3 DEF Opened
  <2>2. Feed!Open(s)
    BY <2>1 DEF Feed!Open, Opened
  <2> QED
    BY <2>2 DEF Feed!Next
<1>4. CASE (p = "closed") <=> (phase[s] = "closed")
  <2>1. Opened' = Opened
    BY <1>1, <1>4 DEF Opened
  <2> QED
    BY <2>1 DEF Feed!vars, Opened
<1> QED
  BY <1>2, <1>3, <1>4

LEMMA FeedRespond ==
  ASSUME Inv, NEW s \in Stream, Respond(s)
  PROVE  [Feed!Next]_(Feed!vars)
<1> DEFINE c == contents[Kind[s]]
           given == [q \in Stream |-> view[q].content]
<1>1. /\ c \in Nat
      /\ covers[version][Kind[s]] \in Nat
      /\ c \in covers[version][Kind[s]] .. contents[Kind[s]]
  <2>1. c = covers[version][Kind[s]] + (IF inFlight[Kind[s]] THEN 1 ELSE 0)
    BY DEF Inv, TypeOK, Accounting
  <2> QED
    BY <2>1 DEF Inv, TypeOK
<1>2. c >= given[s]
  BY DEF Inv, ViewIsPast, TypeOK
<1>3. given' = [given EXCEPT ![s] = c]
  BY DEF Inv, TypeOK, Respond
<1>4. s \in Opened /\ Opened' \in {Opened, Opened \ {s}}
  BY DEF Inv, TypeOK, Respond, Opened
<1>5. UNCHANGED << contents, covers[version] >>
  BY DEF Respond, storeVars
<1>6. Feed!Deliver(s)
  BY <1>1, <1>2, <1>3, <1>4, <1>5 DEF Feed!Deliver, Opened
<1> QED
  BY <1>6 DEF Feed!Next

LEMMA FeedStep == Inv /\ [Next]_vars => [Feed!Next]_(Feed!vars)
<1> SUFFICES ASSUME Inv, [Next]_vars PROVE [Feed!Next]_(Feed!vars)
  OBVIOUS
<1>1. ASSUME NEW r \in Resource, Store(r) PROVE Feed!Next
  <2>1. contents[r] = covers[version][r]
    BY <1>1 DEF Inv, TypeOK, Accounting, Store
  <2>2. Feed!Store(r)
    BY <1>1, <2>1 DEF Store, Feed!Store, storeVars, streamVars
  <2> QED
    BY <2>2 DEF Feed!Next
<1>2. ASSUME NEW r \in Resource, Bump(r) PROVE Feed!Next
  <2>1. contents[r] = covers[version][r] + 1
    BY <1>2 DEF Inv, Accounting, Bump
  <2>2. covers'[version'] = [covers[version] EXCEPT ![r] = @ + 1]
    BY <1>2, BumpCovers DEF Inv
  <2>3. covers[version] \in [Resource -> Nat]
    BY DEF Inv, TypeOK
  <2>4. covers'[version'] = [covers[version] EXCEPT ![r] = contents[r]]
    BY <2>1, <2>2, <2>3
  <2>5. Feed!Acknowledge(r)
    BY <1>2, <2>4 DEF Bump, Feed!Acknowledge, streamVars
  <2> QED
    BY <2>5 DEF Feed!Next
<1>3. CASE NotifyChange \/ WaitRegister \/ WaitCheck \/ UNCHANGED vars
  BY <1>3 DEF NotifyChange, WaitRegister, WaitCheck, vars, storeVars, streamVars,
              Feed!vars
<1>4. ASSUME NEW s \in Stream, Respond(s) PROVE [Feed!Next]_(Feed!vars)
  BY <1>4, FeedRespond
<1>5. ASSUME NEW s \in Stream,
             \/ Open(s) \/ OpenFirst(s) \/ NotifyWaiters(s) \/ Fetch(s)
             \/ ReadVersion(s) \/ Receive(s) \/ Lag(s) \/ Disconnect(s)
      PROVE  [Feed!Next]_(Feed!vars)
  <2>1. UNCHANGED << storeVars, view >>
    BY <1>5 DEF Open, OpenFirst, NotifyWaiters, Fetch, ReadVersion, Receive,
                Lag, Disconnect
  <2>2. \E p \in Phase : phase' = [phase EXCEPT ![s] = p]
    BY <1>5 DEF Open, OpenFirst, NotifyWaiters, Fetch, ReadVersion, Receive,
                Lag, Disconnect, Phase
  <2> QED
    BY <2>1, <2>2, FeedStream
<1> QED
  BY <1>1, <1>2, <1>3, <1>4, <1>5 DEF Next

\* The streams of the server implement the abstract feed (its safety part).
THEOREM FeedImplemented == Spec => ImplementsFeedSafety
<1>1. Spec => [][Next]_vars /\ Init
  BY PTL DEF Spec, Safety
<1> QED
  BY <1>1, FeedInit, FeedStep, InvHolds, PTL DEF ImplementsFeedSafety, Feed!Safety
=============================================================================
