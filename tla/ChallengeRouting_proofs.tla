------------------------ MODULE ChallengeRouting_proofs ------------------------
(***************************************************************************)
(* Proofs about ChallengeRouting, for every set of tokens and certificates *)
(* and every capacity of the notification channel.                         *)
(*                                                                         *)
(* While an order is validating, the active challenges do not change.      *)
(* Caught says what that buys: at every place where the updater may be     *)
(* with nothing left to receive, what it holds or has stored is the        *)
(* current set of challenges.  Only an updater that subscribes after the   *)
(* announcement waits in ignorance of them.  StreamCaught says the same of *)
(* the stream and the listeners.                                           *)
(***************************************************************************)
EXTENDS ChallengeRouting, TLAPS

\* The updater with an empty backlog has read the challenges already.
Caught ==
  Validating /\ backlog["updater"] = 0 =>
    /\ SubscribesFirst /\ updater = "waiting" => listeners = Active(challenges)
    /\ updater = "comparing" => merged = Active(challenges)
    /\ updater = "bumping" => listeners = Active(challenges)

\* The stream with an empty backlog has responded with the listeners, unless
\* the updater is about to notify it of new ones.
StreamCaught ==
  StreamIdle /\ updater # "bumping" => envoy = listeners

\* The challenges of the current order are active, and of no other.
TokensActive ==
  /\ tokens \subseteq Active(challenges)
  /\ issuer \in {"held", "idle", "finalizing"} => tokens = {}

\* Where the scheduler has the updater subscribe first, every order starts
\* after that.
Subscribed == SubscribesFirst /\ issuer \notin {"held", "idle"} => updater # "starting"

RouteInv ==
  /\ TypeOK
  /\ Caught
  /\ StreamCaught
  /\ TokensActive
  /\ Subscribed

USE CapacityAssumption, NoCertAssumption, ScheduleAssumption

LEMMA SendBacklog ==
  ASSUME NEW b \in [Receiver -> Backlog]
  PROVE  /\ Send(b) \in [Receiver -> Backlog]
         /\ \A r \in Receiver : Send(b)[r] # 0
BY DEF Send, AfterSend, Backlog, Unsubscribed, Lagged

LEMMA ReceiverBacklog ==
  ASSUME NEW b \in [Receiver -> Backlog], NEW r \in Receiver
  PROVE  /\ Subscribe(b, r) \in [Receiver -> Backlog]
         /\ Subscribe(b, r)[r] = 0
         /\ Drop(b, r) \in [Receiver -> Backlog]
         /\ Drop(b, r)[r] # 0
         /\ CanReceive(b, r) => Recv(b, r) \in [Receiver -> Backlog]
         /\ \A q \in Receiver \ {r} : /\ Subscribe(b, r)[q] = b[q]
                                      /\ Drop(b, r)[q] = b[q]
                                      /\ Recv(b, r)[q] = b[q]
BY DEF Subscribe, Drop, CanReceive, Recv, Backlog, Unsubscribed, Lagged

LEMMA RouteInit == Init => RouteInv
BY DEF Init, RouteInv, TypeOK, Caught, StreamCaught, TokensActive, Subscribed,
       Validating, StreamIdle, Receiver, Backlog, Unsubscribed, Lagged, Updater,
       StreamPhase, Issuer, Result

(***************************************************************************)
(* The steps of the updater.                                               *)
(***************************************************************************)
LEMMA UpdaterStep ==
  ASSUME RouteInv, UpdaterNext
  PROVE  RouteInv'
<1> USE DEF RouteInv, challengeVars, updaterVars, streamVars, issuerVars
<1>0. {"updater", "stream"} = Receiver /\ backlog \in [Receiver -> Backlog]
  BY DEF Receiver, TypeOK
<1>1. CASE UpdaterStart
  <2>1. SubscribesFirst => ~Validating'
    BY <1>1 DEF UpdaterStart, Subscribed, Validating
  <2>2. backlog' \in [Receiver -> Backlog] /\ backlog'["stream"] = backlog["stream"]
    BY <1>0, <1>1, ReceiverBacklog DEF UpdaterStart, Receiver
  <2> QED
    BY <1>1, <2>1, <2>2 DEF UpdaterStart, TypeOK, Updater, Caught, StreamCaught,
                            TokensActive, Subscribed, StreamIdle
<1>2. CASE UpdaterReceive
  <2>1. backlog' \in [Receiver -> Backlog] /\ backlog'["stream"] = backlog["stream"]
    BY <1>0, <1>2, ReceiverBacklog DEF UpdaterReceive, Receiver
  <2> QED
    BY <1>2, <2>1 DEF UpdaterReceive, TypeOK, Updater, Caught, StreamCaught,
                      TokensActive, Subscribed, StreamIdle, Validating
<1>3. CASE UpdaterLag
  <2>1. backlog' \in [Receiver -> Backlog] /\ backlog'["stream"] = backlog["stream"]
    BY <1>0, <1>3, ReceiverBacklog DEF UpdaterLag, Receiver
  <2> QED
    BY <1>3, <2>1 DEF UpdaterLag, TypeOK, Updater, Caught, StreamCaught,
                      TokensActive, Subscribed, StreamIdle, Validating
<1>4. CASE Merge
  BY <1>4 DEF Merge, TypeOK, Updater, Caught, StreamCaught, TokensActive,
              Subscribed, StreamIdle, Validating, Active
<1>5. CASE Compare
  BY <1>5 DEF Compare, TypeOK, Updater, Caught, StreamCaught, TokensActive,
              Subscribed, StreamIdle, Validating
<1>6. CASE UpdaterBump
  <2>1. /\ backlog' \in [Receiver -> Backlog]
        /\ backlog'["updater"] # 0 /\ backlog'["stream"] # 0
    BY <1>0, <1>6, SendBacklog DEF UpdaterBump
  <2> QED
    BY <1>6, <2>1 DEF UpdaterBump, TypeOK, Updater, Caught, StreamCaught,
                      TokensActive, Subscribed, StreamIdle, Validating
<1> QED
  BY <1>1, <1>2, <1>3, <1>4, <1>5, <1>6 DEF UpdaterNext

(***************************************************************************)
(* The steps of the stream.                                                *)
(***************************************************************************)
LEMMA StreamStep ==
  ASSUME RouteInv, StreamNext
  PROVE  RouteInv'
<1> USE DEF RouteInv, challengeVars, updaterVars, streamVars, issuerVars
<1>0. {"updater", "stream"} = Receiver /\ backlog \in [Receiver -> Backlog]
  BY DEF Receiver, TypeOK
<1>1. CASE OpenStream
  <2>1. backlog' \in [Receiver -> Backlog] /\ backlog'["updater"] = backlog["updater"]
    BY <1>0, <1>1, ReceiverBacklog DEF OpenStream, Receiver
  <2>2. /\ issuer' \in Issuer
        /\ issuer' \in {"held", "idle"} <=> issuer \in {"held", "idle"}
        /\ issuer' \in {"authorizing", "announced", "polling"} => issuer' = issuer
        /\ Validating' => Validating
    BY <1>1 DEF OpenStream, TypeOK, Issuer, Validating
  <2> QED
    BY <1>1, <2>1, <2>2 DEF OpenStream, TypeOK, StreamPhase, Caught, StreamCaught,
                            TokensActive, Subscribed, StreamIdle
<1>2. CASE Respond
  BY <1>2 DEF Respond, TypeOK, StreamPhase, Caught, StreamCaught, TokensActive,
              Subscribed, StreamIdle, Validating
<1>3. CASE StreamReceive
  <2>1. backlog' \in [Receiver -> Backlog] /\ backlog'["updater"] = backlog["updater"]
    BY <1>0, <1>3, ReceiverBacklog DEF StreamReceive, Receiver
  <2> QED
    BY <1>3, <2>1 DEF StreamReceive, TypeOK, StreamPhase, Caught, StreamCaught,
                      TokensActive, Subscribed, StreamIdle, Validating
<1>4. CASE CloseStream
  <2>1. backlog' \in [Receiver -> Backlog] /\ backlog'["updater"] = backlog["updater"]
    BY <1>0, <1>4, ReceiverBacklog DEF CloseStream, Receiver
  <2> QED
    BY <1>4, <2>1 DEF CloseStream, TypeOK, StreamPhase, Caught, StreamCaught,
                      TokensActive, Subscribed, StreamIdle, Validating
<1> QED
  BY <1>1, <1>2, <1>3, <1>4 DEF StreamNext

(***************************************************************************)
(* The steps of the issuer.  Only Announce begins a validation, and its    *)
(* notification leaves no backlog empty.                                   *)
(***************************************************************************)
LEMMA ClearType ==
  ASSUME TypeOK, NEW c \in Cert
  PROVE  ClearForCert(c) \in [Token -> Cert \union {NoCert}]
BY DEF TypeOK, ClearForCert

\* A step after which no order is validating, whatever it does to challenges.
LEMMA OrderEnds ==
  ASSUME RouteInv,
         UNCHANGED << updaterVars, streamVars >>,
         challenges' \in [Token -> Cert \union {NoCert}],
         backlog' = backlog \/ backlog' = Send(backlog),
         issuer' \in {"idle", "finalizing"},
         cert' \in Cert \union {NoCert},
         cert' = NoCert <=> issuer' = "idle",
         issuer' = "finalizing" => issuer # "idle" /\ issuer # "held",
         tokens' = {},
         result' \in [Cert -> Result]
  PROVE  RouteInv'
<1> USE DEF RouteInv, updaterVars, streamVars
<1>1. {"updater", "stream"} = Receiver /\ backlog \in [Receiver -> Backlog]
  BY DEF Receiver, TypeOK
<1>2. /\ backlog' \in [Receiver -> Backlog]
      /\ backlog'["stream"] = 0 => backlog["stream"] = 0
  BY <1>1, SendBacklog
<1>3. ~Validating' /\ issuer' \in Issuer
  BY DEF Validating, Issuer
<1> QED
  BY <1>2, <1>3 DEF TypeOK, Caught, StreamCaught, TokensActive, Subscribed, StreamIdle

LEMMA OrderStep ==
  ASSUME RouteInv, OrderNext
  PROVE  RouteInv'
<1> USE DEF challengeVars, updaterVars, streamVars, issuerVars
<1>0. /\ TypeOK
      /\ {"updater", "stream"} = Receiver
      /\ backlog \in [Receiver -> Backlog]
      /\ issuer \notin {"held", "idle"} => cert \in Cert
  BY DEF RouteInv, Receiver, TypeOK, Issuer
<1>1. ASSUME NEW c \in Cert, LoadStored(c) PROVE RouteInv'
  <2>1. /\ backlog' \in [Receiver -> Backlog]
        /\ backlog'["stream"] # 0
    BY <1>0, <1>1, SendBacklog DEF LoadStored
  <2> QED
    BY <1>1, <2>1 DEF LoadStored, RouteInv, TypeOK, Caught, StreamCaught, Result,
                      TokensActive, Subscribed, StreamIdle, Validating
<1>2. ASSUME NEW c \in Cert, StartOrder(c) PROVE RouteInv'
  <2>1. (SubscribesFirst => updater # "starting") /\ ~Validating'
    BY <1>2 DEF StartOrder, Scheduled, Validating
  <2> QED
    BY <1>2, <2>1 DEF StartOrder, RouteInv, TypeOK, Issuer, Caught, StreamCaught,
                      TokensActive, Subscribed, StreamIdle
<1>3. ASSUME NEW t \in Token, AddChallenge(t) PROVE RouteInv'
  <2>1. tokens' \subseteq Active(challenges')
    BY <1>0, <1>3 DEF AddChallenge, RouteInv, TypeOK, TokensActive, Active
  <2>2. ~Validating'
    BY <1>3 DEF AddChallenge, Validating
  <2> QED
    BY <1>0, <1>3, <2>1, <2>2
    DEF AddChallenge, RouteInv, TypeOK, Caught, StreamCaught, TokensActive,
        Subscribed, StreamIdle
<1>4. CASE Announce
  <2>1. /\ backlog' \in [Receiver -> Backlog]
        /\ backlog'["updater"] # 0 /\ backlog'["stream"] # 0
    BY <1>0, <1>4, SendBacklog DEF Announce
  <2> QED
    BY <1>4, <2>1 DEF Announce, RouteInv, TypeOK, Issuer, Caught, StreamCaught,
                      TokensActive, Subscribed, StreamIdle
<1>5. CASE SignalReady
  BY <1>5 DEF SignalReady, RouteInv, TypeOK, Issuer, Caught, StreamCaught,
              TokensActive, Subscribed, StreamIdle, Validating
<1>6. CASE AbandonAuthorizations \/ AuthorizationFails \/ SignalFails
           \/ OrderFails \/ FinalizeFails
  <2>1. /\ EndFailed
        /\ issuer \notin {"held", "idle"}
        /\ UNCHANGED << backlog, updaterVars, streamVars >>
        /\ challenges' \in {challenges, ClearForCert(cert)}
    BY <1>6 DEF AbandonAuthorizations, AuthorizationFails, SignalFails, OrderFails,
                FinalizeFails
  <2>2. challenges' \in [Token -> Cert \union {NoCert}]
    BY <1>0, <2>1, ClearType DEF TypeOK
  <2>3. result' \in [Cert -> Result]
    BY <1>0, <2>1 DEF TypeOK, EndFailed, Result
  <2> QED
    BY <2>1, <2>2, <2>3, OrderEnds DEF EndFailed
<1>7. CASE NothingToComplete \/ OrderReady
  <2>1. /\ issuer \in {"authorizing", "polling"}
        /\ issuer' = "finalizing"
        /\ challenges' = ClearForCert(cert)
        /\ tokens' = {}
        /\ UNCHANGED << backlog, updaterVars, streamVars, cert, result >>
    BY <1>7 DEF NothingToComplete, OrderReady
  <2>2. cert \in Cert
    BY <1>0, <2>1
  <2>3. challenges' \in [Token -> Cert \union {NoCert}]
    BY <1>0, <2>1, <2>2, ClearType
  <2> QED
    BY <1>0, <2>1, <2>2, <2>3, OrderEnds DEF TypeOK
<1>8. CASE Publish
  <2>1. tokens' = {}
    BY <1>8 DEF Publish, RouteInv, TokensActive
  <2>2. result' \in [Cert -> Result]
    BY <1>0, <1>8 DEF Publish, TypeOK, Result
  <2> QED
    BY <1>0, <1>8, <2>1, <2>2, OrderEnds DEF Publish, TypeOK
<1> QED
  BY <1>1, <1>2, <1>3, <1>4, <1>5, <1>6, <1>7, <1>8 DEF OrderNext

LEMMA RouteStep == RouteInv /\ [Next]_vars => RouteInv'
<1> SUFFICES ASSUME RouteInv, [Next]_vars PROVE RouteInv'
  OBVIOUS
<1>1. CASE UNCHANGED vars
  BY <1>1 DEF vars, challengeVars, updaterVars, streamVars, issuerVars, RouteInv,
              TypeOK, Caught, StreamCaught, TokensActive, Subscribed, StreamIdle,
              Validating
<1> QED
  BY <1>1, UpdaterStep, StreamStep, OrderStep DEF Next

(***************************************************************************)
(* The invariant: the types, the owners of the challenges an order added,  *)
(* and where the announced ones are on their way from the issuer through   *)
(* the updater and the stream to Envoy (order.rs, main.rs 111-133).        *)
(***************************************************************************)
THEOREM RouteInvHolds == Spec => []RouteInv
<1> QED
  BY RouteInit, RouteStep, PTL DEF Spec

\* Every reachable state of the issuer, the updater, the stream and what they
\* share is well typed (challenge.rs, order.rs, main.rs 111-133).
THEOREM RoutingTypeCorrect == Spec => []TypeOK
<1>1. RouteInv => TypeOK
  BY DEF RouteInv
<1> QED
  BY <1>1, RouteInvHolds, PTL

\* If the updater has subscribed before the first order, an announcement that
\* nobody is still working on has put its challenges into Envoy.
THEOREM AnnouncedChallengesAreServed ==
  ASSUME SubscribesFirst
  PROVE  Spec => []AnnouncedIsServed
<1>1. RouteInv => AnnouncedIsServed
  BY DEF RouteInv, Caught, StreamCaught, TokensActive, AnnouncedIsServed,
         UpdaterIdle
<1> QED
  BY <1>1, RouteInvHolds, PTL

(***************************************************************************)
(* Who owns challenges: certificates whose order is running, and those     *)
(* whose last order failed.                                                *)
(***************************************************************************)
OwnerInv ==
  /\ TypeOK
  /\ \A c \in Cert, t \in Token :
       result[c] # "failed" /\ cert # c => challenges[t] # c
  /\ issuer = "finalizing" => \A t \in Token : challenges[t] # cert

LEMMA OwnerStep == OwnerInv /\ TypeOK' /\ [Next]_vars => OwnerInv'
<1> SUFFICES ASSUME OwnerInv, TypeOK', [Next]_vars PROVE OwnerInv'
  OBVIOUS
<1> USE DEF OwnerInv, TypeOK
<1>1. CASE UNCHANGED << challenges, issuerVars >>
  BY <1>1 DEF issuerVars
<1>2. CASE OpenStream
  BY <1>2 DEF OpenStream, challengeVars
<1>3. ASSUME NEW c \in Cert, LoadStored(c) \/ StartOrder(c) PROVE OwnerInv'
  BY <1>3 DEF LoadStored, StartOrder, challengeVars
<1>4. ASSUME NEW t \in Token, AddChallenge(t) PROVE OwnerInv'
  BY <1>4 DEF AddChallenge, issuerVars
<1>5. CASE AbandonAuthorizations \/ SignalFails \/ FinalizeFails
  BY <1>5 DEF AbandonAuthorizations, SignalFails, FinalizeFails, EndFailed
<1>6. CASE AuthorizationFails \/ OrderFails
  BY <1>6 DEF AuthorizationFails, OrderFails, EndFailed, ClearForCert
<1>7. CASE NothingToComplete \/ OrderReady
  BY <1>7, NoCertAssumption DEF NothingToComplete, OrderReady, ClearForCert
<1>8. CASE Announce \/ SignalReady
  BY <1>8 DEF Announce, SignalReady, challengeVars
<1>9. CASE Publish
  BY <1>9 DEF Publish, challengeVars
<1> QED
  BY <1>1, <1>2, <1>3, <1>4, <1>5, <1>6, <1>7, <1>8, <1>9
  DEF Next, UpdaterNext, StreamNext, OrderNext, UpdaterStart, UpdaterReceive,
      UpdaterLag, Merge, Compare, UpdaterBump, Respond, StreamReceive,
      CloseStream, vars, challengeVars

\* Who owns challenges, in every reachable state.
LEMMA OwnerInvHolds == Spec => []OwnerInv
<1>1. Init => OwnerInv
  BY RouteInit, NoCertAssumption DEF Init, OwnerInv, RouteInv
<1> QED
  BY <1>1, OwnerStep, RoutingTypeCorrect, PTL DEF Spec

\* A certificate that is issued has no challenge left behind by an order
\* (order.rs:51-117).
THEOREM IssuedCertificatesAreClean == Spec => []IssuedLeavesNoChallenge
<1>1. OwnerInv => IssuedLeavesNoChallenge
  BY DEF OwnerInv, IssuedLeavesNoChallenge
<1> QED
  BY <1>1, OwnerInvHolds, PTL

\* From the announcement to the end of the validation, only a rebuild that
\* read the challenges before it withdraws one of its routes, and then the
\* updater still has the announcement to receive, or has lagged, whatever the
\* scheduling (main.rs:116-133, order.rs:63-113).
THEOREM WithdrawalsAreStale == Spec => OnlyStaleRebuildsWithdraw
<1>1. RouteInv /\ [Next]_vars
        => [Validating /\ Validating' /\ backlog["updater"] = 0
              => tokens \intersect listeners \subseteq listeners']_vars
  <2> SUFFICES ASSUME RouteInv, [Next]_vars, Validating, Validating', backlog["updater"] = 0
               PROVE  tokens \intersect listeners \subseteq listeners'
    OBVIOUS
  <2>1. CASE Compare
    <3>1. listeners' = merged /\ merged = Active(challenges)
      BY <2>1 DEF Compare, RouteInv, Caught
    <3>2. tokens \subseteq Active(challenges)
      BY DEF RouteInv, TokensActive
    <3> QED BY <3>1, <3>2
  <2>2. CASE UpdaterNext /\ ~Compare
    BY <2>2 DEF UpdaterNext, UpdaterStart, UpdaterReceive, UpdaterLag, Merge, UpdaterBump
  <2>3. CASE StreamNext
    BY <2>3 DEF StreamNext, OpenStream, Respond, StreamReceive, CloseStream, updaterVars
  <2>4. CASE OrderNext
    BY <2>4 DEF OrderNext, LoadStored, StartOrder, AddChallenge, AbandonAuthorizations,
                AuthorizationFails, Announce, NothingToComplete, SignalReady, SignalFails,
                OrderReady, OrderFails, FinalizeFails, Publish, updaterVars
  <2>5. CASE UNCHANGED vars
    BY <2>5 DEF vars, updaterVars
  <2> QED BY <2>1, <2>2, <2>3, <2>4, <2>5 DEF Next
<1> QED
  BY <1>1, RouteInvHolds, PTL DEF Spec, OnlyStaleRebuildsWithdraw

(***************************************************************************)
(* The cleanup after an order.  Clearing the challenges notifies nobody;   *)
(* every way back to an idle issuer without a failure notifies, so that an *)
(* updater with an empty backlog has seen that there are none.             *)
(***************************************************************************)
NoneFailed == \A c \in Cert : result[c] # "failed"

Cleaned ==
  /\ updater = "starting" => listeners = {}
  /\ NoneFailed /\ issuer \in {"held", "idle"} /\ backlog["updater"] = 0 =>
       /\ updater \in {"waiting", "bumping"} => listeners = {}
       /\ updater = "comparing" => merged = {}

LEMMA IdleMeansClean ==
  ASSUME OwnerInv, NoneFailed, issuer \in {"held", "idle"}
  PROVE  Active(challenges) = {}
<1>1. cert = NoCert
  BY DEF OwnerInv, TypeOK
<1>2. \A t \in Token : challenges[t] \notin Cert
  BY <1>1, NoCertAssumption DEF OwnerInv, NoneFailed
<1> QED
  BY <1>2 DEF OwnerInv, TypeOK, Active

LEMMA CleanedStep == OwnerInv /\ Cleaned /\ [Next]_vars => Cleaned'
<1> SUFFICES ASSUME OwnerInv, Cleaned, [Next]_vars PROVE Cleaned'
  OBVIOUS
<1> USE DEF Cleaned, NoneFailed, challengeVars, updaterVars, streamVars, issuerVars
<1>0. /\ TypeOK
      /\ {"updater", "stream"} = Receiver /\ backlog \in [Receiver -> Backlog]
  BY DEF Receiver, TypeOK, OwnerInv
<1>1. CASE UpdaterStart
  BY <1>1 DEF UpdaterStart
<1>2. CASE UpdaterReceive \/ UpdaterLag
  BY <1>2 DEF UpdaterReceive, UpdaterLag
<1>3. CASE Merge
  BY <1>3, IdleMeansClean DEF Merge
<1>4. CASE Compare
  BY <1>4 DEF Compare
<1>5. CASE UpdaterBump
  <2>1. backlog'["updater"] # 0
    BY <1>0, <1>5, SendBacklog DEF UpdaterBump
  <2> QED BY <1>5, <2>1 DEF UpdaterBump
<1>6. CASE StreamNext
  <2>1. backlog'["updater"] = backlog["updater"]
    <3>1. CASE OpenStream
      BY <1>0, <3>1, ReceiverBacklog DEF OpenStream
    <3>2. CASE StreamReceive
      BY <1>0, <3>2, ReceiverBacklog DEF StreamReceive
    <3>3. CASE Respond \/ CloseStream
      BY <1>0, <3>3, ReceiverBacklog DEF Respond, CloseStream
    <3> QED BY <1>6, <3>1, <3>2, <3>3 DEF StreamNext
  <2>2. /\ UNCHANGED << updaterVars, result >>
        /\ issuer' \in {"held", "idle"} => issuer \in {"held", "idle"}
    BY <1>6 DEF StreamNext, OpenStream, Respond, StreamReceive, CloseStream
  <2> QED BY <2>1, <2>2
<1>7. CASE OrderNext
  <2>1. UNCHANGED updaterVars
    BY <1>7 DEF OrderNext, LoadStored, StartOrder, AddChallenge, AbandonAuthorizations,
                AuthorizationFails, Announce, NothingToComplete, SignalReady, SignalFails,
                OrderReady, OrderFails, FinalizeFails, Publish
  <2>2. CASE EndFailed /\ issuer \notin {"held", "idle"}
    <3>1. cert \in Cert /\ result'[cert] = "failed"
      BY <1>0, <2>2 DEF EndFailed, TypeOK
    <3> QED BY <2>1, <3>1
  <2>3. CASE issuer' \notin {"held", "idle"}
    BY <2>1, <2>3
  <2>4. CASE backlog' = Send(backlog)
    BY <1>0, <2>1, <2>4, SendBacklog
  <2> QED
    BY <1>7, <2>2, <2>3, <2>4
       DEF OrderNext, LoadStored, StartOrder, AddChallenge, AbandonAuthorizations,
           AuthorizationFails, Announce, NothingToComplete, SignalReady, SignalFails,
           OrderReady, OrderFails, FinalizeFails, Publish
<1>8. CASE UNCHANGED vars
  BY <1>8 DEF vars
<1> QED
  BY <1>1, <1>2, <1>3, <1>4, <1>5, <1>6, <1>7, <1>8 DEF Next, UpdaterNext

\* As long as the last order of no certificate failed, an idle updater has
\* removed every challenge route, although clear_for_cert sends no
\* notification (order.rs:117, renewal.rs:157, main.rs:116-133).
THEOREM SuccessLeavesNoRoute == Spec => []CleanAfterSuccess
<1>1. Init => Cleaned
  BY DEF Init, Cleaned
<1>2. Cleaned => CleanAfterSuccess
  BY DEF Cleaned, CleanAfterSuccess, NoneFailed, UpdaterIdle
<1> QED
  BY <1>1, <1>2, CleanedStep, OwnerInvHolds, PTL DEF Spec
=============================================================================
