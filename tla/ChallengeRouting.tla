--------------------------- MODULE ChallengeRouting ---------------------------
(***************************************************************************)
(* How the HTTP-01 challenges of an order reach Envoy and leave it again.  *)
(*                                                                         *)
(* Four actors share two pieces of state.  The issuer (the renewal         *)
(* manager of src/acme/renewal.rs running CertificateOrder::order of       *)
(* src/acme/order.rs) writes the active challenges and announces them.     *)
(* The updater (the task that main.rs:111-133 spawns) rebuilds the         *)
(* listeners from the active challenges.  The LDS stream serves the        *)
(* listeners to Envoy.  The issuer, the updater and the stream are         *)
(* coupled by the notification channel alone: the issuer waits a fixed     *)
(* delay, not for the routes.  The ACME server is the environment; each    *)
(* of its answers is a nondeterministic choice.                            *)
(*                                                                         *)
(* A listener is reduced to the challenges it routes.  The version and the *)
(* two reads of a response are those of XdsState: the stream here is what  *)
(* DiscoveryFeed, which XdsState implements, lets a client see.            *)
(***************************************************************************)
EXTENDS Broadcast

CONSTANTS
  Token,          \* challenge tokens the ACME server hands out
  Cert,           \* configured certificates
  NoCert,         \* owner of a token that is not an active challenge
  SubscribesFirst \* scheduling: the updater has subscribed before an order
                  \* starts or a stored certificate is loaded

ASSUME NoCertAssumption == NoCert \notin Cert
ASSUME ScheduleAssumption == SubscribesFirst \in BOOLEAN

VARIABLES
  challenges,     \* ChallengeState: the owner of each active token
  listeners,      \* XdsState::listeners: the tokens they route
  backlog,        \* the receivers of XdsState::notify
  updater,        \* where the updater task is
  merged,         \* the rebuilt listeners it holds
  stream,         \* where the LDS stream is
  envoy,          \* the tokens that the listeners Envoy runs with route
  issuer,         \* where the renewal manager is
  cert,           \* the certificate it orders
  tokens,         \* the challenges this order is to complete
  result          \* what the last order of each certificate came to

challengeVars == << challenges, tokens >>
updaterVars   == << updater, merged, listeners >>
streamVars    == << stream, envoy >>
issuerVars    == << issuer, cert, result >>
vars == << challengeVars, backlog, updaterVars, streamVars, issuerVars >>

Receiver == {"updater", "stream"}

Updater == {"starting", "waiting", "merging", "comparing", "bumping", "ended"}
StreamPhase == {"closed", "building", "waiting"}
Issuer == {"held", "idle", "authorizing", "announced", "polling", "finalizing"}
Result == {"none", "issued", "failed"}

Active(owner) == {t \in Token : owner[t] # NoCert}

\* Mutant: only the challenges of the current order are cleared.
ClearForOrder(c) ==
  [t \in Token |-> IF challenges[t] = c /\ t \in tokens THEN NoCert ELSE challenges[t]]

\* ChallengeState::clear_for_cert.
ClearForCert(c) == [t \in Token |-> IF challenges[t] = c THEN NoCert ELSE challenges[t]]

Init ==
  /\ challenges = [t \in Token |-> NoCert]
  /\ listeners = {}
  /\ backlog = [r \in Receiver |-> Unsubscribed]
  /\ updater = "starting"
  /\ merged = {}
  /\ stream = "closed"
  /\ envoy = {}
  /\ issuer = "held"
  /\ cert = NoCert
  /\ tokens = {}
  /\ result = [c \in Cert |-> "none"]

-----------------------------------------------------------------------------
(* The updater: main.rs 116-133.                                           *)

UpdaterIdle == updater = "waiting" /\ backlog["updater"] = 0

UpdaterStart ==
  /\ updater = "starting"
  /\ updater' = "waiting"
  /\ backlog' = Subscribe(backlog, "updater")
  /\ UNCHANGED << challengeVars, merged, listeners, streamVars, issuerVars >>

UpdaterReceive ==
  /\ updater = "waiting"
  /\ CanReceive(backlog, "updater")
  /\ updater' = "merging"
  /\ backlog' = Recv(backlog, "updater")
  /\ UNCHANGED << challengeVars, merged, listeners, streamVars, issuerVars >>

\* recv returns Err(Lagged), the loop ends, and nothing restarts the task.
UpdaterLag ==
  /\ updater = "waiting"
  /\ HasLagged(backlog, "updater")
  /\ updater' = "ended"
  /\ backlog' = Drop(backlog, "updater")
  /\ UNCHANGED << challengeVars, merged, listeners, streamVars, issuerVars >>

\* merge_listeners: one read of the active challenges.
Merge ==
  /\ updater = "merging"
  /\ updater' = "comparing"
  /\ merged' = Active(challenges)
  /\ UNCHANGED << challengeVars, backlog, listeners, streamVars, issuerVars >>

\* Mutant: the listeners are updated without being compared.
CompareNothing ==
  /\ updater = "comparing"
  /\ updater' = "bumping"
  /\ listeners' = merged
  /\ merged' = {}
  /\ UNCHANGED << challengeVars, backlog, streamVars, issuerVars >>

\* Mutant: what was sent during a rebuild counts as answered by it.
CompareAndForget ==
  /\ updater = "comparing"
  /\ updater' = IF listeners = merged THEN "waiting" ELSE "bumping"
  /\ listeners' = merged
  /\ merged' = {}
  /\ backlog' = Subscribe(backlog, "updater")
  /\ UNCHANGED << challengeVars, streamVars, issuerVars >>

\* Only the updater writes the listeners now, so the comparison cannot go
\* stale before update_listeners stores them.  The code compares listeners
\* whose routes follow the order of the challenges in the map; one set of
\* challenges is taken to come in one order.
Compare ==
  /\ updater = "comparing"
  /\ updater' = IF listeners = merged THEN "waiting" ELSE "bumping"
  /\ listeners' = merged
  /\ merged' = {}
  /\ UNCHANGED << challengeVars, backlog, streamVars, issuerVars >>

\* Mutant: the updater's own update triggers no notification.
UpdaterBumpSilently ==
  /\ updater = "bumping"
  /\ updater' = "waiting"
  /\ UNCHANGED << challengeVars, backlog, merged, listeners, streamVars, issuerVars >>

\* bump_version at the end of update_listeners: the updater hears it too.
UpdaterBump ==
  /\ updater = "bumping"
  /\ updater' = "waiting"
  /\ backlog' = Send(backlog)
  /\ UNCHANGED << challengeVars, merged, listeners, streamVars, issuerVars >>

-----------------------------------------------------------------------------
(* The LDS stream and Envoy, which keeps its listeners between streams.    *)

\* The first one also releases initial issuance, held in wait_for_lds.
OpenStream ==
  /\ stream = "closed"
  /\ stream' = "building"
  /\ backlog' = Subscribe(backlog, "stream")
  /\ issuer' = IF issuer = "held" THEN "idle" ELSE issuer
  /\ UNCHANGED << challengeVars, updaterVars, envoy, cert, result >>

Respond ==
  /\ stream = "building"
  /\ stream' = "waiting"
  /\ envoy' = listeners
  /\ UNCHANGED << challengeVars, backlog, updaterVars, issuerVars >>

StreamReceive ==
  /\ stream = "waiting"
  /\ CanReceive(backlog, "stream")
  /\ stream' = "building"
  /\ backlog' = Recv(backlog, "stream")
  /\ UNCHANGED << challengeVars, updaterVars, envoy, issuerVars >>

\* Err(Lagged), or the client is gone.
CloseStream ==
  /\ stream # "closed"
  /\ stream' = "closed"
  /\ backlog' = Drop(backlog, "stream")
  /\ UNCHANGED << challengeVars, updaterVars, envoy, issuerVars >>

StreamLag == HasLagged(backlog, "stream") /\ stream = "waiting" /\ CloseStream

-----------------------------------------------------------------------------
(* The issuer.  Every way out of an order is an action of its own, since   *)
(* they differ in whether the challenges are cleared.                      *)

\* No code orders the issuer after the updater; this is the assumption on the
\* scheduler under which some runs and theorems are stated.
Scheduled == SubscribesFirst => updater # "starting"

\* initial_issuance finds a stored certificate and publishes it.
LoadStored(c) ==
  /\ issuer = "idle"
  /\ Scheduled
  /\ result[c] = "none"
  /\ result' = [result EXCEPT ![c] = "issued"]
  /\ backlog' = Send(backlog)
  /\ UNCHANGED << challengeVars, updaterVars, streamVars, issuer, cert >>

\* renew_certificate calls order: once for each certificate that has to be
\* issued at startup, then whenever the renewal loop finds one due.
StartOrder(c) ==
  /\ issuer = "idle"
  /\ Scheduled
  /\ result[c] = "none" \/ \A d \in Cert : result[d] # "none"
  /\ issuer' = "authorizing"
  /\ cert' = c
  /\ UNCHANGED << challengeVars, backlog, updaterVars, streamVars, result >>

\* A pending authorization that offers an HTTP-01 challenge.
AddChallenge(t) ==
  /\ issuer = "authorizing"
  /\ t \notin tokens
  /\ challenges' = [challenges EXCEPT ![t] = cert]
  /\ tokens' = tokens \union {t}
  /\ UNCHANGED << backlog, updaterVars, streamVars, issuerVars >>

\* Mutant: the certificate of a failed order is not forgotten.
EndFailedKeepingCert ==
  /\ issuer' = "idle"
  /\ tokens' = {}
  /\ result' = [result EXCEPT ![cert] = "failed"]
  /\ UNCHANGED cert

\* The order is over; the error reaches the loop of the renewal manager.
EndFailed ==
  /\ issuer' = "idle"
  /\ cert' = NoCert
  /\ tokens' = {}
  /\ result' = [result EXCEPT ![cert] = "failed"]

\* new_order or authorizations fails, or an authorization has no HTTP-01
\* challenge: the ? operator returns from wherever the loop is.
AbandonAuthorizations ==
  /\ issuer = "authorizing"
  /\ EndFailed
  /\ UNCHANGED << challenges, backlog, updaterVars, streamVars >>

\* An authorization is invalid, revoked or expired.
AuthorizationFails ==
  /\ issuer = "authorizing"
  /\ challenges' = ClearForCert(cert)
  /\ EndFailed
  /\ UNCHANGED << backlog, updaterVars, streamVars >>

\* All authorizations are processed and some challenge is to be completed.
Announce ==
  /\ issuer = "authorizing"
  /\ tokens # {}
  /\ issuer' = "announced"
  /\ backlog' = Send(backlog)
  /\ UNCHANGED << challengeVars, updaterVars, streamVars, cert, result >>

\* All authorizations were valid already.
NothingToComplete ==
  /\ issuer = "authorizing"
  /\ tokens = {}
  /\ issuer' = "finalizing"
  /\ challenges' = ClearForCert(cert)
  /\ UNCHANGED << tokens, backlog, updaterVars, streamVars, cert, result >>

\* Mutant: the challenges are cleared before the order is ready.
SignalReadyAndClear ==
  /\ issuer = "announced"
  /\ issuer' = "polling"
  /\ challenges' = ClearForCert(cert)
  /\ UNCHANGED << tokens, backlog, updaterVars, streamVars, cert, result >>

\* The delay is over, and set_challenge_ready is called for every challenge.
SignalReady ==
  /\ issuer = "announced"
  /\ issuer' = "polling"
  /\ UNCHANGED << challengeVars, backlog, updaterVars, streamVars, cert, result >>

\* One of these calls fails: its ? operator returns before the cleanup.
SignalFails ==
  /\ issuer = "announced"
  /\ EndFailed
  /\ UNCHANGED << challenges, backlog, updaterVars, streamVars >>

\* wait_for_order_ready returns, and the challenges are cleared.
OrderReady ==
  /\ issuer = "polling"
  /\ issuer' = "finalizing"
  /\ challenges' = ClearForCert(cert)
  /\ tokens' = {}
  /\ UNCHANGED << backlog, updaterVars, streamVars, cert, result >>

\* The order became invalid, a refresh failed, or the attempts ran out.
OrderFails ==
  /\ issuer = "polling"
  /\ challenges' = ClearForCert(cert)
  /\ EndFailed
  /\ UNCHANGED << backlog, updaterVars, streamVars >>

\* Any step from generate_csr to save_certificate fails.
FinalizeFails ==
  /\ issuer = "finalizing"
  /\ EndFailed
  /\ UNCHANGED << challenges, backlog, updaterVars, streamVars >>

\* Mutant: the certificate is published without a notification.
PublishSilently ==
  /\ issuer = "finalizing"
  /\ issuer' = "idle"
  /\ cert' = NoCert
  /\ result' = [result EXCEPT ![cert] = "issued"]
  /\ UNCHANGED << challengeVars, backlog, updaterVars, streamVars >>

\* The certificate is saved, and update_secret publishes it.
Publish ==
  /\ issuer = "finalizing"
  /\ issuer' = "idle"
  /\ cert' = NoCert
  /\ result' = [result EXCEPT ![cert] = "issued"]
  /\ backlog' = Send(backlog)
  /\ UNCHANGED << challengeVars, updaterVars, streamVars >>

-----------------------------------------------------------------------------
UpdaterNext ==
  UpdaterStart \/ UpdaterReceive \/ UpdaterLag \/ Merge \/ Compare \/ UpdaterBump

StreamNext == OpenStream \/ Respond \/ StreamReceive \/ CloseStream

OrderNext ==
  \/ \E c \in Cert : LoadStored(c) \/ StartOrder(c)
  \/ \E t \in Token : AddChallenge(t)
  \/ AbandonAuthorizations \/ AuthorizationFails \/ Announce \/ NothingToComplete
  \/ SignalReady \/ SignalFails \/ OrderReady \/ OrderFails
  \/ FinalizeFails \/ Publish

Next == UpdaterNext \/ StreamNext \/ OrderNext

(***************************************************************************)
(* The runtime polls the updater and a stream whose client keeps reading.  *)
(* The issuer gets no fairness: its calls to the ACME server carry no      *)
(* timeout, so it may be stuck in any of them for ever.                    *)
(***************************************************************************)
Fairness ==
  /\ WF_vars(UpdaterNext)
  /\ WF_vars(Respond \/ StreamReceive \/ StreamLag)

Spec == Init /\ [][Next]_vars /\ Fairness

-----------------------------------------------------------------------------
\* An order whose challenges were announced and are not cleared yet.
Validating == issuer \in {"announced", "polling"}

StreamIdle == stream = "waiting" /\ backlog["stream"] = 0

(* The state of every actor is what its code can make it.                  *)
TypeOK ==
  /\ challenges \in [Token -> Cert \union {NoCert}]
  /\ listeners \subseteq Token
  /\ backlog \in [Receiver -> Backlog]
  /\ updater \in Updater
  /\ merged \subseteq Token
  /\ stream \in StreamPhase
  /\ envoy \subseteq Token
  /\ issuer \in Issuer
  /\ cert \in Cert \union {NoCert}
  /\ cert = NoCert <=> issuer \in {"held", "idle"}
  /\ tokens \subseteq Token
  /\ result \in [Cert -> Result]

(***************************************************************************)
(* While the ACME server may validate, drained channels mean routed        *)
(* challenges: once neither the updater nor the stream has anything left   *)
(* to do, Envoy serves every challenge of the order.  No notification is   *)
(* lost on the two hops from notify_change to Envoy (order.rs:100,         *)
(* main.rs:118-130, lds.rs:69-80), whatever they interleave with.          *)
(***************************************************************************)
AnnouncedIsServed ==
  Validating /\ UpdaterIdle /\ StreamIdle => tokens \subseteq envoy

(***************************************************************************)
(* A rebuild that read the challenges before the announcement and stores   *)
(* after it may withdraw the route of a challenge being validated, and an  *)
(* earlier rebuild may have added that route.  Only such a rebuild does:   *)
(* whoever withdraws a route still has the announcement to receive, or has *)
(* lagged (main.rs:118-130, order.rs:63-113).                              *)
(***************************************************************************)
OnlyStaleRebuildsWithdraw ==
  [][Validating /\ Validating' /\ backlog["updater"] = 0
     => tokens \intersect listeners \subseteq listeners']_vars

(***************************************************************************)
(* And not for long: if an order keeps waiting for its validation on a     *)
(* stream that stays open, Envoy comes to serve its challenges and goes on *)
(* serving them, whatever the rebuilds under way had read, unless the      *)
(* updater has ended.                                                      *)
(***************************************************************************)
RoutesComeToStay ==
  <>[](Validating /\ stream # "closed")
    => <>[](tokens \subseteq envoy \/ updater = "ended")

(***************************************************************************)
(* A certificate that was issued has no challenge left, not even one that  *)
(* an earlier failed order of it left behind or another order took over.   *)
(***************************************************************************)
IssuedLeavesNoChallenge ==
  \A c \in Cert, t \in Token :
    result[c] = "issued" /\ cert # c => challenges[t] # c

(***************************************************************************)
(* As long as the last order of no certificate failed, the updater that    *)
(* has nothing left to do has removed every challenge route: the cleanup   *)
(* after an order sends no notification of its own, and relies on the one  *)
(* of update_secret (order.rs:117, renewal.rs:157).                        *)
(***************************************************************************)
CleanAfterSuccess ==
  issuer = "idle" /\ UpdaterIdle /\ (\A c \in Cert : result[c] # "failed")
    => listeners = {}

(***************************************************************************)
(* The rebuilds stop.  update_listeners notifies the updater itself, and   *)
(* the comparison in main.rs:128 has to end that loop once the issuer      *)
(* stays where it is.                                                      *)
(***************************************************************************)
RebuildsStop ==
  \A p \in Issuer :
    <>[](issuer = p) => <>[](UpdaterIdle \/ updater = "ended")

(***************************************************************************)
(* Stated by comments, and not so.                                         *)
(***************************************************************************)

\* order.rs:116: challenges are cleaned up even when an order fails.
FailureLeavesNoChallenge == issuer = "idle" => Active(challenges) = {}

\* main.rs:111: listeners are rebuilt when challenges change.
ListenersFollowChallenges ==
  issuer = "idle" /\ UpdaterIdle => listeners = Active(challenges)

\* main.rs:111 again, for the announcement of an order.
UpdaterHearsAnnouncement ==
  issuer = "announced" ~> tokens \subseteq listeners \/ ~Validating

\* main.rs:125: the updater's own update triggers no further notification.
UpdateNotifiesNobody ==
  [][updater = "bumping" /\ updater' = "waiting" => backlog' = backlog]_vars
=============================================================================
