--------------------------- MODULE CertificateOrder ---------------------------
(***************************************************************************)
(* CertificateOrder::order and wait_for_order_ready (src/acme/order.rs)    *)
(* against the ACME server: one order after another for one certificate.   *)
(*                                                                         *)
(* The server changes authorizations and the order whenever it likes.  The *)
(* program looks at copies: the authorizations it fetched once, and        *)
(* Order::state(), which is as old as the last call that returned it.      *)
(* instant-acme and the server are external; each call may fail, before or *)
(* after it took effect.                                                   *)
(*                                                                         *)
(* Time passes in the sleeps of wait_for_order_ready only, which are long  *)
(* compared with the calls.  ChallengeRouting has the same order with the  *)
(* waits as single steps; ImplementsIssuer relates the two.                *)
(***************************************************************************)
EXTENDS Integers

CONSTANTS
  Domain,       \* the domains of the certificate; each authorization has one
  Self,         \* the name of the certificate
  Nobody        \* the owner of a token that is not an active challenge

ASSUME SelfAssumption == Self # Nobody

MaxAttempts == 30
MaxDelay == 30              \* seconds

VARIABLES
  authz,        \* server: the authorization of each domain
  order,        \* server: the status of the order
  told,         \* server: the challenges this order asked it to validate, ...
  earlier,      \* ... and those an earlier order asked it for, pending since
  place,        \* where order() is
  finalized,    \* whether it is past finalize, in the second of the two waits
  listed,       \* fetched authorizations that are not processed yet
  completing,   \* challenges_to_complete
  untold,       \* those for which set_challenge_ready was not called yet
  active,       \* ChallengeState: domains with an active challenge
  seen,         \* Order::state()
  attempt,      \* wait_for_order_ready: the loop counter, ...
  delay,        \* ... the next delay, ...
  waited,       \* ... and the seconds it has slept
  decidedAt,    \* history: when in this wait the order became ready or valid
  outcome       \* what the last order came to

serverVars == << authz, order, told, earlier >>
localVars  == << finalized, listed, completing, untold >>
waitVars   == << attempt, delay, waited >>
vars == << serverVars, place, localVars, active, seen, waitVars, decidedAt, outcome >>

Authz  == {"pending", "valid", "failed"}       \* failed: invalid, revoked, expired
Status == {"pending", "ready", "processing", "valid", "invalid"}
Place  == {"idle", "creating", "listing", "processing", "signalling", "looking",
           "refreshing", "requesting", "fetching"}
Outcome == {"none", "issued", "failed", "timeout"}

Undecided == -1
Accepted == {"ready", "valid"}

Init ==
  /\ authz = [d \in Domain |-> "pending"]
  /\ order = "pending"
  /\ told = {} /\ earlier = {}
  /\ place = "idle"
  /\ finalized = FALSE
  /\ listed = {} /\ completing = {} /\ untold = {}
  /\ active = {}
  /\ seen = "pending"
  /\ attempt = 0 /\ delay = 0 /\ waited = 0 /\ decidedAt = Undecided
  /\ outcome = "none"

-----------------------------------------------------------------------------
(* The ways out of order().                                                *)

\* Locals are dropped; wait and copy are reset, which nothing looks at again.
Leave(how) ==
  /\ place' = "idle"
  /\ finalized' = FALSE
  /\ listed' = {} /\ completing' = {} /\ untold' = {}
  /\ seen' = "pending"
  /\ attempt' = 0 /\ delay' = 0 /\ waited' = 0
  /\ outcome' = how

\* The ? operator returns from wherever order() is.
Fail == Leave("failed") /\ UNCHANGED << active, decidedAt >>

\* Mutant: a failing wait keeps the challenges.
FailWaitUncleaned(how) ==
  /\ Leave(how)
  /\ UNCHANGED << serverVars, active, decidedAt >>

\* A failing first wait goes past the cleanup, the second one does not.
FailWait(how) ==
  /\ Leave(how)
  /\ active' = IF finalized THEN active ELSE {}
  /\ UNCHANGED << serverVars, decidedAt >>

-----------------------------------------------------------------------------
(* The order is created and its authorizations are processed.              *)

Begin ==
  /\ place = "idle"
  /\ place' = "creating"
  /\ decidedAt' = Undecided
  /\ UNCHANGED << serverVars, localVars, active, seen, waitVars, outcome >>

\* new_order: the server may give it authorizations of earlier orders, which
\* are valid, or still pending with a challenge that it was asked to validate.
NewOrder ==
  /\ place = "creating"
  /\ authz' \in [Domain -> {"pending", "valid"}]
  /\ order' = IF \A d \in Domain : authz'[d] = "valid" THEN "ready" ELSE "pending"
  /\ told' = {}
  /\ earlier' \in SUBSET {d \in Domain : authz'[d] = "pending"}
  /\ seen' = order'
  /\ place' = "listing"
  /\ UNCHANGED << localVars, active, waitVars, decidedAt, outcome >>

ListAuthorizations ==
  /\ place = "listing"
  /\ listed' = {<< d, authz[d] >> : d \in Domain}
  /\ place' = "processing"
  /\ UNCHANGED << serverVars, finalized, completing, untold, active, seen, waitVars,
                  decidedAt, outcome >>

AddChallenge(d) ==
  /\ place = "processing"
  /\ << d, "pending" >> \in listed
  /\ listed' = listed \ {<< d, "pending" >>}
  /\ active' = active \union {d}
  /\ completing' = completing \union {d}
  /\ UNCHANGED << serverVars, place, finalized, untold, seen, waitVars, decidedAt, outcome >>

AlreadyValid(d) ==
  /\ place = "processing"
  /\ << d, "valid" >> \in listed
  /\ listed' = listed \ {<< d, "valid" >>}
  /\ UNCHANGED << serverVars, place, finalized, completing, untold, active, seen, waitVars,
                  decidedAt, outcome >>

AuthorizationFailed(d) ==
  /\ place = "processing"
  /\ << d, "failed" >> \in listed
  /\ Leave("failed")
  /\ active' = {}
  /\ UNCHANGED << serverVars, decidedAt >>

\* new_order or authorizations fails, or a pending authorization offers no
\* HTTP-01 challenge.
Abandon ==
  /\ \/ place \in {"creating", "listing"}
     \/ place = "processing" /\ \E d \in Domain : << d, "pending" >> \in listed
  /\ Fail
  /\ UNCHANGED serverVars

-----------------------------------------------------------------------------
(* The challenges are announced, signalled, and waited for.                *)

StartWait ==
  /\ attempt' = 1
  /\ delay' = 1
  /\ waited' = 0
  /\ decidedAt' = IF order' \in Accepted THEN 0 ELSE Undecided

Announce ==
  /\ place = "processing"
  /\ listed = {} /\ completing # {}
  /\ place' = "signalling"
  /\ untold' = completing
  /\ UNCHANGED << serverVars, finalized, listed, completing, active, seen, waitVars,
                  decidedAt, outcome >>

NothingToComplete ==
  /\ place = "processing"
  /\ listed = {} /\ completing = {}
  /\ place' = "requesting"
  /\ active' = {}
  /\ UNCHANGED << serverVars, localVars, seen, waitVars, decidedAt, outcome >>

\* Mutant: the challenges are removed as soon as the server knows of them.
SignalAndClear(d) ==
  /\ place = "signalling"
  /\ d \in untold
  /\ told' = told \union {d}
  /\ untold' = untold \ {d}
  /\ active' = active \ {d}
  /\ IF untold' = {} THEN place' = "looking" /\ UNCHANGED order /\ StartWait
                     ELSE UNCHANGED << place, order, waitVars, decidedAt >>
  /\ UNCHANGED << authz, earlier, finalized, listed, completing, seen, outcome >>

\* set_challenge_ready, one challenge after another.
Signal(d) ==
  /\ place = "signalling"
  /\ d \in untold
  /\ told' = told \union {d}
  /\ untold' = untold \ {d}
  /\ IF untold' = {} THEN place' = "looking" /\ UNCHANGED order /\ StartWait
                     ELSE UNCHANGED << place, order, waitVars, decidedAt >>
  /\ UNCHANGED << authz, earlier, finalized, listed, completing, active, seen, outcome >>

\* One of these calls fails, perhaps after the server has received it.
SignalFails(d) ==
  /\ place = "signalling"
  /\ d \in untold
  /\ told' \in {told, told \union {d}}
  /\ Fail
  /\ UNCHANGED << authz, order, earlier >>

\* Mutant: whatever is not invalid is taken for ready.
WaitEndsEarly ==
  /\ place = "looking" /\ attempt <= MaxAttempts
  /\ seen # "invalid"
  /\ place' = IF finalized THEN "fetching" ELSE "requesting"
  /\ active' = IF finalized THEN active ELSE {}
  /\ completing' = {}
  /\ attempt' = 0 /\ delay' = 0 /\ waited' = 0
  /\ UNCHANGED << serverVars, finalized, listed, untold, seen, decidedAt, outcome >>

\* The copy says ready or valid; the first wait is followed by the cleanup.
WaitEnds ==
  /\ place = "looking" /\ attempt <= MaxAttempts
  /\ seen \in Accepted
  /\ place' = IF finalized THEN "fetching" ELSE "requesting"
  /\ active' = IF finalized THEN active ELSE {}
  /\ completing' = {}
  /\ attempt' = 0 /\ delay' = 0 /\ waited' = 0
  /\ UNCHANGED << serverVars, finalized, listed, untold, seen, decidedAt, outcome >>

\* Its authorizations are fetched once more, for the log only.
OrderInvalid ==
  /\ place = "looking" /\ attempt <= MaxAttempts
  /\ seen = "invalid"
  /\ FailWait("failed")

\* Mutant: one attempt too many.
SleepOnceMore ==
  /\ place = "looking" /\ attempt <= MaxAttempts + 1
  /\ seen \in {"pending", "processing"}
  /\ place' = "refreshing"
  /\ waited' = waited + delay
  /\ UNCHANGED << serverVars, localVars, active, seen, attempt, delay, decidedAt, outcome >>

\* Mutant: the delay does not grow.
SleepConstantly ==
  /\ place = "looking" /\ attempt <= MaxAttempts
  /\ seen \in {"pending", "processing"}
  /\ place' = "refreshing"
  /\ waited' = waited + delay
  /\ UNCHANGED << serverVars, localVars, active, seen, attempt, delay, decidedAt, outcome >>

Sleep ==
  /\ place = "looking" /\ attempt <= MaxAttempts
  /\ seen \in {"pending", "processing"}
  /\ place' = "refreshing"
  /\ waited' = waited + delay
  /\ delay' = IF 2 * delay > MaxDelay THEN MaxDelay ELSE 2 * delay
  /\ UNCHANGED << serverVars, localVars, active, seen, attempt, decidedAt, outcome >>

Refresh ==
  /\ place = "refreshing"
  /\ seen' = order
  /\ attempt' = attempt + 1
  /\ place' = "looking"
  /\ UNCHANGED << serverVars, localVars, active, delay, waited, decidedAt, outcome >>

RefreshFails ==
  /\ place = "refreshing"
  /\ FailWait("failed")

\* Mutant: the wait starts over instead.
StartOver ==
  /\ place = "looking" /\ attempt > MaxAttempts
  /\ UNCHANGED order /\ StartWait
  /\ UNCHANGED << authz, told, earlier, place, localVars, active, seen, outcome >>

\* The attempts are over; what the last refresh brought is not looked at.
GiveUp ==
  /\ place = "looking" /\ attempt > MaxAttempts
  /\ FailWait("timeout")

-----------------------------------------------------------------------------
(* The certificate is requested and fetched.                               *)

\* The server accepts the request for an order that is ready only, and may
\* have the certificate at once.
Finalize ==
  /\ place = "requesting"
  /\ order = "ready"
  /\ order' \in {"processing", "valid"}
  /\ seen' = order'
  /\ finalized' = TRUE
  /\ place' = "looking"
  /\ StartWait
  /\ UNCHANGED << authz, told, earlier, listed, completing, untold, active, outcome >>

\* generate_csr fails, the server refuses, or its answer is lost.
FinalizeFails ==
  /\ place = "requesting"
  /\ order' \in {order} \union (IF order = "ready" THEN {"processing", "valid"} ELSE {})
  /\ Fail
  /\ UNCHANGED << authz, told, earlier >>

Fetch ==
  /\ place = "fetching"
  /\ order = "valid"
  /\ Leave("issued")
  /\ UNCHANGED << serverVars, active, decidedAt >>

\* certificate() fails, or brings none.
FetchFails ==
  /\ place = "fetching"
  /\ Fail
  /\ UNCHANGED serverVars

-----------------------------------------------------------------------------
(* The ACME server, while there is an order.                               *)

UnchangedByServer == << place, localVars, active, seen, waitVars, outcome >>

Serving == place \notin {"idle", "creating"}

Decide(status) ==
  /\ order' = status
  /\ decidedAt' = IF status \in Accepted THEN waited ELSE decidedAt
  /\ UNCHANGED << authz, told, earlier, UnchangedByServer >>

Validate(d) ==
  /\ Serving
  /\ d \in told \union earlier /\ authz[d] = "pending"
  /\ authz' = [authz EXCEPT ![d] = "valid"]
  /\ UNCHANGED << order, told, earlier, decidedAt, UnchangedByServer >>

\* A validation fails, or an authorization expires or is revoked.
Refuse(d) ==
  /\ Serving
  /\ authz[d] # "failed"
  /\ authz' = [authz EXCEPT ![d] = "failed"]
  /\ UNCHANGED << order, told, earlier, decidedAt, UnchangedByServer >>

BecomeReady ==
  /\ Serving
  /\ order = "pending" /\ \A d \in Domain : authz[d] = "valid"
  /\ Decide("ready")

BecomeValid == Serving /\ order = "processing" /\ Decide("valid")

BecomeInvalid ==
  /\ Serving
  /\ \/ order \in {"pending", "ready"} /\ \E d \in Domain : authz[d] = "failed"
     \/ order = "processing"
  /\ Decide("invalid")

-----------------------------------------------------------------------------
OrderNext ==
  \/ NewOrder \/ ListAuthorizations \/ Abandon \/ Announce \/ NothingToComplete
  \/ \E d \in Domain :
       \/ AddChallenge(d) \/ AlreadyValid(d) \/ AuthorizationFailed(d)
       \/ Signal(d) \/ SignalFails(d)
  \/ WaitEnds \/ OrderInvalid \/ Sleep \/ Refresh \/ RefreshFails \/ GiveUp
  \/ Finalize \/ FinalizeFails \/ Fetch \/ FetchFails

ServerNext ==
  \/ \E d \in Domain : Validate(d) \/ Refuse(d)
  \/ BecomeReady \/ BecomeValid \/ BecomeInvalid

Next == Begin \/ OrderNext \/ ServerNext

(***************************************************************************)
(* The calls of an order return, one way or the other, and its sleeps end. *)
(* The server owes nothing else: it may leave an order as it is for ever.  *)
(***************************************************************************)
Fairness == WF_vars(OrderNext)

Spec == Init /\ [][Next]_vars /\ Fairness

-----------------------------------------------------------------------------
(* Every variable is what the code and the protocol can make it.           *)
TypeOK ==
  /\ authz \in [Domain -> Authz]
  /\ order \in Status
  /\ told \subseteq Domain /\ earlier \subseteq Domain
  /\ place \in Place
  /\ finalized \in BOOLEAN
  /\ listed \subseteq Domain \X Authz
  /\ completing \subseteq Domain
  /\ untold \subseteq completing
  /\ active \subseteq Domain
  /\ seen \in Status
  /\ attempt \in 0 .. MaxAttempts + 1
  /\ delay \in 0 .. MaxDelay
  /\ waited \in Nat
  /\ decidedAt \in Nat \union {Undecided}
  /\ outcome \in Outcome

(***************************************************************************)
(* finalize is never sent for an order with an authorization that is still *)
(* to be completed, though the program decides from copies: the            *)
(* authorizations it fetched once, or the state of the last refresh.  An   *)
(* order that it waited for is ready then, or failed since; one that had   *)
(* nothing to complete may be pending still, see FinalizedWhenReady        *)
(* (order.rs:44, 96-113, 126).                                             *)
(***************************************************************************)
FinalizedWhenSettled ==
  place = "requesting" =>
    \/ order \in {"ready", "invalid"}
    \/ order = "pending" /\ seen = "pending" /\ \A d \in Domain : authz[d] # "pending"

(***************************************************************************)
(* A challenge that this order has signalled is active as long as order()  *)
(* runs and the server may fetch it: the cleanup does not overtake its     *)
(* validation (order.rs:105-117).  It says nothing of a validation that an *)
(* earlier order asked for, nor of one that outlasts order().              *)
(***************************************************************************)
ActiveWhileAsked ==
  Serving /\ order = "pending" =>
    \A d \in told : authz[d] = "pending" => d \in active

(***************************************************************************)
(* Patience: an order that became ready or valid in time is not given up.  *)
(* The last state that is looked at was fetched after 29 of the 30 sleeps, *)
(* which add up to 1 + 2 + 4 + 8 + 16 + 24 * 30 = 751 seconds              *)
(* (order.rs:148-185).                                                     *)
(***************************************************************************)
Patience == 751

TimeoutMeansLate ==
  outcome = "timeout" /\ place = "idle" =>
    decidedAt = Undecided \/ decidedAt >= Patience

(***************************************************************************)
(* Every order ends, though the server may leave it pending or processing  *)
(* for ever: the pass of the renewal manager gets to the next certificate. *)
(***************************************************************************)
OrderEnds == place # "idle" ~> place = "idle"

(***************************************************************************)
(* The order is the issuer of ChallengeRouting: with the copies, the       *)
(* single calls and the attempts hidden, each step adds, announces, clears *)
(* and ends as that module says, or is not seen there.  (That the issuer   *)
(* is held until the first LDS stream is left to Lifecycle.)               *)
(***************************************************************************)
IssuerPlace ==
  CASE place = "idle"                                   -> "idle"
    [] place \in {"creating", "listing", "processing"}  -> "authorizing"
    [] place = "signalling"                             -> "announced"
    [] place \in {"looking", "refreshing"} /\ ~finalized -> "polling"
    [] OTHER                                            -> "finalizing"

Routing == INSTANCE ChallengeRouting WITH
  Capacity <- 1, SubscribesFirst <- FALSE,
  Token <- Domain, Cert <- {Self}, NoCert <- Nobody,
  challenges <- [d \in Domain |-> IF d \in active THEN Self ELSE Nobody],
  tokens <- completing,
  issuer <- IssuerPlace,
  cert <- IF place = "idle" THEN Nobody ELSE Self,
  result <- [c \in {Self} |-> IF outcome = "timeout" THEN "failed" ELSE outcome],
  backlog <- [r \in {"updater", "stream"} |-> -1],
  updater <- "starting", merged <- {}, listeners <- {}, stream <- "closed", envoy <- {}

ImplementsIssuer == [][Routing!OrderNext]_(Routing!vars)

\* Not so where an authorization of an earlier order becomes valid between
\* new_order and authorizations(): there is nothing to complete, and finalize
\* may go out before the server has made the order ready, which fails it.
FinalizedWhenReady == place = "requesting" => order \in {"ready", "invalid"}

\* order.rs:141 waits for the order to reach the ready or valid state: an
\* order that was fetched as such is accepted.  Not so after the last attempt.
FetchedReadyIsAccepted ==
  [][place = "looking" /\ seen \in Accepted => outcome' # "timeout"]_vars
=============================================================================
