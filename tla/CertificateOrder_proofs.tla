------------------------ MODULE CertificateOrder_proofs ------------------------
(***************************************************************************)
(* Proofs about CertificateOrder: what order() decides from its copies of  *)
(* the server's state, for any set of domains, and how long it waits.      *)
(***************************************************************************)
EXTENDS CertificateOrder, TLAPS

(***************************************************************************)
(* The half of TypeOK without the counters of the wait.                    *)
(***************************************************************************)
TypesOfOrder ==
  /\ authz \in [Domain -> Authz]
  /\ order \in Status
  /\ told \subseteq Domain /\ earlier \subseteq Domain
  /\ place \in Place
  /\ finalized \in BOOLEAN
  /\ listed \subseteq Domain \X Authz
  /\ completing \subseteq Domain
  /\ untold \subseteq completing
  /\ active \subseteq Domain
  /\ seen \in Status

(***************************************************************************)
(* Where the locals are in use: order() starts with empty ones, and is in  *)
(* its second wait only after finalize.                                    *)
(***************************************************************************)
Scopes ==
  /\ place \in {"idle", "creating", "listing"} => listed = {} /\ completing = {}
  /\ finalized => place \in {"looking", "refreshing", "fetching"}
  /\ place = "fetching" => finalized
  /\ finalized \/ place = "requesting" => completing = {}
  /\ \A d \in completing : << d, "pending" >> \notin listed
  /\ place # "signalling" => untold = {}

FirstWait == place \in {"looking", "refreshing"} /\ ~finalized

(***************************************************************************)
(* A copy of the order is old, but not wrong: an order that was seen to be *)
(* ready is not pending any more.                                          *)
(***************************************************************************)
Copies ==
  /\ Serving /\ ~finalized => order \in {"pending", "ready", "invalid"}
  /\ Serving /\ ~finalized => seen = "pending" \/ order # "pending"
  /\ finalized => order \in {"processing", "valid", "invalid"}

(***************************************************************************)
(* An authorization that is pending is one the program has still to        *)
(* process, or one of those to complete: none becomes pending again.       *)
(***************************************************************************)
Uncompleted ==
  place = "processing" =>
    \A d \in Domain : authz[d] = "pending" => d \in completing \/ << d, "pending" >> \in listed

\* What the server was told is among the challenges to complete, which are active.
Asked ==
  /\ place \in {"listing", "processing"} => told = {}
  /\ place = "requesting" /\ order = "pending" => told = {}
  /\ place \in {"processing", "signalling"} \/ FirstWait => completing \subseteq active
  /\ place = "signalling" \/ FirstWait => told \subseteq completing

CopyInv ==
  /\ TypesOfOrder
  /\ Scopes
  /\ Copies
  /\ Uncompleted
  /\ Asked
  /\ FinalizedWhenSettled

LEMMA CopiesInitially == Init => CopyInv
BY DEF Init, CopyInv, TypesOfOrder, Scopes, Copies, Uncompleted, Asked, FirstWait,
   FinalizedWhenSettled, Serving, Authz, Status, Place

LEMMA CopiesInductive == CopyInv /\ [Next]_vars => CopyInv'
<1> SUFFICES ASSUME CopyInv, [Next]_vars PROVE CopyInv'
  OBVIOUS
<1> USE DEF CopyInv, serverVars, localVars, waitVars, TypesOfOrder, Scopes, FirstWait, Serving,
            Status, Place, Authz
<1>1. CASE Begin
  BY <1>1 DEF Copies, Uncompleted, Asked, FinalizedWhenSettled, Begin
<1>2. CASE NewOrder
  BY <1>2 DEF Copies, Uncompleted, Asked, FinalizedWhenSettled, NewOrder
<1>3. CASE ListAuthorizations
  BY <1>3 DEF Copies, Uncompleted, Asked, FinalizedWhenSettled, ListAuthorizations
<1>4. CASE Abandon
  BY <1>4 DEF Copies, Uncompleted, Asked, FinalizedWhenSettled, Abandon, Fail, Leave
<1>5. CASE Announce
  BY <1>5 DEF Copies, Uncompleted, Asked, FinalizedWhenSettled, Announce
<1>6. CASE NothingToComplete
  BY <1>6 DEF Copies, Uncompleted, Asked, FinalizedWhenSettled, NothingToComplete
<1>7. ASSUME NEW d \in Domain, AddChallenge(d) PROVE CopyInv'
  BY <1>7 DEF Copies, Uncompleted, Asked, FinalizedWhenSettled, AddChallenge
<1>8. ASSUME NEW d \in Domain, AlreadyValid(d) PROVE CopyInv'
  BY <1>8 DEF Copies, Uncompleted, Asked, FinalizedWhenSettled, AlreadyValid
<1>9. ASSUME NEW d \in Domain, AuthorizationFailed(d) PROVE CopyInv'
  BY <1>9 DEF Copies, Uncompleted, Asked, FinalizedWhenSettled, AuthorizationFailed, Leave
<1>10. ASSUME NEW d \in Domain, Signal(d) PROVE CopyInv'
  BY <1>10 DEF Copies, Uncompleted, Asked, FinalizedWhenSettled, Signal, StartWait
<1>11. ASSUME NEW d \in Domain, SignalFails(d) PROVE CopyInv'
  BY <1>11 DEF Copies, Uncompleted, Asked, FinalizedWhenSettled, SignalFails, Fail, Leave
<1>12. CASE WaitEnds
  BY <1>12 DEF Copies, Uncompleted, Asked, FinalizedWhenSettled, WaitEnds, Accepted
<1>13. CASE OrderInvalid
  BY <1>13 DEF Copies, Uncompleted, Asked, FinalizedWhenSettled, OrderInvalid, FailWait, Leave
<1>14. CASE Sleep
  BY <1>14 DEF Copies, Uncompleted, Asked, FinalizedWhenSettled, Sleep
<1>15. CASE Refresh
  BY <1>15 DEF Copies, Uncompleted, Asked, FinalizedWhenSettled, Refresh
<1>16. CASE RefreshFails
  BY <1>16 DEF Copies, Uncompleted, Asked, FinalizedWhenSettled, RefreshFails, FailWait, Leave
<1>17. CASE GiveUp
  BY <1>17 DEF Copies, Uncompleted, Asked, FinalizedWhenSettled, GiveUp, FailWait, Leave
<1>18. CASE Finalize
  BY <1>18 DEF Copies, Uncompleted, Asked, FinalizedWhenSettled, Finalize, StartWait
<1>19. CASE FinalizeFails
  BY <1>19 DEF Copies, Uncompleted, Asked, FinalizedWhenSettled, FinalizeFails, Fail, Leave
<1>20. CASE Fetch
  BY <1>20 DEF Copies, Uncompleted, Asked, FinalizedWhenSettled, Fetch, Leave
<1>21. CASE FetchFails
  BY <1>21 DEF Copies, Uncompleted, Asked, FinalizedWhenSettled, FetchFails, Fail, Leave
<1>22. ASSUME NEW d \in Domain, Validate(d) PROVE CopyInv'
  BY <1>22 DEF Copies, Uncompleted, Asked, FinalizedWhenSettled, Validate, UnchangedByServer
<1>23. ASSUME NEW d \in Domain, Refuse(d) PROVE CopyInv'
  BY <1>23 DEF Copies, Uncompleted, Asked, FinalizedWhenSettled, Refuse, UnchangedByServer
<1>24. CASE BecomeReady
  BY <1>24 DEF Copies, Uncompleted, Asked, FinalizedWhenSettled, BecomeReady, Decide,
     UnchangedByServer
<1>25. CASE BecomeValid
  BY <1>25 DEF Copies, Uncompleted, Asked, FinalizedWhenSettled, BecomeValid, Decide,
     UnchangedByServer
<1>26. CASE BecomeInvalid
  BY <1>26 DEF Copies, Uncompleted, Asked, FinalizedWhenSettled, BecomeInvalid, Decide,
     UnchangedByServer
<1>27. CASE UNCHANGED vars
  BY <1>27 DEF Copies, Uncompleted, Asked, FinalizedWhenSettled, vars
<1>. QED
  BY <1>1, <1>2, <1>3, <1>4, <1>5, <1>6, <1>7, <1>8, <1>9, <1>10, <1>11, <1>12, <1>13, <1>14,
     <1>15, <1>16, <1>17, <1>18, <1>19, <1>20, <1>21, <1>22, <1>23, <1>24, <1>25, <1>26, <1>27
     DEF Next, OrderNext, ServerNext

(***************************************************************************)
(* The wait: the delays are 1, 2, 4, 8 and 16 seconds and 30 from then on, *)
(* Slept(k) of them before attempt k.                                      *)
(***************************************************************************)
DelayAt(k) == IF k <= 5 THEN << 1, 2, 4, 8, 16 >>[k] ELSE 30
Slept(k) == IF k <= 6 THEN << 0, 1, 3, 7, 15, 31 >>[k] ELSE 30 * k - 149

LEMMA SleptAdds ==
  ASSUME NEW k \in 1 .. 30
  PROVE  /\ Slept(k) \in Nat /\ Slept(k + 1) = Slept(k) + DelayAt(k)
         /\ DelayAt(k) \in 1 .. 30
         /\ DelayAt(k + 1) = IF 2 * DelayAt(k) > 30 THEN 30 ELSE 2 * DelayAt(k)
<1>1. k \in Int /\ (k = 1 \/ k = 2 \/ k = 3 \/ k = 4 \/ k = 5 \/ k = 6 \/ k >= 7)
  OBVIOUS
<1>. QED
  BY <1>1 DEF Slept, DelayAt

Waiting == place \in {"looking", "refreshing"}

\* The order is not decided yet, or was not when the program had slept t seconds.
Late(t) == decidedAt = Undecided \/ decidedAt >= t

Counted ==
  /\ attempt \in 0 .. 31 /\ delay \in 0 .. 30 /\ waited \in Nat
  /\ decidedAt \in Nat \union {Undecided} /\ outcome \in Outcome
  /\ Waiting => attempt \in 1 .. 31
  /\ place = "refreshing" => attempt <= 30
  /\ place = "looking" => waited = Slept(attempt) /\ delay = DelayAt(attempt)
  /\ place = "refreshing" => waited = Slept(attempt + 1) /\ delay = DelayAt(attempt + 1)

(***************************************************************************)
(* What the program has seen undecided was undecided then: an order that   *)
(* is refreshed once more, or given up, was not decided before the last    *)
(* sleep at the earliest.                                                  *)
(***************************************************************************)
SeenLate ==
  /\ Waiting /\ order \in {"pending", "processing"} => decidedAt = Undecided
  /\ place = "looking" /\ attempt <= 30 /\ seen \in {"pending", "processing"} => Late(Slept(attempt))
  /\ place = "refreshing" => Late(Slept(attempt))
  /\ place = "looking" /\ attempt = 31 => Late(Patience)

WaitInv == CopyInv /\ Counted /\ SeenLate /\ TimeoutMeansLate

LEMMA WaitInitially == Init => WaitInv
BY CopiesInitially DEF Init, WaitInv, Counted, SeenLate, TimeoutMeansLate, Waiting, Outcome

LEMMA SleptEnds == Slept(1) = 0 /\ DelayAt(1) = 1 /\ Slept(30) = Patience /\ Slept(31) >= Patience
BY DEF Slept, DelayAt, Patience

LEMMA WaitedLongEnough == Counted /\ Waiting => waited >= Slept(attempt)
<1> SUFFICES ASSUME Counted, Waiting PROVE waited >= Slept(attempt)
  OBVIOUS
<1>1. Slept(31) \in Nat
  BY DEF Slept
<1>2. attempt \in 1 .. 31 /\ \A k \in 1 .. 30 : Slept(k) \in Nat /\ Slept(k + 1) >= Slept(k)
  BY SleptAdds DEF Counted
<1>3. Slept(attempt) \in Nat
  BY <1>1, <1>2
<1>4. CASE place = "looking"
  BY <1>3, <1>4 DEF Counted
<1>5. CASE place = "refreshing"
  BY <1>2, <1>5 DEF Counted
<1>. QED
  BY <1>4, <1>5 DEF Waiting

LEMMA WaitInductive == WaitInv /\ [Next]_vars => WaitInv'
<1> SUFFICES ASSUME WaitInv, [Next]_vars PROVE (Counted /\ SeenLate /\ TimeoutMeansLate)'
  BY CopiesInductive DEF WaitInv
<1> USE DEF WaitInv, serverVars, localVars, waitVars, Counted, Waiting, Outcome, Undecided,
            MaxAttempts, MaxDelay
<1>1. CASE Begin
  BY <1>1 DEF SeenLate, TimeoutMeansLate, Late, Begin
<1>2. CASE NewOrder
  BY <1>2 DEF SeenLate, TimeoutMeansLate, Late, NewOrder
<1>3. CASE ListAuthorizations
  BY <1>3 DEF SeenLate, TimeoutMeansLate, Late, ListAuthorizations
<1>4. CASE Abandon
  BY <1>4 DEF SeenLate, TimeoutMeansLate, Late, Abandon, Fail, Leave
<1>5. CASE Announce
  BY <1>5 DEF SeenLate, TimeoutMeansLate, Late, Announce
<1>6. CASE NothingToComplete
  BY <1>6 DEF SeenLate, TimeoutMeansLate, Late, NothingToComplete
<1>7. ASSUME NEW d \in Domain, AddChallenge(d) PROVE (Counted /\ SeenLate /\ TimeoutMeansLate)'
  BY <1>7 DEF SeenLate, TimeoutMeansLate, Late, AddChallenge
<1>8. ASSUME NEW d \in Domain, AlreadyValid(d) PROVE (Counted /\ SeenLate /\ TimeoutMeansLate)'
  BY <1>8 DEF SeenLate, TimeoutMeansLate, Late, AlreadyValid
<1>9. ASSUME NEW d \in Domain, AuthorizationFailed(d) PROVE (Counted /\ SeenLate /\ TimeoutMeansLate)'
  BY <1>9 DEF SeenLate, TimeoutMeansLate, Late, AuthorizationFailed, Leave
<1>10. ASSUME NEW d \in Domain, Signal(d) PROVE (Counted /\ SeenLate /\ TimeoutMeansLate)'
  BY <1>10, SleptEnds DEF SeenLate, TimeoutMeansLate, Late, Signal, StartWait, Accepted
<1>11. ASSUME NEW d \in Domain, SignalFails(d) PROVE (Counted /\ SeenLate /\ TimeoutMeansLate)'
  BY <1>11 DEF SeenLate, TimeoutMeansLate, Late, SignalFails, Fail, Leave
<1>12. CASE WaitEnds
  BY <1>12 DEF SeenLate, TimeoutMeansLate, Late, WaitEnds, Accepted
<1>13. CASE OrderInvalid
  BY <1>13 DEF SeenLate, TimeoutMeansLate, Late, OrderInvalid, FailWait, Leave
<1>14. CASE Sleep
  <2> USE <1>14 DEF Sleep
  <2>1. attempt \in 1 .. 30 /\ Late(Slept(attempt))
    BY DEF SeenLate
  <2>2. waited' = Slept(attempt + 1) /\ delay' = DelayAt(attempt + 1)
    BY <2>1, SleptAdds
  <2>3. waited' \in Nat /\ delay' \in 0 .. 30
    BY <2>1, <2>2, SleptAdds
  <2>4. Counted'
    BY <2>1, <2>2, <2>3
  <2>5. SeenLate'
    BY <2>1 DEF SeenLate, Late
  <2>. QED
    BY <2>4, <2>5 DEF TimeoutMeansLate
<1>15. CASE Refresh
  <2> USE <1>15 DEF Refresh
  <2>1. attempt \in 1 .. 30 /\ attempt' = attempt + 1
    OBVIOUS
  <2>2. Counted'
    BY <2>1
  <2>3. attempt' = 31 => Late(Patience)
    BY <2>1, SleptEnds DEF SeenLate
  <2>4. SeenLate'
    BY <2>1, <2>3 DEF SeenLate, Late
  <2>. QED
    BY <2>2, <2>4 DEF TimeoutMeansLate
<1>16. CASE RefreshFails
  BY <1>16 DEF SeenLate, TimeoutMeansLate, Late, RefreshFails, FailWait, Leave
<1>17. CASE GiveUp
  BY <1>17 DEF SeenLate, TimeoutMeansLate, Late, GiveUp, FailWait, Leave
<1>18. CASE Finalize
  BY <1>18, SleptEnds DEF SeenLate, TimeoutMeansLate, Late, Finalize, StartWait, Accepted
<1>19. CASE FinalizeFails
  BY <1>19 DEF SeenLate, TimeoutMeansLate, Late, FinalizeFails, Fail, Leave
<1>20. CASE Fetch
  BY <1>20 DEF SeenLate, TimeoutMeansLate, Late, Fetch, Leave
<1>21. CASE FetchFails
  BY <1>21 DEF SeenLate, TimeoutMeansLate, Late, FetchFails, Fail, Leave
<1>22. ASSUME NEW d \in Domain, Validate(d) PROVE (Counted /\ SeenLate /\ TimeoutMeansLate)'
  BY <1>22 DEF SeenLate, TimeoutMeansLate, Late, Validate, UnchangedByServer
<1>23. ASSUME NEW d \in Domain, Refuse(d) PROVE (Counted /\ SeenLate /\ TimeoutMeansLate)'
  BY <1>23 DEF SeenLate, TimeoutMeansLate, Late, Refuse, UnchangedByServer
<1>24. CASE BecomeReady
  <2> USE <1>24 DEF BecomeReady, Decide, UnchangedByServer, Accepted
  <2>1. Counted'
    OBVIOUS
  <2>2. decidedAt' = waited \/ decidedAt' = decidedAt
    OBVIOUS
  <2>3. Waiting => waited >= Slept(attempt) /\ waited \in Nat
    BY WaitedLongEnough DEF WaitInv, Counted
  <2>4. SeenLate'
    BY <2>2, <2>3, SleptEnds DEF SeenLate, Late, Patience
  <2>5. TimeoutMeansLate'
    BY DEF Serving, TimeoutMeansLate
  <2>. QED
    BY <2>1, <2>4, <2>5
<1>25. CASE BecomeValid
  <2> USE <1>25 DEF BecomeValid, Decide, UnchangedByServer, Accepted
  <2>1. Counted'
    OBVIOUS
  <2>2. decidedAt' = waited \/ decidedAt' = decidedAt
    OBVIOUS
  <2>3. Waiting => waited >= Slept(attempt) /\ waited \in Nat
    BY WaitedLongEnough DEF WaitInv, Counted
  <2>4. SeenLate'
    BY <2>2, <2>3, SleptEnds DEF SeenLate, Late, Patience
  <2>5. TimeoutMeansLate'
    BY DEF Serving, TimeoutMeansLate
  <2>. QED
    BY <2>1, <2>4, <2>5
<1>26. CASE BecomeInvalid
  <2> USE <1>26 DEF BecomeInvalid, Decide, UnchangedByServer, Accepted
  <2>1. Counted'
    OBVIOUS
  <2>2. decidedAt' = waited \/ decidedAt' = decidedAt
    OBVIOUS
  <2>3. Waiting => waited >= Slept(attempt) /\ waited \in Nat
    BY WaitedLongEnough DEF WaitInv, Counted
  <2>4. SeenLate'
    BY <2>2, <2>3, SleptEnds DEF SeenLate, Late, Patience
  <2>5. TimeoutMeansLate'
    BY DEF Serving, TimeoutMeansLate
  <2>. QED
    BY <2>1, <2>4, <2>5
<1>27. CASE UNCHANGED vars
  BY <1>27 DEF SeenLate, TimeoutMeansLate, Late, vars
<1>. QED
  BY <1>1, <1>2, <1>3, <1>4, <1>5, <1>6, <1>7, <1>8, <1>9, <1>10, <1>11, <1>12, <1>13, <1>14,
     <1>15, <1>16, <1>17, <1>18, <1>19, <1>20, <1>21, <1>22, <1>23, <1>24, <1>25, <1>26, <1>27
     DEF Next, OrderNext, ServerNext

LEMMA CopyInvHolds == Spec => []CopyInv
<1>. QED
  BY CopiesInitially, CopiesInductive, PTL DEF Spec

LEMMA WaitInvHolds == Spec => []WaitInv
<1>. QED
  BY WaitInitially, WaitInductive, PTL DEF Spec

(***************************************************************************)
(* Every variable is what the code and the protocol can make it; no        *)
(* attempt follows the thirtieth, and no delay exceeds 30 seconds          *)
(* (order.rs:145-176).                                                     *)
(***************************************************************************)
THEOREM TypeCorrect == Spec => []TypeOK
<1>1. WaitInv => TypeOK
  BY DEF WaitInv, CopyInv, TypesOfOrder, Counted, TypeOK, MaxAttempts, MaxDelay
<1>. QED
  BY <1>1, WaitInvHolds, PTL

(***************************************************************************)
(* finalize is not sent for an order with an authorization that is still   *)
(* to be completed, whatever the server made of earlier orders and when,   *)
(* though order() decides from authorizations that it fetched once and     *)
(* from states that it was told some time ago (order.rs:44, 96-113, 126).  *)
(***************************************************************************)
THEOREM OnlySettledIsFinalized == Spec => []FinalizedWhenSettled
<1>1. CopyInv => FinalizedWhenSettled
  BY DEF CopyInv
<1>. QED
  BY <1>1, CopyInvHolds, PTL

(***************************************************************************)
(* While order() runs and the order is pending, each challenge that it has *)
(* signalled, and that the server has still to validate, is active         *)
(* (order.rs:105-117).                                                     *)
(***************************************************************************)
THEOREM AskedIsActive == Spec => []ActiveWhileAsked
<1>1. CopyInv => ActiveWhileAsked
  <2> SUFFICES ASSUME CopyInv, Serving, order = "pending" PROVE told \subseteq active
    BY DEF ActiveWhileAsked
  <2>1. place \in {"listing", "processing", "signalling", "requesting"} \/ FirstWait
    BY DEF CopyInv, TypesOfOrder, Scopes, Copies, Serving, Place, FirstWait
  <2>. QED
    BY <2>1 DEF CopyInv, Asked
<1>. QED
  BY <1>1, CopyInvHolds, PTL

(***************************************************************************)
(* A wait that times out has looked at the order after 751 seconds of      *)
(* sleep and found it undecided (order.rs:148-185).                        *)
(***************************************************************************)
THEOREM PatienceIsKept == Spec => []TimeoutMeansLate
<1>1. WaitInv => TimeoutMeansLate
  BY DEF WaitInv
<1>. QED
  BY <1>1, WaitInvHolds, PTL

(***************************************************************************)
(* order() with all its calls and attempts implements the issuer that      *)
(* ChallengeRouting composes with the updater, the stream and Envoy.       *)
(***************************************************************************)
THEOREM IssuerImplemented == Spec => ImplementsIssuer
<1>1. CopyInv /\ [Next]_vars => [Routing!OrderNext]_(Routing!vars)
  <2> SUFFICES ASSUME CopyInv, [Next]_vars PROVE [Routing!OrderNext]_(Routing!vars)
    OBVIOUS
  <2> USE SelfAssumption
      DEF CopyInv, TypesOfOrder, Scopes, serverVars, localVars, waitVars, IssuerPlace,
          Routing!vars, Routing!challengeVars, Routing!updaterVars, Routing!streamVars,
          Routing!issuerVars
  <2>1. CASE Begin
    <3>1. Routing!StartOrder(Self)
      BY <2>1 DEF Begin, Routing!StartOrder, Routing!Scheduled
    <3>. QED
      BY <3>1 DEF Routing!OrderNext
  <2>2. ASSUME NEW d \in Domain, AddChallenge(d) PROVE Routing!AddChallenge(d)
    BY <2>2 DEF AddChallenge, Routing!AddChallenge
  <2>3. CASE Abandon
    <3>1. Routing!AbandonAuthorizations
      BY <2>3 DEF Abandon, Fail, Leave, Routing!AbandonAuthorizations, Routing!EndFailed
    <3>. QED
      BY <3>1 DEF Routing!OrderNext
  <2>4. ASSUME NEW d \in Domain, AuthorizationFailed(d) PROVE Routing!AuthorizationFails
    BY <2>4 DEF AuthorizationFailed, Leave, Routing!AuthorizationFails, Routing!EndFailed,
       Routing!ClearForCert
  <2>5. CASE Announce
    <3>1. Routing!Announce
      BY <2>5 DEF Announce, Routing!Announce, Routing!Send, Routing!AfterSend, Routing!Unsubscribed
    <3>. QED
      BY <3>1 DEF Routing!OrderNext
  <2>6. CASE NothingToComplete
    <3>1. Routing!NothingToComplete
      BY <2>6 DEF NothingToComplete, Routing!NothingToComplete, Routing!ClearForCert
    <3>. QED
      BY <3>1 DEF Routing!OrderNext
  <2>7. ASSUME NEW d \in Domain, Signal(d) PROVE Routing!SignalReady \/ UNCHANGED Routing!vars
    BY <2>7 DEF Signal, StartWait, Routing!SignalReady
  <2>8. ASSUME NEW d \in Domain, SignalFails(d) PROVE Routing!SignalFails
    BY <2>8 DEF SignalFails, Fail, Leave, Routing!SignalFails, Routing!EndFailed
  <2>9. CASE WaitEnds
    <3>1. Routing!OrderReady \/ UNCHANGED Routing!vars
      BY <2>9 DEF WaitEnds, Routing!OrderReady, Routing!ClearForCert
    <3>. QED
      BY <3>1 DEF Routing!OrderNext
  <2>10. CASE OrderInvalid \/ RefreshFails \/ GiveUp
    <3>1. Routing!OrderFails \/ Routing!FinalizeFails
      BY <2>10 DEF OrderInvalid, RefreshFails, GiveUp, FailWait, Leave, Routing!OrderFails,
           Routing!FinalizeFails, Routing!EndFailed, Routing!ClearForCert
    <3>. QED
      BY <3>1 DEF Routing!OrderNext
  <2>11. CASE FinalizeFails \/ FetchFails
    <3>1. Routing!FinalizeFails
      BY <2>11 DEF FinalizeFails, FetchFails, Fail, Leave, Routing!FinalizeFails, Routing!EndFailed
    <3>. QED
      BY <3>1 DEF Routing!OrderNext
  <2>12. CASE Fetch
    <3>1. Routing!Publish
      BY <2>12 DEF Fetch, Leave, Routing!Publish, Routing!Send, Routing!AfterSend,
         Routing!Unsubscribed
    <3>. QED
      BY <3>1 DEF Routing!OrderNext
  <2>13. CASE NewOrder \/ ListAuthorizations \/ Sleep \/ Refresh \/ Finalize
    BY <2>13 DEF NewOrder, ListAuthorizations, Sleep, Refresh, Finalize, StartWait
  <2>14. ASSUME NEW d \in Domain, AlreadyValid(d) PROVE UNCHANGED Routing!vars
    BY <2>14 DEF AlreadyValid
  <2>15. CASE ServerNext
    BY <2>15 DEF ServerNext, Validate, Refuse, BecomeReady, BecomeValid, BecomeInvalid, Decide,
         UnchangedByServer
  <2>16. CASE UNCHANGED vars
    BY <2>16 DEF vars
  <2>. QED
    BY <2>1, <2>2, <2>3, <2>4, <2>5, <2>6, <2>7, <2>8, <2>9, <2>10, <2>11, <2>12, <2>13, <2>14,
       <2>15, <2>16 DEF Next, OrderNext, Routing!OrderNext
<1>. QED
  BY <1>1, CopyInvHolds, PTL DEF Spec, ImplementsIssuer
=============================================================================
