---------------------------- MODULE Startup_proofs ----------------------------
(***************************************************************************)
(* Proofs about Startup: the account that is used, kept and counted, for   *)
(* all keys, directories, configurations and outages; what validation      *)
(* accepts, and what the conversion yields, for all configurations.        *)
(***************************************************************************)
EXTENDS Startup, SequenceFacts, TLAPS

\* What is not an account is not taken for one.
LEMMA Distinct == None \notin Account /\ Torn \notin Account /\ None # Torn
  BY DEF None, Torn, Account

(***************************************************************************)
(* The retries have slept for 0, 1, 3, 7 and 15 seconds before each        *)
(* attempt, and the attempt after them all is the last.                    *)
(***************************************************************************)
Slept == << 0, 1, 3, 7, 15 >>

InTime ==
  /\ IF attempt = 0 THEN waited = 0 ELSE waited = Slept[attempt]
  /\ place \in {"down", "judging"} <=> attempt = 0
  /\ place = "sleeping" => attempt < MaxRetries

(***************************************************************************)
(* The configuration keeps a directory; an account that is not stored yet  *)
(* is not used yet; one is created where there is no file, or none was     *)
(* seen; and while nothing went wrong, the one account that was created is *)
(* in the file or on its way there.                                        *)
(***************************************************************************)
HasDirectory == "directory" \in DOMAIN config /\ config.directory \in Directory

Underway ==
  /\ place \in {"creating", "saving"} => file = None \/ (unseen /\ mishap)
  /\ place = "saving" => account \in Account
  /\ place = "writing" => file = Torn /\ account \in Account

Accounted ==
  ~mishap =>
    /\ created = 1 => file \in Account \/ place \in {"saving", "writing"}
    /\ file = Torn => place = "writing"

Inv ==
  /\ TypeOK
  /\ HasDirectory
  /\ Underway
  /\ InTime
  /\ UsedIsStored
  /\ Accounted
  /\ OneAccountPerStorage

\* A process that ends starts over; an attempt that fails leaves its counters alone.
LEMMA HaltCounts ==
  ASSUME NEW how, Halt(how)
  PROVE  attempt' \in 0 .. MaxRetries /\ waited' \in Nat
BY DEF Halt, MaxRetries

LEMMA FailedCounts ==
  ASSUME TypeOK, AttemptFails
  PROVE  attempt' \in 0 .. MaxRetries /\ waited' \in Nat
BY HaltCounts DEF AttemptFails, TypeOK, timeVars

LEMMA CountsUp ==
  ASSUME created \in 0 .. 2, CreateFails
  PROVE  created' \in 0 .. 2
<1>1. created' = created \/ created' = Count(created)
  BY DEF CreateFails
<1>2. Count(created) \in 0 .. 2
  BY DEF Count
<1>. QED
  BY <1>1, <1>2

LEMMA Initially == Init => Inv
<1> SUFFICES ASSUME Init PROVE Inv
  OBVIOUS
<1> USE DEF Init
<1>1. place \in Place /\ verdict \in Verdict /\ outage \in Outages
  BY OutagesAssumption DEF Place, Verdict
<1>2. file \in Account \union {None, Torn} /\ account \in Account \union {NoAccount}
  OBVIOUS
<1>3. attempt \in 0 .. MaxRetries /\ waited \in Nat /\ created \in 0 .. 2
  BY DEF MaxRetries
<1>4. faulty \in BOOLEAN /\ unseen \in BOOLEAN /\ mishap \in BOOLEAN
  OBVIOUS
<1>5. TypeOK
  BY <1>1, <1>2, <1>3, <1>4 DEF TypeOK
<1>6. HasDirectory
  BY ConfigsAssumption DEF HasDirectory, Configuration
<1>7. Underway /\ InTime /\ UsedIsStored /\ OneAccountPerStorage
  BY DEF Underway, InTime, UsedIsStored, OneAccountPerStorage
<1>8. Accounted
  BY Distinct DEF Accounted
<1>. QED
  BY <1>5, <1>6, <1>7, <1>8 DEF Inv

LEMMA Inductive == Inv /\ [Next]_vars => Inv'
<1> SUFFICES ASSUME Inv, [Next]_vars PROVE Inv'
  OBVIOUS
<1> USE Distinct, OutagesAssumption DEF Inv, historyVars, timeVars
<1>1. CASE Reject
  BY <1>1 DEF TypeOK, HasDirectory, Underway, InTime, UsedIsStored, Accounted,
      OneAccountPerStorage, Place, Verdict, MaxRetries, Reject, Halt
<1>2. CASE Accept
  <2> USE <1>2 DEF Accept
  <2>1. place' \in Place /\ verdict' \in Verdict /\ outage' \in Outages
    BY DEF TypeOK, Place, Verdict
  <2>2. file' \in Account \union {None, Torn} /\ account' \in Account \union {NoAccount}
    BY DEF TypeOK, Underway, HasDirectory, Account
  <2>3. attempt' \in 0 .. MaxRetries /\ waited' \in Nat /\ created' \in 0 .. 2
    BY DEF TypeOK, InTime, Delay, MaxRetries
  <2>4. faulty' \in BOOLEAN /\ unseen' \in BOOLEAN /\ mishap' \in BOOLEAN
    BY DEF TypeOK
  <2>5. TypeOK'
    BY <2>1, <2>2, <2>3, <2>4 DEF TypeOK
  <2>6. HasDirectory'
    BY DEF HasDirectory
  <2>7. Underway' /\ UsedIsStored'
    BY DEF Underway, UsedIsStored, TypeOK, Account, HasDirectory
  <2>8. InTime'
    BY DEF InTime, TypeOK, Delay, Slept, MaxRetries
  <2>9. Accounted'
    BY DEF Accounted, Underway, TypeOK
  <2>10. OneAccountPerStorage'
    BY DEF OneAccountPerStorage, Accounted, Underway, TypeOK
  <2>. QED
    BY <2>5, <2>6, <2>7, <2>8, <2>9, <2>10
<1>3. CASE InitStorageFails
  BY <1>3 DEF TypeOK, HasDirectory, Underway, InTime, UsedIsStored, Accounted,
      OneAccountPerStorage, Place, Verdict, MaxRetries, InitStorageFails, Halt
<1>4. CASE LoadNone
  BY <1>4 DEF TypeOK, HasDirectory, Underway, InTime, UsedIsStored, Accounted,
      OneAccountPerStorage, Place, Verdict, MaxRetries, LoadNone, Blame
<1>5. CASE Restore
  BY <1>5 DEF TypeOK, HasDirectory, Underway, InTime, UsedIsStored, Accounted,
      OneAccountPerStorage, Place, Verdict, MaxRetries, Restore
<1>6. CASE RestoreFails
  <2> USE <1>6 DEF RestoreFails, AttemptFails, Halt, Blame
  <2>1. place' \in Place /\ verdict' \in Verdict /\ outage' \in Outages
    BY DEF TypeOK, Place, Verdict
  <2>2. file' \in Account \union {None, Torn} /\ account' \in Account \union {NoAccount}
    BY DEF TypeOK, Underway, HasDirectory, Account
  <2>3. attempt' \in 0 .. MaxRetries /\ waited' \in Nat /\ created' \in 0 .. 2
    <3>1. attempt' \in 0 .. MaxRetries /\ waited' \in Nat
      BY FailedCounts
    <3>2. created' \in 0 .. 2
      BY DEF TypeOK
    <3>. QED
      BY <3>1, <3>2
  <2>4. faulty' \in BOOLEAN /\ unseen' \in BOOLEAN /\ mishap' \in BOOLEAN
    BY DEF TypeOK
  <2>5. TypeOK'
    BY <2>1, <2>2, <2>3, <2>4 DEF TypeOK
  <2>6. HasDirectory'
    BY DEF HasDirectory
  <2>7. Underway' /\ UsedIsStored'
    BY DEF Underway, UsedIsStored, TypeOK, Account, HasDirectory
  <2>8. InTime'
    BY DEF InTime, TypeOK, Delay, Slept, MaxRetries
  <2>9. Accounted'
    BY DEF Accounted, Underway, TypeOK
  <2>10. OneAccountPerStorage'
    BY DEF OneAccountPerStorage, Accounted, Underway, TypeOK
  <2>. QED
    BY <2>5, <2>6, <2>7, <2>8, <2>9, <2>10
<1>7. CASE CreateFails
  <2> USE <1>7 DEF CreateFails, AttemptFails, Halt, Blame, Count
  <2>1. place' \in Place /\ verdict' \in Verdict /\ outage' \in Outages
    BY DEF TypeOK, Place, Verdict
  <2>2. file' \in Account \union {None, Torn} /\ account' \in Account \union {NoAccount}
    BY DEF TypeOK, Underway, HasDirectory, Account
  <2>3. attempt' \in 0 .. MaxRetries /\ waited' \in Nat /\ created' \in 0 .. 2
    <3>1. attempt' \in 0 .. MaxRetries /\ waited' \in Nat
      BY FailedCounts
    <3>2. created' \in 0 .. 2
      BY CountsUp DEF TypeOK
    <3>. QED
      BY <3>1, <3>2
  <2>4. faulty' \in BOOLEAN /\ unseen' \in BOOLEAN /\ mishap' \in BOOLEAN
    BY DEF TypeOK
  <2>5. TypeOK'
    BY <2>1, <2>2, <2>3, <2>4 DEF TypeOK
  <2>6. HasDirectory'
    BY DEF HasDirectory
  <2>7. Underway' /\ UsedIsStored'
    BY DEF Underway, UsedIsStored, TypeOK, Account, HasDirectory
  <2>8. InTime'
    BY DEF InTime, TypeOK, Delay, Slept, MaxRetries
  <2>9. Accounted'
    BY DEF Accounted, Underway, TypeOK
  <2>10. OneAccountPerStorage'
    BY DEF OneAccountPerStorage, Accounted, Underway, TypeOK
  <2>. QED
    BY <2>5, <2>6, <2>7, <2>8, <2>9, <2>10
<1>8. CASE Truncate
  BY <1>8 DEF TypeOK, HasDirectory, Underway, InTime, UsedIsStored, Accounted,
      OneAccountPerStorage, Place, Verdict, MaxRetries, Truncate
<1>9. CASE Write
  BY <1>9 DEF TypeOK, HasDirectory, Underway, InTime, UsedIsStored, Accounted,
      OneAccountPerStorage, Place, Verdict, MaxRetries, Write
<1>10. CASE SaveFails
  <2> USE <1>10 DEF SaveFails, AttemptFails, Halt, Blame
  <2>1. place' \in Place /\ verdict' \in Verdict /\ outage' \in Outages
    BY DEF TypeOK, Place, Verdict
  <2>2. file' \in Account \union {None, Torn} /\ account' \in Account \union {NoAccount}
    BY DEF TypeOK, Underway, HasDirectory, Account
  <2>3. attempt' \in 0 .. MaxRetries /\ waited' \in Nat /\ created' \in 0 .. 2
    <3>1. attempt' \in 0 .. MaxRetries /\ waited' \in Nat
      BY FailedCounts
    <3>2. created' \in 0 .. 2
      BY DEF TypeOK
    <3>. QED
      BY <3>1, <3>2
  <2>4. faulty' \in BOOLEAN /\ unseen' \in BOOLEAN /\ mishap' \in BOOLEAN
    BY DEF TypeOK
  <2>5. TypeOK'
    BY <2>1, <2>2, <2>3, <2>4 DEF TypeOK
  <2>6. HasDirectory'
    BY DEF HasDirectory
  <2>7. Underway' /\ UsedIsStored'
    BY DEF Underway, UsedIsStored, TypeOK, Account, HasDirectory
  <2>8. InTime'
    BY DEF InTime, TypeOK, Delay, Slept, MaxRetries
  <2>9. Accounted'
    BY DEF Accounted, Underway, TypeOK
  <2>10. OneAccountPerStorage'
    BY DEF OneAccountPerStorage, Accounted, Underway, TypeOK
  <2>. QED
    BY <2>5, <2>6, <2>7, <2>8, <2>9, <2>10
<1>11. CASE Wake
  <2> USE <1>11 DEF Wake
  <2>1. place' \in Place /\ verdict' \in Verdict /\ outage' \in Outages
    BY DEF TypeOK, Place, Verdict
  <2>2. file' \in Account \union {None, Torn} /\ account' \in Account \union {NoAccount}
    BY DEF TypeOK, Underway, HasDirectory, Account
  <2>3. attempt' \in 0 .. MaxRetries /\ waited' \in Nat /\ created' \in 0 .. 2
    BY DEF TypeOK, InTime, Delay, MaxRetries
  <2>4. faulty' \in BOOLEAN /\ unseen' \in BOOLEAN /\ mishap' \in BOOLEAN
    BY DEF TypeOK
  <2>5. TypeOK'
    BY <2>1, <2>2, <2>3, <2>4 DEF TypeOK
  <2>6. HasDirectory'
    BY DEF HasDirectory
  <2>7. Underway' /\ UsedIsStored'
    BY DEF Underway, UsedIsStored, TypeOK, Account, HasDirectory
  <2>8. InTime'
    BY DEF InTime, TypeOK, Delay, Slept, MaxRetries
  <2>9. Accounted'
    BY DEF Accounted, Underway, TypeOK
  <2>10. OneAccountPerStorage'
    BY DEF OneAccountPerStorage, Accounted, Underway, TypeOK
  <2>. QED
    BY <2>5, <2>6, <2>7, <2>8, <2>9, <2>10
<1>12. CASE ParseWorkload
  BY <1>12 DEF TypeOK, HasDirectory, Underway, InTime, UsedIsStored, Accounted,
      OneAccountPerStorage, Place, Verdict, MaxRetries, ParseWorkload
<1>13. CASE ParseFails
  <2> USE <1>13 DEF ParseFails, Halt
  <2>1. place' \in Place /\ verdict' \in Verdict /\ outage' \in Outages
    BY DEF TypeOK, Place, Verdict
  <2>2. file' \in Account \union {None, Torn} /\ account' \in Account \union {NoAccount}
    BY DEF TypeOK, Underway, HasDirectory, Account
  <2>3. attempt' \in 0 .. MaxRetries /\ waited' \in Nat /\ created' \in 0 .. 2
    <3>1. attempt' \in 0 .. MaxRetries /\ waited' \in Nat
      BY HaltCounts
    <3>2. created' \in 0 .. 2
      BY DEF TypeOK
    <3>. QED
      BY <3>1, <3>2
  <2>4. faulty' \in BOOLEAN /\ unseen' \in BOOLEAN /\ mishap' \in BOOLEAN
    BY DEF TypeOK
  <2>5. TypeOK'
    BY <2>1, <2>2, <2>3, <2>4 DEF TypeOK
  <2>6. HasDirectory'
    BY DEF HasDirectory
  <2>7. Underway' /\ UsedIsStored'
    BY DEF Underway, UsedIsStored, TypeOK, Account, HasDirectory
  <2>8. InTime'
    BY DEF InTime, TypeOK, Delay, Slept, MaxRetries
  <2>9. Accounted'
    BY DEF Accounted, Underway, TypeOK
  <2>10. OneAccountPerStorage'
    BY DEF OneAccountPerStorage, Accounted, Underway, TypeOK
  <2>. QED
    BY <2>5, <2>6, <2>7, <2>8, <2>9, <2>10
<1>14. CASE Start
  BY <1>14 DEF TypeOK, HasDirectory, Underway, InTime, UsedIsStored, Accounted,
      OneAccountPerStorage, Place, Verdict, MaxRetries, Start
<1>15. CASE Crash
  <2> USE <1>15 DEF Crash, Halt
  <2>1. place' \in Place /\ verdict' \in Verdict /\ outage' \in Outages
    BY DEF TypeOK, Place, Verdict
  <2>2. file' \in Account \union {None, Torn} /\ account' \in Account \union {NoAccount}
    BY DEF TypeOK, Underway, HasDirectory, Account
  <2>3. attempt' \in 0 .. MaxRetries /\ waited' \in Nat /\ created' \in 0 .. 2
    BY DEF TypeOK, InTime, Delay, MaxRetries
  <2>4. faulty' \in BOOLEAN /\ unseen' \in BOOLEAN /\ mishap' \in BOOLEAN
    BY DEF TypeOK
  <2>5. TypeOK'
    BY <2>1, <2>2, <2>3, <2>4 DEF TypeOK
  <2>6. HasDirectory'
    BY DEF HasDirectory
  <2>7. Underway' /\ UsedIsStored'
    BY DEF Underway, UsedIsStored, TypeOK, Account, HasDirectory
  <2>8. InTime'
    BY DEF InTime, TypeOK, Delay, Slept, MaxRetries
  <2>9. Accounted'
    BY DEF Accounted, Underway, TypeOK
  <2>10. OneAccountPerStorage'
    BY DEF OneAccountPerStorage, Accounted, Underway, TypeOK
  <2>. QED
    BY <2>5, <2>6, <2>7, <2>8, <2>9, <2>10
<1>16. CASE RemoveAccount
  <2> USE <1>16 DEF RemoveAccount
  <2>1. place' \in Place /\ verdict' \in Verdict /\ outage' \in Outages
    BY DEF TypeOK, Place, Verdict
  <2>2. file' \in Account \union {None, Torn} /\ account' \in Account \union {NoAccount}
    BY DEF TypeOK, Underway, HasDirectory, Account
  <2>3. attempt' \in 0 .. MaxRetries /\ waited' \in Nat /\ created' \in 0 .. 2
    BY DEF TypeOK, InTime, Delay, MaxRetries
  <2>4. faulty' \in BOOLEAN /\ unseen' \in BOOLEAN /\ mishap' \in BOOLEAN
    BY DEF TypeOK
  <2>5. TypeOK'
    BY <2>1, <2>2, <2>3, <2>4 DEF TypeOK
  <2>6. HasDirectory'
    BY DEF HasDirectory
  <2>7. Underway' /\ UsedIsStored'
    BY DEF Underway, UsedIsStored, TypeOK, Account, HasDirectory
  <2>8. InTime'
    BY DEF InTime, TypeOK, Delay, Slept, MaxRetries
  <2>9. Accounted'
    BY DEF Accounted, Underway, TypeOK
  <2>10. OneAccountPerStorage'
    BY DEF OneAccountPerStorage, Accounted, Underway, TypeOK
  <2>. QED
    BY <2>5, <2>6, <2>7, <2>8, <2>9, <2>10
<1>17. ASSUME NEW k \in Key, Create(k) PROVE Inv'
  <2> USE <1>17 DEF Create, Count
  <2>1. place' \in Place /\ verdict' \in Verdict /\ outage' \in Outages
    BY DEF TypeOK, Place, Verdict
  <2>2. file' \in Account \union {None, Torn} /\ account' \in Account \union {NoAccount}
    BY DEF TypeOK, Underway, HasDirectory, Account
  <2>3. attempt' \in 0 .. MaxRetries /\ waited' \in Nat /\ created' \in 0 .. 2
    BY DEF TypeOK, InTime, Delay, MaxRetries
  <2>4. faulty' \in BOOLEAN /\ unseen' \in BOOLEAN /\ mishap' \in BOOLEAN
    BY DEF TypeOK
  <2>5. TypeOK'
    BY <2>1, <2>2, <2>3, <2>4 DEF TypeOK
  <2>6. HasDirectory'
    BY DEF HasDirectory
  <2>7. Underway' /\ UsedIsStored'
    BY DEF Underway, UsedIsStored, TypeOK, Account, HasDirectory
  <2>8. InTime'
    BY DEF InTime, TypeOK, Delay, Slept, MaxRetries
  <2>9. Accounted'
    BY DEF Accounted, Underway, TypeOK
  <2>10. OneAccountPerStorage'
    BY DEF OneAccountPerStorage, Accounted, Underway, TypeOK
  <2>. QED
    BY <2>5, <2>6, <2>7, <2>8, <2>9, <2>10
<1>18. ASSUME NEW d \in Directory, EditDirectory(d) PROVE Inv'
  BY <1>18 DEF TypeOK, HasDirectory, Underway, InTime, UsedIsStored, Accounted,
      OneAccountPerStorage, Place, Verdict, MaxRetries, EditDirectory
<1>19. CASE UNCHANGED vars
  <2> USE <1>19 DEF vars
  <2>1. TypeOK'
    BY DEF TypeOK
  <2>2. HasDirectory' /\ Underway' /\ InTime'
    BY DEF HasDirectory, Underway, InTime
  <2>3. UsedIsStored' /\ Accounted' /\ OneAccountPerStorage'
    BY DEF UsedIsStored, Accounted, OneAccountPerStorage
  <2>. QED
    BY <2>1, <2>2, <2>3
<1>. QED
  BY <1>1, <1>2, <1>3, <1>4, <1>5, <1>6, <1>7, <1>8, <1>9, <1>10, <1>11, <1>12, <1>13, <1>14,
     <1>15, <1>16, <1>17, <1>18, <1>19 DEF Next, SetUp

LEMMA InvHolds == Spec => []Inv
<1>. QED
  BY Initially, Inductive, PTL DEF Spec

(***************************************************************************)
(* Every variable is what load_or_create and main() can make it; with it,  *)
(* no attempt follows the fifth (account.rs:14, 22).                       *)
(***************************************************************************)
THEOREM TypeCorrect == Spec => []TypeOK
<1>1. Inv => TypeOK
  BY DEF Inv
<1>. QED
  BY <1>1, InvHolds, PTL

(***************************************************************************)
(* Whatever failed before, the account that the program goes on with is    *)
(* the one that a restart would load (account.rs:22-71).                   *)
(***************************************************************************)
THEOREM UsedAccountIsStored == Spec => []UsedIsStored
<1>1. Inv => UsedIsStored
  BY DEF Inv
<1>. QED
  BY <1>1, InvHolds, PTL

(***************************************************************************)
(* A second account is registered for a storage directory only after a     *)
(* call failed that could have worked, or a start was killed               *)
(* (account.rs:48-68).                                                     *)
(***************************************************************************)
THEOREM StorageHasOneAccount == Spec => []OneAccountPerStorage
<1>1. Inv => OneAccountPerStorage
  BY DEF Inv
<1>. QED
  BY <1>1, InvHolds, PTL

(***************************************************************************)
(* No step of the program replaces a whole account file, whatever failed   *)
(* before, unless load_account took the file for missing in this start: an *)
(* account is created, and then saved, where no file was seen              *)
(* (account.rs:48-68, storage.rs:70).                                      *)
(***************************************************************************)
THEOREM AccountFileIsKept == Spec => AccountIsKept
<1>1. Inv /\ [Next]_vars =>
        [(file \in Account) => file' = file \/ (place = "down" /\ file' = None) \/ unseen]_vars
  <2> SUFFICES ASSUME Inv, [Next]_vars, file \in Account, ~unseen
               PROVE  file' = file \/ (place = "down" /\ file' = None)
    OBVIOUS
  <2>1. ~Truncate /\ ~Write
    BY Distinct DEF Inv, Underway, Truncate, Write
  <2>2. CASE RemoveAccount
    BY <2>2 DEF RemoveAccount
  <2>3. CASE ~RemoveAccount
    BY <2>1, <2>3 DEF Next, SetUp, vars, Reject, Accept, InitStorageFails, LoadNone, Restore,
         RestoreFails, Create, CreateFails, SaveFails, Wake, ParseWorkload, ParseFails, Start,
         Crash, EditDirectory
  <2>. QED
    BY <2>2, <2>3
<1>. QED
  BY <1>1, InvHolds, PTL DEF Spec, AccountIsKept

LEMMA PatienceAtTheEnd ==
  ASSUME Inv, ~(attempt < MaxRetries)
  PROVE  Answering \/ outage > Patience
<1>1. attempt \in 0 .. 5
  BY DEF Inv, TypeOK, MaxRetries
<1>2. attempt = 5
  BY <1>1 DEF MaxRetries
<1>3. waited = 15
  BY <1>2 DEF Inv, InTime, Slept
<1>4. outage \in Nat
  BY OutagesAssumption DEF Inv, TypeOK
<1>. QED
  BY <1>3, <1>4 DEF Answering, Patience

(***************************************************************************)
(* load_or_create gives up only after the fifth attempt, and by then it    *)
(* has slept for 15 seconds: a server that answers by then is reached, if  *)
(* no call fails that could have worked and the account file parses        *)
(* (account.rs:13-28).                                                     *)
(***************************************************************************)
THEOREM OutagesAreRiddenOut == Spec => OutageIsRiddenOut
<1> DEFINE Lasts == [verdict' = "no account" /\ verdict = "none" =>
                       faulty' \/ file = Torn \/ outage > Patience]_vars
<1>1. Inv /\ [Next]_vars => Lasts
  <2> SUFFICES ASSUME Inv, [Next]_vars, verdict' = "no account", verdict = "none"
               PROVE  faulty' \/ file = Torn \/ outage > Patience
    OBVIOUS
  <2>1. AttemptFails /\ (RestoreFails \/ CreateFails \/ SaveFails)
    BY DEF Next, SetUp, vars, timeVars, historyVars, Halt, Reject, Accept, InitStorageFails,
         LoadNone, Restore, RestoreFails, Create, CreateFails, Truncate, Write, SaveFails, Wake,
         ParseWorkload, ParseFails, Start, Crash, RemoveAccount, EditDirectory
  <2>2. ~(attempt < MaxRetries)
    BY <2>1 DEF AttemptFails, timeVars
  <2>3. place \in {"loading", "creating", "saving", "writing"}
    BY <2>1 DEF RestoreFails, CreateFails, SaveFails
  <2>4. Answering \/ outage > Patience
    BY <2>2, PatienceAtTheEnd
  <2>5. CASE SaveFails
    BY <2>5 DEF SaveFails, Blame
  <2>6. CASE RestoreFails
    BY <2>6, <2>4 DEF RestoreFails, Blame
  <2>7. CASE CreateFails
    BY <2>7, <2>4 DEF CreateFails, Blame
  <2>. QED
    BY <2>1, <2>5, <2>6, <2>7
<1>. QED
  BY <1>1, InvHolds, PTL DEF Spec, OutageIsRiddenOut

(***************************************************************************)
(* validate_config finds every duplicate name, and nothing else, by        *)
(* looking at neighbours, provided that the names are sorted               *)
(* (config/loader.rs:45-56): equal values in a sorted sequence enclose     *)
(* nothing but values equal to them.                                       *)
(***************************************************************************)
THEOREM NeighboursTellDuplicates ==
  ASSUME NEW s \in Seq(Nat), IsAscending(s)
  PROVE  HasEqualNeighbours(s) <=> ~IsInjective(s)
<1> USE DEF IsInjective
<1>1. DOMAIN s = 1 .. Len(s) /\ Len(s) \in Nat /\ \A i \in 1 .. Len(s) : s[i] \in Nat
  OBVIOUS
<1>2. ASSUME HasEqualNeighbours(s) PROVE ~IsInjective(s)
  <2>1. PICK i \in 1 .. Len(s) - 1 : s[i] = s[i + 1]
    BY <1>2 DEF HasEqualNeighbours
  <2>2. i \in DOMAIN s /\ i + 1 \in DOMAIN s /\ i # i + 1
    BY <1>1, <2>1
  <2>. QED
    BY <2>1, <2>2
<1>3. ASSUME ~IsInjective(s) PROVE HasEqualNeighbours(s)
  <2>1. PICK i \in 1 .. Len(s), j \in 1 .. Len(s) : i < j /\ s[i] = s[j]
    BY <1>1, <1>3
  <2>2. i \in 1 .. Len(s) - 1 /\ i + 1 \in 1 .. Len(s) /\ i < i + 1
    BY <1>1, <2>1
  <2>3. s[i] <= s[i + 1]
    BY <1>1, <2>2 DEF IsAscending
  <2>4. s[i + 1] <= s[j]
    BY <1>1, <2>1, <2>2 DEF IsAscending
  <2>5. s[i] = s[i + 1]
    BY <1>1, <2>1, <2>2, <2>3, <2>4
  <2>. QED
    BY <2>2, <2>5 DEF HasEqualNeighbours
<1>. QED
  BY <1>2, <1>3

-----------------------------------------------------------------------------
(* Sorting.                                                                *)

\* The k smallest values are in front, in ascending order.
FrontSorted(s, k) ==
  /\ \A i, j \in 1 .. k : i < j => s[i] <= s[j]
  /\ \A i \in 1 .. k : \A j \in k + 1 .. Len(s) : s[i] <= s[j]

Swapped(p, i, j) == [p EXCEPT ![i] = p[j], ![j] = p[i]]

LEMMA SwapIsBijection ==
  ASSUME NEW n \in Nat, NEW p \in Bijection(1 .. n, 1 .. n), NEW i \in 1 .. n, NEW j \in 1 .. n
  PROVE  /\ Swapped(p, i, j) \in Bijection(1 .. n, 1 .. n)
         /\ Swapped(p, i, j)[i] = p[j] /\ Swapped(p, i, j)[j] = p[i]
         /\ \A k \in 1 .. n : k \notin {i, j} => Swapped(p, i, j)[k] = p[k]
<1> DEFINE q == Swapped(p, i, j)
<1>1. /\ p \in [1 .. n -> 1 .. n]
      /\ \A a, b \in 1 .. n : p[a] = p[b] => a = b
      /\ \A t \in 1 .. n : \E a \in 1 .. n : p[a] = t
  BY DEF Bijection, Injection, Surjection, IsInjective
<1>2. /\ q \in [1 .. n -> 1 .. n] /\ q[i] = p[j] /\ q[j] = p[i]
      /\ \A k \in 1 .. n : k \notin {i, j} => q[k] = p[k]
  BY <1>1 DEF Swapped
<1>3. \A a, b \in 1 .. n : q[a] = q[b] => a = b
  <2> DEFINE across(k) == IF k = i THEN j ELSE IF k = j THEN i ELSE k
  <2>1. \A k \in 1 .. n : across(k) \in 1 .. n /\ q[k] = p[across(k)]
    BY <1>2
  <2>2. \A a, b \in 1 .. n : across(a) = across(b) => a = b
    OBVIOUS
  <2> HIDE DEF across, q
  <2>3. \A a, b \in 1 .. n : q[a] = q[b] => across(a) = across(b)
    BY <1>1, <2>1
  <2> QED BY <2>2, <2>3
<1>4. \A t \in 1 .. n : \E a \in 1 .. n : q[a] = t
  <2> TAKE t \in 1 .. n
  <2>1. PICK a \in 1 .. n : p[a] = t
    BY <1>1
  <2>2. q[i] = t \/ q[j] = t \/ q[a] = t
    BY <1>2, <2>1
  <2> QED BY <2>2
<1>5. q \in Bijection(1 .. n, 1 .. n)
  <2> HIDE DEF q
  <2>1. DOMAIN q = 1 .. n
    BY <1>2
  <2>2. q \in Injection(1 .. n, 1 .. n)
    BY <1>2, <1>3, <2>1 DEF Injection, IsInjective
  <2>3. q \in Surjection(1 .. n, 1 .. n)
    BY <1>2, <1>4 DEF Surjection
  <2> QED BY <2>2, <2>3 DEF Bijection
<1> QED
  BY <1>2, <1>5

\* One step of a selection sort.
LEMMA OneMoreInFront ==
  ASSUME NEW s \in Seq(Nat), NEW p \in Bijection(DOMAIN s, DOMAIN s),
         NEW k \in Nat, k < Len(s), FrontSorted(Rearranged(s, p), k)
  PROVE  \E q \in Bijection(DOMAIN s, DOMAIN s) : FrontSorted(Rearranged(s, q), k + 1)
<1> DEFINE n == Len(s)
           t == Rearranged(s, p)
<1>0. DOMAIN s = 1 .. n /\ n \in Nat /\ \A i \in 1 .. n : s[i] \in Nat
  OBVIOUS
<1>1. p \in [1 .. n -> 1 .. n]
  BY <1>0 DEF Bijection, Injection
<1>2. DOMAIN t = 1 .. n /\ Len(t) = n /\ \A i \in 1 .. n : t[i] = s[p[i]] /\ t[i] \in Nat
  <2>1. DOMAIN t = 1 .. n /\ \A i \in 1 .. n : t[i] = s[p[i]]
    BY <1>0 DEF Rearranged
  <2>2. t \in [1 .. n -> Nat]
    BY <1>0, <1>1 DEF Rearranged
  <2> QED BY <1>0, <2>1, <2>2
<1>3. PICK m \in k + 1 .. n : \A j \in k + 1 .. n : t[m] <= t[j]
  <2> DEFINE T == {t[j] : j \in k + 1 .. n}
  <2>1. T \subseteq Nat /\ t[k + 1] \in T
    BY <1>0, <1>2
  <2>2. PICK v \in T : \A w \in T : v <= w
    <3> HIDE DEF T
    <3> QED BY <2>1, LeastNat
  <2> QED BY <2>2
<1> DEFINE q == Swapped(p, k + 1, m)
           u == Rearranged(s, q)
<1>4. k + 1 \in 1 .. n /\ m \in 1 .. n
  BY <1>0
<1>5. /\ q \in Bijection(1 .. n, 1 .. n) /\ q[k + 1] = p[m] /\ q[m] = p[k + 1]
      /\ \A i \in 1 .. n : i \notin {k + 1, m} => q[i] = p[i]
  <2>1. p \in Bijection(1 .. n, 1 .. n)
    BY <1>0
  <2> HIDE DEF n
  <2> QED BY <1>0, <1>4, <2>1, SwapIsBijection
<1>6. DOMAIN u = 1 .. n /\ Len(u) = n /\ \A i \in 1 .. n : u[i] = s[q[i]]
  <2> HIDE DEF q
  <2>1. DOMAIN u = 1 .. n /\ \A i \in 1 .. n : u[i] = s[q[i]]
    BY <1>0, <1>5 DEF Rearranged
  <2>2. u \in [1 .. n -> Nat]
    BY <1>0, <1>5 DEF Rearranged, Bijection, Injection
  <2> QED BY <1>0, <2>1, <2>2
<1> HIDE DEF q, t, u
<1>7. /\ u[k + 1] = t[m] /\ u[m] = t[k + 1]
      /\ \A i \in 1 .. n : i \notin {k + 1, m} => u[i] = t[i]
  <2>1. u[k + 1] = s[q[k + 1]] /\ u[m] = s[q[m]] /\ t[k + 1] = s[p[k + 1]] /\ t[m] = s[p[m]]
    BY <1>2, <1>4, <1>6
  <2>2. \A i \in 1 .. n : i \notin {k + 1, m} => u[i] = s[p[i]] /\ t[i] = s[p[i]]
    BY <1>2, <1>5, <1>6
  <2> QED BY <1>5, <2>1, <2>2
<1>8. /\ \A i, j \in 1 .. k : i < j => t[i] <= t[j]
      /\ \A i \in 1 .. k : \A j \in k + 1 .. n : t[i] <= t[j]
  BY <1>2 DEF FrontSorted, t
<1>9. \A i \in 1 .. k : i \in 1 .. n /\ u[i] = t[i]
  BY <1>0, <1>4, <1>7
<1>10. \A j \in k + 1 .. n : \E l \in k + 1 .. n : u[j] = t[l]
  BY <1>0, <1>4, <1>7
<1>11. \A i \in 1 .. k + 1 : i \in 1 .. k \/ i = k + 1
  OBVIOUS
<1>12. \A j \in k + 2 .. n : u[k + 1] <= u[j]
  BY <1>0, <1>3, <1>7, <1>10
<1>13. \A i \in 1 .. k : \A j \in k + 1 .. n : u[i] <= u[j]
  BY <1>8, <1>9, <1>10
<1>14. ASSUME NEW i \in 1 .. k + 1, NEW j \in 1 .. k + 1, i < j PROVE u[i] <= u[j]
  <2>1. i \in 1 .. k /\ (j \in 1 .. k \/ j = k + 1)
    BY <1>14
  <2>2. CASE j \in 1 .. k
    BY <1>8, <1>9, <1>14, <2>1, <2>2
  <2>3. CASE j = k + 1
    <3>1. j \in k + 1 .. n
      BY <1>0, <2>3
    <3> QED BY <1>13, <2>1, <3>1
  <2> QED BY <2>1, <2>2, <2>3
<1>15. \A i \in 1 .. k + 1 : \A j \in (k + 1) + 1 .. n : u[i] <= u[j]
  BY <1>0, <1>11, <1>12, <1>13
<1>16. FrontSorted(u, k + 1)
  BY <1>6, <1>14, <1>15 DEF FrontSorted
<1> QED
  BY <1>0, <1>5, <1>16 DEF u

\* Every sequence of names can be sorted: if not, there is a least number of
\* values that cannot be brought to the front.
LEMMA CanBeSorted ==
  ASSUME NEW s \in Seq(Nat)
  PROVE  \E p \in Bijection(DOMAIN s, DOMAIN s) : IsAscending(Rearranged(s, p))
<1> DEFINE n == Len(s)
           Can(k) == \E p \in Bijection(DOMAIN s, DOMAIN s) : FrontSorted(Rearranged(s, p), k)
           Cannot == {k \in 0 .. n : ~Can(k)}
<1>0. DOMAIN s = 1 .. n /\ n \in Nat /\ Cannot \subseteq Nat
  OBVIOUS
<1>1. Can(0)
  <2> DEFINE p == [i \in 1 .. n |-> i]
  <2>1. p \in Bijection(1 .. n, 1 .. n)
    BY DEF Bijection, Injection, Surjection, IsInjective
  <2>2. FrontSorted(Rearranged(s, p), 0)
    BY DEF FrontSorted
  <2> QED BY <1>0, <2>1, <2>2
<1>2. ASSUME NEW k \in Nat, k < n, Can(k) PROVE Can(k + 1)
  BY <1>2, OneMoreInFront
<1>3. Cannot = {}
  <2> SUFFICES ASSUME Cannot # {} PROVE FALSE
    OBVIOUS
  <2>1. PICK k \in Cannot : \A l \in Cannot : k <= l
    <3> HIDE DEF Cannot
    <3> QED BY <1>0, LeastNat
  <2>2. k # 0 /\ k \in 0 .. n
    BY <1>1, <2>1
  <2>3. k - 1 \in Nat /\ k - 1 < n /\ (k - 1) + 1 = k /\ k - 1 \in 0 .. n /\ ~(k <= k - 1)
    BY <1>0, <2>2
  <2>4. Can(k - 1)
    BY <2>1, <2>3
  <2> HIDE DEF Can
  <2>5. Can(k)
    BY <1>2, <2>3, <2>4
  <2> QED BY <2>1, <2>5
<1>4. PICK p \in Bijection(DOMAIN s, DOMAIN s) : FrontSorted(Rearranged(s, p), n)
  BY <1>0, <1>3
<1>5. DOMAIN Rearranged(s, p) = 1 .. n
  BY <1>0 DEF Rearranged
<1>6. IsAscending(Rearranged(s, p))
  BY <1>4, <1>5 DEF IsAscending, FrontSorted
<1> QED
  BY <1>4, <1>6

LEMMA SortedIsSorted ==
  ASSUME NEW s \in Seq(Nat)
  PROVE  IsAscending(Sorted(s)) /\ \E p \in Bijection(DOMAIN s, DOMAIN s) : Sorted(s) = Rearranged(s, p)
<1> DEFINE T == {Rearranged(s, p) : p \in Bijection(DOMAIN s, DOMAIN s)}
<1>1. \E t \in T : IsAscending(t)
  BY CanBeSorted
<1>2. Sorted(s) = CHOOSE t \in T : IsAscending(t)
  BY DEF Sorted
<1>3. Sorted(s) \in T /\ IsAscending(Sorted(s))
  <2> HIDE DEF T
  <2> QED BY <1>1, <1>2
<1> QED
  BY <1>3

\* Another order has the same duplicates.
LEMMA RearrangedDuplicates ==
  ASSUME NEW s \in Seq(Nat), NEW p \in Bijection(DOMAIN s, DOMAIN s)
  PROVE  /\ Rearranged(s, p) \in Seq(Nat)
         /\ IsInjective(Rearranged(s, p)) <=> IsInjective(s)
<1> DEFINE n == Len(s)
           t == Rearranged(s, p)
<1>0. DOMAIN s = 1 .. n /\ n \in Nat /\ \A i \in 1 .. n : s[i] \in Nat
  OBVIOUS
<1>1. /\ p \in [1 .. n -> 1 .. n]
      /\ \A a, b \in 1 .. n : p[a] = p[b] => a = b
      /\ \A c \in 1 .. n : \E a \in 1 .. n : p[a] = c
  BY <1>0 DEF Bijection, Injection, Surjection, IsInjective
<1>2. DOMAIN t = 1 .. n /\ \A i \in 1 .. n : t[i] = s[p[i]]
  BY <1>0 DEF Rearranged
<1>3. t \in [1 .. n -> Nat]
  BY <1>0, <1>1 DEF Rearranged
<1>4. t \in Seq(Nat)
  <2> HIDE DEF t
  <2> QED BY <1>0, <1>3
<1> HIDE DEF n, t
<1>5. ASSUME IsInjective(s), NEW a \in 1 .. n, NEW b \in 1 .. n, t[a] = t[b] PROVE a = b
  <2>1. p[a] \in 1 .. n /\ p[b] \in 1 .. n /\ s[p[a]] = s[p[b]]
    BY <1>1, <1>2, <1>5
  <2>2. p[a] = p[b]
    BY <1>0, <1>5, <2>1 DEF IsInjective
  <2> QED BY <1>1, <2>2
<1>6. ASSUME IsInjective(t), NEW c \in 1 .. n, NEW d \in 1 .. n, s[c] = s[d] PROVE c = d
  <2>1. PICK a \in 1 .. n, b \in 1 .. n : p[a] = c /\ p[b] = d
    BY <1>1
  <2>2. t[a] = t[b]
    BY <1>2, <1>6, <2>1
  <2>3. a = b
    BY <1>2, <1>6, <2>2 DEF IsInjective
  <2> QED BY <2>1, <2>3
<1>7. IsInjective(t) <=> IsInjective(s)
  BY <1>0, <1>2, <1>5, <1>6 DEF IsInjective
<1> QED
  BY <1>4, <1>7 DEF t

(***************************************************************************)
(* validate_config accepts exactly the usable configurations: sorting and  *)
(* comparing neighbours finds a certificate name that is used twice        *)
(* wherever it stands in the file, and finds no other                      *)
(* (config/loader.rs:16-76).                                               *)
(***************************************************************************)
THEOREM ValidationIsExact ==
  ASSUME NEW c \in Configuration(Directory)
  PROVE  ValidateConfig(c) <=> IsUsable(c)
<1> DEFINE certs == c.certificates
           names == NamesOf(certs)
<1>1. /\ certs \in Seq(Certificate)
      /\ c.socket \in {"none", "empty", "given"} /\ c.storage \in {"empty", "given"}
  BY DEF Configuration
<1>2. Len(certs) \in Nat /\ DOMAIN certs = 1 .. Len(certs)
  BY <1>1
<1>3. \A i \in DOMAIN certs : certs[i].name \in Nat /\ certs[i].domains \in Seq(Nat)
  <2>1. \A cert \in Certificate : cert.name \in Nat /\ cert.domains \in Seq(Nat)
    BY DEF Certificate
  <2>2. \A i \in DOMAIN certs : certs[i] \in Certificate
    BY <1>1, <1>2
  <2> QED BY <2>1, <2>2
<1>4. names \in Seq(Nat)
  <2>1. names \in [1 .. Len(certs) -> Nat]
    BY <1>2, <1>3 DEF NamesOf
  <2> HIDE DEF names
  <2> QED BY <1>2, <2>1
<1>5. HasEqualNeighbours(Sorted(names)) <=> ~IsInjective(names)
  <2> HIDE DEF names
  <2>1. PICK p \in Bijection(DOMAIN names, DOMAIN names) : Sorted(names) = Rearranged(names, p)
    BY <1>4, SortedIsSorted
  <2>2. Sorted(names) \in Seq(Nat) /\ (IsInjective(Sorted(names)) <=> IsInjective(names))
    BY <1>4, <2>1, RearrangedDuplicates
  <2>3. IsAscending(Sorted(names))
    BY <1>4, SortedIsSorted
  <2> QED BY <2>2, <2>3, NeighboursTellDuplicates
<1>6. certs # << >> <=> Len(certs) > 0
  BY <1>1, <1>2
<1>7. ASSUME NEW i \in DOMAIN certs
      PROVE  /\ certs[i].domains # << >> <=> Len(certs[i].domains) > 0
             /\ Empty \notin ToSet(certs[i].domains) <=>
                  \A j \in DOMAIN certs[i].domains : certs[i].domains[j] # Empty
  <2>1. certs[i].domains \in Seq(Nat)
    BY <1>3
  <2>2. certs[i].domains # << >> <=> Len(certs[i].domains) > 0
    BY <2>1
  <2> QED BY <2>2 DEF ToSet
<1>8. (\A i \in DOMAIN certs : /\ certs[i].name # Empty
                               /\ certs[i].domains # << >>
                               /\ Empty \notin ToSet(certs[i].domains))
        <=> \A cert \in ToSet(certs) :
              /\ cert.name # Empty /\ Len(cert.domains) > 0
              /\ \A j \in DOMAIN cert.domains : cert.domains[j] # Empty
  <2> DEFINE Bare(cert) == /\ cert.name # Empty /\ Len(cert.domains) > 0
                           /\ \A j \in DOMAIN cert.domains : cert.domains[j] # Empty
  <2>1. \A i \in DOMAIN certs :
          Bare(certs[i]) <=> /\ certs[i].name # Empty
                             /\ certs[i].domains # << >>
                             /\ Empty \notin ToSet(certs[i].domains)
    BY <1>7
  <2>2. (\A cert \in ToSet(certs) : Bare(cert)) <=> \A i \in DOMAIN certs : Bare(certs[i])
    <3> HIDE DEF Bare
    <3> QED BY DEF ToSet
  <2> QED BY <2>1, <2>2
<1>9. CertificatesPass(certs) <=>
        /\ Len(certs) > 0 /\ IsInjective(names)
        /\ \A cert \in ToSet(certs) :
              /\ cert.name # Empty /\ Len(cert.domains) > 0
              /\ \A j \in DOMAIN cert.domains : cert.domains[j] # Empty
  BY <1>5, <1>6, <1>8 DEF CertificatesPass
<1>10. c.socket # "empty" <=> c.socket \in {"none", "given"}
  BY <1>1
<1>11. c.storage # "empty" <=> c.storage = "given"
  BY <1>1
<1> QED
  BY <1>9, <1>10, <1>11 DEF ValidateConfig, IsUsable

-----------------------------------------------------------------------------
(* What follows from it for the starts.                                    *)

LEMMA EditedDirectory ==
  ASSUME NEW c \in Configuration(Directory), NEW d \in Directory,
         NEW e, e = [c EXCEPT !.directory = d]
  PROVE  e \in Configuration(Directory) /\ (IsUsable(e) <=> IsUsable(c))
<1>1. /\ e \in Configuration(Directory)
      /\ e.certificates = c.certificates /\ e.socket = c.socket /\ e.storage = c.storage
  BY DEF Configuration
<1> QED
  BY <1>1 DEF IsUsable

Judged == config \in Configuration(Directory) /\ ConfigsAreJudged

LEMMA JudgedHolds == Spec => []Judged
<1>1. Init => Judged
  BY ConfigsAssumption DEF Init, Judged, ConfigsAreJudged
<1>2. Judged /\ [Next]_vars => Judged'
  <2> SUFFICES ASSUME Judged, [Next]_vars PROVE Judged'
    OBVIOUS
  <2>0. ValidateConfig(config) <=> IsUsable(config)
    BY ValidationIsExact DEF Judged
  <2> USE DEF Judged, ConfigsAreJudged, historyVars, timeVars
  <2>1. CASE SetUp
    <3>1. config' = config
      BY <2>1 DEF SetUp, Reject, Accept, InitStorageFails, LoadNone, Restore, RestoreFails, Create,
           CreateFails, Truncate, Write, SaveFails, Wake, ParseWorkload, ParseFails
    <3>2. CASE Reject
      BY <2>0, <3>1, <3>2 DEF Reject, Halt
    <3>3. CASE Accept
      BY <2>0, <3>1, <3>3 DEF Accept
    <3>4. CASE ~Reject /\ ~Accept
      <4>1. /\ verdict' = "rejected" => verdict = "rejected"
            /\ place' \notin {"down", "judging"} => place \notin {"down", "judging"}
        BY <2>1, <3>4 DEF SetUp, InitStorageFails, LoadNone, Restore, RestoreFails, Create,
             CreateFails, Truncate, Write, SaveFails, Wake, ParseWorkload, ParseFails,
             AttemptFails, Halt
      <4> QED BY <3>1, <4>1
    <3> QED BY <3>2, <3>3, <3>4
  <2>2. CASE Start \/ Crash \/ RemoveAccount \/ UNCHANGED vars
    BY <2>2 DEF Start, Crash, Halt, RemoveAccount, vars
  <2>3. ASSUME NEW d \in Directory, EditDirectory(d) PROVE Judged'
    <3>1. config' \in Configuration(Directory) /\ (IsUsable(config') <=> IsUsable(config))
      BY <2>3, EditedDirectory DEF EditDirectory
    <3> QED BY <2>3, <3>1 DEF EditDirectory, IsUsable
  <2> QED BY <2>1, <2>2, <2>3 DEF Next
<1> QED
  BY <1>1, <1>2, PTL DEF Spec

(***************************************************************************)
(* No start goes beyond the validation with a configuration that the later *)
(* code cannot work with, and none is turned away that it can work with;   *)
(* while the process is down only the ACME directory is edited, which the  *)
(* verdict does not depend on (config/loader.rs:9-14, main.rs:41-47).      *)
(***************************************************************************)
THEOREM StartsAreJudged == Spec => []ConfigsAreJudged
<1>1. Judged => ConfigsAreJudged
  BY DEF Judged
<1> QED
  BY <1>1, JudgedHolds, PTL

-----------------------------------------------------------------------------
(* The conversion: what has not failed is served as the property says.     *)

LEMMA EncodedTyped ==
  ASSUME NEW insides, NEW t \in TypedConfig(insides), NEW types, EncodeIf(t, types).form # "failed"
  PROVE  IsServed(EncodeIf(t, types), t, types) /\ EncodeIf(t, types).inner = t.inner
<1> DEFINE e == EncodeIf(t, types)
<1>1. CASE ~Parses(t)
  <2>1. e = Fail(t)
    BY <1>1 DEF EncodeIf
  <2>2. Fail(t).form = "failed"
    BY DEF TypedConfig, Fail
  <2> QED BY <2>1, <2>2
<1>2. CASE Parses(t) /\ t.form # "expanded"
  <2>1. e = t
    BY <1>2 DEF EncodeIf
  <2> QED BY <1>2, <2>1 DEF IsServed
<1>3. CASE Parses(t) /\ t.form = "expanded" /\ t.type \in types
  <2>1. e = Encode(t)
    BY <1>3 DEF EncodeIf
  <2>2. Encode(t).type = t.type /\ Encode(t).form = "binary" /\ Encode(t).inner = t.inner
    BY DEF TypedConfig, Encode
  <2> QED BY <1>3, <2>1, <2>2 DEF IsServed
<1>4. CASE Parses(t) /\ t.form = "expanded" /\ t.type \notin types
  <2>1. e = Fail(t)
    BY <1>4 DEF EncodeIf
  <2>2. Fail(t).form = "failed"
    BY DEF TypedConfig, Fail
  <2> QED BY <2>1, <2>2
<1> QED
  BY <1>1, <1>2, <1>3, <1>4

LEMMA ConvertedFilter ==
  ASSUME NEW t \in NetworkFilter, ConvertFilter(t).form # "failed"
  PROVE  FilterIsServed(ConvertFilter(t), t)
<1> DEFINE is    == ConvertFilter(t)
           inner == [i \in DOMAIN t.inner |-> ConvertHttpFilter(t.inner[i])]
           e     == EncodeIf(t, {"hcm", "tcp_proxy"})
<1>0. t \in TypedConfig(Seq(HttpFilter)) /\ t.inner \in Seq(HttpFilter)
  BY DEF NetworkFilter, TypedConfig
<1>1. CASE t.form # "expanded"
  <2>1. is = EncodeIf(t, {})
    BY <1>1 DEF ConvertFilter
  <2>2. IsServed(is, t, {}) /\ is.inner = t.inner
    BY <1>0, <2>1, EncodedTyped
  <2> QED BY <1>1, <2>2 DEF IsServed, FilterIsServed
<1>2. CASE t.form = "expanded" /\ \E i \in DOMAIN inner : inner[i].form = "failed"
  <2>1. is = Fail(t)
    BY <1>2 DEF ConvertFilter
  <2>2. Fail(t).form = "failed"
    BY <1>0 DEF TypedConfig, Fail
  <2> QED BY <2>1, <2>2
<1>3. CASE t.form = "expanded" /\ \A i \in DOMAIN inner : inner[i].form # "failed"
  <2>1. is = [e EXCEPT !.inner = inner]
    BY <1>3 DEF ConvertFilter
  <2>2. e = Encode(t) \/ e = Fail(t)
    BY <1>3 DEF EncodeIf
  <2>3. e \in [{"type", "form", "fields", "inner"} -> {e[x] : x \in DOMAIN e}]
    BY <1>0, <2>2 DEF TypedConfig, Encode, Fail
  <2>4. is.type = e.type /\ is.form = e.form /\ is.inner = inner
    <3> HIDE DEF e, is, inner
    <3> QED BY <2>1, <2>3
  <2>5. IsServed(e, t, {"hcm", "tcp_proxy"})
    BY <1>0, <2>4, EncodedTyped
  <2>6. IsServed(is, t, {"hcm", "tcp_proxy"})
    <3> HIDE DEF e, is, inner
    <3> QED BY <2>4, <2>5 DEF IsServed
  <2>7. \A i \in DOMAIN t.inner : IsServed(inner[i], t.inner[i], {"router"})
    <3> TAKE i \in DOMAIN t.inner
    <3>1. t.inner[i] \in HttpFilter
      BY <1>0
    <3>2. inner[i] = EncodeIf(t.inner[i], {"router"})
      BY DEF ConvertHttpFilter
    <3>3. EncodeIf(t.inner[i], {"router"}).form # "failed"
      BY <1>3, <3>2
    <3> QED BY <3>1, <3>2, <3>3, EncodedTyped DEF HttpFilter
  <2>8. DOMAIN is.inner = DOMAIN t.inner
    BY <2>4
  <2> HIDE DEF is, inner
  <2> QED BY <2>4, <2>6, <2>7, <2>8 DEF FilterIsServed, is
<1> QED
  BY <1>1, <1>2, <1>3

LEMMA ConvertedChain ==
  ASSUME NEW chain \in FilterChain, NEW is, is = ConvertChain(chain), ChainParses(is)
  PROVE  ChainIsServed(is, chain)
<1>1. chain.filters \in Seq(NetworkFilter) /\ chain.socket \in TypedConfig({<< >>})
  BY DEF FilterChain
<1>2. /\ is.filters = [i \in DOMAIN chain.filters |-> ConvertFilter(chain.filters[i])]
      /\ is.socket = ConvertSocket(chain.socket)
  BY DEF ConvertChain
<1>3. \A k \in DOMAIN chain.filters : chain.filters[k] \in NetworkFilter
  BY <1>1
<1>4. \A k \in DOMAIN chain.filters : FilterIsServed(is.filters[k], chain.filters[k])
  BY <1>2, <1>3, ConvertedFilter DEF ChainParses
<1>5. chain.socket.type = "tls" => IsServed(is.socket, chain.socket, {"tls"})
  BY <1>1, <1>2, EncodedTyped DEF ConvertSocket, ChainParses
<1> QED
  BY <1>2, <1>4, <1>5 DEF ChainIsServed

(***************************************************************************)
(* A process that is up has parsed its workload.                           *)
(***************************************************************************)
LEMMA UpHasParsed == Spec => [](place = "up" => WorkloadParses(config))
<1> DEFINE Parsed == place = "up" => WorkloadParses(config)
<1>1. Init => Parsed
  BY DEF Init
<1>2. Parsed /\ [Next]_vars => Parsed'
  <2> SUFFICES ASSUME Parsed, [Next]_vars, place' = "up" PROVE WorkloadParses(config')
    OBVIOUS
  <2>1. ParseWorkload \/ (place = "up" /\ config' = config)
    BY DEF Next, SetUp, vars, timeVars, Reject, Accept, InitStorageFails, LoadNone, Restore,
         RestoreFails, Create, CreateFails, Truncate, Write, SaveFails, Wake, ParseFails, Start,
         Crash, RemoveAccount, EditDirectory, AttemptFails, Halt
  <2> QED BY <2>1 DEF ParseWorkload
<1> HIDE DEF Parsed
<1>3. Spec => []Parsed
  BY <1>1, <1>2, PTL DEF Spec
<1> QED
  BY <1>3 DEF Parsed

(***************************************************************************)
(* In a workload that is served, all that the program is to convert is     *)
(* converted, in the order and of the types of the configuration; an       *)
(* expanded filter of a type it cannot encode keeps it from being served,  *)
(* whatever else is in it (config/deserialize.rs:61-255).                  *)
(***************************************************************************)
THEOREM ConvertedIsServed == Spec => []ServedIsConverted
<1> DEFINE Parsed == place = "up" => WorkloadParses(config)
<1>1. Judged /\ Parsed => ServedIsConverted
  <2> SUFFICES ASSUME config \in Configuration(Directory), WorkloadParses(config)
               PROVE  ServedIsConverted
    BY DEF Judged, ServedIsConverted
  <2> DEFINE listeners == config.listeners
             chains(i) == listeners[i].chains
  <2>1. listeners \in Seq(Listener)
    BY DEF Configuration
  <2>2. \A i \in DOMAIN listeners : listeners[i] \in Listener
    BY <2>1
  <2>3. \A i \in DOMAIN listeners : chains(i) \in Seq(FilterChain)
    BY <2>2 DEF Listener
  <2>4. \A i \in DOMAIN listeners : \A j \in DOMAIN chains(i) : chains(i)[j] \in FilterChain
    <3>1. \A s \in Seq(FilterChain) : \A j \in DOMAIN s : s[j] \in FilterChain
      OBVIOUS
    <3> QED BY <2>3, <3>1
  <2>5. /\ DOMAIN Served = DOMAIN listeners
        /\ \A i \in DOMAIN listeners : Served[i] = ConvertListener(listeners[i])
    BY DEF Served, ConvertListeners
  <2>6. \A i \in DOMAIN listeners :
          /\ DOMAIN Served[i].chains = DOMAIN chains(i)
          /\ \A j \in DOMAIN chains(i) : Served[i].chains[j] = ConvertChain(chains(i)[j])
    <3> TAKE i \in DOMAIN listeners
    <3>1. Served[i].chains = [j \in DOMAIN chains(i) |-> ConvertChain(chains(i)[j])]
      BY <2>2, <2>5 DEF ConvertListener, Listener
    <3> QED BY <3>1
  <2>7. \A i \in DOMAIN listeners : \A j \in DOMAIN chains(i) : ChainParses(Served[i].chains[j])
    <3>1. \A i \in DOMAIN listeners : ListenerParses(Served[i])
      BY DEF WorkloadParses, Served
    <3> QED BY <2>6, <3>1 DEF ListenerParses
  <2> HIDE DEF listeners, chains
  <2>8. \A i \in DOMAIN listeners : \A j \in DOMAIN chains(i) :
          ChainIsServed(Served[i].chains[j], chains(i)[j])
    BY <2>4, <2>6, <2>7, ConvertedChain
  <2> QED BY <2>5, <2>6, <2>8 DEF ServedIsConverted, listeners, chains
<1> HIDE DEF Parsed
<1>2. Spec => []Parsed
  BY UpHasParsed DEF Parsed
<1> QED
  BY <1>1, <1>2, JudgedHolds, PTL
=============================================================================
