---------------------------- MODULE Renewal_proofs ----------------------------
(***************************************************************************)
(* Proofs about Renewal, for every set of certificates and generations:    *)
(* as long as stored files can be read, metadata that says a certificate   *)
(* is not due vouches for its chain and its key (FreshMeansComplete), and  *)
(* a served secret that is not a matching pair will be renewed.            *)
(*                                                                         *)
(* FreshMeansComplete is not inductive: it has to be known that a save     *)
(* runs only while the metadata on disk is not fresh, and what the save    *)
(* has written when it reaches the metadata (Saving).                      *)
(***************************************************************************)
EXTENDS Renewal, TLAPS

\* An order, and the save up to its last file, leave the stored certificate
\* due; the files before the current one are written.
Saving ==
  /\ task \in {"ordering"} \union File => Load(name) # "fresh"
  /\ task \in {"key", "meta", "publishing"} => store[name]["chain"] = gen
  /\ task \in {"meta", "publishing"} => store[name]["key"] = gen

\* The metadata is never there without the other two files.
MetaIsLast ==
  \A c \in Cert :
    store[c]["meta"] # None => store[c]["chain"] # None /\ store[c]["key"] # None

SaveInv ==
  /\ TypeOK
  /\ Saving
  /\ MetaIsLast
  /\ FreshMeansComplete
  /\ BrokenMeansDue

USE DistinctAssumption, ReadFaultsAssumption

LEMMA SaveInit == Init => SaveInv
BY DEF Init, SaveInv, TypeOK, Saving, MetaIsLast, FreshMeansComplete, BrokenMeansDue,
       Load, File, Age, Task

LEMMA LoadFresh ==
  ASSUME TypeOK, NEW c \in Cert
  PROVE  Load(c) = "fresh" <=> /\ \A f \in File : store[c][f] # None
                               /\ store[c]["meta"] # Torn
                               /\ age[c] = "fresh"
BY DEF Load, TypeOK, File, Age

LEMMA TypeStep == TypeOK /\ [Next]_vars => TypeOK'
<1> SUFFICES ASSUME TypeOK, [Next]_vars PROVE TypeOK'
  OBVIOUS
<1> USE DEF TypeOK, fileVars, passVars
<1>1. CASE Start
  BY <1>1 DEF Start, Task, File
<1>2. CASE Crash
  BY <1>2 DEF Crash, Task, File
<1>3. ASSUME NEW c \in Cert, GrowOlder(c) PROVE TypeOK'
  BY <1>3 DEF GrowOlder, Age, Older
<1>4. ASSUME NEW c \in Cert, ServeStored(c) PROVE TypeOK'
  <2>1. store[c]["chain"] # None /\ store[c]["key"] # None
    BY <1>4 DEF ServeStored, StillServable, Load, File
  <2>2. served' \in [Cert -> Secret \union {None}]
    BY <1>4, <2>1 DEF ServeStored, Secret, File
  <2> QED
    BY <1>4, <2>2 DEF ServeStored, Task, File
<1>5. ASSUME NEW c \in Cert, LeaveAlone(c) PROVE TypeOK'
  BY <1>5 DEF LeaveAlone, Task, File
<1>6. ASSUME NEW c \in Cert, Renew(c) PROVE TypeOK'
  BY <1>6 DEF Renew, Task, File
<1>7. CASE OrderFails \/ SaveFails
  BY <1>7 DEF OrderFails, SaveFails, NextCertificate, Task, File
<1>8. CASE OrderSucceeds
  <2>1. gen' \in Gen
    BY <1>8 DEF OrderSucceeds
  <2>2. listed' \in [Cert -> [Gen -> Domains]]
    BY <1>8, <2>1 DEF OrderSucceeds, File
  <2> QED
    BY <1>8, <2>1, <2>2 DEF OrderSucceeds, Task, File
<1>9. CASE Truncate
  BY <1>9 DEF Truncate, Task, File
<1>10. CASE Write
  <2>1. /\ name \in Cert /\ gen \in Gen
        /\ store' \in [Cert -> [File -> Gen \union {None, Torn}]]
        /\ age' \in [Cert -> Age]
    BY <1>10 DEF Write, File, Age
  <2>2. task' \in {"key", "meta", "publishing"}
    BY <1>10 DEF Write, After, File
  <2> QED
    BY <1>10, <2>1, <2>2 DEF Write, Task, File
<1>11. CASE Publish
  <2>1. name \in Cert /\ gen \in Gen
    BY <1>11 DEF Publish, File
  <2>2. served' \in [Cert -> Secret \union {None}]
    BY <1>11, <2>1 DEF Publish, Secret
  <2> QED
    BY <1>11, <2>2 DEF Publish, NextCertificate, Task, File
<1>12. CASE EndPass
  BY <1>12 DEF EndPass, Task, File
<1>13. CASE Wake
  BY <1>13 DEF Wake, Task, File
<1>14. CASE UNCHANGED vars
  BY <1>14 DEF vars
<1> QED
  BY <1>1, <1>2, <1>3, <1>4, <1>5, <1>6, <1>7, <1>8, <1>9, <1>10, <1>11, <1>12,
     <1>13, <1>14 DEF Next, Visit

(***************************************************************************)
(* Steps that change no file: a pass, the process and the clock.           *)
(***************************************************************************)
LEMMA QuietStep ==
  ASSUME SaveInv, TypeOK', UNCHANGED << store, age >>,
         task' \notin File \union {"publishing"},
         task' = "ordering" => name' \in Cert /\ Load(name') # "fresh",
         task # "publishing" \/ served'[name] = None \/ Matches(served'[name]),
         \A c \in Cert : \/ served'[c] \in {served[c], None}
                        \/ Matches(served'[c])
                        \/ NeedsRenewal(c)
  PROVE  SaveInv'
<1> USE DEF SaveInv
<1>1. \A c \in Cert : Load(c)' = Load(c)
  BY DEF Load
<1>2. Saving'
  BY <1>1 DEF Saving, File
<1>3. MetaIsLast' /\ FreshMeansComplete'
  BY <1>1 DEF MetaIsLast, FreshMeansComplete
<1>4. BrokenMeansDue'
  <2> SUFFICES ASSUME NEW c \in Cert, served'[c] # None, ~Matches(served'[c])
               PROVE  NeedsRenewal(c)
    BY <1>1 DEF BrokenMeansDue, NeedsRenewal, Matches
  <2>1. CASE served'[c] = served[c]
    <3>1. ~(task = "publishing" /\ name = c)
      BY <2>1
    <3> QED
      BY <2>1, <3>1 DEF BrokenMeansDue
  <2> QED
    BY <2>1
<1> QED
  BY <1>2, <1>3, <1>4

LEMMA PassStep ==
  ASSUME SaveInv, TypeOK', ~ReadFaults,
         \/ Start \/ Crash \/ Visit \/ OrderFails \/ SaveFails \/ Publish
         \/ EndPass \/ Wake
  PROVE  SaveInv'
<1> USE DEF SaveInv
<1>1. CASE Start \/ Crash \/ OrderFails \/ SaveFails \/ EndPass \/ Wake
  <2>1. /\ UNCHANGED << store, age >>
        /\ task' \in {"down", "visiting", "sleeping"}
        /\ task # "publishing" \/ served' = [c \in Cert |-> None]
        /\ served' \in {served, [c \in Cert |-> None]}
    BY <1>1 DEF Start, Crash, OrderFails, SaveFails, EndPass, Wake, NextCertificate,
                fileVars, File
  <2>2. task = "publishing" => name \in Cert
    BY DEF TypeOK, File
  <2>3. \A c \in Cert : served'[c] \in {served[c], None}
    BY <2>1
  <2> QED
    BY <2>1, <2>2, <2>3, QuietStep DEF File
<1>2. ASSUME NEW c \in Cert, ServeStored(c) PROVE SaveInv'
  <2>1. /\ UNCHANGED << store, age >>
        /\ task = "visiting" /\ task' = "visiting"
        /\ served' = [served EXCEPT ![c] = [chain |-> store[c]["chain"],
                                           key |-> store[c]["key"]]]
    BY <1>2 DEF ServeStored, fileVars
  <2>2. Load(c) = "fresh" => Matches(served'[c])
    <3>1. served'[c] = [chain |-> store[c]["chain"], key |-> store[c]["key"]]
      BY <2>1 DEF TypeOK
    <3>2. ASSUME Load(c) = "fresh"
          PROVE  /\ store[c]["meta"] \in Gen
                 /\ store[c]["chain"] = store[c]["meta"]
                 /\ store[c]["key"] = store[c]["meta"]
      BY <3>2, LoadFresh DEF FreshMeansComplete, TypeOK, File
    <3> QED
      BY <3>1, <3>2 DEF Matches
  <2>3. served'[c] = None \/ Matches(served'[c]) \/ NeedsRenewal(c)
    BY <2>2 DEF NeedsRenewal
  <2>4. \A d \in Cert \ {c} : served'[d] \in {served[d], None}
    BY <2>1 DEF TypeOK
  <2> QED
    BY <2>1, <2>3, <2>4, QuietStep DEF File
<1>3. ASSUME NEW c \in Cert, LeaveAlone(c) \/ Renew(c) PROVE SaveInv'
  <2>1. /\ UNCHANGED << store, age, served >>
        /\ task = "visiting"
        /\ task' \in {"visiting", "ordering"}
        /\ task' = "ordering" => name' = c /\ Load(c) # "fresh"
    BY <1>3 DEF LeaveAlone, Renew, StillServable, NeedsRenewal, fileVars
  <2>2. \A d \in Cert : served'[d] \in {served[d], None}
    BY <2>1
  <2> QED
    BY <2>1, <2>2, QuietStep DEF File
<1>4. CASE Publish
  <2>1. /\ UNCHANGED << store, age >>
        /\ task' = "visiting"
        /\ name \in Cert /\ gen \in Gen
        /\ served' = [served EXCEPT ![name] = [chain |-> gen, key |-> gen]]
    BY <1>4 DEF Publish, NextCertificate, fileVars, TypeOK, File
  <2>2. Matches(served'[name])
    BY <2>1 DEF TypeOK, Matches
  <2>3. \A d \in Cert \ {name} : served'[d] \in {served[d], None}
    BY <2>1 DEF TypeOK
  <2> QED
    BY <2>1, <2>2, <2>3, QuietStep DEF File
<1> QED
  BY <1>1, <1>2, <1>3, <1>4 DEF Visit

LEMMA ClockStep ==
  ASSUME SaveInv, TypeOK', NEW c \in Cert, GrowOlder(c)
  PROVE  SaveInv'
<1> USE DEF SaveInv
<1>1. UNCHANGED << store, served, task, name, gen >>
  BY DEF GrowOlder, passVars
<1>2. \A d \in Cert : Load(d)' = "fresh" => Load(d) = "fresh"
  <2>1. \A d \in Cert : age'[d] = "fresh" => age[d] = "fresh"
    BY DEF GrowOlder, Older, TypeOK, Age
  <2> QED
    BY <1>1, <2>1, LoadFresh DEF Load, TypeOK, Age, File
<1>3. task \in {"ordering"} \union File => name \in Cert
  BY DEF TypeOK, File
<1>4. Saving' /\ MetaIsLast' /\ FreshMeansComplete' /\ BrokenMeansDue'
  BY <1>1, <1>2, <1>3
  DEF Saving, MetaIsLast, FreshMeansComplete, BrokenMeansDue, NeedsRenewal
<1> QED
  BY <1>4

(***************************************************************************)
(* An order that succeeds, and the writes of its save.                     *)
(***************************************************************************)
LEMMA OrderStep ==
  ASSUME SaveInv, TypeOK', OrderSucceeds
  PROVE  SaveInv'
<1> USE DEF SaveInv
<1>1. /\ UNCHANGED << store, age, served, name >>
      /\ task = "ordering" /\ task' = "chain"
  BY DEF OrderSucceeds
<1>2. \A c \in Cert : Load(c)' = Load(c)
  BY <1>1 DEF Load
<1>3. name \in Cert
  BY <1>1 DEF TypeOK
<1>4. Saving'
  BY <1>1, <1>2, <1>3 DEF Saving
<1>5. MetaIsLast' /\ FreshMeansComplete' /\ BrokenMeansDue'
  BY <1>1, <1>2 DEF MetaIsLast, FreshMeansComplete, BrokenMeansDue, NeedsRenewal
<1> QED
  BY <1>4, <1>5

LEMMA OtherFiles ==
  ASSUME TypeOK, TypeOK', NEW n \in Cert,
         \A c \in Cert \ {n} : store'[c] = store[c] /\ age'[c] = age[c]
  PROVE  \A c \in Cert \ {n} : Load(c)' = Load(c)
BY DEF Load, File

LEMMA TruncateStep ==
  ASSUME SaveInv, TypeOK', Truncate
  PROVE  SaveInv'
<1> USE DEF SaveInv
<1>1. /\ name \in Cert /\ gen \in Gen /\ task \in File
      /\ UNCHANGED << age, served, task, name, gen >>
      /\ store' = [store EXCEPT ![name][task] = Torn]
  BY DEF Truncate, TypeOK, passVars, File
<1>2. /\ \A c \in Cert \ {name} : store'[c] = store[c] /\ age'[c] = age[c]
      /\ store'[name][task] = Torn
      /\ \A f \in File \ {task} : store'[name][f] = store[name][f]
  BY <1>1 DEF TypeOK
<1>3. \A c \in Cert \ {name} : Load(c)' = Load(c)
  BY <1>1, <1>2, OtherFiles
<1>4. Load(name) # "fresh" /\ Load(name)' # "fresh"
  <2>1. Load(name) # "fresh"
    BY <1>1 DEF Saving
  <2> SUFFICES Load(name)' # "fresh"
    BY <2>1
  <2>2. CASE store[name]["meta"] = None \/ task = "meta"
    BY <1>1, <1>2, <2>2 DEF Load, TypeOK, File, Age
  <2>3. CASE store[name]["meta"] # None /\ task # "meta"
    <3>1. \A f \in File : store[name][f] # None
      BY <1>1, <2>3 DEF MetaIsLast, File
    <3>2. store'[name]["meta"] = store[name]["meta"] /\ age'[name] = age[name]
      BY <1>1, <1>2, <2>3 DEF File
    <3> QED
      BY <1>1, <2>1, <3>1, <3>2 DEF Load, TypeOK, File, Age
  <2> QED
    BY <2>2, <2>3
<1>5. Saving'
  BY <1>1, <1>2, <1>4 DEF Saving, File
<1>6. MetaIsLast'
  <2>1. store'[name]["meta"] # None =>
          store'[name]["chain"] # None /\ store'[name]["key"] # None
    BY <1>1, <1>2 DEF MetaIsLast, Saving, File
  <2> QED
    BY <1>2, <2>1 DEF MetaIsLast
<1>7. FreshMeansComplete' /\ BrokenMeansDue'
  BY <1>1, <1>2, <1>3, <1>4 DEF FreshMeansComplete, BrokenMeansDue, NeedsRenewal, File
<1> QED
  BY <1>5, <1>6, <1>7

LEMMA WriteStep ==
  ASSUME SaveInv, TypeOK', Write
  PROVE  SaveInv'
<1> USE DEF SaveInv
<1>1. /\ name \in Cert /\ gen \in Gen /\ task \in File
      /\ UNCHANGED << served, name, gen >>
      /\ store[name][task] = Torn
      /\ store' = [store EXCEPT ![name][task] = gen]
      /\ age' = IF task = "meta" THEN [age EXCEPT ![name] = "fresh"] ELSE age
      /\ task' = After(task)
  BY DEF Write, TypeOK, File
<1>2. /\ \A c \in Cert \ {name} : store'[c] = store[c] /\ age'[c] = age[c]
      /\ store'[name][task] = gen
      /\ \A f \in File \ {task} : store'[name][f] = store[name][f]
  BY <1>1 DEF TypeOK
<1>3. \A c \in Cert \ {name} : Load(c)' = Load(c)
  BY <1>1, <1>2, OtherFiles
<1>4. Load(name) # "fresh"
  BY <1>1 DEF Saving
<1>5. MetaIsLast'
  <2>1. store'[name]["meta"] # None =>
          store'[name]["chain"] # None /\ store'[name]["key"] # None
    BY <1>1, <1>2 DEF MetaIsLast, Saving, File
  <2> QED
    BY <1>2, <2>1 DEF MetaIsLast
<1>6. CASE task = "meta"
  <2>1. task' = "publishing"
    BY <1>1, <1>6 DEF After
  <2>2. \A f \in File : store'[name][f] = gen
    BY <1>1, <1>2, <1>6 DEF Saving, File
  <2>3. Saving'
    BY <1>1, <2>1, <2>2 DEF Saving, File
  <2>4. FreshMeansComplete'
    BY <1>1, <1>2, <1>3, <2>2 DEF FreshMeansComplete, File
  <2>5. BrokenMeansDue'
    BY <1>1, <1>3, <2>1 DEF BrokenMeansDue, NeedsRenewal
  <2> QED
    BY <1>5, <2>3, <2>4, <2>5
<1>7. CASE task # "meta"
  <2>1. task' \in {"key", "meta"} /\ age' = age
    BY <1>1, <1>7 DEF After, File
  <2>2. Load(name)' # "fresh"
    <3>1. store'[name]["meta"] = store[name]["meta"]
      BY <1>2, <1>7 DEF File
    <3>2. CASE store[name]["meta"] = None
      BY <1>1, <3>1, <3>2 DEF Load, TypeOK, File, Age
    <3>3. CASE store[name]["meta"] # None
      <4>1. \A f \in File : store[name][f] # None
        BY <1>1, <3>3 DEF MetaIsLast, File
      <4> QED
        BY <1>1, <1>4, <2>1, <3>1, <4>1 DEF Load, TypeOK, File, Age
    <3> QED
      BY <3>2, <3>3
  <2>3. Saving'
    BY <1>1, <1>2, <1>7, <2>1, <2>2 DEF Saving, After, File
  <2>4. FreshMeansComplete' /\ BrokenMeansDue'
    BY <1>1, <1>2, <1>3, <1>4, <2>2
    DEF FreshMeansComplete, BrokenMeansDue, NeedsRenewal, File
  <2> QED
    BY <1>5, <2>3, <2>4
<1> QED
  BY <1>6, <1>7

LEMMA SaveStep ==
  ASSUME ~ReadFaults
  PROVE  SaveInv /\ TypeOK' /\ [Next]_vars => SaveInv'
<1> SUFFICES ASSUME SaveInv, TypeOK', [Next]_vars PROVE SaveInv'
  OBVIOUS
<1>1. CASE UNCHANGED vars
  BY <1>1 DEF vars, fileVars, passVars, SaveInv, Saving, MetaIsLast,
              FreshMeansComplete, BrokenMeansDue, NeedsRenewal, Load
<1> QED
  BY <1>1, PassStep, ClockStep, OrderStep, TruncateStep, WriteStep DEF Next

\* Every reachable state is well typed (storage.rs, renewal.rs).
THEOREM RenewalTypeCorrect == Spec => []TypeOK
<1>1. Init => TypeOK
  BY SaveInit DEF SaveInv
<1> QED
  BY <1>1, TypeStep, PTL DEF Spec

(***************************************************************************)
(* The invariant: a save goes on over a certificate that is due, its       *)
(* metadata comes last, and both hold through every crash and error        *)
(* (storage.rs:109-136), if a file that is there can be read.              *)
(***************************************************************************)
THEOREM SaveInvHolds ==
  ASSUME ~ReadFaults
  PROVE  Spec => []SaveInv
<1> QED
  BY SaveInit, SaveStep, RenewalTypeCorrect, PTL DEF Spec

\* Metadata that is not due for renewal vouches for the chain and the key,
\* wherever earlier saves crashed or failed (storage.rs:109-136).
THEOREM FreshMetadataVouches ==
  ASSUME ~ReadFaults
  PROVE  Spec => []FreshMeansComplete
<1>1. SaveInv => FreshMeansComplete
  BY DEF SaveInv
<1> QED
  BY <1>1, SaveInvHolds, PTL

\* A served secret that is not a matching pair is one the next pass renews.
THEOREM BrokenSecretsAreDue ==
  ASSUME ~ReadFaults
  PROVE  Spec => []BrokenMeansDue
<1>1. SaveInv => BrokenMeansDue
  BY DEF SaveInv
<1> QED
  BY <1>1, SaveInvHolds, PTL

-----------------------------------------------------------------------------
(***************************************************************************)
(* What becomes of a served secret.  None of this depends on ReadFaults: a *)
(* certificate that could not be read is at worst ordered too early.       *)
(*                                                                         *)
(* A step alone does not show that startup replaces no secret; it has to   *)
(* be known that what is still to be visited has none, and has not been    *)
(* renewed in this pass.                                                   *)
(***************************************************************************)
SavedSoFar ==
  /\ task \in {"key", "meta", "publishing"} => store[name]["chain"] = gen
  /\ task \in {"meta", "publishing"} => store[name]["key"] = gen

NothingServedYet ==
  /\ task = "down" => \A c \in Cert : served[c] = None
  /\ startup => \A c \in todo : served[c] = None
  /\ startup /\ name \in todo => task = "visiting"
  /\ task = "sleeping" => ~startup

ServeInv == TypeOK /\ SavedSoFar /\ NothingServedYet

LEMMA ServeInit == Init => ServeInv
<1>1. Init => TypeOK
  BY DEF Init, TypeOK, File, Age, Task
<1> QED
  BY <1>1 DEF Init, ServeInv, SavedSoFar, NothingServedYet

LEMMA SavedStep == TypeOK /\ SavedSoFar /\ [Next]_vars => SavedSoFar'
<1> SUFFICES ASSUME TypeOK, SavedSoFar, [Next]_vars PROVE SavedSoFar'
  OBVIOUS
<1> USE DEF SavedSoFar, fileVars, passVars
<1>1. CASE Start \/ Crash
  BY <1>1 DEF Start, Crash
<1>2. ASSUME NEW c \in Cert, GrowOlder(c) PROVE SavedSoFar'
  BY <1>2 DEF GrowOlder
<1>3. CASE Visit
  BY <1>3 DEF Visit, ServeStored, LeaveAlone, Renew
<1>4. CASE OrderFails \/ SaveFails \/ Publish
  BY <1>4 DEF OrderFails, SaveFails, Publish, NextCertificate
<1>5. CASE OrderSucceeds
  BY <1>5 DEF OrderSucceeds
<1>6. CASE Truncate \/ Write
  <2>1. name \in Cert /\ task \in File /\ gen \in Gen
    BY <1>6 DEF Truncate, Write, TypeOK, File
  <2>2. CASE Truncate
    BY <2>1, <2>2 DEF Truncate, TypeOK, File
  <2>3. CASE Write
    BY <2>1, <2>3 DEF Write, After, TypeOK, File
  <2> QED BY <1>6, <2>2, <2>3
<1>7. CASE EndPass \/ Wake
  BY <1>7 DEF EndPass, Wake
<1>8. CASE UNCHANGED vars
  BY <1>8 DEF vars
<1> QED
  BY <1>1, <1>2, <1>3, <1>4, <1>5, <1>6, <1>7, <1>8 DEF Next

LEMMA NothingServedStep ==
  TypeOK /\ NothingServedYet /\ [Next]_vars => NothingServedYet'
<1> SUFFICES ASSUME TypeOK, NothingServedYet, [Next]_vars PROVE NothingServedYet'
  OBVIOUS
<1> USE DEF NothingServedYet, fileVars, passVars
<1>1. CASE Start \/ Crash
  BY <1>1 DEF Start, Crash, TypeOK
<1>2. ASSUME NEW c \in Cert, GrowOlder(c) PROVE NothingServedYet'
  BY <1>2 DEF GrowOlder
<1>3. CASE Visit
  BY <1>3 DEF Visit, ServeStored, LeaveAlone, Renew, TypeOK
<1>4. CASE OrderFails \/ SaveFails
  BY <1>4 DEF OrderFails, SaveFails, NextCertificate, TypeOK, File
<1>5. CASE OrderSucceeds
  BY <1>5 DEF OrderSucceeds
<1>6. CASE Truncate \/ Write
  BY <1>6 DEF Truncate, Write, After, TypeOK, File
<1>7. CASE Publish
  <2>1. task' = "visiting" /\ startup' = startup /\ todo' = todo
    BY <1>7 DEF Publish, NextCertificate
  <2>2. startup => name \notin todo
    BY <1>7 DEF Publish
  <2>3. \A c \in Cert : c # name => served'[c] = served[c]
    BY <1>7 DEF Publish, TypeOK
  <2> QED BY <2>1, <2>2, <2>3 DEF TypeOK
<1>8. CASE EndPass
  <2>1. startup' = FALSE
    BY <1>8 DEF EndPass
  <2>2. task' # "down"
    BY <1>8 DEF EndPass
  <2> QED BY <2>1, <2>2
<1>9. CASE Wake
  BY <1>9 DEF Wake, TypeOK
<1>10. CASE UNCHANGED vars
  BY <1>10 DEF vars
<1> QED
  BY <1>1, <1>2, <1>3, <1>4, <1>5, <1>6, <1>7, <1>8, <1>9, <1>10 DEF Next

LEMMA ServeInvHolds == Spec => []ServeInv
BY ServeInit, TypeStep, SavedStep, NothingServedStep, PTL DEF Spec, ServeInv

\* served changes in three steps only.
LEMMA ServedStep ==
  ASSUME [Next]_vars, served' # served
  PROVE  Crash \/ Publish \/ \E c \in Cert : ServeStored(c)
BY DEF Next, vars, fileVars, passVars, Start, GrowOlder, Visit, LeaveAlone, Renew,
       OrderFails, OrderSucceeds, Truncate, Write, SaveFails, EndPass, Wake

\* What is newly given to Envoy is on disk when it is: save_certificate comes
\* before update_secret, and initial_issuance gives what it loaded
\* (renewal.rs:61-97, 163-187).
THEOREM NewSecretsAreStored == Spec => ServedIsStored
<1>1. ServeInv /\ [Next]_vars => [\A c \in Cert : OnDisk(c)]_vars
  <2> SUFFICES ASSUME ServeInv, [Next]_vars, NEW c \in Cert PROVE OnDisk(c)
    OBVIOUS
  <2> USE DEF ServeInv, OnDisk
  <2>1. CASE Crash
    BY <2>1 DEF Crash
  <2>2. CASE Publish
    BY <2>2 DEF Publish, SavedSoFar, TypeOK
  <2>3. ASSUME NEW d \in Cert, ServeStored(d) PROVE OnDisk(c)
    BY <2>3 DEF ServeStored, TypeOK
  <2>4. CASE served' = served
    BY <2>4
  <2> QED BY <2>1, <2>2, <2>3, <2>4, ServedStep
<1> QED
  BY <1>1, ServeInvHolds, PTL DEF Spec, ServedIsStored

\* A running process takes no secret from Envoy and replaces one only by a
\* matching pair, whatever orders and saves fail (renewal.rs:61-97, 110-159).
THEOREM SecretsAreNotSpoiled == Spec => NoSecretIsSpoiled
<1>1. ServeInv /\ [Next]_vars => [\A c \in Cert : KeptOrReplaced(c)]_vars
  <2> SUFFICES ASSUME ServeInv, [Next]_vars, NEW c \in Cert PROVE KeptOrReplaced(c)
    OBVIOUS
  <2> USE DEF ServeInv, KeptOrReplaced
  <2>1. CASE Crash
    BY <2>1 DEF Crash
  <2>2. CASE Publish
    <3>1. gen \in Gen /\ gen # None
      BY <2>2 DEF Publish, TypeOK
    <3>2. CASE c = name
      <4>1. served'[c] = [chain |-> gen, key |-> gen]
        BY <2>2, <3>2 DEF Publish, TypeOK
      <4>2. Matches(served'[c])
        BY <3>1, <4>1 DEF Matches
      <4>3. served'[c] # None
        BY <3>1, <4>1, NoSecretAssumption
      <4> QED BY <4>2, <4>3
    <3>3. CASE c # name
      BY <2>2, <3>3 DEF Publish, TypeOK
    <3> QED BY <3>2, <3>3
  <2>3. ASSUME NEW d \in Cert, ServeStored(d) PROVE KeptOrReplaced(c)
    BY <2>3 DEF ServeStored, NothingServedYet, TypeOK
  <2>4. CASE served' = served
    BY <2>4
  <2> QED BY <2>1, <2>2, <2>3, <2>4, ServedStep
<1> QED
  BY <1>1, ServeInvHolds, PTL DEF Spec, NoSecretIsSpoiled
=============================================================================
