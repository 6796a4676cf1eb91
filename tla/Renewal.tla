-------------------------------- MODULE Renewal --------------------------------
(***************************************************************************)
(* The renewal manager (src/acme/renewal.rs) over the certificate storage  *)
(* (src/acme/storage.rs), with crashes, restarts and failing I/O.          *)
(*                                                                         *)
(* A certificate is three files - chain, private key, metadata - that      *)
(* save_certificate writes one after the other in place, so that a crash   *)
(* or an error leaves any prefix of them written and the next one torn.    *)
(* What one order yields is a generation: a chain, the key that fits it    *)
(* and the metadata that tells its expiry.  Generations are recycled once  *)
(* nothing refers to them, which keeps the model finite without bounding   *)
(* the number of orders, crashes or renewals.                              *)
(*                                                                         *)
(* A crash stands for every end of the process, a graceful shutdown        *)
(* included: main returns while the renewal task may be anywhere.  Crashes *)
(* keep the order of writes; what a power failure may do to it is not      *)
(* modelled.  An order is one step here: ChallengeRouting has its inside.  *)
(***************************************************************************)
EXTENDS Integers, FiniteSets

CONSTANTS
  Cert,         \* configured certificates
  Gen,          \* bound: generations of one certificate referred to at a time
  Domains,      \* the domain lists that the configuration may hold
  None,         \* no file, no secret
  Torn,         \* a file that was truncated and not completely written
  Reliable,     \* certificates that the ACME server and the disk serve in the end
  ReadFaults    \* whether reading a certificate may fail although it is there

ASSUME DistinctAssumption == None \notin Gen \union {Torn} /\ Torn \notin Gen
ASSUME NoSecretAssumption ==
  None \notin [chain : Gen \union {Torn}, key : Gen \union {Torn}]
ASSUME ReliableAssumption == Reliable \subseteq Cert
ASSUME ReadFaultsAssumption == ReadFaults \in BOOLEAN

VARIABLES
  store,        \* the files of each certificate
  age,          \* how long the stored metadata says a certificate is valid
  listed,       \* the domains each generation of a certificate was issued for
  config,       \* the domains the running process was configured with
  served,       \* XdsState::secrets: the chain and the key of each certificate
  task,         \* where the renewal manager is
  startup,      \* whether this is initial_issuance or a pass of the loop
  todo,         \* certificates this pass has yet to visit
  name,         \* the certificate being renewed
  gen           \* the generation being saved

fileVars == << store, age, listed, config >>
passVars == << task, startup, todo, name, gen >>
vars == << fileVars, served, passVars >>

File == {"chain", "key", "meta"}

\* What (not_after - now).num_days() tells apart: at least 30 days, at least
\* one, the last 24 hours, none.  num_days truncates, so the last day counts 0.
Age == {"fresh", "due", "lastDay", "expired"}
Older(a) == CASE a = "fresh"   -> "due"
              [] a = "due"     -> "lastDay"
              [] a = "lastDay" -> "expired"

Task == {"down", "visiting", "ordering", "publishing", "sleeping"} \union File

InUse(c, g) ==
  \/ \E f \in File : store[c][f] = g
  \/ served[c] # None /\ g \in {served[c].chain, served[c].key}

Init ==
  /\ store = [c \in Cert |-> [f \in File |-> None]]
  /\ age = [c \in Cert |-> "fresh"]
  /\ listed \in {[c \in Cert |-> [g \in Gen |-> d]] : d \in Domains}
  /\ config \in Domains
  /\ served = [c \in Cert |-> None]
  /\ task = "down"
  /\ startup = TRUE
  /\ todo = {}
  /\ name = None
  /\ gen = None

-----------------------------------------------------------------------------
(* load_certificate and the decisions taken on it.                         *)

\* None, an error (metadata that does not parse), or the age it reports.
Load(c) ==
  IF \E f \in File : store[c][f] = None THEN "none"
  ELSE IF store[c]["meta"] = Torn THEN "error"
  ELSE age[c]

StillServable(c) == Load(c) \in {"fresh", "due"}        \* days_until_expiry > 0

\* Mutant: the loop renews what is stored only.
NeedsRenewalIfStored(c) == Load(c) \notin {"none", "fresh"}

NeedsRenewal(c) == Load(c) # "fresh"                    \* None, Err, or < 30

-----------------------------------------------------------------------------
(* The process and the clock.                                              *)

\* run(): an empty XdsState, and a configuration that may have been edited.
Start ==
  /\ task = "down"
  /\ task' = "visiting"
  /\ startup' = TRUE
  /\ todo' = Cert
  /\ config' \in Domains
  /\ UNCHANGED << store, age, listed, served, name, gen >>

Crash ==
  /\ task # "down"
  /\ task' = "down"
  /\ served' = [c \in Cert |-> None]
  /\ startup' = TRUE
  /\ todo' = {}
  /\ name' = None
  /\ gen' = None
  /\ UNCHANGED fileVars

GrowOlder(c) ==
  /\ store[c]["meta"] \in Gen
  /\ age[c] # "expired"
  /\ age' = [age EXCEPT ![c] = Older(@)]
  /\ UNCHANGED << store, listed, config, served, passVars >>

-----------------------------------------------------------------------------
(* A pass over the certificates: initial_issuance, check_and_renew.        *)

\* Mutant: every pass publishes what is stored.
ServeStoredAnyPass(c) ==
  /\ task = "visiting"
  /\ c \in todo
  /\ StillServable(c)
  /\ served' = [served EXCEPT ![c] = [chain |-> store[c]["chain"], key |-> store[c]["key"]]]
  /\ todo' = todo \ {c}
  /\ UNCHANGED << fileVars, task, startup, name, gen >>

\* initial_issuance publishes what is stored.
ServeStored(c) ==
  /\ task = "visiting"
  /\ startup
  /\ c \in todo
  /\ StillServable(c)
  /\ served' = [served EXCEPT ![c] = [chain |-> store[c]["chain"], key |-> store[c]["key"]]]
  /\ todo' = todo \ {c}
  /\ UNCHANGED << fileVars, task, startup, name, gen >>

\* check_and_renew leaves a certificate alone.
LeaveAlone(c) ==
  /\ task = "visiting"
  /\ ~startup
  /\ c \in todo
  /\ ~NeedsRenewal(c)
  /\ todo' = todo \ {c}
  /\ UNCHANGED << fileVars, served, task, startup, name, gen >>

\* renew_certificate is called.
Renew(c) ==
  /\ task = "visiting"
  /\ c \in todo
  /\ \/ startup /\ ~StillServable(c)
     \/ ~startup /\ NeedsRenewal(c)
     \/ ReadFaults /\ Load(c) # "none"           \* or exists() is false
  /\ task' = "ordering"
  /\ todo' = todo \ {c}
  /\ name' = c
  /\ UNCHANGED << fileVars, served, startup, gen >>

\* Mutant: what a failed save was about is kept.
NextCertificateKeepingGen ==
  /\ task' = "visiting"
  /\ name' = None
  /\ UNCHANGED << startup, todo, gen >>

\* Mutant: an error ends the pass.
NextCertificateUnlessError ==
  /\ task' = "visiting"
  /\ name' = None
  /\ gen' = None
  /\ todo' = IF task = "publishing" THEN todo ELSE {}
  /\ UNCHANGED startup

\* Back in the pass, after a certificate was renewed or its error was logged.
NextCertificate ==
  /\ task' = "visiting"
  /\ name' = None
  /\ gen' = None
  /\ UNCHANGED << startup, todo >>

\* CertificateOrder::order or parse_certificate_expiry fails.
OrderFails ==
  /\ task = "ordering"
  /\ NextCertificate
  /\ UNCHANGED << fileVars, served >>

OrderSucceeds ==
  /\ task = "ordering"
  /\ \E g \in Gen : ~InUse(name, g)
  /\ gen' = CHOOSE g \in Gen : ~InUse(name, g)     \* which one is immaterial
  /\ listed' = [listed EXCEPT ![name][gen'] = config]
  /\ task' = "chain"
  /\ UNCHANGED << store, age, config, served, startup, todo, name >>

\* save_certificate: fs::write truncates a file before it writes it.
Truncate ==
  /\ task \in File
  /\ store[name][task] # Torn
  /\ store' = [store EXCEPT ![name][task] = Torn]
  /\ UNCHANGED << age, listed, config, served, passVars >>

\* Mutant: the metadata is written before the key.
AfterMetaFirst(f) ==
  CASE f = "chain" -> "meta" [] f = "meta" -> "key" [] f = "key" -> "publishing"

After(f) == CASE f = "chain" -> "key" [] f = "key" -> "meta" [] f = "meta" -> "publishing"

\* Mutant: the metadata keeps the expiry of the certificate before.
WriteOldExpiry ==
  /\ task \in File
  /\ store[name][task] = Torn
  /\ store' = [store EXCEPT ![name][task] = gen]
  /\ task' = After(task)
  /\ UNCHANGED << age, listed, config, served, startup, todo, name, gen >>

Write ==
  /\ task \in File
  /\ store[name][task] = Torn
  /\ store' = [store EXCEPT ![name][task] = gen]
  /\ age' = IF task = "meta" THEN [age EXCEPT ![name] = "fresh"] ELSE age
  /\ task' = After(task)
  /\ UNCHANGED << listed, config, served, startup, todo, name, gen >>

\* Mutant: a failed save does not keep the certificate from being published.
SaveErrorIgnored ==
  /\ task \in File
  /\ task' = "publishing"
  /\ UNCHANGED << fileVars, served, startup, todo, name, gen >>

\* Any call of save_certificate fails, before or after the truncation.
SaveFails ==
  /\ task \in File
  /\ NextCertificate
  /\ UNCHANGED << fileVars, served >>

\* Mutant: what was saved is not published.
PublishForgotten ==
  /\ task = "publishing"
  /\ NextCertificate
  /\ UNCHANGED << fileVars, served >>

\* update_secret.
Publish ==
  /\ task = "publishing"
  /\ served' = [served EXCEPT ![name] = [chain |-> gen, key |-> gen]]
  /\ NextCertificate
  /\ UNCHANGED fileVars

\* The pass is over.  initial_issuance is followed by the loop of run() at
\* once, a pass of that loop by an hour of sleep.
EndPass ==
  /\ task = "visiting"
  /\ todo = {}
  /\ startup' = FALSE
  /\ IF startup THEN task' = "visiting" /\ todo' = Cert
                ELSE task' = "sleeping" /\ todo' = {}
  /\ UNCHANGED << fileVars, served, name, gen >>

Wake ==
  /\ task = "sleeping"
  /\ task' = "visiting"
  /\ todo' = Cert
  /\ UNCHANGED << fileVars, served, startup, name, gen >>

-----------------------------------------------------------------------------
Visit == \E c \in Cert : ServeStored(c) \/ LeaveAlone(c) \/ Renew(c)

Next ==
  \/ Start \/ Crash \/ \E c \in Cert : GrowOlder(c)
  \/ Visit \/ OrderFails \/ OrderSucceeds
  \/ Truncate \/ Write \/ SaveFails \/ Publish \/ EndPass \/ Wake

(***************************************************************************)
(* The runtime runs the task whenever it can move, and the timer fires.    *)
(* Orders end one way or the other, and so do writes; for the reliable     *)
(* certificates they succeed again and again.  Nobody has to crash,        *)
(* restart, or let time pass.                                              *)
(***************************************************************************)
Fairness ==
  /\ WF_vars(Visit \/ EndPass \/ Wake \/ Truncate \/ Publish)
  /\ WF_vars(OrderFails \/ OrderSucceeds)
  /\ WF_vars(SaveFails \/ Write)
  /\ \A c \in Reliable :
       /\ SF_vars(name = c /\ OrderSucceeds)
       /\ \A f \in File : SF_vars(name = c /\ task = f /\ (Truncate \/ Write))

Spec == Init /\ [][Next]_vars /\ Fairness

-----------------------------------------------------------------------------
Secret == [chain : Gen \union {Torn}, key : Gen \union {Torn}]

(* Files, secrets and the task are what the code can make them.            *)
TypeOK ==
  /\ store \in [Cert -> [File -> Gen \union {None, Torn}]]
  /\ age \in [Cert -> Age]
  /\ listed \in [Cert -> [Gen -> Domains]]
  /\ config \in Domains
  /\ served \in [Cert -> Secret \union {None}]
  /\ task \in Task
  /\ startup \in BOOLEAN
  /\ todo \subseteq Cert
  /\ IF task \in {"down", "visiting", "sleeping"} THEN name = None ELSE name \in Cert
  /\ IF task \in File \union {"publishing"} THEN gen \in Gen ELSE gen = None

Matches(secret) == secret.chain = secret.key /\ secret.chain \in Gen

(***************************************************************************)
(* The metadata is the commit record: while it says that a certificate is  *)
(* not due, the chain and the key are complete and of one generation, no   *)
(* matter where earlier saves crashed or failed.  This is what makes it    *)
(* sound that check_certificate looks at nothing else (storage.rs:109-136, *)
(* renewal.rs:101-122).                                                    *)
(***************************************************************************)
FreshMeansComplete ==
  \A c \in Cert :
    Load(c) = "fresh" => \A f \in File : store[c][f] = store[c]["meta"]

(***************************************************************************)
(* A secret that is not a matching pair never lasts unnoticed: whenever    *)
(* one is served, the stored certificate is one the next pass renews, or   *)
(* its replacement is about to be published.                               *)
(***************************************************************************)
BrokenMeansDue ==
  \A c \in Cert :
    served[c] # None /\ ~Matches(served[c])
      => NeedsRenewal(c) \/ (task = "publishing" /\ name = c)

(***************************************************************************)
(* What the manager newly gives to Envoy is on disk at that time, so that  *)
(* a restart comes back with it (save_certificate before update_secret).   *)
(***************************************************************************)
OnDisk(c) ==
  served'[c] \in {served[c], None}
    \/ served'[c] = [chain |-> store[c]["chain"], key |-> store[c]["key"]]

ServedIsStored == [][\A c \in Cert : OnDisk(c)]_vars

(***************************************************************************)
(* A running process never takes a secret from Envoy, and replaces it only *)
(* by a matching pair: failed orders and failed saves leave it alone.      *)
(***************************************************************************)
KeptOrReplaced(c) ==
  served[c] # None /\ served'[c] # served[c] /\ task' # "down"
    => served'[c] # None /\ Matches(served'[c])

NoSecretIsSpoiled == [][\A c \in Cert : KeptOrReplaced(c)]_vars

(***************************************************************************)
(* A certificate that can be issued is served in the end, through its own  *)
(* failed orders and saves, and a broken pair that a restart loaded from   *)
(* disk is replaced, as long as a file that is there can be read           *)
(* (renewal.rs:66-97, 167-202).                                            *)
(***************************************************************************)
WellServed(c) == served[c] # None /\ Matches(served[c])

ComesToBeServed ==
  \A c \in Reliable :
    task # "down" /\ ~WellServed(c) ~> task = "down" \/ WellServed(c)

(***************************************************************************)
(* Whatever becomes of the others, a certificate that is due is ordered:   *)
(* neither at startup nor in the loop does an error in one certificate -   *)
(* of its order, its save or the reading of its files - keep the pass from *)
(* the next (renewal.rs:73-94, 192-198).                                   *)
(***************************************************************************)
DueIsOrdered ==
  \A c \in Cert :
    task # "down" /\ NeedsRenewal(c) ~> task = "down" \/ name = c \/ ~NeedsRenewal(c)

(***************************************************************************)
(* Orders come to rest: unless time passes or the process is restarted     *)
(* again and again, a certificate that can be issued is not ordered again  *)
(* and again; what a save leaves behind, whole or torn, is not due for     *)
(* ever (renewal.rs:66-97, 112-121).                                       *)
(***************************************************************************)
OrdersComeToRest ==
  \A c \in Reliable :
    []<><<GrowOlder(c)>>_vars \/ []<>(task = "down") \/ <>[](name # c)

(***************************************************************************)
(* Stated by comments, and not so.                                         *)
(***************************************************************************)

\* renewal.rs:171: what initial issuance loads exists and is valid.
LoadedIsValid == \A c \in Cert : served[c] # None => Matches(served[c])

\* renewal.rs:190: initial issuance orders what does not exist or is expired.
StartupOrdersAreNeeded ==
  [][\A c \in Cert :
       startup /\ task = "visiting" /\ task' = "ordering" /\ name' = c
         => Load(c) \in {"none", "error", "expired"}]_vars

\* types.rs:56: the configured domains are on the certificate.
ServedHasConfiguredDomains ==
  \A c \in Cert :
    served[c] # None /\ Matches(served[c]) => listed[c][served[c].chain] = config
=============================================================================
