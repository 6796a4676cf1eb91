-------------------------------- MODULE Startup --------------------------------
(***************************************************************************)
(* How a process gets from its configuration file to the parsed workload:  *)
(* load_config, CertificateStorage::init, AcmeAccount::load_or_create and  *)
(* the parsing of listeners and clusters (src/main.rs:41-47, 72-92,        *)
(* acme/account.rs, the account file of acme/storage.rs).  Lifecycle has   *)
(* what follows.                                                           *)
(*                                                                         *)
(* One process runs at a time; it may crash anywhere, and is started again *)
(* and again.  While it is down the operator may point the configuration   *)
(* to another ACME directory or remove the account file.  An account is    *)
(* its key and the directory it was created at.  The ACME server comes up  *)
(* at some time after the start, and time passes in the retries' sleeps.   *)
(***************************************************************************)
EXTENDS ConfigLoad

CONSTANTS
  Key,          \* account keys
  Directory,    \* ACME directory URLs
  Configs,      \* the configurations considered
  Outages       \* from a start until the ACME server answers, in seconds

ASSUME OutagesAssumption == Outages \subseteq Nat /\ 0 \in Outages
ASSUME ConfigsAssumption == Configs \subseteq Configuration(Directory)

MaxRetries == 5
Delay == << 1, 2, 4, 8, 16 >>   \* 2 ^ (attempt - 1) seconds; the last is never slept

Account == [key : Key, directory : Directory]
NoAccount == [key |-> "none"]
None == [file |-> "none"]
Torn == [file |-> "torn"]

VARIABLES
  config,       \* the configuration file
  place,        \* where main() is
  file,         \* account.json: None, Torn, or an account
  account,      \* the account in memory
  attempt,      \* load_or_create: the loop counter, ...
  waited,       \* ... and the seconds it has slept
  outage,       \* how long the ACME server does not answer
  verdict,      \* how the last start ended, if it did by itself
  faulty,       \* history: a call failed in this start that could have worked
  unseen,       \* history: and load_account took the account file for missing
  mishap,       \* history: that, or a crash, since there was no account file
  created       \* history: accounts created since then, none, one or "many"

historyVars == << faulty, unseen, mishap, created >>
timeVars == << attempt, waited, outage >>
vars == << config, place, file, account, timeVars, verdict, historyVars >>

Place == {"down", "judging", "loading", "creating", "saving", "writing",
          "sleeping", "parsing", "up"}
Verdict == {"none", "rejected", "no storage", "no account", "no workload"}

Init ==
  /\ config \in Configs
  /\ place = "down"
  /\ file = None
  /\ account = NoAccount
  /\ attempt = 0 /\ waited = 0 /\ outage = 0
  /\ verdict = "none"
  /\ faulty = FALSE /\ unseen = FALSE /\ mishap = FALSE /\ created = 0

-----------------------------------------------------------------------------
(* What happens around the process.                                        *)

EditDirectory(d) ==
  /\ place = "down"
  /\ config' = [config EXCEPT !.directory = d]
  /\ UNCHANGED << place, file, account, timeVars, verdict, historyVars >>

RemoveAccount ==
  /\ place = "down"
  /\ file' = None
  /\ mishap' = FALSE /\ created' = 0
  /\ UNCHANGED << config, place, account, timeVars, verdict, faulty, unseen >>

Start ==
  /\ place = "down"
  /\ place' = "judging"
  /\ outage' \in Outages
  /\ verdict' = "none"
  /\ faulty' = FALSE /\ unseen' = FALSE
  /\ UNCHANGED << config, file, account, attempt, waited, mishap, created >>

\* The process is gone, with all that is in memory.
Halt(how) ==
  /\ place' = "down"
  /\ account' = NoAccount
  /\ attempt' = 0 /\ waited' = 0 /\ outage' = 0
  /\ verdict' = how

\* A crash, or the end of a process that is up.
Crash ==
  /\ place # "down"
  /\ Halt("none")
  /\ mishap' = (mishap \/ place # "up")
  /\ UNCHANGED << config, file, faulty, unseen, created >>

-----------------------------------------------------------------------------
(* load_config and CertificateStorage::init.                               *)

Reject ==
  /\ place = "judging"
  /\ ~ValidateConfig(config)
  /\ Halt("rejected")
  /\ UNCHANGED << config, file, historyVars >>

Accept ==
  /\ place = "judging"
  /\ ValidateConfig(config)
  /\ place' = "loading"
  /\ attempt' = 1
  /\ UNCHANGED << config, file, account, waited, outage, verdict, historyVars >>

InitStorageFails ==
  /\ place = "judging"
  /\ ValidateConfig(config)
  /\ Halt("no storage")
  /\ faulty' = TRUE
  /\ UNCHANGED << config, file, unseen, mishap, created >>

-----------------------------------------------------------------------------
(* try_load_or_create.                                                     *)

Answering == waited >= outage

Blame(fault) == faulty' = (faulty \/ fault) /\ mishap' = (mishap \/ fault)

\* Mutant: one attempt too many.
RetryOnceMore ==
  IF attempt <= MaxRetries
    THEN place' = "sleeping" /\ account' = NoAccount /\ UNCHANGED << timeVars, verdict >>
    ELSE Halt("no account")

\* The attempt fails: a sleep and another one, or the end.
AttemptFails ==
  IF attempt < MaxRetries
    THEN place' = "sleeping" /\ account' = NoAccount /\ UNCHANGED << timeVars, verdict >>
    ELSE Halt("no account")

\* Mutant: the account file is looked for where it never is.
LoadNothing ==
  /\ place = "loading"
  /\ place' = "creating"
  /\ UNCHANGED << config, file, account, timeVars, verdict, historyVars >>

\* load_account finds no file.  path.exists() says so too if the file cannot
\* be looked at, whatever is in it.
LoadNone ==
  /\ place = "loading"
  /\ place' = "creating"
  /\ unseen' = (unseen \/ file # None)
  /\ Blame(file # None)
  /\ UNCHANGED << config, file, account, timeVars, verdict, created >>

\* load_account, and from_credentials, which asks the directory that the
\* account was created at.
Restore ==
  /\ place = "loading"
  /\ file \in Account
  /\ Answering
  /\ account' = file
  /\ place' = "parsing"
  /\ UNCHANGED << config, file, timeVars, verdict, historyVars >>

\* Mutant: an account that cannot be restored is replaced.
ReplaceUnrestored ==
  /\ place = "loading"
  /\ file # None
  /\ place' = "creating"
  /\ Blame(file # Torn /\ Answering)
  /\ UNCHANGED << config, file, account, timeVars, verdict, unseen, created >>

\* A torn file does not parse; reading, or from_credentials, may fail.
RestoreFails ==
  /\ place = "loading"
  /\ file # None
  /\ AttemptFails
  /\ Blame(file # Torn /\ Answering)
  /\ UNCHANGED << config, file, unseen, created >>

Count(n) == IF n = 0 THEN 1 ELSE 2

Create(k) ==
  /\ place = "creating"
  /\ Answering
  /\ account' = [key |-> k, directory |-> config.directory]
  /\ created' = Count(created)
  /\ place' = "saving"
  /\ UNCHANGED << config, file, timeVars, verdict, faulty, unseen, mishap >>

\* The server may have created the account all the same.
CreateFails ==
  /\ place = "creating"
  /\ AttemptFails
  /\ Blame(Answering)
  /\ created' \in {created} \union (IF Answering THEN {Count(created)} ELSE {})
  /\ UNCHANGED << config, file, unseen >>

\* save_account: fs::write truncates and writes.
Truncate ==
  /\ place = "saving"
  /\ file' = Torn
  /\ place' = "writing"
  /\ UNCHANGED << config, account, timeVars, verdict, historyVars >>

Write ==
  /\ place = "writing"
  /\ file' = account
  /\ place' = "parsing"
  /\ UNCHANGED << config, account, timeVars, verdict, historyVars >>

\* Mutant: a failing save is only logged.
GoOnUnsaved ==
  /\ place \in {"saving", "writing"}
  /\ place' = "parsing"
  /\ Blame(TRUE)
  /\ UNCHANGED << config, file, account, timeVars, verdict, unseen, created >>

\* Before or after the file is truncated.
SaveFails ==
  /\ place \in {"saving", "writing"}
  /\ AttemptFails
  /\ Blame(TRUE)
  /\ UNCHANGED << config, file, unseen, created >>

\* Mutant: the delay does not grow.
WakeSoon ==
  /\ place = "sleeping"
  /\ waited' = waited + 1
  /\ attempt' = attempt + 1
  /\ place' = "loading"
  /\ UNCHANGED << config, file, account, outage, verdict, historyVars >>

Wake ==
  /\ place = "sleeping"
  /\ waited' = waited + Delay[attempt]
  /\ attempt' = attempt + 1
  /\ place' = "loading"
  /\ UNCHANGED << config, file, account, outage, verdict, historyVars >>

-----------------------------------------------------------------------------
(* parse_listeners and parse_clusters, with the account already there.     *)

ParseWorkload ==
  /\ place = "parsing"
  /\ WorkloadParses(config)
  /\ place' = "up"
  /\ UNCHANGED << config, file, account, timeVars, verdict, historyVars >>

ParseFails ==
  /\ place = "parsing"
  /\ ~WorkloadParses(config) \/ ~WorkloadIsPlain(config)
  /\ Halt("no workload")
  /\ UNCHANGED << config, file, historyVars >>

-----------------------------------------------------------------------------
SetUp ==
  \/ Reject \/ Accept \/ InitStorageFails
  \/ LoadNone \/ Restore \/ RestoreFails
  \/ (\E k \in Key : Create(k)) \/ CreateFails
  \/ Truncate \/ Write \/ SaveFails \/ Wake
  \/ ParseWorkload \/ ParseFails

Next ==
  \/ SetUp \/ Start \/ Crash \/ RemoveAccount
  \/ \E d \in Directory : EditDirectory(d)

Spec == Init /\ [][Next]_vars

-----------------------------------------------------------------------------
(* Every variable is what the code can make it.                            *)
TypeOK ==
  /\ place \in Place
  /\ file \in Account \union {None, Torn}
  /\ account \in Account \union {NoAccount}
  /\ attempt \in 0 .. MaxRetries
  /\ waited \in Nat
  /\ outage \in Outages
  /\ verdict \in Verdict
  /\ faulty \in BOOLEAN /\ unseen \in BOOLEAN /\ mishap \in BOOLEAN
  /\ created \in 0 .. 2

(***************************************************************************)
(* A configuration is taken exactly if it is usable, by a definition that  *)
(* does not sort: no two certificates share a name, and with it their      *)
(* directory and secret, and each has a first domain, which generate_csr   *)
(* indexes without a check (config/loader.rs:45-56, acme/order.rs:322).    *)
(***************************************************************************)
IsUsable(c) ==
  /\ Len(c.certificates) > 0
  /\ IsInjective(NamesOf(c.certificates))
  /\ \A cert \in ToSet(c.certificates) :
       cert.name # Empty /\ Len(cert.domains) > 0 /\ \A i \in DOMAIN cert.domains : cert.domains[i] # Empty
  /\ c.socket \in {"none", "given"} /\ c.storage = "given"

ConfigsAreJudged ==
  /\ verdict = "rejected" => ~IsUsable(config)
  /\ place \notin {"down", "judging"} => IsUsable(config)

(***************************************************************************)
(* The account in use is the stored one, after however many failed         *)
(* attempts, lost answers and saves cut short (account.rs:22-71): a        *)
(* restart goes on with the account that the running process orders with.  *)
(***************************************************************************)
UsedIsStored == place \in {"parsing", "up"} => account \in Account /\ file = account

(***************************************************************************)
(* An ACME server that comes up within the 1 + 2 + 4 + 8 seconds of the    *)
(* retries is waited for (account.rs:14, 26), if nothing else fails and    *)
(* the account file is not torn.                                           *)
(***************************************************************************)
Patience == 15

OutageIsRiddenOut ==
  [][verdict' = "no account" /\ verdict = "none" =>
       faulty' \/ file = Torn \/ outage > Patience]_vars

(***************************************************************************)
(* Restarts, retries and outages register one account per storage          *)
(* directory, unless a call fails that could have worked or the process is *)
(* killed while it starts (account.rs:48-68).                              *)
(***************************************************************************)
OneAccountPerStorage == created > 1 => mishap

(***************************************************************************)
(* No outage, failed call, retry or crash has the program overwrite a      *)
(* whole account file, with one exception: in a start in which exists()    *)
(* was false for a file that is there, a new account replaces it           *)
(* (account.rs:48-68, storage.rs:70, 81).  Else only the operator removes  *)
(* it.                                                                     *)
(***************************************************************************)
AccountIsKept ==
  [][(file \in Account) => file' = file \/ (place = "down" /\ file' = None) \/ unseen]_vars

(***************************************************************************)
(* A workload that is taken has its network filters, the HTTP filters in   *)
(* them and its TLS contexts converted: each that was expanded is binary,  *)
(* of the same type, at the same place, and of a type that the program     *)
(* encodes; the others are as they were (deserialize.rs:61-255).  A        *)
(* workload with a filter of another type is not taken.  It says nothing   *)
(* of the typed configs elsewhere in a listener (see OnlyBinaryIsServed).  *)
(***************************************************************************)
IsServed(t, u, types) ==
  /\ t.type = u.type
  /\ t.form = IF u.form = "expanded" THEN "binary" ELSE u.form
  /\ u.form = "expanded" => u.type \in types

FilterIsServed(t, u) ==
  /\ IsServed(t, u, {"hcm", "tcp_proxy"})
  /\ DOMAIN t.inner = DOMAIN u.inner
  /\ u.form = "expanded" => \A i \in DOMAIN t.inner : IsServed(t.inner[i], u.inner[i], {"router"})

ChainIsServed(is, was) ==
  /\ DOMAIN is.filters = DOMAIN was.filters
  /\ \A k \in DOMAIN is.filters : FilterIsServed(is.filters[k], was.filters[k])
  /\ was.socket.type = "tls" => IsServed(is.socket, was.socket, {"tls"})

Served == ConvertListeners(config.listeners)

ServedIsConverted ==
  place = "up" =>
    /\ DOMAIN Served = DOMAIN config.listeners
    /\ \A i \in DOMAIN Served :
         /\ DOMAIN Served[i].chains = DOMAIN config.listeners[i].chains
         /\ \A j \in DOMAIN Served[i].chains :
              ChainIsServed(Served[i].chains[j], config.listeners[i].chains[j])

(***************************************************************************)
(* Stated by comments and documentation, and not so.                       *)
(***************************************************************************)

\* account.rs:13, 48: an existing account is loaded, one is created otherwise.
\* Not so if exists() fails: the account is lost, though its file is whole.
AccountIsNeverReplaced ==
  [][(file \in Account) => file' = file \/ (place = "down" /\ file' = None)]_vars

\* example-config.yaml:16: with the directory URL uncommented it is the one of
\* production; the account in use is one of the configured directory.
ConfiguredDirectoryIsUsed == place = "up" => account.directory = config.directory

\* account.rs:13: load an existing account or create a new one, with retries.
\* Not so if account.json is torn.
LoadsOrCreates ==
  [][verdict' = "no account" /\ verdict = "none" => faulty' \/ outage > Patience]_vars

\* deserialize.rs:3-5: the expanded form of Any messages is converted to the
\* binary form.  Not in listener filters, access logs, the default filter
\* chain and sockets that are not TLS: there it is what pbjson makes of it.
OnlyBinaryIsServed == place = "up" => WorkloadIsPlain(config)

\* README.md:76: the format of listeners is Envoy's; what is set is served.
FieldsSurvive ==
  place = "up" =>
    \A i \in DOMAIN Served : \A j \in DOMAIN Served[i].chains :
      LET was == config.listeners[i].chains[j]
          is  == Served[i].chains[j]
      IN  /\ is.socket.fields = was.socket.fields
          /\ \A k \in DOMAIN is.filters :
               /\ is.filters[k].fields = was.filters[k].fields
               /\ \A n \in DOMAIN is.filters[k].inner :
                    is.filters[k].inner[n].fields = was.filters[k].inner[n].fields
=============================================================================
