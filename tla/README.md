# envoy-acme-xds in TLA+

`envoy-acme-xds` is a small xDS control plane for Envoy. It serves listeners, clusters and
TLS secrets over Unix sockets, obtains and renews the certificates behind those secrets from
an ACME server, and routes the HTTP-01 challenges of an order through the very listeners it
serves. This directory holds TLA+ models of it, TLC configurations that check them on small
instances, and proofs for the TLA+ proof system. Line numbers are those of the repository at
the modelled commit; `main.rs`, `xds/...`, `acme/...` are under the repository's `src/`.

Contents: [the system](#the-system), [modules](#modules), [runs](#runs),
[fairness](#fairness), [what the checks show](#what-the-checks-show),
[findings](#findings), [proofs](#proofs), [not modelled](#what-is-not-modelled),
[plan](#plan).

## The system

### Components

| Component | State | Operations | Correct if |
|---|---|---|---|
| `XdsState` (`xds/state.rs`) | version, listeners, clusters, secrets, broadcast sender, LDS flag and `Notify` | `update_*` = store, then `bump_version`; `notify_change`; `subscribe`; `mark_lds_connected` / `wait_for_lds` | a version covers what it is said to cover, no subscriber misses an update, no wake-up is lost |
| LDS, CDS, SDS (`xds/{lds,cds,sds}.rs`) | per stream: a receiver and the place in the handler | open, respond, receive, lag, fetch; delta is unimplemented | clients see acknowledged updates, in order, or their stream ends |
| listener merge (`xds/merge.rs`) | none | `merge_listeners` | challenges are answered first, the workload's routes survive |
| listener updater (`main.rs:111-133`) | a receiver, the rebuilt listeners | receive, merge, compare, update | routes follow the challenges, and the loop it is part of ends |
| challenges (`acme/challenge.rs`) | token -> challenge and certificate | add, get_all, clear_for_cert | an order leaves none of its own behind |
| order (`acme/order.rs`) | copies of the ACME order and its authorizations, the URLs to complete | authorizations, announce, delay, signal, poll, clean up, finalize, poll, fetch | challenges are served before and while they are validated; decisions made from copies are right; every order ends |
| renewal manager (`acme/renewal.rs`) | where it is in its pass | `initial_issuance`, then an hourly `check_and_renew` | each certificate that can be issued comes to be served and stays so |
| storage (`acme/storage.rs`) | three files per certificate, `account.json` | load, save | a load never vouches for files of a save that did not end |
| account (`acme/account.rs`) | `account.json` | load or create, 5 attempts | the account in use is the stored one; one account per storage directory; short outages are ridden out |
| life cycle and server (`main.rs`, `xds/server.rs`, `systemd.rs`) | the tasks, the sockets, the socket file | set up, bind, serve, wait for LDS, issue, drain, join | it starts in order and ends when told to |
| configuration (`config/*`) | none | parse, validate, YAML to protobuf | what is accepted is usable; filters, the HTTP filters in them and TLS contexts are served converted |
| Envoy builders, errors (`envoy/*`, `error.rs`) | none | constructors | - |

### Interaction

* The order calls `on_challenges_ready` = `notify_change`; every update sends on the same
  broadcast channel of 16 values. Every stream and the updater hold a receiver. Nobody looks
  at the values; the loops are all `while rx.recv().await.is_ok()`, so that `Lagged` ends them.
* The updater reads the challenges, rebuilds the listeners, and by storing them notifies the
  streams - and itself.
* Envoy keeps its listeners between streams. Nothing reports back to the order: it waits two
  seconds and then tells the ACME server to validate.
* `run()` loads and validates the configuration, prepares the storage directory, gets hold of
  the account and only then parses the workload and serves.
* `run()` waits for the first LDS stream before it orders anything. The server is a task that
  ends on a signal after draining; the renewal loop and the updater are never joined.

### What is hard

Reads and writes of related data under different locks; a bounded broadcast channel whose overflow
ends loops; a feedback loop through that channel; error paths that skip a cleanup; saves that are
cut short by crashes, failures, and by `main` returning; copies of what the ACME server knows,
looked at some time later; retries with delays that decide which outage is survived; two tasks of
which one waits for what the other can no longer bring about; instances that share a socket file.
Each is listed with its line in `PROJECT.json` under `hazards`, with the properties aimed at it.

## Modules

| Module | Models | Kind |
|---|---|---|
| `Broadcast` | tokio's broadcast channel as used here: per receiver, how far it is behind | operators |
| `DiscoveryFeed` | what an xDS stream promises: contents, acknowledgements, views, no versions | abstract specification |
| `XdsState` | `XdsState` and the streams of the three services | detailed, implements `DiscoveryFeed` |
| `ChallengeRouting` | order, challenges, updater, LDS stream and Envoy together | composition |
| `CertificateOrder` | `order()` and `wait_for_order_ready` call by call, against the ACME server | component, implements the issuer of `ChallengeRouting` |
| `Renewal` | renewal manager and certificate storage, with crashes | component |
| `ConfigLoad` | `validate_config` and the conversion of typed configs | operators |
| `Startup` | from the configuration file to the parsed workload: validation, storage, account, conversion | component, uses `ConfigLoad` |
| `Lifecycle` | `run()`, the server task, signals, instances at one socket | component |
| `ListenerMerge` | `merge_listeners` on ports, filters, virtual hosts, routes | pure algorithm in a small state machine |
| `MCXdsState`, `MCListenerMerge`, `MCStartup` | values of the constants for TLC; the small workloads and configurations | |
| `XdsState_proofs`, `ChallengeRouting_proofs`, `Renewal_proofs`, `CertificateOrder_proofs`, `Startup_proofs`, `Lifecycle_proofs`, `ListenerMerge_proofs` | theorems and proofs about the module of that name | |
| `SequenceFacts` | least numbers and first matches in sequences, for the proofs about pure algorithms | lemmas |

Definitions whose comment starts with *Mutant* are plausible bugs. No specification uses them:
each shows, put in the place of the definition that follows it, that some property notices.

### XdsState

Contents are identified by how many times they were replaced. `Store(r)` is the assignment
under the lock of `update_*`, `Bump(r)` its `bump_version`; the two are separate steps because
the lock is released in between. `ReadVersion(s)` and `Respond(s)` are the two reads of
`build_response`. `Receive`, `Lag` and `Disconnect` are the ways a receive loop goes on or ends;
`OpenFirst` and `NotifyWaiters` split `mark_lds_connected` at its atomic swap; `WaitRegister`
and `WaitCheck` split `wait_for_lds`. Streams are slots that one connection after another uses,
and the last response of a slot is kept, so that properties reach across reconnections.
`covers[v]` is a history variable: the updates whose caller had been answered when v was
current. One writer per resource type at a time is what `main.rs` has: `run()` and then the
updater for listeners, `run()` for clusters, the renewal manager for secrets. The server is
spawned after the first updates (`Serving`).

### ChallengeRouting

The issuer is one sequential task; every way out of `order()` is an action of its own because
they differ in whether `clear_for_cert` runs. The updater has a step per await. A listener is
the set of tokens it routes, and a response is one step: `XdsState` justifies that. One
scheduling assumption is a constant. `SubscribesFirst`: the spawned updater has subscribed
before an order starts (nothing in the code orders them, though an order needs a round trip
over a socket first). Runs and theorems that need it say so; the others do without. Nothing is
assumed of how fast the updater is: it may still be rebuilding for an earlier order when the next
one announces, it may lag, and then it ends. The code compares whole listeners, whose routes come in the
order in which the challenges were read; the model compares sets, so that two orders of one set of
challenges, which the code would take for a change and store once more, are the same in it.

### CertificateOrder

The ACME server is one half of the model: it validates, refuses and decides whenever it likes.
The program is the other half and sees copies only: `listed`, the authorizations it fetched once,
and `seen`, the state that the last call returned. Every call is an action, every `?` another one,
and a call that fails may have reached the server (`SignalFails`, `FinalizeFails`). A new order
starts with authorizations of any status, and any of the pending ones may be one that an `earlier`
order asked the server to validate: it may become valid at any time, between `new_order` and
`authorizations()` too. The two waits
around finalize are the same actions; `finalized` tells them apart, and with it whether a way out
passes `clear_for_cert`. `waited` adds up the sleeps, with the real numbers: 30 attempts, delays
that double up to 30 seconds. `decidedAt` is a history variable: after how many of these seconds the
server made the order ready or valid. `ImplementsIssuer` maps the module to the order actions of
`ChallengeRouting`, which has the waits as single steps, so that what the composition assumes of
an order is what the code does.

### Renewal

A certificate is three files, each absent, torn or of a generation: the chain, key and
metadata one order yields. `Truncate` and `Write` are the halves of `fs::write`, `SaveFails` may
come before or after either, `Crash` anywhere. Expiry is what `num_days` tells apart: at least
30 days, at least one, the last day, none. A new certificate is taken to be valid for at least
30 days. Generations are recycled once nothing refers to them, so that orders, crashes and
renewals are unbounded. `Reliable` names the certificates whose orders and writes succeed again
and again; `ReadFaults` lets a read of an existing certificate fail, or `exists()` miss it, which comes
to the same: the certificate is ordered.

### ConfigLoad and Startup

A name or domain is a number, ordered as its string, with 0 for the empty one. A typed config is
`expanded` (it has an `@type`), `binary` or absent, of a type, with a set of fields of which only
those are told apart that matter: one that does not parse, one that the program's own minimal
messages lack, one that stands beside the typed config. A listener is its filter chains and the
rest (listener filters, access logs, the default filter chain), which `deserialize.rs` does not
look at. `CertificatesPass` sorts and compares neighbours as the code does, where `Sorted` is some
rearrangement that ascends. Two names count as two, as in the code; that both may lead to one
directory (`storage.rs:51-53`) is not in the model. What cannot be encoded or parsed is `failed`
after its conversion, and a workload with a failed part is not served. `Configuration` is the type
of what serde makes of a file.

`Startup` runs one process after another over one storage directory. `place` is where `run()` is;
`Halt` is a process that ends, by an error or a crash. `Restore`, `Create` and the save are the
steps of `try_load_or_create`; `AttemptFails` is the way back into the loop or out of it.
`Truncate` and `Write` are the halves of `fs::write`. Time passes in the sleeps, and `outage` is
how long the ACME server does not answer after a start. `LoadNone` may find no account file though
there is one: `exists()` is false when the file cannot be looked at. `mishap` and `created` are
history variables since there was no account file last, and `unseen` says that this start took a
file that is there for missing. The operator may edit the directory URL and remove the account
file while the process is down. `Lifecycle` has all of this as one step and goes on from there.

### Lifecycle

`main[p]` and `server[p]` are where the two tasks of an instance are. A signal before the
shutdown future is first polled has the default action; after that the handlers stay installed
and swallow further signals. The drain waits for all connections to close, as tonic 0.12 does.
`file` says whose bind created what is at `socket_path`; removing it may fail, which ends a start
(`RemoveFails`) and is ignored at the end (`unremoved`).

### ListenerMerge

The workload is one of all small configurations, and never changes; the active challenges
change and come in any order, as a hash map yields them; `Rebuild` is the updater's call.
`Answers` says what Envoy does with a route configuration: own virtual host first, then the
wildcard, then the first matching route. `MergeIsExact` compares the listeners with the workload
place by place: a sequence of routes is that of the workload behind some tokens, a sequence of
virtual hosts is that of the workload behind some made for challenges.

## Runs

Bounds are chosen so that the interesting cases exist in the instance.

| Run | Instance | What it checks, and why the instance is enough |
|---|---|---|
| `xds_state` | 2 resource types, 2 listener streams, 2 updates per type, capacity 1 | versions, the feed and the LDS gate. Two updates let a response straddle one and meet the next; the types share version and channel, so that updates of the other type bump in between; the first stream is a race of two; notifications are unbounded, and with a single value in the channel every second one makes a slow reader lag |
| `challenge_routing` | 2 tokens, 2 certificates, capacity 3, `SubscribesFirst` | what an announcement is worth. Orders of two certificates, leftovers of one during the other, orders with one or two challenges, rebuilds for one order that are stored during the next. Capacity 3 lets an announcement wait behind other notifications, and the updater lag |
| `challenge_routing_any` | 2 tokens, 2 certificates, capacity 2, no scheduling assumption | what holds even though the updater starts late, lags and ends, and what it may withdraw |
| `renewal` | 1 certificate, 6 generations, readable files | the commit record and the liveness of issuance. 3 files, a chain and a key that are served, a new generation: a sixth is always free, so the bound never blocks an order |
| `renewal_pair` | 2 certificates, 2 generations, reads may fail | what is served against what is stored, and that one certificate does not keep the other from its turn. The two meet in the pass only. Orders that find no free generation cannot succeed there, but fail, which is why no certificate is `Reliable` and no property speaks of success |
| `certificate_order` | 2 domains, the real 30 attempts and 30 seconds | copies against the server. Two domains: one may be valid when another is not, one may be told when another is not, by this order or an earlier one. Any number of orders, each with any past of the server |
| `startup` | 202 configurations, 2 keys, 2 directories, outages of 0, 2, 7, 8, 15 and 16 seconds | validation, conversion and the account. Up to 3 certificates with names that repeat next to each other and apart; typed configs of each type, form and fault at each level, in the chains and beside them; outages on both sides of each sum of delays that matters. Crashes, starts and edits unbounded |
| `lifecycle` | 2 instances, 1 Envoy | the socket file and shutdown. Instances at every pair of places, restarts unbounded |
| `listener_merge` | workloads of up to 2 listeners with up to 2 filters and 2 virtual hosts, 2 tokens, 2 hosts | first-match choices at every level, with a match and without |

Three more runs expect a violation; they are described under [findings](#findings). No run uses
symmetry, and none turns deadlock checking off: each component always has a step left (a
notification, a connection, time, a restart).

## Fairness

* `XdsState`: weak fairness of the steps of a handler or an update that has begun; tasks that
  can move are polled. A connected client reads its stream. No update, connection or departure
  has to happen.
* `ChallengeRouting`: weak fairness of the updater and of the stream. None of the issuer: the
  calls to the ACME server have no timeout.
* `CertificateOrder`: weak fairness of the order as a whole: each call returns, one way or the other
  (none has a timeout, so this is an assumption), and sleeps end. The server owes nothing: it may
  leave an order pending for ever.
* `Startup`: none; its properties are about safety.
* `Renewal`: weak fairness of the pass, its timer and the end of orders and writes. Strong
  fairness of the success of orders and writes for `Reliable` certificates: an order may fail
  any number of times, but not for ever. Crashes, restarts and time are free.
* `Lifecycle`: weak fairness of both tasks and of the end of initial issuance. No client owes it
  to leave, and nothing in the code bounds the drain: what is claimed of a shutdown is claimed for
  a server that no client is connected to.

## What the checks show

* **Versions and contents.** Reading the version before the contents, and storing before
  bumping, makes a response at least as new as its version (`VersionCoversContents`) and keeps
  every client moving forward (`ClientsNeverGoBack`), though not with equal contents for equal
  versions (see findings). A stream with an empty channel has delivered every acknowledged
  update (`NoMissedUpdate`). The server implements `DiscoveryFeed`, liveness included
  (`ImplementsFeed`): a reader that lags is closed rather than left behind.
* **The LDS gate.** `wait_for_lds` loses no wake-up (`NoLostWakeup`, `WaiterIsReleased`).
* **Challenges.** If the updater listens, drained channels mean that Envoy serves what was
  announced (`AnnouncedIsServed`), and under an order that keeps waiting its challenges come to be
  served and to stay so (`RoutesComeToStay`), if the updater does not lag. They may be withdrawn in
  between: a rebuild that read the challenges before the announcement may be stored after it, and
  take away a route that a rebuild before it had added. Only such a rebuild does
  (`OnlyStaleRebuildsWithdraw`), under any scheduling. Always: a
  certificate that was issued has no challenge left, though earlier orders of it failed
  (`IssuedLeavesNoChallenge`); while the last orders succeeded, an idle updater has removed all
  routes (`CleanAfterSuccess`); the updater's feedback loop ends (`RebuildsStop`).
* **Orders.** finalize is sent for orders that are ready or have become invalid since, or that have
  nothing left to validate, though the decision is made from copies (`FinalizedWhenSettled`); the
  cleanup does not overtake a validation that this order asked for and that is due
  (`ActiveWhileAsked`); an order that is decided within 751
  seconds of a wait is not given up (`TimeoutMeansLate`), and one that is never decided is
  (`OrderEnds`). All of it implements the issuer of `ChallengeRouting` (`ImplementsIssuer`).
* **Certificates.** The metadata file is in effect a commit record (`FreshMeansComplete`) and a
  broken pair is always due (`BrokenMeansDue`); what can be issued comes to be served, whole and
  stored, from any state of the files (`ComesToBeServed`), and once it is, orders come to rest
  until time passes (`OrdersComeToRest`); all this as long as files that are there can be read.
  Whether or not they can, what is due is ordered, whatever becomes of the others
  (`DueIsOrdered`). What is newly served is on disk (`ServedIsStored`); no
  failure, unreadable files included, spoils what a running process serves (`NoSecretIsSpoiled`).
* **Startup.** A configuration is taken exactly if it is usable (`ConfigsAreJudged`); a workload
  is served only if its filters, the HTTP filters in them and its TLS contexts could be encoded,
  and they are (`ServedIsConverted`). The account in use is the stored one (`UsedIsStored`), a
  whole account file that `exists()` sees is not overwritten, whatever else fails
  (`AccountIsKept`), restarts and outages register no second account (`OneAccountPerStorage`), and
  a server that answers within 15 seconds is waited for (`OutageIsRiddenOut`).
* **Life.** A signal after the first LDS stream ends the process once no client is connected
  (`ShutdownCompletes`), and an orderly end leaves no socket file of its own that it could remove
  (`NoFileAfterOrderlyEnd`).
* **Merge.** For every small workload: challenges that reach a wildcard host are answered
  (`ChallengesAnswered`), and the rest is the workload's, with no route of an earlier challenge
  (`MergeIsExact`).

## Findings

Each of these is a run that expects a violation, and is described in `PROJECT.json`.

| Run | Formula | The source says | The code does |
|---|---|---|---|
| `challenge_routing_leak` | `FailureLeavesNoChallenge` | `order.rs:116` clean up even on failure | errors at 54-60 and 107 return before the cleanup |
| `lifecycle_hang` | `SignalEndsProcess` | `main.rs:156` shutting down | before the first LDS stream, it hangs in `wait_for_lds`, with no client connected |
| `startup_directory` | `ConfiguredDirectoryIsUsed` | `example-config.yaml:16` directory URL (uncomment for production) | an existing account keeps using the directory it was created at |

Where doc and code disagree less sharply, the formula that states the doc's reading stands in its
module without a run of its own; checked with the instance named, TLC refutes it.

| Formula | Instance | The source says | The code does |
|---|---|---|---|
| `ChangesHaveVersions` | `xds_state` | `state.rs:15` version is for change detection | new contents may go out under the old version first |
| `ListenersFollowChallenges` | `challenge_routing` | `main.rs:111` rebuilds when challenges change | clearing them notifies nobody |
| `UpdaterHearsAnnouncement` | `challenge_routing_any` | same | an updater that lags ends for good |
| `UpdateNotifiesNobody` | `challenge_routing` | `main.rs:125` update without another notification | the update notifies all, the updater too |
| `StartupOrdersAreNeeded` | `renewal` | `renewal.rs:190` missing or expired | a certificate in its last 24 hours is ordered anew |
| `ServedHasConfiguredDomains` | `renewal`, two values of `Domains` | `README.md:70`, `types.rs:56` domains on the certificate | edited domains take effect at the next renewal only |
| `ComesToBeServed` | `renewal`, `ReadFaults` true | `README.md:9` provides certificates automatically | after a read error and a failed order a valid certificate is never served |
| `LoadedIsValid` | `renewal` | `renewal.rs:171` exists and is valid | a torn or mixed pair with unexpired metadata is loaded |
| `FetchedReadyIsAccepted` | `certificate_order` | `order.rs:141` wait for the order to reach ready or valid | what the refresh after the last attempt brings is not looked at |
| `LoadsOrCreates` | `startup` | `account.rs:13` load an existing account or create a new one | a torn `account.json` ends every start until it is removed |
| `AccountIsNeverReplaced` | `startup` | `account.rs:13` load an existing account | `storage.rs:70` takes a stat error for absence, and the new account is written over the old |
| `FinalizedWhenReady` | `certificate_order` | `order.rs:113` with nothing to complete, nothing is waited for | an authorization that an earlier order asked for may turn valid before `authorizations()`: nothing to complete, and finalize may come before the server has made the order ready |
| `OnlyBinaryIsServed` | `startup` | `deserialize.rs:3-5` converts the expanded form | the filter chains only: listener filters, access logs and the default filter chain are left to pbjson |
| `DrainEnds` | `lifecycle` | `main.rs:156` shutting down | a client that stays keeps its stream, and the drain waits for it |
| `FieldsSurvive` | `startup` | `README.md:76` the format is Envoy's | fields that the minimal message types of `deserialize.rs:17` lack are dropped without an error |
| `RemovesOwnFile` | `lifecycle` | `server.rs:64` files created by this process | it removes the file of its successor |
| `AnyListenerAnswers` | `listener_merge` | `README.md:76` any listener on port 80 | the first one only |
| `EveryHostAnswered` | `listener_merge` | `README.md:11` injects the routes | hosts with a virtual host of their own are not answered |

## Proofs

The theorems hold for every value of the constants that satisfies the named assumptions of the
modules; they are checked with SMT, Zenon and LS4.

* **`XdsState_proofs`.** `Inv` strengthens the three invariants with `Accounting` (for each
  type, the contents are the updates covered by the current version, plus the one in flight),
  `CoversMonotone` (later versions cover no less), `ViewIsPast` (no client is ahead) and what
  a response under construction and an empty channel mean. `NoMissedUpdate` alone is not
  inductive: between subscription and response the client is behind with an empty channel,
  and it is the place in the handler that says the coming response will make up for it.
  From `Inv`: `TypeCorrect`, `VersionsCoverContents`, `NoUpdateIsMissed`, `NoClientGoesBack`
  (an action property), `NoWakeupIsLost`, and `FeedImplemented`: each step is a step of
  `DiscoveryFeed` or stutters, under the mapping at the end of `XdsState`.
* **`ChallengeRouting_proofs`.** `RouteInv` says, for each place of the updater with an empty
  channel, that it holds or has stored the current challenges while an order validates (`Caught`),
  and the same for the stream and the listeners (`StreamCaught`). From it
  `AnnouncedChallengesAreServed`, under `SubscribesFirst`, for every capacity and number of tokens
  and certificates. `IssuedCertificatesAreClean` needs no scheduling assumption.
  `WithdrawalsAreStale` is an action property, and needs none either: only `Compare` can withdraw
  a route, and by `Caught` what it stores while nothing is left to receive was merged from the
  challenges of the order. `SuccessLeavesNoRoute` again needs no assumption. Clearing the
  challenges notifies nobody, so it rests on what comes after: each way from an order that
  succeeded to an idle issuer notifies once more, and an updater that has received everything
  since has seen no challenges (`Cleaned`).
* **`Renewal_proofs`.** `FreshMeansComplete` is not inductive: `Saving` adds that a save runs
  only over a certificate that is due and what it has written so far, `MetaIsLast` that
  metadata is never alone. From it `FreshMetadataVouches` and `BrokenSecretsAreDue`, under
  `~ReadFaults`: an order started because a fresh certificate could not be read overwrites
  files under metadata that is not due, and a crash then leaves what the theorem rules out.
  `RenewalTypeCorrect` holds with read faults, too, and so do the theorems about what is served,
  `NewSecretsAreStored` and `SecretsAreNotSpoiled`, both action properties. Their invariant
  `ServeInv` has two parts: what a save has written so far is of the generation that it will
  publish (`SavedSoFar`), and startup has not served what it is still to visit
  (`NothingServedYet`) - a step alone does not show that loading a torn pair replaces no good
  secret. `NoSecretAssumption`: the absence of a secret is not a secret.
* **`CertificateOrder_proofs`.** Two invariants. `CopyInv` is about the copies: what was seen is
  old, but an order that was seen ready is not pending (`Copies`); as long as the order is pending
  some domain is still listed or to be completed (`Uncompleted`), so that nothing to complete means
  ready; what the server was told is active (`Asked`). From it `OnlySettledIsFinalized`,
  `AskedIsActive`, and `IssuerImplemented`, one step per action of the module. `WaitInv` adds the
  arithmetic of the wait: `Counted` gives the sleeps before each attempt in closed form, `SeenLate`
  says that what was seen undecided was undecided at that second; hence `PatienceIsKept`. The
  theorems hold for any set of domains, and need no fairness.
* **`Startup_proofs`.** `Inv` strengthens the invariants of the account. `UsedIsStored` needs
  `Underway`: an account is created and saved only where there was no file, or in a start that
  took it for missing, which also gives `AccountFileIsKept`. `OneAccountPerStorage` needs
  `Accounted`: without a mishap, the account that was created is in the file or on its way there,
  and only a save leaves the file torn. `OutagesAreRiddenOut` needs `InTime`, which ties the
  sleeps to the attempts: 0, 1, 3, 7, 15 seconds. All hold for any keys, directories, outages and
  configurations of the type that serde gives them (`ConfigsAssumption`). About validation: for
  sorted names of any number, equal neighbours are exactly duplicates
  (`NeighboursTellDuplicates`); names can be sorted (`CanBeSorted`), and sorting neither makes nor
  removes duplicates (`RearrangedDuplicates`); hence `ValidationIsExact`, for every configuration,
  and of the process `StartsAreJudged`. That `sort()` yields an ascending rearrangement is taken
  from the library. `ConvertedIsServed` goes through the levels of a workload: typed config,
  filter with the HTTP filters in it, chain, listener. A typed config that cannot be encoded makes
  the workload fail, which is why the ones that are served (`UpHasParsed`) are of the types that
  can be.
* **`Lifecycle_proofs`.** `LifecycleTypeCorrect` for any number of instances and clients.
  `NoFileAfterOrderlyEnd` speaks of an instance whose `main` has ended; what is kept until then
  (`FileInv`) is that its server, once stopped, has left no file of its own that it could remove,
  and that only its own bind makes one, which comes before (`FileIsBound`). From it
  `OrderlyEndLeavesNoFile`.
* **`ListenerMerge_proofs`.** The invariant is simple: the listeners are a merge of some list
  without repetitions of tokens into the workload. The work is in the lemmas about the merge, one
  level at a time: `WildHostOfMerged`, `MergedHostsAnswer`, `MergedHostsKept` and
  `MergedHostsAreFresh` about a route configuration, `MergedFilter`, `MergedListener`, and
  `ListenerThatAnswers` and `MergedListenersKept` about all listeners, for the three ways a merge
  can go. From them `ChallengesAreAnswered` and `TheMergeIsExact`, for workloads of any size. The
  assumptions: tokens are finitely many, the challenge port is a port, a workload is a sequence of
  listeners whose routes are its own.
* **`SequenceFacts`.** Sorting and first matches call for induction, which the installed provers
  cannot instantiate. `LeastNat` stands in for it: a set of naturals has a least element, from the
  well-foundedness of strict subsets of a finite set. `CanBeSorted` takes the least number of
  values that cannot be brought to the front, and one step of a selection sort refutes it.

Every safety invariant and every action property that a run checks is stated by a theorem, and so
are the refinement of the issuer and the safety part of the feed. Model-checked only is what is
about liveness, since fairness and `ENABLED` are out of the prover's reach: the liveness half of
`ImplementsFeed`, `WaiterIsReleased`, `RoutesComeToStay`, `RebuildsStop`, `ComesToBeServed`,
`DueIsOrdered`, `OrdersComeToRest`, `ShutdownCompletes` and `OrderEnds`.

## What is not modelled

* The parsing of YAML by serde and of protobuf JSON by pbjson, and the bytes they yield: files
  that do not parse are not considered, and whether typed configs that the program leaves expanded
  (listener filters, access logs, default filter chains, other transport sockets, extensions of
  clusters) are taken is left open.
* Certificate names that differ and lead to one directory.
* The builders of Envoy resources, logging, error texts, the descriptors passed by systemd.
* The filter by name of `fetch_secrets`; key authorizations (identified with their tokens); the
  content of the CSR and the key pair.
* Two processes on one storage directory; `Lifecycle` has several at one socket, which is where
  the program handles them.
* Whether a new certificate is valid for 30 days; power failures that reorder writes.
* Time inside calls: `CertificateOrder` and `Startup` count sleeps only, which is what the delays
  of the code are chosen against.
* tokio, tonic, instant-acme, Envoy and the ACME server, except for what the code relies on:
  the channel (`Broadcast`), the drain (`Lifecycle`), the choice of routes (`ListenerMerge`), the
  states of orders and authorizations (`CertificateOrder`).

## Plan

Done, in the order of importance: `Broadcast`, `DiscoveryFeed`, `XdsState` and its proofs;
`ChallengeRouting` and its proofs; `Renewal` and its proofs; `Lifecycle`; `ListenerMerge`;
`CertificateOrder` with its refinement and proofs; `ConfigLoad` and `Startup` with proofs.

All safety properties of the runs are proved. Theorems that would say more:

1. `Renewal`: what read faults leave of `FreshMeansComplete`, which is proved without them.
2. `ChallengeRouting`: the part of `AnnouncedIsServed` that holds when the updater starts late.
3. The safety lemmas that the liveness properties rest on: that a stream, an updater and a pass
   that have something to do can take a step.

Later models: `Renewal` with two certificates, enough generations and liveness of what is served
(that the other is ordered is checked), and an abstract specification of the secrets (what Envoy
is given for a certificate over time) implemented by `Renewal`.
