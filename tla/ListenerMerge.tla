---------------------------- MODULE ListenerMerge ----------------------------
(***************************************************************************)
(* ConfigMerger::merge_listeners (src/xds/merge.rs): how the routes of the *)
(* active challenges get into the listeners of the workload.               *)
(*                                                                         *)
(* A listener is its port and the network filters of all its filter        *)
(* chains, in order.  A filter is an HTTP connection manager with a route  *)
(* configuration of its own ("inline"), or anything else: another filter,  *)
(* a connection manager that gets its routes through RDS, bytes that do    *)
(* not decode.  A route configuration is a sequence of virtual hosts with  *)
(* the domains they match and their routes; a route is the token of the    *)
(* challenge it answers, or Workload for a route of the workload.          *)
(* Decoding and encoding a connection manager again keeps what is modelled *)
(* here.                                                                   *)
(*                                                                         *)
(* The merge is a pure function; the state is what main.rs keeps around    *)
(* it: the workload, which never changes, the active challenges in the     *)
(* order that ChallengeState::get_all happens to return, and the listeners *)
(* that were last built.                                                   *)
(***************************************************************************)
EXTENDS SequencesExt

CONSTANTS
  Token,        \* challenge tokens
  Host,         \* names that requests are for
  Wildcard,     \* the domain "*"
  Port,         \* ports of listeners
  AcmePort,     \* meta.acme_challenge_port
  Workload,     \* a route of the workload, which matches every path
  Workloads     \* the listeners of the configurations considered

ASSUME WildcardAssumption == Wildcard \notin Host
ASSUME WorkloadAssumption == Workload \notin Token
ASSUME TokenAssumption == IsFiniteSet(Token)
ASSUME PortAssumption == AcmePort \in Port

VirtualHost ==
  [name : STRING, domains : SUBSET (Host \union {Wildcard}), routes : Seq({Workload})]
Filter == [inline : BOOLEAN, hosts : Seq(VirtualHost)]
Listener == [port : Port, filters : Seq(Filter)]

ASSUME WorkloadsAssumption == Workloads \subseteq Seq(Listener)

VARIABLES
  workload,     \* the listeners of the configuration
  active,       \* what get_all returns: the active tokens, in any order
  listeners,    \* the listeners last built
  built         \* history: the tokens they were built from

vars == << workload, active, listeners, built >>

-----------------------------------------------------------------------------
(* The merge.                                                              *)

AcmeHost(routes) == [name |-> "acme-challenges", domains |-> {Wildcard}, routes |-> routes]

IsWild(vh) == Wildcard \in vh.domains

\* The first virtual host for every domain, 0 if there is none.
WildHost(hosts) == SelectInSeq(hosts, IsWild)

\* Mutant: the routes of the virtual host are lost.
ReplaceInRouteConfig(hosts, routes) ==
  LET i == WildHost(hosts)
  IN  IF i = 0 THEN << AcmeHost(routes) >> \o hosts
      ELSE [hosts EXCEPT ![i].routes = routes]

\* Mutant: the challenge routes come last.
AppendToRouteConfig(hosts, routes) ==
  LET i == WildHost(hosts)
  IN  IF i = 0 THEN << AcmeHost(routes) >> \o hosts
      ELSE [hosts EXCEPT ![i].routes = @ \o routes]

PrependToRouteConfig(hosts, routes) ==
  LET i == WildHost(hosts)
  IN  IF i = 0 THEN << AcmeHost(routes) >> \o hosts
      ELSE [hosts EXCEPT ![i].routes = routes \o @]

PrependToFilter(filter, routes) ==
  IF filter.inline THEN [filter EXCEPT !.hosts = PrependToRouteConfig(@, routes)]
                   ELSE filter

PrependToListener(listener, routes) ==
  [listener EXCEPT !.filters = [i \in DOMAIN @ |-> PrependToFilter(@[i], routes)]]

AcmeListener(routes) ==
  [port |-> AcmePort, filters |-> << [inline |-> TRUE, hosts |-> << AcmeHost(routes) >>] >>]

IsOnPort(listener) == listener.port = AcmePort

\* The first listener on the port, 0 if there is none.
FirstOnPort(base) == SelectInSeq(base, IsOnPort)

MergeListeners(base, routes) ==
  LET i == FirstOnPort(base)
  IN  CASE routes = << >>            -> base
        [] routes # << >> /\ i = 0   -> Append(base, AcmeListener(routes))
        [] OTHER                     -> [base EXCEPT ![i] = PrependToListener(@, routes)]

-----------------------------------------------------------------------------
Init ==
  /\ workload \in Workloads
  /\ active = << >>
  /\ listeners = MergeListeners(workload, active)
  /\ built = {}

\* Orders add and clear challenges; a hash map lists them in any order.
ChangeChallenges ==
  /\ active' \in UNION {SetToSeqs(S) : S \in SUBSET Token}
  /\ UNCHANGED << workload, listeners, built >>

\* Mutant: the routes are merged into the listeners last built.
RebuildOnTop ==
  /\ listeners' = MergeListeners(listeners, active)
  /\ built' = ToSet(active)
  /\ UNCHANGED << workload, active >>

Rebuild ==
  /\ listeners' = MergeListeners(workload, active)
  /\ built' = ToSet(active)
  /\ UNCHANGED << workload, active >>

Next == ChangeChallenges \/ Rebuild

Spec == Init /\ [][Next]_vars

-----------------------------------------------------------------------------
(* What Envoy does with a route configuration.                             *)

OwnHost(hosts, host) == SelectInSeq(hosts, LAMBDA vh : host \in vh.domains)

\* The virtual host that a request for a host gets: its own, or the wildcard's.
HostFor(hosts, host) ==
  IF OwnHost(hosts, host) # 0 THEN OwnHost(hosts, host) ELSE WildHost(hosts)

\* Of the routes that match a request for the challenge t, the one of t is first.
ComesFirst(routes, t) ==
  \E k \in DOMAIN routes :
    routes[k] = t /\ \A j \in 1 .. k - 1 : routes[j] \notin {t, Workload}

\* A request for the challenge t is answered.
Answers(hosts, host, t) ==
  LET i == HostFor(hosts, host)
  IN  i # 0 /\ ComesFirst(hosts[i].routes, t)

FilterAnswers(filter, host) ==
  filter.inline => \A t \in built : Answers(filter.hosts, host, t)

ListenerAnswers(listener, host) ==
  \A filter \in ToSet(listener.filters) : FilterAnswers(filter, host)

-----------------------------------------------------------------------------
HasOwnHost(listener, host) ==
  \E filter \in ToSet(listener.filters) :
    filter.inline /\ \E vh \in ToSet(filter.hosts) : host \in vh.domains

(***************************************************************************)
(* The challenges are reachable: with challenges to answer, some listener  *)
(* is on the port, and the first one that is answers each of them, before  *)
(* any route of the workload and in every filter that holds its routes,    *)
(* for all hosts but those with a virtual host of their own.               *)
(***************************************************************************)
ChallengesAnswered ==
  built # {} =>
    LET i == FirstOnPort(listeners)
    IN  /\ i # 0
        /\ \A host \in Host :
             HasOwnHost(listeners[i], host) \/ ListenerAnswers(listeners[i], host)

\* What the merge may put into a sequence comes before what was there.
RoutesKept(is, was) ==
  \E n \in 0 .. Len(is) :
    /\ was = SubSeq(is, n + 1, Len(is))
    /\ \A i \in 1 .. n : is[i] \in Token

HostsKept(is, was) ==
  \E n \in 0 .. Len(is) :
    /\ Len(is) = n + Len(was)
    /\ \A i \in 1 .. n :
         is[i].name = "acme-challenges" /\ ToSet(is[i].routes) \subseteq Token
    /\ \A i \in DOMAIN was :
         /\ [is[n + i] EXCEPT !.routes = was[i].routes] = was[i]
         /\ RoutesKept(is[n + i].routes, was[i].routes)

FilterKept(is, was) ==
  [is EXCEPT !.hosts = was.hosts] = was /\ HostsKept(is.hosts, was.hosts)

ListenerKept(is, was) ==
  /\ [is EXCEPT !.filters = was.filters] = was
  /\ DOMAIN is.filters = DOMAIN was.filters
  /\ \A i \in DOMAIN was.filters : FilterKept(is.filters[i], was.filters[i])

(***************************************************************************)
(* The workload survives: apart from challenge routes and the virtual host *)
(* or listener made for them, the listeners are those of the workload, in  *)
(* the same order and with the same routes, however often they are built.  *)
(***************************************************************************)
WorkloadIntact ==
  /\ Len(listeners) \in {Len(workload), Len(workload) + 1}
  /\ \A i \in DOMAIN workload : ListenerKept(listeners[i], workload[i])
  /\ Len(listeners) > Len(workload) =>
       \A i \in DOMAIN workload : workload[i].port # AcmePort

(***************************************************************************)
(* Nothing is left of earlier challenges: a rebuild routes the challenges  *)
(* it was given and no others, each of them at most once per virtual host. *)
(***************************************************************************)
NoStaleRoutes ==
  \A listener \in ToSet(listeners) : \A filter \in ToSet(listener.filters) :
    \A vh \in ToSet(filter.hosts) :
      \A i, j \in DOMAIN vh.routes :
        vh.routes[i] \in Token =>
          vh.routes[i] \in built /\ (vh.routes[j] = vh.routes[i] => i = j)

(***************************************************************************)
(* The merge is exact: what it adds to the workload is the routes of the   *)
(* active challenges, and it takes nothing away (merge.rs:36-77), however  *)
(* often main.rs rebuilds.                                                 *)
(***************************************************************************)
MergeIsExact == WorkloadIntact /\ NoStaleRoutes

(***************************************************************************)
(* Stated by the documentation, and not so.                                *)
(***************************************************************************)

\* README.md:76: challenge routes are prepended to any listener on the port.
AnyListenerAnswers ==
  \A listener \in ToSet(listeners), host \in Host :
    IsOnPort(listener) /\ ~HasOwnHost(listener, host) => ListenerAnswers(listener, host)

\* README.md:11: challenge routes are injected, with no action of the user; a
\* host of the workload that is to be certified has its challenges answered.
EveryHostAnswered ==
  built # {} =>
    \A host \in Host :
      ListenerAnswers(listeners[FirstOnPort(listeners)], host)
=============================================================================
