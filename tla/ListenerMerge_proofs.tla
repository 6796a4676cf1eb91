-------------------------- MODULE ListenerMerge_proofs --------------------------
(***************************************************************************)
(* Proofs about the merge of challenge routes into the workload, for all   *)
(* workloads, tokens and orders in which the challenges are listed.        *)
(*                                                                         *)
(* The state is simple: the listeners are a merge of some list of          *)
(* challenges into the workload (Inv).  The proofs are about what a merge  *)
(* makes of a route configuration, then of a listener, then of them all.   *)
(***************************************************************************)
EXTENDS ListenerMerge, SequenceFacts

USE WildcardAssumption, WorkloadAssumption

-----------------------------------------------------------------------------
(* The lists of challenges: get_all yields each active token once.         *)

TokenList == {s \in Seq(Token) : \A i, j \in DOMAIN s : i # j => s[i] # s[j]}

Inv ==
  /\ workload \in Workloads
  /\ active \in TokenList
  /\ \E routes \in TokenList :
       built = ToSet(routes) /\ listeners = MergeListeners(workload, routes)

LEMMA ListedTokens ==
  ASSUME NEW S \in SUBSET Token, NEW s \in SetToSeqs(S)
  PROVE  s \in TokenList
<1>1. IsFiniteSet(S)
  BY TokenAssumption, FS_Subset
<1>2. Cardinality(S) \in Nat
  BY <1>1, FS_CardinalityType
<1>3. s \in [1 .. Cardinality(S) -> S] /\ \A i, j \in 1 .. Cardinality(S) : i # j => s[i] # s[j]
  BY DEF SetToSeqs
<1> QED
  BY <1>2, <1>3 DEF TokenList

LEMMA InvHolds == Spec => []Inv
<1>1. Init => Inv
  <2> SUFFICES ASSUME Init PROVE Inv
    OBVIOUS
  <2>1. << >> \in TokenList /\ ToSet(<< >>) = {}
    BY DEF TokenList, ToSet
  <2> QED BY <2>1 DEF Init, Inv
<1>2. Inv /\ [Next]_vars => Inv'
  <2> SUFFICES ASSUME Inv, [Next]_vars PROVE Inv'
    OBVIOUS
  <2>1. CASE ChangeChallenges
    <3>1. active' \in TokenList
      BY <2>1, ListedTokens DEF ChangeChallenges
    <3> QED BY <2>1, <3>1 DEF Inv, ChangeChallenges
  <2>2. CASE Rebuild
    BY <2>2 DEF Inv, Rebuild
  <2>3. CASE UNCHANGED vars
    BY <2>3 DEF Inv, vars
  <2> QED BY <2>1, <2>2, <2>3 DEF Next
<1> QED
  BY <1>1, <1>2, PTL DEF Spec

-----------------------------------------------------------------------------
(* The searches of the merge and of Envoy find the first match.            *)

LEMMA WildHostFinds ==
  ASSUME NEW hosts, Len(hosts) \in Nat
  PROVE  LET i == WildHost(hosts)
         IN  \/ i = 0 /\ \A j \in 1 .. Len(hosts) : ~IsWild(hosts[j])
             \/ /\ i \in 1 .. Len(hosts) /\ IsWild(hosts[i])
                /\ \A j \in 1 .. i - 1 : ~IsWild(hosts[j])
<1> DEFINE I == {i \in 1 .. Len(hosts) : IsWild(hosts[i])}
<1>1. WildHost(hosts) = IF I # {} THEN Min(I) ELSE 0
  BY DEF WildHost, SelectInSeq
<1>2. I \in SUBSET (1 .. Len(hosts))
  OBVIOUS
<1>3. LET i == WildHost(hosts)
      IN  \/ i = 0 /\ I = {}
          \/ i \in I /\ \A j \in 1 .. i - 1 : j \notin I
  <2> HIDE DEF I
  <2> QED BY <1>1, <1>2, FirstIndex
<1>4. \A j \in I : \A i \in 1 .. j - 1 : i \in 1 .. Len(hosts)
  OBVIOUS
<1> QED
  BY <1>3, <1>4

LEMMA FirstOnPortFinds ==
  ASSUME NEW base, Len(base) \in Nat
  PROVE  LET i == FirstOnPort(base)
         IN  \/ i = 0 /\ \A j \in 1 .. Len(base) : ~IsOnPort(base[j])
             \/ /\ i \in 1 .. Len(base) /\ IsOnPort(base[i])
                /\ \A j \in 1 .. i - 1 : ~IsOnPort(base[j])
<1> DEFINE I == {i \in 1 .. Len(base) : IsOnPort(base[i])}
<1>1. FirstOnPort(base) = IF I # {} THEN Min(I) ELSE 0
  BY DEF FirstOnPort, SelectInSeq
<1>2. I \in SUBSET (1 .. Len(base))
  OBVIOUS
<1>3. LET i == FirstOnPort(base)
      IN  \/ i = 0 /\ I = {}
          \/ i \in I /\ \A j \in 1 .. i - 1 : j \notin I
  <2> HIDE DEF I
  <2> QED BY <1>1, <1>2, FirstIndex
<1>4. \A j \in I : \A i \in 1 .. j - 1 : i \in 1 .. Len(base)
  OBVIOUS
<1> QED
  BY <1>3, <1>4

\* A request for a host that no virtual host names gets the wildcard's.
LEMMA NoOwnHost ==
  ASSUME NEW hosts, Len(hosts) \in Nat, NEW host,
         \A i \in 1 .. Len(hosts) : host \notin hosts[i].domains
  PROVE  HostFor(hosts, host) = WildHost(hosts)
<1> DEFINE I == {i \in 1 .. Len(hosts) : host \in hosts[i].domains}
<1>1. OwnHost(hosts, host) = IF I # {} THEN Min(I) ELSE 0
  BY DEF OwnHost, SelectInSeq
<1>2. I = {}
  OBVIOUS
<1> QED
  BY <1>1, <1>2 DEF HostFor

-----------------------------------------------------------------------------
(* What the merge makes of a route configuration.                          *)

\* Either one virtual host is put before the others, or one of them has more
\* routes than before.
Added(merged, hosts, routes) ==
  /\ WildHost(hosts) = 0
  /\ DOMAIN merged = 1 .. Len(merged) /\ Len(merged) = Len(hosts) + 1
  /\ merged[1] = AcmeHost(routes)
  /\ \A j \in 1 .. Len(hosts) : merged[j + 1] = hosts[j]

Extended(merged, hosts, routes) ==
  LET i == WildHost(hosts)
  IN  /\ i \in 1 .. Len(hosts)
      /\ DOMAIN merged = 1 .. Len(merged) /\ Len(merged) = Len(hosts)
      /\ merged[i] = [hosts[i] EXCEPT !.routes = routes \o @]
      /\ \A j \in 1 .. Len(hosts) : j # i => merged[j] = hosts[j]

LEMMA PrependedHosts ==
  ASSUME NEW hosts \in Seq(VirtualHost), NEW routes \in TokenList,
         NEW merged, merged = PrependToRouteConfig(hosts, routes)
  PROVE  Added(merged, hosts, routes) \/ Extended(merged, hosts, routes)
<1> DEFINE i == WildHost(hosts)
<1>0. Len(hosts) \in Nat /\ DOMAIN hosts = 1 .. Len(hosts)
  OBVIOUS
<1>1. i = 0 \/ i \in 1 .. Len(hosts)
  BY <1>0, WildHostFinds
<1>2. CASE i = 0
  <2>1. merged = << AcmeHost(routes) >> \o hosts
    BY <1>2 DEF PrependToRouteConfig
  <2>2. << AcmeHost(routes) >> \in Seq({AcmeHost(routes)}) /\ Len(<< AcmeHost(routes) >>) = 1
    OBVIOUS
  <2> QED BY <1>0, <1>2, <2>1, <2>2 DEF Added
<1>3. CASE i \in 1 .. Len(hosts)
  <2>1. merged = [hosts EXCEPT ![i].routes = routes \o @]
    BY <1>3 DEF PrependToRouteConfig
  <2> QED BY <1>0, <1>3, <2>1 DEF Extended
<1> QED
  BY <1>1, <1>2, <1>3

LEMMA RoutesOfTheHost ==
  ASSUME NEW routes \in TokenList, NEW was \in Seq({Workload})
  PROVE  /\ routes \o was \in Seq(Token \union {Workload})
         /\ DOMAIN (routes \o was) = 1 .. Len(routes) + Len(was)
         /\ DOMAIN routes = 1 .. Len(routes) /\ Len(routes) \in Nat
         /\ \A k \in 1 .. Len(routes) : (routes \o was)[k] = routes[k] /\ routes[k] \in Token
         /\ \A k \in Len(routes) + 1 .. Len(routes) + Len(was) : (routes \o was)[k] = Workload
         /\ \A k, l \in 1 .. Len(routes) : routes[k] = routes[l] => k = l
<1>1. routes \in Seq(Token) /\ \A k, l \in 1 .. Len(routes) : routes[k] = routes[l] => k = l
  BY DEF TokenList
<1> QED
  BY <1>1

\* The routes put before others are the ones that a request meets first.
LEMMA TokensComeFirst ==
  ASSUME NEW routes \in TokenList, NEW was \in Seq({Workload}), NEW t \in ToSet(routes)
  PROVE  ComesFirst(routes \o was, t)
<1>1. PICK k \in 1 .. Len(routes) : routes[k] = t
  BY RoutesOfTheHost DEF ToSet
<1>2. k \in DOMAIN (routes \o was) /\ (routes \o was)[k] = t
  BY <1>1, RoutesOfTheHost
<1>3. ASSUME NEW j \in 1 .. k - 1 PROVE (routes \o was)[j] \notin {t, Workload}
  <2>1. j \in 1 .. Len(routes) /\ j # k
    BY <1>1, RoutesOfTheHost
  <2> QED BY <1>1, <2>1, RoutesOfTheHost
<1> QED
  BY <1>2, <1>3 DEF ComesFirst

LEMMA TokensArePut ==
  ASSUME NEW routes \in TokenList, NEW was \in Seq({Workload})
  PROVE  RoutesKept(routes \o was, was)
<1> DEFINE is == routes \o was
           n  == Len(routes)
<1>1. routes \in Seq(Token)
  BY DEF TokenList
<1>2. n \in 0 .. Len(is) /\ Len(is) = n + Len(was)
  BY <1>1
<1>3. was = SubSeq(is, n + 1, Len(is))
  BY <1>1
<1>4. \A k \in 1 .. n : is[k] \in Token
  BY RoutesOfTheHost
<1> QED
  BY <1>2, <1>3, <1>4 DEF RoutesKept

LEMMA NothingIsPut ==
  ASSUME NEW T, NEW s \in Seq(T)
  PROVE  RoutesKept(s, s)
<1>1. 0 \in 0 .. Len(s) /\ s = SubSeq(s, 0 + 1, Len(s))
  OBVIOUS
<1> QED
  BY <1>1 DEF RoutesKept

\* A virtual host that matches every domain is there, and its routes begin
\* with those of the challenges.
LEMMA WildHostOfMerged ==
  ASSUME NEW hosts \in Seq(VirtualHost), NEW routes \in TokenList,
         NEW merged, merged = PrependToRouteConfig(hosts, routes)
  PROVE  /\ Len(merged) \in Nat
         /\ WildHost(merged) \in 1 .. Len(merged)
         /\ \E was \in Seq({Workload}) : merged[WildHost(merged)].routes = routes \o was
<1> DEFINE i == WildHost(hosts)
<1>0. /\ Len(hosts) \in Nat
      /\ \A j \in 1 .. Len(hosts) : hosts[j] \in VirtualHost
      /\ Added(merged, hosts, routes) \/ Extended(merged, hosts, routes)
  BY PrependedHosts
<1>1. CASE Added(merged, hosts, routes)
  <2>1. Len(merged) \in Nat /\ 1 \in 1 .. Len(merged) /\ merged[1] = AcmeHost(routes)
    BY <1>0, <1>1 DEF Added
  <2>2. IsWild(merged[1])
    BY <2>1 DEF IsWild, AcmeHost
  <2>3. WildHost(merged) = 1
    BY <2>1, <2>2, WildHostFinds
  <2>4. << >> \in Seq({Workload}) /\ routes \o << >> = routes
    BY DEF TokenList
  <2>5. merged[WildHost(merged)].routes = routes \o << >>
    BY <2>1, <2>3, <2>4 DEF AcmeHost
  <2> QED BY <2>1, <2>3, <2>4, <2>5
<1>2. CASE Extended(merged, hosts, routes)
  <2>1. /\ i \in 1 .. Len(hosts) /\ Len(merged) = Len(hosts)
        /\ merged[i] = [hosts[i] EXCEPT !.routes = routes \o @]
        /\ \A j \in 1 .. Len(hosts) : j # i => merged[j] = hosts[j]
    BY <1>2 DEF Extended
  <2>2. hosts[i] \in VirtualHost
    BY <1>0, <2>1
  <2>3. /\ merged[i].routes = routes \o hosts[i].routes
        /\ merged[i].domains = hosts[i].domains
        /\ hosts[i].routes \in Seq({Workload})
    BY <2>1, <2>2 DEF VirtualHost
  <2>4. \A j \in 1 .. Len(hosts) : IsWild(merged[j]) <=> IsWild(hosts[j])
    BY <2>1, <2>3 DEF IsWild
  <2>5. IsWild(hosts[i]) /\ \A j \in 1 .. i - 1 : ~IsWild(hosts[j])
    <3>1. i # 0
      BY <1>0, <2>1
    <3> QED BY <1>0, <3>1, WildHostFinds
  <2>6. WildHost(merged) = i
    <3> DEFINE k == WildHost(merged)
    <3>1. \/ k = 0 /\ \A j \in 1 .. Len(hosts) : ~IsWild(merged[j])
          \/ k \in 1 .. Len(hosts) /\ IsWild(merged[k]) /\ \A j \in 1 .. k - 1 : ~IsWild(merged[j])
      BY <1>0, <2>1, WildHostFinds
    <3>2. k \in 1 .. Len(hosts) /\ IsWild(hosts[k])
      BY <2>1, <2>4, <2>5, <3>1
    <3>3. ~(k < i)
      BY <2>1, <2>5, <3>2
    <3>4. ~(i < k)
      BY <2>1, <2>4, <2>5, <3>1, <3>2
    <3> QED BY <1>0, <2>1, <3>2, <3>3, <3>4
  <2> QED BY <1>0, <2>1, <2>3, <2>6
<1> QED
  BY <1>0, <1>1, <1>2

\* Every challenge is answered for the hosts that no virtual host names.
LEMMA MergedHostsAnswer ==
  ASSUME NEW hosts \in Seq(VirtualHost), NEW routes \in TokenList,
         NEW merged, merged = PrependToRouteConfig(hosts, routes),
         NEW host, \A j \in 1 .. Len(merged) : host \notin merged[j].domains,
         NEW t \in ToSet(routes)
  PROVE  Answers(merged, host, t)
<1>1. /\ WildHost(merged) \in 1 .. Len(merged) /\ Len(merged) \in Nat
      /\ HostFor(merged, host) = WildHost(merged)
  BY WildHostOfMerged, NoOwnHost
<1>2. PICK was \in Seq({Workload}) : merged[WildHost(merged)].routes = routes \o was
  BY WildHostOfMerged
<1>3. ComesFirst(merged[WildHost(merged)].routes, t)
  BY <1>2, TokensComeFirst
<1> QED
  BY <1>1, <1>3 DEF Answers

\* The virtual hosts of the workload keep their names, domains and routes.
LEMMA MergedHostsKept ==
  ASSUME NEW hosts \in Seq(VirtualHost), NEW routes \in TokenList,
         NEW merged, merged = PrependToRouteConfig(hosts, routes)
  PROVE  HostsKept(merged, hosts)
<1> DEFINE i == WildHost(hosts)
<1>0. /\ Len(hosts) \in Nat /\ DOMAIN hosts = 1 .. Len(hosts)
      /\ \A j \in 1 .. Len(hosts) : hosts[j] \in VirtualHost
      /\ Added(merged, hosts, routes) \/ Extended(merged, hosts, routes)
  BY PrependedHosts
<1>1. \A j \in 1 .. Len(hosts) :
        /\ [hosts[j] EXCEPT !.routes = hosts[j].routes] = hosts[j]
        /\ hosts[j].routes \in Seq({Workload})
        /\ RoutesKept(hosts[j].routes, hosts[j].routes)
  BY <1>0, NothingIsPut DEF VirtualHost
<1>2. CASE Added(merged, hosts, routes)
  <2>1. /\ Len(merged) = 1 + Len(hosts) /\ merged[1] = AcmeHost(routes)
        /\ \A j \in 1 .. Len(hosts) : merged[1 + j] = hosts[j]
    BY <1>0, <1>2 DEF Added
  <2>2. merged[1].name = "acme-challenges" /\ ToSet(merged[1].routes) \subseteq Token
    BY <2>1 DEF AcmeHost, TokenList, ToSet
  <2>3. 1 \in 0 .. Len(merged) /\ \A j \in 1 .. 1 : j = 1
    BY <1>0, <2>1
  <2> QED BY <1>0, <1>1, <2>1, <2>2, <2>3 DEF HostsKept
<1>3. CASE Extended(merged, hosts, routes)
  <2>1. /\ i \in 1 .. Len(hosts) /\ Len(merged) = 0 + Len(hosts)
        /\ merged[i] = [hosts[i] EXCEPT !.routes = routes \o @]
        /\ \A j \in 1 .. Len(hosts) : j # i => merged[0 + j] = hosts[j]
    BY <1>0, <1>3 DEF Extended
  <2>2. /\ [merged[i] EXCEPT !.routes = hosts[i].routes] = hosts[i]
        /\ merged[i].routes = routes \o hosts[i].routes
    BY <1>0, <2>1 DEF VirtualHost
  <2>3. RoutesKept(merged[i].routes, hosts[i].routes)
    BY <1>1, <2>1, <2>2, TokensArePut
  <2>4. 0 \in 0 .. Len(merged) /\ 1 .. 0 = {} /\ 0 + i = i
    BY <1>0, <2>1
  <2>5. \A j \in 1 .. Len(hosts) :
          /\ [merged[0 + j] EXCEPT !.routes = hosts[j].routes] = hosts[j]
          /\ RoutesKept(merged[0 + j].routes, hosts[j].routes)
    <3> TAKE j \in 1 .. Len(hosts)
    <3>1. 0 + j = j
      OBVIOUS
    <3>2. CASE j = i
      BY <2>2, <2>3, <3>1, <3>2
    <3>3. CASE j # i
      BY <1>1, <2>1, <3>1, <3>3
    <3> QED BY <3>2, <3>3
  <2> QED BY <1>0, <2>1, <2>4, <2>5 DEF HostsKept
<1> QED
  BY <1>0, <1>2, <1>3

\* The tokens of a sequence of routes are those given, each of them once.
OnlyTokensOf(given, has) ==
  \A k, l \in DOMAIN has :
    has[k] \in Token => has[k] \in given /\ (has[l] = has[k] => k = l)

LEMMA MergedHostsAreFresh ==
  ASSUME NEW hosts \in Seq(VirtualHost), NEW routes \in TokenList,
         NEW merged, merged = PrependToRouteConfig(hosts, routes), NEW vh \in ToSet(merged)
  PROVE  OnlyTokensOf(ToSet(routes), vh.routes)
<1>0. /\ Len(hosts) \in Nat /\ DOMAIN hosts = 1 .. Len(hosts)
      /\ \A j \in 1 .. Len(hosts) : hosts[j] \in VirtualHost
      /\ Added(merged, hosts, routes) \/ Extended(merged, hosts, routes)
  BY PrependedHosts
<1>1. ASSUME NEW was \in Seq({Workload}), vh.routes = routes \o was
      PROVE  OnlyTokensOf(ToSet(routes), vh.routes)
  <2>1. \A k \in 1 .. Len(routes) : routes[k] \in ToSet(routes)
    BY RoutesOfTheHost DEF ToSet
  <2>2. Len(was) \in Nat
    BY <1>1
  <2>3. ASSUME NEW k \in DOMAIN vh.routes, NEW l \in DOMAIN vh.routes, vh.routes[k] \in Token
        PROVE  vh.routes[k] \in ToSet(routes) /\ (vh.routes[l] = vh.routes[k] => k = l)
    <3>1. k \in 1 .. Len(routes)
      BY <1>1, <2>2, <2>3, RoutesOfTheHost
    <3>2. vh.routes[l] = vh.routes[k] => l \in 1 .. Len(routes)
      BY <1>1, <2>2, <2>3, RoutesOfTheHost
    <3> QED BY <1>1, <2>1, <3>1, <3>2, RoutesOfTheHost
  <2> QED BY <2>3 DEF OnlyTokensOf
<1>2. ASSUME NEW j \in 1 .. Len(hosts), vh = hosts[j]
      PROVE  OnlyTokensOf(ToSet(routes), vh.routes)
  <2>1. vh.routes \in Seq({Workload})
    BY <1>0, <1>2 DEF VirtualHost
  <2> QED BY <2>1 DEF OnlyTokensOf
<1>3. CASE Added(merged, hosts, routes)
  <2>1. vh = AcmeHost(routes) \/ \E j \in 1 .. Len(hosts) : vh = hosts[j]
    <3>1. PICK k \in 1 .. 1 + Len(hosts) : vh = merged[k]
      BY <1>0, <1>3 DEF Added, ToSet
    <3>2. CASE k = 1
      BY <1>3, <3>1, <3>2 DEF Added
    <3>3. CASE k # 1
      <4>1. k - 1 \in 1 .. Len(hosts) /\ (k - 1) + 1 = k
        BY <1>0, <3>3
      <4> QED BY <1>3, <3>1, <4>1 DEF Added
    <3> QED BY <3>2, <3>3
  <2>2. << >> \in Seq({Workload}) /\ routes \o << >> = routes
    BY DEF TokenList
  <2>3. vh = AcmeHost(routes) => vh.routes = routes \o << >>
    BY <2>2 DEF AcmeHost
  <2> QED BY <1>1, <1>2, <2>1, <2>2, <2>3
<1>4. CASE Extended(merged, hosts, routes)
  <2>1. PICK k \in 1 .. Len(hosts) : vh = merged[k]
    BY <1>0, <1>4 DEF Extended, ToSet
  <2>2. CASE k = WildHost(hosts)
    <3>1. hosts[k].routes \in Seq({Workload}) /\ vh.routes = routes \o hosts[k].routes
      BY <1>0, <1>4, <2>1, <2>2 DEF Extended, VirtualHost
    <3> QED BY <1>1, <3>1
  <2>3. CASE k # WildHost(hosts)
    BY <1>2, <1>4, <2>1, <2>3 DEF Extended
  <2> QED BY <2>2, <2>3
<1> QED
  BY <1>0, <1>3, <1>4

-----------------------------------------------------------------------------
(* What the merge makes of a filter and of a listener.                     *)

FilterIsFresh(filter, given) ==
  \A vh \in ToSet(filter.hosts) : OnlyTokensOf(given, vh.routes)

LEMMA UntouchedFilter ==
  ASSUME NEW filter \in Filter, NEW given
  PROVE  FilterKept(filter, filter) /\ FilterIsFresh(filter, given)
<1> DEFINE hosts == filter.hosts
<1>1. /\ hosts \in Seq(VirtualHost) /\ Len(hosts) \in Nat /\ DOMAIN hosts = 1 .. Len(hosts)
      /\ [filter EXCEPT !.hosts = hosts] = filter
  BY DEF Filter
<1>2. ASSUME NEW vh \in VirtualHost
      PROVE  /\ vh.routes \in Seq({Workload})
             /\ [vh EXCEPT !.routes = vh.routes] = vh
  BY DEF VirtualHost
<1>3. \A j \in 1 .. Len(hosts) : hosts[j] \in VirtualHost
  BY <1>1
<1>4. FilterIsFresh(filter, given)
  <2> SUFFICES ASSUME NEW vh \in VirtualHost
               PROVE  OnlyTokensOf(given, vh.routes)
    BY <1>1, <1>3 DEF FilterIsFresh, ToSet
  <2>1. vh.routes \in Seq({Workload})
    BY <1>2
  <2>2. \A k \in DOMAIN vh.routes : vh.routes[k] = Workload
    BY <2>1
  <2> QED BY <2>2, WorkloadAssumption DEF OnlyTokensOf
<1>5. HostsKept(hosts, hosts)
  <2>1. \A j \in DOMAIN hosts :
          /\ [hosts[0 + j] EXCEPT !.routes = hosts[j].routes] = hosts[j]
          /\ RoutesKept(hosts[0 + j].routes, hosts[j].routes)
    <3> TAKE j \in DOMAIN hosts
    <3>1. 0 + j = j /\ hosts[j] \in VirtualHost
      BY <1>1, <1>3
    <3>2. RoutesKept(hosts[j].routes, hosts[j].routes)
      BY <1>2, <3>1, NothingIsPut
    <3>3. [hosts[j] EXCEPT !.routes = hosts[j].routes] = hosts[j]
      BY <1>2, <3>1
    <3> QED BY <3>1, <3>2, <3>3
  <2>2. /\ 0 \in 0 .. Len(hosts) /\ Len(hosts) = 0 + Len(hosts)
        /\ 1 .. 0 = {}
    BY <1>1
  <2> HIDE DEF hosts
  <2> QED BY <2>1, <2>2 DEF HostsKept
<1> QED
  BY <1>1, <1>4, <1>5 DEF FilterKept

LEMMA MergedFilter ==
  ASSUME NEW filter \in Filter, NEW routes \in TokenList,
         NEW merged, merged = PrependToFilter(filter, routes)
  PROVE  /\ FilterKept(merged, filter)
         /\ FilterIsFresh(merged, ToSet(routes))
         /\ merged.inline => merged.hosts = PrependToRouteConfig(filter.hosts, routes)
         /\ merged.inline => filter.hosts \in Seq(VirtualHost)
<1>0. filter.hosts \in Seq(VirtualHost) /\ filter.inline \in BOOLEAN
  BY DEF Filter
<1>1. CASE filter.inline
  <2>1. merged = [filter EXCEPT !.hosts = PrependToRouteConfig(filter.hosts, routes)]
    BY <1>1 DEF PrependToFilter
  <2>2. /\ merged.hosts = PrependToRouteConfig(filter.hosts, routes)
        /\ [merged EXCEPT !.hosts = filter.hosts] = filter
    BY <2>1 DEF Filter
  <2>3. HostsKept(merged.hosts, filter.hosts) /\ FilterIsFresh(merged, ToSet(routes))
    BY <1>0, <2>2, MergedHostsKept, MergedHostsAreFresh DEF FilterIsFresh
  <2> QED BY <1>0, <2>2, <2>3 DEF FilterKept
<1>2. CASE ~filter.inline
  <2>1. merged = filter
    BY <1>2 DEF PrependToFilter
  <2> QED BY <1>2, <2>1, UntouchedFilter
<1> QED
  BY <1>0, <1>1, <1>2

ListenerIsFresh(listener, given) ==
  \A filter \in ToSet(listener.filters) : FilterIsFresh(filter, given)

AnswersAll(listener, given) ==
  \A host \in Host :
    \/ HasOwnHost(listener, host)
    \/ \A filter \in ToSet(listener.filters) :
         filter.inline => \A t \in given : Answers(filter.hosts, host, t)

LEMMA MergedListener ==
  ASSUME NEW listener \in Listener, NEW routes \in TokenList,
         NEW merged, merged = PrependToListener(listener, routes)
  PROVE  /\ merged.port = listener.port
         /\ ListenerKept(merged, listener)
         /\ ListenerIsFresh(merged, ToSet(routes))
         /\ AnswersAll(merged, ToSet(routes))
<1>1. /\ merged.port = listener.port
      /\ [merged EXCEPT !.filters = listener.filters] = listener
      /\ merged.filters = [i \in DOMAIN listener.filters |->
                             PrependToFilter(listener.filters[i], routes)]
  BY DEF PrependToListener, Listener
<1>2. \A i \in DOMAIN listener.filters : listener.filters[i] \in Filter
  BY DEF Listener
<1>3. ListenerKept(merged, listener)
  BY <1>1, <1>2, MergedFilter DEF ListenerKept
<1>4. DOMAIN merged.filters = DOMAIN listener.filters
  BY <1>1
<1>5. ASSUME NEW filter \in ToSet(merged.filters)
      PROVE  \E was \in Filter : filter = PrependToFilter(was, routes)
  BY <1>1, <1>2, <1>4, <1>5 DEF ToSet
<1>6. ListenerIsFresh(merged, ToSet(routes))
  BY <1>5, MergedFilter DEF ListenerIsFresh
<1>7. AnswersAll(merged, ToSet(routes))
  <2> SUFFICES ASSUME NEW host \in Host, ~HasOwnHost(merged, host),
                      NEW filter \in ToSet(merged.filters), filter.inline,
                      NEW t \in ToSet(routes)
               PROVE  Answers(filter.hosts, host, t)
    BY DEF AnswersAll
  <2>1. PICK was \in Filter : filter = PrependToFilter(was, routes)
    BY <1>5
  <2>2. /\ was.hosts \in Seq(VirtualHost)
        /\ filter.hosts = PrependToRouteConfig(was.hosts, routes)
    BY <2>1, MergedFilter
  <2>3. DOMAIN filter.hosts = 1 .. Len(filter.hosts)
    BY <2>2, PrependedHosts DEF Added, Extended
  <2>4. \A j \in 1 .. Len(filter.hosts) : host \notin filter.hosts[j].domains
    BY <2>3 DEF HasOwnHost, ToSet
  <2> QED BY <2>2, <2>4, MergedHostsAnswer
<1> QED
  BY <1>1, <1>3, <1>6, <1>7

LEMMA WorkloadListener ==
  ASSUME NEW listener \in Listener, NEW given
  PROVE  ListenerKept(listener, listener) /\ ListenerIsFresh(listener, given)
<1>1. /\ [listener EXCEPT !.filters = listener.filters] = listener
      /\ \A i \in DOMAIN listener.filters : listener.filters[i] \in Filter
  BY DEF Listener
<1> QED
  BY <1>1, UntouchedFilter DEF ListenerKept, ListenerIsFresh, ToSet

-----------------------------------------------------------------------------
(* The listeners.                                                          *)

\* The listener made for the challenges is a merge into one without routes.
EmptyFilter   == [inline |-> TRUE, hosts |-> << >>]
EmptyListener == [port |-> AcmePort, filters |-> << EmptyFilter >>]

LEMMA ListenerForChallenges ==
  ASSUME NEW routes \in TokenList
  PROVE  /\ EmptyListener \in Listener
         /\ AcmeListener(routes) = PrependToListener(EmptyListener, routes)
<1>1. EmptyFilter \in Filter
  <2>1. << >> \in Seq(VirtualHost)
    OBVIOUS
  <2> QED BY <2>1 DEF EmptyFilter, Filter
<1>2. EmptyListener \in Listener
  <2>1. << EmptyFilter >> \in Seq(Filter)
    BY <1>1
  <2> QED BY <2>1, PortAssumption DEF EmptyListener, Listener
<1>3. WildHost(<< >>) = 0
  <2>1. Len(<< >>) = 0
    OBVIOUS
  <2> QED BY <2>1, WildHostFinds
<1>4. PrependToRouteConfig(<< >>, routes) = << AcmeHost(routes) >>
  <2>1. << AcmeHost(routes) >> \o << >> = << AcmeHost(routes) >>
    OBVIOUS
  <2> QED BY <1>3, <2>1 DEF PrependToRouteConfig
<1>5. PrependToFilter(EmptyFilter, routes) =
        [inline |-> TRUE, hosts |-> << AcmeHost(routes) >>]
  BY <1>4 DEF PrependToFilter, EmptyFilter
<1>6. [i \in DOMAIN << EmptyFilter >> |-> PrependToFilter(<< EmptyFilter >>[i], routes)]
        = << PrependToFilter(EmptyFilter, routes) >>
  OBVIOUS
<1>7. PrependToListener(EmptyListener, routes) =
        [port |-> AcmePort, filters |-> << PrependToFilter(EmptyFilter, routes) >>]
  BY <1>6 DEF PrependToListener, EmptyListener
<1> QED
  BY <1>2, <1>5, <1>7 DEF AcmeListener

\* Without challenges nothing is merged; with some, a listener is added at the
\* end, or the first listener on the port gets the routes.
AtEnd(merged, base, routes) ==
  /\ \A j \in 1 .. Len(base) : ~IsOnPort(base[j])
  /\ DOMAIN merged = 1 .. Len(merged) /\ Len(merged) = Len(base) + 1
  /\ merged[Len(base) + 1] = PrependToListener(EmptyListener, routes)
  /\ \A j \in 1 .. Len(base) : merged[j] = base[j]

AtPort(merged, base, routes, i) ==
  /\ DOMAIN merged = 1 .. Len(merged) /\ Len(merged) = Len(base)
  /\ IsOnPort(base[i]) /\ \A j \in 1 .. i - 1 : ~IsOnPort(base[j])
  /\ merged[i] = PrependToListener(base[i], routes)
  /\ \A j \in 1 .. Len(base) : j # i => merged[j] = base[j]

LEMMA MergedListeners ==
  ASSUME NEW base \in Seq(Listener), NEW routes \in TokenList,
         NEW merged, merged = MergeListeners(base, routes)
  PROVE  \/ routes = << >> /\ merged = base
         \/ routes # << >> /\ AtEnd(merged, base, routes)
         \/ routes # << >> /\ \E i \in 1 .. Len(base) : AtPort(merged, base, routes, i)
<1> DEFINE i == FirstOnPort(base)
<1>0. Len(base) \in Nat /\ DOMAIN base = 1 .. Len(base)
  OBVIOUS
<1>1. \/ i = 0 /\ \A j \in 1 .. Len(base) : ~IsOnPort(base[j])
      \/ i \in 1 .. Len(base) /\ IsOnPort(base[i]) /\ \A j \in 1 .. i - 1 : ~IsOnPort(base[j])
  BY <1>0, FirstOnPortFinds
<1>2. CASE routes = << >>
  BY <1>2 DEF MergeListeners
<1>3. CASE routes # << >> /\ i = 0
  <2>1. merged = Append(base, PrependToListener(EmptyListener, routes))
    BY <1>3, ListenerForChallenges DEF MergeListeners
  <2>2. /\ DOMAIN merged = 1 .. Len(merged) /\ Len(merged) = Len(base) + 1
        /\ merged[Len(base) + 1] = PrependToListener(EmptyListener, routes)
        /\ \A j \in 1 .. Len(base) : merged[j] = base[j]
    BY <1>0, <2>1
  <2>3. \A j \in 1 .. Len(base) : ~IsOnPort(base[j])
    BY <1>0, <1>1, <1>3
  <2> QED BY <1>3, <2>2, <2>3 DEF AtEnd
<1>4. CASE routes # << >> /\ i \in 1 .. Len(base)
  <2>1. i # 0
    BY <1>0, <1>4
  <2>2. merged = [base EXCEPT ![i] = PrependToListener(base[i], routes)]
    BY <1>4, <2>1 DEF MergeListeners
  <2> HIDE DEF i
  <2>3. /\ DOMAIN merged = 1 .. Len(merged) /\ Len(merged) = Len(base)
        /\ merged[i] = PrependToListener(base[i], routes)
        /\ \A j \in 1 .. Len(base) : j # i => merged[j] = base[j]
    BY <1>0, <1>4, <2>2
  <2>4. AtPort(merged, base, routes, i)
    BY <1>1, <2>1, <2>3 DEF AtPort
  <2> QED BY <1>4, <2>4
<1> QED
  BY <1>1, <1>2, <1>3, <1>4

\* The listener that Envoy gets the challenges through: the first on the port.
LEMMA ListenerThatAnswers ==
  ASSUME NEW base \in Seq(Listener), NEW routes \in TokenList, routes # << >>,
         NEW merged, merged = MergeListeners(base, routes)
  PROVE  /\ FirstOnPort(merged) # 0
         /\ AnswersAll(merged[FirstOnPort(merged)], ToSet(routes))
<1> DEFINE k == FirstOnPort(merged)
<1>0. Len(base) \in Nat /\ \A j \in 1 .. Len(base) : base[j] \in Listener
  OBVIOUS
<1>1. CASE AtEnd(merged, base, routes)
  <2>1. merged[Len(base) + 1].port = AcmePort /\ AnswersAll(merged[Len(base) + 1], ToSet(routes))
    <3>1. EmptyListener \in Listener /\ EmptyListener.port = AcmePort
      BY ListenerForChallenges DEF EmptyListener
    <3>2. merged[Len(base) + 1] = PrependToListener(EmptyListener, routes)
      BY <1>1 DEF AtEnd
    <3> QED BY <3>1, <3>2, MergedListener
  <2>2. \A j \in 1 .. Len(base) : ~IsOnPort(merged[j])
    BY <1>1 DEF AtEnd
  <2>3. Len(merged) = Len(base) + 1
    BY <1>1 DEF AtEnd
  <2>4. k = Len(base) + 1
    <3>1. \/ k = 0 /\ \A j \in 1 .. Len(merged) : ~IsOnPort(merged[j])
          \/ k \in 1 .. Len(merged) /\ IsOnPort(merged[k])
      BY <1>0, <2>3, FirstOnPortFinds
    <3>2. Len(base) + 1 \in 1 .. Len(merged) /\ IsOnPort(merged[Len(base) + 1])
      BY <1>0, <2>1, <2>3 DEF IsOnPort
    <3> HIDE DEF k
    <3> QED BY <1>0, <2>2, <2>3, <3>1, <3>2
  <2>5. k # 0
    BY <1>0, <2>4
  <2> QED BY <2>1, <2>4, <2>5
<1>2. ASSUME NEW i \in 1 .. Len(base), AtPort(merged, base, routes, i)
      PROVE  k # 0 /\ AnswersAll(merged[k], ToSet(routes))
  <2>1. merged[i].port = base[i].port /\ AnswersAll(merged[i], ToSet(routes))
    BY <1>0, <1>2, MergedListener DEF AtPort
  <2>2. IsOnPort(merged[i]) /\ \A j \in 1 .. i - 1 : ~IsOnPort(merged[j])
    <3>1. \A j \in 1 .. i - 1 : j \in 1 .. Len(base) /\ j # i
      BY <1>0
    <3> QED BY <1>2, <2>1, <3>1 DEF AtPort, IsOnPort
  <2>3. Len(merged) = Len(base)
    BY <1>2 DEF AtPort
  <2>4. k = i
    <3>1. \/ k = 0 /\ \A j \in 1 .. Len(merged) : ~IsOnPort(merged[j])
          \/ /\ k \in 1 .. Len(merged) /\ IsOnPort(merged[k])
             /\ \A j \in 1 .. k - 1 : ~IsOnPort(merged[j])
      BY <1>0, <2>3, FirstOnPortFinds
    <3> HIDE DEF k
    <3>2. k \in 1 .. Len(base) /\ ~(k < i) /\ ~(i < k)
      BY <1>0, <2>2, <2>3, <3>1
    <3> QED BY <1>0, <3>2
  <2>5. k # 0
    BY <1>0, <2>4
  <2> QED BY <2>1, <2>4, <2>5
<1> QED
  BY <1>1, <1>2, MergedListeners

\* A merge keeps the listeners of the workload, in their places, and routes the
\* given challenges and no others.
LEMMA MergedListenersKept ==
  ASSUME NEW base \in Seq(Listener), NEW routes \in TokenList,
         NEW merged, merged = MergeListeners(base, routes)
  PROVE  /\ Len(merged) \in {Len(base), Len(base) + 1}
         /\ \A j \in DOMAIN base : ListenerKept(merged[j], base[j])
         /\ Len(merged) > Len(base) => \A j \in DOMAIN base : base[j].port # AcmePort
         /\ \A listener \in ToSet(merged) : ListenerIsFresh(listener, ToSet(routes))
<1>0. /\ Len(base) \in Nat /\ DOMAIN base = 1 .. Len(base)
      /\ \A j \in 1 .. Len(base) : base[j] \in Listener
  OBVIOUS
<1>1. \A j \in 1 .. Len(base) :
        ListenerKept(base[j], base[j]) /\ ListenerIsFresh(base[j], ToSet(routes))
  BY <1>0, WorkloadListener
<1>2. CASE merged = base
  <2>1. \A listener \in ToSet(base) : \E j \in 1 .. Len(base) : listener = base[j]
    BY <1>0 DEF ToSet
  <2>2. Len(merged) = Len(base) /\ ~(Len(base) > Len(base))
    BY <1>0, <1>2
  <2> QED BY <1>0, <1>1, <1>2, <2>1, <2>2
<1>3. CASE AtEnd(merged, base, routes)
  <2>1. ListenerIsFresh(merged[Len(base) + 1], ToSet(routes))
    BY <1>3, ListenerForChallenges, MergedListener DEF AtEnd
  <2>2. \A listener \in ToSet(merged) : ListenerIsFresh(listener, ToSet(routes))
    <3> TAKE listener \in ToSet(merged)
    <3>1. PICK j \in 1 .. Len(base) + 1 : listener = merged[j]
      BY <1>3 DEF ToSet, AtEnd
    <3>2. j \in 1 .. Len(base) \/ j = Len(base) + 1
      BY <1>0
    <3> QED BY <1>1, <1>3, <2>1, <3>1, <3>2 DEF AtEnd
  <2> QED BY <1>0, <1>1, <1>3, <2>2 DEF AtEnd, IsOnPort
<1>4. ASSUME NEW i \in 1 .. Len(base), AtPort(merged, base, routes, i)
      PROVE  /\ Len(merged) = Len(base)
             /\ \A j \in DOMAIN base : ListenerKept(merged[j], base[j])
             /\ \A listener \in ToSet(merged) : ListenerIsFresh(listener, ToSet(routes))
  <2>1. ListenerKept(merged[i], base[i]) /\ ListenerIsFresh(merged[i], ToSet(routes))
    BY <1>0, <1>4, MergedListener DEF AtPort
  <2>2. \A j \in 1 .. Len(base) :
          ListenerKept(merged[j], base[j]) /\ ListenerIsFresh(merged[j], ToSet(routes))
    BY <1>1, <1>4, <2>1 DEF AtPort
  <2>3. Len(merged) = Len(base) /\ DOMAIN merged = 1 .. Len(base)
    BY <1>4 DEF AtPort
  <2> QED BY <1>0, <2>2, <2>3 DEF ToSet
<1>5. ASSUME NEW i \in 1 .. Len(base), AtPort(merged, base, routes, i)
      PROVE  Len(merged) \in {Len(base), Len(base) + 1} /\ ~(Len(merged) > Len(base))
  BY <1>0, <1>4, <1>5
<1> QED
  BY <1>2, <1>3, <1>4, <1>5, MergedListeners

-----------------------------------------------------------------------------
(* The challenges are reachable (merge.rs:27-77): whatever the workload    *)
(* and in whatever order the challenges are listed, the first listener on  *)
(* the challenge port answers each of them, before every route of the      *)
(* workload, for all hosts that have no virtual host of their own.         *)
THEOREM ChallengesAreAnswered == Spec => []ChallengesAnswered
<1>1. Inv => ChallengesAnswered
  <2> SUFFICES ASSUME Inv, built # {} PROVE ChallengesAnswered
    BY DEF ChallengesAnswered
  <2>1. PICK routes \in TokenList :
          built = ToSet(routes) /\ listeners = MergeListeners(workload, routes)
    BY DEF Inv
  <2>2. workload \in Seq(Listener)
    BY WorkloadsAssumption DEF Inv
  <2>3. routes # << >>
    BY <2>1 DEF ToSet
  <2>4. /\ FirstOnPort(listeners) # 0
        /\ AnswersAll(listeners[FirstOnPort(listeners)], built)
    BY <2>1, <2>2, <2>3, ListenerThatAnswers
  <2> QED BY <2>4 DEF ChallengesAnswered, AnswersAll, ListenerAnswers, FilterAnswers
<1> QED
  BY <1>1, InvHolds, PTL

(* The merge is exact (merge.rs:36-77): the listeners are those of the     *)
(* workload with the routes of the challenges they were built from, each   *)
(* once, and nothing of the workload or of earlier challenges is lost,     *)
(* repeated or left over.                                                  *)
THEOREM TheMergeIsExact == Spec => []MergeIsExact
<1>1. Inv => MergeIsExact
  <2> SUFFICES ASSUME Inv PROVE MergeIsExact
    OBVIOUS
  <2>1. PICK routes \in TokenList :
          built = ToSet(routes) /\ listeners = MergeListeners(workload, routes)
    BY DEF Inv
  <2>2. workload \in Seq(Listener)
    BY WorkloadsAssumption DEF Inv
  <2>3. WorkloadIntact
    BY <2>1, <2>2, MergedListenersKept DEF WorkloadIntact
  <2>4. \A listener \in ToSet(listeners) : ListenerIsFresh(listener, built)
    BY <2>1, <2>2, MergedListenersKept
  <2>5. NoStaleRoutes
    BY <2>4 DEF NoStaleRoutes, ListenerIsFresh, FilterIsFresh, OnlyTokensOf
  <2> QED BY <2>3, <2>5 DEF MergeIsExact
<1> QED
  BY <1>1, InvHolds, PTL
=============================================================================
