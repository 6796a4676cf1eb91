------------------------------ MODULE ConfigLoad ------------------------------
(***************************************************************************)
(* What becomes of a configuration file: validate_config (config/loader.rs)*)
(* and the conversion of the workload (config/deserialize.rs).             *)
(*                                                                         *)
(* A configuration has certificates, each with a name and domains, a       *)
(* socket path and a storage directory that may be missing or empty, an    *)
(* ACME directory, and the workload: listeners and clusters.  A name or    *)
(* domain is a number that orders like its string; 0 is the empty string.  *)
(*                                                                         *)
(* A listener is its filter chains, which have network filters and a       *)
(* transport socket, and the rest: its listener filters, access logs and   *)
(* default filter chain.  All these, like the HTTP filters in a connection *)
(* manager, are typed configs: expanded (with "@type"), binary, or absent, *)
(* of a type, with certain fields set, and with the HTTP filters inside.   *)
(* Of fields the model tells apart the ones that matter: "bad" does not    *)
(* parse, "other" is not in the program's own minimal message types,       *)
(* "beside" stands next to the typed config and not in it.                 *)
(*                                                                         *)
(* Serde and pbjson are external.  Whether they take an expanded typed     *)
(* config where the program converts none is left open.                    *)
(***************************************************************************)
EXTENDS Integers, Sequences, SequencesExt

Certificate == [name : Nat, domains : Seq(Nat)]

\* Typed configs; most have nothing inside.
TypedConfig(insides) ==
  [type : STRING, form : {"expanded", "binary", "absent"},
   fields : SUBSET {"bad", "other", "beside"}, inner : insides]

HttpFilter == TypedConfig({<< >>})
NetworkFilter == TypedConfig(Seq(HttpFilter))
FilterChain == [filters : Seq(NetworkFilter), socket : TypedConfig({<< >>})]
Listener == [chains : Seq(FilterChain), rest : Seq(TypedConfig({<< >>}))]

Configuration(directories) ==
  [certificates : Seq(Certificate),
   socket : {"none", "empty", "given"}, storage : {"empty", "given"}, directory : directories,
   listeners : Seq(Listener), clusters : Seq({"plain", "extended", "bad"})]

-----------------------------------------------------------------------------
(* validate_config.                                                        *)

Empty == 0

\* What sort() makes of the names; NeighboursTellDuplicates rests on it.
IsAscending(s) == \A i, j \in DOMAIN s : i < j => s[i] <= s[j]

\* names.sort(): the names in another order, which is ascending.
Rearranged(s, p) == [i \in DOMAIN s |-> s[p[i]]]
Sorted(s) ==
  CHOOSE t \in {Rearranged(s, p) : p \in Bijection(DOMAIN s, DOMAIN s)} : IsAscending(t)

\* windows(2): some value is equal to the one after it.
HasEqualNeighbours(s) == \E i \in 1 .. Len(s) - 1 : s[i] = s[i + 1]

NamesOf(certs) == [i \in DOMAIN certs |-> certs[i].name]

\* Mutant: the names are compared as they are listed.
UnsortedCertificatesPass(certs) ==
  /\ certs # << >>
  /\ \A i \in DOMAIN certs :
       /\ certs[i].name # Empty
       /\ certs[i].domains # << >>
       /\ Empty \notin ToSet(certs[i].domains)
  /\ ~HasEqualNeighbours(NamesOf(certs))

CertificatesPass(certs) ==
  /\ certs # << >>
  /\ \A i \in DOMAIN certs :
       /\ certs[i].name # Empty
       /\ certs[i].domains # << >>
       /\ Empty \notin ToSet(certs[i].domains)
  /\ ~HasEqualNeighbours(Sorted(NamesOf(certs)))

ValidateConfig(config) ==
  /\ CertificatesPass(config.certificates)
  /\ config.socket # "empty"          \* a missing one is fine
  /\ config.storage # "empty"

-----------------------------------------------------------------------------
(* deserialize_listener and deserialize_clusters.  What cannot be parsed,  *)
(* or is of a type the program does not encode, becomes "failed"; nothing  *)
(* is served then, as the first error of a conversion is returned.         *)

Parses(t) == "bad" \notin t.fields

Fail(t) == [t EXCEPT !.form = "failed"]

\* A converted filter or socket is a name and a typed config, without what
\* stood beside it; the minimal messages have a few of their fields.
LostFields(type) == {"beside"} \union IF type \in {"tcp_proxy", "tls"} THEN {"other"} ELSE {}

Encode(t) == [t EXCEPT !.form = "binary", !.fields = @ \ LostFields(t.type)]

\* What an expanded typed config becomes, if only these types are encoded.
EncodeIf(t, types) ==
  IF ~Parses(t) \/ (t.form = "expanded" /\ t.type \notin types) THEN Fail(t)
  ELSE IF t.form = "expanded" THEN Encode(t)
  ELSE t

ConvertHttpFilter(t) == EncodeIf(t, {"router"})

\* Mutant: the HTTP filters are left as they are.
ConvertFilterOutside(t) == EncodeIf(t, {"hcm", "tcp_proxy"})

\* The HTTP filters in a binary connection manager are bytes like the rest.
ConvertFilter(t) ==
  LET inner == [i \in DOMAIN t.inner |-> ConvertHttpFilter(t.inner[i])]
  IN  IF t.form # "expanded" THEN EncodeIf(t, {})
      ELSE IF \E i \in DOMAIN inner : inner[i].form = "failed" THEN Fail(t)
      ELSE [EncodeIf(t, {"hcm", "tcp_proxy"}) EXCEPT !.inner = inner]

\* A socket of another type is left to the parser.
ConvertSocket(t) == IF t.type = "tls" \/ ~Parses(t) THEN EncodeIf(t, {"tls"}) ELSE t

ConvertChain(chain) ==
  [filters |-> [i \in DOMAIN chain.filters |-> ConvertFilter(chain.filters[i])],
   socket  |-> ConvertSocket(chain.socket)]

\* Nothing but the filter chains is looked at before the listener is parsed.
ConvertListener(listener) ==
  [listener EXCEPT !.chains = [i \in DOMAIN @ |-> ConvertChain(@[i])]]

ConvertListeners(listeners) ==
  [i \in DOMAIN listeners |-> ConvertListener(listeners[i])]

-----------------------------------------------------------------------------
(* parse_listeners and parse_clusters.                                     *)

ChainParses(chain) ==
  /\ \A i \in DOMAIN chain.filters : chain.filters[i].form # "failed"
  /\ chain.socket.form # "failed"

ListenerParses(listener) ==
  /\ \A i \in DOMAIN listener.chains : ChainParses(listener.chains[i])
  /\ \A i \in DOMAIN listener.rest : Parses(listener.rest[i])

\* Whether they succeed, if the typed configs that are left expanded are taken.
WorkloadParses(config) ==
  /\ \A i \in DOMAIN config.listeners : ListenerParses(ConvertListeners(config.listeners)[i])
  /\ "bad" \notin ToSet(config.clusters)

\* Typed configs that no conversion reaches: sockets of other types, the rest
\* of a listener, and the extensions of clusters.
IsPlain(listener) ==
  /\ \A i \in DOMAIN listener.chains :
       listener.chains[i].socket.form = "expanded" => listener.chains[i].socket.type = "tls"
  /\ \A i \in DOMAIN listener.rest : listener.rest[i].form # "expanded"

WorkloadIsPlain(config) ==
  /\ \A i \in DOMAIN config.listeners : IsPlain(config.listeners[i])
  /\ "extended" \notin ToSet(config.clusters)
=============================================================================
