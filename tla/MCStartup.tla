------------------------------- MODULE MCStartup -------------------------------
(* Small configurations for Startup: all short lists of certificates with a *)
(* plain workload, and all small workloads with one certificate.            *)
EXTENDS Startup

CONSTANTS d1, d2

Cert(name, domains) == [name |-> name, domains |-> domains]

CertLists ==
  SeqOf({Cert(n, << 1 >>) : n \in 0 .. 3}, 3)
    \union {<< Cert(1, ds) >> : ds \in SeqOf(0 .. 2, 2)}
    \union {<< Cert(1, << 1 >>), Cert(2, ds) >> : ds \in SeqOf({0, 1}, 2)}

Typed(type, form, fields, inner) ==
  [type |-> type, form |-> form, fields |-> fields, inner |-> inner]

Absent(type) == Typed(type, "absent", {}, << >>)

Http ==
  {Absent("router"), Typed("router", "binary", {}, << >>)}
    \union {Typed(ty, "expanded", fs, << >>) : ty \in {"router", "lua"}, fs \in {{}, {"bad"}, {"beside"}}}

Filters ==
  {Absent("hcm"), Typed("rbac", "binary", {}, << >>)}
    \union {Typed(ty, "expanded", fs, << >>) : ty \in {"tcp_proxy", "rbac"}, fs \in {{}, {"bad"}, {"other"}}}
    \union {Typed("hcm", "expanded", fs, inner) : fs \in {{}, {"bad"}}, inner \in SeqOf(Http, 1)}
    \union {Typed("hcm", "expanded", {}, << Typed("router", "expanded", {}, << >>), h >>) : h \in Http}

Sockets ==
  {Absent("tls"), Typed("quic", "expanded", {}, << >>)}
    \union {Typed("tls", form, fs, << >>) : form \in {"expanded", "binary"}, fs \in {{}, {"other"}, {"beside"}}}
    \union {Typed("tls", "expanded", {"bad"}, << >>)}

Chain(filters, socket) == [filters |-> filters, socket |-> socket]

PlainFilter == Typed("tcp_proxy", "expanded", {}, << >>)
PlainChain == Chain(<< PlainFilter >>, Absent("tls"))

Rests == {<< Typed("tls_inspector", form, fs, << >>) >> : form \in {"expanded", "binary"}, fs \in {{}, {"bad"}}}

MCListener(chains, rest) == [chains |-> chains, rest |-> rest]
Plain(chains) == MCListener(chains, << >>)

Workloads ==
  {<< >>}
    \union {<< Plain(<< Chain(<< f >>, Absent("tls")) >>) >> : f \in Filters}
    \union {<< Plain(<< Chain(<< PlainFilter, f >>, s) >>) >> : f \in {PlainFilter, Absent("hcm")}, s \in Sockets}
    \union {<< Plain(<< PlainChain, Chain(<< f >>, Absent("tls")) >>), Plain(<< PlainChain >>) >> : f \in Filters}
    \union {<< MCListener(<< PlainChain >>, rest) >> : rest \in Rests}

Config(certs, socket, storage, listeners, clusters) ==
  [certificates |-> certs, socket |-> socket, storage |-> storage, directory |-> d1,
   listeners |-> listeners, clusters |-> clusters]

PlainCerts == << Cert(1, << 1 >>) >>

SmallConfigs ==
  {Config(certs, "given", "given", << >>, << >>) : certs \in CertLists}
    \union {Config(PlainCerts, s, d, << >>, << >>) : s \in {"none", "empty", "given"}, d \in {"empty", "given"}}
    \union {Config(PlainCerts, "given", "given", ls, << "plain" >>) : ls \in Workloads}
    \union {Config(PlainCerts, "given", "given", << >>, << "plain", c >>) : c \in {"plain", "extended", "bad"}}
================================================================================
