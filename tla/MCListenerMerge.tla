---------------------------- MODULE MCListenerMerge ----------------------------
(* Small workloads for ListenerMerge: up to two listeners, each with up to *)
(* two filters that hold up to two virtual hosts.                          *)
EXTENDS ListenerMerge

CONSTANTS h1, AppPort

Of(domains) == [name |-> "workload", domains |-> domains, routes |-> << Workload >>]

RouteConfigs ==
  {<< >>, << Of({Wildcard}) >>, << Of({h1}) >>,
   << Of({Wildcard}), Of({h1}) >>, << Of({h1}), Of({Wildcard}) >>}

Inline == {[inline |-> TRUE, hosts |-> hosts] : hosts \in RouteConfigs}
Opaque == [inline |-> FALSE, hosts |-> << >>]

Filters ==
  {<< f >> : f \in Inline \union {Opaque}}
    \union {<< Opaque, f >> : f \in Inline} \union {<< f, f >> : f \in Inline}

SmallPorts == {AcmePort, AppPort}

SmallWorkloads == SeqOf([port : SmallPorts, filters : Filters], 2)
================================================================================
