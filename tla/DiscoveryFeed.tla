---------------------------- MODULE DiscoveryFeed ----------------------------
(***************************************************************************)
(* What an xDS stream promises its client, with no version numbers, no     *)
(* notification channel and no half-finished reads: updates of a resource  *)
(* type are stored and then acknowledged (the update_* call returns); an   *)
(* open stream hands out contents at least as new as everything            *)
(* acknowledged so far, and does not leave an acknowledged update          *)
(* undelivered for ever.                                                   *)
(*                                                                         *)
(* The contents of a resource type are identified by the number of times   *)
(* they have been replaced.                                                *)
(***************************************************************************)
EXTENDS Integers

CONSTANTS Resource, Stream,
          Kind           \* the resource type a stream carries

VARIABLES contents,      \* number of replacements stored
          acked,         \* number of replacements whose caller was answered
          open,          \* the streams a client may still get responses on
          view           \* the contents each client holds

vars == << contents, acked, open, view >>

Init ==
  /\ contents = [r \in Resource |-> 0]
  /\ acked = [r \in Resource |-> 0]
  /\ open = {}
  /\ view = [s \in Stream |-> 0]

Store(r) ==
  /\ contents[r] = acked[r]
  /\ contents' = [contents EXCEPT ![r] = @ + 1]
  /\ UNCHANGED << acked, open, view >>

Acknowledge(r) ==
  /\ acked' = [acked EXCEPT ![r] = contents[r]]
  /\ UNCHANGED << contents, open, view >>

Open(s) ==
  /\ s \notin open
  /\ open' = open \union {s}
  /\ UNCHANGED << contents, acked, view >>

Close(s) ==
  /\ s \in open
  /\ open' = open \ {s}
  /\ UNCHANGED << contents, acked, view >>

\* A response, after which a one-shot request is over and a stream is not.
Deliver(s) ==
  /\ s \in open
  /\ \E c \in acked[Kind[s]] .. contents[Kind[s]] :
        /\ c >= view[s]
        /\ view' = [view EXCEPT ![s] = c]
  /\ open' \in {open, open \ {s}}
  /\ UNCHANGED << contents, acked >>

Next ==
  \/ \E r \in Resource : Store(r) \/ Acknowledge(r)
  \/ \E s \in Stream : Open(s) \/ Close(s) \/ Deliver(s)

Outdated(s) == s \in open /\ view[s] < acked[Kind[s]]

\* A client that is behind is brought up to date, or its stream is closed.
CatchUp(s) == Outdated(s) /\ (Deliver(s) \/ Close(s))

Safety == Init /\ [][Next]_vars

Spec == Safety /\ \A s \in Stream : WF_vars(CatchUp(s))
=============================================================================
