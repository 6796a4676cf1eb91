------------------------------ MODULE Broadcast ------------------------------
(***************************************************************************)
(* The tokio broadcast channel, as src/xds/state.rs uses it (external).    *)
(*                                                                         *)
(* XdsState creates one channel of capacity 16 (state.rs:33), sends a u64  *)
(* on it in bump_version and notify_change, and hands out receivers from   *)
(* subscribe.  No receiver ever looks at the number it gets: each of the   *)
(* four receive loops is  while rx.recv().await.is_ok() { ... }.  What is  *)
(* left of the channel is therefore, per receiver, how many values it has  *)
(* not read yet.  A receiver that falls more than Capacity values behind   *)
(* gets Err(Lagged) from its next recv, which is_ok() turns into false.    *)
(***************************************************************************)
EXTENDS Integers

CONSTANT Capacity       \* number of values the channel retains

ASSUME CapacityAssumption == Capacity \in Nat \ {0}

Unsubscribed == -1      \* there is no receiver: a send does not reach it
Lagged == Capacity + 1  \* values were overwritten before they were read

Backlog == Unsubscribed .. Lagged

(***************************************************************************)
(* One send, as it shows in the backlog of one receiver and of all.        *)
(***************************************************************************)
\* Mutant: the channel keeps every value.
AfterSendUnbounded(n) == IF n = Unsubscribed THEN n ELSE n + 1

AfterSend(n) == IF n \in {Unsubscribed, Lagged} THEN n ELSE n + 1

Send(backlog) == [r \in DOMAIN backlog |-> AfterSend(backlog[r])]

Subscribe(backlog, r) == [backlog EXCEPT ![r] = 0]

Drop(backlog, r) == [backlog EXCEPT ![r] = Unsubscribed]

CanReceive(backlog, r) == backlog[r] \in 1 .. Capacity  \* recv returns Ok

Recv(backlog, r) == [backlog EXCEPT ![r] = @ - 1]

HasLagged(backlog, r) == backlog[r] = Lagged            \* recv returns Err
=============================================================================
