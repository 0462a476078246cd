---------------------------- MODULE ProxyService ----------------------------
(***************************************************************************)
(* What a proxy node promises its operator, with no word about how.        *)
(*                                                                         *)
(* The control plane publishes one bundle after another; a node serves the *)
(* squid.conf of one of them, or nothing.  The promise of README.md's      *)
(* section on nodes ("a broken configuration is never applied", "policy    *)
(* changes converge on their own") is, on the safety side, that            *)
(*   - what is served was published and passed `squid -k parse`, and       *)
(*   - a node that has served some version never goes back to an earlier   *)
(*     one, whatever crashes, failures and restarts happen in between.     *)
(* NodeAgent implements this module.                                       *)
(***************************************************************************)
EXTENDS Naturals, Sequences

CONSTANTS
  Bundles,     \* what the control plane can compile, up to configurationHash
  Rejected     \* the bundles whose squid.conf `squid -k parse` refuses

VARIABLES
  published,   \* every bundle the control plane has stood for, oldest first
  served,      \* the index of the squid.conf being served, 0 when none is
  newest       \* the largest index served so far, 0 before the first

vars == <<published, served, newest>>

Init ==
  /\ \E b \in Bundles : published = <<b>>
  /\ served = 0
  /\ newest = 0

\* An administrator changes something the compiler reads.
Publish(b) ==
  /\ published' = Append(published, b)
  /\ UNCHANGED <<served, newest>>

\* The node takes over some valid version, not older than what it had before.
Serve(v) ==
  /\ published[v] \notin Rejected
  /\ served' = v
  /\ newest' = v
  /\ UNCHANGED published

\* Squid exits, or the machine it runs on does.
Stop ==
  /\ served' = 0
  /\ UNCHANGED <<published, newest>>

Next ==
  \/ \E b \in Bundles : Publish(b)
  \/ \E v \in 1..Len(published) : v >= newest /\ Serve(v)
  \/ Stop

Spec == Init /\ [][Next]_vars
=============================================================================
