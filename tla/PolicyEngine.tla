---------------------------- MODULE PolicyEngine -----------------------------
(***************************************************************************)
(* The intermediate representation of a policy and what it means: the      *)
(* reference semantics of the product (packages/shared/src/policy/ir.ts    *)
(* and engine.ts).                                                         *)
(*                                                                         *)
(* A network is the set of addresses its CIDRs cover, and a group the set  *)
(* of its active members.  A source matcher of kind ANY is the empty set   *)
(* of networks: buildIr never produces NETWORKS without one.  Hosts are    *)
(* the destinations requests name; `domains` and `cidrs` are the ones the  *)
(* entries of a rule cover.  Rules are in evaluation order.  Schedules are *)
(* left out: every rule applies always.                                    *)
(***************************************************************************)
EXTENDS Integers, Sequences

CONSTANTS
  Addresses,   \* client addresses
  Public,      \* those outside private address space
  Users,
  Anonymous,   \* a client that presents no credentials
  Hosts,
  Literals,    \* hosts given as an IP address rather than a name
  Ports,
  NListeners   \* listener profiles that apply to the node, in file order

ASSUME EngineAssumption ==
  /\ Public \subseteq Addresses
  /\ Anonymous \notin Users
  /\ Literals \subseteq Hosts
  /\ NListeners \in Nat

Listeners == 1..NListeners
Modes == {"DISABLED", "OPTIONAL", "REQUIRED"}
Actions == {"ALLOW", "DENY"}
\* The schema takes no network without a CIDR.
Networks == (SUBSET Addresses) \ {{}}

\* `lists` holds the user list of USER, and one list per group of GROUP.
Identities ==
  [kind : {"ANY", "AUTHENTICATED", "UNAUTHENTICATED", "USER", "GROUP"},
   lists : SUBSET (SUBSET Users)]

Destinations ==
  [kind : {"ANY", "SPECIFIC"}, domains : SUBSET Hosts, cidrs : SUBSET Hosts,
   ports : SUBSET Ports]

Rules ==
  [enabled : BOOLEAN, action : Actions, source : SUBSET Networks,
   identity : Identities, destination : Destinations]

\* A profile that is disabled, deleted or of another node group is not enabled.
IrListeners ==
  [enabled : BOOLEAN, auth : Modes, inherits : BOOLEAN, sources : SUBSET Networks]

Irs ==
  [mode : Modes, default : Actions, listeners : [Listeners -> IrListeners],
   rules : Seq(Rules)]

Requests ==
  [listener : Listeners, source : Addresses, user : Users \cup {Anonymous},
   host : Hosts, port : Ports]

-----------------------------------------------------------------------------
MatchesSource(rule, q) == rule.source = {} \/ \E n \in rule.source : q.source \in n

\* With authentication disabled Squid never learns who a client is.
MatchesIdentity(rule, q, mode) ==
  LET known == mode # "DISABLED" /\ q.user # Anonymous
      kind  == rule.identity.kind
  IN  \/ kind = "ANY"
      \/ kind = "AUTHENTICATED" /\ known
      \/ kind = "UNAUTHENTICATED" /\ ~known
      \/ kind \in {"USER", "GROUP"} /\ known /\ \E s \in rule.identity.lists : q.user \in s

\* Domains and networks are alternatives; only a literal address is compared
\* with the networks.
MatchesDestination(rule, q) ==
  LET d == rule.destination
  IN  \/ d.kind = "ANY"
      \/ /\ d.ports = {} \/ q.port \in d.ports
         /\ \/ d.domains = {} /\ d.cidrs = {}
            \/ q.host \in d.domains
            \/ q.host \in d.cidrs \cap Literals

MatchesRule(rule, q, mode) ==
  /\ rule.enabled
  /\ MatchesSource(rule, q)
  /\ MatchesIdentity(rule, q, mode)
  /\ MatchesDestination(rule, q)

FirstOf(S) == CHOOSE i \in S : \A j \in S : i <= j

Evaluate(ir, q) ==
  LET hits == {i \in DOMAIN ir.rules : MatchesRule(ir.rules[i], q, ir.mode)}
  IN  IF ir.mode = "REQUIRED" /\ q.user = Anonymous THEN "CHALLENGE"
      ELSE IF hits = {} THEN ir.default
      ELSE ir.rules[FirstOf(hits)].action
=============================================================================
