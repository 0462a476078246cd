---------------------------- MODULE SquidCompiler ----------------------------
(***************************************************************************)
(* The compiler (packages/shared/src/squid/compiler.ts), the open proxy    *)
(* check (policy/openProxy.ts), and how Squid reads the result.            *)
(*                                                                         *)
(* An http_access line is a conjunction of ACLs, evaluated from left to    *)
(* right.  The compiler writes them in one fixed order: listener port and  *)
(* source networks, then identity, then destination.  A line is therefore  *)
(* a record with, per kind of ACL, the values for which it is true, and a  *)
(* kind the line does not mention is true of everything.  Only an identity *)
(* ACL (proxy_auth) asks the client for credentials, and only when the     *)
(* ACLs before it hold.                                                    *)
(***************************************************************************)
EXTENDS PolicyEngine

CONSTANTS
  PortName,    \* the Squid port name of a listener: slug(name-port)
  SafePorts    \* what the baseline ACLs let through

ASSUME CompilerAssumption == SafePorts \subseteq Ports

Lines ==
  [action : Actions, listeners : SUBSET Listeners, sources : SUBSET Addresses,
   login : BOOLEAN, users : SUBSET Users, hosts : SUBSET Hosts, ports : SUBSET Ports]

\* What a line says about the client: nothing, or an identity ACL.
Free == [login |-> FALSE, users |-> Users]
Login(users) == [login |-> TRUE, users |-> users]

\* A line without destination ACLs; without any, `http_access allow all`.
Line(action, ports, sources, id) ==
  [action |-> action, listeners |-> ports, sources |-> sources,
   login |-> id.login, users |-> id.users, hosts |-> Hosts, ports |-> Ports]

All(action) == Line(action, Listeners, Addresses, Free)

-----------------------------------------------------------------------------
(* Listeners.                                                              *)

Active(ir) == {l \in Listeners : ir.listeners[l].enabled}
Authenticating(ir) == {l \in Active(ir) : ir.listeners[l].auth # "DISABLED"}

EffectiveMode(ir) ==
  IF Authenticating(ir) = {} THEN "DISABLED"
  ELSE IF \A l \in Active(ir) : ir.listeners[l].auth = "REQUIRED" THEN "REQUIRED"
  ELSE "OPTIONAL"

\* `acl ... myportname`: every port that carries the listener's name.
PortAcl(l) == {m \in Listeners : PortName[m] = PortName[l]}

Cidrs(ir, l) == UNION ir.listeners[l].sources

\* deny port !sources
SourceGuard(ir, l) ==
  IF l \in Active(ir) /\ Cidrs(ir, l) # {}
    THEN {Line("DENY", PortAcl(l), Addresses \ Cidrs(ir, l), Free)}
    ELSE {}

\* A CredentialsGuard that still follows the global switch.
CredentialsWhenGlobal(ir, l) ==
  IF l \in Active(ir) /\ ir.mode = "REQUIRED"
    THEN {Line("DENY", PortAcl(l), Addresses, Login({}))}
    ELSE {}

\* deny port !scp_authenticated
CredentialsGuard(ir, l) ==
  IF l \in Active(ir) /\ ir.listeners[l].auth = "REQUIRED"
    THEN {Line("DENY", PortAcl(l), Addresses, Login({}))}
    ELSE {}

\* The guards in file order: per listener its sources, then its credentials.
Guard(ir, i) ==
  IF i % 2 = 1 THEN SourceGuard(ir, (i + 1) \div 2) ELSE CredentialsGuard(ir, i \div 2)

-----------------------------------------------------------------------------
(* Access rules.                                                           *)

NeedsIdentity(rule) == rule.identity.kind \in {"AUTHENTICATED", "USER", "GROUP"}

\* RulePorts without scp_auth_ports.
RulePortsAll(ir, rule) == Listeners

\* scp_auth_ports, left out when every listener authenticates.
RulePorts(ir, rule) ==
  IF NeedsIdentity(rule) /\ Authenticating(ir) # {} /\ Authenticating(ir) # Active(ir)
    THEN UNION {PortAcl(l) : l \in Authenticating(ir)}
    ELSE Listeners

\* One ACL per network on one line: the client has to be in all of them.
RuleSources(rule) == {a \in Addresses : \A n \in rule.source : a \in n}

\* buildIdentityTerms: one alternative per access line, none when the rule is
\* omitted.  UNAUTHENTICATED loses its condition rather than being negated.
IdentityTerms(ir, rule) ==
  LET kind == rule.identity.kind
      mode == EffectiveMode(ir)
  IN  IF kind = "ANY" \/ (kind = "UNAUTHENTICATED" /\ mode # "REQUIRED") THEN {Free}
      ELSE IF kind = "UNAUTHENTICATED" \/ mode = "DISABLED" THEN {}
      ELSE IF kind = "AUTHENTICATED" THEN {Login(Users)}
      ELSE {Login(s) : s \in rule.identity.lists \ {{}}}

OrAny(entries, all) == IF entries = {} THEN all ELSE entries

\* Domains and networks on one line: both have to hold.
RuleHosts(rule) ==
  LET d == rule.destination
  IN  IF d.kind = "ANY" THEN Hosts ELSE OrAny(d.domains, Hosts) \cap OrAny(d.cidrs, Hosts)

RulePortsOut(rule) ==
  LET d == rule.destination
  IN  IF d.kind = "ANY" THEN Ports ELSE OrAny(d.ports, Ports)

\* buildAccessLines: sources, identity, destination.
RuleLine(ir, rule, id) ==
  [action |-> rule.action, listeners |-> RulePorts(ir, rule), sources |-> RuleSources(rule),
   login |-> id.login, users |-> id.users,
   hosts |-> RuleHosts(rule), ports |-> RulePortsOut(rule)]

RuleLines(ir, rule) == {RuleLine(ir, rule, id) : id \in IdentityTerms(ir, rule)}

\* A RuleBlock that keeps the rules an administrator switched off.
RuleBlockOfAny(ir, rule) == RuleLines(ir, rule)

RuleBlock(ir, rule) == IF rule.enabled THEN RuleLines(ir, rule) ELSE {}

\* The http_access section: the guards, the rules in order, and the default,
\* each a set of lines.  The lines of one rule share their action and all that
\* precedes the identity, so their order in the file makes no difference.
NGuards == 2 * NListeners

Block(ir, i) ==
  IF i <= NGuards THEN Guard(ir, i)
  ELSE IF i <= NGuards + Len(ir.rules) THEN RuleBlock(ir, ir.rules[i - NGuards])
  ELSE {All(ir.default)}

Compile(ir) == [i \in 1..(NGuards + Len(ir.rules) + 1) |-> Block(ir, i)]

-----------------------------------------------------------------------------
(* Squid (external): the first line whose ACLs hold decides, and a client  *)
(* that is asked for credentials it did not present gets a 407.            *)

Reached(line, q) == q.listener \in line.listeners /\ q.source \in line.sources

Challenges(line, q) == Reached(line, q) /\ line.login /\ q.user = Anonymous

Applies(line, q) ==
  /\ Reached(line, q)
  /\ line.login => q.user \in line.users
  /\ q.host \in line.hosts
  /\ q.port \in line.ports

Decides(block, q) == \E line \in block : Challenges(line, q) \/ Applies(line, q)

Verdict(block, q) ==
  IF \E line \in block : Challenges(line, q) THEN "CHALLENGE"
  ELSE (CHOOSE line \in block : Applies(line, q)).action

Squid(conf, q) ==
  IF q.port \notin SafePorts THEN "DENY"
  ELSE Verdict(conf[FirstOf({i \in DOMAIN conf : Decides(conf[i], q)})], q)

-----------------------------------------------------------------------------
(* The open proxy check.                                                   *)

WideSource(rule) == rule.source = {} \/ \E n \in rule.source : n \cap Public # {}

OpenRule(rule) ==
  /\ rule.enabled /\ rule.action = "ALLOW"
  /\ rule.identity.kind \in {"ANY", "UNAUTHENTICATED"}
  /\ rule.destination.kind = "ANY"
  /\ WideSource(rule)

\* detectSecurityFindings, as far as OPEN_PROXY goes.
OpenProxy(ir) ==
  /\ \E l \in Active(ir) : ir.listeners[l].auth = "DISABLED"
  /\ \/ ir.default = "ALLOW"
     \/ \E i \in DOMAIN ir.rules : OpenRule(ir.rules[i])

-----------------------------------------------------------------------------
(* What the generated configuration promises.                              *)

\* No listener guard turns the request away for its source address.
Admitted(ir, q) ==
  /\ q.listener \in Active(ir)
  /\ q.port \in SafePorts
  /\ \A l \in Active(ir) :
       q.listener \in PortAcl(l) /\ Cidrs(ir, l) # {} => q.source \in Cidrs(ir, l)

\* Every listener authenticates as the global mode says, which is the one the
\* engine knows.
Uniform(ir) == \A l \in Active(ir) : ir.listeners[l].auth = ir.mode

\* The rules without the divergences the compiler warns about: domains mixed
\* with networks, and UNAUTHENTICATED next to listeners that may ask.
Unwarned(ir) ==
  \A i \in DOMAIN ir.rules : ir.rules[i].enabled =>
    /\ ir.rules[i].destination.domains = {} \/ ir.rules[i].destination.cidrs = {}
    /\ ir.mode = "OPTIONAL" => ir.rules[i].identity.kind # "UNAUTHENTICATED"

OneNetworkEach(ir) ==
  \A i \in DOMAIN ir.rules : ir.rules[i].enabled =>
    \A m, n \in ir.rules[i].source : m = n

\* No destination network covers a host that requests name.  Squid's dst resolves
\* names and compares the address, the engine compares literal addresses only,
\* and the compiler does not warn about it.
NamelessNetworks(ir) ==
  \A i \in DOMAIN ir.rules : ir.rules[i].enabled =>
    ir.rules[i].destination.cidrs \subseteq Literals

\* The generated http_access lines decide as the engine does, the engine being
\* the reference semantics, for policies without the divergences of which the
\* compiler warns (Unwarned) and the two of which it says nothing: more than one
\* source network in a rule, and names under a destination network.  In OPTIONAL
\* mode Squid may ask an anonymous client for credentials where the engine passes
\* over the rule.
Faithful(ir) ==
  Uniform(ir) /\ Unwarned(ir) /\ OneNetworkEach(ir) /\ NamelessNetworks(ir) =>
    LET conf == Compile(ir)
    IN  \A q \in Requests : Admitted(ir, q) =>
          \/ Squid(conf, q) = Evaluate(ir, q)
          \/ ir.mode = "OPTIONAL" /\ q.user = Anonymous /\ Squid(conf, q) = "CHALLENGE"

\* A listener without authentication never asks for credentials, whatever the
\* rules and its neighbours say (compiler.ts:473-474, 544-545), as long as its
\* port name is its own.
GuestFree(ir) ==
  LET conf == Compile(ir)
  IN  \A q \in Requests :
        /\ q.listener \in Active(ir) \ Authenticating(ir)
        /\ \A m \in Active(ir) : PortName[m] = PortName[q.listener] => m = q.listener
        => Squid(conf, q) # "CHALLENGE"

\* A listener that requires credentials lets nobody through without them, no
\* matter which rules are ordered how, what the global mode is, or which
\* sources its neighbours accept.
CredentialsHold(ir) ==
  LET conf == Compile(ir)
  IN  \A q \in Requests :
        /\ q.listener \in Active(ir)
        /\ ir.listeners[q.listener].auth = "REQUIRED"
        /\ q.user = Anonymous
        => Squid(conf, q) # "ALLOW"
=============================================================================
