----------------------------- MODULE PolicyStore -----------------------------
(***************************************************************************)
(* The policy an administrator edits and the configuration a node gets:    *)
(* the tables of the control plane, the handlers that edit them            *)
(* (apps/api/src/routes/policies.ts, listenerProfiles.ts, proxyAuth.ts),   *)
(* and the builder that turns them into an IR (services/configuration.ts)  *)
(* every time a node asks for its configuration.                           *)
(*                                                                         *)
(* The handlers run concurrently and none of them locks.  A single SQL     *)
(* statement is one step.  The builder reads its tables one query at a     *)
(* time and may combine rows of different moments; PATCH                   *)
(* /proxy-auth/config reads the row, checks the outcome, and writes the    *)
(* row back in three steps.                                                *)
(*                                                                         *)
(* The tables are seen from one node, a member of some node group.  A      *)
(* listener or rule is global or belongs to that group; one that is        *)
(* deleted, disabled or of another group is not enabled.  `rules` is in    *)
(* evaluation order (position, then id).                                   *)
(***************************************************************************)
EXTENDS SquidCompiler, SequencesExt

CONSTANTS
  NetIds,        \* ids of the network table
  CidrLists,     \* what the CIDRs of a network may cover
  RuleRows,      \* rows of access_rules an administrator may enter
  ListenerRows,  \* rows of listener_profiles
  Initial,       \* policies an administrator may have left behind
  Admins,        \* concurrent PATCH /proxy-auth/config requests
  MaxRules,      \* bound on the length of the rule table
  MaxEdits       \* bound on the number of edits

NoRow == {}      \* the CIDRs of a network id without a row
INHERIT == "INHERIT"
Configs == [mode : Modes, default : Actions]
Tables == [NetIds -> CidrLists \cup {NoRow}]

ASSUME StoreAssumption ==
  /\ CidrLists \subseteq Networks
  /\ RuleRows \subseteq
       [enabled : BOOLEAN, global : BOOLEAN, action : Actions, source : SUBSET NetIds,
        identity : Identities, destination : Destinations]
  /\ ListenerRows \subseteq
       [enabled : BOOLEAN, global : BOOLEAN, auth : Modes \cup {INHERIT},
        sources : SUBSET NetIds]
  /\ Initial \subseteq
       [nets : Tables, rules : Seq(RuleRows), listeners : [Listeners -> ListenerRows],
        config : Configs]
  /\ MaxRules \in Nat /\ MaxEdits \in Nat

VARIABLES
  nets,       \* networks
  rules,      \* access_rules
  listeners,  \* listener_profiles
  config,     \* proxy_auth_config: mode, default_access
  acked,      \* open_proxy_acknowledged_at is set
  patch,      \* the PATCH /proxy-auth/config requests in flight
  quiet,      \* history: no network, rule or listener edited since a load
  build,      \* the builder: the query it is at and the rows it has read
  served,     \* the IR of the configuration last handed out
  edits

vars == <<nets, rules, listeners, config, acked, patch, quiet, build, served, edits>>

policy == <<nets, rules, listeners>>

-----------------------------------------------------------------------------
(* The builder.                                                            *)

\* Resolve without looking whether there is a row.
ResolveAll(ids, table) == {table[n] : n \in ids}

\* Ids without a row are dropped.
Resolve(ids, table) == {table[n] : n \in ids} \ {NoRow}

\* Built for the fleet rather than for a node, an IR has only what is global.  A
\* row left out of it and one that is disabled make no difference below.
InScope(row, target) == row.enabled /\ (row.global \/ target = "NODE")

\* A rule whose networks are all gone has source kind ANY.
BuildRule(row, table, target) ==
  [enabled |-> InScope(row, target), action |-> row.action, source |-> Resolve(row.source, table),
   identity |-> row.identity, destination |-> row.destination]

BuildListener(row, c, table, target) ==
  [enabled |-> InScope(row, target), auth |-> IF row.auth = INHERIT THEN c.mode ELSE row.auth,
   inherits |-> row.auth = INHERIT, sources |-> Resolve(row.sources, table)]

BuildIr(c, table, profiles, rows, target) ==
  [mode |-> c.mode, default |-> c.default,
   listeners |-> [l \in Listeners |-> BuildListener(profiles[l], c, table, target)],
   rules |-> [i \in DOMAIN rows |-> BuildRule(rows[i], table, target)]]

\* The policy of the node, and the fleet-wide preview.
CurrentIr == BuildIr(config, nets, listeners, rules, "NODE")
PreviewIr == BuildIr(config, nets, listeners, rules, "FLEET")

\* What the security check judges when it does not resolve inheriting listeners
\* again.
ProjectedStale(ir, next) == [ir EXCEPT !.mode = next.mode, !.default = next.default]

Projected(ir, next) ==
  [mode |-> next.mode, default |-> next.default, rules |-> ir.rules,
   listeners |-> [l \in Listeners |->
     IF ir.listeners[l].inherits
       THEN [ir.listeners[l] EXCEPT !.auth = next.mode]
       ELSE ir.listeners[l]]]

BuildConfig ==
  /\ build.at = "CONFIG"
  /\ build' = [build EXCEPT !.at = "NETWORKS", !.config = config]
  /\ UNCHANGED <<policy, config, acked, patch, quiet, served, edits>>

BuildNetworks ==
  /\ build.at = "NETWORKS"
  /\ build' = [build EXCEPT !.at = "LISTENERS", !.nets = nets]
  /\ UNCHANGED <<policy, config, acked, patch, quiet, served, edits>>

BuildListeners ==
  /\ build.at = "LISTENERS"
  /\ build' = [build EXCEPT !.at = "RULES", !.listeners = listeners]
  /\ UNCHANGED <<policy, config, acked, patch, quiet, served, edits>>

\* A builder that keeps the rules it has when the query returns none.
BuiltKeeping(rows) ==
  [BuildIr(build.config, build.nets, build.listeners, rows, "NODE")
     EXCEPT !.rules = IF @ = <<>> THEN served.rules ELSE @]

Built(rows) == BuildIr(build.config, build.nets, build.listeners, rows, "NODE")

BuildRules ==
  /\ build.at = "RULES"
  /\ served' = Built(rules)
  /\ build' = [build EXCEPT !.at = "CONFIG"]
  /\ UNCHANGED <<policy, config, acked, patch, quiet, edits>>

-----------------------------------------------------------------------------
(* Edits.                                                                  *)

Edit ==
  /\ edits < MaxEdits
  /\ edits' = edits + 1
  /\ quiet' = [a \in Admins |-> FALSE]
  /\ UNCHANGED <<config, acked, patch, build, served>>

Used(n) == \E i \in DOMAIN rules : n \in rules[i].source

\* POST /networks: the id is new, so nothing refers to it.
CreateNetwork(n, cidrs) ==
  /\ nets[n] = NoRow
  /\ ~Used(n)
  /\ \A l \in Listeners : n \notin listeners[l].sources \cup build.listeners[l].sources
  /\ nets' = [nets EXCEPT ![n] = cidrs]
  /\ Edit /\ UNCHANGED <<rules, listeners>>

\* PATCH /networks/:id
PatchNetwork(n, cidrs) ==
  /\ nets[n] # NoRow
  /\ nets' = [nets EXCEPT ![n] = cidrs]
  /\ Edit /\ UNCHANGED <<rules, listeners>>

\* DELETE /networks/:id looks at the rules that use the network, not at the
\* listeners.
DeleteNetwork(n) ==
  /\ nets[n] # NoRow
  /\ ~Used(n)
  /\ nets' = [nets EXCEPT ![n] = NoRow]
  /\ Edit /\ UNCHANGED <<rules, listeners>>

\* POST /access-rules: the position is given or computed, and decides where the
\* rule goes.  Nothing checks that its networks exist.
CreateRule(row, i) ==
  /\ Len(rules) < MaxRules
  /\ rules' = InsertAt(rules, i, row)
  /\ Edit /\ UNCHANGED <<nets, listeners>>

\* PATCH /access-rules/:id, with or without a new position.
PatchRule(i, row, j) ==
  /\ rules' = InsertAt(RemoveAt(rules, i), j, row)
  /\ Edit /\ UNCHANGED <<nets, listeners>>

\* POST /access-rules/reorder: one transaction.
ReorderRules(p) ==
  /\ rules' = [i \in DOMAIN rules |-> rules[p[i]]]
  /\ Edit /\ UNCHANGED <<nets, listeners>>

DeleteRule(i) ==
  /\ rules' = RemoveAt(rules, i)
  /\ Edit /\ UNCHANGED <<nets, listeners>>

\* POST, PATCH and DELETE of listener profiles, and moving the node to another
\* node group.
SetListener(l, row) ==
  /\ listeners' = [listeners EXCEPT ![l] = row]
  /\ Edit /\ UNCHANGED <<nets, rules>>

-----------------------------------------------------------------------------
(* PATCH /proxy-auth/config.                                               *)

\* `next`: the row read, with the columns the request names replaced.  A request
\* may name them all, so that next is any row, whatever was read.
LoadConfig(a, next, ack) ==
  /\ edits < MaxEdits
  /\ patch[a].at = "IDLE"
  /\ patch' = [patch EXCEPT ![a] = [at |-> "CHECK", next |-> next, ack |-> ack, finding |-> FALSE]]
  /\ quiet' = [quiet EXCEPT ![a] = TRUE]
  /\ edits' = edits + 1
  /\ UNCHANGED <<policy, config, acked, build, served>>

\* 409 OPEN_PROXY_CONFIRMATION_REQUIRED unless the warning is acknowledged.  The
\* check builds its IR without a node.
CheckConfig(a) ==
  LET finding == OpenProxy(Projected(PreviewIr, patch[a].next))
  IN  /\ patch[a].at = "CHECK"
      /\ patch' = [patch EXCEPT
           ![a].at = IF finding /\ ~patch[a].ack THEN "IDLE" ELSE "WRITE",
           ![a].finding = finding]
      /\ UNCHANGED <<policy, config, acked, quiet, build, served, edits>>

WriteConfig(a) ==
  /\ patch[a].at = "WRITE"
  /\ config' = patch[a].next
  /\ acked' = (acked \/ (patch[a].finding /\ patch[a].ack))
  /\ patch' = [patch EXCEPT ![a].at = "IDLE"]
  /\ UNCHANGED <<policy, quiet, build, served, edits>>

-----------------------------------------------------------------------------
\* An open proxy has been acknowledged.
Init ==
  /\ \E p \in Initial :
       /\ nets = p.nets /\ rules = p.rules /\ listeners = p.listeners /\ config = p.config
  /\ acked = OpenProxy(CurrentIr)
  /\ patch = [a \in Admins |->
       [at |-> "IDLE", next |-> config, ack |-> FALSE, finding |-> FALSE]]
  /\ quiet = [a \in Admins |-> FALSE]
  /\ build = [at |-> "CONFIG", config |-> config, nets |-> nets, listeners |-> listeners]
  /\ served = CurrentIr
  /\ edits = 0

EditPolicy ==
  \/ \E n \in NetIds, cidrs \in CidrLists : CreateNetwork(n, cidrs)
  \/ \E n \in NetIds, cidrs \in CidrLists : PatchNetwork(n, cidrs)
  \/ \E n \in NetIds : DeleteNetwork(n)
  \/ \E row \in RuleRows, i \in 1..(Len(rules) + 1) : CreateRule(row, i)
  \/ \E i, j \in DOMAIN rules, row \in RuleRows : PatchRule(i, row, j)
  \/ \E p \in [DOMAIN rules -> DOMAIN rules] : IsInjective(p) /\ ReorderRules(p)
  \/ \E i \in DOMAIN rules : DeleteRule(i)
  \/ \E l \in Listeners, row \in ListenerRows : SetListener(l, row)

PatchConfig ==
  \E a \in Admins :
    \/ \E next \in Configs, ack \in BOOLEAN : LoadConfig(a, next, ack)
    \/ CheckConfig(a)
    \/ WriteConfig(a)

Build == BuildConfig \/ BuildNetworks \/ BuildListeners \/ BuildRules

Next == EditPolicy \/ PatchConfig \/ Build

Spec == Init /\ [][Next]_vars /\ WF_vars(Build)

-----------------------------------------------------------------------------
(* Properties.                                                             *)

Handlers ==
  [at : {"IDLE", "CHECK", "WRITE"}, next : Configs, ack : BOOLEAN, finding : BOOLEAN]

\* The tables hold what their schemas allow, and what is served is an IR.
TypeOK ==
  /\ nets \in Tables
  /\ rules \in Seq(RuleRows)
  /\ listeners \in [Listeners -> ListenerRows]
  /\ config \in Configs
  /\ acked \in BOOLEAN
  /\ patch \in [Admins -> Handlers]
  /\ quiet \in [Admins -> BOOLEAN]
  /\ build \in [at : {"CONFIG", "NETWORKS", "LISTENERS", "RULES"}, config : Configs,
                nets : Tables, listeners : [Listeners -> ListenerRows]]
  /\ served \in Irs
  /\ edits \in 0..MaxEdits

\* What is served is what the compiler promises to translate faithfully.
ServedFaithful == Faithful(served)

\* A guest listener never asks for credentials.
GuestNeverChallenged == GuestFree(served)

\* A listener that requires credentials lets nobody through without them.
RequiredNeverAnonymous == CredentialsHold(served)

\* A request that acknowledged nothing writes its configuration, over a policy
\* nobody edited since it loaded the old one.
WrittenUnacknowledged(a) ==
  /\ patch[a].at = "WRITE" /\ patch'[a].at = "IDLE"
  /\ quiet[a] /\ ~patch[a].ack

\* Changing the authentication mode or the default access without acknowledging
\* the warning never leaves an open proxy behind on the listeners and rules that
\* apply everywhere, also with two such requests in flight (proxyAuth.ts:147-171).
UnacknowledgedNeverOpens ==
  [][\A a \in Admins : WrittenUnacknowledged(a) => ~OpenProxy(PreviewIr')]_vars

\* Once the edits stop, what is served is the policy in the tables, whatever
\* mixture earlier builds read (README.md:142, policy changes converge).
Converges == <>[](served = CurrentIr)

-----------------------------------------------------------------------------
(* Claims that the code does not meet.                                     *)

\* A client the engine refuses is not let through.
NoneGetsThrough(ir) ==
  LET conf == Compile(ir)
  IN  \A q \in Requests :
        Admitted(ir, q) /\ Evaluate(ir, q) = "DENY" => Squid(conf, q) # "ALLOW"

\* engine.ts:4-6: the compiler must stay faithful to the engine, for rules with
\* several source networks as well.
FaithfulToEngine ==
  Uniform(served) /\ Unwarned(served) /\ NamelessNetworks(served) => NoneGetsThrough(served)

\* ir.ts:150-152: traffic on a listener from anywhere but its source networks
\* is refused; a listener nobody edits keeps its guard.
ListenerConfined ==
  [][\A l \in Listeners :
       listeners'[l] = listeners[l] /\ SourceGuard(CurrentIr, l) # {}
         => SourceGuard(CurrentIr', l) # {}]_vars
=============================================================================
