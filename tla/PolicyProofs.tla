----------------------------- MODULE PolicyProofs -----------------------------
(***************************************************************************)
(* Theorems about SquidCompiler and PolicyStore, for every policy (any     *)
(* number of listeners and rules, any addresses, users, hosts and ports),  *)
(* every number of administrators and every interleaving of edits and      *)
(* builds.                                                                 *)
(*                                                                         *)
(* The generated configuration first.  Squid takes the first line that     *)
(* decides.  FirstBlock names the block it is in, and VerdictOf reads the  *)
(* answer off that block.  The two promises about listeners then look at   *)
(* the lines of a block; the promise about the engine shows, condition by  *)
(* condition, that the lines of a rule apply to a request exactly when the *)
(* engine matches the rule.                                                *)
(*                                                                         *)
(* Then the store.  What is served is always an IR (TypeCorrect), also     *)
(* when the builder mixes rows of different moments, and the first part    *)
(* says what holds of every IR.  That an unacknowledged change does not    *)
(* open the proxy needs an invariant of its own: a request past its check  *)
(* has judged the row it is about to write, as long as nobody edited the   *)
(* policy since.                                                           *)
(***************************************************************************)
EXTENDS PolicyStore, SequenceTheorems, FiniteSetTheorems, TLAPS

\* A set of positions has a first one, and FirstOf finds it.
LEMMA LeastOne ==
  ASSUME NEW S \in SUBSET Nat, S # {}
  PROVE  FirstOf(S) \in S /\ \A j \in S : FirstOf(S) <= j
<1> DEFINE Below(k) == S \cap (0..k)
           T == {Below(k) : k \in S}
<1>1. T \subseteq FiniteSubsetsOf(Nat) /\ T # {}
  <2>1. \A k \in S : IsFiniteSet(0..k)
    BY FS_Interval
  <2>2. \A k \in S : IsFiniteSet(Below(k))
    BY <2>1, FS_Intersection
  <2>. QED  BY <2>2 DEF FiniteSubsetsOf
<1>2. PICK X \in T : \A Y \in T : <<Y, X>> \notin StrictSubsetOrdering(Nat)
  BY <1>1, FS_StrictSubsetOrderingWellFounded, WFMin
<1>3. PICK m \in S : X = Below(m)
  BY <1>2
<1>4. ASSUME NEW j \in S, ~(m <= j)
      PROVE  FALSE
  <2>1. Below(j) \subseteq X /\ m \in X /\ m \notin Below(j)
    BY <1>3, <1>4
  <2>2. <<Below(j), X>> \in StrictSubsetOrdering(Nat)
    BY <1>3, <2>1 DEF StrictSubsetOrdering
  <2>. QED  BY <1>2, <2>2
<1>. QED  BY <1>4 DEF FirstOf

-----------------------------------------------------------------------------
(* Reading a configuration.                                                *)

\* Every line of a generated configuration allows or denies.
LEMMA LineActions ==
  ASSUME NEW ir \in Irs, NEW i \in 1..(NGuards + Len(ir.rules) + 1), NEW line \in Block(ir, i)
  PROVE  line.action \in Actions
<1>1. CASE i <= NGuards
  BY <1>1 DEF Block, Guard, SourceGuard, CredentialsGuard, Line, Actions
<1>2. CASE ~(i <= NGuards) /\ i <= NGuards + Len(ir.rules)
  <2>1. NListeners \in Nat /\ NGuards \in Nat /\ ir.rules \in Seq(Rules)
    BY EngineAssumption DEF NGuards, Irs
  <2>2. Len(ir.rules) \in Nat
    BY <2>1, LenProperties
  <2>3. i - NGuards \in 1..Len(ir.rules)
    BY <1>2, <2>1, <2>2
  <2>4. ir.rules[i - NGuards] \in Rules
    BY <2>1, <2>3, ElementOfSeq
  <2>. QED  BY <1>2, <2>4 DEF Block, RuleBlock, RuleLines, RuleLine, Rules
<1>3. CASE ~(i <= NGuards) /\ ~(i <= NGuards + Len(ir.rules))
  BY <1>3 DEF Block, All, Line, Irs
<1>. QED  BY <1>1, <1>2, <1>3

\* The default decides every request, so some block is the first to do so, and
\* Squid answers from it.
LEMMA FirstBlock ==
  ASSUME NEW ir \in Irs, NEW q \in Requests, q.port \in SafePorts
  PROVE  \E k \in 1..(NGuards + Len(ir.rules) + 1) :
           /\ Decides(Block(ir, k), q)
           /\ Squid(Compile(ir), q) = Verdict(Block(ir, k), q)
           /\ \A i \in 1..(NGuards + Len(ir.rules) + 1) :
                Decides(Block(ir, i), q) => k <= i
<1> DEFINE N == NGuards + Len(ir.rules) + 1
           S == {i \in DOMAIN Compile(ir) : Decides(Compile(ir)[i], q)}
<1>1. NGuards \in Nat /\ Len(ir.rules) \in Nat
  BY EngineAssumption, LenProperties DEF NGuards, Irs
<1>2. N \in 1..N /\ N \in Nat
  BY <1>1
<1>3. DOMAIN Compile(ir) = 1..N /\ \A i \in 1..N : Compile(ir)[i] = Block(ir, i)
  BY DEF Compile
<1>4. Block(ir, N) = {All(ir.default)}
  BY <1>1 DEF Block
<1>5. Applies(All(ir.default), q)
  BY DEF Applies, Reached, All, Line, Free, Requests
<1>6. N \in S
  BY <1>2, <1>3, <1>4, <1>5 DEF Decides
<1>7. S \in SUBSET Nat /\ S # {}
  BY <1>2, <1>3, <1>6
<1>8. FirstOf(S) \in S /\ \A j \in S : FirstOf(S) <= j
  BY <1>7, LeastOne
<1>9. Squid(Compile(ir), q) = Verdict(Compile(ir)[FirstOf(S)], q)
  BY DEF Squid
<1>. QED  BY <1>3, <1>8, <1>9

\* A block answers with a challenge, or with the action of a line that applies.
LEMMA VerdictOf ==
  ASSUME NEW block, NEW q, Decides(block, q)
  PROVE  IF \E line \in block : Challenges(line, q)
           THEN Verdict(block, q) = "CHALLENGE"
           ELSE \E line \in block : Applies(line, q) /\ Verdict(block, q) = line.action
BY DEF Decides, Verdict

-----------------------------------------------------------------------------
(* Listeners.                                                              *)

\* Guard lines deny, and ask for credentials only on the ports named like a
\* listener that requires them.
LEMMA GuardLines ==
  ASSUME NEW ir \in Irs, NEW i \in 1..NGuards, NEW line \in Guard(ir, i)
  PROVE  /\ line.action = "DENY"
         /\ line.login => \E l \in Active(ir) :
              ir.listeners[l].auth = "REQUIRED" /\ line.listeners = PortAcl(l)
<1>1. CASE i % 2 = 1
  BY <1>1 DEF Guard, SourceGuard, Line, Free
<1>2. CASE i % 2 # 1
  BY <1>2 DEF Guard, CredentialsGuard, Line, Login
<1>. QED  BY <1>1, <1>2

\* Rule lines ask for credentials only where some listener authenticates.
LEMMA RuleLogin ==
  ASSUME NEW ir \in Irs, NEW rule \in Rules, NEW line \in RuleBlock(ir, rule), line.login
  PROVE  /\ NeedsIdentity(rule)
         /\ EffectiveMode(ir) # "DISABLED"
         /\ line.listeners = RulePorts(ir, rule)
<1>1. line \in RuleLines(ir, rule)
  BY DEF RuleBlock
<1>2. PICK t \in IdentityTerms(ir, rule) : line = RuleLine(ir, rule, t)
  BY <1>1 DEF RuleLines
<1>3. rule.identity.kind \in {"ANY", "AUTHENTICATED", "UNAUTHENTICATED", "USER", "GROUP"}
  BY DEF Rules, Identities
<1>4. rule.identity.kind \notin {"ANY", "UNAUTHENTICATED"} /\ EffectiveMode(ir) # "DISABLED"
  <2>1. t # Free
    BY <1>2 DEF Free, RuleLine
  <2>2. rule.identity.kind = "ANY" => IdentityTerms(ir, rule) \subseteq {Free}
    BY SMT DEF IdentityTerms
  <2>3. rule.identity.kind = "UNAUTHENTICATED" => IdentityTerms(ir, rule) \subseteq {Free}
    BY SMT DEF IdentityTerms
  <2>4. rule.identity.kind \notin {"ANY", "UNAUTHENTICATED"} /\ EffectiveMode(ir) = "DISABLED"
          => IdentityTerms(ir, rule) = {}
    BY DEF IdentityTerms
  <2>. QED  BY <2>1, <2>2, <2>3, <2>4
<1>5. line.listeners = RulePorts(ir, rule)
  BY <1>2 DEF RuleLine
<1>. QED  BY <1>3, <1>4, <1>5 DEF NeedsIdentity

\* A listener without authentication, with a port name of its own, never asks
\* for credentials, whatever the rules and the other listeners are.
THEOREM NoChallengeOnGuests == \A ir \in Irs : GuestFree(ir)
<1> SUFFICES ASSUME NEW ir \in Irs, NEW q \in Requests,
                    q.listener \in Active(ir) \ Authenticating(ir),
                    \A m \in Active(ir) : PortName[m] = PortName[q.listener] => m = q.listener,
                    Squid(Compile(ir), q) = "CHALLENGE"
             PROVE  FALSE
  BY DEF GuestFree
<1>1. q.port \in SafePorts
  BY DEF Squid
<1>2. PICK k \in 1..(NGuards + Len(ir.rules) + 1) :
        Decides(Block(ir, k), q) /\ Squid(Compile(ir), q) = Verdict(Block(ir, k), q)
  BY <1>1, FirstBlock
<1>3. \E line \in Block(ir, k) : Challenges(line, q)
  BY <1>2, VerdictOf, LineActions DEF Actions
<1>4. PICK line \in Block(ir, k) : Challenges(line, q)
  BY <1>3
<1>5. line.login /\ q.listener \in line.listeners
  BY <1>4 DEF Challenges, Reached
<1>6. \A l \in Active(ir) : q.listener \in PortAcl(l) => l = q.listener
  BY DEF PortAcl
<1>7. NGuards \in Nat /\ Len(ir.rules) \in Nat /\ ir.rules \in Seq(Rules)
  BY EngineAssumption, LenProperties DEF NGuards, Irs
<1>8. CASE k <= NGuards
  <2>1. k \in 1..NGuards /\ line \in Guard(ir, k)
    BY <1>7, <1>8 DEF Block
  <2>2. PICK l \in Active(ir) : ir.listeners[l].auth = "REQUIRED" /\ line.listeners = PortAcl(l)
    BY <2>1, <1>5, GuardLines
  <2>3. l \in Authenticating(ir)
    BY <2>2 DEF Authenticating
  <2>. QED  BY <1>5, <1>6, <2>2, <2>3
<1>9. CASE ~(k <= NGuards) /\ k <= NGuards + Len(ir.rules)
  <2> DEFINE rule == ir.rules[k - NGuards]
  <2>1. rule \in Rules
    BY <1>7, <1>9, ElementOfSeq
  <2>2. line \in RuleBlock(ir, rule)
    BY <1>9 DEF Block
  <2>3. NeedsIdentity(rule) /\ EffectiveMode(ir) # "DISABLED"
        /\ line.listeners = RulePorts(ir, rule)
    BY <1>5, <2>1, <2>2, RuleLogin
  <2>4. Authenticating(ir) # {}
    BY <2>3 DEF EffectiveMode
  <2>5. Authenticating(ir) # Active(ir)
    OBVIOUS
  <2>6. line.listeners = UNION {PortAcl(l) : l \in Authenticating(ir)}
    BY <2>3, <2>4, <2>5 DEF RulePorts
  <2>7. PICK l \in Authenticating(ir) : q.listener \in PortAcl(l)
    BY <1>5, <2>6
  <2>8. l \in Active(ir)
    BY <2>7 DEF Authenticating
  <2>. QED  BY <1>6, <2>7, <2>8
<1>10. CASE ~(k <= NGuards) /\ ~(k <= NGuards + Len(ir.rules))
  BY <1>5, <1>10 DEF Block, All, Line, Free
<1>. QED  BY <1>8, <1>9, <1>10

\* The credentials guard of listener l is block 2 * l.
LEMMA GuardIndex ==
  ASSUME NEW N \in Nat, NEW n \in Nat, NEW l \in 1..N
  PROVE  /\ 2 * l \in 1..(2 * N) /\ 2 * l \in 1..(2 * N + n + 1)
         /\ (2 * l) % 2 # 1 /\ (2 * l) \div 2 = l
OBVIOUS

\* A listener that requires credentials lets no anonymous request through,
\* whatever the rules, the default and the other listeners are.
THEOREM NoAnonymousPastCredentials == \A ir \in Irs : CredentialsHold(ir)
<1> SUFFICES ASSUME NEW ir \in Irs, NEW q \in Requests,
                    q.listener \in Active(ir),
                    ir.listeners[q.listener].auth = "REQUIRED",
                    q.user = Anonymous,
                    Squid(Compile(ir), q) = "ALLOW"
             PROVE  FALSE
  BY DEF CredentialsHold
<1> DEFINE l == q.listener
<1>1. q.port \in SafePorts
  BY DEF Squid
<1>2. PICK k \in 1..(NGuards + Len(ir.rules) + 1) :
        /\ Decides(Block(ir, k), q)
        /\ Squid(Compile(ir), q) = Verdict(Block(ir, k), q)
        /\ \A i \in 1..(NGuards + Len(ir.rules) + 1) : Decides(Block(ir, i), q) => k <= i
  BY <1>1, FirstBlock
<1>3. NListeners \in Nat /\ Len(ir.rules) \in Nat /\ l \in 1..NListeners
  BY EngineAssumption, LenProperties DEF Irs, Active, Listeners
<1>4. 2 * l \in 1..NGuards /\ 2 * l \in 1..(NGuards + Len(ir.rules) + 1)
  BY <1>3, GuardIndex DEF NGuards
<1>5. (2 * l) % 2 # 1 /\ (2 * l) \div 2 = l
  BY <1>3, GuardIndex
<1>6. Block(ir, 2 * l) = CredentialsGuard(ir, l)
  BY <1>4, <1>5 DEF Block, Guard
<1> DEFINE line == Line("DENY", PortAcl(l), Addresses, Login({}))
<1>7. line \in Block(ir, 2 * l)
  BY <1>6 DEF CredentialsGuard
<1>8. Challenges(line, q)
  BY DEF Challenges, Reached, Line, Login, PortAcl, Active, Requests
<1>9. k <= 2 * l
  BY <1>2, <1>4, <1>7, <1>8 DEF Decides
<1>10. k \in 1..NGuards /\ Block(ir, k) = Guard(ir, k)
  BY <1>3, <1>4, <1>9 DEF Block, NGuards
<1>11. \A g \in Block(ir, k) : g.action = "DENY"
  BY <1>10, GuardLines
<1>. QED  BY <1>2, <1>11, VerdictOf

-----------------------------------------------------------------------------
(* Rules.                                                                  *)

\* When every listener authenticates as the global mode says, the compiler
\* assumes that mode and ties no rule to a port.
LEMMA UniformMode ==
  ASSUME NEW ir \in Irs, Uniform(ir), Active(ir) # {}
  PROVE  /\ EffectiveMode(ir) = ir.mode
         /\ \A rule : RulePorts(ir, rule) = Listeners
<1>1. ir.mode \in Modes
  BY DEF Irs
<1>2. CASE ir.mode = "DISABLED"
  <2>1. Authenticating(ir) = {}
    BY <1>2 DEF Authenticating, Uniform
  <2>. QED  BY <1>2, <2>1 DEF EffectiveMode, RulePorts
<1>3. CASE ir.mode # "DISABLED"
  <2>1. Authenticating(ir) = Active(ir)
    BY <1>3 DEF Authenticating, Uniform
  <2>2. EffectiveMode(ir) = ir.mode
    BY <1>1, <1>3, <2>1 DEF EffectiveMode, Uniform, Modes
  <2>. QED  BY <2>1, <2>2 DEF RulePorts
<1>. QED  BY <1>2, <1>3

\* One network on a line means what it means to the engine.
LEMMA SourceAgrees ==
  ASSUME NEW rule \in Rules, NEW q \in Requests, \A m, n \in rule.source : m = n
  PROVE  MatchesSource(rule, q) <=> q.source \in RuleSources(rule)
<1>1. q.source \in Addresses
  BY DEF Requests
<1>2. CASE rule.source = {}
  BY <1>1, <1>2 DEF MatchesSource, RuleSources
<1>3. CASE rule.source # {}
  BY <1>1, <1>3 DEF MatchesSource, RuleSources
<1>. QED  BY <1>2, <1>3

\* So do destinations that name domains or networks, not both.
LEMMA DestinationAgrees ==
  ASSUME NEW rule \in Rules, NEW q \in Requests,
         rule.destination.domains = {} \/ rule.destination.cidrs = {},
         rule.destination.cidrs \subseteq Literals
  PROVE  MatchesDestination(rule, q)
           <=> q.host \in RuleHosts(rule) /\ q.port \in RulePortsOut(rule)
<1>1. q.host \in Hosts /\ q.port \in Ports
  BY DEF Requests
<1>2. /\ rule.destination.domains \subseteq Hosts
      /\ rule.destination.cidrs \subseteq Hosts
      /\ rule.destination.ports \subseteq Ports
  BY DEF Rules, Destinations
<1>3. CASE rule.destination.kind = "ANY"
  BY <1>1, <1>3 DEF MatchesDestination, RuleHosts, RulePortsOut
<1>4. CASE rule.destination.kind # "ANY"
  <2>1. q.port \in RulePortsOut(rule)
          <=> rule.destination.ports = {} \/ q.port \in rule.destination.ports
    BY <1>1, <1>4 DEF RulePortsOut, OrAny
  <2>2. q.host \in RuleHosts(rule)
          <=> \/ rule.destination.domains = {} /\ rule.destination.cidrs = {}
              \/ q.host \in rule.destination.domains
              \/ q.host \in rule.destination.cidrs \cap Literals
    BY <1>1, <1>2, <1>4 DEF RuleHosts, OrAny
  <2>. QED  BY <1>4, <2>1, <2>2 DEF MatchesDestination
<1>. QED  BY <1>3, <1>4

\* So do identities, UNAUTHENTICATED next to listeners that may ask excepted.
LEMMA IdentityAgrees ==
  ASSUME NEW ir \in Irs, NEW rule \in Rules, NEW q \in Requests,
         EffectiveMode(ir) = ir.mode,
         ir.mode = "REQUIRED" => q.user # Anonymous,
         ir.mode = "OPTIONAL" => rule.identity.kind # "UNAUTHENTICATED"
  PROVE  MatchesIdentity(rule, q, ir.mode)
           <=> \E id \in IdentityTerms(ir, rule) : id.login => q.user \in id.users
<1> DEFINE kind == rule.identity.kind
           Passes == \E id \in IdentityTerms(ir, rule) : id.login => q.user \in id.users
           known == ir.mode # "DISABLED" /\ q.user # Anonymous
<1>1. /\ ir.mode \in {"DISABLED", "OPTIONAL", "REQUIRED"}
      /\ kind \in {"ANY", "AUTHENTICATED", "UNAUTHENTICATED", "USER", "GROUP"}
      /\ rule.identity.lists \subseteq SUBSET Users
      /\ q.user \in Users \cup {Anonymous} /\ Anonymous \notin Users
  BY EngineAssumption DEF Irs, Modes, Rules, Identities, Requests
<1>2. CASE kind = "ANY"
  <2>1. IdentityTerms(ir, rule) = {Free}
    BY <1>2, SMT DEF IdentityTerms
  <2>2. Passes
    BY <2>1 DEF Free
  <2>. QED  BY <1>2, <2>2 DEF MatchesIdentity
<1>3. CASE kind = "UNAUTHENTICATED"
  <2>1. CASE ir.mode = "DISABLED"
    <3>1. IdentityTerms(ir, rule) = {Free}
      BY <1>3, <2>1, SMT DEF IdentityTerms
    <3>2. Passes
      BY <3>1 DEF Free
    <3>. QED  BY <1>3, <2>1, <3>2 DEF MatchesIdentity
  <2>2. CASE ir.mode = "REQUIRED"
    <3>1. IdentityTerms(ir, rule) = {}
      BY <1>3, <2>2 DEF IdentityTerms
    <3>2. ~Passes
      BY <3>1
    <3>. QED  BY <1>3, <2>2, <3>2 DEF MatchesIdentity
  <2>. QED  BY <1>1, <1>3, <2>1, <2>2
<1>4. CASE kind \in {"AUTHENTICATED", "USER", "GROUP"} /\ ir.mode = "DISABLED"
  <2>1. IdentityTerms(ir, rule) = {}
    BY <1>4 DEF IdentityTerms
  <2>2. ~Passes
    BY <2>1
  <2>. QED  BY <1>4, <2>2 DEF MatchesIdentity
<1>5. CASE kind = "AUTHENTICATED" /\ ir.mode # "DISABLED"
  <2>1. IdentityTerms(ir, rule) = {Login(Users)}
    BY <1>5 DEF IdentityTerms
  <2>2. Passes <=> q.user \in Users
    BY <2>1 DEF Login
  <2>. QED  BY <1>1, <1>5, <2>2 DEF MatchesIdentity
<1>6. CASE kind \in {"USER", "GROUP"} /\ ir.mode # "DISABLED"
  <2>1. IdentityTerms(ir, rule) = {Login(s) : s \in rule.identity.lists \ {{}}}
    BY <1>6 DEF IdentityTerms
  <2>2. ASSUME Passes
        PROVE  \E s \in rule.identity.lists : q.user \in s
    <3>1. PICK s \in rule.identity.lists \ {{}} : Login(s).login => q.user \in Login(s).users
      BY <2>1, <2>2
    <3>. QED  BY <3>1 DEF Login
  <2>3. ASSUME NEW s \in rule.identity.lists, q.user \in s
        PROVE  Passes
    <3>1. Login(s) \in IdentityTerms(ir, rule)
      BY <2>1, <2>3
    <3>. QED  BY <2>3, <3>1 DEF Login
  <2>4. (\E s \in rule.identity.lists : q.user \in s) => q.user # Anonymous
    BY <1>1
  <2>. QED  BY <1>6, <2>2, <2>3, <2>4 DEF MatchesIdentity
<1>. QED  BY <1>1, <1>2, <1>3, <1>4, <1>5, <1>6

\* The lines of a rule apply exactly when the engine matches the rule.
LEMMA RuleAgrees ==
  ASSUME NEW ir \in Irs, NEW rule \in Rules, NEW q \in Requests,
         Uniform(ir), Active(ir) # {},
         ir.mode = "REQUIRED" => q.user # Anonymous,
         rule.enabled =>
           /\ \A m, n \in rule.source : m = n
           /\ rule.destination.domains = {} \/ rule.destination.cidrs = {}
           /\ rule.destination.cidrs \subseteq Literals
           /\ ir.mode = "OPTIONAL" => rule.identity.kind # "UNAUTHENTICATED"
  PROVE  /\ MatchesRule(rule, q, ir.mode) <=> \E line \in RuleBlock(ir, rule) : Applies(line, q)
         /\ \A line \in RuleBlock(ir, rule) : line.action = rule.action
<1>1. CASE ~rule.enabled
  BY <1>1 DEF RuleBlock, MatchesRule
<1>2. CASE rule.enabled
  <2>1. RuleBlock(ir, rule) = {RuleLine(ir, rule, id) : id \in IdentityTerms(ir, rule)}
    BY <1>2 DEF RuleBlock, RuleLines
  <2>2. RulePorts(ir, rule) = Listeners /\ EffectiveMode(ir) = ir.mode
    BY UniformMode
  <2>3. ASSUME NEW id
        PROVE  Applies(RuleLine(ir, rule, id), q)
                 <=> /\ q.source \in RuleSources(rule)
                     /\ id.login => q.user \in id.users
                     /\ q.host \in RuleHosts(rule) /\ q.port \in RulePortsOut(rule)
    BY <2>2 DEF Applies, Reached, RuleLine, Requests
  <2>4. (\E line \in RuleBlock(ir, rule) : Applies(line, q))
          <=> \E id \in IdentityTerms(ir, rule) : Applies(RuleLine(ir, rule, id), q)
    BY <2>1, Zenon
  <2>5. MatchesSource(rule, q) <=> q.source \in RuleSources(rule)
    BY <1>2, SourceAgrees
  <2>6. MatchesDestination(rule, q)
          <=> q.host \in RuleHosts(rule) /\ q.port \in RulePortsOut(rule)
    BY <1>2, DestinationAgrees
  <2>7. MatchesIdentity(rule, q, ir.mode)
          <=> \E id \in IdentityTerms(ir, rule) : id.login => q.user \in id.users
    BY <1>2, <2>2, IdentityAgrees
  <2>8. \A line \in RuleBlock(ir, rule) : line.action = rule.action
    BY <2>1 DEF RuleLine
  <2>. QED  BY <1>2, <2>3, <2>4, <2>5, <2>6, <2>7, <2>8 DEF MatchesRule
<1>. QED  BY <1>1, <1>2

\* For an admitted request the guards decide only by asking for credentials on
\* a listener that requires them.
LEMMA GuardsAdmit ==
  ASSUME NEW ir \in Irs, NEW q \in Requests, Admitted(ir, q), Uniform(ir),
         NEW i \in 1..NGuards, Decides(Guard(ir, i), q)
  PROVE  /\ ir.mode = "REQUIRED" /\ q.user = Anonymous
         /\ Verdict(Guard(ir, i), q) = "CHALLENGE"
<1>1. PICK line \in Guard(ir, i) : Challenges(line, q) \/ Applies(line, q)
  BY DEF Decides
<1>2. q.listener \in line.listeners /\ q.source \in line.sources
  BY <1>1 DEF Challenges, Applies, Reached
<1>3. CASE i % 2 = 1
  <2> DEFINE l == (i + 1) \div 2
  <2>1. line \in SourceGuard(ir, l)
    BY <1>3 DEF Guard
  <2> HIDE DEF l
  <2>2. /\ l \in Active(ir) /\ Cidrs(ir, l) # {}
        /\ line.listeners = PortAcl(l) /\ line.sources = Addresses \ Cidrs(ir, l)
    BY <2>1 DEF SourceGuard, Line
  <2>. QED  BY <1>2, <2>2 DEF Admitted
<1>4. CASE i % 2 # 1
  <2> DEFINE l == i \div 2
  <2>1. line \in CredentialsGuard(ir, l)
    BY <1>4 DEF Guard
  <2> HIDE DEF l
  <2>2. l \in Active(ir) /\ ir.listeners[l].auth = "REQUIRED" /\ line.login /\ line.users = {}
    BY <2>1 DEF CredentialsGuard, Line, Login
  <2>3. Challenges(line, q)
    BY <1>1, <2>2 DEF Applies
  <2>. QED  BY <2>2, <2>3 DEF Uniform, Challenges, Verdict
<1>. QED  BY <1>3, <1>4

\* For every policy in which each listener authenticates as the global mode says
\* and no rule mixes what the compiler warns about, names two source networks, or
\* has a destination network with named hosts in it, the generated configuration
\* decides as the engine does.
THEOREM CompilerFaithful == \A ir \in Irs : Faithful(ir)
<1> SUFFICES ASSUME NEW ir \in Irs, Uniform(ir), Unwarned(ir), OneNetworkEach(ir),
                    NamelessNetworks(ir), NEW q \in Requests, Admitted(ir, q)
             PROVE  \/ Squid(Compile(ir), q) = Evaluate(ir, q)
                    \/ /\ ir.mode = "OPTIONAL" /\ q.user = Anonymous
                       /\ Squid(Compile(ir), q) = "CHALLENGE"
  BY DEF Faithful
<1> DEFINE n == Len(ir.rules)
           l == q.listener
           S == Squid(Compile(ir), q)
           hits == {i \in DOMAIN ir.rules : MatchesRule(ir.rules[i], q, ir.mode)}
<1>1. /\ NListeners \in Nat /\ NGuards \in Nat /\ n \in Nat /\ ir.rules \in Seq(Rules)
      /\ DOMAIN ir.rules = 1..n /\ \A i \in 1..n : ir.rules[i] \in Rules
  BY EngineAssumption, LenProperties, ElementOfSeq DEF NGuards, Irs
<1>2. l \in Active(ir) /\ q.port \in SafePorts
  BY DEF Admitted
<1>3. PICK k \in 1..(NGuards + n + 1) :
        /\ Decides(Block(ir, k), q)
        /\ S = Verdict(Block(ir, k), q)
        /\ \A i \in 1..(NGuards + n + 1) : Decides(Block(ir, i), q) => k <= i
  BY <1>2, FirstBlock
<1>4. k <= NGuards => Block(ir, k) = Guard(ir, k)
  BY DEF Block
<1>5. CASE ir.mode = "REQUIRED" /\ q.user = Anonymous
  <2>1. l \in 1..NListeners /\ ir.listeners[l].auth = "REQUIRED"
    BY <1>2, <1>5 DEF Active, Listeners, Uniform
  <2>2. /\ 2 * l \in 1..NGuards /\ 2 * l \in 1..(NGuards + n + 1)
        /\ (2 * l) % 2 # 1 /\ (2 * l) \div 2 = l
    BY <1>1, <2>1, GuardIndex DEF NGuards
  <2>3. Block(ir, 2 * l) = {Line("DENY", PortAcl(l), Addresses, Login({}))}
    BY <1>2, <2>1, <2>2 DEF Block, Guard, CredentialsGuard
  <2>4. Challenges(Line("DENY", PortAcl(l), Addresses, Login({})), q)
    BY <1>5 DEF Challenges, Reached, Line, Login, PortAcl, Requests
  <2>5. k <= 2 * l
    BY <1>3, <2>2, <2>3, <2>4 DEF Decides
  <2>6. k \in 1..NGuards
    BY <1>1, <2>2, <2>5
  <2>7. S = "CHALLENGE"
    BY <1>3, <1>4, <2>6, GuardsAdmit
  <2>. QED  BY <1>5, <2>7 DEF Evaluate
<1>6. CASE ~(ir.mode = "REQUIRED" /\ q.user = Anonymous)
  <2>1. ~(k <= NGuards)
    BY <1>1, <1>3, <1>4, <1>6, GuardsAdmit
  <2>2. \A i \in 1..n : Block(ir, NGuards + i) = RuleBlock(ir, ir.rules[i])
    BY <1>1 DEF Block
  <2>3. \A i \in 1..n :
          /\ MatchesRule(ir.rules[i], q, ir.mode)
               <=> \E line \in RuleBlock(ir, ir.rules[i]) : Applies(line, q)
          /\ \A line \in RuleBlock(ir, ir.rules[i]) : line.action = ir.rules[i].action
    BY <1>1, <1>2, <1>6, RuleAgrees DEF Unwarned, OneNetworkEach, NamelessNetworks
  <2>4. \A i \in hits : Decides(Block(ir, NGuards + i), q)
    BY <1>1, <2>2, <2>3 DEF Decides
  <2>5. \A i \in hits : k <= NGuards + i
    BY <1>1, <1>3, <2>4
  <2>6. Evaluate(ir, q) = IF hits = {} THEN ir.default ELSE ir.rules[FirstOf(hits)].action
    BY <1>6 DEF Evaluate
  <2>7. CASE k <= NGuards + n
    <3> DEFINE j == k - NGuards
    <3>1. j \in 1..n /\ Block(ir, k) = RuleBlock(ir, ir.rules[j])
      BY <1>1, <2>1, <2>7 DEF Block
    <3>2. CASE \E line \in RuleBlock(ir, ir.rules[j]) : Challenges(line, q)
      <4>1. S = "CHALLENGE"
        BY <1>3, <3>1, <3>2, VerdictOf
      <4>2. PICK line \in RuleBlock(ir, ir.rules[j]) : line.login /\ q.user = Anonymous
        BY <3>2 DEF Challenges
      <4>3. ir.mode # "DISABLED"
        BY <1>1, <1>2, <3>1, <4>2, RuleLogin, UniformMode
      <4>4. ir.mode = "OPTIONAL"
        BY <1>6, <4>2, <4>3 DEF Irs, Modes
      <4>. QED  BY <4>1, <4>2, <4>4
    <3>3. CASE ~\E line \in RuleBlock(ir, ir.rules[j]) : Challenges(line, q)
      <4>1. PICK line \in RuleBlock(ir, ir.rules[j]) : Applies(line, q) /\ S = line.action
        BY <1>3, <3>1, <3>3, VerdictOf
      <4>2. j \in hits /\ S = ir.rules[j].action
        BY <1>1, <2>3, <3>1, <4>1
      <4>3. \A i \in hits : j <= i
        BY <1>1, <2>5
      <4>4. hits \in SUBSET Nat /\ hits # {}
        BY <1>1, <4>2
      <4>5. FirstOf(hits) \in hits /\ \A i \in hits : FirstOf(hits) <= i
        BY <4>4, LeastOne
      <4>6. FirstOf(hits) = j
        <5> DEFINE f == FirstOf(hits)
        <5>1. f \in Nat /\ j \in Nat /\ f <= j /\ j <= f
          BY <3>1, <4>2, <4>3, <4>4, <4>5
        <5> HIDE DEF f, j
        <5>2. f = j
          BY <5>1
        <5>. QED  BY <5>2 DEF f
      <4>. QED  BY <2>6, <4>2, <4>6
    <3>. QED  BY <3>2, <3>3
  <2>8. CASE ~(k <= NGuards + n)
    <3>1. hits = {}
      BY <1>1, <2>5, <2>8
    <3>2. Block(ir, k) = {All(ir.default)}
      BY <1>1, <2>1, <2>8 DEF Block
    <3>3. ~Challenges(All(ir.default), q) /\ All(ir.default).action = ir.default
      BY DEF Challenges, All, Line, Free
    <3>4. S = ir.default
      BY <1>3, <3>2, <3>3, VerdictOf
    <3>. QED  BY <2>6, <3>1, <3>4
  <2>. QED  BY <2>7, <2>8
<1>. QED  BY <1>5, <1>6

-----------------------------------------------------------------------------
(* The builder.                                                            *)

\* Whatever rows the builder combines, the outcome is an IR.
LEMMA BuildIrType ==
  ASSUME NEW c \in Configs, NEW table \in Tables,
         NEW profiles \in [Listeners -> ListenerRows], NEW rows \in Seq(RuleRows),
         NEW target
  PROVE  BuildIr(c, table, profiles, rows, target) \in Irs
<1> DEFINE ir == BuildIr(c, table, profiles, rows, target)
<1>1. \A ids \in SUBSET NetIds : Resolve(ids, table) \in SUBSET Networks
  BY StoreAssumption DEF Resolve, Tables, NoRow
<1>2. ir.mode \in Modes /\ ir.default \in Actions
  BY DEF BuildIr, Configs
<1>3. \A l \in Listeners : BuildListener(profiles[l], c, table, target) \in IrListeners
  <2> SUFFICES ASSUME NEW l \in Listeners
               PROVE  BuildListener(profiles[l], c, table, target) \in IrListeners
    OBVIOUS
  <2>1. profiles[l] \in [enabled : BOOLEAN, global : BOOLEAN, auth : Modes \cup {INHERIT},
                        sources : SUBSET NetIds]
    BY StoreAssumption
  <2>2. InScope(profiles[l], target) \in BOOLEAN
    BY DEF InScope
  <2>. QED  BY <1>1, <2>1, <2>2 DEF BuildListener, IrListeners, Configs
<1>4. \A i \in 1..Len(rows) : BuildRule(rows[i], table, target) \in Rules
  <2> SUFFICES ASSUME NEW i \in 1..Len(rows)
               PROVE  BuildRule(rows[i], table, target) \in Rules
    OBVIOUS
  <2>1. rows[i] \in [enabled : BOOLEAN, global : BOOLEAN, action : Actions, source : SUBSET NetIds,
                     identity : Identities, destination : Destinations]
    BY StoreAssumption, ElementOfSeq
  <2>2. Resolve(rows[i].source, table) \in SUBSET Networks
    BY <1>1, <2>1
  <2>3. InScope(rows[i], target) \in BOOLEAN
    BY DEF InScope
  <2>. QED  BY <2>1, <2>2, <2>3 DEF BuildRule, Rules
<1>5. [i \in DOMAIN rows |-> BuildRule(rows[i], table, target)] \in Seq(Rules)
  <2>1. Len(rows) \in Nat /\ DOMAIN rows = 1..Len(rows)
    BY LenProperties
  <2>2. [i \in DOMAIN rows |-> BuildRule(rows[i], table, target)] \in [1..Len(rows) -> Rules]
    BY <1>4, <2>1
  <2>. QED  BY <2>1, <2>2, SeqDef
<1>. QED  BY <1>2, <1>3, <1>5 DEF BuildIr, Irs

\* The configuration the security check judges is the one the write will
\* produce.
LEMMA ProjectedIsNext ==
  ASSUME NEW c, NEW next, NEW table, NEW profiles, NEW rows, NEW target
  PROVE  Projected(BuildIr(c, table, profiles, rows, target), next)
           = BuildIr(next, table, profiles, rows, target)
<1> DEFINE ir == BuildIr(c, table, profiles, rows, target)
<1>1. \A l \in Listeners :
        (IF ir.listeners[l].inherits
           THEN [ir.listeners[l] EXCEPT !.auth = next.mode]
           ELSE ir.listeners[l])
        = BuildListener(profiles[l], next, table, target)
  BY DEF BuildIr, BuildListener
<1>. QED  BY <1>1 DEF Projected, BuildIr

-----------------------------------------------------------------------------
(* Types.                                                                  *)

\* The rule table stays a sequence of rows.
LEMMA InsertType ==
  ASSUME NEW S, NEW s \in Seq(S), NEW e \in S, NEW i \in 1..(Len(s) + 1)
  PROVE  InsertAt(s, i, e) \in Seq(S)
<1>1. Len(s) \in Nat /\ \A k \in 1..Len(s) : s[k] \in S
  BY LenProperties, ElementOfSeq
<1>2. SubSeq(s, 1, i - 1) \in Seq(S) /\ SubSeq(s, i, Len(s)) \in Seq(S)
  BY <1>1, SubSeqProperties
<1>3. <<e>> \in Seq(S)
  OBVIOUS
<1>. QED  BY <1>2, <1>3, ConcatProperties DEF InsertAt

\* So does a row taken out of it.
LEMMA RemoveType ==
  ASSUME NEW S, NEW s \in Seq(S), NEW i \in 1..Len(s)
  PROVE  RemoveAt(s, i) \in Seq(S) /\ Len(RemoveAt(s, i)) = Len(s) - 1
<1>1. Len(s) \in Nat /\ \A k \in 1..Len(s) : s[k] \in S
  BY LenProperties, ElementOfSeq
<1>2. /\ SubSeq(s, 1, i - 1) \in Seq(S) /\ Len(SubSeq(s, 1, i - 1)) = i - 1
      /\ SubSeq(s, i + 1, Len(s)) \in Seq(S) /\ Len(SubSeq(s, i + 1, Len(s))) = Len(s) - i
  BY <1>1, SubSeqProperties
<1> DEFINE u == SubSeq(s, 1, i - 1)
           v == SubSeq(s, i + 1, Len(s))
<1>3. u \o v \in Seq(S) /\ Len(u \o v) = Len(u) + Len(v)
  BY <1>2, ConcatProperties
<1>4. RemoveAt(s, i) = u \o v
  BY DEF RemoveAt
<1>5. Len(u) + Len(v) = Len(s) - 1
  <2>1. Len(u) = i - 1 /\ Len(v) = Len(s) - i
    BY <1>2
  <2>2. Len(s) \in Int /\ i \in Int
    BY <1>1
  <2> HIDE DEF u, v
  <2>. QED  BY <2>1, <2>2
<1>. QED  BY <1>3, <1>4, <1>5

\* The types hold of every policy an administrator may have left behind.
LEMMA TypeInit == Init => TypeOK
<1> SUFFICES ASSUME Init PROVE TypeOK
  OBVIOUS
<1>1. /\ nets \in Tables /\ rules \in Seq(RuleRows)
      /\ listeners \in [Listeners -> ListenerRows] /\ config \in Configs
  BY StoreAssumption DEF Init
<1>2. served \in Irs
  BY <1>1, BuildIrType DEF Init, CurrentIr
<1>3. acked \in BOOLEAN
  BY DEF Init, OpenProxy
<1>. QED  BY <1>1, <1>2, <1>3, StoreAssumption DEF Init, TypeOK, Handlers

\* They are inductive: an edit writes what its schema takes, and a build ends in
\* an IR whichever rows it has read.
LEMMA TypeNext == TypeOK /\ [Next]_vars => TypeOK'
<1> SUFFICES ASSUME TypeOK, [Next]_vars PROVE TypeOK'
  OBVIOUS
<1>. USE StoreAssumption DEF TypeOK, policy
<1>1. ASSUME Edit, UNCHANGED <<rules, listeners>>, nets' \in Tables PROVE TypeOK'
  BY <1>1 DEF Edit
<1>2. ASSUME Edit, UNCHANGED <<nets, listeners>>, rules' \in Seq(RuleRows) PROVE TypeOK'
  BY <1>2 DEF Edit
<1>3. ASSUME NEW n \in NetIds, NEW cidrs \in CidrLists,
             CreateNetwork(n, cidrs) \/ PatchNetwork(n, cidrs)
      PROVE  TypeOK'
  BY <1>1, <1>3 DEF CreateNetwork, PatchNetwork, Tables
<1>4. ASSUME NEW n \in NetIds, DeleteNetwork(n) PROVE TypeOK'
  BY <1>1, <1>4 DEF DeleteNetwork, Tables
<1>5. ASSUME NEW row \in RuleRows, NEW i \in 1..(Len(rules) + 1), CreateRule(row, i)
      PROVE  TypeOK'
  BY <1>2, <1>5, InsertType DEF CreateRule
<1>6. Len(rules) \in Nat /\ DOMAIN rules = 1..Len(rules)
  BY LenProperties
<1>7. ASSUME NEW i \in DOMAIN rules, NEW j \in DOMAIN rules, NEW row \in RuleRows,
             PatchRule(i, row, j)
      PROVE  TypeOK'
  <2>1. RemoveAt(rules, i) \in Seq(RuleRows) /\ j \in 1..(Len(RemoveAt(rules, i)) + 1)
    BY <1>6, RemoveType
  <2>. QED  BY <1>2, <1>7, <2>1, InsertType DEF PatchRule
<1>8. ASSUME NEW p \in [DOMAIN rules -> DOMAIN rules], ReorderRules(p) PROVE TypeOK'
  <2>1. rules' \in [1..Len(rules) -> RuleRows]
    BY <1>6, <1>8, ElementOfSeq DEF ReorderRules
  <2>. QED  BY <1>2, <1>6, <1>8, <2>1, SeqDef DEF ReorderRules
<1>9. ASSUME NEW i \in DOMAIN rules, DeleteRule(i) PROVE TypeOK'
  BY <1>2, <1>6, <1>9, RemoveType DEF DeleteRule
<1>10. ASSUME NEW l \in Listeners, NEW row \in ListenerRows, SetListener(l, row) PROVE TypeOK'
  BY <1>10 DEF SetListener, Edit
<1>11. ASSUME NEW a \in Admins, NEW next \in Configs, NEW ack \in BOOLEAN,
              LoadConfig(a, next, ack)
       PROVE  TypeOK'
  BY <1>11 DEF LoadConfig, Handlers
<1>12. ASSUME NEW a \in Admins, CheckConfig(a) PROVE TypeOK'
  <2> DEFINE finding == OpenProxy(Projected(PreviewIr, patch[a].next))
             at == IF finding /\ ~patch[a].ack THEN "IDLE" ELSE "WRITE"
  <2>1. finding \in BOOLEAN /\ at \in {"IDLE", "CHECK", "WRITE"}
    BY DEF OpenProxy
  <2>2. patch' = [patch EXCEPT ![a].at = at, ![a].finding = finding]
    BY <1>12 DEF CheckConfig
  <2> HIDE DEF finding, at
  <2>3. [patch[a] EXCEPT !.at = at, !.finding = finding] \in Handlers
    <3>1. patch[a] \in Handlers
      OBVIOUS
    <3> HIDE DEF TypeOK
    <3>2. [patch[a] EXCEPT !.at = at] \in Handlers
      BY <2>1, <3>1 DEF Handlers
    <3>3. ASSUME NEW r \in Handlers, NEW f \in BOOLEAN
          PROVE  [r EXCEPT !.finding = f] \in Handlers
      BY DEF Handlers
    <3>. QED  BY <2>1, <3>2, <3>3, Zenon
  <2>4. patch' \in [Admins -> Handlers]
    BY <2>2, <2>3, Zenon
  <2>. QED  BY <1>12, <2>4 DEF CheckConfig
<1>13. ASSUME NEW a \in Admins, WriteConfig(a) PROVE TypeOK'
  BY <1>13 DEF WriteConfig, Handlers
<1>14. CASE BuildConfig \/ BuildNetworks \/ BuildListeners
  BY <1>14 DEF BuildConfig, BuildNetworks, BuildListeners
<1>15. CASE BuildRules
  <2>1. served' \in Irs
    BY <1>15, BuildIrType DEF BuildRules, Built
  <2>. QED  BY <1>15, <2>1 DEF BuildRules
<1>16. CASE UNCHANGED vars
  BY <1>16 DEF vars
<1>. QED
  BY <1>3, <1>4, <1>5, <1>7, <1>8, <1>9, <1>10, <1>11, <1>12, <1>13, <1>14, <1>15, <1>16
  DEF Next, EditPolicy, PatchConfig, Build

\* The tables hold what their schemas allow, and what is served is an IR,
\* whichever moments its rows are from.
THEOREM TypeCorrect == Spec => []TypeOK
BY TypeInit, TypeNext, PTL DEF Spec

-----------------------------------------------------------------------------
(* What is served.                                                         *)

\* Every configuration handed out, at any moment of any edit, decides as the
\* engine does (buildIr and compileSquidConfig against evaluate).
THEOREM ServesFaithfully == Spec => []ServedFaithful
<1>1. TypeOK => ServedFaithful
  BY CompilerFaithful DEF TypeOK, ServedFaithful
<1>. QED  BY <1>1, TypeCorrect, PTL

\* No configuration handed out challenges on a guest listener.
THEOREM GuestsStayFree == Spec => []GuestNeverChallenged
<1>1. TypeOK => GuestNeverChallenged
  BY NoChallengeOnGuests DEF TypeOK, GuestNeverChallenged
<1>. QED  BY <1>1, TypeCorrect, PTL

\* No configuration handed out lets an anonymous client through a listener that
\* requires credentials.
THEOREM CredentialsRequired == Spec => []RequiredNeverAnonymous
<1>1. TypeOK => RequiredNeverAnonymous
  BY NoAnonymousPastCredentials DEF TypeOK, RequiredNeverAnonymous
<1>. QED  BY <1>1, TypeCorrect, PTL

-----------------------------------------------------------------------------
(* The open proxy check.                                                   *)

\* What a request past its check is about to write does not open the proxy,
\* unless it acknowledges the warning or the policy was edited since.
Checked ==
  \A a \in Admins :
    patch[a].at = "WRITE" /\ quiet[a] /\ ~patch[a].ack
      => ~OpenProxy(BuildIr(patch[a].next, nets, listeners, rules, "FLEET"))

\* It is inductive: only CheckConfig lets a request past its check, and every
\* edit of the policy clears quiet.
LEMMA CheckedNext == TypeOK /\ Checked /\ [Next]_vars => Checked'
<1> SUFFICES ASSUME TypeOK, Checked, [Next]_vars, NEW a \in Admins,
                    patch'[a].at = "WRITE", quiet'[a], ~patch'[a].ack
             PROVE  ~OpenProxy(BuildIr(patch[a].next, nets, listeners, rules, "FLEET"))'
  BY DEF Checked
<1>. USE DEF TypeOK, policy
<1>1. CASE EditPolicy
  <2>1. Edit
    BY <1>1 DEF EditPolicy, CreateNetwork, PatchNetwork, DeleteNetwork, CreateRule, PatchRule,
                ReorderRules, DeleteRule, SetListener
  <2>. QED  BY <2>1 DEF Edit
<1>2. ASSUME patch'[a] = patch[a], quiet'[a] = quiet[a], UNCHANGED <<nets, listeners, rules>>
      PROVE  ~OpenProxy(BuildIr(patch[a].next, nets, listeners, rules, "FLEET"))'
  BY <1>2 DEF Checked
<1>3. ASSUME NEW b \in Admins, NEW next \in Configs, NEW ack \in BOOLEAN, LoadConfig(b, next, ack)
      PROVE  ~OpenProxy(BuildIr(patch[a].next, nets, listeners, rules, "FLEET"))'
  BY <1>2, <1>3 DEF LoadConfig
<1>4. ASSUME NEW b \in Admins, CheckConfig(b)
      PROVE  ~OpenProxy(BuildIr(patch[a].next, nets, listeners, rules, "FLEET"))'
  <2>1. CASE a = b
    <3>1. patch'[a].next = patch[a].next /\ patch'[a].ack = patch[a].ack
      BY <1>4, <2>1 DEF CheckConfig, Handlers
    <3>2. ~OpenProxy(Projected(PreviewIr, patch[a].next))
      BY <1>4, <2>1, <3>1 DEF CheckConfig, Handlers
    <3>3. ~OpenProxy(BuildIr(patch[a].next, nets, listeners, rules, "FLEET"))
      BY <3>2, ProjectedIsNext DEF PreviewIr
    <3>. QED  BY <1>4, <3>1, <3>3 DEF CheckConfig
  <2>2. CASE a # b
    BY <1>2, <1>4, <2>2 DEF CheckConfig
  <2>. QED  BY <2>1, <2>2
<1>5. ASSUME NEW b \in Admins, WriteConfig(b)
      PROVE  ~OpenProxy(BuildIr(patch[a].next, nets, listeners, rules, "FLEET"))'
  BY <1>2, <1>5 DEF WriteConfig, Handlers
<1>6. CASE Build
  BY <1>2, <1>6 DEF Build, BuildConfig, BuildNetworks, BuildListeners, BuildRules
<1>7. CASE UNCHANGED vars
  BY <1>2, <1>7 DEF vars
<1>. QED  BY <1>1, <1>3, <1>4, <1>5, <1>6, <1>7 DEF Next, PatchConfig

\* A change of the authentication mode or the default access that nobody
\* acknowledged leaves no open proxy behind on what is global, with any number
\* of such requests in flight, unless the policy was edited while it ran.
THEOREM UnacknowledgedSafe == Spec => UnacknowledgedNeverOpens
<1> DEFINE Opens(a) == WrittenUnacknowledged(a) /\ OpenProxy(PreviewIr')
<1>1. Init => Checked
  BY DEF Init, Checked
<1>2. TypeOK /\ Checked /\ [Next]_vars => \A a \in Admins : ~Opens(a)
  <2> SUFFICES ASSUME TypeOK, Checked, [Next]_vars, NEW a \in Admins,
                      patch[a].at = "WRITE", patch'[a].at = "IDLE", quiet[a], ~patch[a].ack
               PROVE  ~OpenProxy(PreviewIr')
    BY DEF WrittenUnacknowledged
  <2>. USE DEF TypeOK, policy
  <2>1. WriteConfig(a)
    <3>1. ASSUME EditPolicy PROVE FALSE
      BY <3>1 DEF EditPolicy, CreateNetwork, PatchNetwork, DeleteNetwork, CreateRule, PatchRule,
                  ReorderRules, DeleteRule, SetListener, Edit
    <3>2. ASSUME Build \/ UNCHANGED vars PROVE FALSE
      BY <3>2 DEF Build, BuildConfig, BuildNetworks, BuildListeners, BuildRules, vars
    <3>3. ASSUME NEW b \in Admins, NEW next \in Configs, NEW ack \in BOOLEAN,
                 LoadConfig(b, next, ack)
          PROVE  FALSE
      BY <3>3 DEF LoadConfig
    <3>4. ASSUME NEW b \in Admins, CheckConfig(b) PROVE FALSE
      BY <3>4 DEF CheckConfig, Handlers
    <3>5. ASSUME NEW b \in Admins, WriteConfig(b) PROVE b = a
      BY <3>5 DEF WriteConfig
    <3>. QED  BY <3>1, <3>2, <3>3, <3>4, <3>5 DEF Next, PatchConfig
  <2>2. ~OpenProxy(BuildIr(patch[a].next, nets, listeners, rules, "FLEET"))
    BY DEF Checked
  <2>3. PreviewIr' = BuildIr(patch[a].next, nets, listeners, rules, "FLEET")
    BY <2>1 DEF WriteConfig, PreviewIr
  <2>. QED  BY <2>2, <2>3
<1>3. TypeOK /\ Checked /\ [Next]_vars
        => [\A a \in Admins : WrittenUnacknowledged(a) => ~OpenProxy(PreviewIr')]_vars
  BY <1>2
<1>. QED  BY <1>1, <1>3, TypeInit, TypeNext, CheckedNext, PTL DEF Spec, UnacknowledgedNeverOpens
=============================================================================
