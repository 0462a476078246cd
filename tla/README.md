# A TLA+ model of the Squid control plane

This directory holds a formal model of the control plane in this repository: TLA+
modules translated from the source, TLC configurations that check them on small
instances, and proofs for TLAPS. Paths such as `index.ts:302` are relative to the
file a section is about; `PROJECT.json` maps every definition to its source lines.

## 1. The system

An administrator edits a policy in the control plane's database. Agents on the proxy
hosts poll the API, which compiles the policy into a *bundle* (squid.conf and the files
its helpers need) for the node that asks. The agent writes, validates and applies the
bundle and reports back. People use the proxies with passwords an administrator gave
them, or with accounts that single sign-on created for a limited time.

```
 web console ──HTTP──► API routes ──SQL──► PostgreSQL ◄──SQL── buildIr ──► compiler
                                                                              │ bundle
 Squid ◄── files, signals ── agent ◄──────── GET /agent/config ◄──────────────┘
   │                          │ POST /agent/enroll, /agent/status, /agent/logs
   └── access.log ────────────┘
```

There are few transactions around the routes (the reorderings, and what replaces members), no
explicit locks, and no shared memory between requests except the caches of one API process.
Every `await` in a handler is therefore a point where any other handler, agent or timer may
run.

### Inventory

| Component | State | Operations | What makes it correct |
|---|---|---|---|
| Node agent (`apps/agent/src/index.ts`) | `state.json`, in-memory state, files on the host, the Squid child | enrol, apply cycle, report, ship logs | serves only what validated; takes the UNCHANGED shortcut only when it is true; reports truthfully; converges |
| Agent API (`routes/agent.ts`) | `agent_credentials`, `node_enrollment_tokens`, `proxy_nodes`, `node_heartbeats`, traffic tables | enroll, config, status, logs | one credential per node; a token buys one credential; nothing survives deletion |
| Node administration (`routes/nodes.ts`) | the same tables | issue token, revoke, delete, list | as above; the row agrees with the credentials |
| Policy engine and IR (`policy/engine.ts`, `ir.ts`) | none | `evaluate` | is the reference for the compiler |
| Squid compiler (`squid/compiler.ts`) | none | IR to http_access lines and artefacts | decides as the engine does; never challenges guests; never lets an anonymous client past a listener that requires credentials |
| Open proxy check (`policy/openProxy.ts`) | none | findings | blocks an unacknowledged opening |
| Configuration builder (`services/configuration.ts`) | none; reads all policy tables | `buildIr`, `compileForNode` | what it builds from rows of different moments is still a sound policy, and builds converge |
| Policies, listeners, authentication (`routes/policies.ts`, `listenerProfiles.ts`, `proxyAuth.ts`) | `networks`, `access_rules`, `listener_profiles`, `proxy_auth_config`, node groups | create, patch, delete, reorder, change mode | references stay meaningful; the open proxy warning cannot be bypassed |
| Proxy users, groups, portal identity (`routes/proxyIdentity.ts`, `portalOidc.ts`) | `proxy_users`, groups, memberships | create, patch, reset password, delete | a disabled account stays disabled; members are one request's; rules reach who belongs |
| Access leases (`services/accessLease.ts`) | expiry columns of `proxy_users` | sweep at start and every five minutes | an expired account is out; a renewed one is not swept away |
| OIDC sign-in (`routes/oidc.ts`, `security/oidc.ts`) | `identity_providers`, `oidc_login_states`, `cp_users` | start, callback; create, patch, delete a provider | a state is used once; a session bears the name of its account; a closed door is closed |
| Self-service portal (`routes/portal.ts`) | `proxy_users.password_hash` | sign in, change the own password, statistics | whoever a provider vouches for gets in |
| Administrator sessions (`security/jwt.ts`, `routes/session.ts`, `http/context.ts`) | tokens | issue, check | a token opens its own plane only |
| Authentication providers (`providers/*`, `routes/proxyAuth.ts`) | `auth_providers`, `provider_secrets`, a health cache | authenticate, health; create, patch, reorder, delete, test | an outage hides no account of another provider; the health shown becomes true |
| Traffic (`services/traffic.ts`, `squid/accessLog.ts`) | events, hourly counters, totals | ingest, prune | no line is missed; counters and events agree |
| Web console (`apps/web`, `packages/ui`) | `sessionStorage`, React state, forms, requests in flight | load, filter, edit, switch, delete, sign in and out | shows the current list; a save writes what was meant; planes stay apart |
| Runtime settings (`services/settings.ts`) | `app_settings`, a 15 s cache | get, update | an update is seen |
| Rate limiter (`security/rateLimit.ts`) | sliding windows in memory | take | never more than the limit in a window |
| Audit log (`audit/sink.ts`) | append-only table | append | a change is recorded |
| Server and bootstrap, hashing and address arithmetic, Squid adapter, deployment | | | wiring, pure functions with test vectors, shell |

### What is hard about it

* **Interleaved handlers.** Enrolment is four statements; issuing a token two; revoking
  two; `PATCH /proxy-auth/config` reads, checks and writes. `buildIr` reads seven tables
  one after the other.
* **Failure in the middle.** The agent writes files, validates, renames, starts or
  reconfigures Squid and saves its state; a write can fail or the container die between
  any two of these steps, and Squid can exit at any time.
* **Lost answers.** A report or an enrolment may succeed while the agent never learns it.
* **Two languages for one policy.** The engine walks rules; Squid reads conjunctions of
  ACLs from left to right and asks for credentials when it meets an identity ACL.
* **Long sequences of legal edits** that reach a policy nobody was warned about.
* **Leases** that run out while the directory, the person and an administrator act on the
  same account; **login states and a health cache** with clocks of their own.
* **Delivery that repeats** into counters that are not idempotent, from a file that is
  rotated under the reader.
* **Late answers** in a browser tab: lists, saves and sessions come back to a page that has
  moved on.

`PROJECT.json` lists these hazards with the line where each bites and the properties that
would catch it.

## 2. The modules

| Module | Models | Used by |
|---|---|---|
| `ProxyService` | abstract: what a node promises its operator | `NodeAgent` implements it |
| `NodeAgent` | apply cycle, report and its handler, Squid, container | `NodeAgentProofs` |
| `Enrollment` | tokens, credentials, node row, the agent's key | `EnrollmentProofs` |
| `PolicyEngine` | IR and `evaluate`: the reference | `SquidCompiler` |
| `SquidCompiler` | http_access section, Squid's reading of it, open proxy check | `PolicyStore`, `PolicyProofs` |
| `PolicyStore` | policy tables, the handlers that edit them, `buildIr` | `MCPolicy`, `PolicyProofs` |
| `MCPolicy` | a small policy for TLC | runs `policy*` |
| `AccessLease` | a directory-backed proxy account: sign-in, lease, sweep, administrators | `AccessLeaseProofs` |
| `LogShipping` | the access log from file to counters: agent, API, rotation, failures | `LogShippingProofs` |
| `SignIn` | sign-in through an identity provider: states, callbacks, operators, administration | `MCSignIn`, `SignInProofs` |
| `ProxyDirectory` | users, groups, members, and what a rule naming groups comes to | `MCProxyDirectory`, `AdministrationProofs` |
| `Providers` | the provider chain, its health cache and its administration, portal sign-in | run `providers`, `SignInProofs` |
| `BrowserSession` | one tab: tokens, kinds, shells, answers in any order | `BrowserSessionProofs` |
| `ConsolePages` | what each console page does with the columns of a row | `ConsolePage` |
| `ConsolePage` | the state machine all pages share: list, form, dialog, writes | `MCConsolePage`, `AdministrationProofs` |

### NodeAgent

`published` is the sequence of bundles the control plane has stood for; files, the Squid
process and the loop (`got`) hold *indices* into it, so that the same bundle published
twice can be told apart, while hashes (`applied`, `saved`, the heartbeat) are bundles:
`configurationHash` covers everything a bundle contains. Index 0 is a file that is missing
or cut short.

`pc` is the point of the loop at which the agent awaits something:

| pc | code | actions |
|---|---|---|
| `poll` | `main` fetches | `Fetch` (with the UNCHANGED shortcut); `Enrol` when the answer is a 401 |
| `write` | `writeArtefacts` | `WriteArtefact`, `WriteFails`, then `Validate` |
| `install` | write of the live squid.conf | `Install`, `InstallFails` |
| `launch` | `startSquid` or `squid -k reconfigure` | `Start`, `Reconfigure`, `ReconfigureFails` |
| `settle` | the 1.5 s wait after a start | `Settle` |
| `save` | `writeState` | `SaveState`, `SaveFails` |
| `report`, `await` | `report` | `SendReport`, `ReportRefused`, `ReportLost`, `ReportAbandoned` |
| `enrol` | `state.json` unreadable at the start | `Enrol` |

`key` says whether the control plane still accepts the agent's key, `token` whether the
token it was started with is worth anything. `Revoke` takes the key at any moment and does
not touch Squid. The agent learns it from the 401 of its next poll (`main`, 451-460) and
enrols again *while Squid runs*: the new state has no `appliedHash`, so the next bundle is
applied anew. `EnrolFails` is a token that has run out or an answer that is lost, after
which only an operator helps (`Reissue`: a new token and a restart). The handlers behind
this are in `Enrollment`.

`UpdateNode` and `UpsertHeartbeat` are the two statements of `POST /agent/status`; a call
whose agent has given up goes on by itself. `SquidExits`, `HelperStarts` and `Crash` are
the environment. A helper that Squid starts later reads the artefact that is in place
then, which is how a rejected bundle's password file reaches a running Squid.

### Enrollment

One node, and a set of handler slots. Each handler is a record of the operation, the
statement it executes next, and the token and key it carries. `past` remembers whether
handlers have ever overlapped or died, so that a property can say under which
circumstances the code keeps a promise. Tokens and keys are random in the code; the model
reuses an identifier that nothing refers to any more, which keeps the state space finite
without bounding how many are issued. Without the node an insert breaks its foreign key.

### PolicyEngine, SquidCompiler

A network is the set of addresses its CIDRs cover, a group the set of its active members,
and the hosts that the domain or network entries of a rule cover are given as sets. What
is kept is the structure: which conditions are alternatives, which are conjunctions, in
which order lines are written, which lines are left out.

The compiler writes the ACLs of a line in a fixed order (listener port and source
networks, identity, destination). A `Line` is a record with the values each kind of ACL
admits. `Compile` is a sequence of *blocks*: the source guard and credentials guard of each
listener, one block of lines per rule, the default. The lines of a block share their
action and everything before the identity, so their order does not matter. `Squid`
(external) takes the first block that decides and asks an anonymous client for
credentials where a line with an identity ACL is reached.

### PolicyStore

The tables are variables; each SQL statement is an action. `BuildConfig`,
`BuildNetworks`, `BuildListeners` and `BuildRules` are the queries of `buildIr`, between
which anything can be edited. `LoadConfig`, `CheckConfig` and `WriteConfig` are the three
parts of `PATCH /proxy-auth/config`. Rows carry `global`: a configuration for a node
(`"NODE"`) has the listeners and rules of the node's group too, the preview that the open
proxy check judges (`"FLEET"`) has only what is global (`configuration.ts:145`, `172`).

Abstractions, beside those above:

* The check of `PATCH /proxy-auth/config` reads its tables in one step. Its result is
  compared with the policy only if no edit came in between (`quiet`).
* `DELETE /networks/:id` looks for rules and deletes in one step. Since creating a rule
  never checks that its networks exist, a rule that comes in between equals one created
  right after.
* A row that does not apply, because it is disabled or out of scope, keeps its place with
  `enabled` false; the compiler skips it either way.
* At least one authentication provider is enabled. Without one the compiler emits no
  identity ACL.
* Schedules, external groups and logical groups are not modelled; every rule applies
  always and names users and groups only.
* Of the baseline only Safe_ports is kept. The lines for CONNECT and for Squid's own
  manager requests come before everything else and do not depend on the policy.
* Squid's answers are ALLOW, DENY and CHALLENGE (407). A client whose credentials are
  known but not among those a line names is passed on to the next line.

### AccessLease

One person's row in `proxy_users`. A portal callback is `SignInBegin` (the claim is
judged), then either `Refuse`, or `SignInLoad`, `SignInJudge` (is the renewal window open,
by the expiry that was read) and `SignInUpdate`; it can fail between any two of them.
`CreateBegin` and `CreateInsert` are the check and the insert of
`POST /portal/proxy-account`, which trusts the session and does not ask for the claim
again. `PatchLoad` and `PatchWrite` are the read and the write of an administrator's PATCH,
which writes the status it read unless the request names one (`KEEP` is a request that does
not; the web console always names it). `Sweep` is `expireStaleLeases`. Time is the number
of days a lease has left, so there is no bound on time. `same` says that the row a handler
read has not been deleted: ids are not used twice. Local accounts, which have no lease and
no subject, passwords, groups and the lease notice are left out, and so are changes of the
lease settings.

The histories `decided`, `lost`, `out` and `leased` say under which circumstances a promise
is kept: what administrators said last, whether a PATCH overwrote a status it did not name,
whether a refusal came with nobody under way who had been admitted before it, and whether
the account has ever had a lease.

### LogShipping

The file is a sequence of *units*, one or two to a line, so that Squid may have written half
a line and an offset may point into the middle of one. `ShipStep` is `shipLogs` between its
awaits: `Stat` (with the rotation test), `Read` (up to the window and the last newline), one
`Post` per chunk, `Save`. `ApiStep` is `ingestAccessLog`: `Refuse` or `InsertEvents`, then
`UpdateRollup` for each counter, then `AddTotals`, one statement each. `Failure` is a
statement that fails (what was written stays), an answer that is lost while the API goes on,
a `state.json` that cannot be written or is cut short, a restart and a new enrolment.
`inserted` and `counted` are, per line, how often the tables have it. Pruning, which deletes
by age, is left out, and no line is longer than the read window.

### SignIn

`attempts` is `oidc_login_states`, `callbacks` the callbacks under way. A callback is
`Consume` (one `delete ... returning`), `LoadProvider`, `Exchange` (the directory answers and
the claims are judged by the row that was loaded), and for an operator `Look`, `Name`,
`Insert` and `Issue`. Meanwhile administrators change or delete the provider, the directory
gives and takes claims or renames people, and `cp_users` is changed in the database. A
username is the directory's or that one qualified with the provider's key: a callback has
both, `localUsername` for the row and `username` for the session it gives out (the token, the
audit entry and the answer). The proxy account
behind the portal's door is in `AccessLease`; tokens and their signatures are not modelled: a
callback that fails verification is `Abandon`.

### ProxyDirectory

Users and logical groups are both *owners* of links. A request that sets members is `Lock`
(its UPDATE, which waits for the row), `Clear`, `Add` and `Commit` of one READ COMMITTED
transaction, whose effects others see at the commit. `Expansion` is the recursion of `buildIr`
over logical groups as a function of the depth, `MatchedUsers` what a rule comes to.
`Connected` is what the property holds against it: the users of the least set that is closed
under the links (`Behind`), which knows of no depth. Deleting
a group is a check of the rules and a delete, two statements apart.

### Providers

A request loads the rows once with the place each has by priority, and works with that copy: it
takes the `First` of those that are left. `Skip`, `AskLocal`, `Search` and `Bind` are the steps
of a sign-in through the chain, with the directory going down, or a row disabled, deleted or
changed, between any two of them. A list of providers (`Load`, `FromCache`, `Probe`, `Store`)
fills the health cache with the expiry counted from before the probe. The administration is the
read, the write and the invalidation of a PATCH, creating (which forgets the health of all
providers) and deleting; `Prove` and `WritePassword` are a person changing the own password
while an administrator resets it. `vouch` in a sign-in is a history: the providers that would
have let the person in at every moment since it began.

### BrowserSession

`sessionStorage` (`token`, `kind`), the two providers of `App.tsx` (`user`, `portal`) and the
requests in flight. An answer finds the tab as it is by then; `TokenLeft`, `UserLeft`,
`PortalLeft` and `KindLeft` are what `api()` does with a 401 before its caller goes on. A load
drops what is in flight and asks who is signed in, by the stored kind. `submitting` is the
state of the login page that keeps its button from being pressed twice; it is gone when the
page is, while the sign-in goes on. `overlapped` is the history that two have.

### ConsolePages, ConsolePage

The pages share one pattern: `useQuery` loads a list, a drawer edits a row, buttons switch
and delete. `ConsolePages` says for each page which columns a row has, which a form takes
over when it opens, which it offers, and which a save sends. `ConsolePage` is the machine.
A page treats each column on its own, so a run looks at one column of one page at a time,
chosen in `Init`. Forms may be closed while their write is out, answers come in any order,
other administrators change the rows. The dashboard, the statistics and the simulator
only show and are left out.

## 3. The runs

| Run | Module, cfg | Shows |
|---|---|---|
| `agent` | `NodeAgent`, `MCNodeAgent.cfg` | six properties |
| `enrollment` | `Enrollment`, `MCEnrollment.cfg` | five properties |
| `policy` | `MCPolicy`, `MCPolicy.cfg` | six properties |
| `policy_engine` | `MCPolicy`, `MCPolicyEngine.cfg` | violation, finding 1 |
| `policy_confined` | `MCPolicy`, `MCPolicyConfined.cfg` | violation, finding 2 |
| `lease` | `AccessLease`, `MCAccessLease.cfg` | five properties |
| `logs` | `LogShipping`, `MCLogShipping.cfg` | four properties |
| `console` | `MCConsolePage`, `MCConsolePage.cfg` | three properties |
| `browser` | `BrowserSession`, `MCBrowserSession.cfg` | three properties |
| `signin` | `MCSignIn`, `MCSignIn.cfg` | three properties |
| `directory` | `MCProxyDirectory`, `MCProxyDirectory.cfg` | two properties |
| `providers` | `Providers`, `MCProviders.cfg` | two properties |

Each passing run explores all states of its instance: between 250 000 and 3 200 000. Most
modules have a `TypeOK`, which is not listed below. `CHECK_DEADLOCK FALSE` is in the
configurations of models that stop when their bounds are used up, or, for enrolment, when
the node is deleted.

### agent

* `AppliedIsServed`: when the agent would answer UNCHANGED, Squid runs a squid.conf of
  just that bundle. After an enrolment under a running Squid it would not.
* `OnlyValidated`: neither the live file nor Squid ever holds a rejected squid.conf.
* `SuccessIsServed`: APPLIED and UNCHANGED are true when they are sent, APPLIED also of
  every artefact in use.
* `ImplementsService`: NodeAgent implements `ProxyService` with `served` the index Squid
  has loaded. In particular a node never goes back behind a version it has served.
* `Converges`: when changes and failures are over, a bundle that validates is served, the
  node's row is HEALTHY without error and the heartbeat carries its hash. Its artefacts are
  in use as well, unless it is a bundle that was wanted before and is wanted again
  (`TakenBack`): then those of the bundle in between may stay, for good, also if it was
  rejected. That needs no failure: good, bad, good again is enough (section 5).

Bounds: three bundles, one of them rejected, so that a change can be taken back; two
artefacts, so that a failure can fall between them; two edits (three versions: good, bad,
good again); two failures of any kind, a revoked key among them, so that one can hit the recovery
from another.

Fairness: the loop goes on for ever (`main` catches everything and sleeps) and enrols when it
has to and can, the API executes a request that reached it, and an operator does what the
agent's log asks for, a new token and a restart, for a node that has no key. Nothing obliges an
edit or a failure to happen; the number of failures is bounded, which is what "when the
failures are over" means.

### enrollment

* `SerialSafe`: as long as handlers did not overlap (section 5 says what happens when two
  enrolments do) there is at most one live credential
  and one open token, and no token bought two credentials, also when handlers died half
  way.
* `RowAgrees`: without overlap and failure `enrolled_at` and `status` agree with the
  credentials whenever no handler runs.
* `DeletedIsGone`: no handler that was under way brings back anything of a deleted node,
  under any overlap.
* `Recovers`: whatever overlapped and died, the agent ends up with a credential that is
  live, or the node is deleted.

Bounds: two handlers overlap, three tokens and four keys (one held by each handler, one
live or open, one with the agent), two administrative acts nobody asked for and two
failures.

Fairness: a handler that runs ends (weak); the agent retries on every poll and an operator
who sees the node stuck issues a token. The last two compete with others for a handler
slot, which is only enabled again and again, hence strong fairness. The code has no such
slots; they bound the model. The run has `CHECK_DEADLOCK FALSE`, because a deleted node
leaves nobody with anything to do.

### policy

* `ServedFaithful`: on every request the generated lines decide as the engine does, if
  listeners follow the global mode, the rules are without the divergences the compiler
  warns about (`Unwarned`: domains with networks on one rule, UNAUTHENTICATED in OPTIONAL
  mode) and without the two it says nothing of: each rule names one source network
  (`OneNetworkEach`, finding 1), and no destination network covers a host that requests
  name (`NamelessNetworks`, section 5).
* `GuestNeverChallenged`: a listener without authentication never asks for credentials,
  whatever the rules and the listeners next to it.
* `RequiredNeverAnonymous`: a listener that requires credentials allows nothing to a
  client without them.
* `UnacknowledgedNeverOpens`: a change of mode or default access that acknowledged nothing
  leaves no open proxy behind on what is global, also with two such requests in flight and
  with listeners that inherit their mode.
* `Converges`: once edits stop, the configuration served is the policy in the tables,
  although earlier builds may have mixed rows of different moments.

The first three are checked on every configuration *served*, that is on mixtures as well.

Bounds: two listeners, two networks that overlap, three addresses of which one is public,
two users, two hosts (a name and a literal address), two ports (one outside Safe_ports),
six rule rows that cover every identity kind but USER (which is a GROUP of one list), four
listener rows, four initial policies, two rules at a time, two edits, two concurrent PATCH
requests. Two edits suffice to put one between two queries of a build and another one
behind it, or to interleave two PATCH requests. The theorems below lift the bounds.

Fairness: agents poll for ever, so builds go on (`WF_vars(Build)`).

### lease

* `DecisionStands`: an account an administrator disabled stays disabled whatever sign-ins,
  refusals and sweeps are under way, until an administrator says otherwise, or a PATCH writes
  back the status it read (section 5).
* `RefusedStaysOut`: after a refusal that came with nobody under way, the account is
  disabled until the directory vouches again or an administrator enables it. With a session
  or an admitted sign-in still about, the account can come back for one lease.
* `ReturnerRestored`: a sign-in that completes makes the account active, unless an
  administrator disabled it.
* `Deprovisioned`: once the directory has given a person up for good, the account ends up
  disabled for good, except one from before leases that was never signed in to.

Bounds: two sign-ins, two creations and two PATCH requests at once, so that each kind can
race itself and any other; a lease of two days with a window of one, so that a lease is
before its window, in it, or over; two acts of administrators. Time, sign-ins, refusals and
changes of the claim are not bounded.

Fairness: handlers that began end, time passes, sessions end, and the sweep's timer fires
(`server.ts:68-79`, at every start and every five minutes). Nobody has to sign in.

### logs

* `NothingSkipped`: every line of the file behind the offset, the one in memory and the one
  in `state.json`, is in the counters, unless the file has outgrown the offset of the one
  before it.
* `CountedOncePerTry`: a line is never in the counters more often than in the events, and it
  is repeated only when something broke, at most once more for each time.
* `Drains`: once Squid is silent and the failures are over, every complete line reaches the
  counters, unless one of them is longer than the API accepts.

Bounds: two lines of up to two units, a window of three units and chunks of one line, so that
a read ends within a line and takes several posts; one rotation; two failures; two counters,
so that one can be reached and the other not. Fairness: the agent polls for ever and the API
answers what reaches it.

### console

* `ShownIsCurrent`: a list on the screen is that of the filter on the screen and shows every
  own write that was answered.
* `SaveKeepsTheRest`: a save writes what was typed and leaves the rest as stored, except the
  columns in `KnownResets` and `KnownDrops`, what others changed since the list was read, and,
  if the form was opened without its list, the columns in `BlindResets`: the two lease
  settings, for which the page then saves its built-in 90 and 5. No other form is excused for
  having been opened without a list.
* `OneAtATime`: at most one save or deletion of a page is in flight, and the buttons are
  released exactly when none is.

Bounds: one row, two own writes or filter changes, one foreign change, one failure; sixteen
columns, one for every way a page treats one.

### browser

* `KindIsTheTokens`: the stored kind is that of the stored token.
* `PlanesKept`: a shell never works with a token of the other plane; except that the portal's
  may, in a tab where two sign-ins have been under way at once (`overlapped`, section 5).

Bounds: two requests in flight, three sessions, two loads, one failure on the way; a 401 is
not a failure and is not bounded.

### signin

* `OneUseOfAState`: a state buys one session, at the door it was started at.
* `ShutDoorHolds`: a door that is closed, with the last callback that had loaded its row over,
  lets nobody in.

Bounds: two people of whom one may be called like the local administrator, two states, two
callbacks, one change. People, states and callbacks are alike (symmetry). The theorems lift
the bounds. That usernames are unique is the unique index of `Insert` and not a property; that
the session bears the unqualified one is in the model, and in section 5.

### directory

* `MembersAreOneRequests`: the members of an owner are those one request asked for, less what
  has been deleted since, never a mixture.
* `RulesReachTheirMembers`: a rule is about no user whom the links do not connect to it, and
  about every user they do, as long as none of its groups has more logical groups behind it,
  itself counted, than the code follows. Longer chains are cut off silently.

Bounds: one user, one local and two logical groups, two requests, six edits. The depth limit
is 1 where the code has 4 (`configuration.ts:181`), so that two groups are at it, and the
recursion runs into it wherever they form a cycle; six edits make a cycle together with a
local group, an active user of it and a rule. Rows of a kind and requests are alike
(symmetry). The theorem about rules holds for every depth limit and every number of groups,
those with chains beyond the limit among them; the one about members for every number of
rows, requests and edits.

### providers

* `VouchedForGetsIn`: a sign-in that ends in a refusal had no provider that was ready to let
  the person in all the time, whatever happened to the others.
* `HealthSettles`: once changes are over, what a list shows of a provider is unknown or true.

Bounds: the local provider and one directory, two passwords, one sign-in and one list at
once, two changes. A cache entry lives one tick and a probe may take one, so that a probe can
come back after the change, and after the invalidation, that it missed. Fairness: time
passes, requests for the health end (a directory that is silent times out), and a PATCH that
has begun is completed.

### Findings

1. **Source networks are a conjunction** (`FaithfulToEngine`). A rule with two source
   networks becomes one line with two `src` ACLs, which Squid reads as AND.
2. **Deleting a network widens a listener** (`ListenerConfined`). The deletion looks for
   rules, not for listeners, and a listener without networks has no source guard.

Other divergences from what a comment or a document says are in the models as well, and the
properties name them as exceptions: they are listed in section 5.

## 4. The proofs

All theorems hold for every value of the constants that satisfies the named assumptions
(`NodeAgentAssumption`, `EnrollmentAssumption`, `EngineAssumption`, `CompilerAssumption`,
`StoreAssumption`, `LeaseAssumption`, `ShippingAssumption`, `SignInAssumption`,
`TabAssumption`, `DirectoryAssumption`, `ProvidersAssumption`, and of the console
`LookedAssumption`, `RowsAssumption` and `BoundsAssumption`), which say no more than that
subsets are subsets, special values are distinct, bounds are numbers, logical groups are
finitely many and rows have the shape their schemas give them. Every safety property that a
passing run checks is a theorem.

**NodeAgentProofs.** `AppliedIsServed` and `OnlyValidated` are not inductive: whether a
launch may happen, and on which files, is decided several steps earlier, and a key may be
lost and a new identity won at any of them. `IInv` adds
`CycleInv` (the position of the loop ties the live file, the process and the agent's memory
to the bundle of the cycle), `FilesInv` (the same for artefacts), `OrderInv` (cycles work
on ever later versions) and `CallInv` (the loop waits for one call at a time).
`InductiveInvariant` proves it; `ShortcutSound`, `NeverServesRejected` and
`SuccessReportsAreTrue` follow. `Refinement` proves that every step of the agent is a step
of `ProxyService` or a stutter; the case that needs the invariant is a launch, where
`OrderInv` gives the version order and `CycleInv` the validation.

**EnrollmentProofs.** `SerialHandlersAreSafe` rests on `SerialInv`: without overlap one
handler runs at a time and each statement finds what the ones before it left (`open = {}`
before a token is inserted, `live = {}` before a credential is, `minted = 0` for the token
in hand). `DeletionIsFinal` needs no strengthening: every insert tests the node's row, as
the foreign key does. `RowTellsTheCredentials` (`RowAgrees`) adds
`RowInv`: row and credentials agree whenever no handler is between the two statements that
change them (`Between`), and each of these statements finds what the ones before it left.

**PolicyProofs.** `CompilerFaithful`, `NoChallengeOnGuests` and
`NoAnonymousPastCredentials` hold of every IR: any number of listeners and rules, in any
order. `FirstBlock` names the first block that decides and `VerdictOf` reads the answer
off it. For guests, every line with a login mentions only ports of listeners that
authenticate. For required credentials, the guard of the listener comes before every rule
and every line that could allow. For faithfulness, `SourceAgrees`, `DestinationAgrees`
and `IdentityAgrees` show condition by condition that the lines of a rule apply exactly
when the engine matches it, and `GuardsAdmit` that the guards pass an admitted request on,
so that the first hit of the one is the first hit of the other.

For the store, `TypeCorrect` shows that `buildIr` yields an IR whatever rows it mixes, so
these three theorems apply to everything that is served
(`ServesFaithfully`, `GuestsStayFree`, `CredentialsRequired`). `UnacknowledgedSafe` needs
`Checked`: a request past its check has judged the row it is about to write against the
policy in the tables, as long as nobody has edited the policy since it loaded.

**AccessLeaseProofs.** `ReasonInv` is the reason why `disabled_reason` exists: a disabled
account has none exactly if an administrator disabled it, so that a sign-in restores the
others and only them. `OutInv` says that once a refusal has settled the matter, nothing
that could undo it begins before the directory vouches again; `SameInv` that a handler
which can still find its row works on one that is there. `AdministratorsDecide`,
`RefusalHolds` and `ReturnersAreRestored` follow.

**LogShippingProofs.** `Shipped` (`NothingSkipped`) is decided long before the offset moves.
`OffsetInv` and `CycleInv` tie the text of a cycle to the file it was read from (of this
generation or an earlier one), `SentInv` says that a line which is no longer to be posted is
counted or in the request that is awaited, and `RequestInv` that a request answered with
success has counted what it carried. `CountedAsOftenAsTried` (`CountedOncePerTry`) charges
every further copy of a line to a failure: `TriesInv` counts the rows of a line together with
the requests about to insert it, which are at most the failures so far and, once the line is
not to be sent again without another failure (`Fresh`), one more; `CountsInv` says that rows
are ahead of their counters by the requests that have them still to count.

**SignInProofs.** `UsedUp`: a callback holds a state nobody else finds again, which gives
`StatesAreUsedOnce`. `StillOpen`: a callback that will be let in works with a row that
served its door, and that door has not been shut since; `ShutDoorsHold` follows for the two
steps that give out sessions. For sign-in with a password, `ProvidersInv` says of a request
under way (`InHand`) that whoever has been ready to let the person in since it began is still
to be asked, and was ready with the row the request works with; a provider is passed over
only when the way it fails shows that it was not ready all the time.
`VouchedForIsNotRefused` follows for any number of providers in any order.

**BrowserSessionProofs.** `Probing`: while the portal's provider asks, nothing else is in
flight. `SigningIn`: as long as sign-ins have not overlapped, there is at most one, and only
while nobody is in the portal. `InPortal`: who is in the portal is whom the token is for, with
the same exception, and always somebody of the portal. `NobodyThere`: a portal's token without
its user, which a failed question leaves behind, has no operator beside it and only requests
in flight that bring none. `PlanesStayApart` (of `PlanesKept`) and `KindsAgree` follow;
nothing is assumed about how many sign-ins a tab sends.

**AdministrationProofs.** Of a console page, `PageInv` stamps what is in flight with the
version it was read at. `Tells`: a list, answered or shown, has of every row what the row is
unless it changed since; `FetchInv`: the last request asks for what the screen is about, and
was answered after what the page knows to be acknowledged. `Honest`: a value that nobody typed
is the row's unless the row changed since, carried from the list into the form (`FormInv`) and
from there into the save (`SaveInv`); a form opened without its list has no such value and is
honest only where `BlindResets` names its column. `ListIsCurrent` and `SavesKeepTheRest`
follow, the second with `PagesAreComplete`, which goes through the pages' columns one by one
and shows which of them a form without a list can send at all; `OneWriteAtATime` is inductive
with the types. Of the directory, `LockInv` says that a request with its owner's lock is alone
with it, that what it deletes is all the owner has and that what it inserts exists; with
members spoken of link by link (`Linked`), `OneRequestWins` follows. `RulesReach` relates the
code's recursion, which goes down from the rule and stops at the depth limit, to the least
closed set of groups behind it (`Behind`), which is defined without any depth. `EveryNumber` is
induction stated for a set of numbers, `Iteration` shows that the recursive functions exist,
`FirstLink` that it makes no difference which link is followed first, so that the recursion
gives what as many steps outwards from the group give. Those steps never leave the closed set
(`AfterBehind`), which is the first half of the property. For the second, a step that adds no
logical group has closed the set (`ClosedBehind`), and one that does adds at least one
(`OneMoreEach`), so that the limit suffices where no more logical groups than it follows are
behind the rule's (`AllBehind`). This holds for every finite graph of groups, cycles included,
and every depth limit.

Only model-checked, because they are liveness under fairness and out of the provers' reach:
`Converges` of both systems, `Recovers`, `Deprovisioned`, `Drains` and `HealthSettles`. No
module that is proved about uses a RECURSIVE operator: rules are a sequence of which "the
first match" is the least position, providers have places, and the depth of groups is a
recursive function of a number.

## 5. Known limits, and what is not modelled

What the models contain and the properties exclude or do not mention. Each is what the code
does; where a document says otherwise it is named.

* **Agent.** Only squid.conf is staged: the artefacts of a rejected bundle replace those
  helpers read (README.md:140-141 says the node keeps serving what it had). Taken
  back, the change is answered UNCHANGED, because the hash remembered is that of the bundle
  before: the rejected artefacts then stay for good, or until something new is published. A
  failed apply reports the hash of the bundle it did not apply (README.md:144-145).
* **Enrolment.** Two enrolments that overlap between select and insert leave two live
  credentials (the comment at agent.ts:150 says re-enrolling replaces).
* **Compiler.** Beside what it warns about, it differs from the engine for rules with several
  source networks (finding 1) and for destination networks that cover a host named in the
  request: Squid's `dst` resolves the name and compares its address (compiler.ts:375), the
  engine compares literal addresses only (engine.ts:145-148). engine.ts:4-6 calls the engine
  what the compiler must stay faithful to.
* **Open proxy check.** It judges the preview without node groups, and changes of listeners
  do not run it (README.md:170-174 says the combination is never accidental).
* **Leases.** `PATCH /proxy-users/:id` writes back the status it read when the request names
  none, over the one another administrator has set since (proxyIdentity.ts:218-219).
* **Logs.** A line of more than 8192 characters is refused with its chunk; the offset stays
  and the chunks before it are counted again on every poll. A file that outgrew the old offset
  before the agent looked is read from the middle. A new enrolment starts the file again.
* **Sign-in.** A PATCH of a provider without claims clears them, and then everybody of the
  directory is admitted. The session, the audit entry and the answer bear the directory's name
  where the account has the qualified one, although the local name is said to win
  (oidc.ts:416-418, 454-469), and the third person of one name gets a 500. A disabled
  operator's session works until it expires.
* **Directory.** A chain of logical groups longer than the depth limit is cut off without a
  word (configuration.ts:181). A local group inside a logical one that a rule uses can be
  deleted; the check sees direct use only (proxyIdentity.ts:467-468 says that is refused). The
  check and the deletion are two statements. A change of the own password that was proved
  before an administrator's reset overwrites it (portal.ts:254).
* **Providers.** A directory that goes down between search and bind is reported as a rejection
  (ldap.ts:199-203; 214 says it must not look like one).
* **Browser.** The login page's own flag is all that keeps a tab from signing in twice at once,
  and it goes with the page (LoginPage.tsx:31): a late `GET /session` mounts the console, its
  401 a new login page, on which a second sign-in starts. The portal's answer and then the
  operator's leave the portal's shell with a control plane token (App.tsx:64-65 says the
  shells never coexist); the API refuses what the shell then asks for. A 401 drops the token
  that is held, whatever token the request carried; a late sign-out clears a newer session; a
  wrong current password signs the person out. After an interactive portal sign-in nobody
  listens to `expired`, so a shell can stay without a token (api.ts:41). A portal token whose
  kind was cleared is probed against the control plane on the next load (session.tsx:40-41
  says it must not be); it is refused there.
* **Console.** Editing a provider resets the directory settings nobody typed; saving a rule
  resets its schedule and address ranges; the provider key of a group is offered and not
  sent; closing a form while its save is out closes the next one opened. These are
  `KnownResets`, `KnownDrops` and actions of `ConsolePage`. The settings page shows its lease
  form before the settings have loaded, or when they could not be: a save then writes the
  page's own 90 and 5 over the value of the two that nobody touched (SettingsPage.tsx:199-216).
  These are the `BlindResets`.

Not modelled:

* **Schedules, external groups, and a configuration without a provider** in the policy: the
  console stores no schedule but ALWAYS, the others would multiply the instances of every
  run. Windows across midnight are listed under hazards.
* **Runtime settings and the rate limiter.** The first is a 15 s cache of the shape the health
  cache has, the second a data structure without an await in it.
* **The audit log.** One append after each change; that a crash can fall between is plain.
* **Permissions.** They are in the token and change with the next one.
* **Formats, hashing, address arithmetic, LDAP and OIDC on the wire**: pure functions with
  test vectors, or I/O. What they decide is an input or a choice.
* **The composition of `PolicyStore` and `NodeAgent`**, in which publishing is a build: the two
  meet only in the bundle, `NodeAgent` assumes nothing of it but whether it validates, and
  the product of their states is beyond TLC.
* **Server, bootstrap, migrations, deployment scripts**: wiring. Of `server.ts` the sweep's timer
  is the fairness of `AccessLease`, of `pool.ts` the transactions are in `ProxyDirectory`.

## 6. Running it

```
tlc -workers 2 -config MCNodeAgent.cfg NodeAgent.tla
tlc -workers 2 -config MCEnrollment.cfg Enrollment.tla
tlc -workers 2 -config MCPolicy.cfg MCPolicy.tla
tlc -workers 2 -config MCAccessLease.cfg AccessLease.tla
tlc -workers 2 -config MCLogShipping.cfg LogShipping.tla
tlc -workers 2 -config MCConsolePage.cfg MCConsolePage.tla
tlc -workers 2 -config MCBrowserSession.cfg BrowserSession.tla
tlc -workers 2 -config MCSignIn.cfg MCSignIn.tla
tlc -workers 2 -config MCProxyDirectory.cfg MCProxyDirectory.tla
tlc -workers 2 -config MCProviders.cfg Providers.tla
tlapm NodeAgentProofs.tla      # and Enrollment-, Policy-, AccessLease-, LogShipping-,
                               # SignIn-, BrowserSession- and AdministrationProofs
```

The findings are runs that end with a counterexample:

```
tlc -workers 2 -config MCPolicyEngine.cfg MCPolicy.tla            # finding 1
tlc -workers 2 -config MCPolicyConfined.cfg MCPolicy.tla          # finding 2
```

Each definition named in `PROJECT.json` under "mutants" (`FetchCached`, `KeepPrevious`,
`RulePortsAll`, ...) is the code with one plausible mistake. They stand next to the
definition they vary and are used by nothing; putting one in its place makes TLC refute
the property listed with it.
