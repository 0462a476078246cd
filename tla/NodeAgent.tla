----------------------------- MODULE NodeAgent ------------------------------
(***************************************************************************)
(* The agent on one proxy host (apps/agent/src/index.ts) and what the      *)
(* control plane knows about it (routes/agent.ts, routes/nodes.ts).        *)
(*                                                                         *)
(* The agent is PID 1 of the node's container and polls in a loop: fetch   *)
(* the bundle, write it, validate it, make it live, start or reconfigure   *)
(* Squid, remember the hash, report.  Every `await` is a point where       *)
(* something else can happen: Squid exits, the container dies, a write     *)
(* fails, the answer of the status report is lost, the administrator       *)
(* changes the policy or revokes the agent's key.  One action below is the *)
(* code between two of those points.                                       *)
(*                                                                         *)
(* A bundle stands for everything `configurationHash` covers, so two       *)
(* bundles have the same hash exactly when they are equal.  Files on the   *)
(* node hold the index, in `published`, of the bundle they came from; 0 is *)
(* a file that is missing or was cut short by a failed write.              *)
(***************************************************************************)
EXTENDS Naturals, Sequences, FiniteSets

CONSTANTS
  Bundles,     \* what the control plane can compile for this node
  Rejected,    \* those whose squid.conf `squid -k parse` refuses
  NoBundle,    \* no hash: state.appliedHash undefined, config_hash null
  Torn,        \* a state.json that does not parse
  Files,       \* artefacts beside squid.conf: password file, multiplexer, secrets
  MaxEdits,    \* bound: how often the policy changes
  MaxFaults    \* bound: failures of every kind, together

ASSUME NodeAgentAssumption ==
  /\ Rejected \subseteq Bundles
  /\ NoBundle \notin Bundles
  /\ Torn \notin Bundles \cup {NoBundle}
  /\ MaxEdits \in Nat
  /\ MaxFaults \in Nat

VARIABLES
  published,   \* what GET /agent/config has stood for, oldest first
  pc,          \* where the agent's loop is
  got,         \* index of the bundle this cycle works on
  todo,        \* artefacts this cycle still has to write
  result,      \* the outcome applyBundle returned this cycle
  applied,     \* state.appliedHash in memory
  saved,       \* appliedHash in state.json, or Torn
  key,         \* does the control plane accept the key the agent holds?
  token,       \* does it accept the token the agent was started with?
  conf,        \* index of the bundle in the live squid.conf
  art,         \* index of the bundle in each artefact's live path
  squid,       \* what the Squid process has loaded; conf = 0 when it is not running
  newest,      \* history: the largest index Squid has loaded so far
  calls,       \* POST /agent/status handlers the API is still working on
  node,        \* the node's row in proxy_nodes
  heartbeat,   \* its row in node_heartbeats
  faults       \* how many failures have happened

agentVars == <<pc, got, todo, result, applied, saved>>
credVars  == <<key, token>>
diskVars  == <<conf, art>>
squidVars == <<squid, newest>>
apiVars   == <<calls, node, heartbeat>>
vars == <<published, agentVars, credVars, diskVars, squidVars, apiVars, faults>>

-----------------------------------------------------------------------------
Results == {"APPLIED", "FAILED", "VALIDATION_FAILED", "UNCHANGED"}
Hash == Bundles \cup {NoBundle}

\* One report on its way: the body the agent sent, the statement the handler
\* executes next, and whether the agent still waits for the answer.
Report == [res : Results, hash : Bundles, up : BOOLEAN,
           step : {"node", "heartbeat"}, awaited : BOOLEAN]

Down == [conf |-> 0, art |-> [f \in Files |-> 0]]
Up == squid.conf # 0

Desired == published[Len(published)]

Fault == faults < MaxFaults /\ faults' = faults + 1

Init ==
  /\ \E b \in Bundles : published = <<b>>
  /\ pc = "poll" /\ got = 1 /\ todo = {} /\ result = "UNCHANGED"
  /\ applied = NoBundle /\ saved = NoBundle
  /\ key = TRUE /\ token \in BOOLEAN
  /\ conf = 0 /\ art = [f \in Files |-> 0]
  /\ squid = Down /\ newest = 0
  /\ calls = {}
  /\ node = [status |-> "HEALTHY", applyResult |-> "NONE", lastError |-> FALSE]
  /\ heartbeat = [hash |-> NoBundle, up |-> FALSE]
  /\ faults = 0

-----------------------------------------------------------------------------
(* The control plane's side of a configuration change: an administrator    *)
(* writes, and from then on the compiler produces another bundle, which    *)
(* may well be one it produced before (a change that is taken back).       *)

Publish(b) ==
  /\ Len(published) <= MaxEdits
  /\ b # Desired
  /\ published' = Append(published, b)
  /\ UNCHANGED <<agentVars, credVars, diskVars, squidVars, apiVars, faults>>

-----------------------------------------------------------------------------
(* The apply cycle.                                                        *)

\* Variants of IsUnchanged with a fault.
IsUnchangedStopped(b) == applied = b
IsUnchangedOnDisk(b) == saved = b /\ Up

\* The shortcut that makes polling cheap.
IsUnchanged(b) == applied = b /\ Up

\* A Fetch whose answer may come out of a cache on the way.
FetchCached ==
  /\ pc = "poll" /\ key
  /\ got' \in 1..Len(published)
  /\ IF IsUnchanged(published[got'])
       THEN pc' = "report" /\ result' = "UNCHANGED" /\ UNCHANGED todo
       ELSE pc' = "write" /\ todo' = Files /\ UNCHANGED result
  /\ UNCHANGED <<published, credVars, applied, saved, diskVars, squidVars, apiVars, faults>>

Fetch ==
  /\ pc = "poll" /\ key
  /\ got' = Len(published)
  /\ IF IsUnchanged(Desired)
       THEN pc' = "report" /\ result' = "UNCHANGED" /\ UNCHANGED todo
       ELSE pc' = "write" /\ todo' = Files /\ UNCHANGED result
  /\ UNCHANGED <<published, credVars, applied, saved, diskVars, squidVars, apiVars, faults>>

\* squid.conf goes to a staging path, which nothing else reads; the
\* artefacts go straight to the paths a running Squid already uses.
WriteArtefact(f) ==
  /\ pc = "write" /\ f \in todo
  /\ art' = [art EXCEPT ![f] = got]
  /\ todo' = todo \ {f}
  /\ UNCHANGED <<published, credVars, pc, got, result, applied, saved, conf, squidVars,
                 apiVars, faults>>

Finish(r) == pc' = "report" /\ result' = r

\* A write throws; the file it was writing may be left empty.
WriteFails ==
  /\ pc = "write" /\ Fault
  /\ Finish("FAILED")
  /\ \/ UNCHANGED art
     \/ \E f \in todo : art' = [art EXCEPT ![f] = 0]
  /\ UNCHANGED <<published, credVars, got, todo, applied, saved, conf, squidVars, apiVars>>

\* A Validate that only logs what squid -k parse says.
ValidateIgnored ==
  /\ pc = "write" /\ todo = {}
  /\ pc' = "install"
  /\ UNCHANGED <<published, credVars, got, todo, result, applied, saved, diskVars, squidVars,
                 apiVars, faults>>

Validate ==
  /\ pc = "write" /\ todo = {}
  /\ IF published[got] \in Rejected
       THEN Finish("VALIDATION_FAILED")
       ELSE pc' = "install" /\ UNCHANGED result
  /\ UNCHANGED <<published, credVars, got, todo, applied, saved, diskVars, squidVars,
                 apiVars, faults>>

Install ==
  /\ pc = "install"
  /\ conf' = got
  /\ pc' = "launch"
  /\ UNCHANGED <<published, credVars, got, todo, result, applied, saved, art, squidVars,
                 apiVars, faults>>

\* The write of the live file is outside applyBundle's try block: the error
\* ends the cycle in main(), and nothing is reported.
InstallFails ==
  /\ pc = "install" /\ Fault
  /\ conf' \in {conf, 0}
  /\ pc' = "poll"
  /\ UNCHANGED <<published, credVars, got, todo, result, applied, saved, art, squidVars,
                 apiVars>>

\* Squid reads the live squid.conf, and starts its helpers on the live artefacts.
Load ==
  /\ squid' = [conf |-> conf, art |-> art]
  /\ newest' = conf

Start ==
  /\ pc = "launch" /\ ~Up
  /\ Load
  /\ pc' = "settle"
  /\ UNCHANGED <<published, credVars, got, todo, result, applied, saved, diskVars, apiVars,
                 faults>>

\* startSquid, 1.5 seconds later.
Settle ==
  /\ pc = "settle"
  /\ IF Up
       THEN pc' = "save" /\ applied' = published[got] /\ UNCHANGED result
       ELSE Finish("FAILED") /\ UNCHANGED applied
  /\ UNCHANGED <<published, credVars, got, todo, saved, diskVars, squidVars, apiVars, faults>>

Reconfigure ==
  /\ pc = "launch" /\ Up
  /\ Load
  /\ pc' = "save"
  /\ applied' = published[got]
  /\ UNCHANGED <<published, credVars, got, todo, result, saved, diskVars, apiVars, faults>>

\* A ReconfigureFails in which the hash was remembered too early.
ReconfigureFailsHashed ==
  /\ pc = "launch" /\ Up /\ Fault
  /\ Finish("FAILED")
  /\ applied' = published[got]
  /\ UNCHANGED <<published, credVars, got, todo, saved, diskVars, squidVars, apiVars>>

ReconfigureFails ==
  /\ pc = "launch" /\ Up /\ Fault
  /\ Finish("FAILED")
  /\ UNCHANGED <<published, credVars, got, todo, applied, saved, diskVars, squidVars, apiVars>>

SaveState ==
  /\ pc = "save"
  /\ saved' = applied
  /\ Finish("APPLIED")
  /\ UNCHANGED <<published, credVars, got, todo, applied, diskVars, squidVars, apiVars, faults>>

\* writeState throws: again main() ends the cycle without a report.
SaveFails ==
  /\ pc = "save" /\ Fault
  /\ saved' \in {saved, Torn}
  /\ pc' = "poll"
  /\ UNCHANGED <<published, credVars, got, todo, result, applied, diskVars, squidVars, apiVars>>

-----------------------------------------------------------------------------
(* The status report: one request, two statements in the handler.          *)

ReportOf(r, b, isUp) ==
  [res |-> r, hash |-> b, up |-> isUp, step |-> "node", awaited |-> TRUE]

SendReport ==
  /\ pc = "report" /\ key
  /\ calls' = calls \cup {ReportOf(result, published[got], Up)}
  /\ pc' = "await"
  /\ UNCHANGED <<published, credVars, got, todo, result, applied, saved, diskVars, squidVars,
                 node, heartbeat, faults>>

\* A key that was revoked since the poll: report() logs the 401 and goes on.
ReportRefused ==
  /\ pc = "report" /\ ~key
  /\ pc' = "poll"
  /\ UNCHANGED <<published, credVars, got, todo, result, applied, saved, diskVars,
                 squidVars, apiVars, faults>>

\* The request never reaches the control plane.
ReportLost ==
  /\ pc = "report" /\ Fault
  /\ pc' = "poll"
  /\ UNCHANGED <<published, credVars, got, todo, result, applied, saved, diskVars, squidVars,
                 apiVars>>

\* The agent gives up on the answer; the handler goes on without it.
ReportAbandoned ==
  /\ pc = "await" /\ Fault
  /\ calls' = {[r EXCEPT !.awaited = FALSE] : r \in calls}
  /\ pc' = "poll"
  /\ UNCHANGED <<published, credVars, got, todo, result, applied, saved, diskVars, squidVars,
                 node, heartbeat>>

Failed(res) == res \in {"FAILED", "VALIDATION_FAILED"}

StatusOf(r) == IF Failed(r.res) \/ ~r.up THEN "DEGRADED" ELSE "HEALTHY"

\* An UpdateNode without the case for UNCHANGED.
UpdateNodeAll(r) ==
  /\ r \in calls /\ r.step = "node"
  /\ node' = [status |-> StatusOf(r), applyResult |-> r.res, lastError |-> Failed(r.res)]
  /\ calls' = (calls \ {r}) \cup {[r EXCEPT !.step = "heartbeat"]}
  /\ UNCHANGED <<published, agentVars, credVars, diskVars, squidVars, heartbeat, faults>>

UpdateNode(r) ==
  /\ r \in calls /\ r.step = "node"
  /\ node' = [status      |-> StatusOf(r),
              applyResult |-> IF r.res = "UNCHANGED" THEN node.applyResult ELSE r.res,
              lastError   |-> Failed(r.res)]
  /\ calls' = (calls \ {r}) \cup {[r EXCEPT !.step = "heartbeat"]}
  /\ UNCHANGED <<published, agentVars, credVars, diskVars, squidVars, heartbeat, faults>>

\* The agent's loop goes on when the call it waits for has ended.
EndCall(r) ==
  /\ calls' = calls \ {r}
  /\ pc' = IF r.awaited THEN "poll" ELSE pc

UpsertHeartbeat(r) ==
  /\ r \in calls /\ r.step = "heartbeat"
  /\ heartbeat' = [hash |-> r.hash, up |-> r.up]
  /\ EndCall(r)
  /\ UNCHANGED <<published, credVars, got, todo, result, applied, saved, diskVars, squidVars,
                 node, faults>>

\* The API process or its database connection dies before a statement.
CallFails(r) ==
  /\ r \in calls /\ Fault
  /\ EndCall(r)
  /\ UNCHANGED <<published, credVars, got, todo, result, applied, saved, diskVars, squidVars,
                 node, heartbeat>>

-----------------------------------------------------------------------------
(* Squid and the container.                                                *)

SquidExits ==
  /\ Up /\ Fault
  /\ squid' = Down
  /\ UNCHANGED <<published, agentVars, credVars, diskVars, newest, apiVars>>

\* `auth_param basic children 20 startup=0 idle=1`: Squid starts helpers when
\* it needs them, and each reads the artefact that is there at that moment.
HelperStarts(f) ==
  /\ Up /\ squid.art[f] # art[f]
  /\ squid' = [squid EXCEPT !.art[f] = art[f]]
  /\ UNCHANGED <<published, agentVars, credVars, diskVars, newest, apiVars, faults>>

\* A file that is being written when the container dies can be left empty.
TornFiles ==
  \/ UNCHANGED <<conf, art, saved>>
  \/ pc = "install" /\ conf' = 0 /\ UNCHANGED <<art, saved>>
  \/ \E f \in todo :
       pc = "write" /\ art' = [art EXCEPT ![f] = 0] /\ UNCHANGED <<conf, saved>>
  \/ pc = "save" /\ saved' = Torn /\ UNCHANGED diskVars

\* The agent starts over from state.json, or has no identity when it cannot read it.
Boot ==
  IF saved' = Torn
    THEN pc' = "enrol" /\ applied' = NoBundle /\ key' = FALSE
    ELSE pc' = "poll" /\ applied' = saved' /\ key' = key

\* The container dies, with Squid in it, and comes back with its files; the
\* operator may have given it a new token on the occasion.
Crash ==
  /\ Fault
  /\ squid' = Down
  /\ TornFiles
  /\ Boot
  /\ token' \in {token, TRUE}
  /\ calls' = {[r EXCEPT !.awaited = FALSE] : r \in calls}
  /\ UNCHANGED <<published, got, todo, result, newest, node, heartbeat>>

-----------------------------------------------------------------------------
(* The agent's key (Enrollment has the handlers in detail).  The agent     *)
(* learns on a poll, from a 401, that its key is no longer accepted.       *)

\* An administrator revokes the credential; Squid is not touched.
Revoke ==
  /\ Fault
  /\ key' = FALSE
  /\ node' = [node EXCEPT !.status = "UNKNOWN"]
  /\ UNCHANGED <<published, agentVars, token, diskVars, squidVars, calls, heartbeat>>

NeedsKey == pc \in {"poll", "enrol"} /\ ~key

Enrolled == [node EXCEPT !.status = "HEALTHY", !.lastError = FALSE]

\* The new state has no appliedHash, in memory and on disk, whether Squid runs
\* (after a 401) or not (without a state.json).
Enrol ==
  /\ NeedsKey /\ token
  /\ pc' = "poll" /\ key' = TRUE /\ token' = FALSE
  /\ applied' = NoBundle /\ saved' = NoBundle
  /\ node' = Enrolled
  /\ UNCHANGED <<published, got, todo, result, diskVars, squidVars, calls,
                 heartbeat, faults>>

\* The token has run out, the answer is lost, or state.json cannot be written:
\* the agent keeps the state it had, with a key and a token that are worth nothing.
EnrolFails ==
  /\ NeedsKey /\ token /\ Fault
  /\ token' = FALSE
  /\ saved' \in {saved, Torn}
  /\ node' \in {node, Enrolled}
  /\ UNCHANGED <<published, pc, got, todo, result, applied, key, diskVars, squidVars,
                 calls, heartbeat>>

\* What the log asks of the operator: issue a token and restart the agent with it.
Reissue ==
  /\ NeedsKey /\ ~token
  /\ token' = TRUE
  /\ squid' = Down
  /\ saved' = saved /\ Boot
  /\ UNCHANGED <<published, got, todo, result, diskVars, newest, apiVars, faults>>

-----------------------------------------------------------------------------
ApplyStep ==
  \/ Fetch
  \/ \E f \in Files : WriteArtefact(f)
  \/ Validate \/ Install \/ Start \/ Settle \/ Reconfigure \/ SaveState
  \/ SendReport \/ ReportRefused

ApiStep == \E r \in calls : UpdateNode(r) \/ UpsertHeartbeat(r)

Failure ==
  \/ WriteFails \/ InstallFails \/ ReconfigureFails \/ SaveFails
  \/ ReportLost \/ ReportAbandoned
  \/ \E r \in calls : CallFails(r)
  \/ SquidExits \/ Crash \/ Revoke \/ EnrolFails

Next ==
  \/ \E b \in Bundles : Publish(b)
  \/ ApplyStep
  \/ ApiStep
  \/ Enrol \/ Reissue
  \/ Failure
  \/ \E f \in Files : HelperStarts(f)

Spec == Init /\ [][Next]_vars

(* The loop polls for ever, the API answers what reaches it, the agent     *)
(* enrols again when it may, and an operator gives a node that lost its    *)
(* identity a new token.  Nothing obliges the administrator to change      *)
(* anything or a failure to happen.                                        *)
FairSpec == Spec /\ WF_vars(ApplyStep) /\ WF_vars(ApiStep)
                 /\ WF_vars(Enrol) /\ WF_vars(Reissue)

-----------------------------------------------------------------------------
(* Properties.                                                             *)

Versions == 1..Len(published)

TypeOK ==
  /\ published \in Seq(Bundles) /\ Len(published) \in 1..(MaxEdits + 1)
  /\ pc \in {"poll", "write", "install", "launch", "settle", "save", "report",
            "await", "enrol"}
  /\ got \in Versions
  /\ todo \subseteq Files
  /\ result \in Results
  /\ applied \in Hash
  /\ saved \in Hash \cup {Torn}
  /\ key \in BOOLEAN /\ token \in BOOLEAN
  /\ conf \in 0..Len(published)
  /\ art \in [Files -> 0..Len(published)]
  /\ squid \in [conf : 0..Len(published), art : [Files -> 0..Len(published)]]
  /\ newest \in 0..Len(published)
  /\ calls \subseteq Report
  /\ node \in [status : {"HEALTHY", "DEGRADED", "UNKNOWN"},
              applyResult : (Results \ {"UNCHANGED"}) \cup {"NONE"},
              lastError : BOOLEAN]
  /\ heartbeat \in [hash : Hash, up : BOOLEAN]
  /\ faults \in 0..MaxFaults

\* The shortcut in applyBundle is sound for squid.conf: outside the moments of
\* a launch, a Squid that runs has loaded the bundle state.appliedHash names, if
\* it names one (after a new enrolment it names none).  A wrong entry there would
\* be answered UNCHANGED on every later poll.
AppliedIsServed ==
  applied # NoBundle /\ Up /\ pc # "settle" => published[squid.conf] = applied

\* A rejected squid.conf reaches neither the live file nor a Squid process,
\* however crashes, failed writes and Squid's own exits fall ("A configuration
\* that fails `squid -k parse` is never applied", index.ts:20).
OnlyValidated ==
  /\ conf # 0 => published[conf] \notin Rejected
  /\ Up => published[squid.conf] \notin Rejected

\* What the node tells the control plane is true when it says so: a report of
\* success names the bundle whose squid.conf is being served at that moment,
\* and APPLIED means that every artefact in use is of that bundle too.
SuccessIsServed ==
  [][pc = "report" /\ pc' = "await" /\ Up =>
       /\ result \in {"APPLIED", "UNCHANGED"} => published[squid.conf] = published[got]
       /\ result = "APPLIED" => \A f \in Files : squid.art[f] = got]_vars

\* The agent as a whole implements what the operator was promised.
Service == INSTANCE ProxyService WITH served <- squid.conf
ImplementsService == Service!Spec

\* The versions that stand for what is wanted now.
Stands == {v \in Versions : published[v] = Desired}

TakenBack == \E v \in Stands : v # Len(published)

\* When the administrator is done and the failures are over, a bundle that
\* passes validation ends up served, and the control plane knows.  Its artefacts
\* are in use too, unless it is one that was wanted before: what a version in
\* between has written of them may then stay.
Converged ==
  /\ squid.conf \in Stands
  /\ ~TakenBack => \A f \in Files : squid.art[f] \in Stands
  /\ node.status = "HEALTHY" /\ ~node.lastError
  /\ heartbeat = [hash |-> Desired, up |-> TRUE]

Converges == <>[](Desired \notin Rejected => Converged)
=============================================================================
