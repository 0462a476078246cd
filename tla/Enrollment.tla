----------------------------- MODULE Enrollment -----------------------------
(***************************************************************************)
(* How one node gets, keeps and loses its agent credential                 *)
(* (routes/agent.ts, routes/nodes.ts, apps/agent/src/index.ts).            *)
(*                                                                         *)
(* Every API handler is a sequence of statements on the database, each     *)
(* committed on its own: none of these routes opens a transaction.  So     *)
(* handlers interleave statement by statement, and one that dies in the    *)
(* middle leaves what it had done.  A process of the model is one running  *)
(* handler; the other actors are the operator, the agent and the clock.    *)
(*                                                                         *)
(* Tokens and keys are random and never repeat.  The model keeps only the  *)
(* ones that can still matter: an identifier no one holds any more may     *)
(* stand for a new token or key, which keeps runs finite without limiting  *)
(* how many of them there are over time.                                   *)
(***************************************************************************)
EXTENDS Naturals

CONSTANTS
  Handlers,    \* handlers of this node's requests that can run at once
  Tokens, Keys,
  None,
  MaxAdmin,    \* bound: what administrators and the clock do unasked
  MaxFaults    \* bound: handlers that die, answers that are lost, restarts

ASSUME EnrollmentAssumption ==
  /\ None \notin Handlers \cup Tokens \cup Keys
  /\ MaxAdmin \in Nat /\ MaxFaults \in Nat

VARIABLES
  exists,      \* the row in proxy_nodes is there
  enrolled,    \* proxy_nodes.enrolled_at is set
  status,      \* proxy_nodes.status: UNKNOWN, or SEEN for HEALTHY and DEGRADED
  open,        \* enrolment tokens with used_at null and expires_at ahead
  live,        \* credentials with revoked_at null
  proc,        \* what each handler is doing
  minted,      \* history: credentials issued for a token
  past,        \* history: did handlers overlap, did one fail
  agentKey,    \* agentKey in the agent's state.json
  env,         \* SCP_ENROLLMENT_TOKEN of the agent
  waiting,     \* the enrol request whose answer the agent waits for
  admin, faults

rowVars   == <<exists, enrolled, status>>
agentVars == <<agentKey, env, waiting>>
bounds    == <<admin, faults>>
vars == <<rowVars, open, live, proc, minted, past, agentVars, bounds>>

Idle == [op |-> "idle", pc |-> "start", tok |-> None, key |-> None]
Active(h) == proc[h].op # "idle"

Init ==
  /\ exists = TRUE /\ enrolled = FALSE /\ status = "UNKNOWN"
  /\ open = {} /\ live = {}
  /\ proc = [h \in Handlers |-> Idle]
  /\ minted = [t \in Tokens |-> 0]
  /\ past = "clean"
  /\ agentKey = None /\ env = None /\ waiting = None
  /\ admin = 0 /\ faults = 0

Fault == faults < MaxFaults /\ faults' = faults + 1 /\ UNCHANGED admin
Unasked == admin < MaxAdmin /\ admin' = admin + 1 /\ UNCHANGED faults

-----------------------------------------------------------------------------
(* Handlers: how one starts, goes on and ends.                             *)

Begin(h, op, pc, t, k) ==
  /\ ~Active(h)
  /\ proc' = [proc EXCEPT ![h] = [op |-> op, pc |-> pc, tok |-> t, key |-> k]]
  /\ past' = IF \E g \in Handlers : Active(g) THEN "overlapped" ELSE past

At(h, op, pc) == proc[h].op = op /\ proc[h].pc = pc
Goto(h, pc) == proc' = [proc EXCEPT ![h].pc = pc] /\ UNCHANGED past
End(h) == proc' = [proc EXCEPT ![h] = Idle] /\ UNCHANGED past

\* generateCredential: an identifier nobody holds.  Which one does not matter.
FreshTokens == Tokens \ (open \cup {env} \cup {proc[h].tok : h \in Handlers})
FreshKeys == Keys \ (live \cup {agentKey} \cup {proc[h].key : h \in Handlers})
NewToken == CHOOSE t \in FreshTokens : TRUE
NewKey == CHOOSE k \in FreshKeys : TRUE

\* A statement throws, or the API process dies: the answer is an error.
HandlerDies(h) ==
  /\ Active(h) /\ Fault
  /\ proc' = [proc EXCEPT ![h] = Idle]
  /\ past' = IF past = "clean" THEN "failed" ELSE past
  /\ waiting' = IF waiting = h THEN None ELSE waiting
  /\ UNCHANGED <<rowVars, open, live, minted, agentKey, env>>

-----------------------------------------------------------------------------
(* POST /nodes/:id/enrollment-token                                        *)

IssueBegin(h) ==
  /\ exists /\ FreshTokens # {}
  /\ Begin(h, "issue", "supersede", NewToken, None)
  /\ UNCHANGED <<rowVars, open, live, minted, agentVars>>

Supersede(h) ==
  /\ At(h, "issue", "supersede")
  /\ open' = {}
  /\ Goto(h, "insert")
  /\ UNCHANGED <<rowVars, live, minted, agentVars, bounds>>

\* The operator takes the token from the answer and (re)starts the agent with
\* it.  Without the node the insert breaks its foreign key.
InsertToken(h) ==
  /\ At(h, "issue", "insert")
  /\ LET t == proc[h].tok IN
       IF exists
         THEN /\ open' = open \cup {t}
              /\ minted' = [minted EXCEPT ![t] = 0]
              /\ env' = t /\ waiting' = None
         ELSE UNCHANGED <<open, minted, env, waiting>>
  /\ End(h)
  /\ UNCHANGED <<rowVars, live, agentKey, bounds>>

-----------------------------------------------------------------------------
(* POST /agent/enroll                                                      *)

\* A NeedsKey without the case for a 401.
NeedsFirstKey == agentKey = None

\* The agent has no credential, or /agent/config answered 401.
NeedsKey == agentKey \notin live

\* The select: a token that is unknown, used or expired is refused here, which
\* changes nothing but the audit log.
EnrolBegin(h) ==
  /\ NeedsKey /\ waiting = None
  /\ env \in open /\ FreshKeys # {}
  /\ Begin(h, "enrol", "mark", env, NewKey)
  /\ waiting' = h
  /\ UNCHANGED <<rowVars, open, live, minted, agentKey, env, bounds>>

MarkUsed(h) ==
  /\ At(h, "enrol", "mark")
  /\ open' = open \ {proc[h].tok}
  /\ Goto(h, "revoke")
  /\ UNCHANGED <<rowVars, live, minted, agentVars, bounds>>

\* A RevokePrevious that adds a credential rather than replacing one.
KeepPrevious(h) ==
  /\ At(h, "enrol", "revoke")
  /\ Goto(h, "insert")
  /\ UNCHANGED <<rowVars, open, live, minted, agentVars, bounds>>

RevokePrevious(h) ==
  /\ At(h, "enrol", "revoke")
  /\ live' = {}
  /\ Goto(h, "insert")
  /\ UNCHANGED <<rowVars, open, minted, agentVars, bounds>>

\* An InsertCredential into a table without the foreign key.
InsertUnreferenced(h) ==
  /\ At(h, "enrol", "insert")
  /\ live' = live \cup {proc[h].key}
  /\ minted' = [minted EXCEPT ![proc[h].tok] = @ + 1]
  /\ Goto(h, "update")
  /\ UNCHANGED <<rowVars, open, agentVars, bounds>>

InsertCredential(h) ==
  /\ At(h, "enrol", "insert")
  /\ exists
  /\ live' = live \cup {proc[h].key}
  /\ minted' = [minted EXCEPT ![proc[h].tok] = @ + 1]
  /\ Goto(h, "update")
  /\ UNCHANGED <<rowVars, open, agentVars, bounds>>

\* The same insert when the node was deleted meanwhile.
InsertRefused(h) ==
  /\ At(h, "enrol", "insert")
  /\ ~exists
  /\ End(h)
  /\ waiting' = IF waiting = h THEN None ELSE waiting
  /\ UNCHANGED <<rowVars, open, live, minted, agentKey, env, bounds>>

\* The last update and the answer; the agent stores the key if it still waits.
UpdateEnrolled(h) ==
  /\ At(h, "enrol", "update")
  /\ IF exists THEN enrolled' = TRUE /\ status' = "SEEN"
               ELSE UNCHANGED <<enrolled, status>>
  /\ IF waiting = h THEN agentKey' = proc[h].key /\ waiting' = None
                    ELSE UNCHANGED <<agentKey, waiting>>
  /\ End(h)
  /\ UNCHANGED <<exists, open, live, minted, env, bounds>>

\* The container restarts, or the connection breaks: nobody waits any more.
AgentRestarts ==
  /\ waiting # None /\ Fault
  /\ waiting' = None
  /\ UNCHANGED <<rowVars, open, live, proc, minted, past, agentKey, env>>

-----------------------------------------------------------------------------
(* POST /nodes/:id/revoke, DELETE /nodes/:id, POST /agent/status           *)

RevokeBegin(h) ==
  /\ exists /\ Unasked
  /\ Begin(h, "revoke", "credentials", None, None)
  /\ UNCHANGED <<rowVars, open, live, minted, agentVars>>

RevokeCredentials(h) ==
  /\ At(h, "revoke", "credentials")
  /\ live' = {}
  /\ Goto(h, "node")
  /\ UNCHANGED <<rowVars, open, minted, agentVars, bounds>>

\* A RevokeNode that leaves enrolled_at.
RevokeStatusOnly(h) ==
  /\ At(h, "revoke", "node")
  /\ IF exists THEN status' = "UNKNOWN" ELSE UNCHANGED status
  /\ End(h)
  /\ UNCHANGED <<exists, enrolled, open, live, minted, agentVars, bounds>>

RevokeNode(h) ==
  /\ At(h, "revoke", "node")
  /\ IF exists THEN enrolled' = FALSE /\ status' = "UNKNOWN"
               ELSE UNCHANGED <<enrolled, status>>
  /\ End(h)
  /\ UNCHANGED <<exists, open, live, minted, agentVars, bounds>>

\* One statement; tokens, credentials and heartbeat go by cascade.
DeleteNode ==
  /\ exists /\ Unasked
  /\ exists' = FALSE /\ enrolled' = FALSE /\ status' = "UNKNOWN"
  /\ open' = {} /\ live' = {}
  /\ UNCHANGED <<proc, minted, past, agentVars>>

\* authenticateAgent comes first and is not looked at again.
StatusBegin(h) ==
  /\ agentKey \in live
  /\ Begin(h, "status", "update", None, agentKey)
  /\ UNCHANGED <<rowVars, open, live, minted, agentVars, bounds>>

\* A StatusUpdate that stores what only toNode computes.
StatusUnreachable(h) ==
  /\ At(h, "status", "update")
  /\ IF exists THEN status' = "UNREACHABLE" ELSE UNCHANGED status
  /\ End(h)
  /\ UNCHANGED <<exists, enrolled, open, live, minted, agentVars, bounds>>

StatusUpdate(h) ==
  /\ At(h, "status", "update")
  /\ IF exists THEN status' = "SEEN" ELSE UNCHANGED status
  /\ End(h)
  /\ UNCHANGED <<exists, enrolled, open, live, minted, agentVars, bounds>>

\* expires_at passes.
Expire(t) ==
  /\ t \in open /\ Unasked
  /\ open' = open \ {t}
  /\ UNCHANGED <<rowVars, live, proc, minted, past, agentVars>>

-----------------------------------------------------------------------------
\* An administrator issues a token for whatever reason ...
IssueUnasked(h) == Unasked /\ IssueBegin(h)

\* ... or because the agent on the host is stuck without a usable one.
IssueNeeded(h) ==
  /\ NeedsKey /\ waiting = None /\ env \notin open
  /\ ~ \E g \in Handlers : proc[g].op = "issue"
  /\ IssueBegin(h)
  /\ UNCHANGED bounds

HandlerStep(h) ==
  \/ Supersede(h) \/ InsertToken(h)
  \/ MarkUsed(h) \/ RevokePrevious(h)
  \/ InsertCredential(h) \/ InsertRefused(h) \/ UpdateEnrolled(h)
  \/ RevokeCredentials(h) \/ RevokeNode(h)
  \/ StatusUpdate(h)

Operator == \E h \in Handlers : IssueNeeded(h)
Agent == \E h \in Handlers : EnrolBegin(h)

Next ==
  \/ \E h \in Handlers : HandlerStep(h)
  \/ Operator
  \/ Agent
  \/ \E h \in Handlers : IssueUnasked(h) \/ StatusBegin(h) \/ RevokeBegin(h) \/ HandlerDies(h)
  \/ \E t \in Tokens : Expire(t)
  \/ DeleteNode
  \/ AgentRestarts

Spec == Init /\ [][Next]_vars

(* Handlers run to their end, the agent retries on every poll, and an      *)
(* operator who sees a node stuck issues a token.  The last two need a     *)
(* free handler, which others may take for a while: strong fairness.       *)
FairSpec ==
  /\ Spec
  /\ \A h \in Handlers : WF_vars(HandlerStep(h))
  /\ SF_vars(Operator)
  /\ SF_vars(Agent)

-----------------------------------------------------------------------------
(* Properties.                                                             *)

TypeOK ==
  /\ exists \in BOOLEAN /\ enrolled \in BOOLEAN
  /\ status \in {"UNKNOWN", "SEEN"}
  /\ open \subseteq Tokens /\ live \subseteq Keys
  /\ proc \in [Handlers -> [op : {"idle", "issue", "enrol", "revoke", "status"},
                            pc : {"start", "supersede", "insert", "mark", "revoke",
                                  "update", "credentials", "node"},
                            tok : Tokens \cup {None}, key : Keys \cup {None}]]
  /\ minted \in [Tokens -> Nat]
  /\ past \in {"clean", "failed", "overlapped"}
  /\ agentKey \in Keys \cup {None} /\ env \in Tokens \cup {None}
  /\ waiting \in Handlers \cup {None}
  /\ admin \in 0..MaxAdmin /\ faults \in 0..MaxFaults

\* What the routes promise holds whenever handlers of one node do not overlap,
\* also when some of them died half way: one credential at most (agent.ts:150),
\* one open token at most (nodes.ts:258), one credential per token.
SerialSafe ==
  past # "overlapped" =>
    /\ \A k, l \in live : k = l
    /\ \A t, u \in open : t = u
    /\ \A t \in Tokens : minted[t] <= 1

\* The node row and the credential table tell the same story once handlers
\* that neither overlapped nor died are through.
RowAgrees ==
  past = "clean" /\ (\A h \in Handlers : ~Active(h)) =>
    /\ enrolled <=> live # {}
    /\ enrolled <=> status # "UNKNOWN"

\* No handler that was under way when the node was deleted brings back a
\* token or a credential for it.
DeletedIsGone == ~exists => open = {} /\ live = {} /\ ~enrolled

\* When administrators and failures leave the node alone, its agent ends up
\* with a working credential, whatever the handlers had done to each other.
Recovers == <>[](exists => agentKey \in live)
=============================================================================
