--------------------------- MODULE ProxyDirectory ----------------------------
(***************************************************************************)
(* Proxy users and proxy groups (routes/proxyIdentity.ts): who belongs to  *)
(* which local group, what a logical group unites, and what a rule that    *)
(* names groups comes to when the configuration is built                   *)
(* (services/configuration.ts, packages/shared/src/policy/ir.ts).          *)
(*                                                                         *)
(* A request that sets members writes its owner's row, deletes all links   *)
(* of the owner and inserts the ones it was given, three statements of one *)
(* READ COMMITTED transaction: each sees what was committed before it, and *)
(* nobody sees anything before the commit.  Users and logical groups do it *)
(* the same way and are both called owners here.  Ids are never used       *)
(* again.                                                                  *)
(***************************************************************************)
EXTENDS Integers, FiniteSets

CONSTANTS
  Users, Locals, Logicals,
  Requests,    \* PATCH and DELETE requests at once
  DepthLimit,  \* how deep logical groups are followed
  MaxEdits     \* bound: requests taken up

Owners == Users \cup Logicals
Groups == Locals \cup Logicals
Entries == Users \cup Groups

ASSUME DirectoryAssumption ==
  /\ Users \cap Groups = {} /\ Locals \cap Logicals = {}
  /\ IsFiniteSet(Logicals)
  /\ DepthLimit \in Nat /\ MaxEdits \in Nat

VARIABLES
  state,     \* of every row: not yet created, there, or deleted
  active,    \* the users whose status is ACTIVE
  links,     \* proxy_user_groups and logical_group_members
  rule,      \* the groupIds of an access rule
  requests,
  asked,     \* history: the members the last request to succeed gave an owner
  edits

directoryVars == <<state, active, links, rule, requests, asked, edits>>

-----------------------------------------------------------------------------
Idle == [at |-> "IDLE"]
There == {x \in Entries : state[x] = "THERE"}

DirectoryInit ==
  /\ state = [x \in Entries |-> "NEW"]
  /\ active = {} /\ links = {} /\ rule = {}
  /\ requests = [r \in Requests |-> Idle]
  /\ asked = [o \in Owners |-> {}]
  /\ edits = 0

Edits == edits < MaxEdits /\ edits' = edits + 1

LinksOf(o) == {l \in links : l[1] = o}
MembersOf(o) == {l[2] : l \in LinksOf(o)}

\* A logical group is not made a member of itself.
Links(o, want) == {<<o, g>> : g \in want \ {o}}

-----------------------------------------------------------------------------
(* POST /proxy-users and /proxy-groups: the row and its links in one       *)
(* transaction, which a group that has gone undoes.                        *)

Create(o, want) ==
  /\ Edits
  /\ state[o] = "NEW"
  /\ want \subseteq There
  /\ state' = [state EXCEPT ![o] = "THERE"]
  /\ active' = active \cup ({o} \cap Users)
  /\ links' = links \cup Links(o, want)
  /\ asked' = [asked EXCEPT ![o] = want]
  /\ UNCHANGED <<rule, requests>>

CreateLocal(g) ==
  /\ Edits
  /\ state[g] = "NEW"
  /\ state' = [state EXCEPT ![g] = "THERE"]
  /\ UNCHANGED <<active, links, rule, requests, asked>>

-----------------------------------------------------------------------------
(* PATCH /proxy-users/:id and /proxy-groups/:id with members.              *)

Writing == {r \in Requests : requests[r].at \in {"LOCKED", "CLEARED", "ADDED"}}

\* The row lock an UPDATE takes and keeps until its transaction ends.
LockUnheld(o) == TRUE
LockFree(o) == \A r \in Writing : requests[r].owner # o

Patch(r, o, want) ==
  /\ Edits
  /\ requests[r] = Idle
  /\ state[o] = "THERE"
  /\ requests' = [requests EXCEPT ![r] =
       [at |-> "READ", owner |-> o, want |-> want, gone |-> {}, added |-> {}]]
  /\ UNCHANGED <<state, active, links, rule, asked>>

\* The owner's row first.  One that has gone by now is not an error yet.
Lock(r) ==
  /\ requests[r].at = "READ"
  /\ LockFree(requests[r].owner)
  /\ requests' = [requests EXCEPT ![r].at = "LOCKED"]
  /\ UNCHANGED <<state, active, links, rule, asked, edits>>

Clear(r) ==
  /\ requests[r].at = "LOCKED"
  /\ requests' = [requests EXCEPT ![r].at = "CLEARED", ![r].gone = LinksOf(requests[r].owner)]
  /\ UNCHANGED <<state, active, links, rule, asked, edits>>

\* A link whose owner or group has gone breaks a foreign key, and with it the
\* whole request.
Add(r) ==
  /\ requests[r].at = "CLEARED"
  /\ LET new == Links(requests[r].owner, requests[r].want)
     IN  requests' = [requests EXCEPT ![r] =
           IF new = {} \/ requests[r].want \cup {requests[r].owner} \subseteq There
             THEN [@ EXCEPT !.at = "ADDED", !.added = new]
             ELSE Idle]
  /\ UNCHANGED <<state, active, links, rule, asked, edits>>

Commit(r) ==
  /\ requests[r].at = "ADDED"
  /\ links' = (links \ requests[r].gone) \cup requests[r].added
  /\ asked' = [asked EXCEPT ![requests[r].owner] = requests[r].want]
  /\ requests' = [requests EXCEPT ![r] = Idle]
  /\ UNCHANGED <<state, active, rule, edits>>

\* PATCH of the status alone: a switch of the account, and no links.
SetStatus(u) ==
  /\ Edits
  /\ state[u] = "THERE"
  /\ LockFree(u)
  /\ active' = IF u \in active THEN active \ {u} ELSE active \cup {u}
  /\ UNCHANGED <<state, links, rule, requests, asked>>

-----------------------------------------------------------------------------
(* DELETE: links go with either end of them.  It waits for transactions    *)
(* that have touched the row or one of its links.                          *)

Held(x) == \E r \in Writing :
  requests[r].owner = x \/ \E l \in requests[r].gone \cup requests[r].added : l[2] = x

Vanish(x) ==
  /\ state' = [state EXCEPT ![x] = "GONE"]
  /\ active' = active \ {x}
  /\ links' = {l \in links : l[1] # x /\ l[2] # x}

DeleteUser(u) ==
  /\ Edits
  /\ state[u] = "THERE"
  /\ ~Held(u)
  /\ Vanish(u)
  /\ UNCHANGED <<rule, requests, asked>>

\* A group that a rule names is not deleted; the answer is a moment old when
\* the delete goes out.
CheckGroup(r, g) ==
  /\ Edits
  /\ requests[r] = Idle
  /\ state[g] = "THERE"
  /\ g \notin rule
  /\ requests' = [requests EXCEPT ![r] =
       [at |-> "CHECKED", owner |-> g, want |-> {}, gone |-> {}, added |-> {}]]
  /\ UNCHANGED <<state, active, links, rule, asked>>

DeleteGroup(r) ==
  /\ requests[r].at = "CHECKED"
  /\ ~Held(requests[r].owner)
  /\ IF state[requests[r].owner] = "THERE"
       THEN Vanish(requests[r].owner) ELSE UNCHANGED <<state, active, links>>
  /\ requests' = [requests EXCEPT ![r] = Idle]
  /\ UNCHANGED <<rule, asked, edits>>

\* The rule is saved with whatever ids it was given.
SetRule(groups) ==
  /\ Edits
  /\ rule' = groups
  /\ UNCHANGED <<state, active, links, requests, asked>>

-----------------------------------------------------------------------------
(* What the configuration makes of a group: logical groups are followed    *)
(* down to the groups a provider knows.                                    *)

TooDeepSoon(depth) == depth > 0
TooDeep(depth) == depth > DepthLimit

\* The local groups behind a group met at some depth.
Expansion ==
  LET from[depth \in 0..DepthLimit + 1] ==
        [g \in Groups |->
           IF g \notin There THEN {}
           ELSE IF g \in Locals THEN {g}
           ELSE IF TooDeep(depth) THEN {}
           ELSE UNION {from[depth + 1][m] : m \in MembersOf(g)}]
  IN  from[0]

\* Whom a rule that names `groups` is about: members of a local group who are
\* active users.  A user's link to another kind of group counts for nothing.
MatchedUsers(groups) ==
  {u \in active : MembersOf(u) \cap UNION {Expansion[g] : g \in groups} # {}}

DirectoryNext ==
  \/ \E o \in Owners, want \in SUBSET Groups :
       Create(o, want) \/ \E r \in Requests : Patch(r, o, want)
  \/ \E g \in Locals : CreateLocal(g)
  \/ \E r \in Requests :
       \/ Lock(r) \/ Clear(r) \/ Add(r) \/ Commit(r) \/ DeleteGroup(r)
       \/ \E g \in Groups : CheckGroup(r, g)
  \/ \E u \in Users : SetStatus(u) \/ DeleteUser(u)
  \/ \E groups \in SUBSET Groups \ {{}} : SetRule(groups)

DirectorySpec == DirectoryInit /\ [][DirectoryNext]_directoryVars

-----------------------------------------------------------------------------
(* Properties.                                                             *)

\* Of two requests that set the members of one user or group at once, one
\* wins: its members are what the other end of the transaction leaves, never
\* a mixture of both, nor links to a group that has gone.
MembersAreOneRequests ==
  \A o \in Owners : MembersOf(o) = IF o \in There THEN (asked[o] \ {o}) \cap There ELSE {}

\* Whom a group is about by the links alone: the groups behind it are the
\* least set that has it and, with a logical group, its members.
Closed(S) == \A g \in S \cap Logicals : MembersOf(g) \subseteq S
Behind(g) == {h \in Groups : \A S \in SUBSET Groups : g \in S /\ Closed(S) => h \in S}

Connected(groups) ==
  {u \in active : \E g \in groups : MembersOf(u) \cap Behind(g) \cap Locals # {}}

\* Cycles, diamonds and links of other kinds do not lead the expansion astray:
\* a rule never reaches a user whom the links do not connect to it, and where
\* no group of the rule has more logical groups behind it than are followed,
\* itself counted, it reaches every user they do connect.
RulesReachTheirMembers ==
  /\ MatchedUsers(rule) \subseteq Connected(rule)
  /\ (\A g \in rule : Cardinality(Behind(g) \cap Logicals) <= DepthLimit + 1)
       => Connected(rule) \subseteq MatchedUsers(rule)
=============================================================================
