---------------------------- MODULE AccessLease -----------------------------
(***************************************************************************)
(* The proxy account of one person who signs in through a directory        *)
(* (ADR 0004): how it comes into being, how a sign-in renews, withdraws or *)
(* restores it, how its lease runs out, and what an administrator does to  *)
(* it meanwhile (routes/oidc.ts, portalOidc.ts, proxyIdentity.ts and       *)
(* services/accessLease.ts).                                               *)
(*                                                                         *)
(* A sign-in asks the directory first and touches the database later; the  *)
(* administrator's PATCH reads the row first and writes all of it later.   *)
(* The sweep is one statement.  Ids are never used twice, so an update by  *)
(* id finds its row unless the account has been deleted since it was read: *)
(* `same` says that it has not.                                            *)
(*                                                                         *)
(* Time is counted in days that a lease has left, in the row and in every  *)
(* copy of it a handler holds: all of them run down together.              *)
(***************************************************************************)
EXTENDS Integers

CONSTANTS
  SignIns,     \* callbacks of this person that can run at once
  Creators,    \* requests that create the account
  Admins,      \* PATCH /proxy-users/:id requests
  LeaseDays,   \* accessLeasePolicy
  WindowDays,
  MaxEdits     \* bound: what administrators do

ASSUME LeaseAssumption ==
  /\ LeaseDays \in Nat \ {0}
  /\ WindowDays \in 0..LeaseDays
  /\ MaxEdits \in Nat

VARIABLES
  claim,       \* the directory vouches for the person
  row,         \* the person's row in proxy_users
  signin,      \* the callbacks
  creating,    \* the requests past their check that there is no account
  patch,       \* the PATCH requests
  token,       \* the person holds a portal session
  decided,     \* history: what administrators said last is that the account is off
  lost,        \* history: a PATCH that names no status has changed it all the same
  out,         \* history: refused, with nobody under way who was admitted before
  leased,      \* history: the account was created or signed in to under ADR 0004
  edits

handlers == <<signin, creating, patch>>
history == <<decided, lost, out, leased>>
vars == <<claim, row, handlers, token, history, edits>>

-----------------------------------------------------------------------------
NoLease == -1    \* valid_until is null
Days == NoLease..LeaseDays
Statuses == {"ACTIVE", "DISABLED"}
Reasons == {"NONE", "CLAIM_WITHDRAWN", "LEASE_EXPIRED"}
KEEP == "KEEP"   \* the request does not name the status

Rows == [there : BOOLEAN, status : Statuses, reason : Reasons, left : Days]

Gone == [there |-> FALSE, status |-> "DISABLED", reason |-> "NONE", left |-> NoLease]
Account(left) == [there |-> TRUE, status |-> "ACTIVE", reason |-> "NONE", left |-> left]

Active == row.status = "ACTIVE"

SignInStates ==
  [at : {"IDLE", "REFUSED", "ADMITTED", "LOADED", "JUDGED"}, same : BOOLEAN,
   left : Days, renews : BOOLEAN]
PatchStates ==
  [at : {"IDLE", "LOADED"}, same : BOOLEAN, status : Statuses, want : Statuses \cup {KEEP}]

NoSignIn == [at |-> "IDLE", same |-> FALSE, left |-> NoLease, renews |-> FALSE]
NoPatch == [at |-> "IDLE", same |-> FALSE, status |-> "DISABLED", want |-> KEEP]

\* No account yet, or one from before leases, which was left open-ended.
Init ==
  /\ claim \in BOOLEAN
  /\ row \in {Gone, Account(NoLease)}
  /\ signin = [s \in SignIns |-> NoSignIn]
  /\ creating = {}
  /\ patch = [a \in Admins |-> NoPatch]
  /\ token = FALSE
  /\ decided = FALSE /\ lost = FALSE /\ out = FALSE /\ leased = FALSE
  /\ edits = 0

-----------------------------------------------------------------------------
(* POST /auth/oidc/callback for the portal.                                *)

Admitted(s) == signin[s].at \in {"ADMITTED", "LOADED", "JUDGED"}

\* The claims come from the provider; `admits` judges them.
SignInBegin(s) ==
  /\ signin[s].at = "IDLE"
  /\ signin' = [signin EXCEPT ![s].at = IF claim THEN "ADMITTED" ELSE "REFUSED"]
  /\ out' = (out /\ ~claim)
  /\ UNCHANGED <<claim, row, creating, patch, token, decided, lost, leased, edits>>

\* Nobody who was admitted before is still under way.
Settled == ~token /\ creating = {} /\ \A s \in SignIns : ~Admitted(s)

\* A Refuse that records why, and nothing else.
RefuseRecords(s) ==
  /\ signin[s].at = "REFUSED"
  /\ row' = IF Active THEN [row EXCEPT !.reason = "CLAIM_WITHDRAWN"] ELSE row
  /\ signin' = [signin EXCEPT ![s] = NoSignIn]
  /\ out' = (out \/ Settled)
  /\ UNCHANGED <<claim, creating, patch, token, decided, lost, leased, edits>>

Refuse(s) ==
  /\ signin[s].at = "REFUSED"
  /\ row' = IF Active THEN [row EXCEPT !.status = "DISABLED", !.reason = "CLAIM_WITHDRAWN"]
                      ELSE row
  /\ signin' = [signin EXCEPT ![s] = NoSignIn]
  /\ out' = (out \/ Settled)
  /\ UNCHANGED <<claim, creating, patch, token, decided, lost, leased, edits>>

\* Without an account the session is all there is to hand out.
SignInLoad(s) ==
  /\ signin[s].at = "ADMITTED"
  /\ IF row.there
       THEN /\ signin' = [signin EXCEPT ![s].at = "LOADED", ![s].same = TRUE, ![s].left = row.left]
            /\ UNCHANGED token
       ELSE signin' = [signin EXCEPT ![s] = NoSignIn] /\ token' = TRUE
  /\ UNCHANGED <<claim, row, creating, patch, history, edits>>

\* accessLeasePolicy is awaited before the clock is read.
SignInJudge(s) ==
  /\ signin[s].at = "LOADED"
  /\ signin' = [signin EXCEPT ![s].at = "JUDGED", ![s].left = NoLease,
                              ![s].renews = signin[s].left <= WindowDays]
  /\ UNCHANGED <<claim, row, creating, patch, token, history, edits>>

\* What a sign-in makes of a row, if it restores every account.
RestoredAlways(r, renews) ==
  [r EXCEPT !.left = IF renews THEN LeaseDays ELSE r.left,
            !.status = "ACTIVE", !.reason = "NONE"]

\* What a sign-in makes of a row: accounts with a reason come back.
Restored(r, renews) ==
  [r EXCEPT !.left = IF renews THEN LeaseDays ELSE r.left,
            !.status = IF r.reason # "NONE" THEN "ACTIVE" ELSE r.status,
            !.reason = "NONE"]

SignInUpdate(s) ==
  /\ signin[s].at = "JUDGED"
  /\ IF signin[s].same
       THEN row' = Restored(row, signin[s].renews) /\ leased' = TRUE
       ELSE UNCHANGED <<row, leased>>
  /\ token' = TRUE
  /\ signin' = [signin EXCEPT ![s] = NoSignIn]
  /\ UNCHANGED <<claim, creating, patch, decided, lost, out, edits>>

\* A statement throws, or the API dies.
SignInFails(s) ==
  /\ signin[s].at # "IDLE"
  /\ signin' = [signin EXCEPT ![s] = NoSignIn]
  /\ UNCHANGED <<claim, row, creating, patch, token, history, edits>>

-----------------------------------------------------------------------------
(* POST /portal/proxy-account.  The session is enough: the claim is not    *)
(* asked for again.                                                        *)

CreateBegin(c) ==
  /\ token /\ ~row.there /\ c \notin creating
  /\ creating' = creating \cup {c}
  /\ UNCHANGED <<claim, row, signin, patch, token, history, edits>>

\* A CreateInsert that leaves valid_until to the first sign-in.
CreateOpenEnded(c) ==
  /\ c \in creating
  /\ IF row.there THEN UNCHANGED <<row, leased>>
                  ELSE row' = Account(NoLease) /\ leased' = TRUE
  /\ creating' = creating \ {c}
  /\ UNCHANGED <<claim, signin, patch, token, decided, lost, out, edits>>

\* The unique index on issuer and subject refuses a second account.
CreateInsert(c) ==
  /\ c \in creating
  /\ IF row.there THEN UNCHANGED <<row, leased>>
                  ELSE row' = Account(LeaseDays) /\ leased' = TRUE
  /\ creating' = creating \ {c}
  /\ UNCHANGED <<claim, signin, patch, token, decided, lost, out, edits>>

-----------------------------------------------------------------------------
(* PATCH and DELETE /proxy-users/:id.                                      *)

PatchLoad(a, want) ==
  /\ patch[a].at = "IDLE" /\ row.there /\ edits < MaxEdits
  /\ patch' = [patch EXCEPT
       ![a] = [at |-> "LOADED", same |-> TRUE, status |-> row.status, want |-> want]]
  /\ edits' = edits + 1
  /\ UNCHANGED <<claim, row, signin, creating, token, history>>

\* The row as the request leaves it: every column is written, and the status is
\* the one read when the request names none.
Patched(p, r) ==
  [r EXCEPT !.status = IF p.want = KEEP THEN p.status ELSE p.want,
            !.reason = IF p.want = KEEP THEN r.reason ELSE "NONE"]

PatchWrite(a) ==
  LET p == patch[a] IN
    /\ p.at = "LOADED"
    /\ IF p.same
         THEN /\ row' = Patched(p, row)
              /\ decided' = IF p.want = KEEP THEN decided ELSE p.want = "DISABLED"
              /\ lost' = (lost \/ (p.want = KEEP /\ p.status # row.status))
              /\ out' = (out /\ p.want # "ACTIVE")
         ELSE UNCHANGED <<row, decided, lost, out>>
    /\ patch' = [patch EXCEPT ![a] = NoPatch]
    /\ UNCHANGED <<claim, signin, creating, token, leased, edits>>

DeleteUser ==
  /\ row.there /\ edits < MaxEdits
  /\ row' = Gone
  /\ signin' = [s \in SignIns |-> [signin[s] EXCEPT !.same = FALSE, !.left = NoLease]]
  /\ patch' = [a \in Admins |-> [patch[a] EXCEPT !.same = FALSE]]
  /\ decided' = FALSE /\ leased' = FALSE
  /\ edits' = edits + 1
  /\ UNCHANGED <<claim, creating, token, lost, out>>

-----------------------------------------------------------------------------
(* Time.                                                                   *)

\* A date that is null counted down as if it were one.
OneDayLessOfAny(left) == IF left # 0 THEN left - 1 ELSE left

OneDayLess(left) == IF left > 0 THEN left - 1 ELSE left

Tick ==
  /\ row.left > 0
  /\ row' = [row EXCEPT !.left = OneDayLess(row.left)]
  /\ signin' = [s \in SignIns |-> [signin[s] EXCEPT !.left = OneDayLess(signin[s].left)]]
  /\ UNCHANGED <<claim, creating, patch, token, history, edits>>

\* An expireStaleLeases that does not say why.
SweepSilently ==
  /\ Active /\ row.left = 0
  /\ row' = [row EXCEPT !.status = "DISABLED"]
  /\ UNCHANGED <<claim, handlers, token, history, edits>>

\* expireStaleLeases, at every start and every five minutes.
Sweep ==
  /\ Active /\ row.left = 0
  /\ row' = [row EXCEPT !.status = "DISABLED", !.reason = "LEASE_EXPIRED"]
  /\ UNCHANGED <<claim, handlers, token, history, edits>>

SessionEnds ==
  /\ token
  /\ token' = FALSE
  /\ UNCHANGED <<claim, row, handlers, history, edits>>

\* The directory (external).
ClaimChanges ==
  /\ claim' = ~claim
  /\ UNCHANGED <<row, handlers, token, history, edits>>

-----------------------------------------------------------------------------
SignInStep(s) == Refuse(s) \/ SignInLoad(s) \/ SignInJudge(s) \/ SignInUpdate(s)

Next ==
  \/ \E s \in SignIns : SignInBegin(s) \/ SignInStep(s) \/ SignInFails(s)
  \/ \E c \in Creators : CreateBegin(c) \/ CreateInsert(c)
  \/ \E a \in Admins : (\E want \in Statuses \cup {KEEP} : PatchLoad(a, want)) \/ PatchWrite(a)
  \/ DeleteUser
  \/ Tick \/ Sweep \/ SessionEnds \/ ClaimChanges

Spec == Init /\ [][Next]_vars

(* Handlers that have begun end, the sweep's timer fires, time passes and  *)
(* sessions end.  Nobody has to sign in, and no administrator has to act.  *)
FairSpec ==
  /\ Spec
  /\ \A s \in SignIns : WF_vars(SignInStep(s))
  /\ \A c \in Creators : WF_vars(CreateInsert(c))
  /\ \A a \in Admins : WF_vars(PatchWrite(a))
  /\ WF_vars(Tick) /\ WF_vars(Sweep) /\ WF_vars(SessionEnds)

-----------------------------------------------------------------------------
(* Properties.                                                             *)

TypeOK ==
  /\ claim \in BOOLEAN /\ row \in Rows
  /\ signin \in [SignIns -> SignInStates]
  /\ creating \subseteq Creators
  /\ patch \in [Admins -> PatchStates]
  /\ token \in BOOLEAN
  /\ decided \in BOOLEAN /\ lost \in BOOLEAN /\ out \in BOOLEAN /\ leased \in BOOLEAN
  /\ edits \in 0..MaxEdits

\* An account an administrator disabled stays disabled, whatever sign-ins, sweeps
\* and refusals of this person are under way (oidc.ts:538, ADR 0004:142), until
\* an administrator says otherwise or a PATCH meant for something else does.
DecisionStands == decided /\ ~lost => row.there /\ ~Active

\* A person who was refused stays out until the directory vouches for them or an
\* administrator lets them in (ADR 0004:180), given that nobody admitted earlier
\* was still under way: no session, no sign-in, no account being created.
RefusedStaysOut == out /\ ~lost => ~Active

\* A person who returns with the claim gets the account back (ADR 0004:183),
\* unless it is an administrator who disabled it.
ReturnerRestored ==
  [][\A s \in SignIns :
       SignInUpdate(s) /\ signin[s].same
         => row'.status = "ACTIVE" \/ decided \/ lost]_vars

\* When the directory has stopped vouching for good, the account ends up disabled
\* although nobody tells the control plane (ADR 0004, section 6).  Accounts from
\* before leases are left open-ended until their first sign-in.
Deprovisioned == <>[]~claim => <>[](Active => ~leased)
=============================================================================
