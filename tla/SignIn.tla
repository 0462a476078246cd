------------------------------- MODULE SignIn --------------------------------
(***************************************************************************)
(* Sign-in through an identity provider (ADR 0004, routes/oidc.ts): the    *)
(* provider's row and what administrators do to it, the one-time states a  *)
(* sign-in is started with, the callbacks that use them, and the operators *)
(* they make.                                                              *)
(*                                                                         *)
(* A callback consumes its state, loads the provider, asks the directory,  *)
(* and only then looks for the account: four awaits apart, any of which    *)
(* another callback or an administrator may use.  What happens to a proxy  *)
(* account behind the portal's door is in AccessLease.                     *)
(***************************************************************************)
EXTENDS Integers, FiniteSets

CONSTANTS
  People,     \* subjects of the directory
  Names,      \* what a person may be called there
  LocalName,  \* the username of the local administrator
  Attempts,   \* states handed out
  Callbacks,  \* requests to /auth/oidc/callback
  MaxEdits    \* bound: changes to the provider, the claims and the accounts

ASSUME SignInAssumption == LocalName \in Names /\ MaxEdits \in Nat

VARIABLES
  provider,   \* its row in identity_providers
  holds,      \* the claims the directory makes for a person, one per door
  prefers,    \* the name it gives a person
  attempts,   \* oidc_login_states
  callbacks,
  accounts,   \* the rows of cp_users bound to a subject
  sessions,   \* history: the sessions given out, by which attempt and under
              \* which name (the token's, the audit entry's and the answer's)
  shut,       \* history: doors the provider has not served since the last
              \* callback that had loaded it was over
  edits

directory == <<holds, prefers>>
vars == <<provider, directory, attempts, callbacks, accounts, sessions, shut, edits>>

-----------------------------------------------------------------------------
Doors == {"control-plane", "proxy-portal"}
Provider == [there : BOOLEAN, enabled : BOOLEAN, doors : SUBSET Doors, demands : SUBSET Doors]

\* A username is the directory's, or that one qualified with the provider's key.
Usernames == Names \X BOOLEAN
Plain(n) == <<n, FALSE>>
QualifiedTwice(n) == <<Plain(n), TRUE>>
Qualified(n) == <<n, TRUE>>
Admin == Plain(LocalName)

\* The portal's session bears the proxy account's name (AccessLease).
Elsewhere == <<>>

Unused == [at |-> "UNUSED", door |-> "control-plane"]
Idle == [at |-> "IDLE"]
NoAccount == [there |-> FALSE]
Nobody == "NOBODY"

Stages == {"CONSUMED", "LOADED", "ADMITTED", "KNOWN", "NEW", "NAMED"}

TypeOK ==
  /\ provider \in Provider
  /\ holds \in [People -> SUBSET Doors] /\ prefers \in [People -> Names]
  /\ attempts \in [Attempts -> [at : {"UNUSED", "OPEN", "EXPIRED", "USED"}, door : Doors]]
  /\ \A c \in Callbacks : callbacks[c] = Idle \/
       /\ callbacks[c].at \in Stages /\ callbacks[c].attempt \in Attempts
       /\ callbacks[c].row \in Provider /\ callbacks[c].who \in People \cup {Nobody}
       /\ callbacks[c].username \in Names /\ callbacks[c].localUsername \in Usernames
       /\ callbacks[c].active \in BOOLEAN
  /\ \A p \in People : accounts[p] = NoAccount \/
       accounts[p] \in [there : {TRUE}, active : BOOLEAN, username : Usernames]
  /\ sessions \subseteq [attempt : Attempts, door : Doors, who : People,
                          username : Usernames \cup {Elsewhere}]
  /\ shut \subseteq Doors
  /\ edits \in 0..MaxEdits

Init ==
  /\ provider \in [there : {TRUE}, enabled : {TRUE}, doors : {Doors}, demands : SUBSET Doors]
  /\ holds \in [People -> SUBSET Doors] /\ prefers \in [People -> Names]
  /\ attempts = [a \in Attempts |-> Unused]
  /\ callbacks = [c \in Callbacks |-> Idle]
  /\ accounts = [p \in People |-> NoAccount]
  /\ sessions = {} /\ shut = {} /\ edits = 0

-----------------------------------------------------------------------------
Enabled(row) == row.there /\ row.enabled
Serves(row, door) == Enabled(row) /\ door \in row.doors

Door(c) == attempts[callbacks[c].attempt].door
HasLoaded(c) == callbacks[c].at \in Stages \ {"CONSUMED"}

\* The doors that are closed and behind which nobody is left.
ShutNow == {d \in Doors :
  ~Serves(provider, d) /\ \A c \in Callbacks : HasLoaded(c) => Door(c) # d}
Shuts == shut' = (shut \cup ShutNow') \ {d \in Doors : Serves(provider', d)}

-----------------------------------------------------------------------------
(* POST /auth/oidc/start.                                                  *)

Start(a, door) ==
  /\ attempts[a] = Unused
  /\ Serves(provider, door)
  /\ attempts' = [attempts EXCEPT ![a] = [at |-> "OPEN", door |-> door]]
  /\ UNCHANGED <<provider, directory, callbacks, accounts, sessions, edits>>
  /\ Shuts

\* Ten minutes pass.
Expire(a) ==
  /\ attempts[a].at = "OPEN"
  /\ attempts' = [attempts EXCEPT ![a].at = "EXPIRED"]
  /\ UNCHANGED <<provider, directory, callbacks, accounts, sessions, edits>>
  /\ Shuts

-----------------------------------------------------------------------------
(* POST /auth/oidc/callback.                                               *)

ConsumedLater(a) == attempts
Consumed(a) == [attempts EXCEPT ![a].at = "USED"]

\* delete ... returning: one statement finds the state and uses it up.
Consume(c, a) ==
  /\ callbacks[c] = Idle
  /\ attempts[a].at = "OPEN"
  /\ attempts' = Consumed(a)
  /\ callbacks' = [callbacks EXCEPT ![c] =
       [at |-> "CONSUMED", attempt |-> a, row |-> provider, who |-> Nobody,
        username |-> LocalName, localUsername |-> Admin, active |-> FALSE]]
  /\ UNCHANGED <<provider, directory, accounts, sessions, edits>>
  /\ Shuts

MayLoadDisabled(row) == row.there
MayLoad(row) == Enabled(row)

LoadProvider(c) ==
  /\ callbacks[c].at = "CONSUMED"
  /\ callbacks' = [callbacks EXCEPT ![c] =
       IF MayLoad(provider) THEN [@ EXCEPT !.at = "LOADED", !.row = provider] ELSE Idle]
  /\ UNCHANGED <<provider, directory, attempts, accounts, sessions, edits>>
  /\ Shuts

\* `admits`: without a claim to compare, everyone who has signed in there.
Admits(row, door, p) == door \in row.demands => door \in holds[p]

Session(c, p, name) ==
  [attempt |-> callbacks[c].attempt, door |-> Door(c), who |-> p, username |-> name]

\* The code is exchanged and the claims are read, the person's name among them;
\* the row decides that was loaded before.  The portal's session follows at once.
Exchange(c, p) ==
  /\ callbacks[c].at = "LOADED"
  /\ LET admitted == Door(c) \in callbacks[c].row.doors /\ Admits(callbacks[c].row, Door(c), p)
         portal == Door(c) = "proxy-portal"
     IN  /\ callbacks' = [callbacks EXCEPT ![c] =
              IF admitted /\ ~portal
                THEN [@ EXCEPT !.at = "ADMITTED", !.who = p, !.username = prefers[p]] ELSE Idle]
         /\ sessions' = IF admitted /\ portal THEN sessions \cup {Session(c, p, Elsewhere)}
                                               ELSE sessions
  /\ UNCHANGED <<provider, directory, attempts, accounts, edits>>
  /\ Shuts

\* The provider does not answer, or its token does not verify.
Abandon(c) ==
  /\ callbacks[c].at = "LOADED"
  /\ callbacks' = [callbacks EXCEPT ![c] = Idle]
  /\ UNCHANGED <<provider, directory, attempts, accounts, sessions, edits>>
  /\ Shuts

\* By issuer and subject.
Look(c) ==
  /\ callbacks[c].at = "ADMITTED"
  /\ LET row == accounts[callbacks[c].who]
     IN  callbacks' = [callbacks EXCEPT ![c] =
           IF row.there THEN [@ EXCEPT !.at = "KNOWN", !.active = row.active]
                        ELSE [@ EXCEPT !.at = "NEW"]]
  /\ UNCHANGED <<provider, directory, attempts, accounts, sessions, edits>>
  /\ Shuts

Taken == {Admin} \cup {accounts[p].username : p \in {q \in People : accounts[q].there}}

\* A name somebody has is qualified.
Name(c) ==
  /\ callbacks[c].at = "NEW"
  /\ LET n == callbacks[c].username
     IN  callbacks' = [callbacks EXCEPT ![c].at = "NAMED",
                         ![c].localUsername = IF Plain(n) \in Taken THEN Qualified(n) ELSE Plain(n)]
  /\ UNCHANGED <<provider, directory, attempts, accounts, sessions, edits>>
  /\ Shuts

\* The unique indexes on the subject and on the name.
Unique(c) == ~accounts[callbacks[c].who].there /\ callbacks[c].localUsername \notin Taken

Insert(c) ==
  /\ callbacks[c].at = "NAMED"
  /\ IF Unique(c)
       THEN /\ accounts' = [accounts EXCEPT ![callbacks[c].who] =
                 [there |-> TRUE, active |-> TRUE, username |-> callbacks[c].localUsername]]
            /\ callbacks' = [callbacks EXCEPT ![c].at = "KNOWN", ![c].active = TRUE]
       ELSE /\ callbacks' = [callbacks EXCEPT ![c] = Idle]
            /\ UNCHANGED accounts
  /\ UNCHANGED <<provider, directory, attempts, sessions, edits>>
  /\ Shuts

\* The status is the one that was read with the account; the name is the
\* directory's, whatever the account is called.
Issue(c) ==
  /\ callbacks[c].at = "KNOWN"
  /\ sessions' = IF callbacks[c].active
       THEN sessions \cup {Session(c, callbacks[c].who, Plain(callbacks[c].username))}
       ELSE sessions
  /\ callbacks' = [callbacks EXCEPT ![c] = Idle]
  /\ UNCHANGED <<provider, directory, attempts, accounts, edits>>
  /\ Shuts

-----------------------------------------------------------------------------
(* Meanwhile.                                                              *)

Edits == edits < MaxEdits /\ edits' = edits + 1

\* PATCH /identity-providers/:id.  What it does not name stays, except the
\* claims: those it does not name are cleared.
Patched(row, enabled, doors, demands) ==
  [row EXCEPT !.enabled = enabled, !.doors = doors, !.demands = demands]

PatchProvider(enabled, doors, demands) ==
  /\ Edits
  /\ provider.there
  /\ provider' = Patched(provider, enabled, doors, demands)
  /\ UNCHANGED <<directory, attempts, callbacks, accounts, sessions>>
  /\ Shuts

\* The states go with the row they refer to.
DeleteProvider ==
  /\ Edits
  /\ provider.there
  /\ provider' = [provider EXCEPT !.there = FALSE]
  /\ attempts' = [a \in Attempts |->
       IF attempts[a].at = "OPEN" THEN [attempts[a] EXCEPT !.at = "EXPIRED"] ELSE attempts[a]]
  /\ UNCHANGED <<directory, callbacks, accounts, sessions>>
  /\ Shuts

\* The directory gives or takes a claim, or renames a person.
DirectoryChanges(p) ==
  /\ Edits
  /\ \/ \E claims \in SUBSET Doors : holds' = [holds EXCEPT ![p] = claims] /\ UNCHANGED prefers
     \/ \E n \in Names : prefers' = [prefers EXCEPT ![p] = n] /\ UNCHANGED holds
  /\ UNCHANGED <<provider, attempts, callbacks, accounts, sessions>>
  /\ Shuts

\* In the database: no route changes the status of an operator.
SetStatus(p, active) ==
  /\ Edits
  /\ accounts[p].there
  /\ accounts' = [accounts EXCEPT ![p].active = active]
  /\ UNCHANGED <<provider, directory, attempts, callbacks, sessions>>
  /\ Shuts

Next ==
  \/ \E a \in Attempts :
       \/ \E d \in Doors : Start(a, d)
       \/ Expire(a)
       \/ \E c \in Callbacks : Consume(c, a)
  \/ \E c \in Callbacks :
       \/ LoadProvider(c) \/ Abandon(c) \/ Look(c) \/ Name(c) \/ Insert(c) \/ Issue(c)
       \/ \E p \in People : Exchange(c, p)
  \/ \E e \in BOOLEAN, ds \in SUBSET Doors, dm \in SUBSET Doors : PatchProvider(e, ds, dm)
  \/ DeleteProvider
  \/ \E p \in People : DirectoryChanges(p) \/ \E b \in BOOLEAN : SetStatus(p, b)

Spec == Init /\ [][Next]_vars

-----------------------------------------------------------------------------
(* Properties.                                                             *)

\* "A state that survives its use can be replayed": of all callbacks that come
\* with one state, at once or later, one is served, for the door it was
\* started at.
OneUseOfAState ==
  /\ \A s, t \in sessions : s.attempt = t.attempt => s = t
  /\ \A s \in sessions : attempts[s.attempt] = [at |-> "USED", door |-> s.door]
  /\ \A c \in Callbacks : callbacks[c] # Idle =>
       /\ \A s \in sessions : s.attempt # callbacks[c].attempt
       /\ \A d \in Callbacks \ {c} : callbacks[d] # Idle =>
            callbacks[d].attempt # callbacks[c].attempt

\* A door an administrator has closed, with its last callback over, lets nobody
\* in: not even with a state from when it was open.
ShutDoorHolds == [][\A s \in sessions' \ sessions : s.door \notin shut]_vars
=============================================================================
