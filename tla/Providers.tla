------------------------------ MODULE Providers ------------------------------
(***************************************************************************)
(* Authentication providers: how a portal sign-in and the authentication   *)
(* test go through them (providers/registry.ts, local.ts, ldap.ts), how    *)
(* their health is shown from a cache, and what administrators and proxy   *)
(* users change meanwhile (routes/proxyAuth.ts, portal.ts and              *)
(* proxyIdentity.ts).                                                      *)
(*                                                                         *)
(* A request loads the providers' rows once, in the order of their         *)
(* priority, and works with that copy; a directory's bind secret is read   *)
(* when it is needed.  One person signs in, whose name the local provider  *)
(* and the directories may all know.  Time is counted in ticks; loading    *)
(* the rows takes less than one.                                           *)
(***************************************************************************)
EXTENDS Integers, FiniteSets

CONSTANTS
  Providers, Local,
  Words,      \* passwords
  Typed,      \* the one the person types
  SignIns,    \* requests that sign the person in, or test it
  Lists,      \* requests that show the providers' health
  TTL,        \* how long a health entry is used
  Slow,       \* bound: ticks a request for the health may take
  AtOnce,     \* bound: requests of both kinds under way
  MaxChanges    \* bound: changes of providers, directories and the account

ASSUME ProvidersAssumption ==
  /\ Local \in Providers /\ Typed \in Words
  /\ TTL \in Nat /\ Slow \in Nat /\ AtOnce \in Nat /\ MaxChanges \in Nat

VARIABLES
  rows,      \* auth_providers
  order,     \* the place of each provider, by priority and key
  secret,    \* provider_secrets: the bind password is the directory's
  up,        \* the directories that answer
  account,   \* the person's row in proxy_users
  knows,     \* the person's password at each directory
  signins, lists,
  health,    \* healthCache
  patch,     \* the change of a provider under way
  change,    \* the change of the own password under way
  changes

directories == <<up, knows>>
table == <<rows, order, secret>>
providersVars == <<table, directories, account, signins, lists, health, patch, change, changes>>

-----------------------------------------------------------------------------
Directories == Providers \ {Local}
Orders == {o \in [Providers -> 1..Cardinality(Providers)] :
             \A p, q \in Providers : o[p] = o[q] => p = q}

Inactive == [at |-> "IDLE"]
Unknown == "UNKNOWN"
NoEntry == [health |-> Unknown, left |-> -Slow]

There == {p \in Providers : rows[p].state = "THERE"}

\* AuthenticationProviderRegistry.load returns those that are there with their
\* order; a request takes the first of those that are left.
First(left, places) == CHOOSE p \in left : \A q \in left : places[p] <= places[q]

ProvidersInit ==
  /\ rows \in [Providers -> [state : {"NEW", "THERE"}, enabled : {TRUE}, right : {TRUE}]]
  /\ rows[Local].state = "THERE"
  /\ order \in Orders
  /\ secret = [p \in Directories |-> rows[p].state = "THERE"]
  /\ up = Directories
  /\ account \in [active : {TRUE}, word : Words]
  /\ knows \in [Directories -> Words]
  /\ signins = [s \in SignIns |-> Inactive]
  /\ lists = [l \in Lists |-> Inactive]
  /\ health = [p \in Providers |-> NoEntry]
  /\ patch = Inactive /\ change = Inactive
  /\ changes = 0

-----------------------------------------------------------------------------
(* A sign-in.                                                              *)

\* Whether a provider would let the person in, as things are.
Accepts(p) ==
  /\ p \in There /\ rows[p].enabled
  /\ IF p = Local THEN account.active /\ account.word = Typed
                  ELSE p \in up /\ rows[p].right /\ secret[p] /\ knows[p] = Typed

Ready == {p \in Providers : Accepts(p)}

\* The step of a sign-in, with the history of all: the providers that have been
\* ready to let the person in ever since it began.
Witnessed(next) ==
  signins' = [s \in SignIns |->
    IF next[s].at = "ASKING"
      THEN [next[s] EXCEPT !.vouch = @ \cap Ready']
      ELSE next[s]]

Others == UNCHANGED <<lists, health>>
Still == UNCHANGED <<table, directories, account, patch, change, changes>>

Room ==
  Cardinality({s \in SignIns : signins[s].at = "ASKING"})
    + Cardinality({l \in Lists : lists[l] # Inactive}) < AtOnce

\* The rate limit is left out: it only refuses.
Begin(s) ==
  /\ Room
  /\ signins[s].at # "ASKING"
  /\ Still /\ Others
  /\ Witnessed([signins EXCEPT ![s] =
       [at |-> "ASKING", adapters |-> There, places |-> order, copy |-> rows,
        found |-> FALSE, vouch |-> Providers]])

Asked(s) == First(signins[s].adapters, signins[s].places)
Copy(s) == signins[s].copy[Asked(s)]
Asking(s) == signins[s].at = "ASKING" /\ signins[s].adapters # {}

GoesOn(s) == [signins[s] EXCEPT !.adapters = @ \ {Asked(s)}, !.found = FALSE]
SignedIn(s) == [at |-> "SIGNED_IN", by |-> Asked(s)]

\* What a provider that does not answer, or does not know the person, comes to.
StopsTheChain(s) == [signins[s] EXCEPT !.adapters = {}]
Unavailable(s) == GoesOn(s)
Rejected(s) == GoesOn(s)

Skip(s) ==
  /\ Asking(s)
  /\ ~Copy(s).enabled
  /\ Still /\ Others
  /\ Witnessed([signins EXCEPT ![s] = GoesOn(s)])

\* LocalAuthenticationProvider: one read of the row; the groups are read after
\* the password has been found right.
AskLocal(s) ==
  /\ Asking(s) /\ Asked(s) = Local /\ Copy(s).enabled
  /\ Still /\ Others
  /\ Witnessed([signins EXCEPT ![s] =
       IF account.active /\ account.word = Typed THEN SignedIn(s) ELSE Rejected(s)])

\* LdapAuthenticationProvider: the service bind and the search.  A service that
\* cannot bind or search is unavailable.
Search(s) ==
  /\ Asking(s) /\ Asked(s) # Local /\ Copy(s).enabled /\ ~signins[s].found
  /\ Still /\ Others
  /\ Witnessed([signins EXCEPT ![s] =
       IF Asked(s) \in up /\ Copy(s).right /\ secret[Asked(s)]
         THEN [@ EXCEPT !.found = TRUE] ELSE Unavailable(s)])

\* The bind as the person: whatever goes wrong with it, the password is
\* rejected.  Groups that cannot be read afterwards are no groups.
Bind(s) ==
  /\ Asking(s) /\ signins[s].found
  /\ Still /\ Others
  /\ Witnessed([signins EXCEPT ![s] =
       IF Asked(s) \in up /\ knows[Asked(s)] = Typed THEN SignedIn(s) ELSE Rejected(s)])

Refuse(s) ==
  /\ signins[s].at = "ASKING" /\ signins[s].adapters = {}
  /\ Still /\ Others
  /\ Witnessed([signins EXCEPT ![s] = [at |-> "REFUSED", vouch |-> @.vouch]])

-----------------------------------------------------------------------------
(* A list of the providers with their health (`summaries`).                *)

Load(l, refresh) ==
  /\ Room
  /\ lists[l] = Inactive
  /\ lists' = [lists EXCEPT ![l] =
       [at |-> "TODO", todo |-> There, places |-> order, copy |-> rows,
        refresh |-> refresh, ago |-> 0, seen |-> Unknown, answers |-> [p \in Providers |-> Unknown]]]
  /\ Still
  /\ UNCHANGED <<signins, health>>

Looked(l) == First(lists[l].todo, lists[l].places)

\* `now` is the moment the list was begun.
Valid(entry, ago) == entry.health # Unknown /\ entry.left + ago > 0

Cached(l) == ~lists[l].refresh /\ Valid(health[Looked(l)], lists[l].ago)

\* The list goes on with the next provider, or is complete.
Answered(l, h) ==
  IF lists[l].todo = {Looked(l)} THEN Inactive
  ELSE [lists[l] EXCEPT !.at = "TODO", !.todo = @ \ {Looked(l)}, !.answers[Looked(l)] = h]

FromCache(l) ==
  /\ lists[l].at = "TODO" /\ Cached(l)
  /\ lists' = [lists EXCEPT ![l] = Answered(l, health[Looked(l)].health)]
  /\ Still
  /\ UNCHANGED <<signins, health>>

HealthOf(row, p) ==
  IF ~row.enabled THEN "DISABLED"
  ELSE IF p = Local \/ (p \in up /\ row.right /\ secret[p]) THEN "HEALTHY" ELSE "UNREACHABLE"

Probe(l) ==
  /\ lists[l].at = "TODO" /\ ~Cached(l)
  /\ lists' = [lists EXCEPT ![l].at = "PROBED",
                 ![l].seen = HealthOf(lists[l].copy[Looked(l)], Looked(l))]
  /\ Still
  /\ UNCHANGED <<signins, health>>

\* However late it comes, and whatever has been invalidated meanwhile.
Store(l) ==
  /\ lists[l].at = "PROBED"
  /\ health' = [health EXCEPT ![Looked(l)] =
                  [health |-> lists[l].seen, left |-> TTL - lists[l].ago]]
  /\ lists' = [lists EXCEPT ![l] = Answered(l, lists[l].seen)]
  /\ Still
  /\ UNCHANGED signins

AgedNever(entry) == entry
Aged(entry) ==
  IF entry.left > -Slow THEN [entry EXCEPT !.left = @ - 1] ELSE NoEntry

Tick ==
  /\ \A l \in Lists : lists[l] # Inactive => lists[l].ago < Slow
  /\ lists' = [l \in Lists |-> IF lists[l] = Inactive THEN Inactive ELSE [lists[l] EXCEPT !.ago = @ + 1]]
  /\ health' = [p \in Providers |-> Aged(health[p])]
  /\ Still
  /\ UNCHANGED signins

-----------------------------------------------------------------------------
(* Administrators.                                                         *)

Changes == changes < MaxChanges /\ changes' = changes + 1

\* PATCH /auth-providers/:id: the row is read, written back as a whole with
\* what was asked, the secret follows, and the health is forgotten.
ReadProvider(p, enabled, right) ==
  /\ Changes
  /\ patch = Inactive
  /\ p \in There
  /\ p = Local => right
  /\ patch' = [at |-> "READ", provider |-> p, right |-> right, created |-> FALSE,
               row |-> [rows[p] EXCEPT !.enabled = enabled, !.right = right]]
  /\ UNCHANGED <<table, directories, account, change>> /\ Others
  /\ Witnessed(signins)

WriteProvider(o) ==
  /\ patch.at = "READ"
  /\ IF patch.provider \in There
       THEN rows' = [rows EXCEPT ![patch.provider] = patch.row] /\ order' = o
       ELSE UNCHANGED <<rows, order>>
  /\ patch' = [patch EXCEPT !.at = "WRITTEN"]
  /\ UNCHANGED <<secret, directories, account, change, changes>> /\ Others
  /\ Witnessed(signins)

WriteSecret ==
  /\ patch.at = "WRITTEN"
  /\ secret' = IF patch.provider = Local THEN secret
               ELSE [secret EXCEPT ![patch.provider] = patch.right]
  /\ patch' = [patch EXCEPT !.at = "DONE"]
  /\ UNCHANGED <<rows, order, directories, account, change, changes>> /\ Others
  /\ Witnessed(signins)

\* Every entry is forgotten when a provider was created.
Invalidate ==
  /\ patch.at = "DONE"
  /\ health' = [p \in Providers |->
       IF patch.created \/ p = patch.provider THEN NoEntry ELSE health[p]]
  /\ patch' = Inactive
  /\ UNCHANGED <<table, directories, account, change, changes, lists>>
  /\ Witnessed(signins)

\* POST /auth-providers: an insert, then the secret as with PATCH.
Create(p) ==
  /\ Changes
  /\ patch = Inactive
  /\ rows[p].state = "NEW"
  /\ rows' = [rows EXCEPT ![p].state = "THERE"]
  /\ patch' = [at |-> "WRITTEN", provider |-> p, right |-> TRUE, created |-> TRUE, row |-> rows[p]]
  /\ UNCHANGED <<order, secret, directories, account, change>> /\ Others
  /\ Witnessed(signins)

\* The local provider is not deleted.
Delete(p) ==
  /\ Changes
  /\ p \in There \ {Local}
  /\ rows' = [rows EXCEPT ![p].state = "GONE"]
  /\ health' = [health EXCEPT ![p] = NoEntry]
  /\ UNCHANGED <<order, secret, directories, account, change, patch, lists>>
  /\ Witnessed(signins)

\* PATCH and the password of a proxy user.
SetAccount(active, w) ==
  /\ Changes
  /\ account' = [active |-> active, word |-> w]
  /\ UNCHANGED <<table, directories, change, patch>> /\ Others
  /\ Witnessed(signins)

\* The portal: the current password is proved against the row that was read,
\* and the new one written later.
Prove(s, w) ==
  /\ Changes
  /\ change = Inactive
  /\ signins[s] = [at |-> "SIGNED_IN", by |-> Local]
  /\ account.active
  /\ w # account.word
  /\ change' = [at |-> "PROVED", word |-> w]
  /\ UNCHANGED <<table, directories, account, patch>> /\ Others
  /\ Witnessed(signins)

WritePassword ==
  /\ change.at = "PROVED"
  /\ account' = [account EXCEPT !.word = change.word]
  /\ change' = Inactive
  /\ UNCHANGED <<table, directories, patch, changes>> /\ Others
  /\ Witnessed(signins)

\* A directory goes away or comes back.
Outage(p) ==
  /\ Changes
  /\ up' = IF p \in up THEN up \ {p} ELSE up \cup {p}
  /\ UNCHANGED <<table, knows, account, change, patch>> /\ Others
  /\ Witnessed(signins)

ProvidersNext ==
  \/ \E s \in SignIns :
       \/ \E w \in Words : Prove(s, w)
       \/ Begin(s) \/ Skip(s) \/ AskLocal(s) \/ Search(s) \/ Bind(s) \/ Refuse(s)
  \/ \E l \in Lists :
       \/ \E b \in BOOLEAN : Load(l, b)
       \/ FromCache(l) \/ Probe(l) \/ Store(l)
  \/ Tick
  \/ \E p \in Providers :
       \/ \E e, r \in BOOLEAN : ReadProvider(p, e, r)
       \/ Create(p) \/ Delete(p)
  \/ \E o \in Orders : WriteProvider(o)
  \/ WriteSecret \/ Invalidate
  \/ \E b \in BOOLEAN, w \in Words : SetAccount(b, w)
  \/ WritePassword
  \/ \E p \in Directories : Outage(p)

\* Every request ends (a directory that is silent times out), and time goes on.
Fairness ==
  /\ WF_providersVars(Tick)
  /\ \A l \in Lists : WF_providersVars(FromCache(l) \/ Probe(l) \/ Store(l))
  /\ WF_providersVars(\E o \in Orders : WriteProvider(o))
  /\ WF_providersVars(WriteSecret) /\ WF_providersVars(Invalidate)

ProvidersSpec == ProvidersInit /\ [][ProvidersNext]_providersVars
ProvidersFairSpec == ProvidersSpec /\ Fairness

-----------------------------------------------------------------------------
(* Properties.                                                             *)

\* "An LDAP outage may never invalidate emergency and service accounts"
\* (local.ts): whoever one of the providers has been ready to let in all the
\* time is not refused, whatever the providers before it answer, and whatever
\* is changed about them meanwhile.
VouchedForGetsIn == \A s \in SignIns : signins[s].at = "REFUSED" => signins[s].vouch = {}

\* What a list shows of a provider becomes, and stays, what is the case: a
\* probe that comes back after its provider was changed fills the cache, but
\* not for ever.
HealthSettles ==
  <>[](\A l \in Lists : lists[l] # Inactive =>
         \A p \in Providers : lists[l].answers[p] \in {Unknown, HealthOf(rows[p], p)})
=============================================================================
