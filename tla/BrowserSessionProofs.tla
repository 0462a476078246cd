------------------------- MODULE BrowserSessionProofs -------------------------
(***************************************************************************)
(* What a tab keeps apart for any number of requests in flight, sessions,  *)
(* loads and failures: the stored kind is the stored token's, and a shell  *)
(* works with a token of its own plane.                                    *)
(***************************************************************************)
EXTENDS BrowserSession, TLAPS

Held == Issued \cup {None}

Types ==
  /\ token \in Held /\ user \in Held /\ portal \in Held
  /\ kind \in Doors \cup {NoKind}
  /\ waiting \subseteq Doors
  /\ listens \in BOOLEAN
  /\ path \in {"APP", "CALLBACK"}
  /\ flight \in [Slots -> Requests \cup {Free}]
  /\ \A s \in Slots : flight[s].tok \in Held
  /\ submitting \subseteq Slots /\ overlapped \in BOOLEAN
  /\ doors \in Seq(Doors) /\ Len(doors) <= MaxSessions
  /\ live \subseteq Issued
  /\ loads \in 0..MaxLoads /\ faults \in 0..MaxFaults

\* A request that was served holds a token of the door it was sent to.
Served ==
  \A s \in Slots :
    /\ flight[s].answer = "OK" => flight[s].tok # None /\ doors[flight[s].tok] = flight[s].door
    /\ flight[s].what = "SESSION" => flight[s].door = "control-plane"
    /\ flight[s].what = "ME" => flight[s].door = "portal"

\* While the portal's provider is loading, its question is the only request.
Probing ==
  \A s \in Slots : flight[s].what = "ME" =>
    /\ "portal" \in waiting /\ portal = None /\ flight[s].tok = token
    /\ \A r \in Slots \ {s} : flight[r] = Free

\* As long as sign-ins have not overlapped, there is one at a time, and only
\* while nobody is in the portal.
SigningIn ==
  ~overlapped => \A s \in Slots : flight[s].what = "LOGIN" =>
    /\ portal = None
    /\ \A r \in Slots : flight[r].what = "LOGIN" => r = s

\* Who is in the portal is whom the token is for, if there is one and sign-ins
\* have not overlapped.
InPortal ==
  portal # None => doors[portal] = "portal" /\ (overlapped \/ token \in {None, portal})

\* A portal's token without its user: left by a load whose question failed.
Orphaned == token # None /\ doors[token] = "portal" /\ portal = None
Harmless(f) ==
  \/ f = Free \/ f.what \in {"ME", "LOGIN", "EXCHANGE"}
  \/ f.what = "SESSION" /\ f.tok = token
NobodyThere == Orphaned => user = None /\ \A s \in Slots : Harmless(flight[s])

IInv == Types /\ Served /\ Probing /\ SigningIn /\ InPortal /\ NobodyThere /\ KindIsTheTokens

-----------------------------------------------------------------------------
\* A session given out is a new one, at its own door, and the others keep theirs.
LEMMA Issuing ==
  ASSUME doors \in Seq(Doors), NEW d \in Doors, doors' = Append(doors, d)
  PROVE  /\ doors' \in Seq(Doors) /\ Len(doors') = Len(doors) + 1
         /\ Issued = 1..Len(doors) /\ Issued' = 1..(Len(doors) + 1)
         /\ Issued \subseteq Issued' /\ Len(doors) + 1 \in Issued'
         /\ \A t \in Issued : doors'[t] = doors[t]
         /\ doors'[Len(doors) + 1] = d
BY DEF Issued

\* The invariant says what the properties ask for.
LEMMA IInvPlanes == IInv => PlanesKept
<1> SUFFICES ASSUME IInv, Shell \in Doors, token # None
             PROVE  doors[token] = Shell \/ (Shell = "portal" /\ overlapped)
  BY DEF PlanesKept
<1>1. doors[token] \in Doors
  BY DEF IInv, Types, Held, Issued
<1>2. CASE portal # None
  BY <1>2 DEF Shell, Doors, IInv, InPortal
<1>3. CASE portal = None
  <2>1. Shell = "control-plane" /\ user # None
    BY <1>3 DEF Shell, Doors
  <2>2. QED BY <1>1, <1>3, <2>1 DEF IInv, NobodyThere, Orphaned, Doors
<1>4. QED BY <1>2, <1>3

\* The invariant implies the types.
LEMMA IInvTypes == IInv => TypeOK
<1> SUFFICES ASSUME IInv PROVE TypeOK
  OBVIOUS
<1>1. Len(doors) \in 0..MaxSessions /\ doors \in [1..Len(doors) -> Doors]
  BY TabAssumption DEF IInv, Types
<1>2. QED BY <1>1 DEF IInv, Types, TypeOK, Held

\* The request a load sends: of the portal for a portal token, of the control plane otherwise.
LEMMA AsksTyped ==
  ASSUME NEW k \in Doors \cup {NoKind}, NEW t \in Sessions \cup {None}
  PROVE  /\ Asks(k, t) \in Requests /\ Asks(k, t).tok = t /\ Asks(k, t).answer = "PENDING"
         /\ \/ k = "portal" /\ Asks(k, t).what = "ME" /\ Asks(k, t).door = "portal"
            \/ k # "portal" /\ Asks(k, t).what = "SESSION" /\ Asks(k, t).door = "control-plane"
BY DEF Asks, Requests, Whats, Doors, Answers

\* The fields of a slot with no request.
LEMMA FreeFields ==
  Free.what = "PAGE" /\ Free.tok = None /\ Free.answer = "FREE" /\ Free.door = "portal"
BY DEF Free

\* What a tab may hold: a session, or nothing.
LEMMA HeldTyped == IInv => Held \subseteq Sessions \cup {None}
BY TabAssumption DEF IInv, Types, Held, Issued, Sessions

\* What LoginPage and the history of sign-ins do with a step.
LEMMA PageNext ==
  ASSUME LoginPage
  PROVE  /\ submitting' \subseteq Slots /\ overlapped' \in BOOLEAN
         /\ ~overlapped' /\ loads' = loads => ~overlapped
         /\ ~overlapped' /\ loads' = loads => \A r, s \in Slots :
              flight'[r].what = "LOGIN" /\ flight'[s].what = "LOGIN" => r = s
<1>1. submitting' \subseteq Slots
  BY DEF LoginPage, Submitting
<1>2. overlapped' = (loads' = loads /\ (overlapped \/ Overlap(flight')))
  BY DEF LoginPage
<1>3. QED BY <1>1, <1>2 DEF Overlap, IsLogin

-----------------------------------------------------------------------------
\* A load: one request, and what is stored.
LEMMA MountedInv ==
  ASSUME IInv, NEW page \in {"APP", "CALLBACK"}, NEW k \in Doors \cup {NoKind}, NEW t \in Held,
         t # None /\ k # NoKind => k = doors[t],
         Mounted(page, k, t), LoginPage, UNCHANGED <<server, faults>>
  PROVE  IInv'
<1>1. PICK s \in Slots : flight' = [r \in Slots |-> IF r = s THEN Asks(k, t) ELSE Free]
  BY DEF Mounted
<1>2. t \in Sessions \cup {None}
  BY HeldTyped
<1>3. /\ Asks(k, t) \in Requests /\ Asks(k, t).tok = t /\ Asks(k, t).answer = "PENDING"
      /\ \/ k = "portal" /\ Asks(k, t).what = "ME" /\ Asks(k, t).door = "portal"
         \/ k # "portal" /\ Asks(k, t).what = "SESSION" /\ Asks(k, t).door = "control-plane"
  BY <1>2, AsksTyped
<1>4. /\ token' = t /\ kind' = k /\ user' = None /\ portal' = None /\ path' = page
      /\ waiting' = {IF k = "portal" THEN "portal" ELSE "control-plane"}
      /\ listens' = (k = "portal") /\ loads < MaxLoads /\ loads' = loads + 1
      /\ doors' = doors /\ live' = live /\ faults' = faults
  BY DEF Mounted, server
<1> DEFINE q == Asks(k, t)
<1>5. q \in Requests /\ q.tok = t /\ q.answer = "PENDING" /\ q.what \in {"ME", "SESSION"}
      /\ (q.what = "ME" <=> k = "portal") /\ (q.what = "SESSION" => q.door = "control-plane")
      /\ (q.what = "ME" => q.door = "portal")
  BY <1>3
<1>6. \A r \in Slots : flight'[r] = IF r = s THEN q ELSE Free
  BY <1>1
<1> HIDE DEF q
<1>7. Types'
  <2>1. flight' \in [Slots -> Requests \cup {Free}]
    BY <1>1, <1>3
  <2>2. \A r \in Slots : flight'[r].tok \in Held'
    BY <1>4, <1>5, <1>6, FreeFields DEF Held, Issued
  <2>3. loads' \in 0..MaxLoads /\ listens' \in BOOLEAN
    BY <1>4, TabAssumption DEF IInv, Types
  <2>4. token' \in Held' /\ user' \in Held' /\ portal' \in Held' /\ live' \subseteq Issued'
    BY <1>4 DEF Held, Issued, IInv, Types
  <2>5. waiting' \subseteq Doors
    BY <1>4 DEF Doors
  <2>6. QED BY <1>4, <2>1, <2>2, <2>3, <2>4, <2>5, PageNext DEF IInv, Types
<1>8. Served' /\ Probing' /\ SigningIn'
  BY <1>4, <1>5, <1>6, FreeFields DEF Served, Probing, SigningIn
<1>9. InPortal' /\ KindIsTheTokens'
  BY <1>4 DEF InPortal, KindIsTheTokens
<1>10. NobodyThere'
  BY <1>4, <1>5, <1>6 DEF NobodyThere, Harmless
<1>11. QED BY <1>7, <1>8, <1>9, <1>10 DEF IInv

\* A request that is sent.
LEMMA SentInv ==
  ASSUME IInv, NEW what \in {"LOGIN", "LOGOUT", "PASSWORD", "PAGE", "EXCHANGE"}, NEW door \in Doors,
         Send(what, door), waiting = {}, LoginPage,
         what = "LOGIN" => portal = None,
         what \in {"LOGOUT", "PASSWORD", "PAGE"} => ~Orphaned
  PROVE  IInv'
<1> DEFINE q == [what |-> what, door |-> door, tok |-> token, answer |-> "PENDING"]
<1>1. PICK s \in Slots : flight[s] = Free /\ flight' = [flight EXCEPT ![s] = q]
  BY DEF Send
<1>2. UNCHANGED <<tab, server, faults>>
  BY DEF Send
<1>3. token \in Sessions \cup {None}
  BY HeldTyped DEF IInv, Types
<1>4. q \in Requests /\ q.what = what /\ q.tok = token /\ q.answer = "PENDING"
  BY <1>3 DEF Requests, Whats, Answers
<1> HIDE DEF q
<1>5. flight' \in [Slots -> Requests \cup {Free}] /\ \A r \in Slots : flight'[r] = IF r = s THEN q ELSE flight[r]
  BY <1>1, <1>4 DEF IInv, Types
<1>6. Types'
  BY <1>2, <1>4, <1>5, PageNext DEF IInv, Types, tab, server, Held, Issued
<1>7. \A r \in Slots : flight[r].what # "ME"
  BY DEF IInv, Probing
<1>8. Served' /\ Probing'
  BY <1>2, <1>4, <1>5, <1>7 DEF IInv, Served, Probing, tab, server
<1>9. SigningIn'
  <2>1. SUFFICES ASSUME ~overlapped', NEW r \in Slots, flight'[r].what = "LOGIN"
                 PROVE  portal' = None /\ \A x \in Slots : flight'[x].what = "LOGIN" => x = r
    BY DEF SigningIn
  <2>2. ~overlapped /\ \A x \in Slots : flight'[x].what = "LOGIN" => x = r
    BY <1>2, <2>1, PageNext DEF tab
  <2>3. portal = None
    BY <1>4, <1>5, <2>1, <2>2 DEF IInv, SigningIn
  <2>4. QED BY <1>2, <2>2, <2>3 DEF tab
<1>10. InPortal' /\ KindIsTheTokens'
  BY <1>2, PageNext DEF IInv, InPortal, KindIsTheTokens, tab, server
<1>11. NobodyThere'
  <2>1. Orphaned' <=> Orphaned
    BY <1>2 DEF Orphaned, tab, server
  <2>2. CASE Orphaned
    BY <1>2, <1>4, <1>5, <2>1, <2>2 DEF IInv, NobodyThere, Harmless, tab
  <2>3. QED BY <2>1, <2>2 DEF NobodyThere
<1>12. QED BY <1>6, <1>8, <1>9, <1>10, <1>11 DEF IInv

\* Where no load is under way and somebody is shown a shell, no token is orphaned.
LEMMA ShellKnown ==
  ASSUME IInv
  PROVE  /\ Shell \in Doors => waiting = {} /\ ~Orphaned
         /\ Shell \in {"LOGIN", "CALLBACK"} => waiting = {}
         /\ Shell = "LOGIN" => portal = None
BY DEF Shell, Doors, IInv, NobodyThere, Orphaned

-----------------------------------------------------------------------------
\* The API answers: what a request is about stays, and an answer OK holds a
\* token of the request's door.
LEMMA AnsweredInv ==
  ASSUME IInv, NEW s \in Slots, NEW q \in Requests,
         flight[s].answer = "PENDING",
         flight' = [flight EXCEPT ![s] = q],
         q.what = flight[s].what, q.door = flight[s].door,
         q.tok = flight[s].tok \/ q.what \in {"LOGIN", "EXCHANGE"},
         q.tok \in Held',
         q.answer = "OK" => q.tok # None /\ doors'[q.tok] = q.door,
         doors' \in Seq(Doors), Len(doors') <= MaxSessions,
         Issued \subseteq Issued', \A x \in Issued : doors'[x] = doors[x],
         live' \subseteq Issued', UNCHANGED tab, LoginPage, faults' \in 0..MaxFaults
  PROVE  IInv'
<1>1. flight' \in [Slots -> Requests \cup {Free}] /\ \A r \in Slots : flight'[r] = IF r = s THEN q ELSE flight[r]
  BY DEF IInv, Types
<1>2. Held \subseteq Held' /\ None \notin Issued
  BY DEF Held, IInv, Types, Issued, None
<1>3. Types'
  <2>1. token' \in Held' /\ user' \in Held' /\ portal' \in Held'
    BY <1>2 DEF IInv, Types, tab
  <2>2. \A r \in Slots : flight'[r].tok \in Held'
    BY <1>1, <1>2 DEF IInv, Types
  <2>3. QED BY <1>1, <2>1, <2>2, PageNext DEF IInv, Types, tab
<1>4. \A x \in Held : x # None => doors'[x] = doors[x]
  BY DEF Held
<1>5. Served'
  BY <1>1, <1>4 DEF IInv, Served, Types
<1>6. s \in Slots /\ flight[s] # Free
  BY FreeFields
<1>7. Probing'
  <2>1. ASSUME NEW r \in Slots, flight'[r].what = "ME"
        PROVE  /\ "portal" \in waiting' /\ portal' = None /\ flight'[r].tok = token'
               /\ \A x \in Slots \ {r} : flight'[x] = Free
    <3>1. flight[r].what = "ME"
      BY <1>1, <2>1
    <3>2. r = s
      BY <1>6, <3>1 DEF IInv, Probing
    <3>3. flight'[s].tok = flight[s].tok
      BY <1>1, <3>1, <3>2
    <3>4. QED BY <1>1, <3>1, <3>2, <3>3 DEF IInv, Probing, tab
  <2>2. QED BY <2>1 DEF Probing
<1>8. SigningIn'
  BY <1>1, PageNext DEF IInv, SigningIn, tab
<1>9. InPortal' /\ KindIsTheTokens'
  BY <1>4, PageNext DEF IInv, InPortal, KindIsTheTokens, tab, Types
<1>10. NobodyThere'
  <2>1. Orphaned' <=> Orphaned
    BY <1>4 DEF Orphaned, tab, IInv, Types
  <2>2. CASE Orphaned
    <3>1. \A r \in Slots : Harmless(flight[r])
      BY <2>2 DEF IInv, NobodyThere
    <3>2. Harmless(q)
      BY <1>6, <3>1 DEF Harmless
    <3>3. \A r \in Slots : Harmless(flight'[r])
      BY <1>1, <3>1, <3>2
    <3>4. QED BY <2>2, <3>3 DEF IInv, NobodyThere, Harmless, tab
  <2>3. QED BY <2>1, <2>2 DEF NobodyThere
<1>11. QED BY <1>3, <1>5, <1>7, <1>8, <1>9, <1>10 DEF IInv

\* An answer arrives and its request is over, or becomes a question for the
\* session; the portal is entered by its own answers only, and no token is
\* left without its user.
LEMMA ArrivedInv ==
  ASSUME IInv, NEW s \in Slots, NEW q \in Requests \cup {Free},
         flight[s] # Free, flight' = [flight EXCEPT ![s] = q],
         \/ q = Free
         \/ /\ q.what = "SESSION" /\ q.door = "control-plane" /\ q.answer = "PENDING" /\ q.tok \in Held
            /\ flight[s].what = "PASSWORD" /\ token' = token /\ portal' = portal,
         token' \in Held, user' \in Held, portal' \in Held,
         kind' \in Doors \cup {NoKind}, waiting' \subseteq Doors,
         UNCHANGED <<listens, path, loads, server, faults>>, LoginPage,
         token' # None /\ kind' # NoKind => kind' = doors[token'],
         portal' # None => doors[portal'] = "portal" /\ (overlapped \/ token' \in {None, portal'}),
         portal' # None => portal # None \/ flight[s].what \in {"ME", "LOGIN"},
         token' # None /\ doors[token'] = "portal" /\ portal' = None =>
           token' = token /\ portal = None /\ (user = None => user' = None)
  PROVE  IInv'
<1>1. flight' \in [Slots -> Requests \cup {Free}] /\ \A r \in Slots : flight'[r] = IF r = s THEN q ELSE flight[r]
  BY DEF IInv, Types
<1>2. doors' = doors /\ Held' = Held /\ Issued' = Issued
  BY DEF server, Held, Issued
<1>3. Types'
  <2>1. \A r \in Slots : flight'[r].tok \in Held'
    BY <1>1, <1>2, FreeFields DEF IInv, Types, Held
  <2>2. QED BY <1>1, <1>2, <2>1, PageNext DEF IInv, Types, server
<1>4. Served'
  BY <1>1, <1>2, FreeFields DEF IInv, Served
<1>5. \A r \in Slots : flight'[r].what # "ME"
  <2>1. ASSUME NEW r \in Slots, flight'[r].what = "ME" PROVE FALSE
    <3>1. r # s /\ flight[r].what = "ME"
      BY <1>1, <2>1, FreeFields
    <3>2. flight[s] = Free
      BY <3>1 DEF IInv, Probing
    <3>3. QED BY <3>2
  <2>2. QED BY <2>1
<1>6. Probing'
  BY <1>5 DEF Probing
<1>7. SigningIn'
  <2>1. ASSUME ~overlapped', NEW r \in Slots, flight'[r].what = "LOGIN"
        PROVE  portal' = None /\ \A x \in Slots : flight'[x].what = "LOGIN" => x = r
    <3>1. r # s /\ flight[r].what = "LOGIN"
      BY <1>1, <2>1, FreeFields
    <3>2. portal = None /\ \A x \in Slots : flight[x].what = "LOGIN" => x = r
      BY <2>1, <3>1, PageNext DEF IInv, SigningIn
    <3>3. flight[s].what # "LOGIN"
      BY <3>1, <3>2
    <3>4. flight[s].what # "ME"
      BY <3>1, FreeFields DEF IInv, Probing
    <3>5. portal' = None
      BY <3>2, <3>3, <3>4
    <3>6. QED BY <1>1, <3>2, <3>5, FreeFields
  <2>2. QED BY <2>1 DEF SigningIn
<1>8. InPortal' /\ KindIsTheTokens'
  BY <1>2, PageNext DEF InPortal, KindIsTheTokens
<1>9. NobodyThere'
  <2>1. SUFFICES ASSUME Orphaned' PROVE user' = None /\ \A r \in Slots : Harmless(flight[r])'
    BY DEF NobodyThere, Harmless
  <2>2. token' = token /\ portal = None /\ Orphaned
    BY <1>2, <2>1 DEF Orphaned
  <2>3. user = None /\ \A r \in Slots : Harmless(flight[r])
    BY <2>2 DEF IInv, NobodyThere
  <2>4. user' = None
    BY <1>2, <2>1, <2>3 DEF Orphaned
  <2>5. flight[s].what # "PASSWORD"
    BY <2>3 DEF Harmless
  <2>6. q = Free
    BY <2>5
  <2>7. \A r \in Slots : Harmless(flight[r])'
    BY <1>1, <2>2, <2>3, <2>6 DEF Harmless
  <2>8. QED BY <2>4, <2>7
<1>10. QED BY <1>3, <1>4, <1>6, <1>7, <1>8, <1>9 DEF IInv

-----------------------------------------------------------------------------
\* What api() leaves of the tab when an answer arrives.
LEMMA Left ==
  ASSUME IInv, NEW s \in Slots
  PROVE  /\ TokenLeft(s) \in {token, None} /\ TokenLeft(s) \in Held
         /\ UserLeft(s) \in {user, None} /\ UserLeft(s) \in Held
         /\ PortalLeft(s) \in {portal, None} /\ PortalLeft(s) \in Held
         /\ KindLeft(s) \in {kind, NoKind} /\ KindLeft(s) \in Doors \cup {NoKind}
         /\ TokenLeft(s) # None => PortalLeft(s) = portal /\ TokenLeft(s) = token
         /\ ~Refused(s) => PortalLeft(s) = portal /\ TokenLeft(s) = token
BY DEF TokenLeft, UserLeft, PortalLeft, KindLeft, IInv, Types, Held

\* The record of a request in flight.
LEMMA InFlight ==
  ASSUME IInv, NEW s \in Slots, flight[s].answer # "FREE"
  PROVE  /\ flight[s] \in Requests /\ flight[s] # Free
         /\ flight[s].what \in Whats /\ flight[s].door \in Doors /\ flight[s].tok \in Held
<1>1. flight[s] # Free
  BY FreeFields
<1>2. flight[s] \in Requests
  BY <1>1 DEF IInv, Types
<1>3. QED BY <1>1, <1>2 DEF Requests, IInv, Types

\* An answer that leaves the session as api() does.
LEMMA LeftInv ==
  ASSUME IInv, NEW s \in Slots, flight[s] # Free,
         flight' = [flight EXCEPT ![s] = Free],
         token' \in {TokenLeft(s), None}, kind' \in {KindLeft(s), NoKind},
         portal' \in {PortalLeft(s), None}, user' \in {UserLeft(s), None},
         portal' = PortalLeft(s) \/ token' = None \/ portal = None,
         waiting' \subseteq Doors,
         UNCHANGED <<listens, path, loads, server, faults>>, LoginPage
  PROVE  IInv'
<1>1. token' \in Held /\ user' \in Held /\ portal' \in Held /\ kind' \in Doors \cup {NoKind}
  BY Left DEF Held
<1>2. token' # None => token' = token /\ (portal' = portal \/ portal = None)
  BY Left
<1>3. portal' # None => portal' = portal
  BY Left
<1>4. kind' # NoKind => kind' = kind
  BY Left
<1>5. user = None => user' = None
  BY Left
<1>6. token' # None /\ kind' # NoKind => kind' = doors[token']
  BY <1>2, <1>4 DEF IInv, KindIsTheTokens
<1>7. portal' # None => doors[portal'] = "portal" /\ (overlapped \/ token' \in {None, portal'})
  BY <1>2, <1>3 DEF IInv, InPortal
<1>8. token' # None /\ doors[token'] = "portal" /\ portal' = None =>
        token' = token /\ portal = None /\ (user = None => user' = None)
  BY <1>2, <1>5
<1>9. QED BY <1>1, <1>3, <1>6, <1>7, <1>8, ArrivedInv

\* Every step keeps the invariant, an action at a time.
LEMMA StepIInv == IInv /\ Step /\ LoginPage => IInv'
<1> SUFFICES ASSUME IInv, Step, LoginPage PROVE IInv'
  OBVIOUS
<1>0. token \in Held /\ kind \in Doors \cup {NoKind} /\ waiting \subseteq Doors
  BY DEF IInv, Types
<1>1. CASE Reload
  <2>1. token # None /\ kind # NoKind => kind = doors[token]
    BY DEF IInv, KindIsTheTokens
  <2>2. QED BY <1>0, <1>1, <2>1, MountedInv DEF Reload
<1>2. CASE ReturnFromProvider
  <2>1. token # None /\ kind # NoKind => kind = doors[token]
    BY DEF IInv, KindIsTheTokens
  <2>2. QED BY <1>0, <1>2, <2>1, MountedInv DEF ReturnFromProvider
<1>3. ASSUME NEW d \in Doors, SignIn(d) PROVE IInv'
  BY <1>3, SentInv, ShellKnown DEF SignIn
<1>4. ASSUME NEW d \in Doors, SignOut(d) PROVE IInv'
  BY <1>4, SentInv, ShellKnown DEF SignOut
<1>5. ASSUME NEW d \in Doors, ChangePassword(d) PROVE IInv'
  BY <1>5, SentInv, ShellKnown DEF ChangePassword
<1>6. ASSUME NEW d \in Doors, Ask(d) PROVE IInv'
  BY <1>6, SentInv, ShellKnown DEF Ask
<1>7. ASSUME NEW d \in Doors, Exchange(d) PROVE IInv'
  BY <1>7, SentInv, ShellKnown DEF Exchange
<1>8. ASSUME NEW x \in Sessions, Expire(x) PROVE IInv'
  <2>1. live' \subseteq Issued /\ UNCHANGED <<tab, flight, doors, faults>>
    BY <1>8 DEF Expire, IInv, Types
  <2>2. Types'
    BY <2>1, PageNext DEF IInv, Types, tab, Held, Issued
  <2>3. Served' /\ Probing' /\ SigningIn' /\ InPortal' /\ KindIsTheTokens'
    BY <2>1, PageNext DEF IInv, Served, Probing, SigningIn, InPortal, KindIsTheTokens, tab
  <2>4. NobodyThere'
    BY <2>1 DEF IInv, NobodyThere, Orphaned, Harmless, tab
  <2>5. QED BY <2>2, <2>3, <2>4 DEF IInv
<1>9. ASSUME NEW s \in Slots, Serve(s) PROVE IInv'
  <2>1. flight[s].answer = "PENDING" /\ flight[s] \in Requests /\ flight[s].door \in Doors /\ flight[s].tok \in Held
    BY <1>9, InFlight DEF Serve
  <2>2. UNCHANGED tab /\ faults' \in 0..MaxFaults /\ doors \in Seq(Doors) /\ live \subseteq Issued
    BY <1>9 DEF Serve, IInv, Types
  <2>3. CASE Issues(flight[s])
    <3> DEFINE q == [flight[s] EXCEPT !.answer = "OK", !.tok = Len(doors) + 1]
    <3>1. /\ Len(doors) < MaxSessions
          /\ doors' = Append(doors, flight[s].door)
          /\ live' = live \cup {Len(doors) + 1}
          /\ flight' = [flight EXCEPT ![s] = q]
      BY <1>9, <2>3 DEF Serve, IInv, Types
    <3>2. Len(doors) + 1 \in Sessions
      BY <2>2, <3>1, TabAssumption DEF Sessions
    <3>3. /\ q \in Requests /\ q.what = flight[s].what /\ q.door = flight[s].door
          /\ q.tok = Len(doors) + 1 /\ q.answer = "OK" /\ q.what \in {"LOGIN", "EXCHANGE"}
      BY <2>1, <2>3, <3>2 DEF Requests, Answers, Issues
    <3> HIDE DEF q
    <3>4. /\ doors' \in Seq(Doors) /\ Len(doors') = Len(doors) + 1
          /\ Issued \subseteq Issued' /\ Len(doors) + 1 \in Issued'
          /\ \A x \in Issued : doors'[x] = doors[x]
          /\ doors'[Len(doors) + 1] = flight[s].door
      BY <2>1, <2>2, <3>1, Issuing
    <3>5. Len(doors') <= MaxSessions /\ Len(doors) + 1 # None
      BY <2>2, <3>1, <3>4, TabAssumption DEF None
    <3>6. live' \subseteq Issued' /\ q.tok \in Held'
      BY <2>2, <3>1, <3>3, <3>4 DEF Held
    <3>7. QED BY <2>1, <2>2, <3>1, <3>3, <3>4, <3>5, <3>6, AnsweredInv
  <2>4. CASE ~Issues(flight[s])
    <3> DEFINE q == [flight[s] EXCEPT !.answer = "OK"]
    <3>1. flight' = [flight EXCEPT ![s] = q] /\ UNCHANGED server
      BY <1>9, <2>4 DEF Serve, IInv, Types
    <3>2. /\ q \in Requests /\ q.what = flight[s].what /\ q.door = flight[s].door
          /\ q.tok = flight[s].tok
      BY <2>1 DEF Requests, Answers
    <3> HIDE DEF q
    <3>3. flight[s].tok \in live /\ doors[flight[s].tok] = flight[s].door
      BY <1>9, <2>4 DEF Serve, MayServe, Accepted, Issues
    <3>4. flight[s].tok # None
      BY <2>2, <3>3 DEF None, Issued
    <3>5. doors' = doors /\ live' = live /\ Issued' = Issued /\ Held' = Held
      BY <3>1 DEF server, Issued, Held
    <3>6. Len(doors') <= MaxSessions
      BY <3>5 DEF IInv, Types
    <3>7. QED BY <2>1, <2>2, <3>1, <3>2, <3>3, <3>4, <3>5, <3>6, AnsweredInv
  <2>5. QED BY <2>3, <2>4
<1>10. ASSUME NEW s \in Slots, NEW a \in {"UNAUTHORIZED", "FAILED"},
              flight[s].answer = "PENDING", flight' = [flight EXCEPT ![s].answer = a],
              UNCHANGED <<tab, server>>, faults' \in 0..MaxFaults
       PROVE  IInv'
  <2> DEFINE q == [flight[s] EXCEPT !.answer = a]
  <2>1. flight[s] \in Requests /\ flight[s].tok \in Held
    BY <1>10, InFlight
  <2>2. flight' = [flight EXCEPT ![s] = q]
    BY <1>10 DEF IInv, Types
  <2>3. /\ q \in Requests /\ q.what = flight[s].what /\ q.door = flight[s].door
        /\ q.tok = flight[s].tok /\ q.answer # "OK"
    BY <2>1 DEF Requests, Answers
  <2> HIDE DEF q
  <2>4. doors' = doors /\ live' = live /\ Issued' = Issued /\ Held' = Held
    BY <1>10 DEF server, Issued, Held
  <2>5. doors' \in Seq(Doors) /\ Len(doors') <= MaxSessions /\ live' \subseteq Issued'
    BY <2>4 DEF IInv, Types
  <2>6. QED BY <1>10, <2>1, <2>2, <2>3, <2>4, <2>5, AnsweredInv
<1>11. ASSUME NEW s \in Slots, Refuse(s) PROVE IInv'
  BY <1>10, <1>11 DEF Refuse, IInv, Types
<1>12. ASSUME NEW s \in Slots, Fail(s) PROVE IInv'
  <2>1. faults' \in 0..MaxFaults
    BY <1>12, TabAssumption DEF Fail, IInv, Types
  <2>2. QED BY <1>10, <1>12, <2>1 DEF Fail
<1>13. ASSUME NEW s \in Slots, NEW w \in Whats, Arrived(s, w)
       PROVE  /\ flight[s] \in Requests /\ flight[s] # Free
              /\ flight[s].what = w /\ flight[s].door \in Doors /\ flight[s].tok \in Held
              /\ flight[s].answer = "OK" =>
                   ~Refused(s) /\ flight[s].tok # None /\ doors[flight[s].tok] = flight[s].door
  <2>1. flight[s].answer # "FREE"
    BY <1>13 DEF Arrived, Answers
  <2>2. QED BY <1>13, <2>1, InFlight DEF Arrived, Refused, IInv, Served
<1>14. ASSUME NEW s \in Slots, SessionArrives(s) PROVE IInv'
  <2>1. /\ flight[s] # Free /\ flight[s].what = "SESSION" /\ flight[s].tok \in Held
        /\ flight[s].answer = "OK" =>
             ~Refused(s) /\ flight[s].tok # None /\ doors[flight[s].tok] = "control-plane"
    BY <1>13, <1>14 DEF SessionArrives, Whats, IInv, Served
  <2>2. /\ flight' = [flight EXCEPT ![s] = Free]
        /\ token' = TokenLeft(s) /\ portal' = PortalLeft(s) /\ kind' = KindLeft(s)
        /\ waiting' \subseteq Doors
        /\ UNCHANGED <<listens, path, loads, server, faults>>
    BY <1>0, <1>14 DEF SessionArrives, Done
  <2>3. CASE flight[s].answer = "OK"
    <3>1. token' = token /\ portal' = portal /\ user' = flight[s].tok /\ kind' = kind
      BY <1>14, <2>1, <2>2, <2>3, Left DEF SessionArrives, KindLeft
    <3>2. ~Orphaned
      <4>1. SUFFICES ASSUME Orphaned PROVE FALSE
        OBVIOUS
      <4>2. flight[s].tok = token
        BY <2>1, <4>1 DEF IInv, NobodyThere, Harmless
      <4>3. QED BY <2>1, <2>3, <4>1, <4>2 DEF Orphaned
    <3>3. token' # None /\ kind' # NoKind => kind' = doors[token']
      BY <3>1 DEF IInv, KindIsTheTokens
    <3>4. portal' # None => doors[portal'] = "portal" /\ (overlapped \/ token' \in {None, portal'})
      BY <3>1 DEF IInv, InPortal
    <3>5. portal \in Held
      BY DEF IInv, Types
    <3>6. QED
      BY <1>0, <2>1, <2>2, <3>1, <3>2, <3>3, <3>4, <3>5, ArrivedInv DEF Orphaned
  <2>4. CASE flight[s].answer # "OK"
    <3>1. user' = None
      BY <1>14, <2>4 DEF SessionArrives
    <3>2. QED BY <2>1, <2>2, <3>1, LeftInv
  <2>5. QED BY <2>3, <2>4
<1>15. ASSUME NEW s \in Slots, MeArrives(s) PROVE IInv'
  <2>1. /\ flight[s] # Free /\ flight[s].what = "ME" /\ flight[s].tok \in Held
        /\ flight[s].answer = "OK" =>
             ~Refused(s) /\ flight[s].tok # None /\ doors[flight[s].tok] = "portal"
    BY <1>13, <1>15 DEF MeArrives, Whats, IInv, Served
  <2>2. portal = None /\ flight[s].tok = token
    BY <2>1 DEF IInv, Probing
  <2>3. /\ flight' = [flight EXCEPT ![s] = Free]
        /\ token' = TokenLeft(s) /\ user' = UserLeft(s)
        /\ waiting' \subseteq Doors
        /\ UNCHANGED <<listens, path, loads, server, faults>>
    BY <1>0, <1>15 DEF MeArrives, Done
  <2>4. CASE flight[s].answer = "OK"
    <3>1. token' = token /\ portal' = token /\ kind' = kind /\ token # None /\ doors[token] = "portal"
      BY <1>15, <2>1, <2>2, <2>3, <2>4, Left DEF MeArrives
    <3>2. token' # None /\ kind' # NoKind => kind' = doors[token']
      BY <3>1 DEF IInv, KindIsTheTokens
    <3>3. user' \in Held
      BY <2>3, Left
    <3>4. QED BY <1>0, <2>1, <2>3, <3>1, <3>2, <3>3, ArrivedInv
  <2>5. CASE flight[s].answer # "OK"
    <3>1. portal' = None /\ kind' = NoKind
      BY <1>15, <2>5 DEF MeArrives
    <3>2. QED BY <2>1, <2>2, <2>3, <3>1, LeftInv
  <2>6. QED BY <2>4, <2>5
<1>16. ASSUME NEW s \in Slots, LoginArrives(s) PROVE IInv'
  <2>1. /\ flight[s] # Free /\ flight[s].what = "LOGIN" /\ flight[s].tok \in Held /\ flight[s].door \in Doors
        /\ flight[s].answer = "OK" =>
             ~Refused(s) /\ flight[s].tok # None /\ doors[flight[s].tok] = flight[s].door
    BY <1>13, <1>16 DEF LoginArrives, Whats
  <2>2. flight' = [flight EXCEPT ![s] = Free] /\ UNCHANGED <<waiting, listens, path, loads, server, faults>>
    BY <1>16 DEF LoginArrives, Done
  <2>3. CASE flight[s].answer = "OK"
    <3>1. /\ token' = flight[s].tok /\ kind' = flight[s].door
          /\ user' = IF flight[s].door = "control-plane" THEN flight[s].tok ELSE user
          /\ portal' = IF flight[s].door = "portal" THEN flight[s].tok ELSE portal
      BY <1>16, <2>3 DEF LoginArrives, KindStored
    <3>2. overlapped \/ portal = None
      BY <2>1 DEF IInv, SigningIn
    <3>3. portal' # None => doors[portal'] = "portal" /\ (overlapped \/ token' \in {None, portal'})
      BY <2>1, <2>3, <3>1, <3>2 DEF IInv, InPortal
    <3>4. doors[token'] = "portal" => portal' # None
      BY <2>1, <2>3, <3>1
    <3>5. user' \in Held /\ portal' \in Held
      BY <2>1, <3>1 DEF IInv, Types
    <3>6. QED BY <1>0, <2>1, <2>2, <2>3, <3>1, <3>3, <3>4, <3>5, ArrivedInv
  <2>4. CASE flight[s].answer # "OK"
    <3>1. /\ token' = TokenLeft(s) /\ kind' = KindLeft(s)
          /\ user' = UserLeft(s) /\ portal' = PortalLeft(s)
      BY <1>16, <2>4 DEF LoginArrives
    <3>2. QED BY <1>0, <2>1, <2>2, <3>1, LeftInv
  <2>5. QED BY <2>3, <2>4
<1>17. ASSUME NEW s \in Slots, LogoutArrives(s) PROVE IInv'
  <2>1. flight[s] # Free
    BY <1>13, <1>17 DEF LogoutArrives, Whats
  <2>2. /\ flight' = [flight EXCEPT ![s] = Free] /\ token' = None /\ kind' = NoKind
        /\ user' \in {UserLeft(s), None} /\ portal' \in {PortalLeft(s), None}
        /\ UNCHANGED <<waiting, listens, path, loads, server, faults>>
    BY <1>17 DEF LogoutArrives, Done
  <2>3. QED BY <1>0, <2>1, <2>2, LeftInv
<1>18. ASSUME NEW s \in Slots, PasswordArrives(s) PROVE IInv'
  <2>1. flight[s] # Free /\ flight[s].what = "PASSWORD" /\ (flight[s].answer = "OK" => ~Refused(s))
    BY <1>13, <1>18 DEF PasswordArrives, Whats
  <2>2. /\ token' = TokenLeft(s) /\ portal' = PortalLeft(s) /\ kind' = KindLeft(s)
        /\ UNCHANGED <<waiting, listens, path, loads, server, faults>>
    BY <1>18 DEF PasswordArrives
  <2>3. CASE flight' = [flight EXCEPT ![s] = Free] /\ user' \in {UserLeft(s), None}
    BY <1>0, <2>1, <2>2, <2>3, LeftInv
  <2>4. CASE /\ flight[s].answer = "OK" /\ user' = user
             /\ flight' = [flight EXCEPT ![s] = Asks("control-plane", token)]
    <3> DEFINE q == Asks("control-plane", token)
    <3>1. /\ q \in Requests /\ q.tok = token /\ q.answer = "PENDING"
          /\ q.what = "SESSION" /\ q.door = "control-plane"
      BY <1>0, HeldTyped, AsksTyped DEF Doors
    <3>2. token' = token /\ portal' = portal /\ kind' = kind
      BY <2>1, <2>2, <2>4, Left DEF KindLeft
    <3>3. ~Orphaned
      BY <2>1 DEF IInv, NobodyThere, Harmless
    <3>4. token' # None /\ kind' # NoKind => kind' = doors[token']
      BY <3>2 DEF IInv, KindIsTheTokens
    <3>5. portal' # None => doors[portal'] = "portal" /\ (overlapped \/ token' \in {None, portal'})
      BY <3>2 DEF IInv, InPortal
    <3>6. user \in Held /\ portal \in Held
      BY DEF IInv, Types
    <3> HIDE DEF q
    <3>7. flight' = [flight EXCEPT ![s] = q]
      BY <2>4 DEF q
    <3>8. QED
      BY <1>0, <2>1, <2>2, <2>4, <3>1, <3>2, <3>3, <3>4, <3>5, <3>6, <3>7, ArrivedInv DEF Orphaned
  <2>5. QED BY <1>18, <2>3, <2>4 DEF PasswordArrives, Done
<1>19. ASSUME NEW s \in Slots, PageArrives(s) PROVE IInv'
  <2>1. flight[s] # Free
    BY <1>13, <1>19 DEF PageArrives, Whats
  <2>2. QED BY <1>0, <1>19, <2>1, LeftInv DEF PageArrives, Done
<1>20. ASSUME NEW s \in Slots, ExchangeArrives(s) PROVE IInv'
  <2>1. /\ flight[s] # Free /\ flight[s].tok \in Held /\ flight[s].door \in Doors
        /\ flight[s].answer = "OK" => flight[s].tok # None /\ doors[flight[s].tok] = flight[s].door
    BY <1>13, <1>20 DEF ExchangeArrives, Whats
  <2>2. CASE flight[s].answer = "OK"
    BY <1>20, <2>1, <2>2, MountedInv DEF ExchangeArrives
  <2>3. CASE flight[s].answer # "OK"
    BY <1>0, <1>20, <2>1, <2>3, LeftInv DEF ExchangeArrives, Done
  <2>4. QED BY <2>2, <2>3
<1>21. QED
  BY <1>1, <1>2, <1>3, <1>4, <1>5, <1>6, <1>7, <1>8, <1>9, <1>11, <1>12, <1>14, <1>15, <1>16,
     <1>17, <1>18, <1>19, <1>20 DEF Step

\* A step that changes nothing keeps it.
LEMMA StutterIInv == IInv /\ UNCHANGED vars => IInv'
<1> SUFFICES ASSUME IInv, UNCHANGED vars PROVE IInv'
  OBVIOUS
<1>1. UNCHANGED <<tab, server, flight, faults, pageVars>>
  BY DEF vars
<1>2. Types'
  BY <1>1 DEF IInv, Types, tab, server, pageVars, Held, Issued
<1>3. Served' /\ Probing' /\ SigningIn' /\ InPortal' /\ KindIsTheTokens'
  BY <1>1
  DEF IInv, Served, Probing, SigningIn, InPortal, KindIsTheTokens, tab, server, pageVars
<1>4. NobodyThere'
  BY <1>1 DEF IInv, NobodyThere, Orphaned, Harmless, tab, server
<1>5. QED BY <1>2, <1>3, <1>4 DEF IInv

\* The first load of a tab that stores nothing.
LEMMA InitIInv == Init => IInv
<1> SUFFICES ASSUME Init PROVE IInv
  OBVIOUS
<1>1. PICK s \in Slots : flight = [r \in Slots |-> IF r = s THEN Asks(NoKind, None) ELSE Free]
  BY DEF Init
<1>2. /\ Asks(NoKind, None) \in Requests /\ Asks(NoKind, None).tok = None
      /\ Asks(NoKind, None).answer = "PENDING" /\ Asks(NoKind, None).what = "SESSION"
      /\ Asks(NoKind, None).door = "control-plane"
  BY AsksTyped DEF NoKind
<1>3. /\ token = None /\ kind = NoKind /\ user = None /\ portal = None
      /\ waiting \subseteq Doors /\ listens \in BOOLEAN /\ path = "APP"
      /\ submitting = {} /\ overlapped = FALSE
      /\ doors = <<>> /\ live = {} /\ loads = 0 /\ faults = 0
  BY DEF Init, Doors
<1>4. \A r \in Slots : flight[r] = IF r = s THEN Asks(NoKind, None) ELSE Free
  BY <1>1
<1>5. Types
  <2>1. flight \in [Slots -> Requests \cup {Free}]
    BY <1>1, <1>2
  <2>2. \A r \in Slots : flight[r].tok \in Held
    BY <1>2, <1>4, FreeFields DEF Held
  <2>3. doors \in Seq(Doors) /\ Len(doors) <= MaxSessions /\ loads \in 0..MaxLoads /\ faults \in 0..MaxFaults
    BY <1>3, TabAssumption
  <2>4. QED BY <1>3, <2>1, <2>2, <2>3 DEF Types, Held
<1>6. Served /\ Probing /\ SigningIn
  BY <1>2, <1>4, FreeFields DEF Served, Probing, SigningIn
<1>7. InPortal /\ NobodyThere /\ KindIsTheTokens
  BY <1>3 DEF InPortal, NobodyThere, Orphaned, KindIsTheTokens
<1>8. QED BY <1>5, <1>6, <1>7 DEF IInv

-----------------------------------------------------------------------------
\* The inductive invariant: what is in flight fits what the tab holds.
THEOREM InductiveInvariant == Spec => []IInv
<1>1. IInv /\ [Next]_vars => IInv'
  BY StepIInv, StutterIInv DEF Next
<1>2. QED BY <1>1, InitIInv, PTL DEF Spec

\* The types of sessionStorage, the providers' state and the requests, for any
\* number of slots, sessions, loads and failures.
THEOREM TypeCorrect == Spec => []TypeOK
BY InductiveInvariant, IInvTypes, PTL

\* The kind in sessionStorage is that of the token next to it (portal.tsx).
THEOREM KindsAgree == Spec => []KindIsTheTokens
<1>1. IInv => KindIsTheTokens
  BY DEF IInv
<1>2. QED BY <1>1, InductiveInvariant, PTL

\* No shell works with a token of the other plane (portal.tsx, session.tsx),
\* in whatever order answers come; only the portal's may, and only in a tab where
\* two sign-ins have been under way at once (LoginPage.tsx).
THEOREM PlanesStayApart == Spec => []PlanesKept
BY InductiveInvariant, IInvPlanes, PTL
=============================================================================
