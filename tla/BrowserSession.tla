--------------------------- MODULE BrowserSession ----------------------------
(***************************************************************************)
(* One tab of the web interface and its two kinds of session: the token    *)
(* and its kind in sessionStorage (lib/api.ts, lib/portal.tsx), the users  *)
(* the two providers hold (lib/session.tsx, lib/portal.tsx), and the shell *)
(* App.tsx picks from them.                                                *)
(*                                                                         *)
(* Requests are served and answered in any order: an answer finds the tab  *)
(* as it is by then, not as it was when the request was sent.  A reload    *)
(* drops what is in flight and starts again from sessionStorage.           *)
(***************************************************************************)
EXTENDS Integers, Sequences

CONSTANTS
  Slots,        \* requests in flight
  MaxSessions,  \* bound: sessions the API issues
  MaxLoads,     \* bound: times the tab is loaded
  MaxFaults     \* bound: requests that fail on the way or with a 5xx

ASSUME TabAssumption ==
  MaxSessions \in Nat /\ MaxLoads \in Nat /\ MaxFaults \in Nat

VARIABLES
  token,     \* what requests carry: sessionStorage 'scp.token', and its copy in memory
  kind,      \* sessionStorage 'scp.session-kind'
  user,      \* the session whose operator SessionProvider holds
  portal,    \* the session whose proxy user PortalProvider holds
  waiting,   \* which of the two providers are still loading
  listens,   \* PortalProvider has subscribed to `expired`
  path,      \* the page that was loaded
  flight,    \* requests under way
  submitting,  \* the sign-ins sent by the LoginPage that is shown
  overlapped,  \* history: two sign-ins have been in flight at once since the load
  doors,     \* the audiences of the sessions issued so far
  live,      \* those the API still accepts
  loads, faults

tab == <<token, kind, user, portal, waiting, listens, path, loads>>
server == <<doors, live>>
pageVars == <<submitting, overlapped>>
vars == <<tab, flight, pageVars, server, faults>>

-----------------------------------------------------------------------------
None == 0
NoKind == "NONE"
Doors == {"control-plane", "portal"}
Sessions == 1..MaxSessions
Issued == DOMAIN doors
Whats == {"SESSION", "ME", "LOGIN", "LOGOUT", "PASSWORD", "PAGE", "EXCHANGE"}
Answers == {"PENDING", "OK", "UNAUTHORIZED", "FAILED"}

Requests == [what : Whats, door : Doors, tok : Sessions \cup {None}, answer : Answers]
Free == [what |-> "PAGE", door |-> "portal", tok |-> None, answer |-> "FREE"]

TypeOK ==
  /\ token \in Issued \cup {None}
  /\ kind \in Doors \cup {NoKind}
  /\ user \in Issued \cup {None} /\ portal \in Issued \cup {None}
  /\ waiting \subseteq Doors
  /\ listens \in BOOLEAN
  /\ path \in {"APP", "CALLBACK"}
  /\ flight \in [Slots -> Requests \cup {Free}]
  /\ submitting \subseteq Slots /\ overlapped \in BOOLEAN
  /\ \E n \in 0..MaxSessions : doors \in [1..n -> Doors]
  /\ live \subseteq Issued
  /\ loads \in 0..MaxLoads /\ faults \in 0..MaxFaults

\* App.tsx: which shell the tab shows.
Shell ==
  IF waiting # {} THEN "SPINNER"
  ELSE IF path = "CALLBACK" THEN "CALLBACK"
  ELSE IF portal # None THEN "portal"
  ELSE IF user # None THEN "control-plane"
  ELSE "LOGIN"

-----------------------------------------------------------------------------
(* A load: both providers mount.  The stored kind decides which of them    *)
(* asks who is signed in, and whether the portal's hears of expiry at all. *)

AsksByKind(k, t) ==
  [what |-> IF k = "portal" THEN "ME" ELSE "SESSION", door |-> k, tok |-> t,
   answer |-> "PENDING"]

Asks(k, t) ==
  [what |-> IF k = "portal" THEN "ME" ELSE "SESSION",
   door |-> IF k = "portal" THEN "portal" ELSE "control-plane",
   tok |-> t, answer |-> "PENDING"]

Mounted(page, k, t) ==
  /\ loads < MaxLoads
  /\ loads' = loads + 1
  /\ path' = page
  /\ token' = t /\ kind' = k
  /\ user' = None /\ portal' = None
  /\ waiting' = {IF k = "portal" THEN "portal" ELSE "control-plane"}
  /\ listens' = (k = "portal")
  /\ \E s \in Slots : flight' = [r \in Slots |-> IF r = s THEN Asks(k, t) ELSE Free]

Init ==
  /\ token = None /\ kind = NoKind /\ user = None /\ portal = None
  /\ waiting = {"control-plane"} /\ listens = FALSE /\ path = "APP"
  /\ \E s \in Slots : flight = [r \in Slots |-> IF r = s THEN Asks(NoKind, None) ELSE Free]
  /\ submitting = {} /\ overlapped = FALSE
  /\ doors = <<>> /\ live = {} /\ loads = 0 /\ faults = 0

Reload ==
  /\ Mounted("APP", kind, token)
  /\ UNCHANGED <<server, faults>>

\* Continue with a provider: the tab leaves and comes back on the callback.
ReturnFromProvider ==
  /\ Shell = "LOGIN"
  /\ Mounted("CALLBACK", kind, token)
  /\ UNCHANGED <<server, faults>>

-----------------------------------------------------------------------------
(* What a person sets off.                                                 *)

Send(what, door) ==
  /\ \E s \in Slots :
       /\ flight[s] = Free
       /\ flight' = [flight EXCEPT ![s] =
                       [what |-> what, door |-> door, tok |-> token, answer |-> "PENDING"]]
  /\ UNCHANGED <<tab, server, faults>>

Under(what) == \E s \in Slots : flight[s].what = what /\ flight[s] # Free

\* The button is disabled while a sign-in of this LoginPage is under way.
SignIn(door) == Shell = "LOGIN" /\ submitting = {} /\ Send("LOGIN", door)

SignOut(door) == Shell = door /\ Send("LOGOUT", door)

\* The form's own flag goes with the form, which can be closed and opened.
ChangePassword(door) == Shell = door /\ Send("PASSWORD", door)

\* Any other request of a shell's pages.
Ask(door) == Shell = door /\ Send("PAGE", door)

\* The callback page exchanges its code once.
Exchange(door) == Shell = "CALLBACK" /\ ~Under("EXCHANGE") /\ Send("EXCHANGE", door)

-----------------------------------------------------------------------------
(* The API.                                                                *)

\* readPrincipal, readPortalPrincipal: a token opens its own audience only.
AcceptedAnywhere(t, door) == t \in live
Accepted(t, door) == t \in live /\ doors[t] = door

\* A sign-in may be refused, and so may a password change whose current
\* password is wrong: both answer 401.
MayRefuse(r) ==
  r.what \in {"LOGIN", "EXCHANGE", "PASSWORD"} \/ ~Accepted(r.tok, r.door)
MayServe(r) == r.what \in {"LOGIN", "EXCHANGE"} \/ Accepted(r.tok, r.door)

Issues(r) == r.what \in {"LOGIN", "EXCHANGE"}

\* The session a sign-in was answered with takes the place of its token.
Serve(s) ==
  /\ flight[s].answer = "PENDING"
  /\ MayServe(flight[s])
  /\ IF Issues(flight[s])
       THEN /\ Len(doors) < MaxSessions
            /\ doors' = Append(doors, flight[s].door)
            /\ live' = live \cup {Len(doors) + 1}
            /\ flight' = [flight EXCEPT ![s].answer = "OK", ![s].tok = Len(doors) + 1]
       ELSE /\ flight' = [flight EXCEPT ![s].answer = "OK"]
            /\ UNCHANGED server
  /\ UNCHANGED <<tab, faults>>

Refuse(s) ==
  /\ flight[s].answer = "PENDING"
  /\ MayRefuse(flight[s])
  /\ flight' = [flight EXCEPT ![s].answer = "UNAUTHORIZED"]
  /\ UNCHANGED <<tab, server, faults>>

Fail(s) ==
  /\ flight[s].answer = "PENDING"
  /\ faults < MaxFaults
  /\ faults' = faults + 1
  /\ flight' = [flight EXCEPT ![s].answer = "FAILED"]
  /\ UNCHANGED <<tab, server>>

\* A token runs out, or its account is disabled.
Expire(t) ==
  /\ t \in live
  /\ live' = live \ {t}
  /\ UNCHANGED <<tab, flight, doors, faults>>

-----------------------------------------------------------------------------
(* The answers.  api() deals with a 401 before its caller does: whatever   *)
(* token the request carried, the one held now is dropped, and whoever     *)
(* listens to `expired` forgets its user.                                  *)

Refused(s) == flight[s].answer = "UNAUTHORIZED"

TokenLeft(s) == IF Refused(s) THEN None ELSE token
UserLeft(s) == IF Refused(s) THEN None ELSE user
PortalLeft(s) == IF Refused(s) /\ listens THEN None ELSE portal
KindLeft(s) == IF Refused(s) /\ listens THEN NoKind ELSE kind

Arrived(s, what) == flight[s].what = what /\ flight[s].answer \in Answers \ {"PENDING"}
Done(s) == flight' = [flight EXCEPT ![s] = Free]

\* refresh(): on a load, and after a password change.
SessionArrives(s) ==
  /\ Arrived(s, "SESSION")
  /\ user' = IF flight[s].answer = "OK" THEN flight[s].tok ELSE None
  /\ token' = TokenLeft(s) /\ portal' = PortalLeft(s) /\ kind' = KindLeft(s)
  /\ waiting' = waiting \ {"control-plane"}
  /\ Done(s)
  /\ UNCHANGED <<listens, path, loads, server, faults>>

\* Any failure forgets the kind; the token goes with a 401 only.
MeArrives(s) ==
  /\ Arrived(s, "ME")
  /\ portal' = IF flight[s].answer = "OK" THEN flight[s].tok ELSE None
  /\ kind' = IF flight[s].answer = "OK" THEN kind ELSE NoKind
  /\ token' = TokenLeft(s) /\ user' = UserLeft(s)
  /\ waiting' = waiting \ {"portal"}
  /\ Done(s)
  /\ UNCHANGED <<listens, path, loads, server, faults>>

KindStoredOnce(s) == IF kind = NoKind THEN flight[s].door ELSE kind
KindStored(s) == flight[s].door

LoginArrives(s) ==
  /\ Arrived(s, "LOGIN")
  /\ IF flight[s].answer = "OK"
       THEN /\ token' = flight[s].tok
            /\ kind' = KindStored(s)
            /\ user' = IF flight[s].door = "control-plane" THEN flight[s].tok ELSE user
            /\ portal' = IF flight[s].door = "portal" THEN flight[s].tok ELSE portal
       ELSE /\ token' = TokenLeft(s) /\ kind' = KindLeft(s)
            /\ user' = UserLeft(s) /\ portal' = PortalLeft(s)
  /\ Done(s)
  /\ UNCHANGED <<waiting, listens, path, loads, server, faults>>

\* The `finally` of logout: however the request went.
LogoutArrives(s) ==
  /\ Arrived(s, "LOGOUT")
  /\ token' = None
  /\ kind' = NoKind
  /\ user' = IF flight[s].door = "control-plane" THEN None ELSE UserLeft(s)
  /\ portal' = IF flight[s].door = "portal" THEN None ELSE PortalLeft(s)
  /\ Done(s)
  /\ UNCHANGED <<waiting, listens, path, loads, server, faults>>

\* An operator whose password has changed asks for the session again, unless
\* the tab has become a portal's meanwhile.
PasswordArrives(s) ==
  /\ Arrived(s, "PASSWORD")
  /\ token' = TokenLeft(s) /\ portal' = PortalLeft(s) /\ kind' = KindLeft(s)
  /\ IF flight[s].answer = "OK" /\ flight[s].door = "control-plane"
       THEN IF kind = "portal"
              THEN user' = None /\ Done(s)
              ELSE user' = user /\ flight' = [flight EXCEPT ![s] = Asks("control-plane", token)]
       ELSE user' = UserLeft(s) /\ Done(s)
  /\ UNCHANGED <<waiting, listens, path, loads, server, faults>>

PageArrives(s) ==
  /\ Arrived(s, "PAGE")
  /\ token' = TokenLeft(s) /\ portal' = PortalLeft(s)
  /\ kind' = KindLeft(s) /\ user' = UserLeft(s)
  /\ Done(s)
  /\ UNCHANGED <<waiting, listens, path, loads, server, faults>>

\* The callback page stores the session and loads the application with it.
ExchangeArrives(s) ==
  /\ Arrived(s, "EXCHANGE")
  /\ IF flight[s].answer = "OK"
       THEN Mounted("APP", flight[s].door, flight[s].tok)
       ELSE /\ token' = TokenLeft(s) /\ portal' = PortalLeft(s)
            /\ kind' = KindLeft(s) /\ user' = UserLeft(s)
            /\ Done(s)
            /\ UNCHANGED <<waiting, listens, path, loads>>
  /\ UNCHANGED <<server, faults>>

Step ==
  \/ Reload \/ ReturnFromProvider
  \/ \E d \in Doors : SignIn(d) \/ SignOut(d) \/ ChangePassword(d) \/ Ask(d) \/ Exchange(d)
  \/ \E t \in Sessions : Expire(t)
  \/ \E s \in Slots :
       \/ Serve(s) \/ Refuse(s) \/ Fail(s)
       \/ SessionArrives(s) \/ MeArrives(s) \/ LoginArrives(s) \/ LogoutArrives(s)
       \/ PasswordArrives(s) \/ PageArrives(s) \/ ExchangeArrives(s)

-----------------------------------------------------------------------------
(* LoginPage's `submitting` is a state of the component: it is set by the  *)
(* sign-in it sends, cleared in its `finally`, and lost when App.tsx shows *)
(* something else.  A sign-in that is still under way then goes on.        *)

IsLogin(f) == f.what = "LOGIN"

Submitting(before, after) ==
  {s \in Slots : IsLogin(after[s]) /\ (s \in submitting \/ ~IsLogin(before[s]))}

Overlap(f) == \E r, s \in Slots : r # s /\ IsLogin(f[r]) /\ IsLogin(f[s])

LoginPage ==
  /\ submitting' = IF Shell' = "LOGIN" THEN Submitting(flight, flight') ELSE {}
  /\ overlapped' = (loads' = loads /\ (overlapped \/ Overlap(flight')))

Next == Step /\ LoginPage

Spec == Init /\ [][Next]_vars

-----------------------------------------------------------------------------
(* Properties.                                                             *)

\* The kind beside a token is the token's own, through every late answer: the
\* next load restores the shell the session belongs to (lib/portal.tsx).
KindIsTheTokens == token # None /\ kind # NoKind => kind = doors[token]

\* "No component can accidentally treat one as the other" (lib/portal.tsx): a
\* shell never works with a token of the other plane.  The code keeps this for
\* the operators' shell always, and for the portal's as long as no two sign-ins
\* are in flight at once.
PlanesKept ==
  Shell \in Doors /\ token # None =>
    doors[token] = Shell \/ (Shell = "portal" /\ overlapped)
=============================================================================
