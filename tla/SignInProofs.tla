---------------------------- MODULE SignInProofs ------------------------------
(***************************************************************************)
(* The two ways to sign in, for any number of people, providers and        *)
(* requests.  At the identity provider (SignIn) a state serves one         *)
(* session, and a door that was shut stays shut.  With a password          *)
(* (Providers) nobody is refused whom one provider would let in all the    *)
(* time.                                                                   *)
(***************************************************************************)
EXTENDS SignIn, Providers, TLAPS

\* A callback under way, and what a request to call back may be.
UnderWay ==
  [at : Stages, attempt : Attempts, row : Provider, who : People \cup {Nobody},
   username : Names, localUsername : Usernames, active : BOOLEAN]
CallbackType == UnderWay \cup {Idle}
AccountType == [there : {TRUE}, active : BOOLEAN, username : Usernames] \cup {NoAccount}
SessionNames == Usernames \cup {Elsewhere}
SessionType == [attempt : Attempts, door : Doors, who : People, username : SessionNames]
AttemptType == [at : {"UNUSED", "OPEN", "EXPIRED", "USED"}, door : Doors]

\* The claims were judged.
Judged(c) == callbacks[c].at \in {"ADMITTED", "KNOWN", "NEW", "NAMED"}

Types ==
  /\ provider \in Provider
  /\ holds \in [People -> SUBSET Doors] /\ prefers \in [People -> Names]
  /\ attempts \in [Attempts -> AttemptType]
  /\ callbacks \in [Callbacks -> CallbackType]
  /\ \A c \in Callbacks : Judged(c) => callbacks[c].who \in People
  /\ accounts \in [People -> AccountType]
  /\ sessions \subseteq SessionType
  /\ shut \subseteq Doors
  /\ edits \in 0..MaxEdits

\* A callback holds a state that nobody else will find again.
UsedUp == \A c \in Callbacks : callbacks[c] # Idle => attempts[callbacks[c].attempt].at = "USED"

\* A callback that will be let in works with a row that served its door, and
\* that door has not been shut since.
StillOpen ==
  \A c \in Callbacks :
    /\ Judged(c) => Door(c) \in callbacks[c].row.doors
    /\ HasLoaded(c) /\ Door(c) \in callbacks[c].row.doors => Door(c) \notin shut

IInv == Types /\ UsedUp /\ OneUseOfAState /\ StillOpen

-----------------------------------------------------------------------------
\* What a step may add to the doors that are shut.
LEMMA ShutsOnly ==
  ASSUME Shuts, shut \subseteq Doors
  PROVE  /\ shut' \subseteq Doors
         /\ \A d \in shut' : ~Serves(provider', d)
         /\ \A d \in shut' : d \notin shut =>
              \A c \in Callbacks : HasLoaded(c)' => Door(c)' # d
BY DEF Shuts, ShutNow

\* A record that is not Idle is a callback's.
LEMMA CallbackFields ==
  ASSUME NEW x \in CallbackType
  PROVE  /\ x # Idle <=> x.at \in Stages
         /\ x.at \in Stages =>
              /\ x \in UnderWay
              /\ x.attempt \in Attempts /\ x.row \in Provider
              /\ x.who \in People \cup {Nobody} /\ x.active \in BOOLEAN
              /\ x.username \in Names /\ x.localUsername \in Usernames
<1>1. CASE x = Idle
  BY <1>1 DEF Idle, Stages
<1>2. CASE x # Idle
  <2>1. x \in UnderWay
    BY <1>2 DEF CallbackType
  <2>2. QED BY <2>1, <1>2 DEF UnderWay
<1>3. QED BY <1>1, <1>2

\* Every name a person or the directory may use is a user name of the model.
LEMMA NamesTyped ==
  /\ Admin \in Usernames
  /\ \A n \in Names : Plain(n) \in Usernames /\ Qualified(n) \in Usernames
BY SignInAssumption DEF Admin, Plain, Qualified, Usernames

\* The initial states.
LEMMA InitIInv == Init => IInv
<1> SUFFICES ASSUME Init PROVE IInv
  OBVIOUS
<1>1. \A c \in Callbacks : callbacks[c] = Idle /\ callbacks[c].at = "IDLE"
  BY DEF Init, Idle
<1>2. Types
  <2>1. provider \in Provider
    BY DEF Init, Provider
  <2>2. attempts \in [Attempts -> AttemptType]
    BY DEF Init, AttemptType, Unused, Doors
  <2>3. callbacks \in [Callbacks -> CallbackType]
    BY DEF Init, CallbackType
  <2>4. \A c \in Callbacks : ~Judged(c)
    BY <1>1 DEF Judged
  <2>5. accounts \in [People -> AccountType]
    BY DEF Init, AccountType
  <2>6. edits \in 0..MaxEdits
    BY SignInAssumption DEF Init
  <2>7. QED BY <2>1, <2>2, <2>3, <2>4, <2>5, <2>6 DEF Init, Types
<1>3. UsedUp /\ OneUseOfAState
  BY <1>1 DEF Init, UsedUp, OneUseOfAState
<1>4. StillOpen
  BY <1>1 DEF StillOpen, Judged, HasLoaded, Stages
<1>5. QED BY <1>2, <1>3, <1>4 DEF IInv

-----------------------------------------------------------------------------
(* How one callback moves.                                                 *)

\* One callback takes a new value.
LEMMA OneMoves ==
  ASSUME IInv, NEW c \in Callbacks, NEW r \in CallbackType,
         callbacks' = [callbacks EXCEPT ![c] = r],
         r.at \in {"ADMITTED", "KNOWN", "NEW", "NAMED"} => r.who \in People
  PROVE  /\ callbacks' \in [Callbacks -> CallbackType]
         /\ callbacks'[c] = r
         /\ \A d \in Callbacks \ {c} : callbacks'[d] = callbacks[d]
         /\ \A d \in Callbacks : Judged(d)' => callbacks'[d].who \in People
<1>1. callbacks \in [Callbacks -> CallbackType]
  BY DEF IInv, Types
<1>2. /\ callbacks' \in [Callbacks -> CallbackType]
      /\ callbacks'[c] = r
      /\ \A d \in Callbacks \ {c} : callbacks'[d] = callbacks[d]
  BY <1>1
<1>3. ASSUME NEW d \in Callbacks, Judged(d)'
      PROVE  callbacks'[d].who \in People
  <2>1. CASE d = c
    BY <1>2, <1>3, <2>1 DEF Judged
  <2>2. CASE d # c
    BY <1>2, <1>3, <2>2 DEF Judged, IInv, Types
  <2>3. QED BY <2>1, <2>2
<1>4. QED BY <1>2, <1>3

\* It keeps its state, or is over; no session is given out.
LEMMA StateKept ==
  ASSUME IInv, NEW c \in Callbacks, NEW r \in CallbackType,
         callbacks' = [callbacks EXCEPT ![c] = r],
         callbacks[c] # Idle, r = Idle \/ r.attempt = callbacks[c].attempt,
         UNCHANGED <<attempts, sessions>>
  PROVE  UsedUp' /\ OneUseOfAState'
<1>1. \A d \in Callbacks : callbacks'[d] # Idle =>
        callbacks[d] # Idle /\ callbacks'[d].attempt = callbacks[d].attempt
  BY DEF IInv, Types
<1>2. UsedUp'
  BY <1>1 DEF IInv, UsedUp
<1>3. OneUseOfAState'
  BY <1>1 DEF IInv, OneUseOfAState
<1>4. QED BY <1>2, <1>3

\* It is over with a session.
LEMMA StateServed ==
  ASSUME IInv, NEW c \in Callbacks, NEW p \in People, NEW n \in SessionNames,
         callbacks' = [callbacks EXCEPT ![c] = Idle],
         callbacks[c] # Idle, sessions' = sessions \cup {Session(c, p, n)},
         attempts' = attempts
  PROVE  UsedUp' /\ OneUseOfAState' /\ Session(c, p, n) \in SessionType
<1> DEFINE a == callbacks[c].attempt
<1>1. /\ \A d \in Callbacks : callbacks'[d] # Idle => d # c /\ callbacks'[d] = callbacks[d]
      /\ a \in Attempts /\ attempts[a] \in AttemptType /\ attempts[a].at = "USED"
  BY CallbackFields DEF IInv, Types, UsedUp
<1>2. Session(c, p, n) = [attempt |-> a, door |-> attempts[a].door, who |-> p, username |-> n]
  BY DEF Session, Door
<1>3. attempts[a] = [at |-> "USED", door |-> attempts[a].door] /\ attempts[a].door \in Doors
  BY <1>1 DEF AttemptType
<1>4. UsedUp'
  BY <1>1 DEF IInv, UsedUp
<1>5. \A s \in sessions : s.attempt # a
  BY DEF IInv, OneUseOfAState
<1>6. \A s, t \in sessions' : s.attempt = t.attempt => s = t
  BY <1>2, <1>5 DEF IInv, OneUseOfAState
<1>7. \A s \in sessions' : attempts[s.attempt] = [at |-> "USED", door |-> s.door]
  <2>1. \A s \in sessions : attempts[s.attempt] = [at |-> "USED", door |-> s.door]
    BY DEF IInv, OneUseOfAState
  <2>2. Session(c, p, n).attempt = a /\ Session(c, p, n).door = attempts[a].door
    BY <1>2
  <2>3. attempts[Session(c, p, n).attempt] = [at |-> "USED", door |-> Session(c, p, n).door]
    BY <2>2, <1>3
  <2>4. QED BY <2>1, <2>3
<1>8. ASSUME NEW d \in Callbacks, callbacks'[d] # Idle
      PROVE  /\ \A s \in sessions' : s.attempt # callbacks'[d].attempt
             /\ \A e \in Callbacks \ {d} : callbacks'[e] # Idle =>
                  callbacks'[e].attempt # callbacks'[d].attempt
  BY <1>1, <1>2, <1>8 DEF IInv, OneUseOfAState
<1>9. OneUseOfAState'
  BY <1>6, <1>7, <1>8 DEF OneUseOfAState
<1>10. Session(c, p, n) \in SessionType
  BY <1>1, <1>2, <1>3 DEF SessionType
<1>11. QED BY <1>4, <1>9, <1>10

\* No callback moves, and used states stay as they are.
LEMMA NoneMoves ==
  ASSUME IInv, UNCHANGED <<callbacks, sessions>>,
         \A a \in Attempts : attempts[a].at = "USED" => attempts'[a] = attempts[a]
  PROVE  /\ UsedUp' /\ OneUseOfAState'
         /\ \A c \in Callbacks : callbacks[c] # Idle => Door(c)' = Door(c)
<1>1. \A c \in Callbacks : callbacks[c] # Idle =>
        /\ callbacks[c].attempt \in Attempts
        /\ attempts'[callbacks[c].attempt] = attempts[callbacks[c].attempt]
  BY CallbackFields DEF IInv, Types, UsedUp
<1>2. \A s \in sessions : s.attempt \in Attempts /\ attempts[s.attempt].at = "USED"
  <2>1. \A s \in sessions : s.attempt \in Attempts
    BY DEF IInv, Types, SessionType
  <2>2. \A s \in sessions : attempts[s.attempt] = [at |-> "USED", door |-> s.door]
    BY DEF IInv, OneUseOfAState
  <2>3. ASSUME NEW s \in sessions PROVE attempts[s.attempt].at = "USED"
    <3>1. attempts[s.attempt] = [at |-> "USED", door |-> s.door]
      BY <2>2
    <3>2. QED BY <3>1
  <2>4. QED BY <2>1, <2>3
<1>3. UsedUp'
  BY <1>1 DEF IInv, UsedUp
<1>4. OneUseOfAState'
  BY <1>2 DEF IInv, OneUseOfAState
<1>5. QED BY <1>1, <1>3, <1>4 DEF Door

\* Doors stay open for who has been judged by a row that served them.
LEMMA OpenKept ==
  ASSUME IInv, Shuts,
         \A c \in Callbacks :
           /\ Judged(c)' => Door(c)' \in callbacks'[c].row.doors
           /\ HasLoaded(c)' /\ Door(c)' \in callbacks'[c].row.doors =>
                \/ HasLoaded(c) /\ Door(c)' = Door(c) /\ callbacks'[c].row = callbacks[c].row
                \/ Serves(provider', Door(c)')
  PROVE  StillOpen' /\ shut' \subseteq Doors
<1>1. shut \subseteq Doors
  BY DEF IInv, Types
<1>2. ASSUME NEW c \in Callbacks, HasLoaded(c)', Door(c)' \in callbacks'[c].row.doors,
             Door(c)' \in shut'
      PROVE  FALSE
  <2>1. Door(c)' \in shut /\ ~Serves(provider', Door(c)')
    BY <1>1, <1>2, ShutsOnly
  <2>2. HasLoaded(c) /\ Door(c) \in callbacks[c].row.doors /\ Door(c) \in shut
    BY <1>2, <2>1
  <2>3. QED BY <2>2 DEF IInv, StillOpen
<1>3. QED BY <1>1, <1>2, ShutsOnly DEF StillOpen

\* A step that moves no callback.
LEMMA NoneMovesInv ==
  ASSUME IInv, Shuts, UNCHANGED <<callbacks, sessions>>,
         \A a \in Attempts : attempts[a].at = "USED" => attempts'[a] = attempts[a]
  PROVE  /\ UsedUp' /\ OneUseOfAState' /\ StillOpen'
         /\ shut' \subseteq Doors
<1>1. UsedUp' /\ OneUseOfAState' /\ \A c \in Callbacks : callbacks[c] # Idle => Door(c)' = Door(c)
  BY NoneMoves
<1>2. \A c \in Callbacks : callbacks[c] = Idle => ~Judged(c)' /\ ~HasLoaded(c)'
  BY DEF Judged, HasLoaded, Idle, Stages
<1>3. ASSUME NEW c \in Callbacks
      PROVE  /\ Judged(c)' => Door(c)' \in callbacks'[c].row.doors
             /\ HasLoaded(c)' => HasLoaded(c) /\ Door(c)' = Door(c) /\ callbacks'[c].row = callbacks[c].row
  <2>1. CASE callbacks[c] = Idle
    BY <1>2, <2>1
  <2>2. CASE callbacks[c] # Idle
    <3>1. Door(c)' = Door(c)
      BY <1>1, <2>2
    <3>2. QED BY <3>1 DEF IInv, StillOpen, Judged, HasLoaded
  <2>3. QED BY <2>1, <2>2
<1>4. StillOpen' /\ shut' \subseteq Doors
  BY <1>3, OpenKept
<1>5. QED BY <1>1, <1>4

\* A step that moves one callback and gives out no session: it is judged only by
\* a row that serves its door, and takes a row only when that row is enabled.
LEMMA OneMovesInv ==
  ASSUME IInv, Shuts, NEW c \in Callbacks, NEW r \in CallbackType,
         callbacks' = [callbacks EXCEPT ![c] = r],
         callbacks[c] # Idle, r = Idle \/ r.attempt = callbacks[c].attempt,
         UNCHANGED <<attempts, sessions>>,
         r.at \in {"ADMITTED", "KNOWN", "NEW", "NAMED"} =>
           r.who \in People /\ Door(c) \in r.row.doors,
         \/ r = Idle
         \/ r.row = callbacks[c].row /\ HasLoaded(c)
         \/ Door(c) \in r.row.doors => Serves(provider', Door(c))
  PROVE  /\ UsedUp' /\ OneUseOfAState' /\ StillOpen'
         /\ shut' \subseteq Doors
         /\ callbacks' \in [Callbacks -> CallbackType]
         /\ \A d \in Callbacks : Judged(d)' => callbacks'[d].who \in People
<1>1. UsedUp' /\ OneUseOfAState'
  BY StateKept
<1>2. /\ callbacks' \in [Callbacks -> CallbackType]
      /\ callbacks'[c] = r
      /\ \A d \in Callbacks \ {c} : callbacks'[d] = callbacks[d]
      /\ \A d \in Callbacks : Judged(d)' => callbacks'[d].who \in People
  BY OneMoves
<1>3. ASSUME NEW d \in Callbacks, d # c
      PROVE  /\ Judged(d)' => Door(d)' \in callbacks'[d].row.doors
             /\ HasLoaded(d)' => HasLoaded(d) /\ Door(d)' = Door(d) /\ callbacks'[d].row = callbacks[d].row
  <2>1. callbacks'[d] = callbacks[d] /\ Door(d)' = Door(d)
    BY <1>2, <1>3 DEF Door
  <2>2. QED BY <2>1 DEF IInv, StillOpen, Judged, HasLoaded
<1>4. /\ Judged(c)' => Door(c)' \in callbacks'[c].row.doors
      /\ HasLoaded(c)' /\ Door(c)' \in callbacks'[c].row.doors =>
           \/ HasLoaded(c) /\ Door(c)' = Door(c) /\ callbacks'[c].row = callbacks[c].row
           \/ Serves(provider', Door(c)')
  <2>1. CASE r = Idle
    BY <1>2, <2>1 DEF Judged, HasLoaded, Idle, Stages
  <2>2. CASE r # Idle
    <3>1. Door(c)' = Door(c)
      BY <1>2, <2>2 DEF Door
    <3>2. Judged(c)' => Door(c)' \in callbacks'[c].row.doors
      BY <1>2, <3>1 DEF Judged
    <3>3. QED BY <1>2, <2>2, <3>1, <3>2
  <2>3. QED BY <2>1, <2>2
<1>5. StillOpen' /\ shut' \subseteq Doors
  BY <1>3, <1>4, OpenKept
<1>6. QED BY <1>1, <1>2, <1>5

\* A step that ends one callback with a session.
LEMMA ServedInv ==
  ASSUME IInv, Shuts, NEW c \in Callbacks, NEW p \in People, NEW n \in SessionNames,
         callbacks' = [callbacks EXCEPT ![c] = Idle], callbacks[c] # Idle,
         sessions' = sessions \cup {Session(c, p, n)}, attempts' = attempts
  PROVE  /\ UsedUp' /\ OneUseOfAState' /\ StillOpen'
         /\ shut' \subseteq Doors
         /\ sessions' \subseteq SessionType
         /\ callbacks' \in [Callbacks -> CallbackType]
         /\ \A d \in Callbacks : Judged(d)' => callbacks'[d].who \in People
<1>1. UsedUp' /\ OneUseOfAState' /\ Session(c, p, n) \in SessionType
  BY StateServed
<1>2. Idle \in CallbackType /\ Idle.at = "IDLE"
  BY DEF CallbackType, Idle
<1>3. /\ callbacks' \in [Callbacks -> CallbackType]
      /\ callbacks'[c] = Idle
      /\ \A d \in Callbacks \ {c} : callbacks'[d] = callbacks[d]
      /\ \A d \in Callbacks : Judged(d)' => callbacks'[d].who \in People
  BY <1>2, OneMoves
<1>4. ASSUME NEW d \in Callbacks
      PROVE  /\ Judged(d)' => Door(d)' \in callbacks'[d].row.doors
             /\ HasLoaded(d)' => HasLoaded(d) /\ Door(d)' = Door(d) /\ callbacks'[d].row = callbacks[d].row
  <2>1. CASE d = c
    BY <1>2, <1>3, <2>1 DEF Judged, HasLoaded, Stages
  <2>2. CASE d # c
    <3>1. callbacks'[d] = callbacks[d] /\ Door(d)' = Door(d)
      BY <1>3, <2>2 DEF Door
    <3>2. QED BY <3>1 DEF IInv, StillOpen, Judged, HasLoaded
  <2>3. QED BY <2>1, <2>2
<1>5. StillOpen' /\ shut' \subseteq Doors
  BY <1>4, OpenKept
<1>6. QED BY <1>1, <1>3, <1>5 DEF IInv, Types

-----------------------------------------------------------------------------
(* Every action.                                                           *)

\* What a callback that is not idle looks like.
LEMMA Fields ==
  ASSUME IInv, NEW c \in Callbacks, callbacks[c].at \in Stages
  PROVE  /\ callbacks[c] \in UnderWay /\ callbacks[c] \in CallbackType /\ callbacks[c] # Idle
BY CallbackFields DEF IInv, Types

\* Every step keeps the invariant, an action at a time.
LEMMA StepIInv == IInv /\ [Next]_vars => IInv'
<1> SUFFICES ASSUME IInv, [Next]_vars PROVE IInv'
  OBVIOUS
<1> USE DEF directory
<1>1. ASSUME NEW a \in Attempts, NEW d \in Doors, Start(a, d) PROVE IInv'
  <2>1. attempts' \in [Attempts -> AttemptType]
    BY <1>1 DEF Start, IInv, Types, AttemptType
  <2>2. \A b \in Attempts : attempts[b].at = "USED" => attempts'[b] = attempts[b]
    BY <1>1 DEF Start, IInv, Types, Unused
  <2>3. UsedUp' /\ OneUseOfAState' /\ StillOpen' /\ shut' \subseteq Doors
    BY <1>1, <2>2, NoneMovesInv DEF Start
  <2>4. QED BY <1>1, <2>1, <2>3 DEF Start, IInv, Types, Judged
<1>2. ASSUME NEW a \in Attempts, Expire(a) PROVE IInv'
  <2>1. attempts' \in [Attempts -> AttemptType]
    BY <1>2 DEF Expire, IInv, Types, AttemptType
  <2>2. \A b \in Attempts : attempts[b].at = "USED" => attempts'[b] = attempts[b]
    BY <1>2 DEF Expire, IInv, Types
  <2>3. UsedUp' /\ OneUseOfAState' /\ StillOpen' /\ shut' \subseteq Doors
    BY <1>2, <2>2, NoneMovesInv DEF Expire
  <2>4. QED BY <1>2, <2>1, <2>3 DEF Expire, IInv, Types, Judged
<1>3. ASSUME NEW c \in Callbacks, NEW a \in Attempts, Consume(c, a) PROVE IInv'
  <2> DEFINE r == [at |-> "CONSUMED", attempt |-> a, row |-> provider, who |-> Nobody,
                   username |-> LocalName, localUsername |-> Admin, active |-> FALSE]
  <2>1. r \in CallbackType
    BY SignInAssumption, NamesTyped DEF CallbackType, UnderWay, Stages, IInv, Types
  <2>2. callbacks' = [callbacks EXCEPT ![c] = r] /\ callbacks[c] = Idle
    BY <1>3 DEF Consume
  <2>3. /\ callbacks' \in [Callbacks -> CallbackType]
        /\ callbacks'[c] = r
        /\ \A d \in Callbacks \ {c} : callbacks'[d] = callbacks[d]
        /\ \A d \in Callbacks : Judged(d)' => callbacks'[d].who \in People
    BY <2>1, <2>2, OneMoves
  <2>4. r.at = "CONSUMED" /\ r.attempt = a
    OBVIOUS
  <2> HIDE DEF r
  <2>5. /\ attempts' \in [Attempts -> AttemptType]
        /\ attempts[a].at = "OPEN" /\ attempts'[a].at = "USED"
        /\ \A b \in Attempts \ {a} : attempts'[b] = attempts[b]
        /\ sessions' = sessions
    BY <1>3 DEF Consume, Consumed, IInv, Types, AttemptType
  <2>6. \A d \in Callbacks \ {c} : callbacks[d] # Idle =>
          /\ callbacks[d].attempt \in Attempts /\ callbacks[d].attempt # a
          /\ attempts'[callbacks[d].attempt] = attempts[callbacks[d].attempt]
    BY <2>5, CallbackFields DEF IInv, Types, UsedUp
  <2>7. \A s \in sessions : s.attempt \in Attempts /\ s.attempt # a
    <3>1. \A s \in sessions : s.attempt \in Attempts
      BY DEF IInv, Types, SessionType
    <3>2. ASSUME NEW s \in sessions PROVE s.attempt # a
      <4>1. attempts[s.attempt] = [at |-> "USED", door |-> s.door]
        BY DEF IInv, OneUseOfAState
      <4>2. attempts[s.attempt].at = "USED"
        BY <4>1
      <4>3. QED BY <4>2, <2>5
    <3>3. QED BY <3>1, <3>2
  <2>8. UsedUp'
    BY <2>3, <2>4, <2>5, <2>6 DEF IInv, UsedUp
  <2>9. OneUseOfAState'
    <3>1. \A s, t \in sessions' : s.attempt = t.attempt => s = t
      BY <2>5 DEF IInv, OneUseOfAState
    <3>2. \A s \in sessions' : attempts'[s.attempt] = [at |-> "USED", door |-> s.door]
      BY <2>5, <2>7 DEF IInv, OneUseOfAState
    <3>3. ASSUME NEW d \in Callbacks, callbacks'[d] # Idle
          PROVE  /\ \A s \in sessions' : s.attempt # callbacks'[d].attempt
                 /\ \A e \in Callbacks \ {d} : callbacks'[e] # Idle =>
                      callbacks'[e].attempt # callbacks'[d].attempt
      BY <2>3, <2>4, <2>5, <2>6, <2>7, <3>3 DEF IInv, OneUseOfAState
    <3>4. QED BY <3>1, <3>2, <3>3 DEF OneUseOfAState
  <2>10. ASSUME NEW d \in Callbacks
         PROVE  /\ Judged(d)' => Door(d)' \in callbacks'[d].row.doors
                /\ HasLoaded(d)' => HasLoaded(d) /\ Door(d)' = Door(d) /\ callbacks'[d].row = callbacks[d].row
    <3>1. CASE d = c
      BY <2>3, <2>4, <3>1 DEF Judged, HasLoaded
    <3>2. CASE d # c /\ callbacks[d] # Idle
      <4>1. callbacks'[d] = callbacks[d] /\ Door(d)' = Door(d)
        BY <2>3, <2>6, <3>2 DEF Door
      <4>2. QED BY <4>1 DEF IInv, StillOpen, Judged, HasLoaded
    <3>3. CASE d # c /\ callbacks[d] = Idle
      BY <2>3, <3>3 DEF Judged, HasLoaded, Idle, Stages
    <3>4. QED BY <3>1, <3>2, <3>3
  <2>11. StillOpen' /\ shut' \subseteq Doors
    BY <1>3, <2>10, OpenKept DEF Consume
  <2>12. QED BY <1>3, <2>3, <2>5, <2>8, <2>9, <2>11 DEF Consume, IInv, Types
<1>4. ASSUME NEW c \in Callbacks, LoadProvider(c) PROVE IInv'
  <2> DEFINE r == IF MayLoad(provider) THEN [callbacks[c] EXCEPT !.at = "LOADED", !.row = provider] ELSE Idle
  <2>1. callbacks' = [callbacks EXCEPT ![c] = r]
    BY <1>4 DEF LoadProvider
  <2>2. callbacks[c] # Idle
    BY <1>4 DEF LoadProvider, Idle
  <2>3. callbacks[c].at \in Stages
    BY <1>4 DEF LoadProvider, Stages
  <2>4. r \in CallbackType /\ (r = Idle \/ (r.attempt = callbacks[c].attempt /\ r.at = "LOADED" /\ r.row = provider))
    BY <2>3, Fields DEF CallbackType, UnderWay, Stages, IInv, Types
  <2>5. r = Idle \/ (Door(c) \in r.row.doors => Serves(provider', Door(c)))
    BY <1>4, <2>4 DEF LoadProvider, MayLoad, Serves, Idle
  <2>6. r.at \notin {"ADMITTED", "KNOWN", "NEW", "NAMED"}
    BY <2>4 DEF Idle
  <2> HIDE DEF r
  <2>7. QED
    BY <1>4, <2>1, <2>2, <2>4, <2>5, <2>6, OneMovesInv DEF LoadProvider, IInv, Types
<1>5. ASSUME NEW c \in Callbacks, NEW p \in People, Exchange(c, p) PROVE IInv'
  <2> DEFINE admitted == Door(c) \in callbacks[c].row.doors /\ Admits(callbacks[c].row, Door(c), p)
             portal == Door(c) = "proxy-portal"
             r == IF admitted /\ ~portal
                    THEN [callbacks[c] EXCEPT !.at = "ADMITTED", !.who = p, !.username = prefers[p]]
                    ELSE Idle
  <2>1. /\ callbacks' = [callbacks EXCEPT ![c] = r]
        /\ sessions' = IF admitted /\ portal THEN sessions \cup {Session(c, p, Elsewhere)}
                                              ELSE sessions
    BY <1>5 DEF Exchange
  <2>2. callbacks[c].at \in Stages /\ callbacks[c] # Idle /\ HasLoaded(c)
    BY <1>5 DEF Exchange, Stages, Idle, HasLoaded
  <2>3. CASE admitted /\ portal
    <3>1. r = Idle /\ sessions' = sessions \cup {Session(c, p, Elsewhere)}
          /\ Elsewhere \in SessionNames
      BY <2>1, <2>3 DEF SessionNames
    <3> HIDE DEF r, admitted, portal
    <3>2. QED BY <1>5, <2>1, <2>2, <3>1, ServedInv DEF Exchange, IInv, Types
  <2>4. CASE ~(admitted /\ portal)
    <3>1. sessions' = sessions
      BY <2>1, <2>4
    <3>2. r \in CallbackType /\
          (r = Idle \/ (/\ r.attempt = callbacks[c].attempt /\ r.row = callbacks[c].row
                       /\ r.who = p /\ Door(c) \in r.row.doors))
      BY <2>2, Fields DEF CallbackType, UnderWay, Stages, IInv, Types
    <3> HIDE DEF r, admitted, portal
    <3>3. Idle.at = "IDLE"
      BY DEF Idle
    <3>4. /\ r.at \in {"ADMITTED", "KNOWN", "NEW", "NAMED"} => r.who \in People /\ Door(c) \in r.row.doors
          /\ r = Idle \/ (r.attempt = callbacks[c].attempt /\ r.row = callbacks[c].row /\ HasLoaded(c))
      BY <2>2, <3>2, <3>3
    <3>5. Shuts /\ UNCHANGED <<provider, holds, prefers, attempts, accounts, sessions, edits>>
      BY <1>5, <3>1 DEF Exchange
    <3>6. /\ UsedUp' /\ OneUseOfAState' /\ StillOpen' /\ shut' \subseteq Doors
          /\ callbacks' \in [Callbacks -> CallbackType]
          /\ \A d \in Callbacks : Judged(d)' => callbacks'[d].who \in People
      BY <2>1, <2>2, <3>2, <3>4, <3>5, OneMovesInv
    <3>7. QED
      BY <3>5, <3>6 DEF IInv, Types
  <2>5. QED BY <2>3, <2>4
<1>6. ASSUME NEW c \in Callbacks, Abandon(c) PROVE IInv'
  <2>1. Idle \in CallbackType /\ Idle.at = "IDLE" /\ callbacks[c] # Idle
    BY <1>6 DEF CallbackType, Idle, Abandon
  <2>2. QED BY <1>6, <2>1, OneMovesInv DEF Abandon, IInv, Types
<1>7. ASSUME NEW c \in Callbacks, Look(c) PROVE IInv'
  <2> DEFINE row == accounts[callbacks[c].who]
             r == IF row.there THEN [callbacks[c] EXCEPT !.at = "KNOWN", !.active = row.active]
                               ELSE [callbacks[c] EXCEPT !.at = "NEW"]
  <2>1. callbacks' = [callbacks EXCEPT ![c] = r]
    BY <1>7 DEF Look
  <2>2. callbacks[c].at \in Stages /\ callbacks[c] # Idle /\ HasLoaded(c) /\ Judged(c)
    BY <1>7 DEF Look, Stages, Idle, HasLoaded, Judged
  <2>3. callbacks[c].who \in People /\ Door(c) \in callbacks[c].row.doors
    BY <2>2 DEF IInv, Types, StillOpen
  <2>4. row.there => row.active \in BOOLEAN
    <3>1. row \in AccountType
      BY <2>3 DEF IInv, Types
    <3>2. CASE row = NoAccount
      BY <3>2 DEF NoAccount
    <3>3. CASE row \in [there : {TRUE}, active : BOOLEAN, username : Usernames]
      BY <3>3
    <3>4. QED BY <3>1, <3>2, <3>3 DEF AccountType
  <2>5. /\ r \in CallbackType /\ r.attempt = callbacks[c].attempt
        /\ r.row = callbacks[c].row /\ r.who = callbacks[c].who
    BY <2>2, <2>4, Fields DEF CallbackType, UnderWay, Stages
  <2> HIDE DEF r, row
  <2>6. QED BY <1>7, <2>1, <2>2, <2>3, <2>5, OneMovesInv DEF Look, IInv, Types
<1>8. ASSUME NEW c \in Callbacks, Name(c) PROVE IInv'
  <2> DEFINE n == callbacks[c].username
             u == IF Plain(n) \in Taken THEN Qualified(n) ELSE Plain(n)
             r == [callbacks[c] EXCEPT !.at = "NAMED", !.localUsername = u]
  <2>1. callbacks' = [callbacks EXCEPT ![c] = r]
    BY <1>8 DEF Name, IInv, Types
  <2>2. callbacks[c].at \in Stages /\ callbacks[c] # Idle /\ HasLoaded(c) /\ Judged(c)
    BY <1>8 DEF Name, Stages, Idle, HasLoaded, Judged
  <2>3. callbacks[c].who \in People /\ Door(c) \in callbacks[c].row.doors
    BY <2>2 DEF IInv, Types, StillOpen
  <2>4. u \in Usernames
    BY <2>2, Fields, NamesTyped DEF UnderWay
  <2> HIDE DEF u, n
  <2>5. /\ r \in CallbackType /\ r.attempt = callbacks[c].attempt
        /\ r.row = callbacks[c].row /\ r.who = callbacks[c].who
    BY <2>2, <2>4, Fields DEF CallbackType, UnderWay, Stages
  <2> HIDE DEF r
  <2>6. QED BY <1>8, <2>1, <2>2, <2>3, <2>5, OneMovesInv DEF Name, IInv, Types
<1>9. ASSUME NEW c \in Callbacks, Insert(c) PROVE IInv'
  <2> DEFINE q == callbacks[c].who
             row == [there |-> TRUE, active |-> TRUE, username |-> callbacks[c].localUsername]
             r == IF Unique(c) THEN [callbacks[c] EXCEPT !.at = "KNOWN", !.active = TRUE] ELSE Idle
  <2>1. callbacks' = [callbacks EXCEPT ![c] = r]
    BY <1>9 DEF Insert, IInv, Types
  <2>2. callbacks[c].at \in Stages /\ callbacks[c] # Idle /\ HasLoaded(c) /\ Judged(c)
    BY <1>9 DEF Insert, Stages, Idle, HasLoaded, Judged
  <2>3. callbacks[c].who \in People /\ Door(c) \in callbacks[c].row.doors
    BY <2>2 DEF IInv, Types, StillOpen
  <2>4. r \in CallbackType /\
        (r = Idle \/ (/\ r.attempt = callbacks[c].attempt /\ r.row = callbacks[c].row
                     /\ r.who = callbacks[c].who))
    BY <2>2, Fields DEF CallbackType, UnderWay, Stages
  <2>5. Idle.at = "IDLE"
    BY DEF Idle
  <2>6. accounts' \in [People -> AccountType]
    <3>1. CASE Unique(c)
      <4>1. row \in AccountType
        BY <2>2, Fields DEF AccountType, UnderWay
      <4>2. accounts' = [accounts EXCEPT ![q] = row]
        BY <1>9, <3>1 DEF Insert
      <4> HIDE DEF row, r, q
      <4>3. QED BY <4>1, <4>2 DEF IInv, Types
    <3>2. CASE ~Unique(c)
      BY <1>9, <3>2 DEF Insert, IInv, Types
    <3>3. QED BY <3>1, <3>2
  <2> HIDE DEF r, row, q
  <2>7. QED BY <1>9, <2>1, <2>2, <2>3, <2>4, <2>5, <2>6, OneMovesInv DEF Insert, IInv, Types
<1>10. ASSUME NEW c \in Callbacks, Issue(c) PROVE IInv'
  <2>1. Idle \in CallbackType /\ Idle.at = "IDLE"
    BY DEF CallbackType, Idle
  <2>2. callbacks[c] # Idle /\ callbacks[c].who \in People
    BY <1>10 DEF Issue, Idle, Judged, IInv, Types
  <2>3. CASE callbacks[c].active
    <3>1. /\ sessions' = sessions \cup {Session(c, callbacks[c].who, Plain(callbacks[c].username))}
          /\ Plain(callbacks[c].username) \in SessionNames
      BY <1>10, <2>3, Fields, NamesTyped DEF Issue, UnderWay, Stages, SessionNames
    <3>2. QED BY <1>10, <2>2, <3>1, ServedInv DEF Issue, IInv, Types
  <2>4. CASE ~callbacks[c].active
    <3>1. sessions' = sessions
      BY <1>10, <2>4 DEF Issue
    <3>2. QED BY <1>10, <2>1, <2>2, <3>1, OneMovesInv DEF Issue, IInv, Types
  <2>5. QED BY <2>3, <2>4
<1>11. ASSUME NEW e \in BOOLEAN, NEW ds \in SUBSET Doors, NEW dm \in SUBSET Doors,
              PatchProvider(e, ds, dm)
       PROVE  IInv'
  <2>1. provider' \in Provider
    BY <1>11 DEF PatchProvider, Patched, IInv, Types, Provider
  <2>2. UsedUp' /\ OneUseOfAState' /\ StillOpen' /\ shut' \subseteq Doors
    BY <1>11, NoneMovesInv DEF PatchProvider
  <2>3. edits' \in 0..MaxEdits
    BY <1>11, SignInAssumption DEF PatchProvider, Edits, IInv, Types
  <2>4. QED BY <1>11, <2>1, <2>2, <2>3 DEF PatchProvider, IInv, Types, Judged
<1>12. ASSUME DeleteProvider PROVE IInv'
  <2>1. provider' \in Provider
    BY <1>12 DEF DeleteProvider, IInv, Types, Provider
  <2>2. attempts' \in [Attempts -> AttemptType]
    BY <1>12 DEF DeleteProvider, IInv, Types, AttemptType
  <2>3. \A b \in Attempts : attempts[b].at = "USED" => attempts'[b] = attempts[b]
    BY <1>12 DEF DeleteProvider, IInv, Types
  <2>4. UsedUp' /\ OneUseOfAState' /\ StillOpen' /\ shut' \subseteq Doors
    BY <1>12, <2>3, NoneMovesInv DEF DeleteProvider
  <2>5. edits' \in 0..MaxEdits
    BY <1>12, SignInAssumption DEF DeleteProvider, Edits, IInv, Types
  <2>6. QED BY <1>12, <2>1, <2>2, <2>4, <2>5 DEF DeleteProvider, IInv, Types, Judged
<1>13. ASSUME NEW p \in People, DirectoryChanges(p) PROVE IInv'
  <2>1. holds' \in [People -> SUBSET Doors] /\ prefers' \in [People -> Names]
    BY <1>13 DEF DirectoryChanges, IInv, Types
  <2>2. UsedUp' /\ OneUseOfAState' /\ StillOpen' /\ shut' \subseteq Doors
    BY <1>13, NoneMovesInv DEF DirectoryChanges
  <2>3. edits' \in 0..MaxEdits
    BY <1>13, SignInAssumption DEF DirectoryChanges, Edits, IInv, Types
  <2>4. QED BY <1>13, <2>1, <2>2, <2>3 DEF DirectoryChanges, IInv, Types, Judged
<1>14. ASSUME NEW p \in People, NEW b \in BOOLEAN, SetStatus(p, b) PROVE IInv'
  <2> DEFINE row == [accounts[p] EXCEPT !.active = b]
  <2>1. accounts[p].there /\ accounts' = [accounts EXCEPT ![p] = row]
    BY <1>14 DEF SetStatus, IInv, Types
  <2>2. row \in AccountType
    BY <2>1 DEF IInv, Types, AccountType, NoAccount
  <2> HIDE DEF row
  <2>3. accounts' \in [People -> AccountType]
    BY <2>1, <2>2 DEF IInv, Types
  <2>4. UsedUp' /\ OneUseOfAState' /\ StillOpen' /\ shut' \subseteq Doors
    BY <1>14, NoneMovesInv DEF SetStatus
  <2>5. edits' \in 0..MaxEdits
    BY <1>14, SignInAssumption DEF SetStatus, Edits, IInv, Types
  <2>6. QED BY <1>14, <2>3, <2>4, <2>5 DEF SetStatus, IInv, Types, Judged
<1>15. CASE UNCHANGED vars
  <2>1. IInv' <=> IInv
    BY <1>15 DEF vars, IInv, Types, Judged, UsedUp, OneUseOfAState, StillOpen,
       Door, HasLoaded
  <2>2. QED BY <2>1
<1>16. QED
  BY <1>1, <1>2, <1>3, <1>4, <1>5, <1>6, <1>7, <1>8, <1>9, <1>10, <1>11, <1>12, <1>13,
     <1>14, <1>15 DEF Next

-----------------------------------------------------------------------------
\* The inductive invariant: what a callback holds, and what it may still do.
THEOREM InductiveInvariant == Spec => []IInv
BY InitIInv, StepIInv, PTL DEF Spec

\* The invariant implies the types.
LEMMA IInvTypes == IInv => TypeOK
<1> SUFFICES ASSUME IInv PROVE TypeOK
  OBVIOUS
<1>1. \A c \in Callbacks : callbacks[c] = Idle \/
        /\ callbacks[c].at \in Stages /\ callbacks[c].attempt \in Attempts
        /\ callbacks[c].row \in Provider /\ callbacks[c].who \in People \cup {Nobody}
        /\ callbacks[c].username \in Names /\ callbacks[c].localUsername \in Usernames
        /\ callbacks[c].active \in BOOLEAN
  BY CallbackFields DEF IInv, Types
<1>2. \A p \in People : accounts[p] = NoAccount \/
        accounts[p] \in [there : {TRUE}, active : BOOLEAN, username : Usernames]
  BY DEF IInv, Types, AccountType
<1>3. QED BY <1>1, <1>2 DEF IInv, Types, TypeOK, AttemptType, SessionType, SessionNames

\* The types of routes/oidc.ts's rows and of the callbacks under way, for any
\* number of people, states, callbacks and edits.
THEOREM TypeCorrect == Spec => []TypeOK
BY InductiveInvariant, IInvTypes, PTL

\* A state buys at most one session, at the door it was issued for
\* (oidc.ts:337).
THEOREM StatesAreUsedOnce == Spec => []OneUseOfAState
<1>1. IInv => OneUseOfAState
  BY DEF IInv
<1>2. QED BY <1>1, InductiveInvariant, PTL

\* A callback gives out a session only at a door it was judged for.
LEMMA StepHolds == IInv /\ [Next]_vars => \A s \in sessions' \ sessions : s.door \notin shut
<1> SUFFICES ASSUME IInv, [Next]_vars, NEW s \in sessions' \ sessions PROVE s.door \notin shut
  OBVIOUS
<1>1. ASSUME NEW c \in Callbacks, NEW p \in People, Exchange(c, p) PROVE s.door \notin shut
  <2>1. s = Session(c, p, Elsewhere) /\ Door(c) \in callbacks[c].row.doors /\ HasLoaded(c)
    BY <1>1 DEF Exchange, HasLoaded, Stages
  <2>2. s.door = Door(c)
    BY <2>1 DEF Session
  <2>3. QED BY <2>1, <2>2 DEF IInv, StillOpen
<1>2. ASSUME NEW c \in Callbacks, Issue(c) PROVE s.door \notin shut
  <2>1. s = Session(c, callbacks[c].who, Plain(callbacks[c].username)) /\ HasLoaded(c) /\ Judged(c)
    BY <1>2 DEF Issue, HasLoaded, Judged, Stages
  <2>2. s.door = Door(c)
    BY <2>1 DEF Session
  <2>3. QED BY <2>1, <2>2 DEF IInv, StillOpen
<1>3. CASE sessions' = sessions
  BY <1>3
<1>4. QED
  BY <1>1, <1>2, <1>3 DEF Next, vars, directory, Start, Expire, Consume, LoadProvider, Abandon, Look,
     Name, Insert, PatchProvider, DeleteProvider, DirectoryChanges, SetStatus

\* A door an administrator has closed lets nobody in once the callbacks behind
\* it are over (oidc.ts:345).
THEOREM ShutDoorsHold == Spec => ShutDoorHolds
<1>1. IInv /\ [Next]_vars => [\A s \in sessions' \ sessions : s.door \notin shut]_vars
  BY StepHolds
<1>2. QED BY <1>1, InductiveInvariant, PTL DEF Spec, ShutDoorHolds

-----------------------------------------------------------------------------
(* Signing in with a password: the providers are asked one after the       *)
(* other.                                                                  *)

\* Types, as far as sign-ins need them.
ProviderRow == [state : {"NEW", "THERE", "GONE"}, enabled : BOOLEAN, right : BOOLEAN]
SignInsUnderWay ==
  [at : {"ASKING"}, adapters : SUBSET Providers, places : Orders, copy : [Providers -> ProviderRow],
   found : BOOLEAN, vouch : SUBSET Providers]

\* Whoever has been ready all the time has yet to be asked, and was ready with
\* the row the request works with; only a directory is asked in two steps.
InHand(c) ==
  /\ c \in SignInsUnderWay
  /\ c.vouch \subseteq c.adapters
  /\ \A p \in c.vouch : c.copy[p].enabled /\ (p # Local => c.copy[p].right)
  /\ c.found => First(c.adapters, c.places) # Local
Chain(c) ==
  \/ InHand(c)
  \/ c = Inactive \/ c.at = "SIGNED_IN" \/ (c.at = "REFUSED" /\ c.vouch = {})

ProvidersInv ==
  /\ rows \in [Providers -> ProviderRow] /\ order \in Orders
  /\ patch # Inactive => patch.row \in ProviderRow
  /\ signins = [s \in SignIns |-> signins[s]]
  /\ \A s \in SignIns : Chain(signins[s])

\* The history of a step: what is left of those ready all the time.
Narrowed(c, ready) == IF c.at = "ASKING" THEN [c EXCEPT !.vouch = @ \cap ready] ELSE c

\* A request that asks is in hand.
LEMMA AskingInHand == \A c : Chain(c) /\ c.at = "ASKING" => InHand(c)
BY DEF Chain, Inactive

\* A shorter history leaves a request as it was,
LEMMA NarrowedInHand ==
  ASSUME NEW c, NEW ready, c \in SignInsUnderWay
  PROVE  LET n == Narrowed(c, ready)
         IN  /\ n \in SignInsUnderWay /\ n.vouch = c.vouch \cap ready
             /\ n.adapters = c.adapters /\ n.places = c.places /\ n.copy = c.copy
             /\ n.found = c.found
BY DEF Narrowed, SignInsUnderWay

\* and in hand.
LEMMA NarrowedChain ==
  ASSUME NEW c, NEW ready, Chain(c)
  PROVE  Chain(Narrowed(c, ready))
<1>1. CASE InHand(c)
  <2> DEFINE n == Narrowed(c, ready)
  <2>1. /\ n \in SignInsUnderWay /\ n.vouch = c.vouch \cap ready
        /\ n.adapters = c.adapters /\ n.places = c.places /\ n.copy = c.copy /\ n.found = c.found
    BY <1>1, NarrowedInHand DEF InHand
  <2> HIDE DEF n
  <2>2. InHand(n)
    BY <1>1, <2>1 DEF InHand
  <2>3. QED
    BY <2>2 DEF n, Chain
<1>2. CASE ~InHand(c)
  <2>1. c.at # "ASKING"
    BY <1>2, AskingInHand
  <2>2. QED
    BY <2>1 DEF Narrowed
<1>3. QED
  BY <1>1, <1>2

\* A sign-in takes a step, and the others keep what they have.
LEMMA OneSteps ==
  ASSUME ProvidersInv, NEW s \in SignIns, NEW x, Witnessed([signins EXCEPT ![s] = x]),
         Chain(Narrowed(x, Ready'))
  PROVE  signins' = [t \in SignIns |-> signins'[t]] /\ \A t \in SignIns : Chain(signins'[t])
<1> DEFINE next == [signins EXCEPT ![s] = x]
<1>1. next[s] = x /\ \A t \in SignIns \ {s} : next[t] = signins[t]
  BY DEF ProvidersInv
<1> HIDE DEF next
<1>2. signins' = [t \in SignIns |-> Narrowed(next[t], Ready')]
  BY DEF Witnessed, Narrowed, next
<1>3. \A t \in SignIns : Chain(signins[t])
  BY DEF ProvidersInv
<1>4. ASSUME NEW t \in SignIns PROVE Chain(signins'[t])
  BY <1>1, <1>2, <1>3, NarrowedChain
<1>5. QED
  BY <1>2, <1>4

\* No sign-in takes a step, but providers may be ready no longer.
LEMMA NobodySteps ==
  ASSUME ProvidersInv, Witnessed(signins)
  PROVE  signins' = [t \in SignIns |-> signins'[t]] /\ \A t \in SignIns : Chain(signins'[t])
<1>1. signins' = [t \in SignIns |-> Narrowed(signins[t], Ready')]
  BY DEF Witnessed, Narrowed
<1>2. QED
  BY <1>1, NarrowedChain DEF ProvidersInv

\* The request goes on to the next provider: the one it asked was not ready.
LEMMA GoesOnKeeps ==
  ASSUME ProvidersInv, NEW s \in SignIns, Asking(s), NEW ready,
         Asked(s) \notin signins[s].vouch \cap ready
  PROVE  Chain(Narrowed(GoesOn(s), ready))
<1> DEFINE c == signins[s]
           a == Asked(s)
           g == [c EXCEPT !.adapters = @ \ {a}, !.found = FALSE]
           n == Narrowed(g, ready)
<1>1. InHand(c)
  BY AskingInHand DEF ProvidersInv, Asking
<1>2. a \notin c.vouch \cap ready /\ GoesOn(s) = g
  BY DEF GoesOn
<1> HIDE DEF c, a
<1>3. /\ g \in SignInsUnderWay /\ g.vouch = c.vouch /\ g.adapters = c.adapters \ {a}
      /\ g.copy = c.copy /\ g.found = FALSE
  BY <1>1 DEF InHand, SignInsUnderWay
<1> HIDE DEF g
<1>4. /\ n \in SignInsUnderWay /\ n.vouch = g.vouch \cap ready
      /\ n.adapters = g.adapters /\ n.copy = g.copy /\ n.found = g.found
  BY <1>3, NarrowedInHand
<1> HIDE DEF n
<1>5. InHand(n)
  BY <1>1, <1>2, <1>3, <1>4 DEF InHand
<1>6. QED
  BY <1>2, <1>5 DEF Chain, n

\* While a sign-in takes a step nobody else does.
LEMMA ReadyStays == Still => Ready' = Ready
BY DEF Still, table, directories, Ready, Accepts, There

\* The steps of a sign-in.
LEMMA SignInKeeps ==
  ASSUME ProvidersInv, NEW s \in SignIns,
         Begin(s) \/ Skip(s) \/ AskLocal(s) \/ Search(s) \/ Bind(s) \/ Refuse(s)
  PROVE  signins' = [t \in SignIns |-> signins'[t]] /\ \A t \in SignIns : Chain(signins'[t])
<1>1. Still
  BY DEF Begin, Skip, AskLocal, Search, Bind, Refuse
<1>2. Ready' = Ready
  BY <1>1, ReadyStays
<1>3. rows \in [Providers -> ProviderRow] /\ order \in Orders /\ Chain(signins[s])
  BY DEF ProvidersInv
<1>4. CASE Begin(s)
  <2> DEFINE x == [at |-> "ASKING", adapters |-> There, places |-> order, copy |-> rows,
                   found |-> FALSE, vouch |-> Providers]
             n == Narrowed(x, Ready')
  <2>1. Witnessed([signins EXCEPT ![s] = x])
    BY <1>4 DEF Begin
  <2>2. /\ x \in SignInsUnderWay /\ x.vouch = Providers /\ x.adapters = There
        /\ x.copy = rows /\ x.found = FALSE
    BY <1>3 DEF SignInsUnderWay, There
  <2> HIDE DEF x
  <2>3. /\ n \in SignInsUnderWay /\ n.vouch = Providers \cap Ready
        /\ n.adapters = There /\ n.copy = rows /\ n.found = FALSE
    BY <1>2, <2>2, NarrowedInHand
  <2> HIDE DEF n
  <2>4. \A p \in Ready : p \in There /\ rows[p].enabled /\ (p # Local => rows[p].right)
    BY DEF Ready, Accepts
  <2>5. InHand(n)
    BY <2>3, <2>4 DEF InHand
  <2>6. QED
    BY <2>1, <2>5, OneSteps DEF n, Chain
<1>5. CASE Skip(s)
  <2>1. Asking(s) /\ InHand(signins[s]) /\ ~signins[s].copy[Asked(s)].enabled
    BY <1>3, <1>5, AskingInHand DEF Skip, Copy, Asking
  <2>2. Asked(s) \notin signins[s].vouch \cap Ready'
    BY <2>1 DEF InHand
  <2>3. Witnessed([signins EXCEPT ![s] = GoesOn(s)])
    BY <1>5 DEF Skip
  <2>4. QED
    BY <2>1, <2>2, <2>3, GoesOnKeeps, OneSteps
<1>a. ASSUME NEW ready PROVE Chain(Narrowed(SignedIn(s), ready))
  BY DEF SignedIn, Narrowed, Chain
<1>6. CASE AskLocal(s)
  <2>1. Asking(s) /\ InHand(signins[s]) /\ Asked(s) = Local
    BY <1>3, <1>6, AskingInHand DEF AskLocal, Asking
  <2>2. CASE account.active /\ account.word = Typed
    <3>1. Witnessed([signins EXCEPT ![s] = SignedIn(s)])
      BY <1>6, <2>2 DEF AskLocal
    <3>2. QED
      BY <3>1, <1>a, OneSteps
  <2>3. CASE ~(account.active /\ account.word = Typed)
    <3>1. Witnessed([signins EXCEPT ![s] = GoesOn(s)])
      BY <1>6, <2>3 DEF AskLocal, Rejected
    <3>2. Asked(s) \notin Ready
      BY <2>1, <2>3 DEF Ready, Accepts
    <3>3. QED
      BY <1>2, <2>1, <3>1, <3>2, GoesOnKeeps, OneSteps
  <2>4. QED
    BY <2>2, <2>3
<1>7. CASE Search(s)
  <2>1. Asking(s) /\ InHand(signins[s]) /\ Asked(s) # Local
    BY <1>3, <1>7, AskingInHand DEF Search, Asking
  <2>2. CASE Asked(s) \in up /\ Copy(s).right /\ secret[Asked(s)]
    <3> DEFINE x == [signins[s] EXCEPT !.found = TRUE]
               n == Narrowed(x, Ready')
    <3>1. Witnessed([signins EXCEPT ![s] = x])
      BY <1>7, <2>2 DEF Search, ProvidersInv
    <3>2. /\ x \in SignInsUnderWay /\ x.vouch = signins[s].vouch /\ x.places = signins[s].places
          /\ x.adapters = signins[s].adapters /\ x.copy = signins[s].copy
      BY <2>1 DEF InHand, SignInsUnderWay
    <3> HIDE DEF x
    <3>3. /\ n \in SignInsUnderWay /\ n.vouch = signins[s].vouch \cap Ready'
          /\ n.places = signins[s].places
          /\ n.adapters = signins[s].adapters /\ n.copy = signins[s].copy
      BY <3>2, NarrowedInHand
    <3> HIDE DEF n
    <3>4. InHand(n)
      BY <2>1, <3>3 DEF InHand, Asked
    <3>5. QED
      BY <3>1, <3>4, OneSteps DEF n, Chain
  <2>3. CASE ~(Asked(s) \in up /\ Copy(s).right /\ secret[Asked(s)])
    <3>1. Witnessed([signins EXCEPT ![s] = GoesOn(s)])
      BY <1>7, <2>3 DEF Search, Unavailable, ProvidersInv
    <3>2. Asked(s) \notin signins[s].vouch \cap Ready
      BY <2>1, <2>3 DEF Ready, Accepts, Copy, InHand
    <3>3. QED
      BY <1>2, <2>1, <3>1, <3>2, GoesOnKeeps, OneSteps
  <2>4. QED
    BY <2>2, <2>3
<1>8. CASE Bind(s)
  <2>1. Asking(s) /\ InHand(signins[s]) /\ Asked(s) # Local
    BY <1>3, <1>8, AskingInHand DEF Bind, Asking, InHand, Asked
  <2>2. CASE Asked(s) \in up /\ knows[Asked(s)] = Typed
    <3>1. Witnessed([signins EXCEPT ![s] = SignedIn(s)])
      BY <1>8, <2>2 DEF Bind
    <3>2. QED
      BY <3>1, <1>a, OneSteps
  <2>3. CASE ~(Asked(s) \in up /\ knows[Asked(s)] = Typed)
    <3>1. Witnessed([signins EXCEPT ![s] = GoesOn(s)])
      BY <1>8, <2>3 DEF Bind, Rejected
    <3>2. Asked(s) \notin Ready
      BY <2>1, <2>3 DEF Ready, Accepts
    <3>3. QED
      BY <1>2, <2>1, <3>1, <3>2, GoesOnKeeps, OneSteps
  <2>4. QED
    BY <2>2, <2>3
<1>9. CASE Refuse(s)
  <2> DEFINE x == [at |-> "REFUSED", vouch |-> signins[s].vouch]
  <2>1. Witnessed([signins EXCEPT ![s] = x])
    BY <1>9 DEF Refuse, ProvidersInv
  <2>2. signins[s].vouch = {}
    BY <1>3, <1>9, AskingInHand DEF Refuse, InHand
  <2>3. Chain(Narrowed(x, Ready'))
    BY <2>2 DEF Narrowed, Chain
  <2>4. QED
    BY <2>1, <2>3, OneSteps
<1>10. QED
  BY <1>4, <1>5, <1>6, <1>7, <1>8, <1>9

\* The invariant at the start,
LEMMA ProvidersInitInv == ProvidersInit => ProvidersInv
<1> SUFFICES ASSUME ProvidersInit PROVE ProvidersInv
  OBVIOUS
<1>1. rows \in [Providers -> ProviderRow]
  BY DEF ProvidersInit, ProviderRow
<1>2. signins = [s \in SignIns |-> Inactive]
  BY DEF ProvidersInit
<1>3. QED
  BY <1>1, <1>2 DEF ProvidersInit, ProvidersInv, Chain

\* and in every step.
LEMMA ProvidersNextInv == ProvidersInv /\ [ProvidersNext]_providersVars => ProvidersInv'
<1> SUFFICES ASSUME ProvidersInv, [ProvidersNext]_providersVars PROVE ProvidersInv'
  OBVIOUS
<1>0. /\ rows \in [Providers -> ProviderRow] /\ order \in Orders
      /\ (patch # Inactive => patch.row \in ProviderRow)
  BY DEF ProvidersInv
<1>1. /\ rows' \in [Providers -> ProviderRow] /\ order' \in Orders
      /\ (patch # Inactive)' => (patch.row \in ProviderRow)'
  <2>1. CASE UNCHANGED <<rows, order, patch>>
    BY <1>0, <2>1
  <2>2. ASSUME NEW p \in Providers, NEW e \in BOOLEAN, NEW r \in BOOLEAN, ReadProvider(p, e, r)
        PROVE  /\ rows' \in [Providers -> ProviderRow] /\ order' \in Orders
               /\ patch'.row \in ProviderRow
    <3> DEFINE row == [rows[p] EXCEPT !.enabled = e, !.right = r]
    <3>1. row \in ProviderRow
      BY <1>0 DEF ProviderRow
    <3>2. patch'.row = row /\ UNCHANGED <<rows, order>>
      BY <2>2 DEF ReadProvider, table
    <3> HIDE DEF row
    <3>3. QED
      BY <1>0, <3>1, <3>2
  <2>3. ASSUME NEW o \in Orders, WriteProvider(o)
        PROVE  /\ rows' \in [Providers -> ProviderRow] /\ order' \in Orders
               /\ patch'.row \in ProviderRow
    <3>1. patch # Inactive /\ patch.row \in ProviderRow
      BY <1>0, <2>3 DEF WriteProvider, Inactive
    <3>2. patch'.row = patch.row
      BY <2>3 DEF WriteProvider
    <3>3. QED
      BY <1>0, <2>3, <3>1, <3>2 DEF WriteProvider
  <2>4. CASE WriteSecret
    BY <1>0, <2>4 DEF WriteSecret, Inactive
  <2>5. CASE Invalidate
    BY <1>0, <2>5 DEF Invalidate, table
  <2>6. ASSUME NEW p \in Providers, Create(p)
        PROVE  /\ rows' \in [Providers -> ProviderRow] /\ order' \in Orders
               /\ patch'.row \in ProviderRow
    <3>1. rows[p] \in ProviderRow /\ [rows[p] EXCEPT !.state = "THERE"] \in ProviderRow
      BY <1>0 DEF ProviderRow
    <3>2. patch'.row = rows[p] /\ order' = order
          /\ rows' = [rows EXCEPT ![p] = [rows[p] EXCEPT !.state = "THERE"]]
      BY <1>0, <2>6 DEF Create
    <3>3. QED
      BY <1>0, <3>1, <3>2
  <2>7. ASSUME NEW p \in Providers, Delete(p)
        PROVE  /\ rows' \in [Providers -> ProviderRow] /\ order' \in Orders /\ patch' = patch
    <3>1. [rows[p] EXCEPT !.state = "GONE"] \in ProviderRow
      BY <1>0 DEF ProviderRow
    <3>2. order' = order /\ patch' = patch
          /\ rows' = [rows EXCEPT ![p] = [rows[p] EXCEPT !.state = "GONE"]]
      BY <1>0, <2>7 DEF Delete
    <3>3. QED
      BY <1>0, <3>1, <3>2
  <2>8. \/ UNCHANGED <<rows, order, patch>>
        \/ \E p \in Providers :
             Create(p) \/ Delete(p) \/ \E e, r \in BOOLEAN : ReadProvider(p, e, r)
        \/ \E o \in Orders : WriteProvider(o)
        \/ WriteSecret \/ Invalidate
    BY DEF ProvidersNext, providersVars, table, Still, Prove, Begin, Skip, AskLocal,
           Search, Bind, Refuse, Load, FromCache,
           Probe, Store, Tick, SetAccount, WritePassword, Outage
  <2>9. QED
    BY <1>0, <2>1, <2>2, <2>3, <2>4, <2>5, <2>6, <2>7, <2>8
<1>2. signins' = [t \in SignIns |-> signins'[t]] /\ \A t \in SignIns : Chain(signins'[t])
  <2>1. CASE signins' = signins
    BY <2>1 DEF ProvidersInv
  <2>2. CASE Witnessed(signins)
    BY <2>2, NobodySteps
  <2>3. \/ signins' = signins \/ Witnessed(signins)
        \/ \E s \in SignIns :
             Begin(s) \/ Skip(s) \/ AskLocal(s) \/ Search(s) \/ Bind(s) \/ Refuse(s)
    BY DEF ProvidersNext, providersVars, Prove, Load, FromCache, Probe, Store, Tick,
           ReadProvider, WriteProvider,
           WriteSecret, Invalidate, Create, Delete, SetAccount, WritePassword, Outage
  <2>4. QED
    BY <2>1, <2>2, <2>3, SignInKeeps
<1>3. QED
  BY <1>1, <1>2 DEF ProvidersInv

\* A person whom one provider would let in all the time is not refused,
\* whatever the other providers answer and administrators change.
THEOREM VouchedForIsNotRefused == ProvidersSpec => []VouchedForGetsIn
<1>1. ProvidersInv => VouchedForGetsIn
  BY DEF ProvidersInv, Chain, InHand, SignInsUnderWay, Inactive, VouchedForGetsIn
<1>2. QED
  BY <1>1, ProvidersInitInv, ProvidersNextInv, PTL DEF ProvidersSpec
=============================================================================
