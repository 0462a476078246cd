-------------------------- MODULE LogShippingProofs -------------------------
(***************************************************************************)
(* Proofs about LogShipping: its types, that the agent never moves its     *)
(* offset past a line that is not in the counters, and that a line is      *)
(* counted at most once per try plus the tries that failures forced.  All  *)
(* hold for any number of lines, handlers, rotations and failures, and any *)
(* sizes of the window and the chunk.                                      *)
(***************************************************************************)
EXTENDS LogShipping, FiniteSetTheorems, TLAPS

Sending == cycle.at \in {"post", "wait", "save"}

\* Lines follow each other without gaps.
FileInv ==
  /\ file # <<>> => file[1].first
  /\ \A i \in DOMAIN file : i + 1 \in DOMAIN file /\ file[i].last => file[i + 1].first

\* An offset of the file Squid writes to lies between two lines of it.
OffsetInv ==
  \A o \in {offset, saved} :
    o.of <= generation /\ (o.of = generation => o.pos \in Ends(file) \cup {0})

\* What was read is a piece of the file that begins where the offset points.
CycleInv ==
  /\ cycle.at # "poll" => cycle.from \in {0, offset.pos}
  /\ Sending =>
       /\ cycle.of <= generation
       /\ Len(cycle.text) \in Ends(cycle.text)
       /\ cycle.of = generation =>
            \A k \in DOMAIN cycle.text :
              cycle.from + k \in DOMAIN file /\ cycle.text[k] = file[cycle.from + k]
       /\ ~outgrown => cycle.text[1].first /\ (cycle.from > 0 => offset.of = cycle.of)
  /\ cycle.at = "save" => cycle.todo = {}

LineOf(u) == [id |-> u.id, kind |-> u.kind, counter |-> u.counter]
Carried(u) == \E h \in Handlers : request[h].awaited /\ LineOf(u) \in request[h].lines

\* A line that was read and is no longer to be posted is counted, or on its way.
SentInv ==
  ~outgrown /\ Sending =>
    \A k \in Ends(cycle.text) \ cycle.todo :
      Known(cycle.text[k]) \/ (cycle.at = "wait" /\ Carried(cycle.text[k]))

\* The agent waits for one request at a time.
AwaitInv ==
  /\ \A h \in Handlers : request[h].awaited => cycle.at = "wait" /\ request[h].at # "IDLE"
  /\ \A h, g \in Handlers : request[h].awaited /\ request[g].awaited => h = g

\* A request that is answered with success has counted what it carried.
RequestInv ==
  \A h \in Handlers :
    /\ request[h].ok => request[h].at = "ANSWER"
    /\ \A l \in request[h].lines :
         /\ request[h].at \in {"COUNT", "TOTAL"} => l.kind # "REFUSED"
         /\ request[h].at = "COUNT" /\ l.kind = "READABLE"
              => counted[l.id] > 0 \/ l.counter \in request[h].left
         /\ request[h].at = "TOTAL" \/ request[h].ok => Known(l)

Parts == FileInv /\ OffsetInv /\ CycleInv /\ SentInv /\ AwaitInv /\ RequestInv /\ NothingSkipped

\* NothingSkipped is about the moment the offset moves; that it is right then
\* was decided when the file was read and each chunk was answered.
IInv == TypeOK /\ Parts

-----------------------------------------------------------------------------
\* Adding lines takes nothing away from a counter, and counts each of them.
LEMMA AddCounts ==
  ASSUME NEW rows \in [Ids -> Nat], NEW L
  PROVE  /\ Add(rows, L) \in [Ids -> Nat]
         /\ \A i \in Ids : Add(rows, L)[i] >= rows[i]
         /\ \A i \in Ids : (\E l \in L : l.id = i) => Add(rows, L)[i] > 0
<1>1. MaxCopies \in Nat /\ MaxCopies > 0
  BY ShippingAssumption DEF MaxCopies
<1>2. QED
  BY <1>1 DEF Add

\* Appending leaves what was there.
LEMMA Appended ==
  ASSUME NEW s \in Seq(Units), NEW u \in Units
  PROVE  /\ Append(s, u) \in Seq(Units) /\ Append(s, u) # <<>>
         /\ Len(Append(s, u)) = Len(s) + 1 /\ Append(s, u)[Len(s) + 1] = u
         /\ \A i \in DOMAIN s : i \in DOMAIN Append(s, u) /\ Append(s, u)[i] = s[i]
         /\ \A i \in DOMAIN Append(s, u) : i \in DOMAIN s \/ i = Len(s) + 1
  OBVIOUS

\* A piece of the file.
LEMMA Piece ==
  ASSUME NEW s \in Seq(Units), NEW m \in Nat, NEW n \in DOMAIN s, m < n
  PROVE  /\ SubSeq(s, m + 1, n) \in Seq(Units)
         /\ Len(SubSeq(s, m + 1, n)) = n - m
         /\ \A k \in 1..(n - m) : SubSeq(s, m + 1, n)[k] = s[m + k] /\ m + k \in DOMAIN s
  OBVIOUS

-----------------------------------------------------------------------------
LEMMA IdleTypes ==
  /\ Idle \in Cycles /\ Idle.todo \subseteq DOMAIN Idle.text /\ Idle.at = "poll"
  /\ NoRequest \in Requests
  /\ Start \in Offsets
<1>1. 0 \in 0..MaxRotations /\ <<>> \in Seq(Units)
  BY ShippingAssumption
<1>2. QED
  BY <1>1 DEF Idle, Cycles, NoRequest, Requests, Start, Offsets

LEMMA TypeInit == Init => TypeOK
<1> SUFFICES ASSUME Init PROVE TypeOK
  OBVIOUS
<1>1. file \in Seq(Units) /\ generation \in 0..MaxRotations /\ lines \in 0..MaxLines
      /\ faults \in 0..MaxFaults
  BY ShippingAssumption DEF Init
<1>2. request \in [Handlers -> Requests] /\ inserted \in [Ids -> Nat] /\ counted \in [Ids -> Nat]
  BY IdleTypes DEF Init
<1>3. QED
  BY <1>1, <1>2, IdleTypes DEF Init, TypeOK

LEMMA TypeNext == TypeOK /\ AwaitInv /\ [Next]_vars => TypeOK'
<1> SUFFICES ASSUME TypeOK, AwaitInv, [Next]_vars PROVE TypeOK'
  OBVIOUS
<1> USE ShippingAssumption DEF TypeOK
<1>a. Idle \in Cycles /\ Idle.todo \subseteq DOMAIN Idle.text /\ Idle.at = "poll"
  BY IdleTypes
<1>b. NoRequest \in Requests /\ Start \in Offsets
  BY IdleTypes
<1>c. cycle.at \in {"poll", "read", "post", "wait", "save"} /\ cycle.from \in Nat
      /\ cycle.text \in Seq(Units)
  BY DEF Cycles
<1>1. ASSUME NEW kind \in Kinds, NEW c \in Counters, NEW whole \in BOOLEAN,
             BeginLine(kind, c, whole)
      PROVE  TypeOK'
  <2>1. [id |-> lines + 1, kind |-> kind, counter |-> c, first |-> TRUE, last |-> whole] \in Units
    BY <1>1 DEF BeginLine, Units, Ids
  <2>2. file' \in Seq(Units)
    BY <1>1, <2>1, Appended DEF BeginLine, WriteUnit
  <2>3. QED
    BY <1>1, <2>2 DEF BeginLine, WriteUnit, agentVars, tables
<1>2. CASE EndLine
  <2>1. Len(file) \in DOMAIN file
    BY <1>2 DEF EndLine, Between, Ends
  <2> DEFINE u == file[Len(file)]
  <2>0. u \in Units
    BY <2>1
  <2> HIDE DEF u
  <2>2. [u EXCEPT !.first = FALSE, !.last = TRUE] \in Units
    BY <2>0 DEF Units
  <2> USE DEF u
  <2>3. file' \in Seq(Units)
    BY <1>2, <2>2, Appended DEF EndLine, WriteUnit
  <2>4. QED
    BY <1>2, <2>3 DEF EndLine, WriteUnit, agentVars, tables
<1>3. CASE Rotate
  BY <1>3 DEF Rotate, agentVars, tables
<1>4. CASE Stat
  <2>1. ReadFrom \in Nat /\ ReadFrom <= Len(file)
    BY DEF ReadFrom, Offsets
  <2>2. Len(file) \in Nat
    OBVIOUS
  <2>3. cycle' = cycle \/ (ReadFrom < Len(file)
          /\ cycle' = [Idle EXCEPT !.at = "read", !.from = ReadFrom, !.size = Len(file)])
    BY <1>4, <2>1, <2>2 DEF Stat
  <2>4. cycle' \in Cycles /\ (cycle'.at # "poll" => cycle'.from < cycle'.size)
        /\ cycle'.todo \subseteq DOMAIN cycle'.text
    BY <2>1, <2>2, <2>3, <1>a DEF Idle, Cycles
  <2>5. outgrown' \in BOOLEAN
    BY <1>4 DEF Stat, Unnoticed
  <2>6. QED
    BY <1>4, <2>4, <2>5 DEF Stat, logVars, tables
<1>5. CASE Read
  <2>1. CASE cycle' = Idle /\ UNCHANGED outgrown
    BY <1>5, <2>1, <1>a DEF Read, logVars, tables
  <2>2. ASSUME NEW last \in EndsInWindow, cycle' = ReadUpTo(last),
               outgrown' = (outgrown \/ (cycle.from > 0 /\ offset.of # generation))
        PROVE  TypeOK'
    <3> DEFINE text == SubSeq(file, cycle.from + 1, last)
    <3>1. text \in Seq(Units)
      BY <1>c, Piece DEF EndsInWindow, Ends
    <3>2. Ends(text) \subseteq DOMAIN text /\ Ends(text) \in SUBSET Nat
      BY <3>1 DEF Ends
    <3>3. cycle' = [cycle EXCEPT !.at = "post", !.text = text, !.todo = Ends(text),
                                !.of = generation]
      BY <2>2 DEF ReadUpTo
    <3> HIDE DEF text
    <3>4. cycle' \in Cycles /\ cycle'.from < cycle'.size /\ cycle'.todo \subseteq DOMAIN cycle'.text
      BY <1>5, <3>1, <3>2, <3>3 DEF Read, Cycles
    <3>5. QED
      BY <1>5, <2>2, <3>4 DEF Read, logVars, tables
  <2>3. QED
    BY <1>5, <2>1, <2>2 DEF Read
<1>6. ASSUME NEW h \in Handlers, NEW kind \in {"READABLE", "UNREADABLE"}, Post(h, kind)
      PROVE  TypeOK'
  <2>1. \A k \in NextChunk : Seen(k, kind) \in Line
    <3> TAKE k \in NextChunk
    <3>1. cycle.text[k] \in Units
      BY <1>c DEF NextChunk
    <3> DEFINE u == cycle.text[k]
    <3> HIDE DEF u
    <3>2. \A q \in Kinds : [id |-> u.id, kind |-> q, counter |-> u.counter] \in Line
      BY <3>1 DEF u, Units, Line
    <3>3. (IF Whole(k) THEN u.kind ELSE kind) \in Kinds
      BY <3>1 DEF u, Units, Kinds
    <3>4. QED
      BY <3>2, <3>3 DEF u, Seen
  <2>2. request' \in [Handlers -> Requests]
    BY <1>6, <2>1 DEF Post, Requests
  <2>3. cycle' \in Cycles /\ cycle'.from < cycle'.size /\ cycle'.todo \subseteq DOMAIN cycle'.text
    BY <1>6 DEF Post, Cycles
  <2>4. QED
    BY <1>6, <2>2, <2>3 DEF Post, logVars, tables
<1>7. ASSUME NEW h \in Handlers, Answered(h) PROVE TypeOK'
  <2>0. request[h].awaited => cycle.at # "poll"
    BY <1>7 DEF AwaitInv
  <2>1. \/ cycle' \in {cycle, Idle}
        \/ cycle.at # "poll" /\ \E a \in {"save", "post"} : cycle' = [cycle EXCEPT !.at = a]
    <3>1. CASE ~request[h].awaited
      BY <1>7, <3>1 DEF Answered
    <3>2. CASE request[h].awaited /\ ~GoesOn(h)
      BY <1>7, <3>2 DEF Answered
    <3>3. CASE request[h].awaited /\ GoesOn(h)
      <4> DEFINE a == IF cycle.todo = {} THEN "save" ELSE "post"
      <4>1. a \in {"save", "post"} /\ cycle' = [cycle EXCEPT !.at = a]
        BY <1>7, <3>3 DEF Answered
      <4>2. QED
        BY <4>1, <2>0, <3>3
    <3>4. QED
      BY <3>1, <3>2, <3>3
  <2>2. QED
    BY <1>7, <2>1, <1>a, <1>b DEF Answered, Cycles, logVars, tables
<1>8. CASE Save
  <2>1. NewOffset \in Offsets
    BY DEF NewOffset, Offsets, Cycles
  <2>2. QED
    BY <1>8, <1>a, <2>1 DEF Save, logVars, tables
<1>9. ASSUME NEW h \in Handlers, Refuse(h) PROVE TypeOK'
  BY <1>9 DEF Refuse, Requests, logVars, agentVars, tables
<1>10. ASSUME NEW h \in Handlers, InsertEvents(h) PROVE TypeOK'
  <2>1. {l.counter : l \in Parsed(h)} \in SUBSET Counters
    BY DEF Parsed, Requests, Line
  <2>2. request' \in [Handlers -> Requests]
    <3> DEFINE r == [request[h] EXCEPT !.at = IF Parsed(h) = {} THEN "TOTAL" ELSE "COUNT",
                                       !.left = {l.counter : l \in Parsed(h)}]
    <3>1. r \in Requests
      BY <2>1 DEF Requests
    <3>2. request' = [request EXCEPT ![h] = r]
      BY <1>10 DEF InsertEvents
    <3> HIDE DEF r
    <3>3. QED
      BY <3>1, <3>2
  <2>3. QED
    BY <1>10, <2>2, AddCounts DEF InsertEvents, logVars, agentVars
<1>11. ASSUME NEW h \in Handlers, NEW c \in Counters, UpdateRollup(h, c) PROVE TypeOK'
  <2>1. request' \in [Handlers -> Requests]
    <3> DEFINE r == [request[h] EXCEPT !.left = @ \ {c},
                                       !.at = IF request[h].left = {c} THEN "TOTAL" ELSE "COUNT"]
    <3>1. r \in Requests
      BY DEF Requests
    <3>2. request' = [request EXCEPT ![h] = r]
      BY <1>11 DEF UpdateRollup
    <3> HIDE DEF r
    <3>3. QED
      BY <3>1, <3>2
  <2>2. QED
    BY <1>11, <2>1, AddCounts DEF UpdateRollup, logVars, agentVars
<1>12. ASSUME NEW h \in Handlers, AddTotals(h) PROVE TypeOK'
  BY <1>12 DEF AddTotals, Requests, logVars, agentVars, tables
<1>13. ASSUME NEW h \in Handlers, StatementFails(h) PROVE TypeOK'
  <2>1. request' \in [Handlers -> Requests]
    BY <1>13 DEF StatementFails, Requests
  <2>2. faults' \in 0..MaxFaults
    BY <1>13 DEF StatementFails, Breaks
  <2>3. QED
    BY <1>13, <2>1, <2>2 DEF StatementFails, logVars, agentVars, tables
<1>14. GiveUp \in [Handlers -> Requests]
  BY DEF GiveUp, Requests
<1>15. CASE AnswerLost
  BY <1>15, <1>14, <1>a DEF AnswerLost, Breaks, logVars, tables
<1>16. CASE SaveFails
  <2>1. NewOffset \in Offsets
    BY DEF NewOffset, Offsets, Cycles
  <2>2. faults' \in 0..MaxFaults
    BY <1>16 DEF SaveFails, Breaks
  <2>3. QED
    BY <1>16, <2>1, <2>2, <1>a, <1>b DEF SaveFails, logVars, tables
<1>17. CASE AgentRestarts
  BY <1>17, <1>14, <1>a DEF AgentRestarts, Breaks, logVars, tables
<1>18. CASE Enrols
  BY <1>18 DEF Enrols, Breaks, Start, Offsets, logVars, tables
<1>19. CASE UNCHANGED vars
  BY <1>19 DEF vars, logVars, agentVars, tables
<1>20. QED
  BY <1>1, <1>2, <1>3, <1>4, <1>5, <1>6, <1>7, <1>8, <1>9, <1>10, <1>11, <1>12, <1>13,
     <1>15, <1>16, <1>17, <1>18, <1>19
  DEF Next, SquidStep, ShipStep, ApiStep, Failure

-----------------------------------------------------------------------------
\* A step of the API for one of its requests: what it leaves alone.
ApiFrame(h) ==
  /\ UNCHANGED <<logVars, agentVars, outgrown>>
  /\ \A g \in Handlers \ {h} : request'[g] = request[g]
  /\ request'[h].awaited = request[h].awaited /\ request'[h].lines = request[h].lines
  /\ request[h].at # "IDLE" /\ request'[h].at # "IDLE"
  /\ \A i \in Ids : counted'[i] >= counted[i]

LEMMA ApiFrames ==
  ASSUME TypeOK, NEW h \in Handlers,
         \/ Refuse(h) \/ InsertEvents(h) \/ AddTotals(h) \/ StatementFails(h)
         \/ \E c \in Counters : UpdateRollup(h, c)
  PROVE  ApiFrame(h)
<1> USE DEF ApiFrame, TypeOK
<1>1. CASE Refuse(h)
  BY <1>1 DEF Refuse, Requests, tables
<1>2. CASE InsertEvents(h)
  BY <1>2 DEF InsertEvents, Requests
<1>3. CASE AddTotals(h)
  BY <1>3 DEF AddTotals, Requests, tables
<1>4. CASE StatementFails(h)
  BY <1>4 DEF StatementFails, Requests, tables
<1>5. ASSUME NEW c \in Counters, UpdateRollup(h, c) PROVE ApiFrame(h)
  <2>1. \A i \in Ids : counted'[i] >= counted[i]
    BY <1>5, AddCounts DEF UpdateRollup
  <2>2. UNCHANGED <<logVars, agentVars, outgrown>>
    BY <1>5 DEF UpdateRollup
  <2> DEFINE r == [request[h] EXCEPT !.left = @ \ {c},
                                     !.at = IF request[h].left = {c} THEN "TOTAL" ELSE "COUNT"]
  <2>3. request' = [request EXCEPT ![h] = r]
    BY <1>5 DEF UpdateRollup
  <2>4. r.awaited = request[h].awaited /\ r.lines = request[h].lines /\ r.at # "IDLE"
    BY DEF Requests
  <2> HIDE DEF r
  <2>5. QED
    BY <1>5, <2>1, <2>2, <2>3, <2>4 DEF UpdateRollup
<1>6. QED
  BY <1>1, <1>2, <1>3, <1>4, <1>5

\* The units of what was read, and the lines a request carries, have an id.
LEMMA UnitTypes ==
  ASSUME TypeOK
  PROVE  /\ \A k \in DOMAIN file : file[k] \in Units /\ file[k].id \in Ids
         /\ \A k \in DOMAIN cycle.text : cycle.text[k] \in Units /\ cycle.text[k].id \in Ids
         /\ \A h \in Handlers : \A l \in request[h].lines : l \in Line /\ l.id \in Ids
<1>1. cycle.text \in Seq(Units)
  BY DEF TypeOK, Cycles
<1>2. \A u \in Units : u.id \in Ids
  BY DEF Units
<1>3. \A k \in DOMAIN file : file[k] \in Units
  BY DEF TypeOK
<1>4. \A h \in Handlers : \A l \in request[h].lines : l \in Line /\ l.id \in Ids
  BY DEF TypeOK, Requests, Line
<1>5. QED
  BY <1>1, <1>2, <1>3, <1>4

\* As long as counters only grow, what is known stays known.
LEMMA StaysKnown ==
  ASSUME NEW u, u.id \in Ids, counted \in [Ids -> Nat], counted' \in [Ids -> Nat],
         \A i \in Ids : counted'[i] >= counted[i], Known(u)
  PROVE  Known(u)'
  BY DEF Known

LEMMA ApiKeeps ==
  ASSUME IInv, TypeOK', NEW h \in Handlers, ApiFrame(h)
  PROVE  (FileInv /\ OffsetInv /\ CycleInv /\ SentInv /\ AwaitInv /\ NothingSkipped)'
<1> USE DEF IInv, Parts
<1>1. file' = file /\ generation' = generation /\ cycle' = cycle /\ offset' = offset
      /\ saved' = saved /\ outgrown' = outgrown
  BY DEF ApiFrame, logVars, agentVars
<1>2. \A g \in Handlers : request'[g].awaited = request[g].awaited
                         /\ request'[g].lines = request[g].lines
  BY DEF ApiFrame
<1>3. (FileInv /\ OffsetInv /\ CycleInv)'
  BY <1>1 DEF FileInv, OffsetInv, CycleInv, Ends, Sending
<1>4. SentInv'
  <2> SUFFICES ASSUME ~outgrown', Sending', NEW k \in Ends(cycle.text) \ cycle.todo
               PROVE  Known(cycle.text[k])' \/ (cycle.at = "wait" /\ Carried(cycle.text[k])')
    BY <1>1 DEF SentInv, Ends
  <2>1. Known(cycle.text[k]) \/ (cycle.at = "wait" /\ Carried(cycle.text[k]))
    BY <1>1 DEF SentInv, Sending
  <2>2. CASE Known(cycle.text[k])
    <3>1. cycle.text[k].id \in Ids
      BY UnitTypes DEF Ends
    <3>2. QED
      BY <1>1, <2>2, <3>1 DEF ApiFrame, Known, TypeOK
  <2>3. CASE cycle.at = "wait" /\ Carried(cycle.text[k])
    BY <1>1, <1>2, <2>3 DEF Carried, LineOf
  <2>4. QED
    BY <2>1, <2>2, <2>3
<1>5. AwaitInv'
  BY <1>1, <1>2 DEF AwaitInv, ApiFrame
<1>6. NothingSkipped'
  BY <1>1, UnitTypes DEF NothingSkipped, Known, Ends, ApiFrame, TypeOK
<1>7. QED
  BY <1>3, <1>4, <1>5, <1>6

\* What the API's own steps do to the requests.
LEMMA ApiRequests ==
  ASSUME IInv, TypeOK', NEW h \in Handlers, ApiFrame(h),
         \/ Refuse(h) \/ InsertEvents(h) \/ AddTotals(h) \/ StatementFails(h)
         \/ \E c \in Counters : UpdateRollup(h, c)
  PROVE  RequestInv'
<1> USE DEF IInv, Parts, TypeOK
<1> DEFINE Right(g) ==
      /\ request[g].ok => request[g].at = "ANSWER"
      /\ \A l \in request[g].lines :
           /\ request[g].at \in {"COUNT", "TOTAL"} => l.kind # "REFUSED"
           /\ request[g].at = "COUNT" /\ l.kind = "READABLE"
                => counted[l.id] > 0 \/ l.counter \in request[g].left
           /\ request[g].at = "TOTAL" \/ request[g].ok => Known(l)
<1>1. \A g \in Handlers : Right(g)
  BY DEF RequestInv
<1>2. \A g \in Handlers \ {h} : Right(g)'
  BY <1>1, UnitTypes DEF ApiFrame, Known
<1>3. Right(h)'
  <2>1. CASE Refuse(h) \/ StatementFails(h)
    BY <1>1, <2>1 DEF Refuse, StatementFails, Requests
  <2>2. CASE InsertEvents(h)
    <3>1. /\ request'[h].lines = request[h].lines
          /\ request'[h].left = {l.counter : l \in Parsed(h)}
          /\ request'[h].at = IF Parsed(h) = {} THEN "TOTAL" ELSE "COUNT"
          /\ request'[h].ok = request[h].ok
      BY <2>2 DEF InsertEvents, Requests
    <3>2. \A l \in request[h].lines : l.kind # "REFUSED" /\ l.kind \in Kinds
      BY <2>2, UnitTypes DEF InsertEvents, Invalid, Line
    <3>3. ~request[h].ok
      BY <1>1, <2>2 DEF InsertEvents
    <3>4. QED
      BY <3>1, <3>2, <3>3 DEF Parsed, Known, Kinds
  <2>3. ASSUME NEW c \in Counters, UpdateRollup(h, c) PROVE Right(h)'
    <3>1. /\ request'[h].lines = request[h].lines
          /\ request'[h].left = request[h].left \ {c}
          /\ request'[h].at = IF request[h].left = {c} THEN "TOTAL" ELSE "COUNT"
          /\ request'[h].ok = request[h].ok
      <4> DEFINE r == [request[h] EXCEPT !.left = @ \ {c},
                         !.at = IF request[h].left = {c} THEN "TOTAL" ELSE "COUNT"]
      <4>1. request' = [request EXCEPT ![h] = r]
        BY <2>3 DEF UpdateRollup
      <4>2. /\ r.lines = request[h].lines /\ r.left = request[h].left \ {c}
            /\ r.at = IF request[h].left = {c} THEN "TOTAL" ELSE "COUNT"
            /\ r.ok = request[h].ok
        BY DEF Requests
      <4> HIDE DEF r
      <4>3. QED
        BY <4>1, <4>2
    <3>2. ~request[h].ok /\ request[h].at = "COUNT"
      BY <1>1, <2>3 DEF UpdateRollup
    <3>3. \A l \in request[h].lines :
            l.kind = "READABLE" => counted'[l.id] > 0 \/ l.counter \in request[h].left \ {c}
      <4> TAKE l \in request[h].lines
      <4> HAVE l.kind = "READABLE"
      <4>1. l.id \in Ids
        BY UnitTypes
      <4>2. CASE l.counter = c
        <5>1. l \in OfCounter(Parsed(h), c)
          BY <4>2 DEF OfCounter, Parsed
        <5>2. QED
          BY <2>3, <4>1, <5>1, AddCounts DEF UpdateRollup
      <4>3. CASE l.counter # c
        BY <1>1, <3>2, <4>1, <4>3 DEF ApiFrame
      <4>4. QED
        BY <4>2, <4>3
    <3>4. \A l \in request[h].lines : l.kind # "REFUSED" /\ l.kind \in Kinds
      BY <1>1, <3>2, UnitTypes DEF Line
    <3>5. QED
      BY <3>1, <3>2, <3>3, <3>4 DEF Known, Kinds
  <2>4. CASE AddTotals(h)
    <3>1. request[h].at = "TOTAL" /\ request'[h].at = "ANSWER"
          /\ request'[h].lines = request[h].lines /\ counted' = counted
      BY <2>4 DEF AddTotals, Requests, tables
    <3>2. QED
      BY <1>1, <3>1 DEF Known
  <2>5. QED
    BY <2>1, <2>2, <2>3, <2>4
<1>4. QED
  BY <1>2, <1>3 DEF RequestInv

-----------------------------------------------------------------------------
\* Squid's steps append a unit, or begin a new file.
LEMMA SquidKeeps ==
  ASSUME IInv, TypeOK',
         \/ \E kind \in Kinds, c \in Counters, whole \in BOOLEAN : BeginLine(kind, c, whole)
         \/ EndLine \/ Rotate
  PROVE  Parts'
<1> USE DEF IInv, Parts
<1>1. /\ cycle' = cycle /\ offset' = offset /\ saved' = saved /\ request' = request
      /\ counted' = counted /\ outgrown' = outgrown
  BY DEF BeginLine, EndLine, Rotate, WriteUnit, agentVars, tables
<1>2. (AwaitInv /\ RequestInv)'
  BY <1>1 DEF AwaitInv, RequestInv, Known
<1>3. SentInv'
  BY <1>1 DEF SentInv, Sending, Known, Carried
<1>4. CASE Rotate
  <2>1. file' = <<>> /\ generation' = generation + 1 /\ generation \in Nat
    BY <1>4 DEF Rotate, TypeOK
  <2>2. offset.of \in Nat /\ saved.of \in Nat /\ (Sending => cycle.of \in Nat)
    BY DEF TypeOK, Offsets, Cycles
  <2>3. \A o \in {offset, saved} : o.of <= generation
    BY DEF OffsetInv
  <2>4. FileInv' /\ OffsetInv' /\ NothingSkipped'
    BY <1>1, <2>1, <2>2, <2>3 DEF FileInv, OffsetInv, NothingSkipped
  <2>5. CycleInv'
    BY <1>1, <2>1, <2>2 DEF CycleInv, Sending
  <2>6. QED
    BY <1>2, <1>3, <2>4, <2>5
<1>5. ASSUME NEW u \in Units, file' = Append(file, u), generation' = generation,
             Between => u.first, ~Between => file # <<>> /\ ~file[Len(file)].last
      PROVE  Parts'
  <2>1. file \in Seq(Units)
    BY DEF TypeOK
  <2>2. /\ Len(file') = Len(file) + 1 /\ file'[Len(file) + 1] = u
        /\ \A i \in DOMAIN file : i \in DOMAIN file' /\ file'[i] = file[i]
        /\ \A i \in DOMAIN file' : i \in DOMAIN file \/ i = Len(file) + 1
    BY <1>5, <2>1, Appended
  <2>3. FileInv'
    BY <1>5, <2>1, <2>2 DEF FileInv, Between, Ends
  <2>4. \A i \in Ends(file) : i \in Ends(file)'
    BY <2>2 DEF Ends
  <2>5. OffsetInv'
    BY <1>1, <1>5, <2>4 DEF OffsetInv
  <2>6. CycleInv'
    BY <1>1, <1>5, <2>2 DEF CycleInv, Sending, Ends
  <2>7. NothingSkipped'
    <3> SUFFICES ASSUME ~outgrown, NEW o \in {offset, saved}, o.of = generation,
                        NEW i \in Ends(file)', i <= o.pos
                 PROVE  Known(file[i])'
      BY <1>1, <1>5 DEF NothingSkipped
    <3>1. i \in DOMAIN file
      BY <2>1, <2>2 DEF OffsetInv, Ends
    <3>2. i \in Ends(file) /\ file'[i] = file[i]
      BY <2>2, <3>1 DEF Ends
    <3>3. QED
      BY <1>1, <3>2 DEF NothingSkipped, Known
  <2>8. QED
    BY <1>2, <1>3, <2>3, <2>5, <2>6, <2>7
<1>6. ASSUME NEW kind \in Kinds, NEW c \in Counters, NEW whole \in BOOLEAN,
             BeginLine(kind, c, whole)
      PROVE  Parts'
  <2> DEFINE u == [id |-> lines + 1, kind |-> kind, counter |-> c, first |-> TRUE, last |-> whole]
  <2>1. u \in Units /\ u.first
    BY <1>6, ShippingAssumption DEF BeginLine, Units, Ids, TypeOK
  <2>2. file' = Append(file, u) /\ generation' = generation /\ Between
    BY <1>6 DEF BeginLine, WriteUnit
  <2> HIDE DEF u
  <2>3. QED
    BY <1>5, <2>1, <2>2
<1>7. CASE EndLine
  <2> DEFINE v == file[Len(file)]
             u == [v EXCEPT !.first = FALSE, !.last = TRUE]
  <2>1. Len(file) \in DOMAIN file /\ ~v.last /\ v \in Units
    BY <1>7 DEF EndLine, Between, Ends, TypeOK
  <2>2. u \in Units
    <3> HIDE DEF v
    <3>1. QED
      BY <2>1 DEF Units
  <2>3. file' = Append(file, u) /\ generation' = generation /\ ~Between
    BY <1>7 DEF EndLine, WriteUnit
  <2>4. file # <<>> /\ ~file[Len(file)].last
    BY <2>1
  <2> HIDE DEF u, v
  <2>5. QED
    BY <1>5, <2>2, <2>3, <2>4
<1>8. QED
  BY <1>4, <1>6, <1>7

-----------------------------------------------------------------------------
\* Outside the file, a cycle that begins or ends needs little.
LEMMA NoCycle ==
  ASSUME IInv, TypeOK', cycle'.at \in {"poll", "read"},
         cycle'.at = "read" => cycle'.from \in {0, offset'.pos},
         \A h \in Handlers : /\ ~request'[h].awaited
                             /\ request'[h].at = request[h].at /\ request'[h].ok = request[h].ok
                             /\ request'[h].lines = request[h].lines
                             /\ request'[h].left = request[h].left,
         counted' = counted
  PROVE  (CycleInv /\ SentInv /\ AwaitInv /\ RequestInv)'
<1>1. (CycleInv /\ SentInv)'
  BY DEF CycleInv, SentInv, Sending
<1>2. AwaitInv'
  BY DEF AwaitInv
<1>3. RequestInv'
  BY DEF IInv, Parts, RequestInv, Known
<1>4. QED
  BY <1>1, <1>2, <1>3

\* The offset that is saved at the end of a cycle.
LEMMA NewOffsetRight ==
  ASSUME IInv, cycle.at = "save"
  PROVE  /\ NewOffset.of <= generation
         /\ NewOffset.of = generation => NewOffset.pos \in Ends(file) \cup {0}
         /\ ~outgrown /\ NewOffset.of = generation =>
              \A i \in Ends(file) : i <= NewOffset.pos => Known(file[i])
<1> USE DEF IInv, Parts
<1>1. /\ Sending /\ cycle.text \in Seq(Units) /\ cycle.from \in Nat
      /\ NewOffset.of = cycle.of /\ NewOffset.pos = cycle.from + Len(cycle.text)
  BY DEF Sending, TypeOK, Cycles, NewOffset
<1>2. cycle.of <= generation /\ Len(cycle.text) \in Ends(cycle.text) /\ cycle.todo = {}
  BY <1>1 DEF CycleInv
<1>3. ASSUME cycle.of = generation
      PROVE  \A k \in DOMAIN cycle.text :
               cycle.from + k \in DOMAIN file /\ cycle.text[k] = file[cycle.from + k]
  BY <1>1, <1>3 DEF CycleInv
<1>4. ASSUME cycle.of = generation PROVE NewOffset.pos \in Ends(file)
  BY <1>1, <1>2, <1>3, <1>4 DEF Ends
<1>5. ASSUME ~outgrown, cycle.of = generation, NEW i \in Ends(file), i <= NewOffset.pos
      PROVE  Known(file[i])
  <2>1. CASE i <= cycle.from
    <3>1. cycle.from > 0
      BY <1>1, <2>1 DEF Ends, TypeOK
    <3>2. cycle.from = offset.pos /\ offset.of = cycle.of
      BY <1>1, <1>5, <3>1 DEF CycleInv
    <3>3. QED
      BY <1>5, <2>1, <3>2 DEF NothingSkipped
  <2>2. CASE i > cycle.from
    <3> DEFINE k == i - cycle.from
    <3>1. k \in DOMAIN cycle.text /\ cycle.from + k = i
      BY <1>1, <1>5, <2>2 DEF Ends, TypeOK
    <3>2. file[i] = cycle.text[k] /\ k \in Ends(cycle.text)
      BY <1>3, <1>5, <3>1 DEF Ends
    <3>3. QED
      BY <1>1, <1>2, <1>5, <3>2 DEF SentInv
  <2>3. QED
    BY <1>1, <2>1, <2>2 DEF Ends, TypeOK
<1>6. QED
  BY <1>1, <1>2, <1>4, <1>5

\* The chunk that is posted, as the API sees it.
LEMMA PostCarries ==
  ASSUME IInv, NEW h \in Handlers, NEW kind, Post(h, kind), ~outgrown,
         NEW k \in NextChunk, k \in Ends(cycle.text)
  PROVE  LineOf(cycle.text[k]) \in request'[h].lines
<1>1. Sending /\ cycle.text[1].first /\ k \in DOMAIN cycle.text /\ cycle.text \in Seq(Units)
  BY DEF IInv, Parts, CycleInv, Sending, Post, Ends, TypeOK, Cycles
<1>2. Whole(k)
  BY <1>1 DEF Whole
<1>3. Seen(k, kind) = LineOf(cycle.text[k])
  BY <1>2 DEF Seen, LineOf
<1>4. request'[h].lines = {Seen(j, kind) : j \in NextChunk}
  BY DEF Post, IInv, TypeOK
<1>5. QED
  BY <1>3, <1>4

LEMMA AgentKeeps ==
  ASSUME IInv, TypeOK',
         \/ Stat \/ Read \/ Save \/ AnswerLost \/ SaveFails \/ AgentRestarts \/ Enrols
         \/ \E h \in Handlers :
              Answered(h) \/ \E kind \in {"READABLE", "UNREADABLE"} : Post(h, kind)
  PROVE  Parts'
<1> USE DEF IInv, Parts
<1>0. outgrown => outgrown'
  <2>1. CASE Stat
    BY <2>1 DEF Stat
  <2>2. CASE Read
    BY <2>2 DEF Read
  <2>3. CASE ~Stat /\ ~Read
    BY <2>3 DEF Save, AnswerLost, SaveFails, AgentRestarts, Enrols, Answered, Post
  <2>4. QED
    BY <2>1, <2>2, <2>3
<1>1. file' = file /\ generation' = generation /\ counted' = counted /\ (outgrown => outgrown')
  BY <1>0
  DEF Stat, Read, Save, AnswerLost, SaveFails, AgentRestarts, Enrols, Answered, Post,
      logVars, tables
<1>2. FileInv'
  BY <1>1 DEF FileInv
<1>3. cycle.at # "wait" => \A h \in Handlers : ~request[h].awaited
  BY DEF AwaitInv
<1>4. ASSUME offset' = offset, saved' = saved PROVE (OffsetInv /\ NothingSkipped)'
  BY <1>1, <1>4 DEF OffsetInv, NothingSkipped, Known, Ends
<1>5. Idle.at = "poll"
  BY DEF Idle
<1>6. CASE Stat
  <2>1. offset' = offset /\ saved' = saved /\ request' = request /\ cycle.at = "poll"
    BY <1>6 DEF Stat
  <2>2. cycle'.at \in {"poll", "read"} /\ (cycle'.at = "read" => cycle'.from \in {0, offset.pos})
    BY <1>6, <2>1, <1>5 DEF Stat, Idle, ReadFrom
  <2>3. QED
    BY <1>1, <1>2, <1>3, <1>4, <2>1, <2>2, NoCycle
<1>7. CASE Read
  <2>1. offset' = offset /\ saved' = saved /\ request' = request /\ cycle.at = "read"
        /\ cycle.from \in Nat /\ file \in Seq(Units)
    BY <1>7 DEF Read, TypeOK, Cycles
  <2>2. CASE cycle' = Idle
    BY <1>1, <1>2, <1>3, <1>4, <1>5, <2>1, <2>2, NoCycle
  <2>3. ASSUME NEW last \in EndsInWindow, cycle' = ReadUpTo(last),
               outgrown' = (outgrown \/ (cycle.from > 0 /\ offset.of # generation))
        PROVE  Parts'
    <3> DEFINE text == SubSeq(file, cycle.from + 1, last)
    <3>1. last \in DOMAIN file /\ cycle.from < last /\ file[last].last
      BY DEF EndsInWindow, Ends
    <3>2. /\ Len(text) = last - cycle.from
          /\ \A k \in 1..(last - cycle.from) :
               text[k] = file[cycle.from + k] /\ cycle.from + k \in DOMAIN file
          /\ text \in Seq(Units)
      BY <2>1, <3>1, Piece
    <3>3. cycle'.at = "post" /\ cycle'.text = text /\ cycle'.todo = Ends(text)
          /\ cycle'.of = generation /\ cycle'.from = cycle.from
      BY <2>3 DEF ReadUpTo, TypeOK, Cycles
    <3> HIDE DEF text
    <3>4. Len(text) \in Ends(text)
      BY <2>1, <3>1, <3>2 DEF Ends
    <3>5. ~outgrown' => text[1].first /\ (cycle.from > 0 => offset.of = generation)
      <4> SUFFICES ASSUME ~outgrown' PROVE text[1].first /\ (cycle.from > 0 => offset.of = generation)
        OBVIOUS
      <4>1. cycle.from > 0 => offset.of = generation
        BY <2>3
      <4>2. text[1] = file[cycle.from + 1] /\ cycle.from + 1 \in DOMAIN file
        BY <2>1, <3>1, <3>2
      <4>3. CASE cycle.from = 0
        BY <4>2, <4>3, <3>1 DEF FileInv
      <4>4. CASE cycle.from > 0
        <5>1. cycle.from \in Ends(file)
          BY <2>1, <4>1, <4>4 DEF CycleInv, OffsetInv
        <5>2. QED
          BY <4>1, <4>2, <5>1 DEF FileInv, Ends
      <4>5. QED
        BY <2>1, <4>1, <4>3, <4>4
    <3>6. CycleInv'
      <4>1. cycle'.from \in {0, offset'.pos}
        BY <2>1, <3>3 DEF CycleInv
      <4>2. \A k \in DOMAIN text : cycle.from + k \in DOMAIN file /\ text[k] = file[cycle.from + k]
        BY <3>2
      <4>3. generation \in Nat
        BY DEF TypeOK
      <4>4. QED
        BY <1>1, <2>1, <3>3, <3>4, <3>5, <4>1, <4>2, <4>3 DEF CycleInv, Sending, Ends
    <3>7. SentInv'
      BY <3>3 DEF SentInv, Sending, Ends
    <3>8. AwaitInv' /\ RequestInv'
      BY <1>1, <1>3, <2>1 DEF AwaitInv, RequestInv, Known
    <3>9. QED
      BY <1>2, <1>4, <2>1, <3>6, <3>7, <3>8
  <2>4. QED
    BY <1>7, <2>2, <2>3 DEF Read
<1>8. ASSUME NEW h \in Handlers, NEW kind \in {"READABLE", "UNREADABLE"}, Post(h, kind)
      PROVE  Parts'
  <2>1. /\ offset' = offset /\ saved' = saved /\ outgrown' = outgrown
        /\ cycle.at = "post" /\ cycle'.at = "wait" /\ cycle'.todo = cycle.todo \ NextChunk
        /\ cycle'.from = cycle.from /\ cycle'.text = cycle.text /\ cycle'.of = cycle.of
    BY <1>8 DEF Post, TypeOK, Cycles
  <2>2. /\ request'[h].at = "INSERT" /\ request'[h].awaited /\ ~request'[h].ok
        /\ \A g \in Handlers \ {h} : request'[g] = request[g]
    BY <1>8 DEF Post, TypeOK
  <2>3. CycleInv'
    BY <1>1, <2>1 DEF CycleInv, Sending, Ends
  <2>4. SentInv'
    <3> SUFFICES ASSUME ~outgrown, NEW k \in Ends(cycle.text), k \notin cycle.todo \ NextChunk
                 PROVE  Known(cycle.text[k]) \/ Carried(cycle.text[k])'
      BY <1>1, <2>1 DEF SentInv, Known, Carried, Ends
    <3>1. CASE k \in NextChunk
      <4>1. LineOf(cycle.text[k]) \in request'[h].lines
        BY <1>8, <3>1, PostCarries
      <4>2. QED
        BY <2>1, <2>2, <4>1 DEF Carried, LineOf
    <3>2. CASE k \notin NextChunk
      BY <2>1, <3>2 DEF SentInv, Sending
    <3>3. QED
      BY <3>1, <3>2
  <2>5. AwaitInv'
    BY <1>3, <2>1, <2>2 DEF AwaitInv
  <2>6. RequestInv'
    BY <1>1, <2>2 DEF RequestInv, Known
  <2>7. QED
    BY <1>2, <1>4, <2>1, <2>3, <2>4, <2>5, <2>6
<1>9. ASSUME NEW h \in Handlers, Answered(h) PROVE Parts'
  <2>1. /\ offset' = offset /\ saved' = saved /\ outgrown' = outgrown
        /\ request[h].at = "ANSWER"
        /\ request'[h] = NoRequest
        /\ \A g \in Handlers \ {h} : request'[g] = request[g]
    BY <1>9 DEF Answered, TypeOK
  <2>2. RequestInv'
    BY <1>1, <2>1 DEF RequestInv, Known, NoRequest
  <2>3. CASE ~request[h].awaited
    <3>1. cycle' = cycle
      BY <1>9, <2>3 DEF Answered
    <3>2. AwaitInv'
      BY <2>1, <3>1 DEF AwaitInv, NoRequest
    <3>3. CycleInv'
      BY <1>1, <2>1, <3>1 DEF CycleInv, Sending, Ends
    <3>4. SentInv'
      <4>1. \A u : Carried(u) => Carried(u)'
        BY <2>1, <2>3 DEF Carried, LineOf
      <4>2. QED
        BY <1>1, <2>1, <3>1, <4>1 DEF SentInv, Sending, Known, Ends
    <3>5. QED
      BY <1>2, <1>4, <2>1, <2>2, <3>2, <3>3, <3>4
  <2>4. CASE request[h].awaited
    <3>1. cycle.at = "wait" /\ \A g \in Handlers : request[g].awaited => g = h
      BY <2>4 DEF AwaitInv
    <3>2. \A g \in Handlers : ~request'[g].awaited
      BY <2>1, <3>1 DEF NoRequest
    <3>3. AwaitInv'
      BY <3>2 DEF AwaitInv
    <3>4. CASE ~request[h].ok
      <4>1. cycle' = Idle
        BY <1>9, <2>4, <3>4 DEF Answered, GoesOn
      <4>2. (CycleInv /\ SentInv)'
        BY <4>1, <1>5 DEF CycleInv, SentInv, Sending
      <4>3. QED
        BY <1>2, <1>4, <2>1, <2>2, <3>3, <4>2
    <3>5. CASE request[h].ok
      <4>1. /\ cycle'.at \in {"save", "post"} /\ (cycle'.at = "save" => cycle.todo = {})
            /\ cycle'.todo = cycle.todo /\ cycle'.from = cycle.from
            /\ cycle'.text = cycle.text /\ cycle'.of = cycle.of
        <5> DEFINE a == IF cycle.todo = {} THEN "save" ELSE "post"
        <5>1. cycle' = [cycle EXCEPT !.at = a]
          BY <1>9, <2>4, <3>5 DEF Answered, GoesOn
        <5>2. a \in {"save", "post"} /\ (a = "save" => cycle.todo = {})
          OBVIOUS
        <5> HIDE DEF a
        <5>3. QED
          BY <5>1, <5>2 DEF TypeOK, Cycles
      <4>2. CycleInv'
        BY <1>1, <2>1, <3>1, <4>1 DEF CycleInv, Sending, Ends
      <4>3. SentInv'
        <5> SUFFICES ASSUME ~outgrown, NEW k \in Ends(cycle.text) \ cycle.todo
                     PROVE  Known(cycle.text[k])
          BY <1>1, <2>1, <4>1 DEF SentInv, Known, Ends
        <5>1. Known(cycle.text[k]) \/ Carried(cycle.text[k])
          BY <3>1 DEF SentInv, Sending
        <5>2. CASE Carried(cycle.text[k])
          <6>1. LineOf(cycle.text[k]) \in request[h].lines
            BY <3>1, <5>2 DEF Carried
          <6>2. Known(LineOf(cycle.text[k]))
            BY <3>5, <6>1 DEF RequestInv
          <6>3. QED
            BY <6>2 DEF Known, LineOf
        <5>3. QED
          BY <5>1, <5>2
      <4>4. QED
        BY <1>2, <1>4, <2>1, <2>2, <3>3, <4>2, <4>3
    <3>6. QED
      BY <3>4, <3>5
  <2>5. QED
    BY <2>3, <2>4
<1>10. ASSUME Save \/ SaveFails PROVE Parts'
  <2>1. /\ cycle.at = "save" /\ cycle' = Idle /\ offset' = NewOffset /\ request' = request
        /\ saved' \in {NewOffset, saved, Start} /\ outgrown' = outgrown
    BY <1>10 DEF Save, SaveFails
  <2>2. (CycleInv /\ SentInv /\ AwaitInv /\ RequestInv)'
    BY <1>1, <1>3, <1>5, <2>1, NoCycle
  <2>3. Start.of <= generation /\ Start.pos = 0 /\ \A i \in Ends(file) : ~(i <= 0)
    BY DEF Start, TypeOK, Ends
  <2>4. OffsetInv'
    BY <1>1, <2>1, <2>3, NewOffsetRight DEF OffsetInv, Ends
  <2>5. NothingSkipped'
    BY <1>1, <2>1, <2>3, NewOffsetRight DEF NothingSkipped, Known, Ends
  <2>6. QED
    BY <1>2, <2>2, <2>4, <2>5
<1>11. CASE AnswerLost \/ AgentRestarts
  <2>1. /\ cycle' = Idle /\ offset' \in {offset, saved} /\ saved' = saved /\ request' = GiveUp
        /\ outgrown' = outgrown
    BY <1>11 DEF AnswerLost, AgentRestarts
  <2>2. \A h \in Handlers :
          /\ ~request'[h].awaited
          /\ request'[h].at = request[h].at /\ request'[h].ok = request[h].ok
          /\ request'[h].lines = request[h].lines /\ request'[h].left = request[h].left
    BY <2>1 DEF GiveUp, TypeOK, Requests
  <2>3. (CycleInv /\ SentInv /\ AwaitInv /\ RequestInv)'
    BY <1>1, <1>5, <2>1, <2>2, NoCycle
  <2>4. (OffsetInv /\ NothingSkipped)'
    BY <1>1, <2>1 DEF OffsetInv, NothingSkipped, Known, Ends
  <2>5. QED
    BY <1>2, <2>3, <2>4
<1>12. CASE Enrols
  <2>1. cycle' = cycle /\ cycle.at = "poll" /\ request' = request /\ offset' = Start /\ saved' = Start
        /\ outgrown' = outgrown
    BY <1>12 DEF Enrols
  <2>2. (CycleInv /\ SentInv /\ AwaitInv /\ RequestInv)'
    BY <1>1, <1>3, <2>1, NoCycle
  <2>3. Start.of <= generation /\ Start.pos = 0 /\ \A i \in Ends(file) : ~(i <= 0)
    BY DEF Start, TypeOK, Ends
  <2>4. (OffsetInv /\ NothingSkipped)'
    BY <1>1, <2>1, <2>3 DEF OffsetInv, NothingSkipped, Ends
  <2>5. QED
    BY <1>2, <2>2, <2>4
<1>13. QED
  BY <1>6, <1>7, <1>8, <1>9, <1>10, <1>11, <1>12

-----------------------------------------------------------------------------
LEMMA InvInit == Init => IInv
<1> SUFFICES ASSUME Init PROVE IInv
  OBVIOUS
<1>1. TypeOK
  BY TypeInit
<1>2. FileInv /\ OffsetInv /\ NothingSkipped
  BY DEF Init, FileInv, OffsetInv, NothingSkipped, Start, Ends
<1>3. CycleInv /\ SentInv
  BY DEF Init, CycleInv, SentInv, Sending, Idle
<1>4. AwaitInv /\ RequestInv
  BY DEF Init, AwaitInv, RequestInv, NoRequest
<1>5. QED
  BY <1>1, <1>2, <1>3, <1>4 DEF IInv, Parts

LEMMA InvNext == IInv /\ [Next]_vars => IInv'
<1> SUFFICES ASSUME IInv, [Next]_vars PROVE IInv'
  OBVIOUS
<1>1. TypeOK'
  BY TypeNext DEF IInv, Parts
<1>2. CASE SquidStep
  BY <1>1, <1>2, SquidKeeps DEF SquidStep, IInv
<1>3. CASE ShipStep \/ AnswerLost \/ SaveFails \/ AgentRestarts \/ Enrols
  BY <1>1, <1>3, AgentKeeps DEF ShipStep, IInv
<1>4. CASE ApiStep \/ \E h \in Handlers : StatementFails(h)
  <2>1. PICK h \in Handlers :
          \/ Refuse(h) \/ InsertEvents(h) \/ AddTotals(h) \/ StatementFails(h)
          \/ \E c \in Counters : UpdateRollup(h, c)
    BY <1>4 DEF ApiStep
  <2>2. ApiFrame(h)
    BY <2>1, ApiFrames DEF IInv
  <2>3. QED
    BY <1>1, <2>1, <2>2, ApiKeeps, ApiRequests DEF IInv, Parts
<1>5. CASE UNCHANGED vars
  <2>1. UNCHANGED <<file, generation, cycle, offset, saved, request, counted, outgrown>>
    BY <1>5 DEF vars, logVars, agentVars, tables
  <2>2. Parts'
    BY <2>1 DEF IInv, Parts, FileInv, OffsetInv, CycleInv, SentInv, AwaitInv, RequestInv,
                NothingSkipped, Sending, Ends, Known, Carried
  <2>3. QED
    BY <1>1, <2>2 DEF IInv
<1>6. QED
  BY <1>2, <1>3, <1>4, <1>5 DEF Next, Failure

\* Every variable of the model keeps its type, whatever the bounds are; the
\* agent in particular never reads from behind the end of the file.
THEOREM TypeCorrect == Spec => []TypeOK
<1>1. IInv => TypeOK
  BY DEF IInv
<1>2. QED
  BY <1>1, InvInit, InvNext, PTL DEF Spec

\* shipLogs never moves past a line that the counters do not have, for any
\* interleaving of agent, API and Squid and any failures.
THEOREM Shipped == Spec => []NothingSkipped
<1>1. IInv => NothingSkipped
  BY DEF IInv, Parts
<1>2. QED
  BY <1>1, InvInit, InvNext, PTL DEF Spec

-----------------------------------------------------------------------------
\* The ids of lines: a line ends once, and after its other units.
IdsInv ==
  /\ \A k \in DOMAIN file : file[k].id <= lines
  /\ \A k \in Ends(file), j \in DOMAIN file : file[j].id = file[k].id => j <= k

\* The same for what was read, which is older than a file that came after it.
TextInv ==
  /\ Sending =>
       /\ \A k \in DOMAIN cycle.text : cycle.text[k].id <= lines
       /\ \A k \in Ends(cycle.text), j \in DOMAIN cycle.text :
            cycle.text[j].id = cycle.text[k].id => j <= k
       /\ cycle.todo \subseteq Ends(cycle.text)
       /\ offset.of <= cycle.of
       /\ cycle.of # generation =>
            \A k \in DOMAIN cycle.text, j \in DOMAIN file : cycle.text[k].id < file[j].id
  /\ cycle.at # "poll" /\ offset.of = generation => cycle.from = offset.pos

\* A request carries a line once, and requests are finitely many.
Busy == {h \in Handlers : request[h].at # "IDLE"}
CarriedOnce ==
  /\ \A h \in Handlers : \A l, m \in request[h].lines : l.id = m.id => l = m
  /\ IsFiniteSet(Busy)

\* What still has to be inserted, and what still has to be counted.
Trying(i) == {h \in Busy : request[h].at = "INSERT" /\ \E l \in request[h].lines : l.id = i}
Pending(i) == {h \in Busy : request[h].at = "COUNT" /\
                 \E l \in Parsed(h) : l.id = i /\ l.counter \in request[h].left}

\* A line behind the offset, or behind what was read, is not read again unless
\* something breaks.
Behind(k) ==
  \/ offset.of = generation /\ k <= offset.pos
  \/ Sending /\ cycle.of = generation /\ k <= cycle.from + Len(cycle.text)
FailedAnswer ==
  \E h \in Handlers : request[h].awaited /\ request[h].at = "ANSWER" /\ ~request[h].ok
Fresh(i) ==
  \/ FailedAnswer
  \/ i > lines
  \/ \E k \in DOMAIN file : file[k].id = i /\ ~Behind(k)
  \/ Sending /\ \E k \in cycle.todo : cycle.text[k].id = i

\* A line that will be posted has been tried once for each failure at most,
\* any other line once more.
TriesInv ==
  ~refused => \A i \in Ids :
    inserted[i] + Cardinality(Trying(i)) <= faults + (IF Fresh(i) THEN 0 ELSE 1)

\* Every row is ahead of its counter by the requests that have it to count.
CountsInv ==
  \A i \in Ids :
    /\ counted[i] <= MaxCopies /\ inserted[i] <= MaxCopies
    /\ inserted[i] = MaxCopies \/ counted[i] + Cardinality(Pending(i)) <= inserted[i]

CountParts == IdsInv /\ TextInv /\ CarriedOnce /\ TriesInv /\ CountsInv
CountInv == IInv /\ CountParts

\* Sizes of sets of requests.
LEMMA Smaller ==
  ASSUME NEW S, IsFiniteSet(S), NEW T, T \subseteq S
  PROVE  /\ IsFiniteSet(T) /\ Cardinality(T) \in Nat /\ Cardinality(S) \in Nat
         /\ Cardinality(T) <= Cardinality(S)
  BY FS_Subset, FS_CardinalityType

LEMMA OneLess ==
  ASSUME NEW S, IsFiniteSet(S), NEW x \in S, NEW T, T \subseteq S \ {x}
  PROVE  Cardinality(T) + 1 <= Cardinality(S)
<1>1. IsFiniteSet(S \ {x}) /\ Cardinality(S \ {x}) = Cardinality(S) - 1
  BY FS_RemoveElement
<1>2. Cardinality(T) <= Cardinality(S \ {x}) /\ Cardinality(T) \in Nat /\ Cardinality(S) \in Nat
  BY <1>1, Smaller, FS_CardinalityType
<1>3. QED
  BY <1>1, <1>2

LEMMA OneMore ==
  ASSUME NEW S, IsFiniteSet(S), NEW x, NEW T, T \subseteq S \cup {x}
  PROVE  Cardinality(T) <= Cardinality(S) + 1
<1>0. Cardinality(S) \in Nat
  BY FS_CardinalityType
<1>1. IsFiniteSet(S \cup {x}) /\ Cardinality(S \cup {x}) <= Cardinality(S) + 1
  BY <1>0, FS_AddElement
<1>2. Cardinality(T) <= Cardinality(S \cup {x}) /\ Cardinality(T) \in Nat
      /\ Cardinality(S) \in Nat /\ Cardinality(S \cup {x}) \in Nat
  BY <1>1, Smaller, FS_CardinalityType
<1>3. QED
  BY <1>1, <1>2

-----------------------------------------------------------------------------
\* Squid numbers its lines, and ends each once.
LEMMA IdsSquid ==
  ASSUME CountInv, TypeOK',
         \/ \E kind \in Kinds, c \in Counters, whole \in BOOLEAN : BeginLine(kind, c, whole)
         \/ EndLine \/ Rotate
  PROVE  IdsInv' /\ TextInv' /\ \A i \in Ids : Fresh(i)' => Fresh(i)
<1> USE DEF CountInv, CountParts
<1>1. /\ cycle' = cycle /\ offset' = offset /\ request' = request
  BY DEF BeginLine, EndLine, Rotate, WriteUnit, agentVars
<1>2. /\ file \in Seq(Units) /\ lines \in Nat /\ generation \in Nat /\ offset.of \in Nat
      /\ offset.pos \in Nat /\ (Sending => cycle.of \in Nat /\ cycle.text \in Seq(Units))
      /\ cycle.from \in Nat /\ \A u \in Units : u.id \in Nat
  <2>1. \A u \in Units : u.id \in Nat
    BY DEF Units, Ids
  <2>2. QED
    BY <2>1 DEF IInv, TypeOK, Cycles, Offsets
<1>3. \A k \in DOMAIN file : file[k] \in Units /\ file[k].id \in Nat
  BY <1>2
<1>4. Sending => \A k \in DOMAIN cycle.text : cycle.text[k].id \in Nat
  BY <1>2
<1>5. /\ offset.of <= generation /\ (Sending => cycle.of <= generation)
      /\ offset.of = generation => offset.pos \in Ends(file) \cup {0}
      /\ Sending /\ cycle.of = generation => cycle.from + Len(cycle.text) \in Ends(file)
  <2>1. Sending /\ cycle.of = generation => cycle.from + Len(cycle.text) \in Ends(file)
    BY DEF IInv, Parts, CycleInv, Ends
  <2>2. QED
    BY <2>1 DEF IInv, Parts, OffsetInv, CycleInv
<1>6. CASE Rotate
  <2>1. file' = <<>> /\ generation' = generation + 1 /\ lines' = lines
    BY <1>6 DEF Rotate
  <2>2. IdsInv' /\ TextInv'
    BY <1>1, <1>2, <1>5, <2>1 DEF IdsInv, TextInv, Ends, Sending
  <2>3. \A i \in Ids : Fresh(i)' => Fresh(i)
    BY <1>1, <2>1 DEF Fresh, FailedAnswer, Sending
  <2>4. QED
    BY <2>2, <2>3
<1>7. ASSUME NEW u \in Units, file' = Append(file, u), generation' = generation,
             lines' \in Nat, lines <= lines',
             \/ u.id = lines + 1 /\ lines' = lines + 1
             \/ ~Between /\ u.id = file[Len(file)].id /\ lines' = lines
      PROVE  IdsInv' /\ TextInv' /\ \A i \in Ids : Fresh(i)' => Fresh(i)
  <2>1. /\ Len(file') = Len(file) + 1 /\ file'[Len(file) + 1] = u
        /\ \A i \in DOMAIN file : i \in DOMAIN file' /\ file'[i] = file[i]
        /\ \A i \in DOMAIN file' : i \in DOMAIN file \/ i = Len(file) + 1
        /\ Len(file) \in Nat /\ \A i \in DOMAIN file : i \in Nat /\ i <= Len(file)
    BY <1>2, <1>7, Appended
  <2>2. ~Between => Len(file) \in DOMAIN file /\ Len(file) \notin Ends(file)
    BY <1>2 DEF Between
  <2>3. \A k \in Ends(file) : file[k].id # u.id
    BY <1>2, <1>3, <1>7, <2>1, <2>2 DEF IdsInv, Ends
  <2>4. IdsInv'
    BY <1>2, <1>3, <1>7, <2>1, <2>2, <2>3 DEF IdsInv, Ends
  <2>5. Sending /\ cycle.of # generation =>
          \A k \in DOMAIN cycle.text : cycle.text[k].id < u.id
    BY <1>2, <1>4, <1>7, <2>2 DEF TextInv
  <2>6. TextInv'
    BY <1>1, <1>2, <1>4, <1>7, <2>1, <2>5 DEF TextInv, Sending, Ends
  <2>7. ASSUME NEW i \in Ids, Fresh(i)' PROVE Fresh(i)
    <3>1. \A k : Behind(k)' <=> Behind(k)
      BY <1>1, <1>7 DEF Behind, Sending
    <3>2. CASE \E k \in DOMAIN file' : file'[k].id = i /\ ~Behind(k)'
      <4>1. PICK k \in DOMAIN file' : file'[k].id = i /\ ~Behind(k)
        BY <3>1, <3>2
      <4>2. CASE k \in DOMAIN file
        BY <2>1, <4>1, <4>2 DEF Fresh
      <4>3. CASE k = Len(file) + 1 /\ u.id = lines + 1
        BY <1>2, <2>1, <4>1, <4>3 DEF Fresh
      <4>4. CASE k = Len(file) + 1 /\ u.id # lines + 1
        <5>1. Len(file) \in DOMAIN file /\ Len(file) \notin Ends(file) /\ file[Len(file)].id = i
          BY <1>7, <2>1, <2>2, <4>1, <4>4
        <5>2. ~Behind(Len(file))
          BY <1>2, <1>5, <2>1, <5>1 DEF Behind, Ends
        <5>3. QED
          BY <5>1, <5>2 DEF Fresh
      <4>5. QED
        BY <2>1, <4>2, <4>3, <4>4
    <3>3. CASE ~ \E k \in DOMAIN file' : file'[k].id = i /\ ~Behind(k)'
      BY <1>1, <1>2, <1>7, <2>7, <3>3 DEF Fresh, FailedAnswer, Sending, Ids
    <3>4. QED
      BY <3>2, <3>3
  <2>8. QED
    BY <2>4, <2>6, <2>7
<1>8. ASSUME NEW kind \in Kinds, NEW c \in Counters, NEW whole \in BOOLEAN,
             BeginLine(kind, c, whole)
      PROVE  IdsInv' /\ TextInv' /\ \A i \in Ids : Fresh(i)' => Fresh(i)
  <2> DEFINE u == [id |-> lines + 1, kind |-> kind, counter |-> c, first |-> TRUE, last |-> whole]
  <2>1. u \in Units /\ u.id = lines + 1
    BY <1>8, ShippingAssumption DEF BeginLine, Units, Ids, IInv, TypeOK
  <2>2. file' = Append(file, u) /\ generation' = generation /\ lines' = lines + 1
    BY <1>8 DEF BeginLine, WriteUnit
  <2> HIDE DEF u
  <2>3. QED
    BY <1>2, <1>7, <2>1, <2>2
<1>9. CASE EndLine
  <2> DEFINE v == file[Len(file)]
             u == [v EXCEPT !.first = FALSE, !.last = TRUE]
  <2>1. v \in Units
    BY <1>9 DEF EndLine, Between, Ends, IInv, TypeOK
  <2>2. u \in Units /\ u.id = v.id
    <3> HIDE DEF v
    <3>1. QED
      BY <2>1 DEF Units
  <2>3. file' = Append(file, u) /\ generation' = generation /\ lines' = lines /\ ~Between
    BY <1>9 DEF EndLine, WriteUnit
  <2> HIDE DEF u
  <2>4. QED
    BY <1>2, <1>7, <2>2, <2>3
<1>10. QED
  BY <1>6, <1>8, <1>9

-----------------------------------------------------------------------------
\* Steps that insert nothing: with what may be read again no more than before,
LEMMA TriesQuiet ==
  ASSUME CountInv, TypeOK', refused => refused', faults' = faults, inserted' = inserted,
         \A i \in Ids : Trying(i)' \subseteq Trying(i),
         \A i \in Ids : Fresh(i)' => Fresh(i)
  PROVE  TriesInv'
<1> SUFFICES ASSUME ~refused, NEW i \in Ids
             PROVE  inserted[i] + Cardinality(Trying(i)') <= faults + (IF Fresh(i)' THEN 0 ELSE 1)
  BY DEF TriesInv
<1>1. IsFiniteSet(Trying(i))
  BY FS_Subset DEF CountInv, CountParts, CarriedOnce, Trying
<1>2. Cardinality(Trying(i)') <= Cardinality(Trying(i)) /\ Cardinality(Trying(i)') \in Nat
      /\ Cardinality(Trying(i)) \in Nat
  BY <1>1, Smaller
<1>3. inserted[i] + Cardinality(Trying(i)) <= faults + (IF Fresh(i) THEN 0 ELSE 1)
  BY DEF CountInv, CountParts, TriesInv
<1>4. inserted[i] \in Nat /\ faults \in Nat
  BY DEF CountInv, IInv, TypeOK
<1>5. CASE Fresh(i)
  BY <1>2, <1>3, <1>4, <1>5
<1>6. CASE ~Fresh(i)
  BY <1>2, <1>3, <1>4, <1>6
<1>7. QED
  BY <1>5, <1>6

\* or when something breaks, which pays for reading anything again.
LEMMA TriesBroken ==
  ASSUME CountInv, TypeOK', refused' = refused, faults' = faults + 1, inserted' = inserted,
         \A i \in Ids : Trying(i)' \subseteq Trying(i)
  PROVE  TriesInv'
<1> SUFFICES ASSUME ~refused, NEW i \in Ids
             PROVE  inserted[i] + Cardinality(Trying(i)') <= faults + 1 + (IF Fresh(i)' THEN 0 ELSE 1)
  BY DEF TriesInv
<1>1. IsFiniteSet(Trying(i))
  BY FS_Subset DEF CountInv, CountParts, CarriedOnce, Trying
<1>2. Cardinality(Trying(i)') <= Cardinality(Trying(i)) /\ Cardinality(Trying(i)') \in Nat
      /\ Cardinality(Trying(i)) \in Nat
  BY <1>1, Smaller
<1>3. inserted[i] + Cardinality(Trying(i)) <= faults + (IF Fresh(i) THEN 0 ELSE 1)
  BY DEF CountInv, CountParts, TriesInv
<1>4. inserted[i] \in Nat /\ faults \in Nat
  BY DEF CountInv, IInv, TypeOK
<1>5. QED
  BY <1>2, <1>3, <1>4

\* Steps that write no table.
LEMMA CountsQuiet ==
  ASSUME CountInv, inserted' = inserted, counted' = counted,
         \A i \in Ids : Pending(i)' \subseteq Pending(i)
  PROVE  CountsInv'
<1> SUFFICES ASSUME NEW i \in Ids, inserted[i] # MaxCopies
             PROVE  counted[i] + Cardinality(Pending(i)') <= inserted[i]
  BY DEF CountInv, CountParts, CountsInv, MaxCopies
<1>1. IsFiniteSet(Pending(i))
  BY FS_Subset DEF CountInv, CountParts, CarriedOnce, Pending
<1>2. Cardinality(Pending(i)') <= Cardinality(Pending(i)) /\ Cardinality(Pending(i)') \in Nat
      /\ Cardinality(Pending(i)) \in Nat
  BY <1>1, Smaller
<1>3. counted[i] + Cardinality(Pending(i)) <= inserted[i]
  BY DEF CountInv, CountParts, CountsInv
<1>4. inserted[i] \in Nat /\ counted[i] \in Nat
  BY DEF CountInv, IInv, TypeOK
<1>5. QED
  BY <1>2, <1>3, <1>4

\* No request takes a new line.
LEMMA CarriedQuiet ==
  ASSUME CountInv, \A g \in Handlers : /\ request'[g].lines \subseteq request[g].lines
                                       /\ request[g].at = "IDLE" => request'[g].at = "IDLE"
  PROVE  CarriedOnce'
<1>1. IsFiniteSet(Busy')
  BY FS_Subset DEF CountInv, CountParts, CarriedOnce, Busy
<1>2. QED
  BY <1>1 DEF CountInv, CountParts, CarriedOnce

\* Something breaks for the agent: no cycle is under way then.
LEMMA AgentBreaks ==
  ASSUME CountInv, TypeOK', AnswerLost \/ SaveFails \/ AgentRestarts \/ Enrols
  PROVE  CountParts'
<1>1. /\ file' = file /\ lines' = lines /\ cycle'.at = "poll"
      /\ inserted' = inserted /\ counted' = counted /\ refused' = refused /\ faults' = faults + 1
  BY DEF AnswerLost, SaveFails, AgentRestarts, Enrols, Idle, logVars, tables, Breaks
<1>2. \A h \in Handlers : /\ request'[h].at = request[h].at /\ request'[h].lines = request[h].lines
                          /\ request'[h].left = request[h].left
  BY DEF CountInv, IInv, TypeOK, Requests, AnswerLost, SaveFails, AgentRestarts, Enrols, GiveUp
<1>3. IdsInv' /\ TextInv'
  BY <1>1 DEF CountInv, CountParts, IdsInv, TextInv, Ends, Sending
<1>4. CarriedOnce'
  BY <1>2, CarriedQuiet
<1>5. \A i : Trying(i)' = Trying(i) /\ Pending(i)' = Pending(i)
  BY <1>2 DEF Trying, Pending, Busy, Parsed
<1>6. QED
  BY <1>1, <1>3, <1>4, <1>5, TriesBroken, CountsQuiet DEF CountParts

\* The agent looks at the file.
LEMMA StatKeeps ==
  ASSUME CountInv, TypeOK', Stat
  PROVE  CountParts'
<1>1. /\ UNCHANGED <<file, lines, generation, offset, request, inserted, counted, refused, faults>>
      /\ cycle.at = "poll" /\ cycle'.at \in {"poll", "read"}
      /\ cycle'.at = "read" => cycle'.from = ReadFrom
  BY DEF Stat, logVars, tables, Idle
<1>2. offset.of = generation => ReadFrom = offset.pos
  BY DEF CountInv, IInv, TypeOK, Parts, OffsetInv, ReadFrom, Ends, Offsets
<1>3. IdsInv' /\ TextInv'
  BY <1>1, <1>2 DEF CountInv, CountParts, IdsInv, TextInv, Ends, Sending
<1>4. CarriedOnce' /\ CountsInv'
  BY <1>1, CarriedQuiet, CountsQuiet DEF Pending, Busy, Parsed
<1>5. \A i \in Ids : Fresh(i)' => Fresh(i)
  BY <1>1 DEF Fresh, FailedAnswer, Behind, Sending
<1>6. TriesInv'
  BY <1>1, <1>5, TriesQuiet DEF Trying, Busy
<1>7. QED
  BY <1>3, <1>4, <1>6 DEF CountParts

\* What it reads was not behind its offset.
LEMMA ReadKeeps ==
  ASSUME CountInv, TypeOK', Read
  PROVE  CountParts'
<1>1. /\ UNCHANGED <<file, lines, generation, offset, request, inserted, counted, refused, faults>>
      /\ cycle.at = "read"
  BY DEF Read, logVars, tables
<1>2. IdsInv' /\ CarriedOnce' /\ CountsInv'
  BY <1>1, CarriedQuiet, CountsQuiet DEF CountInv, CountParts, IdsInv, Ends, Pending, Busy, Parsed
<1>3. CASE cycle' = Idle
  <2>1. TextInv'
    BY <1>3 DEF TextInv, Sending, Idle
  <2>2. \A i \in Ids : Fresh(i)' => Fresh(i)
    BY <1>1, <1>3 DEF Fresh, FailedAnswer, Behind, Sending, Idle
  <2>3. QED
    BY <1>1, <1>2, <2>1, <2>2, TriesQuiet DEF Trying, Busy, CountParts
<1>4. ASSUME NEW last \in EndsInWindow, cycle' = ReadUpTo(last)
      PROVE  CountParts'
  <2> DEFINE text == SubSeq(file, cycle.from + 1, last)
  <2>1. /\ last \in DOMAIN file /\ cycle.from < last /\ file \in Seq(Units) /\ cycle.from \in Nat
        /\ offset.pos \in Nat /\ offset.of \in Nat
    BY DEF EndsInWindow, Ends, CountInv, IInv, TypeOK, Cycles, Offsets
  <2>2. /\ Len(text) = last - cycle.from /\ text \in Seq(Units)
        /\ \A k \in 1..(last - cycle.from) :
             text[k] = file[cycle.from + k] /\ cycle.from + k \in DOMAIN file
    BY <2>1, Piece
  <2>3. cycle'.at = "post" /\ cycle'.text = text /\ cycle'.todo = Ends(text)
        /\ cycle'.of = generation /\ cycle'.from = cycle.from
    BY <1>4 DEF ReadUpTo, CountInv, IInv, TypeOK, Cycles
  <2> HIDE DEF text
  <2>4. \A k \in DOMAIN text : /\ k \in Nat /\ k <= last - cycle.from
                               /\ text[k] = file[cycle.from + k]
                               /\ cycle.from + k \in DOMAIN file
    BY <2>2
  <2>5. offset.of <= generation /\ (offset.of = generation => cycle.from = offset.pos)
    BY <1>1 DEF CountInv, IInv, Parts, OffsetInv, CountParts, TextInv
  <2>6. TextInv'
    <3>1. \A k \in DOMAIN text : text[k].id <= lines
      BY <2>4 DEF CountInv, CountParts, IdsInv
    <3>2. \A k \in Ends(text), j \in DOMAIN text : text[j].id = text[k].id => j <= k
      <4> TAKE k \in Ends(text), j \in DOMAIN text
      <4> HAVE text[j].id = text[k].id
      <4>1. cycle.from + k \in Ends(file) /\ cycle.from + j \in DOMAIN file
            /\ file[cycle.from + j].id = file[cycle.from + k].id /\ j \in Nat /\ k \in Nat
        BY <2>4 DEF Ends
      <4>2. cycle.from + j <= cycle.from + k
        BY <4>1 DEF CountInv, CountParts, IdsInv
      <4>3. QED
        BY <2>1, <4>1, <4>2
    <3>3. QED
      BY <1>1, <2>3, <2>5, <3>1, <3>2 DEF TextInv, Sending, Ends
  <2>7. ASSUME NEW i \in Ids, Fresh(i)' PROVE Fresh(i)
    <3>1. \A k : Behind(k) => Behind(k)'
      BY <1>1 DEF Behind, Sending
    <3>2. CASE \E k \in cycle'.todo : cycle'.text[k].id = i
      <4>1. PICK k \in DOMAIN text : text[k].id = i
        BY <2>3, <3>2 DEF Ends
      <4>2. cycle.from + k \in DOMAIN file /\ file[cycle.from + k].id = i /\ k >= 1
        BY <2>2, <2>4, <4>1
      <4>3. ~Behind(cycle.from + k)
        BY <1>1, <2>1, <2>4, <2>5, <4>2 DEF Behind, Sending
      <4>4. QED
        BY <4>2, <4>3 DEF Fresh
    <3>3. CASE ~ \E k \in cycle'.todo : cycle'.text[k].id = i
      BY <1>1, <2>7, <3>1, <3>3 DEF Fresh, FailedAnswer
    <3>4. QED
      BY <3>2, <3>3
  <2>8. QED
    BY <1>1, <1>2, <2>6, <2>7, TriesQuiet DEF Trying, Busy, CountParts
<1>5. QED
  BY <1>3, <1>4 DEF Read

\* What is posted leaves what can be read: it is tried once more, and then not
\* without something that breaks.
LEMMA PostKeeps ==
  ASSUME CountInv, TypeOK', NEW h \in Handlers, NEW kind, Post(h, kind)
  PROVE  CountParts'
<1>1. /\ UNCHANGED <<file, lines, generation, offset, inserted, counted, refused, faults>>
      /\ cycle.at = "post" /\ cycle'.at = "wait" /\ cycle'.todo = cycle.todo \ NextChunk
      /\ cycle'.from = cycle.from /\ cycle'.text = cycle.text /\ cycle'.of = cycle.of
      /\ NextChunk \subseteq cycle.todo
  BY DEF Post, NextChunk, logVars, tables, CountInv, IInv, TypeOK, Cycles
<1>2. /\ request[h].at = "IDLE" /\ request'[h].at = "INSERT"
      /\ request'[h].lines = {Seen(k, kind) : k \in NextChunk}
      /\ \A g \in Handlers \ {h} : request'[g] = request[g]
  BY DEF Post, CountInv, IInv, TypeOK
<1>3. /\ cycle.todo \subseteq Ends(cycle.text)
      /\ \A k \in Ends(cycle.text), j \in DOMAIN cycle.text :
           cycle.text[j].id = cycle.text[k].id => j <= k
      /\ \A k \in DOMAIN cycle.text : k \in Nat /\ cycle.text[k].id \in Nat /\ cycle.text[k].id <= lines
      /\ lines \in Nat
  <2>1. cycle.text \in Seq(Units) /\ \A u \in Units : u.id \in Nat
    BY DEF CountInv, IInv, TypeOK, Cycles, Units, Ids
  <2>2. QED
    BY <1>1, <2>1 DEF CountInv, CountParts, TextInv, Sending, IInv, TypeOK
<1>4. IdsInv' /\ TextInv'
  BY <1>1 DEF CountInv, CountParts, IdsInv, TextInv, Ends, Sending
<1>5. CarriedOnce'
  <2>1. \A k, j \in NextChunk : Seen(k, kind).id = Seen(j, kind).id => k = j
    <3> TAKE k, j \in NextChunk
    <3>1. k \in Ends(cycle.text) /\ j \in Ends(cycle.text) /\ k \in Nat /\ j \in Nat
      BY <1>1, <1>3 DEF Ends
    <3>2. QED
      BY <1>3, <3>1 DEF Seen, Ends
  <2>2. \A l, m \in request'[h].lines : l.id = m.id => l = m
    BY <1>2, <2>1
  <2>3. IsFiniteSet(Busy \cup {h})
    BY FS_AddElement DEF CountInv, CountParts, CarriedOnce
  <2>4. Busy' \subseteq Busy \cup {h}
    BY <1>2 DEF Busy
  <2>5. IsFiniteSet(Busy')
    BY <2>3, <2>4, FS_Subset
  <2>6. QED
    BY <1>2, <2>2, <2>5 DEF CountInv, CountParts, CarriedOnce
<1>6. CountsInv'
  <2>1. \A i : Pending(i)' \subseteq Pending(i)
    BY <1>2 DEF Pending, Busy, Parsed
  <2>2. QED
    BY <1>1, <2>1, CountsQuiet
<1>7. ASSUME NEW i \in Ids, ~refused
      PROVE  inserted[i] + Cardinality(Trying(i)') <= faults + (IF Fresh(i)' THEN 0 ELSE 1)
  <2>1. inserted[i] + Cardinality(Trying(i)) <= faults + (IF Fresh(i) THEN 0 ELSE 1)
    BY <1>7 DEF CountInv, CountParts, TriesInv
  <2>2. inserted[i] \in Nat /\ faults \in Nat /\ IsFiniteSet(Trying(i))
    BY FS_Subset DEF CountInv, IInv, TypeOK, CountParts, CarriedOnce, Trying
  <2>3. Trying(i)' \subseteq Trying(i) \cup {h}
    BY <1>2 DEF Trying, Busy
  <2>4. Cardinality(Trying(i)) \in Nat /\ Cardinality(Trying(i)') \in Nat
        /\ Cardinality(Trying(i)') <= Cardinality(Trying(i)) + 1
    <3>1. IsFiniteSet(Trying(i)')
      BY <1>5, FS_Subset DEF CarriedOnce, Trying
    <3>2. QED
      BY <2>2, <2>3, <3>1, OneMore, FS_CardinalityType
  <2>5. CASE \E k \in NextChunk : cycle.text[k].id = i
    <3>1. PICK k \in NextChunk : cycle.text[k].id = i
      BY <2>5
    <3>2. Fresh(i)
      BY <1>1, <3>1 DEF Fresh, Sending
    <3>3. k \in Ends(cycle.text) /\ k \in DOMAIN cycle.text /\ k \in Nat
      BY <1>1, <1>3, <3>1 DEF Ends
    <3>4. ~FailedAnswer'
      BY <1>1, <1>2 DEF FailedAnswer, CountInv, IInv, Parts, AwaitInv
    <3>5. ~ (i > lines)
      BY <1>3, <3>1, <3>3 DEF Ids
    <3>6. \A j \in cycle.todo \ NextChunk : cycle.text[j].id # i
      BY <1>3, <3>1, <3>3 DEF Ends
    <3>7. ASSUME NEW j \in DOMAIN file, file[j].id = i PROVE Behind(j)'
      <4>1. CASE cycle.of # generation
        <5>1. cycle.text[k].id < file[j].id
          BY <1>1, <3>3, <4>1 DEF CountInv, CountParts, TextInv, Sending
        <5>2. QED
          BY <1>3, <3>1, <3>3, <3>7, <5>1
      <4>2. CASE cycle.of = generation
        <5>1. cycle.from + k \in DOMAIN file /\ cycle.text[k] = file[cycle.from + k]
          BY <1>1, <3>3, <4>2 DEF CountInv, IInv, Parts, CycleInv, Sending
        <5>2. cycle.from + k \in Ends(file)
          BY <3>3, <5>1 DEF Ends
        <5>3. j <= cycle.from + k
          BY <3>1, <3>7, <5>1, <5>2 DEF CountInv, CountParts, IdsInv
        <5>4. k <= Len(cycle.text) /\ cycle.from \in Nat /\ Len(cycle.text) \in Nat /\ j \in Nat
          <6>1. cycle.text \in Seq(Units) /\ file \in Seq(Units) /\ cycle.from \in Nat
            BY DEF CountInv, IInv, TypeOK, Cycles
          <6>2. QED
            BY <3>3, <6>1
        <5>5. j <= cycle.from + Len(cycle.text)
          BY <3>3, <5>3, <5>4
        <5>6. QED
          BY <1>1, <4>2, <5>5 DEF Behind, Sending
      <4>3. QED
        BY <4>1, <4>2
    <3>8. ~Fresh(i)'
      BY <1>1, <3>4, <3>5, <3>6, <3>7 DEF Fresh
    <3>9. QED
      BY <2>1, <2>2, <2>4, <3>2, <3>8
  <2>6. CASE ~ \E k \in NextChunk : cycle.text[k].id = i
    <3>1. Trying(i)' \subseteq Trying(i)
      BY <1>2, <2>6 DEF Trying, Busy, Seen
    <3>2. Cardinality(Trying(i)') <= Cardinality(Trying(i))
      BY <2>2, <3>1, Smaller
    <3>3. Fresh(i)' => Fresh(i)
      BY <1>1, <1>2 DEF Fresh, FailedAnswer, Behind, Sending
    <3>4. QED
      BY <2>1, <2>2, <2>4, <3>2, <3>3
  <2>7. QED
    BY <2>5, <2>6
<1>8. TriesInv'
  BY <1>1, <1>7 DEF TriesInv
<1>9. QED
  BY <1>4, <1>5, <1>6, <1>8 DEF CountParts

\* An answer: the cycle goes on as it was, or everything may be read again, as
\* everything might since the answer failed.
LEMMA AnsweredKeeps ==
  ASSUME CountInv, TypeOK', NEW h \in Handlers, Answered(h)
  PROVE  CountParts'
<1>1. /\ UNCHANGED <<file, lines, generation, offset, inserted, counted, refused, faults>>
      /\ request[h].at = "ANSWER" /\ request'[h] = NoRequest
      /\ \A g \in Handlers \ {h} : request'[g] = request[g]
  BY DEF Answered, logVars, tables, CountInv, IInv, TypeOK
<1>2. CarriedOnce'
  BY <1>1, CarriedQuiet DEF NoRequest
<1>3. \A i : Trying(i)' \subseteq Trying(i) /\ Pending(i)' \subseteq Pending(i)
  BY <1>1 DEF Trying, Pending, Busy, Parsed, NoRequest
<1>4. CountsInv'
  BY <1>1, <1>3, CountsQuiet
<1>5. IdsInv'
  BY <1>1 DEF CountInv, CountParts, IdsInv, Ends
<1>6. CASE request[h].awaited /\ ~request[h].ok
  <2>1. cycle' = Idle
    BY <1>6 DEF Answered, GoesOn
  <2>2. TextInv'
    BY <2>1 DEF TextInv, Sending, Idle
  <2>3. \A i : Fresh(i)
    BY <1>1, <1>6 DEF Fresh, FailedAnswer
  <2>4. QED
    BY <1>1, <1>2, <1>3, <1>4, <1>5, <2>2, <2>3, TriesQuiet DEF CountParts
<1>7. CASE ~(request[h].awaited /\ ~request[h].ok)
  <2>1. \/ cycle' = cycle
        \/ cycle.at = "wait" /\ \E a \in {"save", "post"} : cycle' = [cycle EXCEPT !.at = a]
    <3>1. CASE ~request[h].awaited
      BY <3>1 DEF Answered
    <3>2. CASE request[h].awaited
      <4> DEFINE a == IF cycle.todo = {} THEN "save" ELSE "post"
      <4>1. a \in {"save", "post"} /\ cycle' = [cycle EXCEPT !.at = a] /\ cycle.at = "wait"
        BY <1>7, <3>2 DEF Answered, GoesOn, CountInv, IInv, Parts, AwaitInv
      <4>2. QED
        BY <4>1
    <3>3. QED
      BY <3>1, <3>2
  <2>2. /\ cycle'.todo = cycle.todo /\ cycle'.from = cycle.from
        /\ cycle'.text = cycle.text /\ cycle'.of = cycle.of
        /\ Sending' <=> Sending
        /\ cycle'.at = "poll" <=> cycle.at = "poll"
    BY <2>1 DEF Sending, CountInv, IInv, TypeOK, Cycles
  <2>3. TextInv'
    BY <1>1, <2>2 DEF CountInv, CountParts, TextInv, Ends
  <2>4. FailedAnswer' => FailedAnswer
    BY <1>1 DEF FailedAnswer, NoRequest
  <2>5. \A i \in Ids : Fresh(i)' => Fresh(i)
    BY <1>1, <2>2, <2>4 DEF Fresh, Behind
  <2>6. QED
    BY <1>1, <1>2, <1>3, <1>4, <1>5, <2>3, <2>5, TriesQuiet DEF CountParts
<1>8. QED
  BY <1>6, <1>7

\* The new offset is behind what the cycle has read.
LEMMA SaveKeeps ==
  ASSUME CountInv, TypeOK', Save
  PROVE  CountParts'
<1>1. /\ UNCHANGED <<file, lines, generation, request, inserted, counted, refused, faults>>
      /\ cycle.at = "save" /\ cycle'.at = "poll" /\ offset'.of = cycle.of
      /\ offset'.pos = cycle.from + Len(cycle.text)
  BY DEF Save, Idle, NewOffset, logVars, tables
<1>2. IdsInv' /\ TextInv'
  BY <1>1 DEF CountInv, CountParts, IdsInv, TextInv, Ends, Sending
<1>3. CarriedOnce' /\ CountsInv'
  BY <1>1, CarriedQuiet, CountsQuiet DEF Pending, Busy, Parsed
<1>4. /\ offset.of \in Nat /\ offset.pos \in Nat /\ cycle.of \in Nat /\ generation \in Nat
      /\ cycle.from \in Nat /\ Len(cycle.text) \in Nat /\ cycle.of <= generation
      /\ offset.of <= cycle.of /\ (offset.of = generation => cycle.from = offset.pos)
  BY <1>1 DEF CountInv, CountParts, TextInv, IInv, Parts, CycleInv, TypeOK, Cycles, Offsets, Sending
<1>5. \A k \in DOMAIN file : Behind(k) => Behind(k)'
  <2>1. \A k \in DOMAIN file : k \in Nat
    BY DEF CountInv, IInv, TypeOK
  <2>2. QED
    BY <1>1, <1>4, <2>1 DEF Behind, Sending
<1>6. \A i \in Ids : Fresh(i)' => Fresh(i)
  BY <1>1, <1>5 DEF Fresh, FailedAnswer, Sending
<1>7. TriesInv'
  BY <1>1, <1>6, TriesQuiet DEF Trying, Busy
<1>8. QED
  BY <1>2, <1>3, <1>7 DEF CountParts

-----------------------------------------------------------------------------
\* The steps of the API.  A row is inserted once for each try, and makes one
\* counter of each line pending; a counter is added to while it is pending.
LEMMA ApiCounts ==
  ASSUME CountInv, TypeOK', NEW h \in Handlers, ApiFrame(h),
         \/ Refuse(h) \/ InsertEvents(h) \/ AddTotals(h) \/ StatementFails(h)
         \/ \E c \in Counters : UpdateRollup(h, c)
  PROVE  CountParts'
<1>1. /\ UNCHANGED <<file, lines, generation, cycle, offset>>
      /\ \A g \in Handlers : request'[g].awaited = request[g].awaited
                             /\ request'[g].lines = request[g].lines
      /\ \A g \in Handlers \ {h} : request'[g] = request[g]
      /\ request[h].at # "IDLE"
  BY DEF ApiFrame, logVars, agentVars
<1>2. IdsInv' /\ TextInv'
  BY <1>1 DEF CountInv, CountParts, IdsInv, TextInv, Ends, Sending
<1>3. CarriedOnce'
  BY <1>1, CarriedQuiet
<1>4. \A i : IsFiniteSet(Trying(i)) /\ IsFiniteSet(Pending(i))
  BY FS_Subset DEF CountInv, CountParts, CarriedOnce, Trying, Pending
<1>5. \A i \in Ids : inserted[i] \in Nat /\ counted[i] \in Nat /\ faults \in Nat
  BY DEF CountInv, IInv, TypeOK
<1>6. CASE Refuse(h) \/ StatementFails(h)
  <2>a. request \in [Handlers -> Requests]
    BY DEF CountInv, IInv, TypeOK
  <2>1. inserted' = inserted /\ counted' = counted /\ request'[h].at = "ANSWER"
    <3>1. CASE Refuse(h)
      BY <3>1, <2>a DEF Refuse, tables
    <3>2. CASE StatementFails(h)
      BY <3>2, <2>a DEF StatementFails, tables
    <3>3. QED
      BY <1>6, <3>1, <3>2
  <2>2. \A i : Trying(i)' \subseteq Trying(i) /\ Pending(i)' \subseteq Pending(i)
    BY <1>1, <2>1 DEF Trying, Pending, Busy, Parsed
  <2>3. CountsInv'
    BY <2>1, <2>2, CountsQuiet
  <2>4. TriesInv'
    <3>1. CASE Refuse(h)
      BY <3>1 DEF Refuse, TriesInv
    <3>2. CASE StatementFails(h)
      BY <2>1, <2>2, <3>2, TriesBroken DEF StatementFails, Breaks
    <3>3. QED
      BY <1>6, <3>1, <3>2
  <2>5. QED
    BY <1>2, <1>3, <2>3, <2>4 DEF CountParts
<1>7. ASSUME request'[h].ok = request[h].ok \/ request'[h].ok, request[h].at # "ANSWER",
             request'[h].at = "ANSWER" => request'[h].ok
      PROVE  \A i : Fresh(i)' => Fresh(i)
  <2>1. FailedAnswer' => FailedAnswer
    BY <1>1, <1>7 DEF FailedAnswer
  <2>2. QED
    BY <1>1, <2>1 DEF Fresh, Behind, Sending
<1>8. CASE AddTotals(h)
  <2>1. inserted' = inserted /\ counted' = counted /\ request'[h].at = "ANSWER" /\ request'[h].ok
        /\ faults' = faults /\ refused' = refused /\ request[h].at = "TOTAL"
    BY <1>8 DEF AddTotals, tables, CountInv, IInv, TypeOK
  <2>2. \A i : Trying(i)' \subseteq Trying(i) /\ Pending(i)' \subseteq Pending(i)
    BY <1>1, <2>1 DEF Trying, Pending, Busy, Parsed
  <2>3. TriesInv' /\ CountsInv'
    BY <1>7, <2>1, <2>2, TriesQuiet, CountsQuiet
  <2>4. QED
    BY <1>2, <1>3, <2>3 DEF CountParts
<1>9. CASE InsertEvents(h)
  <2>1. /\ counted' = counted /\ faults' = faults /\ refused' = refused
        /\ inserted' = Add(inserted, Parsed(h)) /\ request[h].at = "INSERT"
    BY <1>9 DEF InsertEvents
  <2>2. /\ request'[h].at = IF Parsed(h) = {} THEN "TOTAL" ELSE "COUNT"
        /\ request'[h].left = {l.counter : l \in Parsed(h)} /\ request'[h].ok = request[h].ok
    BY <1>9 DEF InsertEvents, CountInv, IInv, TypeOK, Requests
  <2>3. Parsed(h)' = Parsed(h) /\ Parsed(h) \subseteq request[h].lines
    BY <1>1 DEF Parsed
  <2>4. \A i \in Ids : Fresh(i)' => Fresh(i)
    BY <1>7, <2>1, <2>2
  <2>5. ASSUME NEW i \in Ids
        PROVE  /\ inserted'[i] <= MaxCopies
               /\ ~refused => inserted'[i] + Cardinality(Trying(i)')
                                <= faults + (IF Fresh(i)' THEN 0 ELSE 1)
               /\ inserted'[i] = MaxCopies
                    \/ counted[i] + Cardinality(Pending(i)') <= inserted'[i]
    <3>1. /\ inserted[i] <= MaxCopies /\ MaxCopies \in Nat
          /\ ~refused => inserted[i] + Cardinality(Trying(i)) <= faults + (IF Fresh(i) THEN 0 ELSE 1)
          /\ inserted[i] = MaxCopies \/ counted[i] + Cardinality(Pending(i)) <= inserted[i]
      BY ShippingAssumption DEF CountInv, CountParts, TriesInv, CountsInv, MaxCopies
    <3>2. IsFiniteSet(Trying(i)') /\ IsFiniteSet(Pending(i)')
      BY <1>3, FS_Subset DEF CarriedOnce, Trying, Pending
    <3>3. /\ Cardinality(Trying(i)) \in Nat /\ Cardinality(Trying(i)') \in Nat
          /\ Cardinality(Pending(i)) \in Nat /\ Cardinality(Pending(i)') \in Nat
      BY <1>4, <3>2, FS_CardinalityType
    <3>4. CASE \E l \in Parsed(h) : l.id = i
      <4>1. h \in Trying(i) /\ Trying(i)' \subseteq Trying(i) \ {h}
        BY <1>1, <2>1, <2>2, <2>3, <3>4 DEF Trying, Busy
      <4>2. Cardinality(Trying(i)') + 1 <= Cardinality(Trying(i))
        BY <1>4, <4>1, OneLess
      <4>3. Pending(i)' \subseteq Pending(i) \cup {h}
        BY <1>1 DEF Pending, Busy, Parsed
      <4>4. Cardinality(Pending(i)') <= Cardinality(Pending(i)) + 1
        BY <1>4, <4>3, OneMore
      <4>5. inserted'[i] = IF inserted[i] < MaxCopies THEN inserted[i] + 1 ELSE inserted[i]
        BY <2>1, <3>4 DEF Add
      <4>6. inserted'[i] <= MaxCopies /\ inserted'[i] <= inserted[i] + 1 /\ inserted'[i] \in Nat
            /\ (inserted'[i] = MaxCopies \/ inserted'[i] = inserted[i] + 1)
            /\ (inserted'[i] # MaxCopies => inserted[i] # MaxCopies)
        BY <1>5, <3>1, <4>5
      <4>7. ~refused => inserted'[i] + Cardinality(Trying(i)') <= faults + (IF Fresh(i)' THEN 0 ELSE 1)
        <5>1. CASE Fresh(i)
          BY <1>5, <3>1, <3>3, <4>2, <4>6, <5>1
        <5>2. CASE ~Fresh(i)
          BY <1>5, <2>4, <3>1, <3>3, <4>2, <4>6, <5>2
        <5>3. QED
          BY <5>1, <5>2
      <4>8. inserted'[i] = MaxCopies \/ counted[i] + Cardinality(Pending(i)') <= inserted'[i]
        BY <1>5, <3>1, <3>3, <4>4, <4>6
      <4>9. QED
        BY <4>6, <4>7, <4>8
    <3>5. CASE ~ \E l \in Parsed(h) : l.id = i
      <4>1. Trying(i)' \subseteq Trying(i) /\ Pending(i)' \subseteq Pending(i)
        <5>1. h \notin Trying(i)' /\ h \notin Pending(i)'
          BY <2>2, <2>3, <3>5 DEF Trying, Pending
        <5>2. QED
          BY <1>1, <5>1 DEF Trying, Pending, Busy, Parsed
      <4>2. /\ Cardinality(Trying(i)') <= Cardinality(Trying(i))
            /\ Cardinality(Pending(i)') <= Cardinality(Pending(i))
        BY <1>4, <4>1, Smaller
      <4>3. inserted'[i] = inserted[i]
        BY <2>1, <3>5 DEF Add
      <4>4. ~refused => inserted[i] + Cardinality(Trying(i)') <= faults + (IF Fresh(i)' THEN 0 ELSE 1)
        <5>1. CASE Fresh(i)
          BY <1>5, <3>1, <3>3, <4>2, <5>1
        <5>2. CASE ~Fresh(i)
          BY <1>5, <2>4, <3>1, <3>3, <4>2, <5>2
        <5>3. QED
          BY <5>1, <5>2
      <4>5. inserted[i] = MaxCopies \/ counted[i] + Cardinality(Pending(i)') <= inserted[i]
        BY <1>5, <3>1, <3>3, <4>2
      <4>6. QED
        BY <3>1, <4>3, <4>4, <4>5
    <3>6. QED
      BY <3>4, <3>5
  <2>6. TriesInv' /\ CountsInv'
    <3>1. MaxCopies' = MaxCopies /\ \A i \in Ids : counted[i] <= MaxCopies
      BY DEF CountInv, CountParts, CountsInv, MaxCopies
    <3>2. QED
      BY <2>1, <2>5, <3>1 DEF TriesInv, CountsInv
  <2>7. QED
    BY <1>2, <1>3, <2>6 DEF CountParts
<1>10. ASSUME NEW c \in Counters, UpdateRollup(h, c)
       PROVE  CountParts'
  <2>1. /\ inserted' = inserted /\ faults' = faults /\ refused' = refused
        /\ counted' = Add(counted, OfCounter(Parsed(h), c))
        /\ request[h].at = "COUNT" /\ c \in request[h].left
    BY <1>10 DEF UpdateRollup
  <2>2. /\ request'[h].at \in {"COUNT", "TOTAL"} /\ request'[h].ok = request[h].ok
        /\ request'[h].left = request[h].left \ {c}
    <3> DEFINE r == [request[h] EXCEPT !.left = @ \ {c},
                       !.at = IF request[h].left = {c} THEN "TOTAL" ELSE "COUNT"]
    <3>1. request' = [request EXCEPT ![h] = r]
      BY <1>10 DEF UpdateRollup
    <3>2. r.left = request[h].left \ {c} /\ r.at \in {"COUNT", "TOTAL"} /\ r.ok = request[h].ok
      BY DEF CountInv, IInv, TypeOK, Requests
    <3> HIDE DEF r
    <3>3. QED
      BY <3>1, <3>2 DEF CountInv, IInv, TypeOK
  <2>3. \A i : Trying(i)' \subseteq Trying(i) /\ Pending(i)' \subseteq Pending(i)
    BY <1>1, <2>1, <2>2 DEF Trying, Pending, Busy, Parsed
  <2>4. TriesInv'
    BY <1>7, <2>1, <2>2, <2>3, TriesQuiet
  <2>5. ASSUME NEW i \in Ids
        PROVE  /\ counted'[i] <= MaxCopies
               /\ inserted[i] = MaxCopies
                    \/ counted'[i] + Cardinality(Pending(i)') <= inserted[i]
    <3>1. /\ counted[i] <= MaxCopies /\ MaxCopies \in Nat
          /\ inserted[i] = MaxCopies \/ counted[i] + Cardinality(Pending(i)) <= inserted[i]
      BY ShippingAssumption DEF CountInv, CountParts, CountsInv, MaxCopies
    <3>2. IsFiniteSet(Pending(i)')
      BY <1>3, FS_Subset DEF CarriedOnce, Pending
    <3>3. Cardinality(Pending(i)) \in Nat /\ Cardinality(Pending(i)') \in Nat
      BY <1>4, <3>2, FS_CardinalityType
    <3>4. CASE \E l \in OfCounter(Parsed(h), c) : l.id = i
      <4>1. PICK l \in Parsed(h) : l.counter = c /\ l.id = i
        BY <3>4 DEF OfCounter
      <4>2. h \in Pending(i)
        BY <1>1, <2>1, <4>1 DEF Pending, Busy
      <4>3. \A m \in Parsed(h) : m.id = i => m = l
        BY <4>1 DEF Parsed, CountInv, CountParts, CarriedOnce
      <4>4. h \notin Pending(i)'
        BY <1>1, <2>2, <4>1, <4>3 DEF Pending, Parsed
      <4>5. Cardinality(Pending(i)') + 1 <= Cardinality(Pending(i))
        BY <1>4, <2>3, <4>2, <4>4, OneLess
      <4>6. counted'[i] = IF counted[i] < MaxCopies THEN counted[i] + 1 ELSE counted[i]
        BY <2>1, <3>4 DEF Add
      <4>7. QED
        BY <1>5, <3>1, <3>3, <4>5, <4>6
    <3>5. CASE ~ \E l \in OfCounter(Parsed(h), c) : l.id = i
      <4>1. counted'[i] = counted[i]
        BY <2>1, <3>5 DEF Add
      <4>2. Cardinality(Pending(i)') <= Cardinality(Pending(i))
        BY <1>4, <2>3, Smaller
      <4>3. QED
        BY <1>5, <3>1, <3>3, <4>1, <4>2
    <3>6. QED
      BY <3>4, <3>5
  <2>6. CountsInv'
    <3>1. MaxCopies' = MaxCopies /\ \A i \in Ids : inserted[i] <= MaxCopies
      BY DEF CountInv, CountParts, CountsInv, MaxCopies
    <3>2. QED
      BY <2>1, <2>5, <3>1 DEF CountsInv
  <2>7. QED
    BY <1>2, <1>3, <2>4, <2>6 DEF CountParts
<1>11. QED
  BY <1>6, <1>8, <1>9, <1>10

\* Nothing was sent at first.
LEMMA CountInit == Init => CountParts
<1> SUFFICES ASSUME Init PROVE CountParts
  OBVIOUS
<1>1. Busy = {} /\ \A i : Trying(i) = {} /\ Pending(i) = {}
  BY DEF Init, Busy, Trying, Pending, NoRequest
<1>2. Cardinality({}) = 0 /\ IsFiniteSet({})
  BY FS_EmptySet
<1>3. IdsInv /\ TextInv
  BY DEF Init, IdsInv, TextInv, Ends, Sending, Idle
<1>4. CarriedOnce
  BY <1>1, <1>2 DEF Init, CarriedOnce, NoRequest
<1>5. TriesInv /\ CountsInv
  <2>1. MaxCopies \in Nat
    BY ShippingAssumption DEF MaxCopies
  <2>2. \A i \in Ids : inserted[i] = 0 /\ counted[i] = 0 /\ faults = 0
    BY DEF Init
  <2>3. QED
    BY <1>1, <1>2, <2>1, <2>2 DEF TriesInv, CountsInv, Fresh
<1>6. QED
  BY <1>3, <1>4, <1>5 DEF CountParts

\* Every step keeps the counts.
LEMMA CountNext == CountInv /\ [Next]_vars => CountInv'
<1> SUFFICES ASSUME CountInv, [Next]_vars PROVE CountInv'
  OBVIOUS
<1>1. IInv' /\ TypeOK'
  BY InvNext DEF CountInv, IInv
<1>2. CASE SquidStep
  <2>1. IdsInv' /\ TextInv' /\ \A i \in Ids : Fresh(i)' => Fresh(i)
    BY <1>1, <1>2, IdsSquid DEF SquidStep
  <2>2. UNCHANGED <<request, inserted, counted, refused, faults>>
    BY <1>2 DEF SquidStep, BeginLine, EndLine, Rotate, WriteUnit, tables
  <2>3. CarriedOnce' /\ CountsInv'
    BY <2>2, CarriedQuiet, CountsQuiet DEF Pending, Busy, Parsed
  <2>4. TriesInv'
    BY <1>1, <2>1, <2>2, TriesQuiet DEF Trying, Busy
  <2>5. QED
    BY <1>1, <2>1, <2>3, <2>4 DEF CountInv, CountParts
<1>3. CASE ShipStep
  BY <1>1, <1>3, StatKeeps, ReadKeeps, SaveKeeps, PostKeeps, AnsweredKeeps DEF ShipStep, CountInv
<1>4. CASE AnswerLost \/ SaveFails \/ AgentRestarts \/ Enrols
  BY <1>1, <1>4, AgentBreaks DEF CountInv
<1>5. CASE ApiStep \/ \E h \in Handlers : StatementFails(h)
  <2>1. PICK h \in Handlers :
          \/ Refuse(h) \/ InsertEvents(h) \/ AddTotals(h) \/ StatementFails(h)
          \/ \E c \in Counters : UpdateRollup(h, c)
    BY <1>5 DEF ApiStep
  <2>2. ApiFrame(h)
    BY <2>1, ApiFrames DEF CountInv, IInv
  <2>3. QED
    BY <1>1, <2>1, <2>2, ApiCounts DEF CountInv
<1>6. CASE UNCHANGED vars
  <2>1. UNCHANGED <<file, generation, lines, cycle, offset, request, inserted, counted, refused,
                    faults>>
    BY <1>6 DEF vars, logVars, agentVars, tables
  <2>2. IdsInv' /\ TextInv' /\ CarriedOnce'
    BY <2>1 DEF CountInv, CountParts, IdsInv, TextInv, CarriedOnce, Ends, Sending, Busy
  <2>3. \A i : Trying(i)' = Trying(i) /\ Pending(i)' = Pending(i) /\ (Fresh(i)' => Fresh(i))
    BY <2>1 DEF Trying, Pending, Busy, Parsed, Fresh, FailedAnswer, Behind, Sending
  <2>4. TriesInv' /\ CountsInv'
    BY <1>1, <2>1, <2>3, TriesQuiet, CountsQuiet
  <2>5. QED
    BY <1>1, <2>2, <2>4 DEF CountInv, CountParts
<1>7. QED
  BY <1>2, <1>3, <1>4, <1>5, <1>6 DEF Next, Failure

\* The counters are never ahead of the events they summarise, and without a
\* refused line no line is inserted more than once for each thing that broke,
\* and once besides.
THEOREM CountedAsOftenAsTried == Spec => []CountedOncePerTry
<1>1. Init => CountInv
  BY InvInit, CountInit DEF CountInv
<1>2. CountInv => CountedOncePerTry
  <2> SUFFICES ASSUME CountInv, NEW i \in Ids
               PROVE  counted[i] <= inserted[i] /\ (~refused => inserted[i] <= 1 + faults)
    BY DEF CountedOncePerTry
  <2>1. Cardinality(Trying(i)) \in Nat /\ Cardinality(Pending(i)) \in Nat
    <3>1. IsFiniteSet(Trying(i)) /\ IsFiniteSet(Pending(i))
      BY FS_Subset DEF CountInv, CountParts, CarriedOnce, Trying, Pending
    <3>2. QED
      BY <3>1, FS_CardinalityType
  <2>2. inserted[i] \in Nat /\ counted[i] \in Nat /\ faults \in Nat
    BY DEF CountInv, IInv, TypeOK
  <2>3. counted[i] <= inserted[i]
    BY <2>1, <2>2 DEF CountInv, CountParts, CountsInv
  <2>4. ~refused => inserted[i] <= 1 + faults
    <3>1. ~refused => inserted[i] + Cardinality(Trying(i)) <= faults + (IF Fresh(i) THEN 0 ELSE 1)
      BY DEF CountInv, CountParts, TriesInv
    <3>2. QED
      BY <2>1, <2>2, <3>1
  <2>5. QED
    BY <2>3, <2>4
<1>3. QED
  BY <1>1, <1>2, CountNext, PTL DEF Spec

=============================================================================
