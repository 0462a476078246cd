----------------------------- MODULE LogShipping ----------------------------
(***************************************************************************)
(* How the access log of a node reaches the traffic tables: the agent      *)
(* reads forward from an offset it keeps in state.json (shipLogs in        *)
(* apps/agent/src/index.ts) and posts the lines in chunks; POST            *)
(* /agent/logs inserts the events, then adds to one counter after another, *)
(* then to the node's totals, each a statement of its own                  *)
(* (services/traffic.ts).  A chunk whose answer the agent does not get is  *)
(* sent again, and none of the statements is idempotent.                   *)
(*                                                                         *)
(* The file is a sequence of units.  A line has one unit or two: enough    *)
(* for a line that Squid has written half of, and for an offset that       *)
(* points into the middle of a line after the file was rotated.            *)
(***************************************************************************)
EXTENDS Naturals, Sequences, FiniteSets

CONSTANTS
  Handlers,      \* requests the API serves at once
  Counters,      \* hour, identity and decision: the keys of traffic_rollups
  Window,        \* MAX_READ_BYTES, in units
  Chunk,         \* MAX_LINES_PER_REQUEST
  MaxLines,      \* bound: lines Squid writes
  MaxRotations,  \* bound
  MaxFaults      \* bound: what breaks

ASSUME ShippingAssumption ==
  /\ Window \in Nat /\ Window >= 2    \* no line is longer than the window
  /\ Chunk \in Nat \ {0}
  /\ MaxLines \in Nat /\ MaxRotations \in Nat /\ MaxFaults \in Nat
  /\ Counters # {}

VARIABLES
  file,        \* the access log Squid writes to now
  generation,  \* history: how often it was rotated
  lines,       \* history: how many lines Squid has begun
  cycle,       \* where shipLogs stands, and what it has read
  offset,      \* state.logOffset in memory
  saved,       \* the same in state.json
  request,     \* the requests of the agent, in the API
  inserted,    \* history: the rows traffic_events got for a line
  counted,     \* history: how often a line was added to its counter
  outgrown,    \* history: a file has grown past the offset of the one before it
  refused,     \* history: a request was turned down as invalid
  faults

logVars == <<file, generation, lines>>
agentVars == <<cycle, offset, saved>>
tables == <<inserted, counted>>
vars == <<logVars, agentVars, request, tables, outgrown, refused, faults>>

-----------------------------------------------------------------------------
Ids == 1..MaxLines

\* READABLE lines parse, UNREADABLE ones do not, and a REFUSED one, longer
\* than logsSchema admits, fails the request it is part of.
Kinds == {"READABLE", "UNREADABLE", "REFUSED"}
Units == [id : Ids, kind : Kinds, counter : Counters, first : BOOLEAN, last : BOOLEAN]

\* What is left of a line whose beginning was not read is a line of its own to
\* the parser, which may take it for the older format.
Line == [id : Ids, kind : Kinds, counter : Counters]

\* `of` is history: the generation in which the offset was taken.
Offsets == [pos : Nat, of : 0..MaxRotations]
Start == [pos |-> 0, of |-> 0]

Ends(s) == {k \in DOMAIN s : s[k].last}

\* from, size: the offset of this read, and what stat said.  text: what was
\* read, up to its last newline.  todo: the lines of it not posted yet, each
\* by its last unit.  of: history, the generation that was read.
Cycles ==
  [at : {"poll", "read", "post", "wait", "save"}, from : Nat, size : Nat,
   text : Seq(Units), todo : SUBSET Nat, of : 0..MaxRotations]
Idle == [at |-> "poll", from |-> 0, size |-> 0, text |-> <<>>, todo |-> {}, of |-> 0]

Requests ==
  [at : {"IDLE", "INSERT", "COUNT", "TOTAL", "ANSWER"}, lines : SUBSET Line,
   left : SUBSET Counters, ok : BOOLEAN, awaited : BOOLEAN]
NoRequest == [at |-> "IDLE", lines |-> {}, left |-> {}, ok |-> FALSE, awaited |-> FALSE]

\* The first cycle of a node that has just enrolled.
Init ==
  /\ file = <<>> /\ generation = 0 /\ lines = 0
  /\ cycle = Idle /\ offset = Start /\ saved = Start
  /\ request = [h \in Handlers |-> NoRequest]
  /\ inserted = [l \in Ids |-> 0] /\ counted = [l \in Ids |-> 0]
  /\ outgrown = FALSE /\ refused = FALSE /\ faults = 0
-----------------------------------------------------------------------------
(* Squid.                                                                  *)

Between == Len(file) \in Ends(file) \cup {0}

WriteUnit(u) ==
  /\ file' = Append(file, u)
  /\ UNCHANGED <<generation, agentVars, request, tables, outgrown, refused, faults>>

BeginLine(kind, counter, whole) ==
  /\ Between /\ lines < MaxLines
  /\ WriteUnit([id |-> lines + 1, kind |-> kind, counter |-> counter,
                first |-> TRUE, last |-> whole])
  /\ lines' = lines + 1

EndLine ==
  /\ ~Between
  /\ WriteUnit([file[Len(file)] EXCEPT !.first = FALSE, !.last = TRUE])
  /\ UNCHANGED lines

Rotate ==
  /\ Between /\ generation < MaxRotations
  /\ file' = <<>>
  /\ generation' = generation + 1
  /\ UNCHANGED <<lines, agentVars, request, tables, outgrown, refused, faults>>

-----------------------------------------------------------------------------
(* shipLogs, at the end of every poll.                                     *)

\* Mutant: a file that shrank is read on from the old offset.
ReadOn == offset.pos

\* A file that shrank was rotated.
ReadFrom == IF Len(file) < offset.pos THEN 0 ELSE offset.pos

\* The offset was taken in a file that is gone, and nothing shows it.
Unnoticed == ReadFrom > 0 /\ offset.of # generation

Stat ==
  /\ cycle.at = "poll"
  /\ outgrown' = (outgrown \/ Unnoticed)
  /\ IF Len(file) = ReadFrom
       THEN outgrown' # outgrown /\ UNCHANGED cycle
       ELSE cycle' = [Idle EXCEPT !.at = "read", !.from = ReadFrom, !.size = Len(file)]
  /\ UNCHANGED <<logVars, offset, saved, request, tables, refused, faults>>

\* Mutant: the last unit that stat saw is left for the next cycle.
EndsBeforeSize ==
  {k \in Ends(file) : cycle.from < k /\ k < cycle.size /\ k <= cycle.from + Window}

\* The file may have been rotated since stat: what is not there is not read.
EndsInWindow ==
  {k \in Ends(file) : cycle.from < k /\ k <= cycle.size /\ k <= cycle.from + Window}

ReadUpTo(last) ==
  LET text == SubSeq(file, cycle.from + 1, last)
  IN  [cycle EXCEPT !.at = "post", !.text = text, !.todo = Ends(text), !.of = generation]

Read ==
  /\ cycle.at = "read"
  /\ \/ EndsInWindow = {} /\ cycle' = Idle /\ UNCHANGED outgrown
     \/ \E last \in EndsInWindow :
          /\ \A k \in EndsInWindow : k <= last
          /\ cycle' = ReadUpTo(last)
          /\ outgrown' = (outgrown \/ (cycle.from > 0 /\ offset.of # generation))
  /\ UNCHANGED <<logVars, offset, saved, request, tables, refused, faults>>

\* A line without its beginning parses or does not, whatever it was.
Whole(k) == cycle.text[k].first \/ k > 1
Seen(k, kind) ==
  [id |-> cycle.text[k].id, kind |-> IF Whole(k) THEN cycle.text[k].kind ELSE kind,
   counter |-> cycle.text[k].counter]

NextChunk == {k \in cycle.todo : Cardinality({j \in cycle.todo : j <= k}) <= Chunk}

Post(h, kind) ==
  /\ cycle.at = "post"
  /\ request[h].at = "IDLE"
  /\ request' = [request EXCEPT ![h] =
       [at |-> "INSERT", lines |-> {Seen(k, kind) : k \in NextChunk}, left |-> {},
        ok |-> FALSE, awaited |-> TRUE]]
  /\ cycle' = [cycle EXCEPT !.at = "wait", !.todo = @ \ NextChunk]
  /\ UNCHANGED <<logVars, offset, saved, tables, outgrown, refused, faults>>

\* Mutant: a chunk that failed does not end the cycle.
GoesOnAnyway(h) == TRUE
GoesOn(h) == request[h].ok

Answered(h) ==
  /\ request[h].at = "ANSWER"
  /\ request' = [request EXCEPT ![h] = NoRequest]
  /\ cycle' = IF ~request[h].awaited THEN cycle
              ELSE IF ~GoesOn(h) THEN Idle
              ELSE [cycle EXCEPT !.at = IF cycle.todo = {} THEN "save" ELSE "post"]
  /\ UNCHANGED <<logVars, offset, saved, tables, outgrown, refused, faults>>

\* Mutant: the newline that split does not return is not counted.
NewOffsetShort == [pos |-> cycle.from + Len(cycle.text) - 1, of |-> cycle.of]
NewOffset == [pos |-> cycle.from + Len(cycle.text), of |-> cycle.of]

Save ==
  /\ cycle.at = "save"
  /\ offset' = NewOffset /\ saved' = NewOffset
  /\ cycle' = Idle
  /\ UNCHANGED <<logVars, request, tables, outgrown, refused, faults>>

ShipStep ==
  \/ Stat \/ Read \/ Save
  \/ \E h \in Handlers : Answered(h) \/ \E kind \in {"READABLE", "UNREADABLE"} : Post(h, kind)

-----------------------------------------------------------------------------
(* POST /agent/logs.                                                       *)

Parsed(h) == {l \in request[h].lines : l.kind = "READABLE"}
Invalid(h) == \E l \in request[h].lines : l.kind = "REFUSED"
OfCounter(L, c) == {l \in L : l.counter = c}

\* Bound: a chunk next to a refused line is inserted at every poll for ever.
MaxCopies == 2 + MaxFaults
Add(rows, L) ==
  [i \in Ids |-> IF (\E l \in L : l.id = i) /\ rows[i] < MaxCopies THEN rows[i] + 1 ELSE rows[i]]

Refuse(h) ==
  /\ request[h].at = "INSERT" /\ Invalid(h)
  /\ request' = [request EXCEPT ![h].at = "ANSWER"]
  /\ refused' = TRUE
  /\ UNCHANGED <<logVars, agentVars, tables, outgrown, faults>>

\* insertEvents: one statement, skipped when no line parses.
InsertEvents(h) ==
  /\ request[h].at = "INSERT" /\ ~Invalid(h)
  /\ inserted' = Add(inserted, Parsed(h))
  /\ request' = [request EXCEPT ![h].at = IF Parsed(h) = {} THEN "TOTAL" ELSE "COUNT",
                                ![h].left = {l.counter : l \in Parsed(h)}]
  /\ UNCHANGED <<logVars, agentVars, counted, outgrown, refused, faults>>

\* updateRollups: one statement for each counter of the batch.
UpdateRollup(h, c) ==
  /\ request[h].at = "COUNT" /\ c \in request[h].left
  /\ counted' = Add(counted, OfCounter(Parsed(h), c))
  /\ request' = [request EXCEPT ![h].left = @ \ {c},
                                ![h].at = IF request[h].left = {c} THEN "TOTAL" ELSE "COUNT"]
  /\ UNCHANGED <<logVars, agentVars, inserted, outgrown, refused, faults>>

\* The totals of node_log_state and last_seen_at are written and not kept here.
AddTotals(h) ==
  /\ request[h].at = "TOTAL"
  /\ request' = [request EXCEPT ![h].at = "ANSWER", ![h].ok = TRUE]
  /\ UNCHANGED <<logVars, agentVars, tables, outgrown, refused, faults>>

ApiStep ==
  \E h \in Handlers :
    \/ Refuse(h) \/ InsertEvents(h) \/ AddTotals(h)
    \/ \E c \in Counters : UpdateRollup(h, c)

-----------------------------------------------------------------------------
(* What breaks.                                                            *)

Breaks == faults < MaxFaults /\ faults' = faults + 1

\* A statement fails, or the API's connection to the database does.
StatementFails(h) ==
  /\ Breaks
  /\ request[h].at \in {"INSERT", "COUNT", "TOTAL"}
  /\ request' = [request EXCEPT ![h].at = "ANSWER"]
  /\ UNCHANGED <<logVars, agentVars, tables, outgrown, refused>>

GiveUp == [h \in Handlers |-> [request[h] EXCEPT !.awaited = FALSE]]

\* The agent stops waiting, and the API does not notice.
AnswerLost ==
  /\ Breaks
  /\ cycle.at = "wait"
  /\ cycle' = Idle
  /\ request' = GiveUp
  /\ UNCHANGED <<logVars, offset, saved, tables, outgrown, refused>>

\* A state.json that was cut short is not read again: the node has to enrol,
\* and the state that enrol writes has no offset.
SaveFails ==
  /\ Breaks
  /\ cycle.at = "save"
  /\ offset' = NewOffset
  /\ saved' \in {saved, Start}
  /\ cycle' = Idle
  /\ UNCHANGED <<logVars, request, tables, outgrown, refused>>

AgentRestarts ==
  /\ Breaks
  /\ offset' = saved
  /\ cycle' = Idle
  /\ request' = GiveUp
  /\ UNCHANGED <<logVars, saved, tables, outgrown, refused>>

\* The credential was revoked, and the agent has another token.
Enrols ==
  /\ Breaks
  /\ cycle.at = "poll"
  /\ offset' = Start /\ saved' = Start
  /\ UNCHANGED <<logVars, cycle, request, tables, outgrown, refused>>

Failure ==
  \/ AnswerLost \/ SaveFails \/ AgentRestarts \/ Enrols
  \/ \E h \in Handlers : StatementFails(h)

SquidStep ==
  \/ EndLine \/ Rotate
  \/ \E kind \in Kinds, c \in Counters, whole \in BOOLEAN : BeginLine(kind, c, whole)

Next == SquidStep \/ ShipStep \/ ApiStep \/ Failure

Spec == Init /\ [][Next]_vars

\* The agent polls for ever, and the API answers what reaches it.
FairSpec == Spec /\ WF_vars(ShipStep) /\ WF_vars(ApiStep)

-----------------------------------------------------------------------------
(* Properties.                                                             *)

TypeOK ==
  /\ file \in Seq(Units) /\ generation \in 0..MaxRotations /\ lines \in 0..MaxLines
  /\ cycle \in Cycles
  /\ cycle.at # "poll" => cycle.from < cycle.size
  /\ cycle.todo \subseteq DOMAIN cycle.text
  /\ offset \in Offsets /\ saved \in Offsets
  /\ request \in [Handlers -> Requests]
  /\ inserted \in [Ids -> Nat] /\ counted \in [Ids -> Nat]
  /\ outgrown \in BOOLEAN /\ refused \in BOOLEAN
  /\ faults \in 0..MaxFaults

\* What the tables know of a line.  Unreadable lines have no row, only a number.
Known(u) == u.kind # "UNREADABLE" => counted[u.id] > 0

\* The agent never moves past a line that was not counted, however chunks,
\* answers, statements, restarts and rotations fall: every line of the file
\* that lies behind the offset, the one in memory and the one in state.json,
\* is in the counters.  The exception is a file that grew past the offset of
\* its predecessor before the agent looked, which no offset can tell.
NothingSkipped ==
  ~outgrown =>
    \A o \in {offset, saved} : o.of = generation =>
      \A i \in Ends(file) : i <= o.pos => Known(file[i])

\* Counters and rows err on one side only: a line is never in the counters
\* more often than in the events they summarise, and it is in either more
\* than once only when something broke, at most once more for each time.  A
\* refused line voids the second part: what was read with it is sent for ever.
CountedOncePerTry ==
  \A i \in Ids : counted[i] <= inserted[i] /\ (~refused => inserted[i] <= 1 + faults)

\* When Squid is done and the failures are over, every complete line of the
\* file reaches the counters, unless the file holds a line the API refuses,
\* which is sent for ever together with what shares its chunk.
Drains ==
  <>[](~outgrown /\ (\A i \in DOMAIN file : file[i].kind # "REFUSED")
         => \A i \in Ends(file) : Known(file[i]))
=============================================================================
