--------------------------- MODULE NodeAgentProofs --------------------------
(***************************************************************************)
(* Proofs about NodeAgent: its types, the soundness of the UNCHANGED       *)
(* shortcut, that nothing rejected is ever served, that reports of success *)
(* are true, and that the agent implements ProxyService.  All of them hold *)
(* for any bundles and artefacts, and any number of policy changes and     *)
(* failures.                                                               *)
(***************************************************************************)
EXTENDS NodeAgent, TLAPS

\* The position of the loop ties the files, the Squid process and the agent's
\* memory to the bundle of the cycle.
CycleInv ==
  /\ pc \in {"install", "launch"} => published[got] \notin Rejected
  /\ pc = "launch" => conf = got
  /\ pc = "settle" /\ Up => squid.conf = got
  /\ pc = "save" => applied = published[got]
  /\ pc = "report" /\ result \in {"APPLIED", "UNCHANGED"} => applied = published[got]

\* The same for the artefacts: written by this cycle, and loaded with squid.conf.
FilesInv ==
  /\ pc = "write" => \A f \in Files \ todo : art[f] = got
  /\ pc \in {"install", "launch", "settle", "save"} => \A f \in Files : art[f] = got
  /\ pc = "report" /\ result = "APPLIED" => \A f \in Files : art[f] = got
  /\ Up /\ pc \in {"settle", "save"} => \A f \in Files : squid.art[f] = got
  /\ Up /\ pc = "report" /\ result = "APPLIED" => \A f \in Files : squid.art[f] = got

\* Cycles work on ever later versions.
OrderInv == squid.conf <= newest /\ newest <= got

\* The loop waits for one call at a time, and goes on only when that one ends.
CallInv ==
  /\ \A r \in calls : r.awaited => pc = "await"
  /\ \A r, q \in calls : r.awaited /\ q.awaited => r = q

Parts ==
  CycleInv /\ FilesInv /\ OrderInv /\ CallInv /\ AppliedIsServed /\ OnlyValidated

\* AppliedIsServed and OnlyValidated are not inductive by themselves: whether
\* a launch may happen, and on which files, is decided steps earlier.
IInv == TypeOK /\ Parts

-----------------------------------------------------------------------------
\* Appending to the history leaves every earlier version what it was.
LEMMA HistoryKept ==
  ASSUME NEW s \in Seq(Bundles), NEW b \in Bundles
  PROVE  /\ Append(s, b) \in Seq(Bundles)
         /\ Len(Append(s, b)) = Len(s) + 1
         /\ \A i \in 1..Len(s) : Append(s, b)[i] = s[i]
  OBVIOUS

\* A version that exists is a bundle.
LEMMA VersionIsBundle ==
  ASSUME NEW s \in Seq(Bundles), NEW i \in 1..Len(s)
  PROVE  s[i] \in Bundles
  OBVIOUS

\* An artefact that a failed write cut short.
LEMMA CutShortFile ==
  TypeOK => \A f \in todo : [art EXCEPT ![f] = 0] \in [Files -> 0..Len(published)]
  BY NodeAgentAssumption DEF TypeOK

\* The types hold on a node that was just enrolled.
LEMMA TypeInit == Init => TypeOK
  <1> SUFFICES ASSUME Init PROVE TypeOK
    OBVIOUS
  <1>1. PICK b \in Bundles : published = <<b>>
    BY DEF Init
  <1>2. published \in Seq(Bundles) /\ Len(published) = 1
    BY <1>1
  <1> QED
    BY <1>2, NodeAgentAssumption
    DEF Init, TypeOK, Versions, Hash, Results, Report, Down

\* Every step of the agent, the API, Squid and the failures keeps the types.
LEMMA TypeNext == TypeOK /\ [Next]_vars => TypeOK'
  <1> SUFFICES ASSUME TypeOK, [Next]_vars PROVE TypeOK'
    OBVIOUS
  <1> USE NodeAgentAssumption DEF credVars
  <1>1. ASSUME NEW b \in Bundles, Publish(b) PROVE TypeOK'
    <2>1. /\ published' \in Seq(Bundles)
          /\ Len(published') = Len(published) + 1
      BY <1>1, HistoryKept DEF Publish, TypeOK
    <2> QED
      BY <1>1, <2>1
      DEF Publish, TypeOK, Versions, agentVars, diskVars, squidVars, apiVars
  <1>2. CASE Fetch
    BY <1>2 DEF Fetch, TypeOK, Versions, Results, diskVars, squidVars, apiVars
  <1>3. ASSUME NEW f \in Files, WriteArtefact(f) PROVE TypeOK'
    BY <1>3 DEF WriteArtefact, TypeOK, Versions, squidVars, apiVars
  <1>4. CASE Validate
    BY <1>4 DEF Validate, Finish, TypeOK, Versions, Results, diskVars, squidVars, apiVars
  <1>5. CASE Install
    BY <1>5 DEF Install, TypeOK, Versions, squidVars, apiVars
  <1>6. CASE Start
    BY <1>6 DEF Start, Load, TypeOK, Versions, diskVars, apiVars
  <1>7. CASE Settle
    <2>1. published[got] \in Hash
      BY VersionIsBundle DEF TypeOK, Versions, Hash
    <2> QED
      BY <1>7, <2>1
      DEF Settle, Finish, TypeOK, Versions, Results, diskVars, squidVars, apiVars
  <1>8. CASE Reconfigure
    <2>1. published[got] \in Hash
      BY VersionIsBundle DEF TypeOK, Versions, Hash
    <2> QED
      BY <1>8, <2>1 DEF Reconfigure, Load, TypeOK, Versions, diskVars, apiVars
  <1>9. CASE SaveState
    BY <1>9 DEF SaveState, Finish, TypeOK, Versions, Results, diskVars, squidVars, apiVars
  <1>10. CASE SendReport
    <2>1. ReportOf(result, published[got], Up) \in Report
      BY VersionIsBundle DEF TypeOK, Versions, ReportOf, Report, Results, Hash, Up
    <2> QED
      BY <1>10, <2>1 DEF SendReport, TypeOK, Versions, diskVars, squidVars
  <1>11. ASSUME NEW r \in calls, UpdateNode(r) PROVE TypeOK'
    <2>1. r \in Report
      BY <1>11 DEF TypeOK
    <2>2. [r EXCEPT !.step = "heartbeat"] \in Report
      BY <2>1 DEF Report
    <2>3. calls' \subseteq Report
      BY <1>11, <2>2 DEF UpdateNode, TypeOK
    <2>4. node' \in [status : {"HEALTHY", "DEGRADED", "UNKNOWN"},
                     applyResult : (Results \ {"UNCHANGED"}) \cup {"NONE"},
                     lastError : BOOLEAN]
      BY <1>11, <2>1 DEF UpdateNode, TypeOK, Report, Results, StatusOf, Failed
    <2> QED
      BY <1>11, <2>3, <2>4
      DEF UpdateNode, TypeOK, Versions, agentVars, diskVars, squidVars
  <1>12. ASSUME NEW r \in calls, UpsertHeartbeat(r) PROVE TypeOK'
    BY <1>12
    DEF UpsertHeartbeat, EndCall, TypeOK, Versions, Report, Hash, diskVars, squidVars
  <1>13. CASE Enrol
    BY <1>13 DEF Enrol, Enrolled, TypeOK, Versions, Hash, diskVars, squidVars
  <1>14. CASE WriteFails
    <2>1. UNCHANGED art => art' \in [Files -> 0..Len(published)]
      BY DEF TypeOK
    <2>2. (\E f \in todo : art' = [art EXCEPT ![f] = 0])
            => art' \in [Files -> 0..Len(published)]
      BY CutShortFile
    <2>3. art' \in [Files -> 0..Len(published)]
      BY <1>14, <2>1, <2>2 DEF WriteFails, TypeOK
    <2> QED
      BY <1>14, <2>3
      DEF WriteFails, Finish, Fault, TypeOK, Versions, Results, squidVars, apiVars
  <1>15. CASE InstallFails
    BY <1>15 DEF InstallFails, Fault, TypeOK, Versions, squidVars, apiVars
  <1>16. CASE ReconfigureFails
    BY <1>16
    DEF ReconfigureFails, Finish, Fault, TypeOK, Versions, Results, diskVars, squidVars,
        apiVars
  <1>17. CASE SaveFails
    BY <1>17 DEF SaveFails, Fault, TypeOK, Versions, diskVars, squidVars, apiVars
  <1>18. CASE ReportLost
    BY <1>18 DEF ReportLost, Fault, TypeOK, Versions, diskVars, squidVars, apiVars
  <1>19. {[r EXCEPT !.awaited = FALSE] : r \in calls} \subseteq Report
    <2>1. ASSUME NEW r \in Report PROVE [r EXCEPT !.awaited = FALSE] \in Report
      BY <2>1 DEF Report
    <2> QED
      BY <2>1 DEF TypeOK
  <1>20. CASE ReportAbandoned
    BY <1>19, <1>20 DEF ReportAbandoned, Fault, TypeOK, Versions, diskVars, squidVars
  <1>21. ASSUME NEW r \in calls, CallFails(r) PROVE TypeOK'
    BY <1>21 DEF CallFails, EndCall, Fault, TypeOK, Versions, diskVars, squidVars
  <1>22. CASE SquidExits
    BY <1>22
    DEF SquidExits, Down, Fault, TypeOK, Versions, agentVars, diskVars, apiVars
  <1>23. CASE Crash
    <2>1. /\ conf' \in 0..Len(published)
          /\ art' \in [Files -> 0..Len(published)]
          /\ saved' \in Hash \cup {Torn}
      <3>1. \A f \in todo : [art EXCEPT ![f] = 0] \in [Files -> 0..Len(published)]
        BY CutShortFile
      <3>2. /\ conf \in 0..Len(published) /\ 0 \in 0..Len(published)
            /\ art \in [Files -> 0..Len(published)]
            /\ saved \in Hash \cup {Torn} /\ Torn \in Hash \cup {Torn}
        BY DEF TypeOK
      <3>3. TornFiles
        BY <1>23 DEF Crash
      <3> QED
        BY <3>1, <3>2, <3>3, Zenon DEF TornFiles, diskVars
    <2>2. /\ pc' \in {"poll", "enrol"} /\ applied' \in Hash
          /\ key' \in BOOLEAN /\ token' \in BOOLEAN
      BY <1>23, <2>1 DEF Crash, Boot, Hash, TypeOK
    <2>3. squid' \in [conf : 0..Len(published), art : [Files -> 0..Len(published)]]
      BY <1>23 DEF Crash, Down, TypeOK
    <2> QED
      BY <1>19, <1>23, <2>1, <2>2, <2>3 DEF Crash, Fault, TypeOK, Versions
  <1>24. ASSUME NEW f \in Files, HelperStarts(f) PROVE TypeOK'
    BY <1>24
    DEF HelperStarts, TypeOK, Versions, agentVars, diskVars, apiVars
  <1>25. CASE ReportRefused
    BY <1>25 DEF ReportRefused, TypeOK, Versions, diskVars, squidVars, apiVars
  <1>26. CASE Revoke
    <2>1. node' \in [status : {"HEALTHY", "DEGRADED", "UNKNOWN"},
                     applyResult : (Results \ {"UNCHANGED"}) \cup {"NONE"},
                     lastError : BOOLEAN]
      BY <1>26 DEF Revoke, TypeOK
    <2>2. /\ UNCHANGED <<published, agentVars, token, diskVars, squidVars, calls,
                          heartbeat>>
          /\ key' = FALSE
      BY <1>26 DEF Revoke
    <2>3. faults' \in 0..MaxFaults
      BY <1>26 DEF Revoke, Fault, TypeOK
    <2> QED
      BY <2>1, <2>2, <2>3 DEF TypeOK, Versions, agentVars, diskVars, squidVars
  <1>27. CASE EnrolFails
    <2>1. saved' \in Hash \cup {Torn}
      BY <1>27 DEF EnrolFails, TypeOK
    <2>2. node' \in [status : {"HEALTHY", "DEGRADED", "UNKNOWN"},
                     applyResult : (Results \ {"UNCHANGED"}) \cup {"NONE"},
                     lastError : BOOLEAN]
      BY <1>27 DEF EnrolFails, Enrolled, TypeOK
    <2> QED
      <3>1. /\ UNCHANGED <<published, pc, got, todo, result, applied, key, diskVars,
                            squidVars, calls, heartbeat>>
            /\ token' = FALSE
        BY <1>27 DEF EnrolFails
      <3>2. faults' \in 0..MaxFaults
        BY <1>27 DEF EnrolFails, Fault, TypeOK
      <3> QED
        BY <2>1, <2>2, <3>1, <3>2 DEF TypeOK, Versions, diskVars, squidVars
  <1>28. CASE Reissue
    <2>1. /\ pc' \in {"poll", "enrol"} /\ applied' \in Hash
          /\ key' \in BOOLEAN /\ saved' \in Hash \cup {Torn}
      BY <1>28 DEF Reissue, Boot, Hash, TypeOK
    <2>2. squid' \in [conf : 0..Len(published), art : [Files -> 0..Len(published)]]
      BY <1>28 DEF Reissue, Down, TypeOK
    <2> QED
      BY <1>28, <2>1, <2>2 DEF Reissue, TypeOK, Versions, diskVars, apiVars
  <1>29. CASE UNCHANGED vars
    BY <1>29 DEF vars, TypeOK, Versions, agentVars, diskVars, squidVars, apiVars
  <1> QED
    BY <1>1, <1>2, <1>3, <1>4, <1>5, <1>6, <1>7, <1>8, <1>9, <1>10, <1>11, <1>12, <1>13,
       <1>14, <1>15, <1>16, <1>17, <1>18, <1>20, <1>21, <1>22, <1>23, <1>24, <1>25, <1>26,
       <1>27, <1>28, <1>29
    DEF Next, ApplyStep, ApiStep, Failure

\* TypeOK: every variable keeps its type, for every number of bundles, files,
\* policy changes and failures.
THEOREM TypeCorrect == Spec => []TypeOK
  BY TypeInit, TypeNext, PTL DEF Spec

-----------------------------------------------------------------------------
\* Nobody waits for a call after the agent gave up or died.
LEMMA ForgottenCalls ==
  TypeOK => \A r \in {[c EXCEPT !.awaited = FALSE] : c \in calls} : ~r.awaited
  <1> SUFFICES ASSUME TypeOK, NEW c \in calls PROVE ~[c EXCEPT !.awaited = FALSE].awaited
    OBVIOUS
  <1>1. c \in Report
    BY DEF TypeOK
  <1> QED
    BY <1>1 DEF Report

\* The inductive step: what each point of the cycle knows follows from what the
\* one before it knew, and crashes and failed writes take nothing of it away.
LEMMA PartsNext == TypeOK /\ TypeOK' /\ Parts /\ [Next]_vars => Parts'
  <1> SUFFICES ASSUME TypeOK, TypeOK', Parts, [Next]_vars PROVE Parts'
    OBVIOUS
  <1> USE DEF Parts, TypeOK, Versions, Up, CycleInv, FilesInv, OrderInv, CallInv,
              AppliedIsServed, OnlyValidated
  <1>1. ASSUME NEW b \in Bundles, Publish(b) PROVE Parts'
    <2>1. \A i \in 1..Len(published) : published'[i] = published[i]
      BY <1>1, HistoryKept DEF Publish, TypeOK
    <2> QED
      BY <1>1, <2>1 DEF Publish, agentVars, diskVars, squidVars, apiVars
  <1>2. CASE Fetch
    BY <1>2 DEF Fetch, IsUnchanged, Desired, diskVars, squidVars, apiVars
  <1>3. ASSUME NEW f \in Files, WriteArtefact(f) PROVE Parts'
    BY <1>3 DEF WriteArtefact, squidVars, apiVars
  <1>4. CASE Validate
    BY <1>4 DEF Validate, Finish, diskVars, squidVars, apiVars
  <1>5. CASE Install
    BY <1>5 DEF Install, squidVars, apiVars
  <1>6. CASE Start
    BY <1>6 DEF Start, Load, diskVars, apiVars
  <1>7. CASE Settle
    BY <1>7 DEF Settle, Finish, diskVars, squidVars, apiVars
  <1>8. CASE Reconfigure
    BY <1>8 DEF Reconfigure, Load, diskVars, apiVars
  <1>9. CASE SaveState
    BY <1>9 DEF SaveState, Finish, diskVars, squidVars, apiVars
  <1>10. CASE SendReport
    BY <1>10 DEF SendReport, diskVars, squidVars
  <1>11. ASSUME NEW r \in calls, UpdateNode(r) PROVE Parts'
    <2>1. /\ calls' = (calls \ {r}) \cup {[r EXCEPT !.step = "heartbeat"]}
          /\ pc' = pc
      BY <1>11 DEF UpdateNode, agentVars
    <2>2. r \in Report
      BY <1>11
    <2>3. [r EXCEPT !.step = "heartbeat"].awaited = r.awaited
      BY <2>2 DEF Report
    <2>4. CallInv'
      BY <1>11, <2>1, <2>3
    <2> QED
      BY <1>11, <2>4 DEF UpdateNode, agentVars, diskVars, squidVars
  <1>12. ASSUME NEW r \in calls, UpsertHeartbeat(r) PROVE Parts'
    BY <1>12 DEF UpsertHeartbeat, EndCall, diskVars, squidVars
  <1>13. CASE Enrol
    BY <1>13 DEF Enrol, NeedsKey, diskVars, squidVars
  <1>14. CASE WriteFails
    BY <1>14 DEF WriteFails, Finish, squidVars, apiVars
  <1>15. CASE InstallFails
    BY <1>15 DEF InstallFails, squidVars, apiVars
  <1>16. CASE ReconfigureFails
    BY <1>16 DEF ReconfigureFails, Finish, diskVars, squidVars, apiVars
  <1>17. CASE SaveFails
    BY <1>17 DEF SaveFails, diskVars, squidVars, apiVars
  <1>18. CASE ReportLost
    BY <1>18 DEF ReportLost, diskVars, squidVars, apiVars
  <1>19. CASE ReportAbandoned
    <2>1. CallInv'
      BY <1>19, ForgottenCalls DEF ReportAbandoned
    <2> QED
      BY <1>19, <2>1 DEF ReportAbandoned, diskVars, squidVars
  <1>20. ASSUME NEW r \in calls, CallFails(r) PROVE Parts'
    BY <1>20 DEF CallFails, EndCall, diskVars, squidVars
  <1>21. CASE SquidExits
    BY <1>21 DEF SquidExits, Down, agentVars, diskVars, apiVars
  <1>22. CASE Crash
    <2>1. CallInv'
      BY <1>22, ForgottenCalls DEF Crash
    <2> QED
      BY <1>22, <2>1 DEF Crash, TornFiles, Boot, Down, diskVars
  <1>23. ASSUME NEW f \in Files, HelperStarts(f) PROVE Parts'
    BY <1>23 DEF HelperStarts, agentVars, diskVars, apiVars
  <1>24. CASE ReportRefused
    BY <1>24 DEF ReportRefused, diskVars, squidVars, apiVars
  <1>25. CASE Revoke
    BY <1>25 DEF Revoke, agentVars, diskVars, squidVars
  <1>26. CASE EnrolFails
    BY <1>26 DEF EnrolFails, NeedsKey, diskVars, squidVars
  <1>27. CASE Reissue
    BY <1>27 DEF Reissue, NeedsKey, Boot, Down, diskVars, apiVars
  <1>28. CASE UNCHANGED vars
    BY <1>28 DEF vars, agentVars, diskVars, squidVars, apiVars
  <1> QED
    BY <1>1, <1>2, <1>3, <1>4, <1>5, <1>6, <1>7, <1>8, <1>9, <1>10, <1>11, <1>12, <1>13,
       <1>14, <1>15, <1>16, <1>17, <1>18, <1>19, <1>20, <1>21, <1>22, <1>23, <1>24,
       <1>25, <1>26, <1>27, <1>28
    DEF Next, ApplyStep, ApiStep, Failure

\* Before the first cycle there is nothing to know.
LEMMA PartsInit == Init => Parts
  BY DEF Init, Parts, Up, Down, CycleInv, FilesInv, OrderInv, CallInv,
         AppliedIsServed, OnlyValidated

\* The inductive invariant behind the theorems below: types, and what each point
\* of the apply cycle knows of files, Squid process and memory.
THEOREM InductiveInvariant == Spec => []IInv
  <1>1. Init => IInv
    BY TypeInit, PartsInit DEF IInv
  <1>2. IInv /\ [Next]_vars => IInv'
    BY TypeNext, PartsNext DEF IInv
  <1> QED
    BY <1>1, <1>2, PTL DEF Spec

\* The UNCHANGED shortcut is sound: a Squid that runs has loaded the squid.conf
\* that state.appliedHash names, if it names one, so a poll that skips the apply skips
\* no squid.conf, after revocations and new enrolments under a running Squid as well.
THEOREM ShortcutSound == Spec => []AppliedIsServed
  <1>1. IInv => AppliedIsServed
    BY DEF IInv, Parts
  <1> QED
    BY <1>1, InductiveInvariant, PTL

\* No squid.conf that `squid -k parse` refuses becomes live or is served.
THEOREM NeverServesRejected == Spec => []OnlyValidated
  <1>1. IInv => OnlyValidated
    BY DEF IInv, Parts
  <1> QED
    BY <1>1, InductiveInvariant, PTL

\* A report of success is true at the moment it is sent: squid.conf for UNCHANGED
\* and APPLIED, every artefact as well for APPLIED.
THEOREM SuccessReportsAreTrue == Spec => SuccessIsServed
  <1>1. IInv /\ pc = "report" /\ Up /\ applied # NoBundle => published[squid.conf] = applied
    BY DEF IInv, Parts, AppliedIsServed
  <1>2. IInv /\ pc = "report" /\ result \in {"APPLIED", "UNCHANGED"}
          => applied = published[got] /\ applied # NoBundle
    BY VersionIsBundle, NodeAgentAssumption DEF IInv, Parts, CycleInv, TypeOK, Versions
  <1>3. IInv /\ pc = "report" /\ Up /\ result = "APPLIED"
          => \A f \in Files : squid.art[f] = got
    BY DEF IInv, Parts, FilesInv
  <1>4. IInv => (pc = "report" /\ pc' = "await" /\ Up =>
          /\ result \in {"APPLIED", "UNCHANGED"} => published[squid.conf] = published[got]
          /\ result = "APPLIED" => \A f \in Files : squid.art[f] = got)
    BY <1>1, <1>2, <1>3
  <1> QED
    BY <1>4, InductiveInvariant, PTL DEF SuccessIsServed

-----------------------------------------------------------------------------
(* NodeAgent implements ProxyService.                                      *)

\* A node that was just enrolled serves nothing, like the abstract one.
LEMMA ServiceInit == Init => Service!Init
  BY DEF Init, Down, Service!Init

\* Every step of NodeAgent publishes, serves, stops, or does nothing the abstract
\* specification sees.
LEMMA ServiceNext == IInv /\ [Next]_vars => [Service!Next]_Service!vars
  <1> SUFFICES ASSUME IInv, [Next]_vars PROVE [Service!Next]_Service!vars
    OBVIOUS
  <1> USE DEF Service!vars
  <1>1. ASSUME NEW b \in Bundles, Publish(b) PROVE Service!Next
    BY <1>1 DEF Publish, squidVars, Service!Next, Service!Publish
  <1>2. ASSUME UNCHANGED <<published, squidVars>> PROVE UNCHANGED Service!vars
    BY <1>2 DEF squidVars
  \* Loading takes over the live squid.conf, which a launch finds to be this
  \* cycle's, validated, and no older than anything loaded before.
  <1>3. ASSUME pc = "launch", Load, UNCHANGED published PROVE Service!Next
    <2>1. /\ conf = got /\ published[got] \notin Rejected
          /\ got \in 1..Len(published) /\ newest <= got
      BY <1>3 DEF IInv, Parts, CycleInv, OrderInv, TypeOK, Versions
    <2>2. Service!Serve(got)
      BY <1>3, <2>1 DEF Load, Service!Serve
    <2> QED
      BY <2>1, <2>2 DEF IInv, TypeOK, Service!Next
  <1>4. ASSUME squid' = Down, UNCHANGED <<published, newest>> PROVE Service!Next
    BY <1>4 DEF Down, Service!Next, Service!Stop
  <1>5. CASE ApplyStep
    <2>1. CASE Start \/ Reconfigure
      BY <1>3, <2>1 DEF Start, Reconfigure
    <2>2. CASE ~(Start \/ Reconfigure)
      BY <1>2, <1>5, <2>2
      DEF ApplyStep, Fetch, WriteArtefact, Validate, Install, Settle, SaveState, SendReport,
          ReportRefused
    <2> QED
      BY <2>1, <2>2
  <1>6. CASE ApiStep
    BY <1>2, <1>6 DEF ApiStep, UpdateNode, UpsertHeartbeat
  <1>7. CASE Enrol \/ Reissue
    BY <1>2, <1>4, <1>7 DEF Enrol, Reissue
  <1>8. CASE Failure
    <2>1. CASE SquidExits \/ Crash
      BY <1>4, <2>1 DEF SquidExits, Crash
    <2>2. CASE ~(SquidExits \/ Crash)
      BY <1>2, <1>8, <2>2
      DEF Failure, WriteFails, InstallFails, ReconfigureFails, SaveFails, ReportLost,
          ReportAbandoned, CallFails, Revoke, EnrolFails
    <2> QED
      BY <2>1, <2>2
  <1>9. ASSUME NEW f \in Files, HelperStarts(f) PROVE UNCHANGED Service!vars
    BY <1>9 DEF HelperStarts, IInv, TypeOK
  <1>10. CASE UNCHANGED vars
    BY <1>2, <1>10 DEF vars
  <1> QED
    BY <1>1, <1>5, <1>6, <1>7, <1>8, <1>9, <1>10 DEF Next

\* Whatever fails in between, a node serves only published and validated
\* versions, in the order in which they were published.
THEOREM Refinement == Spec => ImplementsService
  <1> QED
    BY ServiceInit, ServiceNext, InductiveInvariant, PTL
    DEF Spec, ImplementsService, Service!Spec
=============================================================================
