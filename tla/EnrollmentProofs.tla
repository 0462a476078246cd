-------------------------- MODULE EnrollmentProofs --------------------------
(***************************************************************************)
(* Proofs about Enrollment: types, and what its handlers guarantee when    *)
(* they do not overlap, for any number of handlers, tokens and keys.       *)
(***************************************************************************)
EXTENDS Enrollment, TLAPS

\* A handler that issues or enrols carries the token and key it works with.
CarriesInv ==
  \A h \in Handlers :
    /\ proc[h].op \in {"issue", "enrol"} => proc[h].tok \in Tokens
    /\ proc[h].op = "enrol" => proc[h].key \in Keys

\* Without overlap there is one handler at a time, and each statement finds
\* what the ones before it left.
SerialInv ==
  past # "overlapped" =>
    /\ \A h, g \in Handlers : Active(h) /\ Active(g) => h = g
    /\ \A h \in Handlers :
         /\ At(h, "issue", "insert") => open = {}
         /\ At(h, "enrol", "insert") => live = {}
         /\ proc[h].op = "enrol" /\ proc[h].pc \in {"mark", "revoke", "insert"}
              => minted[proc[h].tok] = 0
         /\ proc[h].op = "enrol" /\ proc[h].pc # "mark" => proc[h].tok \notin open
    /\ \A t \in open : minted[t] = 0

\* SerialSafe is not inductive by itself: that an insert finds no other live
\* credential rests on the revoke before it, in the same handler.
IInv == TypeOK /\ CarriesInv /\ SerialInv /\ SerialSafe

-----------------------------------------------------------------------------
\* What generateCredential returns: a token that is not open, and a key.
LEMMA FreshOnes ==
  /\ FreshTokens # {} => NewToken \in Tokens /\ NewToken \notin open
  /\ FreshKeys # {} => NewKey \in Keys
  <1>1. FreshTokens # {} => NewToken \in FreshTokens
    BY DEF NewToken
  <1>2. FreshKeys # {} => NewKey \in FreshKeys
    BY DEF NewKey
  <1> QED
    BY <1>1, <1>2 DEF FreshTokens, FreshKeys

\* The types hold before any handler runs.
LEMMA TypeInit == Init => TypeOK /\ CarriesInv
  <1> SUFFICES ASSUME Init PROVE TypeOK /\ CarriesInv
    OBVIOUS
  <1>1. proc \in [Handlers -> [op : {"idle", "issue", "enrol", "revoke", "status"},
                              pc : {"start", "supersede", "insert", "mark", "revoke",
                                    "update", "credentials", "node"},
                              tok : Tokens \cup {None}, key : Keys \cup {None}]]
    BY DEF Init, Idle
  <1>2. minted \in [Tokens -> Nat]
    BY DEF Init
  <1>3. exists \in BOOLEAN /\ enrolled \in BOOLEAN
    BY DEF Init
  <1>4. status \in {"UNKNOWN", "SEEN"} /\ past \in {"clean", "failed", "overlapped"}
    BY DEF Init
  <1>5. open \subseteq Tokens /\ live \subseteq Keys
    BY DEF Init
  <1>6. /\ agentKey \in Keys \cup {None} /\ env \in Tokens \cup {None}
        /\ waiting \in Handlers \cup {None}
    BY DEF Init
  <1>7. admin \in 0..MaxAdmin /\ faults \in 0..MaxFaults
    BY EnrollmentAssumption DEF Init
  <1>8. CarriesInv
    BY DEF Init, CarriesInv, Idle
  <1> QED
    BY <1>1, <1>2, <1>3, <1>4, <1>5, <1>6, <1>7, <1>8 DEF TypeOK

\* Every statement of every handler keeps the types.
LEMMA TypeNext == TypeOK /\ CarriesInv /\ [Next]_vars => TypeOK' /\ CarriesInv'
  <1> SUFFICES ASSUME TypeOK, CarriesInv, [Next]_vars PROVE TypeOK' /\ CarriesInv'
    OBVIOUS
  <1> USE EnrollmentAssumption, FreshOnes
      DEF TypeOK, CarriesInv, Idle, rowVars, agentVars, bounds
  <1>1. ASSUME NEW h \in Handlers, IssueNeeded(h) PROVE TypeOK' /\ CarriesInv'
    BY <1>1 DEF IssueNeeded, IssueBegin, Begin
  <1>2. ASSUME NEW h \in Handlers, IssueUnasked(h) PROVE TypeOK' /\ CarriesInv'
    BY <1>2 DEF IssueUnasked, IssueBegin, Begin, Unasked
  <1>3. ASSUME NEW h \in Handlers, Supersede(h) PROVE TypeOK' /\ CarriesInv'
    BY <1>3 DEF Supersede, Goto, At
  <1>4. ASSUME NEW h \in Handlers, InsertToken(h) PROVE TypeOK' /\ CarriesInv'
    BY <1>4 DEF InsertToken, End, At
  <1>5. ASSUME NEW h \in Handlers, EnrolBegin(h) PROVE TypeOK' /\ CarriesInv'
    BY <1>5 DEF EnrolBegin, Begin
  <1>6. ASSUME NEW h \in Handlers, MarkUsed(h) PROVE TypeOK' /\ CarriesInv'
    BY <1>6 DEF MarkUsed, Goto, At
  <1>7. ASSUME NEW h \in Handlers, RevokePrevious(h) PROVE TypeOK' /\ CarriesInv'
    BY <1>7 DEF RevokePrevious, Goto, At
  <1>8. ASSUME NEW h \in Handlers, InsertCredential(h) PROVE TypeOK' /\ CarriesInv'
    BY <1>8 DEF InsertCredential, Goto, At
  <1>9. ASSUME NEW h \in Handlers, InsertRefused(h) PROVE TypeOK' /\ CarriesInv'
    BY <1>9 DEF InsertRefused, End, At
  <1>10. ASSUME NEW h \in Handlers, UpdateEnrolled(h) PROVE TypeOK' /\ CarriesInv'
    BY <1>10 DEF UpdateEnrolled, End, At
  <1>11. ASSUME NEW h \in Handlers, RevokeBegin(h) PROVE TypeOK' /\ CarriesInv'
    BY <1>11 DEF RevokeBegin, Begin, Unasked
  <1>12. ASSUME NEW h \in Handlers, RevokeCredentials(h) PROVE TypeOK' /\ CarriesInv'
    BY <1>12 DEF RevokeCredentials, Goto, At
  <1>13. ASSUME NEW h \in Handlers, RevokeNode(h) PROVE TypeOK' /\ CarriesInv'
    BY <1>13 DEF RevokeNode, End, At
  <1>14. ASSUME NEW h \in Handlers, StatusBegin(h) PROVE TypeOK' /\ CarriesInv'
    BY <1>14 DEF StatusBegin, Begin
  <1>15. ASSUME NEW h \in Handlers, StatusUpdate(h) PROVE TypeOK' /\ CarriesInv'
    BY <1>15 DEF StatusUpdate, End, At
  <1>16. ASSUME NEW h \in Handlers, HandlerDies(h) PROVE TypeOK' /\ CarriesInv'
    BY <1>16 DEF HandlerDies, Fault
  <1>17. ASSUME NEW t \in Tokens, Expire(t) PROVE TypeOK' /\ CarriesInv'
    BY <1>17 DEF Expire, Unasked
  <1>18. CASE DeleteNode
    <2>1. /\ exists' \in BOOLEAN /\ enrolled' \in BOOLEAN
          /\ status' \in {"UNKNOWN", "SEEN"}
          /\ open' \subseteq Tokens /\ live' \subseteq Keys
      BY <1>18 DEF DeleteNode
    <2>2. UNCHANGED <<proc, minted, past, agentVars>>
      BY <1>18 DEF DeleteNode
    <2>3. admin' \in 0..MaxAdmin /\ faults' \in 0..MaxFaults
      BY <1>18 DEF DeleteNode, Unasked
    <2> QED
      BY <2>1, <2>2, <2>3
  <1>19. CASE AgentRestarts
    BY <1>19 DEF AgentRestarts, Fault
  <1>20. CASE UNCHANGED vars
    BY <1>20 DEF vars
  <1> QED
    BY <1>1, <1>2, <1>3, <1>4, <1>5, <1>6, <1>7, <1>8, <1>9, <1>10, <1>11,
       <1>12, <1>13, <1>14, <1>15, <1>16, <1>17, <1>18, <1>19, <1>20
    DEF Next, HandlerStep, Operator, Agent

\* TypeOK: every variable keeps its type.
THEOREM TypeCorrect == Spec => []TypeOK
  <1>1. Init => TypeOK /\ CarriesInv
    BY TypeInit
  <1>2. (TypeOK /\ CarriesInv) /\ [Next]_vars => (TypeOK /\ CarriesInv)'
    BY TypeNext
  <1> QED
    BY <1>1, <1>2, PTL DEF Spec

-----------------------------------------------------------------------------
\* A node that was just created has no handler, token or credential.
LEMMA SerialInit == Init => SerialInv /\ SerialSafe
  BY DEF Init, SerialInv, SerialSafe, Active, At, Idle

\* Each statement leaves its handler what its next one relies on, as long as no
\* other handler of the node starts in between.
LEMMA SerialNext == IInv /\ TypeOK' /\ [Next]_vars => SerialInv' /\ SerialSafe'
  <1> SUFFICES ASSUME IInv, TypeOK', [Next]_vars PROVE SerialInv' /\ SerialSafe'
    OBVIOUS
  <1> USE EnrollmentAssumption, FreshOnes
      DEF IInv, TypeOK, CarriesInv, SerialInv, SerialSafe, Active, At, Idle,
          rowVars, agentVars, bounds
  <1>1. ASSUME NEW h \in Handlers, IssueNeeded(h) PROVE SerialInv' /\ SerialSafe'
    BY <1>1 DEF IssueNeeded, IssueBegin, Begin
  <1>2. ASSUME NEW h \in Handlers, IssueUnasked(h) PROVE SerialInv' /\ SerialSafe'
    BY <1>2 DEF IssueUnasked, IssueBegin, Begin, Unasked
  <1>3. ASSUME NEW h \in Handlers, Supersede(h) PROVE SerialInv' /\ SerialSafe'
    BY <1>3 DEF Supersede, Goto, At
  <1>4. ASSUME NEW h \in Handlers, InsertToken(h) PROVE SerialInv' /\ SerialSafe'
    BY <1>4 DEF InsertToken, End, At
  <1>5. ASSUME NEW h \in Handlers, EnrolBegin(h) PROVE SerialInv' /\ SerialSafe'
    BY <1>5 DEF EnrolBegin, Begin
  <1>6. ASSUME NEW h \in Handlers, MarkUsed(h) PROVE SerialInv' /\ SerialSafe'
    BY <1>6 DEF MarkUsed, Goto, At
  <1>7. ASSUME NEW h \in Handlers, RevokePrevious(h) PROVE SerialInv' /\ SerialSafe'
    BY <1>7 DEF RevokePrevious, Goto, At
  <1>8. ASSUME NEW h \in Handlers, InsertCredential(h) PROVE SerialInv' /\ SerialSafe'
    BY <1>8 DEF InsertCredential, Goto, At
  <1>9. ASSUME NEW h \in Handlers, InsertRefused(h) PROVE SerialInv' /\ SerialSafe'
    BY <1>9 DEF InsertRefused, End, At
  <1>10. ASSUME NEW h \in Handlers, UpdateEnrolled(h) PROVE SerialInv' /\ SerialSafe'
    BY <1>10 DEF UpdateEnrolled, End, At
  <1>11. ASSUME NEW h \in Handlers, RevokeBegin(h) PROVE SerialInv' /\ SerialSafe'
    BY <1>11 DEF RevokeBegin, Begin, Unasked
  <1>12. ASSUME NEW h \in Handlers, RevokeCredentials(h) PROVE SerialInv' /\ SerialSafe'
    BY <1>12 DEF RevokeCredentials, Goto, At
  <1>13. ASSUME NEW h \in Handlers, RevokeNode(h) PROVE SerialInv' /\ SerialSafe'
    BY <1>13 DEF RevokeNode, End, At
  <1>14. ASSUME NEW h \in Handlers, StatusBegin(h) PROVE SerialInv' /\ SerialSafe'
    BY <1>14 DEF StatusBegin, Begin
  <1>15. ASSUME NEW h \in Handlers, StatusUpdate(h) PROVE SerialInv' /\ SerialSafe'
    BY <1>15 DEF StatusUpdate, End, At
  <1>16. ASSUME NEW h \in Handlers, HandlerDies(h) PROVE SerialInv' /\ SerialSafe'
    BY <1>16 DEF HandlerDies, Fault
  <1>17. ASSUME NEW t \in Tokens, Expire(t) PROVE SerialInv' /\ SerialSafe'
    BY <1>17 DEF Expire, Unasked
  <1>18. CASE DeleteNode
    BY <1>18 DEF DeleteNode, Unasked
  <1>19. CASE AgentRestarts
    BY <1>19 DEF AgentRestarts, Fault
  <1>20. CASE UNCHANGED vars
    BY <1>20 DEF vars
  <1> QED
    BY <1>1, <1>2, <1>3, <1>4, <1>5, <1>6, <1>7, <1>8, <1>9, <1>10, <1>11,
       <1>12, <1>13, <1>14, <1>15, <1>16, <1>17, <1>18, <1>19, <1>20
    DEF Next, HandlerStep, Operator, Agent

\* As long as handlers of a node do not overlap, and however many of them die
\* half way: one live credential at most, one open token at most, and no token
\* yields a second credential.
THEOREM SerialHandlersAreSafe == Spec => []SerialSafe
  <1>1. Init => IInv
    BY TypeInit, SerialInit DEF IInv
  <1>2. IInv /\ [Next]_vars => IInv'
    BY TypeNext, SerialNext DEF IInv
  <1>3. IInv => SerialSafe
    BY DEF IInv
  <1> QED
    BY <1>1, <1>2, <1>3, PTL DEF Spec

-----------------------------------------------------------------------------
\* No statement adds a token or a credential of a node without a row: the
\* inserts fail on their foreign key and the updates match nothing.
LEMMA DeletedNext == DeletedIsGone /\ [Next]_vars => DeletedIsGone'
  <1> SUFFICES ASSUME DeletedIsGone, [Next]_vars PROVE DeletedIsGone'
    OBVIOUS
  <1> USE DEF DeletedIsGone, rowVars
  <1>1. ASSUME NEW h \in Handlers, IssueNeeded(h) PROVE DeletedIsGone'
    BY <1>1 DEF IssueNeeded, IssueBegin, Begin
  <1>2. ASSUME NEW h \in Handlers, IssueUnasked(h) PROVE DeletedIsGone'
    BY <1>2 DEF IssueUnasked, IssueBegin, Begin, Unasked
  <1>3. ASSUME NEW h \in Handlers, Supersede(h) PROVE DeletedIsGone'
    BY <1>3 DEF Supersede, Goto, At
  <1>4. ASSUME NEW h \in Handlers, InsertToken(h) PROVE DeletedIsGone'
    BY <1>4 DEF InsertToken, End, At
  <1>5. ASSUME NEW h \in Handlers, EnrolBegin(h) PROVE DeletedIsGone'
    BY <1>5 DEF EnrolBegin, Begin
  <1>6. ASSUME NEW h \in Handlers, MarkUsed(h) PROVE DeletedIsGone'
    BY <1>6 DEF MarkUsed, Goto, At
  <1>7. ASSUME NEW h \in Handlers, RevokePrevious(h) PROVE DeletedIsGone'
    BY <1>7 DEF RevokePrevious, Goto, At
  <1>8. ASSUME NEW h \in Handlers, InsertCredential(h) PROVE DeletedIsGone'
    BY <1>8 DEF InsertCredential, Goto, At
  <1>9. ASSUME NEW h \in Handlers, InsertRefused(h) PROVE DeletedIsGone'
    BY <1>9 DEF InsertRefused, End, At
  <1>10. ASSUME NEW h \in Handlers, UpdateEnrolled(h) PROVE DeletedIsGone'
    BY <1>10 DEF UpdateEnrolled, End, At
  <1>11. ASSUME NEW h \in Handlers, RevokeBegin(h) PROVE DeletedIsGone'
    BY <1>11 DEF RevokeBegin, Begin, Unasked
  <1>12. ASSUME NEW h \in Handlers, RevokeCredentials(h) PROVE DeletedIsGone'
    BY <1>12 DEF RevokeCredentials, Goto, At
  <1>13. ASSUME NEW h \in Handlers, RevokeNode(h) PROVE DeletedIsGone'
    BY <1>13 DEF RevokeNode, End, At
  <1>14. ASSUME NEW h \in Handlers, StatusBegin(h) PROVE DeletedIsGone'
    BY <1>14 DEF StatusBegin, Begin
  <1>15. ASSUME NEW h \in Handlers, StatusUpdate(h) PROVE DeletedIsGone'
    BY <1>15 DEF StatusUpdate, End, At
  <1>16. ASSUME NEW h \in Handlers, HandlerDies(h) PROVE DeletedIsGone'
    BY <1>16 DEF HandlerDies, Fault
  <1>17. ASSUME NEW t \in Tokens, Expire(t) PROVE DeletedIsGone'
    BY <1>17 DEF Expire, Unasked
  <1>18. CASE DeleteNode
    BY <1>18 DEF DeleteNode, Unasked
  <1>19. CASE AgentRestarts
    BY <1>19 DEF AgentRestarts, Fault
  <1>20. CASE UNCHANGED vars
    BY <1>20 DEF vars
  <1> QED
    BY <1>1, <1>2, <1>3, <1>4, <1>5, <1>6, <1>7, <1>8, <1>9, <1>10, <1>11,
       <1>12, <1>13, <1>14, <1>15, <1>16, <1>17, <1>18, <1>19, <1>20
    DEF Next, HandlerStep, Operator, Agent

\* A deleted node has no token and no credential, whatever handlers were still
\* running when the row went.
THEOREM DeletionIsFinal == Spec => []DeletedIsGone
  <1>1. Init => DeletedIsGone
    BY DEF Init, DeletedIsGone
  <1> QED
    BY <1>1, DeletedNext, PTL DEF Spec

-----------------------------------------------------------------------------
\* RowAgrees says nothing while a handler is under way.  What it leaves to the
\* next statement: the enrolment has revoked before it inserts, the revocation
\* before it clears the row, and both have the row still to write; a report
\* comes from an agent whose credential is live, so the row says enrolled.
RowsAgree ==
  /\ enrolled <=> live # {}
  /\ enrolled <=> status # "UNKNOWN"

Between(h) == At(h, "enrol", "insert") \/ At(h, "enrol", "update") \/ At(h, "revoke", "node")

RowInv ==
  /\ ~exists => ~enrolled /\ live = {} /\ status = "UNKNOWN"
  /\ past = "clean" =>
       /\ \A h \in Handlers :
            /\ At(h, "enrol", "insert") \/ At(h, "revoke", "node") => live = {}
            /\ At(h, "enrol", "update") \/ At(h, "status", "update") => (exists => live # {})
       /\ (\A h \in Handlers : ~Between(h)) => RowsAgree

\* A node that was just created is not enrolled, and has no credential.
LEMMA RowInit == Init => RowInv
  BY DEF Init, RowInv, RowsAgree, At, Idle

\* Each statement leaves row and credentials as the next one of its handler
\* expects them.
LEMMA RowNext == IInv /\ TypeOK' /\ RowInv /\ [Next]_vars => RowInv'
  <1> SUFFICES ASSUME IInv, TypeOK', RowInv, [Next]_vars PROVE RowInv'
    OBVIOUS
  <1> USE EnrollmentAssumption
      DEF IInv, TypeOK, SerialInv, RowInv, RowsAgree, Between, Active, At, Idle,
          rowVars, agentVars, bounds
  <1>1. ASSUME NEW h \in Handlers, IssueNeeded(h) PROVE RowInv'
    BY <1>1 DEF IssueNeeded, IssueBegin, Begin
  <1>2. ASSUME NEW h \in Handlers, IssueUnasked(h) PROVE RowInv'
    BY <1>2 DEF IssueUnasked, IssueBegin, Begin, Unasked
  <1>3. ASSUME NEW h \in Handlers, Supersede(h) PROVE RowInv'
    BY <1>3 DEF Supersede, Goto, At
  <1>4. ASSUME NEW h \in Handlers, InsertToken(h) PROVE RowInv'
    BY <1>4 DEF InsertToken, End, At
  <1>5. ASSUME NEW h \in Handlers, EnrolBegin(h) PROVE RowInv'
    BY <1>5 DEF EnrolBegin, Begin
  <1>6. ASSUME NEW h \in Handlers, MarkUsed(h) PROVE RowInv'
    BY <1>6 DEF MarkUsed, Goto, At
  <1>7. ASSUME NEW h \in Handlers, RevokePrevious(h) PROVE RowInv'
    BY <1>7 DEF RevokePrevious, Goto, At
  <1>8. ASSUME NEW h \in Handlers, InsertCredential(h) PROVE RowInv'
    BY <1>8 DEF InsertCredential, Goto, At
  <1>9. ASSUME NEW h \in Handlers, InsertRefused(h) PROVE RowInv'
    BY <1>9 DEF InsertRefused, End, At
  <1>10. ASSUME NEW h \in Handlers, UpdateEnrolled(h) PROVE RowInv'
    BY <1>10 DEF UpdateEnrolled, End, At
  <1>11. ASSUME NEW h \in Handlers, RevokeBegin(h) PROVE RowInv'
    BY <1>11 DEF RevokeBegin, Begin, Unasked
  <1>12. ASSUME NEW h \in Handlers, RevokeCredentials(h) PROVE RowInv'
    BY <1>12 DEF RevokeCredentials, Goto, At
  <1>13. ASSUME NEW h \in Handlers, RevokeNode(h) PROVE RowInv'
    BY <1>13 DEF RevokeNode, End, At
  <1>14. ASSUME NEW h \in Handlers, StatusBegin(h) PROVE RowInv'
    BY <1>14 DEF StatusBegin, Begin
  <1>15. ASSUME NEW h \in Handlers, StatusUpdate(h) PROVE RowInv'
    BY <1>15 DEF StatusUpdate, End, At
  <1>16. ASSUME NEW h \in Handlers, HandlerDies(h) PROVE RowInv'
    BY <1>16 DEF HandlerDies, Fault
  <1>17. ASSUME NEW t \in Tokens, Expire(t) PROVE RowInv'
    BY <1>17 DEF Expire, Unasked
  <1>18. CASE DeleteNode
    BY <1>18 DEF DeleteNode, Unasked
  <1>19. CASE AgentRestarts
    BY <1>19 DEF AgentRestarts, Fault
  <1>20. CASE UNCHANGED vars
    BY <1>20 DEF vars
  <1> QED
    BY <1>1, <1>2, <1>3, <1>4, <1>5, <1>6, <1>7, <1>8, <1>9, <1>10, <1>11,
       <1>12, <1>13, <1>14, <1>15, <1>16, <1>17, <1>18, <1>19, <1>20
    DEF Next, HandlerStep, Operator, Agent

\* Once handlers that neither overlapped nor failed are through, a node's row
\* says enrolled, and has been heard of, exactly when it has a live credential.
THEOREM RowTellsTheCredentials == Spec => []RowAgrees
  <1> DEFINE Inv == IInv /\ RowInv
  <1>1. Init => Inv
    BY TypeInit, SerialInit, RowInit DEF IInv
  <1>2. Inv /\ [Next]_vars => Inv'
    BY TypeNext, SerialNext, RowNext DEF IInv
  <1>3. Inv => RowAgrees
    BY DEF RowInv, RowsAgree, Between, RowAgrees, Active, At
  <1> QED
    BY <1>1, <1>2, <1>3, PTL DEF Spec
=============================================================================
