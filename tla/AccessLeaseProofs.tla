-------------------------- MODULE AccessLeaseProofs -------------------------
(***************************************************************************)
(* Proofs about AccessLease, for any number of sign-ins and administrators *)
(* and any lease: who may bring an account back, and who may not.          *)
(***************************************************************************)
EXTENDS AccessLease, TLAPS

\* A handler that can still find the row it read works on a row that is there.
SameInv ==
  /\ \A s \in SignIns : signin[s].same => row.there
  /\ \A a \in Admins : patch[a].same => row.there

\* The reason tells the two kinds of disabled accounts apart: those an
\* administrator disabled carry none, all others carry one.
ReasonInv ==
  ~lost =>
    /\ decided => row.there /\ ~Active /\ row.reason = "NONE"
    /\ row.there /\ ~Active /\ ~decided => row.reason # "NONE"

\* Once a refusal has settled the matter, nothing that could undo it begins
\* before the directory vouches for the person again.
OutInv ==
  /\ out => Settled
  /\ RefusedStaysOut

\* DecisionStands and RefusedStaysOut are not inductive by themselves: whether a
\* sign-in restores the account depends on the reason in the row, and whether one
\* is under way on what happened before the refusal.
Parts == SameInv /\ ReasonInv /\ OutInv
IInv == TypeOK /\ Parts

USE DEF Active, Statuses, Reasons, KEEP

-----------------------------------------------------------------------------
(* Types.                                                                  *)

\* A day passes in every lease, and in no other number.
LEMMA OneDayLessType ==
  ASSUME NEW left \in Days
  PROVE  OneDayLess(left) \in Days
  BY LeaseAssumption DEF OneDayLess, Days, NoLease

\* The values handlers and rows start from.
LEMMA Constants ==
  /\ NoLease \in Days /\ LeaseDays \in Days
  /\ Gone \in Rows /\ \A left \in Days : Account(left) \in Rows
  /\ NoSignIn \in SignInStates /\ NoPatch \in PatchStates
  <1>1. NoLease \in Days /\ LeaseDays \in Days
    BY LeaseAssumption DEF Days, NoLease
  <1> QED
    BY <1>1 DEF Gone, Rows, Account, NoSignIn, SignInStates, NoPatch, PatchStates

\* Nothing has begun.
LEMMA TypeInit == Init => TypeOK
  <1> SUFFICES ASSUME Init PROVE TypeOK
    OBVIOUS
  <1>1. row \in Rows
    BY Constants DEF Init
  <1>2. edits \in 0..MaxEdits
    BY LeaseAssumption DEF Init
  <1> QED
    BY <1>1, <1>2, Constants DEF Init, TypeOK

\* The steps of a sign-in keep the types.
LEMMA TypeSignIn ==
  ASSUME TypeOK, NEW s \in SignIns,
         SignInBegin(s) \/ SignInStep(s) \/ SignInFails(s)
  PROVE  TypeOK'
  <1> USE Constants DEF TypeOK
  <1>1. CASE SignInBegin(s)
    BY <1>1 DEF SignInBegin, SignInStates
  <1>2. CASE Refuse(s)
    BY <1>2 DEF Refuse, Rows, Settled
  <1>3. CASE SignInLoad(s)
    <2>1. row.left \in Days
      BY DEF Rows
    <2>2. signin' \in [SignIns -> SignInStates]
      BY <1>3, <2>1 DEF SignInLoad, SignInStates
    <2> QED
      BY <1>3, <2>2 DEF SignInLoad, history
  <1>4. CASE SignInJudge(s)
    <2>1. (signin[s].left <= WindowDays) \in BOOLEAN
      OBVIOUS
    <2> QED
      BY <1>4, <2>1 DEF SignInJudge, SignInStates, history
  <1>5. CASE SignInUpdate(s)
    <2>1. \A renews \in BOOLEAN : Restored(row, renews) \in Rows
      BY DEF Restored, Rows
    <2>2. signin[s].renews \in BOOLEAN
      BY DEF SignInStates
    <2> QED
      BY <1>5, <2>1, <2>2 DEF SignInUpdate
  <1>6. CASE SignInFails(s)
    BY <1>6 DEF SignInFails, history
  <1> QED
    BY <1>1, <1>2, <1>3, <1>4, <1>5, <1>6 DEF SignInStep

\* So does everything else that can happen.
LEMMA TypeNext == TypeOK /\ [Next]_vars => TypeOK'
  <1> SUFFICES ASSUME TypeOK, [Next]_vars PROVE TypeOK'
    OBVIOUS
  <1> USE LeaseAssumption DEF TypeOK
  <1>1. CASE UNCHANGED vars
    BY <1>1 DEF vars, handlers, history
  <1>2. ASSUME NEW s \in SignIns, SignInBegin(s) \/ SignInStep(s) \/ SignInFails(s)
        PROVE  TypeOK'
    BY <1>2, TypeSignIn
  <1>3. ASSUME NEW c \in Creators, CreateBegin(c) PROVE TypeOK'
    BY <1>3 DEF CreateBegin, history
  <1>4. ASSUME NEW c \in Creators, CreateInsert(c) PROVE TypeOK'
    BY <1>4, Constants DEF CreateInsert
  <1>5. ASSUME NEW a \in Admins, NEW want \in Statuses \cup {KEEP}, PatchLoad(a, want)
        PROVE  TypeOK'
    BY <1>5 DEF PatchLoad, PatchStates, Rows, history
  <1>6. ASSUME NEW a \in Admins, PatchWrite(a) PROVE TypeOK'
    <2>1. patch[a] \in PatchStates /\ NoPatch \in PatchStates
      BY DEF PatchStates, NoPatch
    <2>2. Patched(patch[a], row) \in Rows
      BY <2>1 DEF Patched, PatchStates, Rows
    <2> QED
      BY <1>6, <2>1, <2>2 DEF PatchWrite
  <1>7. CASE DeleteUser
    <2>1. edits' \in 0..MaxEdits
      <3>1. edits < MaxEdits /\ edits' = edits + 1
        BY <1>7 DEF DeleteUser
      <3> QED
        BY <3>1
    <2>2. signin' \in [SignIns -> SignInStates]
      <3>1. \A s \in SignIns :
              [signin[s] EXCEPT !.same = FALSE, !.left = NoLease] \in SignInStates
        BY Constants DEF SignInStates
      <3>2. signin' = [s \in SignIns |-> [signin[s] EXCEPT !.same = FALSE, !.left = NoLease]]
        BY <1>7 DEF DeleteUser
      <3> QED
        BY <3>1, <3>2
    <2>3. patch' \in [Admins -> PatchStates]
      <3>1. \A a \in Admins : [patch[a] EXCEPT !.same = FALSE] \in PatchStates
        BY DEF PatchStates
      <3>2. patch' = [a \in Admins |-> [patch[a] EXCEPT !.same = FALSE]]
        BY <1>7 DEF DeleteUser
      <3> QED
        BY <3>1, <3>2
    <2> QED
      BY <1>7, <2>1, <2>2, <2>3, Constants DEF DeleteUser
  <1>8. CASE Tick
    <2>1. row' \in Rows
      BY <1>8, OneDayLessType DEF Tick, Rows
    <2>2. signin' \in [SignIns -> SignInStates]
      BY <1>8, OneDayLessType DEF Tick, SignInStates
    <2> QED
      BY <1>8, <2>1, <2>2 DEF Tick, history
  <1>9. CASE Sweep
    BY <1>9 DEF Sweep, Rows, handlers, history
  <1>10. CASE SessionEnds \/ ClaimChanges
    BY <1>10 DEF SessionEnds, ClaimChanges, handlers, history
  <1> QED
    BY <1>1, <1>2, <1>3, <1>4, <1>5, <1>6, <1>7, <1>8, <1>9, <1>10 DEF Next

\* The row, the handlers and the session always are what the schema and the
\* routes allow.
THEOREM TypeCorrect == Spec => []TypeOK
  BY TypeInit, TypeNext, PTL DEF Spec

-----------------------------------------------------------------------------
(* Who may bring an account back.                                          *)

\* No account and an account from before leases are as good as any.
LEMMA PartsInit == Init => Parts
  BY DEF Init, Parts, SameInv, ReasonInv, OutInv, Settled, RefusedStaysOut, Admitted,
         Gone, Account, NoSignIn, NoPatch, NoLease

\* A sign-in restores only accounts with a reason, and none begins to while the
\* person is out.
LEMMA PartsSignIn ==
  ASSUME TypeOK, Parts, NEW s \in SignIns,
         SignInBegin(s) \/ SignInStep(s) \/ SignInFails(s)
  PROVE  Parts'
  <1> USE DEF TypeOK, Parts, SameInv, ReasonInv, OutInv, Settled, RefusedStaysOut, Admitted,
              SignInStates
  <1>1. CASE SignInBegin(s)
    BY <1>1 DEF SignInBegin
  <1>2. CASE Refuse(s)
    BY <1>2 DEF Refuse, Rows, NoSignIn
  <1>3. CASE SignInLoad(s)
    BY <1>3 DEF SignInLoad, NoSignIn, history
  <1>4. CASE SignInJudge(s)
    BY <1>4 DEF SignInJudge, history
  <1>5. CASE SignInUpdate(s)
    BY <1>5 DEF SignInUpdate, Restored, Rows, NoSignIn
  <1>6. CASE SignInFails(s)
    BY <1>6 DEF SignInFails, NoSignIn, history
  <1> QED
    BY <1>1, <1>2, <1>3, <1>4, <1>5, <1>6 DEF SignInStep

\* Nobody but an administrator changes what an administrator said.
LEMMA PartsNext == TypeOK /\ Parts /\ [Next]_vars => Parts'
  <1> SUFFICES ASSUME TypeOK, Parts, [Next]_vars PROVE Parts'
    OBVIOUS
  <1>1. ASSUME NEW s \in SignIns, SignInBegin(s) \/ SignInStep(s) \/ SignInFails(s)
        PROVE  Parts'
    BY <1>1, PartsSignIn
  <1> USE DEF TypeOK, Parts, SameInv, ReasonInv, OutInv, Settled, RefusedStaysOut, Admitted
  <1>2. CASE UNCHANGED vars
    BY <1>2 DEF vars, handlers, history
  <1>3. ASSUME NEW c \in Creators, CreateBegin(c) PROVE Parts'
    BY <1>3 DEF CreateBegin, history
  <1>4. ASSUME NEW c \in Creators, CreateInsert(c) PROVE Parts'
    BY <1>4 DEF CreateInsert, Account
  <1>5. ASSUME NEW a \in Admins, NEW want \in Statuses \cup {KEEP}, PatchLoad(a, want)
        PROVE  Parts'
    BY <1>5 DEF PatchLoad, PatchStates, history
  <1>6. ASSUME NEW a \in Admins, PatchWrite(a) PROVE Parts'
    BY <1>6 DEF PatchWrite, Patched, PatchStates, NoPatch, Rows
  <1>7. CASE DeleteUser
    BY <1>7 DEF DeleteUser, Gone, SignInStates, PatchStates
  <1>8. CASE Tick
    BY <1>8 DEF Tick, Rows, SignInStates, history
  <1>9. CASE Sweep
    BY <1>9 DEF Sweep, Rows, handlers, history
  <1>10. CASE SessionEnds \/ ClaimChanges
    BY <1>10 DEF SessionEnds, ClaimChanges, handlers, history
  <1> QED
    BY <1>1, <1>2, <1>3, <1>4, <1>5, <1>6, <1>7, <1>8, <1>9, <1>10 DEF Next

\* The strengthening of the two promises, and what the reason in the row means.
THEOREM InductiveInvariant == Spec => []IInv
  <1>1. Init => IInv
    BY TypeInit, PartsInit DEF IInv
  <1>2. IInv /\ [Next]_vars => IInv'
    BY TypeNext, PartsNext DEF IInv
  <1> QED
    BY <1>1, <1>2, PTL DEF Spec

\* What an administrator said of an account stands (oidc.ts:538), unless a PATCH
\* that names no status puts back the one it had read.
THEOREM AdministratorsDecide == Spec => []DecisionStands
  <1>1. IInv => DecisionStands
    BY DEF IInv, Parts, ReasonInv, DecisionStands
  <1> QED
    BY InductiveInvariant, <1>1, PTL

\* A refused person stays out (ADR 0004:180), if nobody was admitted just before.
THEOREM RefusalHolds == Spec => []RefusedStaysOut
  <1>1. IInv => RefusedStaysOut
    BY DEF IInv, Parts, OutInv
  <1> QED
    BY InductiveInvariant, <1>1, PTL

\* A sign-in brings back every account that no administrator disabled (ADR
\* 0004:183).
THEOREM ReturnersAreRestored == Spec => ReturnerRestored
  <1>1. IInv /\ [Next]_vars =>
          [\A s \in SignIns :
             SignInUpdate(s) /\ signin[s].same
               => row'.status = "ACTIVE" \/ decided \/ lost]_vars
    <2> SUFFICES ASSUME IInv, NEW s \in SignIns, SignInUpdate(s), signin[s].same,
                        ~decided, ~lost
                 PROVE  row'.status = "ACTIVE"
      OBVIOUS
    <2>1. row.there /\ (~Active => row.reason # "NONE")
      BY DEF IInv, Parts, SameInv, ReasonInv
    <2>2. row' = Restored(row, signin[s].renews) /\ row \in Rows
      BY DEF SignInUpdate, IInv, TypeOK
    <2> QED
      BY <2>1, <2>2 DEF Restored, Rows
  <1> QED
    BY InductiveInvariant, <1>1, PTL DEF Spec, ReturnerRestored
=============================================================================
