------------------------- MODULE DeliveryStoreSafety -------------------------
(***************************************************************************)
(* The promises of DeliveryStoreCalls, proved from what DeliveryStoreProofs *)
(* says of each call, and the refinement of ReportDelivery.                 *)
(***************************************************************************)
EXTENDS DeliveryStoreCalls, DeliveryStoreProofs

USE DEF storeVars, revocations, callVars

(***************************************************************************)
(* Typing.                                                                  *)
(***************************************************************************)
\* Every step of DeliveryStoreCalls is one call of the store, with a token.
LEMMA CallsAreStoreCalls ==
    ASSUME CallsTypeOK, CallsNext
    PROVE  StoreCall
BY DEF CallsNext, Claim, Call, StoreCall, CallsTypeOK

\* Every call keeps the store well typed.
LEMMA CallsTypeStep ==
    ASSUME CallsTypeOK, [CallsNext]_callVars
    PROVE  CallsTypeOK'
<1> USE DEF CallsTypeOK
<1>1. ASSUME CallsNext PROVE CallsTypeOK'
  BY <1>1, CallsAreStoreCalls, StoreCallType DEF CallsNext, Claim
<1>2. CASE UNCHANGED callVars
  BY <1>2 DEF StoreTypeOK
<1> QED
  BY <1>1, <1>2

\* The store is well typed in every state, whatever is called.
THEOREM CallsTypeCorrect == CallsSpec => []CallsTypeOK
<1>1. CallsInit => CallsTypeOK
  <2>1. 0 \in Generations
    BY DeliveryAssumption DEF Generations
  <2> QED
    BY EmptyRows, <2>1 DEF CallsInit, StoreInit, CallsTypeOK, StoreTypeOK
<1>2. CallsTypeOK /\ [CallsNext]_callVars => CallsTypeOK'
  BY CallsTypeStep
<1> QED
  BY <1>1, <1>2, PTL DEF CallsSpec

(***************************************************************************)
(* The inductive invariant.                                                 *)
(***************************************************************************)
StoreInv == CallsTypeOK /\ AbsentIsEmpty

\* The invariant the promises below rest on: rows are typed, and a row that is
\* not there carries nothing over to the next report of the same event.
THEOREM StoreInvariant == CallsSpec => []StoreInv
<1>1. CallsInit => AbsentIsEmpty
  BY DEF CallsInit, StoreInit, AbsentIsEmpty
<1>2. AbsentIsEmpty /\ CallsTypeOK /\ [CallsNext]_callVars => AbsentIsEmpty'
  BY CallsAreStoreCalls, AbsentIsEmptyKept DEF CallsTypeOK, AbsentIsEmpty
<1> QED
  BY <1>1, <1>2, CallsTypeCorrect, PTL DEF CallsSpec, StoreInv

(***************************************************************************)
(* Trust and deletion.                                                      *)
(***************************************************************************)
\* The receiver holds only what the sender's outbox vouches for (accept).
THEOREM ReceiptsAreTrusted == CallsSpec => []ReceiptIsTrusted
<1>1. CallsInit => ReceiptIsTrusted
  BY EmptyFields DEF CallsInit, StoreInit, ReceiptIsTrusted
<1>2. ReceiptIsTrusted /\ StoreInv /\ [CallsNext]_callVars => ReceiptIsTrusted'
  <2> SUFFICES ASSUME ReceiptIsTrusted, StoreInv, [CallsNext]_callVars
               PROVE  ReceiptIsTrusted'
    OBVIOUS
  <2> USE DEF ReceiptIsTrusted, Trusted, StoreInv, CallsTypeOK
  <2>1. CASE RowsContinue
    BY <2>1 DEF RowsContinue, OutboxContinues, InboxContinues
  <2>2. ASSUME NEW e \in Events, NEW g \in Generations, ChildCall(e, g)
        PROVE  ReceiptIsTrusted'
    BY <2>2, ChildCallAdds
  <2>3. CASE Removal
    BY <2>3, EmptyFields DEF Removal, Purge
  <2>4. CASE Renewal \/ UNCHANGED callVars
    BY <2>4 DEF Renewal
  <2> QED
    BY <2>1, <2>2, <2>3, <2>4, StoreCallSplits, CallsAreStoreCalls
<1> QED
  BY <1>1, <1>2, StoreInvariant, PTL DEF CallsSpec

\* Nothing deleted is stored, and nothing brings it back (_revoke, _revoked).
THEOREM DeletionsHold == CallsSpec => []DeletedIsGone
<1>1. CallsInit => DeletedIsGone
  BY EmptyFields DEF CallsInit, StoreInit, DeletedIsGone, Stored
<1>2. DeletedIsGone /\ StoreInv /\ [CallsNext]_callVars => DeletedIsGone'
  BY CallsAreStoreCalls, DeletedIsGoneKept
  DEF StoreInv, CallsTypeOK, DeletedIsGone, Deleted, Tombed, Stored
<1> QED
  BY <1>1, <1>2, StoreInvariant, PTL DEF CallsSpec

(***************************************************************************)
(* What a step may never do.                                                *)
(***************************************************************************)
\* No call replaces the verdict of a resolved report by anything but a
\* deletion (resolve_report against retry, record_handoff and the rest).
THEOREM VerdictsAreFinal == CallsSpec => VerdictIsFinal
<1>1. StoreInv /\ [CallsNext]_callVars =>
        [\A e \in Events : inbox[e].state \in Terminal =>
            inbox'[e].state \in {inbox[e].state, "absent"}]_callVars
  <2> SUFFICES ASSUME StoreInv, CallsNext, NEW e \in Events, inbox[e].state \in Terminal
               PROVE  inbox'[e].state \in {inbox[e].state, "absent"}
    BY DEF StoreInv
  <2> USE DEF StoreInv, CallsTypeOK
  <2>1. CASE RowsContinue
    BY <2>1 DEF RowsContinue, InboxContinues
  <2>2. ASSUME NEW f \in Events, NEW g \in Generations, ChildCall(f, g)
        PROVE  inbox'[e].state = inbox[e].state
    BY <2>2, ChildCallAdds DEF Terminal
  <2>3. CASE Removal
    BY <2>3, EmptyFields DEF Removal, Purge
  <2>4. CASE Renewal
    BY <2>4 DEF Renewal
  <2> QED
    BY <2>1, <2>2, <2>3, <2>4, StoreCallSplits, CallsAreStoreCalls
<1> QED
  BY <1>1, StoreInvariant, PTL DEF CallsSpec, VerdictIsFinal

\* What was stored goes only by a deletion that leaves the event's tombstone,
\* which a recreation of the project does not clear (_revoke, recreate_project).
THEOREM RemovalsLeaveTombstones == CallsSpec => RemovalLeavesTombstone
<1>1. StoreInv /\ [CallsNext]_callVars =>
        [\A e \in Events : Stored(e) /\ ~Stored(e)' => e \in eventTombs']_callVars
  BY CallsAreStoreCalls, OnlyDeletionsUnstore DEF StoreInv, CallsTypeOK, Stored
<1> QED
  BY <1>1, StoreInvariant, PTL DEF CallsSpec, RemovalLeavesTombstone

\* The one automatic resend of a report, once spent, comes back only with the
\* deletion of the report (authorize_absence against retry and record_handoff).
THEOREM AllowancesAreSpentOnce == CallsSpec => AllowanceIsSpentOnce
<1>1. StoreInv /\ [CallsNext]_callVars =>
        [\A e \in Events : inbox'[e].resends < inbox[e].resends => e \in eventTombs']_callVars
  <2> SUFFICES ASSUME StoreInv, CallsNext, NEW e \in Events,
                      inbox'[e].resends < inbox[e].resends
               PROVE  e \in eventTombs'
    BY DEF StoreInv, CallsTypeOK, StoreTypeOK, InboxRow
  <2> USE DEF StoreInv, CallsTypeOK
  <2>0. inbox[e].resends \in Nat /\ inbox[e].state = "absent" => inbox[e].resends = 0
    BY EmptyFields DEF CallsTypeOK, StoreTypeOK, InboxRow, AbsentIsEmpty
  <2>1. inbox[e].resends \in Nat
    BY DEF CallsTypeOK, StoreTypeOK, InboxRow
  <2>2. ~RowsContinue
    <3>1. inbox'[e].resends \in Nat
      BY CallsTypeStep DEF CallsTypeOK, StoreTypeOK, InboxRow
    <3> QED
      BY <2>1, <3>1 DEF RowsContinue, InboxContinues
  <2>3. ASSUME NEW f \in Events, NEW g \in Generations, ChildCall(f, g)
        PROVE  FALSE
    BY <2>0, <2>1, <2>3, ChildCallAdds
  <2>4. CASE Removal
    <3>1. PICK E \in SUBSET Events :
            Purge(E) /\ \A f \in E : Stored(f) => f \in eventTombs'
      BY <2>4 DEF Removal
    <3>2. e \in E
      BY <2>1, <3>1 DEF Purge
    <3>3. Stored(e)
      BY <2>0, <2>1, <3>1, <3>2, EmptyFields DEF Purge, Stored
    <3> QED
      BY <3>1, <3>2, <3>3
  <2>5. CASE Renewal
    BY <2>1, <2>5 DEF Renewal
  <2> QED
    BY <2>2, <2>3, <2>4, <2>5, StoreCallSplits, CallsAreStoreCalls
<1> QED
  BY <1>1, StoreInvariant, PTL DEF CallsSpec, AllowanceIsSpentOnce

(***************************************************************************)
(* The refinement: one call, one move of the promise.                       *)
(***************************************************************************)
StoreStep == [Tables!Next]_(Tables!vars)

\* Nothing is copied or reviewed in the tables.
LEMMA NothingHanded ==
    Tables!vars' = Tables!vars <=> \A e \in Events : Standing(e)' = Standing(e)
BY DEF Tables!vars

\* What moves the reports of E alone is a Move of the promise.
LEMMA MoveOfSet ==
    ASSUME NEW E \in SUBSET Events, NEW from, NEW to,
           Shift(E, from, to)
    PROVE  /\ Tables!Move(E, from, to)
           /\ UNCHANGED <<[e \in Events |-> 0], [e \in Events |-> 0]>>
BY DEF Shift, Tables!Move

\* One report that makes a permitted move is a step of the promise.
LEMMA OneReportSteps ==
    ASSUME NEW e \in Events, ReportMoves(e)
    PROVE  StoreStep
<1>1. \A f \in Events \ {e} : Standing(f)' = Standing(f)
  BY OthersStand DEF ReportMoves
<1>2. CASE Standing(e)' = Standing(e)
  BY <1>1, <1>2, NothingHanded DEF StoreStep
<1>3. CASE Standing(e) = "none" /\ Standing(e)' = "open"
  <2>1. Tables!Record(e)
    BY <1>1, <1>3, MoveOfSet DEF Shift, Tables!Record
  <2> QED
    BY <2>1 DEF StoreStep, Tables!Next
<1>4. CASE Standing(e) = "open" /\ Standing(e)' = "waits"
  <2>1. Tables!Answer({e})
    BY <1>1, <1>4, MoveOfSet DEF Shift, Tables!Answer
  <2> QED
    BY <2>1 DEF StoreStep, Tables!Next
<1>5. CASE Standing(e) = "waits" /\ Standing(e)' = "open"
  <2>1. Tables!Reopen(e)
    BY <1>1, <1>5, MoveOfSet DEF Shift, Tables!Reopen
  <2> QED
    BY <2>1 DEF StoreStep, Tables!Next
<1>6. CASE Standing(e) = "waits" /\ Standing(e)' = "closed"
  <2>1. Tables!Close(e)
    BY <1>1, <1>6, MoveOfSet DEF Shift, Tables!Close
  <2> QED
    BY <2>1 DEF StoreStep, Tables!Next
<1>7. CASE Standing(e) = "waits" /\ Standing(e)' = "waived"
  <2>1. Tables!Waive(e)
    BY <1>1, <1>7, MoveOfSet DEF Shift, Tables!Waive
  <2> QED
    BY <2>1 DEF StoreStep, Tables!Next
<1>8. CASE Standing(e) = "waived" /\ Standing(e)' = "open"
  <2>1. Tables!Recall(e)
    BY <1>1, <1>8, MoveOfSet DEF Shift, Tables!Recall
  <2> QED
    BY <2>1 DEF StoreStep, Tables!Next
<1> QED
  BY <1>2, <1>3, <1>4, <1>5, <1>6, <1>7, <1>8 DEF ReportMoves, Step

\* Every call, in any order and with any argument, is a step of ReportDelivery
\* or leaves every report where it stands: what the code's transactions do to
\* the three tables is what delegation delivery promises of a report.
THEOREM StoreKeepsPromise == CallsSpec => TablesKeepPromise
<1>1. CallsInit => Tables!Init
  BY DEF CallsInit, StoreInit, Tables!Init, Standing, Stored, Tombed, NoSource, NoOutbox,
         NoInbox
<1>2. CallsTypeOK /\ [CallsNext]_callVars => StoreStep
  <2> SUFFICES ASSUME CallsTypeOK, [CallsNext]_callVars
               PROVE  StoreStep
    OBVIOUS
  <2>1. ASSUME NEW E \in SUBSET Events, Shift(E, {"open"}, "waits")
        PROVE  StoreStep
    <3>1. Tables!Answer(E)
      BY <2>1, MoveOfSet DEF Tables!Answer
    <3> QED
      BY <3>1 DEF StoreStep, Tables!Next
  <2>2. ASSUME NEW E \in SUBSET Events, Shift(E, Anywhere, "deleted")
        PROVE  StoreStep
    <3>1. Tables!Delete(E)
      BY <2>2, MoveOfSet DEF Tables!Delete, Tables!Standings, Anywhere
    <3> QED
      BY <3>1 DEF StoreStep, Tables!Next
  <2>3. CASE UNCHANGED callVars
    <3>1. \A e \in Events : Standing(e)' = Standing(e)
      BY <2>3 DEF Standing, ReportState, Stored, Tombed
    <3> QED
      BY <3>1, NothingHanded DEF StoreStep
  <2> QED
    BY <2>1, <2>2, <2>3, OneReportSteps, StoreCallMoves, CallsAreStoreCalls DEF CallsTypeOK
<1> QED
  BY <1>1, <1>2, CallsTypeCorrect, PTL DEF CallsSpec, StoreStep, TablesKeepPromise, Tables!Spec
=============================================================================
