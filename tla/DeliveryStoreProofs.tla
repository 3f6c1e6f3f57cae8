------------------------- MODULE DeliveryStoreProofs -------------------------
(***************************************************************************)
(* What each operation of DeliveryStore does to the rows, for any number of *)
(* events, sessions, tokens, attempts and generations: the lemmas that the  *)
(* theorems about the store and about the delivery loop rest on.  Every     *)
(* operation leaves well typed rows, and belongs to one of three sorts:     *)
(*   - the work on a report (claims, attempts, verdicts, lapses) moves the  *)
(*     rows there are and neither adds nor removes one: RowsContinue;       *)
(*   - ChildCall alone adds rows, and only when nothing is revoked;         *)
(*   - ProjectCall alone removes them, and leaves tombstones.               *)
(***************************************************************************)
EXTENDS DeliveryStore, TLAPS

USE DEF storeVars, revocations

(***************************************************************************)
(* Typing.                                                                  *)
(***************************************************************************)
\* The rows of an event nothing is stored about are rows.
LEMMA EmptyRows ==
    /\ NoSource \in SourceRow
    /\ NoOutbox \in OutboxRow
    /\ NoInbox \in InboxRow
BY DeliveryAssumption DEF NoSource, NoOutbox, NoInbox, SourceRow, OutboxRow, InboxRow,
   OutboxStates, InboxStates, Generations, AnyToken

\* Counting a failed attempt stays within MaxAttempts.
LEMMA OneMoreType ==
    ASSUME NEW attempts \in 0..MaxAttempts
    PROVE  /\ OneMore(attempts) \in 0..MaxAttempts
           /\ AfterFailure(attempts) \in {"pending", "recovery_required"}
BY DeliveryAssumption DEF OneMore, AfterFailure

\* Changing one column of an inbox row to a value of its type gives a row: the
\* updates of several columns below are chains of these.
LEMMA OneColumn ==
    ASSUME NEW r \in InboxRow, NEW state \in InboxStates, NEW token \in AnyToken,
           NEW flag \in BOOLEAN, NEW resends \in 0..1
    PROVE  /\ [r EXCEPT !.state = state] \in InboxRow
           /\ [r EXCEPT !.leased = flag] \in InboxRow
           /\ [r EXCEPT !.boundary = token] \in InboxRow
           /\ [r EXCEPT !.settled = flag] \in InboxRow
           /\ [r EXCEPT !.completion = token] \in InboxRow
           /\ [r EXCEPT !.resends = resends] \in InboxRow
BY DEF InboxRow

\* A row with a new handoff boundary is a row.
LEMMA HandoffType ==
    ASSUME NEW r \in InboxRow, NEW t \in Tokens
    PROVE  [r EXCEPT !.boundary = t, !.settled = FALSE, !.completion = NoToken] \in InboxRow
<1> DEFINE unsettled == [[r EXCEPT !.boundary = t] EXCEPT !.settled = FALSE]
<1>1. t \in AnyToken /\ NoToken \in AnyToken /\ r.state \in InboxStates /\ 1 \in 0..1
  BY DEF AnyToken, InboxRow
<1>2. unsettled \in InboxRow
  BY <1>1, OneColumn
<1>3. [unsettled EXCEPT !.completion = NoToken] \in InboxRow
  <2> HIDE DEF unsettled
  <2> QED
    BY <1>1, <1>2, OneColumn
<1> QED
  BY <1>3

\* A row whose check was cleared is a row, before and after it is charged with
\* the automatic resend.
LEMMA ClearedCheckType ==
    ASSUME NEW r \in InboxRow
    PROVE  /\ ClearedCheck(r) \in InboxRow
           /\ [ClearedCheck(r) EXCEPT !.resends = 1] \in InboxRow
<1> DEFINE waiting == [[r EXCEPT !.state = "pending"] EXCEPT !.leased = FALSE]
           unsettled == [[waiting EXCEPT !.boundary = NoToken] EXCEPT !.settled = FALSE]
           cleared == [unsettled EXCEPT !.completion = NoToken]
<1>1. "pending" \in InboxStates /\ NoToken \in AnyToken /\ 1 \in 0..1
  BY DEF InboxStates, AnyToken
<1>2. waiting \in InboxRow
  BY <1>1, OneColumn
<1>3. unsettled \in InboxRow
  <2> HIDE DEF waiting
  <2> QED
    BY <1>1, <1>2, OneColumn
<1>4. cleared \in InboxRow
  <2> HIDE DEF unsettled
  <2> QED
    BY <1>1, <1>3, OneColumn
<1>5. ClearedCheck(r) = cleared
  BY DEF ClearedCheck
<1>6. [cleared EXCEPT !.resends = 1] \in InboxRow
  <2> HIDE DEF cleared
  <2> QED
    BY <1>1, <1>4, OneColumn
<1> QED
  BY <1>4, <1>5, <1>6

\* What the child and the receiver store is well typed.
LEMMA ChildCallType ==
    ASSUME StoreTypeOK, NEW e \in Events, NEW g \in Generations, ChildCall(e, g)
    PROVE  StoreTypeOK'
<1>1. CASE RecordCompletionSource(e, g)
  BY <1>1, EmptyRows DEF RecordCompletionSource, StoreTypeOK, SourceRow
<1>2. CASE Enqueue(e, g)
  <2>1. [NoOutbox EXCEPT !.state = "pending", !.gen = g] \in OutboxRow
    BY EmptyRows DEF NoOutbox, OutboxRow, OutboxStates
  <2> QED
    BY <1>2, <2>1 DEF Enqueue, StoreTypeOK
<1>3. CASE Accept(e, g)
  <2>1. [NoInbox EXCEPT !.state = "pending", !.gen = g] \in InboxRow
    BY EmptyRows DEF NoInbox, InboxRow, InboxStates
  <2> QED
    BY <1>3, <2>1 DEF Accept, StoreTypeOK
<1> QED
  BY <1>1, <1>2, <1>3 DEF ChildCall

\* A claim leaves well typed rows.
LEMMA ClaimType ==
    ASSUME StoreTypeOK, NEW e \in Events, NEW t \in Tokens,
           ClaimOutbox(e, t) \/ ClaimInbox(e, t)
    PROVE  StoreTypeOK'
<1>1. CASE ClaimOutbox(e, t)
  BY <1>1 DEF ClaimOutbox, StoreTypeOK, OutboxRow, AnyToken
<1>2. CASE ClaimInbox(e, t)
  BY <1>2 DEF ClaimInbox, StoreTypeOK, InboxRow, InboxStates, AnyToken
<1> QED
  BY <1>1, <1>2

\* The steps of an attempt leave well typed rows.
LEMMA AttemptCallType ==
    ASSUME StoreTypeOK, NEW e \in Events, NEW t \in Tokens, AttemptCall(e, t)
    PROVE  StoreTypeOK'
<1> USE DEF StoreTypeOK
<1>1. ASSUME NEW ok \in BOOLEAN, FinishOutbox(e, t, ok) PROVE StoreTypeOK'
  <2>1. OneMore(outbox[e].attempts) \in 0..MaxAttempts
        /\ AfterFailure(outbox[e].attempts) \in OutboxStates
    BY OneMoreType DEF OutboxRow, OutboxStates
  <2> QED
    BY <1>1, <2>1 DEF FinishOutbox, OutboxRow, OutboxStates
<1>2. ASSUME NEW forced \in {"", "pending", "blocked", "uncertain"}, FinishInbox(e, t, forced)
      PROVE StoreTypeOK'
  <2>1. OneMore(inbox[e].attempts) \in 0..MaxAttempts
        /\ AfterFailure(inbox[e].attempts) \in InboxStates
    BY OneMoreType DEF InboxRow, InboxStates, Parked
  <2> DEFINE next == IF forced = "" THEN AfterFailure(inbox[e].attempts) ELSE forced
             row == [inbox[e] EXCEPT !.state = next, !.attempts = OneMore(@), !.leased = FALSE]
  <2>2. next \in InboxStates
    BY <2>1 DEF InboxStates, Parked
  <2>3. row \in InboxRow
    BY <2>1, <2>2 DEF InboxRow
  <2>4. inbox' = IF Holds(e, t) THEN [inbox EXCEPT ![e] = row] ELSE inbox
    BY <1>2 DEF FinishInbox
  <2> QED
    BY <1>2, <2>3, <2>4 DEF FinishInbox
<1>3. CASE SubmitInbox(e, t)
  BY <1>3 DEF SubmitInbox, InboxRow, InboxStates
<1>4. CASE RecordHandoff(e, t)
  BY <1>4, HandoffType DEF RecordHandoff
<1>5. ASSUME NEW settled \in BOOLEAN, RecordHandoffResponse(e, t, settled) PROVE StoreTypeOK'
  BY <1>5 DEF RecordHandoffResponse, InboxRow
<1>6. CASE RecordTurnCompletion(e, t)
  BY <1>6 DEF RecordTurnCompletion, InboxRow, AnyToken
<1> QED
  BY <1>1, <1>2, <1>3, <1>4, <1>5, <1>6 DEF AttemptCall

\* Resends, retries, verdicts and lapsed leases leave well typed rows.
LEMMA RecoveryCallType ==
    ASSUME StoreTypeOK, NEW e \in Events, RecoveryCall(e)
    PROVE  StoreTypeOK'
<1> USE DEF StoreTypeOK
<1>1. CASE ResendOnAbsence(e)
  BY <1>1, ClearedCheckType DEF ResendOnAbsence
<1>2. CASE NotDelivered(e)
  BY <1>2 DEF NotDelivered, InboxRow, InboxStates, Parked
<1>3. CASE WakeBlocked(e)
  BY <1>3 DEF WakeBlocked, InboxRow, InboxStates
<1>4. ASSUME NEW reviewed \in BOOLEAN, RetryOutbox(e, reviewed) PROVE StoreTypeOK'
  BY <1>4 DEF RetryOutbox, OutboxRow, OutboxStates
<1>5. ASSUME NEW reviewed \in BOOLEAN, RetryInbox(e, reviewed) PROVE StoreTypeOK'
  BY <1>5, ClearedCheckType DEF RetryInbox
<1>6. ASSUME NEW confirmed \in BOOLEAN, ResolveReport(e, confirmed) PROVE StoreTypeOK'
  <2> DEFINE verdict == IF confirmed THEN "confirmed_in_transcript" ELSE "handled"
  <2>1. Resolved(inbox[e], verdict) \in InboxRow
    BY DEF Resolved, InboxRow, InboxStates, Terminal, AnyToken
  <2>2. Resolved(outbox[e], verdict) \in OutboxRow
    BY DEF Resolved, OutboxRow, OutboxStates, Terminal, AnyToken
  <2> QED
    BY <1>6, <2>1, <2>2 DEF ResolveReport
<1>7. CASE LeaseLapses(e)
  <2>1. [inbox[e] EXCEPT !.leased = FALSE] \in InboxRow
    BY DEF InboxRow
  <2>2. [outbox[e] EXCEPT !.leased = FALSE] \in OutboxRow
    BY DEF OutboxRow
  <2> QED
    BY <1>7, <2>1, <2>2 DEF LeaseLapses
<1> QED
  BY <1>1, <1>2, <1>3, <1>4, <1>5, <1>6, <1>7 DEF RecoveryCall

\* Revocations and generations keep the store well typed.
LEMMA ProjectCallType ==
    ASSUME StoreTypeOK, ProjectCall
    PROVE  StoreTypeOK'
<1> USE DEF StoreTypeOK
<1>1. ASSUME NEW E \in SUBSET Events, Purge(E)
      PROVE  /\ sources' \in [Events -> SourceRow]
             /\ outbox' \in [Events -> OutboxRow]
             /\ inbox' \in [Events -> InboxRow]
  BY <1>1, EmptyRows DEF Purge
<1>2. CASE Reconcile
  BY <1>2 DEF Reconcile, InboxRow, InboxStates, Parked
<1>3. CurrentGeneration \in Generations /\ CurrentGeneration > 0
  BY DeliveryAssumption DEF CurrentGeneration, Generations
<1>4. CASE ReadGeneration
  BY <1>3, <1>4 DEF ReadGeneration
<1>5. CASE RevokeProject
  <2>1. CurrentGeneration + 1 \in Generations
    BY <1>3, <1>5, DeliveryAssumption DEF RevokeProject, Generations
  <2> QED
    BY <1>1, <1>5, <2>1 DEF RevokeProject
<1>6. CASE RecreateProject
  <2>1. generation + 1 \in Generations
    BY <1>6, DeliveryAssumption DEF RecreateProject, Generations
  <2> QED
    BY <1>6, <2>1 DEF RecreateProject
<1>7. ASSUME NEW s \in Sessions, RevokeSession(s) PROVE StoreTypeOK'
  <2> DEFINE E == {e \in Events : s \in {ParentOf[e], ChildOf[e]}}
  <2>1. Purge(E) /\ E \in SUBSET Events
    BY <1>7 DEF RevokeSession
  <2> QED
    BY <1>1, <1>7, <2>1 DEF RevokeSession
<1>8. ASSUME NEW e \in Events, RevokeEvent(e) PROVE StoreTypeOK'
  BY <1>1, <1>8 DEF RevokeEvent
<1> QED
  BY <1>2, <1>4, <1>5, <1>6, <1>7, <1>8 DEF ProjectCall

(***************************************************************************)
(* What stays of the rows there are.                                        *)
(***************************************************************************)
\* A row that is not there has no column set.
AbsentIsEmpty ==
    \A e \in Events :
        /\ sources[e].present \/ sources[e] = NoSource
        /\ outbox[e].state = "absent" => outbox[e] = NoOutbox
        /\ inbox[e].state = "absent" => inbox[e] = NoInbox

OutboxContinues(r, s) ==
    /\ s.gen = r.gen
    /\ s.state = "absent" <=> r.state = "absent"
    /\ r.state = "absent" => s = r

InboxContinues(r, s) ==
    /\ s.gen = r.gen
    /\ s.state = "absent" <=> r.state = "absent"
    /\ r.state = "absent" => s = r
    /\ r.state \in Terminal => s.state = r.state
    /\ s.state = "dispatch_intent" => r.state \in {"pending", "dispatch_intent"}
    /\ s.resends >= r.resends

RowsContinue ==
    /\ UNCHANGED <<sources, revocations>>
    /\ \A e \in Events : /\ OutboxContinues(outbox[e], outbox'[e])
                         /\ InboxContinues(inbox[e], inbox'[e])

\* Rows that do not change continue.
LEMMA SameRowsContinue ==
    ASSUME StoreTypeOK
    PROVE  \A e \in Events : /\ OutboxContinues(outbox[e], outbox[e])
                             /\ InboxContinues(inbox[e], inbox[e])
BY DEF StoreTypeOK, InboxRow, OutboxContinues, InboxContinues

\* Clearing a check and charging a resend changes neither the generation nor
\* a resend already charged.
LEMMA ClearedCheckFields ==
    ASSUME NEW r \in InboxRow
    PROVE  /\ ClearedCheck(r).gen = r.gen
           /\ ClearedCheck(r).resends = r.resends
           /\ ClearedCheck(r).state = "pending"
           /\ [ClearedCheck(r) EXCEPT !.resends = 1].gen = r.gen
           /\ [ClearedCheck(r) EXCEPT !.resends = 1].resends = 1
           /\ [ClearedCheck(r) EXCEPT !.resends = 1].state = "pending"
<1>1. /\ ClearedCheck(r).gen = r.gen
      /\ ClearedCheck(r).resends = r.resends
      /\ ClearedCheck(r).state = "pending"
  BY DEF ClearedCheck, InboxRow
<1>2. ClearedCheck(r) \in InboxRow
  BY ClearedCheckType
<1> QED
  BY <1>1, <1>2 DEF InboxRow

\* A claim takes a row that is there.
LEMMA ClaimContinues ==
    ASSUME StoreTypeOK, NEW e \in Events, NEW t \in Tokens,
           ClaimOutbox(e, t) \/ ClaimInbox(e, t)
    PROVE  RowsContinue
<1> USE SameRowsContinue DEF RowsContinue, StoreTypeOK
<1>1. CASE ClaimOutbox(e, t)
  BY <1>1 DEF ClaimOutbox, OutboxRow, OutboxContinues
<1>2. CASE ClaimInbox(e, t)
  BY <1>2 DEF ClaimInbox, InboxRow, InboxContinues, Terminal
<1> QED
  BY <1>1, <1>2

\* The steps of an attempt work on a row that is there, or change nothing.
LEMMA AttemptContinues ==
    ASSUME StoreTypeOK, NEW e \in Events, NEW t \in Tokens, AttemptCall(e, t)
    PROVE  RowsContinue
<1> USE SameRowsContinue DEF RowsContinue, StoreTypeOK
<1>1. ASSUME NEW ok \in BOOLEAN, FinishOutbox(e, t, ok) PROVE RowsContinue
  BY <1>1 DEF FinishOutbox, AfterFailure, OutboxRow, OutboxContinues
<1>2. ASSUME NEW forced \in {"", "pending", "blocked", "uncertain"}, FinishInbox(e, t, forced)
      PROVE RowsContinue
  <2> DEFINE next == IF forced = "" THEN AfterFailure(inbox[e].attempts) ELSE forced
             row == [inbox[e] EXCEPT !.state = next, !.attempts = OneMore(@), !.leased = FALSE]
  <2>1. next # "absent"
    BY DEF AfterFailure
  <2>2. /\ row.gen = inbox[e].gen
        /\ row.state = next
        /\ row.resends = inbox[e].resends
    BY DEF InboxRow
  <2>3. Holds(e, t) => InboxContinues(inbox[e], row)
    <3> HIDE DEF next, row
    <3> QED
      BY <2>1, <2>2 DEF InboxContinues, InboxRow, Holds, Terminal
  <2>4. inbox' = IF Holds(e, t) THEN [inbox EXCEPT ![e] = row] ELSE inbox
    BY <1>2 DEF FinishInbox
  <2> HIDE DEF row
  <2> QED
    BY <1>2, <2>3, <2>4 DEF FinishInbox
<1>3. CASE SubmitInbox(e, t)
  BY <1>3 DEF SubmitInbox, Holds, InboxRow, InboxContinues, Terminal
<1>4. CASE RecordHandoff(e, t)
  <2> DEFINE row == [inbox[e] EXCEPT !.boundary = t, !.settled = FALSE, !.completion = NoToken]
  <2>1. /\ row.gen = inbox[e].gen
        /\ row.state = inbox[e].state
        /\ row.resends = inbox[e].resends
    BY DEF InboxRow
  <2>2. Holds(e, t) => InboxContinues(inbox[e], row)
    <3> HIDE DEF row
    <3> QED
      BY <2>1 DEF InboxContinues, InboxRow, Holds
  <2>3. inbox' = IF ClaimIsLive(e, t) THEN [inbox EXCEPT ![e] = row] ELSE inbox
    BY <1>4 DEF RecordHandoff
  <2> HIDE DEF row
  <2> QED
    BY <1>4, <2>2, <2>3 DEF RecordHandoff, ClaimIsLive
<1>5. ASSUME NEW settled \in BOOLEAN, RecordHandoffResponse(e, t, settled) PROVE RowsContinue
  BY <1>5 DEF RecordHandoffResponse, InboxRow, InboxContinues
<1>6. CASE RecordTurnCompletion(e, t)
  BY <1>6 DEF RecordTurnCompletion, InboxRow, InboxContinues, Parked
<1> QED
  BY <1>1, <1>2, <1>3, <1>4, <1>5, <1>6 DEF AttemptCall

\* Resends, retries and verdicts work on a row that is there; a lease that
\* lapses belongs to one.
LEMMA RecoveryContinues ==
    ASSUME StoreTypeOK, AbsentIsEmpty, NEW e \in Events, RecoveryCall(e)
    PROVE  RowsContinue
<1> USE SameRowsContinue DEF RowsContinue, StoreTypeOK
<1>1. CASE ResendOnAbsence(e)
  <2>1. InboxContinues(inbox[e], [ClearedCheck(inbox[e]) EXCEPT !.resends = 1])
    BY <1>1, ClearedCheckFields
    DEF ResendOnAbsence, Checkable, InboxContinues, InboxRow, Parked, Terminal
  <2> QED
    BY <1>1, <2>1 DEF ResendOnAbsence
<1>2. CASE NotDelivered(e)
  BY <1>2 DEF NotDelivered, Checkable, InboxContinues, InboxRow, Parked, Terminal
<1>3. CASE WakeBlocked(e)
  BY <1>3 DEF WakeBlocked, InboxContinues, InboxRow, Terminal
<1>4. ASSUME NEW reviewed \in BOOLEAN, RetryOutbox(e, reviewed) PROVE RowsContinue
  BY <1>4 DEF RetryOutbox, OutboxContinues, OutboxRow
<1>5. ASSUME NEW reviewed \in BOOLEAN, RetryInbox(e, reviewed) PROVE RowsContinue
  <2>1. InboxContinues(inbox[e], ClearedCheck(inbox[e]))
    BY <1>5, ClearedCheckFields DEF RetryInbox, InboxContinues, InboxRow, Parked, Terminal
  <2> QED
    BY <1>5, <2>1 DEF RetryInbox
<1>6. ASSUME NEW confirmed \in BOOLEAN, ResolveReport(e, confirmed) PROVE RowsContinue
  <2> DEFINE verdict == IF confirmed THEN "confirmed_in_transcript" ELSE "handled"
  <2>1. inbox[e].state \notin Terminal
    BY <1>6 DEF ResolveReport, Parked, Terminal
  <2>2. InboxContinues(inbox[e], Resolved(inbox[e], verdict))
    BY <2>1 DEF Resolved, InboxContinues, InboxRow
  <2>3. OutboxContinues(outbox[e], Resolved(outbox[e], verdict))
    BY DEF Resolved, OutboxContinues, OutboxRow
  <2> QED
    BY <1>6, <2>2, <2>3 DEF ResolveReport
<1>7. CASE LeaseLapses(e)
  <2>1. outbox[e].leased => OutboxContinues(outbox[e], [outbox[e] EXCEPT !.leased = FALSE])
    BY DEF AbsentIsEmpty, NoOutbox, OutboxContinues, OutboxRow
  <2>2. inbox[e].leased => InboxContinues(inbox[e], [inbox[e] EXCEPT !.leased = FALSE])
    BY DEF AbsentIsEmpty, NoInbox, InboxContinues, InboxRow
  <2> QED
    BY <1>7, <2>1, <2>2 DEF LeaseLapses
<1> QED
  BY <1>1, <1>2, <1>3, <1>4, <1>5, <1>6, <1>7 DEF RecoveryCall

\* Reconciliation parks the claims nobody holds any more, and no other row.
LEMMA ReconcileContinues ==
    ASSUME StoreTypeOK, Reconcile
    PROVE  RowsContinue
BY SameRowsContinue
DEF Reconcile, RowsContinue, StoreTypeOK, InboxContinues, InboxRow, Terminal

(***************************************************************************)
(* The three sorts of call.                                                 *)
(***************************************************************************)
\* What a deletion does: rows of a set of events go, and those that were
\* stored leave a tombstone.
Removal ==
    \E E \in SUBSET Events :
        /\ Purge(E)
        /\ \A e \in E : Stored(e) => e \in eventTombs'
        /\ \A e \in Events : ~Deleted(e) /\ Deleted(e)' => e \in E
        /\ eventTombs \subseteq eventTombs'

\* What reading or advancing the generation does: no row moves, and no
\* tombstone of an event or a session is lost.
Renewal ==
    /\ UNCHANGED <<sources, outbox, inbox, sessionTombs, eventTombs>>
    /\ projectTomb' => projectTomb

\* A call of the project but the pass over lapsed claims removes rows or moves none.
LEMMA ProjectCallSplits ==
    ASSUME ProjectCall, ~Reconcile
    PROVE  Removal \/ Renewal
<1>1. CASE ReadGeneration \/ RecreateProject
  BY <1>1 DEF ReadGeneration, RecreateProject, Renewal
<1>2. CASE RevokeProject
  <2>1. Purge(Events) /\ Events \in SUBSET Events
    BY <1>2 DEF RevokeProject
  <2> QED
    BY <1>2, <2>1 DEF RevokeProject, Removal
<1>3. ASSUME NEW s \in Sessions, RevokeSession(s) PROVE Removal
  <2> DEFINE E == {e \in Events : s \in {ParentOf[e], ChildOf[e]}}
  <2>1. Purge(E) /\ E \in SUBSET Events
    BY <1>3 DEF RevokeSession
  <2>2. \A e \in E : Stored(e) => e \in eventTombs'
    BY <1>3 DEF RevokeSession
  <2>3. \A e \in Events : ~Deleted(e) /\ Deleted(e)' => e \in E
    BY <1>3 DEF RevokeSession, Deleted, Tombed
  <2>4. eventTombs \subseteq eventTombs'
    BY <1>3 DEF RevokeSession
  <2> HIDE DEF E
  <2> QED
    BY <2>1, <2>2, <2>3, <2>4 DEF Removal
<1>4. ASSUME NEW e \in Events, RevokeEvent(e) PROVE Removal
  <2>1. Purge({e}) /\ {e} \in SUBSET Events
    BY <1>4 DEF RevokeEvent
  <2> QED
    BY <1>4, <2>1 DEF RevokeEvent, Removal, Deleted, Tombed
<1> QED
  BY <1>1, <1>2, <1>3, <1>4 DEF ProjectCall

\* What a missing row reads as.
LEMMA EmptyFields ==
    /\ NoSource.present = FALSE
    /\ NoOutbox.state = "absent"
    /\ NoInbox.state = "absent"
    /\ NoInbox.resends = 0
BY DEF NoSource, NoOutbox, NoInbox

\* What one ChildCall can have done.
LEMMA ChildCallAdds ==
    ASSUME StoreTypeOK, NEW e \in Events, NEW g \in Generations, ChildCall(e, g)
    PROVE  /\ UNCHANGED revocations
           /\ \A f \in Events \ {e} : /\ sources'[f] = sources[f]
                                      /\ outbox'[f] = outbox[f]
                                      /\ inbox'[f] = inbox[f]
           /\ \/ sources'[e] = sources[e]
              \/ ~Revoked(e, g) /\ sources'[e].present
           /\ \/ outbox'[e] = outbox[e]
              \/ /\ ~Revoked(e, g) /\ outbox[e].state = "absent"
                 /\ outbox'[e].state = "pending"
           /\ \/ inbox'[e] = inbox[e]
              \/ /\ ~Revoked(e, g) /\ Trusted(e, g) /\ outbox'[e] = outbox[e]
                 /\ inbox[e].state = "absent" /\ inbox'[e].state = "pending"
                 /\ inbox'[e].gen = g /\ inbox'[e].resends = 0
<1> USE DEF StoreTypeOK
<1>1. CASE RecordCompletionSource(e, g)
  BY <1>1 DEF RecordCompletionSource
<1>2. CASE Enqueue(e, g)
  <2>1. [NoOutbox EXCEPT !.state = "pending", !.gen = g].state = "pending"
    BY DEF NoOutbox
  <2> QED
    BY <1>2, <2>1 DEF Enqueue
<1>3. CASE Accept(e, g)
  <2> DEFINE row == [NoInbox EXCEPT !.state = "pending", !.gen = g]
  <2>1. row.state = "pending" /\ row.gen = g /\ row.resends = 0
    BY DEF NoInbox
  <2> HIDE DEF row
  <2>2. inbox' = IF ~Revoked(e, g) /\ Trusted(e, g) /\ inbox[e].state = "absent"
                 THEN [inbox EXCEPT ![e] = row] ELSE inbox
    BY <1>3 DEF Accept, row
  <2> QED
    BY <1>3, <2>1, <2>2 DEF Accept
<1> QED
  BY <1>1, <1>2, <1>3 DEF ChildCall

(***************************************************************************)
(* Any call at all, with any token.                                         *)
(***************************************************************************)
StoreCall ==
    \/ \E e \in Events, g \in Generations : ChildCall(e, g)
    \/ \E e \in Events, t \in Tokens : ClaimOutbox(e, t) \/ ClaimInbox(e, t) \/ AttemptCall(e, t)
    \/ \E e \in Events : RecoveryCall(e)
    \/ ProjectCall

\* Every call leaves well typed rows.
LEMMA StoreCallType ==
    ASSUME StoreTypeOK, StoreCall
    PROVE  StoreTypeOK'
BY ChildCallType, ClaimType, AttemptCallType, RecoveryCallType, ProjectCallType DEF StoreCall

\* Every call works on rows, adds one, removes some or touches none.
LEMMA StoreCallSplits ==
    ASSUME StoreTypeOK, AbsentIsEmpty, StoreCall
    PROVE  \/ RowsContinue
           \/ \E e \in Events, g \in Generations : ChildCall(e, g)
           \/ Removal
           \/ Renewal
BY ClaimContinues, AttemptContinues, RecoveryContinues, ReconcileContinues, ProjectCallSplits
DEF StoreCall

\* No call leaves a trace of a row that is not there.
LEMMA AbsentIsEmptyKept ==
    ASSUME StoreTypeOK, AbsentIsEmpty, StoreCall
    PROVE  AbsentIsEmpty'
<1>1. CASE RowsContinue
  BY <1>1 DEF RowsContinue, AbsentIsEmpty, OutboxContinues, InboxContinues
<1>2. ASSUME NEW e \in Events, NEW g \in Generations, ChildCall(e, g) PROVE AbsentIsEmpty'
  BY <1>2, ChildCallAdds DEF AbsentIsEmpty
<1>3. CASE Removal
  BY <1>3, EmptyFields DEF Removal, Purge, AbsentIsEmpty
<1>4. CASE Renewal
  BY <1>4 DEF Renewal, AbsentIsEmpty
<1> QED
  BY <1>1, <1>2, <1>3, <1>4, StoreCallSplits

\* No call stores anything of what is deleted, and a deletion leaves nothing.
LEMMA DeletedIsGoneKept ==
    ASSUME StoreTypeOK, AbsentIsEmpty, DeletedIsGone, StoreCall
    PROVE  DeletedIsGone'
<1> USE DEF DeletedIsGone
<1>1. CASE RowsContinue
  BY <1>1 DEF RowsContinue, OutboxContinues, InboxContinues, Stored, Deleted, Tombed
<1>2. ASSUME NEW e \in Events, NEW g \in Generations, ChildCall(e, g)
      PROVE  DeletedIsGone'
  <2>1. Deleted(e) => Revoked(e, g)
    BY DEF Deleted, Tombed, Revoked
  <2> QED
    BY <1>2, <2>1, ChildCallAdds DEF Stored, Deleted, Tombed
<1>3. CASE Removal
  <2>1. PICK E \in SUBSET Events :
          /\ Purge(E)
          /\ \A e \in Events : ~Deleted(e) /\ Deleted(e)' => e \in E
    BY <1>3 DEF Removal
  <2>2. \A e \in E : ~Stored(e)'
    BY <2>1, EmptyFields DEF Purge, Stored
  <2>3. \A e \in Events \ E : Stored(e)' = Stored(e)
    BY <2>1 DEF Purge, Stored
  <2> QED
    BY <2>1, <2>2, <2>3
<1>4. CASE Renewal
  BY <1>4 DEF Renewal, Stored, Deleted, Tombed
<1> QED
  BY <1>1, <1>2, <1>3, <1>4, StoreCallSplits

(***************************************************************************)
(* Where a call takes the reports: every call but the project's touches the *)
(* rows of one report and takes it from one standing to a permitted next;   *)
(* the calls of the project take several reports, all to the same standing. *)
(***************************************************************************)
Step(from, to) ==
    \/ to = from
    \/ from = "none" /\ to = "open"
    \/ from = "open" /\ to = "waits"
    \/ from = "waits" /\ to \in {"open", "closed", "waived"}
    \/ from = "waived" /\ to = "open"

OnlyRowOf(e) ==
    /\ UNCHANGED revocations
    /\ \A f \in Events \ {e} : /\ sources'[f] = sources[f]
                               /\ outbox'[f] = outbox[f]
                               /\ inbox'[f] = inbox[f]

ReportMoves(e) == OnlyRowOf(e) /\ Step(Standing(e), Standing(e)')

Shift(E, from, to) ==
    /\ \A e \in E : Standing(e) \in from /\ Standing(e)' = to
    /\ \A e \in Events \ E : Standing(e)' = Standing(e)

Anywhere == {"none", "open", "waits", "waived", "closed", "deleted"}

\* A report whose rows are left alone stands where it stood.
LEMMA OthersStand ==
    ASSUME NEW e \in Events, OnlyRowOf(e)
    PROVE  \A f \in Events \ {e} : Standing(f)' = Standing(f)
BY DEF OnlyRowOf, Standing, ReportState, Tombed, Stored

\* Only a row that may be stored at all is stored, so no report leaves
\* "deleted"; a late request takes a waived report back to "open".
LEMMA ChildCallMoves ==
    ASSUME StoreTypeOK, NEW e \in Events, NEW g \in Generations, ChildCall(e, g)
    PROVE  ReportMoves(e)
<1>1. OnlyRowOf(e)
  BY ChildCallAdds DEF OnlyRowOf
<1>2. ~Revoked(e, g) => ~Tombed(e)
  BY DEF Revoked, Tombed
<1>3. \/ sources'[e] = sources[e]
      \/ ~Revoked(e, g) /\ sources'[e].present
  BY ChildCallAdds
<1>4. \/ outbox'[e] = outbox[e]
      \/ ~Revoked(e, g) /\ outbox[e].state = "absent" /\ outbox'[e].state = "pending"
  BY ChildCallAdds
<1>5. \/ inbox'[e] = inbox[e]
      \/ /\ outbox[e].state # "absent" /\ outbox'[e] = outbox[e]
         /\ inbox[e].state = "absent" /\ inbox'[e].state = "pending"
  BY ChildCallAdds DEF Trusted
<1>6. Tombed(e)' = Tombed(e)
  BY <1>1 DEF OnlyRowOf, Tombed
<1>7. Step(Standing(e), Standing(e)')
  BY <1>2, <1>3, <1>4, <1>5, <1>6
     DEF Step, Standing, ReportState, Stored, Terminal, Parked
<1> QED
  BY <1>1, <1>7 DEF ReportMoves

\* A claim works on a report that is open and leaves it open.
LEMMA ClaimMoves ==
    ASSUME StoreTypeOK, NEW e \in Events, NEW t \in Tokens,
           ClaimOutbox(e, t) \/ ClaimInbox(e, t)
    PROVE  ReportMoves(e)
<1> USE DEF StoreTypeOK
<1>1. OnlyRowOf(e)
  BY DEF OnlyRowOf, ClaimOutbox, ClaimInbox
<1>2. Standing(e)' = Standing(e)
  BY DEF ClaimOutbox, ClaimInbox, OutboxRow, InboxRow, Standing, ReportState, Stored,
         Tombed, Terminal, Parked
<1> QED
  BY <1>1, <1>2 DEF ReportMoves, Step

\* An attempt answers an open report or leaves it open.
LEMMA AttemptMoves ==
    ASSUME StoreTypeOK, NEW e \in Events, NEW t \in Tokens, AttemptCall(e, t)
    PROVE  ReportMoves(e)
<1> USE DEF StoreTypeOK, Step, Standing, ReportState, Stored, Tombed, Terminal, Parked
<1>1. OnlyRowOf(e)
  BY DEF OnlyRowOf, AttemptCall, FinishOutbox, SubmitInbox, FinishInbox, RecordHandoff,
         RecordHandoffResponse, RecordTurnCompletion
<1>2. ASSUME NEW ok \in BOOLEAN, FinishOutbox(e, t, ok)
      PROVE  Step(Standing(e), Standing(e)')
  BY <1>2 DEF FinishOutbox, AfterFailure, OutboxRow
<1>3. ASSUME SubmitInbox(e, t)
      PROVE  Step(Standing(e), Standing(e)')
  BY <1>3 DEF SubmitInbox, Holds, InboxRow
<1>4. ASSUME NEW forced \in {"", "pending", "blocked", "uncertain"},
             FinishInbox(e, t, forced)
      PROVE  Step(Standing(e), Standing(e)')
  BY <1>4 DEF FinishInbox, Holds, AfterFailure, InboxRow
<1>5. ASSUME RecordHandoff(e, t)
      PROVE  Step(Standing(e), Standing(e)')
  BY <1>5 DEF RecordHandoff, InboxRow
<1>6. ASSUME NEW settled \in BOOLEAN, RecordHandoffResponse(e, t, settled)
      PROVE  Step(Standing(e), Standing(e)')
  BY <1>6 DEF RecordHandoffResponse, InboxRow
<1>7. ASSUME RecordTurnCompletion(e, t)
      PROVE  Step(Standing(e), Standing(e)')
  BY <1>7 DEF RecordTurnCompletion, InboxRow
<1> QED
  BY <1>1, <1>2, <1>3, <1>4, <1>5, <1>6, <1>7 DEF AttemptCall, ReportMoves

\* People and the settlement pass act on a report that waits for them.
LEMMA RecoveryMoves ==
    ASSUME StoreTypeOK, NEW e \in Events, RecoveryCall(e)
    PROVE  ReportMoves(e)
<1> USE DEF ReportMoves, StoreTypeOK, Step, Standing, ReportState, Stored, Tombed, Terminal, Parked
<1>1. CASE ResendOnAbsence(e)
  BY <1>1 DEF OnlyRowOf, ResendOnAbsence, Checkable, ClearedCheck, InboxRow
<1>2. CASE NotDelivered(e)
  BY <1>2 DEF OnlyRowOf, NotDelivered, Checkable, InboxRow
<1>3. CASE WakeBlocked(e)
  BY <1>3 DEF OnlyRowOf, WakeBlocked, InboxRow
<1>4. ASSUME NEW reviewed \in BOOLEAN, RetryOutbox(e, reviewed)
      PROVE  ReportMoves(e)
  BY <1>4 DEF OnlyRowOf, RetryOutbox, OutboxRow
<1>5. ASSUME NEW reviewed \in BOOLEAN, RetryInbox(e, reviewed)
      PROVE  ReportMoves(e)
  BY <1>5 DEF OnlyRowOf, RetryInbox, ClearedCheck, InboxRow
<1>6. ASSUME NEW confirmed \in BOOLEAN, ResolveReport(e, confirmed)
      PROVE  ReportMoves(e)
  BY <1>6
     DEF OnlyRowOf, ResolveReport, Resolved, OutboxRow, InboxRow, OutboxStates
<1>7. CASE LeaseLapses(e)
  BY <1>7 DEF OnlyRowOf, LeaseLapses, OutboxRow, InboxRow
<1> QED
  BY <1>1, <1>2, <1>3, <1>4, <1>5, <1>6, <1>7 DEF RecoveryCall

\* What is purged with a tombstone stands deleted.
LEMMA PurgeDeletes ==
    ASSUME NEW E \in SUBSET Events, Purge(E), \A e \in E : Tombed(e)',
           \A e \in Events \ E : Tombed(e)' = Tombed(e)
    PROVE  Shift(E, Anywhere, "deleted")
<1>1. \A e \in E : Standing(e)' = "deleted"
  BY DEF Purge, Standing, Stored, NoSource, NoOutbox, NoInbox
<1>2. \A e \in Events \ E : Standing(e)' = Standing(e)
  BY DEF Purge, Standing, ReportState, Stored
<1>3. \A e \in E : Standing(e) \in Anywhere
  BY DEF Standing, Anywhere
<1> QED
  BY <1>1, <1>2, <1>3 DEF Shift

\* The pass over lapsed claims answers them all; deletions delete; reading and
\* recreating the project leave every report where it is.
LEMMA ProjectCallMoves ==
    ASSUME StoreTypeOK, ProjectCall
    PROVE  \E E \in SUBSET Events : Shift(E, {"open"}, "waits") \/ Shift(E, Anywhere, "deleted")
<1>1. CASE Reconcile
  <2> DEFINE E == {e \in Events : inbox[e].state = "dispatch_intent" /\ ~inbox[e].leased}
  <2>1. \A e \in E : Standing(e) \in {"open"} /\ Standing(e)' = "waits"
    BY <1>1 DEF StoreTypeOK, InboxRow, Reconcile, Standing, ReportState, Stored, Terminal, Parked
  <2>2. \A e \in Events \ E : Standing(e)' = Standing(e)
    BY <1>1 DEF Reconcile, Standing, ReportState, Stored, Tombed
  <2>3. Shift(E, {"open"}, "waits") /\ E \in SUBSET Events
    BY <2>1, <2>2 DEF Shift
  <2> QED
    BY <2>3
<1>2. CASE ReadGeneration \/ RecreateProject
  <2>1. \A e \in Events : Standing(e)' = Standing(e)
    BY <1>2 DEF ReadGeneration, RecreateProject, Standing, ReportState, Stored, Tombed
  <2>2. Shift({}, {"open"}, "waits") /\ {} \in SUBSET Events
    BY <2>1 DEF Shift
  <2> QED
    BY <2>2
<1>3. CASE RevokeProject
  <2> DEFINE E == {e \in Events : Stored(e) \/ Tombed(e)}
  <2>1. \A e \in E : Standing(e)' = "deleted"
    BY <1>3 DEF RevokeProject, Purge, Standing, Stored, Tombed, NoSource, NoOutbox, NoInbox
  <2>2. \A e \in Events \ E : Standing(e)' = Standing(e)
    BY <1>3 DEF RevokeProject, Purge, Standing, Stored, Tombed, NoSource, NoOutbox, NoInbox
  <2>3. \A e \in E : Standing(e) \in Anywhere
    BY DEF Standing, Anywhere
  <2>4. Shift(E, Anywhere, "deleted") /\ E \in SUBSET Events
    BY <2>1, <2>2, <2>3 DEF Shift
  <2> QED
    BY <2>4
<1>4. ASSUME NEW s \in Sessions, RevokeSession(s)
      PROVE  \E E \in SUBSET Events : Shift(E, Anywhere, "deleted")
  <2> DEFINE E == {e \in Events : s \in {ParentOf[e], ChildOf[e]}}
  <2>1. Purge(E) /\ E \in SUBSET Events /\ (\A e \in E : Tombed(e)')
    BY <1>4 DEF RevokeSession, Tombed
  <2>2. \A e \in Events \ E : Tombed(e)' = Tombed(e)
    BY <1>4 DEF RevokeSession, Tombed
  <2> QED
    BY <2>1, <2>2, PurgeDeletes
<1>5. ASSUME NEW e \in Events, RevokeEvent(e)
      PROVE  \E E \in SUBSET Events : Shift(E, Anywhere, "deleted")
  <2>1. Purge({e}) /\ {e} \in SUBSET Events /\ (\A f \in {e} : Tombed(f)')
    BY <1>5 DEF RevokeEvent, Tombed
  <2>2. \A f \in Events \ {e} : Tombed(f)' = Tombed(f)
    BY <1>5 DEF RevokeEvent, Tombed
  <2> QED
    BY <2>1, <2>2, PurgeDeletes
<1> QED
  BY <1>1, <1>2, <1>3, <1>4, <1>5 DEF ProjectCall

\* Any call moves one report as Step allows, or answers or deletes some.
LEMMA StoreCallMoves ==
    ASSUME StoreTypeOK, StoreCall
    PROVE  \/ \E e \in Events : ReportMoves(e)
           \/ \E E \in SUBSET Events : \/ Shift(E, {"open"}, "waits")
                                      \/ Shift(E, Anywhere, "deleted")
BY ChildCallMoves, ClaimMoves, AttemptMoves, RecoveryMoves, ProjectCallMoves DEF StoreCall

\* What is stored stays stored, unless a deletion leaves its tombstone.
LEMMA OnlyDeletionsUnstore ==
    ASSUME StoreTypeOK, AbsentIsEmpty, StoreCall, NEW e \in Events, Stored(e), ~Stored(e)'
    PROVE  e \in eventTombs'
<1>1. CASE RowsContinue
  BY <1>1 DEF RowsContinue, InboxContinues, OutboxContinues, Stored
<1>2. ASSUME NEW f \in Events, NEW g \in Generations, ChildCall(f, g)
      PROVE  Stored(e)'
  BY <1>2, ChildCallAdds DEF Stored
<1>3. CASE Removal
  BY <1>3 DEF Removal, Purge, Stored
<1>4. CASE Renewal
  BY <1>4 DEF Renewal, Stored
<1> QED
  BY <1>1, <1>2, <1>3, <1>4, StoreCallSplits

(***************************************************************************)
(* Generations.                                                             *)
(***************************************************************************)
\* a project that was deleted has a generation to be recreated from
TombHasGeneration == projectTomb => generation > 0

\* A generation is never followed by an earlier one, and as long as it lasts
\* nothing that is deleted comes back.
LEMMA GenerationsAdvance ==
    ASSUME StoreTypeOK, TombHasGeneration, StoreCall
    PROVE  /\ TombHasGeneration'
           /\ CurrentGeneration' >= CurrentGeneration
           /\ CurrentGeneration' = CurrentGeneration =>
                 \A e \in Events : Deleted(e) => Deleted(e)'
<1> USE DEF TombHasGeneration, CurrentGeneration, Deleted, Tombed, StoreTypeOK
<1>0. generation \in Nat
  BY DEF Generations
<1>1. CASE UNCHANGED revocations
  BY <1>0, <1>1 DEF revocations
<1>2. CASE ProjectCall
  <2>1. CASE Reconcile
    BY <1>1, <2>1 DEF Reconcile
  <2>2. CASE ReadGeneration
    <3>1. /\ UNCHANGED <<projectTomb, sessionTombs, eventTombs>>
          /\ generation' = CurrentGeneration /\ generation' > 0
      BY <1>0, <2>2 DEF ReadGeneration
    <3>2. CurrentGeneration' = CurrentGeneration /\ CurrentGeneration \in Nat
      BY <1>0, <3>1
    <3>3. \A e \in Events : Deleted(e) => Deleted(e)'
      BY <3>1
    <3>4. TombHasGeneration'
      BY <3>1
    <3> HIDE DEF Deleted, CurrentGeneration, TombHasGeneration
    <3> QED
      BY <3>2, <3>3, <3>4
  <2>3. CASE RevokeProject
    BY <1>0, <2>3 DEF RevokeProject
  <2>4. CASE RecreateProject
    BY <1>0, <2>4 DEF RecreateProject
  <2>5. CASE \/ \E s \in Sessions : RevokeSession(s)
             \/ \E e \in Events : RevokeEvent(e)
    <3>1. /\ UNCHANGED <<projectTomb, generation>>
          /\ sessionTombs \subseteq sessionTombs' /\ eventTombs \subseteq eventTombs'
      BY <2>5 DEF RevokeSession, RevokeEvent
    <3> QED
      BY <1>0, <3>1
  <2> QED
    BY <1>2, <2>1, <2>2, <2>3, <2>4, <2>5 DEF ProjectCall
<1>3. CASE \E e \in Events, t \in Tokens : ClaimOutbox(e, t) \/ ClaimInbox(e, t)
  BY <1>1, <1>3 DEF ClaimOutbox, ClaimInbox
<1> QED
  BY <1>1, <1>2, <1>3, ChildCallMoves, AttemptMoves, RecoveryMoves
  DEF StoreCall, ReportMoves, OnlyRowOf
=============================================================================
