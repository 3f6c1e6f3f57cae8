--------------------------- MODULE DeliveryStore ---------------------------
(***************************************************************************)
(* The SQLite store behind delegation delivery (mc/delegation_delivery.py   *)
(* and mc/delegation_settlement.py): the three tables that carry a child    *)
(* agent's completion to the session that asked for it, and the tombstones  *)
(* that revoke it.  Every operation is one BEGIN IMMEDIATE transaction, so  *)
(* every operation is one action here, whoever calls it.                    *)
(*                                                                          *)
(* Time is abstracted: a lease is TRUE until LeaseLapses (lease_until       *)
(* passing) and a back-off (next_attempt) elapses whenever a claim happens. *)
(* A payload is abstracted to the delivery generation it carries, 0 when it *)
(* carries none, which is the case of background-job notices.               *)
(***************************************************************************)
EXTENDS Naturals, FiniteSets

CONSTANTS
    Events,         \* event ids, unique per child turn (allocate_turn)
    Sessions,       \* session ids
    NoSession,      \* the empty session id
    ParentOf,       \* [Events -> Sessions]: parent_session_id
    ChildOf,        \* [Events -> Sessions \cup {NoSession}]: the payload's child
    Tokens,         \* fence tokens (uuid4 values)
    NoToken,        \* the empty fence token
    MaxAttempts,    \* MAX_ATTEMPTS
    MaxGeneration   \* bound: how far the project generation may count

ASSUME DeliveryAssumption ==
    /\ ParentOf \in [Events -> Sessions]
    /\ ChildOf \in [Events -> Sessions \cup {NoSession}]
    /\ NoSession \notin Sessions
    /\ NoToken \notin Tokens
    /\ MaxAttempts \in Nat \ {0}
    /\ MaxGeneration \in Nat \ {0}

VARIABLES
    sources,        \* completion_sources
    outbox,         \* outbox
    inbox,          \* inbox, with the evidence columns of settlement
    projectTomb,    \* the tombstone of the whole project
    sessionTombs,   \* revoked sessions
    eventTombs,     \* revoked events
    generation      \* project_generations, 0 when there is no row yet

storeVars == <<sources, outbox, inbox, projectTomb, sessionTombs, eventTombs,
               generation>>
revocations == <<projectTomb, sessionTombs, eventTombs, generation>>

Parked == {"uncertain", "blocked", "recovery_required"}
Terminal == {"handled", "confirmed_in_transcript"}
OutboxStates == {"absent", "pending", "delivered", "recovery_required"} \cup Terminal
InboxStates == {"absent", "pending", "dispatch_intent", "submitted"}
                    \cup Parked \cup Terminal

Generations == 0..MaxGeneration
AnyToken == Tokens \cup {NoToken}

SourceRow == [present : BOOLEAN, gen : Generations]
OutboxRow == [state : OutboxStates, gen : Generations, attempts : 0..MaxAttempts,
              leased : BOOLEAN, token : AnyToken]
InboxRow == [state : InboxStates, gen : Generations, attempts : 0..MaxAttempts,
             leased : BOOLEAN, token : AnyToken,
             boundary : AnyToken,       \* token inside handoff_boundary
             settled : BOOLEAN,         \* its submission_settled
             completion : AnyToken,     \* token inside turn_completion
             resends : 0..1]            \* auto_resends

NoSource == [present |-> FALSE, gen |-> 0]
NoOutbox == [state |-> "absent", gen |-> 0, attempts |-> 0, leased |-> FALSE,
             token |-> NoToken]
NoInbox == [state |-> "absent", gen |-> 0, attempts |-> 0, leased |-> FALSE,
            token |-> NoToken, boundary |-> NoToken, settled |-> FALSE,
            completion |-> NoToken, resends |-> 0]

StoreTypeOK ==
    /\ sources \in [Events -> SourceRow]
    /\ outbox \in [Events -> OutboxRow]
    /\ inbox \in [Events -> InboxRow]
    /\ projectTomb \in BOOLEAN
    /\ sessionTombs \subseteq Sessions
    /\ eventTombs \subseteq Events
    /\ generation \in Generations

StoreInit ==
    /\ sources = [e \in Events |-> NoSource]
    /\ outbox = [e \in Events |-> NoOutbox]
    /\ inbox = [e \in Events |-> NoInbox]
    /\ projectTomb = FALSE
    /\ sessionTombs = {}
    /\ eventTombs = {}
    /\ generation = 0

(***************************************************************************)
(* Revocation and project generations.                                      *)
(***************************************************************************)
CurrentGeneration == IF generation = 0 THEN 1 ELSE generation

\* a plausible slip: the child's tombstone is not looked up
RevokedWithoutChild(e, g) ==
    \/ CurrentGeneration > 1 /\ g # CurrentGeneration
    \/ g # 0 /\ g # CurrentGeneration
    \/ projectTomb
    \/ ParentOf[e] \in sessionTombs
    \/ e \in eventTombs

\* _revoked: may nothing be stored about e with a payload of generation g?
Revoked(e, g) ==
    \/ CurrentGeneration > 1 /\ g # CurrentGeneration
    \/ g # 0 /\ g # CurrentGeneration
    \/ projectTomb
    \/ ParentOf[e] \in sessionTombs
    \/ ChildOf[e] \in sessionTombs
    \/ e \in eventTombs

Stored(e) == sources[e].present \/ outbox[e].state # "absent" \/ inbox[e].state # "absent"

\* the purge shared by the three scopes of _revoke: rows go, and every purged
\* row leaves an event tombstone
Purge(E) ==
    /\ sources' = [e \in Events |-> IF e \in E THEN NoSource ELSE sources[e]]
    /\ outbox' = [e \in Events |-> IF e \in E THEN NoOutbox ELSE outbox[e]]
    /\ inbox' = [e \in Events |-> IF e \in E THEN NoInbox ELSE inbox[e]]

RevokeEvent(e) ==
    /\ Purge({e})
    /\ eventTombs' = eventTombs \cup {e}
    /\ UNCHANGED <<projectTomb, sessionTombs, generation>>

\* a plausible slip: only the session itself leaves a tombstone
RevokeSessionOnly(s) ==
    LET E == {e \in Events : s \in {ParentOf[e], ChildOf[e]}}
    IN  /\ Purge(E)
        /\ sessionTombs' = sessionTombs \cup {s}
        /\ UNCHANGED <<projectTomb, eventTombs, generation>>

RevokeSession(s) ==
    LET E == {e \in Events : s \in {ParentOf[e], ChildOf[e]}}
    IN  /\ Purge(E)
        /\ sessionTombs' = sessionTombs \cup {s}
        /\ eventTombs' = eventTombs \cup {e \in E : Stored(e)}
        /\ UNCHANGED <<projectTomb, generation>>

RevokeProject ==
    /\ CurrentGeneration < MaxGeneration
    /\ Purge(Events)
    /\ projectTomb' = TRUE
    /\ eventTombs' = eventTombs \cup {e \in Events : Stored(e)}
    /\ generation' = CurrentGeneration + 1
    /\ UNCHANGED sessionTombs

\* recreate_project: event tombstones survive, the project's does not
RecreateProject ==
    /\ generation < MaxGeneration
    /\ generation' = generation + 1
    /\ projectTomb' = FALSE
    /\ UNCHANGED <<sources, outbox, inbox, sessionTombs, eventTombs>>

\* project_generation materialises the default row
ReadGeneration ==
    /\ generation' = CurrentGeneration
    /\ UNCHANGED <<sources, outbox, inbox, projectTomb, sessionTombs, eventTombs>>

(***************************************************************************)
(* The child's side: the completion source, then the outbox.                *)
(***************************************************************************)
RecordCompletionSource(e, g) ==
    /\ sources' = IF Revoked(e, g) \/ sources[e].present THEN sources
                  ELSE [sources EXCEPT ![e] = [present |-> TRUE, gen |-> g]]
    /\ UNCHANGED <<outbox, inbox, revocations>>

Enqueue(e, g) ==
    /\ outbox' = IF Revoked(e, g) \/ outbox[e].state # "absent" THEN outbox
                 ELSE [outbox EXCEPT ![e] = [NoOutbox EXCEPT !.state = "pending", !.gen = g]]
    /\ UNCHANGED <<sources, inbox, revocations>>

ClaimOutbox(e, t) ==
    /\ outbox[e].state = "pending"
    /\ ~outbox[e].leased
    /\ outbox' = [outbox EXCEPT ![e].leased = TRUE, ![e].token = t]
    /\ UNCHANGED <<sources, inbox, revocations>>

OneMore(attempts) == IF attempts < MaxAttempts THEN attempts + 1 ELSE attempts

\* a plausible slip: a failed row is retried without end
AlwaysRetried(attempts) == "pending"

\* where a failure that forces no state leaves a row: another try, or recovery
AfterFailure(attempts) ==
    IF attempts + 1 >= MaxAttempts THEN "recovery_required" ELSE "pending"

\* ack_outbox (ok) and finish_outbox: fenced, a stale token changes nothing
FinishOutbox(e, t, ok) ==
    LET r == outbox[e]
    IN  /\ outbox' = IF r.state = "pending" /\ r.token = t
                     THEN [outbox EXCEPT ![e] =
                             [r EXCEPT !.state = IF ok THEN "delivered"
                                                 ELSE AfterFailure(r.attempts),
                                       !.attempts = OneMore(@),
                                       !.leased = FALSE]]
                     ELSE outbox
        /\ UNCHANGED <<sources, inbox, revocations>>

RetryOutbox(e, reviewed) ==
    /\ outbox[e].state = "recovery_required"
    /\ reviewed
    /\ outbox' = [outbox EXCEPT ![e].state = "pending", ![e].leased = FALSE]
    /\ UNCHANGED <<sources, inbox, revocations>>

(***************************************************************************)
(* The receiver's side: acceptance, fenced claims, and the attempt's end.   *)
(***************************************************************************)
\* accept trusts only what the outbox holds, whatever state its row is in
Trusted(e, g) == outbox[e].state # "absent" /\ outbox[e].gen = g

\* a plausible slip: the receiver takes the sender's word
AcceptUntrusted(e, g) ==
    /\ inbox' = IF ~Revoked(e, g) /\ inbox[e].state = "absent"
                THEN [inbox EXCEPT ![e] = [NoInbox EXCEPT !.state = "pending", !.gen = g]]
                ELSE inbox
    /\ UNCHANGED <<sources, outbox, revocations>>

Accept(e, g) ==
    /\ inbox' = IF ~Revoked(e, g) /\ Trusted(e, g) /\ inbox[e].state = "absent"
                THEN [inbox EXCEPT ![e] = [NoInbox EXCEPT !.state = "pending", !.gen = g]]
                ELSE inbox
    /\ UNCHANGED <<sources, outbox, revocations>>

ClaimInbox(e, t) ==
    /\ inbox[e].state = "pending"
    /\ ~inbox[e].leased
    /\ inbox' = [inbox EXCEPT ![e].state = "dispatch_intent", ![e].leased = TRUE,
                              ![e].token = t]
    /\ UNCHANGED <<sources, outbox, revocations>>

Holds(e, t) == inbox[e].state = "dispatch_intent" /\ inbox[e].token = t

\* revalidate_claim extends a lease that still runs, so the row is unchanged
ClaimIsLive(e, t) == Holds(e, t) /\ inbox[e].leased

\* submit_inbox
SubmitInbox(e, t) ==
    /\ inbox' = IF Holds(e, t)
                THEN [inbox EXCEPT ![e].state = "submitted", ![e].leased = FALSE]
                ELSE inbox
    /\ UNCHANGED <<sources, outbox, revocations>>

\* a plausible slip: the unforced case has no default
FinishInboxUnforced(e, t, forced) ==
    /\ inbox' = IF Holds(e, t)
                THEN [inbox EXCEPT ![e].state = forced, ![e].leased = FALSE]
                ELSE inbox
    /\ UNCHANGED <<sources, outbox, revocations>>

\* finish_inbox; forced is the state classify_inbox_failure picked, or "" for
\* the bounded retry
FinishInbox(e, t, forced) ==
    /\ inbox' = IF Holds(e, t)
                THEN [inbox EXCEPT ![e] =
                        [inbox[e] EXCEPT
                            !.state = IF forced = "" THEN AfterFailure(inbox[e].attempts)
                                      ELSE forced,
                            !.attempts = OneMore(@),
                            !.leased = FALSE]]
                ELSE inbox
    /\ UNCHANGED <<sources, outbox, revocations>>

\* a plausible slip: a claim whose lease ran out simply goes back in the queue
ReconcileRequeues ==
    /\ inbox' = [e \in Events |->
                    IF inbox[e].state = "dispatch_intent" /\ ~inbox[e].leased
                    THEN [inbox[e] EXCEPT !.state = "pending"]
                    ELSE inbox[e]]
    /\ UNCHANGED <<sources, outbox, revocations>>

\* reconcile: every claim whose lease ran out becomes explicit uncertainty
Reconcile ==
    /\ inbox' = [e \in Events |->
                    IF inbox[e].state = "dispatch_intent" /\ ~inbox[e].leased
                    THEN [inbox[e] EXCEPT !.state = "uncertain"]
                    ELSE inbox[e]]
    /\ UNCHANGED <<sources, outbox, revocations>>

LeaseLapses(e) ==
    /\ \/ /\ outbox[e].leased
          /\ outbox' = [outbox EXCEPT ![e] = [@ EXCEPT !.leased = FALSE]]
          /\ UNCHANGED inbox
       \/ /\ inbox[e].leased
          /\ inbox' = [inbox EXCEPT ![e] = [@ EXCEPT !.leased = FALSE]]
          /\ UNCHANGED outbox
    /\ UNCHANGED <<sources, revocations>>

(***************************************************************************)
(* Settlement evidence (delegation_settlement.py).                          *)
(***************************************************************************)
\* record_handoff: refused (a no-op) when the claim is no longer live
RecordHandoff(e, t) ==
    /\ inbox' = IF ClaimIsLive(e, t)
                THEN [inbox EXCEPT ![e] = [@ EXCEPT !.boundary = t, !.settled = FALSE,
                                                    !.completion = NoToken]]
                ELSE inbox
    /\ UNCHANGED <<sources, outbox, revocations>>

\* a plausible slip: any answer counts as the end of the writing
ResponseAlwaysSettles(e, t, settled) ==
    /\ inbox' = IF /\ inbox[e].state # "absent"
                   /\ inbox[e].token = t
                   /\ inbox[e].boundary # NoToken
                THEN [inbox EXCEPT ![e].settled = TRUE]
                ELSE inbox
    /\ UNCHANGED <<sources, outbox, revocations>>

\* record_handoff_response
RecordHandoffResponse(e, t, settled) ==
    /\ inbox' = IF /\ inbox[e].state # "absent"
                   /\ inbox[e].token = t
                   /\ inbox[e].boundary # NoToken
                THEN [inbox EXCEPT ![e].settled = settled]
                ELSE inbox
    /\ UNCHANGED <<sources, outbox, revocations>>

\* record_turn_completion: the first completion of an attempt is the one kept
RecordTurnCompletion(e, t) ==
    /\ inbox' = IF /\ inbox[e].token = t
                   /\ inbox[e].boundary # NoToken
                   /\ inbox[e].completion = NoToken
                   /\ inbox[e].state \in {"dispatch_intent", "submitted"} \cup Parked
                THEN [inbox EXCEPT ![e].completion = t]
                ELSE inbox
    /\ UNCHANGED <<sources, outbox, revocations>>

\* what evaluate needs from the row before it may answer 'absent'
AbsenceEvidence(r) ==
    /\ r.boundary # NoToken
    /\ r.completion = r.boundary
    /\ r.settled

Checkable(r) == r.state \in Parked \/ (r.state = "submitted" /\ r.boundary # NoToken)

\* a plausible slip: a retry keeps the evidence of the attempt before it
KeptCheck(r) == [r EXCEPT !.state = "pending", !.leased = FALSE]

\* a plausible slip: a retry starts with a fresh allowance
ClearedAllowance(r) == [r EXCEPT !.state = "pending", !.leased = FALSE,
                                 !.boundary = NoToken, !.settled = FALSE,
                                 !.completion = NoToken, !.resends = 0]

ClearedCheck(r) == [r EXCEPT !.state = "pending", !.leased = FALSE, !.boundary = NoToken,
                             !.settled = FALSE, !.completion = NoToken]

\* retry with an absence proof: authorize_absence spends the one allowance in
\* the transaction that makes the row pending again
ResendOnAbsence(e) ==
    /\ Checkable(inbox[e])
    /\ inbox[e].resends = 0
    /\ AbsenceEvidence(inbox[e])
    /\ ~Revoked(e, inbox[e].gen)
    /\ inbox' = [inbox EXCEPT ![e] = [ClearedCheck(@) EXCEPT !.resends = 1]]
    /\ UNCHANGED <<sources, outbox, revocations>>

\* settle: absent again after the resend
NotDelivered(e) ==
    /\ Checkable(inbox[e])
    /\ inbox[e].resends = 1
    /\ AbsenceEvidence(inbox[e])
    /\ inbox' = [inbox EXCEPT ![e].state = "recovery_required"]
    /\ UNCHANGED <<sources, outbox, revocations>>

(***************************************************************************)
(* People: retry, mark handled; and the waker's single retry.               *)
(***************************************************************************)
\* a plausible slip: the state is not checked before the retry
RetryAnyState(e, reviewed) ==
    /\ inbox[e].state # "absent"
    /\ inbox[e].state \in {"uncertain", "recovery_required"} => reviewed
    /\ inbox' = [inbox EXCEPT ![e] = ClearedCheck(@)]
    /\ UNCHANGED <<sources, outbox, revocations>>

RetryInbox(e, reviewed) ==
    /\ inbox[e].state \in Parked
    /\ inbox[e].state \in {"uncertain", "recovery_required"} => reviewed
    /\ inbox' = [inbox EXCEPT ![e] = ClearedCheck(@)]
    /\ UNCHANGED <<sources, outbox, revocations>>

\* ParentWaker._retry_blocked keeps the evidence columns
WakeBlocked(e) ==
    /\ inbox[e].state = "blocked"
    /\ inbox' = [inbox EXCEPT ![e].state = "pending", ![e].leased = FALSE]
    /\ UNCHANGED <<sources, outbox, revocations>>

InFlight(r) == r.state = "dispatch_intent" \/ (r.state = "pending" /\ r.leased)

Resolved(r, terminal) ==
    IF r.state = "absent" THEN r
    ELSE [r EXCEPT !.state = terminal, !.leased = FALSE, !.token = NoToken]

\* resolve_report: both transport copies stop, or neither does
ResolveReport(e, confirmed) ==
    LET terminal == IF confirmed THEN "confirmed_in_transcript" ELSE "handled"
        primary == IF inbox[e].state # "absent" THEN inbox[e].state ELSE outbox[e].state
        submitted == primary = "submitted" /\ inbox[e].boundary # NoToken
    IN  /\ primary \in Parked \/ submitted
        /\ confirmed => inbox[e].state # "absent"
        /\ ~InFlight(inbox[e]) /\ ~InFlight(outbox[e])
        /\ inbox' = [inbox EXCEPT ![e] = Resolved(@, terminal)]
        /\ outbox' = [outbox EXCEPT ![e] = Resolved(@, terminal)]
        /\ UNCHANGED <<sources, revocations>>

(***************************************************************************)
(* Where a report stands for a reader of the tables (see ReportDelivery).   *)
(***************************************************************************)
Tombed(e) == e \in eventTombs \/ {ParentOf[e], ChildOf[e]} \cap sessionTombs # {}

\* the inbox copy speaks for a report once there is one
ReportState(e) == IF inbox[e].state # "absent" THEN inbox[e].state ELSE outbox[e].state

Standing(e) ==
    IF ~Stored(e) THEN IF Tombed(e) THEN "deleted" ELSE "none"
    ELSE IF ReportState(e) \in {"submitted"} \cup Parked THEN "waits"
    ELSE IF ReportState(e) \notin Terminal THEN "open"
    ELSE IF inbox[e].state = "absent" THEN "waived" ELSE "closed"

(***************************************************************************)
(* Every operation, by what it may do to the rows: the calls that add one,  *)
(* those an attempt makes with its fence token, those that recover or       *)
(* resolve a report, and those about the project as a whole.  Claims are    *)
(* the callers' (they choose the token).                                    *)
(***************************************************************************)
ChildCall(e, g) == RecordCompletionSource(e, g) \/ Enqueue(e, g) \/ Accept(e, g)

AttemptCall(e, t) ==
    \/ \E ok \in BOOLEAN : FinishOutbox(e, t, ok)
    \/ SubmitInbox(e, t)
    \/ \E forced \in {"", "pending", "blocked", "uncertain"} : FinishInbox(e, t, forced)
    \/ RecordHandoff(e, t)
    \/ \E settled \in BOOLEAN : RecordHandoffResponse(e, t, settled)
    \/ RecordTurnCompletion(e, t)

RecoveryCall(e) ==
    \/ ResendOnAbsence(e) \/ NotDelivered(e) \/ WakeBlocked(e)
    \/ \E reviewed \in BOOLEAN : RetryOutbox(e, reviewed) \/ RetryInbox(e, reviewed)
    \/ \E confirmed \in BOOLEAN : ResolveReport(e, confirmed)
    \/ LeaseLapses(e)

ProjectCall ==
    \/ Reconcile \/ ReadGeneration \/ RevokeProject \/ RecreateProject
    \/ \E s \in Sessions : RevokeSession(s)
    \/ \E e \in Events : RevokeEvent(e)

\* what no call may store any more
Deleted(e) == projectTomb \/ Tombed(e)

\* Nothing of a deleted event, conversation or project is stored, and no late
\* completion, enqueue, acceptance, retry or resend brings it back.
DeletedIsGone == \A e \in Events : Deleted(e) => ~Stored(e)
=============================================================================
