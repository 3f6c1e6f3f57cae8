------------------------- MODULE DelegationDelivery -------------------------
(***************************************************************************)
(* Delegation delivery end to end: child agents finish and record their     *)
(* report, the delivery loop moves it outbox -> HTTP -> inbox, a fenced     *)
(* claim hands it to the parent session under the manager lock, and         *)
(* settlement decides from the parent's transcript whether it arrived.      *)
(* The tables and their transactions are DeliveryStore's; this module adds  *)
(* who calls them, in which order, and what can go wrong in between: lost   *)
(* and late requests, lapsed leases, stdin writes nobody acknowledged,      *)
(* crashes, deletions and people retrying.                                  *)
(***************************************************************************)
EXTENDS DeliveryStore

CONSTANTS
    Drainers,       \* callers of drain_once ("safe to call concurrently")
    NoDrainer,
    NoEvent,
    StoreFaults,    \* may a store operation of a child's report fail?
    Jobs,           \* events that are background-job notices, not child reports
    Waiting,        \* reports the database of an earlier run left in the inbox
    OneShot,        \* events whose child's process exits with its turn
    MaxReviews,     \* bound: reviewed retries by a person
    MaxDeletes,     \* bound: deletions of a conversation or of the project
    MaxUserTurns,   \* bound: turns a person starts on a parent
    MaxLosses,      \* bound: faults of the parent: swallowed messages, failed turns
    MaxStops,       \* bound: crashes of the server
    MaxShutdowns    \* bound: orderly shutdowns of the delivery loop

ASSUME DrainAssumption ==
    /\ StoreFaults \in BOOLEAN
    /\ Jobs \subseteq Events
    /\ OneShot \subseteq Events \ Jobs
    /\ Waiting \subseteq Events
    /\ \A e \in Jobs : ChildOf[e] = NoSession
    /\ NoDrainer \notin Drainers
    /\ NoEvent \notin Events
    /\ {MaxReviews, MaxDeletes, MaxUserTurns, MaxLosses, MaxStops,
        MaxShutdowns} \subseteq Nat

VARIABLES
    child,      \* where each event's child stands in finishing and reporting
    stamp,      \* project generation when each event's work started
    logged,     \* events whose agent-log row carries delegation_completion
    replay,     \* log rows start_delegation_delivery has yet to re-enqueue
    pc,         \* where each drainer stands in drain_once
    todo,       \* completion sources a drainer has yet to re-enqueue
    job,        \* the row a drainer claimed: event, fence token, generation
    outcome,    \* how its attempt ended
    posts,      \* delegation/inbox requests on the wire
    lock,       \* holder of the project's manager lock
    closing,    \* _delivery_shutdown_requested
    session,    \* agent_sessions[...]['status'] of each parent, "absent" if purged
    attempt,    \* parent['_report_attempt']
    late,       \* writes to the parent that nobody can account for any more
    pipe,       \* messages in the parent CLI's stdin
    transcript, \* user messages in the parent's native transcript
    reviews,    \* history: retries of uncertain rows a person reviewed
    spent       \* the bounds used up so far

loopVars == <<pc, todo, job, outcome, posts, lock>>
parentVars == <<session, attempt, late, pipe, transcript>>
childVars == <<child, stamp, logged, replay>>
envVars == <<closing, reviews, spent>>
vars == <<storeVars, childVars, loopVars, parentVars, envVars>>

Parents == {ParentOf[e] : e \in Events}
NoJob == [event |-> NoEvent, token |-> NoToken, gen |-> 0]
Work == [event : Events \cup {NoEvent}, token : AnyToken, gen : Generations]
Post == [event : Events, gen : Generations, by : Drainers \cup {NoDrainer}]

Steps == {"rest", "sources", "sending", "sent", "sendFailed",
          "claimInbox", "claimed", "waiting", "admitted", "reviving", "calling",
          "answered", "ending"}
UnderLock == {"admitted", "reviving", "calling", "answered"}
ChildSteps == {"idle", "running", "noting", "enqueuing", "logging", "told"}
Outcomes == {"", "submitted", "pending", "blocked", "uncertain"}
Spendings == {"reviews", "deletes", "turns", "losses", "stops", "shutdowns"}
Limit == [reviews |-> MaxReviews, deletes |-> MaxDeletes, turns |-> MaxUserTurns,
          losses |-> MaxLosses, stops |-> MaxStops, shutdowns |-> MaxShutdowns]

TypeOK ==
    /\ StoreTypeOK
    /\ child \in [Events -> ChildSteps]
    /\ stamp \in [Events -> Generations]
    /\ logged \subseteq Events
    /\ replay \subseteq Events
    /\ pc \in [Drainers -> Steps]
    /\ todo \in [Drainers -> SUBSET Events]
    /\ job \in [Drainers -> Work]
    /\ outcome \in [Drainers -> Outcomes]
    /\ posts \subseteq Post
    /\ lock \in Drainers \cup {NoDrainer}
    /\ closing \in BOOLEAN
    /\ session \in [Parents -> {"absent", "idle", "running", "error"}]
    /\ attempt \in [Parents -> Work]
    /\ \A f \in {late, pipe, transcript, reviews} : f \in [Events -> Nat]
    /\ spent \in [Spendings -> Nat]

Init ==
    /\ LET gen(e) == IF e \in Jobs THEN 0 ELSE 1
           kept(row(_), none) == [e \in Events |-> IF e \in Waiting THEN row(e) ELSE none]
           source(e) == [present |-> TRUE, gen |-> gen(e)]
           sent(e) == [NoOutbox EXCEPT !.state = "delivered", !.gen = gen(e), !.attempts = 1]
           accepted(e) == [NoInbox EXCEPT !.state = "pending", !.gen = gen(e)]
       IN  /\ sources = kept(source, NoSource)
           /\ outbox = kept(sent, NoOutbox)
           /\ inbox = kept(accepted, NoInbox)
           /\ child = [e \in Events |-> IF e \in Waiting THEN "told" ELSE "idle"]
           /\ stamp = [e \in Events |-> IF e \in Waiting THEN 1 ELSE 0]
           /\ generation = IF Waiting = {} THEN 0 ELSE 1
    /\ projectTomb = FALSE
    /\ sessionTombs = {}
    /\ eventTombs = {}
    /\ logged = {}
    /\ replay = {}
    /\ pc = [d \in Drainers |-> "rest"]
    /\ todo = [d \in Drainers |-> {}]
    /\ job = [d \in Drainers |-> NoJob]
    /\ outcome = [d \in Drainers |-> ""]
    /\ posts = {}
    /\ lock = NoDrainer
    /\ closing = FALSE
    /\ session \in [Parents -> {"running", "absent"}]
    /\ attempt = [p \in Parents |-> NoJob]
    /\ late = [e \in Events |-> 0]
    /\ pipe = [e \in Events |-> 0]
    /\ transcript = [e \in Events |-> 0]
    /\ reviews = [e \in Events |-> 0]
    /\ spent = [s \in Spendings |-> 0]

Spend(s) ==
    /\ spent[s] < Limit[s]
    /\ spent' = [spent EXCEPT ![s] = @ + 1]

Parent(e) == ParentOf[e]
Copies(e) == late[e] + pipe[e] + transcript[e]

\* uuid4: a token that nothing else refers to is as good as one never issued,
\* and the row's own is about to be overwritten
TokensInUse(e) ==
    {inbox[e].boundary, inbox[e].completion}
        \cup {job[d].token : d \in Drainers} \cup {attempt[p].token : p \in Parents}
TokensLeft(e) == Tokens \ TokensInUse(e) # {}
FreshToken(e) == CHOOSE t \in Tokens : t \notin TokensInUse(e)

(***************************************************************************)
(* Children: a turn is allocated, ends, and is reported source first.       *)
(***************************************************************************)
\* a plausible slip: every payload claims the first generation
CarriesFirstGeneration(e) == 1

\* the delivery_generation in an event's payload: _job_on_complete sends none
CarriedGeneration(e) == IF e \in Jobs THEN 0 ELSE stamp[e]

\* _allocate_delegation_turn stamps a child; a job only starts
Dispatch(e) ==
    /\ child[e] = "idle"
    /\ ~projectTomb
    /\ child' = [child EXCEPT ![e] = "running"]
    /\ stamp' = [stamp EXCEPT ![e] = CurrentGeneration]
    /\ IF e \in Jobs THEN UNCHANGED storeVars ELSE ReadGeneration
    /\ UNCHANGED <<logged, replay, loopVars, parentVars, envVars>>

ChildEnds(e) ==
    /\ child[e] = "running"
    /\ child' = [child EXCEPT ![e] = "noting"]
    /\ UNCHANGED <<storeVars, stamp, logged, replay, loopVars, parentVars, envVars>>

\* _notify_agent_spawner: the exact source first, the outbox second; a store
\* fault in either (the disjunct that writes nothing) skips the rest
Note(e) ==
    /\ child[e] = "noting"
    /\ \/ /\ RecordCompletionSource(e, CarriedGeneration(e))
          /\ child' = [child EXCEPT ![e] = "enqueuing"]
       \/ /\ StoreFaults
          /\ child' = [child EXCEPT ![e] = "logging"]
          /\ UNCHANGED storeVars
    /\ UNCHANGED <<stamp, logged, replay, loopVars, parentVars, envVars>>

NoteOutbox(e) ==
    /\ child[e] = "enqueuing"
    /\ Enqueue(e, CarriedGeneration(e)) \/ (StoreFaults /\ UNCHANGED storeVars)
    /\ child' = [child EXCEPT ![e] = "logging"]
    /\ UNCHANGED <<stamp, logged, replay, loopVars, parentVars, envVars>>

\* the agent-log row, written when the child's process exited and not at the
\* turn boundary of a process that lives on
LogRow(e) ==
    /\ child[e] = "logging"
    /\ child' = [child EXCEPT ![e] = "told"]
    /\ logged' = IF e \in OneShot THEN logged \cup {e} ELSE logged
    /\ UNCHANGED <<storeVars, stamp, replay, loopVars, parentVars, envVars>>

\* start_delegation_delivery: recover_outbox over the agent logs
RecoverFromLog(e) ==
    /\ e \in replay
    /\ Enqueue(e, CarriedGeneration(e))
    /\ replay' = replay \ {e}
    /\ UNCHANGED <<child, stamp, logged, loopVars, parentVars, envVars>>

(***************************************************************************)
(* The delivery loop: one pass of drain_once, step by step.                 *)
(***************************************************************************)
Goto(d, step) == pc' = [pc EXCEPT ![d] = step]
EventOf(d) == job[d].event
TokenOf(d) == job[d].token

\* reconcile, then recover_sources reads the sources it will re-enqueue
StartPass(d) ==
    /\ pc[d] = "rest"
    /\ ~closing
    /\ replay = {}
    /\ Reconcile
    /\ todo' = [todo EXCEPT ![d] = {e \in Events : sources[e].present}]
    /\ Goto(d, "sources")
    /\ UNCHANGED <<childVars, job, outcome, posts, lock, parentVars, envVars>>

\* one source of recover_sources, in an order that makes no difference; its
\* own transaction re-checks revocation
RecoverSource(d) ==
    /\ pc[d] = "sources"
    /\ todo[d] # {}
    /\ LET e == CHOOSE source \in todo[d] : TRUE
       IN  /\ Enqueue(e, sources[e].gen)
           /\ todo' = [todo EXCEPT ![d] = @ \ {e}]
    /\ UNCHANGED <<childVars, pc, job, outcome, posts, lock, parentVars, envVars>>

\* _deliver_outbox opens the request as soon as the row is claimed
SendOutbox(d, e) ==
    /\ pc[d] = "sources"
    /\ todo[d] = {}
    /\ TokensLeft(e)
    /\ ClaimOutbox(e, FreshToken(e))
    /\ job' = [job EXCEPT ![d] = [event |-> e, token |-> FreshToken(e), gen |-> outbox[e].gen]]
    /\ posts' = posts \cup {[event |-> e, gen |-> outbox[e].gen, by |-> d]}
    /\ Goto(d, "sending")
    /\ UNCHANGED <<childVars, todo, outcome, lock, parentVars, envVars>>

\* nothing is due: a row tried before may still be backing off
Due(row) == row.state = "pending" /\ ~row.leased /\ row.attempts = 0

NoOutboxDue(d) ==
    /\ pc[d] = "sources"
    /\ todo[d] = {}
    /\ \A e \in Events : ~Due(outbox[e])
    /\ Goto(d, "claimInbox")
    /\ UNCHANGED <<storeVars, childVars, todo, job, outcome, posts, lock, parentVars, envVars>>

\* delegation_inbox: the receiver accepts and answers whoever still waits
Receive(p) ==
    /\ p \in posts
    /\ posts' = posts \ {p}
    /\ Accept(p.event, p.gen)
    /\ IF p.by \in Drainers
       THEN Goto(p.by, IF ~Revoked(p.event, p.gen) /\ Trusted(p.event, p.gen)
                       THEN "sent" ELSE "sendFailed")
       ELSE UNCHANGED pc
    /\ UNCHANGED <<childVars, todo, job, outcome, lock, parentVars, envVars>>

\* a plausible slip: a time-out is taken for a delivery
SendTimesOutAsSent(d) ==
    /\ pc[d] = "sending"
    /\ \E p \in posts : p.by = d /\ posts' = posts \ {p}
    /\ Goto(d, "sent")
    /\ UNCHANGED <<storeVars, childVars, todo, job, outcome, lock, parentVars, envVars>>

\* urlopen gives up: the request may never arrive, or arrive later unanswered
SendTimesOut(d) ==
    /\ pc[d] = "sending"
    /\ \E p \in posts :
          /\ p.by = d
          /\ \/ posts' = posts \ {p}
             \/ posts' = (posts \ {p}) \cup {[p EXCEPT !.by = NoDrainer]}
    /\ Goto(d, "sendFailed")
    /\ UNCHANGED <<storeVars, childVars, todo, job, outcome, lock, parentVars, envVars>>

\* ack_outbox or finish_outbox
EndSend(d) ==
    /\ pc[d] \in {"sent", "sendFailed"}
    /\ FinishOutbox(EventOf(d), TokenOf(d), pc[d] = "sent")
    /\ job' = [job EXCEPT ![d] = NoJob]
    /\ Goto(d, "claimInbox")
    /\ UNCHANGED <<childVars, todo, outcome, posts, lock, parentVars, envVars>>

TakeInbox(d, e) ==
    /\ pc[d] = "claimInbox"
    /\ TokensLeft(e)
    /\ ClaimInbox(e, FreshToken(e))
    /\ job' = [job EXCEPT ![d] = [event |-> e, token |-> FreshToken(e), gen |-> inbox[e].gen]]
    /\ Goto(d, "claimed")
    /\ UNCHANGED <<childVars, todo, outcome, posts, lock, parentVars, envVars>>

NoInboxDue(d) ==
    /\ pc[d] = "claimInbox"
    /\ \A e \in Events : ~Due(inbox[e])
    /\ Goto(d, "rest")
    /\ UNCHANGED <<storeVars, childVars, todo, job, outcome, posts, lock, parentVars, envVars>>

(***************************************************************************)
(* _process_inbox: the guarded handoff to the parent.                       *)
(***************************************************************************)
GiveUp(d, result) ==
    /\ outcome' = [outcome EXCEPT ![d] = result]
    /\ Goto(d, "ending")

\* the check before waiting for the manager lock
FirstCheck(d) ==
    /\ pc[d] = "claimed"
    /\ IF ClaimIsLive(EventOf(d), TokenOf(d))
       THEN Goto(d, "waiting") /\ UNCHANGED outcome
       ELSE GiveUp(d, "")
    /\ UNCHANGED <<storeVars, childVars, todo, job, posts, lock, parentVars, envVars>>

\* a plausible slip: the claim is not checked again once the lock is held
AdmitUnchecked(d) ==
    LET e == EventOf(d)
        status == session[Parent(e)]
        proceed(step) == /\ Goto(d, step)
                         /\ lock' = d
                         /\ UNCHANGED outcome
        refuse(result) == GiveUp(d, result) /\ UNCHANGED lock
    IN  /\ pc[d] = "waiting"
        /\ lock = NoDrainer
        /\ \/ closing /\ refuse("pending")
           \/ ~closing /\ status = "absent" /\ proceed("reviving")
           \/ ~closing /\ status = "running" /\ refuse("pending")
           \/ ~closing /\ status \in {"error", "idle"} /\ refuse("blocked")
           \/ ~closing /\ status = "idle" /\ proceed("admitted")
        /\ UNCHANGED <<storeVars, childVars, todo, job, posts, parentVars, envVars>>

\* the check under the lock, then the parent's state; an idle parent may also
\* be blocked by its quota
Admit(d) ==
    LET e == EventOf(d)
        status == session[Parent(e)]
        proceed(step) == /\ Goto(d, step)
                         /\ lock' = d
                         /\ UNCHANGED outcome
        refuse(result) == GiveUp(d, result) /\ UNCHANGED lock
    IN  /\ pc[d] = "waiting"
        /\ lock = NoDrainer
        /\ \/ ~ClaimIsLive(e, TokenOf(d)) /\ refuse("")
           \/ /\ ClaimIsLive(e, TokenOf(d))
              /\ \/ closing /\ refuse("pending")
                 \/ ~closing /\ status = "absent" /\ proceed("reviving")
                 \/ ~closing /\ status = "running" /\ refuse("pending")
                 \/ ~closing /\ status \in {"error", "idle"} /\ refuse("blocked")
                 \/ ~closing /\ status = "idle" /\ proceed("admitted")
        /\ UNCHANGED <<storeVars, childVars, todo, job, posts, parentVars, envVars>>

\* the message left for the parent: accounted for in its pipe, or not
HandTo(e, copies) ==
    IF copies = "pipe"
    THEN pipe' = [pipe EXCEPT ![e] = @ + 1] /\ UNCHANGED late
    ELSE late' = [late EXCEPT ![e] = @ + 1] /\ UNCHANGED pipe

\* _revive_parent_for_delegation: refused before anything starts, or a fresh
\* process was given the message, or an exception hides whether it was
Revive(d) ==
    LET e == EventOf(d)
    IN  /\ pc[d] = "reviving"
        /\ lock' = NoDrainer
        /\ \/ /\ GiveUp(d, "blocked")
              /\ UNCHANGED parentVars
           \/ /\ GiveUp(d, "uncertain")
              /\ UNCHANGED parentVars
           \/ /\ GiveUp(d, "uncertain")
              /\ HandTo(e, "late")
              /\ UNCHANGED <<session, attempt, transcript>>
           \/ /\ GiveUp(d, "submitted")
              /\ HandTo(e, "pipe")
              /\ session' = [session EXCEPT ![Parent(e)] = "running"]
              /\ attempt' = [attempt EXCEPT ![Parent(e)] = NoJob]
              /\ UNCHANGED transcript
        /\ UNCHANGED <<storeVars, childVars, todo, job, posts, envVars>>

\* record_handoff: job notices have no boundary; a report whose claim ran out
\* since Admit raises before the parent is called
SetBoundary(d) ==
    LET e == EventOf(d)
        attemptOf(work) == attempt' = [attempt EXCEPT ![Parent(e)] = work]
    IN  /\ pc[d] = "admitted"
        /\ \/ /\ e \in Jobs
              /\ Goto(d, "calling") /\ attemptOf(NoJob)
              /\ UNCHANGED <<storeVars, outcome, lock>>
           \/ /\ e \notin Jobs
              /\ ClaimIsLive(e, TokenOf(d))
              /\ RecordHandoff(e, TokenOf(d))
              /\ Goto(d, "calling") /\ attemptOf(job[d])
              /\ UNCHANGED <<outcome, lock>>
           \/ /\ e \notin Jobs
              /\ ~ClaimIsLive(e, TokenOf(d))
              /\ GiveUp(d, "uncertain") /\ attemptOf(NoJob)
              /\ lock' = NoDrainer
              /\ UNCHANGED storeVars
        /\ UNCHANGED <<childVars, todo, job, posts, session, late, pipe, transcript, envVars>>

\* agent_followup, by the answer it gives: written, an answer that leaves the
\* outcome open (unknown ack, 5xx, switched or queued, an exception), a write
\* that never started, or a 4xx, which a mode B parent gives without an
\* acknowledgement, so that its outcome counts as open too.  The 409 of another
\* vendor's fence, the only refusal whose body would settle the row, is left
\* out: such a parent's turns note no completion, and no check reads the row.
CallParent(d) ==
    LET e == EventOf(d)
        becomes(status) == session' = [session EXCEPT ![Parent(e)] = status]
    IN  /\ pc[d] = "calling"
        /\ \/ /\ outcome' = [outcome EXCEPT ![d] = "submitted"]
              /\ HandTo(e, "pipe") /\ becomes("running")
           \/ /\ outcome' = [outcome EXCEPT ![d] = "uncertain"]
              /\ HandTo(e, "late") /\ becomes("running")
           \/ /\ outcome' = [outcome EXCEPT ![d] = "pending"]
              /\ becomes("error") /\ UNCHANGED <<pipe, late>>
           \/ /\ \E refused \in {"blocked", "uncertain"} :
                    outcome' = [outcome EXCEPT ![d] = refused]
              /\ UNCHANGED <<session, pipe, late>>
        /\ Goto(d, "answered")
        /\ UNCHANGED <<storeVars, childVars, todo, job, posts, lock, attempt, transcript,
                       envVars>>

\* a plausible slip: the manager lock is not released on this path
RecordAnswerKeepsLock(d) ==
    /\ pc[d] = "answered"
    /\ RecordHandoffResponse(EventOf(d), TokenOf(d), outcome[d] = "submitted")
    /\ UNCHANGED lock
    /\ Goto(d, "ending")
    /\ UNCHANGED <<childVars, todo, job, outcome, posts, parentVars, envVars>>

\* record_handoff_response; _process_inbox returns and frees the lock
RecordAnswer(d) ==
    /\ pc[d] = "answered"
    /\ RecordHandoffResponse(EventOf(d), TokenOf(d), outcome[d] = "submitted")
    /\ lock' = NoDrainer
    /\ Goto(d, "ending")
    /\ UNCHANGED <<childVars, todo, job, outcome, posts, parentVars, envVars>>

\* submit_inbox, or finish_inbox with the state classify_inbox_failure chose
EndAttempt(d) ==
    /\ pc[d] = "ending"
    /\ IF outcome[d] = "submitted"
       THEN SubmitInbox(EventOf(d), TokenOf(d))
       ELSE FinishInbox(EventOf(d), TokenOf(d), outcome[d])
    /\ job' = [job EXCEPT ![d] = NoJob]
    /\ outcome' = [outcome EXCEPT ![d] = ""]
    /\ Goto(d, "rest")
    /\ UNCHANGED <<childVars, todo, posts, lock, parentVars, envVars>>

(***************************************************************************)
(* The parent's CLI and the people around it.                               *)
(***************************************************************************)
EventsOf(p) == {e \in Events : Parent(e) = p}
Drained(p) == [e \in Events |-> IF e \in EventsOf(p) THEN 0 ELSE pipe[e]]

\* the helper thread of a timed-out write completes it after all, or the pipe
\* breaks and the message is gone
LateWrite(e) ==
    /\ late[e] > 0
    /\ late' = [late EXCEPT ![e] = @ - 1]
    /\ \/ /\ session[Parent(e)] \in {"idle", "running"}
          /\ pipe' = [pipe EXCEPT ![e] = @ + 1]
       \/ UNCHANGED pipe
    /\ UNCHANGED <<storeVars, childVars, loopVars, session, attempt, transcript, envVars>>

\* the CLI takes a message from its stdin and writes it to its transcript
Reads(e) ==
    /\ pipe[e] > 0
    /\ pipe' = [pipe EXCEPT ![e] = @ - 1]
    /\ transcript' = [transcript EXCEPT ![e] = @ + 1]
    /\ UNCHANGED <<storeVars, childVars, loopVars, session, attempt, late, envVars>>

Loses(e) ==
    /\ pipe[e] > 0
    /\ Spend("losses")
    /\ pipe' = [pipe EXCEPT ![e] = @ - 1]
    /\ UNCHANGED <<storeVars, childVars, loopVars, session, attempt, late, transcript, closing, reviews>>

\* a result event: note_claude_turn stores the completion of the attempt on
\* record, then the session is idle.  Assumed of the CLI: a turn's result
\* comes after every message already in its stdin was read.
TurnEnds(p) ==
    /\ session[p] = "running"
    /\ \A e \in EventsOf(p) : pipe[e] = 0
    /\ session' = [session EXCEPT ![p] = "idle"]
    /\ \/ /\ attempt[p] # NoJob
          /\ RecordTurnCompletion(attempt[p].event, attempt[p].token)
          /\ UNCHANGED spent
       \/ attempt[p] = NoJob /\ UNCHANGED <<storeVars, spent>>
       \/ attempt[p] # NoJob /\ Spend("losses") /\ UNCHANGED storeVars
    /\ UNCHANGED <<childVars, loopVars, attempt, late, pipe, transcript, closing,
                   reviews>>

\* the CLI dies or is stopped: whatever it had not read is gone
ParentStops(p) ==
    /\ session[p] \in {"running", "idle"}
    /\ Spend("losses")
    /\ session' = [session EXCEPT ![p] = "error"]
    /\ pipe' = Drained(p)
    /\ UNCHANGED <<storeVars, childVars, loopVars, attempt, late, transcript,
                   closing, reviews>>

\* agent_session_delete: a stopped session is dropped from agent_sessions
ParentRemoved(p) ==
    /\ session[p] = "error"
    /\ lock = NoDrainer
    /\ session' = [session EXCEPT ![p] = "absent"]
    /\ attempt' = [attempt EXCEPT ![p] = NoJob]
    /\ UNCHANGED <<storeVars, childVars, loopVars, late, pipe, transcript, envVars>>

UserTurn(p) ==
    /\ session[p] # "running"
    /\ lock = NoDrainer
    /\ Spend("turns")
    /\ session' = [session EXCEPT ![p] = "running"]
    /\ UNCHANGED <<storeVars, childVars, loopVars, attempt, late, pipe, transcript,
                   closing, reviews>>

(***************************************************************************)
(* Settlement and the waker, run by the loop between two drains. The code   *)
(* asks for more before it settles (no writer pending, the identity of the  *)
(* parent's log, no open question): here it may settle whenever the         *)
(* evidence allows, which is more often than the code does.                 *)
(***************************************************************************)
BetweenDrains == \E d \in Drainers : pc[d] = "rest"
StoreOnly == UNCHANGED <<childVars, loopVars, parentVars, envVars>>

\* settle and the transcript scan, when the header is in the parent's log
SettleDelivered(e) ==
    /\ BetweenDrains
    /\ e \notin Jobs
    /\ Checkable(inbox[e])
    /\ transcript[e] > 0
    /\ ResolveReport(e, TRUE)
    /\ StoreOnly

\* settle, under the manager lock, when the log proves the report absent
SettleAbsent(e) ==
    /\ BetweenDrains
    /\ e \notin Jobs
    /\ lock = NoDrainer
    /\ transcript[e] = 0
    /\ session[Parent(e)] # "running"
    /\ ResendOnAbsence(e) \/ NotDelivered(e)
    /\ StoreOnly

Wake(e) ==
    /\ BetweenDrains
    /\ session[Parent(e)] = "idle"
    /\ WakeBlocked(e)
    /\ StoreOnly

(***************************************************************************)
(* People: retries, resolutions, deletions.                                 *)
(***************************************************************************)
\* delegation_retry on the inbox; a review costs, a blocked row needs none
Retry(e) ==
    /\ \/ /\ RetryInbox(e, TRUE)
          /\ Spend("reviews")
          /\ reviews' = [reviews EXCEPT ![e] = @ + 1]
       \/ RetryInbox(e, FALSE) /\ UNCHANGED <<spent, reviews>>
    /\ UNCHANGED <<childVars, loopVars, parentVars, closing>>

RetrySend(e) ==
    /\ RetryOutbox(e, TRUE)
    /\ Spend("reviews")
    /\ UNCHANGED <<childVars, loopVars, parentVars, closing, reviews>>

MarkHandled(e) == ResolveReport(e, FALSE) /\ StoreOnly

\* delete_conversation refuses a session that is still tracked
DeleteConversation(s) ==
    /\ lock = NoDrainer
    /\ s \in Parents => session[s] = "absent"
    /\ \A e \in Events : ChildOf[e] = s => child[e] \in {"idle", "told"}
    /\ Spend("deletes")
    /\ RevokeSession(s)
    /\ UNCHANGED <<childVars, loopVars, parentVars, closing, reviews>>

DeleteProject ==
    /\ ~projectTomb
    /\ lock = NoDrainer
    /\ Spend("deletes")
    /\ RevokeProject
    /\ UNCHANGED <<childVars, loopVars, parentVars, closing, reviews>>

Recreate ==
    /\ projectTomb
    /\ lock = NoDrainer
    /\ RecreateProject
    /\ StoreOnly

LeaseEnds(e) == LeaseLapses(e) /\ StoreOnly

(***************************************************************************)
(* The server process.                                                      *)
(***************************************************************************)
\* stop_delegation_delivery: admission closes, a drain under way goes on
Shutdown ==
    /\ ~closing
    /\ Spend("shutdowns")
    /\ closing' = TRUE
    /\ UNCHANGED <<storeVars, childVars, loopVars, parentVars, reviews>>

\* the server dies and starts again: every thread, request and session object
\* is gone; parents and finished children survive in their shims, or do not
Crash ==
    /\ \/ Spend("stops")
       \/ closing /\ UNCHANGED spent
    /\ pc' = [d \in Drainers |-> "rest"]
    /\ todo' = [d \in Drainers |-> {}]
    /\ job' = [d \in Drainers |-> NoJob]
    /\ outcome' = [d \in Drainers |-> ""]
    /\ posts' = {}
    /\ lock' = NoDrainer
    /\ closing' = FALSE
    /\ late' = [e \in Events |-> 0]
    /\ attempt' = [p \in Parents |-> NoJob]
    /\ \E adopted \in SUBSET Parents :
          /\ session' = [p \in Parents |-> IF p \in adopted THEN session[p] ELSE "absent"]
          /\ pipe' = [e \in Events |-> IF Parent(e) \in adopted THEN pipe[e] ELSE 0]
    /\ \E replayed \in SUBSET Events :
          child' = [e \in Events |->
                      IF child[e] \notin {"noting", "enqueuing", "logging"} THEN child[e]
                      ELSE IF e \in replayed THEN "noting" ELSE "told"]
    /\ replay' = logged
    /\ UNCHANGED <<storeVars, stamp, logged, transcript, reviews>>

ChildStep(e) ==
    Dispatch(e) \/ ChildEnds(e) \/ Note(e) \/ NoteOutbox(e) \/ LogRow(e) \/ RecoverFromLog(e)
SendStep(d) ==
    StartPass(d) \/ RecoverSource(d) \/ (\E e \in Events : SendOutbox(d, e)) \/ NoOutboxDue(d)
        \/ SendTimesOut(d) \/ EndSend(d)
HandoffStep(d) ==
    (\E e \in Events : TakeInbox(d, e)) \/ NoInboxDue(d) \/ FirstCheck(d) \/ Admit(d) \/ Revive(d)
        \/ SetBoundary(d) \/ CallParent(d) \/ RecordAnswer(d) \/ EndAttempt(d)
ParentStep(p) == TurnEnds(p) \/ ParentStops(p) \/ ParentRemoved(p) \/ UserTurn(p)
PipeStep(e) == LateWrite(e) \/ Reads(e) \/ Loses(e)
SettleStep(e) == SettleDelivered(e) \/ SettleAbsent(e) \/ Wake(e)
PersonStep ==
    \/ \E e \in Events : Retry(e) \/ RetrySend(e) \/ MarkHandled(e)
    \/ \E s \in Sessions : DeleteConversation(s)
    \/ DeleteProject \/ Recreate

Next ==
    \/ \E e \in Events : ChildStep(e) \/ PipeStep(e) \/ SettleStep(e) \/ LeaseEnds(e)
    \/ \E d \in Drainers : SendStep(d) \/ HandoffStep(d)
    \/ \E p \in posts : Receive(p)
    \/ \E p \in Parents : ParentStep(p)
    \/ PersonStep
    \/ Shutdown
    \/ Crash

Spec == Init /\ [][Next]_vars

(***************************************************************************)
(* Fairness.  The loop thread drains for as long as the server runs, urlopen *)
(* and the stdin write give up after a time-out, leases run out, and a CLI   *)
(* reads its stdin and ends its turns.  A row that is due again and again is *)
(* claimed in the end (strong fairness): claims go oldest first, and a row   *)
(* that was just tried backs off for longer every time, so it cannot keep    *)
(* the others waiting.  Nothing is assumed of people, of children, of        *)
(* settlement or of the waker.                                               *)
(***************************************************************************)
Answered(d) == SendTimesOut(d) \/ \E p \in posts : p.by = d /\ Receive(p)

Fairness ==
    /\ \A d \in Drainers :
          /\ WF_vars(StartPass(d)) /\ WF_vars(RecoverSource(d))
          /\ WF_vars(NoOutboxDue(d)) /\ WF_vars(NoInboxDue(d))
          /\ \A e \in Events : SF_vars(SendOutbox(d, e)) /\ SF_vars(TakeInbox(d, e))
          /\ WF_vars(Answered(d)) /\ WF_vars(EndSend(d))
          /\ WF_vars(FirstCheck(d)) /\ WF_vars(Admit(d)) /\ WF_vars(Revive(d))
          /\ WF_vars(SetBoundary(d)) /\ WF_vars(CallParent(d))
          /\ WF_vars(RecordAnswer(d)) /\ WF_vars(EndAttempt(d))
    /\ \A e \in Events :
          WF_vars(RecoverFromLog(e)) /\ WF_vars(LeaseEnds(e)) /\ WF_vars(Reads(e))
    /\ \A p \in Parents : WF_vars(TurnEnds(p))

FairSpec == Spec /\ Fairness

(***************************************************************************)
(* Properties.                                                              *)
(***************************************************************************)
\* A report reaches the parent at most once, plus once for every replay a
\* person reviewed: retries, lapsed leases, crashes, late writes and the
\* automatic resend never add a copy of their own.
NoUnreviewedDuplicate == \A e \in Events : Copies(e) <= 1 + reviews[e]

\* The outbox is acknowledged only for an event the receiver has stored: a
\* request that timed out, failed or was refused never counts as delivered.
DeliveredIsReceived == \A e \in Events : outbox[e].state = "delivered" => inbox[e].state # "absent"

\* The evidence that lets settlement resend belongs to the row's own last
\* attempt, never to an earlier one whose columns were left behind.
EvidenceIsCurrent ==
    \A e \in Events :
        Checkable(inbox[e]) /\ AbsenceEvidence(inbox[e]) => inbox[e].boundary = inbox[e].token

\* The automatic resend happens only when no copy of the report is still on
\* its way: what reviewed replays may have left behind is all there is.
ResendOnlyWhenGone ==
    [][\A e \in Events : inbox'[e].resends > inbox[e].resends => Copies(e) <= reviews[e]]_vars

\* Once a deletion has committed, nothing of that conversation or project is
\* handed to a parent any more, however far a drain had already come.
NoHandoffAfterDeletion ==
    [][\A e \in Events : Copies(e)' > Copies(e) =>
          /\ ~projectTomb
          /\ e \notin eventTombs
          /\ {ParentOf[e], ChildOf[e]} \cap sessionTombs = {}]_vars

\* A completion that was reported in the generation its work started in is
\* stored for delivery, in a recreated project as much as in a new one,
\* unless its project, conversation or event was deleted in the meantime.
ReportIsKept ==
    \A e \in Events :
        /\ child[e] = "told"
        /\ stamp[e] = CurrentGeneration
        /\ ~projectTomb
        /\ e \notin eventTombs
        /\ {ParentOf[e], ChildOf[e]} \cap sessionTombs = {}
        => Stored(e)

\* A report somebody resolved stays resolved until it is deleted: no request
\* still on its way and no recovery makes it reappear.
ResolvedStaysResolved ==
    [][\A e \in Events : ReportState(e) \in Terminal =>
          ReportState(e)' \in Terminal \cup {"absent"}]_vars

\* A verdict somebody can read: submitted, parked, resolved, or deleted.
HasVerdict(e) ==
    \/ inbox[e].state \in {"submitted"} \cup Parked \cup Terminal
    \/ outbox[e].state \in {"recovery_required"} \cup Terminal
    \/ Revoked(e, CarriedGeneration(e))

\* Every completion that was recorded, or is found in the agent log at a
\* restart, comes to a verdict: it is not retried or deferred for ever, and no
\* claim, lease or lock is left behind that keeps it from moving.
EveryReportIsSettled ==
    \A e \in Events : (sources[e].present \/ e \in replay) ~> HasVerdict(e)

(***************************************************************************)
(* The promise all of it keeps, step by step: a report is handed over only  *)
(* when it stands where it may be, no more often than it was asked for, and *)
(* what is answered, closed or deleted stays so but for the steps named.    *)
(***************************************************************************)
Promise ==
    INSTANCE ReportDelivery WITH
        report <- [e \in Events |-> Standing(e)],
        copies <- [e \in Events |-> Copies(e)]

\* The drains, requests, claims, crashes, deletions and people of this module
\* together do to a report only what ReportDelivery allows.
KeepsPromise == Promise!Spec

\* The same, and no report is left open for ever.
KeepsLivePromise == Promise!LiveSpec
=============================================================================
