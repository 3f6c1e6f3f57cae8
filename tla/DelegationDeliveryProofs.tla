----------------------- MODULE DelegationDeliveryProofs -----------------------
(***************************************************************************)
(* The promises of DelegationDelivery, for any number of events, drains,    *)
(* parents, tokens, attempts, crashes, deletions and reviews: what the      *)
(* outbox calls delivered was received, the evidence a resend rests on is   *)
(* the last attempt's, nothing deleted is handed over, no copy goes out     *)
(* that nobody asked for, and every step is one that ReportDelivery allows. *)
(*                                                                          *)
(* The first part proves the control invariant: every variable keeps its    *)
(* type, a row that is gone leaves nothing behind, one drain at a time has  *)
(* the parents' lock, no two drains share a fence token, and a parent that  *)
(* is about to be called has no turn running.  A step is a step of a        *)
(* handoff, or leaves the handoffs alone (AsideStep); either way it makes   *)
(* one call of the store at most, so that the tables are                    *)
(* DeliveryStoreProofs' affair.                                             *)
(*                                                                          *)
(* On top of it, four groups of clauses make the promises inductive: RowInv *)
(* (what an inbox row proves about the attempt that holds it),              *)
(* HandedIsStored (a boundary stands under the copy it announces),          *)
(* ReceiptInv (sender and receiver) and RoomInv (when there is room for one *)
(* more copy). The last section proves, from an invariant of its own, that  *)
(* no report is lost where nothing fails.                                   *)
(***************************************************************************)
EXTENDS DelegationDelivery, DeliveryStoreProofs

USE DEF storeVars, revocations, childVars, loopVars, parentVars, envVars, vars

(***************************************************************************)
(* Typing.                                                                  *)
(***************************************************************************)
\* what TypeOK says of everything but the tables
LoopTypeOK ==
    /\ child \in [Events -> ChildSteps]
    /\ stamp \in [Events -> Generations]
    /\ logged \subseteq Events
    /\ replay \subseteq Events
    /\ pc \in [Drainers -> Steps]
    /\ todo \in [Drainers -> SUBSET Events]
    /\ job \in [Drainers -> Work]
    /\ outcome \in [Drainers -> Outcomes]
    /\ posts \subseteq Post
    /\ lock \in Drainers \cup {NoDrainer}
    /\ closing \in BOOLEAN
    /\ session \in [Parents -> {"absent", "idle", "running", "error"}]
    /\ attempt \in [Parents -> Work]
    /\ late \in [Events -> Nat]
    /\ pipe \in [Events -> Nat]
    /\ transcript \in [Events -> Nat]
    /\ reviews \in [Events -> Nat]
    /\ spent \in [Spendings -> Nat]

\* the steps of a drain that work on a claimed row
Working == Steps \ {"rest", "sources", "claimInbox"}

\* The type invariant in two halves, the tables' and the loop's.
LEMMA TypeSplits == TypeOK <=> StoreTypeOK /\ LoopTypeOK
BY DEF TypeOK, LoopTypeOK

\* Every event's parent is one of the parents.
LEMMA ParentsType == \A e \in Events : Parent(e) \in Parents
BY DEF Parent, Parents

\* Using up one of the bounds keeps the count typed.
LEMMA SpendType ==
    ASSUME spent \in [Spendings -> Nat], NEW s \in Spendings, Spend(s)
    PROVE  spent' \in [Spendings -> Nat]
BY DEF Spend

\* So does counting one more copy, or one more review.
LEMMA CountType ==
    ASSUME NEW f \in [Events -> Nat], NEW e \in Events
    PROVE  [f EXCEPT ![e] = @ + 1] \in [Events -> Nat]
OBVIOUS

\* A message left for a parent is counted.
LEMMA HandToType ==
    ASSUME late \in [Events -> Nat], pipe \in [Events -> Nat], NEW e \in Events,
           NEW copies, HandTo(e, copies)
    PROVE  late' \in [Events -> Nat] /\ pipe' \in [Events -> Nat]
BY CountType DEF HandTo

\* No job at all is work, and so is a claimed row.
LEMMA WorkType ==
    /\ NoJob \in Work
    /\ \A e \in Events, t \in Tokens, g \in Generations :
          [event |-> e, token |-> t, gen |-> g] \in Work
BY DeliveryAssumption DEF NoJob, Work, AnyToken, Generations

\* A fence token that is chosen is a token nothing else refers to.
LEMMA FreshTokenIsFresh ==
    ASSUME NEW e \in Events, TokensLeft(e)
    PROVE  /\ FreshToken(e) \in Tokens
           /\ FreshToken(e) \notin {inbox[e].boundary, inbox[e].completion}
           /\ \A d \in Drainers : FreshToken(e) # TokenOf(d)
           /\ \A p \in Parents : FreshToken(e) # attempt[p].token
<1>1. \E t \in Tokens : t \notin TokensInUse(e)
  BY DEF TokensLeft
<1>2. FreshToken(e) \in Tokens /\ FreshToken(e) \notin TokensInUse(e)
  BY <1>1 DEF FreshToken
<1> QED
  BY <1>2 DEF TokensInUse, TokenOf

\* What the children do keeps the loop's variables typed.
LEMMA ChildStepType ==
    ASSUME StoreTypeOK, LoopTypeOK, NEW e \in Events, ChildStep(e)
    PROVE  LoopTypeOK'
<1> USE DEF LoopTypeOK
<1>1. CASE Dispatch(e)
  <2>1. CurrentGeneration \in Generations
    BY DeliveryAssumption DEF StoreTypeOK, CurrentGeneration, Generations
  <2> QED
    BY <1>1, <2>1 DEF Dispatch, ChildSteps
<1>2. CASE ChildEnds(e) \/ Note(e) \/ NoteOutbox(e) \/ LogRow(e)
  BY <1>2 DEF ChildEnds, Note, NoteOutbox, LogRow, ChildSteps
<1>3. CASE RecoverFromLog(e)
  BY <1>3 DEF RecoverFromLog
<1> QED
  BY <1>1, <1>2, <1>3 DEF ChildStep

\* What a drain does before it takes an inbox row keeps them typed.
LEMMA SendStepType ==
    ASSUME StoreTypeOK, LoopTypeOK, NEW d \in Drainers, SendStep(d)
    PROVE  LoopTypeOK'
<1> USE DEF LoopTypeOK, Goto, Steps
<1>1. CASE StartPass(d)
  BY <1>1 DEF StartPass
<1>2. CASE RecoverSource(d)
  BY <1>2 DEF RecoverSource
<1>3. ASSUME NEW e \in Events, SendOutbox(d, e) PROVE LoopTypeOK'
  <2>1. FreshToken(e) \in Tokens
    BY <1>3, FreshTokenIsFresh DEF SendOutbox
  <2>2. outbox[e].gen \in Generations
    BY DEF StoreTypeOK, OutboxRow
  <2>3. [event |-> e, gen |-> outbox[e].gen, by |-> d] \in Post
    BY <2>2 DEF Post
  <2> QED
    BY <1>3, <2>1, <2>2, <2>3, WorkType DEF SendOutbox
<1>4. CASE NoOutboxDue(d)
  BY <1>4 DEF NoOutboxDue
<1>5. CASE SendTimesOut(d)
  <2>1. \A p \in posts : [p EXCEPT !.by = NoDrainer] \in Post
    BY DEF Post
  <2> QED
    BY <1>5, <2>1 DEF SendTimesOut
<1>6. CASE EndSend(d)
  BY <1>6, WorkType DEF EndSend
<1> QED
  BY <1>1, <1>2, <1>3, <1>4, <1>5, <1>6 DEF SendStep

\* What the parents do keeps them typed.
LEMMA ParentStepType ==
    ASSUME LoopTypeOK, NEW p \in Parents, ParentStep(p)
    PROVE  LoopTypeOK'
<1> USE DEF LoopTypeOK
<1>0. /\ "losses" \in Spendings
      /\ "turns" \in Spendings
  BY DEF Spendings
<1>1. CASE TurnEnds(p)
  BY <1>0, <1>1, SpendType DEF TurnEnds
<1>2. CASE ParentStops(p)
  <2>1. Drained(p) \in [Events -> Nat]
    BY DEF Drained
  <2> QED
    BY <1>0, <1>2, <2>1, SpendType DEF ParentStops
<1>3. CASE ParentRemoved(p)
  BY <1>3, WorkType DEF ParentRemoved
<1>4. CASE UserTurn(p)
  BY <1>0, <1>4, SpendType DEF UserTurn
<1> QED
  BY <1>1, <1>2, <1>3, <1>4 DEF ParentStep

\* A handoff keeps them typed.
LEMMA HandoffStepType ==
    ASSUME StoreTypeOK, LoopTypeOK, NEW d \in Drainers, HandoffStep(d),
           pc[d] \in Working => EventOf(d) \in Events
    PROVE  LoopTypeOK'
<1> USE DEF LoopTypeOK, Goto, Steps
<1>0. pc[d] \in Working => EventOf(d) \in Events /\ Parent(EventOf(d)) \in Parents
  BY ParentsType
<1>1. ASSUME NEW e \in Events, TakeInbox(d, e) PROVE LoopTypeOK'
  <2>1. FreshToken(e) \in Tokens /\ inbox[e].gen \in Generations
    BY <1>1, FreshTokenIsFresh DEF TakeInbox, StoreTypeOK, InboxRow
  <2> QED
    BY <1>1, <2>1, WorkType DEF TakeInbox
<1>2. CASE NoInboxDue(d)
  BY <1>2 DEF NoInboxDue
<1>3. CASE FirstCheck(d)
  BY <1>3 DEF FirstCheck, GiveUp, Outcomes
<1>4. CASE Admit(d)
  BY <1>4 DEF Admit, GiveUp, Outcomes
<1>5. CASE Revive(d)
  <2>1. EventOf(d) \in Events /\ Parent(EventOf(d)) \in Parents
    BY <1>0, <1>5 DEF Revive, Working, Steps
  <2>2. late' \in [Events -> Nat] /\ pipe' \in [Events -> Nat]
    BY <1>5, <2>1, HandToType DEF Revive
  <2>3. /\ session' \in [Parents -> {"absent", "idle", "running", "error"}]
        /\ attempt' \in [Parents -> Work]
    BY <1>5, <2>1, WorkType DEF Revive
  <2>4. /\ pc' \in [Drainers -> Steps]
        /\ outcome' \in [Drainers -> Outcomes]
        /\ UNCHANGED transcript
    BY <1>5 DEF Revive, GiveUp, Outcomes
  <2> QED
    BY <1>5, <2>2, <2>3, <2>4 DEF Revive
<1>6. CASE SetBoundary(d)
  <2>1. Parent(EventOf(d)) \in Parents /\ job[d] \in Work
    BY <1>0, <1>6 DEF SetBoundary, Working
  <2>2. attempt' \in [Parents -> Work]
    BY <1>6, <2>1, WorkType DEF SetBoundary
  <2>3. /\ pc' \in [Drainers -> Steps]
        /\ outcome' \in [Drainers -> Outcomes]
        /\ lock' \in Drainers \cup {NoDrainer}
    BY <1>6 DEF SetBoundary, GiveUp, Outcomes
  <2> QED
    BY <1>6, <2>2, <2>3 DEF SetBoundary
<1>7. CASE CallParent(d)
  <2>1. EventOf(d) \in Events /\ Parent(EventOf(d)) \in Parents
    BY <1>0, <1>7 DEF CallParent, Working, Steps
  <2>2. late' \in [Events -> Nat] /\ pipe' \in [Events -> Nat]
    BY <1>7, <2>1, HandToType DEF CallParent
  <2>3. session' \in [Parents -> {"absent", "idle", "running", "error"}]
    BY <1>7, <2>1 DEF CallParent
  <2>4. /\ pc' \in [Drainers -> Steps]
        /\ outcome' \in [Drainers -> Outcomes]
    BY <1>7 DEF CallParent, Outcomes
  <2> QED
    BY <1>7, <2>2, <2>3, <2>4 DEF CallParent
<1>8. CASE RecordAnswer(d)
  BY <1>8 DEF RecordAnswer
<1>9. CASE EndAttempt(d)
  BY <1>9, WorkType DEF EndAttempt, Outcomes
<1> QED
  BY <1>1, <1>2, <1>3, <1>4, <1>5, <1>6, <1>7, <1>8, <1>9 DEF HandoffStep

\* So do the messages in the pipes, and everything that only the tables see.
LEMMA OtherStepType ==
    ASSUME LoopTypeOK,
           \/ \E e \in Events : PipeStep(e) \/ SettleStep(e) \/ LeaseEnds(e)
           \/ PersonStep \/ Shutdown
    PROVE  LoopTypeOK'
<1> USE DEF LoopTypeOK
<1>0. {"losses", "deletes", "reviews", "shutdowns"} \subseteq Spendings
  BY DEF Spendings
<1>1. ASSUME NEW e \in Events, PipeStep(e) PROVE LoopTypeOK'
  BY <1>0, <1>1, SpendType DEF PipeStep, LateWrite, Reads, Loses
<1>2. ASSUME NEW e \in Events, SettleStep(e) PROVE LoopTypeOK'
  BY <1>2 DEF SettleStep, SettleDelivered, SettleAbsent, Wake, StoreOnly
<1>3. ASSUME NEW e \in Events, LeaseEnds(e) PROVE LoopTypeOK'
  BY <1>3 DEF LeaseEnds, StoreOnly
<1>4. ASSUME NEW f \in Events, Retry(f) PROVE LoopTypeOK'
  <2>1. CASE Spend("reviews") /\ reviews' = [reviews EXCEPT ![f] = @ + 1]
    <3>1. spent' \in [Spendings -> Nat]
      BY <1>0, <2>1, SpendType
    <3> QED
      BY <1>4, <2>1, <3>1, CountType DEF Retry
  <2>2. CASE UNCHANGED <<spent, reviews>>
    BY <1>4, <2>2 DEF Retry
  <2> QED
    BY <1>4, <2>1, <2>2 DEF Retry
<1>5. ASSUME NEW f \in Events, RetrySend(f) \/ MarkHandled(f) PROVE LoopTypeOK'
  BY <1>0, <1>5, SpendType DEF RetrySend, MarkHandled, StoreOnly
<1>6. ASSUME NEW s \in Sessions, DeleteConversation(s) PROVE LoopTypeOK'
  BY <1>0, <1>6, SpendType DEF DeleteConversation
<1>7. CASE DeleteProject \/ Recreate
  BY <1>0, <1>7, SpendType DEF DeleteProject, Recreate, StoreOnly
<1>8. CASE Shutdown
  BY <1>0, <1>8, SpendType DEF Shutdown
<1> QED
  BY <1>1, <1>2, <1>3, <1>4, <1>5, <1>6, <1>7, <1>8 DEF PersonStep

\* And a request that arrives, or the death of the server.
LEMMA ServerStepType ==
    ASSUME LoopTypeOK, Crash \/ \E p \in posts : Receive(p)
    PROVE  LoopTypeOK'
<1> USE DEF LoopTypeOK
<1>1. ASSUME NEW p \in posts, Receive(p) PROVE LoopTypeOK'
  BY <1>1 DEF Receive, Goto, Steps
<1>2. CASE Crash
  <2>1. spent' \in [Spendings -> Nat]
    BY <1>2, SpendType DEF Crash, Spendings
  <2>2. child' \in [Events -> ChildSteps]
    BY <1>2 DEF Crash, ChildSteps
  <2>3. session' \in [Parents -> {"absent", "idle", "running", "error"}]
    BY <1>2 DEF Crash
  <2>4. PICK adopted \in SUBSET Parents :
          pipe' = [e \in Events |-> IF Parent(e) \in adopted THEN pipe[e] ELSE 0]
    BY <1>2 DEF Crash
  <2>5. pipe' \in [Events -> Nat]
    BY <2>4
  <2> QED
    BY <1>2, <2>1, <2>2, <2>3, <2>5, WorkType DEF Crash, Steps, Outcomes
<1> QED
  BY <1>1, <1>2

(***************************************************************************)
(* The loop: who holds the lock, a row, a request, and the parent.          *)
(***************************************************************************)
\* one drain at a time has the parents' lock
LockIsHeld == \A d \in Drainers : pc[d] \in UnderLock => lock = d

\* a drain that works on a row knows which, and has a fence token of its own
JobIsClaimed ==
    \A d \in Drainers : pc[d] \in Working => EventOf(d) \in Events /\ TokenOf(d) \in Tokens

FencesDiffer ==
    \A c, d \in Drainers : TokenOf(c) \in Tokens /\ TokenOf(c) = TokenOf(d) => c = d

\* a request whose sender waits is the sender's only one
RequestIsAwaited ==
    /\ \A p \in posts : p.by \in Drainers => pc[p.by] = "sending" /\ EventOf(p.by) = p.event
    /\ \A p, q \in posts : p.by \in Drainers /\ p.by = q.by => p = q

LoopInv == LockIsHeld /\ JobIsClaimed /\ FencesDiffer /\ RequestIsAwaited

\* the attempt on a parent's record is one that was made on that parent
AttemptIsTheParents ==
    \A p \in Parents : attempt[p] # NoJob =>
        attempt[p].event \in EventsOf(p) /\ attempt[p].token \in Tokens

\* a parent that is about to be called has no turn running
CalledParentIsIdle ==
    \A d \in Drainers : pc[d] \in {"admitted", "calling"} => session[Parent(EventOf(d))] # "running"

ParentInv == AttemptIsTheParents /\ CalledParentIsIdle

\* A drain that sends keeps to its own row, and holds no lock.
LEMMA SendStepLoop ==
    ASSUME LoopTypeOK, LoopInv, NEW d \in Drainers, SendStep(d)
    PROVE  LoopInv'
<1> USE DEF LoopInv, LoopTypeOK, LockIsHeld, JobIsClaimed, FencesDiffer, RequestIsAwaited, Goto,
            UnderLock, Working, Steps, EventOf, TokenOf
<1>1. CASE StartPass(d)
  BY <1>1 DEF StartPass
<1>2. CASE RecoverSource(d)
  BY <1>2 DEF RecoverSource
<1>3. ASSUME NEW e \in Events, SendOutbox(d, e) PROVE LoopInv'
  <2> DEFINE t == FreshToken(e)
             p == [event |-> e, gen |-> outbox[e].gen, by |-> d]
  <2>1. /\ t \in Tokens
        /\ \A c \in Drainers : t # job[c].token
    BY <1>3, FreshTokenIsFresh DEF SendOutbox
  <2>2. /\ pc' = [pc EXCEPT ![d] = "sending"]
        /\ job' = [job EXCEPT ![d] = [event |-> e, token |-> t, gen |-> outbox[e].gen]]
        /\ posts' = posts \cup {p}
        /\ UNCHANGED lock
    BY <1>3 DEF SendOutbox
  <2>3. \A q \in posts : q.by # d
    BY <1>3 DEF SendOutbox
  <2>4. p.by = d /\ p.event = e
    OBVIOUS
  <2> HIDE DEF t, p
  <2>5. LockIsHeld' /\ JobIsClaimed'
    BY <2>1, <2>2
  <2>6. FencesDiffer'
    BY <2>1, <2>2
  <2>7. RequestIsAwaited'
    BY <2>2, <2>3, <2>4
  <2> QED
    BY <2>5, <2>6, <2>7
<1>4. CASE NoOutboxDue(d)
  BY <1>4 DEF NoOutboxDue
<1>5. CASE SendTimesOut(d)
  <2> DEFINE orphan(p) == [p EXCEPT !.by = NoDrainer]
  <2>1. PICK p \in posts : p.by = d /\ posts' \subseteq (posts \ {p}) \cup {orphan(p)}
    BY <1>5 DEF SendTimesOut
  <2>2. orphan(p).by = NoDrainer
    BY DEF Post
  <2> HIDE DEF orphan
  <2>3. \A q \in posts \ {p} : q.by # d
    BY <2>1
  <2>4. \A q \in posts' : q.by \in Drainers => q \in posts \ {p}
    BY <2>1, <2>2, DrainAssumption
  <2>5. /\ pc' = [pc EXCEPT ![d] = "sendFailed"]
        /\ pc[d] = "sending"
        /\ UNCHANGED <<job, lock>>
    BY <1>5 DEF SendTimesOut
  <2>6. LockIsHeld' /\ JobIsClaimed' /\ FencesDiffer'
    BY <2>5
  <2>7. \A q \in posts : q.by \in Drainers => pc[q.by] = "sending" /\ job[q.by].event = q.event
    OBVIOUS
  <2>8. RequestIsAwaited'
    BY <2>3, <2>4, <2>5, <2>7
  <2> QED
    BY <2>6, <2>8
<1>6. CASE EndSend(d)
  BY <1>6, DeliveryAssumption DEF EndSend, NoJob
<1> QED
  BY <1>1, <1>2, <1>3, <1>4, <1>5, <1>6 DEF SendStep

\* A handoff takes the lock only when it is free and keeps it until its answer
\* is recorded.
LEMMA HandoffStepLoop ==
    ASSUME LoopTypeOK, LoopInv, NEW d \in Drainers, HandoffStep(d)
    PROVE  LoopInv'
<1> USE DEF LoopInv, LoopTypeOK, LockIsHeld, JobIsClaimed, FencesDiffer, RequestIsAwaited, Goto,
            GiveUp, UnderLock, Working, Steps, EventOf, TokenOf
<1>1. ASSUME NEW e \in Events, TakeInbox(d, e) PROVE LoopInv'
  <2> DEFINE t == FreshToken(e)
  <2>1. /\ t \in Tokens
        /\ \A c \in Drainers : t # job[c].token
    BY <1>1, FreshTokenIsFresh DEF TakeInbox
  <2>2. /\ pc' = [pc EXCEPT ![d] = "claimed"]
        /\ job' = [job EXCEPT ![d] = [event |-> e, token |-> t, gen |-> inbox[e].gen]]
        /\ pc[d] = "claimInbox"
        /\ UNCHANGED <<lock, posts>>
    BY <1>1 DEF TakeInbox
  <2> HIDE DEF t
  <2>3. LockIsHeld' /\ JobIsClaimed'
    BY <2>1, <2>2
  <2>4. FencesDiffer'
    BY <2>1, <2>2
  <2>5. RequestIsAwaited'
    BY <2>2
  <2> QED
    BY <2>3, <2>4, <2>5
<1>2. CASE NoInboxDue(d)
  BY <1>2 DEF NoInboxDue
<1>3. CASE FirstCheck(d)
  <2>1. PICK step \in {"waiting", "ending"} : pc' = [pc EXCEPT ![d] = step]
    BY <1>3 DEF FirstCheck
  <2>2. pc[d] = "claimed" /\ UNCHANGED <<job, posts, lock>>
    BY <1>3 DEF FirstCheck
  <2> QED
    BY <2>1, <2>2
<1>4. CASE Admit(d)
  <2>1. PICK step \in {"reviving", "admitted", "ending"} :
          /\ pc' = [pc EXCEPT ![d] = step]
          /\ step # "ending" => lock' = d
    BY <1>4 DEF Admit
  <2>2. pc[d] = "waiting" /\ lock = NoDrainer /\ UNCHANGED <<job, posts>>
    BY <1>4 DEF Admit
  <2>3. \A c \in Drainers : pc[c] \notin UnderLock
    BY <2>2, DrainAssumption
  <2> QED
    BY <2>1, <2>2, <2>3
<1>5. CASE Revive(d)
  BY <1>5 DEF Revive
<1>6. CASE SetBoundary(d)
  BY <1>6 DEF SetBoundary
<1>7. CASE CallParent(d)
  BY <1>7 DEF CallParent
<1>8. CASE RecordAnswer(d)
  BY <1>8 DEF RecordAnswer
<1>9. CASE EndAttempt(d)
  <2>1. /\ pc[d] = "ending"
        /\ pc' = [pc EXCEPT ![d] = "rest"]
        /\ job' = [job EXCEPT ![d] = NoJob]
        /\ UNCHANGED <<posts, lock>>
    BY <1>9 DEF EndAttempt
  <2>2. NoJob.token \notin Tokens
    BY DeliveryAssumption DEF NoJob
  <2> QED
    BY <2>1, <2>2
<1> QED
  BY <1>1, <1>2, <1>3, <1>4, <1>5, <1>6, <1>7, <1>8, <1>9 DEF HandoffStep

\* An answer reaches the drain that waits for it; a crash leaves no drain.
LEMMA ServerStepLoop ==
    ASSUME LoopTypeOK, LoopInv, Crash \/ \E p \in posts : Receive(p)
    PROVE  LoopInv'
<1> USE DEF LoopInv, LoopTypeOK, LockIsHeld, JobIsClaimed, FencesDiffer, RequestIsAwaited, Goto,
            UnderLock, Working, Steps, EventOf, TokenOf
<1>1. ASSUME NEW p \in posts, Receive(p) PROVE LoopInv'
  BY <1>1 DEF Receive
<1>2. CASE Crash
  BY <1>2, DeliveryAssumption DEF Crash, NoJob
<1> QED
  BY <1>1, <1>2

(***************************************************************************)
(* Steps that leave the handoffs under way alone.                           *)
(***************************************************************************)
\* the steps of a drain that has an inbox row
HandoffSteps == {"claimed", "waiting", "admitted", "reviving", "calling", "answered", "ending"}

HandoffsStay ==
    \A c \in Drainers : pc'[c] \in HandoffSteps =>
        pc'[c] = pc[c] /\ job'[c] = job[c] /\ outcome'[c] = outcome[c]

\* what is not a step of a handoff
AsideStep ==
    \/ \E e \in Events : ChildStep(e) \/ PipeStep(e) \/ SettleStep(e) \/ LeaseEnds(e)
    \/ \E d \in Drainers : SendStep(d)
    \/ \E p \in posts : Receive(p)
    \/ \E p \in Parents : ParentStep(p)
    \/ PersonStep \/ Shutdown \/ Crash

\* Every step belongs to a handoff or leaves it aside.
LEMMA NextSplits == Next <=> AsideStep \/ \E d \in Drainers : HandoffStep(d)
BY DEF Next, AsideStep

\* The children, the parents, the people and the settlement move no drain.
LEMMA LoopStays ==
    /\ \A e \in Events :
          ChildStep(e) \/ PipeStep(e) \/ SettleStep(e) \/ LeaseEnds(e) => UNCHANGED loopVars
    /\ \A p \in Parents : ParentStep(p) => UNCHANGED loopVars
    /\ PersonStep \/ Shutdown => UNCHANGED loopVars
<1>1. \A e \in Events : ChildStep(e) => UNCHANGED loopVars
  BY DEF ChildStep, Dispatch, ChildEnds, Note, NoteOutbox, LogRow, RecoverFromLog
<1>2. \A e \in Events : PipeStep(e) => UNCHANGED loopVars
  BY DEF PipeStep, LateWrite, Reads, Loses
<1>3. \A e \in Events : SettleStep(e) \/ LeaseEnds(e) => UNCHANGED loopVars
  BY DEF SettleStep, SettleDelivered, SettleAbsent, Wake, LeaseEnds, StoreOnly
<1>4. \A p \in Parents : ParentStep(p) => UNCHANGED loopVars
  BY DEF ParentStep, TurnEnds, ParentStops, ParentRemoved, UserTurn
<1>5. PersonStep => UNCHANGED loopVars
  BY DEF PersonStep, Retry, RetrySend, MarkHandled, DeleteConversation, DeleteProject, Recreate,
         StoreOnly
<1>6. Shutdown => UNCHANGED loopVars
  BY DEF Shutdown
<1> QED
  BY <1>1, <1>2, <1>3, <1>4, <1>5, <1>6

\* Whatever is not a step of a handoff moves no drain into, within or under one.
LEMMA AsideStays ==
    ASSUME LoopTypeOK, LoopInv, AsideStep
    PROVE  HandoffsStay
<1> USE DEF HandoffsStay, HandoffSteps, LoopTypeOK, Goto
<1>1. CASE UNCHANGED loopVars
  BY <1>1
<1>2. ASSUME NEW d \in Drainers, SendStep(d) PROVE HandoffsStay
  <2>1. \A c \in Drainers \ {d} : /\ pc'[c] = pc[c] /\ job'[c] = job[c]
                                  /\ outcome'[c] = outcome[c]
    BY <1>2 DEF SendStep, StartPass, RecoverSource, SendOutbox, NoOutboxDue, SendTimesOut, EndSend
  <2>2. pc'[d] \notin HandoffSteps
    BY <1>2 DEF SendStep, StartPass, RecoverSource, SendOutbox, NoOutboxDue, SendTimesOut, EndSend
  <2> QED
    BY <2>1, <2>2
<1>3. ASSUME NEW p \in posts, Receive(p) PROVE HandoffsStay
  BY <1>3 DEF Receive
<1>4. CASE Crash
  BY <1>4 DEF Crash
<1> QED
  BY <1>1, <1>2, <1>3, <1>4, LoopStays DEF AsideStep

\* Every step keeps the loop's invariant.
LEMMA LoopStep ==
    ASSUME LoopTypeOK, LoopInv, Next
    PROVE  LoopInv'
<1>1. CASE UNCHANGED loopVars
  BY <1>1 DEF LoopInv, LockIsHeld, JobIsClaimed, FencesDiffer, RequestIsAwaited, EventOf, TokenOf
<1> QED
  BY <1>1, LoopStays, SendStepLoop, HandoffStepLoop, ServerStepLoop DEF Next

\* A parent is called by the drain that has the lock, with the attempt that is
\* then on its record, and starts no other turn meanwhile.
LEMMA ParentInvStep ==
    ASSUME LoopTypeOK, LoopInv, ParentInv, Next
    PROVE  ParentInv'
<1> USE DEF ParentInv, AttemptIsTheParents, CalledParentIsIdle
<1>1. CASE HandoffsStay /\ UNCHANGED <<session, attempt>>
  BY <1>1 DEF HandoffsStay, HandoffSteps, EventOf
<1>2. ASSUME NEW p \in Parents, ParentStep(p) PROVE ParentInv'
  <2>1. UNCHANGED loopVars
    BY <1>2, LoopStays
  <2>2. CASE TurnEnds(p) \/ ParentStops(p)
    <3>1. \A d \in Drainers : pc[d] \in {"admitted", "calling"} => Parent(EventOf(d)) \in Parents
      BY ParentsType DEF LoopInv, JobIsClaimed, Working, LoopTypeOK, Steps
    <3>2. /\ session' \in {[session EXCEPT ![p] = "idle"], [session EXCEPT ![p] = "error"]}
          /\ UNCHANGED attempt
      BY <2>2 DEF TurnEnds, ParentStops
    <3> QED
      BY <2>1, <3>1, <3>2 DEF LoopTypeOK, EventOf
  <2>3. CASE ParentRemoved(p) \/ UserTurn(p)
    <3>1. \A d \in Drainers : pc[d] \notin UnderLock
      BY <2>3, DrainAssumption DEF ParentRemoved, UserTurn, LoopInv, LockIsHeld
    <3> QED
      BY <2>1, <2>3, <3>1 DEF ParentRemoved, UserTurn, LoopTypeOK, UnderLock
  <2> QED
    BY <1>2, <2>2, <2>3 DEF ParentStep
<1>3. CASE Crash
  BY <1>3 DEF Crash
<1>4. ASSUME NEW d \in Drainers, HandoffStep(d) PROVE ParentInv'
  <2> USE DEF LoopTypeOK, Goto, GiveUp, EventOf
  <2>1. \A c \in Drainers \ {d} : pc'[c] = pc[c] /\ job'[c] = job[c]
    BY <1>4 DEF HandoffStep, TakeInbox, NoInboxDue, FirstCheck, Admit, Revive, SetBoundary,
       CallParent, RecordAnswer, EndAttempt
  <2>2. ASSUME NEW e \in Events, TakeInbox(d, e) PROVE ParentInv'
    BY <2>1, <2>2 DEF TakeInbox
  <2>3. CASE NoInboxDue(d) \/ FirstCheck(d) \/ RecordAnswer(d) \/ EndAttempt(d)
    BY <2>1, <2>3 DEF NoInboxDue, FirstCheck, RecordAnswer, EndAttempt
  <2>4. CASE Admit(d)
    BY <2>1, <2>4 DEF Admit
  <2>5. CASE Revive(d)
    <3>1. \A c \in Drainers \ {d} : pc[c] \notin UnderLock
      BY <2>5 DEF Revive, LoopInv, LockIsHeld, UnderLock
    <3> QED
      BY <2>1, <2>5, <3>1 DEF Revive, UnderLock
  <2>6. CASE SetBoundary(d)
    <3>1. EventOf(d) \in EventsOf(Parent(EventOf(d))) /\ TokenOf(d) \in Tokens
      BY <2>6 DEF SetBoundary, LoopInv, JobIsClaimed, Working, Steps, EventsOf, TokenOf
    <3> QED
      BY <2>1, <2>6, <3>1 DEF SetBoundary, TokenOf
  <2>7. CASE CallParent(d)
    <3>1. \A c \in Drainers \ {d} : pc[c] \notin UnderLock
      BY <2>7 DEF CallParent, LoopInv, LockIsHeld, UnderLock
    <3> QED
      BY <2>1, <2>7, <3>1 DEF CallParent, UnderLock
  <2> QED
    BY <1>4, <2>2, <2>3, <2>4, <2>5, <2>6, <2>7 DEF HandoffStep
<1>5. ASSUME AsideStep, ~Crash, \A p \in Parents : ~ParentStep(p)
      PROVE  UNCHANGED <<session, attempt>>
  BY <1>5
  DEF AsideStep, ChildStep, Dispatch, ChildEnds, Note, NoteOutbox, LogRow, RecoverFromLog, PipeStep,
      LateWrite, Reads, Loses, SettleStep, SettleDelivered, SettleAbsent, Wake, LeaseEnds,
      StoreOnly, SendStep, StartPass, RecoverSource, SendOutbox, NoOutboxDue, SendTimesOut, EndSend,
      Receive, PersonStep, Retry, RetrySend, MarkHandled, DeleteConversation, DeleteProject,
      Recreate, Shutdown
<1> QED
  BY <1>1, <1>2, <1>3, <1>4, <1>5, AsideStays, NextSplits

(***************************************************************************)
(* The calls each step makes of the store: one at most.                     *)
(***************************************************************************)
\* the calls about reports and the project that need no reason: the steps that
\* send, recover, delete or end a turn have one
AsideCall ==
    \/ \E e \in Events, g \in Generations : ChildCall(e, g)
    \/ Reconcile \/ ReadGeneration \/ RecreateProject

OutboxStep == \E d \in Drainers : EndSend(d) \/ \E e \in Events : SendOutbox(d, e)
Deletion == DeleteProject \/ \E s \in Sessions : DeleteConversation(s)
TurnEnd == \E p \in Parents : TurnEnds(p)
RecoveryStep ==
    \E e \in Events : SettleStep(e) \/ LeaseEnds(e) \/ Retry(e) \/ RetrySend(e) \/ MarkHandled(e)

\* Settlement, the waker, lapsing leases and people make the calls that recover.
LEMMA RecoveryStepCalls ==
    ASSUME RecoveryStep
    PROVE  \E e \in Events : RecoveryCall(e)
BY DEF RecoveryStep, SettleStep, SettleDelivered, SettleAbsent, Wake, LeaseEnds, Retry, RetrySend,
       MarkHandled, RecoveryCall

\* Each of these is a call of the store, or none.
LEMMA AsideIsStoreCall ==
    ASSUME LoopTypeOK, LoopInv, ParentInv,
           AsideCall \/ RecoveryStep \/ OutboxStep \/ Deletion \/ TurnEnd
    PROVE  StoreCall \/ UNCHANGED storeVars
<1>1. CASE AsideCall
  BY <1>1 DEF AsideCall, StoreCall, ProjectCall
<1>2. ASSUME NEW d \in Drainers, EndSend(d) PROVE StoreCall
  <2>1. EventOf(d) \in Events /\ TokenOf(d) \in Tokens
    BY <1>2 DEF EndSend, LoopInv, JobIsClaimed, Working, Steps
  <2> QED
    BY <1>2, <2>1 DEF EndSend, StoreCall, AttemptCall
<1>3. ASSUME NEW d \in Drainers, NEW e \in Events, SendOutbox(d, e) PROVE StoreCall
  BY <1>3, FreshTokenIsFresh DEF SendOutbox, StoreCall
<1>4. CASE Deletion
  BY <1>4 DEF Deletion, DeleteProject, DeleteConversation, StoreCall, ProjectCall
<1>5. ASSUME NEW p \in Parents, TurnEnds(p) PROVE StoreCall \/ UNCHANGED storeVars
  <2>1. attempt[p] # NoJob => attempt[p].event \in Events /\ attempt[p].token \in Tokens
    BY DEF ParentInv, AttemptIsTheParents, EventsOf
  <2> QED
    BY <1>5, <2>1 DEF TurnEnds, StoreCall, AttemptCall
<1>6. CASE RecoveryStep
  BY <1>6, RecoveryStepCalls DEF StoreCall
<1> QED
  BY <1>1, <1>2, <1>3, <1>4, <1>5, <1>6 DEF OutboxStep, TurnEnd

\* A child makes the calls that add rows, and asks for the generation.
LEMMA ChildStepCalls ==
    ASSUME LoopTypeOK, NEW e \in Events, ChildStep(e)
    PROVE  AsideCall \/ UNCHANGED storeVars
<1>1. CarriedGeneration(e) \in Generations
  BY DeliveryAssumption DEF CarriedGeneration, LoopTypeOK, Generations
<1>2. CASE Dispatch(e)
  BY <1>2 DEF Dispatch, AsideCall
<1>3. CASE ChildEnds(e) \/ LogRow(e)
  BY <1>3 DEF ChildEnds, LogRow
<1>4. CASE Note(e) \/ NoteOutbox(e) \/ RecoverFromLog(e)
  <2>1. ChildCall(e, CarriedGeneration(e)) \/ UNCHANGED storeVars
    BY <1>4 DEF Note, NoteOutbox, RecoverFromLog, ChildCall
  <2> QED
    BY <1>1, <2>1 DEF AsideCall
<1> QED
  BY <1>2, <1>3, <1>4 DEF ChildStep

\* A drain that sends reconciles and enqueues, or works on its outbox row.
LEMMA SendStepCalls ==
    ASSUME StoreTypeOK, LoopTypeOK, NEW d \in Drainers, SendStep(d)
    PROVE  AsideCall \/ OutboxStep \/ UNCHANGED storeVars
<1>1. CASE StartPass(d)
  BY <1>1 DEF StartPass, AsideCall
<1>2. CASE RecoverSource(d)
  <2>1. PICK e \in Events : Enqueue(e, sources[e].gen)
    BY <1>2 DEF RecoverSource, LoopTypeOK
  <2>2. sources[e].gen \in Generations
    BY DEF StoreTypeOK, SourceRow
  <2> QED
    BY <2>1, <2>2 DEF AsideCall, ChildCall
<1>3. CASE NoOutboxDue(d) \/ SendTimesOut(d)
  BY <1>3 DEF NoOutboxDue, SendTimesOut
<1> QED
  BY <1>1, <1>2, <1>3 DEF SendStep, OutboxStep

\* What leaves the handoffs alone makes no call with a handoff's token.
LEMMA AsideStepCalls ==
    ASSUME StoreTypeOK, LoopTypeOK, AsideStep
    PROVE  \/ AsideCall \/ RecoveryStep \/ OutboxStep \/ Deletion \/ TurnEnd
           \/ UNCHANGED storeVars
<1>1. ASSUME NEW e \in Events, SettleStep(e) \/ LeaseEnds(e) PROVE RecoveryStep
  BY <1>1 DEF RecoveryStep
<1>2. ASSUME NEW e \in Events, PipeStep(e) PROVE UNCHANGED storeVars
  BY <1>2 DEF PipeStep, LateWrite, Reads, Loses
<1>3. ASSUME NEW p \in posts, Receive(p) PROVE AsideCall
  <2>1. p.event \in Events /\ p.gen \in Generations
    BY DEF LoopTypeOK, Post
  <2> QED
    BY <1>3, <2>1 DEF Receive, AsideCall, ChildCall
<1>4. ASSUME NEW p \in Parents, ParentStep(p) PROVE TurnEnd \/ UNCHANGED storeVars
  BY <1>4 DEF ParentStep, ParentStops, ParentRemoved, UserTurn, TurnEnd
<1>5. CASE PersonStep
  <2>1. CASE Recreate
    BY <2>1 DEF Recreate, AsideCall
  <2> QED
    BY <1>5, <2>1 DEF PersonStep, Deletion, RecoveryStep
<1>6. CASE Shutdown \/ Crash
  BY <1>6 DEF Shutdown, Crash
<1> QED
  BY <1>1, <1>2, <1>3, <1>4, <1>5, <1>6, ChildStepCalls, SendStepCalls DEF AsideStep

\* A handoff makes the calls of its attempt, with its own token.
LEMMA HandoffStepCalls ==
    ASSUME LoopTypeOK, LoopInv, NEW d \in Drainers, HandoffStep(d)
    PROVE  \/ \E e \in Events, t \in Tokens : ClaimInbox(e, t)
           \/ /\ EventOf(d) \in Events /\ TokenOf(d) \in Tokens
              /\ AttemptCall(EventOf(d), TokenOf(d))
           \/ UNCHANGED storeVars
<1>1. ASSUME NEW e \in Events, TakeInbox(d, e) PROVE \E t \in Tokens : ClaimInbox(e, t)
  BY <1>1, FreshTokenIsFresh DEF TakeInbox
<1>2. CASE NoInboxDue(d) \/ FirstCheck(d) \/ Admit(d) \/ Revive(d) \/ CallParent(d)
  BY <1>2 DEF NoInboxDue, FirstCheck, Admit, Revive, CallParent
<1>3. CASE SetBoundary(d) \/ RecordAnswer(d) \/ EndAttempt(d)
  <2>1. EventOf(d) \in Events /\ TokenOf(d) \in Tokens
    BY <1>3 DEF SetBoundary, RecordAnswer, EndAttempt, LoopInv, JobIsClaimed, Working, LoopTypeOK,
       Steps
  <2>2. outcome[d] \in {"", "pending", "blocked", "uncertain"} \/ outcome[d] = "submitted"
    BY DEF LoopTypeOK, Outcomes
  <2> QED
    BY <1>3, <2>1, <2>2 DEF SetBoundary, RecordAnswer, EndAttempt, AttemptCall
<1> QED
  BY <1>1, <1>2, <1>3 DEF HandoffStep

\* Every step makes one call of the store, or none.
LEMMA StepMakesOneCall ==
    ASSUME StoreTypeOK, LoopTypeOK, LoopInv, ParentInv, Next
    PROVE  StoreCall \/ UNCHANGED storeVars
BY NextSplits, AsideStepCalls, AsideIsStoreCall, HandoffStepCalls DEF StoreCall

(***************************************************************************)
(* The control invariant: types, tables without leftovers, loop and parent. *)
(***************************************************************************)
ControlInv ==
    /\ TypeOK
    /\ AbsentIsEmpty
    /\ DeletedIsGone
    /\ LoopInv
    /\ ParentInv

\* It holds at first, with whatever reports an earlier run left.
LEMMA InitControl == Init => ControlInv
<1> SUFFICES ASSUME Init PROVE ControlInv
  OBVIOUS
<1>1. {0, 1} \subseteq Generations /\ {0, 1} \subseteq 0..MaxAttempts
  BY DeliveryAssumption DEF Generations
<1> DEFINE gen(e) == IF e \in Jobs THEN 0 ELSE 1
           sent(e) == [NoOutbox EXCEPT !.state = "delivered", !.gen = gen(e), !.attempts = 1]
           accepted(e) == [NoInbox EXCEPT !.state = "pending", !.gen = gen(e)]
<1>2. /\ sources = [e \in Events |-> IF e \in Waiting THEN [present |-> TRUE, gen |-> gen(e)]
                                    ELSE NoSource]
      /\ outbox = [e \in Events |-> IF e \in Waiting THEN sent(e) ELSE NoOutbox]
      /\ inbox = [e \in Events |-> IF e \in Waiting THEN accepted(e) ELSE NoInbox]
  BY DEF Init
<1>3. \A e \in Events : /\ sent(e) \in OutboxRow /\ sent(e).state = "delivered"
                        /\ accepted(e) \in InboxRow /\ accepted(e).state = "pending"
  BY <1>1, EmptyRows DEF NoOutbox, NoInbox, OutboxRow, InboxRow, OutboxStates, InboxStates
<1>4. \A e \in Events : [present |-> TRUE, gen |-> gen(e)] \in SourceRow
  BY <1>1 DEF SourceRow
<1> HIDE DEF sent, accepted
<1>5. StoreTypeOK
  <2>1. sources \in [Events -> SourceRow] /\ outbox \in [Events -> OutboxRow]
    BY <1>2, <1>3, <1>4, EmptyRows
  <2>2. inbox \in [Events -> InboxRow]
    BY <1>2, <1>3, EmptyRows
  <2> QED
    BY <1>1, <2>1, <2>2 DEF Init, StoreTypeOK
<1>6. LoopTypeOK
  BY <1>1, WorkType DEF Init, LoopTypeOK, ChildSteps, Steps, Outcomes
<1>7. AbsentIsEmpty
  BY <1>2, <1>3 DEF AbsentIsEmpty
<1>8. DeletedIsGone
  BY DEF Init, DeletedIsGone, Deleted, Tombed
<1>9. LoopInv /\ ParentInv
  BY DeliveryAssumption
  DEF Init, LoopInv, LockIsHeld, JobIsClaimed, FencesDiffer, RequestIsAwaited, ParentInv,
      AttemptIsTheParents, CalledParentIsIdle, UnderLock, Working, NoJob, EventOf, TokenOf
<1> QED
  BY <1>5, <1>6, <1>7, <1>8, <1>9, TypeSplits DEF ControlInv

\* Every step keeps it.
LEMMA ControlStep ==
    ASSUME ControlInv, [Next]_vars
    PROVE  ControlInv'
<1>0. StoreTypeOK /\ LoopTypeOK
  BY TypeSplits DEF ControlInv
<1>1. CASE Next
  <2> USE <1>0, <1>1 DEF ControlInv
  <2>1. StoreCall \/ UNCHANGED storeVars
    BY StepMakesOneCall
  <2>2. StoreTypeOK' /\ AbsentIsEmpty' /\ DeletedIsGone'
    <3>1. CASE UNCHANGED storeVars
      BY <3>1 DEF StoreTypeOK, AbsentIsEmpty, DeletedIsGone, Deleted, Tombed, Stored
    <3> QED
      BY <2>1, <3>1, StoreCallType, AbsentIsEmptyKept, DeletedIsGoneKept
  <2>3. LoopTypeOK'
    <3>1. \A d \in Drainers : pc[d] \in Working => EventOf(d) \in Events
      BY DEF LoopInv, JobIsClaimed
    <3>2. ASSUME NEW e \in Events, ChildStep(e) \/ PipeStep(e) \/ SettleStep(e) \/ LeaseEnds(e)
          PROVE  LoopTypeOK'
      BY <3>2, ChildStepType, OtherStepType
    <3>3. ASSUME NEW d \in Drainers, SendStep(d) \/ HandoffStep(d) PROVE LoopTypeOK'
      BY <3>1, <3>3, SendStepType, HandoffStepType
    <3>4. ASSUME NEW p \in Parents, ParentStep(p) PROVE LoopTypeOK'
      BY <3>4, ParentStepType
    <3>5. CASE PersonStep \/ Shutdown \/ Crash \/ \E p \in posts : Receive(p)
      BY <3>5, OtherStepType, ServerStepType
    <3> QED
      BY <3>2, <3>3, <3>4, <3>5 DEF Next
  <2>4. LoopInv' /\ ParentInv'
    BY LoopStep, ParentInvStep
  <2>5. TypeOK'
    <3>1. TypeOK' <=> StoreTypeOK' /\ LoopTypeOK'
      BY DEF TypeOK, LoopTypeOK
    <3> QED
      BY <2>2, <2>3, <3>1
  <2> QED
    BY <2>2, <2>4, <2>5
<1>2. CASE UNCHANGED vars
  BY <1>2
  DEF ControlInv, TypeOK, StoreTypeOK, AbsentIsEmpty, DeletedIsGone, Deleted, Tombed, Stored,
      LoopInv, LockIsHeld, JobIsClaimed, FencesDiffer, RequestIsAwaited, ParentInv,
      AttemptIsTheParents, CalledParentIsIdle, EventOf, TokenOf
<1> QED
  BY <1>1, <1>2

\* The control invariant holds in every state.
THEOREM ControlInvariant == Spec => []ControlInv
BY InitControl, ControlStep, PTL DEF Spec

\* Every variable of the loop and of the store keeps its type, whatever the
\* interleaving of drains, requests, crashes, deletions and people.
THEOREM TypeCorrect == Spec => []TypeOK
<1>1. ControlInv => TypeOK
  BY DEF ControlInv
<1> QED
  BY <1>1, ControlInvariant, PTL

(***************************************************************************)
(* What the calls without a handoff's token do to an inbox row.             *)
(***************************************************************************)
Fresh == {"absent", "pending", "blocked"}

\* r may become s: a token or a boundary is kept or dropped, nothing becomes
\* settled or claimed, and a row starts afresh only with its check cleared
RowEases(r, s) ==
    /\ s.token \in {r.token, NoToken}
    /\ s.boundary \in {r.boundary, NoToken}
    /\ s.settled =>
          /\ r.settled
          /\ s.boundary = r.boundary
          /\ s.token = r.token \/ s.state \in Terminal
          /\ r.state \in Terminal => s.state \in Terminal
    /\ s.state = "dispatch_intent" => r.state = "dispatch_intent"
    /\ s.state \in Fresh => r.state \in Fresh \/ (s.boundary = NoToken /\ ~s.settled)

RowsEase == \A e \in Events : RowEases(inbox[e], inbox'[e])

CompletionsStay ==
    \A e \in Events : inbox'[e].completion \in {inbox[e].completion, NoToken}

\* A row that is left alone, is purged or has its check cleared is eased.
LEMMA EasedRows ==
    ASSUME NEW r \in InboxRow
    PROVE  /\ RowEases(r, r)
           /\ RowEases(r, NoInbox)
           /\ RowEases(r, ClearedCheck(r))
           /\ RowEases(r, [ClearedCheck(r) EXCEPT !.resends = 1])
           /\ ClearedCheck(r).completion = NoToken
           /\ [ClearedCheck(r) EXCEPT !.resends = 1].completion = NoToken
           /\ NoInbox.completion = NoToken
<1>1. RowEases(r, r)
  BY DEF RowEases
<1>2. RowEases(r, NoInbox) /\ NoInbox.completion = NoToken
  BY DEF RowEases, NoInbox
<1>3. RowEases(r, ClearedCheck(r)) /\ ClearedCheck(r).completion = NoToken
  BY DEF RowEases, ClearedCheck, InboxRow
<1>4. /\ RowEases(r, [ClearedCheck(r) EXCEPT !.resends = 1])
      /\ [ClearedCheck(r) EXCEPT !.resends = 1].completion = NoToken
  BY DEF RowEases, ClearedCheck, InboxRow
<1> QED
  BY <1>1, <1>2, <1>3, <1>4

\* What a child, the receiver or the project does to a row eases it.
LEMMA AddedRowsEase ==
    ASSUME StoreTypeOK, AbsentIsEmpty,
           \/ \E e \in Events, g \in Generations : ChildCall(e, g)
           \/ ProjectCall
    PROVE  RowsEase /\ CompletionsStay
<1> USE EasedRows DEF RowsEase, CompletionsStay, StoreTypeOK
<1>1. ASSUME NEW e \in Events, NEW g \in Generations,
             RecordCompletionSource(e, g) \/ Enqueue(e, g)
      PROVE  RowsEase /\ CompletionsStay
  BY <1>1 DEF RecordCompletionSource, Enqueue
<1>2. ASSUME NEW e \in Events, NEW g \in Generations, Accept(e, g)
      PROVE  RowsEase /\ CompletionsStay
  <2> DEFINE row == [NoInbox EXCEPT !.state = "pending", !.gen = g]
  <2>1. inbox[e].state = "absent" =>
          RowEases(inbox[e], row) /\ row.completion = NoToken
    BY DEF RowEases, NoInbox, Fresh, AbsentIsEmpty, Terminal
  <2>2. \/ inbox' = inbox
        \/ inbox[e].state = "absent" /\ inbox' = [inbox EXCEPT ![e] = row]
    BY <1>2 DEF Accept
  <2> HIDE DEF row
  <2> QED
    BY <2>1, <2>2
<1>3. CASE Reconcile
  <2> DEFINE row(e) == [inbox[e] EXCEPT !.state = "uncertain"]
  <2>1. \A e \in Events : RowEases(inbox[e], row(e)) \/ inbox[e].state # "dispatch_intent"
    BY DEF RowEases, InboxRow, Fresh, Terminal
  <2>2. \A e \in Events : row(e).completion = inbox[e].completion
    BY DEF InboxRow
  <2>3. \A e \in Events : inbox'[e] = IF inbox[e].state = "dispatch_intent" /\ ~inbox[e].leased
                                      THEN row(e) ELSE inbox[e]
    BY <1>3 DEF Reconcile
  <2> HIDE DEF row
  <2> QED
    BY <2>1, <2>2, <2>3
<1>4. CASE ReadGeneration \/ RecreateProject
  BY <1>4 DEF ReadGeneration, RecreateProject
<1>5. CASE RevokeProject \/ (\E s \in Sessions : RevokeSession(s)) \/ \E e \in Events : RevokeEvent(e)
  <2>1. PICK E : Purge(E)
    BY <1>5 DEF RevokeProject, RevokeSession, RevokeEvent
  <2>2. \A e \in Events : inbox'[e] \in {inbox[e], NoInbox}
    BY <2>1 DEF Purge
  <2> QED
    BY <2>2
<1> QED
  BY <1>1, <1>2, <1>3, <1>4, <1>5 DEF ChildCall, ProjectCall

\* Settlement, the waker and people ease a row.
LEMMA RecoveredRowsEase ==
    ASSUME StoreTypeOK, NEW e \in Events, RecoveryCall(e)
    PROVE  RowsEase /\ CompletionsStay
<1> USE EasedRows DEF RowsEase, CompletionsStay, StoreTypeOK
<1>1. CASE ResendOnAbsence(e)
  BY <1>1 DEF ResendOnAbsence
<1>2. CASE NotDelivered(e)
  <2> DEFINE row == [inbox[e] EXCEPT !.state = "recovery_required"]
  <2>1. RowEases(inbox[e], row) /\ row.completion = inbox[e].completion
    BY <1>2 DEF NotDelivered, Checkable, Parked, RowEases, InboxRow, Fresh, Terminal
  <2>2. inbox' = [inbox EXCEPT ![e] = row]
    BY <1>2 DEF NotDelivered
  <2> HIDE DEF row
  <2> QED
    BY <2>1, <2>2
<1>3. CASE WakeBlocked(e)
  <2> DEFINE row == [inbox[e] EXCEPT !.state = "pending", !.leased = FALSE]
  <2>1. RowEases(inbox[e], row) /\ row.completion = inbox[e].completion
    BY <1>3 DEF WakeBlocked, RowEases, InboxRow, Fresh, Terminal
  <2>2. inbox' = [inbox EXCEPT ![e] = row]
    BY <1>3 DEF WakeBlocked
  <2> HIDE DEF row
  <2> QED
    BY <2>1, <2>2
<1>4. ASSUME NEW reviewed \in BOOLEAN, RetryOutbox(e, reviewed) \/ RetryInbox(e, reviewed)
      PROVE  RowsEase /\ CompletionsStay
  <2>1. inbox' = inbox \/ inbox' = [inbox EXCEPT ![e] = ClearedCheck(inbox[e])]
    BY <1>4 DEF RetryOutbox, RetryInbox
  <2> DEFINE row == ClearedCheck(inbox[e])
  <2>2. RowEases(inbox[e], row) /\ row.completion = NoToken
    OBVIOUS
  <2> HIDE DEF row
  <2> QED
    BY <2>1, <2>2 DEF row
<1>5. ASSUME NEW confirmed \in BOOLEAN, ResolveReport(e, confirmed)
      PROVE  RowsEase /\ CompletionsStay
  <2>1. PICK verdict \in Terminal : inbox' = [inbox EXCEPT ![e] = Resolved(inbox[e], verdict)]
    BY <1>5 DEF ResolveReport, Terminal
  <2> DEFINE row == [inbox[e] EXCEPT !.state = verdict, !.leased = FALSE, !.token = NoToken]
  <2>2. /\ row.state = verdict
        /\ row.token = NoToken
        /\ row.boundary = inbox[e].boundary
        /\ row.settled = inbox[e].settled
        /\ row.completion = inbox[e].completion
    BY DEF InboxRow
  <2>3. Resolved(inbox[e], verdict) \in {inbox[e], row}
    BY DEF Resolved
  <2> HIDE DEF row
  <2>4. RowEases(inbox[e], row)
    BY <2>2 DEF RowEases, Fresh, Terminal
  <2> QED
    BY <2>1, <2>2, <2>3, <2>4
<1>6. CASE LeaseLapses(e)
  <2> DEFINE row == [inbox[e] EXCEPT !.leased = FALSE]
  <2>1. RowEases(inbox[e], row) /\ row.completion = inbox[e].completion
    BY DEF RowEases, InboxRow
  <2>2. inbox' = inbox \/ inbox' = [inbox EXCEPT ![e] = row]
    BY <1>6 DEF LeaseLapses
  <2> HIDE DEF row
  <2> QED
    BY <2>1, <2>2
<1> QED
  BY <1>1, <1>2, <1>3, <1>4, <1>5, <1>6 DEF RecoveryCall

\* a new completion is that of a parent that ran and had read everything
TurnCompletes ==
    \A e \in Events : \/ inbox'[e].completion \in {inbox[e].completion, NoToken}
                      \/ session[Parent(e)] = "running" /\ pipe[e] = 0

\* A turn that ends stores a completion at most, and only where the parent ran
\* and had read everything.
LEMMA CompletedRowsEase ==
    ASSUME StoreTypeOK, ParentInv, TurnEnd
    PROVE  RowsEase /\ TurnCompletes
<1> USE EasedRows DEF RowsEase, TurnCompletes, StoreTypeOK
<1>1. PICK p \in Parents : TurnEnds(p)
  BY DEF TurnEnd
<1>2. CASE UNCHANGED storeVars
  BY <1>2
<1>3. CASE attempt[p] # NoJob /\ RecordTurnCompletion(attempt[p].event, attempt[p].token)
  <2> DEFINE e == attempt[p].event
             row == [inbox[e] EXCEPT !.completion = attempt[p].token]
  <2>1. e \in Events /\ Parent(e) = p
    BY <1>3 DEF ParentInv, AttemptIsTheParents, EventsOf
  <2>2. session[p] = "running" /\ pipe[e] = 0
    BY <1>1, <2>1 DEF TurnEnds, EventsOf
  <2>3. RowEases(inbox[e], row)
    BY <2>1 DEF RowEases, InboxRow
  <2>4. inbox' = inbox \/ inbox' = [inbox EXCEPT ![e] = row]
    BY <1>3 DEF RecordTurnCompletion
  <2> HIDE DEF row, e
  <2> QED
    BY <2>1, <2>2, <2>3, <2>4
<1> QED
  BY <1>1, <1>2, <1>3 DEF TurnEnds

\* Whatever is not a step of a handoff eases the inbox rows.
LEMMA AsideRows ==
    ASSUME StoreTypeOK, AbsentIsEmpty, LoopTypeOK, ParentInv, AsideStep
    PROVE  RowsEase /\ TurnCompletes
<1>1. CASE AsideCall
  BY <1>1, AddedRowsEase DEF AsideCall, ProjectCall, TurnCompletes, CompletionsStay
<1>2. CASE OutboxStep \/ UNCHANGED storeVars
  <2>1. UNCHANGED inbox
    BY <1>2 DEF OutboxStep, EndSend, SendOutbox, FinishOutbox, ClaimOutbox
  <2> QED
    BY <2>1, EasedRows DEF RowsEase, TurnCompletes, StoreTypeOK
<1>3. CASE Deletion
  <2>1. ProjectCall
    BY <1>3 DEF Deletion, DeleteProject, DeleteConversation, ProjectCall
  <2> QED
    BY <2>1, AddedRowsEase DEF TurnCompletes, CompletionsStay
<1>4. CASE RecoveryStep
  BY <1>4, RecoveryStepCalls, RecoveredRowsEase DEF TurnCompletes, CompletionsStay
<1> QED
  BY <1>1, <1>2, <1>3, <1>4, AsideStepCalls, CompletedRowsEase

(***************************************************************************)
(* What an inbox row proves about the attempt that holds it.                *)
(***************************************************************************)
\* the steps of a drain that may still put a copy to the parent
InHand == {"admitted", "reviving", "calling"}

OwnsRow(d) == inbox[EventOf(d)].token = TokenOf(d)

\* a job notice has no boundary, so nothing is ever proved of it
JobsHaveNoBoundary == \A e \in Jobs : inbox[e].boundary = NoToken

\* a settled submission is the last attempt's, and no row that may be claimed
\* again has one
SettledIsLast ==
    \A e \in Events : inbox[e].settled =>
        /\ inbox[e].state \notin Fresh
        /\ inbox[e].boundary # NoToken
        /\ inbox[e].state \notin Terminal => inbox[e].boundary = inbox[e].token

\* while an attempt holds its row, nothing is settled before its parent has
\* answered, nor by any other answer than that the report was submitted ...
OwnRowUnsettled ==
    \A d \in Drainers : pc[d] \in HandoffSteps /\ OwnsRow(d) =>
        /\ pc[d] \notin {"answered", "ending"} => ~inbox[EventOf(d)].settled
        /\ inbox[EventOf(d)].settled => outcome[d] = "submitted"

\* ... and the boundary it records is its own, with no completion before the
\* parent is called
OwnBoundary ==
    \A d \in Drainers :
        /\ pc[d] \in {"calling", "answered"}
        /\ OwnsRow(d)
        /\ inbox[EventOf(d)].boundary # NoToken
        => /\ inbox[EventOf(d)].boundary = TokenOf(d)
           /\ inbox[EventOf(d)].state \notin Fresh
           /\ pc[d] = "calling" => inbox[EventOf(d)].completion = NoToken

RowInv == JobsHaveNoBoundary /\ SettledIsLast /\ OwnRowUnsettled /\ OwnBoundary

\* A drain at work on a row has one of the events, a token and a known parent.
LEMMA HandoffHasJob ==
    ASSUME LoopTypeOK, LoopInv
    PROVE  \A d \in Drainers : pc[d] \in HandoffSteps =>
              EventOf(d) \in Events /\ TokenOf(d) \in Tokens /\ TokenOf(d) # NoToken
BY DeliveryAssumption DEF LoopInv, JobIsClaimed, Working, HandoffSteps, Steps, LoopTypeOK

\* Steps aside of the handoffs prove no more of a row than was proved before.
LEMMA AsideRowInv ==
    ASSUME StoreTypeOK, AbsentIsEmpty, LoopTypeOK, LoopInv, ParentInv, RowInv, AsideStep
    PROVE  RowInv'
<1> USE AsideRows DEF RowInv, RowsEase, RowEases
<1>1. JobsHaveNoBoundary'
  BY DrainAssumption DEF JobsHaveNoBoundary
<1>2. SettledIsLast'
  BY DEF SettledIsLast
<1>3. ASSUME NEW d \in Drainers, pc'[d] \in HandoffSteps, OwnsRow(d)'
      PROVE  /\ pc'[d] = pc[d] /\ outcome'[d] = outcome[d] /\ OwnsRow(d)
             /\ EventOf(d)' = EventOf(d) /\ TokenOf(d)' = TokenOf(d)
             /\ EventOf(d) \in Events /\ TokenOf(d) # NoToken
  BY <1>3, AsideStays, HandoffHasJob DEF HandoffsStay, OwnsRow, EventOf, TokenOf
<1>4. OwnRowUnsettled'
  BY <1>3 DEF OwnRowUnsettled
<1>5. OwnBoundary'
  <2> SUFFICES ASSUME NEW d \in Drainers, pc'[d] \in {"calling", "answered"}, OwnsRow(d)',
                      inbox'[EventOf(d)].boundary # NoToken
               PROVE  /\ inbox'[EventOf(d)].boundary = TokenOf(d)
                      /\ inbox'[EventOf(d)].state \notin Fresh
                      /\ pc[d] = "calling" => inbox'[EventOf(d)].completion = NoToken
    BY <1>3 DEF OwnBoundary, HandoffSteps
  <2> DEFINE e == EventOf(d)
  <2>1. /\ pc'[d] = pc[d] /\ OwnsRow(d)
        /\ e \in Events /\ TokenOf(d) # NoToken
    BY <1>3 DEF HandoffSteps
  <2>2. RowEases(inbox[e], inbox'[e])
    BY <2>1
  <2>3. inbox'[e].boundary = inbox[e].boundary
    BY <2>2
  <2>4. /\ inbox[e].boundary = TokenOf(d)
        /\ inbox[e].state \notin Fresh
        /\ pc[d] = "calling" => inbox[e].completion = NoToken
    BY <2>1, <2>3 DEF OwnBoundary
  <2>5. pc[d] = "calling" => session[Parent(e)] # "running"
    BY DEF ParentInv, CalledParentIsIdle
  <2>6. inbox'[e].completion \in {inbox[e].completion, NoToken} \/ session[Parent(e)] = "running"
    BY <2>1 DEF TurnCompletes
  <2> HIDE DEF e
  <2>7. inbox'[e].state \notin Fresh
    BY <2>2, <2>3, <2>4, <2>1
  <2> QED
    BY <2>3, <2>4, <2>5, <2>6, <2>7 DEF e
<1> QED
  BY <1>1, <1>2, <1>4, <1>5

(***************************************************************************)
(* What a handoff does to its inbox row.                                    *)
(***************************************************************************)
SameProof(r, s) ==
    s.boundary = r.boundary /\ s.settled = r.settled /\ s.completion = r.completion

OnlyInboxOf(e) ==
    /\ UNCHANGED <<sources, outbox, revocations>>
    /\ \A f \in Events \ {e} : inbox'[f] = inbox[f]

\* A claim fences a pending row and proves nothing.
LEMMA ClaimedRow ==
    ASSUME StoreTypeOK, NEW e \in Events, NEW t \in Tokens, ClaimInbox(e, t)
    PROVE  /\ OnlyInboxOf(e)
           /\ inbox[e].state = "pending" /\ inbox'[e].state = "dispatch_intent"
           /\ inbox'[e].token = t
           /\ SameProof(inbox[e], inbox'[e])
BY DEF ClaimInbox, OnlyInboxOf, SameProof, StoreTypeOK, InboxRow

\* The boundary is the claim's own, and nothing is proved past it.
LEMMA BoundedRow ==
    ASSUME StoreTypeOK, NEW e \in Events, NEW t \in Tokens, RecordHandoff(e, t), ClaimIsLive(e, t)
    PROVE  /\ OnlyInboxOf(e)
           /\ inbox[e].state = "dispatch_intent" /\ inbox'[e].state = "dispatch_intent"
           /\ inbox[e].token = t /\ inbox'[e].token = t
           /\ inbox'[e].boundary = t /\ inbox'[e].settled = FALSE /\ inbox'[e].completion = NoToken
<1> DEFINE row == [inbox[e] EXCEPT !.boundary = t, !.settled = FALSE, !.completion = NoToken]
<1>1. /\ row.state = inbox[e].state
      /\ row.token = inbox[e].token
      /\ row.boundary = t /\ row.settled = FALSE /\ row.completion = NoToken
  BY DEF StoreTypeOK, InboxRow
<1>2. inbox' = [inbox EXCEPT ![e] = row]
  BY DEF RecordHandoff
<1> HIDE DEF row
<1> QED
  BY <1>1, <1>2 DEF RecordHandoff, OnlyInboxOf, ClaimIsLive, Holds, StoreTypeOK

\* The answer settles the row that still has the attempt's token and a boundary.
LEMMA AnsweredRow ==
    ASSUME StoreTypeOK, NEW e \in Events, NEW t \in Tokens, NEW settled \in BOOLEAN,
           RecordHandoffResponse(e, t, settled)
    PROVE  /\ OnlyInboxOf(e)
           /\ \/ inbox'[e] = inbox[e] /\ (inbox[e].token # t \/ inbox[e].boundary = NoToken
                                           \/ inbox[e].state = "absent")
              \/ /\ inbox[e].token = t /\ inbox[e].boundary # NoToken
                 /\ inbox'[e].state = inbox[e].state
                 /\ inbox'[e].token = t
                 /\ inbox'[e].boundary = inbox[e].boundary
                 /\ inbox'[e].completion = inbox[e].completion
                 /\ inbox'[e].settled = settled
BY DEF RecordHandoffResponse, OnlyInboxOf, StoreTypeOK, InboxRow

\* The end of an attempt moves the row it holds, and proves nothing.
LEMMA EndedRow ==
    ASSUME StoreTypeOK, NEW e \in Events, NEW t \in Tokens,
           NEW result \in Outcomes,
           IF result = "submitted" THEN SubmitInbox(e, t) ELSE FinishInbox(e, t, result)
    PROVE  /\ OnlyInboxOf(e)
           /\ \/ inbox'[e] = inbox[e] /\ ~Holds(e, t)
              \/ /\ Holds(e, t)
                 /\ inbox'[e].token = t
                 /\ SameProof(inbox[e], inbox'[e])
                 /\ inbox'[e].state \in {"pending", "submitted", "recovery_required", "blocked",
                                         "uncertain"}
                 /\ result = "submitted" => inbox'[e].state = "submitted"
                 /\ result = "uncertain" => inbox'[e].state = "uncertain"
<1>1. CASE result = "submitted"
  BY <1>1 DEF SubmitInbox, OnlyInboxOf, SameProof, Holds, StoreTypeOK, InboxRow
<1>2. CASE result # "submitted"
  <2> DEFINE next == IF result = "" THEN AfterFailure(inbox[e].attempts) ELSE result
             row == [inbox[e] EXCEPT !.state = next, !.attempts = OneMore(@), !.leased = FALSE]
  <2>1. next \in {"pending", "recovery_required", "blocked", "uncertain"}
        /\ (result = "uncertain" => next = "uncertain")
    BY <1>2 DEF Outcomes, AfterFailure
  <2>2. row.state = next /\ row.token = inbox[e].token /\ SameProof(inbox[e], row)
    BY DEF SameProof, StoreTypeOK, InboxRow
  <2>3. inbox' = IF Holds(e, t) THEN [inbox EXCEPT ![e] = row] ELSE inbox
    BY <1>2 DEF FinishInbox
  <2> HIDE DEF row, next
  <2> QED
    BY <1>2, <2>1, <2>2, <2>3 DEF FinishInbox, OnlyInboxOf, Holds, StoreTypeOK
<1> QED
  BY <1>1, <1>2

\* A handoff moves no other drain, and no row that another drain owns.
LEMMA OthersStandBy ==
    ASSUME StoreTypeOK, LoopTypeOK, LoopInv, NEW d \in Drainers, HandoffStep(d),
           NEW c \in Drainers, c # d
    PROVE  /\ pc'[c] = pc[c] /\ job'[c] = job[c] /\ outcome'[c] = outcome[c]
           /\ pc[c] \in HandoffSteps /\ OwnsRow(c)' =>
                 OwnsRow(c) /\ inbox'[EventOf(c)] = inbox[EventOf(c)]
<1>1. pc'[c] = pc[c] /\ job'[c] = job[c] /\ outcome'[c] = outcome[c]
  BY DEF HandoffStep, TakeInbox, NoInboxDue, FirstCheck, Admit, Revive, SetBoundary, CallParent,
         RecordAnswer, EndAttempt, GiveUp, Goto, LoopTypeOK
<1> SUFFICES ASSUME pc[c] \in HandoffSteps, OwnsRow(c)'
             PROVE  OwnsRow(c) /\ inbox'[EventOf(c)] = inbox[EventOf(c)]
  BY <1>1
<1>2. /\ EventOf(c) \in Events /\ TokenOf(c) \in Tokens
      /\ EventOf(c)' = EventOf(c) /\ TokenOf(c)' = TokenOf(c)
      /\ inbox'[EventOf(c)].token = TokenOf(c)
  BY <1>1, HandoffHasJob DEF OwnsRow, EventOf, TokenOf
<1>3. ASSUME NEW e \in Events, TakeInbox(d, e) PROVE inbox'[EventOf(c)] = inbox[EventOf(c)]
  <2>1. /\ FreshToken(e) \in Tokens
        /\ FreshToken(e) # TokenOf(c)
        /\ ClaimInbox(e, FreshToken(e))
    BY <1>3, FreshTokenIsFresh DEF TakeInbox
  <2> QED
    BY <1>2, <2>1, ClaimedRow DEF OnlyInboxOf
<1>4. ASSUME pc[d] \in HandoffSteps, OnlyInboxOf(EventOf(d)),
             \/ inbox'[EventOf(d)] = inbox[EventOf(d)]
             \/ inbox'[EventOf(d)].token = TokenOf(d)
      PROVE  inbox'[EventOf(c)] = inbox[EventOf(c)]
  <2>1. EventOf(d) \in Events /\ TokenOf(d) \in Tokens
    BY <1>4, HandoffHasJob
  <2>2. TokenOf(d) # TokenOf(c)
    BY <2>1 DEF LoopInv, FencesDiffer
  <2> QED
    BY <1>2, <1>4, <2>2 DEF OnlyInboxOf
<1>5. pc[d] \in HandoffSteps => EventOf(d) \in Events /\ TokenOf(d) \in Tokens
  BY HandoffHasJob
<1>6. ASSUME NoInboxDue(d) \/ FirstCheck(d) \/ Admit(d) \/ Revive(d) \/ CallParent(d)
      PROVE  inbox'[EventOf(c)] = inbox[EventOf(c)]
  <2>1. UNCHANGED inbox
    BY <1>6 DEF NoInboxDue, FirstCheck, Admit, Revive, CallParent
  <2> QED
    BY <2>1
<1>7. ASSUME SetBoundary(d) PROVE inbox'[EventOf(c)] = inbox[EventOf(c)]
  <2>1. EventOf(d) \in Events /\ TokenOf(d) \in Tokens /\ pc[d] \in HandoffSteps
    BY <1>5, <1>7 DEF SetBoundary, HandoffSteps
  <2>2. \/ UNCHANGED storeVars
        \/ RecordHandoff(EventOf(d), TokenOf(d)) /\ ClaimIsLive(EventOf(d), TokenOf(d))
    BY <1>7 DEF SetBoundary
  <2>3. \/ UNCHANGED storeVars
        \/ OnlyInboxOf(EventOf(d)) /\ inbox'[EventOf(d)].token = TokenOf(d)
    BY <2>1, <2>2, BoundedRow
  <2> QED
    BY <1>4, <2>1, <2>3
<1>8. ASSUME RecordAnswer(d) PROVE inbox'[EventOf(c)] = inbox[EventOf(c)]
  <2>1. EventOf(d) \in Events /\ TokenOf(d) \in Tokens /\ pc[d] \in HandoffSteps
    BY <1>5, <1>8 DEF RecordAnswer, HandoffSteps
  <2>2. /\ RecordHandoffResponse(EventOf(d), TokenOf(d), outcome[d] = "submitted")
        /\ (outcome[d] = "submitted") \in BOOLEAN
    BY <1>8 DEF RecordAnswer
  <2>3. /\ OnlyInboxOf(EventOf(d))
        /\ \/ inbox'[EventOf(d)] = inbox[EventOf(d)]
           \/ inbox'[EventOf(d)].token = TokenOf(d)
    BY <2>1, <2>2, AnsweredRow
  <2> QED
    BY <1>4, <2>1, <2>3
<1>9. ASSUME EndAttempt(d) PROVE inbox'[EventOf(c)] = inbox[EventOf(c)]
  <2>1. /\ EventOf(d) \in Events /\ TokenOf(d) \in Tokens /\ pc[d] \in HandoffSteps
        /\ outcome[d] \in Outcomes
    BY <1>5, <1>9 DEF EndAttempt, HandoffSteps, LoopTypeOK
  <2>2. IF outcome[d] = "submitted" THEN SubmitInbox(EventOf(d), TokenOf(d))
        ELSE FinishInbox(EventOf(d), TokenOf(d), outcome[d])
    BY <1>9 DEF EndAttempt
  <2>3. /\ OnlyInboxOf(EventOf(d))
        /\ \/ inbox'[EventOf(d)] = inbox[EventOf(d)]
           \/ inbox'[EventOf(d)].token = TokenOf(d)
    BY <2>1, <2>2, EndedRow
  <2> QED
    BY <1>4, <2>1, <2>3
<1>10. inbox'[EventOf(c)] = inbox[EventOf(c)]
  BY <1>3, <1>6, <1>7, <1>8, <1>9 DEF HandoffStep
<1> QED
  BY <1>2, <1>10 DEF OwnsRow

\* A handoff proves of its row what its own attempt has seen.
LEMMA HandoffRowInv ==
    ASSUME StoreTypeOK, AbsentIsEmpty, LoopTypeOK, LoopInv, RowInv, NEW d \in Drainers,
           HandoffStep(d)
    PROVE  RowInv'
<1> USE DEF RowInv
<1> DEFINE e == EventOf(d)
           t == TokenOf(d)
           own == pc'[d] \in HandoffSteps /\ OwnsRow(d)'
\* what is to be shown of the row and of the drain
           proved(r) == /\ r.settled =>
                              /\ r.state \notin Fresh
                              /\ r.boundary # NoToken
                              /\ r.state \notin Terminal => r.boundary = r.token
           unsettled == /\ pc'[d] \notin {"answered", "ending"} => ~inbox'[EventOf(d)'].settled
                        /\ inbox'[EventOf(d)'].settled => outcome'[d] = "submitted"
           bounded == /\ inbox'[EventOf(d)'].boundary = TokenOf(d)'
                      /\ inbox'[EventOf(d)'].state \notin Fresh
                      /\ pc'[d] = "calling" => inbox'[EventOf(d)'].completion = NoToken
<1>1. ASSUME \A f \in Events : proved(inbox'[f]),
             \A f \in Jobs : inbox'[f].boundary = NoToken,
             own => unsettled,
             own /\ pc'[d] \in {"calling", "answered"} /\ inbox'[EventOf(d)'].boundary # NoToken
                => bounded
      PROVE  RowInv'
  <2>1. \A c \in Drainers \ {d} :
          /\ pc'[c] = pc[c] /\ outcome'[c] = outcome[c]
          /\ EventOf(c)' = EventOf(c) /\ TokenOf(c)' = TokenOf(c)
          /\ pc[c] \in HandoffSteps /\ OwnsRow(c)' =>
                OwnsRow(c) /\ inbox'[EventOf(c)] = inbox[EventOf(c)]
    BY OthersStandBy DEF EventOf, TokenOf
  <2>2. JobsHaveNoBoundary' /\ SettledIsLast'
    BY <1>1 DEF JobsHaveNoBoundary, SettledIsLast
  <2>3. OwnRowUnsettled'
    <3> SUFFICES ASSUME NEW c \in Drainers, pc'[c] \in HandoffSteps, OwnsRow(c)'
                 PROVE  /\ pc'[c] \notin {"answered", "ending"} => ~inbox'[EventOf(c)'].settled
                        /\ inbox'[EventOf(c)'].settled => outcome'[c] = "submitted"
      BY DEF OwnRowUnsettled
    <3>1. CASE c = d
      BY <1>1, <3>1
    <3>2. CASE c # d
      BY <2>1, <3>2 DEF OwnRowUnsettled
    <3> QED
      BY <3>1, <3>2
  <2>4. OwnBoundary'
    <3> SUFFICES ASSUME NEW c \in Drainers, pc'[c] \in {"calling", "answered"}, OwnsRow(c)',
                        inbox'[EventOf(c)'].boundary # NoToken
                 PROVE  /\ inbox'[EventOf(c)'].boundary = TokenOf(c)'
                        /\ inbox'[EventOf(c)'].state \notin Fresh
                        /\ pc'[c] = "calling" => inbox'[EventOf(c)'].completion = NoToken
      BY DEF OwnBoundary
    <3>0. pc'[c] \in HandoffSteps
      BY DEF HandoffSteps
    <3>1. CASE c = d
      BY <1>1, <3>0, <3>1
    <3>2. CASE c # d
      BY <2>1, <3>0, <3>2 DEF OwnBoundary
    <3> QED
      BY <3>1, <3>2
  <2> QED
    BY <2>2, <2>3, <2>4
<1>2. pc[d] \in HandoffSteps => e \in Events /\ t \in Tokens /\ t # NoToken
  BY HandoffHasJob
<1>3. /\ \A f \in Events : proved(inbox[f])
      /\ \A f \in Jobs : inbox[f].boundary = NoToken
      /\ Jobs \subseteq Events
  BY DrainAssumption DEF SettledIsLast, JobsHaveNoBoundary
<1>4. pc[d] \in HandoffSteps /\ OwnsRow(d) =>
        /\ inbox[e].state # "absent"
        /\ pc[d] \notin {"answered", "ending"} => ~inbox[e].settled
        /\ inbox[e].settled => outcome[d] = "submitted"
  BY <1>2 DEF OwnRowUnsettled, OwnsRow, AbsentIsEmpty, NoInbox
<1>5. ASSUME NEW f \in Events, TakeInbox(d, f) PROVE RowInv'
  <2>1. /\ ClaimInbox(f, FreshToken(f)) /\ FreshToken(f) \in Tokens
        /\ pc'[d] = "claimed" /\ EventOf(d)' = f /\ outcome' = outcome
    BY <1>5, FreshTokenIsFresh DEF TakeInbox, Goto, LoopTypeOK, EventOf
  <2>2. /\ \A g \in Events \ {f} : inbox'[g] = inbox[g]
        /\ inbox[f].state = "pending"
        /\ SameProof(inbox[f], inbox'[f])
    BY <2>1, ClaimedRow DEF OnlyInboxOf
  <2>3. ~inbox[f].settled
    BY <1>3, <2>2 DEF Fresh
  <2> QED
    BY <1>1, <1>3, <2>1, <2>2, <2>3 DEF SameProof
<1>6. ASSUME UNCHANGED <<inbox, job>>, pc[d] \in HandoffSteps,
             pc'[d] \notin {"answered", "ending", "calling"} => pc[d] \notin {"answered", "ending"},
             pc'[d] \in {"answered", "ending"} => pc[d] \notin {"answered", "ending"},
             pc'[d] = "answered" => pc[d] = "calling",
             pc'[d] = "calling" => e \in Jobs /\ pc[d] = "admitted"
      PROVE  RowInv'
  <2>1. EventOf(d)' = e /\ TokenOf(d)' = t /\ (OwnsRow(d)' <=> OwnsRow(d))
    BY <1>6 DEF EventOf, TokenOf, OwnsRow
  <2>2. own => ~inbox[e].settled
    BY <1>4, <1>6, <2>1
  <2>3. own /\ pc'[d] = "answered" /\ inbox[e].boundary # NoToken =>
          inbox[e].boundary = t /\ inbox[e].state \notin Fresh
    BY <1>6, <2>1 DEF OwnBoundary
  <2>4. pc'[d] = "calling" => inbox[e].boundary = NoToken
    BY <1>3, <1>6
  <2> QED
    BY <1>1, <1>3, <1>6, <2>1, <2>2, <2>3, <2>4
<1>7. CASE NoInboxDue(d)
  BY <1>1, <1>3, <1>7 DEF NoInboxDue, Goto, LoopTypeOK, HandoffSteps
<1>8. CASE FirstCheck(d)
  BY <1>6, <1>8 DEF FirstCheck, GiveUp, Goto, LoopTypeOK, HandoffSteps
<1>9. CASE Admit(d)
  BY <1>6, <1>9 DEF Admit, GiveUp, Goto, LoopTypeOK, HandoffSteps
<1>10. CASE Revive(d)
  BY <1>6, <1>10 DEF Revive, GiveUp, Goto, LoopTypeOK, HandoffSteps
<1>11. CASE CallParent(d)
  BY <1>6, <1>11 DEF CallParent, Goto, LoopTypeOK, HandoffSteps
<1>12. CASE SetBoundary(d)
  <2>1. CASE UNCHANGED storeVars /\ (e \in Jobs \/ ~ClaimIsLive(e, t))
    BY <1>6, <1>12, <2>1 DEF SetBoundary, GiveUp, Goto, LoopTypeOK, HandoffSteps
  <2>2. CASE e \notin Jobs /\ ClaimIsLive(e, t) /\ RecordHandoff(e, t)
    <3>1. /\ pc[d] = "admitted" /\ pc'[d] = "calling" /\ UNCHANGED <<job, outcome>>
      BY <1>12, <2>2 DEF SetBoundary, Goto, GiveUp, LoopTypeOK
    <3>2. e \in Events /\ t \in Tokens
      BY <1>2, <3>1 DEF HandoffSteps
    <3>3. /\ \A g \in Events \ {e} : inbox'[g] = inbox[g]
          /\ inbox'[e].state = "dispatch_intent"
          /\ inbox'[e].boundary = t /\ inbox'[e].settled = FALSE
          /\ inbox'[e].completion = NoToken
      BY <2>2, <3>2, BoundedRow DEF OnlyInboxOf
    <3>4. EventOf(d)' = e /\ TokenOf(d)' = t
      BY <3>1 DEF EventOf, TokenOf
    <3> HIDE DEF e, t
    <3>5. \A f \in Events : proved(inbox'[f])
      BY <1>3, <3>3
    <3>6. \A f \in Jobs : inbox'[f].boundary = NoToken
      BY <1>3, <2>2, <3>3
    <3> QED
      BY <1>1, <3>1, <3>3, <3>4, <3>5, <3>6 DEF Fresh
  <2> QED
    BY <1>12, <2>1, <2>2 DEF SetBoundary
<1>13. CASE RecordAnswer(d)
  <2>1. /\ pc[d] = "answered" /\ pc'[d] = "ending" /\ UNCHANGED <<job, outcome>>
        /\ RecordHandoffResponse(e, t, outcome[d] = "submitted")
        /\ (outcome[d] = "submitted") \in BOOLEAN
    BY <1>13 DEF RecordAnswer, Goto, LoopTypeOK
  <2>2. e \in Events /\ t \in Tokens /\ EventOf(d)' = e /\ TokenOf(d)' = t
    BY <1>2, <2>1 DEF HandoffSteps, EventOf, TokenOf
  <2>3. /\ \A g \in Events \ {e} : inbox'[g] = inbox[g]
        /\ \/ inbox'[e] = inbox[e] /\ (inbox[e].token # t \/ inbox[e].boundary = NoToken
                                           \/ inbox[e].state = "absent")
           \/ /\ inbox[e].token = t /\ inbox[e].boundary # NoToken
              /\ inbox'[e].state = inbox[e].state
              /\ inbox'[e].token = t
              /\ inbox'[e].boundary = inbox[e].boundary
              /\ inbox'[e].settled = (outcome[d] = "submitted")
    BY <2>1, <2>2, AnsweredRow DEF OnlyInboxOf
  <2>4. OwnsRow(d)' <=> inbox'[e].token = t
    BY <2>2 DEF OwnsRow
  <2>5. inbox[e].token = t => inbox[e].state # "absent"
    BY <1>4, <2>1 DEF HandoffSteps, OwnsRow
  <2>6. inbox[e].token = t /\ inbox[e].boundary # NoToken =>
          inbox[e].boundary = t /\ inbox[e].state \notin Fresh
    BY <2>1 DEF OwnBoundary, OwnsRow
  <2> HIDE DEF e, t
  <2>7. \A f \in Events : proved(inbox'[f])
    BY <1>3, <2>3, <2>6
  <2>8. \A f \in Jobs : inbox'[f].boundary = NoToken
    BY <1>3, <2>3
  <2>9. own => (inbox'[e].settled => outcome'[d] = "submitted")
    BY <1>3, <2>1, <2>2, <2>3, <2>4, <2>5
  <2> QED
    BY <1>1, <2>1, <2>2, <2>7, <2>8, <2>9
<1>14. CASE EndAttempt(d)
  <2>1. /\ pc[d] = "ending" /\ pc'[d] = "rest" /\ outcome[d] \in Outcomes
        /\ IF outcome[d] = "submitted" THEN SubmitInbox(e, t) ELSE FinishInbox(e, t, outcome[d])
    BY <1>14 DEF EndAttempt, Goto, LoopTypeOK
  <2>2. e \in Events /\ t \in Tokens
    BY <1>2, <2>1 DEF HandoffSteps
  <2>3. /\ \A g \in Events \ {e} : inbox'[g] = inbox[g]
        /\ \/ inbox'[e] = inbox[e]
           \/ /\ Holds(e, t)
              /\ inbox'[e].token = t
              /\ SameProof(inbox[e], inbox'[e])
              /\ inbox'[e].state # "absent"
              /\ outcome[d] = "submitted" => inbox'[e].state = "submitted"
    BY <2>1, <2>2, EndedRow DEF OnlyInboxOf
  <2>4. inbox[e].token = t /\ inbox[e].settled => outcome[d] = "submitted"
    BY <1>4, <2>1 DEF OwnsRow, HandoffSteps
  <2>5. Holds(e, t) /\ inbox[e].settled => inbox[e].boundary = t
    BY <1>3, <2>2 DEF Holds, Terminal
  <2> HIDE DEF e, t
  <2>6. \A f \in Events : proved(inbox'[f])
    BY <1>3, <2>3, <2>4, <2>5 DEF SameProof, Holds, Fresh
  <2>7. \A f \in Jobs : inbox'[f].boundary = NoToken
    BY <1>3, <2>3 DEF SameProof
  <2> QED
    BY <1>1, <2>1, <2>6, <2>7 DEF HandoffSteps
<1> QED
  BY <1>5, <1>7, <1>8, <1>9, <1>10, <1>11, <1>12, <1>13, <1>14 DEF HandoffStep

(***************************************************************************)
(* Rows outlast everything but a deletion, which needs the lock.            *)
(***************************************************************************)
InboxStays == \A e \in Events : inbox[e].state # "absent" => inbox'[e].state # "absent"

\* Only a deletion takes a row away.
LEMMA OnlyDeletionsRemove ==
    ASSUME StoreTypeOK, AbsentIsEmpty, LoopTypeOK, LoopInv, ParentInv, Next, ~Deletion
    PROVE  InboxStays
<1>1. CASE RowsContinue
  BY <1>1 DEF RowsContinue, InboxContinues, InboxStays
<1>2. ASSUME NEW e \in Events, NEW g \in Generations, ChildCall(e, g) PROVE InboxStays
  BY <1>2, ChildCallAdds DEF InboxStays
<1>3. CASE ReadGeneration \/ RecreateProject \/ UNCHANGED inbox
  BY <1>3 DEF ReadGeneration, RecreateProject, InboxStays
<1>4. CASE AsideCall \/ RecoveryStep
  BY <1>1, <1>2, <1>3, <1>4, RecoveryContinues, RecoveryStepCalls, ReconcileContinues DEF AsideCall
<1>5. CASE OutboxStep
  BY <1>3, <1>5 DEF OutboxStep, EndSend, SendOutbox, FinishOutbox, ClaimOutbox
<1>6. CASE TurnEnd
  <2>1. PICK p \in Parents : TurnEnds(p)
    BY <1>6 DEF TurnEnd
  <2>2. CASE UNCHANGED storeVars
    BY <1>3, <2>2
  <2>3. CASE attempt[p] # NoJob /\ RecordTurnCompletion(attempt[p].event, attempt[p].token)
    <3>1. attempt[p].event \in Events /\ attempt[p].token \in Tokens
      BY <2>3 DEF ParentInv, AttemptIsTheParents, EventsOf
    <3>2. RowsContinue
      BY <2>3, <3>1, AttemptContinues DEF AttemptCall
    <3> QED
      BY <1>1, <3>2
  <2> QED
    BY <2>1, <2>2, <2>3 DEF TurnEnds
<1>7. ASSUME NEW d \in Drainers, HandoffStep(d) PROVE InboxStays
  BY <1>1, <1>3, <1>7, HandoffStepCalls, ClaimContinues, AttemptContinues
<1> QED
  BY <1>3, <1>4, <1>5, <1>6, <1>7, NextSplits, AsideStepCalls

\* A deletion purges both transport rows of an event, or neither.
LEMMA DeletionPurges ==
    ASSUME Deletion
    PROVE  /\ lock = NoDrainer
           /\ UNCHANGED <<loopVars, parentVars, reviews>>
           /\ \E E \in SUBSET Events : Purge(E) /\ \A e \in E : Stored(e) => Tombed(e)'
           /\ \A e \in Events : Tombed(e) => Tombed(e)'
<1>1. CASE DeleteProject
  <2>1. Purge(Events) /\ Events \in SUBSET Events
    BY <1>1 DEF DeleteProject, RevokeProject
  <2>2. \A e \in Events : Stored(e) => Tombed(e)'
    BY <1>1 DEF DeleteProject, RevokeProject, Tombed
  <2> QED
    BY <1>1, <2>1, <2>2 DEF DeleteProject, RevokeProject, Tombed
<1>2. ASSUME NEW s \in Sessions, DeleteConversation(s)
      PROVE  /\ lock = NoDrainer
             /\ UNCHANGED <<loopVars, parentVars, reviews>>
             /\ \E E \in SUBSET Events : Purge(E) /\ \A e \in E : Stored(e) => Tombed(e)'
             /\ \A e \in Events : Tombed(e) => Tombed(e)'
  <2> DEFINE E == {e \in Events : s \in {ParentOf[e], ChildOf[e]}}
  <2>1. Purge(E) /\ E \in SUBSET Events
    BY <1>2 DEF DeleteConversation, RevokeSession
  <2>2. \A e \in E : Tombed(e)'
    BY <1>2 DEF DeleteConversation, RevokeSession, Tombed
  <2>3. \A e \in Events : Tombed(e) => Tombed(e)'
    BY <1>2 DEF DeleteConversation, RevokeSession, Tombed
  <2>4. \E F \in SUBSET Events : Purge(F) /\ \A e \in F : Stored(e) => Tombed(e)'
    BY <2>1, <2>2
  <2> QED
    BY <1>2, <2>3, <2>4 DEF DeleteConversation
<1> QED
  BY <1>1, <1>2 DEF Deletion

\* While a drain has a copy in hand, the report it stands for is stored.
HandedIsStored == \A d \in Drainers : pc[d] \in InHand => inbox[EventOf(d)].state # "absent"

\* A copy is in hand only under the lock that a deletion waits for.
LEMMA HandedStep ==
    ASSUME StoreTypeOK, AbsentIsEmpty, LoopTypeOK, LoopInv, ParentInv, HandedIsStored, Next
    PROVE  HandedIsStored'
<1> SUFFICES ASSUME NEW d \in Drainers, pc'[d] \in InHand
             PROVE  inbox'[EventOf(d)'].state # "absent"
  BY DEF HandedIsStored
<1>1. CASE Deletion
  <2>1. lock = NoDrainer /\ pc' = pc
    BY <1>1, DeletionPurges
  <2> QED
    BY <2>1, DrainAssumption DEF LoopInv, LockIsHeld, UnderLock, InHand
<1>2. CASE ~Deletion
  <2>1. pc[d] \in InHand /\ EventOf(d)' = EventOf(d) =>
          EventOf(d) \in Events /\ inbox'[EventOf(d)'].state # "absent"
    BY <1>2, OnlyDeletionsRemove, HandoffHasJob DEF InboxStays, HandedIsStored, InHand, HandoffSteps
  <2>2. CASE AsideStep
    BY <2>1, <2>2, AsideStays DEF HandoffsStay, InHand, HandoffSteps, EventOf
  <2>3. ASSUME NEW c \in Drainers, c # d, HandoffStep(c)
        PROVE  inbox'[EventOf(d)'].state # "absent"
    BY <2>1, <2>3, OthersStandBy DEF EventOf
  <2>4. CASE HandoffStep(d)
    <3> USE DEF LoopTypeOK, Goto, GiveUp, InHand
    <3>1. CASE Admit(d)
      <4>1. ClaimIsLive(EventOf(d), TokenOf(d)) /\ UNCHANGED <<inbox, job>>
        BY <3>1 DEF Admit
      <4> QED
        BY <4>1 DEF ClaimIsLive, Holds, EventOf
    <3>2. CASE SetBoundary(d)
      BY <2>1, <3>2 DEF SetBoundary, EventOf
    <3> QED
      BY <2>4, <3>1, <3>2 DEF HandoffStep, TakeInbox, NoInboxDue, FirstCheck, Revive, CallParent,
         RecordAnswer, EndAttempt
  <2> QED
    BY <2>2, <2>3, <2>4, NextSplits
<1> QED
  BY <1>1, <1>2

(***************************************************************************)
(* Sender and receiver.                                                     *)
(***************************************************************************)
\* A drain that was told of the acceptance, and still has the row it sent,
\* leaves behind an inbox row.
SentIsReceived ==
    \A d \in Drainers : pc[d] = "sent" /\ outbox[EventOf(d)].token = TokenOf(d) =>
        inbox[EventOf(d)].state # "absent"

ReceiptInv == DeliveredIsReceived /\ SentIsReceived

OutboxEases ==
    \A e \in Events : /\ outbox'[e].token \in {outbox[e].token, NoToken}
                      /\ outbox'[e].state = "delivered" => outbox[e].state = "delivered"

\* Only the end of a send delivers, and only a send fences an outbox row.
LEMMA OtherCallsEase ==
    ASSUME StoreTypeOK, LoopTypeOK, Next, ~OutboxStep
    PROVE  OutboxEases
<1> USE DEF OutboxEases, StoreTypeOK
<1>1. CASE UNCHANGED outbox
  BY <1>1
<1>2. ASSUME NEW d \in Drainers, HandoffStep(d) PROVE UNCHANGED outbox
  BY <1>2 DEF HandoffStep, TakeInbox, NoInboxDue, FirstCheck, Admit, Revive, SetBoundary,
     CallParent, RecordAnswer, EndAttempt, ClaimInbox, RecordHandoff, RecordHandoffResponse,
     SubmitInbox, FinishInbox
<1>3. ASSUME NEW e \in Events, NEW g \in Generations, ChildCall(e, g) PROVE OutboxEases
  <2> DEFINE row == [NoOutbox EXCEPT !.state = "pending", !.gen = g]
  <2>1. row.state = "pending" /\ row.token = NoToken
    BY DEF NoOutbox
  <2>2. outbox' = outbox \/ outbox' = [outbox EXCEPT ![e] = row]
    BY <1>3 DEF ChildCall, RecordCompletionSource, Enqueue, Accept
  <2> HIDE DEF row
  <2> QED
    BY <2>1, <2>2
<1>4. ASSUME NEW e \in Events, RecoveryCall(e) PROVE OutboxEases
  <2>1. CASE ResendOnAbsence(e) \/ NotDelivered(e) \/ WakeBlocked(e)
    BY <1>1, <2>1 DEF ResendOnAbsence, NotDelivered, WakeBlocked
  <2>2. ASSUME NEW reviewed \in BOOLEAN, RetryOutbox(e, reviewed) \/ RetryInbox(e, reviewed)
        PROVE  OutboxEases
    BY <2>2 DEF RetryOutbox, RetryInbox, OutboxRow
  <2>3. ASSUME NEW confirmed \in BOOLEAN, ResolveReport(e, confirmed) PROVE OutboxEases
    BY <2>3 DEF ResolveReport, Resolved, OutboxRow
  <2>4. CASE LeaseLapses(e)
    BY <2>4 DEF LeaseLapses, OutboxRow
  <2> QED
    BY <1>4, <2>1, <2>2, <2>3, <2>4 DEF RecoveryCall
<1>5. CASE AsideCall
  <2>1. CASE Reconcile \/ ReadGeneration \/ RecreateProject
    BY <1>1, <2>1 DEF Reconcile, ReadGeneration, RecreateProject
  <2> QED
    BY <1>3, <1>5, <2>1 DEF AsideCall
<1>6. CASE Deletion
  <2>1. PICK E \in SUBSET Events : Purge(E)
    BY <1>6, DeletionPurges
  <2> QED
    BY <2>1 DEF Purge, NoOutbox
<1>7. CASE TurnEnd
  BY <1>1, <1>7 DEF TurnEnd, TurnEnds, RecordTurnCompletion
<1> QED
  BY <1>1, <1>2, <1>4, <1>5, <1>6, <1>7, NextSplits, AsideStepCalls, RecoveryStepCalls

\* A drain becomes "sent" by an answer only, and stays so on its own row.
LEMMA SentStays ==
    ASSUME LoopTypeOK, LoopInv, Next, NEW d \in Drainers, pc'[d] = "sent",
           \A p \in posts : ~Receive(p)
    PROVE  pc[d] = "sent" /\ job'[d] = job[d]
<1>1. CASE UNCHANGED loopVars
  BY <1>1
<1>2. ASSUME NEW c \in Drainers, SendStep(c) PROVE pc[d] = "sent" /\ job'[d] = job[d]
  BY <1>2 DEF SendStep, StartPass, RecoverSource, SendOutbox, NoOutboxDue, SendTimesOut, EndSend,
     Goto, LoopTypeOK
<1>3. ASSUME NEW c \in Drainers, HandoffStep(c) PROVE pc[d] = "sent" /\ job'[d] = job[d]
  BY <1>3 DEF HandoffStep, TakeInbox, NoInboxDue, FirstCheck, Admit, Revive, SetBoundary,
     CallParent, RecordAnswer, EndAttempt, GiveUp, Goto, LoopTypeOK
<1>4. CASE Crash
  BY <1>4 DEF Crash
<1> QED
  BY <1>1, <1>2, <1>3, <1>4, LoopStays DEF Next

\* No step acknowledges what was not received.
LEMMA ReceiptStep ==
    ASSUME StoreTypeOK, AbsentIsEmpty, LoopTypeOK, LoopInv, ParentInv, ReceiptInv, Next
    PROVE  ReceiptInv'
<1> USE DEF ReceiptInv, DeliveredIsReceived, SentIsReceived
<1>0. \A d \in Drainers : pc[d] = "sent" =>
        EventOf(d) \in Events /\ TokenOf(d) \in Tokens /\ TokenOf(d) # NoToken
  BY DeliveryAssumption DEF LoopInv, JobIsClaimed, Working, Steps
<1>1. ASSUME ~OutboxStep, \A p \in posts : ~Receive(p) PROVE ReceiptInv'
  <2>1. \A e \in Events : \/ inbox[e].state # "absent" => inbox'[e].state # "absent"
                          \/ outbox'[e] = NoOutbox
    <3>1. CASE Deletion
      BY <3>1, DeletionPurges DEF Purge
    <3> QED
      BY <3>1, OnlyDeletionsRemove DEF InboxStays
  <2>2. NoOutbox.state # "delivered" /\ NoOutbox.token = NoToken
    BY DEF NoOutbox
  <2>3. OutboxEases
    BY <1>1, OtherCallsEase
  <2>4. DeliveredIsReceived'
    BY <2>1, <2>2, <2>3 DEF OutboxEases
  <2>5. SentIsReceived'
    <3> SUFFICES ASSUME NEW d \in Drainers, pc'[d] = "sent",
                        outbox'[EventOf(d)'].token = TokenOf(d)'
                 PROVE  inbox'[EventOf(d)'].state # "absent"
      OBVIOUS
    <3>1. pc[d] = "sent" /\ EventOf(d)' = EventOf(d) /\ TokenOf(d)' = TokenOf(d)
      BY <1>1, SentStays DEF EventOf, TokenOf
    <3>2. EventOf(d) \in Events /\ TokenOf(d) # NoToken
      BY <1>0, <3>1
    <3>3. outbox[EventOf(d)].token = TokenOf(d) /\ outbox'[EventOf(d)] # NoOutbox
      BY <2>2, <2>3, <3>1, <3>2 DEF OutboxEases
    <3> QED
      BY <2>1, <3>1, <3>2, <3>3
  <2> QED
    BY <2>4, <2>5
<1>2. ASSUME NEW p \in posts, Receive(p) PROVE ReceiptInv'
  <2> DEFINE received == ~Revoked(p.event, p.gen) /\ Trusted(p.event, p.gen)
  <2>1. p.event \in Events
    BY DEF LoopTypeOK, Post
  <2>2. /\ UNCHANGED <<outbox, job>>
        /\ \A e \in Events \ {p.event} : inbox'[e] = inbox[e]
        /\ inbox[p.event].state # "absent" => inbox'[p.event] = inbox[p.event]
        /\ received => inbox'[p.event].state # "absent"
    BY <1>2, <2>1 DEF Receive, Accept, StoreTypeOK, NoInbox
  <2>3. \A d \in Drainers : pc'[d] = "sent" =>
          pc[d] = "sent" \/ (EventOf(d) = p.event /\ received)
    <3>1. p.by \in Drainers => EventOf(p.by) = p.event
      BY DEF LoopInv, RequestIsAwaited
    <3>2. p.by \in Drainers => pc' = [pc EXCEPT ![p.by] = IF received THEN "sent" ELSE "sendFailed"]
      BY <1>2 DEF Receive, Goto
    <3>3. p.by \notin Drainers => pc' = pc
      BY <1>2 DEF Receive
    <3> QED
      BY <3>1, <3>2, <3>3 DEF LoopTypeOK
  <2> HIDE DEF received
  <2>4. \A d \in Drainers : EventOf(d)' = EventOf(d) /\ TokenOf(d)' = TokenOf(d)
    BY <2>2 DEF EventOf, TokenOf
  <2>5. \A e \in Events : inbox[e].state # "absent" => inbox'[e].state # "absent"
    BY <2>2
  <2> QED
    BY <1>0, <2>2, <2>3, <2>4, <2>5
<1>3. ASSUME NEW d \in Drainers, NEW f \in Events, SendOutbox(d, f) PROVE ReceiptInv'
  <2> DEFINE t == FreshToken(f)
  <2>1. /\ t \in Tokens /\ \A c \in Drainers : t # TokenOf(c)
        /\ ClaimOutbox(f, t) /\ UNCHANGED inbox
        /\ pc' = [pc EXCEPT ![d] = "sending"]
        /\ \A c \in Drainers \ {d} : job'[c] = job[c]
    BY <1>3, FreshTokenIsFresh DEF SendOutbox, Goto, LoopTypeOK, ClaimOutbox
  <2>2. \A e \in Events : /\ outbox'[e].state = outbox[e].state
                          /\ outbox'[e].token = IF e = f THEN t ELSE outbox[e].token
    BY <2>1 DEF ClaimOutbox, StoreTypeOK, OutboxRow
  <2> HIDE DEF t
  <2>3. \A c \in Drainers \ {d} : EventOf(c)' = EventOf(c) /\ TokenOf(c)' = TokenOf(c)
    BY <2>1 DEF EventOf, TokenOf
  <2>4. \A c \in Drainers : pc'[c] = "sent" => c # d /\ pc[c] = "sent"
    BY <2>1 DEF LoopTypeOK
  <2> QED
    BY <1>0, <2>1, <2>2, <2>3, <2>4
<1>4. ASSUME NEW d \in Drainers, EndSend(d) PROVE ReceiptInv'
  <2> DEFINE e == EventOf(d)
  <2>1. /\ FinishOutbox(e, TokenOf(d), pc[d] = "sent") /\ UNCHANGED inbox
        /\ pc' = [pc EXCEPT ![d] = "claimInbox"]
        /\ \A c \in Drainers \ {d} : job'[c] = job[c]
    BY <1>4 DEF EndSend, Goto, LoopTypeOK, FinishOutbox
  <2>2. e \in Events /\ TokenOf(d) \in Tokens
    BY <1>4 DEF EndSend, LoopInv, JobIsClaimed, Working, Steps
  <2>3. \A f \in Events :
          /\ outbox'[f].token = outbox[f].token
          /\ outbox'[f].state = "delivered" =>
                \/ outbox[f].state = "delivered"
                \/ f = e /\ pc[d] = "sent" /\ outbox[e].token = TokenOf(d)
    BY <2>1, <2>2 DEF FinishOutbox, AfterFailure, StoreTypeOK, OutboxRow
  <2>4. \A c \in Drainers \ {d} : EventOf(c)' = EventOf(c) /\ TokenOf(c)' = TokenOf(c)
    BY <2>1 DEF EventOf, TokenOf
  <2>5. \A c \in Drainers : pc'[c] = "sent" => c # d /\ pc[c] = "sent"
    BY <2>1 DEF LoopTypeOK
  <2> QED
    BY <1>0, <2>1, <2>2, <2>3, <2>4, <2>5
<1> QED
  BY <1>1, <1>2, <1>3, <1>4 DEF OutboxStep

(***************************************************************************)
(* Room for one more copy.                                                  *)
(***************************************************************************)
Handing(e) == \E d \in Drainers : pc[d] \in InHand /\ EventOf(d) = e

\* the copies that are out, the one in hand included
Out(e) == Copies(e) + (IF Handing(e) THEN 1 ELSE 0)
Room(e) == Out(e) <= reviews[e]

\* the row may be claimed as it stands, or once a request for it arrives
Claimable(e) ==
    \/ inbox[e].state \in {"pending", "blocked"}
    \/ inbox[e].state = "absent" /\ ~Tombed(e)

\* a claim that has not handed anything over, or was told that nothing was
\* taken, may end with the row pending
MayGoBack(d) ==
    \/ pc[d] \in {"claimed", "waiting"}
    \/ pc[d] \in {"answered", "ending"} /\ outcome[d] \notin {"submitted", "uncertain"}

Claimed(e) == \E d \in Drainers : EventOf(d) = e /\ MayGoBack(d) /\ Holds(e, TokenOf(d))

\* the parent's answer says the message was written; it settles the row
Written(d) ==
    /\ pc[d] = "answered" /\ outcome[d] = "submitted"
    /\ OwnsRow(d) /\ inbox[EventOf(d)].boundary # NoToken

Settling(e) == inbox[e].settled \/ \E d \in Drainers : Written(d) /\ EventOf(d) = e

\* no more copies are out than were asked for ...
OutIsBounded(e) == Out(e) <= 1 + reviews[e]

\* ... one may still be asked for where a claim may be made or given back ...
ClaimHasRoom(e) == Claimable(e) \/ Claimed(e) => Room(e)

\* ... and a settled submission was read, is on its way to be read, or is lost;
\* once a turn has completed after it, it is no longer on its way
EvidenceHolds(e) ==
    Settling(e) =>
        /\ transcript[e] > 0 \/ pipe[e] > 0 \/ Room(e)
        /\ inbox[e].completion # NoToken => transcript[e] > 0 \/ Room(e)

RoomInv == \A e \in Events : OutIsBounded(e) /\ ClaimHasRoom(e) /\ EvidenceHolds(e)

\* what most steps do to a report: no copy more, no less evidence, and no claim
\* that had no room for one
CopiesEase(e) ==
    /\ Copies(e)' <= Copies(e)
    /\ reviews'[e] >= reviews[e]
    /\ transcript'[e] >= transcript[e]
    /\ pipe[e] > 0 => pipe'[e] > 0 \/ transcript'[e] > 0 \/ Copies(e)' < Copies(e)

\* a copy waits in the parent's pipe, and no turn has completed since
Arrives(e) == pipe'[e] > 0 /\ inbox'[e].completion = NoToken

Eases(e) ==
    /\ Out(e)' <= Out(e)
    /\ reviews'[e] >= reviews[e]
    /\ transcript'[e] >= transcript[e]
    /\ pipe[e] > 0 => pipe'[e] > 0 \/ transcript'[e] > 0 \/ Out(e)' < Out(e)
    /\ Claimable(e)' \/ Claimed(e)' => Claimable(e) \/ Claimed(e) \/ Room(e)'
    /\ Settling(e)' => Settling(e) \/ Arrives(e)
    /\ inbox'[e].completion \in {inbox[e].completion, NoToken} \/ pipe[e] = 0

\* The copies of a report are counted.
LEMMA CountsAreNat ==
    ASSUME LoopTypeOK, NEW e \in Events
    PROVE  /\ Copies(e) \in Nat /\ Out(e) \in Nat /\ reviews[e] \in Nat
           /\ late[e] \in Nat /\ pipe[e] \in Nat /\ transcript[e] \in Nat
           /\ Copies(e) <= Out(e) /\ Out(e) <= Copies(e) + 1
           /\ Handing(e) => Out(e) = Copies(e) + 1
           /\ ~Handing(e) => Out(e) = Copies(e)
BY DEF LoopTypeOK, Copies, Out

\* A step that eases a report keeps its clauses.
LEMMA EasedRoom ==
    ASSUME LoopTypeOK, LoopTypeOK', NEW e \in Events,
           OutIsBounded(e), ClaimHasRoom(e), EvidenceHolds(e), Eases(e)
    PROVE  OutIsBounded(e)' /\ ClaimHasRoom(e)' /\ EvidenceHolds(e)'
<1>1. /\ Out(e) \in Nat /\ reviews[e] \in Nat /\ pipe[e] \in Nat /\ transcript[e] \in Nat
      /\ Out(e)' \in Nat /\ reviews'[e] \in Nat /\ pipe'[e] \in Nat /\ transcript'[e] \in Nat
  BY DEF LoopTypeOK, Copies, Out
<1>2. OutIsBounded(e)'
  BY <1>1 DEF Eases, OutIsBounded
<1>3. Room(e) => Room(e)'
  BY <1>1 DEF Eases, Room
<1>4. Out(e)' < Out(e) => Room(e)'
  BY <1>1 DEF OutIsBounded, Eases, Room
<1>5. ClaimHasRoom(e)'
  BY <1>3 DEF ClaimHasRoom, Eases
<1>6. EvidenceHolds(e)'
  <2> SUFFICES ASSUME Settling(e)'
               PROVE  /\ transcript'[e] > 0 \/ pipe'[e] > 0 \/ Room(e)'
                      /\ inbox'[e].completion # NoToken => transcript'[e] > 0 \/ Room(e)'
    BY DEF EvidenceHolds
  <2>1. \/ Arrives(e)
        \/ /\ transcript[e] > 0 \/ pipe[e] > 0 \/ Room(e)
           /\ inbox[e].completion # NoToken => transcript[e] > 0 \/ Room(e)
    BY DEF Eases, EvidenceHolds
  <2>2. transcript[e] > 0 => transcript'[e] > 0
    BY <1>1 DEF Eases
  <2>3. pipe[e] > 0 => pipe'[e] > 0 \/ transcript'[e] > 0 \/ Room(e)'
    BY <1>4 DEF Eases
  <2>4. inbox'[e].completion # NoToken => inbox[e].completion # NoToken \/ pipe[e] = 0
    BY DEF Eases
  <2> QED
    BY <1>1, <1>3, <2>1, <2>2, <2>3, <2>4 DEF Arrives
<1> QED
  BY <1>2, <1>5, <1>6

(***************************************************************************)
(* Steps aside of the handoffs leave room where there was some.             *)
(***************************************************************************)
\* They hand no copy over: a message moves on or is lost.
LEMMA AsideCopies ==
    ASSUME LoopTypeOK, AsideStep, NEW e \in Events
    PROVE  CopiesEase(e)
<1> USE DEF LoopTypeOK, CopiesEase, Copies
<1>1. CASE UNCHANGED <<late, pipe, transcript, reviews>>
  BY <1>1
<1>2. ASSUME NEW f \in Events, PipeStep(f) PROVE CopiesEase(e)
  <2>1. CASE LateWrite(f)
    <3>1. /\ late[f] > 0 /\ late' = [late EXCEPT ![f] = @ - 1]
          /\ pipe' = pipe \/ pipe' = [pipe EXCEPT ![f] = @ + 1]
          /\ UNCHANGED <<transcript, reviews>>
      BY <2>1 DEF LateWrite
    <3>2. CASE e = f
      BY <3>1, <3>2
    <3>3. CASE e # f
      BY <3>1, <3>3
    <3> QED
      BY <3>2, <3>3
  <2>2. CASE Reads(f)
    BY <2>2 DEF Reads
  <2>3. CASE Loses(f)
    BY <2>3 DEF Loses
  <2> QED
    BY <1>2, <2>1, <2>2, <2>3 DEF PipeStep
<1>3. ASSUME NEW p \in Parents, ParentStep(p) PROVE CopiesEase(e)
  <2>1. CASE ParentStops(p)
    BY <2>1 DEF ParentStops, Drained
  <2> QED
    BY <1>1, <1>3, <2>1 DEF ParentStep, TurnEnds, ParentRemoved, UserTurn
<1>4. CASE Crash
  <2>1. late'[e] = 0 /\ pipe'[e] \in {0, pipe[e]} /\ UNCHANGED <<transcript, reviews>>
    BY <1>4 DEF Crash
  <2> QED
    BY <2>1
<1>5. CASE PersonStep
  <2>1. ASSUME NEW f \in Events, Retry(f) PROVE CopiesEase(e)
    <3>1. /\ UNCHANGED <<late, pipe, transcript>>
          /\ reviews' = reviews \/ reviews' = [reviews EXCEPT ![f] = @ + 1]
      BY <2>1 DEF Retry
    <3> QED
      BY <3>1
  <2> QED
    BY <1>1, <1>5, <2>1 DEF PersonStep, RetrySend, MarkHandled, DeleteConversation, DeleteProject,
       Recreate, StoreOnly
<1>6. ASSUME NEW d \in Drainers, SendStep(d) PROVE UNCHANGED <<late, pipe, transcript, reviews>>
  BY <1>6 DEF SendStep, StartPass, RecoverSource, SendOutbox, NoOutboxDue, SendTimesOut, EndSend
<1>7. ASSUME NEW f \in Events, ChildStep(f) \/ SettleStep(f) \/ LeaseEnds(f)
      PROVE  UNCHANGED <<late, pipe, transcript, reviews>>
  BY <1>7 DEF ChildStep, Dispatch, ChildEnds, Note, NoteOutbox, LogRow, RecoverFromLog, SettleStep,
     SettleDelivered, SettleAbsent, Wake, LeaseEnds, StoreOnly
<1>8. CASE Shutdown \/ \E p \in posts : Receive(p)
  BY <1>1, <1>8 DEF Shutdown, Receive
<1> QED
  BY <1>1, <1>2, <1>3, <1>4, <1>5, <1>6, <1>7, <1>8 DEF AsideStep

\* A row becomes claimable again by a review, or by evidence that the copies
\* handed over are gone.
LEMMA AsideClaimable ==
    ASSUME StoreTypeOK, AbsentIsEmpty, LoopTypeOK, RoomInv, AsideStep, NEW e \in Events,
           Claimable(e)'
    PROVE  Claimable(e) \/ Room(e) \/ reviews'[e] > reviews[e]
<1> USE DEF Claimable
<1>1. CASE UNCHANGED <<inbox, sessionTombs, eventTombs>>
  BY <1>1 DEF Tombed
<1>2. ASSUME NEW f \in Events, NEW g \in Generations, ChildCall(f, g) PROVE Claimable(e)
  <2>1. ~Revoked(f, g) => ~Tombed(f)
    BY DEF Revoked, Tombed
  <2>2. Tombed(e)' = Tombed(e)
    BY <1>2, ChildCallAdds DEF Tombed
  <2>3. inbox'[e] = inbox[e] \/ (inbox[e].state = "absent" /\ ~Tombed(e))
    BY <1>2, <2>1, ChildCallAdds
  <2> QED
    BY <2>2, <2>3
<1>3. CASE AsideCall
  <2>1. CASE Reconcile
    BY <2>1 DEF Reconcile, StoreTypeOK, InboxRow, Tombed
  <2>2. CASE ReadGeneration \/ RecreateProject
    BY <1>1, <2>2 DEF ReadGeneration, RecreateProject
  <2> QED
    BY <1>2, <1>3, <2>1, <2>2 DEF AsideCall
<1>4. CASE OutboxStep
  BY <1>1, <1>4 DEF OutboxStep, EndSend, SendOutbox, FinishOutbox, ClaimOutbox
<1>5. CASE Deletion
  <2>1. PICK E \in SUBSET Events : Purge(E) /\ \A f \in E : Stored(f) => Tombed(f)'
    BY <1>5, DeletionPurges
  <2>2. Tombed(e) => Tombed(e)'
    BY <1>5, DeletionPurges
  <2>3. CASE e \in E
    <3>1. inbox'[e].state = "absent"
      BY <2>1, <2>3 DEF Purge, NoInbox
    <3> QED
      BY <2>1, <2>2, <2>3, <3>1 DEF Stored
  <2>4. CASE e \notin E
    BY <2>1, <2>2, <2>4 DEF Purge
  <2> QED
    BY <2>3, <2>4
<1>6. CASE TurnEnd
  BY <1>6 DEF TurnEnd, TurnEnds, RecordTurnCompletion, StoreTypeOK, InboxRow, Tombed
<1>7. ASSUME NEW f \in Events, SettleStep(f) \/ LeaseEnds(f) \/ Retry(f) \/ RetrySend(f)
                                 \/ MarkHandled(f)
      PROVE  Claimable(e) \/ Room(e) \/ reviews'[e] > reviews[e]
  <2>1. RecoveryCall(f)
    BY <1>7 DEF SettleStep, SettleDelivered, SettleAbsent, Wake, LeaseEnds, Retry, RetrySend,
       MarkHandled, RecoveryCall
  <2>2. Tombed(e)' = Tombed(e)
    BY <2>1, RecoveryContinues DEF RowsContinue, Tombed
  <2>3. CASE e # f
    <3>1. inbox'[e] = inbox[e]
      BY <2>1, <2>3, RecoveryMoves DEF ReportMoves, OnlyRowOf
    <3> QED
      BY <2>2, <3>1
  <2>4. CASE e = f
    <3> USE <2>4 DEF StoreTypeOK, InboxRow
    <3>1. CASE ResolveReport(f, TRUE) \/ ResolveReport(f, FALSE)
      <4>1. PICK verdict \in Terminal : inbox' = [inbox EXCEPT ![f] = Resolved(inbox[f], verdict)]
        BY <3>1 DEF ResolveReport, Terminal
      <4>2. Resolved(inbox[f], verdict) = inbox[f] \/ Resolved(inbox[f], verdict).state = verdict
        BY DEF Resolved
      <4> QED
        BY <2>2, <4>1, <4>2 DEF Terminal
    <3>2. CASE SettleAbsent(f) /\ ResendOnAbsence(f)
      <4>1. transcript[e] = 0 /\ Settling(e) /\ inbox[e].completion # NoToken
        BY <3>2 DEF SettleAbsent, ResendOnAbsence, AbsenceEvidence, Settling
      <4> QED
        BY <4>1 DEF RoomInv, EvidenceHolds
    <3>3. CASE NotDelivered(f)
      BY <2>2, <3>3 DEF NotDelivered
    <3>4. CASE WakeBlocked(f)
      BY <3>4 DEF WakeBlocked
    <3>5. CASE LeaseLapses(f)
      BY <2>2, <3>5 DEF LeaseLapses
    <3>6. CASE RetryOutbox(f, TRUE)
      BY <2>2, <3>6 DEF RetryOutbox
    <3>7. CASE Retry(f) /\ reviews' = [reviews EXCEPT ![f] = @ + 1]
      BY <3>7 DEF LoopTypeOK
    <3>8. CASE RetryInbox(f, FALSE)
      BY <3>8 DEF RetryInbox, Parked
    <3> QED
      BY <1>7, <3>1, <3>2, <3>3, <3>4, <3>5, <3>6, <3>7, <3>8
      DEF SettleStep, SettleDelivered, SettleAbsent, Wake, LeaseEnds, Retry, RetrySend, MarkHandled
  <2> QED
    BY <2>3, <2>4
<1> QED
  BY <1>1, <1>3, <1>4, <1>5, <1>6, <1>7, AsideStepCalls DEF RecoveryStep

\* Whatever is not a step of a handoff eases every report.
LEMMA AsideEases ==
    ASSUME StoreTypeOK, AbsentIsEmpty, LoopTypeOK, LoopTypeOK', LoopInv, ParentInv, RoomInv,
           AsideStep, NEW e \in Events
    PROVE  Eases(e)
<1>1. \A d \in Drainers : pc'[d] \in HandoffSteps =>
        /\ pc'[d] = pc[d] /\ outcome'[d] = outcome[d]
        /\ EventOf(d)' = EventOf(d) /\ TokenOf(d)' = TokenOf(d)
  BY AsideStays DEF HandoffsStay, EventOf, TokenOf
<1>2. CopiesEase(e)
  BY AsideCopies
<1>3. Handing(e)' => Handing(e)
  BY <1>1 DEF Handing, InHand, HandoffSteps
<1>4. /\ Out(e)' <= Out(e)
      /\ Copies(e)' < Copies(e) => Out(e)' < Out(e)
  BY <1>2, <1>3 DEF CopiesEase, Out, Copies, LoopTypeOK
<1>5. RowEases(inbox[e], inbox'[e])
  BY AsideRows DEF RowsEase
<1>6. Claimed(e)' => Claimed(e)
  <2> SUFFICES ASSUME NEW d \in Drainers, EventOf(d)' = e, MayGoBack(d)',
                      inbox'[e].state = "dispatch_intent", inbox'[e].token = TokenOf(d)'
               PROVE  EventOf(d) = e /\ MayGoBack(d) /\ Holds(e, TokenOf(d))
    BY DEF Claimed, Holds
  <2>1. pc'[d] \in HandoffSteps
    BY DEF MayGoBack, HandoffSteps
  <2>2. EventOf(d) = e /\ MayGoBack(d) /\ TokenOf(d)' = TokenOf(d)
    BY <1>1, <2>1 DEF MayGoBack
  <2>3. pc[d] \in HandoffSteps
    BY <1>1, <2>1
  <2>4. TokenOf(d) # NoToken
    BY <2>3, HandoffHasJob
  <2> QED
    BY <1>5, <2>2, <2>4 DEF RowEases, Holds
<1>7. Settling(e)' => Settling(e)
  <2>1. inbox'[e].settled => inbox[e].settled
    BY <1>5 DEF RowEases
  <2>2. ASSUME NEW d \in Drainers, Written(d)', EventOf(d)' = e
        PROVE  Written(d) /\ EventOf(d) = e
    <3>1. pc'[d] \in HandoffSteps
      BY <2>2 DEF Written, HandoffSteps
    <3>2. /\ pc[d] = "answered" /\ outcome[d] = "submitted"
          /\ EventOf(d) = e /\ TokenOf(d)' = TokenOf(d) /\ TokenOf(d) # NoToken
      BY <1>1, <2>2, <3>1, HandoffHasJob DEF Written
    <3>3. inbox'[e].token = TokenOf(d) /\ inbox'[e].boundary # NoToken
      BY <2>2, <3>2 DEF Written, OwnsRow
    <3> QED
      BY <1>5, <3>2, <3>3 DEF RowEases, Written, OwnsRow
  <2> QED
    BY <2>1, <2>2 DEF Settling
<1>8. Claimable(e)' => Claimable(e) \/ Room(e)'
  <2>1. /\ Out(e) \in Nat /\ Out(e)' \in Nat /\ reviews[e] \in Nat /\ reviews'[e] \in Nat
    BY DEF Out, Copies, LoopTypeOK
  <2>2. Out(e) <= 1 + reviews[e]
    BY DEF RoomInv, OutIsBounded
  <2> QED
    BY <1>2, <1>4, <2>1, <2>2, AsideClaimable DEF Room, CopiesEase
<1>9. inbox'[e].completion \in {inbox[e].completion, NoToken} \/ pipe[e] = 0
  BY AsideRows DEF TurnCompletes
<1> QED
  BY <1>2, <1>4, <1>6, <1>7, <1>8, <1>9 DEF Eases, CopiesEase

(***************************************************************************)
(* Handoffs use up the room there is.                                       *)
(***************************************************************************)
\* A handoff eases a report if what its own drain then stands for does.
LEMMA HandoffEases ==
    ASSUME StoreTypeOK, LoopTypeOK, LoopTypeOK', LoopInv, NEW d \in Drainers, HandoffStep(d),
           NEW e \in Events,
           Out(e)' <= Out(e),
           UNCHANGED reviews, transcript' = transcript, pipe'[e] >= pipe[e],
           inbox'[e].completion \in {inbox[e].completion, NoToken},
           inbox'[e].settled => Settling(e),
           Claimable(e)' => Claimable(e) \/ Claimed(e),
           EventOf(d)' = e /\ MayGoBack(d)' /\ Holds(e, TokenOf(d))' =>
              Claimable(e) \/ Claimed(e) \/ Room(e)',
           EventOf(d)' = e /\ Written(d)' => Settling(e) \/ Arrives(e)
    PROVE  Eases(e)
<1>1. ASSUME NEW c \in Drainers, c # d
      PROVE  /\ pc'[c] = pc[c] /\ outcome'[c] = outcome[c]
             /\ EventOf(c)' = EventOf(c) /\ TokenOf(c)' = TokenOf(c)
             /\ pc[c] \in HandoffSteps /\ inbox'[EventOf(c)].token = TokenOf(c) =>
                   inbox'[EventOf(c)] = inbox[EventOf(c)]
  BY <1>1, OthersStandBy DEF EventOf, TokenOf, OwnsRow
<1>2. ASSUME NEW c \in Drainers, c # d, EventOf(c)' = e, MayGoBack(c)', Holds(e, TokenOf(c))'
      PROVE  Claimed(e)
  <2>1. pc[c] \in HandoffSteps /\ EventOf(c) = e /\ MayGoBack(c)
    BY <1>1, <1>2 DEF MayGoBack, HandoffSteps
  <2>2. inbox'[e].token = TokenOf(c)
    BY <1>1, <1>2 DEF Holds
  <2>3. inbox'[e] = inbox[e]
    BY <1>1, <1>2, <2>1, <2>2
  <2> QED
    BY <1>2, <2>1, <2>2, <2>3 DEF Holds, Claimed
<1>3. ASSUME NEW c \in Drainers, c # d, EventOf(c)' = e, Written(c)'
      PROVE  Settling(e)
  <2>1. pc[c] = "answered" /\ EventOf(c) = e /\ outcome[c] = "submitted"
    BY <1>1, <1>3 DEF Written
  <2>2. inbox'[e].token = TokenOf(c)
    BY <1>1, <1>3 DEF Written, OwnsRow
  <2>3. inbox'[e] = inbox[e]
    BY <1>1, <1>3, <2>1, <2>2 DEF HandoffSteps
  <2> QED
    BY <1>3, <2>1, <2>2, <2>3 DEF Written, OwnsRow, Settling
<1>4. Claimed(e)' => Claimable(e) \/ Claimed(e) \/ Room(e)'
  <2> SUFFICES ASSUME NEW c \in Drainers, EventOf(c)' = e, MayGoBack(c)', Holds(e, TokenOf(c))'
               PROVE  Claimable(e) \/ Claimed(e) \/ Room(e)'
    BY DEF Claimed
  <2> QED
    BY <1>2
<1>5. Settling(e)' => Settling(e) \/ Arrives(e)
  <2> SUFFICES ASSUME NEW c \in Drainers, Written(c)', EventOf(c)' = e
               PROVE  Settling(e) \/ Arrives(e)
    BY DEF Settling
  <2> QED
    BY <1>3
<1>6. pipe[e] \in Nat /\ pipe'[e] \in Nat /\ transcript[e] \in Nat /\ reviews[e] \in Nat
  BY DEF LoopTypeOK
<1> QED
  BY <1>4, <1>5, <1>6 DEF Eases

\* What a handoff leaves alone stays within bounds.
LEMMA HandoffElsewhere ==
    ASSUME StoreTypeOK, LoopTypeOK, LoopTypeOK', LoopInv, NEW d \in Drainers, HandoffStep(d),
           NEW e \in Events, inbox'[e] = inbox[e], UNCHANGED <<sessionTombs, eventTombs>>,
           UNCHANGED reviews, transcript' = transcript, pipe'[e] = pipe[e], late'[e] = late[e],
           EventOf(d)' = e => pc'[d] \notin HandoffSteps
    PROVE  Eases(e)
<1>1. Handing(e)' => Handing(e)
  BY OthersStandBy DEF Handing, EventOf, InHand, HandoffSteps
<1>2. Out(e)' <= Out(e)
  BY <1>1 DEF Out, Copies, LoopTypeOK
<1>3. Claimable(e)' => Claimable(e)
  BY DEF Claimable, Tombed
<1>4. EventOf(d)' = e => ~MayGoBack(d)' /\ ~Written(d)'
  BY DEF MayGoBack, Written, HandoffSteps
<1>5. pipe'[e] >= pipe[e]
  BY DEF LoopTypeOK
<1> QED
  BY <1>2, <1>3, <1>4, <1>5, HandoffEases DEF Settling

\* One drain at a time has a copy in hand.
LEMMA OneInHand ==
    ASSUME LoopInv, NEW d \in Drainers, pc[d] \in InHand
    PROVE  \A c \in Drainers \ {d} : pc[c] \notin InHand
BY DEF LoopInv, LockIsHeld, InHand, UnderLock

\* Two drains hold no row together.
LEMMA OneOwner ==
    ASSUME LoopTypeOK, LoopInv, NEW c \in Drainers, NEW d \in Drainers,
           pc[c] \in HandoffSteps, pc[d] \in HandoffSteps, EventOf(c) = EventOf(d),
           OwnsRow(c), OwnsRow(d)
    PROVE  c = d
BY HandoffHasJob DEF OwnsRow, LoopInv, FencesDiffer

\* A step of a drain brings into hand only what that drain then has in hand.
LEMMA HandingStays ==
    ASSUME StoreTypeOK, LoopTypeOK, LoopInv, NEW d \in Drainers, HandoffStep(d), NEW e \in Events,
           EventOf(d)' = e /\ pc'[d] \in InHand => Handing(e)
    PROVE  Handing(e)' => Handing(e)
BY OthersStandBy DEF Handing, EventOf

\* With the last copy out of its drain's hand there is none in hand.
LEMMA NothingInHand ==
    ASSUME StoreTypeOK, LoopTypeOK, LoopInv, NEW d \in Drainers, HandoffStep(d),
           pc[d] \in InHand, pc'[d] \notin InHand
    PROVE  \A e \in Events : ~Handing(e)'
BY OthersStandBy, OneInHand DEF Handing

\* A step that only moves the drain keeps the clauses: it may take a report
\* out of its hand, and then its claim may go back.
LEMMA QuietRoom ==
    ASSUME StoreTypeOK, LoopTypeOK, LoopTypeOK', LoopInv, RoomInv, NEW d \in Drainers,
           HandoffStep(d), pc[d] \in HandoffSteps,
           UNCHANGED <<inbox, sessionTombs, eventTombs, job, late, pipe, transcript, reviews>>,
           pc'[d] \in InHand => pc[d] \in InHand,
           MayGoBack(d)' => MayGoBack(d) \/ (pc[d] \in InHand /\ pc'[d] \notin InHand),
           ~Written(d)'
    PROVE  RoomInv'
<1> SUFFICES ASSUME NEW e \in Events PROVE Eases(e)
  BY EasedRoom DEF RoomInv
<1>1. EventOf(d)' = EventOf(d) /\ TokenOf(d)' = TokenOf(d)
  BY DEF EventOf, TokenOf
<1>2. Handing(e)' => Handing(e)
  <2>1. EventOf(d)' = e /\ pc'[d] \in InHand => Handing(e)
    BY <1>1 DEF Handing
  <2> QED
    BY <2>1, HandingStays
<1>3. /\ Copies(e)' = Copies(e) /\ Copies(e) \in Nat
      /\ Out(e)' <= Out(e)
      /\ ~Handing(e)' => Out(e)' = Copies(e)
  BY <1>2 DEF Out, Copies, LoopTypeOK
<1>4. EventOf(d) = e /\ pc[d] \in InHand /\ pc'[d] \notin InHand => Room(e)'
  <2> SUFFICES ASSUME EventOf(d) = e, pc[d] \in InHand, pc'[d] \notin InHand
               PROVE  Room(e)'
    OBVIOUS
  <2>1. ~Handing(e)'
    BY NothingInHand
  <2>2. Out(e) = Copies(e) + 1 /\ Out(e) <= 1 + reviews[e] /\ reviews[e] \in Nat
    BY DEF Out, Handing, RoomInv, OutIsBounded, LoopTypeOK
  <2> QED
    BY <1>3, <2>1, <2>2 DEF Room
<1>5. EventOf(d)' = e /\ MayGoBack(d)' /\ Holds(e, TokenOf(d))' => Claimed(e) \/ Room(e)'
  BY <1>1, <1>4 DEF Claimed, Holds
<1>6. Claimable(e)' => Claimable(e)
  BY DEF Claimable, Tombed
<1>7. pipe'[e] >= pipe[e]
  BY DEF LoopTypeOK
<1> QED
  BY <1>3, <1>5, <1>6, <1>7, HandoffEases DEF Settling

\* A step that puts the copy in hand to the parent keeps the clauses: the copy
\* was counted already, and its claim cannot go back.
LEMMA HandedRoom ==
    ASSUME StoreTypeOK, LoopTypeOK, LoopTypeOK', LoopInv, RowInv, RoomInv, NEW d \in Drainers,
           HandoffStep(d), pc[d] \in InHand, pc'[d] \notin InHand,
           UNCHANGED <<inbox, sessionTombs, eventTombs, job, transcript, reviews>>,
           \/ HandTo(EventOf(d), "pipe")
           \/ HandTo(EventOf(d), "late") /\ ~Written(d)',
           ~MayGoBack(d)',
           Written(d)' => pc[d] = "calling"
    PROVE  RoomInv'
<1> SUFFICES ASSUME NEW e \in Events PROVE Eases(e)
  BY EasedRoom DEF RoomInv
<1>1. /\ pc[d] \in HandoffSteps
      /\ EventOf(d)' = EventOf(d) /\ TokenOf(d)' = TokenOf(d)
  BY DEF EventOf, TokenOf, InHand, HandoffSteps
<1>2. ~Handing(e)'
  BY NothingInHand
<1>3. Claimable(e)' => Claimable(e)
  BY DEF Claimable, Tombed
<1>4. pipe'[e] >= pipe[e] /\ pipe[e] \in Nat
  BY DEF HandTo, LoopTypeOK
<1>5. Out(e)' <= Out(e)
  <2>1. Out(e)' = Copies(e)' /\ Copies(e) \in Nat
    BY <1>2 DEF Out, Copies, LoopTypeOK
  <2>2. CASE EventOf(d) = e
    <3>1. Out(e) = Copies(e) + 1
      BY <2>2 DEF Out, Handing
    <3>2. Copies(e)' = Copies(e) + 1
      BY <2>2 DEF HandTo, Copies, LoopTypeOK
    <3> QED
      BY <2>1, <3>1, <3>2
  <2>3. CASE EventOf(d) # e
    <3>1. Copies(e)' = Copies(e)
      BY <1>1, <2>3, HandoffHasJob DEF HandTo, Copies, LoopTypeOK
    <3> QED
      BY <2>1, <3>1 DEF Out
  <2> QED
    BY <2>2, <2>3
<1>6. EventOf(d)' = e /\ Written(d)' => Arrives(e)
  <2> SUFFICES ASSUME EventOf(d) = e, Written(d)' PROVE Arrives(e)
    BY <1>1
  <2>1. pipe'[e] > 0
    BY DEF HandTo, LoopTypeOK
  <2>2. pc[d] = "calling" /\ OwnsRow(d) /\ inbox[e].boundary # NoToken
    BY <1>1 DEF Written, OwnsRow
  <2>3. inbox[e].completion = NoToken
    BY <2>2 DEF RowInv, OwnBoundary
  <2> QED
    BY <2>1, <2>3 DEF Arrives
<1> QED
  BY <1>3, <1>4, <1>5, <1>6, HandoffEases DEF Settling

\* A drain that takes a row in hand uses the room its claim had.
LEMMA AdmittedRoom ==
    ASSUME StoreTypeOK, LoopTypeOK, LoopTypeOK', LoopInv, RowInv, RoomInv, NEW d \in Drainers,
           HandoffStep(d), pc[d] = "waiting", pc'[d] \in {"reviving", "admitted"},
           ClaimIsLive(EventOf(d), TokenOf(d)),
           UNCHANGED <<inbox, sessionTombs, eventTombs, job, late, pipe, transcript, reviews>>
    PROVE  RoomInv'
<1>0. PICK e : e = EventOf(d)
  OBVIOUS
<1>1. /\ pc[d] \in HandoffSteps /\ e \in Events
      /\ EventOf(d)' = e /\ TokenOf(d)' = TokenOf(d)
      /\ OwnsRow(d) /\ inbox[e].state = "dispatch_intent"
  BY <1>0, HandoffHasJob DEF EventOf, TokenOf, HandoffSteps, ClaimIsLive, Holds, OwnsRow
<1>2. ASSUME NEW f \in Events, f # e
      PROVE  OutIsBounded(f)' /\ ClaimHasRoom(f)' /\ EvidenceHolds(f)'
  <2>1. Eases(f)
    BY <1>1, <1>2, HandoffElsewhere
  <2> QED
    BY <2>1, EasedRoom DEF RoomInv
<1>3. ASSUME NEW c \in Drainers, c # d, pc'[c] \in HandoffSteps, EventOf(c)' = e, OwnsRow(c)'
      PROVE  FALSE
  <2>1. pc[c] \in HandoffSteps /\ EventOf(c) = e /\ OwnsRow(c)
    BY <1>3, OthersStandBy DEF EventOf
  <2> QED
    BY <1>0, <1>1, <1>3, <2>1, OneOwner
<1>4. Room(e)
  <2>1. Claimed(e)
    BY <1>0, <1>1 DEF Claimed, MayGoBack, Holds, OwnsRow
  <2> QED
    BY <1>1, <2>1 DEF RoomInv, ClaimHasRoom
<1>5. OutIsBounded(e)'
  <2>1. Copies(e)' = Copies(e) /\ Copies(e) \in Nat /\ reviews[e] \in Nat
    BY <1>1 DEF Copies, LoopTypeOK
  <2>2. Out(e)' <= Copies(e) + 1 /\ Copies(e) <= Out(e)
    BY <1>1, <2>1 DEF Out
  <2>3. Out(e) \in Nat /\ Out(e)' \in Nat
    BY <1>1, <2>1 DEF Out
  <2> QED
    BY <1>1, <1>4, <2>1, <2>2, <2>3 DEF OutIsBounded, Room
<1>6. ~Claimable(e)'
  BY <1>1 DEF Claimable
<1>7. ~Claimed(e)'
  <2> SUFFICES ASSUME NEW c \in Drainers, EventOf(c)' = e, MayGoBack(c)', Holds(e, TokenOf(c))'
               PROVE  FALSE
    BY <1>1 DEF Claimed
  <2>1. c # d
    BY DEF MayGoBack
  <2>2. pc'[c] \in HandoffSteps /\ OwnsRow(c)'
    BY <1>1 DEF MayGoBack, HandoffSteps, Holds, OwnsRow
  <2> QED
    BY <1>3, <2>1, <2>2
<1>8. ~Settling(e)'
  <2>1. ~inbox[e].settled
    BY <1>0, <1>1 DEF RowInv, OwnRowUnsettled
  <2>2. ASSUME NEW c \in Drainers, EventOf(c)' = e, Written(c)' PROVE FALSE
    <3>1. c # d /\ pc'[c] \in HandoffSteps /\ OwnsRow(c)'
      BY <2>2 DEF Written, HandoffSteps
    <3> QED
      BY <1>3, <2>2, <3>1
  <2> QED
    BY <1>1, <2>1, <2>2 DEF Settling
<1>9. OutIsBounded(e)' /\ ClaimHasRoom(e)' /\ EvidenceHolds(e)'
  BY <1>5, <1>6, <1>7, <1>8 DEF ClaimHasRoom, EvidenceHolds
<1> QED
  BY <1>1, <1>2, <1>9 DEF RoomInv

\* Every step of a handoff keeps the clauses.
LEMMA HandoffRoom ==
    ASSUME StoreTypeOK, AbsentIsEmpty, LoopTypeOK, LoopTypeOK', LoopInv, RowInv, RoomInv,
           NEW d \in Drainers, HandoffStep(d)
    PROVE  RoomInv'
<1> DEFINE still == UNCHANGED <<reviews, late, pipe, transcript>>
<1>0. PICK e, t : e = EventOf(d) /\ t = TokenOf(d)
  OBVIOUS
<1>1. ASSUME \A f \in Events : Eases(f) PROVE RoomInv'
  BY <1>1, EasedRoom DEF RoomInv
<1>2. still => \A f \in Events : /\ transcript' = transcript /\ pipe'[f] >= pipe[f]
                                 /\ Copies(f)' = Copies(f)
  BY DEF LoopTypeOK, Copies
<1>3. ASSUME still, NEW f \in Events, Handing(f)' => Handing(f)
      PROVE  Out(f)' <= Out(f)
  BY <1>3 DEF Out, Copies, LoopTypeOK
<1>4. pc[d] \in HandoffSteps => e \in Events /\ t \in Tokens
  BY <1>0, HandoffHasJob
<1>5. ASSUME NEW f \in Events, TakeInbox(d, f) PROVE RoomInv'
  <2>1. /\ ClaimInbox(f, FreshToken(f)) /\ FreshToken(f) \in Tokens
        /\ pc'[d] = "claimed" /\ EventOf(d)' = f
        /\ still /\ UNCHANGED <<sessionTombs, eventTombs>>
    BY <1>5, FreshTokenIsFresh DEF TakeInbox, ClaimInbox, Goto, LoopTypeOK, EventOf
  <2>2. /\ \A g \in Events \ {f} : inbox'[g] = inbox[g]
        /\ inbox[f].state = "pending"
        /\ SameProof(inbox[f], inbox'[f])
    BY <2>1, ClaimedRow DEF OnlyInboxOf
  <2>3. ASSUME NEW g \in Events, g # f PROVE Eases(g)
    BY <2>1, <2>2, <2>3, HandoffElsewhere
  <2>4. Out(f)' <= Out(f)
    BY <1>3, <2>1, HandingStays DEF InHand
  <2>5. Claimable(f) /\ ~Written(d)'
    BY <2>1, <2>2 DEF Claimable, Written
  <2>6. Eases(f)
    BY <1>2, <2>1, <2>2, <2>4, <2>5, HandoffEases DEF SameProof, Settling
  <2> QED
    BY <1>1, <2>3, <2>6
<1>6. CASE NoInboxDue(d)
  <2>1. /\ pc'[d] = "rest" /\ UNCHANGED <<inbox, sessionTombs, eventTombs>> /\ still
    BY <1>6 DEF NoInboxDue, Goto, LoopTypeOK
  <2> QED
    BY <1>1, <2>1, HandoffElsewhere DEF HandoffSteps
<1>7. CASE FirstCheck(d)
  BY <1>7, QuietRoom DEF FirstCheck, GiveUp, Goto, LoopTypeOK, HandoffSteps, InHand, MayGoBack,
     Written
<1>8. CASE Admit(d)
  <2>1. CASE pc'[d] \in {"reviving", "admitted"}
    <3>1. /\ pc[d] = "waiting" /\ ClaimIsLive(e, t) /\ still
          /\ UNCHANGED <<inbox, sessionTombs, eventTombs, job>>
      BY <1>0, <1>8, <2>1 DEF Admit, GiveUp, Goto, LoopTypeOK
    <3> QED
      BY <1>0, <2>1, <3>1, AdmittedRoom
  <2>2. CASE pc'[d] \notin {"reviving", "admitted"}
    <3>1. /\ pc[d] = "waiting" /\ pc'[d] = "ending" /\ still
          /\ UNCHANGED <<inbox, sessionTombs, eventTombs, job>>
      BY <1>8, <2>2 DEF Admit, GiveUp, Goto, LoopTypeOK
    <3> QED
      BY <3>1, QuietRoom DEF HandoffSteps, InHand, MayGoBack, Written
  <2> QED
    BY <2>1, <2>2
<1>9. CASE Revive(d)
  <2>1. /\ pc[d] = "reviving" /\ pc'[d] = "ending"
        /\ UNCHANGED <<inbox, sessionTombs, eventTombs, job, transcript, reviews>>
        /\ \/ still
           \/ outcome'[d] = "uncertain" /\ HandTo(e, "late")
           \/ outcome'[d] = "submitted" /\ HandTo(e, "pipe")
    BY <1>0, <1>9 DEF Revive, GiveUp, Goto, LoopTypeOK
  <2>2. CASE still
    BY <1>0, <2>1, <2>2, QuietRoom DEF HandoffSteps, InHand, MayGoBack, Written
  <2>3. CASE outcome'[d] \in {"uncertain", "submitted"}
             /\ (HandTo(e, "late") \/ HandTo(e, "pipe"))
    BY <1>0, <2>1, <2>3, HandedRoom DEF InHand, MayGoBack, Written
  <2> QED
    BY <1>0, <2>1, <2>2, <2>3
<1>10. CASE SetBoundary(d)
  <2>1. pc[d] = "admitted" /\ still /\ UNCHANGED <<job, sessionTombs, eventTombs>>
    BY <1>10 DEF SetBoundary, RecordHandoff
  <2>2. CASE UNCHANGED inbox
    <3>1. pc'[d] = "calling" \/ (pc'[d] = "ending" /\ outcome'[d] = "uncertain")
      BY <1>10 DEF SetBoundary, GiveUp, Goto, LoopTypeOK
    <3> QED
      BY <2>1, <2>2, <3>1, QuietRoom DEF HandoffSteps, InHand, MayGoBack, Written
  <2>3. CASE e \notin Jobs /\ ClaimIsLive(e, t) /\ RecordHandoff(e, t)
    <3>1. /\ e \in Events /\ t \in Tokens /\ EventOf(d)' = e /\ pc'[d] = "calling"
      BY <1>0, <1>4, <1>10, <2>1, <2>3 DEF SetBoundary, Goto, GiveUp, LoopTypeOK, HandoffSteps, EventOf
    <3>2. /\ \A g \in Events \ {e} : inbox'[g] = inbox[g]
          /\ inbox'[e].state = "dispatch_intent"
          /\ inbox'[e].settled = FALSE /\ inbox'[e].completion = NoToken
      BY <2>3, <3>1, BoundedRow DEF OnlyInboxOf
    <3>3. ASSUME NEW g \in Events, g # e PROVE Eases(g)
      BY <2>1, <3>1, <3>2, <3>3, HandoffElsewhere
    <3>4. Handing(e)
      BY <1>0, <2>1 DEF Handing, InHand
    <3>5. Out(e)' <= Out(e)
      BY <1>0, <1>3, <2>1, <3>1, <3>4
    <3>6. ~Claimable(e)' /\ ~MayGoBack(d)' /\ ~Written(d)'
      BY <3>1, <3>2 DEF Claimable, MayGoBack, Written
    <3>7. Eases(e)
      BY <1>2, <2>1, <3>1, <3>2, <3>5, <3>6, HandoffEases
    <3> QED
      BY <1>1, <3>3, <3>7
  <2> QED
    BY <1>0, <1>10, <2>2, <2>3 DEF SetBoundary
<1>11. CASE CallParent(d)
  <2>1. /\ pc[d] = "calling" /\ pc'[d] = "answered"
        /\ UNCHANGED <<inbox, sessionTombs, eventTombs, job, transcript, reviews>>
        /\ \/ still /\ outcome'[d] \in {"pending", "blocked", "uncertain"}
           \/ outcome'[d] = "uncertain" /\ HandTo(e, "late")
           \/ outcome'[d] = "submitted" /\ HandTo(e, "pipe")
    BY <1>0, <1>11 DEF CallParent, Goto, LoopTypeOK
  <2>2. CASE still /\ outcome'[d] \in {"pending", "blocked", "uncertain"}
    BY <1>0, <2>1, <2>2, QuietRoom DEF HandoffSteps, InHand, MayGoBack, Written
  <2>3. CASE \/ outcome'[d] = "uncertain" /\ HandTo(e, "late")
             \/ outcome'[d] = "submitted" /\ HandTo(e, "pipe")
    BY <1>0, <2>1, <2>3, HandedRoom DEF InHand, MayGoBack, Written
  <2> QED
    BY <1>0, <2>1, <2>2, <2>3
<1>12. CASE RecordAnswer(d)
  <2>1. /\ pc[d] = "answered" /\ pc'[d] = "ending" /\ UNCHANGED <<job, outcome>>
        /\ RecordHandoffResponse(e, t, outcome[d] = "submitted")
        /\ (outcome[d] = "submitted") \in BOOLEAN
        /\ still /\ UNCHANGED <<sessionTombs, eventTombs>>
    BY <1>0, <1>12 DEF RecordAnswer, RecordHandoffResponse, Goto, LoopTypeOK
  <2>2. e \in Events /\ t \in Tokens /\ EventOf(d)' = e /\ TokenOf(d)' = t
    BY <1>0, <1>4, <2>1 DEF HandoffSteps, EventOf, TokenOf
  <2>3. /\ \A g \in Events \ {e} : inbox'[g] = inbox[g]
        /\ \/ inbox'[e] = inbox[e]
           \/ /\ inbox[e].token = t /\ inbox[e].boundary # NoToken
              /\ inbox'[e].state = inbox[e].state
              /\ inbox'[e].token = t
              /\ inbox'[e].completion = inbox[e].completion
              /\ inbox'[e].settled = (outcome[d] = "submitted")
    BY <2>1, <2>2, AnsweredRow DEF OnlyInboxOf
  <2>4. inbox[e].token = t /\ inbox[e].boundary # NoToken /\ outcome[d] = "submitted" => Settling(e)
    BY <1>0, <2>1 DEF Settling, Written, OwnsRow
  <2>5. MayGoBack(d)' /\ Holds(e, t)' => Claimed(e)
    BY <1>0, <2>1, <2>2, <2>3 DEF MayGoBack, Holds, Claimed
  <2>6. Claimable(e)' => Claimable(e)
    BY <1>0, <2>1, <2>3 DEF Claimable, Tombed
  <2>7. ~Written(d)'
    BY <2>1 DEF Written
  <2>8. ASSUME NEW g \in Events, g # e PROVE Eases(g)
    BY <2>1, <2>2, <2>3, <2>8, HandoffElsewhere
  <2>9. Out(e)' <= Out(e)
    BY <1>3, <2>1, <2>2, HandingStays DEF InHand
  <2>10. inbox'[e].settled => Settling(e)
    BY <2>3, <2>4 DEF Settling
  <2>11. EventOf(d)' = e /\ MayGoBack(d)' /\ Holds(e, TokenOf(d))' => Claimed(e)
    BY <2>2, <2>5 DEF Holds
  <2>12. Eases(e)
    BY <1>2, <2>1, <2>2, <2>3, <2>6, <2>7, <2>9, <2>10, <2>11, HandoffEases
  <2> QED
    BY <1>1, <2>8, <2>12
<1>13. CASE EndAttempt(d)
  <2>1. /\ pc[d] = "ending" /\ pc'[d] = "rest" /\ outcome[d] \in Outcomes
        /\ IF outcome[d] = "submitted" THEN SubmitInbox(e, t) ELSE FinishInbox(e, t, outcome[d])
        /\ still /\ UNCHANGED <<sessionTombs, eventTombs>>
    BY <1>0, <1>13 DEF EndAttempt, SubmitInbox, FinishInbox, Goto, LoopTypeOK
  <2>2. e \in Events /\ t \in Tokens
    BY <1>0, <1>4, <2>1 DEF HandoffSteps
  <2>3. /\ \A g \in Events \ {e} : inbox'[g] = inbox[g]
        /\ \/ inbox'[e] = inbox[e]
           \/ /\ Holds(e, t)
              /\ SameProof(inbox[e], inbox'[e])
              /\ inbox'[e].state # "absent"
              /\ outcome[d] = "submitted" => inbox'[e].state = "submitted"
              /\ outcome[d] = "uncertain" => inbox'[e].state = "uncertain"
    BY <2>1, <2>2, EndedRow DEF OnlyInboxOf
  <2>4. Holds(e, t) /\ outcome[d] \notin {"submitted", "uncertain"} => Claimed(e)
    BY <1>0, <2>1 DEF Claimed, MayGoBack
  <2>5. Claimable(e)' => Claimable(e) \/ Claimed(e)
    BY <1>0, <2>1, <2>3, <2>4 DEF Claimable, Tombed
  <2>6. ~MayGoBack(d)' /\ ~Written(d)' /\ pc'[d] \notin HandoffSteps
    BY <2>1 DEF MayGoBack, Written, HandoffSteps
  <2>7. ASSUME NEW g \in Events, g # e PROVE Eases(g)
    BY <2>1, <2>2, <2>3, <2>6, <2>7, HandoffElsewhere
  <2>8. Out(e)' <= Out(e)
    BY <1>3, <2>1, <2>2, HandingStays DEF InHand
  <2>9. Eases(e)
    BY <1>2, <2>1, <2>2, <2>3, <2>5, <2>6, <2>8, HandoffEases DEF SameProof, Settling
  <2> QED
    BY <1>1, <2>7, <2>9
<1> QED
  BY <1>5, <1>6, <1>7, <1>8, <1>9, <1>10, <1>11, <1>12, <1>13 DEF HandoffStep

(***************************************************************************)
(* The inductive invariant.                                                 *)
(***************************************************************************)
DeliveryInv ==
    /\ ControlInv
    /\ RowInv
    /\ HandedIsStored
    /\ ReceiptInv
    /\ RoomInv

\* The rows an earlier run left are pending and prove nothing, and no copy is
\* out at first.
LEMMA InitDelivery == Init => DeliveryInv
<1> SUFFICES ASSUME Init PROVE DeliveryInv
  OBVIOUS
<1>1. \A e \in Events :
        /\ inbox[e].boundary = NoToken /\ inbox[e].settled = FALSE
        /\ outbox[e].state = "delivered" => inbox[e].state # "absent"
  <2> DEFINE accepted(g) == [NoInbox EXCEPT !.state = "pending", !.gen = g]
  <2>1. \A g : /\ accepted(g).boundary = NoToken /\ accepted(g).settled = FALSE
               /\ accepted(g).state = "pending"
    BY DEF NoInbox
  <2>2. /\ inbox = [e \in Events |-> IF e \in Waiting THEN accepted(IF e \in Jobs THEN 0 ELSE 1)
                                    ELSE NoInbox]
        /\ \A e \in Events \ Waiting : outbox[e] = NoOutbox
    BY DEF Init
  <2> HIDE DEF accepted
  <2> QED
    BY <2>1, <2>2 DEF NoInbox, NoOutbox
<1>2. \A d \in Drainers : pc[d] = "rest"
  BY DEF Init
<1>3. \A e \in Events : Out(e) = 0 /\ reviews[e] = 0
  <2>1. \A e \in Events : late[e] = 0 /\ pipe[e] = 0 /\ transcript[e] = 0 /\ reviews[e] = 0
    BY DEF Init
  <2> QED
    BY <1>2, <2>1 DEF Out, Copies, Handing, InHand
<1>4. RowInv
  BY <1>1, <1>2, DrainAssumption
  DEF RowInv, JobsHaveNoBoundary, SettledIsLast, OwnRowUnsettled, OwnBoundary, HandoffSteps
<1>5. HandedIsStored /\ ReceiptInv
  BY <1>1, <1>2 DEF HandedIsStored, InHand, ReceiptInv, DeliveredIsReceived, SentIsReceived
<1>6. RoomInv
  BY <1>3 DEF RoomInv, OutIsBounded, ClaimHasRoom, EvidenceHolds, Room
<1> QED
  BY <1>4, <1>5, <1>6, InitControl DEF DeliveryInv

\* Every step keeps it.
LEMMA DeliveryStep ==
    ASSUME DeliveryInv, [Next]_vars
    PROVE  DeliveryInv'
<1>1. ControlInv'
  BY ControlStep DEF DeliveryInv
<1>2. StoreTypeOK /\ LoopTypeOK /\ AbsentIsEmpty /\ LoopInv /\ ParentInv
  BY TypeSplits DEF DeliveryInv, ControlInv
<1>3. LoopTypeOK'
  BY <1>1 DEF ControlInv, TypeOK, LoopTypeOK
<1>4. CASE Next
  <2> USE <1>2, <1>3, <1>4 DEF DeliveryInv
  <2>1. HandedIsStored' /\ ReceiptInv'
    BY HandedStep, ReceiptStep
  <2>2. CASE AsideStep
    <3>1. RowInv'
      BY <2>2, AsideRowInv
    <3>2. ASSUME NEW e \in Events
          PROVE  OutIsBounded(e)' /\ ClaimHasRoom(e)' /\ EvidenceHolds(e)'
      <4>1. Eases(e)
        BY <2>2, AsideEases
      <4> QED
        BY <4>1, EasedRoom DEF RoomInv
    <3> QED
      BY <1>1, <2>1, <3>1, <3>2 DEF RoomInv
  <2>3. ASSUME NEW d \in Drainers, HandoffStep(d) PROVE DeliveryInv'
    BY <1>1, <2>1, <2>3, HandoffRowInv, HandoffRoom
  <2> QED
    BY <2>2, <2>3, NextSplits
<1>5. CASE UNCHANGED vars
  <2>1. UNCHANGED <<inbox, outbox, sessionTombs, eventTombs, pc, job, outcome, late, pipe,
                    transcript, reviews>>
    BY <1>5
  <2>2. RowInv'
    BY <2>1 DEF DeliveryInv, RowInv, JobsHaveNoBoundary, SettledIsLast, OwnRowUnsettled,
       OwnBoundary, OwnsRow, EventOf, TokenOf
  <2>3. HandedIsStored' /\ ReceiptInv'
    BY <2>1 DEF DeliveryInv, HandedIsStored, ReceiptInv, DeliveredIsReceived, SentIsReceived,
       EventOf, TokenOf
  <2>4. ASSUME NEW e \in Events
        PROVE  /\ Out(e)' = Out(e) /\ Claimable(e)' = Claimable(e)
               /\ Claimed(e)' = Claimed(e) /\ Settling(e)' = Settling(e)
    BY <2>1 DEF Out, Copies, Handing, Claimable, Tombed, Claimed, MayGoBack, Holds, Settling,
       Written, OwnsRow, EventOf, TokenOf
  <2>5. RoomInv'
    BY <2>1, <2>4 DEF DeliveryInv, RoomInv, OutIsBounded, ClaimHasRoom, EvidenceHolds, Room
  <2> QED
    BY <1>1, <2>2, <2>3, <2>5 DEF DeliveryInv
<1> QED
  BY <1>4, <1>5

\* The inductive invariant holds in every state.
THEOREM DeliveryInvariant == Spec => []DeliveryInv
BY InitDelivery, DeliveryStep, PTL DEF Spec

(***************************************************************************)
(* What it shows of every state.                                            *)
(***************************************************************************)
\* No retry, lapsed lease, crash, late write or automatic resend gives the
\* parent a copy that nobody asked for.
THEOREM NoDuplicates == Spec => []NoUnreviewedDuplicate
<1>1. DeliveryInv => NoUnreviewedDuplicate
  <2> SUFFICES ASSUME DeliveryInv, NEW e \in Events PROVE Copies(e) <= 1 + reviews[e]
    BY DEF NoUnreviewedDuplicate
  <2>1. LoopTypeOK /\ Out(e) <= 1 + reviews[e]
    BY TypeSplits DEF DeliveryInv, ControlInv, RoomInv, OutIsBounded
  <2> QED
    BY <2>1, CountsAreNat
<1> QED
  BY <1>1, DeliveryInvariant, PTL

\* The evidence a resend rests on is the last attempt's, whatever answered,
\* completed, lapsed or was retried in between.
THEOREM EvidenceStaysCurrent == Spec => []EvidenceIsCurrent
<1>1. DeliveryInv => EvidenceIsCurrent
  BY DEF DeliveryInv, RowInv, SettledIsLast, EvidenceIsCurrent, Checkable, AbsenceEvidence,
     Parked, Terminal
<1> QED
  BY <1>1, DeliveryInvariant, PTL

\* What the outbox calls delivered was accepted, even if the answer to the
\* request was lost, came late or came to a drain that had given up.
THEOREM AcknowledgedIsReceived == Spec => []DeliveredIsReceived
<1>1. DeliveryInv => DeliveredIsReceived
  BY DEF DeliveryInv, ReceiptInv
<1> QED
  BY <1>1, DeliveryInvariant, PTL

(***************************************************************************)
(* What it shows of every step.                                             *)
(***************************************************************************)
\* The one automatic resend is the settlement pass's.
LEMMA OnlyAbsenceResends ==
    ASSUME StoreTypeOK, StoreTypeOK', AbsentIsEmpty, LoopTypeOK, LoopInv, ParentInv, Next,
           NEW e \in Events, inbox'[e].resends > inbox[e].resends
    PROVE  SettleAbsent(e) /\ ResendOnAbsence(e)
<1> USE DEF StoreTypeOK, InboxRow
<1>0. inbox[e].resends \in Nat /\ inbox'[e].resends \in Nat
  OBVIOUS
<1>1. SUFFICES ASSUME ~(SettleAbsent(e) /\ ResendOnAbsence(e))
               PROVE  inbox'[e].resends <= inbox[e].resends
  BY <1>0
<1>2. CASE inbox'[e] = inbox[e]
  BY <1>0, <1>2
<1>3. ASSUME NEW f \in Events, NEW g \in Generations, ChildCall(f, g)
      PROVE  inbox'[e].resends <= inbox[e].resends
  BY <1>0, <1>3, ChildCallAdds
<1>4. CASE AsideCall
  BY <1>2, <1>3, <1>4 DEF AsideCall, Reconcile, ReadGeneration, RecreateProject
<1>5. CASE OutboxStep
  BY <1>2, <1>5 DEF OutboxStep, EndSend, SendOutbox, FinishOutbox, ClaimOutbox
<1>6. CASE Deletion
  BY <1>2, <1>6, DeletionPurges, EmptyFields DEF Purge
<1>7. CASE TurnEnd
  BY <1>0, <1>7 DEF TurnEnd, TurnEnds, RecordTurnCompletion
<1>8. ASSUME NEW f \in Events, NEW t \in Tokens, ClaimInbox(f, t) \/ AttemptCall(f, t)
      PROVE  inbox'[e].resends <= inbox[e].resends
  <2>1. CASE ClaimInbox(f, t) \/ SubmitInbox(f, t) \/ RecordTurnCompletion(f, t)
    BY <1>0, <2>1 DEF ClaimInbox, SubmitInbox, RecordTurnCompletion
  <2>2. ASSUME NEW forced, FinishInbox(f, t, forced)
        PROVE  inbox'[e].resends <= inbox[e].resends
    BY <1>0, <2>2 DEF FinishInbox
  <2>3. ASSUME NEW settled, RecordHandoffResponse(f, t, settled)
        PROVE  inbox'[e].resends <= inbox[e].resends
    BY <1>0, <2>3 DEF RecordHandoffResponse
  <2>4. CASE RecordHandoff(f, t)
    BY <1>0, <2>4 DEF RecordHandoff
  <2> QED
    BY <1>2, <1>8, <2>1, <2>2, <2>3, <2>4 DEF AttemptCall, FinishOutbox
<1>9. ASSUME NEW f \in Events,
             \/ NotDelivered(f) \/ WakeBlocked(f) \/ LeaseLapses(f)
             \/ \E reviewed \in BOOLEAN : RetryOutbox(f, reviewed) \/ RetryInbox(f, reviewed)
             \/ \E confirmed \in BOOLEAN : ResolveReport(f, confirmed)
      PROVE  inbox'[e].resends <= inbox[e].resends
  <2>1. ASSUME NEW reviewed \in BOOLEAN, RetryInbox(f, reviewed)
        PROVE  inbox'[e].resends <= inbox[e].resends
    BY <1>0, <2>1, ClearedCheckFields DEF RetryInbox
  <2>2. ASSUME NEW confirmed \in BOOLEAN, ResolveReport(f, confirmed)
        PROVE  inbox'[e].resends <= inbox[e].resends
    BY <1>0, <2>2 DEF ResolveReport, Resolved
  <2>3. CASE NotDelivered(f) \/ WakeBlocked(f) \/ LeaseLapses(f)
    BY <1>0, <2>3 DEF NotDelivered, WakeBlocked, LeaseLapses
  <2> QED
    BY <1>2, <1>9, <2>1, <2>2, <2>3 DEF RetryOutbox
<1>10. CASE RecoveryStep
  <2>1. PICK f \in Events : SettleStep(f) \/ LeaseEnds(f) \/ Retry(f) \/ RetrySend(f)
                              \/ MarkHandled(f)
    BY <1>10 DEF RecoveryStep
  <2>2. CASE SettleAbsent(f) /\ ResendOnAbsence(f)
    <3>1. f # e
      BY <1>1, <2>2
    <3> QED
      BY <1>2, <2>2, <3>1 DEF ResendOnAbsence
  <2>3. CASE SettleAbsent(f) /\ NotDelivered(f)
    BY <1>9, <2>3
  <2>4. CASE ~SettleAbsent(f)
    <3>1. \/ WakeBlocked(f) \/ LeaseLapses(f)
          \/ \E reviewed \in BOOLEAN : RetryOutbox(f, reviewed) \/ RetryInbox(f, reviewed)
          \/ \E confirmed \in BOOLEAN : ResolveReport(f, confirmed)
      BY <2>1, <2>4 DEF SettleStep, SettleDelivered, Wake, LeaseEnds, Retry, RetrySend, MarkHandled
    <3> QED
      BY <1>9, <3>1
  <2> QED
    BY <2>2, <2>3, <2>4 DEF SettleAbsent
<1> QED
  BY <1>2, <1>4, <1>5, <1>6, <1>7, <1>8, <1>10, NextSplits, AsideStepCalls, HandoffStepCalls

\* A handoff gives the parent one copy of the report its drain has in hand, or
\* none, and then the tables stay as they are.
LEMMA HandoffCopies ==
    ASSUME LoopTypeOK, LoopInv, NEW d \in Drainers, HandoffStep(d)
    PROVE  /\ UNCHANGED reviews
           /\ \/ \A e \in Events : Copies(e)' = Copies(e)
              \/ /\ pc[d] \in InHand
                 /\ UNCHANGED storeVars
                 /\ \E f \in Events :
                       /\ EventOf(d) = f
                       /\ Copies(f)' = Copies(f) + 1
                       /\ \A e \in Events \ {f} : Copies(e)' = Copies(e)
<1>1. CASE UNCHANGED <<late, pipe, transcript, reviews>>
  BY <1>1 DEF Copies
<1>2. CASE Revive(d) \/ CallParent(d)
  <2>1. /\ pc[d] \in {"reviving", "calling"} /\ UNCHANGED <<storeVars, transcript, reviews>>
        /\ \/ UNCHANGED <<late, pipe>>
           \/ HandTo(EventOf(d), "late") \/ HandTo(EventOf(d), "pipe")
    BY <1>2 DEF Revive, CallParent, GiveUp
  <2>2. EventOf(d) \in Events
    BY <2>1, HandoffHasJob DEF HandoffSteps
  <2>3. CASE HandTo(EventOf(d), "late") \/ HandTo(EventOf(d), "pipe")
    <3>1. PICK f \in Events : f = EventOf(d)
      BY <2>2
    <3>2. \/ late' = [late EXCEPT ![f] = @ + 1] /\ pipe' = pipe
          \/ pipe' = [pipe EXCEPT ![f] = @ + 1] /\ late' = late
      BY <2>3, <3>1 DEF HandTo
    <3>3. /\ Copies(f)' = Copies(f) + 1
          /\ \A e \in Events \ {f} : Copies(e)' = Copies(e)
      <4>1. /\ late[f] \in Nat /\ pipe[f] \in Nat /\ transcript[f] \in Nat
            /\ transcript' = transcript
            /\ late'[f] + pipe'[f] = late[f] + pipe[f] + 1
            /\ \A e \in Events \ {f} : late'[e] = late[e] /\ pipe'[e] = pipe[e]
        BY <2>1, <3>2 DEF LoopTypeOK
      <4> QED
        BY <4>1 DEF Copies
    <3> QED
      BY <2>1, <3>1, <3>3 DEF InHand
  <2> QED
    BY <1>1, <2>1, <2>3
<1> QED
  BY <1>1, <1>2 DEF HandoffStep, TakeInbox, NoInboxDue, FirstCheck, Admit, SetBoundary, RecordAnswer,
     EndAttempt

\* When the settlement pass asks for the automatic resend, no copy is out but
\* those a reviewed replay left.
THEOREM ResendsWhenGone == Spec => ResendOnlyWhenGone
<1>1. DeliveryInv /\ DeliveryInv' /\ [Next]_vars =>
        [\A e \in Events : inbox'[e].resends > inbox[e].resends => Copies(e) <= reviews[e]]_vars
  <2> SUFFICES ASSUME DeliveryInv, DeliveryInv', Next, NEW e \in Events,
                      inbox'[e].resends > inbox[e].resends
               PROVE  Copies(e) <= reviews[e]
    OBVIOUS
  <2>1. StoreTypeOK /\ LoopTypeOK /\ AbsentIsEmpty /\ LoopInv /\ ParentInv /\ RoomInv
    BY TypeSplits DEF DeliveryInv, ControlInv
  <2>2. StoreTypeOK'
    BY DEF DeliveryInv, ControlInv, TypeOK
  <2>3. transcript[e] = 0 /\ AbsenceEvidence(inbox[e])
    BY <2>1, <2>2, OnlyAbsenceResends DEF SettleAbsent, ResendOnAbsence
  <2>4. Room(e)
    BY <2>1, <2>3 DEF RoomInv, EvidenceHolds, Settling, AbsenceEvidence
  <2> QED
    BY <2>1, <2>4, CountsAreNat DEF Room
<1> QED
  BY <1>1, DeliveryInvariant, PTL DEF Spec, ResendOnlyWhenGone

\* A drain that still has a copy in hand finds the report stored, so none is
\* handed over of what a deletion has removed.
THEOREM DeletionsStopHandoffs == Spec => NoHandoffAfterDeletion
<1>1. DeliveryInv /\ DeliveryInv' /\ [Next]_vars =>
        [\A e \in Events : Copies(e)' > Copies(e) =>
            /\ ~projectTomb
            /\ e \notin eventTombs
            /\ {ParentOf[e], ChildOf[e]} \cap sessionTombs = {}]_vars
  <2> SUFFICES ASSUME DeliveryInv, DeliveryInv', Next, NEW e \in Events, Copies(e)' > Copies(e)
               PROVE  ~Deleted(e)
    BY DEF Deleted, Tombed
  <2>1. LoopTypeOK /\ LoopInv /\ HandedIsStored /\ DeletedIsGone
    BY TypeSplits DEF DeliveryInv, ControlInv
  <2>2. Copies(e) \in Nat /\ Copies(e)' \in Nat
    BY <2>1, CountsAreNat DEF DeliveryInv, ControlInv, TypeOK, Copies
  <2>3. ~AsideStep
    BY <2>1, <2>2, AsideCopies DEF CopiesEase
  <2>4. PICK d \in Drainers : HandoffStep(d)
    BY <2>3, NextSplits
  <2>5. pc[d] \in InHand /\ EventOf(d) = e
    BY <2>1, <2>2, <2>4, HandoffCopies
  <2> QED
    BY <2>1, <2>5 DEF HandedIsStored, DeletedIsGone, Stored
<1> QED
  BY <1>1, DeliveryInvariant, PTL DEF Spec, NoHandoffAfterDeletion

(***************************************************************************)
(* The refinement: every step is one of ReportDelivery, or changes nothing  *)
(* that it speaks of.                                                       *)
(***************************************************************************)
PromiseStep == [Promise!Next]_(Promise!vars)

CopiesStay == \A e \in Events : Copies(e)' = Copies(e)

\* What moves the reports of E alone, and no copy, is a Move of the promise.
LEMMA MoveOfReports ==
    ASSUME NEW E \in SUBSET Events, NEW from, NEW to, Shift(E, from, to), CopiesStay
    PROVE  /\ Promise!Move(E, from, to)
           /\ UNCHANGED [e \in Events |-> Copies(e)]
BY DEF Shift, CopiesStay, Promise!Move

\* Copies that are lost, or stay where they are, are no more than Lose.
LEMMA LostCopies ==
    ASSUME UNCHANGED <<storeVars, reviews>>, \A e \in Events : Copies(e)' <= Copies(e)
    PROVE  PromiseStep
<1>1. Promise!Lose
  BY DEF Promise!Lose, Standing, ReportState, Stored, Tombed
<1> QED
  BY <1>1 DEF PromiseStep, Promise!Next

\* A move of one report is a step of the promise, if another attempt without a
\* review has room for its copy.
LEMMA ReportSteps ==
    ASSUME NEW e \in Events, ReportMoves(e), CopiesStay,
           \/ reviews' = reviews
           \/ /\ Standing(e) = "waits" /\ Standing(e)' = "open"
              /\ reviews' = [reviews EXCEPT ![e] = @ + 1],
           Standing(e) = "waits" /\ Standing(e)' = "open" /\ reviews' = reviews
              => Copies(e) <= reviews[e]
    PROVE  PromiseStep
<1>1. \A f \in Events \ {e} : Standing(f)' = Standing(f)
  BY OthersStand DEF ReportMoves
<1>2. CASE Standing(e)' = Standing(e)
  <2>1. \A f \in Events : Standing(f)' = Standing(f)
    BY <1>1, <1>2
  <2>2. UNCHANGED Promise!vars
    BY <1>2, <2>1 DEF Promise!vars, CopiesStay
  <2> QED
    BY <2>2 DEF PromiseStep
<1>3. CASE Standing(e) = "none" /\ Standing(e)' = "open"
  <2>1. Promise!Record(e)
    BY <1>1, <1>3, MoveOfReports DEF Shift, Promise!Record
  <2> QED
    BY <2>1 DEF PromiseStep, Promise!Next
<1>4. CASE Standing(e) = "open" /\ Standing(e)' = "waits"
  <2>1. Promise!Answer({e})
    BY <1>1, <1>4, MoveOfReports DEF Shift, Promise!Answer
  <2> QED
    BY <2>1 DEF PromiseStep, Promise!Next
<1>5. CASE Standing(e) = "waits" /\ Standing(e)' = "open" /\ reviews' = reviews
  <2>1. Promise!Reopen(e)
    BY <1>1, <1>5, MoveOfReports DEF Shift, Promise!Reopen
  <2> QED
    BY <2>1 DEF PromiseStep, Promise!Next
<1>6. CASE /\ Standing(e) = "waits" /\ Standing(e)' = "open"
           /\ reviews' = [reviews EXCEPT ![e] = @ + 1]
  <2>1. Promise!Review(e)
    BY <1>1, <1>6, MoveOfReports DEF Shift, Promise!Review
  <2> QED
    BY <2>1 DEF PromiseStep, Promise!Next
<1>7. CASE Standing(e) = "waits" /\ Standing(e)' = "closed"
  <2>1. Promise!Close(e)
    BY <1>1, <1>7, MoveOfReports DEF Shift, Promise!Close
  <2> QED
    BY <2>1 DEF PromiseStep, Promise!Next
<1>8. CASE Standing(e) = "waits" /\ Standing(e)' = "waived"
  <2>1. Promise!Waive(e)
    BY <1>1, <1>8, MoveOfReports DEF Shift, Promise!Waive
  <2> QED
    BY <2>1 DEF PromiseStep, Promise!Next
<1>9. CASE Standing(e) = "waived" /\ Standing(e)' = "open"
  <2>1. Promise!Recall(e)
    BY <1>1, <1>9, MoveOfReports DEF Shift, Promise!Recall
  <2> QED
    BY <2>1 DEF PromiseStep, Promise!Next
<1> QED
  BY <1>2, <1>3, <1>4, <1>5, <1>6, <1>7, <1>8, <1>9 DEF ReportMoves, Step

\* A report that waits is open again only with its row claimable.
LEMMA ReopenedIsClaimable ==
    ASSUME StoreTypeOK, AbsentIsEmpty, StoreCall, DeletedIsGone', NEW e \in Events,
           Standing(e) = "waits", Standing(e)' = "open"
    PROVE  Claimable(e)'
<1>1. Stored(e)' /\ ReportState(e)' \notin {"submitted"} \cup Parked \cup Terminal
  BY DEF Standing
<1>2. ~Tombed(e)'
  BY <1>1 DEF DeletedIsGone, Deleted
<1>3. inbox'[e].state \in {"absent", "pending", "dispatch_intent"}
  <2>1. inbox'[e].state \in InboxStates
    BY StoreCallType DEF StoreTypeOK, InboxRow
  <2> QED
    BY <1>1, <2>1 DEF ReportState, InboxStates, Parked, Terminal
<1>4. inbox'[e].state # "dispatch_intent"
  <2> SUFFICES ASSUME inbox'[e].state = "dispatch_intent" PROVE FALSE
    OBVIOUS
  <2>1. inbox[e].state \in {"pending", "dispatch_intent"} => Standing(e) = "open"
    BY DEF Standing, ReportState, Stored, Parked, Terminal
  <2>2. inbox[e].state \notin {"pending", "dispatch_intent"}
    BY <2>1
  <2>3. ~RowsContinue
    BY <2>2 DEF RowsContinue, InboxContinues
  <2>4. ASSUME NEW f \in Events, NEW g \in Generations, ChildCall(f, g) PROVE FALSE
    BY <2>2, <2>4, ChildCallAdds
  <2>5. ~Removal
    BY <2>2, EmptyFields DEF Removal, Purge
  <2>6. ~Renewal
    BY <2>2 DEF Renewal
  <2> QED
    BY <2>3, <2>4, <2>5, <2>6, StoreCallSplits
<1> QED
  BY <1>2, <1>3, <1>4 DEF Claimable

\* Every call of the store is a step of the promise.
LEMMA StoreCallSteps ==
    ASSUME DeliveryInv, DeliveryInv', StoreCall, CopiesStay,
           \/ reviews' = reviews
           \/ \E e \in Events : /\ RetryInbox(e, TRUE)
                                /\ reviews' = [reviews EXCEPT ![e] = @ + 1]
    PROVE  PromiseStep
<1>1. /\ StoreTypeOK /\ AbsentIsEmpty /\ DeletedIsGone' /\ RoomInv' /\ LoopTypeOK'
  BY TypeSplits DEF DeliveryInv, ControlInv, TypeOK, LoopTypeOK
<1>2. ASSUME reviews' = reviews, NEW e \in Events, Standing(e) = "waits", Standing(e)' = "open"
      PROVE  Copies(e) <= reviews[e]
  <2>1. Room(e)'
    BY <1>1, <1>2, ReopenedIsClaimable DEF RoomInv, ClaimHasRoom
  <2>2. Out(e)' <= reviews[e] /\ Copies(e)' = Copies(e)
    BY <1>2, <2>1 DEF Room, CopiesStay
  <2>3. Copies(e)' \in Nat /\ Out(e)' \in {Copies(e)', Copies(e)' + 1}
    BY <1>1 DEF Out, Copies, LoopTypeOK
  <2>4. reviews[e] \in Nat
    BY <1>1, <1>2 DEF LoopTypeOK
  <2> QED
    BY <2>2, <2>3, <2>4
<1>3. ASSUME NEW e \in Events, RetryInbox(e, TRUE), reviews' = [reviews EXCEPT ![e] = @ + 1]
      PROVE  PromiseStep
  <2>1. ReportMoves(e)
    BY <1>1, <1>3, RecoveryMoves DEF RecoveryCall
  <2>2. Standing(e) = "waits"
    BY <1>3 DEF RetryInbox, Standing, ReportState, Stored, Parked
  <2>3. Standing(e)' = "open"
    <3>1. inbox'[e].state = "pending"
      BY <1>1, <1>3, ClearedCheckFields DEF RetryInbox, StoreTypeOK
    <3> QED
      BY <3>1 DEF Standing, ReportState, Stored, Parked, Terminal
  <2>4. reviews' # reviews
    BY <1>1, <1>3 DEF DeliveryInv, ControlInv, TypeOK
  <2> QED
    BY <1>3, <2>1, <2>2, <2>3, <2>4, ReportSteps
<1>4. ASSUME reviews' = reviews, NEW e \in Events, ReportMoves(e) PROVE PromiseStep
  BY <1>2, <1>4, ReportSteps
<1>5. ASSUME reviews' = reviews, NEW E \in SUBSET Events, Shift(E, {"open"}, "waits")
      PROVE  PromiseStep
  <2>1. Promise!Answer(E)
    BY <1>5, MoveOfReports DEF Promise!Answer
  <2> QED
    BY <2>1 DEF PromiseStep, Promise!Next
<1>6. ASSUME reviews' = reviews, NEW E \in SUBSET Events, Shift(E, Anywhere, "deleted")
      PROVE  PromiseStep
  <2>1. Promise!Delete(E)
    BY <1>6, MoveOfReports DEF Promise!Delete, Promise!Standings, Anywhere
  <2> QED
    BY <2>1 DEF PromiseStep, Promise!Next
<1> QED
  BY <1>1, <1>3, <1>4, <1>5, <1>6, StoreCallMoves

\* A step aside of the handoffs changes the tables, or loses copies.
LEMMA AsideSplits ==
    ASSUME LoopTypeOK, AsideStep
    PROVE  \/ UNCHANGED <<storeVars, reviews>>
           \/ /\ CopiesStay
              /\ \/ reviews' = reviews
                 \/ \E e \in Events : /\ RetryInbox(e, TRUE)
                                      /\ reviews' = [reviews EXCEPT ![e] = @ + 1]
<1>1. ASSUME UNCHANGED <<late, pipe, transcript>> PROVE CopiesStay
  BY <1>1 DEF CopiesStay, Copies
<1>2. ASSUME NEW e \in Events, PipeStep(e) PROVE UNCHANGED <<storeVars, reviews>>
  BY <1>2 DEF PipeStep, LateWrite, Reads, Loses
<1>3. ASSUME NEW e \in Events, ChildStep(e) \/ SettleStep(e) \/ LeaseEnds(e)
      PROVE  UNCHANGED <<late, pipe, transcript, reviews>>
  BY <1>3 DEF ChildStep, Dispatch, ChildEnds, Note, NoteOutbox, LogRow, RecoverFromLog, SettleStep,
     SettleDelivered, SettleAbsent, Wake, LeaseEnds, StoreOnly
<1>4. ASSUME NEW d \in Drainers, SendStep(d)
      PROVE  UNCHANGED <<late, pipe, transcript, reviews>>
  BY <1>4 DEF SendStep, StartPass, RecoverSource, SendOutbox, NoOutboxDue, SendTimesOut, EndSend
<1>5. ASSUME NEW p \in posts, Receive(p) PROVE UNCHANGED <<late, pipe, transcript, reviews>>
  BY <1>5 DEF Receive
<1>6. ASSUME NEW p \in Parents, ParentStep(p)
      PROVE  \/ UNCHANGED <<storeVars, reviews>>
             \/ UNCHANGED <<late, pipe, transcript, reviews>>
  BY <1>6 DEF ParentStep, TurnEnds, ParentStops, ParentRemoved, UserTurn
<1>7. ASSUME PersonStep
      PROVE  /\ UNCHANGED <<late, pipe, transcript>>
             /\ \/ reviews' = reviews
                \/ \E e \in Events : /\ RetryInbox(e, TRUE)
                                     /\ reviews' = [reviews EXCEPT ![e] = @ + 1]
  BY <1>7 DEF PersonStep, Retry, RetrySend, MarkHandled, DeleteConversation, DeleteProject, Recreate,
     StoreOnly
<1>8. CASE Shutdown \/ Crash
  BY <1>8 DEF Shutdown, Crash
<1> QED
  BY <1>1, <1>2, <1>3, <1>4, <1>5, <1>6, <1>7, <1>8 DEF AsideStep

\* A copy is handed over of a report that is stored, while fewer are out than
\* were asked for.
LEMMA HandingSteps ==
    ASSUME DeliveryInv, NEW d \in Drainers, NEW e \in Events, pc[d] \in InHand, EventOf(d) = e,
           UNCHANGED <<storeVars, reviews>>,
           Copies(e)' = Copies(e) + 1,
           \A f \in Events \ {e} : Copies(f)' = Copies(f)
    PROVE  PromiseStep
<1>1. Standing(e) \in {"open", "waits", "closed"}
  BY DEF DeliveryInv, HandedIsStored, Standing, Stored
<1>2. Copies(e) < 1 + reviews[e]
  <2>1. LoopTypeOK /\ Out(e) <= 1 + reviews[e]
    BY TypeSplits DEF DeliveryInv, ControlInv, RoomInv, OutIsBounded
  <2>2. Handing(e)
    BY DEF Handing
  <2> QED
    BY <2>1, <2>2, CountsAreNat
<1>3. \A f \in Events : Standing(f)' = Standing(f)
  BY DEF Standing, ReportState, Stored, Tombed
<1>4. [f \in Events |-> Copies(f)]' = [[f \in Events |-> Copies(f)] EXCEPT ![e] = @ + 1]
  OBVIOUS
<1>5. Promise!Hand(e)
  BY <1>1, <1>2, <1>3, <1>4 DEF Promise!Hand
<1> QED
  BY <1>5 DEF PromiseStep, Promise!Next

\* Children, drains, requests, parents, crashes, deletions and people, in any
\* order, do to every report only what ReportDelivery allows: a copy goes to
\* the parent only of a report that is there to be handed over, at most one
\* more than a person asked for, and what is answered, closed, waived or
\* deleted leaves that standing only by the steps it names.
THEOREM PromiseIsKept == Spec => KeepsPromise
<1>1. Init => Promise!Init
  <2> SUFFICES ASSUME Init PROVE Promise!Init
    OBVIOUS
  <2>1. \A e \in Events : late[e] = 0 /\ pipe[e] = 0 /\ transcript[e] = 0
    BY DEF Init
  <2>2. \A e \in Events : Copies(e) = 0
    BY <2>1 DEF Copies
  <2>3. reviews = [e \in Events |-> 0]
    BY DEF Init
  <2>4. \A e \in Events : \/ ~Stored(e)
                          \/ Stored(e) /\ inbox[e].state = "pending"
    <3> DEFINE accepted(g) == [NoInbox EXCEPT !.state = "pending", !.gen = g]
    <3>1. \A g : accepted(g).state = "pending"
      BY DEF NoInbox
    <3>2. inbox = [e \in Events |-> IF e \in Waiting THEN accepted(IF e \in Jobs THEN 0 ELSE 1)
                                   ELSE NoInbox]
      BY DEF Init
    <3> HIDE DEF accepted
    <3>3. \A e \in Waiting : Stored(e) /\ inbox[e].state = "pending"
      BY <3>1, <3>2, DrainAssumption DEF Stored
    <3>4. \A e \in Events \ Waiting : ~Stored(e)
      BY <3>2, EmptyFields DEF Init, Stored
    <3> QED
      BY <3>3, <3>4
  <2>5. \A e \in Events : Standing(e) \in {"none", "open"}
    BY <2>4 DEF Init, Standing, ReportState, Tombed, Parked, Terminal
  <2> QED
    BY <2>2, <2>3, <2>5 DEF Promise!Init
<1>2. DeliveryInv /\ DeliveryInv' /\ [Next]_vars => PromiseStep
  <2> SUFFICES ASSUME DeliveryInv, DeliveryInv', [Next]_vars PROVE PromiseStep
    OBVIOUS
  <2>1. StoreTypeOK /\ LoopTypeOK /\ LoopInv /\ ParentInv
    BY TypeSplits DEF DeliveryInv, ControlInv
  <2>2. ASSUME UNCHANGED <<storeVars, reviews>>, CopiesStay PROVE PromiseStep
    BY <2>1, <2>2, CountsAreNat, LostCopies DEF CopiesStay
  <2>3. ASSUME Next, CopiesStay,
               \/ reviews' = reviews
               \/ \E e \in Events : /\ RetryInbox(e, TRUE)
                                    /\ reviews' = [reviews EXCEPT ![e] = @ + 1]
        PROVE  PromiseStep
    <3>1. CASE StoreCall
      BY <2>3, <3>1, StoreCallSteps
    <3>2. CASE UNCHANGED storeVars
      <4>1. \A e \in Events : ~RetryInbox(e, TRUE)
        BY <2>1, <3>2, ClearedCheckFields
        DEF RetryInbox, Parked, StoreTypeOK
      <4> QED
        BY <2>2, <2>3, <3>2, <4>1
    <3> QED
      BY <2>1, <2>3, <3>1, <3>2, StepMakesOneCall
  <2>4. ASSUME Next, AsideStep PROVE PromiseStep
    <3>1. \A e \in Events : Copies(e)' <= Copies(e)
      BY <2>1, <2>4, AsideCopies DEF CopiesEase
    <3> QED
      BY <2>1, <2>3, <2>4, <3>1, AsideSplits, LostCopies
  <2>5. ASSUME Next, NEW d \in Drainers, HandoffStep(d) PROVE PromiseStep
    BY <2>1, <2>3, <2>5, HandoffCopies, HandingSteps DEF CopiesStay
  <2>6. CASE UNCHANGED vars
    BY <2>2, <2>6 DEF CopiesStay, Copies
  <2> QED
    BY <2>4, <2>5, <2>6, NextSplits
<1> QED
  BY <1>1, <1>2, DeliveryInvariant, PTL DEF Spec, PromiseStep, KeepsPromise, Promise!Spec

(***************************************************************************)
(* Where nothing fails, no report is lost.                                  *)
(***************************************************************************)
\* no child was stamped with a generation that is still to come
StampsAreReached == \A e \in Events : stamp[e] <= CurrentGeneration

\* a child that has recorded its completion has it stored, unless it belongs
\* to an earlier generation or was deleted
RecordedIsStored ==
    \A e \in Events :
        /\ child[e] \in {"enqueuing", "logging", "told"}
        /\ stamp[e] = CurrentGeneration
        /\ ~Deleted(e)
        => Stored(e)

KeepingInv == StampsAreReached /\ TombHasGeneration /\ RecordedIsStored /\ ~closing

\* A child's own step takes it on; no other step does.
LEMMA ChildrenStay ==
    ASSUME LoopTypeOK, Next, ~Crash, \A e \in Events : ~ChildStep(e)
    PROVE  UNCHANGED <<child, stamp>>
BY DEF Next, PipeStep, LateWrite, Reads, Loses, SettleStep, SettleDelivered, SettleAbsent, Wake,
       LeaseEnds, SendStep, StartPass, RecoverSource, SendOutbox, NoOutboxDue, SendTimesOut, EndSend,
       HandoffStep, TakeInbox, NoInboxDue, FirstCheck, Admit, Revive, SetBoundary, CallParent,
       RecordAnswer, EndAttempt, Receive, ParentStep, TurnEnds, ParentStops, ParentRemoved,
       UserTurn, PersonStep, Retry, RetrySend, MarkHandled, DeleteConversation, DeleteProject,
       Recreate, StoreOnly, Shutdown

\* Without store faults, crashes and job notices, every step keeps what was
\* recorded.
LEMMA KeepingStep ==
    ASSUME StoreFaults = FALSE, Jobs = {}, MaxStops = 0, MaxShutdowns = 0,
           ControlInv, KeepingInv, Next
    PROVE  KeepingInv'
<1>0. /\ StoreTypeOK /\ LoopTypeOK /\ AbsentIsEmpty /\ LoopInv /\ ParentInv
      /\ stamp \in [Events -> Nat] /\ CurrentGeneration \in Nat /\ CurrentGeneration > 0
  BY TypeSplits DEF ControlInv, LoopTypeOK, StoreTypeOK, CurrentGeneration, Generations
<1> USE <1>0 DEF KeepingInv
<1>1. ~Crash /\ ~Shutdown
  <2>1. spent["stops"] \in Nat /\ spent["shutdowns"] \in Nat
    BY DEF Spendings, LoopTypeOK
  <2>2. Limit["stops"] = 0 /\ Limit["shutdowns"] = 0
    BY DEF Limit
  <2>3. ~Spend("stops") /\ ~Spend("shutdowns")
    BY <2>1, <2>2 DEF Spend
  <2> QED
    BY <2>3 DEF Crash, Shutdown
<1>2. ~closing'
  BY <1>1 DEF Next, ChildStep, Dispatch, ChildEnds, Note, NoteOutbox, LogRow, RecoverFromLog,
     PipeStep, LateWrite, Reads, Loses, SettleStep, SettleDelivered, SettleAbsent, Wake,
     LeaseEnds, SendStep, StartPass, RecoverSource, SendOutbox, NoOutboxDue, SendTimesOut, EndSend,
     HandoffStep, TakeInbox, NoInboxDue, FirstCheck, Admit, Revive, SetBoundary, CallParent,
     RecordAnswer, EndAttempt, Receive, ParentStep, TurnEnds, ParentStops, ParentRemoved,
     UserTurn, PersonStep, Retry, RetrySend, MarkHandled, DeleteConversation, DeleteProject,
     Recreate, StoreOnly
<1>3. /\ TombHasGeneration' /\ CurrentGeneration' >= CurrentGeneration
      /\ CurrentGeneration' \in Nat
      /\ CurrentGeneration' = CurrentGeneration => \A e \in Events : Deleted(e) => Deleted(e)'
      /\ \A e \in Events : Stored(e) /\ ~Deleted(e)' => Stored(e)'
  <2>1. CASE StoreCall
    <3>1. CurrentGeneration' \in Nat
      BY <2>1, StoreCallType DEF StoreTypeOK, CurrentGeneration, Generations
    <3>2. \A e \in Events : Stored(e) /\ ~Deleted(e)' => Stored(e)'
      BY <2>1, OnlyDeletionsUnstore DEF Deleted, Tombed
    <3> QED
      BY <2>1, <3>1, <3>2, GenerationsAdvance
  <2>2. CASE UNCHANGED storeVars
    BY <2>2 DEF TombHasGeneration, CurrentGeneration, Deleted, Tombed, Stored
  <2> QED
    BY <2>1, <2>2, StepMakesOneCall
<1>4. ASSUME NEW f \in Events, child'[f] = child[f], stamp'[f] = stamp[f]
      PROVE  /\ stamp'[f] <= CurrentGeneration'
             /\ /\ child'[f] \in {"enqueuing", "logging", "told"}
                /\ stamp'[f] = CurrentGeneration' /\ ~Deleted(f)'
                => Stored(f)'
  <2>1. stamp[f] \in Nat /\ stamp[f] <= CurrentGeneration
    BY DEF StampsAreReached
  <2>2. stamp[f] = CurrentGeneration' => CurrentGeneration' = CurrentGeneration
    BY <1>3, <2>1
  <2> QED
    BY <1>3, <1>4, <2>1, <2>2 DEF RecordedIsStored
<1>5. ASSUME NEW e \in Events, ChildStep(e)
      PROVE  /\ \A f \in Events \ {e} : child'[f] = child[f] /\ stamp'[f] = stamp[f]
             /\ stamp'[e] <= CurrentGeneration'
             /\ /\ child'[e] \in {"enqueuing", "logging", "told"}
                /\ stamp'[e] = CurrentGeneration' /\ ~Deleted(e)'
                => Stored(e)'
  <2>1. \A f \in Events \ {e} : child'[f] = child[f] /\ stamp'[f] = stamp[f]
    BY <1>5 DEF ChildStep, Dispatch, ChildEnds, Note, NoteOutbox, LogRow, RecoverFromLog, LoopTypeOK
  <2>2. CASE Dispatch(e)
    <3>1. child'[e] = "running" /\ stamp'[e] = CurrentGeneration
      BY <2>2 DEF Dispatch, LoopTypeOK
    <3> QED
      BY <1>3, <2>1, <3>1
  <2>3. CASE ChildEnds(e)
    <3>1. child'[e] = "noting" /\ stamp'[e] = stamp[e]
      BY <2>3 DEF ChildEnds, LoopTypeOK
    <3> QED
      BY <1>3, <2>1, <3>1 DEF StampsAreReached
  <2>4. CASE Note(e)
    <3>1. /\ RecordCompletionSource(e, stamp[e])
          /\ stamp'[e] = stamp[e] /\ UNCHANGED revocations
      BY <2>4 DEF Note, CarriedGeneration, RecordCompletionSource
    <3>2. CurrentGeneration' = CurrentGeneration /\ Deleted(e)' = Deleted(e)
      BY <3>1 DEF CurrentGeneration, Deleted, Tombed
    <3>3. stamp[e] = CurrentGeneration /\ ~Deleted(e) => ~Revoked(e, stamp[e])
      BY DEF Revoked, Deleted, Tombed
    <3>4. ~Revoked(e, stamp[e]) => Stored(e)'
      BY <3>1 DEF RecordCompletionSource, Stored, StoreTypeOK
    <3> QED
      BY <1>3, <2>1, <3>1, <3>2, <3>3, <3>4 DEF StampsAreReached
  <2>5. CASE NoteOutbox(e) \/ LogRow(e)
    <3>1. child[e] \in {"enqueuing", "logging"} /\ stamp'[e] = stamp[e]
      BY <2>5 DEF NoteOutbox, LogRow
    <3>2. stamp[e] \in Nat /\ stamp[e] <= CurrentGeneration
      BY DEF StampsAreReached
    <3>3. stamp[e] = CurrentGeneration' => CurrentGeneration' = CurrentGeneration
      BY <1>3, <3>2
    <3> QED
      BY <1>3, <2>1, <3>1, <3>2, <3>3 DEF RecordedIsStored
  <2>6. CASE RecoverFromLog(e)
    BY <1>4, <2>1, <2>6 DEF RecoverFromLog
  <2> QED
    BY <1>5, <2>2, <2>3, <2>4, <2>5, <2>6 DEF ChildStep
<1>6. ASSUME NEW f \in Events
      PROVE  /\ stamp'[f] <= CurrentGeneration'
             /\ /\ child'[f] \in {"enqueuing", "logging", "told"}
                /\ stamp'[f] = CurrentGeneration' /\ ~Deleted(f)'
                => Stored(f)'
  <2>1. CASE \A e \in Events : ~ChildStep(e)
    BY <1>1, <1>4, <2>1, ChildrenStay
  <2>2. CASE \E e \in Events : ChildStep(e)
    BY <1>4, <1>5, <2>2
  <2> QED
    BY <2>1, <2>2
<1> QED
  BY <1>2, <1>3, <1>6 DEF StampsAreReached, RecordedIsStored

\* Where the store answers, the server stays up and every event is a child's,
\* a completion reported in its own generation is stored until it is deleted,
\* however often conversations and the project are deleted and recreated.
THEOREM ReportsAreKept ==
    ASSUME StoreFaults = FALSE, Jobs = {}, MaxStops = 0, MaxShutdowns = 0
    PROVE  Spec => []ReportIsKept
<1>1. Init => KeepingInv
  <2> SUFFICES ASSUME Init PROVE KeepingInv
    OBVIOUS
  <2>1. /\ \A e \in Events : stamp[e] \in {0, 1} /\ (e \notin Waiting => child[e] = "idle")
        /\ generation \in {0, 1} /\ ~projectTomb /\ ~closing
    BY DEF Init
  <2>2. \A e \in Waiting : sources[e].present
    BY DrainAssumption DEF Init
  <2> QED
    BY <2>1, <2>2 DEF KeepingInv, StampsAreReached, CurrentGeneration, TombHasGeneration,
       RecordedIsStored, Stored
<1>2. ControlInv /\ KeepingInv /\ [Next]_vars => KeepingInv'
  <2>1. CASE UNCHANGED vars
    BY <2>1 DEF KeepingInv, StampsAreReached, CurrentGeneration, TombHasGeneration,
       RecordedIsStored, Stored, Deleted, Tombed
  <2> QED
    BY <2>1, KeepingStep
<1>3. KeepingInv => ReportIsKept
  BY DEF KeepingInv, RecordedIsStored, ReportIsKept, Deleted, Tombed
<1> QED
  BY <1>1, <1>2, <1>3, ControlInvariant, PTL DEF Spec
=============================================================================
