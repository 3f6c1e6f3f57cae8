------------------------- MODULE DeliveryLifecycle --------------------------
(***************************************************************************)
(* Who owns the delivery loop: start_delegation_delivery,                   *)
(* stop_delegation_delivery and wire (mc/blueprints/agent_routes.py), and   *)
(* the loop thread they compete for.  Everything start and wire do, and     *)
(* both ends of stop, run under _delivery_lifecycle_lock, so each is one    *)
(* action; the join in the middle of stop holds no lock.                    *)
(***************************************************************************)
EXTENDS Naturals

CONSTANTS
    Loops,      \* thread objects, each used for one loop
    NoLoop,
    Callers     \* threads that may call stop_delegation_delivery

ASSUME LoopAssumption == NoLoop \notin Loops

VARIABLES
    owner,      \* _delivery_thread, and with it _delivery_stop_event
    stopping,   \* _delivery_stop_in_progress
    closing,    \* _delivery_shutdown_requested
    phase,      \* where each loop thread stands
    asked,      \* each loop's own stop event
    gate,       \* holder of _delivery_iteration_lock
    stopper,    \* where each caller stands in stop_delegation_delivery
    target      \* the thread it joins

owners == <<owner, stopping, closing>>
threads == <<phase, asked, gate>>
stoppers == <<stopper, target>>
vars == <<owners, threads, stoppers>>

Phases == {"new", "ready", "admitted", "draining", "waiting", "dead"}
Live(t) == phase[t] \notin {"new", "dead"}
Owned == owner # NoLoop

TypeOK ==
    /\ owner \in Loops \cup {NoLoop}
    /\ stopping \in BOOLEAN
    /\ closing \in BOOLEAN
    /\ phase \in [Loops -> Phases]
    /\ asked \in [Loops -> BOOLEAN]
    /\ gate \in Loops \cup {NoLoop}
    /\ stopper \in [Callers -> {"rest", "joining", "joined"}]
    /\ target \in [Callers -> Loops \cup {NoLoop}]

Init ==
    /\ owner = NoLoop
    /\ stopping = FALSE
    /\ closing = FALSE
    /\ phase = [t \in Loops |-> "new"]
    /\ asked = [t \in Loops |-> FALSE]
    /\ gate = NoLoop
    /\ stopper = [c \in Callers |-> "rest"]
    /\ target = [c \in Callers |-> NoLoop]

(***************************************************************************)
(* start_delegation_delivery and wire.                                      *)
(***************************************************************************)
\* a start goes on only when no stop is unfinished and no loop is alive
MayStart == ~stopping /\ (Owned => ~Live(owner))

Start(t) ==
    /\ MayStart
    /\ phase[t] = "new"
    /\ owner' = t
    /\ closing' = FALSE
    /\ phase' = [phase EXCEPT ![t] = "ready"]
    /\ UNCHANGED <<stopping, asked, gate, stoppers>>

\* the store could not be opened or reconciled; a dead thread is forgotten
StartFails ==
    /\ MayStart
    /\ owner' = NoLoop
    /\ UNCHANGED <<stopping, closing, threads, stoppers>>

\* Thread.start raised
ThreadFails ==
    /\ MayStart
    /\ owner' = NoLoop
    /\ closing' = TRUE
    /\ UNCHANGED <<stopping, threads, stoppers>>

Rewire ==
    /\ MayStart
    /\ owner' = NoLoop
    /\ closing' = FALSE
    /\ UNCHANGED <<stopping, threads, stoppers>>

(***************************************************************************)
(* stop_delegation_delivery.                                                *)
(***************************************************************************)
\* nothing to stop: only admission closes
StopIdle ==
    /\ ~Owned
    /\ closing' = TRUE
    /\ stopping' = FALSE
    /\ UNCHANGED <<owner, threads, stoppers>>

CloseAdmission ==
    /\ stopping' = TRUE
    /\ closing' = TRUE
    /\ asked' = [asked EXCEPT ![owner] = TRUE]
    /\ UNCHANGED <<owner, phase, gate>>

RequestStop(c) ==
    /\ stopper[c] = "rest"
    /\ Owned
    /\ CloseAdmission
    /\ stopper' = [stopper EXCEPT ![c] = "joining"]
    /\ target' = [target EXCEPT ![c] = owner]

\* the loop's own drain calls stop: it cannot join itself
StopSelf(t) ==
    /\ phase[t] = "draining"
    /\ owner = t
    /\ CloseAdmission
    /\ UNCHANGED stoppers

\* join returned: the thread is dead, or the time-out passed and it is not
JoinReturns(c) ==
    /\ stopper[c] = "joining"
    /\ stopper' = [stopper EXCEPT ![c] = IF Live(target[c]) THEN "rest" ELSE "joined"]
    /\ UNCHANGED <<owners, threads, target>>

\* a plausible slip: the caller clears whatever is owned by now
ReleaseAny(c) ==
    /\ stopper[c] = "joined"
    /\ stopper' = [stopper EXCEPT ![c] = "rest"]
    /\ owner' = NoLoop
    /\ stopping' = FALSE
    /\ UNCHANGED <<closing, threads, target>>

\* ownership is cleared only if it is still the joined thread's
Release(c) ==
    /\ stopper[c] = "joined"
    /\ stopper' = [stopper EXCEPT ![c] = "rest"]
    /\ IF owner = target[c]
       THEN owner' = NoLoop /\ stopping' = FALSE
       ELSE UNCHANGED <<owner, stopping>>
    /\ UNCHANGED <<closing, threads, target>>

(***************************************************************************)
(* _loop.                                                                   *)
(***************************************************************************)
Become(t, p) == phase' = [phase EXCEPT ![t] = p]

\* the iteration gate is taken and the stop event looked at
Enter(t) ==
    /\ phase[t] = "ready"
    /\ gate = NoLoop
    /\ IF asked[t]
       THEN Become(t, "dead") /\ UNCHANGED gate
       ELSE Become(t, "admitted") /\ gate' = t
    /\ UNCHANGED <<owners, asked, stoppers>>

\* from here the drain calls out: _process_inbox reads closing
Drain(t) ==
    /\ phase[t] = "admitted"
    /\ Become(t, "draining")
    /\ UNCHANGED <<owners, asked, gate, stoppers>>

\* a plausible slip: a drain that failed leaves the gate locked
DrainKeepsGate(t) ==
    /\ phase[t] = "draining"
    /\ Become(t, "waiting")
    /\ UNCHANGED <<owners, asked, gate, stoppers>>

\* the drain is over, failed or not
EndDrain(t) ==
    /\ phase[t] = "draining"
    /\ Become(t, "waiting")
    /\ gate' = NoLoop
    /\ UNCHANGED <<owners, asked, stoppers>>

\* local_stop.wait: the event ends the loop, the interval starts the next round
Wait(t) ==
    /\ phase[t] = "waiting"
    /\ Become(t, IF asked[t] THEN "dead" ELSE "ready")
    /\ UNCHANGED <<owners, asked, gate, stoppers>>

Loop(t) == Enter(t) \/ Drain(t) \/ EndDrain(t) \/ Wait(t)

Next ==
    \/ \E t \in Loops : Start(t) \/ StopSelf(t) \/ Loop(t)
    \/ StartFails \/ ThreadFails \/ Rewire \/ StopIdle
    \/ \E c \in Callers : RequestStop(c) \/ JoinReturns(c) \/ Release(c)

Spec == Init /\ [][Next]_vars

(***************************************************************************)
(* Properties.                                                              *)
(***************************************************************************)
\* There is never a second delivery loop, and never one that nobody owns:
\* however starts, time-outs and overlapping stops fall, a live loop is the
\* thread that the next start or stop will find.
OneLoop == \A t \in Loops : Live(t) => owner = t

\* As long as a loop that was told to stop is still draining, admission stays
\* closed: no later start opens it under the old drain's hands.
StoppedLoopIsFenced == \A t \in Loops : Live(t) /\ asked[t] => closing

\* A loop that was told to stop ends, even when its own drain told it.
FairSpec == Spec /\ \A t \in Loops : WF_vars(Loop(t))
StoppedLoopEnds == \A t \in Loops : asked[t] ~> ~Live(t)
=============================================================================
