---------------------- MODULE DeliveryLifecycleProofs -----------------------
(***************************************************************************)
(* Proof that the delivery loop has one owner, for any number of threads    *)
(* and callers.  OneLoop is not inductive by itself: a caller that still    *)
(* has to release ownership must be known to hold a dead thread, and a      *)
(* thread nobody started must be known to have no stop pending.             *)
(***************************************************************************)
EXTENDS DeliveryLifecycle, TLAPS

Unstarted(t) == phase[t] = "new"

OwnerStarted == Owned => ~Unstarted(owner)
NewIsUnasked == \A t \in Loops : Unstarted(t) => ~asked[t]
TargetsStarted ==
    \A c \in Callers : stopper[c] # "rest" => target[c] \in Loops /\ ~Unstarted(target[c])
JoinedIsDead == \A c \in Callers : stopper[c] = "joined" => phase[target[c]] = "dead"

LifecycleInv ==
    /\ TypeOK
    /\ OneLoop
    /\ StoppedLoopIsFenced
    /\ OwnerStarted
    /\ NewIsUnasked
    /\ TargetsStarted
    /\ JoinedIsDead

\* The invariant holds before anything is started.
LEMMA LifecycleInit == Init => LifecycleInv
  BY LoopAssumption
     DEF Init, LifecycleInv, TypeOK, OneLoop, StoppedLoopIsFenced, OwnerStarted, NewIsUnasked,
         TargetsStarted, JoinedIsDead, Unstarted, Live, Owned, Phases

\* Whoever may start finds no live loop at all.
LEMMA NobodyLives ==
    ASSUME LifecycleInv, MayStart
    PROVE  \A t \in Loops : ~Live(t)
  BY LoopAssumption DEF LifecycleInv, OneLoop, MayStart, Owned, Live

\* A start, successful or not, and a rewiring keep the invariant.
LEMMA StartKeeps ==
    ASSUME LifecycleInv,
           (\E t \in Loops : Start(t)) \/ StartFails \/ ThreadFails \/ Rewire
    PROVE  LifecycleInv'
<1> USE LoopAssumption DEF LifecycleInv, TypeOK, OneLoop, StoppedLoopIsFenced, OwnerStarted,
        NewIsUnasked, TargetsStarted, JoinedIsDead, Unstarted, Live, Owned, Phases,
        threads, stoppers
<1>1. ASSUME NEW t \in Loops, Start(t) PROVE LifecycleInv'
  <2>1. \A u \in Loops : ~Live(u)
    BY <1>1, NobodyLives DEF Start
  <2> QED BY <1>1, <2>1 DEF Start
<1>2. CASE StartFails \/ ThreadFails \/ Rewire
  <2>1. \A u \in Loops : ~Live(u)
    BY <1>2, NobodyLives DEF StartFails, ThreadFails, Rewire
  <2> QED BY <1>2, <2>1 DEF StartFails, ThreadFails, Rewire
<1> QED BY <1>1, <1>2

\* Every step of a stop keeps it: what a caller releases is dead.
LEMMA StopKeeps ==
    ASSUME LifecycleInv,
           \/ StopIdle
           \/ \E t \in Loops : StopSelf(t)
           \/ \E c \in Callers : RequestStop(c) \/ JoinReturns(c) \/ Release(c)
    PROVE  LifecycleInv'
<1> USE LoopAssumption DEF LifecycleInv, TypeOK, OneLoop, StoppedLoopIsFenced, OwnerStarted,
        NewIsUnasked, TargetsStarted, JoinedIsDead, Unstarted, Live, Owned, Phases,
        owners, threads, stoppers
<1>1. CASE StopIdle
  BY <1>1 DEF StopIdle
<1>2. ASSUME NEW t \in Loops, StopSelf(t) PROVE LifecycleInv'
  BY <1>2 DEF StopSelf, CloseAdmission
<1>3. ASSUME NEW c \in Callers, RequestStop(c) PROVE LifecycleInv'
  BY <1>3 DEF RequestStop, CloseAdmission
<1>4. ASSUME NEW c \in Callers, JoinReturns(c) PROVE LifecycleInv'
  BY <1>4 DEF JoinReturns
<1>5. ASSUME NEW c \in Callers, Release(c) PROVE LifecycleInv'
  BY <1>5 DEF Release
<1> QED BY <1>1, <1>2, <1>3, <1>4, <1>5

\* The loop itself moves only between live phases, or dies for good.
LEMMA LoopKeeps ==
    ASSUME LifecycleInv, NEW t \in Loops, Loop(t)
    PROVE  LifecycleInv'
<1> USE LoopAssumption DEF LifecycleInv, TypeOK, OneLoop, StoppedLoopIsFenced, OwnerStarted,
        NewIsUnasked, TargetsStarted, JoinedIsDead, Unstarted, Live, Owned, Phases,
        owners, stoppers, Become
<1>1. CASE Enter(t)
  BY <1>1 DEF Enter
<1>2. CASE Drain(t) \/ EndDrain(t)
  BY <1>2 DEF Drain, EndDrain
<1>3. CASE Wait(t)
  BY <1>3 DEF Wait
<1> QED BY <1>1, <1>2, <1>3 DEF Loop

\* The invariant holds in every reachable state.
THEOREM LifecycleInvariant == Spec => []LifecycleInv
<1>1. LifecycleInv /\ [Next]_vars => LifecycleInv'
  <2> SUFFICES ASSUME LifecycleInv, [Next]_vars PROVE LifecycleInv'
    OBVIOUS
  <2>1. CASE UNCHANGED vars
    BY <2>1
       DEF LifecycleInv, TypeOK, OneLoop, StoppedLoopIsFenced, OwnerStarted, NewIsUnasked,
           TargetsStarted, JoinedIsDead, Unstarted, Live, Owned, vars, owners, threads, stoppers
  <2>2. CASE Next
    BY <2>2, StartKeeps, StopKeeps, LoopKeeps DEF Next
  <2> QED BY <2>1, <2>2
<1> QED BY <1>1, LifecycleInit, PTL DEF Spec

\* OneLoop: start_delegation_delivery never yields a second live loop, and no
\* live loop is ever disowned.
THEOREM LoopIsUnique == Spec => []OneLoop
  BY LifecycleInvariant, PTL DEF LifecycleInv

\* StoppedLoopIsFenced: while a stopped loop is still draining, the flag that
\* _process_inbox reads before every handoff stays set.
THEOREM StoppedLoopsAreFenced == Spec => []StoppedLoopIsFenced
  BY LifecycleInvariant, PTL DEF LifecycleInv
=============================================================================
