------------------------- MODULE ShimLifetimeProofs ------------------------
(***************************************************************************)
(* Proof that a shim leaves only after its CLI, with the exit on disk.  The *)
(* main loop acts on what it observed, so the invariant follows the exit    *)
(* from the CLI through the waiting thread and exit.json to the observation *)
(* and from there to the end of the loop.                                   *)
(***************************************************************************)
EXTENDS ShimLifetime, TLAPS

WaiterKnows == waiter # "waiting" => cli = "exited"
AnnouncedIsRecorded == waiter \in {"recorded", "done"} => exitFile # "none"
SeenIsAnnounced == seen.exited => Exited
FinishedHasSeen == pc = "finished" => seen.exited
KillIsAllowed == pc = "killing" => waiter \in {"waiting", "reaped"}

EndInv ==
    /\ TypeOK
    /\ WaiterKnows
    /\ AnnouncedIsRecorded
    /\ SeenIsAnnounced
    /\ FinishedHasSeen
    /\ KillIsAllowed

\* The invariant holds when the shim has started its CLI.
LEMMA EndInit == Init => EndInv
<1> SUFFICES ASSUME Init PROVE EndInv
  OBVIOUS
<1>1. seen \in [exited : BOOLEAN, attached : BOOLEAN]
  BY DEF Init
<1>2. TypeOK
  <2>1. ownerUp \in BOOLEAN /\ oldWriter \in BOOLEAN /\ reading \in BOOLEAN
    BY DEF Init
  <2>2. stdinClosed \in BOOLEAN /\ collected \in BOOLEAN /\ closedOnce \in BOOLEAN
    BY DEF Init
  <2> QED BY <1>1, <2>1, <2>2, LifetimeAssumption DEF LifetimeAssumption, Init, TypeOK
<1>3. WaiterKnows /\ AnnouncedIsRecorded
  BY DEF Init, WaiterKnows, AnnouncedIsRecorded
<1>4. SeenIsAnnounced /\ FinishedHasSeen /\ KillIsAllowed
  BY DEF Init, SeenIsAnnounced, FinishedHasSeen, KillIsAllowed
<1> QED BY <1>2, <1>3, <1>4 DEF EndInv

\* Servers and their connection do not touch the way an exit is recorded.
LEMMA ServersKeep ==
    ASSUME EndInv, ServerSide
    PROVE  EndInv'
<1> USE LifetimeAssumption
        DEF LifetimeAssumption, EndInv, TypeOK, WaiterKnows, AnnouncedIsRecorded, SeenIsAnnounced,
            FinishedHasSeen, KillIsAllowed, Exited, ShimUp, SendLockFree, process, waiting, policy
<1>1. CASE Attach
  BY <1>1 DEF Attach
<1>2. CASE ServerDies
  <2>1. ownerUp' \in BOOLEAN
    BY <1>2 DEF ServerDies
  <2> QED BY <1>2, <2>1 DEF ServerDies
<1>3. CASE Release
  BY <1>3 DEF Release
<1>4. CASE SendBegins
  BY <1>4 DEF SendBegins
<1>5. CASE WriteEnds
  <2>1. stdinClosed' \in BOOLEAN /\ oldWriter' \in BOOLEAN
    BY <1>5 DEF WriteEnds
  <2> QED BY <1>5, <2>1 DEF WriteEnds
<1>6. CASE CloseStdin
  BY <1>6 DEF CloseStdin, servers
<1> QED BY <1>1, <1>2, <1>3, <1>4, <1>5, <1>6 DEF ServerSide

\* The CLI, its pid and the thread that waits for it: an exit is final, and it
\* is on disk before it is announced.
LEMMA ExitKeeps ==
    ASSUME EndInv, CliSide \/ Waiter
    PROVE  EndInv'
<1> USE DEF EndInv, TypeOK, WaiterKnows, AnnouncedIsRecorded, SeenIsAnnounced,
            FinishedHasSeen, KillIsAllowed, Exited, servers, process, waiting, policy
<1>1. CASE CliExits
  BY <1>1 DEF CliExits
<1>2. CASE CliHangs
  <2>1. reading' \in BOOLEAN
    BY <1>2 DEF CliHangs
  <2> QED BY <1>2, <2>1 DEF CliHangs
<1>3. CASE Reap
  BY <1>3 DEF Reap
<1>4. CASE Flag
  BY <1>4 DEF Flag
<1>5. CASE Record
  BY <1>5 DEF Record
<1>6. CASE Announce
  BY <1>6 DEF Announce
<1> QED BY <1>1, <1>2, <1>3, <1>4, <1>5, <1>6 DEF CliSide, Waiter

\* The main loop ends only on an exit it has seen.
LEMMA LoopKeeps ==
    ASSUME EndInv, MainLoop
    PROVE  EndInv'
<1> USE DEF EndInv, TypeOK, WaiterKnows, AnnouncedIsRecorded, SeenIsAnnounced,
            FinishedHasSeen, KillIsAllowed, Exited, servers, process, waiting, policy
<1>1. CASE Observe
  BY <1>1 DEF Observe, Attached
<1>2. CASE DecideExited
  BY <1>2 DEF DecideExited
<1>3. CASE DecideAttached
  BY <1>3 DEF DecideAttached
<1>4. ASSUME NEW idle \in BOOLEAN, DecideOrphaned(idle) PROVE EndInv'
  BY <1>4 DEF DecideOrphaned, MayClose
<1>5. CASE IdleClose
  BY <1>5 DEF IdleClose
<1>6. CASE ExpireChecks
  BY <1>6 DEF ExpireChecks
<1>7. CASE Kill
  BY <1>7 DEF Kill
<1> QED BY <1>1, <1>2, <1>3, <1>4, <1>5, <1>6, <1>7 DEF MainLoop

\* Time only moves the policy's clocks.
LEMMA TimeKeeps ==
    ASSUME EndInv, OrphanTime \/ ExitTime
    PROVE  EndInv'
  BY DEF OrphanTime, ExitTime, EndInv, TypeOK, WaiterKnows, AnnouncedIsRecorded,
         SeenIsAnnounced, FinishedHasSeen, KillIsAllowed, Exited, servers, process, waiting

\* The invariant holds in every reachable state.
THEOREM EndInvariant == Spec => []EndInv
<1>1. EndInv /\ [Next]_vars => EndInv'
  <2> SUFFICES ASSUME EndInv, [Next]_vars PROVE EndInv'
    OBVIOUS
  <2>1. CASE UNCHANGED vars
    BY <2>1 DEF vars, servers, process, waiting, policy, EndInv, TypeOK, WaiterKnows,
                AnnouncedIsRecorded, SeenIsAnnounced, FinishedHasSeen, KillIsAllowed, Exited
  <2>2. CASE Next
    BY <2>2, ServersKeep, ExitKeeps, LoopKeeps, TimeKeeps DEF Next
  <2> QED BY <2>1, <2>2
<1> QED BY <1>1, EndInit, PTL DEF Spec

\* The shim is well typed, and its stdin has one writer at a time (_send_lock).
THEOREM ShimTypeCorrect == Spec => []TypeOK
  BY EndInvariant, PTL DEF EndInv

\* GoneIsRecorded: a shim that is gone has outlived its CLI and written
\* exit.json, or tried to (_wait_cli and the end of run).
THEOREM ExitIsRecorded == Spec => []GoneIsRecorded
<1>1. EndInv => GoneIsRecorded
  BY DEF EndInv, GoneIsRecorded, WaiterKnows, AnnouncedIsRecorded, SeenIsAnnounced,
         FinishedHasSeen, Exited
<1> QED BY <1>1, EndInvariant, PTL

\* ExpiryIsFenced: the check and the kill of _expire_cli are one for the wait
\* thread.
THEOREM ExpiryHoldsItsFence == Spec => ExpiryIsFenced
<1>1. EndInv /\ [Next]_vars => [Kill => waiter \in {"waiting", "reaped"}]_vars
  BY DEF EndInv, KillIsAllowed, Kill
<1> QED BY <1>1, EndInvariant, PTL DEF Spec, ExpiryIsFenced
=============================================================================
