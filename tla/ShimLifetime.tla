---------------------------- MODULE ShimLifetime ---------------------------
(***************************************************************************)
(* How an interactive agent shim ends (mc/agent_shim.py): the main loop and *)
(* its LifetimePolicy, the thread that waits for the CLI, the handler of    *)
(* the owner's connection, and the servers that come and go.  Nobody asks   *)
(* an orphaned shim to stop: it closes the CLI's stdin when the CLI is idle *)
(* (grace_s), kills the CLI at orphan_max_s, and leaves when an owner has   *)
(* collected the exit or exit_grace_s is over.                              *)
(*                                                                          *)
(* Timers are abstracted to the thresholds they have passed.                *)
(***************************************************************************)
EXTENDS Naturals

CONSTANTS
    Hangs,      \* may the CLI stop reading its stdin for good?
    MaxBoots    \* bound: how often a server attaches

ASSUME LifetimeAssumption == Hangs \in BOOLEAN /\ MaxBoots \in Nat

VARIABLES
    ownerUp,      \* the owner process is alive
    ownerConn,    \* owner.conn: none, idle in readline, or blocked in a write
    oldWriter,    \* a displaced connection's handler is blocked in a write
    boots,        \* the bound used up so far
    cli,          \* the CLI process
    reading,      \* it reads its stdin
    stdinClosed,  \* _stdin_closed
    waiter,       \* where the thread in _wait_cli stands
    exitFile,     \* exit.json; a write that fails is logged and not repeated
    collected,    \* _collected
    pc,           \* where the main loop stands
    seen,         \* what it observed this tick: [exited, attached]
    orphanClock,  \* how long the policy counts the shim as orphaned
    exitClock,    \* how long it counts the CLI as gone
    closedOnce    \* the policy's own _stdin_closed

servers == <<ownerUp, ownerConn, oldWriter, boots>>
process == <<cli, reading>>
waiting == <<waiter, exitFile>>
policy == <<orphanClock, exitClock, closedOnce>>
vars == <<servers, process, stdinClosed, waiting, collected, pc, seen, policy>>

TypeOK ==
    /\ ownerUp \in BOOLEAN /\ oldWriter \in BOOLEAN /\ reading \in BOOLEAN
    /\ stdinClosed \in BOOLEAN /\ collected \in BOOLEAN /\ closedOnce \in BOOLEAN
    /\ exitFile \in {"none", "written", "failed"}
    /\ ownerConn \in {"none", "idle", "writing"}
    /\ oldWriter => ownerConn # "writing"  \* _send_lock has one holder
    /\ boots \in 0..MaxBoots
    /\ cli \in {"running", "exited"}
    /\ waiter \in {"waiting", "reaped", "flagged", "recorded", "done"}
    /\ pc \in {"observe", "decide", "closing", "expiring", "killing", "finished"}
    /\ seen \in [exited : BOOLEAN, attached : BOOLEAN]
    /\ orphanClock \in {"off", "young", "grace", "max"}
    /\ exitClock \in {"off", "young", "over"}

\* launched by a server that has not connected yet
Init ==
    /\ ownerUp = TRUE
    /\ ownerConn = "none"
    /\ oldWriter = FALSE
    /\ boots = 0
    /\ cli = "running"
    /\ reading = TRUE
    /\ stdinClosed = FALSE
    /\ waiter = "waiting"
    /\ exitFile = "none"
    /\ collected = FALSE
    /\ pc = "observe"
    /\ seen = [exited |-> FALSE, attached |-> FALSE]
    /\ orphanClock = "off"
    /\ exitClock = "off"
    /\ closedOnce = FALSE

ShimUp == pc # "finished"
Exited == waiter = "done"
Attached == ownerConn # "none" \/ ownerUp
SendLockFree == ownerConn # "writing" /\ ~oldWriter

(***************************************************************************)
(* Servers and their connection.                                            *)
(***************************************************************************)
\* the owner reconnects, or a new server takes over from a dead one
Attach ==
    /\ ShimUp
    /\ boots < MaxBoots
    /\ boots' = boots + 1
    /\ ownerUp' = TRUE
    /\ ownerConn' = "idle"
    /\ oldWriter' = (oldWriter \/ ownerConn = "writing")
    /\ UNCHANGED <<process, stdinClosed, waiting, collected, pc, seen, policy>>

ServerDies ==
    /\ ownerUp
    /\ ownerUp' = FALSE
    /\ UNCHANGED <<ownerConn, oldWriter, boots, process, stdinClosed, waiting, collected, pc,
                   seen, policy>>

\* the handler reads the end of input: _release_owner
Release ==
    /\ ownerConn = "idle"
    /\ ownerConn' = "none"
    /\ collected' = (collected \/ Exited)
    /\ UNCHANGED <<ownerUp, oldWriter, boots, process, stdinClosed, waiting, pc, seen, policy>>

\* a plausible slip: a write does not wait for the one under way
SendUnserialised ==
    /\ ShimUp
    /\ ownerUp
    /\ ownerConn = "idle"
    /\ ~stdinClosed
    /\ ownerConn' = "writing"
    /\ UNCHANGED <<ownerUp, oldWriter, boots, process, stdinClosed, waiting, collected, pc,
                   seen, policy>>

SendBegins ==
    /\ ShimUp
    /\ ownerUp
    /\ ownerConn = "idle"
    /\ SendLockFree
    /\ ~stdinClosed
    /\ ownerConn' = "writing"
    /\ UNCHANGED <<ownerUp, oldWriter, boots, process, stdinClosed, waiting, collected, pc,
                   seen, policy>>

\* the CLI took the line, or is gone and the pipe is broken
WriteEnds ==
    /\ ~SendLockFree
    /\ reading \/ cli = "exited"
    /\ ownerConn' = IF ownerConn = "writing" THEN "idle" ELSE ownerConn
    /\ oldWriter' = FALSE
    /\ stdinClosed' = (stdinClosed \/ cli = "exited")
    /\ UNCHANGED <<ownerUp, boots, process, waiting, collected, pc, seen, policy>>

\* CLOSE_STDIN
CloseStdin ==
    /\ ShimUp
    /\ ownerUp
    /\ ownerConn = "idle"
    /\ SendLockFree
    /\ ~stdinClosed
    /\ stdinClosed' = TRUE
    /\ UNCHANGED <<servers, process, waiting, collected, pc, seen, policy>>

(***************************************************************************)
(* The CLI, and the thread that waits for it (_wait_cli).                   *)
(***************************************************************************)
CliExits ==
    /\ cli = "running"
    /\ cli' = "exited"
    /\ UNCHANGED <<servers, reading, stdinClosed, waiting, collected, pc, seen, policy>>

CliHangs ==
    /\ Hangs
    /\ reading
    /\ reading' = FALSE
    /\ UNCHANGED <<servers, cli, stdinClosed, waiting, collected, pc, seen, policy>>

\* cli.wait returns
Reap ==
    /\ waiter = "waiting"
    /\ cli = "exited"
    /\ waiter' = "reaped"
    /\ UNCHANGED <<servers, process, stdinClosed, exitFile, collected, pc, seen, policy>>

\* a plausible slip: the flag is set without _cli_lock
FlagUnlocked ==
    /\ waiter = "reaped"
    /\ waiter' = "flagged"
    /\ UNCHANGED <<servers, process, stdinClosed, exitFile, collected, pc, seen, policy>>

\* _cli_reaped, under _cli_lock
Flag ==
    /\ waiter = "reaped"
    /\ pc # "killing"
    /\ waiter' = "flagged"
    /\ UNCHANGED <<servers, process, stdinClosed, exitFile, collected, pc, seen, policy>>

Record ==
    /\ waiter = "flagged"
    /\ waiter' = "recorded"
    /\ exitFile' \in {"written", "failed"}
    /\ UNCHANGED <<servers, process, stdinClosed, collected, pc, seen, policy>>

\* a plausible slip: the exit is announced before it is on disk
AnnounceFirst ==
    /\ waiter \in {"flagged", "recorded"}
    /\ waiter' = "done"
    /\ UNCHANGED <<servers, process, stdinClosed, exitFile, collected, pc, seen, policy>>

\* _exited.set
Announce ==
    /\ waiter = "recorded"
    /\ waiter' = "done"
    /\ UNCHANGED <<servers, process, stdinClosed, exitFile, collected, pc, seen, policy>>

(***************************************************************************)
(* The main loop: observe, ask the policy, act.                             *)
(***************************************************************************)
Observe ==
    /\ pc = "observe"
    /\ pc' = "decide"
    /\ seen' = [exited |-> Exited, attached |-> Attached]
    /\ UNCHANGED <<servers, process, stdinClosed, waiting, collected, policy>>

\* the CLI is gone: wait for a collector
DecideExited ==
    /\ pc = "decide"
    /\ seen.exited
    /\ exitClock' = IF exitClock = "off" THEN "young" ELSE exitClock
    /\ pc' = IF collected \/ exitClock = "over" THEN "finished" ELSE "observe"
    /\ UNCHANGED <<servers, process, stdinClosed, waiting, collected, seen, orphanClock,
                   closedOnce>>

DecideAttached ==
    /\ pc = "decide"
    /\ ~seen.exited
    /\ seen.attached
    /\ orphanClock' = "off"
    /\ pc' = "observe"
    /\ UNCHANGED <<servers, process, stdinClosed, waiting, collected, seen, exitClock, closedOnce>>

MayClose == orphanClock = "grace" /\ ~closedOnce

\* a plausible slip: an idle orphan is closed again and again, and never killed
DecideOrphanedCloses(idle) ==
    /\ pc = "decide"
    /\ ~seen.exited
    /\ ~seen.attached
    /\ orphanClock' = IF orphanClock = "off" THEN "young" ELSE orphanClock
    /\ closedOnce' = closedOnce
    /\ pc' = IF idle /\ orphanClock \in {"grace", "max"} THEN "closing"
             ELSE IF orphanClock = "max" THEN "expiring" ELSE "observe"
    /\ UNCHANGED <<servers, process, stdinClosed, waiting, collected, seen, exitClock>>

\* nobody there; idle: the log is silent and the process tree does nothing
DecideOrphaned(idle) ==
    /\ pc = "decide"
    /\ ~seen.exited
    /\ ~seen.attached
    /\ orphanClock' = IF orphanClock = "off" THEN "young" ELSE orphanClock
    /\ closedOnce' = (closedOnce \/ (MayClose /\ idle))
    /\ pc' = IF orphanClock = "max" THEN "expiring"
             ELSE IF MayClose /\ idle THEN "closing" ELSE "observe"
    /\ UNCHANGED <<servers, process, stdinClosed, waiting, collected, seen, exitClock>>

\* _close_stdin waits for _send_lock
IdleClose ==
    /\ pc = "closing"
    /\ SendLockFree
    /\ stdinClosed' = TRUE
    /\ pc' = "observe"
    /\ UNCHANGED <<servers, process, waiting, collected, seen, policy>>

\* _expire_cli takes _cli_lock and looks whether the pid is still the CLI's: not
\* flagged as reaped, and alive with the start time on record, which a zombie
\* and a reaped process are not
ExpireChecks ==
    /\ pc = "expiring"
    /\ pc' = IF waiter = "waiting" /\ cli = "running"
             THEN "killing" ELSE "observe"
    /\ UNCHANGED <<servers, process, stdinClosed, waiting, collected, seen, policy>>

Kill ==
    /\ pc = "killing"
    /\ pc' = "observe"
    /\ cli' = "exited"
    /\ UNCHANGED <<servers, reading, stdinClosed, waiting, collected, seen, policy>>

OrphanTime ==
    /\ orphanClock \in {"young", "grace"}
    /\ orphanClock' = IF orphanClock = "young" THEN "grace" ELSE "max"
    /\ UNCHANGED <<servers, process, stdinClosed, waiting, collected, pc, seen, exitClock,
                   closedOnce>>

ExitTime ==
    /\ exitClock = "young"
    /\ exitClock' = "over"
    /\ UNCHANGED <<servers, process, stdinClosed, waiting, collected, pc, seen, orphanClock,
                   closedOnce>>

ServerSide == Attach \/ ServerDies \/ Release \/ SendBegins \/ WriteEnds \/ CloseStdin
CliSide == CliExits \/ CliHangs
Waiter == Reap \/ Flag \/ Record \/ Announce
MainLoop ==
    \/ Observe \/ DecideExited \/ DecideAttached \/ (\E idle \in BOOLEAN : DecideOrphaned(idle))
    \/ IdleClose \/ ExpireChecks \/ Kill

Next == ServerSide \/ CliSide \/ Waiter \/ MainLoop \/ OrphanTime \/ ExitTime

Spec == Init /\ [][Next]_vars

(***************************************************************************)
(* Fairness: both threads of the shim run, time passes, a CLI that reads    *)
(* takes what was sent, and the kernel closes the sockets of a dead server. *)
(* Nothing is assumed of servers and of the CLI itself.                     *)
(***************************************************************************)
FairSpec ==
    /\ Spec
    /\ WF_vars(MainLoop)
    /\ WF_vars(Waiter)
    /\ WF_vars(OrphanTime)
    /\ WF_vars(ExitTime)
    /\ WF_vars(WriteEnds)
    /\ WF_vars(~ownerUp /\ Release)

(***************************************************************************)
(* Properties.                                                              *)
(***************************************************************************)
\* The shim leaves nothing behind: when it is gone the CLI is gone and its
\* exit is on disk, so a server that comes later can tell how the run ended;
\* only a disk that refused exit.json may have kept it from that.
GoneIsRecorded == pc = "finished" => cli = "exited" /\ exitFile # "none"

\* A CLI without an owner does not live for ever: once no server is there any
\* more and no handler sits in a write, the CLI ends, by itself, at the end of
\* its stdin or by the tree-kill of orphan_max_s, and the shim with it.  A
\* handler blocked in the write of a CLI that stopped reading is all that can
\* keep an orphan alive; without the condition on it the property fails.
FreeOrphanEnds == <>[](~ownerUp /\ SendLockFree) => <>(pc = "finished")

\* The expiry never kills once the wait thread has flagged the pid as free for
\* reuse, however long ago it looked (_cli_lock).
ExpiryIsFenced == [][Kill => waiter \in {"waiting", "reaped"}]_vars
=============================================================================
