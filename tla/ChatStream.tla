------------------------------ MODULE ChatStream ------------------------------
(***************************************************************************)
(* How the lines of one agent session reach one open chat window           *)
(* (static/js/resume-preview.js, static/js/conversation.js,                *)
(* static/index.html, and the two routes they read, agent_stream and       *)
(* agent_status of mc/blueprints/agent_routes.py).                         *)
(*                                                                         *)
(* The server keeps the session's log_lines.  The window keeps a copy of   *)
(* it, filled along four paths that run beside each other: the events of   *)
(* an EventSource, the status poll (fetchAgentStatus), the reconciler      *)
(* (_reconcileAgentBuffer) and the 15 s fallback poll.  A cursor, the      *)
(* count of server lines the window believes it has, is what is to keep    *)
(* the four from losing a line or showing one twice.                       *)
(*                                                                         *)
(* One session of the stdin kind (mode B), one window, which is visible    *)
(* and has the session's chat in front; other devices and the server's own *)
(* callers send the messages.  A line is a number: a negative one is a     *)
(* prompt, Marker announces a terminal, any other is output.  Left out:    *)
(* questions and plan approvals, activity, context and guardian events,    *)
(* the local echo, timestamps, the reload after a server restart, text     *)
(* selection, and the two caps of 2000 lines (every log here is far below  *)
(* them).                                                                  *)
(***************************************************************************)
EXTENDS Integers, Sequences, SequencesExt

CONSTANTS
    MaxEvents,      \* bound: lines written, terminals forgotten, purges, revivals,
                    \* losses and polls, together
    MaxRetries,     \* reconnections after an error: 3 in the code
    ToolLines,      \* the lines a transcript does not give back
    Repeats,        \* the lines that later ones may say again
    Terminals,      \* may a terminal be launched for the project?
    Unseeded        \* does the log lack the task's prompt?

ASSUME ChatAssumption ==
    /\ MaxEvents \in Nat \ {0}
    /\ MaxRetries \in Nat
    /\ ToolLines \subseteq Nat
    /\ {Terminals, Unseeded} \subseteq BOOLEAN

VARIABLES
    \* the server's session record, and the terminal its log may announce
    log, epoch, status, made, terminal,
    \* the EventSource, and the generator that feeds it
    conn,
    \* the window: agentServerLines, agentOutputBuffers, the lines its output
    \* node holds, agentLogEpoch, the status of agentStatusCache and of
    \* agentHistory, _historyReplay
    cursor, buf, dom, seen, cache, hist, hold,
    \* its timers: the restart checks that onerror waits for, those of them
    \* whose status entry was replaced meanwhile, the retries that are due
    retries, checks, stale, retryDue, reconcileDue,
    \* the answers on their way to the reconciler, the polls and the fallback
    rec, poll, fall,
    \* the spent bound
    spent,
    \* what the properties except: has the fallback replaced the buffer, has a
    \* copy been placed by a guess, has a check judged by a replaced entry?
    adopted, guessed, misfiled

server  == <<log, epoch, status, made, terminal>>
copy    == <<cursor, buf, dom, seen, hold>>
pills   == <<cache, hist>>
waits   == <<checks, stale, retryDue>>
timers  == <<retries, waits, reconcileDue>>
asked   == <<rec, poll, fall>>
history == <<adopted, guessed, misfiled>>
vars    == <<server, conn, copy, pills, timers, asked, spent, history>>

Live   == {"running", "idle"}
Status == Live \cup {"stopped", "gone"}
Pill   == Live \cup {"stopped", "error"}

Marker == 0
Task   == -1

Line     == -(4 + 2 * MaxEvents) .. 4 + 2 * MaxEvents
Output   == [type : {"output"}, index : Nat, line : Line]
Signal   == [type : {"reset", "turn_start", "turn_complete", "status", "error"}]
Snapshot == [log : Seq(Line), epoch : 0 .. 1, status : Status \cup {"none"}]

\* The lines that a loop over them keeps; whether it keeps the one at i may
\* depend on how many it kept before.
Kept(lines, keeps) ==
    LET got[i \in 0 .. Len(lines)] ==
          IF i = 0 THEN <<>>
          ELSE IF <<Len(got[i - 1]), i>> \in keeps
               THEN Append(got[i - 1], lines[i]) ELSE got[i - 1]
    IN  got[Len(lines)]

Without(lines, dropped) ==
    Kept(lines, {p \in (0 .. Len(lines)) \X DOMAIN lines : lines[p[2]] \notin dropped})

\* The lines an answer of agent_status lists: not those that announce a
\* terminal the server no longer has.
Listed == IF terminal = "gone" THEN Without(log, {Marker}) ELSE log

\* The session as such an answer carries it.
Now == [log |-> Listed, epoch |-> epoch, status |-> status]
None == [log |-> <<>>, epoch |-> 0, status |-> "none"]

Sent(e) == [type |-> e]

\* A step the bound counts.
Counted == spent < MaxEvents /\ spent' = spent + 1

Closed == [mode |-> "none", pc |-> "lines", sent |-> 0, until |-> 0,
           told |-> "none", idleSent |-> FALSE, net |-> <<>>]

\* connectAgentStream, and the head of agent_stream: a session the server does
\* not know is answered with an error event and the stream ends.
Connected(since) ==
    IF status = "gone"
    THEN [Closed EXCEPT !.mode = "ended", !.net = <<Sent("error")>>]
    ELSE [Closed EXCEPT !.mode = "live", !.sent = since]
HasHandle == conn.mode # "none"

-------------------------------------------------------------------------------
(* How an answer's copy of the log enters the window's. *)

\* What fetchAgentStatus makes of the answer's lines: a log in which it finds
\* no prompt gets one, made up of the session's task.
Shown(lines) ==
    IF \E line \in Range(lines) : line < 0 THEN lines ELSE <<Task>> \o lines

\* Where _mergeShorterHistory finds the last line on screen in the copy.
Anchors(shown, incoming) ==
    IF shown = <<>> THEN {}
    ELSE {j \in DOMAIN incoming : incoming[j] = Last(shown)}

\* What it appends to the screen: the lines past the anchor, all of a copy that
\* shares no line with the screen, and otherwise nothing.
NewTail(shown, incoming) ==
    IF Anchors(shown, incoming) # {}
    THEN SubSeq(incoming, Max(Anchors(shown, incoming)) + 1, Len(incoming))
    ELSE IF Range(incoming) \cap Range(shown) = {} THEN incoming ELSE <<>>

\* a plausible slip: a shorter copy replaces the buffer
Shorter_Never(incoming) == FALSE

Shorter(incoming) == Len(incoming) < Len(buf)

\* The buffer once a copy was taken: merged when shorter, adopted otherwise.
Taken(incoming) ==
    IF Shorter(incoming) THEN buf \o NewTail(buf, incoming) ELSE incoming
\* What the merge itself shows: the lines it appends are also painted.
Painted(incoming) ==
    IF Shorter(incoming) THEN dom \o NewTail(buf, incoming) ELSE dom

\* _advanceAgentServerCursor: an answer may be older than what the stream has
\* brought since, so the cursor never moves back on one.
\* a plausible slip: the cursor follows the answer back
Advanced_Rewinds(count) == count

Advanced(count) == Max({cursor, count})

\* The slice recovery of _reconcileAgentBuffer: a loop over the missing lines
\* that looks each one up by its text, so that a line equal to an earlier one
\* of the slice is judged by the earlier one's position.
Recovered(incoming, have) ==
    LET missing == SubSeq(incoming, have + 1, Len(incoming))
        Place(line) == Min({j \in DOMAIN missing : missing[j] = line})
    IN  Kept(missing, {p \in (0 .. Len(missing)) \X DOMAIN missing :
                         p[1] < Place(missing[p[2]])})

-------------------------------------------------------------------------------
(* The server: the reader thread, the send handlers, the purge, the revival. *)

\* A window that has just opened the chat through fetchAgentStatus.
Init ==
    /\ log = <<IF Unseeded THEN 2 ELSE -2, 3, 4>>
    /\ epoch = 0 /\ status = "running" /\ made = 4 /\ terminal = "none"
    /\ conn = Closed
    /\ cursor = Len(log) /\ buf = Shown(log) /\ dom = buf /\ seen = 0 /\ hold = <<>>
    /\ cache = "running" /\ hist = "running"
    /\ retries = 0 /\ checks = 0 /\ stale = 0 /\ retryDue = 0 /\ reconcileDue = FALSE
    /\ rec = None /\ poll = {} /\ fall = None
    /\ spent = 0
    /\ adopted = FALSE /\ guessed = FALSE /\ misfiled = FALSE

window == <<conn, copy, pills, timers, asked, history>>

\* What may be written where a new line would be: also what an earlier line of
\* its kind said.
Written(line) ==
    {line} \cup {l \in Range(log) \cap Repeats : l # Marker /\ (l < 0 <=> line < 0)}

\* The reader thread appends a line of the turn.
Produce ==
    /\ status = "running"
    /\ Counted
    /\ \E line \in Written(made + 1) : log' = Append(log, line)
    /\ made' = made + 1
    /\ UNCHANGED <<epoch, status, terminal, window>>

\* The result event of the turn: the process stays for the next one.
EndTurn ==
    /\ status = "running"
    /\ status' = "idle"
    /\ UNCHANGED <<log, epoch, made, terminal, spent, window>>

\* A message from elsewhere starts a turn; a stopped session is respawned on
\* the same record.
StartTurn ==
    /\ status \in {"idle", "stopped"}
    /\ Counted
    /\ \E prompt \in Written(-(made + 1)) : log' = Append(log, prompt)
    /\ made' = made + 1
    /\ status' = "running"
    /\ UNCHANGED <<epoch, terminal, window>>

\* The process exits or is stopped.
Exit ==
    /\ status \in Live
    /\ status' = "stopped"
    /\ UNCHANGED <<log, epoch, made, terminal, spent, window>>

\* The scheduler drops a session that has been over for an hour; the generator
\* of a stream on it ended with the session's status long before.
Purge ==
    /\ status = "stopped" /\ epoch = 0
    /\ conn.mode # "live"
    /\ Counted
    /\ status' = "gone"
    /\ UNCHANGED <<log, epoch, made, terminal, window>>

\* What a transcript gives back of the log (the markers around it count as the
\* revival's note).
Transcript == Without(log, ToolLines \cup {Marker})

\* A message to a purged session revives it under its id: the log is built
\* anew from the transcript, which holds no tool lines and is left out when it
\* has grown too large to resume, the revival's note and the message.
Revive ==
    /\ status = "gone"
    /\ Counted
    /\ \E given \in {<<>>, Transcript} :
         log' = given \o <<made + 1, -(made + 2)>>
    /\ made' = made + 2
    /\ epoch' = epoch + 1
    /\ status' = "running"
    /\ UNCHANGED <<terminal, window>>

\* A terminal launched for the project announces itself in the logs of the
\* project's live sessions; the server forgets it when it is over and the
\* browser has looked, or when it is deleted.
Launch ==
    /\ Terminals /\ terminal = "none" /\ status \in Live
    /\ Counted
    /\ terminal' = "open"
    /\ log' = Append(log, Marker)
    /\ UNCHANGED <<epoch, status, made, window>>

EndTerminal ==
    /\ terminal = "open"
    /\ Counted
    /\ terminal' = "gone"
    /\ UNCHANGED <<log, epoch, status, made, window>>

-------------------------------------------------------------------------------
(* The stream: the generator's loop copies the lines it has not sent, yields   *)
(* them one by one, and then reads the status.                                 *)

beside == <<server, copy, pills, timers, asked, spent, history>>

\* A cursor beyond the log's end means a rebuilt log: the client is told, and
\* all of it is sent.
GenSlice ==
    /\ conn.mode = "live" /\ conn.pc = "lines"
    /\ LET reset == conn.sent > Len(log)
           from  == IF reset THEN 0 ELSE conn.sent
       IN conn' = [conn EXCEPT
            !.pc = IF from < Len(log) THEN "yield" ELSE "status",
            !.sent = from,
            !.until = IF from < Len(log) THEN Len(log) ELSE 0,
            !.net = IF reset THEN Append(@, Sent("reset")) ELSE @]
    /\ UNCHANGED beside

\* A yield may block.  After the last one the generator counts every line that
\* the log has by then as sent.
GenYield ==
    /\ conn.mode = "live" /\ conn.pc = "yield"
    /\ LET next == conn.sent + 1
       IN conn' = [conn EXCEPT
            !.pc = IF next = conn.until THEN "status" ELSE @,
            !.sent = IF next = conn.until THEN Len(log) ELSE next,
            !.until = IF next = conn.until THEN 0 ELSE @,
            !.net = Append(@, [type |-> "output", index |-> next, line |-> log[next]])]
    /\ UNCHANGED beside

GenStatus ==
    /\ conn.mode = "live" /\ conn.pc = "status"
    /\ LET starts == IF status = "running" /\ conn.told # "running"
                     THEN <<Sent("turn_start")>> ELSE <<>>
           ends   == CASE status = "idle" /\ ~conn.idleSent -> <<Sent("turn_complete")>>
                       [] status = "stopped" -> <<Sent("status")>>
                       [] OTHER -> <<>>
       IN conn' = [conn EXCEPT
            !.mode = IF status = "stopped" THEN "ended" ELSE @,
            !.pc = "lines",
            !.told = status,
            !.idleSent = status = "idle",
            !.net = @ \o starts \o ends]
    /\ UNCHANGED beside

\* The connection dies: noticed by the browser, or silently (the socket of a
\* parked web view).  What was on its way is lost.
Drop ==
    /\ conn.mode \in {"live", "ended"}
    /\ Counted
    /\ \E mode \in {"silent", "failed"} : conn' = [Closed EXCEPT !.mode = mode]
    /\ UNCHANGED <<server, copy, pills, timers, asked, history>>

Arrives(event) ==
    /\ conn.net # <<>> /\ Head(conn.net).type = event
    /\ UNCHANGED <<server, asked, spent, history>>

Consumed == [conn EXCEPT !.net = Tail(@)]

\* An output event: claimed at the cursor's next position, ignored at or below
\* it, withheld beyond it for the reconciler; during a replay it is held back.
OnOutput ==
    /\ Arrives("output")
    /\ conn' = Consumed
    /\ retries' = 0
    /\ LET event == Head(conn.net)
       IN \/ /\ event.index = cursor + 1
             /\ cursor' = cursor + 1
             /\ IF hold = <<>>
                THEN /\ buf' = Append(buf, event.line)
                     /\ dom' = Append(dom, event.line)
                     /\ UNCHANGED hold
                ELSE /\ hold' = <<Append(hold[1], event.line)>>
                     /\ UNCHANGED <<buf, dom>>
             /\ UNCHANGED reconcileDue
          \/ /\ event.index # cursor + 1
             /\ reconcileDue' = (reconcileDue \/ event.index > cursor + 1)
             /\ UNCHANGED <<cursor, buf, dom, hold>>
    /\ UNCHANGED <<seen, pills, waits>>

\* A reset: the replay that follows is held until it stops arriving.
OnReset ==
    /\ Arrives("reset")
    /\ conn' = Consumed
    /\ cursor' = 0
    /\ hold' = <<<<>>>>
    /\ UNCHANGED <<buf, dom, seen, pills, timers>>

OnTurnStart ==
    /\ Arrives("turn_start")
    /\ conn' = Consumed
    /\ cache' = "running" /\ hist' = "running"
    /\ UNCHANGED <<copy, timers>>

\* turn_complete, a final status and an error each close the stream.
OnEnd ==
    /\ \E event \in {"turn_complete", "status", "error"} :
         /\ Arrives(event)
         /\ cache' = CASE event = "turn_complete" -> "idle"
                       [] event = "status" -> "stopped"
                       [] event = "error" -> "error"
    /\ hist' = cache'
    /\ conn' = Closed
    /\ retries' = 0
    /\ UNCHANGED <<copy, waits, reconcileDue>>

\* a plausible slip: the limit is compared after the fact
MayRetry_OnceMore == retries <= MaxRetries

MayRetry == retries < MaxRetries

\* onerror: the stream is closed, and a session that was live is looked at again
\* once the server has said whether it was restarted.
OnError ==
    /\ conn.mode = "failed"
    /\ conn' = Closed
    /\ checks' = IF cache \in Live THEN checks + 1 ELSE checks
    /\ UNCHANGED <<server, copy, pills, retries, stale, retryDue, reconcileDue,
                   asked, spent, history>>

\* It was not: a few retries, then the session is shown as stopped, in the rail
\* and in the status entry that onerror had found.
CheckLands ==
    /\ \/ checks > 0 /\ checks' = checks - 1 /\ UNCHANGED stale
       \/ stale > 0 /\ stale' = stale - 1 /\ UNCHANGED checks
    /\ IF MayRetry
       THEN /\ retries' = retries + 1
            /\ retryDue' = retryDue + 1
            /\ UNCHANGED <<pills, misfiled>>
       ELSE /\ retries' = 0
            /\ cache' = IF checks' < checks THEN "stopped" ELSE cache
            /\ hist' = "stopped"
            /\ misfiled' = (misfiled \/ stale' < stale)
            /\ UNCHANGED retryDue
    /\ UNCHANGED <<server, conn, copy, reconcileDue, asked, spent, adopted, guessed>>

\* Its timer connects whatever the window has come to believe meanwhile.
Retry ==
    /\ retryDue > 0
    /\ retryDue' = retryDue - 1
    /\ conn' = Connected(cursor)
    /\ UNCHANGED <<server, copy, pills, retries, checks, stale, reconcileDue,
                   asked, spent, history>>

\* The stream's own watchdog, after 30 s without an event.
Watchdog ==
    /\ conn.mode = "silent"
    /\ IF cache \in Live
       THEN conn' = Connected(cursor) /\ reconcileDue' = TRUE
       ELSE conn' = Closed /\ UNCHANGED reconcileDue
    /\ UNCHANGED <<server, copy, pills, retries, waits, asked, spent, history>>

-------------------------------------------------------------------------------
(* The window's own ticks and requests.  An answer is read by the server at  *)
(* one moment and lands at a later one.                                      *)

\* a plausible slip: an idle session needs no reconciling
NotStreaming_SkipsIdle == conn.mode \in {"none", "silent"} /\ cache # "idle"

NotStreaming == conn.mode \in {"none", "silent"}

\* The freshness tick, every 5 s: a silent stream is reaped, and reopened for a
\* running session; without a stream the reconciler is asked for.
FreshnessTick ==
    /\ NotStreaming
    /\ IF conn.mode = "silent" /\ cache = "running"
       THEN conn' = Connected(cursor) /\ UNCHANGED rec
       ELSE conn' = Closed /\ rec' = IF rec = None THEN Now ELSE rec
    /\ UNCHANGED <<server, copy, pills, timers, poll, fall, spent, history>>

\* The timers set by a gap in the positions and by the watchdog; a reconciler
\* that is busy lets them pass.
ReconcileTimer ==
    /\ reconcileDue
    /\ reconcileDue' = FALSE
    /\ rec' = IF rec = None THEN Now ELSE rec
    /\ UNCHANGED <<server, conn, copy, pills, retries, waits, poll, fall, spent, history>>

\* A poll that is asked for: polls may overtake one another, each lands once.
Polled ==
    /\ Counted
    /\ poll' = poll \cup {[number |-> spent', answer |-> Now]}

\* fetchAgentStatus, which a subagent's progress, a tab switch, a reopened
\* project or a newly seen session asks for at any time.
AskPoll ==
    /\ Polled
    /\ UNCHANGED <<server, conn, copy, pills, timers, rec, fall, history>>

\* _resyncOpenModalsFromServer, when the page comes back to the front: the
\* stream is closed whatever its state and the status poll reopens it.
Resurface ==
    /\ Polled
    /\ conn' = Closed
    /\ UNCHANGED <<server, copy, pills, timers, rec, fall, history>>

\* The 15 s fallback poll, over the sessions whose rail entry is live when it
\* asks; one request is on its way at a time here.
FallbackAsks ==
    /\ hist \in Live /\ fall = None
    /\ fall' = Now
    /\ UNCHANGED <<server, conn, copy, pills, timers, rec, poll, spent, history>>

\* A request fails; each of the three swallows it.
LoseAnswer ==
    /\ Counted
    /\ \/ rec # None /\ rec' = None /\ UNCHANGED <<poll, fall>>
       \/ fall # None /\ fall' = None /\ UNCHANGED <<rec, poll>>
       \/ /\ \E p \in poll : poll' = poll \ {p}
          /\ UNCHANGED <<rec, fall>>
    /\ UNCHANGED <<server, conn, copy, pills, timers, history>>

\* plausible slips: the rail entry is not told, or only a live pill is synced
StatusSynced_CacheOnly(s) == cache' = s /\ UNCHANGED hist

StatusSynced_WhenLive(s) ==
    /\ cache' = IF cache \in Live THEN s ELSE cache
    /\ hist' = IF cache \in Live THEN s ELSE hist

\* The reconciler's status sync, which no state of the window holds back.
StatusSynced(s) ==
    /\ cache' = s
    /\ hist' = IF cache = s THEN hist ELSE s

\* Does the merge find the screen's last line where it may not stand: is it a
\* line that the screen has more than once?
Ambiguous(shown) == \E i \in 1 .. Len(shown) - 1 : shown[i] = Last(shown)

\* _reconcileAgentBuffer once its answer is in.  A session the server no longer
\* lists is left alone.  A copy shorter than the cursor, or of another epoch,
\* is taken whole; otherwise the lines past the cursor are recovered.
ReconcileLands ==
    /\ rec # None
    /\ rec' = None
    /\ IF rec.status = "gone"
       THEN UNCHANGED <<copy, pills, guessed>>
       ELSE LET lines == rec.log
                whole == Len(lines) < cursor \/ rec.epoch # seen
                new   == Recovered(lines, cursor)
            IN  /\ StatusSynced(rec.status)
                /\ seen' = rec.epoch
                /\ \/ /\ whole
                      /\ buf' = Taken(lines)
                      /\ dom' = IF Shorter(lines) THEN Painted(lines) ELSE lines
                      /\ cursor' = Advanced(Len(lines))
                      /\ guessed' = (guessed \/ (Shorter(lines) /\ Ambiguous(buf)))
                   \/ /\ ~whole
                      /\ buf' = buf \o new
                      /\ dom' = dom \o new
                      /\ cursor' = cursor + Len(new)
                      /\ guessed' = (guessed \/ ~IsInjective(SubSeq(lines, cursor + 1, Len(lines))))
                /\ UNCHANGED hold
    /\ UNCHANGED <<server, conn, timers, poll, fall, spent, adopted, misfiled>>

\* fetchAgentStatus once its answer is in.  The copy is taken, and painted when
\* the buffer grew and no stream is open or when the log was rebuilt; a live
\* session gets a stream.  A session no longer listed loses its stream and is
\* shown as stopped, unless the window believes it is running.  The status
\* entry of a listed session is a new one; a pending check keeps the old.
PollLands(p) ==
    /\ poll' = poll \ {p}
    /\ IF p.answer.status = "gone"
       THEN /\ IF cache = "running"
               THEN UNCHANGED <<conn, pills>>
               ELSE conn' = Closed /\ cache' = "stopped" /\ hist' = "stopped"
            /\ UNCHANGED <<copy, checks, stale, guessed>>
       ELSE LET count   == Len(p.answer.log)
                lines   == Shown(p.answer.log)
                repaint == \/ Len(Taken(lines)) > Len(buf) /\ ~HasHandle
                           \/ p.answer.epoch # seen
            IN  /\ cache' = p.answer.status
                /\ checks' = 0 /\ stale' = stale + checks
                /\ buf' = Taken(lines)
                /\ dom' = IF repaint THEN buf' ELSE Painted(lines)
                /\ cursor' = Advanced(count)
                /\ seen' = p.answer.epoch
                /\ conn' = IF p.answer.status \in Live /\ ~HasHandle
                           THEN Connected(cursor') ELSE conn
                /\ guessed' = (guessed \/ IF Shorter(lines) THEN Ambiguous(buf)
                                                         ELSE count < cursor)
                /\ UNCHANGED <<hist, hold>>
    /\ UNCHANGED <<server, retries, retryDue, reconcileDue, rec, fall, spent,
                   adopted, misfiled>>

\* The fallback once its answer is in.  With a stream open it does nothing; a
\* session that is over has its buffer replaced by the answer's copy.
FallbackLands ==
    /\ fall # None
    /\ fall' = None
    /\ LET over == ~HasHandle /\ fall.status \in {"stopped", "gone"}
           lost == over /\ fall.status = "stopped"
       IN  /\ cache' = IF over THEN "stopped" ELSE cache
           /\ hist' = IF over THEN "stopped" ELSE hist
           /\ buf' = IF lost THEN fall.log ELSE buf
           /\ adopted' = (adopted \/ lost)
           /\ conn' = IF ~HasHandle /\ fall.status = "running"
                      THEN Connected(cursor) ELSE conn
    /\ UNCHANGED <<server, cursor, dom, seen, hold, timers, rec, poll, spent,
                   guessed, misfiled>>

\* _settleHistoryReplay, 400 ms after the last line of a replay came in.
SettleReplay ==
    /\ hold # <<>>
    /\ hold' = <<>>
    /\ buf' = Taken(hold[1])
    /\ dom' = IF Shorter(hold[1]) THEN Painted(hold[1]) ELSE hold[1]
    /\ UNCHANGED <<server, conn, cursor, seen, pills, timers, asked, spent, history>>

-------------------------------------------------------------------------------
ServerNext == \/ Produce \/ EndTurn \/ StartTurn \/ Exit \/ Purge \/ Revive
              \/ Launch \/ EndTerminal
GenNext    == GenSlice \/ GenYield \/ GenStatus
EventNext  == OnOutput \/ OnReset \/ OnTurnStart \/ OnEnd \/ OnError
TimerNext  == \/ CheckLands \/ Retry \/ Watchdog \/ FreshnessTick
              \/ ReconcileTimer \/ SettleReplay
PollNext   == \E p \in poll : PollLands(p)
AnswerNext == \/ AskPoll \/ Resurface \/ FallbackAsks \/ LoseAnswer
              \/ ReconcileLands \/ PollNext \/ FallbackLands

Next == ServerNext \/ GenNext \/ Drop \/ EventNext \/ TimerNext \/ AnswerNext

Spec == Init /\ [][Next]_vars

\* What is sure to run: the generator's loop, the browser's delivery of events
\* and errors, the timers, and the requests they send.  Nothing is assumed of
\* the agent, of the people, or of the network.
Fairness ==
    /\ WF_vars(GenNext) /\ WF_vars(EventNext)
    /\ WF_vars(CheckLands) /\ WF_vars(Retry) /\ WF_vars(Watchdog)
    /\ WF_vars(FreshnessTick) /\ WF_vars(ReconcileTimer) /\ WF_vars(SettleReplay)
    /\ WF_vars(FallbackAsks) /\ WF_vars(FallbackLands)
    /\ WF_vars(ReconcileLands) /\ WF_vars(PollNext)

FairSpec == Spec /\ Fairness

-------------------------------------------------------------------------------
\* The types of the variables.
TypeOK ==
    /\ log \in Seq(Line) /\ epoch \in 0 .. 1 /\ status \in Status
    /\ made \in Line /\ terminal \in {"none", "open", "gone"}
    /\ conn \in [mode : {"none", "live", "ended", "silent", "failed"},
                 pc : {"lines", "yield", "status"}, sent : Nat, until : Nat,
                 told : Status \cup {"none"}, idleSent : BOOLEAN,
                 net : Seq(Output \cup Signal)]
    /\ cursor \in Nat /\ buf \in Seq(Line) /\ dom \in Seq(Line)
    /\ seen \in 0 .. 1 /\ hold \in Seq(Seq(Line)) /\ Len(hold) <= 1
    /\ cache \in Pill /\ hist \in Pill
    /\ retries \in 0 .. MaxRetries /\ {checks, stale, retryDue} \subseteq Nat
    /\ reconcileDue \in BOOLEAN
    /\ {rec, fall} \subseteq Snapshot /\ poll \subseteq [number : Nat, answer : Snapshot]
    /\ spent \in 0 .. MaxEvents
    /\ {adopted, guessed, misfiled} \subseteq BOOLEAN

-------------------------------------------------------------------------------
(* Properties.  A rebuilt log and the fallback's replacement are outside of    *)
(* most of them: see HistoryIsKept for what they may do.                       *)

\* The first n lines of the log, with or without the prompt that
\* fetchAgentStatus made up.
Copies(n) == {SubSeq(log, 1, n), <<Task>> \o SubSeq(log, 1, n)}

\* The buffer is exactly the part of the server's log that the cursor counts,
\* whichever of the stream, the polls and the reconciler brought each line, in
\* whatever order their answers landed, and whether or not lines repeat: no
\* line twice, none missing.  Three things break it, and the README shows how
\* each does: an ended terminal's line that answers leave out, a copy placed
\* by a guess, and the fallback's replacement.
BufferIsLog ==
    epoch = 0 /\ terminal # "gone" /\ ~guessed /\ ~adopted
    => cursor <= Len(log) /\ buf \in Copies(cursor)

\* The history guard: nothing but the fallback poll makes the buffer shorter,
\* also when a purge and a revival have left the server with a shorter log and
\* the stream replays it.
HistoryIsKept == [][FallbackLands \/ Len(buf') >= Len(buf)]_vars

\* Once the session rests, the window comes to have every line of a log that is
\* not rebuilt, although connections die unnoticed, lines are written while the
\* generator yields, and turn_complete may overtake the last line.
CatchesUp ==
    <>[](status # "running")
    => <>[](\/ buf \in Copies(Len(log))
            \/ status = "gone" \/ epoch > 0 \/ terminal = "gone" \/ guessed \/ adopted)

\* Once the session rests, idle or over, so does its pill: no answer read
\* earlier, no exhausted retry and no error keeps another status on screen.
PillRests == \A s \in {"idle", "stopped"} : <>[](status = s) => <>[](cache = s)

\* A session that stays running comes to have a live stream and keeps it,
\* whatever the window believed of it before, unless a restart check has given
\* up on the rail entry alone, its status entry being a replaced one.
StreamReturns ==
    <>[](status = "running") => <>[](conn.mode = "live" \/ misfiled)

\* While a stream is open and has delivered all there is, what the buffer holds
\* is on the screen.
ShownWhenStreamed ==
    epoch = 0 /\ ~adopted /\ conn.mode = "live" /\ conn.net = <<>> => dom = buf
=============================================================================
