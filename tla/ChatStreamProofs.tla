--------------------------- MODULE ChatStreamProofs ---------------------------
(***************************************************************************)
(* The promises of ChatStream, for any number of lines, polls, losses and   *)
(* retries: the window is well typed, nothing but the fallback poll makes   *)
(* its history shorter, and as long as the log is not rebuilt, answers list *)
(* all of it and no copy was placed by a guess, its buffer is the part of   *)
(* the log that its cursor counts.                                          *)
(*                                                                          *)
(* The first section says what the window's loops over lines compute: a     *)
(* run of such a loop exists, by a least position at which none does, and   *)
(* Kept is its end. FirstLog, in the last section, makes BufferIsLog        *)
(* inductive: all copies of the log that are on their way, in answers and   *)
(* in the stream, are parts of it.                                          *)
(***************************************************************************)
EXTENDS ChatStream, SequenceTheorems, WellFoundedInduction, TLAPS

(***************************************************************************)
(* Least and greatest elements.                                             *)
(***************************************************************************)
\* A set of naturals that is not empty has a least element.
LEMMA LeastOf ==
    ASSUME NEW S \in SUBSET Nat, S # {}
    PROVE  \E x \in S : \A y \in S : x <= y
<1>1. PICK x \in S : \A y \in S : ~(<<y, x>> \in OpToRel(<, Nat))
  BY WFMin, NatLessThanWellFounded
<1>2. ASSUME NEW y \in S PROVE x <= y
  <2>1. <<y, x>> \in Nat \X Nat /\ ~(<<y, x>> \in OpToRel(<, Nat))
    BY <1>1
  <2> QED
    BY <2>1 DEF OpToRel
<1> QED
  BY <1>2

\* The least element is what Min picks.
LEMMA MinOf ==
    ASSUME NEW S \in SUBSET Nat, S # {}
    PROVE  Min(S) \in S /\ \A y \in S : Min(S) <= y
BY LeastOf DEF Min

\* ... and a greatest, when it is bounded.
LEMMA MaxOf ==
    ASSUME NEW n \in Nat, NEW S \in SUBSET (0 .. n), S # {}
    PROVE  Max(S) \in S /\ \A y \in S : Max(S) >= y
<1> DEFINE T == {n - x : x \in S}
<1>1. T \in SUBSET Nat /\ T # {}
  <2>1. \A x \in S : x \in 0 .. n
    OBVIOUS
  <2>2. \A x \in S : n - x \in Nat
    BY <2>1
  <2> QED
    BY <2>2
<1>2. PICK t \in T : \A u \in T : t <= u
  BY <1>1, LeastOf
<1>3. PICK x \in S : t = n - x
  OBVIOUS
<1>4. \A y \in S : x >= y
  BY <1>2, <1>3
<1> QED
  BY <1>4 DEF Max

(***************************************************************************)
(* The loops over lines.                                                    *)
(***************************************************************************)

\* What the loop holds after line i, when it held g[i - 1] before.
Turn(lines, keeps, g, i) ==
    IF i = 0 THEN <<>>
    ELSE IF <<Len(g[i - 1]), i>> \in keeps THEN Append(g[i - 1], lines[i]) ELSE g[i - 1]

\* g is a run of the loop up to line n.
Loop(lines, keeps, g, n) ==
    /\ g \in [0 .. n -> Seq(Line)]
    /\ \A i \in 0 .. n : g[i] = Turn(lines, keeps, g, i)

\* There is a run of the loop over every line: a recursion over the positions is
\* a function, built from a shortest run that could not be continued.
LEMMA LoopRuns ==
    ASSUME NEW lines \in Seq(Line), NEW keeps
    PROVE  \E g : Loop(lines, keeps, g, Len(lines))
<1> DEFINE L == Len(lines)
           T == {n \in 0 .. L : ~ \E g : Loop(lines, keeps, g, n)}
<1>1. SUFFICES ASSUME T # {} PROVE FALSE
  <2>1. L \in 0 .. L
    OBVIOUS
  <2> QED
    BY <2>1
<1>2. PICK n \in T : \A m \in T : n <= m
  <2>1. T \in SUBSET Nat
    OBVIOUS
  <2> HIDE DEF T
  <2> QED
    BY <1>1, <2>1, LeastOf
<1>3. n # 0
  <2>1. Loop(lines, keeps, [i \in 0 .. 0 |-> <<>>], 0)
    BY DEF Loop, Turn
  <2> QED
    BY <2>1
<1>4. n - 1 \in 0 .. L /\ n - 1 \notin T
  BY <1>2, <1>3
<1>5. PICK g : Loop(lines, keeps, g, n - 1)
  BY <1>4
<1> DEFINE h == [i \in 0 .. n |-> IF i = n THEN Turn(lines, keeps, g, n) ELSE g[i]]
<1>6. Turn(lines, keeps, g, n) \in Seq(Line)
  <2>1. g[n - 1] \in Seq(Line) /\ lines[n] \in Line
    BY <1>3, <1>5 DEF Loop
  <2>2. n # 0
    BY <1>3
  <2> QED
    BY <2>1, <2>2 DEF Turn
<1>7. h \in [0 .. n -> Seq(Line)]
  BY <1>5, <1>6 DEF Loop
<1>8. ASSUME NEW i \in 0 .. n PROVE h[i] = Turn(lines, keeps, h, i)
  <2>1. i # 0 => h[i - 1] = g[i - 1]
    BY <1>4
  <2>2. h[i] = Turn(lines, keeps, g, i)
    BY <1>5 DEF Loop
  <2> QED
    BY <2>1, <2>2 DEF Turn
<1>9. Loop(lines, keeps, h, n)
  BY <1>7, <1>8 DEF Loop
<1> QED
  BY <1>9

\* Kept is where such a run ends.
LEMMA KeptIsLoop ==
    ASSUME NEW lines \in Seq(Line), NEW keeps
    PROVE  \E g : Loop(lines, keeps, g, Len(lines)) /\ Kept(lines, keeps) = g[Len(lines)]
<1> DEFINE L == Len(lines)
           Whole(g) == g = [i \in 0 .. L |-> Turn(lines, keeps, g, i)]
           got == CHOOSE g : Whole(g)
<1>1. PICK g : Loop(lines, keeps, g, L)
  BY LoopRuns
<1>2. Whole(g)
  BY <1>1 DEF Loop
<1>3. Whole(got)
  BY <1>2
<1>4. Kept(lines, keeps) = got[L]
  BY DEF Kept, Turn
<1>5. \A i \in 0 .. L : got[i] = Turn(lines, keeps, got, i)
  BY <1>3
<1>6. \A i \in 0 .. L : got[i] \in Seq(Line)
  <2> DEFINE T == {i \in 0 .. L : got[i] \notin Seq(Line)}
  <2> HIDE DEF got, Whole
  <2>1. SUFFICES ASSUME T # {} PROVE FALSE
    OBVIOUS
  <2>2. PICK i \in T : \A j \in T : i <= j
    <3>1. T \in SUBSET Nat
      OBVIOUS
    <3> HIDE DEF T
    <3> QED
      BY <2>1, <3>1, LeastOf
  <2>3. i \in 0 .. L /\ got[i] \notin Seq(Line)
    OBVIOUS
  <2>4. i # 0 => i - 1 \in 0 .. L /\ lines[i] \in Line
    BY <2>3
  <2>5. i # 0 => got[i - 1] \in Seq(Line)
    BY <2>2, <2>3, <2>4
  <2>6. got[i] = Turn(lines, keeps, got, i)
    BY <1>5
  <2>7. Turn(lines, keeps, got, i) \in Seq(Line)
    BY <2>3, <2>4, <2>5 DEF Turn
  <2> QED
    BY <2>3, <2>6, <2>7
<1>7. Loop(lines, keeps, got, L)
  <2> HIDE DEF got
  <2> QED
    BY <1>3, <1>5, <1>6 DEF Loop
<1> QED
  BY <1>4, <1>7

\* What a loop keeps are lines.
LEMMA KeptType ==
    ASSUME NEW lines \in Seq(Line), NEW keeps
    PROVE  Kept(lines, keeps) \in Seq(Line)
BY KeptIsLoop DEF Loop

\* A loop that keeps every line it comes to, having kept all before, keeps all.
LEMMA KeptIsWhole ==
    ASSUME NEW lines \in Seq(Line), NEW keeps,
           \A i \in 1 .. Len(lines) : <<i - 1, i>> \in keeps
    PROVE  Kept(lines, keeps) = lines
<1> DEFINE L == Len(lines)
<1>1. PICK g : Loop(lines, keeps, g, L) /\ Kept(lines, keeps) = g[L]
  BY KeptIsLoop
<1> DEFINE Prefix(i) == Len(g[i]) = i /\ \A j \in 1 .. i : g[i][j] = lines[j]
           T == {i \in 0 .. L : ~Prefix(i)}
<1>2. ASSUME T # {} PROVE FALSE
  <2>1. PICK i \in T : \A j \in T : i <= j
    <3>1. T \in SUBSET Nat
      OBVIOUS
    <3> HIDE DEF T
    <3> QED
      BY <1>2, <3>1, LeastOf
  <2>2. i \in 0 .. L /\ ~Prefix(i)
    OBVIOUS
  <2>3. g[i] = Turn(lines, keeps, g, i) /\ g[i] \in Seq(Line)
    BY <1>1, <2>2 DEF Loop
  <2>4. i # 0
    BY <2>2, <2>3 DEF Turn
  <2>5. i - 1 \in 0 .. L /\ Prefix(i - 1) /\ g[i - 1] \in Seq(Line)
    <3>1. i - 1 \in 0 .. L
      BY <2>2, <2>4
    <3>2. i - 1 \notin T
      BY <2>1, <2>2
    <3> QED
      BY <1>1, <3>1, <3>2 DEF Loop
  <2>6. g[i] = Append(g[i - 1], lines[i])
    BY <2>2, <2>3, <2>4, <2>5 DEF Turn
  <2>7. Prefix(i)
    BY <2>2, <2>4, <2>5, <2>6
  <2> QED
    BY <2>2, <2>7
<1>3. Prefix(L) /\ g[L] \in Seq(Line)
  BY <1>1, <1>2 DEF Loop
<1> QED
  BY <1>1, <1>3, SeqEqual

\* What is recovered are lines.
LEMMA RecoveryType ==
    ASSUME NEW incoming \in Seq(Line), NEW have \in Nat
    PROVE  Recovered(incoming, have) \in Seq(Line)
<1>1. SubSeq(incoming, have + 1, Len(incoming)) \in Seq(Line)
  BY SubSeqProperties
<1> QED
  BY <1>1, KeptType DEF Recovered

\* What is left of lines are lines.
LEMMA WithoutType ==
    ASSUME NEW lines \in Seq(Line), NEW dropped
    PROVE  Without(lines, dropped) \in Seq(Line)
BY KeptType DEF Without

\* A slice in which no line comes twice is recovered whole.
LEMMA RecoveryIsWhole ==
    ASSUME NEW incoming \in Seq(Line), NEW have \in Nat,
           IsInjective(SubSeq(incoming, have + 1, Len(incoming)))
    PROVE  Recovered(incoming, have) = SubSeq(incoming, have + 1, Len(incoming))
<1> DEFINE missing == SubSeq(incoming, have + 1, Len(incoming))
           L == Len(missing)
           Place(line) == Min({j \in DOMAIN missing : missing[j] = line})
           keeps == {p \in (0 .. L) \X DOMAIN missing : p[1] < Place(missing[p[2]])}
<1>1. /\ missing \in Seq(Line)
      /\ \A i, j \in 1 .. L : missing[i] = missing[j] => i = j
  <2>1. missing \in Seq(Line)
    BY SubSeqProperties
  <2>2. DOMAIN missing = 1 .. L
    BY <2>1
  <2>3. \A i, j \in DOMAIN missing : missing[i] = missing[j] => i = j
    BY DEF IsInjective
  <2> QED
    BY <2>1, <2>2, <2>3
<1> HIDE DEF missing
<1>2. ASSUME NEW i \in 1 .. L PROVE <<i - 1, i>> \in keeps
  <2>1. DOMAIN missing = 1 .. L /\ L \in Nat
    BY <1>1
  <2>2. {j \in DOMAIN missing : missing[j] = missing[i]} = {i}
    BY <1>1, <2>1
  <2>3. {i} \in SUBSET Nat /\ {i} # {}
    OBVIOUS
  <2>4. Min({i}) \in {i}
    BY <2>3, MinOf
  <2>5. Place(missing[i]) = i
    BY <2>2, <2>4
  <2>6. <<i - 1, i>> \in (0 .. L) \X DOMAIN missing
    BY <2>1
  <2>7. i - 1 < Place(missing[i])
    BY <2>5
  <2> HIDE DEF Place
  <2> QED
    BY <2>6, <2>7
<1>3. Kept(missing, keeps) = missing
  <2> HIDE DEF keeps
  <2> QED
    BY <1>1, <1>2, KeptIsWhole
<1> QED
  BY <1>3 DEF Recovered, missing

(***************************************************************************)
(* Typing.                                                                  *)
(***************************************************************************)
USE DEF server, copy, pills, waits, timers, asked, history, vars, window, beside

\* what the stream carries, and the connections
Event == Output \cup Signal
Conn  == [mode : {"none", "live", "ended", "silent", "failed"},
          pc : {"lines", "yield", "status"}, sent : Nat, until : Nat,
          told : Status \cup {"none"}, idleSent : BOOLEAN, net : Seq(Event)]

\* TypeOK, by the component whose steps disturb it
SessionOK ==
    /\ log \in Seq(Line) /\ epoch \in 0 .. 1 /\ status \in Status
    /\ made \in Line /\ terminal \in {"none", "open", "gone"} /\ spent \in 0 .. MaxEvents
StreamOK == conn \in Conn
CopyOK ==
    /\ cursor \in Nat /\ buf \in Seq(Line) /\ dom \in Seq(Line)
    /\ seen \in 0 .. 1 /\ hold \in Seq(Seq(Line)) /\ Len(hold) <= 1
PillsOK == cache \in Pill /\ hist \in Pill
TimersOK ==
    /\ retries \in 0 .. MaxRetries
    /\ checks \in Nat /\ stale \in Nat /\ retryDue \in Nat /\ reconcileDue \in BOOLEAN
HistoryOK == adopted \in BOOLEAN /\ guessed \in BOOLEAN /\ misfiled \in BOOLEAN
WindowOK == PillsOK /\ TimersOK /\ HistoryOK
\* an answer on its way has a status
Answer == [log : Seq(Line), epoch : 0 .. 1, status : Status]
AnswersOK ==
    /\ rec \in Answer \cup {None} /\ fall \in Answer \cup {None}
    /\ poll \subseteq [number : Nat, answer : Answer]

\* what keeps the lines countable, and the revival single
SessionInv ==
    /\ log # <<>>
    /\ 4 <= made /\ made <= 4 + 2 * spent
    /\ status = "gone" => epoch = 0

\* what the generator yields from: the log of a listed session only grows
YieldInv ==
    /\ conn.mode = "live" => status # "gone"
    /\ conn.pc = "yield" =>
         conn.mode = "live" /\ conn.sent < conn.until /\ conn.until <= Len(log)

\* the inductive invariant of the types
Typed ==
    SessionOK /\ StreamOK /\ CopyOK /\ WindowOK /\ AnswersOK /\ SessionInv /\ YieldInv

\* The typed states are those of TypeOK.
LEMMA TypedIsTypeOK == Typed => TypeOK
<1> SUFFICES ASSUME Typed PROVE TypeOK
  OBVIOUS
<1>1. Answer \subseteq Snapshot /\ Answer \cup {None} \subseteq Snapshot
  <2>1. None \in Snapshot
    BY DEF None, Snapshot
  <2> QED
    BY <2>1 DEF Answer, Snapshot
<1>2. /\ {rec, fall} \subseteq Snapshot
      /\ poll \subseteq [number : Nat, answer : Snapshot]
  <2>1. ASSUME NEW p \in poll PROVE p \in [number : Nat, answer : Snapshot]
    BY <1>1 DEF Typed, AnswersOK
  <2> QED
    BY <1>1, <2>1 DEF Typed, AnswersOK
<1>3. {checks, stale, retryDue} \subseteq Nat /\ {adopted, guessed, misfiled} \subseteq BOOLEAN
  BY DEF Typed, WindowOK, TimersOK, HistoryOK
<1> QED
  BY <1>2, <1>3 DEF Typed, TypeOK, SessionOK, StreamOK, CopyOK, WindowOK, PillsOK, TimersOK,
     Conn, Event

\* A signal is an event of the stream.
LEMMA SignalType ==
    ASSUME NEW e \in {"reset", "turn_start", "turn_complete", "status", "error"}
    PROVE  Sent(e) \in Event
BY DEF Sent, Event, Signal

\* No connection is one.
LEMMA ClosedType == Closed \in Conn
BY DEF Closed, Conn, Status

\* So is one that opens, wherever it starts; a purged session opens none.
LEMMA ConnectedType ==
    ASSUME NEW since \in Nat
    PROVE  /\ Connected(since) \in Conn
           /\ Connected(since).pc = "lines"
           /\ Connected(since).mode = "live" => status # "gone"
<1>1. <<Sent("error")>> \in Seq(Event) /\ <<>> \in Seq(Event)
  BY SignalType
<1> QED
  BY <1>1, ClosedType DEF Connected, Conn, Closed

\* A connection at rest or anew yields nothing.
LEMMA YieldStays ==
    ASSUME Typed, UNCHANGED <<log, status>>, NEW since \in Nat,
           conn' \in {conn, Closed, Connected(since)}
    PROVE  StreamOK' /\ YieldInv'
<1>1. CASE conn' = conn
  BY <1>1 DEF Typed, StreamOK, YieldInv
<1>2. CASE conn' = Closed
  BY <1>2, ClosedType DEF Closed, StreamOK, YieldInv
<1>3. CASE conn' = Connected(since)
  BY <1>3, ConnectedType DEF StreamOK, YieldInv
<1> QED
  BY <1>1, <1>2, <1>3

\* What the merge appends are lines.
LEMMA TailType ==
    ASSUME NEW shown \in Seq(Line), NEW incoming \in Seq(Line)
    PROVE  NewTail(shown, incoming) \in Seq(Line)
<1>1. CASE Anchors(shown, incoming) # {}
  <2>1. Anchors(shown, incoming) \in SUBSET (0 .. Len(incoming))
    BY DEF Anchors
  <2>2. Max(Anchors(shown, incoming)) \in 0 .. Len(incoming)
    <3>1. Len(incoming) \in Nat
      OBVIOUS
    <3>2. Max(Anchors(shown, incoming)) \in Anchors(shown, incoming)
      BY <1>1, <2>1, <3>1, MaxOf, Zenon
    <3> QED
      BY <2>1, <3>2
  <2> QED
    BY <1>1, <2>2 DEF NewTail
<1>2. CASE Anchors(shown, incoming) = {}
  BY <1>2 DEF NewTail
<1> QED
  BY <1>1, <1>2

\* What the window holds and paints after taking a copy are lines, no fewer than
\* before.
LEMMA TakenType ==
    ASSUME CopyOK, NEW incoming \in Seq(Line)
    PROVE  /\ Taken(incoming) \in Seq(Line)
           /\ Painted(incoming) \in Seq(Line)
           /\ Len(Taken(incoming)) >= Len(buf)
<1>1. NewTail(buf, incoming) \in Seq(Line)
  BY TailType DEF CopyOK
<1> QED
  BY <1>1, ConcatProperties DEF Taken, Painted, Shorter, CopyOK

\* The cursor takes the greater count.
LEMMA AdvancedType ==
    ASSUME cursor \in Nat, NEW count \in Nat
    PROVE  /\ Advanced(count) \in Nat
           /\ Advanced(count) = IF count > cursor THEN count ELSE cursor
<1>1. {cursor, count} \in SUBSET (0 .. cursor + count) /\ {cursor, count} # {}
  OBVIOUS
<1>2. cursor + count \in Nat
  OBVIOUS
<1>3. /\ Max({cursor, count}) \in {cursor, count}
      /\ \A y \in {cursor, count} : Max({cursor, count}) >= y
  BY <1>1, <1>2, MaxOf, Zenon
<1> QED
  BY <1>3 DEF Advanced

\* An answer read from a session carries its lines and its status.
LEMMA NowType ==
    ASSUME SessionOK
    PROVE  Now \in Answer
BY WithoutType DEF Now, Listed, Answer, SessionOK

\* What the poll makes of its lines are lines.
LEMMA ShownType ==
    ASSUME NEW lines \in Seq(Line)
    PROVE  Shown(lines) \in Seq(Line)
<1>1. Task \in Line
  BY ChatAssumption DEF Task, Line
<1> QED
  BY <1>1 DEF Shown

\* The bounds are natural numbers.
LEMMA Bounds == MaxEvents \in Nat /\ MaxRetries \in Nat
BY ChatAssumption

\* The first state is typed.
LEMMA TypedInit == Init => Typed
<1> SUFFICES ASSUME Init PROVE Typed
  OBVIOUS
<1>1. log \in Seq(Line) /\ log # <<>>
  <2>1. PICK prompt \in {-2, 2} : log = <<prompt, 3, 4>>
    BY DEF Init
  <2>2. prompt \in Line /\ 3 \in Line /\ 4 \in Line
    BY Bounds DEF Line
  <2> QED
    BY <2>1, <2>2
<1>2. SessionOK /\ SessionInv
  BY <1>1, Bounds DEF Init, SessionOK, SessionInv, Line, Status, Live
<1>3. StreamOK /\ AnswersOK /\ YieldInv
  BY ClosedType DEF Init, StreamOK, AnswersOK, YieldInv, Closed
<1>4. CopyOK
  <2>1. cursor = Len(log) /\ buf = Shown(log) /\ dom = buf /\ seen = 0 /\ hold = <<>>
    BY DEF Init
  <2>2. Len(log) \in Nat /\ Shown(log) \in Seq(Line)
    BY <1>1, ShownType
  <2> QED
    BY <2>1, <2>2, EmptySeq DEF CopyOK
<1>5. WindowOK
  <2>1. PillsOK /\ HistoryOK
    BY DEF Init, PillsOK, HistoryOK, Pill, Live
  <2>2. TimersOK
    <3>1. /\ retries = 0 /\ checks = 0 /\ stale = 0 /\ retryDue = 0
          /\ reconcileDue = FALSE
      BY DEF Init
    <3>2. reconcileDue \in BOOLEAN
      BY <3>1
    <3>3. retries \in 0 .. MaxRetries
      BY <3>1, Bounds
    <3> QED
      BY <3>1, <3>2, <3>3 DEF TimersOK
  <2> QED
    BY <2>1, <2>2 DEF WindowOK
<1> QED
  BY <1>2, <1>3, <1>4, <1>5 DEF Typed

\* Every counted step leaves room for two more lines.
LEMMA LinesLast ==
    ASSUME Typed, Counted
    PROVE  /\ spent' \in 0 .. MaxEvents /\ spent' = spent + 1
           /\ made + 1 \in Line /\ made + 2 \in Line
           /\ -(made + 1) \in Line /\ -(made + 2) \in Line
           /\ made + 2 <= 4 + 2 * spent' /\ 4 <= made
BY Bounds DEF Typed, SessionOK, SessionInv, Counted, Line

\* The session's types survive a step that is counted and makes no line.
LEMMA SessionCounts ==
    ASSUME Typed, UNCHANGED server, Counted
    PROVE  (SessionOK /\ SessionInv)'
<1>1. made \in Nat /\ spent \in Nat /\ spent' = spent + 1 /\ spent' \in 0 .. MaxEvents
  BY LinesLast DEF Typed, SessionOK, SessionInv, Line
<1>2. 4 <= made /\ made <= 4 + 2 * spent'
  BY <1>1 DEF Typed, SessionInv
<1> QED
  BY <1>1, <1>2 DEF Typed, SessionOK, SessionInv

\* The steps of the server keep the types.
LEMMA ServerKeepsTypes ==
    ASSUME Typed, ServerNext
    PROVE  Typed'
<1>1. UNCHANGED window
  BY DEF ServerNext, Produce, EndTurn, StartTurn, Exit, Purge, Revive, Launch, EndTerminal
<1>2. log \in Seq(Line) /\ Len(log) \in Nat
  BY DEF Typed, SessionOK
<1>3. ASSUME Counted, NEW lines \in Seq(Line), lines # <<>>, log' = lines,
             made' \in {made, made + 1, made + 2}, status' \in Status, epoch' \in 0 .. 1,
             terminal' \in {"none", "open", "gone"}, status' = "gone" => epoch' = 0
      PROVE  (SessionOK /\ SessionInv)'
  <2>1. made' \in Line /\ 4 <= made' /\ made' <= 4 + 2 * spent'
    BY <1>3, LinesLast DEF Typed, SessionOK, SessionInv, Line
  <2> QED
    BY <1>3, <2>1, LinesLast DEF SessionOK, SessionInv
<1>4. ASSUME Len(log) <= Len(log'), Len(log') \in Nat, status' = "gone" => conn.mode # "live"
      PROVE  YieldInv'
  BY <1>1, <1>2, <1>4 DEF Typed, StreamOK, Conn, YieldInv
<1>5. ASSUME Counted, NEW line \in Line, log' = Append(log, line), made' \in {made, made + 1},
             status' \in Live, epoch' = epoch, terminal' \in {"none", "open", "gone"}
      PROVE  (SessionOK /\ SessionInv /\ YieldInv)'
  <2>1. log' \in Seq(Line) /\ log' # <<>> /\ Len(log) <= Len(log') /\ Len(log') \in Nat
    BY <1>2, <1>5
  <2>2. status' \in Status /\ status' # "gone" /\ epoch' \in 0 .. 1
    BY <1>5 DEF Status, Live, Typed, SessionOK
  <2> QED
    BY <1>3, <1>4, <1>5, <2>1, <2>2
<1>6. ASSUME UNCHANGED <<log, epoch, made, spent>>, status' \in {status, "idle", "stopped"},
             terminal' \in {"none", "open", "gone"}
      PROVE  (SessionOK /\ SessionInv /\ YieldInv)'
  <2>1. (SessionOK /\ SessionInv)'
    BY <1>6 DEF Typed, SessionOK, SessionInv, Status, Live
  <2> QED
    BY <1>1, <1>6, <2>1 DEF Typed, YieldInv
<1>7. ASSUME NEW line \in Line PROVE Written(line) \subseteq Line
  BY <1>2, <1>7 DEF Written, Range
<1>8. CASE Produce \/ StartTurn
  <2>1. Counted /\ made' = made + 1 /\ status' = "running" /\ UNCHANGED <<epoch, terminal>>
    BY <1>8 DEF Produce, StartTurn
  <2>2. PICK line \in Written(made + 1) \cup Written(-(made + 1)) : log' = Append(log, line)
    BY <1>8 DEF Produce, StartTurn
  <2>3. line \in Line
    BY <1>7, <2>1, <2>2, LinesLast
  <2>4. terminal' \in {"none", "open", "gone"}
    BY <2>1 DEF Typed, SessionOK
  <2> QED
    BY <1>1, <1>5, <2>1, <2>2, <2>3, <2>4 DEF Live, Typed, StreamOK, CopyOK, WindowOK,
       PillsOK, TimersOK, HistoryOK, AnswersOK
<1>9. CASE Launch
  <2>1. Marker \in Line
    BY Bounds DEF Marker, Line
  <2> QED
    BY <1>1, <1>5, <1>9, <2>1 DEF Launch, Typed, StreamOK, CopyOK, WindowOK,
       PillsOK, TimersOK, HistoryOK, AnswersOK
<1>10. CASE EndTurn \/ Exit
  <2>1. /\ UNCHANGED <<log, epoch, made, spent>> /\ status' \in {status, "idle", "stopped"}
        /\ terminal' \in {"none", "open", "gone"}
    BY <1>10 DEF EndTurn, Exit, Typed, SessionOK
  <2> QED
    BY <1>1, <1>6, <2>1 DEF Typed, StreamOK, CopyOK, WindowOK, PillsOK, TimersOK, HistoryOK,
       AnswersOK
<1>11. CASE Purge
  <2>1. /\ Counted /\ UNCHANGED <<log, epoch, made, terminal>> /\ epoch = 0
        /\ status' = "gone" /\ conn.mode # "live"
    BY <1>11 DEF Purge
  <2>2. (SessionOK /\ SessionInv)'
    BY <1>3, <2>1 DEF Typed, SessionOK, SessionInv, Status
  <2>3. YieldInv'
    BY <1>2, <1>4, <2>1
  <2> QED
    BY <1>1, <2>2, <2>3 DEF Typed, StreamOK, CopyOK, WindowOK, PillsOK, TimersOK, HistoryOK,
       AnswersOK
<1>12. CASE Revive
  <2>1. made + 1 \in Line /\ -(made + 2) \in Line
    BY <1>12, LinesLast DEF Revive
  <2> DEFINE kept == Transcript
  <2>2. kept \in Seq(Line)
    BY <1>2, WithoutType DEF Transcript
  <2> HIDE DEF kept
  <2>3. PICK given \in {<<>>, kept} : log' = given \o <<made + 1, -(made + 2)>>
    BY <1>12 DEF Revive, kept
  <2>4. given \in Seq(Line) /\ <<made + 1, -(made + 2)>> \in Seq(Line)
    <3>1. <<made + 1, -(made + 2)>> \in Seq(Line)
      BY <2>1
    <3>2. given = <<>> \/ given = kept
      OBVIOUS
    <3> QED
      BY <2>2, <3>1, <3>2, EmptySeq
  <2>5. log' \in Seq(Line) /\ Len(log') >= 2
    BY <2>3, <2>4, ConcatProperties
  <2>6. log' # <<>>
    BY <2>5
  <2>7. /\ Counted /\ made' = made + 2 /\ status = "gone" /\ status' = "running"
        /\ epoch' = epoch + 1 /\ terminal' = terminal
    BY <1>12 DEF Revive
  <2>8. epoch' \in 0 .. 1 /\ terminal' \in {"none", "open", "gone"} /\ status' \in Status
    BY <2>7 DEF Typed, SessionInv, SessionOK, Status, Live
  <2>9. (SessionOK /\ SessionInv)'
    BY <1>3, <2>5, <2>6, <2>7, <2>8
  <2>10. YieldInv'
    BY <1>1, <2>7 DEF Typed, YieldInv
  <2> QED
    BY <1>1, <2>9, <2>10 DEF Typed, StreamOK, CopyOK, WindowOK, PillsOK, TimersOK, HistoryOK,
       AnswersOK
<1>13. CASE EndTerminal
  <2>1. Counted /\ UNCHANGED <<log, epoch, made, status>> /\ terminal' = "gone"
    BY <1>13 DEF EndTerminal
  <2>2. (SessionOK /\ SessionInv)'
    BY <1>3, <2>1 DEF Typed, SessionOK, SessionInv
  <2>3. YieldInv'
    BY <1>1, <2>1 DEF Typed, YieldInv
  <2> QED
    BY <1>1, <2>2, <2>3 DEF Typed, StreamOK, CopyOK, WindowOK, PillsOK, TimersOK, HistoryOK,
       AnswersOK
<1> QED
  BY <1>8, <1>9, <1>10, <1>11, <1>12, <1>13 DEF ServerNext

\* The steps that leave the session and the bound alone.
LEMMA SessionStays ==
    ASSUME Typed, UNCHANGED <<server, spent>>,
           StreamOK', CopyOK', WindowOK', AnswersOK', YieldInv'
    PROVE  Typed'
BY DEF Typed, SessionOK, SessionInv

\* So do those of the generator.
LEMMA GeneratorKeepsTypes ==
    ASSUME Typed, GenNext
    PROVE  Typed'
<1>1. UNCHANGED <<server, spent>> /\ (CopyOK /\ WindowOK /\ AnswersOK)'
  BY DEF GenNext, GenSlice, GenYield, GenStatus, Typed, CopyOK, WindowOK, PillsOK, TimersOK,
     HistoryOK, AnswersOK
<1>2. /\ log \in Seq(Line) /\ Len(log) \in Nat /\ conn \in Conn /\ conn.net \in Seq(Event)
      /\ conn.sent \in Nat /\ conn.until \in Nat
  BY DEF Typed, SessionOK, StreamOK, Conn
<1>3. (StreamOK /\ YieldInv)'
  <2>1. CASE GenSlice
    <3> DEFINE reset == conn.sent > Len(log)
               from  == IF reset THEN 0 ELSE conn.sent
               net   == IF reset THEN Append(conn.net, Sent("reset")) ELSE conn.net
    <3>1. net \in Seq(Event) /\ from \in Nat
      BY <1>2, SignalType
    <3>2. conn' = [conn EXCEPT
            !.pc = IF from < Len(log) THEN "yield" ELSE "status",
            !.sent = from,
            !.until = IF from < Len(log) THEN Len(log) ELSE 0,
            !.net = net]
      BY <2>1 DEF GenSlice
    <3>3. conn.mode = "live" /\ status # "gone"
      BY <2>1 DEF GenSlice, Typed, YieldInv
    <3> HIDE DEF net, from
    <3>4. /\ conn' \in Conn /\ conn'.mode = "live" /\ conn'.sent = from
          /\ conn'.pc = "yield" => from < Len(log) /\ conn'.until = Len(log)
      BY <1>2, <3>1, <3>2, <3>3 DEF Conn
    <3> QED
      BY <1>1, <1>2, <3>1, <3>3, <3>4 DEF StreamOK, YieldInv
  <2>2. CASE GenYield
    <3> DEFINE next == conn.sent + 1
               event == [type |-> "output", index |-> next, line |-> log[next]]
    <3>1. /\ conn.mode = "live" /\ conn.pc = "yield" /\ status # "gone"
          /\ conn.sent < conn.until /\ conn.until <= Len(log)
      BY <2>2 DEF GenYield, Typed, YieldInv
    <3>2. event \in Event
      BY <1>2, <3>1 DEF Event, Output
    <3>3. Append(conn.net, event) \in Seq(Event)
      BY <1>2, <3>2
    <3>4. conn' = [conn EXCEPT
            !.pc = IF next = conn.until THEN "status" ELSE @,
            !.sent = IF next = conn.until THEN Len(log) ELSE next,
            !.until = IF next = conn.until THEN 0 ELSE @,
            !.net = Append(conn.net, event)]
      BY <2>2 DEF GenYield
    <3> DEFINE net == Append(conn.net, event)
    <3> HIDE DEF event, net
    <3>5. /\ conn' \in Conn /\ conn'.mode = "live"
          /\ conn'.pc = "yield" =>
               next # conn.until /\ conn'.sent = next /\ conn'.until = conn.until
      <4>1. CASE next = conn.until
        <5>1. conn' = [conn EXCEPT !.pc = "status", !.sent = Len(log), !.until = 0, !.net = net]
          BY <3>4, <4>1 DEF net
        <5> QED
          BY <1>2, <3>1, <3>3, <5>1 DEF Conn, net
      <4>2. CASE next # conn.until
        <5>1. conn' = [conn EXCEPT !.sent = next, !.net = net]
          BY <1>2, <3>4, <4>2 DEF Conn, net
        <5>2. next \in Nat /\ net \in Seq(Event)
          BY <1>2, <3>3 DEF net
        <5> HIDE DEF next
        <5>3. conn' \in Conn /\ conn'.mode = "live" /\ conn'.sent = next
          BY <1>2, <3>1, <5>1, <5>2 DEF Conn
        <5>4. conn'.until = conn.until
          BY <1>2, <5>1 DEF Conn
        <5> QED
          BY <4>2, <5>3, <5>4
      <4> QED
        BY <4>1, <4>2
    <3>6. next # conn.until => next < conn.until
      BY <1>2, <3>1
    <3>7. conn'.pc = "yield" => conn'.sent < conn'.until /\ conn'.until <= Len(log)
      BY <3>1, <3>5, <3>6
    <3>8. log' = log /\ status' = status
      BY <1>1
    <3> QED
      BY <3>1, <3>5, <3>7, <3>8 DEF StreamOK, YieldInv
  <2>3. CASE GenStatus
    <3> DEFINE starts == IF status = "running" /\ conn.told # "running"
                         THEN <<Sent("turn_start")>> ELSE <<>>
               ends   == CASE status = "idle" /\ ~conn.idleSent -> <<Sent("turn_complete")>>
                           [] status = "stopped" -> <<Sent("status")>>
                           [] OTHER -> <<>>
    <3>1. starts \in Seq(Event) /\ ends \in Seq(Event)
      BY SignalType
    <3>2. conn.net \o starts \o ends \in Seq(Event)
      <4> HIDE DEF starts, ends
      <4> QED
        BY <1>2, <3>1
    <3>3. status \in Status /\ status # "gone" /\ conn.mode = "live"
      BY <2>3 DEF GenStatus, Typed, SessionOK, YieldInv
    <3> HIDE DEF starts, ends
    <3>4. conn' = [conn EXCEPT
            !.mode = IF status = "stopped" THEN "ended" ELSE @,
            !.pc = "lines",
            !.told = status,
            !.idleSent = status = "idle",
            !.net = @ \o starts \o ends]
      BY <2>3 DEF GenStatus, starts, ends
    <3>5. conn' \in Conn /\ conn'.pc = "lines"
      BY <1>2, <3>2, <3>3, <3>4 DEF Conn
    <3> QED
      BY <1>1, <3>3, <3>5 DEF StreamOK, YieldInv
  <2> QED
    BY <2>1, <2>2, <2>3 DEF GenNext
<1> QED
  BY <1>1, <1>3, SessionStays

\* So do those of the network.
LEMMA DropKeepsTypes ==
    ASSUME Typed, Drop
    PROVE  Typed'
<1>1. UNCHANGED server /\ Counted /\ (CopyOK /\ WindowOK /\ AnswersOK)'
  BY DEF Drop, Typed, CopyOK, WindowOK, PillsOK, TimersOK, HistoryOK, AnswersOK
<1>2. (SessionOK /\ SessionInv)'
  BY <1>1, SessionCounts
<1>3. (StreamOK /\ YieldInv)'
  <2>1. PICK mode \in {"silent", "failed"} : conn' = [Closed EXCEPT !.mode = mode]
    BY DEF Drop
  <2>2. conn' \in Conn /\ conn'.pc = "lines" /\ conn'.mode # "live"
    BY <2>1, ClosedType DEF Conn, Closed
  <2> QED
    BY <2>2 DEF StreamOK, YieldInv
<1> QED
  BY <1>1, <1>2, <1>3 DEF Typed

\* So do the events the window hears.
LEMMA EventsKeepTypes ==
    ASSUME Typed, EventNext
    PROVE  Typed'
<1>1. UNCHANGED <<server, asked, spent, history>>
  BY DEF EventNext, OnOutput, OnReset, OnTurnStart, OnEnd, OnError, Arrives
<1>2. AnswersOK' /\ HistoryOK'
  BY <1>1 DEF Typed, AnswersOK, WindowOK, HistoryOK
<1>3. ASSUME conn.net # <<>> PROVE Head(conn.net) \in Event
  BY <1>3 DEF Typed, StreamOK, Conn
<1>9. (StreamOK /\ YieldInv)'
  <2>1. CASE conn.net # <<>> /\ conn' = Consumed
    <3>1. Tail(conn.net) \in Seq(Event)
      BY <2>1 DEF Typed, StreamOK, Conn
    <3>2. /\ conn' \in Conn /\ conn'.mode = conn.mode /\ conn'.pc = conn.pc
          /\ conn'.sent = conn.sent /\ conn'.until = conn.until
      BY <2>1, <3>1 DEF Typed, StreamOK, Conn, Consumed
    <3> QED
      BY <1>1, <3>2 DEF Typed, StreamOK, YieldInv
  <2>2. CASE conn' = Closed
    BY <2>2, ClosedType DEF Closed, StreamOK, YieldInv
  <2> QED
    BY <2>1, <2>2 DEF EventNext, OnOutput, OnReset, OnTurnStart, OnEnd, OnError, Arrives
<1>4. CASE OnOutput
  <2> DEFINE event == Head(conn.net)
  <2>1. event \in Event /\ event.type = "output"
    BY <1>3, <1>4 DEF OnOutput, Arrives
  <2>2. event.line \in Line
    BY <2>1 DEF Event, Output, Signal
  <2>3. CopyOK'
    <3> HIDE DEF event
    <3>1. \/ UNCHANGED <<cursor, buf, dom, hold>>
          \/ /\ cursor' = cursor + 1
             /\ \/ /\ buf' = Append(buf, event.line) /\ dom' = Append(dom, event.line)
                   /\ UNCHANGED hold
                \/ /\ hold # <<>> /\ hold' = <<Append(hold[1], event.line)>>
                   /\ UNCHANGED <<buf, dom>>
      BY <1>4 DEF OnOutput, event
    <3>2. seen' = seen
      BY <1>4 DEF OnOutput
    <3>3. hold # <<>> => hold[1] \in Seq(Line)
      BY DEF Typed, CopyOK
    <3>4. CASE UNCHANGED <<cursor, buf, dom, hold>>
      BY <3>2, <3>4 DEF Typed, CopyOK
    <3>5. CASE /\ cursor' = cursor + 1
               /\ buf' = Append(buf, event.line) /\ dom' = Append(dom, event.line)
               /\ UNCHANGED hold
      <4>1. buf' \in Seq(Line) /\ dom' \in Seq(Line)
        BY <2>2, <3>5 DEF Typed, CopyOK
      <4> QED
        BY <3>2, <3>5, <4>1 DEF Typed, CopyOK
    <3>6. CASE /\ cursor' = cursor + 1
               /\ hold # <<>> /\ hold' = <<Append(hold[1], event.line)>>
               /\ UNCHANGED <<buf, dom>>
      <4>1. Append(hold[1], event.line) \in Seq(Line)
        BY <2>2, <3>3, <3>6
      <4>2. hold' \in Seq(Seq(Line)) /\ Len(hold') = 1
        BY <3>6, <4>1
      <4> QED
        BY <3>2, <3>6, <4>2 DEF Typed, CopyOK
    <3> QED
      BY <3>1, <3>4, <3>5, <3>6
  <2>4. WindowOK'
    <3>1. UNCHANGED <<pills, waits>> /\ retries' = 0 /\ reconcileDue' \in BOOLEAN
      BY <1>4 DEF OnOutput, Typed, WindowOK, TimersOK
    <3>2. retries' \in 0 .. MaxRetries
      BY <3>1, Bounds
    <3> QED
      BY <1>2, <3>1, <3>2 DEF Typed, WindowOK, PillsOK, TimersOK
  <2> QED
    BY <1>1, <1>2, <1>9, <2>3, <2>4, SessionStays
<1>5. CASE OnReset
  <2>1. CopyOK'
    <3>1. <<<<>>>> \in Seq(Seq(Line)) /\ Len(<<<<>>>>) = 1
      BY EmptySeq
    <3> QED
      BY <1>5, <3>1 DEF OnReset, Typed, CopyOK
  <2>2. WindowOK'
    BY <1>2, <1>5 DEF OnReset, Typed, WindowOK, PillsOK, TimersOK
  <2> QED
    BY <1>1, <1>2, <1>9, <2>1, <2>2, SessionStays
<1>6. CASE OnTurnStart
  <2>1. CopyOK'
    BY <1>6 DEF OnTurnStart, Typed, CopyOK
  <2>2. WindowOK'
    BY <1>2, <1>6 DEF OnTurnStart, Typed, WindowOK, PillsOK, TimersOK, Pill, Live
  <2> QED
    BY <1>1, <1>2, <1>9, <2>1, <2>2, SessionStays
<1>7. CASE OnEnd
  <2>1. CopyOK'
    BY <1>7 DEF OnEnd, Typed, CopyOK
  <2>2. PillsOK'
    BY <1>7 DEF OnEnd, PillsOK, Pill, Live
  <2>3. TimersOK'
    <3>1. retries' = 0 /\ UNCHANGED <<waits, reconcileDue>>
      BY <1>7 DEF OnEnd
    <3>2. retries' \in 0 .. MaxRetries
      BY <3>1, Bounds
    <3> QED
      BY <3>1, <3>2 DEF Typed, WindowOK, TimersOK
  <2> QED
    BY <1>1, <1>2, <1>9, <2>1, <2>2, <2>3, SessionStays DEF WindowOK
<1>8. CASE OnError
  <2>1. CopyOK' /\ PillsOK'
    BY <1>8 DEF OnError, Typed, CopyOK, WindowOK, PillsOK
  <2>2. TimersOK'
    <3>1. UNCHANGED <<retries, stale, retryDue, reconcileDue>> /\ checks' \in {checks, checks + 1}
      BY <1>8 DEF OnError
    <3>2. checks' \in Nat
      BY <3>1 DEF Typed, WindowOK, TimersOK
    <3> QED
      BY <3>1, <3>2 DEF Typed, WindowOK, TimersOK
  <2> QED
    BY <1>1, <1>2, <1>9, <2>1, <2>2, SessionStays DEF WindowOK
<1> QED
  BY <1>4, <1>5, <1>6, <1>7, <1>8 DEF EventNext

\* So does the check that onerror waits for: no retry goes beyond the limit.
LEMMA ChecksKeepTypes ==
    ASSUME Typed, CheckLands
    PROVE  Typed'
<1>1. /\ UNCHANGED <<server, conn, copy, reconcileDue, asked, spent, adopted, guessed>>
      /\ (StreamOK /\ YieldInv /\ CopyOK /\ AnswersOK)'
  BY DEF CheckLands, Typed, StreamOK, YieldInv, CopyOK, AnswersOK
<1>2. /\ retries \in 0 .. MaxRetries /\ checks \in Nat /\ stale \in Nat /\ retryDue \in Nat
      /\ cache \in Pill /\ hist \in Pill
  BY DEF Typed, WindowOK, TimersOK, PillsOK
<1>3. checks' \in Nat /\ stale' \in Nat
  <2>1. \/ checks > 0 /\ checks' = checks - 1 /\ stale' = stale
        \/ stale > 0 /\ stale' = stale - 1 /\ checks' = checks
    BY DEF CheckLands
  <2> QED
    BY <1>2, <2>1
<1>4. \/ /\ MayRetry /\ retries' = retries + 1 /\ retryDue' = retryDue + 1
         /\ cache' = cache /\ hist' = hist /\ misfiled' = misfiled
      \/ /\ retries' = 0 /\ retryDue' = retryDue /\ cache' \in {"stopped", cache}
         /\ hist' = "stopped" /\ misfiled' = (misfiled \/ stale' < stale)
  BY DEF CheckLands
<1>5. retries' \in 0 .. MaxRetries /\ retryDue' \in Nat
  BY <1>2, <1>4, Bounds DEF MayRetry
<1>6. PillsOK'
  BY <1>2, <1>4 DEF PillsOK, Pill
<1>7. HistoryOK'
  BY <1>1, <1>4, Zenon DEF Typed, WindowOK, HistoryOK
<1>8. WindowOK'
  BY <1>1, <1>3, <1>5, <1>6, <1>7 DEF Typed, WindowOK, TimersOK
<1> QED
  BY <1>1, <1>8, SessionStays

\* So do its timers.
LEMMA TimersKeepTypes ==
    ASSUME Typed, Retry \/ Watchdog \/ FreshnessTick \/ ReconcileTimer \/ SettleReplay
    PROVE  Typed'
<1>1. UNCHANGED <<server, pills, retries, checks, stale, poll, fall, spent, history>>
  BY DEF Retry, Watchdog, FreshnessTick, ReconcileTimer, SettleReplay
<1>2. AnswersOK'
  <2>1. rec' \in {rec, Now}
    BY DEF Retry, Watchdog, FreshnessTick, ReconcileTimer, SettleReplay
  <2> QED
    BY <1>1, <2>1, NowType DEF Typed, AnswersOK
<1>3. (StreamOK /\ YieldInv)'
  <2>1. conn' \in {conn, Closed, Connected(cursor)}
    BY DEF Retry, Watchdog, FreshnessTick, ReconcileTimer, SettleReplay
  <2> QED
    BY <1>1, <2>1, YieldStays DEF Typed, CopyOK
<1>4. CopyOK'
  <2>1. CASE Retry \/ Watchdog \/ FreshnessTick \/ ReconcileTimer
    BY <2>1 DEF Retry, Watchdog, FreshnessTick, ReconcileTimer, Typed, CopyOK
  <2>2. CASE SettleReplay
    <3>1. hold[1] \in Seq(Line)
      BY <2>2 DEF SettleReplay, Typed, CopyOK
    <3>2. Taken(hold[1]) \in Seq(Line) /\ Painted(hold[1]) \in Seq(Line)
      BY <3>1, TakenType DEF Typed
    <3>3. <<>> \in Seq(Seq(Line)) /\ Len(<<>>) = 0
      BY EmptySeq
    <3> QED
      BY <2>2, <3>1, <3>2, <3>3 DEF SettleReplay, Typed, CopyOK
  <2> QED
    BY <2>1, <2>2
<1>5. TimersOK'
  <2>1. retryDue \in Nat /\ reconcileDue \in BOOLEAN
    BY DEF Typed, WindowOK, TimersOK
  <2>2. retryDue' = retryDue \/ (retryDue > 0 /\ retryDue' = retryDue - 1)
    BY DEF Retry, Watchdog, FreshnessTick, ReconcileTimer, SettleReplay
  <2>3. retryDue' \in Nat
    BY <2>1, <2>2
  <2>4. reconcileDue' \in BOOLEAN
    BY <2>1 DEF Retry, Watchdog, FreshnessTick, ReconcileTimer, SettleReplay
  <2> QED
    BY <1>1, <2>3, <2>4 DEF Typed, WindowOK, TimersOK
<1>6. WindowOK'
  BY <1>1, <1>5 DEF Typed, WindowOK, PillsOK, HistoryOK
<1> QED
  BY <1>1, <1>2, <1>3, <1>4, <1>6, SessionStays

\* So do its requests.
LEMMA RequestsKeepTypes ==
    ASSUME Typed, AskPoll \/ Resurface \/ FallbackAsks
    PROVE  Typed'
<1>1. UNCHANGED <<server, copy, pills, timers, rec, history>>
  BY DEF AskPoll, Resurface, FallbackAsks
<1>2. CopyOK' /\ WindowOK'
  BY <1>1 DEF Typed, CopyOK, WindowOK, PillsOK, TimersOK, HistoryOK
<1>3. (StreamOK /\ YieldInv)'
  <2>1. conn' = conn \/ conn' = Closed
    BY DEF AskPoll, Resurface, FallbackAsks
  <2> QED
    BY <1>1, <2>1, YieldStays
<1>4. Counted \/ spent' = spent
  BY DEF AskPoll, Resurface, FallbackAsks, Polled
<1>5. spent' \in Nat
  BY <1>4, Bounds, LinesLast DEF Typed, SessionOK
<1>6. AnswersOK'
  <2>1. [number |-> spent', answer |-> Now] \in [number : Nat, answer : Answer]
    BY <1>5, NowType DEF Typed
  <2>2. /\ poll' = poll \/ poll' = poll \cup {[number |-> spent', answer |-> Now]}
        /\ fall' = fall \/ fall' = Now
    BY DEF AskPoll, Resurface, FallbackAsks, Polled
  <2>3. poll' \subseteq [number : Nat, answer : Answer]
    BY <2>1, <2>2 DEF Typed, AnswersOK
  <2> QED
    BY <1>1, <2>2, <2>3, NowType DEF Typed, AnswersOK
<1>7. (SessionOK /\ SessionInv)'
  <2>1. CASE Counted
    BY <1>1, <2>1, SessionCounts
  <2>2. CASE spent' = spent
    BY <1>1, <2>2 DEF Typed, SessionOK, SessionInv
  <2> QED
    BY <1>4, <2>1, <2>2
<1> QED
  BY <1>2, <1>3, <1>6, <1>7 DEF Typed

\* So does their loss.
LEMMA LossKeepsTypes ==
    ASSUME Typed, LoseAnswer
    PROVE  Typed'
<1>1. UNCHANGED <<server, conn, copy, pills, timers, history>> /\ Counted
  BY DEF LoseAnswer
<1>2. (SessionOK /\ SessionInv)'
  BY <1>1, SessionCounts
<1>3. AnswersOK'
  BY DEF LoseAnswer, Typed, AnswersOK
<1>4. (StreamOK /\ YieldInv /\ CopyOK /\ WindowOK)'
  BY <1>1 DEF Typed, StreamOK, YieldInv, CopyOK, WindowOK, PillsOK, TimersOK, HistoryOK
<1> QED
  BY <1>2, <1>3, <1>4 DEF Typed

\* So does the reconciler's answer.
LEMMA ReconcileKeepsTypes ==
    ASSUME Typed, ReconcileLands
    PROVE  Typed'
<1>1. /\ UNCHANGED <<server, conn, timers, poll, fall, spent, adopted, misfiled>>
      /\ rec' = None
  BY DEF ReconcileLands
<1>2. (StreamOK /\ YieldInv /\ AnswersOK /\ TimersOK)'
  BY <1>1 DEF Typed, StreamOK, YieldInv, AnswersOK, WindowOK, TimersOK
<1>3. rec.log \in Seq(Line) /\ rec.epoch \in 0 .. 1 /\ rec.status \in Status
  BY DEF ReconcileLands, Typed, AnswersOK, Answer
<1>4. CopyOK'
  <2>1. CASE rec.status = "gone"
    BY <2>1 DEF ReconcileLands, Typed, CopyOK
  <2>2. CASE rec.status # "gone"
    <3> DEFINE new == Recovered(rec.log, cursor)
    <3>1. /\ Taken(rec.log) \in Seq(Line) /\ Painted(rec.log) \in Seq(Line)
          /\ Advanced(Len(rec.log)) \in Nat
      BY <1>3, TakenType, AdvancedType, LenProperties DEF Typed, CopyOK
    <3>2. new \in Seq(Line)
      BY <1>3, RecoveryType DEF Typed, CopyOK
    <3>3. buf \o new \in Seq(Line) /\ dom \o new \in Seq(Line) /\ cursor + Len(new) \in Nat
      <4> HIDE DEF new
      <4> QED
        BY <3>2, ConcatProperties, LenProperties DEF Typed, CopyOK
    <3>4. hold' = hold /\ seen' = rec.epoch
      BY <2>2 DEF ReconcileLands
    <3>5. /\ buf' = Taken(rec.log) \/ buf' = buf \o new
          /\ dom' = Painted(rec.log) \/ dom' = rec.log \/ dom' = dom \o new
          /\ cursor' = Advanced(Len(rec.log)) \/ cursor' = cursor + Len(new)
      BY <2>2 DEF ReconcileLands
    <3> HIDE DEF new
    <3>6. buf' \in Seq(Line) /\ dom' \in Seq(Line) /\ cursor' \in Nat
      BY <1>3, <3>1, <3>3, <3>5
    <3> QED
      BY <1>3, <3>4, <3>6 DEF Typed, CopyOK
  <2> QED
    BY <2>1, <2>2
<1>5. PillsOK'
  BY <1>3 DEF ReconcileLands, StatusSynced, Typed, WindowOK, PillsOK, Status, Pill
<1>6. HistoryOK'
  <2>1. \/ guessed' = guessed
        \/ guessed' = (guessed \/ (Shorter(rec.log) /\ Ambiguous(buf)))
        \/ guessed' = (guessed \/ ~IsInjective(SubSeq(rec.log, cursor + 1, Len(rec.log))))
    BY DEF ReconcileLands
  <2> QED
    BY <1>1, <2>1, Zenon DEF Typed, WindowOK, HistoryOK
<1> QED
  BY <1>1, <1>2, <1>4, <1>5, <1>6, SessionStays DEF Typed, WindowOK

\* So does a poll's.
LEMMA PollKeepsTypes ==
    ASSUME Typed, NEW p \in poll, PollLands(p)
    PROVE  Typed'
<1> DEFINE a == p.answer
           lines == Shown(a.log)
<1>1. /\ UNCHANGED <<server, retries, retryDue, reconcileDue, rec, fall, spent,
                     adopted, misfiled>>
      /\ poll' = poll \ {p}
  BY DEF PollLands
<1>2. AnswersOK'
  BY <1>1 DEF Typed, AnswersOK
<1>3. a.log \in Seq(Line) /\ a.epoch \in 0 .. 1 /\ a.status \in Status
  BY DEF Typed, AnswersOK, Answer
<1>4. lines \in Seq(Line)
  BY <1>3, ShownType
<1>5. \/ /\ a.status = "gone" /\ UNCHANGED <<copy, checks, stale, guessed>>
         /\ \/ UNCHANGED <<conn, pills>>
            \/ conn' = Closed /\ cache' = "stopped" /\ hist' = "stopped"
      \/ /\ a.status # "gone" /\ cache' = a.status /\ hist' = hist
         /\ checks' = 0 /\ stale' = stale + checks
         /\ buf' = Taken(lines) /\ (dom' = buf' \/ dom' = Painted(lines))
         /\ cursor' = Advanced(Len(a.log)) /\ seen' = a.epoch /\ hold' = hold
         /\ conn' = conn \/ conn' = Connected(cursor')
         /\ guessed' = (guessed \/ IF Shorter(lines) THEN Ambiguous(buf)
                                                     ELSE Len(a.log) < cursor)
  BY DEF PollLands
<1> HIDE DEF a, lines
<1>6. CopyOK'
  <2>1. /\ Taken(lines) \in Seq(Line) /\ Painted(lines) \in Seq(Line)
        /\ Advanced(Len(a.log)) \in Nat
    BY <1>3, <1>4, TakenType, AdvancedType, LenProperties DEF Typed, CopyOK
  <2> QED
    BY <1>3, <1>5, <2>1 DEF Typed, CopyOK
<1>7. (StreamOK /\ YieldInv)'
  <2>1. cursor' \in Nat /\ conn' \in {conn, Closed, Connected(cursor')}
    BY <1>5, <1>6 DEF CopyOK
  <2> QED
    BY <1>1, <2>1, YieldStays
<1>8. PillsOK'
  BY <1>3, <1>5 DEF Typed, WindowOK, PillsOK, Pill, Status, Live
<1>9. TimersOK'
  BY <1>1, <1>5 DEF Typed, WindowOK, TimersOK
<1>10. HistoryOK'
  <2>1. \/ guessed' = guessed
        \/ guessed' = (guessed \/ IF Shorter(lines) THEN Ambiguous(buf)
                                                    ELSE Len(a.log) < cursor)
    BY <1>5
  <2>2. guessed' \in BOOLEAN
    BY <2>1, Zenon DEF Typed, WindowOK, HistoryOK
  <2> QED
    BY <1>1, <2>2 DEF Typed, WindowOK, HistoryOK
<1> QED
  BY <1>1, <1>2, <1>6, <1>7, <1>8, <1>9, <1>10, SessionStays DEF Typed, WindowOK

\* So does the fallback's.
LEMMA FallbackKeepsTypes ==
    ASSUME Typed, FallbackLands
    PROVE  Typed'
<1>1. /\ UNCHANGED <<server, cursor, dom, seen, hold, timers, rec, poll, spent,
                     guessed, misfiled>>
      /\ fall' = None
  BY DEF FallbackLands
<1>2. AnswersOK'
  BY <1>1 DEF Typed, AnswersOK
<1>3. CopyOK'
  <2>1. fall.log \in Seq(Line)
    BY DEF FallbackLands, Typed, AnswersOK, Answer
  <2>2. buf' = buf \/ buf' = fall.log
    BY DEF FallbackLands
  <2> QED
    BY <1>1, <2>1, <2>2 DEF Typed, CopyOK
<1>4. (StreamOK /\ YieldInv)'
  <2>1. conn' = conn \/ conn' = Connected(cursor)
    BY DEF FallbackLands
  <2> QED
    BY <1>1, <2>1, YieldStays DEF Typed, CopyOK
<1>5. PillsOK'
  <2>1. cache' \in {cache, "stopped"} /\ hist' \in {hist, "stopped"}
    BY DEF FallbackLands
  <2> QED
    BY <2>1 DEF Typed, WindowOK, PillsOK, Pill
<1>6. HistoryOK'
  <2> DEFINE lost == ~HasHandle /\ fall.status \in {"stopped", "gone"} /\ fall.status = "stopped"
  <2>1. adopted' = (adopted \/ lost)
    BY DEF FallbackLands
  <2> QED
    BY <1>1, <2>1, Zenon DEF Typed, WindowOK, HistoryOK
<1>7. WindowOK'
  BY <1>1, <1>5, <1>6 DEF Typed, WindowOK, TimersOK
<1> QED
  BY <1>1, <1>2, <1>3, <1>4, <1>7, SessionStays

\* Every step keeps the types.
LEMMA TypedStep ==
    ASSUME Typed, [Next]_vars
    PROVE  Typed'
<1>1. CASE UNCHANGED vars
  BY <1>1 DEF Typed, SessionOK, SessionInv, StreamOK, YieldInv, CopyOK, WindowOK, PillsOK,
     TimersOK, HistoryOK, AnswersOK
<1> QED
  BY <1>1, ServerKeepsTypes, GeneratorKeepsTypes, DropKeepsTypes, EventsKeepTypes,
     ChecksKeepTypes, TimersKeepTypes, RequestsKeepTypes, LossKeepsTypes,
     ReconcileKeepsTypes, PollKeepsTypes, FallbackKeepsTypes
     DEF Next, TimerNext, AnswerNext, PollNext

\* The window and its session are well typed, for any number of lines, polls,
\* losses, purges and retries: no retry beyond the limit, one replay at a time.
THEOREM ChatTypeCorrect == Spec => []TypeOK
<1>1. Spec => []Typed
  BY TypedInit, TypedStep, PTL DEF Spec
<1> QED
  BY <1>1, TypedIsTypeOK, PTL

(***************************************************************************)
(* The history is kept.                                                     *)
(***************************************************************************)
\* Whatever the server's log has become, no step but the fallback poll shortens
\* what the window holds: _mergeShorterHistory guards every other one.
THEOREM HistoryStays == Spec => HistoryIsKept
<1>1. ASSUME Typed, [Next]_vars
      PROVE  FallbackLands \/ Len(buf') >= Len(buf) \/ UNCHANGED vars
  <2>1. buf \in Seq(Line) /\ Len(buf) \in Nat
    BY <1>1 DEF Typed, CopyOK
  <2>2. CASE OnOutput
    <3>1. PICK line : buf' = Append(buf, line) \/ buf' = buf
      BY <2>2 DEF OnOutput
    <3> QED
      BY <2>1, <3>1
  <2>3. CASE SettleReplay
    <3>1. hold[1] \in Seq(Line)
      BY <1>1, <2>3 DEF SettleReplay, Typed, CopyOK
    <3> QED
      BY <1>1, <2>3, <3>1, TakenType DEF SettleReplay, Typed
  <2>4. CASE ReconcileLands
    <3>1. rec.log \in Seq(Line) /\ cursor \in Nat
      BY <1>1, <2>4 DEF ReconcileLands, Typed, AnswersOK, Answer, CopyOK
    <3>2. Len(Taken(rec.log)) >= Len(buf)
      BY <1>1, <3>1, TakenType DEF Typed
    <3>3. Len(buf \o Recovered(rec.log, cursor)) >= Len(buf)
      BY <2>1, <3>1, RecoveryType, ConcatProperties, LenProperties
    <3>4. buf' \in {buf, Taken(rec.log), buf \o Recovered(rec.log, cursor)}
      BY <2>4 DEF ReconcileLands
    <3> QED
      BY <2>1, <3>2, <3>3, <3>4
  <2>5. CASE PollNext
    <3>1. PICK p \in poll : PollLands(p)
      BY <2>5 DEF PollNext
    <3>2. Shown(p.answer.log) \in Seq(Line)
      BY <1>1, ShownType DEF Typed, AnswersOK, Answer
    <3>3. Len(Taken(Shown(p.answer.log))) >= Len(buf)
      BY <1>1, <3>2, TakenType DEF Typed
    <3>4. buf' = buf \/ buf' = Taken(Shown(p.answer.log))
      BY <3>1 DEF PollLands
    <3> QED
      BY <2>1, <3>3, <3>4
  <2>6. CASE ServerNext \/ GenNext \/ Drop \/ OnReset \/ OnTurnStart \/ OnEnd \/ OnError
    <3>1. buf' = buf
      BY <2>6 DEF ServerNext, Produce, EndTurn, StartTurn, Exit, Purge, Revive, Launch,
         EndTerminal, GenNext, GenSlice, GenYield, GenStatus, Drop, OnReset, OnTurnStart,
         OnEnd, OnError
    <3> QED
      BY <2>1, <3>1
  <2>7. CASE \/ CheckLands \/ Retry \/ Watchdog \/ FreshnessTick \/ ReconcileTimer
             \/ AskPoll \/ Resurface \/ FallbackAsks \/ LoseAnswer
    <3>1. buf' = buf
      BY <2>7 DEF CheckLands, Retry, Watchdog, FreshnessTick, ReconcileTimer, AskPoll,
         Resurface, FallbackAsks, LoseAnswer
    <3> QED
      BY <2>1, <3>1
  <2> QED
    BY <1>1, <2>2, <2>3, <2>4, <2>5, <2>6, <2>7
       DEF Next, EventNext, TimerNext, AnswerNext
<1>2. Spec => []Typed
  BY TypedInit, TypedStep, PTL DEF Spec
<1> QED
  BY <1>1, <1>2, PTL DEF Spec, HistoryIsKept

(***************************************************************************)
(* The buffer is the log, until the log is rebuilt.                         *)
(***************************************************************************)
\* the lines are the log's first ones
BeginsLog(lines) == Len(lines) <= Len(log) /\ \A i \in 1 .. Len(lines) : lines[i] = log[i]

\* the answers on their way were read from this log
Begins(answer) == answer.epoch = 0 /\ answer.log # <<>> /\ BeginsLog(answer.log)
AnswersBegin == (rec = None \/ Begins(rec)) /\ \A p \in poll : Begins(p.answer)

\* an output on its way is the log's line at its position, and nothing is replayed
Tells(e) ==
    /\ e.type # "reset"
    /\ e.type = "output" => e.index \in 1 .. Len(log) /\ e.line = log[e.index]
StreamTells == conn.sent <= Len(log) /\ \A k \in 1 .. Len(conn.net) : Tells(conn.net[k])

\* the lines are the log's first n, behind the made-up prompt when d is 1
Offset(lines, n, d) ==
    /\ Len(lines) = n + d
    /\ d = 1 => lines[1] = Task
    /\ \A i \in 1 .. n : lines[i + d] = log[i]
Starts(lines, n) == n \in 0 .. Len(log) /\ \E d \in {0, 1} : Offset(lines, n, d)

\* no line of the log is the made-up prompt
NoTask == \A i \in 1 .. Len(log) : log[i] # Task

\* what holds until the log is rebuilt, a terminal's line is left out of it, a
\* copy is placed by a guess, or the fallback replaces the buffer
FirstLog == NoTask /\ hold = <<>> /\ seen = 0 /\ AnswersBegin /\ StreamTells /\ Starts(buf, cursor)
Plain == epoch = 0 /\ terminal # "gone" /\ ~guessed /\ ~adopted
FirstLogInv == Plain => FirstLog

\* The window starts with the log as it is.
LEMMA FirstLogInit == Init => FirstLogInv
<1> SUFFICES ASSUME Init PROVE FirstLog
  BY DEF FirstLogInv
<1>1. PICK prompt \in {-2, 2} : log = <<prompt, 3, 4>>
  BY DEF Init
<1>2. Len(log) = 3 /\ log \in Seq(Int)
  BY <1>1
<1>3. NoTask
  BY <1>1 DEF NoTask, Task
<1>4. cursor = 3 /\ buf = Shown(log)
  BY <1>2 DEF Init
<1>5. Shown(log) = log \/ Shown(log) = <<Task>> \o log
  BY DEF Shown
<1>6. Offset(log, 3, 0) /\ Offset(<<Task>> \o log, 3, 1)
  <2>1. <<Task>> \in Seq(Line) /\ Len(<<Task>>) = 1 /\ <<Task>>[1] = Task
    <3>1. Task \in Line
      BY Bounds DEF Task, Line
    <3> QED
      BY <3>1
  <2>2. /\ Len(<<Task>> \o log) = Len(log) + 1
        /\ \A i \in 1 .. Len(log) + 1 :
             (<<Task>> \o log)[i] = IF i <= 1 THEN <<Task>>[i] ELSE log[i - 1]
    <3>1. log \in Seq(Line) /\ Len(log) \in Nat
      BY TypedInit DEF Typed, SessionOK
    <3> QED
      BY <2>1, <3>1, ConcatProperties
  <2>3. Offset(<<Task>> \o log, 3, 1)
    BY <1>2, <2>1, <2>2 DEF Offset
  <2>4. Offset(log, 3, 0)
    BY <1>2 DEF Offset
  <2> QED
    BY <2>3, <2>4
<1>7. Starts(buf, cursor)
  <2>1. CASE buf = log
    BY <1>2, <1>4, <1>6, <2>1 DEF Starts
  <2>2. CASE buf = <<Task>> \o log
    <3>1. Offset(buf, 3, 1)
      BY <1>6, <2>2
    <3> QED
      BY <1>2, <1>4, <3>1 DEF Starts
  <2> QED
    BY <1>4, <1>5, <2>1, <2>2
<1> QED
  BY <1>3, <1>7 DEF Init, FirstLog, AnswersBegin, StreamTells, Closed

\* What began the log still begins it when it grew.
LEMMA ServerKeepsFirstLog ==
    ASSUME Typed, FirstLog, ServerNext, epoch' = 0, terminal' # "gone"
    PROVE  FirstLog'
<1>1. UNCHANGED window
  BY DEF ServerNext, Produce, EndTurn, StartTurn, Exit, Purge, Revive, Launch, EndTerminal
<1>2. /\ log \in Seq(Line) /\ Len(log) \in Nat /\ made \in Nat /\ 4 <= made /\ epoch \in 0 .. 1
      /\ cursor \in Nat /\ buf \in Seq(Line) /\ conn \in Conn
  BY DEF Typed, SessionOK, SessionInv, CopyOK, StreamOK, Line
<1>3. log' = log \/ \E line : log' = Append(log, line) /\ line # Task
  <2>1. CASE Produce \/ StartTurn
    <3>1. PICK new \in {made + 1, -(made + 1)} :
             \E line \in Written(new) : log' = Append(log, line)
      BY <2>1 DEF Produce, StartTurn
    <3> PICK line \in Written(new) : log' = Append(log, line)
      BY <3>1
    <3>2. line = new \/ line \in Range(log)
      BY DEF Written
    <3>3. new # Task
      BY <1>2 DEF Task
    <3>4. line \in Range(log) => line # Task
      BY <1>2 DEF Range, FirstLog, NoTask
    <3> QED
      BY <3>2, <3>3, <3>4
  <2>2. CASE Launch
    BY <2>2 DEF Launch, Marker, Task
  <2>3. CASE EndTurn \/ Exit \/ Purge \/ EndTerminal
    BY <2>3 DEF EndTurn, Exit, Purge, EndTerminal
  <2>4. ~Revive
    BY <1>2 DEF Revive
  <2> QED
    BY <2>1, <2>2, <2>3, <2>4 DEF ServerNext
<1>4. /\ Len(log') \in Nat /\ Len(log) <= Len(log') /\ NoTask'
      /\ \A i \in 1 .. Len(log) : log'[i] = log[i]
  <2>1. CASE log' = log
    BY <1>2, <2>1 DEF FirstLog, NoTask
  <2>2. ASSUME NEW line, log' = Append(log, line), line # Task
        PROVE  /\ Len(log') \in Nat /\ Len(log) <= Len(log') /\ NoTask'
               /\ \A i \in 1 .. Len(log) : log'[i] = log[i]
    <3>1. /\ Len(log') = Len(log) + 1 /\ log'[Len(log) + 1] = line
          /\ \A i \in 1 .. Len(log) : log'[i] = log[i]
      BY <1>2, <2>2, AppendProperties
    <3> QED
      BY <1>2, <2>2, <3>1 DEF FirstLog, NoTask
  <2> QED
    BY <1>3, <2>1, <2>2
<1>5. ASSUME NEW a \in Answer, Begins(a) PROVE Begins(a)'
  BY <1>2, <1>4, <1>5 DEF Answer, Begins, BeginsLog
<1>6. AnswersBegin'
  BY <1>1, <1>5 DEF Typed, AnswersOK, FirstLog, AnswersBegin
<1>7. StreamTells'
  <2>1. conn.sent \in Nat /\ conn.net \in Seq(Event)
    BY <1>2 DEF Conn
  <2>2. conn.sent <= Len(log')
    BY <1>2, <1>4, <2>1 DEF FirstLog, StreamTells
  <2>3. ASSUME NEW k \in 1 .. Len(conn.net) PROVE Tells(conn.net[k])'
    BY <1>1, <1>2, <1>4 DEF FirstLog, StreamTells, Tells
  <2> QED
    BY <1>1, <2>2, <2>3 DEF StreamTells
<1>8. Starts(buf, cursor)'
  <2>1. PICK d \in {0, 1} : Offset(buf, cursor, d)
    BY DEF FirstLog, Starts
  <2>2. cursor \in 0 .. Len(log') /\ \A i \in 1 .. cursor : log'[i] = log[i]
    BY <1>2, <1>4 DEF FirstLog, Starts
  <2>3. Offset(buf, cursor, d)'
    BY <1>1, <2>1, <2>2 DEF Offset
  <2> QED
    BY <1>1, <2>2, <2>3 DEF Starts
<1> QED
  BY <1>1, <1>4, <1>6, <1>7, <1>8 DEF FirstLog

\* For the other steps, what they change is put together here.
LEMMA FirstLogStays ==
    ASSUME FirstLog, UNCHANGED server, UNCHANGED <<hold, seen>>,
           AnswersBegin', StreamTells', Starts(buf, cursor)'
    PROVE  FirstLog'
BY DEF FirstLog, NoTask

\* Nothing of it moves without the log.
LEMMA CopiesStay ==
    ASSUME UNCHANGED server
    PROVE  /\ UNCHANGED <<rec, poll>> => (AnswersBegin => AnswersBegin')
           /\ UNCHANGED <<buf, cursor>> => (Starts(buf, cursor) => Starts(buf, cursor)')
           /\ UNCHANGED conn => (StreamTells => StreamTells')
BY DEF AnswersBegin, Begins, BeginsLog, Starts, Offset, StreamTells, Tells

\* What the window connects to brings lines of the log from the cursor on.
LEMMA ConnectedTells ==
    ASSUME UNCHANGED server, StreamTells, NEW since \in Nat, since <= Len(log),
           conn' \in {conn, Closed, Connected(since)}
    PROVE  StreamTells'
<1>1. /\ Connected(since).sent <= Len(log) /\ Closed.sent <= Len(log)
      /\ \A k \in 1 .. Len(Connected(since).net) : Tells(Connected(since).net[k])
      /\ \A k \in 1 .. Len(Closed.net) : Tells(Closed.net[k])
  BY DEF Connected, Closed, Tells, Sent
<1> QED
  BY <1>1 DEF StreamTells, Tells

\* The stream carries lines of the log at their positions, and never a reset.
LEMMA StreamKeepsFirstLog ==
    ASSUME Typed, FirstLog, GenNext \/ Drop
    PROVE  FirstLog'
<1>1. UNCHANGED <<server, copy, asked>>
  BY DEF GenNext, GenSlice, GenYield, GenStatus, Drop
<1>2. /\ log \in Seq(Line) /\ Len(log) \in Nat /\ conn \in Conn /\ conn.net \in Seq(Event)
      /\ conn.sent \in Nat /\ conn.until \in Nat
  BY DEF Typed, SessionOK, StreamOK, Conn
<1>3. conn.sent <= Len(log) /\ \A k \in 1 .. Len(conn.net) : Tells(conn.net[k])
  BY DEF FirstLog, StreamTells
<1>4. ASSUME NEW net \in Seq(Event), \A k \in 1 .. Len(net) : Tells(net[k]),
             NEW more \in Seq(Event), \A k \in 1 .. Len(more) : Tells(more[k])
      PROVE  /\ net \o more \in Seq(Event)
             /\ \A k \in 1 .. Len(net \o more) : Tells((net \o more)[k])
  BY <1>4, ConcatProperties
<1>5. ASSUME conn'.sent <= Len(log), \A k \in 1 .. Len(conn'.net) : Tells(conn'.net[k])
      PROVE  StreamTells'
  BY <1>1, <1>5 DEF StreamTells, Tells
<1>6. CASE GenSlice
  <2>1. ~(conn.sent > Len(log))
    BY <1>2, <1>3
  <2>2. conn'.sent = conn.sent /\ conn'.net = conn.net
    BY <1>2, <1>6, <2>1 DEF GenSlice, Conn
  <2> QED
    BY <1>1, <1>3, <1>5, <2>2, FirstLogStays, CopiesStay DEF FirstLog
<1>7. CASE GenYield
  <2> DEFINE next == conn.sent + 1
             event == [type |-> "output", index |-> next, line |-> log[next]]
  <2>1. next \in 1 .. Len(log)
    BY <1>2, <1>7 DEF GenYield, Typed, YieldInv
  <2>2. event \in Event /\ Tells(event)
    BY <1>2, <2>1 DEF Event, Output, Tells
  <2>3. /\ conn'.sent = Len(log) \/ conn'.sent = next
        /\ conn'.net = Append(conn.net, event)
    BY <1>2, <1>7 DEF GenYield, Conn
  <2> HIDE DEF event
  <2>4. \A k \in 1 .. Len(conn'.net) : Tells(conn'.net[k])
    BY <1>2, <1>3, <2>2, <2>3, AppendProperties
  <2>5. conn'.sent <= Len(log)
    BY <1>2, <2>1, <2>3
  <2> QED
    BY <1>1, <1>5, <2>4, <2>5, FirstLogStays, CopiesStay DEF FirstLog
<1>8. CASE GenStatus
  <2> DEFINE starts == IF status = "running" /\ conn.told # "running"
                       THEN <<Sent("turn_start")>> ELSE <<>>
             ends   == CASE status = "idle" /\ ~conn.idleSent -> <<Sent("turn_complete")>>
                         [] status = "stopped" -> <<Sent("status")>>
                         [] OTHER -> <<>>
  <2>1. /\ starts \in Seq(Event) /\ ends \in Seq(Event)
        /\ \A k \in 1 .. Len(starts) : Tells(starts[k])
        /\ \A k \in 1 .. Len(ends) : Tells(ends[k])
    BY SignalType DEF Sent, Tells
  <2>2. conn'.sent = conn.sent /\ conn'.net = conn.net \o starts \o ends
    BY <1>2, <1>8 DEF GenStatus, Conn
  <2> HIDE DEF starts, ends
  <2>3. /\ conn.net \o starts \in Seq(Event)
        /\ \A k \in 1 .. Len(conn.net \o starts) : Tells((conn.net \o starts)[k])
    BY <1>2, <1>3, <1>4, <2>1
  <2>4. \A k \in 1 .. Len(conn'.net) : Tells(conn'.net[k])
    BY <1>4, <2>1, <2>2, <2>3
  <2> QED
    BY <1>1, <1>3, <1>5, <2>2, <2>4, FirstLogStays, CopiesStay DEF FirstLog
<1>9. CASE Drop
  <2>1. conn'.sent = 0 /\ conn'.net = <<>>
    BY <1>9 DEF Drop, Closed
  <2> QED
    BY <1>1, <1>2, <1>5, <2>1, FirstLogStays, CopiesStay DEF FirstLog
<1> QED
  BY <1>6, <1>7, <1>8, <1>9 DEF GenNext

\* A shorter copy of the log brings nothing, when the buffer's last line stands
\* in the buffer once.
LEMMA NoTail ==
    ASSUME NoTask, log \in Seq(Line), buf \in Seq(Line), NEW c \in Nat, NEW d \in {0, 1},
           Offset(buf, c, d), c <= Len(log), ~Ambiguous(buf),
           NEW lines \in Seq(Line), NEW m \in Nat \ {0}, NEW e \in {0, 1},
           Offset(lines, m, e), m + e < c + d
    PROVE  NewTail(buf, lines) = <<>>
<1>1. /\ Len(buf) = c + d /\ Len(lines) = m + e /\ m <= c /\ c >= 1 /\ Len(log) \in Nat
      /\ DOMAIN buf = 1 .. c + d /\ DOMAIN lines = 1 .. m + e /\ buf # <<>>
  BY DEF Offset
<1>2. Last(buf) = log[c]
  <2>1. Last(buf) = buf[c + d]
    BY <1>1 DEF Last
  <2> QED
    BY <1>1, <2>1 DEF Offset
<1>3. \A i \in 1 .. c : buf[i + d] = log[i]
  BY DEF Offset
<1>4. \A i \in 1 .. m : lines[i + e] = log[i]
  BY DEF Offset
<1>5. ASSUME NEW j \in Anchors(buf, lines) PROVE j = Len(lines)
  <2>1. j \in 1 .. m + e /\ lines[j] = log[c]
    BY <1>1, <1>2 DEF Anchors
  <2>2. log[c] # Task
    BY <1>1 DEF NoTask
  <2>3. ~(e = 1 /\ j = 1)
    BY <2>1, <2>2 DEF Offset
  <2>4. j - e \in 1 .. m
    BY <2>1, <2>3
  <2>5. lines[j] = log[j - e]
    <3>1. lines[(j - e) + e] = log[j - e] /\ (j - e) + e = j
      BY <1>4, <2>1, <2>4
    <3> QED
      BY <3>1
  <2>6. buf[(j - e) + d] = Last(buf)
    BY <1>1, <1>2, <1>3, <2>1, <2>4, <2>5
  <2>7. ~((j - e) + d \in 1 .. (c + d) - 1)
    BY <1>1, <2>6 DEF Ambiguous
  <2> QED
    BY <1>1, <2>1, <2>4, <2>7
<1>6. CASE Anchors(buf, lines) # {}
  <2>1. Anchors(buf, lines) = {Len(lines)}
    BY <1>5, <1>6
  <2>2. Max({Len(lines)}) = Len(lines)
    <3>1. /\ Len(lines) \in Nat
          /\ {Len(lines)} \in SUBSET (0 .. Len(lines)) /\ {Len(lines)} # {}
      BY <1>1
    <3>2. Max({Len(lines)}) \in {Len(lines)}
      BY <3>1, MaxOf, Zenon
    <3> QED
      BY <3>2
  <2>3. NewTail(buf, lines) = SubSeq(lines, Len(lines) + 1, Len(lines))
    BY <1>6, <2>1, <2>2 DEF NewTail
  <2>4. /\ SubSeq(lines, Len(lines) + 1, Len(lines)) \in Seq(Line)
        /\ Len(SubSeq(lines, Len(lines) + 1, Len(lines))) = 0
    BY <1>1, SubSeqProperties
  <2> QED
    BY <2>3, <2>4, EmptySeq
<1>7. CASE Anchors(buf, lines) = {}
  <2>1. lines[1 + e] = log[1] /\ buf[1 + d] = log[1]
    BY <1>1, <1>3, <1>4
  <2>2. log[1] \in Range(lines) /\ log[1] \in Range(buf)
    <3>1. 1 + e \in DOMAIN lines /\ 1 + d \in DOMAIN buf
      BY <1>1
    <3> QED
      BY <2>1, <3>1 DEF Range
  <2> QED
    BY <1>7, <2>2 DEF NewTail
<1> QED
  BY <1>6, <1>7

\* A copy of the first log is one of its beginnings, and so is the buffer that
\* took it, when it was not placed by a guess.
LEMMA BeginningsMerge ==
    ASSUME Typed, NoTask, Starts(buf, cursor),
           NEW lines \in Seq(Line), NEW m \in Nat \ {0}, Starts(lines, m),
           Shorter(lines) => ~Ambiguous(buf), ~Shorter(lines) => m >= cursor
    PROVE  Starts(Taken(lines), Advanced(m))
<1>1. cursor \in Nat /\ buf \in Seq(Line) /\ log \in Seq(Line) /\ Len(log) \in Nat
  BY DEF Typed, SessionOK, CopyOK
<1>2. Advanced(m) = IF m > cursor THEN m ELSE cursor
  BY <1>1, AdvancedType
<1>3. CASE Shorter(lines)
  <2>1. PICK d \in {0, 1} : Offset(buf, cursor, d)
    BY DEF Starts
  <2>2. PICK e \in {0, 1} : Offset(lines, m, e)
    BY DEF Starts
  <2>3. m + e < cursor + d
    BY <1>3, <2>1, <2>2 DEF Shorter, Offset
  <2>4. cursor <= Len(log)
    BY <1>1 DEF Starts
  <2>5. NewTail(buf, lines) = <<>>
    BY <1>1, <1>3, <2>1, <2>2, <2>3, <2>4, NoTail
  <2>6. Taken(lines) = buf
    BY <1>1, <1>3, <2>5, ConcatEmptySeq DEF Taken
  <2>7. Advanced(m) = cursor
    BY <1>1, <1>2, <2>3
  <2> QED
    BY <2>6, <2>7
<1>4. CASE ~Shorter(lines)
  <2>1. Taken(lines) = lines /\ Advanced(m) = m
    BY <1>1, <1>2, <1>4 DEF Taken
  <2> QED
    BY <2>1
<1> QED
  BY <1>3, <1>4

\* An output that fits the cursor is the next line of the log.
LEMMA EventsKeepFirstLog ==
    ASSUME Typed, FirstLog, EventNext
    PROVE  FirstLog'
<1>1. UNCHANGED <<server, asked, seen>>
  BY DEF EventNext, OnOutput, OnReset, OnTurnStart, OnEnd, OnError, Arrives
<1>2. /\ log \in Seq(Line) /\ Len(log) \in Nat /\ conn \in Conn /\ conn.net \in Seq(Event)
      /\ cursor \in Nat /\ buf \in Seq(Line)
  BY DEF Typed, SessionOK, StreamOK, CopyOK, Conn
<1>3. ASSUME conn.net # <<>>, conn' = Consumed
      PROVE  Tells(Head(conn.net)) /\ StreamTells'
  <2>1. /\ conn'.sent = conn.sent /\ conn'.net = Tail(conn.net)
    BY <1>2, <1>3 DEF Consumed, Conn
  <2>2. Len(conn.net) >= 1 /\ Head(conn.net) = conn.net[1]
    BY <1>2, <1>3
  <2>3. \A k \in 1 .. Len(Tail(conn.net)) : Tells(Tail(conn.net)[k])
    BY <1>2, <1>3, HeadTailProperties DEF FirstLog, StreamTells
  <2>4. log' = log
    BY <1>1
  <2> QED
    BY <2>1, <2>2, <2>3, <2>4 DEF FirstLog, StreamTells, Tells
<1>4. CASE OnOutput
  <2>1. conn.net # <<>> /\ conn' = Consumed /\ Head(conn.net).type = "output"
    BY <1>4 DEF OnOutput, Arrives
  <2>2. StreamTells' /\ Tells(Head(conn.net))
    BY <1>3, <2>1
  <2> DEFINE event == Head(conn.net)
  <2>3. event.index \in 1 .. Len(log) /\ event.line = log[event.index]
    BY <2>1, <2>2 DEF Tells
  <2> HIDE DEF event
  <2>4. \/ UNCHANGED <<cursor, buf, hold>>
        \/ /\ event.index = cursor + 1 /\ cursor' = cursor + 1 /\ hold' = hold
           /\ buf' = Append(buf, event.line)
    BY <1>4 DEF OnOutput, FirstLog, event
  <2>5. CASE UNCHANGED <<cursor, buf, hold>>
    BY <1>1, <2>2, <2>5, FirstLogStays, CopiesStay DEF FirstLog
  <2>6. CASE /\ event.index = cursor + 1 /\ cursor' = cursor + 1 /\ hold' = hold
             /\ buf' = Append(buf, event.line)
    <3>1. PICK d \in {0, 1} : Offset(buf, cursor, d)
      BY DEF FirstLog, Starts
    <3>2. cursor + 1 \in 0 .. Len(log) /\ event.line = log[cursor + 1]
      BY <1>2, <2>3, <2>6
    <3>3. /\ Len(buf') = cursor + 1 + d
          /\ d = 1 => buf'[1] = Task
          /\ \A i \in 1 .. cursor + 1 : buf'[i + d] = log[i]
      <4>1. Len(buf) = cursor + d /\ (d = 1 => buf[1] = Task)
            /\ \A i \in 1 .. cursor : buf[i + d] = log[i]
        BY <3>1 DEF Offset
      <4>2. /\ Len(buf') = Len(buf) + 1 /\ buf'[Len(buf) + 1] = log[cursor + 1]
            /\ \A j \in 1 .. Len(buf) : buf'[j] = buf[j]
        <5>1. event.line \in Line
          BY <1>2, <3>2
        <5> QED
          BY <1>2, <2>6, <3>2, <5>1, AppendProperties
      <4>3. d = 1 => buf'[1] = Task
        BY <1>2, <4>1, <4>2
      <4>4. ASSUME NEW i \in 1 .. cursor + 1 PROVE buf'[i + d] = log[i]
        <5>1. CASE i \in 1 .. cursor
          <6>1. i + d \in 1 .. Len(buf) /\ buf[i + d] = log[i]
            BY <1>2, <4>1, <5>1
          <6> QED
            BY <4>2, <6>1
        <5>2. CASE i = cursor + 1
          <6>1. i + d = Len(buf) + 1
            BY <1>2, <4>1, <5>2
          <6> QED
            BY <4>2, <5>2, <6>1
        <5> QED
          BY <1>2, <5>1, <5>2
      <4>5. Len(buf') = cursor + 1 + d
        BY <1>2, <4>1, <4>2
      <4> QED
        BY <4>3, <4>4, <4>5
    <3>4. Starts(buf, cursor)'
      BY <1>1, <2>6, <3>2, <3>3 DEF Starts, Offset
    <3> QED
      BY <1>1, <2>2, <2>6, <3>4, FirstLogStays, CopiesStay DEF FirstLog
  <2> QED
    BY <2>4, <2>5, <2>6
<1>5. CASE OnReset
  <2>1. Head(conn.net).type = "reset" /\ conn.net # <<>> /\ conn' = Consumed
    BY <1>5 DEF OnReset, Arrives
  <2> QED
    BY <1>3, <2>1 DEF Tells
<1>6. CASE OnTurnStart \/ OnEnd \/ OnError
  <2>1. UNCHANGED copy
    BY <1>6 DEF OnTurnStart, OnEnd, OnError
  <2>2. StreamTells'
    <3>1. CASE OnTurnStart
      BY <1>3, <3>1 DEF OnTurnStart, Arrives
    <3>2. CASE OnEnd \/ OnError
      <4>1. conn' = Closed
        BY <3>2 DEF OnEnd, OnError
      <4> QED
        BY <1>1, <1>2, <4>1 DEF StreamTells, Closed
    <3> QED
      BY <1>6, <3>1, <3>2
  <2> QED
    BY <1>1, <2>1, <2>2, FirstLogStays, CopiesStay DEF FirstLog
<1> QED
  BY <1>4, <1>5, <1>6 DEF EventNext

\* An answer read now lists the first log.
LEMMA NowBegins ==
    ASSUME Typed, epoch = 0, terminal # "gone"
    PROVE  Begins(Now)
BY DEF Now, Listed, Begins, BeginsLog, Typed, SessionOK, SessionInv

\* The timers, the checks and the requests connect at the cursor and read the log.
LEMMA TimersKeepFirstLog ==
    ASSUME Typed, epoch = 0, terminal # "gone", FirstLog,
           \/ CheckLands \/ Retry \/ Watchdog \/ FreshnessTick \/ ReconcileTimer \/ SettleReplay
           \/ AskPoll \/ Resurface \/ FallbackAsks \/ LoseAnswer
    PROVE  FirstLog'
<1>1. ~SettleReplay
  BY DEF FirstLog, SettleReplay
<1>2. UNCHANGED <<server, copy>>
  BY <1>1 DEF CheckLands, Retry, Watchdog, FreshnessTick, ReconcileTimer, AskPoll, Resurface,
     FallbackAsks, LoseAnswer
<1>3. /\ rec' \in {rec, Now, None}
      /\ poll' \subseteq poll \cup {[number |-> spent', answer |-> Now]}
  BY <1>1 DEF CheckLands, Retry, Watchdog, FreshnessTick, ReconcileTimer, AskPoll, Resurface,
     FallbackAsks, LoseAnswer, Polled
<1>4. conn' \in {conn, Closed, Connected(cursor)}
  BY <1>1 DEF CheckLands, Retry, Watchdog, FreshnessTick, ReconcileTimer, AskPoll, Resurface,
     FallbackAsks, LoseAnswer
<1>5. AnswersBegin'
  <2>1. Begins(Now)
    BY NowBegins
  <2>2. \A p \in poll \cup {[number |-> spent', answer |-> Now]} : Begins(p.answer)
    BY <2>1 DEF FirstLog, AnswersBegin
  <2> QED
    BY <1>2, <1>3, <2>1, <2>2 DEF FirstLog, AnswersBegin, Begins, BeginsLog
<1>6. StreamTells'
  <2>1. cursor \in Nat /\ cursor <= Len(log)
    BY DEF Typed, CopyOK, SessionOK, FirstLog, Starts
  <2> QED
    BY <1>2, <1>4, <2>1, ConnectedTells DEF FirstLog
<1> QED
  BY <1>2, <1>5, <1>6, FirstLogStays, CopiesStay DEF FirstLog

\* The reconciler's slice continues the buffer exactly.
LEMMA ReconcileKeepsFirstLog ==
    ASSUME Typed, FirstLog, ReconcileLands, ~guessed'
    PROVE  FirstLog'
<1> DEFINE lines == rec.log
           missing == SubSeq(lines, cursor + 1, Len(lines))
           whole == Len(lines) < cursor \/ rec.epoch # seen
<1>1. /\ lines \in Seq(Line) /\ log \in Seq(Line) /\ buf \in Seq(Line)
      /\ cursor \in Nat /\ Len(lines) \in Nat /\ Len(log) \in Nat
  BY DEF ReconcileLands, Typed, AnswersOK, Answer, SessionOK, CopyOK
<1>2. UNCHANGED <<server, conn, poll>> /\ rec' = None
  BY DEF ReconcileLands
<1>3. BeginsLog(lines) /\ rec.epoch = 0 /\ lines # <<>>
  BY DEF ReconcileLands, FirstLog, AnswersBegin, Begins
<1>4. AnswersBegin'
  BY <1>2 DEF FirstLog, AnswersBegin, Begins, BeginsLog
<1>5. StreamTells'
  BY <1>2, CopiesStay DEF FirstLog
<1>6. \/ UNCHANGED copy
      \/ /\ whole /\ buf' = Taken(lines) /\ cursor' = Advanced(Len(lines))
         /\ hold' = hold /\ seen' = 0 /\ ~(Shorter(lines) /\ Ambiguous(buf))
      \/ /\ ~whole /\ hold' = hold /\ seen' = 0 /\ IsInjective(missing)
         /\ buf' = buf \o Recovered(lines, cursor)
         /\ cursor' = cursor + Len(Recovered(lines, cursor))
  BY <1>3 DEF ReconcileLands
<1> HIDE DEF lines, missing, whole
<1>7. PICK d \in {0, 1} : Offset(buf, cursor, d)
  BY DEF FirstLog, Starts
<1>8. CASE UNCHANGED copy
  BY <1>2, <1>4, <1>5, <1>8, FirstLogStays, CopiesStay DEF FirstLog
<1>9. CASE /\ whole /\ buf' = Taken(lines) /\ cursor' = Advanced(Len(lines))
           /\ hold' = hold /\ seen' = 0 /\ ~(Shorter(lines) /\ Ambiguous(buf))
  <2>1. Len(lines) \in Nat \ {0}
    BY <1>1, <1>3
  <2>2. Starts(lines, Len(lines))
    <3>1. Offset(lines, Len(lines), 0)
      BY <1>1, <1>3 DEF Offset, BeginsLog
    <3> QED
      BY <1>1, <1>3, <3>1 DEF Starts, BeginsLog
  <2>3. ~Shorter(lines) => Len(lines) >= cursor
    BY <1>1, <1>7 DEF Shorter, Offset
  <2>4. Starts(Taken(lines), Advanced(Len(lines)))
    BY <1>1, <1>9, <2>1, <2>2, <2>3, BeginningsMerge DEF FirstLog
  <2>5. Starts(buf, cursor)'
    BY <1>2, <1>9, <2>4 DEF Starts, Offset
  <2> QED
    BY <1>2, <1>4, <1>5, <1>9, <2>5, FirstLogStays DEF FirstLog
<1>10. CASE /\ ~whole /\ hold' = hold /\ seen' = 0 /\ IsInjective(missing)
            /\ buf' = buf \o Recovered(lines, cursor)
            /\ cursor' = cursor + Len(Recovered(lines, cursor))
  <2>1. Recovered(lines, cursor) = missing
    BY <1>1, <1>10, RecoveryIsWhole DEF missing
  <2>2. Len(lines) >= cursor
    BY <1>1, <1>10 DEF whole
  <2>3. /\ missing \in Seq(Line) /\ Len(missing) = Len(lines) - cursor
        /\ \A i \in 1 .. Len(missing) : missing[i] = lines[cursor + i]
    BY <1>1, <2>2, SubSeqProperties DEF missing
  <2>4. cursor' = Len(lines) /\ Len(lines) \in 0 .. Len(log)
    BY <1>1, <1>3, <1>10, <2>1, <2>3 DEF BeginsLog
  <2>5. /\ Len(buf') = Len(buf) + Len(missing)
        /\ \A i \in 1 .. Len(buf) + Len(missing) :
             buf'[i] = IF i <= Len(buf) THEN buf[i] ELSE missing[i - Len(buf)]
    BY <1>1, <1>10, <2>1, <2>3, ConcatProperties
  <2>6. Len(buf) = cursor + d /\ (d = 1 => buf[1] = Task)
    BY <1>7 DEF Offset
  <2>7. ASSUME NEW i \in 1 .. Len(lines) PROVE buf'[i + d] = log[i]
    <3>1. lines[i] = log[i]
      BY <1>3 DEF BeginsLog
    <3>2. i + d \in 1 .. Len(buf) + Len(missing)
      BY <1>1, <2>2, <2>3, <2>6
    <3>3. CASE i <= cursor
      <4>1. buf[i + d] = log[i] /\ i + d <= Len(buf)
        BY <1>1, <1>7, <2>6, <3>3 DEF Offset
      <4> QED
        BY <2>5, <3>2, <4>1
    <3>4. CASE i > cursor
      <4>1. i - cursor \in 1 .. Len(missing) /\ cursor + (i - cursor) = i
        BY <1>1, <2>2, <2>3, <3>4
      <4>2. missing[i - cursor] = lines[i]
        BY <2>3, <4>1
      <4>3. ~(i + d <= Len(buf)) /\ (i + d) - Len(buf) = i - cursor
        BY <1>1, <2>6, <3>4
      <4> QED
        BY <2>5, <3>1, <3>2, <4>2, <4>3
    <3> QED
      BY <1>1, <3>3, <3>4
  <2>8. Len(buf') = cursor' + d /\ (d = 1 => buf'[1] = Task)
    BY <1>1, <2>3, <2>4, <2>5, <2>6
  <2>9. Starts(buf, cursor)'
    BY <1>2, <2>4, <2>7, <2>8 DEF Starts, Offset
  <2> QED
    BY <1>2, <1>4, <1>5, <1>10, <2>9, FirstLogStays DEF FirstLog
<1> QED
  BY <1>6, <1>8, <1>9, <1>10

\* The poll's copy is longer than the buffer, or changes nothing.
LEMMA PollKeepsFirstLog ==
    ASSUME Typed, FirstLog, NEW p \in poll, PollLands(p), ~guessed'
    PROVE  FirstLog'
<1> DEFINE a == p.answer
           lines == Shown(a.log)
           m == Len(a.log)
<1>1. /\ a.log \in Seq(Line) /\ log \in Seq(Line) /\ buf \in Seq(Line)
      /\ cursor \in Nat /\ m \in Nat /\ Len(log) \in Nat
  BY DEF Typed, AnswersOK, Answer, SessionOK, CopyOK
<1>2. UNCHANGED <<server, rec>> /\ poll' = poll \ {p}
  BY DEF PollLands
<1>3. BeginsLog(a.log) /\ a.epoch = 0 /\ m # 0
  BY <1>1, EmptySeq DEF FirstLog, AnswersBegin, Begins
<1>4. AnswersBegin'
  BY <1>2 DEF FirstLog, AnswersBegin, Begins, BeginsLog
<1>5. \/ UNCHANGED copy /\ (conn' = conn \/ conn' = Closed)
      \/ /\ buf' = Taken(lines) /\ cursor' = Advanced(m)
         /\ hold' = hold /\ seen' = 0 /\ (conn' = conn \/ conn' = Connected(cursor'))
         /\ ~(IF Shorter(lines) THEN Ambiguous(buf) ELSE m < cursor)
  BY <1>3 DEF PollLands
<1>6. lines \in Seq(Line)
  BY <1>1, ShownType
<1>7. Starts(lines, m)
  <2>1. lines = a.log \/ lines = <<Task>> \o a.log
    BY DEF Shown
  <2> HIDE DEF lines, a
  <2>2. Offset(a.log, m, 0)
    BY <1>1, <1>3 DEF Offset, BeginsLog
  <2>3. Offset(<<Task>> \o a.log, m, 1)
    <3>1. Task \in Line
      BY Bounds DEF Task, Line
    <3>2. <<Task>> \in Seq(Line) /\ Len(<<Task>>) = 1 /\ <<Task>>[1] = Task
      BY <3>1
    <3>3. /\ Len(<<Task>> \o a.log) = m + 1
          /\ \A i \in 1 .. m + 1 :
               (<<Task>> \o a.log)[i] = IF i <= 1 THEN <<Task>>[i] ELSE a.log[i - 1]
      BY <1>1, <3>2, ConcatProperties
    <3> QED
      BY <1>1, <1>3, <3>2, <3>3 DEF Offset, BeginsLog
  <2> QED
    <3>1. m \in 0 .. Len(log)
      BY <1>1, <1>3 DEF BeginsLog
    <3>2. \E d \in {0, 1} : Offset(lines, m, d)
      <4>1. CASE lines = a.log
        BY <2>2, <4>1
      <4>2. CASE lines = <<Task>> \o a.log
        BY <2>3, <4>2
      <4> QED
        BY <2>1, <4>1, <4>2
    <3> QED
      BY <3>1, <3>2 DEF Starts
<1> HIDE DEF a, lines, m
<1>8. CASE UNCHANGED copy /\ (conn' = conn \/ conn' = Closed)
  <2>1. StreamTells'
    BY <1>1, <1>2, <1>8, ConnectedTells DEF FirstLog, Starts
  <2> QED
    BY <1>2, <1>4, <1>8, <2>1, FirstLogStays, CopiesStay DEF FirstLog
<1>9. CASE /\ buf' = Taken(lines) /\ cursor' = Advanced(m)
           /\ hold' = hold /\ seen' = 0 /\ (conn' = conn \/ conn' = Connected(cursor'))
           /\ ~(IF Shorter(lines) THEN Ambiguous(buf) ELSE m < cursor)
  <2>1. Starts(Taken(lines), Advanced(m))
    BY <1>1, <1>3, <1>6, <1>7, <1>9, BeginningsMerge DEF FirstLog
  <2>2. Starts(buf, cursor)'
    BY <1>2, <1>9, <2>1 DEF Starts, Offset
  <2>3. cursor' \in Nat /\ cursor' <= Len(log)
    BY <1>1, <1>9, <2>1 DEF Starts
  <2>4. StreamTells'
    BY <1>2, <1>9, <2>3, ConnectedTells DEF FirstLog
  <2> QED
    BY <1>2, <1>4, <1>9, <2>2, <2>4, FirstLogStays DEF FirstLog
<1> QED
  BY <1>5, <1>8, <1>9

\* The fallback only connects, unless it replaces the buffer.
LEMMA FallbackKeepsFirstLog ==
    ASSUME Typed, FirstLog, FallbackLands, ~adopted'
    PROVE  FirstLog'
<1>1. UNCHANGED <<server, copy, rec, poll>> /\ (conn' = conn \/ conn' = Connected(cursor))
  BY DEF FallbackLands
<1>2. cursor \in Nat /\ cursor <= Len(log)
  BY DEF Typed, SessionOK, CopyOK, FirstLog, Starts
<1>3. StreamTells'
  BY <1>1, <1>2, ConnectedTells DEF FirstLog
<1> QED
  BY <1>1, <1>3, FirstLogStays, CopiesStay DEF FirstLog

\* What was not rebuilt, left out, guessed or replaced never was.
LEMMA PlainBefore ==
    ASSUME Typed, Next, Plain'
    PROVE  Plain
<1>1. epoch' = epoch \/ epoch' = epoch + 1
  BY DEF Next, ServerNext, Produce, EndTurn, StartTurn, Exit, Purge, Revive, Launch, EndTerminal,
     GenNext, GenSlice, GenYield, GenStatus, Drop, EventNext, OnOutput, OnReset, OnTurnStart,
     OnEnd, OnError, Arrives, TimerNext, CheckLands, Retry, Watchdog, FreshnessTick,
     ReconcileTimer, SettleReplay, AnswerNext, AskPoll, Resurface, FallbackAsks, LoseAnswer,
     ReconcileLands, PollNext, PollLands, FallbackLands
<1>2. terminal = "gone" => terminal' = "gone"
  BY DEF Next, ServerNext, Produce, EndTurn, StartTurn, Exit, Purge, Revive, Launch, EndTerminal,
     GenNext, GenSlice, GenYield, GenStatus, Drop, EventNext, OnOutput, OnReset, OnTurnStart,
     OnEnd, OnError, Arrives, TimerNext, CheckLands, Retry, Watchdog, FreshnessTick,
     ReconcileTimer, SettleReplay, AnswerNext, AskPoll, Resurface, FallbackAsks, LoseAnswer,
     ReconcileLands, PollNext, PollLands, FallbackLands
<1>3. (guessed => guessed') /\ (adopted => adopted')
  <2>1. CASE ServerNext \/ GenNext \/ Drop
    BY <2>1 DEF ServerNext, Produce, EndTurn, StartTurn, Exit, Purge, Revive, Launch,
       EndTerminal, GenNext, GenSlice, GenYield, GenStatus, Drop
  <2>2. CASE EventNext
    BY <2>2 DEF EventNext, OnOutput, OnReset, OnTurnStart, OnEnd, OnError, Arrives
  <2>3. CASE TimerNext
    BY <2>3 DEF TimerNext, CheckLands, Retry, Watchdog, FreshnessTick, ReconcileTimer,
       SettleReplay
  <2>4. CASE AskPoll \/ Resurface \/ FallbackAsks \/ LoseAnswer
    BY <2>4 DEF AskPoll, Resurface, FallbackAsks, LoseAnswer
  <2>5. CASE ReconcileLands
    BY <2>5 DEF ReconcileLands
  <2>6. CASE PollNext
    <3> PICK p \in poll : PollLands(p)
      BY <2>6 DEF PollNext
    <3>1. adopted' = adopted
      BY DEF PollLands
    <3>2. CASE p.answer.status = "gone"
      BY <3>1, <3>2 DEF PollLands
    <3>3. CASE p.answer.status # "gone"
      <4>1. guessed' = (guessed \/ IF Shorter(Shown(p.answer.log)) THEN Ambiguous(buf)
                                   ELSE Len(p.answer.log) < cursor)
        BY <3>3, Zenon DEF PollLands
      <4> QED
        BY <3>1, <4>1
    <3> QED
      BY <3>2, <3>3
  <2>7. CASE FallbackLands
    BY <2>7 DEF FallbackLands
  <2> QED
    BY <2>1, <2>2, <2>3, <2>4, <2>5, <2>6, <2>7 DEF Next, AnswerNext
<1>4. epoch \in 0 .. 1
  BY DEF Typed, SessionOK
<1> QED
  BY <1>1, <1>2, <1>3, <1>4 DEF Plain

\* Every step keeps the first log's invariant.
LEMMA FirstLogStep ==
    ASSUME Typed, FirstLogInv, [Next]_vars
    PROVE  FirstLogInv'
<1> SUFFICES ASSUME Plain' PROVE FirstLog'
  BY DEF FirstLogInv
<1>1. CASE Next
  <2>1. Plain /\ FirstLog
    BY <1>1, PlainBefore DEF FirstLogInv
  <2>2. epoch = 0 /\ terminal # "gone" /\ epoch' = 0 /\ terminal' # "gone"
        /\ ~guessed' /\ ~adopted'
    BY <2>1 DEF Plain
  <2> QED
    BY <1>1, <2>1, <2>2, ServerKeepsFirstLog, StreamKeepsFirstLog, EventsKeepFirstLog,
       TimersKeepFirstLog, ReconcileKeepsFirstLog, PollKeepsFirstLog, FallbackKeepsFirstLog
       DEF Next, TimerNext, AnswerNext, PollNext
<1>2. CASE UNCHANGED vars
  <2>1. FirstLog
    BY <1>2 DEF FirstLogInv, Plain
  <2> QED
    BY <1>2, <2>1, FirstLogStays, CopiesStay DEF FirstLog
<1> QED
  BY <1>1, <1>2

\* Until the log is rebuilt the buffer is what the cursor counts of it, whatever
\* the stream, the polls and the reconciler brought, in any order, and also when
\* lines repeat: only a copy that was placed by a guess, an ended terminal's
\* line and the fallback's replacement may make it anything else.
THEOREM WindowShowsLog == Spec => []BufferIsLog
<1>1. Typed /\ FirstLogInv /\ [Next]_vars => (Typed /\ FirstLogInv)'
  BY TypedStep, FirstLogStep
<1>2. Typed /\ FirstLogInv => BufferIsLog
  <2> SUFFICES ASSUME Typed, FirstLog PROVE cursor <= Len(log) /\ buf \in Copies(cursor)
    BY DEF BufferIsLog, FirstLogInv, Plain
  <2>1. cursor \in Nat /\ buf \in Seq(Line) /\ log \in Seq(Line) /\ cursor <= Len(log)
    BY DEF Typed, SessionOK, CopyOK, FirstLog, Starts
  <2> DEFINE head == SubSeq(log, 1, cursor)
  <2>2. head \in Seq(Line) /\ Len(head) = cursor /\ \A i \in 1 .. cursor : head[i] = log[i]
    BY <2>1, SubSeqProperties
  <2>3. PICK d \in {0, 1} : Offset(buf, cursor, d)
    BY DEF FirstLog, Starts
  <2> HIDE DEF head
  <2>4. CASE d = 0
    <3>1. Len(buf) = cursor /\ \A i \in 1 .. Len(buf) : buf[i] = log[i]
      BY <2>1, <2>3, <2>4 DEF Offset
    <3>2. buf = head
      BY <2>1, <2>2, <3>1, SeqEqual
    <3> QED
      BY <2>1, <3>2 DEF Copies, head
  <2>5. CASE d = 1
    <3>1. Len(buf) = cursor + 1 /\ buf[1] = Task /\ \A i \in 1 .. cursor : buf[i + 1] = log[i]
      BY <2>3, <2>5 DEF Offset
    <3>2. Task \in Line
      BY Bounds DEF Task, Line
    <3>3. <<Task>> \in Seq(Line) /\ Len(<<Task>>) = 1 /\ <<Task>>[1] = Task
      BY <3>2
    <3>4. /\ <<Task>> \o head \in Seq(Line) /\ Len(<<Task>> \o head) = cursor + 1
          /\ \A i \in 1 .. cursor + 1 :
               (<<Task>> \o head)[i] = IF i <= 1 THEN <<Task>>[i] ELSE head[i - 1]
      BY <2>1, <2>2, <3>3, ConcatProperties
    <3>5. ASSUME NEW i \in 1 .. Len(buf) PROVE buf[i] = (<<Task>> \o head)[i]
      <4>1. CASE i = 1
        BY <2>1, <3>1, <3>3, <3>4, <4>1
      <4>2. CASE i # 1
        <5>1. i - 1 \in 1 .. cursor /\ (i - 1) + 1 = i /\ i \in 1 .. cursor + 1 /\ ~(i <= 1)
          BY <2>1, <3>1, <4>2
        <5>2. buf[i] = log[i - 1] /\ head[i - 1] = log[i - 1]
          BY <2>2, <3>1, <5>1
        <5> QED
          BY <3>4, <5>1, <5>2
      <4> QED
        BY <4>1, <4>2
    <3>6. buf = <<Task>> \o head
      BY <2>1, <3>1, <3>4, <3>5, SeqEqual
    <3> QED
      BY <2>1, <3>6 DEF Copies, head
  <2> QED
    BY <2>4, <2>5
<1>3. Init => Typed /\ FirstLogInv
  BY TypedInit, FirstLogInit
<1> QED
  BY <1>1, <1>2, <1>3, PTL DEF Spec
=============================================================================
