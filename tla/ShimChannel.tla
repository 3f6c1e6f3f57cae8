---------------------------- MODULE ShimChannel ----------------------------
(***************************************************************************)
(* The stdin channel of an interactive agent shim: a server process writes  *)
(* lines to an agent CLI that outlives it.  ShimClient (agent_shim_client)  *)
(* numbers its sends and reconnects once; Shim (agent_shim) serves one      *)
(* owner at a time, refuses a second live server, takes over from a dead    *)
(* one, and writes each number once.  A write into the CLI's pipe blocks    *)
(* for as long as the CLI does not read, under _send_lock.                  *)
(*                                                                          *)
(* A line is <<s, i>>: the i-th that server process s sends.  A connection  *)
(* is a pair of queues with a handler thread at the shim's end.             *)
(***************************************************************************)
EXTENDS Naturals, Sequences

CONSTANTS
    Servers,    \* server processes (pid and creation time)
    Launcher,   \* the one that launched the shim: spec.owner_pid
    Conns,      \* TCP connections
    NoConn,
    MaxLines,   \* bound: lines each server sends
    MaxBreaks   \* bound: time-outs and refused connections

ASSUME ChannelAssumption ==
    /\ Launcher \in Servers
    /\ NoConn \notin Conns
    /\ {MaxLines, MaxBreaks} \subseteq Nat

VARIABLES
    client,      \* each server's ShimClient and the send under way in it
    conn,        \* both directions of each connection and its handler
    owner,       \* owner.pid
    ownerConn,   \* owner.conn
    lastSeq,     \* last_seq
    writer,      \* the handler that is blocked in cli.stdin.write
    stdinClosed, \* _stdin_closed
    stdin,       \* the lines the CLI was given
    verdict,     \* what the caller of each line's send was told
    breaks       \* the bound used up so far

shimVars == <<owner, ownerConn, lastSeq, writer, stdinClosed, stdin>>
callerVars == <<verdict, breaks>>
vars == <<client, conn, shimVars, callerVars>>

Lines == Servers \X (1..MaxLines)
NoCommand == [seq |-> 0, line |-> <<>>]
Commands == [seq : Nat, line : Lines]
Reply(kind, n) == [kind |-> kind, n |-> n]
Replies == [kind : {"ok", "refused", "ack", "gap", "closed"}, n : Nat]

Clients == [up : {"down", "up", "dead"},
            at : {"idle", "dialing", "greeting", "awaiting"},
            why : {"attach", "first", "again"},
            sock : Conns \cup {NoConn},
            broken : BOOLEAN,
            seq : Nat, num : Nat, calls : 0..MaxLines]

TypeOK ==
    /\ client \in [Servers -> Clients]
    /\ \A c \in Conns :
          /\ conn[c].link \in {"unused", "hello", "open", "cut", "shut"}
          /\ conn[c].peer \in Servers
          /\ conn[c].toShim \in Seq(Commands)
          /\ conn[c].toClient \in Seq(Replies)
          /\ conn[c].hand \in Commands \cup {NoCommand}
    /\ owner \in Servers
    /\ ownerConn \in Conns \cup {NoConn}
    /\ lastSeq \in 0..Len(stdin)
    /\ writer \in Conns \cup {NoConn}
    /\ stdinClosed \in BOOLEAN
    /\ stdin \in Seq(Lines)
    /\ verdict \in [Lines -> {"none", "done", "failed"}]
    /\ breaks \in 0..MaxBreaks

Idle == [up |-> "down", at |-> "idle", why |-> "attach", sock |-> NoConn,
         broken |-> FALSE, seq |-> 0, num |-> 0, calls |-> 0]
Unused == [link |-> "unused", peer |-> Launcher, toShim |-> <<>>, toClient |-> <<>>,
           hand |-> NoCommand]

Init ==
    /\ client = [s \in Servers |-> IF s = Launcher THEN [Idle EXCEPT !.up = "up"] ELSE Idle]
    /\ conn = [c \in Conns |-> Unused]
    /\ owner = Launcher
    /\ ownerConn = NoConn
    /\ lastSeq = 0
    /\ writer = NoConn
    /\ stdinClosed = FALSE
    /\ stdin = <<>>
    /\ verdict = [l \in Lines |-> "none"]
    /\ breaks = 0

Running(s) == client[s].up = "up"
Current(s) == <<s, client[s].calls>>
Break == breaks < MaxBreaks /\ breaks' = breaks + 1

\* the client's end is closed: it dropped the socket, or its process is gone
HungUp(c) == ~(Running(conn[c].peer) /\ client[conn[c].peer].sock = c)

(***************************************************************************)
(* ShimClient.                                                              *)
(***************************************************************************)
Update(s, cl) == client' = [client EXCEPT ![s] = cl]

Tell(s, result) ==
    verdict' = IF client[s].why = "attach" THEN verdict
               ELSE [verdict EXCEPT ![Current(s)] = result]

\* a send returns or raises; so does a connect nobody is sending through
Return(s, result, cl) ==
    /\ Tell(s, result)
    /\ Update(s, [cl EXCEPT !.at = "idle"])

Transmit(s, cl, queues) ==
    /\ Update(s, [cl EXCEPT !.at = "awaiting"])
    /\ conn' = [queues EXCEPT ![cl.sock].toShim =
                   Append(@, [seq |-> cl.num, line |-> <<s, cl.calls>>])]
    /\ UNCHANGED verdict

\* adoption at boot connects before there is anything to send
Attach(s) ==
    /\ Running(s)
    /\ client[s].at = "idle"
    /\ client[s].sock = NoConn
    /\ Update(s, [client[s] EXCEPT !.at = "dialing", !.why = "attach"])
    /\ UNCHANGED <<conn, shimVars, callerVars>>

Send(s) ==
    /\ Running(s)
    /\ client[s].at = "idle"
    /\ client[s].calls < MaxLines
    /\ LET cl == [client[s] EXCEPT !.calls = @ + 1, !.why = "first"]
       IN  IF cl.sock = NoConn
           THEN Update(s, [cl EXCEPT !.at = "dialing"]) /\ UNCHANGED <<conn, verdict>>
           ELSE Transmit(s, [cl EXCEPT !.num = cl.seq + 1], conn)
    /\ UNCHANGED <<shimVars, breaks>>

\* connect: the HELLO is on its way
Dial(s, c) ==
    /\ Running(s)
    /\ client[s].at = "dialing"
    /\ conn[c].link = "unused"
    /\ conn' = [conn EXCEPT ![c].link = "hello", ![c].peer = s]
    /\ Update(s, [client[s] EXCEPT !.at = "greeting", !.sock = c])
    /\ UNCHANGED <<shimVars, callerVars>>

Disconnected(s) == [client[s] EXCEPT !.sock = NoConn, !.broken = FALSE]

\* the connection was refused, or nobody answered the HELLO in time
DialFails(s) ==
    /\ Running(s)
    /\ client[s].at \in {"dialing", "greeting"}
    /\ Break
    /\ Return(s, "failed", Disconnected(s))
    /\ UNCHANGED <<conn, shimVars>>

\* the reply at the head of the client's queue, taken
Reading(s) ==
    /\ Running(s)
    /\ ~client[s].broken
    /\ conn[client[s].sock].toClient # <<>>
Heard(s) == Head(conn[client[s].sock].toClient)
Taken(s) == [conn EXCEPT ![client[s].sock].toClient = Tail(@)]

Refused(s) ==
    /\ client[s].at = "greeting"
    /\ Reading(s)
    /\ Heard(s).kind = "refused"
    /\ Return(s, "failed", Disconnected(s))
    /\ conn' = Taken(s)
    /\ UNCHANGED <<shimVars, breaks>>

\* a plausible slip: off by one, the number before the line's is enough
LandedEarly(s, n) == client[s].why = "again" /\ n + 1 >= client[s].num

\* connected: nothing to send, or the line landed before the reconnect, or it
\* is sent now, under the next number or again under its own
Landed(s, n) == client[s].why = "again" /\ n >= client[s].num

Greeted(s) ==
    /\ client[s].at = "greeting"
    /\ Reading(s)
    /\ Heard(s).kind = "ok"
    /\ LET n == Heard(s).n
           cl == [client[s] EXCEPT !.seq = n]
           num == IF cl.why = "first" THEN n + 1 ELSE cl.num
       IN  \/ /\ cl.why = "attach"
              /\ Return(s, "done", cl)
              /\ conn' = Taken(s)
           \/ /\ Landed(s, n)
              /\ Return(s, "done", [cl EXCEPT !.seq = cl.num])
              /\ conn' = Taken(s)
           \/ /\ cl.why # "attach"
              /\ ~Landed(s, n)
              /\ Transmit(s, [cl EXCEPT !.num = num], Taken(s))
    /\ UNCHANGED <<shimVars, breaks>>

\* the reply to a SEND; not_owner never arrives, its connection was shut down
Answered(s) ==
    /\ client[s].at = "awaiting"
    /\ Reading(s)
    /\ LET cl == client[s]
           answer == Heard(s)
       IN  IF answer.kind = "ack"
           THEN Return(s, "done", [cl EXCEPT !.seq = cl.num])
           ELSE Return(s, "failed", IF answer.kind = "gap" THEN [cl EXCEPT !.seq = answer.n - 1]
                                                           ELSE cl)
    /\ conn' = Taken(s)
    /\ UNCHANGED <<shimVars, breaks>>

\* no reply: the socket timed out before, it is shut down, or it times out now.
\* The first attempt reconnects; the second raises and leaves the socket as it is
ReadFails(s) ==
    /\ Running(s)
    /\ client[s].at = "awaiting"
    /\ LET c == conn[client[s].sock] IN
          \/ client[s].broken /\ UNCHANGED breaks
          \/ c.toClient = <<>> /\ c.link \in {"cut", "shut"} /\ UNCHANGED breaks
          \/ ~client[s].broken /\ Break
    /\ \/ /\ client[s].why = "first"
          /\ Update(s, [Disconnected(s) EXCEPT !.at = "dialing", !.why = "again"])
          /\ UNCHANGED verdict
       \/ /\ client[s].why = "again"
          /\ Return(s, "failed", [client[s] EXCEPT !.broken = TRUE])
    /\ UNCHANGED <<conn, shimVars>>

(***************************************************************************)
(* Server processes.                                                        *)
(***************************************************************************)
Boot(s) ==
    /\ client[s].up = "down"
    /\ Update(s, [Idle EXCEPT !.up = "up"])
    /\ UNCHANGED <<conn, shimVars, callerVars>>

Die(s) ==
    /\ Running(s)
    /\ Update(s, [Idle EXCEPT !.up = "dead", !.calls = client[s].calls])
    /\ UNCHANGED <<conn, shimVars, callerVars>>

(***************************************************************************)
(* Shim: a handler per connection (_serve, _do_send).                       *)
(***************************************************************************)
Replied(c, answer) ==
    IF HungUp(c) THEN conn[c] ELSE [conn[c] EXCEPT !.toClient = Append(@, answer)]
Ended(c, state) == [state EXCEPT !.link = "shut", !.toShim = <<>>, !.hand = NoCommand]

OwnerAlive == Running(owner)

\* HELLO: a live different owner refuses, anybody else is displaced
Greet(c) ==
    /\ conn[c].link = "hello"
    /\ IF owner # conn[c].peer /\ OwnerAlive
       THEN /\ conn' = [conn EXCEPT ![c] = Ended(c, Replied(c, Reply("refused", 0)))]
            /\ UNCHANGED <<owner, ownerConn>>
       ELSE /\ conn' = [d \in Conns |->
                  IF d = c THEN [Replied(c, Reply("ok", lastSeq)) EXCEPT !.link = "open"]
                  ELSE IF d = ownerConn THEN [conn[d] EXCEPT !.link = "cut"]
                  ELSE conn[d]]
            /\ owner' = conn[c].peer
            /\ ownerConn' = c
    /\ UNCHANGED <<client, lastSeq, writer, stdinClosed, stdin, callerVars>>

HandlerEnds(c) ==
    /\ conn' = [conn EXCEPT ![c] = Ended(c, @)]
    /\ ownerConn' = IF ownerConn = c THEN NoConn ELSE ownerConn
    /\ UNCHANGED <<client, owner, lastSeq, stdinClosed, callerVars>>

Handling(c) == conn[c].link \in {"open", "cut"}

\* readline: the next command, if this connection is the owner's
Take(c) ==
    /\ Handling(c)
    /\ conn[c].hand = NoCommand
    /\ conn[c].toShim # <<>>
    /\ ownerConn = c
    /\ conn' = [conn EXCEPT ![c].hand = Head(conn[c].toShim), ![c].toShim = Tail(@)]
    /\ UNCHANGED <<client, shimVars, callerVars>>

\* end of input, or a command on a connection that is no longer the owner's
Leave(c) ==
    /\ Handling(c)
    /\ conn[c].hand = NoCommand
    /\ HungUp(c) \/ conn[c].link = "cut"
    /\ HandlerEnds(c)
    /\ UNCHANGED <<writer, stdin>>

\* the payload was read and _send_lock is free
AtLock(c) == conn[c].hand # NoCommand /\ writer = NoConn
InTurn(c) == conn[c].hand.seq = lastSeq + 1 /\ ~stdinClosed

\* ownership is checked again
Displaced(c) ==
    /\ AtLock(c)
    /\ ownerConn # c
    /\ HandlerEnds(c)
    /\ UNCHANGED <<writer, stdin>>

\* a plausible slip: the number counts before the line is written
AdmitCounts(c) ==
    /\ AtLock(c)
    /\ ownerConn = c
    /\ InTurn(c)
    /\ writer' = c
    /\ lastSeq' = conn[c].hand.seq
    /\ UNCHANGED <<client, conn, owner, ownerConn, stdinClosed, stdin, callerVars>>

\* the next number: the write begins
Admit(c) ==
    /\ AtLock(c)
    /\ ownerConn = c
    /\ InTurn(c)
    /\ writer' = c
    /\ UNCHANGED <<client, conn, owner, ownerConn, lastSeq, stdinClosed, stdin, callerVars>>

\* any other number, or no stdin any more: only a reply
Decline(c) ==
    /\ AtLock(c)
    /\ ownerConn = c
    /\ ~InTurn(c)
    /\ LET seq == conn[c].hand.seq
           answer == IF seq <= lastSeq THEN Reply("ack", seq)
                     ELSE IF seq # lastSeq + 1 THEN Reply("gap", lastSeq + 1)
                     ELSE Reply("closed", 0)
       IN  conn' = [conn EXCEPT ![c] = [Replied(c, answer) EXCEPT !.hand = NoCommand]]
    /\ UNCHANGED <<client, shimVars, callerVars>>

(***************************************************************************)
(* cli.stdin.write: it may block for any time, and take-overs go on.        *)
(***************************************************************************)
Given(c) ==
    /\ stdin' = Append(stdin, conn[c].hand.line)
    /\ writer' = NoConn

Counted(c) ==
    /\ lastSeq' = conn[c].hand.seq
    /\ conn' = [conn EXCEPT ![c] =
                   [Replied(c, Reply("ack", conn[c].hand.seq)) EXCEPT !.hand = NoCommand]]
    /\ UNCHANGED <<client, owner, ownerConn, stdinClosed, callerVars>>

\* a plausible slip: a displaced owner's number counts for the new owner
WriteCountsAlways(c) == writer = c /\ Given(c) /\ Counted(c)

\* a plausible slip: the owner's reconnect is taken for a displacement
WriteComparesConns(c) ==
    /\ writer = c
    /\ Given(c)
    /\ IF ownerConn = c THEN Counted(c) ELSE HandlerEnds(c)

\* the bytes are out; the number counts if the owner process is still the same
Write(c) ==
    /\ writer = c
    /\ Given(c)
    /\ IF owner = conn[c].peer THEN Counted(c) ELSE HandlerEnds(c)

\* the CLI is gone
WriteFails(c) ==
    /\ writer = c
    /\ writer' = NoConn
    /\ stdinClosed' = TRUE
    /\ conn' = [conn EXCEPT ![c] = [Replied(c, Reply("closed", 0)) EXCEPT !.hand = NoCommand]]
    /\ UNCHANGED <<client, owner, ownerConn, lastSeq, stdin, callerVars>>

\* orphaned and idle: the main loop closes the CLI's stdin, under _send_lock.
\* It looked for an owner before its policy measured the process tree, so an
\* owner may have attached since; that it ever found none takes the death of
\* the first one.
IdleClose ==
    /\ ~Running(Launcher)
    /\ ~stdinClosed
    /\ writer = NoConn
    /\ stdinClosed' = TRUE
    /\ UNCHANGED <<client, conn, owner, ownerConn, lastSeq, writer, stdin, callerVars>>

ServerStep(s) ==
    \/ Attach(s) \/ Send(s) \/ (\E c \in Conns : Dial(s, c)) \/ DialFails(s) \/ Refused(s)
    \/ Greeted(s) \/ Answered(s) \/ ReadFails(s) \/ Boot(s) \/ Die(s)
ShimStep(c) ==
    Greet(c) \/ Take(c) \/ Leave(c) \/ Displaced(c) \/ Admit(c) \/ Decline(c) \/ Write(c) \/ WriteFails(c)

Next ==
    \/ \E s \in Servers : ServerStep(s)
    \/ \E c \in Conns : ShimStep(c)
    \/ IdleClose

Spec == Init /\ [][Next]_vars

(***************************************************************************)
(* Properties.                                                              *)
(***************************************************************************)
\* The lines of one server reach the CLI in the order it sent them, each at
\* most once: no reconnect, take-over or blocked write repeats one.
LinesInOrder ==
    \A i, j \in 1..Len(stdin) :
        i < j /\ stdin[i][1] = stdin[j][1] => stdin[i][2] < stdin[j][2]

WasGiven(l) == \E i \in 1..Len(stdin) : stdin[i] = l
GaveUp(s) == \E l \in Lines : l[1] = s /\ verdict[l] = "failed"

\* A send that returned has written its line, so a line is never taken for a
\* repetition of another.
DoneIsWritten == \A l \in Lines : verdict[l] = "done" => WasGiven(l)

\* As long as no send of the same server was given up, nothing that happens
\* to connections, and no line of an earlier server, makes a send return
\* without its line having been written.
DoneUnlessGivenUp ==
    \A l \in Lines : verdict[l] = "done" => WasGiven(l) \/ GaveUp(l[1])

\* A connected server that never gave up counts exactly as the shim does: its
\* next number is neither a repetition nor a gap, whatever lines its
\* predecessors, or its own earlier connections, left in the pipe.
NumbersAgree ==
    \A s \in Servers :
        /\ Running(s)
        /\ client[s].at = "idle"
        /\ client[s].sock # NoConn
        /\ client[s].sock = ownerConn
        /\ ~GaveUp(s)
        => client[s].seq = lastSeq
=============================================================================
