-------------------------- MODULE ShimChannelSafety --------------------------
(***************************************************************************)
(* The promises of ShimChannel, for any number of servers, connections,     *)
(* lines and breaks: a server's lines reach the CLI in order and at most    *)
(* once, and while it gave no send up, its numbers are the shim's and a     *)
(* send that returned was written.                                          *)
(*                                                                          *)
(* OrderInv makes the first inductive: it follows a line from its send      *)
(* through the queue and the handler's hand into stdin, and ties each copy  *)
(* of it to the number of its send. AgreeInv makes the others inductive:    *)
(* of one server, at most the command of the send under way is one that     *)
(* the shim can still count. Each is shown first for a step of a server     *)
(* (ServerMoves says what those do), then for a step of the shim.           *)
(***************************************************************************)
EXTENDS ShimChannelProofs

USE DEF shimVars, callerVars, vars

(***************************************************************************)
(* The invariants.                                                          *)
(***************************************************************************)
\* a live server that was greeted, or that resends what it sent after a greeting
Welcomed(s) ==
    \/ client[s].sock # NoConn /\ client[s].at # "greeting"
    \/ client[s].at # "idle" /\ client[s].why = "again"

\* a live server that was greeted, or has a command or an ok under way, owns the shim
OwnerInv ==
    /\ \A s \in Servers : Running(s) /\ Welcomed(s) => owner = s
    /\ \A c \in Conns :
          /\ Running(conn[c].peer)
          /\ (\E x \in Commands : OnWay(c, x)) \/ (\E a \in Answers(c) : a.kind = "ok")
          => owner = conn[c].peer

\* a command on its way is a line that its connection's server has sent
CarriedAreSent ==
    \A c \in Conns, x \in Commands :
        OnWay(c, x) => x.line[1] = conn[c].peer /\ x.line[2] <= client[x.line[1]].calls

\* so is every line the CLI was given
GivenAreSent == \A i \in 1..Len(stdin) : stdin[i][2] <= client[stdin[i][1]].calls

\* the line of a first attempt that still connects is nowhere yet
UnsentIsNew ==
    \A s \in Servers :
        /\ Running(s)
        /\ client[s].at \in {"dialing", "greeting"}
        /\ client[s].why = "first"
        => /\ ~WasGiven(Current(s))
           /\ \A c \in Conns, x \in Commands : OnWay(c, x) => x.line # Current(s)

\* every copy of a live server's current line has the number of its send, and
\* that number is counted once the line is given
CurrentNumber ==
    \A s \in Servers :
        Running(s) =>
           /\ \A c \in Conns, x \in Commands :
                 OnWay(c, x) /\ x.line = Current(s) => x.seq = client[s].num
           /\ WasGiven(Current(s)) => client[s].num <= lastSeq

\* the lines on one connection are in the order of their calls, the one in hand first
QueuesAscend ==
    \A c \in Conns :
        LET q == conn[c].toShim IN
        /\ \A i, j \in 1..Len(q) : i < j => q[i].line[2] < q[j].line[2]
        /\ conn[c].hand # NoCommand => \A i \in 1..Len(q) : conn[c].hand.line[2] < q[i].line[2]

\* a connection that awaits its greeting carries no command
GreetingIsEmpty ==
    \A s \in Servers :
        client[s].at = "greeting" => \A x \in Commands : ~OnWay(client[s].sock, x)

\* a command on the owner's connection whose line, or a later one of the same
\* server, was given or is being written, is a repetition: its number was counted,
\* or will be with that write
NoRepeats ==
    ownerConn # NoConn =>
        \A x \in Commands :
            OnWay(ownerConn, x) =>
               /\ \A i \in 1..Len(stdin) :
                     stdin[i][1] = owner /\ stdin[i][2] >= x.line[2] => x.seq <= lastSeq
               /\ /\ writer # NoConn
                  /\ conn[writer].peer = owner
                  /\ conn[writer].hand.line[2] >= x.line[2]
                  => x.seq <= conn[writer].hand.seq

\* the line being written comes after all that its server has given
WritingIsNew ==
    writer # NoConn =>
        \A i \in 1..Len(stdin) :
            stdin[i][1] = conn[writer].peer => stdin[i][2] < conn[writer].hand.line[2]

\* the ordering invariant: LinesInOrder and the clauses that make it inductive
OrderInv ==
    /\ OwnerInv /\ CarriedAreSent /\ GivenAreSent /\ UnsentIsNew /\ CurrentNumber
    /\ QueuesAscend /\ GreetingIsEmpty /\ NoRepeats /\ WritingIsNew /\ LinesInOrder

\* a verdict is of a call that has ended
VerdictsAreOfCalls ==
    /\ \A l \in Lines : l[2] > client[l[1]].calls => verdict[l] = "none"
    /\ \A s \in Servers :
          client[s].at # "idle" /\ client[s].why # "attach" => verdict[Current(s)] = "none"

\* the numbers in ok and ack replies were counted
AnswersAreCounted ==
    \A c \in Conns : \A a \in Answers(c) : a.kind \in {"ok", "ack"} => a.n <= lastSeq

\* nothing of what server s sent is in doubt
Settled(s) ==
    client[s].at = "idle" \/ (client[s].at # "awaiting" /\ client[s].why # "again")

\* the commands and the answers that connection c carries
Load(c) ==
    Len(conn[c].toShim) + Len(conn[c].toClient) + (IF conn[c].hand = NoCommand THEN 0 ELSE 1)

\* of server s, only the command of the send under way can still be counted
StaleAreCounted(s) ==
    \A c \in Conns, x \in Commands :
        /\ OnWay(c, x) /\ conn[c].peer = s
        /\ x.line[2] < client[s].calls \/ Settled(s)
        => x.seq <= lastSeq

\* its connection carries one command or answer while something is awaited, else none
OneAtATime(s) ==
    client[s].sock # NoConn => Load(client[s].sock) <= (IF client[s].at = "idle" THEN 0 ELSE 1)

\* it knows the shim's count when it is connected, or is about to learn it
CountIsShims(s) ==
    /\ client[s].at = "idle" /\ client[s].sock # NoConn => client[s].seq = lastSeq
    /\ client[s].at = "greeting" /\ client[s].why # "again" =>
          \A a \in Answers(client[s].sock) : a.kind = "ok" => a.n = lastSeq

\* the number of a send in doubt is the shim's next, or its last if the line was given
NumberIsNext(s) ==
    ~Settled(s) => client[s].num = (IF WasGiven(Current(s)) THEN lastSeq ELSE lastSeq + 1)

\* what it awaits is the answer to its current line
AwaitsOwnAnswer(s) ==
    client[s].at = "awaiting" =>
        /\ \A x \in Commands : OnWay(client[s].sock, x) => x.line = Current(s)
        /\ \A a \in Answers(client[s].sock) : a.kind = "ack" => a.n = client[s].num

\* server s and the shim agree about the numbers of its lines
Agrees(s) ==
    /\ ~client[s].broken
    /\ StaleAreCounted(s) /\ OneAtATime(s) /\ CountIsShims(s) /\ NumberIsNext(s) /\ AwaitsOwnAnswer(s)

\* every live server that gave no send up agrees, and what its sends report is true
AgreeInv ==
    /\ VerdictsAreOfCalls /\ AnswersAreCounted /\ DoneUnlessGivenUp
    /\ \A s \in Servers : Running(s) /\ ~GaveUp(s) => Agrees(s)

(***************************************************************************)
(* What a step of a server does to its own client.                          *)
(***************************************************************************)
\* one client changes; of the connections, its own one at most
ServerFrame(s) ==
    /\ UNCHANGED <<owner, ownerConn, lastSeq, writer, stdin>>
    /\ \A t \in Servers : t # s => client'[t] = client[t]
    /\ ServerLeaves(s)
    /\ \A d \in Conns : d # client[s].sock =>
          conn'[d].toShim = conn[d].toShim /\ conn'[d].toClient = conn[d].toClient

\* no command goes out
SendsNothing == \A d \in Conns : conn'[d].toShim = conn[d].toShim

\* the answer a was taken from the connection
Hears(s, a) ==
    /\ client[s].sock \in Conns /\ a \in Answers(client[s].sock)
    /\ Len(conn'[client[s].sock].toClient) = Len(conn[client[s].sock].toClient) - 1

\* the line of the send under way was put on the connection
Puts(s) ==
    /\ client[s].sock \in Conns
    /\ client'[s].at = "awaiting" /\ client'[s].sock = client[s].sock
    /\ Numbered(s, client'[s]) \in Commands
    /\ conn'[client[s].sock].toShim =
          Append(conn[client[s].sock].toShim, Numbered(s, client'[s]))

\* a connect begins, for an adoption or for a new line
Opens(s) ==
    /\ client[s].at = "idle" /\ client[s].sock = NoConn
    /\ client'[s].at = "dialing" /\ client'[s].sock = NoConn
    /\ \/ client'[s].why = "attach" /\ client'[s].calls = client[s].calls
       \/ client'[s].why = "first" /\ client'[s].calls = client[s].calls + 1
    /\ client'[s].broken = client[s].broken /\ client'[s].num = client[s].num
    /\ UNCHANGED <<conn, verdict>>

\* a new line goes out on the open connection
SendsNew(s) ==
    /\ client[s].at = "idle"
    /\ client'[s].why = "first" /\ client'[s].calls = client[s].calls + 1
    /\ client'[s].num = client[s].seq + 1 /\ client'[s].broken = client[s].broken
    /\ Puts(s)
    /\ conn'[client[s].sock].toClient = conn[client[s].sock].toClient
    /\ UNCHANGED verdict

\* the greeting is answered with n, and the line goes out
SendsGreeted(s, n) ==
    /\ client[s].at = "greeting" /\ client[s].why # "attach"
    /\ client'[s].why = client[s].why /\ client'[s].calls = client[s].calls
    /\ client'[s].broken = client[s].broken
    /\ Hears(s, Reply("ok", n))
    /\ client[s].why = "first" => client'[s].num = n + 1
    /\ client[s].why = "again" => client'[s].num = client[s].num /\ n < client[s].num
    /\ Puts(s)
    /\ UNCHANGED verdict

\* an unused connection is dialed
Dials(s) ==
    /\ client[s].at = "dialing" /\ client'[s].at = "greeting"
    /\ client'[s].sock \in Conns /\ conn[client'[s].sock].link = "unused"
    /\ conn'[client'[s].sock].peer = s
    /\ client'[s].why = client[s].why /\ client'[s].calls = client[s].calls
    /\ client'[s].num = client[s].num /\ client'[s].broken = client[s].broken
    /\ SendsNothing /\ (\A d \in Conns : conn'[d].toClient = conn[d].toClient)
    /\ UNCHANGED verdict

\* the first attempt found no answer
Redials(s) ==
    /\ client[s].at = "awaiting" /\ client'[s].at = "dialing"
    /\ client'[s].why = "again" /\ client'[s].sock = NoConn /\ ~client'[s].broken
    /\ client'[s].num = client[s].num /\ client'[s].calls = client[s].calls
    /\ UNCHANGED <<conn, verdict>>

\* a send or a connect gives up
Fails(s) ==
    /\ client'[s].sock \in {client[s].sock, NoConn}
    /\ client[s].why # "attach" => verdict' = [verdict EXCEPT ![Current(s)] = "failed"]
    /\ client[s].why = "attach" => UNCHANGED verdict
    /\ client[s].at # "awaiting" => client'[s].sock = NoConn /\ ~client'[s].broken

\* an adoption is answered with n
Adopts(s, n) ==
    /\ client[s].at = "greeting" /\ client[s].why = "attach"
    /\ client'[s].sock = client[s].sock /\ client'[s].broken = client[s].broken
    /\ Hears(s, Reply("ok", n)) /\ client'[s].seq = n
    /\ UNCHANGED verdict

\* a send returns: its line was acknowledged, or had landed before the reconnect
Succeeds(s, n) ==
    /\ client[s].why # "attach"
    /\ client'[s].sock = client[s].sock /\ client'[s].broken = client[s].broken
    /\ client'[s].seq = client[s].num
    /\ \/ client[s].at = "greeting" /\ client[s].why = "again" /\ n >= client[s].num /\ Hears(s, Reply("ok", n))
       \/ client[s].at = "awaiting" /\ Hears(s, Reply("ack", n))
    /\ verdict' = [verdict EXCEPT ![Current(s)] = "done"]

\* a send or a connect ends
Stops(s) ==
    /\ client[s].at # "idle" /\ client'[s].at = "idle"
    /\ client'[s].why = client[s].why /\ client'[s].calls = client[s].calls
    /\ client'[s].num = client[s].num
    /\ SendsNothing
    /\ Fails(s) \/ (\E n \in Nat : Adopts(s, n) \/ Succeeds(s, n))

\* a process starts or dies: its client is new, or gone
Rests(s) ==
    /\ client'[s].at = "idle" /\ client'[s].why = "attach" /\ client'[s].sock = NoConn
    /\ client'[s].calls = client[s].calls /\ ~client'[s].broken
    /\ UNCHANGED <<conn, verdict>>

\* what a step of server s does: one of the moves above
ServerEffect(s) ==
    \/ ~Running(s) /\ client[s].up = "down" /\ client[s].calls = 0 /\ Running(s)' /\ Rests(s)
    \/ Running(s) /\ ~Running(s)' /\ client'[s].up = "dead" /\ Rests(s)
    \/ /\ Running(s) /\ Running(s)'
       /\ \/ Opens(s) \/ SendsNew(s) \/ Dials(s) \/ Redials(s) \/ Stops(s)
          \/ \E n \in Nat : SendsGreeted(s, n)

\* A step that leaves the connections alone, seen from its client.
LEMMA FrameWithoutConns ==
    ASSUME Wired, NEW s \in Servers, NEW rec, UNCHANGED <<conn, shimVars>>,
           client' = [client EXCEPT ![s] = rec]
    PROVE  ServerFrame(s) /\ SendsNothing /\ client'[s] = rec
<1>1. client \in [Servers -> Clients]
  BY WiredTypes
<1>2. ServerLeaves(s)
  BY DEF ServerLeaves, Answers
<1> QED
  BY <1>1, <1>2 DEF ServerFrame, SendsNothing

\* A step that takes the reply at the head of its queue.
LEMMA FrameOfReply ==
    ASSUME Wired, NEW s \in Servers, client[s].at \in {"greeting", "awaiting"}, Reading(s),
           NEW rec, UNCHANGED shimVars, conn' = Taken(s), client' = [client EXCEPT ![s] = rec]
    PROVE  /\ ServerFrame(s) /\ SendsNothing /\ client'[s] = rec
           /\ Hears(s, Heard(s)) /\ Heard(s) \in Replies /\ Heard(s).n \in Nat
           /\ Heard(s) = Reply(Heard(s).kind, Heard(s).n)
<1>1. client \in [Servers -> Clients] /\ client[s].sock \in Conns
  BY WiredTypes DEF ClientsConnect, Connects, Clients
<1>2. /\ Heard(s) \in Answers(client[s].sock) /\ Heard(s) \in Replies
      /\ Len(conn'[client[s].sock].toClient) = Len(conn[client[s].sock].toClient) - 1
  BY <1>1, TakenReply
<1>3. \A d \in Conns :
         /\ conn'[d].hand = conn[d].hand /\ conn'[d].link = conn[d].link
         /\ conn'[d].peer = conn[d].peer /\ conn'[d].toShim = conn[d].toShim
         /\ d # client[s].sock => conn'[d] = conn[d]
  BY <1>1, TakenReply
<1>4. \A d \in Conns : \A a \in Answers(d)' : a \in Answers(d)
  <2>1. \A d \in Conns : \A i \in 1..Len(conn'[d].toClient) : conn'[d].toClient[i] \in Answers(d)
    BY <1>1, TakenReply
  <2> QED
    BY <2>1 DEF Answers
<1>5. conn[client[s].sock].link \notin {"unused", "hello"}
  BY <1>1, TakenReply
<1>6. ServerLeaves(s)
  BY <1>3, <1>4, <1>5 DEF ServerLeaves
<1>7. Heard(s).n \in Nat /\ Heard(s) = Reply(Heard(s).kind, Heard(s).n)
  BY <1>2 DEF Replies, Reply
<1> QED
  BY <1>1, <1>2, <1>3, <1>6, <1>7 DEF ServerFrame, SendsNothing, Hears

\* The steps that begin a connect or a send, start or end a process, or get no answer.
LEMMA ServerEffectOfTimers ==
    ASSUME Wired, NEW s \in Servers,
           \/ Attach(s) \/ Boot(s) \/ Die(s) \/ DialFails(s) \/ ReadFails(s)
           \/ Send(s) /\ client[s].sock = NoConn
    PROVE  ServerFrame(s) /\ ServerEffect(s)
<1>0. /\ client[s] \in Clients /\ Connects(s)
      /\ client[s].up \in {"down", "up", "dead"} /\ client[s].broken \in BOOLEAN
  BY WiredTypes DEF ClientsConnect, Clients
<1>1. UNCHANGED conn /\ UNCHANGED shimVars
  BY DEF Attach, Boot, Die, DialFails, ReadFails, Send
<1>2. CASE Attach(s)
  <2> DEFINE rec == [client[s] EXCEPT !.at = "dialing", !.why = "attach"]
  <2>1. client' = [client EXCEPT ![s] = rec] /\ UNCHANGED verdict /\ Running(s)
        /\ client[s].at = "idle" /\ client[s].sock = NoConn
    BY <1>2 DEF Attach, Update
  <2>2. ServerFrame(s) /\ client'[s] = rec
    <3> HIDE DEF rec
    <3> QED
      BY <1>1, <2>1, FrameWithoutConns
  <2>3. /\ rec.up = client[s].up /\ rec.at = "dialing" /\ rec.sock = client[s].sock
        /\ rec.why = "attach" /\ rec.calls = client[s].calls /\ rec.num = client[s].num
        /\ rec.broken = client[s].broken
    BY <1>0 DEF Clients
  <2> HIDE DEF rec
  <2>4. Running(s)' /\ Opens(s)
    BY <1>1, <2>1, <2>2, <2>3 DEF Running, Opens
  <2> QED
    BY <2>1, <2>2, <2>4 DEF ServerEffect
<1>3. CASE Boot(s)
  <2> DEFINE rec == [Idle EXCEPT !.up = "up"]
  <2>1. client' = [client EXCEPT ![s] = rec] /\ UNCHANGED verdict /\ client[s].up = "down"
    BY <1>3 DEF Boot, Update
  <2>2. ServerFrame(s) /\ client'[s] = rec
    <3> HIDE DEF rec
    <3> QED
      BY <1>1, <2>1, FrameWithoutConns
  <2>3. client[s].calls = 0 /\ ~Running(s)
    BY <1>0, <2>1 DEF Connects, Running
  <2>4. Running(s)' /\ Rests(s)
    BY <1>1, <2>1, <2>2, <2>3 DEF Running, Rests, Idle
  <2> QED
    BY <2>1, <2>2, <2>3, <2>4 DEF ServerEffect
<1>4. CASE Die(s)
  <2> DEFINE rec == [Idle EXCEPT !.up = "dead", !.calls = client[s].calls]
  <2>1. client' = [client EXCEPT ![s] = rec] /\ UNCHANGED verdict /\ Running(s)
    BY <1>4 DEF Die, Update
  <2>2. ServerFrame(s) /\ client'[s] = rec
    <3> HIDE DEF rec
    <3> QED
      BY <1>1, <2>1, FrameWithoutConns
  <2>3. /\ rec.up = "dead" /\ rec.at = "idle" /\ rec.sock = NoConn
        /\ rec.why = "attach" /\ rec.calls = client[s].calls /\ ~rec.broken
    BY DEF Idle
  <2> HIDE DEF rec
  <2>4. ~Running(s)' /\ client'[s].up = "dead" /\ Rests(s)
    BY <1>1, <2>1, <2>2, <2>3 DEF Running, Rests
  <2> QED
    BY <2>1, <2>2, <2>4 DEF ServerEffect
<1>5. CASE DialFails(s)
  <2> DEFINE rec == [Disconnected(s) EXCEPT !.at = "idle"]
  <2>1. client' = [client EXCEPT ![s] = rec] /\ Tell(s, "failed") /\ Running(s)
        /\ client[s].at \in {"dialing", "greeting"}
    BY <1>5 DEF DialFails, Return, Update
  <2>2. ServerFrame(s) /\ SendsNothing /\ client'[s] = rec
    <3> HIDE DEF rec
    <3> QED
      BY <1>1, <2>1, FrameWithoutConns
  <2>3. /\ rec.up = client[s].up /\ rec.at = "idle" /\ rec.sock = NoConn /\ ~rec.broken
        /\ rec.why = client[s].why /\ rec.calls = client[s].calls /\ rec.num = client[s].num
    BY <1>0 DEF Disconnected, Clients
  <2> HIDE DEF rec
  <2>4. Running(s)' /\ Fails(s)
    BY <2>1, <2>2, <2>3 DEF Running, Fails, Tell
  <2>5. Stops(s)
    BY <2>1, <2>2, <2>3, <2>4 DEF Stops
  <2> QED
    BY <2>1, <2>2, <2>4, <2>5 DEF ServerEffect
<1>6. CASE ReadFails(s) /\ client[s].why = "first" /\ UNCHANGED verdict
           /\ Update(s, [Disconnected(s) EXCEPT !.at = "dialing", !.why = "again"])
  <2> DEFINE rec == [Disconnected(s) EXCEPT !.at = "dialing", !.why = "again"]
  <2>1. client' = [client EXCEPT ![s] = rec] /\ UNCHANGED verdict /\ Running(s)
        /\ client[s].at = "awaiting"
    BY <1>6 DEF ReadFails, Update
  <2>2. ServerFrame(s) /\ client'[s] = rec
    <3> HIDE DEF rec
    <3> QED
      BY <1>1, <2>1, FrameWithoutConns
  <2>3. /\ rec.up = client[s].up /\ rec.at = "dialing" /\ rec.sock = NoConn /\ ~rec.broken
        /\ rec.why = "again" /\ rec.calls = client[s].calls /\ rec.num = client[s].num
    BY <1>0 DEF Disconnected, Clients
  <2> HIDE DEF rec
  <2>4. Running(s)' /\ Redials(s)
    BY <1>1, <2>1, <2>2, <2>3 DEF Running, Redials
  <2> QED
    BY <2>1, <2>2, <2>4 DEF ServerEffect
<1>7. CASE ReadFails(s) /\ client[s].why = "again"
           /\ Return(s, "failed", [client[s] EXCEPT !.broken = TRUE])
  <2> DEFINE rec == [client[s] EXCEPT !.broken = TRUE, !.at = "idle"]
  <2>1. client' = [client EXCEPT ![s] = rec] /\ Tell(s, "failed") /\ Running(s)
        /\ client[s].at = "awaiting"
    BY <1>0, <1>7 DEF ReadFails, Return, Update, Clients
  <2>2. ServerFrame(s) /\ SendsNothing /\ client'[s] = rec
    <3> HIDE DEF rec
    <3> QED
      BY <1>1, <2>1, FrameWithoutConns
  <2>3. /\ rec.up = client[s].up /\ rec.at = "idle" /\ rec.sock = client[s].sock
        /\ rec.why = client[s].why /\ rec.calls = client[s].calls /\ rec.num = client[s].num
    BY <1>0 DEF Clients
  <2> HIDE DEF rec
  <2>4. Running(s)' /\ Fails(s)
    BY <1>0, <1>7, <2>1, <2>2, <2>3 DEF Running, Fails, Tell
  <2>5. Stops(s)
    BY <2>1, <2>2, <2>3, <2>4 DEF Stops
  <2> QED
    BY <2>1, <2>2, <2>4, <2>5 DEF ServerEffect
<1>8. CASE Send(s) /\ client[s].sock = NoConn
  <2> DEFINE rec == [client[s] EXCEPT !.calls = @ + 1, !.why = "first", !.at = "dialing"]
  <2>1. client' = [client EXCEPT ![s] = rec] /\ UNCHANGED verdict /\ Running(s)
        /\ client[s].at = "idle"
    BY <1>0, <1>8 DEF Send, Update, Clients
  <2>2. ServerFrame(s) /\ client'[s] = rec
    <3> HIDE DEF rec
    <3> QED
      BY <1>1, <2>1, FrameWithoutConns
  <2>3. /\ rec.up = client[s].up /\ rec.at = "dialing" /\ rec.sock = client[s].sock
        /\ rec.why = "first" /\ rec.calls = client[s].calls + 1 /\ rec.num = client[s].num
        /\ rec.broken = client[s].broken
    BY <1>0 DEF Clients
  <2> HIDE DEF rec
  <2>4. Running(s)' /\ Opens(s)
    BY <1>1, <1>8, <2>1, <2>2, <2>3 DEF Running, Opens
  <2> QED
    BY <2>1, <2>2, <2>4 DEF ServerEffect
<1> QED
  BY <1>2, <1>3, <1>4, <1>5, <1>6, <1>7, <1>8 DEF ReadFails

\* A dial.
LEMMA ServerEffectOfDial ==
    ASSUME Wired, NEW s \in Servers, NEW c \in Conns, Dial(s, c)
    PROVE  ServerFrame(s) /\ ServerEffect(s)
<1>0. client[s] \in Clients /\ Connects(s) /\ conn \in [Conns -> ConnRecord] /\ client \in [Servers -> Clients]
  BY WiredTypes DEF ClientsConnect
<1> DEFINE rec == [client[s] EXCEPT !.at = "greeting", !.sock = c]
<1>1. /\ client' = [client EXCEPT ![s] = rec] /\ Running(s) /\ client[s].at = "dialing"
      /\ conn' = [conn EXCEPT ![c].link = "hello", ![c].peer = s] /\ conn[c].link = "unused"
      /\ UNCHANGED <<shimVars, callerVars>>
  BY DEF Dial, Update
<1>2. /\ rec.up = client[s].up /\ rec.at = "greeting" /\ rec.sock = c /\ rec.why = client[s].why
      /\ rec.calls = client[s].calls /\ rec.num = client[s].num /\ rec.broken = client[s].broken
  BY <1>0 DEF Clients
<1> HIDE DEF rec
<1>3. client'[s] = rec /\ \A t \in Servers : t # s => client'[t] = client[t]
  BY <1>0, <1>1
<1>4. \A d \in Conns :
         /\ conn'[d].toShim = conn[d].toShim /\ conn'[d].toClient = conn[d].toClient
         /\ conn'[d].hand = conn[d].hand
         /\ d # c => conn'[d].link = conn[d].link /\ conn'[d].peer = conn[d].peer
  BY <1>0, <1>1 DEF ConnRecord
<1>5. conn'[c].link = "hello" /\ conn'[c].peer = s
  BY <1>0, <1>1 DEF ConnRecord
<1>6. Running(s)'
  BY <1>1, <1>2, <1>3 DEF Running
<1>7. \A d \in Conns : \A a \in Answers(d)' : a \in Answers(d)
  BY <1>4 DEF Answers
<1>8. ServerLeaves(s)
  BY <1>1, <1>4, <1>5, <1>6, <1>7 DEF ServerLeaves
<1>9. Dials(s)
  BY <1>1, <1>2, <1>3, <1>4, <1>5 DEF Dials, SendsNothing
<1> QED
  BY <1>1, <1>3, <1>4, <1>6, <1>8, <1>9 DEF ServerFrame, ServerEffect

\* A send on the open connection.
LEMMA ServerEffectOfSend ==
    ASSUME Wired, NEW s \in Servers, Send(s), client[s].sock # NoConn
    PROVE  ServerFrame(s) /\ ServerEffect(s)
<1>0. /\ client[s] \in Clients /\ Connects(s) /\ conn \in [Conns -> ConnRecord]
      /\ client \in [Servers -> Clients] /\ client[s].sock \in Conns
      /\ client[s].seq \in Nat /\ client[s].calls \in 0..MaxLines
  BY WiredTypes DEF ClientsConnect, Clients
<1> DEFINE cl == [client[s] EXCEPT !.calls = @ + 1, !.why = "first", !.num = client[s].seq + 1]
           rec == [cl EXCEPT !.at = "awaiting"]
<1>1. /\ Transmit(s, cl, conn) /\ UNCHANGED <<shimVars, callerVars>> /\ Running(s)
      /\ client[s].at = "idle" /\ client[s].calls < MaxLines
  BY DEF Send, Transmit
<1>2. client[s].calls + 1 \in 0..MaxLines /\ client[s].calls + 1 > 0 /\ client[s].seq + 1 \in Nat
  BY <1>0, <1>1, BoundsAreNat
<1>3. /\ cl \in Clients /\ cl.calls = client[s].calls + 1 /\ cl.sock = client[s].sock
      /\ cl.up = client[s].up /\ cl.why = "first" /\ cl.num = client[s].seq + 1
      /\ cl.broken = client[s].broken
  BY <1>0, <1>2 DEF Clients
<1> HIDE DEF cl
<1>4. /\ rec.calls = cl.calls /\ rec.sock = cl.sock /\ rec.up = cl.up /\ rec.why = cl.why
      /\ rec.num = cl.num /\ rec.broken = cl.broken /\ rec.at = "awaiting"
  BY <1>3 DEF Clients
<1>5. /\ Numbered(s, cl) \in Commands
      /\ conn'[cl.sock].toShim = Append(conn[cl.sock].toShim, Numbered(s, cl))
      /\ client' = [client EXCEPT ![s] = rec]
  BY <1>0, <1>1, <1>2, <1>3, SentLine
<1>6. \A d \in Conns :
         /\ d # cl.sock => conn'[d] = conn[d]
         /\ conn'[d].hand = conn[d].hand /\ conn'[d].link = conn[d].link
         /\ conn'[d].peer = conn[d].peer /\ conn'[d].toClient = conn[d].toClient
  BY <1>0, <1>1, <1>2, <1>3, SentLine
<1> HIDE DEF rec
<1>7. client'[s] = rec /\ \A t \in Servers : t # s => client'[t] = client[t]
  BY <1>0, <1>5
<1>8. Numbered(s, client'[s]) = Numbered(s, cl)
  BY <1>4, <1>7 DEF Numbered
<1>9. Running(s)'
  BY <1>1, <1>3, <1>4, <1>7 DEF Running
<1>10. SendsNew(s)
  BY <1>0, <1>1, <1>3, <1>4, <1>5, <1>6, <1>7, <1>8 DEF SendsNew, Puts
<1>11. conn[client[s].sock].link \notin {"unused", "hello"}
  BY <1>0, <1>1 DEF Connects
<1>12. ServerLeaves(s)
  <2>1. \A d \in Conns : \A a \in Answers(d)' : a \in Answers(d)
    BY <1>6 DEF Answers
  <2> QED
    BY <1>3, <1>6, <1>11, <2>1 DEF ServerLeaves
<1> QED
  BY <1>1, <1>3, <1>6, <1>7, <1>9, <1>10, <1>12 DEF ServerFrame, ServerEffect

\* A refusal, and the answer to a line.
LEMMA ServerEffectOfAnswer ==
    ASSUME Wired, NEW s \in Servers, Refused(s) \/ Answered(s)
    PROVE  ServerFrame(s) /\ ServerEffect(s)
<1>0. /\ client[s] \in Clients /\ Connects(s) /\ client[s].num \in Nat /\ client[s].seq \in Nat
  BY WiredTypes DEF ClientsConnect, Clients
<1>1. CASE Refused(s)
  <2> DEFINE rec == [Disconnected(s) EXCEPT !.at = "idle"]
  <2>1. /\ client' = [client EXCEPT ![s] = rec] /\ Tell(s, "failed") /\ Running(s)
        /\ client[s].at = "greeting" /\ Reading(s) /\ conn' = Taken(s) /\ UNCHANGED shimVars
    BY <1>1 DEF Refused, Return, Update, Reading
  <2>2. ServerFrame(s) /\ SendsNothing /\ client'[s] = rec
    <3> HIDE DEF rec
    <3> QED
      BY <2>1, FrameOfReply
  <2>3. /\ rec.up = client[s].up /\ rec.at = "idle" /\ rec.sock = NoConn /\ ~rec.broken
        /\ rec.why = client[s].why /\ rec.calls = client[s].calls /\ rec.num = client[s].num
    BY <1>0 DEF Disconnected, Clients
  <2> HIDE DEF rec
  <2>4. Running(s)' /\ Fails(s)
    BY <2>1, <2>2, <2>3 DEF Running, Fails, Tell
  <2>5. Stops(s)
    BY <2>1, <2>2, <2>3, <2>4 DEF Stops
  <2> QED
    BY <2>1, <2>2, <2>4, <2>5 DEF ServerEffect
<1>2. CASE Answered(s)
  <2>1. /\ Running(s) /\ client[s].at = "awaiting" /\ Reading(s) /\ conn' = Taken(s)
        /\ UNCHANGED shimVars /\ client[s].why # "attach"
    BY <1>0, <1>2 DEF Answered, Reading, Connects
  <2>2. \/ /\ Heard(s).kind = "ack"
           /\ Return(s, "done", [client[s] EXCEPT !.seq = client[s].num])
        \/ \E n : Return(s, "failed", [client[s] EXCEPT !.seq = n])
    <3>1. client[s] = [client[s] EXCEPT !.seq = client[s].seq]
      BY <1>0 DEF Clients
    <3> QED
      BY <1>2, <3>1 DEF Answered
  <2>3. ASSUME NEW n, NEW result, Return(s, result, [client[s] EXCEPT !.seq = n])
        PROVE  /\ ServerFrame(s) /\ SendsNothing /\ Running(s)'
               /\ verdict' = [verdict EXCEPT ![Current(s)] = result]
               /\ Heard(s).n \in Nat /\ Hears(s, Reply(Heard(s).kind, Heard(s).n))
               /\ client'[s].at = "idle" /\ client'[s].seq = n
               /\ client'[s].sock = client[s].sock /\ client'[s].why = client[s].why
               /\ client'[s].calls = client[s].calls /\ client'[s].num = client[s].num
               /\ client'[s].broken = client[s].broken
    <3> DEFINE rec == [client[s] EXCEPT !.seq = n, !.at = "idle"]
    <3>1. client' = [client EXCEPT ![s] = rec] /\ verdict' = [verdict EXCEPT ![Current(s)] = result]
      BY <1>0, <2>1, <2>3 DEF Return, Update, Tell, Clients
    <3>2. /\ rec.up = client[s].up /\ rec.at = "idle" /\ rec.sock = client[s].sock /\ rec.seq = n
          /\ rec.why = client[s].why /\ rec.calls = client[s].calls /\ rec.num = client[s].num
          /\ rec.broken = client[s].broken
      BY <1>0 DEF Clients
    <3> HIDE DEF rec
    <3>3. /\ ServerFrame(s) /\ SendsNothing /\ client'[s] = rec /\ Heard(s).n \in Nat
          /\ Hears(s, Heard(s)) /\ Heard(s) = Reply(Heard(s).kind, Heard(s).n)
      BY <2>1, <3>1, FrameOfReply
    <3>4. Running(s)'
      BY <2>1, <3>2, <3>3 DEF Running
    <3> QED
      BY <3>1, <3>2, <3>3, <3>4
  <2>4. CASE Heard(s).kind = "ack" /\ Return(s, "done", [client[s] EXCEPT !.seq = client[s].num])
    <3>1. Succeeds(s, Heard(s).n) /\ Heard(s).n \in Nat /\ ServerFrame(s) /\ Running(s)'
      BY <2>1, <2>3, <2>4 DEF Succeeds
    <3>2. Stops(s)
      BY <2>1, <2>3, <2>4, <3>1 DEF Stops
    <3> QED
      BY <2>1, <3>1, <3>2 DEF ServerEffect
  <2>5. CASE \E n : Return(s, "failed", [client[s] EXCEPT !.seq = n])
    <3>1. PICK n : Return(s, "failed", [client[s] EXCEPT !.seq = n])
      BY <2>5
    <3>2. Fails(s) /\ ServerFrame(s) /\ Running(s)'
      BY <2>1, <2>3, <3>1 DEF Fails
    <3>3. Stops(s)
      BY <2>1, <2>3, <3>1, <3>2 DEF Stops
    <3> QED
      BY <2>1, <3>2, <3>3 DEF ServerEffect
  <2> QED
    BY <2>2, <2>4, <2>5
<1> QED
  BY <1>1, <1>2

\* A greeting's answer.
LEMMA ServerEffectOfGreeting ==
    ASSUME Wired, NEW s \in Servers, Greeted(s)
    PROVE  ServerFrame(s) /\ ServerEffect(s)
<1>0. /\ client[s] \in Clients /\ Connects(s) /\ client[s].num \in Nat /\ client[s].seq \in Nat
      /\ conn \in [Conns -> ConnRecord] /\ client \in [Servers -> Clients]
      /\ client[s].why \in {"attach", "first", "again"} /\ client[s].calls \in 0..MaxLines
  BY WiredTypes DEF ClientsConnect, Clients
<1> DEFINE n == Heard(s).n
           cl == [client[s] EXCEPT !.seq = n]
           num == IF client[s].why = "first" THEN n + 1 ELSE client[s].num
           given == [cl EXCEPT !.num = num]
<1>1. /\ Running(s) /\ Reading(s) /\ client[s].at = "greeting" /\ UNCHANGED <<shimVars, breaks>>
      /\ Heard(s).kind = "ok"
  BY DEF Greeted, Reading
<1>2. client[s].sock \in Conns
  BY <1>0, <1>1 DEF Connects, Clients
<1>3. Heard(s) \in Replies /\ n \in Nat /\ Heard(s) = Reply("ok", n) /\ Heard(s) \in Answers(client[s].sock)
  <2>1. Heard(s) \in Replies /\ Heard(s) \in Answers(client[s].sock)
    BY <1>1, <1>2, TakenReply
  <2> QED
    BY <1>1, <2>1 DEF Replies, Reply
<1> HIDE DEF n
<1>4. /\ cl \in Clients /\ cl.calls = client[s].calls /\ cl.sock = client[s].sock /\ cl.seq = n
      /\ cl.up = client[s].up /\ cl.why = client[s].why /\ cl.num = client[s].num
      /\ cl.broken = client[s].broken
  BY <1>0, <1>3 DEF Clients
<1>5. \/ /\ client[s].why = "attach"
         /\ Return(s, "done", cl)
         /\ conn' = Taken(s)
      \/ /\ Landed(s, n)
         /\ Return(s, "done", [cl EXCEPT !.seq = cl.num])
         /\ conn' = Taken(s)
      \/ /\ client[s].why # "attach"
         /\ ~Landed(s, n)
         /\ Transmit(s, given, Taken(s))
  BY <1>4 DEF Greeted, n
<1> HIDE DEF cl
<1>6. ASSUME NEW r, Return(s, "done", r), conn' = Taken(s), r \in Clients,
             r.calls = client[s].calls, r.sock = client[s].sock, r.up = client[s].up,
             r.why = client[s].why, r.num = client[s].num, r.broken = client[s].broken
      PROVE  /\ ServerFrame(s) /\ SendsNothing /\ Running(s)' /\ Hears(s, Reply("ok", n))
             /\ client'[s].at = "idle" /\ client'[s].seq = r.seq
             /\ client'[s].sock = client[s].sock /\ client'[s].why = client[s].why
             /\ client'[s].calls = client[s].calls /\ client'[s].num = client[s].num
             /\ client'[s].broken = client[s].broken
  <2> DEFINE rec == [r EXCEPT !.at = "idle"]
  <2>1. client' = [client EXCEPT ![s] = rec]
    BY <1>6 DEF Return, Update
  <2>2. /\ rec.up = r.up /\ rec.at = "idle" /\ rec.sock = r.sock /\ rec.seq = r.seq
        /\ rec.why = r.why /\ rec.calls = r.calls /\ rec.num = r.num /\ rec.broken = r.broken
    BY <1>6 DEF Clients
  <2> HIDE DEF rec
  <2>3. ServerFrame(s) /\ SendsNothing /\ client'[s] = rec /\ Hears(s, Heard(s))
    BY <1>1, <1>6, <2>1, FrameOfReply
  <2>4. Running(s)'
    BY <1>1, <1>6, <2>2, <2>3 DEF Running
  <2> QED
    BY <1>3, <1>6, <2>2, <2>3, <2>4
<1>7. CASE client[s].why = "attach" /\ Return(s, "done", cl) /\ conn' = Taken(s)
  <2>1. /\ Adopts(s, n) /\ ServerFrame(s) /\ SendsNothing /\ Running(s)'
    <3>1. UNCHANGED verdict
      BY <1>7 DEF Return, Tell
    <3> QED
      BY <1>1, <1>4, <1>6, <1>7, <3>1 DEF Adopts
  <2>2. Stops(s)
    BY <1>1, <1>3, <1>4, <1>6, <1>7, <2>1 DEF Stops
  <2> QED
    BY <1>1, <2>1, <2>2 DEF ServerEffect
<1>8. CASE Landed(s, n) /\ Return(s, "done", [cl EXCEPT !.seq = cl.num]) /\ conn' = Taken(s)
  <2> DEFINE r == [cl EXCEPT !.seq = cl.num]
  <2>1. /\ r \in Clients /\ r.calls = client[s].calls /\ r.sock = client[s].sock /\ r.up = client[s].up
        /\ r.why = client[s].why /\ r.num = client[s].num /\ r.broken = client[s].broken
        /\ r.seq = client[s].num
    BY <1>0, <1>4 DEF Clients
  <2>2. Return(s, "done", r)
    BY <1>8
  <2> HIDE DEF r
  <2>3. verdict' = [verdict EXCEPT ![Current(s)] = "done"] /\ client[s].why = "again" /\ n >= client[s].num
    BY <1>8 DEF Landed, Return, Tell
  <2>4. /\ Succeeds(s, n) /\ ServerFrame(s) /\ SendsNothing /\ Running(s)'
    BY <1>1, <1>6, <1>8, <2>1, <2>2, <2>3 DEF Succeeds
  <2>5. Stops(s)
    BY <1>1, <1>3, <1>6, <1>8, <2>1, <2>2, <2>4 DEF Stops
  <2> QED
    BY <1>1, <2>4, <2>5 DEF ServerEffect
<1>9. CASE client[s].why # "attach" /\ ~Landed(s, n) /\ Transmit(s, given, Taken(s))
  <2> DEFINE T == Taken(s)
             rec == [given EXCEPT !.at = "awaiting"]
  <2>1. num \in Nat
    BY <1>0, <1>3
  <2>2. /\ given \in Clients /\ given.calls = client[s].calls /\ given.sock = client[s].sock
        /\ given.up = client[s].up /\ given.why = client[s].why /\ given.num = num
        /\ given.broken = client[s].broken
    <3> HIDE DEF num
    <3> QED
      BY <1>4, <2>1 DEF Clients
  <2> HIDE DEF given, num
  <2>3. /\ rec.calls = given.calls /\ rec.sock = given.sock /\ rec.up = given.up /\ rec.why = given.why
        /\ rec.num = given.num /\ rec.broken = given.broken /\ rec.at = "awaiting"
    BY <2>2 DEF Clients
  <2> HIDE DEF T
  <2>4. T \in [Conns -> ConnRecord] /\ given.calls > 0 /\ Transmit(s, given, T)
        /\ Len(T[client[s].sock].toClient) = Len(conn[client[s].sock].toClient) - 1
        /\ conn[client[s].sock].link \notin {"unused", "hello"}
    <3>1. client[s].calls > 0
      BY <1>0, <1>1, <1>9 DEF Connects
    <3> QED
      BY <1>1, <1>2, <1>9, <2>2, <3>1, TakenReply DEF T
  <2>5. \A d \in Conns :
         /\ T[d].hand = conn[d].hand /\ T[d].link = conn[d].link
         /\ T[d].peer = conn[d].peer /\ T[d].toShim = conn[d].toShim
         /\ d # client[s].sock => T[d] = conn[d]
    BY <1>1, <1>2, TakenReply DEF T
  <2>6. \A d \in Conns : \A i \in 1..Len(T[d].toClient) : T[d].toClient[i] \in Answers(d)
    BY <1>1, <1>2, TakenReply DEF T
  <2>7. /\ Numbered(s, given) \in Commands
        /\ conn'[given.sock].toShim = Append(T[given.sock].toShim, Numbered(s, given))
        /\ client' = [client EXCEPT ![s] = rec]
    BY <1>2, <2>2, <2>4, SentLine DEF rec
  <2>8. \A d \in Conns :
         /\ d # given.sock => conn'[d] = T[d]
         /\ conn'[d].hand = T[d].hand /\ conn'[d].link = T[d].link
         /\ conn'[d].peer = T[d].peer /\ conn'[d].toClient = T[d].toClient
    BY <1>2, <2>2, <2>4, SentLine
  <2> HIDE DEF rec
  <2>9. client'[s] = rec /\ \A t \in Servers : t # s => client'[t] = client[t]
    BY <1>0, <2>7
  <2>10. Numbered(s, client'[s]) = Numbered(s, given)
    BY <2>2, <2>3, <2>9 DEF Numbered
  <2>11. Running(s)'
    BY <1>1, <2>2, <2>3, <2>9 DEF Running
  <2>12. Hears(s, Reply("ok", n))
    BY <1>2, <1>3, <2>2, <2>4, <2>8 DEF Hears
  <2>13. Puts(s)
    BY <1>2, <2>2, <2>3, <2>5, <2>7, <2>9, <2>10 DEF Puts
  <2>14. /\ client[s].why = "first" => client'[s].num = n + 1
         /\ client[s].why = "again" => client'[s].num = client[s].num /\ n < client[s].num
    BY <1>0, <1>3, <1>9, <2>2, <2>3, <2>9 DEF num, Landed
  <2>15. UNCHANGED verdict
    BY <1>9 DEF Transmit
  <2>16. SendsGreeted(s, n)
    BY <1>1, <1>9, <2>2, <2>3, <2>9, <2>12, <2>13, <2>14, <2>15 DEF SendsGreeted
  <2>17. ServerLeaves(s)
    <3>1. \A d \in Conns : \A a \in Answers(d)' : a \in Answers(d)
      <4>1. \A d \in Conns : \A i \in 1..Len(conn'[d].toClient) : conn'[d].toClient[i] \in Answers(d)
        BY <2>6, <2>8
      <4> QED
        BY <4>1 DEF Answers
    <3> QED
      BY <2>2, <2>4, <2>5, <2>8, <3>1 DEF ServerLeaves
  <2>18. ServerFrame(s)
    BY <1>1, <2>2, <2>5, <2>8, <2>9, <2>17 DEF ServerFrame
  <2> QED
    BY <1>1, <1>3, <2>11, <2>16, <2>18 DEF ServerEffect
<1> QED
  BY <1>5, <1>7, <1>8, <1>9

\* Every step of a server has one of the effects.
LEMMA ServerMoves ==
    ASSUME Wired, NEW s \in Servers, ServerStep(s)
    PROVE  ServerFrame(s) /\ ServerEffect(s)
BY ServerEffectOfTimers, ServerEffectOfDial, ServerEffectOfSend, ServerEffectOfAnswer,
   ServerEffectOfGreeting DEF ServerStep

(***************************************************************************)
(* What is on its way, and what is answered.                                *)
(***************************************************************************)
\* A command on its way is a numbered line, on a connection that was greeted.
LEMMA CommandTypes ==
    ASSUME NEW x \in Commands
    PROVE  /\ x.seq \in Nat /\ x.line \in Lines
           /\ x.line[1] \in Servers /\ x.line[2] \in 1..MaxLines /\ x.line[2] \in Nat
           /\ x.line = <<x.line[1], x.line[2]>>
<1>1. x.seq \in Nat /\ x.line \in Lines
  BY DEF Commands
<1>2. x.line[1] \in Servers /\ x.line[2] \in 1..MaxLines /\ x.line = <<x.line[1], x.line[2]>>
  BY <1>1 DEF Lines
<1> QED
  BY <1>1, <1>2, BoundsAreNat

\* What a wired state says of a command on its way.
LEMMA OnWayTypes ==
    ASSUME Wired, NEW c \in Conns, NEW x, OnWay(c, x)
    PROVE  /\ x \in Commands /\ x.seq \in Nat /\ x.line \in Lines
           /\ x.line[1] \in Servers /\ x.line[2] \in 1..MaxLines /\ x.line[2] \in Nat
           /\ x.line = <<x.line[1], x.line[2]>>
           /\ conn[c].link \notin {"unused", "hello"}
           /\ client[conn[c].peer].up # "down"
<1>1. conn[c].hand \in Commands \cup {NoCommand} /\ conn[c].toShim \in Seq(Commands)
  BY WiredTypes DEF ConnRecord
<1>2. x \in Commands
  BY <1>1 DEF OnWay
<1>3. x.seq \in Nat /\ x.line \in Lines
  BY <1>2 DEF Commands
<1>4. x.line[1] \in Servers /\ x.line[2] \in 1..MaxLines /\ x.line = <<x.line[1], x.line[2]>>
  BY <1>3 DEF Lines
<1>5. x.line[2] \in Nat
  BY <1>4, BoundsAreNat
<1>6. conn[c].link \notin {"unused", "hello"}
  <2>1. CASE conn[c].link \in {"unused", "hello"}
    <3>1. conn[c].hand = NoCommand /\ conn[c].toShim = <<>>
      BY <2>1, WiredTypes DEF FreshConns
    <3> QED
      BY <3>1, EmptySeq DEF OnWay
  <2> QED
    BY <2>1
<1>7. client[conn[c].peer].up # "down"
  BY <1>6, WiredTypes DEF FreshConns
<1> QED
  BY <1>2, <1>3, <1>4, <1>5, <1>6, <1>7

\* A line that was given is a line.
LEMMA GivenTypes ==
    ASSUME Wired, NEW i \in 1..Len(stdin)
    PROVE  /\ stdin[i] \in Lines /\ stdin[i] = <<stdin[i][1], stdin[i][2]>>
           /\ stdin[i][1] \in Servers /\ stdin[i][2] \in 1..MaxLines /\ stdin[i][2] \in Nat
<1>1. stdin \in Seq(Lines)
  BY WiredTypes
<1>2. stdin[i] \in Lines
  BY <1>1, ElementOfSeq
<1>3. stdin[i] = <<stdin[i][1], stdin[i][2]>> /\ stdin[i][1] \in Servers /\ stdin[i][2] \in 1..MaxLines
  BY <1>2 DEF Lines
<1> QED
  BY <1>2, <1>3, BoundsAreNat

\* The client of a running server stays wired to a connection of its own.
LEMMA ClientTypes ==
    ASSUME Wired, NEW s \in Servers
    PROVE  /\ client[s].sock \in Conns \cup {NoConn} /\ client[s].calls \in 0..MaxLines
           /\ client[s].calls \in Nat /\ client[s].num \in Nat /\ client[s].seq \in Nat
           /\ client[s].up \in {"down", "up", "dead"}
           /\ client[s].at \in {"idle", "dialing", "greeting", "awaiting"}
           /\ client[s].why \in {"attach", "first", "again"}
           /\ client[s].broken \in BOOLEAN
           /\ NoConn \notin Conns
           /\ client[s].sock # NoConn => conn[client[s].sock].peer = s
           /\ client[s].at \in {"greeting", "awaiting"} => client[s].sock # NoConn
           /\ client[s].at = "dialing" => client[s].sock = NoConn
           /\ client[s].up # "up" => client[s].at = "idle" /\ client[s].sock = NoConn
           /\ client[s].at = "awaiting" => client[s].why # "attach"
           /\ client[s].at # "idle" /\ client[s].why # "attach" => client[s].calls > 0
<1>1. client[s] \in Clients /\ Connects(s)
  BY WiredTypes DEF ClientsConnect
<1>2. client[s].calls \in Nat
  BY <1>1, BoundsAreNat DEF Clients
<1> QED
  BY <1>1, <1>2, ChannelAssumption DEF Clients, Connects

\* A step of a server either sends nothing or puts its line on its connection.
LEMMA ServerSendsOne ==
    ASSUME Wired, NEW s \in Servers, ServerFrame(s), ServerEffect(s)
    PROVE  \/ SendsNothing
           \/ /\ Puts(s) /\ Running(s) /\ Running(s)'
              /\ SendsNew(s) \/ \E n \in Nat : SendsGreeted(s, n)
BY DEF ServerEffect, Opens, SendsNew, Dials, Redials, Stops, SendsGreeted, SendsNothing, Rests

\* What a step of a server adds to what is on its way.
LEMMA ServerOnWay ==
    ASSUME Wired, NEW s \in Servers, ServerFrame(s), ServerEffect(s),
           NEW d \in Conns, NEW x, OnWay(d, x)'
    PROVE  \/ OnWay(d, x)
           \/ /\ Puts(s) /\ d = client[s].sock /\ x = Numbered(s, client'[s])
              /\ Running(s) /\ Running(s)'
              /\ SendsNew(s) \/ \E n \in Nat : SendsGreeted(s, n)
<1>1. conn'[d].hand = conn[d].hand
  BY DEF ServerFrame, ServerLeaves
<1>2. CASE conn'[d].toShim = conn[d].toShim
  BY <1>1, <1>2 DEF OnWay
<1>3. CASE Puts(s) /\ d = client[s].sock /\ Running(s) /\ Running(s)'
           /\ (SendsNew(s) \/ \E n \in Nat : SendsGreeted(s, n))
  <2> DEFINE q == conn[d].toShim
             y == Numbered(s, client'[s])
  <2>1. q \in Seq(Commands) /\ y \in Commands /\ conn'[d].toShim = Append(q, y)
    BY <1>3, WiredTypes DEF ConnRecord, Puts
  <2> HIDE DEF q, y
  <2>2. /\ Len(Append(q, y)) = Len(q) + 1 /\ Len(q) \in Nat
        /\ \A i \in 1..Len(q) : Append(q, y)[i] = q[i]
        /\ Append(q, y)[Len(q) + 1] = y
    BY <2>1, AppendProperties, LenProperties
  <2>3. ASSUME NEW i \in 1..(Len(q) + 1), Append(q, y)[i] = x
        PROVE  (\E j \in 1..Len(q) : q[j] = x) \/ x = y
    <3>1. i \in 1..Len(q) \/ i = Len(q) + 1
      BY <2>2
    <3> QED
      BY <2>2, <2>3, <3>1
  <2>4. (x = conn[d].hand /\ x # NoCommand) \/ (\E i \in 1..(Len(q) + 1) : Append(q, y)[i] = x)
    BY <1>1, <2>1, <2>2 DEF OnWay
  <2>5. OnWay(d, x) \/ x = y
    BY <2>3, <2>4 DEF OnWay, q
  <2> QED
    BY <1>3, <2>5 DEF y
<1> QED
  BY <1>2, <1>3, ServerSendsOne DEF SendsNothing, ServerFrame, Puts

\* A step of the shim adds nothing to what is on its way.
LEMMA ShimOnWay ==
    ASSUME Wired, NEW c \in Conns, ShimStep(c), NEW d \in Conns, NEW x, OnWay(d, x)'
    PROVE  OnWay(d, x)
<1>1. CASE d # c
  <2>1. conn'[d].hand = conn[d].hand /\ conn'[d].toShim = conn[d].toShim
    BY <1>1, ShimMoves DEF Others
  <2> QED
    BY <2>1 DEF OnWay
<1>2. CASE d = c /\ conn'[c].hand \in {conn[c].hand, NoCommand} /\ conn'[c].toShim \in {conn[c].toShim, <<>>}
  BY <1>2, EmptySeq DEF OnWay
<1>3. CASE d = c /\ Takes(c)
  <2> DEFINE q == conn[c].toShim
  <2>1. q \in Seq(Commands) /\ q # <<>> /\ conn'[c].hand = Head(q) /\ conn'[c].toShim = Tail(q)
    BY <1>3, WiredTypes DEF ConnRecord, Takes
  <2> HIDE DEF q
  <2>2. /\ Len(Tail(q)) = Len(q) - 1 /\ \A i \in 1..Len(Tail(q)) : Tail(q)[i] = q[i + 1]
        /\ Head(q) = q[1] /\ Len(q) \in Nat /\ Len(q) > 0
    BY <2>1, HeadTailProperties, LenProperties, EmptySeq
  <2>3. x = q[1] \/ \E i \in 1..Len(Tail(q)) : x = q[i + 1]
    BY <1>3, <2>1, <2>2 DEF OnWay
  <2>4. \E i \in 1..Len(q) : x = q[i]
    <3>1. 1 \in 1..Len(q) /\ \A i \in 1..Len(Tail(q)) : i + 1 \in 1..Len(q)
      BY <2>2
    <3> QED
      BY <2>3, <3>1
  <2> QED
    BY <1>3, <2>4 DEF OnWay, q
<1>4. \/ conn'[c].hand \in {conn[c].hand, NoCommand} /\ conn'[c].toShim \in {conn[c].toShim, <<>>}
      \/ Takes(c)
  <2>1. \/ Greets(c)
        \/ Takes(c)
        \/ Ends(c)
        \/ UNCHANGED conn
        \/ Declines(c)
        \/ Writes(c)
        \/ Loses(c)
    BY ShimMoves
  <2> QED
    BY <2>1 DEF Greets, Ends, Declines, Writes, Loses, Answering
<1> QED
  BY <1>1, <1>2, <1>3, <1>4

\* What a step of the shim answers.
NewAnswer(c, a) ==
    \/ /\ a = Reply("ok", lastSeq) /\ conn[c].link = "hello" /\ lastSeq' = lastSeq
       /\ owner' = conn[c].peer /\ ownerConn' = c
    \/ a.kind \notin {"ok", "ack"}
    \/ /\ conn[c].hand # NoCommand /\ a = Reply("ack", conn[c].hand.seq)
       /\ conn[c].hand.seq <= lastSeq'

\* An answer that is there after a step of the shim was there before, or is its own.
LEMMA ShimAnswers ==
    ASSUME Wired, NEW c \in Conns, ShimStep(c), NEW d \in Conns, NEW a \in Answers(d)'
    PROVE  a \in Answers(d) \/ (d = c /\ NewAnswer(c, a))
<1>1. CASE d # c \/ conn'[d].toClient = conn[d].toClient
  <2>1. conn'[d].toClient = conn[d].toClient
    BY <1>1, ShimMoves DEF Others
  <2> QED
    BY <2>1 DEF Answers
<1>2. ASSUME NEW answer \in Replies, Gets(c, answer), NewAnswer(c, answer), d = c
      PROVE  a \in Answers(d) \/ (d = c /\ NewAnswer(c, a))
  BY <1>2, GetsOne
<1>3. /\ \A n \in Nat : \A k \in {"ok", "refused", "ack", "gap", "closed"} : Reply(k, n) \in Replies
      /\ lastSeq \in Nat
      /\ conn[c].hand # NoCommand => conn[c].hand.seq \in Nat
  BY WiredTypes DEF Reply, Replies, ConnRecord, Commands
<1>4. CASE d = c /\ Greets(c)
  <2>1. CASE Gets(c, Reply("refused", 0))
    <3>1. NewAnswer(c, Reply("refused", 0))
      BY DEF NewAnswer, Reply
    <3> QED
      BY <1>2, <1>3, <1>4, <2>1, <3>1
  <2>2. CASE Gets(c, Reply("ok", lastSeq)) /\ owner' = conn[c].peer /\ ownerConn' = c
    <3>1. NewAnswer(c, Reply("ok", lastSeq))
      BY <1>4, <2>2 DEF NewAnswer, Greets
    <3> QED
      BY <1>2, <1>3, <1>4, <2>2, <3>1
  <2> QED
    BY <1>4, <2>1, <2>2 DEF Greets
<1>5. CASE d = c /\ (Answering(c, Reply("gap", lastSeq + 1)) \/ Answering(c, Reply("closed", 0)))
  <2>1. NewAnswer(c, Reply("gap", lastSeq + 1)) /\ NewAnswer(c, Reply("closed", 0))
    BY DEF NewAnswer, Reply
  <2> QED
    BY <1>2, <1>3, <1>5, <2>1 DEF Answering
<1>6. CASE d = c /\ Answering(c, Reply("ack", conn[c].hand.seq)) /\ conn[c].hand.seq <= lastSeq'
  <2>1. NewAnswer(c, Reply("ack", conn[c].hand.seq)) /\ conn[c].hand.seq \in Nat
    BY <1>3, <1>6 DEF NewAnswer, Answering
  <2> QED
    BY <1>2, <1>3, <1>6, <2>1 DEF Answering
<1>7. \/ Greets(c)
      \/ conn'[c].toClient = conn[c].toClient
      \/ Answering(c, Reply("gap", lastSeq + 1)) \/ Answering(c, Reply("closed", 0))
      \/ Answering(c, Reply("ack", conn[c].hand.seq)) /\ conn[c].hand.seq <= lastSeq'
  <2>1. \/ Greets(c)
        \/ Takes(c)
        \/ Ends(c)
        \/ UNCHANGED conn
        \/ Declines(c)
        \/ Writes(c)
        \/ Loses(c)
    BY ShimMoves
  <2>2. writer = c => conn[c].hand # NoCommand
    BY WiredTypes, ChannelAssumption DEF WriterInv
  <2> QED
    BY <1>3, <2>1, <2>2 DEF Takes, Ends, Declines, Writes, Loses
<1> QED
  BY <1>1, <1>4, <1>5, <1>6, <1>7

(***************************************************************************)
(* A step of a server keeps OrderInv.                                       *)
(***************************************************************************)
\* What the proofs about one step of a server assume.
ServerStepsFrom(s) == Wired /\ Wired' /\ ServerFrame(s) /\ ServerEffect(s)

\* No count of calls goes back, and a running server that changes is s.
LEMMA CallsGrow ==
    ASSUME NEW s \in Servers, ServerStepsFrom(s), NEW t \in Servers
    PROVE  /\ client'[t].calls >= client[t].calls /\ client[t].calls \in Nat /\ client'[t].calls \in Nat
           /\ t # s => client'[t] = client[t]
           /\ client[s].up = "down" => client[s].calls = 0
<1>1. client[t].calls \in Nat /\ client[s].calls \in Nat
  BY ClientTypes DEF ServerStepsFrom
<1>2. t # s => client'[t] = client[t]
  BY DEF ServerStepsFrom, ServerFrame
<1>3. client'[s].calls \in {client[s].calls, client[s].calls + 1}
  BY DEF ServerStepsFrom, ServerEffect, Rests, Opens, SendsNew, Dials, Redials, Stops, SendsGreeted
<1>4. client[s].up = "down" => client[s].calls = 0
  BY WiredTypes DEF ServerStepsFrom, ClientsConnect, Connects
<1> QED
  BY <1>1, <1>2, <1>3, <1>4

\* What is new on its way is the line of the send under way.
LEMMA NewOnWay ==
    ASSUME NEW s \in Servers, ServerStepsFrom(s), NEW d \in Conns, NEW x, OnWay(d, x)'
    PROVE  /\ conn[d].link \notin {"unused", "hello"} /\ conn'[d].peer = conn[d].peer
           /\ conn'[d].link \notin {"unused", "hello"} /\ conn[d].peer \in Servers
           /\ \/ OnWay(d, x)
              \/ /\ d = client[s].sock /\ conn[d].peer = s /\ d \in Conns
                 /\ client'[s].at = "awaiting" /\ client'[s].sock = d
                 /\ x.seq = client'[s].num /\ x.line = <<s, client'[s].calls>>
                 /\ x.line[1] = s /\ x.line[2] = client'[s].calls
                 /\ Running(s) /\ Running(s)'
                 /\ SendsNew(s) \/ \E n \in Nat : SendsGreeted(s, n)
<1>1. Wired /\ ServerFrame(s) /\ ServerEffect(s)
  BY DEF ServerStepsFrom
<1>2. conn'[d].link \notin {"unused", "hello"}
  <2>1. conn'[d].link \in {"unused", "hello"} => conn'[d].toShim = <<>> /\ conn'[d].hand = NoCommand
    BY DEF ServerStepsFrom, Wired, FreshConns
  <2> QED
    BY <2>1, EmptySeq DEF OnWay
<1>3. conn'[d].link = conn[d].link /\ conn'[d].peer = conn[d].peer
  BY <1>1, <1>2 DEF ServerFrame, ServerLeaves
<1>4. conn[d].peer \in Servers
  BY <1>1, WiredTypes DEF ConnRecord
<1>5. CASE Puts(s) /\ d = client[s].sock /\ x = Numbered(s, client'[s])
           /\ Running(s) /\ Running(s)'
           /\ (SendsNew(s) \/ \E n \in Nat : SendsGreeted(s, n))
  <2>1. conn[d].peer = s
    BY <1>1, <1>5, ClientTypes
  <2> QED
    BY <1>2, <1>3, <1>4, <1>5, <2>1 DEF Puts, Numbered
<1> QED
  BY <1>1, <1>2, <1>3, <1>4, <1>5, ServerOnWay

\* A server that comes to be welcomed, or to send, had an ok from the shim: it is the owner.
LEMMA ServerKeepsOwner ==
    ASSUME NEW s \in Servers, ServerStepsFrom(s), OwnerInv
    PROVE  OwnerInv'
<1>1. Wired /\ ServerFrame(s) /\ ServerEffect(s)
  BY DEF ServerStepsFrom
<1>2. owner' = owner /\ \A t \in Servers : t # s => client'[t] = client[t]
  BY <1>1 DEF ServerFrame
<1>3. ASSUME Running(s), client[s].sock \in Conns, NEW n, Reply("ok", n) \in Answers(client[s].sock)
      PROVE  owner = s
  <2>1. conn[client[s].sock].peer = s
    BY <1>1, <1>3, ClientTypes
  <2> QED
    BY <1>3, <2>1 DEF OwnerInv, Reply
<1>4. ASSUME Running(s)', Welcomed(s)' PROVE owner = s
  <2>1. Running(s)
    BY <1>1, <1>4 DEF ServerEffect, Rests, Welcomed
  <2>2. CASE Welcomed(s)
    BY <2>1, <2>2 DEF OwnerInv
  <2>3. CASE \E n : Hears(s, Reply("ok", n))
    BY <1>3, <2>1, <2>3 DEF Hears
  <2>4. Welcomed(s) \/ \E n : Hears(s, Reply("ok", n))
    <3>1. Opens(s) \/ SendsNew(s) \/ Dials(s) \/ Redials(s) \/ Stops(s) \/ \E n \in Nat : SendsGreeted(s, n)
      BY <1>1, <1>4, <2>1 DEF ServerEffect
    <3>2. /\ client[s].sock \in Conns \cup {NoConn} /\ NoConn \notin Conns
          /\ client[s].at \in {"greeting", "awaiting"} => client[s].sock # NoConn
          /\ client[s].at \in {"idle", "dialing", "greeting", "awaiting"}
      BY <1>1, ClientTypes
    <3>3. ~Opens(s)
      BY <1>4 DEF Opens, Welcomed
    <3>4. SendsNew(s) \/ Redials(s) => Welcomed(s)
      BY <3>2 DEF SendsNew, Redials, Puts, Welcomed
    <3>5. Dials(s) => Welcomed(s)
      BY <1>4 DEF Dials, Welcomed
    <3>6. Stops(s) => Welcomed(s) \/ \E n : Hears(s, Reply("ok", n))
      BY <1>4, <3>2 DEF Stops, Fails, Adopts, Succeeds, Welcomed
    <3> QED
      BY <3>1, <3>3, <3>4, <3>5, <3>6 DEF SendsGreeted
  <2> QED
    BY <2>2, <2>3, <2>4
<1>5. ASSUME NEW t \in Servers, Running(t)', Welcomed(t)' PROVE owner' = t
  <2>1. CASE t = s
    BY <1>2, <1>4, <1>5, <2>1
  <2>2. CASE t # s
    BY <1>2, <1>5, <2>2 DEF OwnerInv, Running, Welcomed
  <2> QED
    BY <2>1, <2>2
<1>6. ASSUME NEW c \in Conns, Running(conn[c].peer)', conn'[c].link \notin {"unused", "hello"}
      PROVE  /\ conn'[c].peer = conn[c].peer /\ conn[c].peer \in Servers
             /\ Running(conn[c].peer)
  <2>1. conn'[c].link = conn[c].link /\ conn'[c].peer = conn[c].peer
    BY <1>1, <1>6 DEF ServerFrame, ServerLeaves
  <2>2. client[conn[c].peer].up # "down" /\ conn[c].peer \in Servers
    BY <1>1, <1>6, <2>1, WiredTypes DEF FreshConns, ConnRecord
  <2> QED
    BY <1>1, <1>2, <1>6, <2>1, <2>2 DEF ServerEffect, Running
<1>7. ASSUME NEW c \in Conns, Running(conn[c].peer)', NEW x \in Commands, OnWay(c, x)'
      PROVE  owner' = conn'[c].peer
  <2>1. conn'[c].link \notin {"unused", "hello"}
    BY <1>7, NewOnWay
  <2>2. conn'[c].peer = conn[c].peer /\ conn[c].peer \in Servers /\ Running(conn[c].peer)
    BY <1>6, <1>7, <2>1
  <2>3. CASE OnWay(c, x)
    BY <1>2, <2>2, <2>3 DEF OwnerInv
  <2>4. CASE conn[c].peer = s /\ client'[s].at = "awaiting" /\ client'[s].sock = c
    BY <1>2, <1>4, <1>7, <2>2, <2>4, ChannelAssumption DEF Welcomed
  <2> QED
    BY <1>7, <2>3, <2>4, NewOnWay
<1>8. ASSUME NEW c \in Conns, Running(conn[c].peer)', NEW a \in Answers(c)', a.kind = "ok"
      PROVE  owner' = conn'[c].peer
  <2>1. conn'[c].link \notin {"unused", "hello"}
    <3>1. conn'[c].link \in {"unused", "hello"} => conn'[c].toClient = <<>>
      BY DEF ServerStepsFrom, Wired, FreshConns
    <3> QED
      BY <1>8, <3>1, EmptySeq DEF Answers
  <2>2. conn'[c].peer = conn[c].peer /\ conn[c].peer \in Servers /\ Running(conn[c].peer)
    BY <1>6, <1>8, <2>1
  <2>3. a \in Answers(c)
    BY <1>1, <1>8 DEF ServerFrame, ServerLeaves
  <2> QED
    BY <1>2, <1>8, <2>2, <2>3 DEF OwnerInv
<1> QED
  BY <1>5, <1>7, <1>8 DEF OwnerInv

\* A command that goes out is the current line of its server.
LEMMA ServerKeepsCarried ==
    ASSUME NEW s \in Servers, ServerStepsFrom(s), CarriedAreSent
    PROVE  CarriedAreSent'
<1> SUFFICES ASSUME NEW c \in Conns, NEW x \in Commands, OnWay(c, x)'
             PROVE  x.line[1] = conn'[c].peer /\ x.line[2] <= client'[x.line[1]].calls
  BY DEF CarriedAreSent
<1>1. x.line[1] \in Servers /\ x.line[2] \in Nat
  BY CommandTypes
<1>2. /\ client'[x.line[1]].calls >= client[x.line[1]].calls
      /\ client'[x.line[1]].calls \in Nat /\ client[x.line[1]].calls \in Nat
  BY <1>1, CallsGrow
<1>3. CASE OnWay(c, x)
  BY <1>1, <1>2, <1>3, NewOnWay DEF CarriedAreSent
<1>4. CASE conn[c].peer = s /\ x.line[1] = s /\ x.line[2] = client'[s].calls
  BY <1>1, <1>2, <1>4, NewOnWay
<1> QED
  BY <1>3, <1>4, NewOnWay

\* What was given was sent.
LEMMA ServerKeepsGiven ==
    ASSUME NEW s \in Servers, ServerStepsFrom(s), GivenAreSent
    PROVE  GivenAreSent'
<1> SUFFICES ASSUME NEW i \in 1..Len(stdin')
             PROVE  stdin'[i][2] <= client'[stdin'[i][1]].calls
  BY DEF GivenAreSent
<1>1. stdin' = stdin
  BY DEF ServerStepsFrom, ServerFrame
<1>2. stdin[i][1] \in Servers /\ stdin[i][2] \in Nat /\ stdin[i][2] <= client[stdin[i][1]].calls
  BY <1>1, GivenTypes DEF ServerStepsFrom, GivenAreSent
<1>3. /\ client'[stdin[i][1]].calls >= client[stdin[i][1]].calls
      /\ client'[stdin[i][1]].calls \in Nat /\ client[stdin[i][1]].calls \in Nat
  BY <1>2, CallsGrow
<1> QED
  BY <1>1, <1>2, <1>3

\* The line of a call that was just made is nowhere yet.
LEMMA NewCallIsNew ==
    ASSUME NEW s \in Servers, ServerStepsFrom(s), CarriedAreSent, GivenAreSent,
           client'[s].calls = client[s].calls + 1
    PROVE  /\ \A i \in 1..Len(stdin) : stdin[i][1] = s => stdin[i][2] < client'[s].calls
           /\ \A c \in Conns, x \in Commands :
                 OnWay(c, x) => x.line # <<s, client'[s].calls>> /\ (conn[c].peer = s => x.line[2] < client'[s].calls)
<1>1. client[s].calls \in Nat
  BY CallsGrow
<1>2. ASSUME NEW i \in 1..Len(stdin), stdin[i][1] = s PROVE stdin[i][2] < client'[s].calls
  BY <1>1, <1>2, GivenTypes DEF GivenAreSent, ServerStepsFrom
<1>3. ASSUME NEW c \in Conns, NEW x \in Commands, OnWay(c, x)
      PROVE  x.line # <<s, client'[s].calls>> /\ (conn[c].peer = s => x.line[2] < client'[s].calls)
  <2>1. x.line[2] \in Nat /\ x.line[1] = conn[c].peer /\ x.line[2] <= client[x.line[1]].calls
    BY <1>3, OnWayTypes DEF CarriedAreSent, ServerStepsFrom
  <2> QED
    BY <1>1, <2>1
<1> QED
  BY <1>2, <1>3

\* A first attempt has a new line.
LEMMA ServerKeepsUnsent ==
    ASSUME NEW s \in Servers, ServerStepsFrom(s), CarriedAreSent, GivenAreSent, UnsentIsNew
    PROVE  UnsentIsNew'
<1>0. stdin' = stdin
  BY DEF ServerStepsFrom, ServerFrame
<1> SUFFICES ASSUME NEW t \in Servers, Running(t)', client'[t].at \in {"dialing", "greeting"},
                    client'[t].why = "first"
             PROVE  /\ ~WasGiven(<<t, client'[t].calls>>)
                    /\ \A c \in Conns, x \in Commands : OnWay(c, x)' => x.line # <<t, client'[t].calls>>
  BY <1>0 DEF UnsentIsNew, WasGiven, Current
<1>1. CASE t # s
  <2>1. client'[t] = client[t]
    BY <1>1, CallsGrow
  <2>2. /\ ~WasGiven(<<t, client[t].calls>>)
        /\ \A c \in Conns, x \in Commands : OnWay(c, x) => x.line # <<t, client[t].calls>>
    BY <2>1 DEF UnsentIsNew, Running, Current
  <2>3. ASSUME NEW c \in Conns, NEW x \in Commands, OnWay(c, x)' PROVE x.line # <<t, client[t].calls>>
    BY <1>1, <2>2, <2>3, NewOnWay
  <2> QED
    BY <2>1, <2>2, <2>3
<1>2. CASE t = s /\ client'[s].calls = client[s].calls + 1
  <2>1. ~WasGiven(<<s, client'[s].calls>>)
    <3>1. \A i \in 1..Len(stdin) : stdin[i] = <<s, client'[s].calls>> => FALSE
      <4> SUFFICES ASSUME NEW i \in 1..Len(stdin), stdin[i] = <<s, client'[s].calls>> PROVE FALSE
        OBVIOUS
      <4>1. stdin[i][1] = s /\ stdin[i][2] = client'[s].calls
        OBVIOUS
      <4>2. stdin[i][2] < client'[s].calls /\ client'[s].calls \in Nat
        BY <1>2, <4>1, NewCallIsNew, CallsGrow
      <4> QED
        BY <4>1, <4>2
    <3> QED
      BY <3>1 DEF WasGiven
  <2>2. ASSUME NEW c \in Conns, NEW x \in Commands, OnWay(c, x)' PROVE x.line # <<s, client'[s].calls>>
    <3>1. OnWay(c, x)
      BY <1>2, <2>2, NewOnWay
    <3> QED
      BY <1>2, <3>1, NewCallIsNew
  <2> QED
    BY <1>2, <2>1, <2>2
<1>3. CASE t = s /\ Running(s) /\ client'[s].calls = client[s].calls
           /\ client[s].at = "dialing" /\ client[s].why = "first"
  <2>1. /\ ~WasGiven(<<s, client[s].calls>>)
        /\ \A c \in Conns, x \in Commands : OnWay(c, x) => x.line # <<s, client[s].calls>>
    BY <1>3 DEF UnsentIsNew, Current
  <2>2. ASSUME NEW c \in Conns, NEW x \in Commands, OnWay(c, x)' PROVE OnWay(c, x)
    BY <1>3, <2>2, NewOnWay
  <2> QED
    BY <1>3, <2>1, <2>2
<1>4. t = s => \/ client'[s].calls = client[s].calls + 1
               \/ /\ Running(s) /\ client'[s].calls = client[s].calls
                  /\ client[s].at = "dialing" /\ client[s].why = "first"
  BY DEF ServerStepsFrom, ServerEffect, Rests, Opens, SendsNew, Dials, Redials, Stops, SendsGreeted, Puts
<1> QED
  BY <1>1, <1>2, <1>3, <1>4

\* A line that goes out has the number of its send; a new one was not given.
LEMMA ServerKeepsNumber ==
    ASSUME NEW s \in Servers, ServerStepsFrom(s), CarriedAreSent, GivenAreSent, UnsentIsNew, CurrentNumber
    PROVE  CurrentNumber'
<1>0. stdin' = stdin /\ lastSeq' = lastSeq
  BY DEF ServerStepsFrom, ServerFrame
<1> SUFFICES ASSUME NEW t \in Servers, Running(t)'
             PROVE  /\ \A c \in Conns, x \in Commands :
                          OnWay(c, x)' /\ x.line = <<t, client'[t].calls>> => x.seq = client'[t].num
                    /\ WasGiven(<<t, client'[t].calls>>) => client'[t].num <= lastSeq
  BY <1>0 DEF CurrentNumber, WasGiven, Current
<1>1. CASE t # s
  <2>1. client'[t] = client[t]
    BY <1>1, CallsGrow
  <2>2. /\ \A c \in Conns, x \in Commands :
               OnWay(c, x) /\ x.line = <<t, client[t].calls>> => x.seq = client[t].num
        /\ WasGiven(<<t, client[t].calls>>) => client[t].num <= lastSeq
    BY <2>1 DEF CurrentNumber, Running, Current
  <2>3. ASSUME NEW c \in Conns, NEW x \in Commands, OnWay(c, x)', x.line = <<t, client[t].calls>>
        PROVE  OnWay(c, x)
    BY <1>1, <2>3, NewOnWay
  <2> QED
    BY <2>1, <2>2, <2>3
<1>2. ASSUME t = s,
             \A c \in Conns, x \in Commands :
                OnWay(c, x) /\ x.line = <<s, client'[s].calls>> => x.seq = client'[s].num,
             WasGiven(<<s, client'[s].calls>>) => client'[s].num <= lastSeq
      PROVE  /\ \A c \in Conns, x \in Commands :
                   OnWay(c, x)' /\ x.line = <<t, client'[t].calls>> => x.seq = client'[t].num
             /\ WasGiven(<<t, client'[t].calls>>) => client'[t].num <= lastSeq
  <2>1. ASSUME NEW c \in Conns, NEW x \in Commands, OnWay(c, x)', x.line = <<s, client'[s].calls>>
        PROVE  x.seq = client'[s].num
    BY <1>2, <2>1, NewOnWay
  <2> QED
    BY <1>2, <2>1
<1>3. CASE t = s /\ client'[s].calls = client[s].calls + 1
  <2>1. ~WasGiven(<<s, client'[s].calls>>)
    <3>1. ASSUME NEW i \in 1..Len(stdin), stdin[i] = <<s, client'[s].calls>> PROVE FALSE
      <4>1. stdin[i][1] = s /\ stdin[i][2] = client'[s].calls
        BY <3>1
      <4>2. stdin[i][2] < client'[s].calls /\ client'[s].calls \in Nat
        BY <1>3, <4>1, NewCallIsNew, CallsGrow
      <4> QED
        BY <4>1, <4>2
    <3> QED
      BY <3>1 DEF WasGiven
  <2>2. \A c \in Conns, x \in Commands : OnWay(c, x) => x.line # <<s, client'[s].calls>>
    BY <1>3, NewCallIsNew
  <2> QED
    BY <1>2, <1>3, <2>1, <2>2
<1>4. CASE t = s /\ client'[s].calls = 0
  <2>1. ~WasGiven(<<s, 0>>)
    <3>1. ASSUME NEW i \in 1..Len(stdin), stdin[i] = <<s, 0>> PROVE FALSE
      <4>1. stdin[i][2] \in 1..MaxLines /\ stdin[i][2] = 0
        BY <3>1, GivenTypes DEF ServerStepsFrom
      <4> QED
        BY <4>1, BoundsAreNat
    <3> QED
      BY <3>1 DEF WasGiven
  <2>2. ASSUME NEW c \in Conns, NEW x \in Commands, x.line = <<s, 0>> PROVE FALSE
    <3>1. x.line[2] \in 1..MaxLines /\ x.line[2] = 0
      BY <2>2, CommandTypes
    <3> QED
      BY <3>1, BoundsAreNat
  <2> QED
    BY <1>2, <1>4, <2>1, <2>2
<1>5. CASE t = s /\ Running(s) /\ client'[s].calls = client[s].calls /\ client'[s].num = client[s].num
  BY <1>2, <1>5 DEF CurrentNumber, Current
<1>6. CASE t = s /\ Running(s) /\ client'[s].calls = client[s].calls
           /\ client[s].at = "greeting" /\ client[s].why = "first"
  BY <1>2, <1>6 DEF UnsentIsNew, Current
<1>7. t = s => \/ client'[s].calls = client[s].calls + 1
               \/ client'[s].calls = 0
               \/ Running(s) /\ client'[s].calls = client[s].calls /\ client'[s].num = client[s].num
               \/ /\ Running(s) /\ client'[s].calls = client[s].calls
                  /\ client[s].at = "greeting" /\ client[s].why = "first"
  <2>1. client[s].why \in {"attach", "first", "again"}
    BY ClientTypes DEF ServerStepsFrom
  <2> QED
    BY <2>1 DEF ServerStepsFrom, ServerEffect, Rests, Opens, SendsNew, Dials, Redials, Stops, SendsGreeted
<1> QED
  BY <1>1, <1>3, <1>4, <1>5, <1>6, <1>7

\* Nothing is on its way on a connection without commands.
LEMMA EmptyConn ==
    ASSUME Wired, NEW c \in Conns, \A x \in Commands : ~OnWay(c, x)
    PROVE  conn[c].hand = NoCommand /\ Len(conn[c].toShim) = 0 /\ conn[c].toShim = <<>>
<1>1. conn[c].hand \in Commands \cup {NoCommand} /\ conn[c].toShim \in Seq(Commands)
  BY WiredTypes DEF ConnRecord
<1>2. \A i \in 1..Len(conn[c].toShim) : conn[c].toShim[i] \in Commands
  BY <1>1, ElementOfSeq
<1>3. conn[c].hand = NoCommand /\ \A i \in 1..Len(conn[c].toShim) : FALSE
  BY <1>1, <1>2 DEF OnWay
<1>4. Len(conn[c].toShim) \in Nat
  BY <1>1, LenProperties
<1>5. Len(conn[c].toShim) = 0
  BY <1>3, <1>4
<1> QED
  BY <1>1, <1>3, <1>5, EmptySeq

\* What a server puts on a connection comes after everything that is on its way there.
LEMMA PutIsLast ==
    ASSUME NEW s \in Servers, ServerStepsFrom(s), CarriedAreSent, GivenAreSent, GreetingIsEmpty,
           Puts(s), SendsNew(s) \/ \E n \in Nat : SendsGreeted(s, n)
    PROVE  \A x \in Commands : OnWay(client[s].sock, x) => x.line[2] < client'[s].calls
<1>1. CASE SendsNew(s)
  <2>1. client'[s].calls = client[s].calls + 1 /\ client[s].sock \in Conns /\ conn[client[s].sock].peer = s
    BY <1>1, ClientTypes DEF SendsNew, Puts, ServerStepsFrom
  <2> QED
    BY <2>1, NewCallIsNew
<1>2. CASE \E n \in Nat : SendsGreeted(s, n)
  BY <1>2 DEF SendsGreeted, GreetingIsEmpty
<1> QED
  BY <1>1, <1>2

\* A line that goes out comes after those on its connection.
LEMMA ServerKeepsAscent ==
    ASSUME NEW s \in Servers, ServerStepsFrom(s), CarriedAreSent, GivenAreSent, GreetingIsEmpty, QueuesAscend
    PROVE  QueuesAscend'
<1>1. Wired /\ ServerFrame(s) /\ ServerEffect(s)
  BY DEF ServerStepsFrom
<1> SUFFICES ASSUME NEW c \in Conns
             PROVE  /\ \A i, j \in 1..Len(conn'[c].toShim) :
                          i < j => conn'[c].toShim[i].line[2] < conn'[c].toShim[j].line[2]
                    /\ conn'[c].hand # NoCommand =>
                          \A i \in 1..Len(conn'[c].toShim) : conn'[c].hand.line[2] < conn'[c].toShim[i].line[2]
  BY DEF QueuesAscend
<1>2. conn'[c].hand = conn[c].hand
  BY <1>1 DEF ServerFrame, ServerLeaves
<1>3. CASE conn'[c].toShim = conn[c].toShim
  BY <1>2, <1>3 DEF QueuesAscend
<1>4. CASE Puts(s) /\ c = client[s].sock /\ (SendsNew(s) \/ \E n \in Nat : SendsGreeted(s, n))
  <2> DEFINE q == conn[c].toShim
             y == Numbered(s, client'[s])
             h == conn[c].hand
  <2>1. q \in Seq(Commands) /\ y \in Commands /\ conn'[c].toShim = Append(q, y) /\ h \in Commands \cup {NoCommand}
    BY <1>1, <1>4, WiredTypes DEF ConnRecord, Puts
  <2>2. /\ \A i, j \in 1..Len(q) : i < j => q[i].line[2] < q[j].line[2]
        /\ h # NoCommand => \A i \in 1..Len(q) : h.line[2] < q[i].line[2]
    BY DEF QueuesAscend
  <2>3. /\ \A i \in 1..Len(q) : q[i] \in Commands /\ q[i].line[2] < client'[s].calls
        /\ h # NoCommand => h.line[2] < client'[s].calls
    <3>1. \A x \in Commands : OnWay(c, x) => x.line[2] < client'[s].calls
      BY <1>4, PutIsLast
    <3>2. \A i \in 1..Len(q) : q[i] \in Commands /\ OnWay(c, q[i])
      BY <2>1, ElementOfSeq DEF OnWay
    <3>3. h # NoCommand => h \in Commands /\ OnWay(c, h)
      BY <2>1 DEF OnWay
    <3> QED
      BY <3>1, <3>2, <3>3
  <2>4. y.line[2] = client'[s].calls
    BY DEF Numbered
  <2> HIDE DEF q, y, h
  <2>5. /\ Len(Append(q, y)) = Len(q) + 1 /\ Len(q) \in Nat
        /\ \A i \in 1..Len(q) : Append(q, y)[i] = q[i]
        /\ Append(q, y)[Len(q) + 1] = y
    BY <2>1, AppendProperties, LenProperties
  <2>6. ASSUME NEW i \in 1..(Len(q) + 1), NEW j \in 1..(Len(q) + 1), i < j
        PROVE  Append(q, y)[i].line[2] < Append(q, y)[j].line[2]
    <3>1. i \in 1..Len(q) /\ (j \in 1..Len(q) \/ j = Len(q) + 1)
      BY <2>5, <2>6
    <3> QED
      BY <2>2, <2>3, <2>4, <2>5, <2>6, <3>1
  <2>7. ASSUME NEW i \in 1..(Len(q) + 1), h # NoCommand
        PROVE  h.line[2] < Append(q, y)[i].line[2]
    <3>1. i \in 1..Len(q) \/ i = Len(q) + 1
      BY <2>5
    <3> QED
      BY <2>2, <2>3, <2>4, <2>5, <2>7, <3>1
  <2> QED
    BY <1>2, <2>1, <2>5, <2>6, <2>7 DEF h
<1> QED
  BY <1>1, <1>3, <1>4, ServerSendsOne DEF SendsNothing, ServerFrame

\* A connection that was dialed carries nothing.
LEMMA ServerKeepsGreeting ==
    ASSUME NEW s \in Servers, ServerStepsFrom(s), GreetingIsEmpty
    PROVE  GreetingIsEmpty'
<1>1. Wired /\ ServerFrame(s) /\ ServerEffect(s)
  BY DEF ServerStepsFrom
<1> SUFFICES ASSUME NEW t \in Servers, client'[t].at = "greeting", NEW x \in Commands,
                    NEW d \in Conns, d = client'[t].sock, OnWay(d, x)'
             PROVE  FALSE
  <2>1. \A t \in Servers : client'[t].at = "greeting" => client'[t].sock \in Conns
    BY DEF ServerStepsFrom, Wired, TypeInv, TypeOK, Clients, ClientsConnect, Connects
  <2> QED
    BY <2>1 DEF GreetingIsEmpty, OnWay
<1>2. CASE t # s
  <2>1. client'[t] = client[t] /\ client[t].sock \in Conns /\ conn[client[t].sock].peer = t
    BY <1>1, <1>2, CallsGrow, ClientTypes
  <2>2. OnWay(d, x)
    BY <1>2, <2>1, NewOnWay
  <2> QED
    BY <2>1, <2>2 DEF GreetingIsEmpty
<1>3. CASE t = s
  <2>1. Dials(s)
    BY <1>1, <1>3 DEF ServerEffect, Rests, Opens, SendsNew, Dials, Redials, Stops, SendsGreeted, Puts
  <2>2. client'[s].sock \in Conns /\ conn[client'[s].sock].link = "unused"
    BY <2>1 DEF Dials
  <2>3. conn'[d].toShim = conn[d].toShim /\ conn'[d].hand = conn[d].hand
    BY <1>1, <1>3, <2>1, <2>2 DEF Dials, SendsNothing, ServerFrame, ServerLeaves
  <2>4. conn[d].toShim = <<>> /\ conn[d].hand = NoCommand
    BY <1>1, <1>3, <2>2, WiredTypes DEF FreshConns
  <2> QED
    BY <2>3, <2>4, EmptySeq DEF OnWay
<1> QED
  BY <1>2, <1>3

\* A line that goes out is new, or has the number under which its copy was counted.
LEMMA ServerKeepsNoRepeats ==
    ASSUME NEW s \in Servers, ServerStepsFrom(s), CarriedAreSent, GivenAreSent, UnsentIsNew,
           CurrentNumber, NoRepeats
    PROVE  NoRepeats'
<1>1. Wired /\ ServerFrame(s) /\ ServerEffect(s)
  BY DEF ServerStepsFrom
<1>2. UNCHANGED <<owner, ownerConn, lastSeq, writer, stdin>>
  BY <1>1 DEF ServerFrame
<1>3. ASSUME writer # NoConn
      PROVE  /\ writer \in Conns /\ conn[writer].hand \in Commands /\ OnWay(writer, conn[writer].hand)
             /\ conn'[writer].hand = conn[writer].hand /\ conn'[writer].peer = conn[writer].peer
  <2>1. writer \in Conns /\ conn[writer].hand # NoCommand
    BY <1>1, <1>3, WiredTypes DEF WriterInv
  <2>2. conn[writer].hand \in Commands
    BY <1>1, <2>1, WiredTypes DEF ConnRecord
  <2>3. OnWay(writer, conn[writer].hand)
    BY <2>1 DEF OnWay
  <2>4. conn[writer].link # "unused"
    BY <1>1, <2>1, <2>3, OnWayTypes
  <2> QED
    BY <1>1, <2>1, <2>2, <2>3, <2>4 DEF ServerFrame, ServerLeaves
<1> SUFFICES ASSUME ownerConn # NoConn, NEW x \in Commands, OnWay(ownerConn, x)'
             PROVE  /\ \A i \in 1..Len(stdin) :
                          stdin[i][1] = owner /\ stdin[i][2] >= x.line[2] => x.seq <= lastSeq
                    /\ /\ writer # NoConn
                       /\ conn[writer].peer = owner
                       /\ conn[writer].hand.line[2] >= x.line[2]
                       => x.seq <= conn[writer].hand.seq
  BY <1>2, <1>3 DEF NoRepeats
<1>4. ownerConn \in Conns /\ conn[ownerConn].peer = owner
  BY <1>1, WiredTypes DEF OwnerIsOpen
<1>5. CASE OnWay(ownerConn, x)
  BY <1>5 DEF NoRepeats
<1>6. CASE /\ ownerConn = client[s].sock /\ conn[ownerConn].peer = s
           /\ x.seq = client'[s].num /\ x.line[2] = client'[s].calls /\ SendsNew(s)
  <2>1. client'[s].calls = client[s].calls + 1 /\ owner = s /\ client'[s].calls \in Nat
    BY <1>4, <1>6, CallsGrow DEF SendsNew
  <2>2. \A i \in 1..Len(stdin) : stdin[i][1] = s => stdin[i][2] < client'[s].calls /\ stdin[i][2] \in Nat
    BY <1>1, <2>1, NewCallIsNew, GivenTypes
  <2>3. ASSUME writer # NoConn, conn[writer].peer = s
        PROVE  conn[writer].hand.line[2] < client'[s].calls /\ conn[writer].hand.line[2] \in Nat
    BY <1>3, <2>1, <2>3, NewCallIsNew, CommandTypes
  <2> QED
    BY <1>6, <2>1, <2>2, <2>3
<1>7. CASE /\ ownerConn = client[s].sock /\ conn[ownerConn].peer = s /\ Running(s)
           /\ x.seq = client'[s].num /\ x.line[2] = client'[s].calls /\ \E n \in Nat : SendsGreeted(s, n)
  <2>1. /\ client'[s].calls = client[s].calls /\ owner = s /\ client[s].calls \in Nat
        /\ client[s].at = "greeting"
        /\ client[s].why = "first" \/ (client[s].why = "again" /\ client'[s].num = client[s].num)
    BY <1>1, <1>4, <1>7, ClientTypes DEF SendsGreeted
  <2>2. ASSUME NEW i \in 1..Len(stdin), stdin[i][1] = s, stdin[i][2] >= client[s].calls
        PROVE  x.seq <= lastSeq
    <3>1. stdin[i] = <<s, client[s].calls>>
      BY <1>1, <2>1, <2>2, GivenTypes DEF GivenAreSent
    <3>2. WasGiven(Current(s))
      BY <3>1 DEF WasGiven, Current
    <3> QED
      BY <1>7, <2>1, <3>2 DEF UnsentIsNew, CurrentNumber
  <2>3. ASSUME writer # NoConn, conn[writer].peer = s, conn[writer].hand.line[2] >= client[s].calls
        PROVE  x.seq <= conn[writer].hand.seq
    <3>1. /\ conn[writer].hand.line[1] = s /\ conn[writer].hand.line[2] <= client[s].calls
          /\ conn[writer].hand.line[2] \in Nat /\ conn[writer].hand.seq \in Nat
          /\ conn[writer].hand.line = <<conn[writer].hand.line[1], conn[writer].hand.line[2]>>
      BY <1>3, <2>3, CommandTypes DEF CarriedAreSent
    <3>2. conn[writer].hand.line = Current(s)
      BY <2>1, <2>3, <3>1 DEF Current
    <3>3. client[s].why = "again" /\ conn[writer].hand.seq = client[s].num
      BY <1>3, <1>7, <2>1, <2>3, <3>2 DEF UnsentIsNew, CurrentNumber
    <3> QED
      BY <1>7, <2>1, <3>1, <3>3
  <2> QED
    BY <1>7, <2>1, <2>2, <2>3
<1>8. PICK d \in Conns : d = ownerConn /\ OnWay(d, x)'
  BY <1>2, <1>4 DEF OnWay
<1> QED
  BY <1>4, <1>5, <1>6, <1>7, <1>8, NewOnWay

\* A step of a server keeps the ordering invariant.
LEMMA ServerKeepsOrder ==
    ASSUME NEW s \in Servers, ServerStepsFrom(s), OrderInv
    PROVE  OrderInv'
<1> USE DEF OrderInv
<1>1. OwnerInv' /\ CarriedAreSent' /\ GivenAreSent'
  BY ServerKeepsOwner, ServerKeepsCarried, ServerKeepsGiven
<1>2. UnsentIsNew' /\ CurrentNumber'
  BY ServerKeepsUnsent, ServerKeepsNumber
<1>3. QueuesAscend' /\ GreetingIsEmpty' /\ NoRepeats'
  BY ServerKeepsAscent, ServerKeepsGreeting, ServerKeepsNoRepeats
<1>4. UNCHANGED <<writer, stdin>>
  BY DEF ServerStepsFrom, ServerFrame
<1>5. WritingIsNew'
  <2>1. ASSUME writer # NoConn
        PROVE  conn'[writer].hand = conn[writer].hand /\ conn'[writer].peer = conn[writer].peer
    <3>1. writer \in Conns /\ conn[writer].hand # NoCommand
      BY <2>1, WiredTypes DEF WriterInv, ServerStepsFrom
    <3>2. conn[writer].link # "unused"
      BY <3>1, WiredTypes DEF FreshConns, ServerStepsFrom
    <3> QED
      BY <3>1, <3>2 DEF ServerStepsFrom, ServerFrame, ServerLeaves
  <2> QED
    BY <1>4, <2>1 DEF WritingIsNew
<1>6. LinesInOrder'
  BY <1>4 DEF LinesInOrder
<1> QED
  BY <1>1, <1>2, <1>3, <1>5, <1>6

(***************************************************************************)
(* A step of the shim keeps OrderInv.                                       *)
(***************************************************************************)
ShimStepsFrom(c) == Wired /\ Wired' /\ ShimStep(c)

\* What every step of the shim leaves alone, and who may become the owner.
LEMMA ShimFrame ==
    ASSUME NEW c \in Conns, ShimStepsFrom(c)
    PROVE  /\ UNCHANGED <<client, verdict, breaks>>
           /\ \A d \in Conns : conn'[d].peer = conn[d].peer
           /\ owner \in Servers
           /\ \/ owner' = owner
              \/ owner' = conn[c].peer /\ ~Running(owner) /\ conn[c].link = "hello"
           /\ \/ ownerConn' \in {ownerConn, NoConn} /\ owner' = owner
              \/ ownerConn' = c /\ conn[c].link = "hello" /\ owner' = conn[c].peer
           /\ lastSeq \in Nat /\ lastSeq' \in Nat /\ lastSeq <= lastSeq'
           /\ lastSeq' # lastSeq => Writes(c) /\ owner = conn[c].peer
           /\ stdin' # stdin => Writes(c)
<1>1. Wired /\ ShimStep(c)
  BY DEF ShimStepsFrom
<1>2. UNCHANGED <<client, verdict, breaks>> /\ \A d \in Conns : conn'[d].peer = conn[d].peer
  BY <1>1, ShimMoves DEF Others
<1>3. \/ Greets(c)
      \/ Takes(c)
      \/ Ends(c) /\ UNCHANGED stdin
      \/ UNCHANGED <<owner, ownerConn, lastSeq, stdin>>
      \/ Declines(c)
      \/ Writes(c)
      \/ Loses(c)
  BY <1>1, ShimMoves
<1>4. \/ owner' = owner
      \/ owner' = conn[c].peer /\ ~Running(owner) /\ conn[c].link = "hello"
  BY <1>3 DEF Greets, Takes, Ends, Declines, Writes, Loses, Answering
<1>5. \/ ownerConn' \in {ownerConn, NoConn} /\ owner' = owner
      \/ ownerConn' = c /\ conn[c].link = "hello" /\ owner' = conn[c].peer
  BY <1>3 DEF Greets, Takes, Ends, Declines, Writes, Loses, Answering
<1>6. lastSeq' # lastSeq => Writes(c) /\ owner = conn[c].peer /\ lastSeq' = conn[c].hand.seq
  BY <1>3 DEF Greets, Takes, Ends, Declines, Writes, Loses, Answering
<1>7. stdin' # stdin => Writes(c)
  BY <1>3 DEF Greets, Takes, Declines, Loses
<1>8. lastSeq \in Nat /\ owner \in Servers /\ (writer = c => conn[c].hand.seq = lastSeq + 1)
  BY <1>1, WiredTypes, ChannelAssumption DEF WriterInv
<1>9. lastSeq' \in Nat /\ lastSeq <= lastSeq'
  BY <1>6, <1>8 DEF Writes
<1> QED
  BY <1>2, <1>4, <1>5, <1>6, <1>7, <1>8, <1>9

\* A line that is written was on its way: what a write adds to stdin.
LEMMA WriteGives ==
    ASSUME NEW c \in Conns, ShimStepsFrom(c), CarriedAreSent, Writes(c)
    PROVE  /\ OnWay(c, conn[c].hand) /\ conn[c].hand \in Commands
           /\ conn[c].hand.line[1] = conn[c].peer /\ conn[c].hand.line[2] \in Nat
           /\ conn[c].hand.line = <<conn[c].peer, conn[c].hand.line[2]>>
           /\ conn[c].hand.seq = lastSeq + 1
           /\ conn[c].hand.line[2] <= client[conn[c].peer].calls
           /\ Len(stdin') = Len(stdin) + 1 /\ Len(stdin) \in Nat
           /\ \A i \in 1..Len(stdin) : stdin'[i] = stdin[i]
           /\ stdin'[Len(stdin) + 1] = conn[c].hand.line
           /\ \A i \in 1..Len(stdin') : i \in 1..Len(stdin) \/ i = Len(stdin) + 1
<1>1. Wired
  BY DEF ShimStepsFrom
<1>2. writer = c /\ conn[c].hand # NoCommand /\ conn[c].hand.seq = lastSeq + 1
  BY <1>1, WiredTypes, ChannelAssumption DEF Writes, WriterInv
<1>3. OnWay(c, conn[c].hand)
  BY <1>2 DEF OnWay
<1> DEFINE x == conn[c].hand
<1>4. /\ x \in Commands /\ x.line \in Lines /\ x.line[2] \in Nat
      /\ x.line = <<x.line[1], x.line[2]>>
  BY <1>1, <1>3, OnWayTypes
<1>5. x.line[1] = conn[c].peer /\ x.line[2] <= client[conn[c].peer].calls
  BY <1>3, <1>4 DEF CarriedAreSent
<1>6. stdin' = Append(stdin, x.line) /\ stdin \in Seq(Lines)
  BY <1>1, WiredTypes DEF Writes
<1>7. /\ Len(stdin') = Len(stdin) + 1 /\ Len(stdin) \in Nat
      /\ \A i \in 1..Len(stdin) : stdin'[i] = stdin[i]
      /\ stdin'[Len(stdin) + 1] = x.line
  BY <1>4, <1>6, AppendProperties, LenProperties
<1>8. \A i \in 1..Len(stdin') : i \in 1..Len(stdin) \/ i = Len(stdin) + 1
  BY <1>7
<1> QED
  BY <1>2, <1>3, <1>4, <1>5, <1>7, <1>8

\* A take-over displaces a dead owner only.
LEMMA ShimKeepsOwner ==
    ASSUME NEW c \in Conns, ShimStepsFrom(c), OwnerInv
    PROVE  OwnerInv'
<1>1. /\ UNCHANGED client
      /\ \A d \in Conns : conn'[d].peer = conn[d].peer
      /\ owner' = owner \/ (owner' = conn[c].peer /\ ~Running(owner))
  BY ShimFrame
<1>2. \A t \in Servers : (Running(t)' <=> Running(t)) /\ (Welcomed(t)' <=> Welcomed(t))
  BY <1>1 DEF Running, Welcomed
<1>3. ASSUME NEW t \in Servers, Running(t), owner = t PROVE owner' = t
  BY <1>1, <1>3
<1>4. ASSUME NEW t \in Servers, Running(t)', Welcomed(t)' PROVE owner' = t
  BY <1>2, <1>3, <1>4 DEF OwnerInv
<1>5. ASSUME NEW d \in Conns, Running(conn[d].peer)' PROVE conn'[d].peer = conn[d].peer /\ conn[d].peer \in Servers
             /\ Running(conn[d].peer)
  <2>1. conn[d].peer \in Servers
    BY WiredTypes DEF ShimStepsFrom, ConnRecord
  <2>2. client'[conn'[d].peer].up = "up"
    BY <1>5 DEF Running
  <2> QED
    BY <1>1, <2>1, <2>2 DEF Running
<1>6. ASSUME NEW d \in Conns, Running(conn[d].peer)', NEW x \in Commands, OnWay(d, x)'
      PROVE  owner' = conn'[d].peer
  <2>1. OnWay(d, x)
    BY <1>6, ShimOnWay DEF ShimStepsFrom
  <2>2. owner = conn[d].peer
    BY <1>5, <1>6, <2>1 DEF OwnerInv
  <2> QED
    BY <1>3, <1>5, <1>6, <2>2
<1>7. ASSUME NEW d \in Conns, Running(conn[d].peer)', NEW a \in Answers(d)', a.kind = "ok"
      PROVE  owner' = conn'[d].peer
  <2>1. CASE a \in Answers(d)
    <3>1. owner = conn[d].peer
      BY <1>5, <1>7, <2>1 DEF OwnerInv
    <3> QED
      BY <1>3, <1>5, <1>7, <3>1
  <2>2. CASE d = c /\ NewAnswer(c, a)
    BY <1>5, <1>7, <2>2 DEF NewAnswer, Reply
  <2> QED
    BY <1>7, <2>1, <2>2, ShimAnswers DEF ShimStepsFrom
<1> QED
  BY <1>4, <1>6, <1>7 DEF OwnerInv

\* The shim carries and gives only what was sent.
LEMMA ShimKeepsCarried ==
    ASSUME NEW c \in Conns, ShimStepsFrom(c), CarriedAreSent, GivenAreSent
    PROVE  CarriedAreSent' /\ GivenAreSent'
<1>1. CarriedAreSent'
  <2> SUFFICES ASSUME NEW d \in Conns, NEW x \in Commands, OnWay(d, x)'
               PROVE  x.line[1] = conn'[d].peer /\ x.line[2] <= client'[x.line[1]].calls
    BY DEF CarriedAreSent
  <2>1. OnWay(d, x)
    BY ShimOnWay DEF ShimStepsFrom
  <2> QED
    BY <2>1, ShimFrame DEF CarriedAreSent
<1>2. GivenAreSent'
  <2>1. CASE stdin' = stdin
    BY <2>1, ShimFrame DEF GivenAreSent
  <2>2. CASE Writes(c)
    <3> SUFFICES ASSUME NEW i \in 1..Len(stdin') PROVE stdin'[i][2] <= client'[stdin'[i][1]].calls
      BY DEF GivenAreSent
    <3>1. client' = client
      BY ShimFrame
    <3>2. CASE i \in 1..Len(stdin)
      BY <2>2, <3>1, <3>2, WriteGives DEF GivenAreSent
    <3>3. CASE i = Len(stdin) + 1
      BY <2>2, <3>1, <3>3, WriteGives
    <3> QED
      BY <2>2, <3>2, <3>3, WriteGives
  <2> QED
    BY <2>1, <2>2, ShimFrame
<1> QED
  BY <1>1, <1>2

\* What is given after a step of the shim was given before, or was on its way.
LEMMA GivenWasOnWay ==
    ASSUME NEW c \in Conns, ShimStepsFrom(c), CarriedAreSent, NEW l
    PROVE  /\ WasGiven(l) => WasGiven(l)'
           /\ WasGiven(l)' =>
                 \/ WasGiven(l)
                 \/ Writes(c) /\ l = conn[c].hand.line /\ OnWay(c, conn[c].hand) /\ conn[c].hand \in Commands
<1>1. CASE stdin' = stdin
  BY <1>1 DEF WasGiven
<1>2. CASE Writes(c)
  <2>1. WasGiven(l) => WasGiven(l)'
    <3>1. ASSUME NEW i \in 1..Len(stdin), stdin[i] = l PROVE i \in 1..Len(stdin') /\ stdin'[i] = l
      BY <1>2, <3>1, WriteGives
    <3> QED
      BY <3>1 DEF WasGiven
  <2>2. ASSUME NEW i \in 1..Len(stdin'), stdin'[i] = l PROVE WasGiven(l) \/ l = conn[c].hand.line
    BY <1>2, <2>2, WriteGives DEF WasGiven
  <2>3. OnWay(c, conn[c].hand) /\ conn[c].hand \in Commands
    BY <1>2, WriteGives
  <2> QED
    BY <1>2, <2>1, <2>2, <2>3 DEF WasGiven
<1> QED
  BY <1>1, <1>2, ShimFrame

\* The shim cannot give a line that is not on its way.
LEMMA ShimKeepsUnsent ==
    ASSUME NEW c \in Conns, ShimStepsFrom(c), CarriedAreSent, UnsentIsNew
    PROVE  UnsentIsNew'
<1>0. client' = client
  BY ShimFrame
<1> SUFFICES ASSUME NEW t \in Servers, Running(t), client[t].at \in {"dialing", "greeting"},
                    client[t].why = "first", NEW l, l = Current(t)
             PROVE  /\ ~WasGiven(l)'
                    /\ \A d \in Conns, x \in Commands : OnWay(d, x)' => x.line # l
  BY <1>0 DEF UnsentIsNew, Running, Current, WasGiven
<1>1. /\ ~WasGiven(l)
      /\ \A d \in Conns, x \in Commands : OnWay(d, x) => x.line # l
  BY DEF UnsentIsNew
<1>2. ASSUME NEW d \in Conns, NEW x \in Commands, OnWay(d, x)' PROVE x.line # l
  BY <1>1, <1>2, ShimOnWay DEF ShimStepsFrom
<1>3. ~WasGiven(l)'
  BY <1>1, GivenWasOnWay
<1> QED
  BY <1>2, <1>3

\* A write of the current line counts its send's number, as its server owns the shim.
LEMMA ShimKeepsNumber ==
    ASSUME NEW c \in Conns, ShimStepsFrom(c), OwnerInv, CarriedAreSent, CurrentNumber
    PROVE  CurrentNumber'
<1>0. client' = client /\ lastSeq \in Nat /\ lastSeq' \in Nat /\ lastSeq <= lastSeq'
  BY ShimFrame
<1> SUFFICES ASSUME NEW t \in Servers, Running(t), NEW l, l = Current(t)
             PROVE  /\ \A d \in Conns, x \in Commands : OnWay(d, x)' /\ x.line = l => x.seq = client[t].num
                    /\ WasGiven(l)' => client[t].num <= lastSeq'
  BY <1>0 DEF CurrentNumber, Running, Current, WasGiven
<1>1. /\ \A d \in Conns, x \in Commands : OnWay(d, x) /\ x.line = l => x.seq = client[t].num
      /\ WasGiven(l) => client[t].num <= lastSeq
      /\ client[t].num \in Nat /\ l[1] = t
  BY ClientTypes DEF CurrentNumber, Current, ShimStepsFrom
<1>2. ASSUME NEW d \in Conns, NEW x \in Commands, OnWay(d, x)', x.line = l PROVE x.seq = client[t].num
  BY <1>1, <1>2, ShimOnWay DEF ShimStepsFrom
<1>3. ASSUME WasGiven(l)' PROVE client[t].num <= lastSeq'
  <2>1. CASE WasGiven(l)
    BY <1>0, <1>1, <2>1
  <2>2. CASE Writes(c) /\ l = conn[c].hand.line /\ OnWay(c, conn[c].hand) /\ conn[c].hand \in Commands
    <3>1. conn[c].peer = t /\ conn[c].hand.seq = client[t].num
      BY <1>1, <2>2 DEF CarriedAreSent
    <3>2. owner = t
      BY <2>2, <3>1 DEF OwnerInv
    <3>3. lastSeq' = conn[c].hand.seq
      BY <2>2, <3>1, <3>2 DEF Writes
    <3> QED
      BY <1>1, <3>1, <3>3
  <2> QED
    BY <1>3, <2>1, <2>2, GivenWasOnWay
<1> QED
  BY <1>2, <1>3

\* Taking the head of a queue in hand keeps the order.
LEMMA ShimKeepsAscent ==
    ASSUME NEW c \in Conns, ShimStepsFrom(c), QueuesAscend
    PROVE  QueuesAscend'
<1>1. Wired /\ ShimStep(c)
  BY DEF ShimStepsFrom
<1> SUFFICES ASSUME NEW d \in Conns
             PROVE  /\ \A i, j \in 1..Len(conn'[d].toShim) :
                          i < j => conn'[d].toShim[i].line[2] < conn'[d].toShim[j].line[2]
                    /\ conn'[d].hand # NoCommand =>
                          \A i \in 1..Len(conn'[d].toShim) : conn'[d].hand.line[2] < conn'[d].toShim[i].line[2]
  BY DEF QueuesAscend
<1>2. CASE conn'[d].hand \in {conn[d].hand, NoCommand} /\ conn'[d].toShim = conn[d].toShim
  BY <1>2 DEF QueuesAscend
<1>3. CASE conn'[d].toShim = <<>>
  BY <1>3, EmptySeq
<1>4. CASE d = c /\ Takes(c)
  <2> DEFINE q == conn[c].toShim
  <2>1. q \in Seq(Commands) /\ q # <<>> /\ conn'[c].hand = Head(q) /\ conn'[c].toShim = Tail(q)
    BY <1>1, <1>4, WiredTypes DEF ConnRecord, Takes
  <2>2. \A i, j \in 1..Len(q) : i < j => q[i].line[2] < q[j].line[2]
    BY DEF QueuesAscend
  <2> HIDE DEF q
  <2>3. /\ Len(Tail(q)) = Len(q) - 1 /\ \A i \in 1..Len(Tail(q)) : Tail(q)[i] = q[i + 1]
        /\ Head(q) = q[1] /\ Len(q) \in Nat /\ Len(q) > 0
    BY <2>1, HeadTailProperties, LenProperties, EmptySeq
  <2>4. ASSUME NEW i \in 1..Len(Tail(q)), NEW j \in 1..Len(Tail(q)), i < j
        PROVE  Tail(q)[i].line[2] < Tail(q)[j].line[2]
    <3>1. i + 1 \in 1..Len(q) /\ j + 1 \in 1..Len(q) /\ i + 1 < j + 1
      BY <2>3, <2>4
    <3> QED
      BY <2>2, <2>3, <3>1
  <2>5. ASSUME NEW i \in 1..Len(Tail(q)) PROVE Head(q).line[2] < Tail(q)[i].line[2]
    <3>1. 1 \in 1..Len(q) /\ i + 1 \in 1..Len(q) /\ 1 < i + 1
      BY <2>3
    <3> QED
      BY <2>2, <2>3, <3>1
  <2> QED
    BY <1>4, <2>1, <2>4, <2>5
<1>5. \/ conn'[d].hand \in {conn[d].hand, NoCommand} /\ conn'[d].toShim = conn[d].toShim
      \/ conn'[d].toShim = <<>>
      \/ d = c /\ Takes(c)
  <2>1. CASE d # c
    BY <1>1, <2>1, ShimMoves DEF Others
  <2>2. CASE d = c
    <3>1. \/ Greets(c)
          \/ Takes(c)
          \/ Ends(c)
          \/ UNCHANGED conn
          \/ Declines(c)
          \/ Writes(c)
          \/ Loses(c)
      BY <1>1, ShimMoves
    <3> QED
      BY <2>2, <3>1 DEF Greets, Ends, Declines, Writes, Loses, Answering
  <2> QED
    BY <2>1, <2>2
<1> QED
  BY <1>2, <1>3, <1>4, <1>5

\* At its turn, a command of the owner has not been given, and is not being written.
LEMMA ShimKeepsNoRepeats ==
    ASSUME NEW c \in Conns, ShimStepsFrom(c), CarriedAreSent, QueuesAscend, NoRepeats
    PROVE  NoRepeats'
<1>1. Wired /\ ShimStep(c)
  BY DEF ShimStepsFrom
<1>2. ASSUME writer' # NoConn
      PROVE  \/ writer' = writer /\ writer # c /\ writer \in Conns
                /\ conn'[writer].hand = conn[writer].hand /\ conn'[writer].peer = conn[writer].peer
             \/ /\ writer' = c /\ ownerConn = c /\ conn' = conn /\ stdin' = stdin
                /\ conn[c].hand # NoCommand /\ conn[c].hand.seq = lastSeq + 1 /\ writer = NoConn
  <2>1. writer = c => conn[c].hand # NoCommand
    BY <1>1, WiredTypes, ChannelAssumption DEF WriterInv
  <2>2. conn[c].link = "hello" => conn[c].hand = NoCommand
    BY <1>1, WiredTypes DEF FreshConns
  <2>3. \/ writer' = writer /\ writer # c
        \/ /\ writer' = c /\ ownerConn = c /\ conn' = conn /\ stdin' = stdin
           /\ AtLock(c) /\ InTurn(c)
    <3>1. \/ Greets(c)
          \/ Takes(c)
          \/ Ends(c) /\ UNCHANGED <<writer, stdin>> /\ (writer = NoConn \/ conn[c].hand = NoCommand)
          \/ /\ UNCHANGED <<conn, owner, ownerConn, lastSeq, stdin>> /\ writer' = c /\ ownerConn = c
             /\ AtLock(c) /\ InTurn(c)
          \/ Declines(c)
          \/ Writes(c)
          \/ Loses(c)
      BY <1>1, ShimMoves
    <3> QED
      BY <1>2, <2>1, <2>2, <3>1, ChannelAssumption
      DEF Greets, Takes, Declines, Writes, Loses, AtLock
  <2>4. writer \in Conns \cup {NoConn}
    BY <1>1, WiredTypes
  <2>5. writer' = writer /\ writer # c /\ writer \in Conns =>
           conn'[writer].hand = conn[writer].hand /\ conn'[writer].peer = conn[writer].peer
    BY <1>1, ShimMoves DEF Others
  <2> QED
    BY <1>2, <2>3, <2>4, <2>5 DEF AtLock, InTurn
<1>3. /\ owner' = owner \/ conn[c].link = "hello"
      /\ \/ ownerConn' \in {ownerConn, NoConn} /\ owner' = owner
         \/ ownerConn' = c /\ conn[c].link = "hello"
      /\ lastSeq \in Nat /\ lastSeq' \in Nat /\ lastSeq <= lastSeq'
  BY ShimFrame
<1> SUFFICES ASSUME ownerConn' # NoConn, NEW x \in Commands, NEW d \in Conns, d = ownerConn', OnWay(d, x)'
             PROVE  /\ \A i \in 1..Len(stdin') :
                          stdin'[i][1] = owner' /\ stdin'[i][2] >= x.line[2] => x.seq <= lastSeq'
                    /\ /\ writer' # NoConn
                       /\ conn'[writer'].peer = owner'
                       /\ conn'[writer'].hand.line[2] >= x.line[2]
                       => x.seq <= conn'[writer'].hand.seq
  <2>1. ownerConn' \in Conns \cup {NoConn}
    BY DEF ShimStepsFrom, Wired, TypeInv, TypeOK
  <2> QED
    BY <2>1 DEF NoRepeats, OnWay
<1>4. OnWay(d, x) /\ x.seq \in Nat /\ x.line[2] \in Nat
  BY <1>1, ShimOnWay, CommandTypes
<1>5. d = ownerConn /\ ownerConn # NoConn /\ owner' = owner /\ ownerConn' = ownerConn
      /\ conn[ownerConn].peer = owner
  <2>1. conn[c].link = "hello" => d # c
    BY <1>1, <1>4, OnWayTypes
  <2> QED
    BY <1>1, <1>3, <2>1, WiredTypes DEF OwnerIsOpen
<1>6. /\ \A i \in 1..Len(stdin) :
            stdin[i][1] = owner /\ stdin[i][2] >= x.line[2] => x.seq <= lastSeq
      /\ /\ writer # NoConn
         /\ conn[writer].peer = owner
         /\ conn[writer].hand.line[2] >= x.line[2]
         => x.seq <= conn[writer].hand.seq
  BY <1>4, <1>5 DEF NoRepeats
<1>7. ASSUME NEW i \in 1..Len(stdin'), stdin'[i][1] = owner, stdin'[i][2] >= x.line[2]
      PROVE  x.seq <= lastSeq'
  <2>1. CASE stdin' = stdin
    BY <1>3, <1>4, <1>6, <1>7, <2>1
  <2>2. CASE Writes(c) /\ i \in 1..Len(stdin)
    <3>1. stdin'[i] = stdin[i]
      BY <2>2, WriteGives
    <3>2. x.seq <= lastSeq
      BY <1>6, <1>7, <2>2, <3>1
    <3> QED
      BY <1>3, <1>4, <3>2
  <2>3. CASE Writes(c) /\ i = Len(stdin) + 1
    <3>1. stdin'[i] = conn[c].hand.line /\ conn[c].hand.line[1] = conn[c].peer /\ writer = c
      BY <2>3, WriteGives DEF Writes
    <3>2. owner = conn[c].peer /\ x.seq <= conn[c].hand.seq
      BY <1>6, <1>7, <3>1, ChannelAssumption
    <3>3. lastSeq' = conn[c].hand.seq
      BY <2>3, <3>2 DEF Writes
    <3> QED
      BY <3>2, <3>3
  <2> QED
    BY <2>1, <2>2, <2>3, ShimFrame, WriteGives
<1>8. ASSUME writer' # NoConn, conn'[writer'].peer = owner, conn'[writer'].hand.line[2] >= x.line[2]
      PROVE  x.seq <= conn'[writer'].hand.seq
  <2>1. CASE writer' = writer /\ writer \in Conns
             /\ conn'[writer].hand = conn[writer].hand /\ conn'[writer].peer = conn[writer].peer
    BY <1>6, <1>8, <2>1, ChannelAssumption
  <2>2. CASE writer' = c /\ ownerConn = c /\ conn' = conn /\ conn[c].hand # NoCommand
    <3>1. conn[c].hand.line[2] >= x.line[2]
      BY <1>8, <2>2
    <3>2. x = conn[c].hand
      <4>1. ASSUME NEW i \in 1..Len(conn[c].toShim), conn[c].toShim[i] = x PROVE FALSE
        <5>1. conn[c].hand.line[2] < x.line[2]
          BY <2>2, <4>1 DEF QueuesAscend
        <5>2. conn[c].hand.line[2] \in Nat
          BY <1>1, <2>2, OnWayTypes DEF OnWay
        <5> QED
          BY <1>4, <3>1, <5>1, <5>2
      <4> QED
        BY <1>4, <1>5, <2>2, <4>1 DEF OnWay
    <3> QED
      BY <1>4, <2>2, <3>2
  <2> QED
    BY <1>2, <1>8, <2>1, <2>2
<1> QED
  BY <1>5, <1>7, <1>8

\* A write begins on the owner's connection with a number that was not counted, so by
\* NoRepeats its line was not given.
LEMMA ShimKeepsWriting ==
    ASSUME NEW c \in Conns, ShimStepsFrom(c), CarriedAreSent, NoRepeats, WritingIsNew
    PROVE  WritingIsNew'
<1>1. Wired /\ ShimStep(c)
  BY DEF ShimStepsFrom
<1> SUFFICES ASSUME writer' # NoConn
             PROVE  \A i \in 1..Len(stdin') :
                       stdin'[i][1] = conn'[writer'].peer => stdin'[i][2] < conn'[writer'].hand.line[2]
  BY DEF WritingIsNew
<1>2. writer = c => conn[c].hand # NoCommand
  BY <1>1, WiredTypes, ChannelAssumption DEF WriterInv
<1>3. conn[c].link = "hello" => conn[c].hand = NoCommand
  BY <1>1, WiredTypes DEF FreshConns
<1>4. \/ writer' = writer /\ writer # c /\ stdin' = stdin
      \/ /\ writer' = c /\ ownerConn = c /\ conn' = conn /\ stdin' = stdin
         /\ AtLock(c) /\ InTurn(c)
  <2>1. \/ Greets(c)
        \/ Takes(c)
        \/ Ends(c) /\ UNCHANGED <<writer, stdin>> /\ (writer = NoConn \/ conn[c].hand = NoCommand)
        \/ /\ UNCHANGED <<conn, owner, ownerConn, lastSeq, stdin>> /\ writer' = c /\ ownerConn = c
           /\ AtLock(c) /\ InTurn(c)
        \/ Declines(c)
        \/ Writes(c)
        \/ Loses(c)
    BY <1>1, ShimMoves
  <2> QED
    BY <1>2, <1>3, <2>1, ChannelAssumption DEF Greets, Takes, Declines, Writes, Loses, AtLock
<1>5. CASE writer' = writer /\ writer # c /\ stdin' = stdin
  <2>1. writer \in Conns
    BY <1>1, <1>5, WiredTypes
  <2>2. conn'[writer].hand = conn[writer].hand /\ conn'[writer].peer = conn[writer].peer
    BY <1>1, <1>5, <2>1, ShimMoves DEF Others
  <2> QED
    BY <1>5, <2>2 DEF WritingIsNew
<1>6. CASE /\ writer' = c /\ ownerConn = c /\ conn' = conn /\ stdin' = stdin
           /\ AtLock(c) /\ InTurn(c)
  <2>1. conn[c].hand # NoCommand /\ conn[c].hand.seq = lastSeq + 1 /\ lastSeq \in Nat
    BY <1>1, <1>6, WiredTypes DEF AtLock, InTurn
  <2>2. OnWay(c, conn[c].hand) /\ conn[c].hand \in Commands /\ conn[c].hand.line[2] \in Nat
    <3>1. OnWay(c, conn[c].hand)
      BY <2>1 DEF OnWay
    <3> QED
      BY <1>1, <3>1, OnWayTypes
  <2>3. owner = conn[c].peer
    BY <1>1, <1>6, WiredTypes, ChannelAssumption DEF OwnerIsOpen
  <2>4. ASSUME NEW i \in 1..Len(stdin), stdin[i][1] = owner PROVE stdin[i][2] < conn[c].hand.line[2]
    <3>1. stdin[i][2] \in Nat
      BY <1>1, GivenTypes
    <3>2. ~(stdin[i][2] >= conn[c].hand.line[2])
      BY <1>6, <2>1, <2>2, <2>4, ChannelAssumption DEF NoRepeats
    <3> QED
      BY <2>2, <3>1, <3>2
  <2> QED
    BY <1>6, <2>3, <2>4
<1> QED
  BY <1>4, <1>5, <1>6

\* A line that is written comes after all that its server has given.
LEMMA ShimKeepsLines ==
    ASSUME NEW c \in Conns, ShimStepsFrom(c), CarriedAreSent, WritingIsNew, LinesInOrder
    PROVE  LinesInOrder'
<1>1. CASE stdin' = stdin
  BY <1>1 DEF LinesInOrder
<1>2. CASE Writes(c)
  <2> SUFFICES ASSUME NEW i \in 1..Len(stdin'), NEW j \in 1..Len(stdin'), i < j,
                      stdin'[i][1] = stdin'[j][1]
               PROVE  stdin'[i][2] < stdin'[j][2]
    BY DEF LinesInOrder
  <2>1. i \in 1..Len(stdin) /\ stdin'[i] = stdin[i]
    BY <1>2, WriteGives
  <2>2. CASE j \in 1..Len(stdin)
    <3>1. stdin'[j] = stdin[j]
      BY <1>2, <2>2, WriteGives
    <3> QED
      BY <2>1, <2>2, <3>1 DEF LinesInOrder
  <2>3. CASE j = Len(stdin) + 1
    <3>1. stdin'[j] = conn[c].hand.line /\ conn[c].hand.line[1] = conn[c].peer /\ writer = c
      BY <1>2, <2>3, WriteGives DEF Writes
    <3> QED
      BY <2>1, <3>1, ChannelAssumption DEF WritingIsNew
  <2> QED
    BY <1>2, <2>2, <2>3, WriteGives
<1> QED
  BY <1>1, <1>2, ShimFrame

\* A step of the shim keeps the ordering invariant.
LEMMA ShimKeepsOrder ==
    ASSUME NEW c \in Conns, ShimStepsFrom(c), OrderInv
    PROVE  OrderInv'
<1> USE DEF OrderInv
<1>1. OwnerInv' /\ CarriedAreSent' /\ GivenAreSent'
  BY ShimKeepsOwner, ShimKeepsCarried
<1>2. UnsentIsNew' /\ CurrentNumber' /\ QueuesAscend'
  BY ShimKeepsUnsent, ShimKeepsNumber, ShimKeepsAscent
<1>3. NoRepeats' /\ WritingIsNew' /\ LinesInOrder'
  BY ShimKeepsNoRepeats, ShimKeepsWriting, ShimKeepsLines
<1>4. GreetingIsEmpty'
  <2> SUFFICES ASSUME NEW t \in Servers, client'[t].at = "greeting", NEW x \in Commands,
                      NEW d \in Conns, d = client'[t].sock, OnWay(d, x)'
               PROVE  FALSE
    <3>1. \A t \in Servers : client'[t].at = "greeting" => client'[t].sock \in Conns
      BY DEF ShimStepsFrom, Wired, TypeInv, TypeOK, Clients, ClientsConnect, Connects
    <3> QED
      BY <3>1 DEF GreetingIsEmpty, OnWay
  <2>1. client' = client
    BY ShimFrame
  <2>2. OnWay(d, x)
    BY ShimOnWay DEF ShimStepsFrom
  <2> QED
    BY <2>1, <2>2 DEF GreetingIsEmpty
<1> QED
  BY <1>1, <1>2, <1>3, <1>4

(***************************************************************************)
(* OrderInv always holds.                                                   *)
(***************************************************************************)
\* Before the first step nothing is on its way, answered or given.
LEMMA InitEmpty ==
    ASSUME Init
    PROVE  /\ Wired
           /\ \A c \in Conns : Answers(c) = {} /\ \A x : ~OnWay(c, x)
           /\ \A c \in Conns : conn[c].toShim = <<>> /\ conn[c].hand = NoCommand /\ conn[c].toClient = <<>>
           /\ \A i \in 1..Len(stdin) : FALSE
           /\ \A l : ~WasGiven(l)
           /\ \A s \in Servers : /\ client[s].at = "idle" /\ client[s].sock = NoConn
                                 /\ ~client[s].broken
<1>1. Wired
  BY InitWired
<1>2. \A c \in Conns : conn[c].toShim = <<>> /\ conn[c].hand = NoCommand /\ conn[c].toClient = <<>>
  BY DEF Init, Unused
<1>3. \A c \in Conns : Answers(c) = {} /\ \A x : ~OnWay(c, x)
  BY <1>2, EmptySeq DEF Answers, OnWay
<1>4. \A i \in 1..Len(stdin) : FALSE
  BY EmptySeq DEF Init
<1>5. \A l : ~WasGiven(l)
  BY <1>4 DEF WasGiven
<1>6. \A s \in Servers : client[s].at = "idle" /\ client[s].sock = NoConn /\ ~client[s].broken
  BY DEF Init, Idle
<1> QED
  BY <1>1, <1>2, <1>3, <1>4, <1>5, <1>6

\* Before the first step there is nothing to be out of order.
LEMMA InitOrder == Init => OrderInv
<1> SUFFICES ASSUME Init PROVE OrderInv
  OBVIOUS
<1>1. OwnerInv /\ CarriedAreSent /\ UnsentIsNew /\ GreetingIsEmpty
  BY InitEmpty DEF OwnerInv, CarriedAreSent, UnsentIsNew, GreetingIsEmpty, Welcomed
<1>2. CurrentNumber
  BY InitEmpty DEF CurrentNumber
<1>3. QueuesAscend
  BY InitEmpty, EmptySeq DEF QueuesAscend
<1>4. GivenAreSent /\ NoRepeats /\ WritingIsNew /\ LinesInOrder
  BY InitEmpty DEF GivenAreSent, NoRepeats, WritingIsNew, LinesInOrder, Init
<1> QED
  BY <1>1, <1>2, <1>3, <1>4 DEF OrderInv

\* The main loop's close of the CLI's stdin changes nothing that OrderInv is about.
LEMMA IdleKeepsOrder ==
    ASSUME OrderInv, UNCHANGED <<client, conn, owner, ownerConn, lastSeq, writer, stdin>>
    PROVE  OrderInv'
<1> USE DEF OrderInv
<1>1. OwnerInv'
  BY DEF OwnerInv, Running, Welcomed, OnWay, Answers
<1>2. CarriedAreSent' /\ GivenAreSent' /\ QueuesAscend' /\ GreetingIsEmpty'
  BY DEF CarriedAreSent, GivenAreSent, QueuesAscend, GreetingIsEmpty, OnWay
<1>3. UnsentIsNew'
  BY DEF UnsentIsNew, Running, OnWay, WasGiven, Current
<1>4. CurrentNumber'
  BY DEF CurrentNumber, Running, OnWay, WasGiven, Current
<1>5. NoRepeats' /\ WritingIsNew' /\ LinesInOrder'
  BY DEF NoRepeats, WritingIsNew, LinesInOrder, OnWay
<1> QED
  BY <1>1, <1>2, <1>3, <1>4, <1>5

\* Every step keeps the ordering invariant.
LEMMA NextOrder == Wired /\ OrderInv /\ [Next]_vars => OrderInv'
<1> SUFFICES ASSUME Wired, OrderInv, [Next]_vars PROVE OrderInv'
  OBVIOUS
<1>0. Wired'
  BY NextWired
<1>1. ASSUME NEW s \in Servers, ServerStep(s) PROVE OrderInv'
  BY <1>0, <1>1, ServerMoves, ServerKeepsOrder DEF ServerStepsFrom
<1>2. ASSUME NEW c \in Conns, ShimStep(c) PROVE OrderInv'
  BY <1>0, <1>2, ShimKeepsOrder DEF ShimStepsFrom
<1>3. CASE UNCHANGED <<client, conn, owner, ownerConn, lastSeq, writer, stdin>>
  BY <1>3, IdleKeepsOrder
<1> QED
  BY <1>1, <1>2, <1>3 DEF Next, IdleClose

\* The ordering invariant holds in every reachable state.
THEOREM OrderInvariant == Spec => []OrderInv
<1>1. Init => OrderInv
  BY InitOrder
<1>2. Wired /\ OrderInv /\ [Next]_vars => OrderInv'
  BY NextOrder
<1> QED
  BY <1>1, <1>2, WiredAlways, PTL DEF Spec

\* The lines of every server reach the CLI in the order it sent them and at
\* most once, whatever connections and owners do, for any number of servers,
\* connections and lines.
THEOREM LinesStayInOrder == Spec => []LinesInOrder
<1>1. OrderInv => LinesInOrder
  BY DEF OrderInv
<1> QED
  BY <1>1, OrderInvariant, PTL

(***************************************************************************)
(* A step of a server keeps AgreeInv.                                       *)
(***************************************************************************)
\* What a step of a server tells its caller.
LEMMA ServerTells ==
    ASSUME NEW s \in Servers, ServerStepsFrom(s)
    PROVE  \/ UNCHANGED verdict
           \/ /\ Stops(s) /\ client[s].at # "idle" /\ client[s].why # "attach"
              /\ Current(s) \in Lines /\ Running(s) /\ Running(s)'
              /\ client'[s].calls = client[s].calls
              /\ \E result : verdict' = [verdict EXCEPT ![Current(s)] = result]
<1>1. CASE Stops(s) /\ client[s].why # "attach" /\ Running(s) /\ Running(s)'
  <2>1. client[s].at # "idle" /\ client[s].calls \in 0..MaxLines /\ client[s].calls > 0
    BY <1>1, ClientTypes DEF Stops, ServerStepsFrom
  <2>2. Current(s) \in Lines
    <3>1. client[s].calls \in 1..MaxLines
      BY <2>1, BoundsAreNat
    <3> QED
      BY <3>1 DEF Current, Lines
  <2>3. \E result : verdict' = [verdict EXCEPT ![Current(s)] = result]
    BY <1>1 DEF Stops, Fails, Adopts, Succeeds
  <2> QED
    BY <1>1, <2>1, <2>2, <2>3 DEF Stops
<1>2. CASE UNCHANGED verdict
  BY <1>2
<1> QED
  BY <1>1, <1>2
  DEF ServerStepsFrom, ServerEffect, Rests, Opens, SendsNew, Dials, Redials, Stops, SendsGreeted,
      Fails, Adopts, Succeeds

\* A verdict is given to the current line once; who gave up has given up for good.
LEMMA ServerKeepsVerdicts ==
    ASSUME NEW s \in Servers, ServerStepsFrom(s), VerdictsAreOfCalls
    PROVE  /\ VerdictsAreOfCalls'
           /\ \A t \in Servers : GaveUp(t) => GaveUp(t)'
<1>0. /\ verdict \in [Lines -> {"none", "done", "failed"}]
      /\ \A t \in Servers : /\ client'[t].calls >= client[t].calls
                            /\ client[t].calls \in Nat /\ client'[t].calls \in Nat
                            /\ t # s => client'[t] = client[t]
  BY WiredTypes, CallsGrow DEF ServerStepsFrom
<1>1. ASSUME NEW l \in Lines, l[2] > client'[l[1]].calls PROVE verdict'[l] = "none"
  <2>1. l[1] \in Servers /\ l[2] \in Nat
    BY BoundsAreNat DEF Lines
  <2>2. verdict[l] = "none"
    BY <1>0, <1>1, <2>1 DEF VerdictsAreOfCalls
  <2>3. CASE l = Current(s) /\ client'[s].calls = client[s].calls
    <3>1. l[1] = s /\ l[2] = client[s].calls
      BY <2>3 DEF Current
    <3> QED
      BY <1>0, <1>1, <2>3, <3>1
  <2> QED
    BY <1>0, <2>2, <2>3, ServerTells
<1>2. ASSUME NEW t \in Servers, client'[t].at # "idle", client'[t].why # "attach"
      PROVE  verdict'[<<t, client'[t].calls>>] = "none"
  <2>1. CASE t # s
    <3>1. client'[t] = client[t] /\ verdict[<<t, client[t].calls>>] = "none"
      BY <1>0, <1>2, <2>1 DEF VerdictsAreOfCalls, Current
    <3>2. Current(s) # <<t, client[t].calls>>
      BY <2>1 DEF Current
    <3>3. client[t].at # "idle" /\ client[t].why # "attach"
      BY <1>2, <3>1
    <3>4. <<t, client[t].calls>> \in Lines
      <4>1. client[t].calls \in 0..MaxLines /\ client[t].calls > 0
        BY <3>3, ClientTypes DEF ServerStepsFrom
      <4>2. client[t].calls \in 1..MaxLines
        BY <4>1, BoundsAreNat
      <4> QED
        BY <4>2 DEF Lines
    <3> QED
      BY <1>0, <3>1, <3>2, <3>4, ServerTells
  <2>2. CASE t = s
    <3>1. UNCHANGED verdict
      BY <1>2, <2>2, ServerTells DEF Stops
    <3>2. \/ client'[s].calls = client[s].calls + 1
          \/ /\ client'[s].calls = client[s].calls /\ client[s].at # "idle"
             /\ client[s].why # "attach"
      <4>1. client[s].at = "awaiting" => client[s].why # "attach"
        BY ClientTypes DEF ServerStepsFrom
      <4> QED
        BY <1>2, <2>2, <4>1 DEF ServerStepsFrom, ServerEffect, Rests, Opens, SendsNew, Dials, Redials, Stops,
           SendsGreeted
    <3>3. CASE client'[s].calls = client[s].calls + 1
      <4> DEFINE l == <<s, client'[s].calls>>
      <4>1. client'[s].calls \in 0..MaxLines
        BY DEF ServerStepsFrom, Wired, TypeInv, TypeOK, Clients
      <4>2. client'[s].calls \in 1..MaxLines /\ client'[s].calls > client[s].calls
        BY <1>0, <3>3, <4>1, BoundsAreNat
      <4>3. l \in Lines /\ l[1] = s /\ l[2] > client[s].calls
        BY <4>2 DEF Lines
      <4>4. verdict[l] = "none"
        BY <4>3 DEF VerdictsAreOfCalls
      <4> QED
        BY <2>2, <3>1, <4>4
    <3>4. CASE /\ client'[s].calls = client[s].calls /\ client[s].at # "idle"
               /\ client[s].why # "attach"
      BY <2>2, <3>1, <3>4 DEF VerdictsAreOfCalls, Current
    <3> QED
      BY <3>2, <3>3, <3>4
  <2> QED
    BY <2>1, <2>2
<1>3. ASSUME NEW t \in Servers, GaveUp(t) PROVE GaveUp(t)'
  <2>1. PICK l \in Lines : l[1] = t /\ verdict[l] = "failed"
    BY <1>3 DEF GaveUp
  <2>2. verdict'[l] = "failed"
    <3>1. CASE UNCHANGED verdict
      BY <2>1, <3>1
    <3>2. CASE client[s].at # "idle" /\ client[s].why # "attach"
               /\ \E result : verdict' = [verdict EXCEPT ![Current(s)] = result]
      <4>1. l # Current(s)
        BY <2>1, <3>2 DEF VerdictsAreOfCalls
      <4> QED
        BY <1>0, <2>1, <3>2, <4>1
    <3> QED
      BY <3>1, <3>2, ServerTells
  <2> QED
    BY <2>1, <2>2 DEF GaveUp
<1> QED
  BY <1>1, <1>2, <1>3 DEF VerdictsAreOfCalls, Current

\* An answer is a reply; a counted one holds a number that was reached.
LEMMA AnswerTypes ==
    ASSUME Wired, NEW c \in Conns, NEW a \in Answers(c)
    PROVE  a \in Replies /\ a.n \in Nat
<1>1. conn[c].toClient \in Seq(Replies)
  BY WiredTypes DEF ConnRecord
<1>2. a \in Replies
  BY <1>1, ElementOfSeq DEF Answers
<1> QED
  BY <1>2 DEF Replies

\* A load counts the commands, the answers and the command in hand.
LEMMA LoadTypes ==
    ASSUME Wired, NEW c \in Conns
    PROVE  /\ Len(conn[c].toShim) \in Nat /\ Len(conn[c].toClient) \in Nat /\ Load(c) \in Nat
           /\ Load(c) >= Len(conn[c].toShim) + Len(conn[c].toClient)
           /\ conn[c].hand # NoCommand => Load(c) = Len(conn[c].toShim) + Len(conn[c].toClient) + 1
           /\ conn[c].hand = NoCommand => Load(c) = Len(conn[c].toShim) + Len(conn[c].toClient)
<1>1. Len(conn[c].toShim) \in Nat /\ Len(conn[c].toClient) \in Nat
  BY WiredTypes, LenProperties DEF ConnRecord
<1> DEFINE m == Len(conn[c].toShim)
           n == Len(conn[c].toClient)
<1>2. Load(c) = m + n + (IF conn[c].hand = NoCommand THEN 0 ELSE 1)
  BY DEF Load
<1>3. m \in Nat /\ n \in Nat
  BY <1>1
<1> HIDE DEF m, n
<1> DEFINE k == Load(c)
           none == conn[c].hand = NoCommand
<1>4. /\ k = m + n + (IF none THEN 0 ELSE 1)
      /\ k \in Nat /\ k >= m + n /\ (~none => k = m + n + 1) /\ (none => k = m + n)
  <2>1. k = m + n + (IF none THEN 0 ELSE 1)
    BY <1>2
  <2> HIDE DEF k, none
  <2> QED
    BY <1>3, <2>1
<1> QED
  BY <1>3, <1>4 DEF m, n

\* A server that another one's step leaves alone agrees as before.
LEMMA OthersAgree ==
    ASSUME NEW s \in Servers, ServerStepsFrom(s), NEW t \in Servers, t # s, Agrees(t)
    PROVE  Agrees(t)'
<1>1. client'[t] = client[t] /\ lastSeq' = lastSeq /\ stdin' = stdin
  BY CallsGrow DEF ServerStepsFrom, ServerFrame
<1>2. ASSUME client[t].sock # NoConn
      PROVE  /\ client[t].sock \in Conns /\ conn[client[t].sock].peer = t
             /\ conn'[client[t].sock].toShim = conn[client[t].sock].toShim
             /\ conn'[client[t].sock].toClient = conn[client[t].sock].toClient
             /\ conn'[client[t].sock].hand = conn[client[t].sock].hand
  <2>1. client[t].sock \in Conns /\ conn[client[t].sock].peer = t
    BY <1>2, ClientTypes DEF ServerStepsFrom
  <2>2. client[t].sock # client[s].sock
    BY <1>2, <2>1, ClientTypes DEF ServerStepsFrom
  <2> QED
    BY <2>1, <2>2 DEF ServerStepsFrom, ServerFrame, ServerLeaves
<1>3. StaleAreCounted(t)'
  <2> SUFFICES ASSUME NEW c \in Conns, NEW x \in Commands, OnWay(c, x)', conn'[c].peer = t,
                      x.line[2] < client[t].calls \/ Settled(t)
               PROVE  x.seq <= lastSeq
    BY <1>1 DEF StaleAreCounted, Settled
  <2>1. conn[c].peer = t /\ OnWay(c, x)
    BY NewOnWay
  <2> QED
    BY <2>1 DEF Agrees, StaleAreCounted
<1>4. OneAtATime(t)'
  BY <1>1, <1>2 DEF Agrees, OneAtATime, Load
<1>5. CountIsShims(t)'
  <2>1. client[t].at = "greeting" => client[t].sock # NoConn
    BY ClientTypes DEF ServerStepsFrom
  <2> QED
    BY <1>1, <1>2, <2>1 DEF Agrees, CountIsShims, Answers
<1>6. NumberIsNext(t)'
  BY <1>1 DEF Agrees, NumberIsNext, Settled, WasGiven, Current
<1>7. AwaitsOwnAnswer(t)'
  <2>1. client[t].at = "awaiting" => client[t].sock # NoConn
    BY ClientTypes DEF ServerStepsFrom
  <2> QED
    BY <1>1, <1>2, <2>1 DEF Agrees, AwaitsOwnAnswer, Answers, OnWay, Current
<1>8. ~client'[t].broken
  BY <1>1 DEF Agrees
<1> QED
  BY <1>3, <1>4, <1>5, <1>6, <1>7, <1>8 DEF Agrees

\* A send that succeeds has its line written, and the count it leaves is the shim's.
LEMMA SuccessIsWritten ==
    ASSUME NEW s \in Servers, ServerStepsFrom(s), Running(s), Agrees(s), AnswersAreCounted,
           NEW n \in Nat, Succeeds(s, n)
    PROVE  client[s].num = lastSeq /\ WasGiven(Current(s)) /\ client[s].num \in Nat
<1>1. lastSeq \in Nat /\ client[s].num \in Nat
  BY WiredTypes, ClientTypes DEF ServerStepsFrom
<1>2. ~Settled(s)
  BY DEF Succeeds, Settled
<1>3. client[s].num <= lastSeq
  <2>1. CASE n >= client[s].num /\ Hears(s, Reply("ok", n))
    BY <1>1, <2>1 DEF AnswersAreCounted, Hears, Reply
  <2>2. CASE client[s].at = "awaiting" /\ Hears(s, Reply("ack", n))
    <3>1. n = client[s].num
      BY <2>2 DEF Agrees, AwaitsOwnAnswer, Hears, Reply
    <3>2. n <= lastSeq
      BY <2>2 DEF AnswersAreCounted, Hears, Reply
    <3> QED
      BY <3>1, <3>2
  <2> QED
    BY <2>1, <2>2 DEF Succeeds
<1> QED
  BY <1>1, <1>2, <1>3 DEF Agrees, NumberIsNext

\* A connection with no load holds no command and no answer.
LEMMA NoLoad ==
    ASSUME Wired, NEW c \in Conns, Load(c) <= 0
    PROVE  /\ \A x : ~OnWay(c, x)
           /\ Answers(c) = {}
           /\ Len(conn[c].toShim) = 0 /\ Len(conn[c].toClient) = 0 /\ conn[c].hand = NoCommand
<1>1. /\ Len(conn[c].toShim) = 0 /\ Len(conn[c].toClient) = 0 /\ conn[c].hand = NoCommand
  <2> DEFINE m == Len(conn[c].toShim)
             n == Len(conn[c].toClient)
             k == Load(c)
  <2>1. /\ m \in Nat /\ n \in Nat /\ k \in Nat /\ k >= m + n /\ k <= 0
        /\ conn[c].hand # NoCommand => k = m + n + 1
    BY LoadTypes
  <2> HIDE DEF m, n, k
  <2>2. m = 0 /\ n = 0 /\ conn[c].hand = NoCommand
    BY <2>1
  <2> QED
    BY <2>2 DEF m, n
<1> QED
  BY <1>1 DEF OnWay, Answers

\* What has to be shown of the state after a step for s to agree in it.
LEMMA AgreesNext ==
    ASSUME Wired', NEW s \in Servers, ~client'[s].broken, lastSeq' \in Nat,
           \A c \in Conns, x \in Commands :
              /\ OnWay(c, x)' /\ conn'[c].peer = s
              /\ x.line[2] < client'[s].calls \/ Settled(s)'
              => x.seq <= lastSeq',
           \A d \in Conns : d = client'[s].sock =>
              /\ Load(d)' <= (IF client'[s].at = "idle" THEN 0 ELSE 1)
              /\ client'[s].at = "idle" => client'[s].seq = lastSeq'
              /\ client'[s].at = "greeting" /\ client'[s].why # "again" =>
                    \A a \in Answers(d)' : a.kind = "ok" => a.n = lastSeq'
              /\ client'[s].at = "awaiting" =>
                    /\ \A x \in Commands : OnWay(d, x)' => x.line = <<s, client'[s].calls>>
                    /\ \A a \in Answers(d)' : a.kind = "ack" => a.n = client'[s].num,
           NumberIsNext(s)'
    PROVE  Agrees(s)'
<1>1. /\ client'[s].sock \in Conns \cup {NoConn}
      /\ client'[s].at \in {"greeting", "awaiting"} => client'[s].sock # NoConn
  BY DEF Wired, TypeInv, TypeOK, Clients, ClientsConnect, Connects
<1>2. StaleAreCounted(s)'
  BY DEF StaleAreCounted, Settled
<1>3. OneAtATime(s)'
  BY <1>1 DEF OneAtATime, Load
<1>4. CountIsShims(s)'
  BY <1>1 DEF CountIsShims, Answers
<1>5. AwaitsOwnAnswer(s)'
  BY <1>1 DEF AwaitsOwnAnswer, OnWay, Answers, Current
<1> QED
  BY <1>2, <1>3, <1>4, <1>5 DEF Agrees

\* What the cases below share: the state of s before and after a step of its own.
LEMMA ServerFacts ==
    ASSUME NEW s \in Servers, ServerStepsFrom(s)
    PROVE  /\ Wired /\ Wired' /\ lastSeq' = lastSeq /\ stdin' = stdin /\ lastSeq \in Nat
           /\ NoConn \notin Conns
           /\ \A l : WasGiven(l)' <=> WasGiven(l)
           /\ client[s].sock # NoConn => client[s].sock \in Conns /\ conn[client[s].sock].peer = s
           /\ \A d \in Conns : /\ conn'[d].hand = conn[d].hand
                               /\ \A a \in Answers(d)' : a \in Answers(d)
<1>1. Wired /\ ServerFrame(s)
  BY DEF ServerStepsFrom
<1>2. lastSeq' = lastSeq /\ stdin' = stdin
  BY <1>1 DEF ServerFrame
<1>3. \A l : WasGiven(l)' <=> WasGiven(l)
  BY <1>2 DEF WasGiven
<1>4. \A d \in Conns : /\ conn'[d].hand = conn[d].hand
                       /\ \A a \in Answers(d)' : a \in Answers(d)
  BY <1>1 DEF ServerFrame, ServerLeaves
<1> QED
  BY <1>1, <1>2, <1>3, <1>4, WiredTypes, ClientTypes DEF ServerStepsFrom

\* A line that is put leaves one load and no answer on a connection that had none.
LEMMA PutIsTheLoad ==
    ASSUME NEW s \in Servers, ServerStepsFrom(s), Puts(s), NEW d \in Conns, d = client[s].sock,
           \A x \in Commands : ~OnWay(d, x), Len(conn'[d].toClient) = 0
    PROVE  Load(d)' = 1 /\ Answers(d)' = {}
<1>1. conn[d].hand = NoCommand /\ conn[d].toShim = <<>>
  BY ServerFacts, EmptyConn
<1>2. conn'[d].toShim = Append(<<>>, Numbered(s, client'[s])) /\ Numbered(s, client'[s]) \in Commands
  BY <1>1 DEF Puts
<1>3. Len(conn'[d].toShim) = 1
  <2> DEFINE x == Numbered(s, client'[s])
  <2>1. x \in Commands /\ <<>> \in Seq(Commands) /\ conn'[d].toShim = Append(<<>>, x) /\ Len(<<>>) = 0
    BY <1>2
  <2> HIDE DEF x
  <2> QED
    BY <2>1, AppendProperties
<1>4. conn'[d].hand = NoCommand
  BY <1>1, ServerFacts
<1>5. Load(d)' = 1
  BY <1>3, <1>4 DEF Load
<1> QED
  BY <1>5 DEF Answers

\* Beginning a connect leaves the agreement as it is.
LEMMA OpensAgrees ==
    ASSUME NEW s \in Servers, ServerStepsFrom(s), Agrees(s), Opens(s)
    PROVE  Agrees(s)'
<1>0. UNCHANGED conn /\ Settled(s) /\ Settled(s)' /\ client'[s].sock = NoConn /\ client'[s].at = "dialing"
      /\ ~client'[s].broken
  BY DEF Opens, Settled, Agrees
<1>1. \A c \in Conns, x \in Commands : OnWay(c, x)' /\ conn'[c].peer = s => x.seq <= lastSeq'
  BY <1>0, ServerFacts DEF OnWay, Agrees, StaleAreCounted
<1>2. NumberIsNext(s)'
  BY <1>0 DEF NumberIsNext
<1> QED
  BY <1>0, <1>1, <1>2, ServerFacts, AgreesNext

\* A line on the open connection goes out under the next number, alone.
LEMMA SendsNewAgrees ==
    ASSUME NEW s \in Servers, ServerStepsFrom(s), OrderInv, Agrees(s), SendsNew(s)
    PROVE  Agrees(s)'
<1> PICK d \in Conns : d = client[s].sock
  BY DEF SendsNew, Puts
<1>0. /\ d \in Conns /\ client[s].at = "idle" /\ Settled(s) /\ ~Settled(s)' /\ Puts(s)
      /\ client'[s].at = "awaiting" /\ client'[s].sock = d /\ ~client'[s].broken
      /\ client'[s].calls = client[s].calls + 1
  BY DEF SendsNew, Puts, Settled, Agrees
<1>1. Load(d) <= 0 /\ client[s].seq = lastSeq /\ d # NoConn
  BY <1>0, ServerFacts DEF Agrees, OneAtATime, CountIsShims
<1>2. (\A x : ~OnWay(d, x)) /\ Len(conn[d].toClient) = 0
  BY <1>0, <1>1, ServerFacts, NoLoad
<1>3. Load(d)' = 1 /\ Answers(d)' = {}
  BY <1>0, <1>2, PutIsTheLoad DEF SendsNew
<1>4. /\ \A i \in 1..Len(stdin) : stdin[i][1] = s => stdin[i][2] < client'[s].calls
      /\ client[s].calls \in Nat
  BY <1>0, NewCallIsNew, ServerFacts, ClientTypes DEF OrderInv
<1>5. ASSUME NEW c \in Conns, NEW x \in Commands, OnWay(c, x)', conn'[c].peer = s,
             x.line[2] < client'[s].calls
      PROVE  x.seq <= lastSeq'
  <2>1. x.line[2] # client'[s].calls
    BY <1>0, <1>4, <1>5
  <2>2. OnWay(c, x) /\ conn[c].peer = s
    BY <1>5, <2>1, NewOnWay
  <2> QED
    BY <1>0, <2>2, ServerFacts DEF Agrees, StaleAreCounted
<1>6. NumberIsNext(s)'
  <2>1. client'[s].num = lastSeq + 1
    BY <1>1 DEF SendsNew
  <2>2. ~WasGiven(<<s, client'[s].calls>>)
    <3>1. ASSUME NEW i \in 1..Len(stdin), stdin[i] = <<s, client'[s].calls>> PROVE FALSE
      <4>1. stdin[i][1] = s /\ stdin[i][2] = client'[s].calls
        BY <3>1
      <4> QED
        BY <1>0, <1>4, <4>1
    <3> QED
      BY <3>1 DEF WasGiven
  <2> QED
    BY <2>1, <2>2, ServerFacts DEF NumberIsNext, Current
<1>7. \A x \in Commands : OnWay(d, x)' => x.line = <<s, client'[s].calls>>
  BY <1>0, <1>2, NewOnWay
<1>8. \A c \in Conns : c = client'[s].sock => c = d
  BY <1>0
<1> QED
  BY <1>0, <1>3, <1>5, <1>6, <1>7, <1>8, ServerFacts, AgreesNext

\* A connection that was dialed is empty.
LEMMA DialsAgrees ==
    ASSUME NEW s \in Servers, ServerStepsFrom(s), Agrees(s), Dials(s)
    PROVE  Agrees(s)'
<1> PICK d \in Conns : d = client'[s].sock
  BY DEF Dials
<1>0. /\ d \in Conns /\ client'[s].at = "greeting" /\ (Settled(s)' <=> Settled(s))
      /\ client'[s].calls = client[s].calls /\ client'[s].num = client[s].num /\ ~client'[s].broken
  BY DEF Dials, Settled, Agrees
<1>1. conn[d].toShim = <<>> /\ conn[d].toClient = <<>> /\ conn[d].hand = NoCommand
  BY <1>0, ServerFacts, WiredTypes DEF Dials, FreshConns
<1>2. conn'[d].toShim = <<>> /\ conn'[d].toClient = <<>> /\ conn'[d].hand = NoCommand
  BY <1>0, <1>1, ServerFacts DEF Dials, SendsNothing
<1>3. Load(d)' <= 1 /\ Answers(d)' = {}
  <2>1. Len(conn'[d].toShim) = 0 /\ Len(conn'[d].toClient) = 0
    BY <1>2, EmptySeq
  <2> QED
    BY <1>2, <2>1 DEF Load, Answers
<1>4. ASSUME NEW c \in Conns, NEW x \in Commands, OnWay(c, x)', conn'[c].peer = s,
             x.line[2] < client'[s].calls \/ Settled(s)'
      PROVE  x.seq <= lastSeq'
  <2>1. OnWay(c, x) /\ conn[c].peer = s
    BY <1>0, <1>4, NewOnWay
  <2> QED
    BY <1>0, <1>4, <2>1, ServerFacts DEF Agrees, StaleAreCounted
<1>5. NumberIsNext(s)'
  BY <1>0, ServerFacts DEF Agrees, NumberIsNext, Current
<1> QED
  BY <1>0, <1>3, <1>4, <1>5, ServerFacts, AgreesNext

\* A reconnect asks again for the same line under the same number.
LEMMA RedialsAgrees ==
    ASSUME NEW s \in Servers, ServerStepsFrom(s), Agrees(s), Redials(s)
    PROVE  Agrees(s)'
<1>0. /\ UNCHANGED conn /\ ~Settled(s) /\ ~Settled(s)' /\ client'[s].sock = NoConn
      /\ client'[s].at = "dialing" /\ ~client'[s].broken
      /\ client'[s].calls = client[s].calls /\ client'[s].num = client[s].num
  BY DEF Redials, Settled
<1>1. \A c \in Conns, x \in Commands :
         OnWay(c, x)' /\ conn'[c].peer = s /\ x.line[2] < client'[s].calls => x.seq <= lastSeq'
  BY <1>0, ServerFacts DEF OnWay, Agrees, StaleAreCounted
<1>2. NumberIsNext(s)'
  BY <1>0, ServerFacts DEF Agrees, NumberIsNext, Current
<1> QED
  BY <1>0, <1>1, <1>2, ServerFacts, AgreesNext

\* Taking an answer takes its load away.
LEMMA HearsLess ==
    ASSUME NEW s \in Servers, ServerStepsFrom(s), NEW a, Hears(s, a),
           NEW d \in Conns, d = client[s].sock, Load(d) <= 1
    PROVE  /\ Len(conn'[d].toClient) = 0
           /\ SendsNothing => Load(d)' <= 0
<1>1. /\ Len(conn[d].toShim) \in Nat /\ Len(conn[d].toClient) \in Nat /\ Load(d) \in Nat
      /\ Load(d) >= Len(conn[d].toShim) + Len(conn[d].toClient)
      /\ conn[d].hand # NoCommand => Load(d) = Len(conn[d].toShim) + Len(conn[d].toClient) + 1
      /\ conn'[d].hand = conn[d].hand
  BY ServerFacts, LoadTypes
<1>2. Len(conn'[d].toClient) = Len(conn[d].toClient) - 1
  BY DEF Hears
<1>3. Len(conn[d].toClient) > 0
  <2>1. a \in Answers(d)
    BY DEF Hears
  <2> QED
    BY <1>1, <2>1 DEF Answers
<1> DEFINE m == Len(conn[d].toShim)
           n == Len(conn[d].toClient)
           k == Load(d)
<1>4. m = 0 /\ n = 1 /\ conn[d].hand = NoCommand
  <2>1. /\ m \in Nat /\ n \in Nat /\ k \in Nat /\ k >= m + n /\ k <= 1 /\ n > 0
        /\ conn[d].hand # NoCommand => k = m + n + 1
    BY <1>1, <1>3
  <2> HIDE DEF m, n, k
  <2> QED
    BY <2>1
<1>5. Len(conn'[d].toClient) = 0
  BY <1>2, <1>4
<1>6. ASSUME SendsNothing PROVE Load(d)' <= 0
  <2>1. conn'[d].toShim = conn[d].toShim /\ conn'[d].hand = NoCommand
    BY <1>1, <1>4, <1>6 DEF SendsNothing
  <2>2. Len(conn'[d].toShim) = 0
    BY <1>4, <2>1
  <2> QED
    BY <1>5, <2>1, <2>2 DEF Load
<1> QED
  BY <1>5, <1>6

\* A greeting answered with the shim's count lets the one line go out.
LEMMA SendsGreetedAgrees ==
    ASSUME NEW s \in Servers, ServerStepsFrom(s), OrderInv, Running(s), Agrees(s),
           NEW n \in Nat, SendsGreeted(s, n)
    PROVE  Agrees(s)'
<1> PICK d \in Conns : d = client[s].sock
  BY DEF SendsGreeted, Puts
<1>0. /\ client[s].at = "greeting" /\ client[s].why \in {"first", "again"} /\ ~Settled(s)' /\ Puts(s)
      /\ client'[s].at = "awaiting" /\ client'[s].sock = d /\ ~client'[s].broken
      /\ client'[s].calls = client[s].calls /\ Hears(s, Reply("ok", n))
      /\ client'[s].why = client[s].why
  BY ServerFacts, ClientTypes DEF SendsGreeted, Puts, Settled, Agrees
<1>1. Load(d) <= 1
  BY <1>0, ServerFacts DEF Agrees, OneAtATime
<1>2. \A x \in Commands : ~OnWay(d, x)
  BY <1>0 DEF OrderInv, GreetingIsEmpty
<1>3. Load(d)' = 1 /\ Answers(d)' = {}
  BY <1>0, <1>1, <1>2, HearsLess, PutIsTheLoad
<1>4. ASSUME NEW c \in Conns, NEW x \in Commands, OnWay(c, x)', conn'[c].peer = s,
             x.line[2] < client'[s].calls
      PROVE  x.seq <= lastSeq'
  <2>1. client[s].calls \in Nat /\ x.line[2] \in Nat /\ x.line[2] # client'[s].calls
    BY <1>0, <1>4, ClientTypes, CommandTypes, ServerFacts
  <2>2. OnWay(c, x) /\ conn[c].peer = s
    BY <1>4, <2>1, NewOnWay
  <2> QED
    BY <1>0, <1>4, <2>2, ServerFacts DEF Agrees, StaleAreCounted
<1>5. NumberIsNext(s)'
  <2>1. CASE client[s].why = "first"
    <3>1. n = lastSeq
      BY <1>0, <2>1 DEF Agrees, CountIsShims, Hears, Reply
    <3>2. client'[s].num = lastSeq + 1
      BY <2>1, <3>1 DEF SendsGreeted
    <3>3. ~WasGiven(Current(s))
      BY <1>0, <2>1 DEF OrderInv, UnsentIsNew
    <3> QED
      BY <1>0, <3>2, <3>3, ServerFacts DEF NumberIsNext, Current
  <2>2. CASE client[s].why = "again"
    <3>1. client'[s].num = client[s].num /\ ~Settled(s)
      BY <1>0, <2>2 DEF SendsGreeted, Settled
    <3> QED
      BY <1>0, <3>1, ServerFacts DEF Agrees, NumberIsNext, Current
  <2> QED
    BY <1>0, <2>1, <2>2
<1>6. \A x \in Commands : OnWay(d, x)' => x.line = <<s, client'[s].calls>>
  BY <1>0, <1>2, NewOnWay
<1> QED
  BY <1>0, <1>3, <1>4, <1>5, <1>6, ServerFacts, AgreesNext

\* A send or a connect that ends without being given up leaves the shim's count.
LEMMA StopsAgrees ==
    ASSUME NEW s \in Servers, ServerStepsFrom(s), OrderInv, VerdictsAreOfCalls, AnswersAreCounted,
           Running(s), Running(s)', Agrees(s), Stops(s), ~GaveUp(s)'
    PROVE  Agrees(s)'
<1>0. /\ client'[s].at = "idle" /\ Settled(s)' /\ NumberIsNext(s)'
      /\ client'[s].calls = client[s].calls /\ client'[s].num = client[s].num /\ SendsNothing
      /\ client[s].at # "idle"
  BY DEF Stops, Settled, NumberIsNext
<1>1. ASSUME NEW c \in Conns, NEW x \in Commands, OnWay(c, x)' PROVE OnWay(c, x) /\ conn[c].peer = conn'[c].peer
  BY <1>0, <1>1, NewOnWay
<1>2. CASE Fails(s)
  <2>1. client[s].why = "attach"
    <3>1. ASSUME client[s].why # "attach" PROVE FALSE
      <4>1. Current(s) \in Lines /\ verdict' = [verdict EXCEPT ![Current(s)] = "failed"]
        <5>1. client[s].calls \in 0..MaxLines /\ client[s].calls > 0 /\ MaxLines \in Nat
          BY <1>0, <3>1, ClientTypes, ServerFacts, BoundsAreNat
        <5> QED
          BY <1>2, <3>1, <5>1 DEF Fails, Current, Lines
      <4>2. verdict'[Current(s)] = "failed"
        BY <4>1, ServerFacts, WiredTypes
      <4>3. Current(s)[1] = s
        BY DEF Current
      <4> QED
        BY <4>1, <4>2, <4>3 DEF GaveUp
    <3> QED
      BY <3>1
  <2>2. client[s].at # "awaiting" /\ Settled(s)
    <3>1. client[s].at # "awaiting"
      BY <2>1, ServerFacts, WiredTypes DEF ClientsConnect, Connects
    <3> QED
      BY <2>1, <3>1 DEF Settled
  <2>3. client'[s].sock = NoConn /\ ~client'[s].broken
    BY <1>2, <2>2 DEF Fails
  <2>4. \A c \in Conns, x \in Commands : OnWay(c, x)' /\ conn'[c].peer = s => x.seq <= lastSeq'
    BY <1>1, <2>2, ServerFacts DEF Agrees, StaleAreCounted
  <2> QED
    BY <1>0, <2>3, <2>4, ServerFacts, AgreesNext
<1>3. ASSUME NEW n \in Nat, Adopts(s, n) PROVE Agrees(s)'
  <2>1. /\ client[s].at = "greeting" /\ client[s].why = "attach" /\ Settled(s)
        /\ client'[s].sock = client[s].sock /\ ~client'[s].broken
        /\ Hears(s, Reply("ok", n)) /\ client'[s].seq = n
    BY <1>3 DEF Adopts, Settled, Agrees
  <2>2. n = lastSeq
    BY <2>1 DEF Agrees, CountIsShims, Hears, Reply
  <2>3. ASSUME NEW d \in Conns, d = client'[s].sock PROVE Load(d)' <= 0
    <3>1. Load(d) <= 1
      BY <2>1, <2>3, ServerFacts DEF Agrees, OneAtATime
    <3> QED
      BY <1>0, <2>1, <2>3, <3>1, HearsLess
  <2>4. \A c \in Conns, x \in Commands : OnWay(c, x)' /\ conn'[c].peer = s => x.seq <= lastSeq'
    BY <1>1, <2>1, ServerFacts DEF Agrees, StaleAreCounted
  <2> QED
    BY <1>0, <2>1, <2>2, <2>3, <2>4, ServerFacts, AgreesNext
<1>4. ASSUME NEW n \in Nat, Succeeds(s, n) PROVE Agrees(s)'
  <2>1. /\ client'[s].sock = client[s].sock /\ ~client'[s].broken
        /\ client'[s].seq = lastSeq /\ client[s].num = lastSeq
        /\ \E a : Hears(s, a)
    <3>1. client[s].num = lastSeq
      BY <1>4, SuccessIsWritten
    <3> QED
      BY <1>4, <3>1 DEF Succeeds, Agrees
  <2>2. ASSUME NEW d \in Conns, d = client'[s].sock PROVE Load(d)' <= 0
    <3>1. Load(d) <= 1
      BY <1>0, <2>1, <2>2, ServerFacts DEF Agrees, OneAtATime
    <3> QED
      BY <1>0, <2>1, <2>2, <3>1, HearsLess
  <2>3. ASSUME NEW c \in Conns, NEW x \in Commands, OnWay(c, x)', conn'[c].peer = s
        PROVE  x.seq <= lastSeq'
    <3>1. OnWay(c, x) /\ conn[c].peer = s
      BY <1>1, <2>3
    <3>2. /\ x.line[1] = s /\ x.line[2] <= client[s].calls /\ x.line = <<x.line[1], x.line[2]>>
          /\ x.line[2] \in Nat /\ x.seq \in Nat /\ client[s].calls \in Nat
      BY <3>1, CommandTypes, ClientTypes, ServerFacts DEF OrderInv, CarriedAreSent
    <3>3. CASE x.line[2] < client[s].calls
      BY <3>1, <3>3, ServerFacts DEF Agrees, StaleAreCounted
    <3>4. CASE x.line[2] = client[s].calls
      <4>1. x.seq = client[s].num
        BY <3>1, <3>2, <3>4 DEF OrderInv, CurrentNumber, Current
      <4> QED
        BY <2>1, <3>2, <4>1, ServerFacts
    <3> QED
      BY <3>2, <3>3, <3>4
  <2> QED
    BY <1>0, <2>1, <2>2, <2>3, ServerFacts, AgreesNext
<1> QED
  BY <1>2, <1>3, <1>4 DEF Stops

\* A server that runs after its own step, and never gave up, agrees.
LEMMA ServerAgrees ==
    ASSUME NEW s \in Servers, ServerStepsFrom(s), OrderInv, AgreeInv, Running(s)', ~GaveUp(s)'
    PROVE  Agrees(s)'
<1>1. VerdictsAreOfCalls /\ AnswersAreCounted
  BY DEF AgreeInv
<1>2. CASE ~Running(s) /\ Rests(s)
  <2>1. /\ UNCHANGED conn /\ client'[s].at = "idle" /\ client'[s].sock = NoConn /\ ~client'[s].broken
        /\ Settled(s)'
    BY <1>2 DEF Rests, Settled
  <2>2. client[s].up = "down"
    BY <1>2 DEF ServerStepsFrom, ServerEffect
  <2>3. ASSUME NEW c \in Conns, NEW x \in Commands, OnWay(c, x)', conn'[c].peer = s PROVE FALSE
    <3>1. OnWay(c, x) /\ conn[c].peer = s
      BY <2>1, <2>3 DEF OnWay
    <3> QED
      BY <2>2, <3>1, OnWayTypes, ServerFacts
  <2>4. NumberIsNext(s)'
    BY <2>1 DEF NumberIsNext
  <2> QED
    BY <2>1, <2>3, <2>4, ServerFacts, AgreesNext
<1>3. ASSUME Running(s) PROVE Agrees(s)'
  <2>1. ~GaveUp(s)
    BY <1>1, ServerKeepsVerdicts
  <2>2. Agrees(s)
    BY <1>3, <2>1 DEF AgreeInv
  <2>3. Opens(s) \/ SendsNew(s) \/ Dials(s) \/ Redials(s) \/ Stops(s) \/ \E n \in Nat : SendsGreeted(s, n)
    BY <1>3 DEF ServerStepsFrom, ServerEffect
  <2> QED
    BY <1>1, <1>3, <2>2, <2>3, OpensAgrees, SendsNewAgrees, DialsAgrees, RedialsAgrees, StopsAgrees,
       SendsGreetedAgrees
<1> QED
  BY <1>2, <1>3 DEF ServerStepsFrom, ServerEffect

\* A step of a server keeps the agreement of every server.
LEMMA ServerKeepsAgree ==
    ASSUME NEW s \in Servers, ServerStepsFrom(s), OrderInv, AgreeInv
    PROVE  AgreeInv'
<1>0. VerdictsAreOfCalls /\ AnswersAreCounted /\ DoneUnlessGivenUp
  BY DEF AgreeInv
<1>1. VerdictsAreOfCalls' /\ \A t \in Servers : GaveUp(t) => GaveUp(t)'
  BY <1>0, ServerKeepsVerdicts
<1>2. AnswersAreCounted'
  BY <1>0, ServerFacts DEF AnswersAreCounted
<1>3. DoneUnlessGivenUp'
  <2> SUFFICES ASSUME NEW l \in Lines, verdict'[l] = "done"
               PROVE  WasGiven(l) \/ GaveUp(l[1])'
    BY ServerFacts DEF DoneUnlessGivenUp, GaveUp
  <2>0. l[1] \in Servers
    BY DEF Lines
  <2>1. CASE verdict[l] = "done"
    BY <1>0, <1>1, <2>0, <2>1 DEF DoneUnlessGivenUp
  <2>2. CASE verdict[l] # "done"
    <3>1. /\ Stops(s) /\ client[s].at # "idle" /\ client[s].why # "attach" /\ Running(s)
          /\ Current(s) \in Lines
      BY <2>2, ServerTells
    <3>2. l = Current(s)
      <4>1. \E result : verdict' = [verdict EXCEPT ![Current(s)] = result]
        BY <2>2, ServerTells
      <4> QED
        BY <2>2, <4>1, ServerFacts, WiredTypes
    <3>3. PICK n \in Nat : Succeeds(s, n)
      <4>1. ~Fails(s)
        BY <3>1, <3>2, ServerFacts, WiredTypes DEF Fails
      <4> QED
        BY <3>1, <4>1 DEF Stops, Adopts
    <3>4. CASE GaveUp(s)
      <4>1. l[1] = s
        BY <3>2 DEF Current
      <4> QED
        BY <1>1, <3>4, <4>1
    <3>5. CASE ~GaveUp(s)
      <4>1. Agrees(s)
        BY <3>1, <3>5 DEF AgreeInv
      <4> QED
        BY <1>0, <3>1, <3>2, <3>3, <4>1, SuccessIsWritten
    <3> QED
      BY <3>4, <3>5
  <2> QED
    BY <2>1, <2>2
<1>4. ASSUME NEW t \in Servers, Running(t)', ~GaveUp(t)' PROVE Agrees(t)'
  <2>1. CASE t = s
    BY <1>4, <2>1, ServerAgrees
  <2>2. CASE t # s
    <3>1. Running(t) /\ ~GaveUp(t)
      BY <1>1, <1>4, <2>2, CallsGrow DEF Running
    <3> QED
      BY <2>2, <3>1, OthersAgree DEF AgreeInv
  <2> QED
    BY <2>1, <2>2
<1> QED
  BY <1>1, <1>2, <1>3, <1>4 DEF AgreeInv, Running, GaveUp

(***************************************************************************)
(* A step of the shim keeps AgreeInv.                                       *)
(***************************************************************************)
\* Handling a connection adds no load to it; a greeting's answer is the one
\* load of a connection that had none.
LEMMA ShimLoad ==
    ASSUME NEW c \in Conns, ShimStepsFrom(c), NEW d \in Conns
    PROVE  Load(d)' <= Load(d) \/ (conn[d].link = "hello" /\ Load(d)' <= 1)
<1>0. Wired /\ Wired' /\ ShimStep(c)
  BY DEF ShimStepsFrom
<1> DEFINE m == Len(conn[d].toShim)
           n == Len(conn[d].toClient)
           m1 == Len(conn'[d].toShim)
           n1 == Len(conn'[d].toClient)
           h == IF conn[d].hand = NoCommand THEN 0 ELSE 1
           h1 == IF conn'[d].hand = NoCommand THEN 0 ELSE 1
<1>1. /\ m \in Nat /\ n \in Nat /\ Load(d) = m + n + h /\ h \in {0, 1}
      /\ m1 \in Nat /\ n1 \in Nat /\ Load(d)' = m1 + n1 + h1 /\ h1 \in {0, 1}
  <2>1. m \in Nat /\ n \in Nat
    BY <1>0, LoadTypes
  <2>2. conn'[d] \in ConnRecord
    BY <1>0 DEF Wired, TypeInv
  <2>3. m1 \in Nat /\ n1 \in Nat
    BY <2>2, LenProperties DEF ConnRecord
  <2> QED
    BY <2>1, <2>3 DEF Load
<1>2. CASE d # c \/ UNCHANGED conn
  <2>1. m1 = m /\ n1 = n /\ h1 = h
    BY <1>0, <1>2, ShimMoves DEF Others
  <2> HIDE DEF m, n, h, m1, n1, h1
  <2> QED
    BY <1>1, <2>1
<1>3. ASSUME d = c, NEW answer \in Replies, Gets(c, answer) PROVE n1 <= n + 1
  BY <1>0, <1>3, GetsOne
<1>4. CASE d = c /\ Greets(c)
  <2>1. conn[d].link = "hello" /\ m = 0 /\ n = 0 /\ h = 0 /\ m1 = 0 /\ h1 = 0
    <3>1. conn[d].toShim = <<>> /\ conn[d].toClient = <<>> /\ conn[d].hand = NoCommand
          /\ conn'[d].toShim = <<>> /\ conn'[d].hand = NoCommand /\ conn[d].link = "hello"
      BY <1>0, <1>4, WiredTypes DEF Greets, FreshConns
    <3> QED
      BY <3>1, EmptySeq
  <2>2. n1 <= n + 1
    <3>1. Reply("refused", 0) \in Replies /\ Reply("ok", lastSeq) \in Replies
      BY <1>0, WiredTypes DEF Reply, Replies
    <3> QED
      BY <1>3, <1>4, <3>1 DEF Greets
  <2> HIDE DEF m, n, h, m1, n1, h1
  <2> QED
    BY <1>1, <2>1, <2>2
<1>5. CASE d = c /\ Takes(c)
  <2>1. m1 = m - 1 /\ n1 = n /\ h = 0
    <3>1. conn[d].toShim \in Seq(Commands) /\ conn[d].toShim # <<>> /\ conn'[d].toShim = Tail(conn[d].toShim)
      BY <1>0, <1>5, WiredTypes DEF Takes, ConnRecord
    <3>2. m1 = m - 1
      BY <3>1, HeadTailProperties
    <3> QED
      BY <1>5, <3>2 DEF Takes
  <2> HIDE DEF m, n, h, m1, n1, h1
  <2> QED
    BY <1>1, <2>1
<1>6. CASE d = c /\ Ends(c)
  <2>1. m1 = 0 /\ n1 = n /\ h1 = 0
    BY <1>6, EmptySeq DEF Ends
  <2> HIDE DEF m, n, h, m1, n1, h1
  <2> QED
    BY <1>1, <2>1
<1>7. ASSUME d = c, NEW answer \in Replies, Answering(c, answer) PROVE Load(d)' <= Load(d)
  <2>1. m1 = m /\ h = 1 /\ h1 = 0 /\ n1 <= n + 1
    BY <1>3, <1>7 DEF Answering
  <2> HIDE DEF m, n, h, m1, n1, h1
  <2> QED
    BY <1>1, <2>1
<1>8. ASSUME d = c, Declines(c) \/ Loses(c) \/ (Writes(c) /\ owner = conn[c].peer)
      PROVE  Load(d)' <= Load(d)
  <2>1. lastSeq + 1 \in Nat /\ (conn[c].hand # NoCommand => conn[c].hand.seq \in Nat)
    BY <1>0, OnWayTypes, WiredTypes DEF OnWay
  <2>2. PICK answer \in {Reply("ack", conn[c].hand.seq), Reply("gap", lastSeq + 1), Reply("closed", 0)} :
           Answering(c, answer)
    BY <1>8 DEF Declines, Loses, Writes
  <2>3. answer \in Replies
    BY <2>1, <2>2 DEF Answering, Reply, Replies
  <2> QED
    BY <1>7, <1>8, <2>2, <2>3
<1> QED
  <2>1. \/ d # c \/ UNCHANGED conn \/ Greets(c) \/ Takes(c) \/ Ends(c)
        \/ Declines(c) \/ Loses(c) \/ (Writes(c) /\ owner = conn[c].peer)
    BY <1>0, ShimMoves DEF Writes
  <2> QED
    BY <1>2, <1>4, <1>5, <1>6, <1>8, <2>1

\* The only line of an agreeing server that a write can count is the one whose
\* send is under way, and it counts under the number that send gave it.
LEMMA CountedWrite ==
    ASSUME NEW c \in Conns, ShimStepsFrom(c), OrderInv, NEW s \in Servers, Running(s), Agrees(s),
           Writes(c), owner = s, conn[c].peer = s
    PROVE  /\ ~Settled(s) /\ conn[c].hand.line = Current(s)
           /\ conn[c].hand.seq = client[s].num /\ lastSeq' = client[s].num
<1>1. /\ OnWay(c, conn[c].hand) /\ conn[c].hand \in Commands
      /\ conn[c].hand.line = <<s, conn[c].hand.line[2]>> /\ conn[c].hand.line[2] \in Nat
      /\ conn[c].hand.seq = lastSeq + 1 /\ conn[c].hand.line[2] <= client[s].calls
  BY WriteGives DEF OrderInv
<1>2. lastSeq \in Nat /\ client[s].calls \in Nat
  BY WiredTypes, ClientTypes DEF ShimStepsFrom
<1>3. ~(conn[c].hand.seq <= lastSeq)
  BY <1>1, <1>2
<1>4. ~(conn[c].hand.line[2] < client[s].calls) /\ ~Settled(s)
  BY <1>1, <1>3 DEF Agrees, StaleAreCounted
<1>5. conn[c].hand.line = Current(s)
  <2>1. conn[c].hand.line[2] = client[s].calls
    BY <1>1, <1>2, <1>4
  <2> QED
    BY <1>1, <2>1 DEF Current
<1>6. conn[c].hand.seq = client[s].num
  BY <1>1, <1>5 DEF OrderInv, CurrentNumber
<1> QED
  BY <1>4, <1>5, <1>6 DEF Writes

\* While a server that agrees owns the shim and has settled, nothing is counted.
LEMMA SettledCount ==
    ASSUME NEW c \in Conns, ShimStepsFrom(c), OrderInv, NEW s \in Servers, Running(s), Agrees(s),
           Settled(s), owner = s
    PROVE  lastSeq' = lastSeq
BY CountedWrite, ShimFrame

\* A running server agrees after a step of the shim as it did before.
LEMMA ShimAgrees ==
    ASSUME NEW c \in Conns, ShimStepsFrom(c), OrderInv, NEW s \in Servers, Running(s), Agrees(s)
    PROVE  Agrees(s)'
<1>0. /\ Wired /\ Wired' /\ client' = client /\ lastSeq \in Nat /\ lastSeq' \in Nat /\ lastSeq <= lastSeq'
      /\ \A d \in Conns : conn'[d].peer = conn[d].peer
      /\ NoConn \notin Conns
  BY ShimFrame, ChannelAssumption DEF ShimStepsFrom
<1>1. ASSUME NEW d \in Conns, NEW x \in Commands, OnWay(d, x)' PROVE OnWay(d, x) /\ x.seq \in Nat
  BY <1>1, ShimOnWay, CommandTypes DEF ShimStepsFrom
<1>2. ASSUME NEW d \in Conns, NEW a \in Answers(d)' PROVE a \in Answers(d) \/ (d = c /\ NewAnswer(c, a))
  BY <1>2, ShimAnswers DEF ShimStepsFrom
<1>3. ASSUME NEW d \in Conns, NEW x \in Commands, OnWay(d, x)', conn'[d].peer = s,
             x.line[2] < client'[s].calls \/ Settled(s)'
      PROVE  x.seq <= lastSeq'
  <2>1. OnWay(d, x) /\ conn[d].peer = s /\ (x.line[2] < client[s].calls \/ Settled(s)) /\ x.seq \in Nat
    BY <1>0, <1>1, <1>3 DEF Settled
  <2>2. x.seq <= lastSeq
    BY <2>1 DEF Agrees, StaleAreCounted
  <2> QED
    BY <1>0, <2>1, <2>2
<1>4. ASSUME NEW d \in Conns, d = client[s].sock
      PROVE  /\ conn[d].peer = s /\ d # NoConn
             /\ conn[d].link = "hello" => client[s].at = "greeting"
  BY <1>0, <1>4, WiredTypes DEF ClientsConnect, Connects
<1>5. ASSUME NEW d \in Conns, d = client[s].sock
      PROVE  Load(d)' <= (IF client[s].at = "idle" THEN 0 ELSE 1)
  <2>1. Load(d) <= (IF client[s].at = "idle" THEN 0 ELSE 1)
    BY <1>4, <1>5 DEF Agrees, OneAtATime
  <2>2. Load(d) \in Nat /\ Load(d)' \in Nat
    <3>1. Len(conn'[d].toShim) \in Nat /\ Len(conn'[d].toClient) \in Nat
      BY <1>0, LenProperties DEF Wired, TypeInv, ConnRecord
    <3> DEFINE m == Len(conn'[d].toShim)
               n == Len(conn'[d].toClient)
               h == IF conn'[d].hand = NoCommand THEN 0 ELSE 1
    <3>2. m \in Nat /\ n \in Nat /\ h \in {0, 1} /\ Load(d)' = m + n + h
      BY <3>1 DEF Load
    <3>3. Load(d)' \in Nat
      <4> HIDE DEF m, n, h
      <4> QED
        BY <3>2
    <3> QED
      BY <1>0, <3>3, LoadTypes
  <2>3. Load(d)' <= Load(d) \/ (client[s].at = "greeting" /\ Load(d)' <= 1)
    BY <1>4, <1>5, ShimLoad
  <2> QED
    BY <2>1, <2>2, <2>3
<1>6. ASSUME NEW d \in Conns, d = client[s].sock, client[s].at = "idle" PROVE client[s].seq = lastSeq'
  <2>1. client[s].seq = lastSeq
    BY <1>4, <1>6 DEF Agrees, CountIsShims
  <2>2. owner = s
    BY <1>4, <1>6 DEF OrderInv, OwnerInv, Welcomed
  <2>3. Settled(s)
    BY <1>6 DEF Settled
  <2> QED
    BY <2>1, <2>2, <2>3, SettledCount
<1>7. ASSUME NEW d \in Conns, d = client[s].sock, client[s].at = "greeting", client[s].why # "again",
             NEW a \in Answers(d)', a.kind = "ok"
      PROVE  a.n = lastSeq'
  <2>1. CASE a \in Answers(d)
    <3>1. a.n = lastSeq
      BY <1>7, <2>1 DEF Agrees, CountIsShims
    <3>2. owner = s
      BY <1>4, <1>7, <2>1 DEF OrderInv, OwnerInv
    <3>3. Settled(s)
      BY <1>7 DEF Settled
    <3> QED
      BY <3>1, <3>2, <3>3, SettledCount
  <2>2. CASE d = c /\ NewAnswer(c, a)
    BY <1>7, <2>2 DEF NewAnswer, Reply
  <2> QED
    BY <1>2, <1>7, <2>1, <2>2
<1>8. ASSUME NEW d \in Conns, d = client[s].sock, client[s].at = "awaiting"
      PROVE  /\ \A x \in Commands : OnWay(d, x)' => x.line = Current(s)
             /\ \A a \in Answers(d)' : a.kind = "ack" => a.n = client[s].num
  <2>1. \A x \in Commands : OnWay(d, x) => x.line = Current(s)
    BY <1>8 DEF Agrees, AwaitsOwnAnswer
  <2>2. ASSUME NEW a \in Answers(d)', a.kind = "ack" PROVE a.n = client[s].num
    <3>1. CASE a \in Answers(d)
      BY <1>8, <2>2, <3>1 DEF Agrees, AwaitsOwnAnswer
    <3>2. CASE d = c /\ NewAnswer(c, a)
      <4>1. conn[c].hand # NoCommand /\ a.n = conn[c].hand.seq
        BY <2>2, <3>2 DEF NewAnswer, Reply
      <4>2. OnWay(c, conn[c].hand) /\ conn[c].hand \in Commands
        BY <1>0, <4>1, OnWayTypes DEF OnWay
      <4>3. conn[c].hand.seq = client[s].num
        BY <2>1, <3>2, <4>2 DEF OrderInv, CurrentNumber
      <4> QED
        BY <4>1, <4>3
    <3> QED
      BY <1>2, <2>2, <3>1, <3>2
  <2> QED
    BY <1>1, <2>1, <2>2
<1>9. NumberIsNext(s)'
  <2> SUFFICES ASSUME ~Settled(s), NEW l, l = Current(s)
               PROVE  client[s].num = (IF WasGiven(l)' THEN lastSeq' ELSE lastSeq' + 1)
    BY <1>0 DEF NumberIsNext, Settled, Current, WasGiven
  <2>1. owner = s
    <3>1. Welcomed(s)
      BY <1>0, ClientTypes DEF Settled, Welcomed
    <3> QED
      BY <3>1 DEF OrderInv, OwnerInv
  <2>2. client[s].num = (IF WasGiven(l) THEN lastSeq ELSE lastSeq + 1)
    BY DEF Agrees, NumberIsNext
  <2>3. CASE Writes(c) /\ conn[c].peer = s
    <3>1. conn[c].hand.line = l /\ lastSeq' = client[s].num
      BY <2>1, <2>3, CountedWrite
    <3>2. WasGiven(l)'
      BY <2>3, <3>1, WriteGives DEF WasGiven, OrderInv
    <3> QED
      BY <3>1, <3>2
  <2>4. CASE ~(Writes(c) /\ conn[c].peer = s)
    <3>1. lastSeq' = lastSeq
      BY <2>1, <2>4, ShimFrame
    <3>2. WasGiven(l)' <=> WasGiven(l)
      <4>1. Writes(c) => conn[c].hand.line # l
        BY <2>4, WriteGives DEF Current, OrderInv
      <4> QED
        BY <4>1, GivenWasOnWay DEF OrderInv
    <3> QED
      BY <2>2, <3>1, <3>2
  <2> QED
    BY <2>3, <2>4
<1> QED
  <2>1. \A d \in Conns : d = client'[s].sock => d = client[s].sock
    BY <1>0
  <2>2. client'[s] = client[s] /\ ~client'[s].broken /\ Current(s) = <<s, client'[s].calls>>
    BY <1>0 DEF Agrees, Current
  <2> QED
    BY <1>0, <1>3, <1>5, <1>6, <1>7, <1>8, <1>9, <2>1, <2>2, AgreesNext

\* A step of the shim keeps the agreement of every server.
LEMMA ShimKeepsAgree ==
    ASSUME NEW c \in Conns, ShimStepsFrom(c), OrderInv, AgreeInv
    PROVE  AgreeInv'
<1>0. /\ client' = client /\ verdict' = verdict /\ lastSeq \in Nat /\ lastSeq' \in Nat /\ lastSeq <= lastSeq'
      /\ Wired
  BY ShimFrame DEF ShimStepsFrom
<1>1. VerdictsAreOfCalls'
  BY <1>0 DEF AgreeInv, VerdictsAreOfCalls, Current
<1>2. AnswersAreCounted'
  <2> SUFFICES ASSUME NEW d \in Conns, NEW a \in Answers(d)', a.kind \in {"ok", "ack"}
               PROVE  a.n <= lastSeq'
    BY DEF AnswersAreCounted
  <2>1. CASE a \in Answers(d)
    <3>1. a.n <= lastSeq /\ a.n \in Nat
      BY <1>0, <2>1, AnswerTypes DEF AgreeInv, AnswersAreCounted
    <3> QED
      BY <1>0, <3>1
  <2>2. CASE d = c /\ NewAnswer(c, a)
    BY <1>0, <2>2 DEF NewAnswer, Reply
  <2> QED
    BY <2>1, <2>2, ShimAnswers DEF ShimStepsFrom
<1>3. DoneUnlessGivenUp'
  <2> SUFFICES ASSUME NEW l \in Lines, verdict[l] = "done" PROVE WasGiven(l)' \/ GaveUp(l[1])
    BY <1>0 DEF DoneUnlessGivenUp, GaveUp
  <2>1. WasGiven(l) \/ GaveUp(l[1])
    BY DEF AgreeInv, DoneUnlessGivenUp
  <2> QED
    BY <2>1, GivenWasOnWay DEF OrderInv
<1>4. ASSUME NEW t \in Servers, Running(t)', ~GaveUp(t)' PROVE Agrees(t)'
  <2>1. Running(t) /\ ~GaveUp(t)
    BY <1>0, <1>4 DEF Running, GaveUp
  <2> QED
    BY <2>1, ShimAgrees DEF AgreeInv
<1> QED
  BY <1>1, <1>2, <1>3, <1>4 DEF AgreeInv, Running, GaveUp

(***************************************************************************)
(* AgreeInv always holds.                                                   *)
(***************************************************************************)
\* Before the first step nobody has sent anything.
LEMMA InitAgree == Init => AgreeInv
<1> SUFFICES ASSUME Init PROVE AgreeInv
  OBVIOUS
<1>1. VerdictsAreOfCalls /\ DoneUnlessGivenUp
  BY InitEmpty DEF Init, VerdictsAreOfCalls, DoneUnlessGivenUp, Lines, Current
<1>2. AnswersAreCounted
  BY InitEmpty DEF AnswersAreCounted
<1>3. ASSUME NEW s \in Servers PROVE Agrees(s)
  BY InitEmpty DEF Agrees, StaleAreCounted, OneAtATime, CountIsShims, NumberIsNext, AwaitsOwnAnswer,
                   Settled
<1> QED
  BY <1>1, <1>2, <1>3 DEF AgreeInv

\* The main loop's close of the CLI's stdin changes nothing that AgreeInv is about.
LEMMA IdleKeepsAgree ==
    ASSUME AgreeInv, UNCHANGED <<client, conn, owner, ownerConn, lastSeq, writer, stdin, verdict>>
    PROVE  AgreeInv'
<1>1. VerdictsAreOfCalls' /\ AnswersAreCounted' /\ DoneUnlessGivenUp'
  BY DEF AgreeInv, VerdictsAreOfCalls, AnswersAreCounted, DoneUnlessGivenUp, Current, Answers, WasGiven,
         GaveUp
<1>2. ASSUME NEW s \in Servers, Agrees(s) PROVE Agrees(s)'
  <2>1. StaleAreCounted(s)' /\ OneAtATime(s)'
    BY <1>2 DEF Agrees, StaleAreCounted, OneAtATime, Settled, OnWay, Load
  <2>2. CountIsShims(s)' /\ NumberIsNext(s)' /\ AwaitsOwnAnswer(s)'
    BY <1>2 DEF Agrees, CountIsShims, NumberIsNext, AwaitsOwnAnswer, Settled, OnWay, Answers, WasGiven,
                Current
  <2> QED
    BY <1>2, <2>1, <2>2 DEF Agrees
<1> QED
  BY <1>1, <1>2 DEF AgreeInv, Running, GaveUp

\* Every step keeps the agreement.
LEMMA NextAgree == Wired /\ OrderInv /\ AgreeInv /\ [Next]_vars => AgreeInv'
<1> SUFFICES ASSUME Wired, OrderInv, AgreeInv, [Next]_vars PROVE AgreeInv'
  OBVIOUS
<1>0. Wired'
  BY NextWired
<1>1. ASSUME NEW s \in Servers, ServerStep(s) PROVE AgreeInv'
  BY <1>0, <1>1, ServerMoves, ServerKeepsAgree DEF ServerStepsFrom
<1>2. ASSUME NEW c \in Conns, ShimStep(c) PROVE AgreeInv'
  BY <1>0, <1>2, ShimKeepsAgree DEF ShimStepsFrom
<1>3. CASE UNCHANGED <<client, conn, owner, ownerConn, lastSeq, writer, stdin, verdict>>
  BY <1>3, IdleKeepsAgree
<1> QED
  BY <1>1, <1>2, <1>3 DEF Next, IdleClose

\* Every running server that never gave a send up agrees with the shim about
\* its numbers, in every reachable state.
THEOREM AgreeInvariant == Spec => []AgreeInv
<1>1. Init => AgreeInv
  BY InitAgree
<1>2. Wired /\ OrderInv /\ AgreeInv /\ [Next]_vars => AgreeInv'
  BY NextAgree
<1> QED
  BY <1>1, <1>2, WiredAlways, OrderInvariant, PTL DEF Spec

\* A send that returned has had its line written, unless the same server gave
\* a send up: whatever becomes of the connections, and whatever other servers
\* left in the pipe, for any number of servers, connections and lines.
THEOREM CompletionsAreWritten == Spec => []DoneUnlessGivenUp
<1>1. AgreeInv => DoneUnlessGivenUp
  BY DEF AgreeInv
<1> QED
  BY <1>1, AgreeInvariant, PTL

\* A connected server that never gave up and waits for nothing has the shim's
\* count, so that its next number is neither a repetition nor a gap.
THEOREM NumbersStayEqual == Spec => []NumbersAgree
<1>1. AgreeInv => NumbersAgree
  BY DEF AgreeInv, NumbersAgree, Agrees, CountIsShims
<1> QED
  BY <1>1, AgreeInvariant, PTL
=============================================================================
