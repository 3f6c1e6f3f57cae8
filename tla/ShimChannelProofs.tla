-------------------------- MODULE ShimChannelProofs --------------------------
(***************************************************************************)
(* The wiring of ShimChannel, for any number of servers, connections,       *)
(* lines and breaks: every variable keeps its type, a socket is a           *)
(* connection its server dialed, nothing precedes a greeting, the blocked   *)
(* writer holds the next number and the owner's connection is open.         *)
(*                                                                          *)
(* ServerKeepsWired and ShimKeepsWired say what a step of either side may   *)
(* do to the connections; each action is shown to do no more. ShimMoves,    *)
(* the summary of the shim's actions, is what ShimChannelSafety reasons     *)
(* with.                                                                    *)
(***************************************************************************)
EXTENDS ShimChannel, SequenceTheorems, TLAPS

USE DEF shimVars, callerVars, vars

\* a connection, with the queue types that TypeOK gives its parts
ConnRecord == [link : {"unused", "hello", "open", "cut", "shut"}, peer : Servers,
               toShim : Seq(Commands), toClient : Seq(Replies),
               hand : Commands \cup {NoCommand}]

\* TypeOK, and the connections are a function to such records
TypeInv == TypeOK /\ conn \in [Conns -> ConnRecord]

\* command x is on its way on connection c, the one being written included
OnWay(c, x) ==
    \/ x = conn[c].hand /\ x # NoCommand
    \/ \E i \in 1..Len(conn[c].toShim) : conn[c].toShim[i] = x

\* what is on its way back to the client
Answers(c) == {conn[c].toClient[i] : i \in 1..Len(conn[c].toClient)}

\* nothing was sent on a connection that was not greeted; who dialed one has booted
FreshConns ==
    \A c \in Conns :
        /\ conn[c].link \in {"unused", "hello"} =>
              conn[c].toShim = <<>> /\ conn[c].toClient = <<>> /\ conn[c].hand = NoCommand
        /\ conn[c].link # "unused" => client[conn[c].peer].up # "down"

\* a client's socket is a connection it dialed, greeted or awaiting its greeting,
\* and there while an answer is due; a send under way has a line
Connects(s) ==
    LET cl == client[s] IN
    /\ cl.up # "up" => cl.at = "idle" /\ cl.sock = NoConn
    /\ cl.up = "down" => cl.calls = 0
    /\ cl.sock # NoConn => conn[cl.sock].peer = s /\ conn[cl.sock].link # "unused"
    /\ cl.sock # NoConn /\ cl.at # "greeting" => conn[cl.sock].link # "hello"
    /\ cl.at \in {"greeting", "awaiting"} => cl.sock # NoConn
    /\ cl.at = "dialing" => cl.sock = NoConn
    /\ cl.at = "awaiting" => cl.why # "attach"
    /\ cl.at # "idle" /\ cl.why # "attach" => cl.calls > 0

\* every server connects so
ClientsConnect == \A s \in Servers : Connects(s)

\* the number a gap asks for is at least one
GapsArePositive == \A c \in Conns : \A a \in Answers(c) : a.kind = "gap" => a.n > 0

\* the blocked writer holds the command with the shim's next number
WriterInv ==
    writer # NoConn => conn[writer].hand # NoCommand /\ conn[writer].hand.seq = lastSeq + 1

\* the owner's connection is open, and the owner process dialed it
OwnerIsOpen == ownerConn # NoConn => conn[ownerConn].link = "open" /\ conn[ownerConn].peer = owner

\* The wiring: the types, and what ties sockets, connections, writer and owner together.
Wired ==
    TypeInv /\ FreshConns /\ ClientsConnect /\ GapsArePositive /\ WriterInv /\ OwnerIsOpen

\* The bounds are numbers.
LEMMA BoundsAreNat == MaxLines \in Nat /\ MaxBreaks \in Nat
BY ChannelAssumption

\* The first state is wired.
LEMMA InitWired == Init => Wired
<1> SUFFICES ASSUME Init PROVE Wired
  OBVIOUS
<1>1. Idle \in Clients /\ [Idle EXCEPT !.up = "up"] \in Clients
  <2>1. 0 \in 0..MaxLines
    BY BoundsAreNat
  <2>2. Idle \in Clients
    BY <2>1 DEF Idle, Clients
  <2> QED
    BY <2>2 DEF Clients
<1>2. Unused \in ConnRecord
  BY ChannelAssumption, EmptySeq DEF Unused, ConnRecord
<1>3. client \in [Servers -> Clients]
  BY <1>1 DEF Init
<1>4. conn \in [Conns -> ConnRecord]
  BY <1>2 DEF Init
<1>5. TypeInv
  <2>1. /\ owner \in Servers /\ ownerConn \in Conns \cup {NoConn}
        /\ writer \in Conns \cup {NoConn} /\ stdinClosed \in BOOLEAN
        /\ stdin = <<>> /\ stdin \in Seq(Lines) /\ lastSeq \in 0..Len(stdin)
    <3>1. stdin = <<>> /\ lastSeq = 0
      BY DEF Init
    <3>2. <<>> \in Seq(Lines) /\ Len(<<>>) = 0
      BY EmptySeq
    <3>3. stdin \in Seq(Lines) /\ lastSeq \in 0..Len(stdin)
      <4>1. stdin \in Seq(Lines) /\ Len(stdin) = 0
        BY <3>1, <3>2
      <4> QED
        BY <3>1, <4>1
    <3>4. owner = Launcher /\ ownerConn = NoConn /\ writer = NoConn /\ stdinClosed = FALSE
      BY DEF Init
    <3> QED
      BY <3>1, <3>3, <3>4, ChannelAssumption
  <2>2. verdict \in [Lines -> {"none", "done", "failed"}] /\ breaks \in 0..MaxBreaks
    BY BoundsAreNat DEF Init
  <2> QED
    BY <1>3, <1>4, <2>1, <2>2 DEF TypeInv, TypeOK, ConnRecord
<1>6. \A c \in Conns : /\ conn[c].link = "unused" /\ conn[c].hand = NoCommand
                       /\ conn[c].toShim = <<>> /\ conn[c].toClient = <<>>
  BY DEF Init, Unused
<1>7. FreshConns /\ WriterInv /\ OwnerIsOpen
  BY <1>6 DEF Init, FreshConns, WriterInv, OwnerIsOpen
<1>8. GapsArePositive
  BY <1>6 DEF GapsArePositive, Answers
<1>9. ClientsConnect
  BY DEF Init, ClientsConnect, Connects, Idle
<1> QED
  BY <1>5, <1>7, <1>8, <1>9 DEF Wired

\* What a wired state says of each variable.
LEMMA WiredTypes ==
    ASSUME Wired
    PROVE  /\ client \in [Servers -> Clients] /\ conn \in [Conns -> ConnRecord]
           /\ owner \in Servers /\ ownerConn \in Conns \cup {NoConn}
           /\ writer \in Conns \cup {NoConn} /\ stdinClosed \in BOOLEAN
           /\ stdin \in Seq(Lines) /\ lastSeq \in 0..Len(stdin) /\ lastSeq \in Nat
           /\ verdict \in [Lines -> {"none", "done", "failed"}] /\ breaks \in 0..MaxBreaks
           /\ FreshConns /\ ClientsConnect /\ GapsArePositive /\ WriterInv /\ OwnerIsOpen
<1>1. stdin \in Seq(Lines) /\ lastSeq \in 0..Len(stdin)
  BY DEF Wired, TypeInv, TypeOK
<1>2. Len(stdin) \in Nat
  BY <1>1, LenProperties
<1> QED
  BY <1>1, <1>2 DEF Wired, TypeInv, TypeOK

\* What a step of server s leaves of the connections: their handlers' part, and
\* an unused one may be dialed.
ServerLeaves(s) ==
    \A d \in Conns :
        /\ conn'[d].hand = conn[d].hand
        /\ \/ conn'[d].link = conn[d].link /\ conn'[d].peer = conn[d].peer
           \/ /\ conn[d].link = "unused" /\ conn'[d].link = "hello"
              /\ conn'[d].peer = s /\ Running(s)'
        /\ conn[d].link \in {"unused", "hello"} =>
              conn'[d].toShim = conn[d].toShim /\ conn'[d].toClient = conn[d].toClient
        /\ \A a \in Answers(d)' : a \in Answers(d)

\* Such a step keeps the wiring if its own client stays connected as it says.
LEMMA ServerKeepsWired ==
    ASSUME Wired, NEW s \in Servers, NEW cl \in Clients,
           client' = [client EXCEPT ![s] = cl], UNCHANGED shimVars,
           conn' \in [Conns -> ConnRecord],
           verdict' \in [Lines -> {"none", "done", "failed"}], breaks' \in 0..MaxBreaks,
           cl.up = "down" => client[s].up = "down",
           Connects(s)', ServerLeaves(s)
    PROVE  Wired'
<1> USE WiredTypes
<1>0. client'[s] = cl /\ \A t \in Servers \ {s} : client'[t] = client[t]
  OBVIOUS
<1>1. TypeInv'
  BY DEF TypeInv, TypeOK, ConnRecord
<1>2. FreshConns'
  BY DEF FreshConns, ServerLeaves, Running, ConnRecord
<1>3. ASSUME NEW t \in Servers \ {s} PROVE Connects(t)'
  <2>1. client[t].sock \in Conns \cup {NoConn} /\ Connects(t)
    BY DEF ClientsConnect, Clients
  <2> QED
    BY <1>0, <2>1 DEF Connects, ServerLeaves
<1>4. GapsArePositive'
  BY DEF GapsArePositive, ServerLeaves
<1>5. WriterInv' /\ OwnerIsOpen'
  BY DEF WriterInv, OwnerIsOpen, ServerLeaves
<1> QED
  BY <1>1, <1>2, <1>3, <1>4, <1>5 DEF Wired, ClientsConnect

\* A reply that is taken was the first; the others move up.
LEMMA TakenReply ==
    ASSUME Wired, NEW s \in Servers, client[s].sock \in Conns, Reading(s)
    PROVE  /\ conn[client[s].sock].link \notin {"unused", "hello"}
           /\ Heard(s) \in Answers(client[s].sock) /\ Heard(s) \in Replies
           /\ Taken(s) \in [Conns -> ConnRecord]
           /\ Len(Taken(s)[client[s].sock].toClient) = Len(conn[client[s].sock].toClient) - 1
           /\ \A d \in Conns :
                 /\ Taken(s)[d].hand = conn[d].hand /\ Taken(s)[d].link = conn[d].link
                 /\ Taken(s)[d].peer = conn[d].peer /\ Taken(s)[d].toShim = conn[d].toShim
                 /\ d # client[s].sock => Taken(s)[d] = conn[d]
                 /\ \A i \in 1..Len(Taken(s)[d].toClient) :
                       Taken(s)[d].toClient[i] \in Answers(d)
<1> DEFINE c == client[s].sock
           q == conn[c].toClient
<1>1. /\ q \in Seq(Replies) /\ q # <<>> /\ conn[c] \in ConnRecord /\ c \in Conns
      /\ conn \in [Conns -> ConnRecord]
  BY WiredTypes DEF Reading, ConnRecord
<1>2. /\ Head(q) \in Replies /\ Tail(q) \in Seq(Replies) /\ Len(Tail(q)) = Len(q) - 1
      /\ \A i \in 1..Len(Tail(q)) : Tail(q)[i] = q[i + 1]
      /\ Head(q) = q[1] /\ Len(q) \in Nat /\ Len(q) > 0
  BY <1>1, HeadTailProperties, LenProperties, EmptySeq
<1>3. Taken(s) = [conn EXCEPT ![c].toClient = Tail(q)]
  BY DEF Taken
<1>4. \A i \in 1..Len(Tail(q)) : Tail(q)[i] \in Answers(c)
  <2> SUFFICES ASSUME NEW i \in 1..Len(Tail(q)) PROVE Tail(q)[i] \in Answers(c)
    OBVIOUS
  <2>1. i + 1 \in 1..Len(q)
    BY <1>2
  <2> QED
    BY <1>2, <2>1 DEF Answers
<1>5. Heard(s) \in Answers(c) /\ Heard(s) \in Replies
  BY <1>2 DEF Heard, Answers
<1>6. conn[c].link \notin {"unused", "hello"}
  BY <1>1, WiredTypes DEF FreshConns
<1>7. ASSUME NEW d \in Conns, NEW i \in 1..Len(conn[d].toClient) PROVE conn[d].toClient[i] \in Answers(d)
  BY DEF Answers
<1> HIDE DEF q, c
<1>8. Taken(s)[c] = [conn[c] EXCEPT !.toClient = Tail(q)] /\ \A d \in Conns \ {c} : Taken(s)[d] = conn[d]
  BY <1>1, <1>3
<1>9. Taken(s) \in [Conns -> ConnRecord]
  BY <1>1, <1>2, <1>3 DEF ConnRecord
<1>10. /\ Taken(s)[c].toClient = Tail(q) /\ Taken(s)[c].hand = conn[c].hand /\ Taken(s)[c].link = conn[c].link
       /\ Taken(s)[c].peer = conn[c].peer /\ Taken(s)[c].toShim = conn[c].toShim
  BY <1>1, <1>8 DEF ConnRecord
<1>11. Len(Taken(s)[c].toClient) = Len(conn[c].toClient) - 1
  BY <1>2, <1>10 DEF q
<1> QED
  BY <1>4, <1>5, <1>6, <1>7, <1>8, <1>9, <1>10, <1>11 DEF c

\* the command that client cl sends: its line under its number
Numbered(s, cl) == [seq |-> cl.num, line |-> <<s, cl.calls>>]

\* A line that is sent goes to the end of its connection.
LEMMA SentLine ==
    ASSUME NEW s \in Servers, NEW cl \in Clients, cl.sock \in Conns, cl.calls > 0,
           NEW queues \in [Conns -> ConnRecord], Transmit(s, cl, queues)
    PROVE  /\ Numbered(s, cl) \in Commands
           /\ conn' \in [Conns -> ConnRecord]
           /\ conn'[cl.sock].toShim = Append(queues[cl.sock].toShim, Numbered(s, cl))
           /\ client' = [client EXCEPT ![s] = [cl EXCEPT !.at = "awaiting"]]
           /\ \A d \in Conns :
                 /\ d # cl.sock => conn'[d] = queues[d]
                 /\ conn'[d].hand = queues[d].hand /\ conn'[d].link = queues[d].link
                 /\ conn'[d].peer = queues[d].peer /\ conn'[d].toClient = queues[d].toClient
<1> DEFINE x == Numbered(s, cl)
           q == queues[cl.sock].toShim
<1>1. x \in Commands
  <2>1. cl.num \in Nat /\ cl.calls \in 1..MaxLines
    BY BoundsAreNat DEF Clients
  <2> QED
    BY <2>1 DEF Commands, Lines, Numbered
<1>2. q \in Seq(Commands)
  BY DEF ConnRecord
<1>3. Append(q, x) \in Seq(Commands)
  BY <1>1, <1>2, AppendProperties
<1>4. conn' = [queues EXCEPT ![cl.sock].toShim = Append(q, x)]
  BY DEF Transmit, Numbered
<1>5. client' = [client EXCEPT ![s] = [cl EXCEPT !.at = "awaiting"]]
  BY DEF Transmit, Update
<1> HIDE DEF x, q
<1>6. conn' \in [Conns -> ConnRecord]
  BY <1>3, <1>4 DEF ConnRecord
<1>7. conn'[cl.sock].toShim = Append(q, x)
  BY <1>4 DEF ConnRecord
<1>8. \A d \in Conns :
         /\ d # cl.sock => conn'[d] = queues[d]
         /\ conn'[d].hand = queues[d].hand /\ conn'[d].link = queues[d].link
         /\ conn'[d].peer = queues[d].peer /\ conn'[d].toClient = queues[d].toClient
  BY <1>4 DEF ConnRecord
<1> QED
  BY <1>1, <1>5, <1>6, <1>7, <1>8 DEF x, q

\* A send on an open connection, or the one that follows a greeting.
LEMMA ServerSends ==
    ASSUME Wired, NEW s \in Servers, NEW rec \in Clients, client[s].sock \in Conns, Running(s),
           client' = [client EXCEPT ![s] = rec], UNCHANGED <<shimVars, callerVars>>,
           rec.up = client[s].up, rec.at = "awaiting", rec.sock = client[s].sock,
           rec.why # "attach", rec.calls > 0,
           conn' \in [Conns -> ConnRecord],
           \A d \in Conns : /\ d # rec.sock => conn'[d] = conn[d]
                            /\ conn'[d].hand = conn[d].hand /\ conn'[d].link = conn[d].link
                            /\ conn'[d].peer = conn[d].peer
                            /\ \A a \in Answers(d)' : a \in Answers(d),
           conn[rec.sock].link \notin {"unused", "hello"}
    PROVE  Wired'
<1> USE WiredTypes
<1>1. Connects(s)
  BY DEF ClientsConnect
<1>2. rec.up # "down" /\ rec.up = "up" /\ client'[s] = rec /\ rec.sock \in Conns
  BY DEF Running
<1>3. Connects(s)'
  <2>1. conn'[rec.sock].link = conn[rec.sock].link /\ conn'[rec.sock].peer = conn[rec.sock].peer
    BY <1>2
  <2>2. conn[rec.sock].peer = s
    BY <1>1, <1>2, ChannelAssumption DEF Connects
  <2> QED
    BY <1>2, <2>1, <2>2, ChannelAssumption DEF Connects
<1>4. ServerLeaves(s)
  BY DEF ServerLeaves
<1> QED
  BY <1>2, <1>3, <1>4, ServerKeepsWired

\* A server takes a reply and is idle again.
LEMMA ServerTakes ==
    ASSUME Wired, NEW s \in Servers, NEW rec \in Clients, client[s].at \in {"greeting", "awaiting"},
           Reading(s), conn' = Taken(s), UNCHANGED <<shimVars, breaks>>,
           verdict' \in [Lines -> {"none", "done", "failed"}],
           client' = [client EXCEPT ![s] = rec],
           rec.up = "up", rec.at = "idle", rec.sock \in {client[s].sock, NoConn}
    PROVE  Wired'
<1> USE WiredTypes
<1>1. Connects(s) /\ client[s].sock \in Conns /\ client'[s] = rec
  BY DEF ClientsConnect, Connects, Clients
<1>2. /\ conn' \in [Conns -> ConnRecord]
      /\ conn[client[s].sock].link \notin {"unused", "hello"}
      /\ \A d \in Conns :
            /\ conn'[d].hand = conn[d].hand /\ conn'[d].link = conn[d].link
            /\ conn'[d].peer = conn[d].peer /\ conn'[d].toShim = conn[d].toShim
            /\ d # client[s].sock => conn'[d] = conn[d]
            /\ \A a \in Answers(d)' : a \in Answers(d)
  <2>1. \A d \in Conns : \A a \in Answers(d)' : a \in Answers(d)
    <3>1. \A d \in Conns : \A i \in 1..Len(conn'[d].toClient) : conn'[d].toClient[i] \in Answers(d)
      BY <1>1, TakenReply
    <3> QED
      BY <3>1 DEF Answers
  <2>2. conn' \in [Conns -> ConnRecord] /\ conn[client[s].sock].link \notin {"unused", "hello"}
    BY <1>1, TakenReply
  <2>3. \A d \in Conns :
            /\ conn'[d].hand = conn[d].hand /\ conn'[d].link = conn[d].link
            /\ conn'[d].peer = conn[d].peer /\ conn'[d].toShim = conn[d].toShim
            /\ d # client[s].sock => conn'[d] = conn[d]
    BY <1>1, TakenReply
  <2> QED
    BY <2>1, <2>2, <2>3
<1>3. Connects(s)'
  BY <1>1, <1>2 DEF Connects
<1>4. ServerLeaves(s)
  BY <1>2 DEF ServerLeaves
<1> QED
  BY <1>2, <1>3, <1>4, ServerKeepsWired

\* What a step of server s makes of its client and of the connections.
LEMMA ServerWired ==
    ASSUME Wired, NEW s \in Servers, ServerStep(s)
    PROVE  Wired'
<1> USE WiredTypes
<1>0. /\ client[s] \in Clients /\ Connects(s)
      /\ client[s].sock \in Conns \cup {NoConn} /\ Disconnected(s) \in Clients
      /\ [Disconnected(s) EXCEPT !.at = "idle"] \in Clients
  <2>1. client[s] \in Clients /\ Connects(s)
    BY DEF ClientsConnect
  <2>2. Disconnected(s) \in Clients
    BY <2>1 DEF Disconnected, Clients
  <2>3. client[s].sock \in Conns \cup {NoConn} /\ [Disconnected(s) EXCEPT !.at = "idle"] \in Clients
    BY <2>1, <2>2 DEF Clients
  <2> QED
    BY <2>1, <2>2, <2>3
<1>1. CASE \/ Attach(s) \/ Boot(s) \/ Die(s) \/ DialFails(s) \/ ReadFails(s)
           \/ Send(s) /\ client[s].sock = NoConn
  <2>0. UNCHANGED conn /\ UNCHANGED shimVars
    BY <1>1 DEF Attach, Boot, Die, DialFails, ReadFails, Send
  <2>1. ServerLeaves(s)
    BY <2>0 DEF ServerLeaves, Answers
  <2>2. CASE Attach(s)
    <3> DEFINE cl == [client[s] EXCEPT !.at = "dialing", !.why = "attach"]
    <3>1. cl \in Clients /\ client' = [client EXCEPT ![s] = cl] /\ UNCHANGED callerVars
      BY <1>0, <2>2 DEF Attach, Update, Clients
    <3>2. Connects(s)' /\ cl.up = client[s].up
      BY <1>0, <2>0, <2>2, <3>1 DEF Attach, Connects, Clients, Running
    <3> HIDE DEF cl
    <3> QED
      BY <2>0, <2>1, <3>1, <3>2, ServerKeepsWired
  <2>3. CASE Boot(s)
    <3> DEFINE cl == [Idle EXCEPT !.up = "up"]
    <3>1. Idle \in Clients
      BY BoundsAreNat DEF Idle, Clients
    <3>2. cl \in Clients /\ client' = [client EXCEPT ![s] = cl] /\ UNCHANGED callerVars
      BY <2>3, <3>1 DEF Boot, Update, Clients
    <3>3. Connects(s)' /\ cl.up = "up"
      BY <3>2 DEF Idle, Connects
    <3> HIDE DEF cl
    <3> QED
      BY <2>0, <2>1, <3>2, <3>3, ServerKeepsWired
  <2>4. CASE Die(s)
    <3> DEFINE cl == [Idle EXCEPT !.up = "dead", !.calls = client[s].calls]
    <3>1. Idle \in Clients
      BY BoundsAreNat DEF Idle, Clients
    <3>2. cl \in Clients /\ client' = [client EXCEPT ![s] = cl] /\ UNCHANGED callerVars
      BY <1>0, <2>4, <3>1 DEF Die, Update, Clients
    <3>3. Connects(s)' /\ cl.up = "dead"
      BY <3>2 DEF Idle, Connects
    <3> HIDE DEF cl
    <3> QED
      BY <2>0, <2>1, <3>2, <3>3, ServerKeepsWired
  <2>5. CASE DialFails(s)
    <3> DEFINE cl == [Disconnected(s) EXCEPT !.at = "idle"]
    <3>1. /\ client' = [client EXCEPT ![s] = cl]
          /\ verdict' \in [Lines -> {"none", "done", "failed"}]
      BY <2>5 DEF DialFails, Return, Tell, Update
    <3>2. breaks' \in 0..MaxBreaks
      BY <2>5, BoundsAreNat DEF DialFails, Break
    <3>3. Connects(s)' /\ cl.up = "up"
      BY <1>0, <2>5, <3>1 DEF DialFails, Running, Disconnected, Connects, Clients
    <3> HIDE DEF cl
    <3> QED
      BY <1>0, <2>0, <2>1, <3>1, <3>2, <3>3, ServerKeepsWired DEF cl
  <2>6. CASE ReadFails(s)
    <3>1. breaks' \in 0..MaxBreaks
      <4>1. UNCHANGED breaks \/ Break
        BY <2>6 DEF ReadFails
      <4> QED
        BY <4>1, BoundsAreNat DEF Break
    <3>2. CASE client[s].why = "first" /\ UNCHANGED verdict
               /\ Update(s, [Disconnected(s) EXCEPT !.at = "dialing", !.why = "again"])
      <4> DEFINE cl == [Disconnected(s) EXCEPT !.at = "dialing", !.why = "again"]
      <4>1. cl \in Clients /\ client' = [client EXCEPT ![s] = cl]
        BY <1>0, <3>2 DEF Update, Clients
      <4>2. Connects(s)' /\ cl.up = "up"
        BY <1>0, <2>6, <4>1 DEF ReadFails, Running, Disconnected, Connects, Clients
      <4> HIDE DEF cl
      <4> QED
        BY <2>0, <2>1, <3>1, <3>2, <4>1, <4>2, ServerKeepsWired
    <3>3. CASE Return(s, "failed", [client[s] EXCEPT !.broken = TRUE])
      <4> DEFINE cl == [client[s] EXCEPT !.broken = TRUE, !.at = "idle"]
      <4>1. /\ cl \in Clients /\ client' = [client EXCEPT ![s] = cl]
            /\ verdict' \in [Lines -> {"none", "done", "failed"}]
        BY <1>0, <3>3 DEF Update, Clients, Return, Tell
      <4>2. Connects(s)' /\ cl.up = "up"
        BY <1>0, <2>0, <2>6, <4>1 DEF ReadFails, Running, Connects, Clients
      <4> HIDE DEF cl
      <4> QED
        BY <2>0, <2>1, <3>1, <4>1, <4>2, ServerKeepsWired
    <3> QED
      BY <2>6, <3>2, <3>3 DEF ReadFails
  <2>7. CASE Send(s) /\ client[s].sock = NoConn
    <3> DEFINE cl == [client[s] EXCEPT !.calls = @ + 1, !.why = "first", !.at = "dialing"]
    <3>0. client[s].calls + 1 \in 0..MaxLines
      BY <1>0, <2>7, BoundsAreNat DEF Send, Clients
    <3>1. cl \in Clients /\ client' = [client EXCEPT ![s] = cl] /\ UNCHANGED callerVars
      BY <1>0, <2>7, <3>0 DEF Send, Update, Clients
    <3>2. Connects(s)' /\ cl.up = "up"
      BY <1>0, <2>0, <2>7, <3>1 DEF Send, Connects, Clients, Running
    <3> HIDE DEF cl
    <3> QED
      BY <2>0, <2>1, <3>1, <3>2, ServerKeepsWired
  <2> QED
    BY <1>1, <2>2, <2>3, <2>4, <2>5, <2>6, <2>7
<1>2. CASE \E c \in Conns : Dial(s, c)
  <2>1. PICK c \in Conns : Dial(s, c)
    BY <1>2
  <2> DEFINE cl == [client[s] EXCEPT !.at = "greeting", !.sock = c]
  <2>2. /\ conn' = [conn EXCEPT ![c].link = "hello", ![c].peer = s]
        /\ cl \in Clients /\ client' = [client EXCEPT ![s] = cl]
        /\ conn[c].link = "unused" /\ UNCHANGED <<shimVars, callerVars>> /\ Running(s)
        /\ client[s].at = "dialing"
    BY <1>0, <2>1 DEF Dial, Update, Clients
  <2>3. conn' \in [Conns -> ConnRecord]
    <3>1. conn \in [Conns -> ConnRecord] /\ conn[c] \in ConnRecord
      OBVIOUS
    <3>2. [conn[c] EXCEPT !.link = "hello", !.peer = s] \in ConnRecord
      BY <3>1 DEF ConnRecord
    <3> QED
      BY <2>2, <3>1, <3>2
  <2>4. Connects(s)' /\ cl.up = "up"
    <3>1. client'[s] = cl /\ cl.up = "up" /\ cl.at = "greeting" /\ cl.sock = c
          /\ cl.why = client[s].why /\ cl.calls = client[s].calls
      BY <1>0, <2>2 DEF Clients, Running
    <3>2. conn'[c].link = "hello" /\ conn'[c].peer = s
      BY <2>2 DEF ConnRecord
    <3> QED
      BY <1>0, <2>2, <3>1, <3>2, ChannelAssumption DEF Connects
  <2>5. ServerLeaves(s)
    BY <2>2, <2>4 DEF ServerLeaves, Answers, Running, ConnRecord
  <2> HIDE DEF cl
  <2> QED
    BY <2>2, <2>3, <2>4, <2>5, ServerKeepsWired
<1>3. CASE Send(s) /\ client[s].sock # NoConn
  <2> DEFINE cl == [client[s] EXCEPT !.calls = @ + 1, !.why = "first", !.num = client[s].seq + 1]
             rec == [cl EXCEPT !.at = "awaiting"]
  <2>1. Transmit(s, cl, conn) /\ UNCHANGED <<shimVars, callerVars>> /\ Running(s)
        /\ client[s].at = "idle"
    BY <1>3 DEF Send, Transmit
  <2>2. client[s].calls + 1 \in 1..MaxLines /\ client[s].seq + 1 \in Nat
    BY <1>0, <1>3, BoundsAreNat DEF Send, Clients
  <2>3. /\ cl \in Clients /\ rec \in Clients /\ cl.calls > 0 /\ cl.sock = client[s].sock
        /\ rec.up = client[s].up /\ rec.at = "awaiting" /\ rec.sock = cl.sock
        /\ rec.why = "first" /\ rec.calls > 0
    <3>0. client[s].calls + 1 \in 0..MaxLines
      BY <2>2, BoundsAreNat
    <3>1. cl \in Clients
      BY <1>0, <2>2, <3>0 DEF Clients
    <3>2. /\ cl.calls > 0 /\ cl.sock = client[s].sock /\ cl.up = client[s].up /\ cl.why = "first"
      BY <1>0, <2>2 DEF Clients
    <3> HIDE DEF cl
    <3> QED
      BY <3>1, <3>2 DEF Clients
  <2>4. cl.sock \in Conns /\ conn \in [Conns -> ConnRecord]
    BY <1>0, <1>3, <2>3
  <2> HIDE DEF cl
  <2>5. /\ conn' \in [Conns -> ConnRecord] /\ client' = [client EXCEPT ![s] = rec]
        /\ \A d \in Conns : /\ d # cl.sock => conn'[d] = conn[d]
                            /\ conn'[d].hand = conn[d].hand /\ conn'[d].link = conn[d].link
                            /\ conn'[d].peer = conn[d].peer /\ conn'[d].toClient = conn[d].toClient
    BY <2>1, <2>3, <2>4, SentLine
  <2>6. conn[cl.sock].link \notin {"unused", "hello"}
    <3>1. client[s].sock # NoConn /\ client[s].at # "greeting"
      BY <1>3, <2>1
    <3> QED
      BY <1>0, <2>3, <3>1 DEF Connects
  <2>8. \A d \in Conns : \A a \in Answers(d)' : a \in Answers(d)
    BY <2>5 DEF Answers
  <2> HIDE DEF rec
  <2> QED
    <3>1. /\ rec \in Clients /\ rec.up = client[s].up /\ rec.at = "awaiting"
          /\ rec.sock = client[s].sock /\ client[s].sock \in Conns
          /\ rec.why # "attach" /\ rec.calls > 0
          /\ conn[rec.sock].link \notin {"unused", "hello"}
      BY <2>3, <2>4, <2>6
    <3>2. \A d \in Conns : /\ d # rec.sock => conn'[d] = conn[d]
                           /\ conn'[d].hand = conn[d].hand /\ conn'[d].link = conn[d].link
                           /\ conn'[d].peer = conn[d].peer
                           /\ \A a \in Answers(d)' : a \in Answers(d)
      BY <2>3, <2>5, <2>8
    <3> QED
      BY <2>1, <2>5, <3>1, <3>2, ServerSends
<1>4. CASE Refused(s)
  <2> DEFINE cl == [Disconnected(s) EXCEPT !.at = "idle"]
  <2>1. /\ client' = [client EXCEPT ![s] = cl] /\ conn' = Taken(s) /\ Running(s) /\ Reading(s)
        /\ verdict' \in [Lines -> {"none", "done", "failed"}] /\ UNCHANGED <<shimVars, breaks>>
        /\ client[s].at = "greeting"
    BY <1>4 DEF Refused, Return, Update, Tell, Reading
  <2>2. cl.up = "up" /\ cl.sock = NoConn /\ cl.at = "idle" /\ cl \in Clients
    BY <1>0, <2>1 DEF Disconnected, Clients, Running
  <2> HIDE DEF cl
  <2> QED
    BY <1>0, <2>1, <2>2, ServerTakes
<1>5. CASE Answered(s)
  <2> DEFINE cl == client'[s]
  <2>1. /\ conn' = Taken(s) /\ Running(s) /\ Reading(s) /\ client[s].at = "awaiting"
        /\ verdict' \in [Lines -> {"none", "done", "failed"}] /\ UNCHANGED <<shimVars, breaks>>
    BY <1>5 DEF Answered, Return, Tell, Reading
  <2>2. Heard(s) \in Replies /\ Heard(s) \in Answers(client[s].sock) /\ client[s].sock \in Conns
    BY <1>0, <2>1, TakenReply DEF Connects
  <2>3. Heard(s).kind = "gap" => Heard(s).n - 1 \in Nat
    BY <2>2 DEF GapsArePositive, Replies
  <2>4. \E n \in Nat : client' = [client EXCEPT ![s] = [client[s] EXCEPT !.seq = n, !.at = "idle"]]
    <3>1. client[s].num \in Nat /\ client[s].seq \in Nat
      BY <1>0 DEF Clients
    <3>2. client[s] = [client[s] EXCEPT !.seq = client[s].seq]
      BY <1>0 DEF Clients
    <3> QED
      BY <1>5, <2>3, <3>1, <3>2 DEF Answered, Return, Update
  <2>5. PICK n \in Nat : client' = [client EXCEPT ![s] = [client[s] EXCEPT !.seq = n, !.at = "idle"]]
    BY <2>4
  <2> DEFINE rec == [client[s] EXCEPT !.seq = n, !.at = "idle"]
  <2>6. rec \in Clients /\ rec.up = "up" /\ rec.sock = client[s].sock /\ rec.at = "idle"
    BY <1>0, <2>1, <2>5 DEF Clients, Running
  <2> HIDE DEF rec
  <2> QED
    BY <1>0, <2>1, <2>5, <2>6, ServerTakes DEF rec
<1>6. CASE Greeted(s)
  <2> DEFINE n == Heard(s).n
             cl == [client[s] EXCEPT !.seq = n]
             num == IF cl.why = "first" THEN n + 1 ELSE cl.num
             given == [cl EXCEPT !.num = num]
             rec == [given EXCEPT !.at = "awaiting"]
  <2>1. Running(s) /\ Reading(s) /\ client[s].at = "greeting" /\ UNCHANGED <<shimVars, breaks>>
    BY <1>6 DEF Greeted, Reading
  <2>2. n \in Nat /\ client[s].sock \in Conns
    BY <1>0, <2>1, TakenReply DEF Connects, Replies
  <2>3. cl \in Clients /\ cl.why = client[s].why /\ cl.calls = client[s].calls /\ cl.sock = client[s].sock
        /\ cl.up = "up" /\ cl.num = client[s].num /\ num \in Nat
    <3>1. cl \in Clients /\ cl.why = client[s].why /\ cl.calls = client[s].calls
          /\ cl.sock = client[s].sock /\ cl.up = "up" /\ cl.num = client[s].num
      <4> HIDE DEF n
      <4> QED
        BY <1>0, <2>1, <2>2 DEF Clients, Running
    <3>2. cl.num \in Nat
      BY <3>1 DEF Clients
    <3> HIDE DEF cl, n
    <3> QED
      BY <2>2, <3>1, <3>2
  <2>4. given \in Clients /\ given.why = client[s].why /\ given.calls = client[s].calls
        /\ given.sock = client[s].sock /\ given.up = client[s].up
    <3> HIDE DEF cl, num
    <3> QED
      BY <2>1, <2>3 DEF Clients, Running
  <2>5. rec \in Clients /\ rec.why = client[s].why /\ rec.calls = client[s].calls
        /\ rec.sock = client[s].sock /\ rec.up = client[s].up /\ rec.at = "awaiting"
    <3> HIDE DEF given
    <3> QED
      BY <2>4 DEF Clients
  <2>6. \/ /\ client[s].why = "attach"
           /\ Return(s, "done", cl)
           /\ conn' = Taken(s)
        \/ /\ Landed(s, n)
           /\ Return(s, "done", [cl EXCEPT !.seq = cl.num])
           /\ conn' = Taken(s)
        \/ /\ client[s].why # "attach"
           /\ ~Landed(s, n)
           /\ Transmit(s, given, Taken(s))
    BY <1>6, <2>3 DEF Greeted
  <2> HIDE DEF given, rec, num
  <2>7. ASSUME NEW r \in Clients, Return(s, "done", r), conn' = Taken(s), r.up = "up", r.sock = client[s].sock
        PROVE  Wired'
    <3> DEFINE idle == [r EXCEPT !.at = "idle"]
    <3>1. idle \in Clients /\ idle.up = "up" /\ idle.at = "idle" /\ idle.sock = client[s].sock
      BY <2>7 DEF Clients
    <3>2. /\ client' = [client EXCEPT ![s] = idle]
          /\ verdict' \in [Lines -> {"none", "done", "failed"}]
      BY <2>7 DEF Return, Update, Tell
    <3> HIDE DEF idle
    <3> QED
      BY <2>1, <2>7, <3>1, <3>2, ServerTakes
  <2>8. CASE client[s].why # "attach" /\ Transmit(s, given, Taken(s))
    <3>1. /\ Taken(s) \in [Conns -> ConnRecord]
          /\ conn[client[s].sock].link \notin {"unused", "hello"}
      BY <2>1, <2>2, TakenReply
    <3>2. \A d \in Conns :
            /\ Taken(s)[d].hand = conn[d].hand /\ Taken(s)[d].link = conn[d].link
            /\ Taken(s)[d].peer = conn[d].peer
            /\ d # client[s].sock => Taken(s)[d] = conn[d]
            /\ \A i \in 1..Len(Taken(s)[d].toClient) : Taken(s)[d].toClient[i] \in Answers(d)
      BY <2>1, <2>2, TakenReply
    <3>3. given.calls > 0
      BY <1>0, <2>1, <2>4, <2>8 DEF Connects
    <3> DEFINE T == Taken(s)
    <3>4. Transmit(s, given, T)
      BY <2>8
    <3> HIDE DEF T
    <3>5. T \in [Conns -> ConnRecord]
      BY <3>1 DEF T
    <3>6. /\ conn' \in [Conns -> ConnRecord] /\ client' = [client EXCEPT ![s] = rec]
          /\ \A d \in Conns : /\ d # given.sock => conn'[d] = T[d]
                              /\ conn'[d].hand = T[d].hand /\ conn'[d].link = T[d].link
                              /\ conn'[d].peer = T[d].peer /\ conn'[d].toClient = T[d].toClient
      <4>1. given \in Clients /\ given.sock \in Conns /\ given.calls > 0
        BY <2>2, <2>4, <3>3
      <4>2. client' = [client EXCEPT ![s] = [given EXCEPT !.at = "awaiting"]]
        BY <3>4 DEF Transmit, Update
      <4>3. conn' \in [Conns -> ConnRecord]
        BY <3>4, <3>5, <4>1, SentLine
      <4>4. \A d \in Conns : /\ d # given.sock => conn'[d] = T[d]
                             /\ conn'[d].hand = T[d].hand /\ conn'[d].link = T[d].link
                             /\ conn'[d].peer = T[d].peer /\ conn'[d].toClient = T[d].toClient
        BY <3>4, <3>5, <4>1, SentLine
      <4> QED
        BY <4>2, <4>3, <4>4 DEF rec
    <3>8. \A d \in Conns : \A a \in Answers(d)' : a \in Answers(d)
      <4>1. \A d \in Conns : \A i \in 1..Len(T[d].toClient) : T[d].toClient[i] \in Answers(d)
        BY <3>2 DEF T
      <4>2. \A d \in Conns : \A i \in 1..Len(conn'[d].toClient) : conn'[d].toClient[i] \in Answers(d)
        BY <3>6, <4>1
      <4> QED
        BY <4>2 DEF Answers
    <3>9. \A d \in Conns : /\ d # client[s].sock => conn'[d] = conn[d]
                           /\ conn'[d].hand = conn[d].hand /\ conn'[d].link = conn[d].link
                           /\ conn'[d].peer = conn[d].peer
      BY <2>4, <3>2, <3>6 DEF T
    <3>10. UNCHANGED callerVars
      BY <2>1, <2>8 DEF Transmit
    <3> QED
      <4>1. /\ rec \in Clients /\ rec.up = client[s].up /\ rec.at = "awaiting"
            /\ rec.sock = client[s].sock /\ client[s].sock \in Conns
            /\ rec.why # "attach" /\ rec.calls > 0
            /\ conn[rec.sock].link \notin {"unused", "hello"}
        BY <2>2, <2>4, <2>5, <2>8, <3>1, <3>3
      <4>2. \A d \in Conns : /\ d # rec.sock => conn'[d] = conn[d]
                             /\ conn'[d].hand = conn[d].hand /\ conn'[d].link = conn[d].link
                             /\ conn'[d].peer = conn[d].peer
                             /\ \A a \in Answers(d)' : a \in Answers(d)
        BY <2>5, <3>8, <3>9
      <4> QED
        BY <2>1, <3>6, <3>10, <4>1, <4>2, ServerSends
  <2>9. [cl EXCEPT !.seq = cl.num] \in Clients /\ [cl EXCEPT !.seq = cl.num].up = "up"
        /\ [cl EXCEPT !.seq = cl.num].sock = client[s].sock
    <3> HIDE DEF cl
    <3> QED
      BY <2>3 DEF Clients
  <2> QED
    BY <2>3, <2>6, <2>7, <2>8, <2>9
<1> QED
  BY <1>1, <1>2, <1>3, <1>4, <1>5, <1>6 DEF ServerStep

\* A reply, where the client still listens, goes to the end of its queue.
LEMMA RepliedConn ==
    ASSUME conn \in [Conns -> ConnRecord], NEW c \in Conns, NEW answer \in Replies
    PROVE  LET r == Replied(c, answer) IN
           /\ r \in ConnRecord
           /\ r.link = conn[c].link /\ r.peer = conn[c].peer
           /\ r.toShim = conn[c].toShim /\ r.hand = conn[c].hand
           /\ \A i \in 1..Len(r.toClient) : r.toClient[i] \in Answers(c) \cup {answer}
           /\ Len(r.toClient) \in {Len(conn[c].toClient), Len(conn[c].toClient) + 1}
           /\ HungUp(c) => r.toClient = conn[c].toClient
<1> DEFINE q == conn[c].toClient
           r == Replied(c, answer)
<1>1. conn[c] \in ConnRecord /\ q \in Seq(Replies)
  BY DEF ConnRecord
<1>2. /\ Append(q, answer) \in Seq(Replies) /\ Len(Append(q, answer)) = Len(q) + 1
      /\ \A i \in 1..Len(q) : Append(q, answer)[i] = q[i]
      /\ Append(q, answer)[Len(q) + 1] = answer /\ Len(q) \in Nat
  BY <1>1, AppendProperties, LenProperties
<1>3. \A i \in 1..Len(q) : q[i] \in Answers(c)
  BY DEF Answers
<1> HIDE DEF q
<1>4. CASE HungUp(c)
  <2>1. r = conn[c]
    BY <1>4 DEF Replied
  <2> QED
    BY <1>1, <1>3, <1>4, <2>1 DEF q
<1>5. CASE ~HungUp(c)
  <2>1. r = [conn[c] EXCEPT !.toClient = Append(q, answer)]
    BY <1>5 DEF Replied, q
  <2>2. r \in ConnRecord /\ r.toClient = Append(q, answer)
        /\ r.link = conn[c].link /\ r.peer = conn[c].peer
        /\ r.toShim = conn[c].toShim /\ r.hand = conn[c].hand
    BY <1>1, <1>2, <2>1 DEF ConnRecord
  <2>3. \A i \in 1..Len(r.toClient) : r.toClient[i] \in Answers(c) \cup {answer}
    <3> SUFFICES ASSUME NEW i \in 1..(Len(q) + 1) PROVE Append(q, answer)[i] \in Answers(c) \cup {answer}
      BY <1>2, <2>2
    <3>1. i \in 1..Len(q) \/ i = Len(q) + 1
      BY <1>2
    <3> QED
      BY <1>2, <1>3, <3>1
  <2>4. Len(r.toClient) = Len(conn[c].toClient) + 1
    BY <1>2, <2>2 DEF q
  <2> HIDE DEF r
  <2> QED
    BY <1>5, <2>2, <2>3, <2>4 DEF r
<1> QED
  BY <1>4, <1>5

\* What a step of the shim does to connection d: its peer stays, it is not
\* dialed, and what it has for the client is what it had, or \in A.
ShimLeaves(d, A) ==
    /\ conn'[d].peer = conn[d].peer
    /\ conn[d].link = "unused" => conn'[d] = conn[d]
    /\ conn'[d].link = "unused" => conn[d].link = "unused"
    /\ conn'[d].link = "hello" => conn'[d] = conn[d]
    /\ \A a \in Answers(d)' : a \in Answers(d) \cup A

\* A step that leaves the connections so, and adds no answer but those of A, keeps the
\* wiring if the writer and the owner stay as it says.
LEMMA ShimKeepsWired ==
    ASSUME Wired, UNCHANGED <<client, callerVars>>, conn' \in [Conns -> ConnRecord],
           owner' \in Servers, ownerConn' \in Conns \cup {NoConn},
           writer' \in Conns \cup {NoConn}, stdinClosed' \in BOOLEAN,
           stdin' \in Seq(Lines), lastSeq' \in 0..Len(stdin'),
           NEW A, \A a \in A : a.kind = "gap" => a.n > 0,
           \A d \in Conns : ShimLeaves(d, A),
           WriterInv', OwnerIsOpen'
    PROVE  Wired'
<1> USE DEF ShimLeaves
<1>0. conn \in [Conns -> ConnRecord]
  BY WiredTypes
<1>1. TypeInv'
  BY WiredTypes DEF TypeInv, TypeOK, ConnRecord
<1>2. FreshConns'
  <2> SUFFICES ASSUME NEW c \in Conns
               PROVE  /\ conn'[c].link \in {"unused", "hello"} =>
                           /\ conn'[c].toShim = <<>> /\ conn'[c].toClient = <<>>
                           /\ conn'[c].hand = NoCommand
                      /\ conn'[c].link # "unused" => client'[conn'[c].peer].up # "down"
    BY DEF FreshConns
  <2>1. conn'[c].link \in {"unused", "hello"} => conn'[c] = conn[c]
    OBVIOUS
  <2> QED
    BY <2>1, WiredTypes DEF FreshConns
<1>3. ASSUME NEW s \in Servers PROVE Connects(s)'
  <2>1. client[s].sock \in Conns \cup {NoConn} /\ Connects(s)
    BY WiredTypes DEF ClientsConnect, Clients
  <2> QED
    BY <2>1 DEF Connects
<1>4. GapsArePositive'
  BY WiredTypes DEF GapsArePositive
<1> QED
  BY <1>1, <1>2, <1>3, <1>4 DEF Wired, ClientsConnect

(***************************************************************************)
(* What a step of the shim does to its own connection.                      *)
(***************************************************************************)
\* the reply goes to the client, if it still listens
Gets(c, answer) == conn'[c].toClient = Replied(c, answer).toClient

\* a HELLO is refused, or makes its sender the owner
Greets(c) ==
    /\ conn[c].link = "hello" /\ conn'[c].toShim = conn[c].toShim /\ conn'[c].hand = conn[c].hand
    /\ \/ /\ Gets(c, Reply("refused", 0)) /\ conn'[c].link = "shut"
          /\ UNCHANGED <<owner, ownerConn>>
       \/ /\ Gets(c, Reply("ok", lastSeq)) /\ conn'[c].link = "open"
          /\ owner' = conn[c].peer /\ ownerConn' = c
          /\ owner = conn[c].peer \/ ~Running(owner)
    /\ UNCHANGED <<lastSeq, writer, stdin>>

\* the next command is taken in hand
Takes(c) ==
    /\ conn[c].hand = NoCommand /\ conn[c].toShim # <<>>
    /\ conn'[c].hand = Head(conn[c].toShim) /\ conn'[c].toShim = Tail(conn[c].toShim)
    /\ conn'[c].toClient = conn[c].toClient /\ conn'[c].link = conn[c].link
    /\ UNCHANGED <<owner, ownerConn, lastSeq, writer, stdin>>

\* the handler ends and shuts its connection
Ends(c) ==
    /\ conn'[c].hand = NoCommand /\ conn'[c].toShim = <<>> /\ conn'[c].link = "shut"
    /\ conn'[c].toClient = conn[c].toClient
    /\ ownerConn' = IF ownerConn = c THEN NoConn ELSE ownerConn
    /\ UNCHANGED <<owner, lastSeq>>

\* the command in hand is answered and put down
Answering(c, answer) ==
    /\ conn[c].hand # NoCommand /\ conn'[c].hand = NoCommand
    /\ conn'[c].toShim = conn[c].toShim /\ conn'[c].link = conn[c].link
    /\ Gets(c, answer)
    /\ UNCHANGED <<owner, ownerConn>>

\* a command is answered without a write
Declines(c) ==
    /\ AtLock(c) /\ UNCHANGED <<lastSeq, writer, stdin>>
    /\ \/ Answering(c, Reply("ack", conn[c].hand.seq)) /\ conn[c].hand.seq <= lastSeq
       \/ Answering(c, Reply("gap", lastSeq + 1))
       \/ Answering(c, Reply("closed", 0))

\* the line in hand is given to the CLI, and counted if its owner still owns the shim
Writes(c) ==
    /\ writer = c /\ writer' = NoConn /\ stdin' = Append(stdin, conn[c].hand.line)
    /\ \/ /\ owner = conn[c].peer /\ lastSeq' = conn[c].hand.seq
          /\ Answering(c, Reply("ack", conn[c].hand.seq))
       \/ owner # conn[c].peer /\ Ends(c)

\* a write fails: the CLI is gone
Loses(c) ==
    /\ writer = c /\ writer' = NoConn /\ UNCHANGED <<lastSeq, stdin>>
    /\ Answering(c, Reply("closed", 0))

\* what it does to the other connections: a take-over cuts one
Others(c) ==
    \A d \in Conns :
        d # c => /\ conn'[d].peer = conn[d].peer /\ conn'[d].hand = conn[d].hand
                 /\ conn'[d].toShim = conn[d].toShim /\ conn'[d].toClient = conn[d].toClient
                 /\ conn'[d] = conn[d] \/ (d = ownerConn /\ conn'[d].link = "cut" /\ ownerConn' = c)

\* Whatever the shim does, it does to one connection; a take-over cuts another.
LEMMA ShimMoves ==
    ASSUME Wired, NEW c \in Conns, ShimStep(c)
    PROVE  /\ conn' \in [Conns -> ConnRecord] /\ conn'[c].peer = conn[c].peer
           /\ UNCHANGED <<client, callerVars>> /\ stdinClosed' \in BOOLEAN
           /\ Others(c)
           /\ conn[c].link # "unused"
           /\ conn'[c].link \notin {"unused", "hello"}
           /\ \/ Greets(c)
              \/ Handling(c) /\ ownerConn = c /\ Takes(c)
              \/ Ends(c) /\ UNCHANGED <<writer, stdin>> /\ (writer = NoConn \/ conn[c].hand = NoCommand)
              \/ /\ UNCHANGED <<conn, owner, ownerConn, lastSeq, stdin>> /\ writer' = c /\ ownerConn = c
                 /\ AtLock(c) /\ InTurn(c)
              \/ ownerConn = c /\ Declines(c)
              \/ Writes(c)
              \/ Loses(c)
<1> USE WiredTypes
<1>0. conn \in [Conns -> ConnRecord] /\ conn[c] \in ConnRecord /\ lastSeq \in Nat
  OBVIOUS
<1>1. ASSUME NEW r \in ConnRecord, conn' = [conn EXCEPT ![c] = r], r.peer = conn[c].peer
      PROVE  /\ conn' \in [Conns -> ConnRecord] /\ conn'[c] = r /\ conn'[c].peer = conn[c].peer
             /\ Others(c)
  BY <1>0, <1>1 DEF ConnRecord, Others
<1>2. ASSUME NEW r \in ConnRecord
       PROVE  LET e == Ended(c, r) IN
             /\ e \in ConnRecord /\ e.peer = r.peer /\ e.toClient = r.toClient
             /\ e.link = "shut" /\ e.toShim = <<>> /\ e.hand = NoCommand
  BY EmptySeq DEF Ended, ConnRecord
<1>3. ASSUME HandlerEnds(c), conn[c].link \notin {"unused", "hello"}
      PROVE  /\ Ends(c) /\ conn' \in [Conns -> ConnRecord] /\ conn'[c].peer = conn[c].peer
             /\ Others(c)
             /\ UNCHANGED <<client, callerVars, stdinClosed>>
  <2> DEFINE e == Ended(c, conn[c])
  <2>1. conn' = [conn EXCEPT ![c] = e]
    BY <1>3 DEF HandlerEnds, Ended
  <2>2. /\ e \in ConnRecord /\ e.peer = conn[c].peer /\ e.toClient = conn[c].toClient
        /\ e.link = "shut" /\ e.toShim = <<>> /\ e.hand = NoCommand
    BY <1>0, <1>2
  <2> HIDE DEF e
  <2> QED
    BY <1>1, <1>3, <2>1, <2>2 DEF HandlerEnds, Ends
<1>4. conn[c].hand # NoCommand \/ conn[c].toShim # <<>> => conn[c].link \notin {"unused", "hello"}
  BY DEF FreshConns
<1>5. ASSUME NEW answer \in Replies, conn[c].hand # NoCommand,
             conn' = [conn EXCEPT ![c] = [Replied(c, answer) EXCEPT !.hand = NoCommand]],
             UNCHANGED <<owner, ownerConn>>
      PROVE  /\ Answering(c, answer) /\ conn' \in [Conns -> ConnRecord] /\ conn'[c].peer = conn[c].peer
             /\ Others(c)
  <2> DEFINE r == [Replied(c, answer) EXCEPT !.hand = NoCommand]
  <2>1. /\ Replied(c, answer) \in ConnRecord
        /\ Replied(c, answer).link = conn[c].link /\ Replied(c, answer).peer = conn[c].peer
        /\ Replied(c, answer).toShim = conn[c].toShim
    BY <1>0, RepliedConn
  <2>2. /\ r \in ConnRecord /\ r.link = conn[c].link /\ r.peer = conn[c].peer
        /\ r.toShim = conn[c].toShim /\ r.hand = NoCommand /\ r.toClient = Replied(c, answer).toClient
    BY <2>1 DEF ConnRecord
  <2> HIDE DEF r
  <2>3. conn' = [conn EXCEPT ![c] = r]
    BY <1>5 DEF r
  <2> QED
    BY <1>1, <1>5, <2>2, <2>3 DEF Answering, Gets
<1>6. \A n \in Nat : \A k \in {"ok", "refused", "ack", "gap", "closed"} : Reply(k, n) \in Replies
  BY DEF Reply, Replies
<1>7. conn[c].hand # NoCommand => conn[c].hand \in Commands /\ conn[c].hand.seq \in Nat
  BY <1>0 DEF ConnRecord, Commands
<1>8. writer = c => conn[c].hand # NoCommand
  BY ChannelAssumption DEF WriterInv
<1>a. CASE Greet(c) /\ owner # conn[c].peer /\ OwnerAlive
  <2> DEFINE r == Replied(c, Reply("refused", 0))
  <2>1. /\ r \in ConnRecord /\ r.peer = conn[c].peer
    BY <1>0, <1>6, RepliedConn
  <2>2. conn' = [conn EXCEPT ![c] = Ended(c, r)] /\ conn[c].link = "hello"
        /\ UNCHANGED <<client, owner, ownerConn, lastSeq, writer, stdinClosed, stdin, callerVars>>
    BY <1>a DEF Greet
  <2>3. conn[c].hand = NoCommand /\ conn[c].toShim = <<>>
    BY <2>2 DEF FreshConns
  <2> HIDE DEF r
  <2>4. Ended(c, r) \in ConnRecord /\ Ended(c, r).peer = r.peer /\ Ended(c, r).toClient = r.toClient
        /\ Ended(c, r).link = "shut" /\ Ended(c, r).toShim = <<>> /\ Ended(c, r).hand = NoCommand
    BY <1>2, <2>1
  <2>5. /\ conn' \in [Conns -> ConnRecord] /\ conn'[c] = Ended(c, r) /\ conn'[c].peer = conn[c].peer
        /\ Others(c)
    BY <1>1, <2>1, <2>2, <2>4
  <2>6. Greets(c)
    BY <2>2, <2>3, <2>4, <2>5 DEF Greets, Gets, r
  <2> QED
    BY <2>2, <2>4, <2>5, <2>6
<1>b. CASE Greet(c) /\ ~(owner # conn[c].peer /\ OwnerAlive)
  <2> DEFINE r == Replied(c, Reply("ok", lastSeq))
             e == [r EXCEPT !.link = "open"]
  <2>1. r \in ConnRecord /\ r.peer = conn[c].peer /\ r.toShim = conn[c].toShim /\ r.hand = conn[c].hand
    BY <1>0, <1>6, RepliedConn
  <2>2. /\ conn' = [d \in Conns |-> IF d = c THEN e
                                   ELSE IF d = ownerConn THEN [conn[d] EXCEPT !.link = "cut"]
                                   ELSE conn[d]]
        /\ owner' = conn[c].peer /\ ownerConn' = c /\ conn[c].link = "hello"
        /\ UNCHANGED <<client, lastSeq, writer, stdinClosed, stdin, callerVars>>
    BY <1>b DEF Greet
  <2> HIDE DEF r
  <2>3. e \in ConnRecord /\ e.peer = conn[c].peer /\ e.toShim = conn[c].toShim /\ e.hand = conn[c].hand
        /\ e.link = "open" /\ e.toClient = r.toClient
    BY <2>1 DEF ConnRecord
  <2> HIDE DEF e
  <2>4. conn' \in [Conns -> ConnRecord]
    BY <1>0, <2>2, <2>3 DEF ConnRecord
  <2>5. Others(c)
    <3> SUFFICES ASSUME NEW d \in Conns, d # c
                 PROVE  /\ conn'[d].peer = conn[d].peer /\ conn'[d].hand = conn[d].hand
                        /\ conn'[d].toShim = conn[d].toShim /\ conn'[d].toClient = conn[d].toClient
                        /\ conn'[d] = conn[d] \/ (d = ownerConn /\ conn'[d].link = "cut" /\ ownerConn' = c)
      BY DEF Others
    <3>1. conn[d] \in ConnRecord
      BY <1>0
    <3>2. conn'[d] = IF d = ownerConn THEN [conn[d] EXCEPT !.link = "cut"] ELSE conn[d]
      BY <2>2
    <3> QED
      BY <2>2, <3>1, <3>2 DEF ConnRecord
  <2>6. conn'[c] = e
    BY <2>2
  <2>7. Greets(c)
    BY <1>b, <2>2, <2>3, <2>6 DEF Greets, Gets, r, OwnerAlive
  <2> QED
    BY <2>2, <2>3, <2>4, <2>5, <2>6, <2>7
<1>c. CASE Take(c)
  <2> DEFINE q == conn[c].toShim
             r == [conn[c] EXCEPT !.hand = Head(q), !.toShim = Tail(q)]
  <2>1. Head(q) \in Commands /\ Tail(q) \in Seq(Commands)
    BY <1>0, <1>c, HeadTailProperties DEF Take, ConnRecord
  <2>2. conn' = [conn EXCEPT ![c] = r]
    BY <1>0, <1>c DEF Take, ConnRecord
  <2>3. r \in ConnRecord /\ r.peer = conn[c].peer /\ r.hand = Head(q) /\ r.toShim = Tail(q)
        /\ r.toClient = conn[c].toClient /\ r.link = conn[c].link
    BY <1>0, <2>1 DEF ConnRecord
  <2> HIDE DEF r
  <2>4. /\ conn' \in [Conns -> ConnRecord] /\ conn'[c] = r /\ conn'[c].peer = conn[c].peer
        /\ Others(c)
    BY <1>1, <2>2, <2>3
  <2> QED
    BY <1>c, <2>3, <2>4 DEF Take, Takes, Handling
<1>d. CASE Leave(c)
  <2>1. HandlerEnds(c) /\ conn[c].link \notin {"unused", "hello"} /\ UNCHANGED <<writer, stdin>>
        /\ conn[c].hand = NoCommand
    BY <1>d DEF Leave, Handling
  <2> QED
    BY <1>3, <2>1 DEF Ends, HandlerEnds
<1>e. CASE Displaced(c)
  <2>1. HandlerEnds(c) /\ conn[c].link \notin {"unused", "hello"} /\ UNCHANGED <<writer, stdin>>
        /\ writer = NoConn
    BY <1>4, <1>e DEF Displaced, AtLock
  <2> QED
    BY <1>3, <2>1 DEF Ends, HandlerEnds
<1>f. CASE Admit(c)
  BY <1>0, <1>4, <1>f DEF Admit, AtLock, Others
<1>g. CASE Decline(c)
  <2> DEFINE seq == conn[c].hand.seq
  <2>1. /\ AtLock(c) /\ ownerConn = c /\ conn[c].hand # NoCommand /\ seq \in Nat
        /\ UNCHANGED <<client, shimVars, callerVars>>
    BY <1>7, <1>g DEF Decline, AtLock
  <2>2. PICK answer \in {Reply("ack", seq), Reply("gap", lastSeq + 1), Reply("closed", 0)} :
           /\ conn' = [conn EXCEPT ![c] = [Replied(c, answer) EXCEPT !.hand = NoCommand]]
           /\ answer = Reply("ack", seq) => seq <= lastSeq
    <3>1. Reply("ack", seq) # Reply("gap", lastSeq + 1) /\ Reply("ack", seq) # Reply("closed", 0)
      BY DEF Reply
    <3> QED
      BY <1>g, <3>1 DEF Decline
  <2>3. answer \in Replies
    BY <1>0, <1>6, <2>1
  <2>4. /\ Answering(c, answer) /\ conn' \in [Conns -> ConnRecord] /\ conn'[c].peer = conn[c].peer
        /\ Others(c)
    BY <1>5, <2>1, <2>2, <2>3
  <2>5. Declines(c)
    BY <2>1, <2>2, <2>4 DEF Declines
  <2> QED
    BY <1>4, <2>1, <2>4, <2>5 DEF Answering
<1>h. CASE Write(c) /\ owner = conn[c].peer
  <2> DEFINE answer == Reply("ack", conn[c].hand.seq)
  <2>1. /\ writer = c /\ conn[c].hand # NoCommand /\ answer \in Replies
    BY <1>6, <1>7, <1>8, <1>h DEF Write
  <2>2. /\ stdin' = Append(stdin, conn[c].hand.line) /\ writer' = NoConn
        /\ lastSeq' = conn[c].hand.seq
        /\ conn' = [conn EXCEPT ![c] = [Replied(c, answer) EXCEPT !.hand = NoCommand]]
        /\ UNCHANGED <<client, owner, ownerConn, stdinClosed, callerVars>>
    BY <1>h DEF Write, Given, Counted
  <2> HIDE DEF answer
  <2>3. /\ Answering(c, answer) /\ conn' \in [Conns -> ConnRecord] /\ conn'[c].peer = conn[c].peer
        /\ Others(c)
    BY <1>5, <2>1, <2>2
  <2>4. Writes(c)
    BY <1>h, <2>1, <2>2, <2>3 DEF Writes, answer
  <2> QED
    BY <1>4, <2>1, <2>2, <2>3, <2>4 DEF Answering
<1>i. CASE Write(c) /\ owner # conn[c].peer
  <2>1. /\ writer = c /\ conn[c].hand # NoCommand /\ HandlerEnds(c)
        /\ stdin' = Append(stdin, conn[c].hand.line) /\ writer' = NoConn
    BY <1>8, <1>i DEF Write, Given
  <2>2. /\ Ends(c) /\ conn' \in [Conns -> ConnRecord] /\ conn'[c].peer = conn[c].peer
        /\ Others(c)
        /\ UNCHANGED <<client, callerVars, stdinClosed>>
    BY <1>3, <1>4, <2>1
  <2>3. Writes(c)
    BY <1>i, <2>1, <2>2 DEF Writes
  <2> QED
    BY <1>4, <2>1, <2>2, <2>3 DEF Ends
<1>j. CASE WriteFails(c)
  <2> DEFINE answer == Reply("closed", 0)
  <2>1. /\ writer = c /\ conn[c].hand # NoCommand /\ answer \in Replies
    BY <1>6, <1>8, <1>j DEF WriteFails
  <2>2. /\ writer' = NoConn /\ stdinClosed' = TRUE
        /\ conn' = [conn EXCEPT ![c] = [Replied(c, answer) EXCEPT !.hand = NoCommand]]
        /\ UNCHANGED <<client, owner, ownerConn, lastSeq, stdin, callerVars>>
    BY <1>j DEF WriteFails
  <2> HIDE DEF answer
  <2>3. /\ Answering(c, answer) /\ conn' \in [Conns -> ConnRecord] /\ conn'[c].peer = conn[c].peer
        /\ Others(c)
    BY <1>5, <2>1, <2>2
  <2>4. Loses(c)
    BY <2>1, <2>2, <2>3 DEF Loses, answer
  <2> QED
    BY <1>4, <2>1, <2>2, <2>3, <2>4 DEF Answering
<1> QED
  BY <1>a, <1>b, <1>c, <1>d, <1>e, <1>f, <1>g, <1>h, <1>i, <1>j DEF ShimStep, Write

\* A reply adds one answer at most.
LEMMA GetsOne ==
    ASSUME Wired, NEW c \in Conns, NEW answer \in Replies, Gets(c, answer)
    PROVE  /\ \A a \in Answers(c)' : a \in Answers(c) \cup {answer}
           /\ Len(conn'[c].toClient) <= Len(conn[c].toClient) + 1
           /\ HungUp(c) => conn'[c].toClient = conn[c].toClient
<1> DEFINE q == Replied(c, answer).toClient
<1>1. /\ \A i \in 1..Len(q) : q[i] \in Answers(c) \cup {answer}
      /\ Len(q) \in {Len(conn[c].toClient), Len(conn[c].toClient) + 1}
      /\ HungUp(c) => q = conn[c].toClient
  BY WiredTypes, RepliedConn
<1>2. conn'[c].toClient = q
  BY DEF Gets
<1>3. Len(conn[c].toClient) \in Nat
  BY WiredTypes, LenProperties DEF ConnRecord
<1> HIDE DEF q
<1> QED
  BY <1>1, <1>2, <1>3 DEF Answers

\* what the shim may have to say to a client in a step
Sayings == {a \in Replies : a.kind = "gap" => a.n > 0}

\* The shim keeps the wiring.
LEMMA ShimWired ==
    ASSUME Wired, NEW c \in Conns, ShimStep(c)
    PROVE  Wired'
<1>0. /\ conn \in [Conns -> ConnRecord] /\ lastSeq \in Nat /\ conn[c] \in ConnRecord
      /\ owner \in Servers /\ ownerConn \in Conns \cup {NoConn} /\ writer \in Conns \cup {NoConn}
      /\ stdin \in Seq(Lines) /\ lastSeq \in 0..Len(stdin)
      /\ WriterInv /\ OwnerIsOpen /\ FreshConns /\ NoConn \notin Conns
  BY WiredTypes, ChannelAssumption
<1> USE <1>0
<1>1. \A n \in Nat : /\ Reply("ok", n) \in Sayings /\ Reply("refused", n) \in Sayings
                     /\ Reply("ack", n) \in Sayings /\ Reply("closed", n) \in Sayings
                     /\ Reply("gap", n + 1) \in Sayings
  BY DEF Reply, Replies, Sayings
<1>2. conn[c].hand # NoCommand => conn[c].hand \in Commands /\ conn[c].hand.seq \in Nat /\ conn[c].hand.line \in Lines
  BY <1>0 DEF ConnRecord, Commands
<1>3. /\ conn' \in [Conns -> ConnRecord] /\ conn'[c].peer = conn[c].peer
      /\ UNCHANGED <<client, callerVars>> /\ stdinClosed' \in BOOLEAN
      /\ Others(c)
      /\ conn[c].link # "unused" /\ conn'[c].link \notin {"unused", "hello"}
  BY ShimMoves
<1>4. conn[c].link \in {"unused", "hello"} => conn[c].hand = NoCommand
  BY DEF FreshConns
<1>5. \/ Greets(c)
      \/ Handling(c) /\ ownerConn = c /\ Takes(c)
      \/ Ends(c) /\ UNCHANGED <<writer, stdin>> /\ (writer = NoConn \/ conn[c].hand = NoCommand)
      \/ /\ UNCHANGED <<conn, owner, ownerConn, lastSeq, stdin>> /\ writer' = c /\ ownerConn = c
         /\ AtLock(c) /\ InTurn(c)
      \/ ownerConn = c /\ Declines(c)
      \/ Writes(c)
      \/ Loses(c)
  BY ShimMoves
<1>6. \A a \in Answers(c)' : a \in Answers(c) \cup Sayings
  <2>1. ASSUME NEW answer \in Sayings, Gets(c, answer)
        PROVE  \A a \in Answers(c)' : a \in Answers(c) \cup Sayings
    BY <2>1, GetsOne DEF Sayings
  <2>2. conn'[c].toClient = conn[c].toClient => \A a \in Answers(c)' : a \in Answers(c) \cup Sayings
    BY DEF Answers
  <2>3. writer = c => conn[c].hand # NoCommand
    BY DEF WriterInv
  <2> QED
    BY <1>0, <1>1, <1>2, <1>5, <2>1, <2>2, <2>3
    DEF Greets, Takes, Ends, Answering, Declines, Writes, Loses
<1>7. \A d \in Conns : ShimLeaves(d, Sayings)
  <2>1. ShimLeaves(c, Sayings)
    BY <1>3, <1>6 DEF ShimLeaves
  <2>2. ASSUME NEW d \in Conns, d # c PROVE ShimLeaves(d, Sayings)
    <3>1. \A a \in Answers(d)' : a \in Answers(d)
      BY <1>3, <2>2 DEF Answers, Others
    <3>2. conn'[d] = conn[d] \/ (conn[d].link = "open" /\ conn'[d].link = "cut")
      BY <1>3, <2>2 DEF OwnerIsOpen, Others
    <3>3. conn'[d].peer = conn[d].peer
      BY <1>3, <2>2 DEF Others
    <3> QED
      BY <3>1, <3>2, <3>3 DEF ShimLeaves
  <2> QED
    BY <2>1, <2>2
<1>8. WriterInv'
  <2> SUFFICES ASSUME writer' # NoConn
               PROVE  conn'[writer'].hand # NoCommand /\ conn'[writer'].hand.seq = lastSeq' + 1
    BY DEF WriterInv
  <2>0. writer # NoConn /\ writer # c => conn'[writer].hand = conn[writer].hand
    BY <1>3 DEF Others
  <2>1. CASE Greets(c) \/ Takes(c) \/ Declines(c)
    <3>1. writer' = writer /\ lastSeq' = lastSeq /\ writer # c
      BY <1>4, <2>1 DEF Greets, Takes, Declines, AtLock, WriterInv
    <3> QED
      BY <2>0, <3>1 DEF WriterInv
  <2>2. CASE Ends(c) /\ UNCHANGED <<writer, stdin>> /\ (writer = NoConn \/ conn[c].hand = NoCommand)
    <3>1. writer' = writer /\ lastSeq' = lastSeq /\ writer # c
      BY <2>2 DEF Ends, WriterInv
    <3> QED
      BY <2>0, <3>1 DEF WriterInv
  <2>3. CASE UNCHANGED <<conn, lastSeq>> /\ writer' = c /\ AtLock(c) /\ InTurn(c)
    BY <2>3 DEF AtLock, InTurn
  <2> QED
    BY <1>5, <2>1, <2>2, <2>3 DEF Writes, Loses
<1>9. stdin' \in Seq(Lines) /\ lastSeq' \in 0..Len(stdin')
  <2>1. CASE UNCHANGED <<stdin, lastSeq>>
    BY <2>1
  <2>2. CASE Writes(c)
    <3> DEFINE line == conn[c].hand.line
    <3>1. conn[c].hand # NoCommand /\ conn[c].hand.seq = lastSeq + 1 /\ line \in Lines
      BY <1>2, <2>2 DEF Writes, WriterInv
    <3>2. lastSeq' \in {lastSeq, lastSeq + 1} /\ stdin' = Append(stdin, line)
      BY <2>2, <3>1 DEF Writes, Ends
    <3> HIDE DEF line
    <3>3. stdin' \in Seq(Lines) /\ Len(stdin') = Len(stdin) + 1 /\ Len(stdin) \in Nat
      BY <3>1, <3>2, AppendProperties, LenProperties
    <3> QED
      BY <1>0, <3>2, <3>3
  <2> QED
    BY <1>5, <2>1, <2>2 DEF Greets, Takes, Ends, Declines, Loses
<1>10. owner' \in Servers /\ ownerConn' \in Conns \cup {NoConn} /\ writer' \in Conns \cup {NoConn}
  <2>1. conn[c].peer \in Servers
    BY <1>0 DEF ConnRecord
  <2> QED
    BY <1>5, <2>1 DEF Greets, Takes, Ends, Declines, Writes, Loses, Answering
<1>11. OwnerIsOpen'
  <2> SUFFICES ASSUME ownerConn' # NoConn
               PROVE  conn'[ownerConn'].link = "open" /\ conn'[ownerConn'].peer = owner'
    BY DEF OwnerIsOpen
  <2>1. CASE ownerConn' = c /\ owner' = conn[c].peer /\ conn'[c].link = "open"
    BY <1>3, <2>1
  <2>2. CASE ownerConn' = ownerConn /\ owner' = owner /\ ownerConn # c
    <3>1. ownerConn # NoConn /\ ownerConn' # c
      BY <2>2
    <3> QED
      BY <1>3, <2>2, <3>1 DEF OwnerIsOpen, Others
  <2>3. CASE ownerConn' = ownerConn /\ owner' = owner /\ ownerConn = c /\ conn'[c].link = conn[c].link
    BY <1>3, <2>3 DEF OwnerIsOpen
  <2>4. conn[c].link = "hello" => ownerConn # c
    BY DEF OwnerIsOpen
  <2> QED
    BY <1>5, <2>1, <2>2, <2>3, <2>4 DEF Greets, Takes, Ends, Declines, Writes, Loses, Answering
<1> QED
  BY <1>3, <1>7, <1>8, <1>9, <1>10, <1>11, ShimKeepsWired DEF Sayings

\* Every step keeps the wiring.
LEMMA NextWired == Wired /\ [Next]_vars => Wired'
<1> SUFFICES ASSUME Wired, [Next]_vars PROVE Wired'
  OBVIOUS
<1>1. CASE \E s \in Servers : ServerStep(s)
  BY <1>1, ServerWired
<1>2. CASE \E c \in Conns : ShimStep(c)
  BY <1>2, ShimWired
<1>3. CASE UNCHANGED <<client, conn, owner, ownerConn, lastSeq, writer, stdin, verdict, breaks>>
           /\ stdinClosed' \in BOOLEAN
  <2>1. TypeInv'
    BY <1>3, WiredTypes DEF TypeInv, TypeOK, ConnRecord
  <2>2. FreshConns' /\ ClientsConnect' /\ WriterInv' /\ OwnerIsOpen'
    BY <1>3, WiredTypes DEF FreshConns, ClientsConnect, Connects, WriterInv, OwnerIsOpen
  <2>3. GapsArePositive'
    BY <1>3, WiredTypes DEF GapsArePositive, Answers
  <2> QED
    BY <2>1, <2>2, <2>3 DEF Wired
<1>4. stdinClosed \in BOOLEAN
  BY WiredTypes
<1> QED
  BY <1>1, <1>2, <1>3, <1>4 DEF Next, IdleClose

\* The wiring of clients, connections and the shim holds in every reachable state.
THEOREM WiredAlways == Spec => []Wired
<1>1. Init => Wired
  BY InitWired
<1>2. Wired /\ [Next]_vars => Wired'
  BY NextWired
<1> QED
  BY <1>1, <1>2, PTL DEF Spec

\* Every variable keeps its type, for any number of servers, connections and
\* lines: a client's record, both queues of a connection, and a sequence number
\* of the shim that never passes the number of lines it wrote.
THEOREM ChannelTypeCorrect == Spec => []TypeOK
<1>1. Wired => TypeOK
  BY DEF Wired, TypeInv
<1> QED
  BY <1>1, WiredAlways, PTL
=============================================================================
