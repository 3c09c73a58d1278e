----------------------------- MODULE HttpServer -----------------------------
(***************************************************************************)
(* The TCP acceptor and the HTTP server on top of it                       *)
(* (src/classes/net/tcp/acceptor.cpp, src/classes/net/http/*.cpp).         *)
(*                                                                         *)
(* The server keeps one accept outstanding per listen().  A plain acceptor *)
(* gives an accepted socket to the program as it is.  An HTTP server makes *)
(* a Connection object for it with a Request (a parser and a promise)      *)
(* and a Response.  Attached, the request listens to the connection's      *)
(* "data" event and resumes the connection: a chain of receives, as in     *)
(* SocketSource, that schedules one task per chunk.  The promise settles   *)
(* when a task has parsed the header, and only then does the program see   *)
(* the connection.  When the response is complete the socket is closed or, *)
(* with keep-alive, handed to a new Connection object; the receive of the  *)
(* old one stays where it is, first in the socket's queue.                 *)
(*                                                                         *)
(* A chunk is <<request, part>>: a client sends "get" (a header without a  *)
(* body), or "post" and then "body", or a header torn into "torn" and      *)
(* "rest".  The parser (Boost.Beast) is external: Parse says what one put  *)
(* of a chunk does.                                                        *)
(***************************************************************************)
EXTENDS Naturals, Sequences, FiniteSets, SequencesExt

CONSTANTS
  Protocols,    \* the servers explored, of "tcp" (an Acceptor) and "http"
  Sockets,      \* the peers that may connect
  MaxConns,     \* bound: Connection objects
  MaxRequests,  \* bound: requests per socket
  MaxSent,      \* bound: chunks a client sends
  MaxChunks,    \* bound: chunks written per response
  MaxListens,   \* bound: calls of listen()
  MaxErrors,    \* bound: accepts that fail
  MaxSets,      \* bound: calls of set() and status()
  Parts         \* the first chunks a client may send, of "get" "post" "torn"

ASSUME HttpBounds == {MaxConns, MaxRequests, MaxSent, MaxChunks, MaxListens, MaxErrors, MaxSets} \subseteq Nat
ASSUME ProtocolsAssumption == Protocols \subseteq {"tcp", "http"}
ASSUME PartsAssumption == Parts \subseteq {"get", "post", "torn"}

VARIABLES
  protocol,   \* of the server
  acceptor,   \* "closed", "open" (bind failed after open) or "bound"
  listens,    \* listen() calls that succeeded
  accepts,    \* outstanding async_accepts
  errors,     \* accepts that failed
  sock,       \* socket -> "idle" "waiting" (in the backlog) "open" "closed"
  peer,       \* socket -> "up", or "gone" once the client has closed its side
  sent,       \* socket -> the chunks the client has sent
  inbox,      \* socket -> the chunks no receive has taken
  receives,   \* socket -> the connections with an outstanding receive, in order
  wire,       \* socket -> the server's sends: <<connection, item, message, size>>
  conn,       \* number -> Connection object
  created,    \* number of Connection objects
  sets,       \* number of calls of set() and status()
  tasks       \* scheduled listeners: <<connection, chunk or ErrorEvent>>

listener == <<protocol, acceptor, listens, accepts, errors>>
client == <<sent, sets>>
vars == <<listener, sock, peer, client, inbox, receives, wire, conn, created, tasks>>

Conns == 1..MaxConns
Live == 1..created
Chunk == (1..MaxRequests) \X {"get", "post", "body", "torn", "rest"}
ErrorEvent == <<0, "error">>

(* A Connection object with its Request and Response.                      *)
NewConn(s) ==
  [sock |-> s, chain |-> "new", held |-> <<>>, parser |-> "header", seen |-> {},
   header |-> <<>>, keepAlive |-> FALSE, promise |-> "pending", shown |-> "none",
   ends |-> <<>>, myRes |-> {}, myStatus |-> 200,
   onError |-> "armed", headersSent |-> FALSE, writing |-> FALSE, self |-> "set"]

NoConn == [NewConn("none") EXCEPT !.chain = "none"]

Init ==
  /\ protocol \in Protocols
  /\ acceptor = "closed" /\ listens = 0 /\ accepts = 0 /\ errors = 0
  /\ sock = [s \in Sockets |-> "idle"]
  /\ peer = [s \in Sockets |-> "up"]
  /\ sent = [s \in Sockets |-> <<>>]
  /\ inbox = [s \in Sockets |-> <<>>]
  /\ receives = [s \in Sockets |-> <<>>]
  /\ wire = [s \in Sockets |-> <<>>]
  /\ conn = [c \in Conns |-> NoConn]
  /\ created = 0 /\ sets = 0
  /\ tasks = {}

-----------------------------------------------------------------------------
(* The acceptor. *)

(* bind() opens the acceptor first; what it opened stays open when the     *)
(* address cannot be bound.                                                *)
BindOutcomes == IF acceptor = "bound" THEN {"bound"} ELSE {"open", "bound"}

Bind ==
  /\ acceptor' \in BindOutcomes \ {acceptor}
  /\ UNCHANGED <<protocol, listens, accepts, errors, sock, peer, client, inbox, receives, wire, conn, created, tasks>>

(* One accept more is outstanding; every accept begins the next. *)
BeginAccept == accepts' = accepts + 1

(* listen() starts a chain of accepts of its own at every call. *)
Listen ==
  /\ acceptor # "closed"
  /\ listens < MaxListens
  /\ listens' = listens + 1
  /\ BeginAccept
  /\ UNCHANGED <<protocol, acceptor, errors, sock, peer, client, inbox, receives, wire, conn, created, tasks>>

(* The server wraps the socket and starts the connection. *)
Wrap(s) ==
  /\ created < MaxConns
  /\ created' = created + 1
  /\ conn' = [conn EXCEPT ![created + 1] = NewConn(s)]

(* handleAccept() without an error: the next accept is begun first.        *)
Accept(s) ==
  /\ accepts > 0 /\ protocol = "http"
  /\ sock[s] = "waiting"
  /\ sock' = [sock EXCEPT ![s] = "open"]
  /\ Wrap(s)
  /\ UNCHANGED <<listener, peer, client, inbox, receives, wire, tasks>>

(* handleAccept() of a plain acceptor: the socket is wrapped and the       *)
(* "connection" listener scheduled, which Present runs.  Nobody reads from *)
(* the socket until the program does (SocketSource).                       *)
AcceptPlain(s) ==
  /\ accepts > 0 /\ protocol = "tcp"
  /\ sock[s] = "waiting"
  /\ sock' = [sock EXCEPT ![s] = "open"]
  /\ created < MaxConns
  /\ created' = created + 1
  /\ conn' = [conn EXCEPT ![created + 1] = [NewConn(s) EXCEPT !.chain = "plain", !.promise = "resolved"]]
  /\ UNCHANGED <<listener, peer, client, inbox, receives, wire, tasks>>

(* handleAccept() with an error: an ignored one or an "error" event.  The  *)
(* next accept has been begun all the same and the peer is lost.           *)
AcceptError(s) ==
  /\ accepts > 0
  /\ sock[s] = "waiting"
  /\ errors < MaxErrors
  /\ errors' = errors + 1
  /\ sock' = [sock EXCEPT ![s] = "closed"]
  /\ UNCHANGED <<protocol, acceptor, listens, accepts, peer, client, inbox, receives, wire, conn, created, tasks>>

-----------------------------------------------------------------------------
(* The client. *)

Connect(s) ==
  /\ listens > 0
  /\ sock[s] = "idle"
  /\ sock' = [sock EXCEPT ![s] = "waiting"]
  /\ UNCHANGED <<listener, peer, client, inbox, receives, wire, conn, created, tasks>>

(* What may follow the chunks q: the rest of a request or a new one.       *)
NextChunks(q) ==
  LET r == IF q = <<>> THEN 0 ELSE Last(q)[1]
  IN  IF q # <<>> /\ Last(q)[2] = "post" THEN {<<r, "body">>}
      ELSE IF q # <<>> /\ Last(q)[2] = "torn" THEN {<<r, "rest">>}
      ELSE {<<r + 1, p>> : p \in Parts}

Arrive(s, chunk) ==
  /\ sock[s] \in {"waiting", "open"}
  /\ peer[s] = "up"
  /\ chunk \in NextChunks(sent[s])
  /\ chunk[1] <= MaxRequests /\ Len(sent[s]) < MaxSent
  /\ sent' = [sent EXCEPT ![s] = Append(@, chunk)] /\ UNCHANGED sets
  /\ inbox' = [inbox EXCEPT ![s] = Append(@, chunk)]
  /\ UNCHANGED <<listener, sock, peer, receives, wire, conn, created, tasks>>

PeerCloses(s) ==
  /\ sock[s] \in {"waiting", "open"}
  /\ peer[s] = "up"
  /\ peer' = [peer EXCEPT ![s] = "gone"]
  /\ UNCHANGED <<listener, sock, client, inbox, receives, wire, conn, created, tasks>>

-----------------------------------------------------------------------------
(* The connection's chain of receives. *)

(* A chain that has nothing in its hands posts a receive, or ends when the *)
(* socket is closed.                                                       *)
PostReceive(c) ==
  LET s == conn[c].sock
  IN  receives' = IF sock[s] = "open" THEN [receives EXCEPT ![s] = Append(@, c)] ELSE receives

Posted(c) == IF sock[conn[c].sock] = "open" THEN "receive" ELSE "ended"

(* Mutant: the connection is not resumed. *)
AttachUnread(c) ==
  /\ conn[c].chain = "new"
  /\ conn' = [conn EXCEPT ![c].chain = Posted(c)]
  /\ UNCHANGED <<listener, sock, peer, client, inbox, receives, wire, created, tasks>>

(* start() resolves a promise first, so that attach() is a later job: it   *)
(* adds the listeners and resumes the connection, which posts a receive.   *)
Attach(c) ==
  /\ conn[c].chain = "new"
  /\ conn' = [conn EXCEPT ![c].chain = Posted(c)]
  /\ PostReceive(c)
  /\ UNCHANGED <<listener, sock, peer, client, inbox, wire, created, tasks>>

(* The first outstanding receive of a socket completes with what is there. *)
Receive(s) ==
  /\ sock[s] = "open" /\ receives[s] # <<>> /\ inbox[s] # <<>>
  /\ LET c == Head(receives[s])
     IN  conn' = [conn EXCEPT ![c].chain = "handling", ![c].held = <<Head(inbox[s])>>]
  /\ receives' = [receives EXCEPT ![s] = Tail(@)]
  /\ inbox' = [inbox EXCEPT ![s] = Tail(@)]
  /\ UNCHANGED <<listener, sock, peer, client, wire, created, tasks>>

(* It completes with end of file: "error" is emitted, the chain ends.      *)
EndOfFile(s) ==
  /\ sock[s] = "open" /\ receives[s] # <<>> /\ inbox[s] = <<>> /\ peer[s] = "gone"
  /\ LET c == Head(receives[s])
     IN  /\ conn' = [conn EXCEPT ![c].chain = "ended", ![c].onError = "fired"]
         /\ tasks' = IF conn[c].onError = "armed" THEN tasks \cup {<<c, ErrorEvent>>} ELSE tasks
  /\ receives' = [receives EXCEPT ![s] = Tail(@)]
  /\ UNCHANGED <<listener, sock, peer, client, inbox, wire, created>>

(* Mutant: the buffer stays with the handler. *)
HandleAndHold(c) ==
  /\ conn[c].chain = "handling"
  /\ tasks' = tasks \cup {<<c, Head(conn[c].held)>>}
  /\ PostReceive(c)
  /\ conn' = [conn EXCEPT ![c].chain = Posted(c)]
  /\ UNCHANGED <<listener, sock, peer, client, inbox, wire, created>>

(* The handler schedules the listener with the chunk and posts the next    *)
(* receive; on a closed socket the chain ends.                             *)
Handle(c) ==
  /\ conn[c].chain = "handling"
  /\ tasks' = tasks \cup {<<c, Head(conn[c].held)>>}
  /\ PostReceive(c)
  /\ conn' = [conn EXCEPT ![c].chain = Posted(c), ![c].held = <<>>]
  /\ UNCHANGED <<listener, sock, peer, client, inbox, wire, created>>

-----------------------------------------------------------------------------
(* The request. *)

(* One put of a chunk into the parser: the state after it and whether it   *)
(* reports an error.  A torn header is need_more and its bytes are not     *)
(* offered again; a complete parser ignores what it is given.              *)
Parse(state, part) ==
  CASE state = "header" /\ part = "get" -> <<"done", FALSE>>
    [] state = "header" /\ part = "post" -> <<"body", FALSE>>
    [] state = "header" /\ part \in {"body", "torn", "rest"} -> <<"header", TRUE>>
    [] state \in {"body", "done"} -> <<"done", FALSE>>

(* Two tasks of one connection may be inside the parser at once: what is   *)
(* then parsed may also be garbage.                                        *)
Outcomes(c, chunk) ==
  {Parse(conn[c].parser, chunk[2])} \cup
    (IF \E t \in tasks : t[1] = c /\ t[2] \notin {ErrorEvent, chunk}
     THEN {<<conn[c].parser, TRUE>>} ELSE {})

(* The first settlement of the promise counts. *)
Settle(k, how) == IF k.promise = "pending" THEN [k EXCEPT !.promise = how] ELSE k

(* The connection after the header of request r has been parsed.  Setting  *)
(* the keep-alive option of a socket that was closed meanwhile throws.     *)
HeaderDone(k, r, keep) ==
  Settle([k EXCEPT !.header = <<r>>, !.keepAlive = keep],
         IF keep /\ sock[k.sock] # "open" THEN "rejected" ELSE "resolved")

(* Mutant: a parse error before the header is not reported. *)
DataUnreported(c, chunk, keep) ==
  /\ <<c, chunk>> \in tasks
  /\ tasks' = tasks \ {<<c, chunk>>}
  /\ \E o \in Outcomes(c, chunk) :
       LET k == [conn[c] EXCEPT !.parser = o[1], !.seen = @ \cup {chunk}]
           first == k.header = <<>>
           k2 == IF first /\ o[1] # "header" THEN HeaderDone(k, chunk[1], keep) ELSE k
       IN  conn' = [conn EXCEPT ![c] =
             IF ~ (first /\ o[2]) /\ o[1] = "done" THEN [k2 EXCEPT !.ends = Append(@, chunk)] ELSE k2]
  /\ UNCHANGED <<listener, sock, peer, client, inbox, receives, wire, created>>

(* The listener of the connection's "data" event.  An error before the     *)
(* header rejects.  With the header the keep-alive flag is stored and the  *)
(* promise settled; "end" is emitted whenever the parser is complete.      *)
Data(c, chunk, keep) ==
  /\ <<c, chunk>> \in tasks
  /\ tasks' = tasks \ {<<c, chunk>>}
  /\ \E o \in Outcomes(c, chunk) :
       LET k == [conn[c] EXCEPT !.parser = o[1], !.seen = @ \cup {chunk}]
           first == k.header = <<>>
           k2 == IF first /\ o[1] # "header" THEN HeaderDone(k, chunk[1], keep) ELSE k
       IN  conn' = [conn EXCEPT ![c] =
             IF first /\ o[2] THEN Settle(k, "rejected")
             ELSE IF o[1] = "done" THEN [k2 EXCEPT !.ends = Append(@, chunk)] ELSE k2]
  /\ UNCHANGED <<listener, sock, peer, client, inbox, receives, wire, created>>

(* The once-listener of the connection's "error" event. *)
Error(c) ==
  /\ <<c, ErrorEvent>> \in tasks
  /\ tasks' = tasks \ {<<c, ErrorEvent>>}
  /\ conn' = [conn EXCEPT ![c] = Settle(@, "rejected")]
  /\ UNCHANGED <<listener, sock, peer, client, inbox, receives, wire, created>>

(* The reaction of the server to the connection's promise: "connection" or *)
(* "error" is emitted.                                                     *)
Present(c) ==
  /\ conn[c].promise # "pending"
  /\ conn[c].shown = "none"
  /\ conn' = [conn EXCEPT ![c].shown =
               IF conn[c].promise = "resolved" THEN "connection" ELSE "error"]
  /\ UNCHANGED <<listener, sock, peer, client, inbox, receives, wire, created, tasks>>

-----------------------------------------------------------------------------
(* The response, used by a program that awaits each of its writes, ends a  *)
(* response once, and does not send() what it has begun to write.          *)

(* What is sent reaches the client while it is there.  A chunk is written  *)
(* until all of it is taken.  A header and a whole response go through     *)
(* write_some(), one send that may take a part only: it reports the whole, *)
(* and the rest is never sent.                                             *)
Deliver(c, items) ==
  LET s == conn[c].sock
  IN  \E size \in [1..Len(items) -> {"full", "short"}] :
        /\ \A i \in 1..Len(items) : size[i] = "short" => items[i] \in {"header", "whole"}
        /\ wire' = [wire EXCEPT ![s] = IF sock[s] = "open" /\ peer[s] = "up"
             THEN @ \o [i \in 1..Len(items) |-> <<c, items[i], conn[c].myRes, size[i]>>] ELSE @]

Header(c) == IF conn[c].headersSent THEN <<>> ELSE <<"header">>

Usable(c) == c \in Live /\ protocol = "http" /\ conn[c].shown = "connection" /\ conn[c].self = "set"

(* The socket is closed: its outstanding receives are cancelled.           *)
CloseSocket(c, k) ==
  LET s == conn[c].sock
  IN  /\ sock' = [sock EXCEPT ![s] = "closed"]
      /\ receives' = [receives EXCEPT ![s] = <<>>]
      /\ conn' = [d \in Conns |->
           LET e == IF d = c THEN k ELSE conn[d]
           IN  IF d \in Live /\ e.sock = s /\ e.chain = "receive" THEN [e EXCEPT !.chain = "ended"] ELSE e]
      /\ UNCHANGED created

(* notifyCompleted(): close, or hand the socket to a new connection.       *)
Completed(c) ==
  LET k == [conn[c] EXCEPT !.headersSent = TRUE, !.self = "cleared"]
  IN  \/ /\ ~ k.keepAlive
         /\ CloseSocket(c, k)
      \/ /\ k.keepAlive /\ sock[k.sock] = "open"
         /\ created < MaxConns
         /\ created' = created + 1
         /\ conn' = [conn EXCEPT ![c] = k, ![created + 1] = NewConn(k.sock)]
         /\ UNCHANGED <<sock, receives>>
      \/ /\ k.keepAlive /\ sock[k.sock] # "open"
         /\ conn' = [conn EXCEPT ![c] = k]
         /\ UNCHANGED <<sock, receives, created>>

(* set and status throw when the headers have been sent.                   *)
HeadersOpen(c) == ~ conn[c].headersSent

(* set(name, value) changes the message that will be sent.                 *)
Set(c) ==
  /\ Usable(c) /\ sets < MaxSets /\ HeadersOpen(c)
  /\ sets' = sets + 1
  /\ conn' = [conn EXCEPT ![c].myRes = @ \cup {sets}]
  /\ UNCHANGED <<listener, sock, peer, sent, inbox, receives, wire, created, tasks>>

(* status(code) is kept beside the message.                                *)
Status(c) ==
  /\ Usable(c) /\ sets < MaxSets /\ HeadersOpen(c)
  /\ sets' = sets + 1
  /\ conn' = [conn EXCEPT ![c].myStatus = 404]
  /\ UNCHANGED <<listener, sock, peer, sent, inbox, receives, wire, created, tasks>>

(* write(buffer) is a task of the pool: WriteTask.                         *)
Write(c) ==
  /\ Usable(c) /\ ~ conn[c].writing
  /\ Len(SelectSeq(wire[conn[c].sock], LAMBDA w : w[1] = c /\ w[2] = "chunk")) < MaxChunks
  /\ conn' = [conn EXCEPT ![c].writing = TRUE]
  /\ UNCHANGED <<listener, sock, peer, client, inbox, receives, wire, created, tasks>>

(* Mutant: every write sends the header. *)
WriteTaskBare(c) ==
  /\ conn[c].writing
  /\ IF sock[conn[c].sock] = "open"
     THEN /\ conn' = [conn EXCEPT ![c].writing = FALSE, ![c].headersSent = TRUE]
          /\ Deliver(c, <<"header", "chunk">>)
     ELSE /\ conn' = [conn EXCEPT ![c].writing = FALSE]
          /\ UNCHANGED wire
  /\ UNCHANGED <<listener, sock, peer, client, inbox, receives, created, tasks>>

(* deviceWrite() of a buffer sends the header first, once.  A write to a   *)
(* closed socket ends with nothing written.                                *)
WriteTask(c) ==
  /\ conn[c].writing
  /\ IF sock[conn[c].sock] = "open"
     THEN /\ conn' = [conn EXCEPT ![c].writing = FALSE, ![c].headersSent = TRUE]
          /\ Deliver(c, Append(Header(c), "chunk"))
     ELSE /\ conn' = [conn EXCEPT ![c].writing = FALSE]
          /\ UNCHANGED wire
  /\ UNCHANGED <<listener, sock, peer, client, inbox, receives, created, tasks>>

(* write(null) sends the last chunk at once, in the call.                  *)
EndWrite(c) ==
  /\ Usable(c) /\ ~ conn[c].writing
  /\ sock[conn[c].sock] = "open"
  /\ Deliver(c, Append(Header(c), "last"))
  /\ Completed(c)
  /\ UNCHANGED <<listener, peer, client, inbox, tasks>>

(* Its header could not be written: the call gives up before it completes. *)
EndWriteFails(c) ==
  /\ Usable(c) /\ ~ conn[c].writing /\ ~ conn[c].headersSent
  /\ sock[conn[c].sock] = "open" /\ peer[conn[c].sock] = "gone"
  /\ conn' = [conn EXCEPT ![c].headersSent = TRUE]
  /\ UNCHANGED <<listener, sock, peer, client, inbox, receives, wire, created, tasks>>

(* The whole response is written, then completed, error or not.            *)
WriteWhole(c) == Deliver(c, <<"whole">>) /\ Completed(c)

(* send() *)
Send(c) ==
  /\ Usable(c) /\ ~ conn[c].writing /\ ~ conn[c].headersSent
  /\ WriteWhole(c)
  /\ UNCHANGED <<listener, peer, client, inbox, tasks>>

(* close() of the connection object, also after its response has ended.    *)
CloseConnection(c) ==
  /\ c \in Live /\ conn[c].shown = "connection"
  /\ sock[conn[c].sock] = "open"
  /\ CloseSocket(c, conn[c])
  /\ UNCHANGED <<listener, peer, client, inbox, wire, tasks>>

-----------------------------------------------------------------------------
ServerStep(c) ==
  \/ Attach(c) \/ Handle(c) \/ Error(c) \/ Present(c) \/ WriteTask(c)
  \/ \E chunk \in Chunk, keep \in BOOLEAN : Data(c, chunk, keep)

ProgramStep(c) ==
  Set(c) \/ Status(c) \/ Write(c) \/ EndWrite(c) \/ EndWriteFails(c) \/ Send(c) \/ CloseConnection(c)

SocketStep(s) ==
  \/ Accept(s) \/ AcceptPlain(s) \/ AcceptError(s) \/ Receive(s) \/ EndOfFile(s)

ClientStep(s) ==
  \/ Connect(s) \/ PeerCloses(s)
  \/ \E chunk \in Chunk : Arrive(s, chunk)

Next ==
  \/ Bind \/ Listen
  \/ \E s \in Sockets : SocketStep(s) \/ ClientStep(s)
  \/ \E c \in Live : ServerStep(c) \/ ProgramStep(c)

Spec == Init /\ [][Next]_vars

(* Pool threads run the tasks, handlers and jobs they are given, and the   *)
(* network completes the receives that can complete.                       *)
Fairness ==
  /\ \A s \in Sockets : WF_vars(SocketStep(s))
  /\ \A c \in Conns : WF_vars(c \in Live /\ ServerStep(c))

FairSpec == Spec /\ Fairness

-----------------------------------------------------------------------------
TypeOK ==
  /\ acceptor \in {"closed", "open", "bound"}
  /\ {listens, accepts, errors, created} \subseteq Nat
  /\ sock \in [Sockets -> {"idle", "waiting", "open", "closed"}]
  /\ peer \in [Sockets -> {"up", "gone"}]
  /\ created <= MaxConns
  /\ \A s \in Sockets : Range(sent[s]) \cup Range(inbox[s]) \subseteq Chunk /\ Range(receives[s]) \subseteq Live
  /\ \A c \in Conns :
       /\ conn[c].chain \in (IF c \in Live THEN {"new", "plain", "receive", "handling", "ended"} ELSE {"none"})
       /\ conn[c].parser \in {"header", "body", "done"}
       /\ conn[c].promise \in {"pending", "resolved", "rejected"}
       /\ conn[c].shown \in {"none", "connection", "error"}
  /\ tasks \subseteq Conns \X (Chunk \cup {ErrorEvent})

(* What a client has sent is in one place: unread, with one receive        *)
(* handler, in one scheduled listener or given to one connection's         *)
(* request.  So no chunk is parsed twice although the connections that     *)
(* share a keep-alive socket all receive from it (recvHandler of           *)
(* TCPSocket::resume, attach() of the request).  The variables have their  *)
(* types.                                                                  *)
ChunkOnce ==
  TypeOK /\ \A s \in Sockets : \A x \in Range(sent[s]) :
    LET on == {c \in Live : conn[c].sock = s}
        places == [unread |-> {i \in DOMAIN inbox[s] : inbox[s][i] = x},
                   held |-> {c \in on : conn[c].held = <<x>>},
                   task |-> {c \in on : <<c, x>> \in tasks},
                   seen |-> {c \in on : x \in conn[c].seen}]
    IN  Cardinality(places.unread) + Cardinality(places.held)
          + Cardinality(places.task) + Cardinality(places.seen) = 1

(* While the client is there every connection object of an open socket has *)
(* one receive outstanding or on its way, also when a keep-alive socket    *)
(* was handed on and several objects receive from it: attach() resumes the *)
(* connection, and the receive handler posts the next receive.             *)
NeverDeaf ==
  \A s \in Sockets : sock[s] = "open" /\ peer[s] = "up" =>
    LET on == {c \in Live : conn[c].sock = s}
    IN  /\ \A c \in on : conn[c].chain # "ended"
        /\ Range(receives[s]) = {c \in on : conn[c].chain = "receive"}
        /\ Len(receives[s]) = Cardinality(Range(receives[s]))

(* What the server sends is a sequence of responses, one after the other:  *)
(* a header or a whole response is sent exactly when the response before   *)
(* it has ended, and a connection that was handed the socket never sends   *)
(* into the response of the one before (deviceWrite, send,                 *)
(* notifyCompleted).  A header has every field that set() accepted, also   *)
(* between a write() and its task.  It is what the client reads as long as *)
(* no send was short: a short one cuts its response, and the next follows. *)
Framing ==
  \A s \in Sockets : \A i \in DOMAIN wire[s] :
    LET w == wire[s][i]
        begins == i = 1 \/ wire[s][i - 1][2] \in {"whole", "last"}
    IN  /\ w[2] \in {"header", "whole"} <=> begins
        /\ ~ begins => wire[s][i - 1][1] = w[1]
        /\ begins => w[3] = conn[w[1]].myRes

(* The first request of a client that connects is answered by an event:    *)
(* the server emits "connection" or "error" for it, unless the socket is   *)
(* closed, however its chunks are cut and ordered (handleAccept, attach).  *)
FirstSettles ==
  \A s \in Sockets :
    (sock[s] = "waiting" /\ sent[s] # <<>>)
      ~> (sock[s] = "closed" \/ created = MaxConns \/ \E c \in Live : conn[c].sock = s /\ conn[c].shown # "none")
=============================================================================
