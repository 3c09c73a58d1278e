--------------------------- MODULE HttpServerProof ---------------------------
(***************************************************************************)
(* Proofs about the acceptor and the HTTP server, for every number of      *)
(* sockets, connections, requests, chunks and calls.                       *)
(***************************************************************************)
EXTENDS HttpServer, FiniteSetTheorems, TLAPS

Fields ==
  {"sock", "chain", "held", "parser", "seen", "header", "keepAlive", "promise", "shown",
   "ends", "myRes", "myStatus", "onError", "headersSent", "writing", "self"}

Item == Conns \X {"header", "chunk", "last", "whole"} \X (SUBSET Nat) \X {"full", "short"}

-----------------------------------------------------------------------------
(* The shapes of the variables.  A socket that has a connection object has *)
(* been accepted, and the objects that do not exist yet are blank.         *)
Shapes ==
  /\ acceptor \in {"closed", "open", "bound"}
  /\ listens \in Nat /\ accepts = listens /\ errors \in Nat /\ sets \in Nat
  /\ created \in Nat /\ created <= MaxConns
  /\ sock \in [Sockets -> {"idle", "waiting", "open", "closed"}]
  /\ peer \in [Sockets -> {"up", "gone"}]
  /\ sent \in [Sockets -> Seq(Chunk)]
  /\ inbox \in [Sockets -> Seq(Chunk)]
  /\ receives \in [Sockets -> Seq(Conns)]
  /\ wire \in [Sockets -> Seq(Item)]
  /\ tasks \subseteq Conns \X (Chunk \cup {ErrorEvent})
  /\ DOMAIN conn = Conns

(* The shape of a connection object.                                       *)
ConnOK(c) ==
  /\ DOMAIN conn[c] = Fields
  /\ conn[c].chain \in (IF c \in Live THEN {"new", "plain", "receive", "handling", "ended"} ELSE {"none"})
  /\ conn[c].parser \in {"header", "body", "done"}
  /\ conn[c].promise \in {"pending", "resolved", "rejected"}
  /\ conn[c].shown \in {"none", "connection", "error"}
  /\ conn[c].myRes \in SUBSET Nat
  /\ c \in Live => conn[c].sock \in Sockets /\ sock[conn[c].sock] \in {"open", "closed"}

Objects == \A c \in Conns : ConnOK(c)

(* A socket's queue of receives holds each connection whose chain waits    *)
(* for one, once; a chain ends only with its socket or its client.         *)
Queue(s) ==
  /\ \A i \in 1..Len(receives[s]) :
       LET c == receives[s][i]
       IN  c \in Live /\ conn[c].sock = s /\ conn[c].chain = "receive"
  /\ \A c \in Live : conn[c].sock = s /\ conn[c].chain = "receive" =>
       \E i \in 1..Len(receives[s]) : receives[s][i] = c
  /\ \A i, j \in 1..Len(receives[s]) : receives[s][i] = receives[s][j] => i = j

Awake ==
  \A c \in Live : conn[c].chain = "ended" =>
    sock[conn[c].sock] # "open" \/ peer[conn[c].sock] # "up"

Queues == (\A s \in Sockets : Queue(s)) /\ Awake

(* A client's chunks are numbered: all but the last belong to an earlier   *)
(* request, or are the first of the two parts that the last one completes. *)
Numbered(q) ==
  \A i \in 1..(Len(q) - 1) :
    \/ q[i][1] < q[Len(q)][1]
    \/ /\ q[i][1] = q[Len(q)][1]
       /\ q[i][2] \in {"post", "torn"} /\ q[Len(q)][2] \in {"body", "rest"}

(* The chunk x of socket s is at a place: in the inbox with an index, or   *)
(* with a connection's handler, scheduled listener or request.             *)
At(s, x, where, n) ==
  \/ where = "unread" /\ n \in 1..Len(inbox[s]) /\ inbox[s][n] = x
  \/ where = "held" /\ n \in Live /\ conn[n].sock = s /\ conn[n].held = <<x>>
  \/ where = "task" /\ n \in Live /\ conn[n].sock = s /\ <<n, x>> \in tasks
  \/ where = "seen" /\ n \in Live /\ conn[n].sock = s /\ x \in conn[n].seen

Sent(s, x) == \E i \in 1..Len(sent[s]) : sent[s][i] = x

OnePlace(s, x) ==
  \E where, n : /\ At(s, x, where, n)
                /\ \A where2, n2 : At(s, x, where2, n2) => where2 = where /\ n2 = n

(* What a connection holds is what its handler is about to schedule.       *)
Holding(c) ==
  IF conn[c].chain = "handling"
  THEN \E x \in Chunk : conn[c].held = <<x>>
  ELSE conn[c].held = <<>>

Chunks ==
  /\ \A s \in Sockets : Numbered(sent[s])
  /\ \A s \in Sockets, x \in Chunk : IF Sent(s, x) THEN OnePlace(s, x) ELSE \A where, n : ~ At(s, x, where, n)
  /\ \A c \in Conns : Holding(c)
  /\ \A t \in tasks : t[1] \in Live
  /\ \A c \in Conns : c \notin Live => conn[c].seen = {}

(* One connection at a time may write to a socket; what was written is by  *)
(* connections that have sent their header; and while the client is there  *)
(* a response that has begun and not ended is the one of the connection    *)
(* that may write.                                                         *)
Ended(s) == wire[s] = <<>> \/ wire[s][Len(wire[s])][2] \in {"last", "whole"}

Writer(c) ==
  LET s == conn[c].sock
  IN  /\ conn[c].writing => conn[c].self = "set"
      /\ conn[c].self = "set" /\ conn[c].headersSent /\ sock[s] = "open" /\ peer[s] = "up" =>
           ~ Ended(s) /\ wire[s][Len(wire[s])][1] = c

Written(s) ==
  /\ \A i \in 1..Len(wire[s]) :
       LET c == wire[s][i][1]
       IN  c \in Live /\ conn[c].headersSent /\ conn[c].sock = s
  /\ ~ Ended(s) /\ sock[s] = "open" /\ peer[s] = "up" => conn[wire[s][Len(wire[s])][1]].self = "set"

WellFramed(q) ==
  \A i \in 1..Len(q) :
    LET w == q[i]
        begins == i = 1 \/ q[i - 1][2] \in {"whole", "last"}
    IN  /\ w[2] \in {"header", "whole"} <=> begins
        /\ ~ begins => q[i - 1][1] = w[1]
        /\ begins => w[3] = conn[w[1]].myRes

Frame(s) == WellFramed(wire[s])

Frames ==
  /\ \A c, d \in Live : conn[c].sock = conn[d].sock /\ conn[c].self = "set" /\ conn[d].self = "set" => c = d
  /\ \A c \in Live : Writer(c)
  /\ \A s \in Sockets : Written(s) /\ Frame(s)

HttpInv == Shapes /\ Objects /\ Queues /\ Chunks /\ Frames

-----------------------------------------------------------------------------
(* The type invariant of the module follows. *)
LEMMA Typed == HttpInv => TypeOK
<1>. SUFFICES ASSUME HttpInv PROVE TypeOK
  OBVIOUS
<1>1. Shapes /\ Objects /\ Queues
  BY DEF HttpInv
<1>2. ASSUME NEW s \in Sockets
      PROVE  Range(sent[s]) \cup Range(inbox[s]) \subseteq Chunk /\ Range(receives[s]) \subseteq Live
  <2>1. /\ sent[s] \in Seq(Chunk) /\ inbox[s] \in Seq(Chunk) /\ receives[s] \in Seq(Conns)
        /\ DOMAIN sent[s] = 1..Len(sent[s]) /\ DOMAIN inbox[s] = 1..Len(inbox[s])
        /\ DOMAIN receives[s] = 1..Len(receives[s])
    BY <1>1 DEF Shapes
  <2>2. \A i \in 1..Len(receives[s]) : receives[s][i] \in Live
    BY <1>1 DEF Queues, Queue
  <2>. QED
    BY <2>1, <2>2 DEF Range
<1>3. \A c \in Conns :
       /\ conn[c].chain \in (IF c \in Live THEN {"new", "plain", "receive", "handling", "ended"} ELSE {"none"})
       /\ conn[c].parser \in {"header", "body", "done"}
       /\ conn[c].promise \in {"pending", "resolved", "rejected"}
       /\ conn[c].shown \in {"none", "connection", "error"}
  BY <1>1 DEF Objects, ConnOK
<1>. QED
  BY <1>1, <1>2, <1>3 DEF TypeOK, Shapes

(* A queue without repetition has as many entries as members. *)
LEMMA Distinct ==
  ASSUME NEW S, NEW q \in Seq(S), \A i, j \in 1..Len(q) : q[i] = q[j] => i = j
  PROVE  Len(q) = Cardinality(Range(q))
<1>1. DOMAIN q = 1..Len(q) /\ Len(q) \in Nat
  OBVIOUS
<1>2. q \in [1..Len(q) -> Range(q)]
  BY <1>1 DEF Range
<1>3. q \in Bijection(1..Len(q), Range(q))
  BY <1>1, <1>2 DEF Bijection, Injection, Surjection, IsInjective, Range
<1>. QED
  BY <1>1, <1>3, FS_CountingElements DEF ExistsBijection

(* The server is never deaf. *)
LEMMA Hears == HttpInv => NeverDeaf
<1>. SUFFICES ASSUME HttpInv PROVE NeverDeaf
  OBVIOUS
<1>1. Shapes /\ Objects /\ Queues
  BY DEF HttpInv
<1>2. ASSUME NEW s \in Sockets, sock[s] = "open", peer[s] = "up"
      PROVE  LET on == {c \in Live : conn[c].sock = s}
             IN  /\ \A c \in on : conn[c].chain # "ended"
                 /\ Range(receives[s]) = {c \in on : conn[c].chain = "receive"}
                 /\ Len(receives[s]) = Cardinality(Range(receives[s]))
  <2>1. receives[s] \in Seq(Conns) /\ DOMAIN receives[s] = 1..Len(receives[s])
    BY <1>1 DEF Shapes
  <2>2. Queue(s) /\ Awake
    BY <1>1 DEF Queues
  <2>3. Len(receives[s]) = Cardinality(Range(receives[s]))
    BY <2>1, <2>2, Distinct DEF Queue
  <2>4. Range(receives[s]) = {c \in {d \in Live : conn[d].sock = s} : conn[c].chain = "receive"}
    BY <2>1, <2>2 DEF Queue, Range
  <2>. QED
    BY <1>2, <2>2, <2>3, <2>4 DEF Awake
<1>. QED
  BY <1>1, <1>2 DEF NeverDeaf, Shapes

(* What the client reads is framed. *)
LEMMA Framed == HttpInv => Framing
<1>. SUFFICES ASSUME HttpInv, NEW s \in Sockets, NEW i \in DOMAIN wire[s]
              PROVE  LET w == wire[s][i]
                         begins == i = 1 \/ wire[s][i - 1][2] \in {"whole", "last"}
                     IN  /\ w[2] \in {"header", "whole"} <=> begins
                         /\ ~ begins => wire[s][i - 1][1] = w[1]
                         /\ begins => w[3] = conn[w[1]].myRes
  BY DEF Framing
<1>1. Shapes /\ Frame(s)
  BY DEF HttpInv, Frames
<1>2. i \in 1..Len(wire[s])
  BY <1>1 DEF Shapes
<1>. QED
  BY <1>1, <1>2 DEF Frame, WellFramed

(* A chunk at one place is counted once. *)
LEMMA Counted == HttpInv => ChunkOnce
<1>. SUFFICES ASSUME HttpInv, NEW s \in Sockets, NEW x \in Range(sent[s])
              PROVE  LET on == {c \in Live : conn[c].sock = s}
                         places == [unread |-> {i \in DOMAIN inbox[s] : inbox[s][i] = x},
                                    held |-> {c \in on : conn[c].held = <<x>>},
                                    task |-> {c \in on : <<c, x>> \in tasks},
                                    seen |-> {c \in on : x \in conn[c].seen}]
                     IN  Cardinality(places.unread) + Cardinality(places.held)
                           + Cardinality(places.task) + Cardinality(places.seen) = 1
  BY Typed DEF ChunkOnce
<1>1. Shapes /\ Chunks
  BY DEF HttpInv
<1>2. /\ DOMAIN inbox[s] = 1..Len(inbox[s])
      /\ Sent(s, x) /\ x \in Chunk
  <2>1. sent[s] \in Seq(Chunk) /\ inbox[s] \in Seq(Chunk)
    BY <1>1 DEF Shapes
  <2>. QED
    BY <2>1 DEF Sent, Range
<1>. DEFINE U == {i \in DOMAIN inbox[s] : inbox[s][i] = x}
            H == {c \in Live : conn[c].sock = s /\ conn[c].held = <<x>>}
            T == {c \in Live : conn[c].sock = s /\ <<c, x>> \in tasks}
            S == {c \in Live : conn[c].sock = s /\ x \in conn[c].seen}
<1>3. /\ \A n : n \in U <=> At(s, x, "unread", n)
      /\ \A n : n \in H <=> At(s, x, "held", n)
      /\ \A n : n \in T <=> At(s, x, "task", n)
      /\ \A n : n \in S <=> At(s, x, "seen", n)
  BY <1>2 DEF At
<1>4. OnePlace(s, x)
  BY <1>1, <1>2 DEF Chunks
<1>5. PICK where, n : /\ At(s, x, where, n)
                      /\ \A where2, n2 : At(s, x, where2, n2) => where2 = where /\ n2 = n
  BY <1>4 DEF OnePlace
<1>6. where \in {"unread", "held", "task", "seen"}
  BY <1>5 DEF At
<1>. HIDE DEF U, H, T, S
<1>7. /\ U = IF where = "unread" THEN {n} ELSE {}
      /\ H = IF where = "held" THEN {n} ELSE {}
      /\ T = IF where = "task" THEN {n} ELSE {}
      /\ S = IF where = "seen" THEN {n} ELSE {}
  BY <1>3, <1>5
<1>8. Cardinality({n}) = 1 /\ Cardinality({}) = 0
  BY FS_Singleton, FS_EmptySet
<1>9. Cardinality(U) + Cardinality(H) + Cardinality(T) + Cardinality(S) = 1
  BY <1>6, <1>7, <1>8
<1>10. /\ {c \in {d \in Live : conn[d].sock = s} : conn[c].held = <<x>>} = H
       /\ {c \in {d \in Live : conn[d].sock = s} : <<c, x>> \in tasks} = T
       /\ {c \in {d \in Live : conn[d].sock = s} : x \in conn[c].seen} = S
  BY DEF H, T, S
<1>. QED
  BY <1>9, <1>10 DEF U

-----------------------------------------------------------------------------
(* What leaves an invariant as it is. *)

(* The queues, of a step that moves no chain: a client may go. *)
LEMMA QueuesKept ==
  ASSUME Shapes, Queues, UNCHANGED <<receives, created>>,
         \A s \in Sockets : sock'[s] = "open" => sock[s] = "open",
         \A s \in Sockets : peer'[s] = "up" => peer[s] = "up",
         \A c \in Live : conn[c].sock \in Sockets,
         \A c \in Live : conn'[c].sock = conn[c].sock /\ conn'[c].chain = conn[c].chain
  PROVE  Queues'
<1>1. Live' = Live
  BY DEF Live
<1>2. ASSUME NEW s \in Sockets PROVE Queue(s)'
  BY <1>1 DEF Queues, Queue
<1>3. Awake'
  BY <1>1 DEF Queues, Awake
<1>. QED
  BY <1>2, <1>3 DEF Queues

(* The places of the chunks, of a step that moves none. *)
LEMMA ChunksKept ==
  ASSUME Shapes, Chunks, UNCHANGED <<sent, inbox, created>>,
         \A c \in Conns, x \in Chunk : <<c, x>> \in tasks' <=> <<c, x>> \in tasks,
         \A t \in tasks' : t[1] \in Live,
         \A c \in Conns : /\ c \in Live => conn'[c].sock = conn[c].sock
                          /\ conn'[c].held = conn[c].held /\ conn'[c].seen = conn[c].seen
                          /\ conn'[c].chain = "handling" <=> conn[c].chain = "handling"
  PROVE  Chunks'
<1>1. Live' = Live /\ Live \subseteq Conns
  BY HttpBounds DEF Live, Conns, Shapes
<1>2. ASSUME NEW s \in Sockets, NEW x \in Chunk, NEW where, NEW n
      PROVE  At(s, x, where, n)' <=> At(s, x, where, n)
  BY <1>1 DEF At
<1>3. ASSUME NEW s \in Sockets, NEW x \in Chunk
      PROVE  IF Sent(s, x)' THEN OnePlace(s, x)' ELSE \A where, n : ~ At(s, x, where, n)'
  <2>1. Sent(s, x)' <=> Sent(s, x)
    BY DEF Sent
  <2>. QED
    BY <1>2, <2>1 DEF Chunks, OnePlace
<1>4. \A c \in Conns : Holding(c)'
  BY DEF Chunks, Holding
<1>5. \A s \in Sockets : Numbered(sent[s])'
  BY DEF Chunks
<1>. QED
  BY <1>1, <1>3, <1>4, <1>5 DEF Chunks

(* What was written, of a step that writes nothing: a write may begin, and *)
(* a header fail for want of a client.                                     *)
LEMMA FramesKept ==
  ASSUME Shapes, Frames, UNCHANGED <<wire, created>>,
         \A s \in Sockets : sock'[s] = "open" => sock[s] = "open",
         \A s \in Sockets : peer'[s] = "up" => peer[s] = "up",
         \A c \in Live : conn[c].sock \in Sockets,
         \A c \in Live : /\ conn'[c].sock = conn[c].sock /\ conn'[c].self = conn[c].self
                         /\ conn[c].headersSent => conn'[c].headersSent
                         /\ conn'[c].headersSent => conn[c].headersSent \/ peer[conn[c].sock] # "up"
                         /\ conn'[c].writing => conn[c].writing \/ conn[c].self = "set"
                         /\ conn[c].headersSent => conn'[c].myRes = conn[c].myRes
  PROVE  Frames'
<1>1. Live' = Live
  BY DEF Live
<1>2. \A c, d \in Live : conn'[c].sock = conn'[d].sock /\ conn'[c].self = "set" /\ conn'[d].self = "set" => c = d
  BY DEF Frames
<1>3. ASSUME NEW c \in Live PROVE Writer(c)'
  BY DEF Frames, Writer, Ended
<1>4. ASSUME NEW s \in Sockets PROVE Written(s)' /\ Frame(s)'
  <2>1. Written(s) /\ Frame(s)
    BY DEF Frames
  <2>2. Written(s)'
    <3>1. Ended(s)' <=> Ended(s)
      BY DEF Ended
    <3>2. ~ Ended(s) => wire[s][Len(wire[s])][1] \in Live
      <4>1. wire[s] \in Seq(Item)
        BY DEF Shapes
      <4>2. ~ Ended(s) => Len(wire[s]) \in 1..Len(wire[s])
        BY <4>1 DEF Ended
      <4>. QED
        BY <2>1, <4>2 DEF Written
    <3>3. \A i \in 1..Len(wire[s]) :
            LET c == wire[s][i][1]
            IN  c \in Live /\ conn'[c].headersSent /\ conn'[c].sock = s
      BY <2>1 DEF Written
    <3>4. ~ Ended(s) /\ sock'[s] = "open" /\ peer'[s] = "up" => conn'[wire[s][Len(wire[s])][1]].self = "set"
      BY <2>1, <3>2 DEF Written
    <3>5. wire' = wire
      OBVIOUS
    <3>. QED
      BY <1>1, <3>1, <3>3, <3>4, <3>5, ZenonT(60) DEF Written
  <2>3. Frame(s)'
    <3>1. \A i \in 1..Len(wire[s]) : conn'[wire[s][i][1]].myRes = conn[wire[s][i][1]].myRes
      BY <2>1 DEF Written
    <3>2. wire' = wire
      OBVIOUS
    <3>. QED
      BY <2>1, <3>1, <3>2 DEF Frame, WellFramed
  <2>. QED
    BY <2>2, <2>3
<1>. QED
  BY <1>1, <1>2, <1>3, <1>4 DEF Frames

(* The objects, of a step that replaces one of them by k. *)
LEMMA Replaced ==
  ASSUME Shapes, Objects, UNCHANGED created, NEW c \in Live, NEW k, conn' = [conn EXCEPT ![c] = k],
         \A s \in Sockets : sock[s] \in {"open", "closed"} => sock'[s] \in {"open", "closed"},
         DOMAIN k = Fields, k.sock = conn[c].sock,
         k.chain \in {"new", "plain", "receive", "handling", "ended"},
         k.parser \in {"header", "body", "done"},
         k.promise \in {"pending", "resolved", "rejected"},
         k.shown \in {"none", "connection", "error"}, k.myRes \in SUBSET Nat
  PROVE  /\ Objects' /\ DOMAIN conn' = Conns
         /\ conn'[c] = k /\ \A d \in Conns \ {c} : conn'[d] = conn[d]
<1>1. Live' = Live /\ Live \subseteq Conns /\ DOMAIN conn = Conns
  BY HttpBounds DEF Live, Conns, Shapes
<1>2. DOMAIN conn' = Conns /\ conn'[c] = k /\ \A d \in Conns \ {c} : conn'[d] = conn[d]
  BY <1>1
<1>3. ConnOK(c)'
  BY <1>1, <1>2 DEF Objects, ConnOK
<1>4. ASSUME NEW d \in Conns \ {c} PROVE ConnOK(d)'
  BY <1>1, <1>2 DEF Objects, ConnOK
<1>. QED
  BY <1>2, <1>3, <1>4 DEF Objects

(* The objects that there are. *)
LEMMA Known ==
  ASSUME HttpInv
  PROVE  /\ Shapes /\ Objects /\ Queues /\ Chunks /\ Frames
         /\ Live \subseteq Conns /\ Conns \subseteq Nat /\ DOMAIN conn = Conns
         /\ \A c \in Live : conn[c].sock \in Sockets /\ sock[conn[c].sock] \in {"open", "closed"}
         /\ \A c \in Conns : DOMAIN conn[c] = Fields
         /\ \A t \in tasks : t[1] \in Live
<1>1. Shapes /\ Objects /\ Queues /\ Chunks /\ Frames
  BY DEF HttpInv
<1>2. Live \subseteq Conns /\ Conns \subseteq Nat /\ DOMAIN conn = Conns
  BY <1>1, HttpBounds DEF Live, Conns, Shapes
<1>. QED
  BY <1>1, <1>2 DEF Objects, ConnOK, Chunks

-----------------------------------------------------------------------------
(* The acceptor and the client. *)

(* Steps that leave the connections alone: a new peer, a peer that goes,   *)
(* an accept that fails, bind and listen.                                  *)
LEMMA OutsideKeeps ==
  ASSUME HttpInv, NEW s,
         Bind \/ Listen \/ (s \in Sockets /\ (AcceptError(s) \/ Connect(s) \/ PeerCloses(s)))
  PROVE  HttpInv'
<1>0. /\ Shapes /\ Objects /\ Queues /\ Chunks /\ Frames
      /\ Live \subseteq Conns
      /\ \A c \in Live : conn[c].sock \in Sockets /\ sock[conn[c].sock] \in {"open", "closed"}
      /\ \A t \in tasks : t[1] \in Live
  BY Known
<1>1. UNCHANGED <<sent, inbox, receives, wire, conn, created, tasks, sets>>
  BY DEF Bind, Listen, AcceptError, Connect, PeerCloses, client
<1>2. /\ sock' \in [Sockets -> {"idle", "waiting", "open", "closed"}]
      /\ \A t \in Sockets : sock'[t] = "open" => sock[t] = "open"
      /\ \A t \in Sockets : sock[t] \in {"open", "closed"} => sock'[t] = sock[t]
  BY <1>0 DEF Bind, Listen, AcceptError, Connect, PeerCloses, Shapes
<1>3. peer' \in [Sockets -> {"up", "gone"}] /\ \A t \in Sockets : peer'[t] = "up" => peer[t] = "up"
  BY <1>0 DEF Bind, Listen, AcceptError, Connect, PeerCloses, Shapes
<1>4. acceptor' \in {"closed", "open", "bound"} /\ listens' \in Nat /\ accepts' = listens' /\ errors' \in Nat
  BY <1>0 DEF Bind, BindOutcomes, Listen, BeginAccept, AcceptError, Connect, PeerCloses, Shapes, listener
<1>5. Shapes'
  BY <1>0, <1>1, <1>2, <1>3, <1>4 DEF Shapes
<1>6. Objects'
  <2>1. Live' = Live
    BY <1>1 DEF Live
  <2>. QED
    BY <1>0, <1>1, <1>2, <2>1 DEF Objects, ConnOK
<1>7. Queues'
  BY <1>0, <1>1, <1>2, <1>3, QueuesKept
<1>8. Chunks'
  BY <1>0, <1>1, ChunksKept
<1>9. Frames'
  BY <1>0, <1>1, <1>2, <1>3, FramesKept
<1>. QED
  BY <1>5, <1>6, <1>7, <1>8, <1>9 DEF HttpInv

(* What follows a numbered sequence is new in it, and numbers it.          *)
LEMMA NextNumbered ==
  ASSUME NEW q \in Seq(Chunk), Numbered(q), NEW x \in Chunk, x \in NextChunks(q)
  PROVE  /\ \A i \in 1..Len(q) : q[i] # x
         /\ Numbered(Append(q, x))
<1>1. /\ Len(q) \in Nat
      /\ \A i \in 1..Len(q) : q[i] \in Chunk /\ q[i][1] \in Nat
      /\ x[1] \in Nat
  <2>1. \A y \in Chunk : y[1] \in Nat
    BY HttpBounds DEF Chunk
  <2>. QED
    BY <2>1
<1>2. \A i \in 1..Len(q) :
        \/ q[i][1] < x[1]
        \/ q[i][1] = x[1] /\ q[i][2] \in {"post", "torn"} /\ x[2] \in {"body", "rest"}
  <2>1. CASE q = << >>
    BY <2>1
  <2>2. CASE q # << >>
    <3>1. Len(q) \in 1..Len(q) /\ Last(q) = q[Len(q)]
      BY <1>1, <2>2 DEF Last
    <3>2. CASE Last(q)[2] = "post"
      <4>1. x = <<q[Len(q)][1], "body">>
        BY <2>2, <3>1, <3>2 DEF NextChunks
      <4>2. x[1] = q[Len(q)][1] /\ x[2] = "body"
        BY <4>1
      <4>. QED
        BY <1>1, <3>1, <3>2, <4>2 DEF Numbered
    <3>3. CASE Last(q)[2] = "torn"
      <4>1. x = <<q[Len(q)][1], "rest">>
        BY <2>2, <3>1, <3>3 DEF NextChunks
      <4>2. x[1] = q[Len(q)][1] /\ x[2] = "rest"
        BY <4>1
      <4>. QED
        BY <1>1, <3>1, <3>3, <4>2 DEF Numbered
    <3>4. CASE Last(q)[2] \notin {"post", "torn"}
      <4>1. PICK p \in Parts : x = <<q[Len(q)][1] + 1, p>>
        BY <2>2, <3>1, <3>4 DEF NextChunks
      <4>2. x[1] = q[Len(q)][1] + 1
        BY <4>1
      <4>. QED
        BY <1>1, <3>1, <4>2 DEF Numbered
    <3>. QED
      BY <3>2, <3>3, <3>4
  <2>. QED
    BY <2>1, <2>2
<1>3. \A i \in 1..Len(q) : q[i] # x
  BY <1>1, <1>2
<1>4. Numbered(Append(q, x))
  <2>1. /\ Len(Append(q, x)) = Len(q) + 1 /\ Append(q, x)[Len(q) + 1] = x
        /\ \A i \in 1..Len(q) : Append(q, x)[i] = q[i]
    OBVIOUS
  <2>. QED
    BY <1>1, <1>2, <2>1 DEF Numbered
<1>. QED
  BY <1>3, <1>4

(* The client sends a chunk that it has not sent before. *)
LEMMA ArriveKeeps ==
  ASSUME HttpInv, NEW s \in Sockets, NEW chunk \in Chunk, Arrive(s, chunk)
  PROVE  HttpInv'
<1>0. /\ Shapes /\ Objects /\ Queues /\ Chunks /\ Frames
      /\ Live \subseteq Conns
      /\ \A c \in Live : conn[c].sock \in Sockets /\ sock[conn[c].sock] \in {"open", "closed"}
      /\ \A t \in tasks : t[1] \in Live
  BY Known
<1>1. /\ UNCHANGED <<listener, sock, peer, sets, receives, wire, conn, created, tasks>>
      /\ chunk \in NextChunks(sent[s])
      /\ sent' = [sent EXCEPT ![s] = Append(sent[s], chunk)]
      /\ inbox' = [inbox EXCEPT ![s] = Append(inbox[s], chunk)]
  BY DEF Arrive
<1>2. /\ sent[s] \in Seq(Chunk) /\ inbox[s] \in Seq(Chunk)
      /\ sent'[s] = Append(sent[s], chunk) /\ inbox'[s] = Append(inbox[s], chunk)
      /\ \A t \in Sockets \ {s} : sent'[t] = sent[t] /\ inbox'[t] = inbox[t]
  BY <1>0, <1>1 DEF Shapes
<1>3. Shapes'
  BY <1>0, <1>1 DEF Shapes, listener
<1>4. Live' = Live
  BY <1>1 DEF Live
<1>5. Objects' /\ Queues' /\ Frames'
  <2>1. Objects'
    BY <1>0, <1>1, <1>4 DEF Objects, ConnOK
  <2>2. Queues'
    BY <1>0, <1>1, QueuesKept
  <2>3. Frames'
    BY <1>0, <1>1, FramesKept
  <2>. QED
    BY <2>1, <2>2, <2>3
<1>6. Chunks'
  <2>1. ~ Sent(s, chunk) /\ Numbered(Append(sent[s], chunk))
    BY <1>0, <1>1, <1>2, NextNumbered DEF Sent, Chunks
  <2>2. \A t \in Sockets : Numbered(sent[t])'
    BY <1>0, <1>2, <2>1 DEF Chunks
  <2>3. ASSUME NEW t \in Sockets, NEW x \in Chunk, <<t, x>> # <<s, chunk>>
        PROVE  /\ Sent(t, x)' <=> Sent(t, x)
               /\ \A where, n : At(t, x, where, n)' <=> At(t, x, where, n)
    <3>1. CASE t # s
      BY <1>1, <1>2, <1>4, <3>1 DEF Sent, At
    <3>2. CASE t = s /\ x # chunk
      <4>1. /\ Len(sent'[s]) = Len(sent[s]) + 1 /\ sent'[s][Len(sent[s]) + 1] = chunk
            /\ \A i \in 1..Len(sent[s]) : sent'[s][i] = sent[s][i]
            /\ Len(inbox'[s]) = Len(inbox[s]) + 1 /\ inbox'[s][Len(inbox[s]) + 1] = chunk
            /\ \A i \in 1..Len(inbox[s]) : inbox'[s][i] = inbox[s][i]
            /\ Len(sent[s]) \in Nat /\ Len(inbox[s]) \in Nat
        BY <1>2
      <4>2. Sent(s, x)' <=> Sent(s, x)
        <5>1. \A i : (i \in 1..Len(sent'[s]) /\ sent'[s][i] = x) <=> (i \in 1..Len(sent[s]) /\ sent[s][i] = x)
          BY <3>2, <4>1
        <5>. QED
          BY <5>1, Zenon DEF Sent
      <4>3. \A n : (n \in 1..Len(inbox'[s]) /\ inbox'[s][n] = x) <=> (n \in 1..Len(inbox[s]) /\ inbox[s][n] = x)
        BY <3>2, <4>1, SMTT(30)
      <4>. QED
        BY <1>1, <1>4, <3>2, <4>2, <4>3 DEF At
    <3>. QED
      BY <2>3, <3>1, <3>2
  <2>4. Sent(s, chunk)' /\ OnePlace(s, chunk)'
    <3>1. \A where, n : ~ At(s, chunk, where, n)
      BY <1>0, <2>1 DEF Chunks
    <3>2. /\ Len(sent'[s]) = Len(sent[s]) + 1 /\ sent'[s][Len(sent[s]) + 1] = chunk
          /\ Len(inbox'[s]) = Len(inbox[s]) + 1 /\ inbox'[s][Len(inbox[s]) + 1] = chunk
          /\ \A i \in 1..Len(inbox[s]) : inbox'[s][i] = inbox[s][i]
          /\ Len(sent[s]) \in Nat /\ Len(inbox[s]) \in Nat
      BY <1>2
    <3>3. \A where, n : At(s, chunk, where, n)' <=> where = "unread" /\ n = Len(inbox[s]) + 1
      <4>1. \A n : (n \in 1..Len(inbox'[s]) /\ inbox'[s][n] = chunk) <=>
                   (n = Len(inbox[s]) + 1 \/ (n \in 1..Len(inbox[s]) /\ inbox[s][n] = chunk))
        BY <3>2
      <4>. QED
        BY <1>1, <1>4, <3>1, <4>1 DEF At
    <3>4. Sent(s, chunk)'
      BY <3>2 DEF Sent
    <3>. QED
      BY <3>3, <3>4 DEF OnePlace
  <2>5. ASSUME NEW t \in Sockets, NEW x \in Chunk
        PROVE  IF Sent(t, x)' THEN OnePlace(t, x)' ELSE \A where, n : ~ At(t, x, where, n)'
    <3>1. CASE <<t, x>> = <<s, chunk>>
      BY <2>4, <3>1
    <3>2. CASE <<t, x>> # <<s, chunk>>
      BY <1>0, <2>3, <3>2 DEF Chunks, OnePlace
    <3>. QED
      BY <3>1, <3>2
  <2>6. \A c \in Conns : Holding(c)'
    BY <1>0, <1>1 DEF Chunks, Holding
  <2>. QED
    BY <1>0, <1>1, <1>4, <2>2, <2>5, <2>6 DEF Chunks
<1>. QED
  BY <1>3, <1>5, <1>6 DEF HttpInv

(* The next connection object gets the next number. *)
LEMMA Grows ==
  ASSUME Shapes, created < MaxConns
  PROVE  /\ created + 1 \in Conns /\ created + 1 \notin Live
         /\ created' = created + 1 => Live' = Live \cup {created + 1}
<1>1. created \in Nat /\ MaxConns \in Nat
  BY HttpBounds DEF Shapes
<1>2. created + 1 \in Conns /\ created + 1 \notin Live
  BY <1>1 DEF Conns, Live
<1>3. 1..(created + 1) = (1..created) \cup {created + 1}
  BY <1>1
<1>4. created' = created + 1 => Live' = 1..(created + 1)
  BY DEF Live
<1>. QED
  BY <1>2, <1>3, <1>4 DEF Live

(* A new connection object k for socket s, first in nobody's way: it has   *)
(* posted no receive, read nothing and written nothing.                    *)
LEMMA Born ==
  ASSUME HttpInv, NEW s \in Sockets, NEW k,
         k = [NewConn(s) EXCEPT !.chain = "plain", !.promise = "resolved"] \/ k = NewConn(s),
         created < MaxConns, created' = created + 1,
         DOMAIN conn' = Conns, conn'[created + 1] = k,
         \A c \in Conns \ {created + 1} : DOMAIN conn'[c] = Fields,
         \A c \in Conns \ (Live \cup {created + 1}) : conn'[c] = conn[c],
         \A c \in Live : /\ conn'[c].sock = conn[c].sock /\ conn'[c].chain = conn[c].chain
                         /\ conn'[c].held = conn[c].held /\ conn'[c].seen = conn[c].seen
                         /\ conn'[c].parser = conn[c].parser /\ conn'[c].promise = conn[c].promise
                         /\ conn'[c].shown = conn[c].shown /\ conn'[c].myRes = conn[c].myRes,
         \A c \in Live : sock'[conn[c].sock] = sock[conn[c].sock],
         sock'[s] = "open", UNCHANGED <<peer, sent, inbox, receives, tasks>>
  PROVE  /\ Objects' /\ Queues' /\ Chunks'
         /\ Live' = Live \cup {created + 1} /\ created + 1 \in Conns \ Live
         /\ k.sock = s /\ k.self = "set" /\ k.headersSent = FALSE /\ k.writing = FALSE
<1>0. /\ Shapes /\ Objects /\ Queues /\ Chunks
      /\ Live \subseteq Conns
      /\ \A c \in Live : conn[c].sock \in Sockets /\ sock[conn[c].sock] \in {"open", "closed"}
      /\ \A t \in tasks : t[1] \in Live
  BY Known
<1>1. /\ Live' = Live \cup {created + 1} /\ created + 1 \in Conns /\ created + 1 \notin Live
  BY <1>0, Grows
<1>2. /\ DOMAIN k = Fields /\ k.sock = s /\ k.chain \in {"new", "plain"} /\ k.held = << >> /\ k.seen = {}
      /\ k.parser = "header" /\ k.promise \in {"pending", "resolved"} /\ k.shown = "none" /\ k.myRes = {}
      /\ k.self = "set" /\ k.headersSent = FALSE /\ k.writing = FALSE
  <2>1. DOMAIN NewConn(s) = Fields
    BY DEF NewConn, Fields
  <2>2. DOMAIN k = Fields
    BY <2>1
  <2>3. CASE k = NewConn(s)
    BY <2>2, <2>3 DEF NewConn
  <2>4. CASE k = [NewConn(s) EXCEPT !.chain = "plain", !.promise = "resolved"]
    BY <2>2, <2>4 DEF NewConn
  <2>. QED
    BY <2>3, <2>4
<1>3. Objects'
  <2>0. PICK m : m = created + 1
    OBVIOUS
  <2>1. ConnOK(m)'
    BY <1>1, <1>2, <2>0 DEF ConnOK
  <2>2. ASSUME NEW c \in Live PROVE ConnOK(c)'
    BY <1>0, <1>1 DEF Objects, ConnOK
  <2>3. ASSUME NEW c \in Conns \ (Live \cup {created + 1}) PROVE ConnOK(c)'
    BY <1>0, <1>1 DEF Objects, ConnOK
  <2>. QED
    BY <1>1, <2>0, <2>1, <2>2, <2>3 DEF Objects
<1>4. Queues'
  <2>1. ASSUME NEW t \in Sockets PROVE Queue(t)'
    <3>1. \A c \in Live' : conn'[c].chain = "receive" => c \in Live
      BY <1>1, <1>2
    <3>. QED
      BY <1>0, <1>1, <3>1 DEF Queues, Queue
  <2>2. Awake'
    BY <1>0, <1>1, <1>2 DEF Queues, Awake
  <2>. QED
    BY <2>1, <2>2 DEF Queues
<1>5. Chunks'
  <2>1. ASSUME NEW t \in Sockets, NEW x \in Chunk, NEW where, NEW n
        PROVE  At(t, x, where, n)' <=> At(t, x, where, n)
    <3>1. <<created + 1, x>> \notin tasks
      BY <1>0, <1>1
    <3>2. k.held # <<x>> /\ x \notin k.seen
      BY <1>2
    <3>. QED
      BY <1>0, <1>1, <3>1, <3>2 DEF At
  <2>2. ASSUME NEW t \in Sockets, NEW x \in Chunk
        PROVE  IF Sent(t, x)' THEN OnePlace(t, x)' ELSE \A where, n : ~ At(t, x, where, n)'
    <3>1. Sent(t, x)' <=> Sent(t, x)
      BY DEF Sent
    <3>. QED
      BY <1>0, <2>1, <3>1 DEF Chunks, OnePlace
  <2>3. ASSUME NEW c \in Conns PROVE Holding(c)'
    <3>1. CASE c = created + 1
      BY <1>2, <3>1 DEF Holding
    <3>2. CASE c # created + 1
      BY <1>0, <3>2 DEF Chunks, Holding
    <3>. QED
      BY <3>1, <3>2
  <2>4. /\ \A t \in Sockets : Numbered(sent[t])'
        /\ \A t \in tasks' : t[1] \in Live'
        /\ \A c \in Conns : c \notin Live' => conn'[c].seen = {}
    BY <1>0, <1>1 DEF Chunks
  <2>. QED
    BY <2>2, <2>3, <2>4 DEF Chunks
<1>. QED
  BY <1>1, <1>2, <1>3, <1>4, <1>5

(* A socket is accepted, by an HTTP server or a plain acceptor. *)
LEMMA AcceptKeeps ==
  ASSUME HttpInv, NEW s \in Sockets, Accept(s) \/ AcceptPlain(s)
  PROVE  HttpInv'
<1>0. /\ Shapes /\ Objects /\ Queues /\ Chunks /\ Frames
      /\ Live \subseteq Conns /\ DOMAIN conn = Conns
      /\ \A c \in Live : conn[c].sock \in Sockets /\ sock[conn[c].sock] \in {"open", "closed"}
      /\ \A c \in Conns : DOMAIN conn[c] = Fields
  BY Known
<1>1. /\ sock[s] = "waiting" /\ sock' = [sock EXCEPT ![s] = "open"]
      /\ created < MaxConns /\ created' = created + 1
      /\ UNCHANGED <<listener, peer, sent, sets, inbox, receives, wire, tasks>>
  BY DEF Accept, AcceptPlain, Wrap, client
<1>2. PICK k : /\ k = [NewConn(s) EXCEPT !.chain = "plain", !.promise = "resolved"] \/ k = NewConn(s)
               /\ conn' = [conn EXCEPT ![created + 1] = k]
  BY DEF Accept, AcceptPlain, Wrap
<1>3. created + 1 \in Conns /\ created + 1 \notin Live
  BY <1>0, <1>1, Grows
<1>4. /\ DOMAIN conn' = Conns /\ conn'[created + 1] = k
      /\ \A c \in Conns \ {created + 1} : conn'[c] = conn[c]
      /\ \A c \in Live : conn'[c] = conn[c]
  BY <1>0, <1>2, <1>3
<1>5. /\ sock'[s] = "open" /\ \A t \in Sockets \ {s} : sock'[t] = sock[t]
      /\ \A c \in Live : conn[c].sock # s /\ sock'[conn[c].sock] = sock[conn[c].sock]
      /\ sock' \in [Sockets -> {"idle", "waiting", "open", "closed"}]
  BY <1>0, <1>1 DEF Shapes
<1>6. /\ Objects' /\ Queues' /\ Chunks'
      /\ Live' = Live \cup {created + 1} /\ created + 1 \in Conns \ Live
      /\ k.sock = s /\ k.self = "set" /\ k.headersSent = FALSE /\ k.writing = FALSE
  <2>1. /\ \A c \in Conns \ {created + 1} : DOMAIN conn'[c] = Fields
        /\ \A c \in Conns \ (Live \cup {created + 1}) : conn'[c] = conn[c]
        /\ \A c \in Live : /\ conn'[c].sock = conn[c].sock /\ conn'[c].chain = conn[c].chain
                           /\ conn'[c].held = conn[c].held /\ conn'[c].seen = conn[c].seen
                           /\ conn'[c].parser = conn[c].parser /\ conn'[c].promise = conn[c].promise
                           /\ conn'[c].shown = conn[c].shown /\ conn'[c].myRes = conn[c].myRes
        /\ \A c \in Live : sock'[conn[c].sock] = sock[conn[c].sock]
        /\ UNCHANGED <<peer, sent, inbox, receives, tasks>>
    BY <1>0, <1>1, <1>4, <1>5
  <2>. QED
    BY <1>1, <1>2, <1>4, <1>5, <2>1, Born, ZenonT(60)
<1>7. Shapes'
  BY <1>0, <1>1, <1>4, <1>5, HttpBounds, SMTT(30) DEF Shapes, listener
<1>8. Frames'
  <2>1. \A c, d \in Live' : conn'[c].sock = conn'[d].sock /\ conn'[c].self = "set" /\ conn'[d].self = "set" => c = d
    BY <1>0, <1>4, <1>5, <1>6 DEF Frames
  <2>2. ASSUME NEW c \in Live' PROVE Writer(c)'
    <3>1. CASE c = created + 1
      BY <1>4, <1>6, <3>1 DEF Writer
    <3>2. CASE c \in Live
      BY <1>0, <1>1, <1>4, <1>5, <3>2 DEF Frames, Writer, Ended
    <3>. QED
      BY <1>6, <3>1, <3>2
  <2>3. ASSUME NEW t \in Sockets PROVE Written(t)' /\ Frame(t)'
    <3>1. Written(t) /\ Frame(t) /\ wire[t] \in Seq(Item)
      BY <1>0 DEF Frames, Shapes
    <3>2. /\ \A i \in 1..Len(wire[t]) : wire[t][i][1] \in Live /\ conn'[wire[t][i][1]] = conn[wire[t][i][1]]
          /\ ~ Ended(t) => Len(wire[t]) \in 1..Len(wire[t])
      BY <1>4, <3>1 DEF Written, Ended
    <3>3. t = s => Ended(t)
      BY <1>5, <3>1, <3>2 DEF Written, Ended
    <3>4. Ended(t)' <=> Ended(t)
      BY <1>1 DEF Ended
    <3>5. Written(t)'
      BY <1>1, <1>5, <1>6, <3>1, <3>2, <3>3, <3>4 DEF Written
    <3>6. Frame(t)'
      BY <1>1, <3>1, <3>2 DEF Frame, WellFramed
    <3>. QED
      BY <3>5, <3>6
  <2>. QED
    BY <2>1, <2>2, <2>3 DEF Frames
<1>. QED
  BY <1>6, <1>7, <1>8 DEF HttpInv

-----------------------------------------------------------------------------
(* The chains of receives. *)

(* A chain that has no receive outstanding posts one, last in the queue,   *)
(* or ends with the socket.                                                *)
LEMMA Posts ==
  ASSUME HttpInv, NEW c \in Live, conn[c].chain # "receive", PostReceive(c),
         UNCHANGED <<sock, peer, created>>,
         \A d \in Live : conn'[d].sock = conn[d].sock,
         \A d \in Live \ {c} : conn'[d].chain = conn[d].chain,
         conn'[c].chain = Posted(c)
  PROVE  Queues' /\ receives' \in [Sockets -> Seq(Conns)]
<1>0. /\ Shapes /\ Queues /\ Live \subseteq Conns /\ Live' = Live
      /\ \A d \in Live : conn[d].sock \in Sockets
  BY Known DEF Live
<1>. DEFINE s == conn[c].sock
<1>1. s \in Sockets /\ \A t \in Sockets : receives[t] \in Seq(Conns) /\ Queue(t)
  BY <1>0 DEF Shapes, Queues
<1>2. CASE sock[s] = "open"
  <2>1. receives' = [receives EXCEPT ![s] = Append(receives[s], c)] /\ conn'[c].chain = "receive"
    BY <1>2 DEF PostReceive, Posted
  <2>2. receives' \in [Sockets -> Seq(Conns)]
    BY <1>0, <1>1, <2>1 DEF Shapes
  <2>3. /\ receives'[s] = Append(receives[s], c)
        /\ \A t \in Sockets \ {s} : receives'[t] = receives[t]
    BY <1>0, <1>1, <2>1 DEF Shapes
  <2>4. ASSUME NEW t \in Sockets PROVE Queue(t)'
    <3>1. CASE t # s
      <4>1. receives'[t] = receives[t]
        BY <2>3, <3>1
      <4>2. \A d \in Live : conn'[d].sock = t => conn'[d].chain = conn[d].chain
        BY <3>1
      <4>3. \A i \in 1..Len(receives[t]) : receives[t][i] # c
        BY <1>1 DEF Queue
      <4>. QED
        BY <1>0, <1>1, <4>1, <4>2, <4>3 DEF Queue
    <3>2. CASE t = s
      <4>1. /\ Len(receives'[t]) = Len(receives[t]) + 1 /\ receives'[t][Len(receives[t]) + 1] = c
            /\ \A i \in 1..Len(receives[t]) : receives'[t][i] = receives[t][i]
            /\ Len(receives[t]) \in Nat
        <5>1. receives'[t] = Append(receives[t], c) /\ receives[t] \in Seq(Conns) /\ c \in Conns
          BY <1>0, <1>1, <2>3, <3>2
        <5>. QED
          BY <5>1
      <4>2. \A i \in 1..Len(receives[t]) :
              receives[t][i] \in Live /\ receives[t][i] # c
              /\ conn'[receives[t][i]].sock = t /\ conn'[receives[t][i]].chain = "receive"
        BY <1>1 DEF Queue
      <4>3. \A i \in 1..Len(receives'[t]) :
              LET d == receives'[t][i]
              IN  d \in Live' /\ conn'[d].sock = t /\ conn'[d].chain = "receive"
        BY <1>0, <2>1, <3>2, <4>1, <4>2
      <4>4. ASSUME NEW d \in Live, conn'[d].sock = t, conn'[d].chain = "receive"
            PROVE  \E i \in 1..Len(receives'[t]) : receives'[t][i] = d
        <5>1. CASE d = c
          BY <4>1, <5>1
        <5>2. CASE d # c
          <6>1. PICK i \in 1..Len(receives[t]) : receives[t][i] = d
            BY <1>1, <4>4, <5>2 DEF Queue
          <6>. QED
            BY <4>1, <6>1
        <5>. QED
          BY <5>1, <5>2
      <4>5. \A i, j \in 1..Len(receives'[t]) : receives'[t][i] = receives'[t][j] => i = j
        <5>1. \A i, j \in 1..Len(receives[t]) : receives[t][i] = receives[t][j] => i = j
          BY <1>1 DEF Queue
        <5>. QED
          BY <4>1, <4>2, <5>1, SMTT(30)
      <4>. QED
        BY <1>0, <4>3, <4>4, <4>5 DEF Queue
    <3>. QED
      BY <3>1, <3>2
  <2>5. Awake'
    BY <1>0, <2>1 DEF Queues, Awake
  <2>. QED
    BY <2>2, <2>4, <2>5 DEF Queues
<1>3. CASE sock[s] # "open"
  <2>1. receives' = receives /\ conn'[c].chain = "ended"
    BY <1>3 DEF PostReceive, Posted
  <2>2. ASSUME NEW t \in Sockets PROVE Queue(t)'
    <3>1. \A i \in 1..Len(receives[t]) : receives[t][i] # c
      BY <1>1 DEF Queue
    <3>. QED
      BY <1>0, <1>1, <2>1, <3>1, SMTT(30) DEF Queue
  <2>3. Awake'
    BY <1>0, <1>3, <2>1 DEF Queues, Awake
  <2>. QED
    BY <1>0, <2>1, <2>2, <2>3 DEF Queues, Shapes
<1>. QED
  BY <1>2, <1>3

(* The request is attached: the first receive of the connection. *)
LEMMA AttachKeeps ==
  ASSUME HttpInv, NEW c \in Live, Attach(c)
  PROVE  HttpInv'
<1>0. /\ Shapes /\ Objects /\ Queues /\ Chunks /\ Frames
      /\ Live \subseteq Conns /\ DOMAIN conn = Conns
      /\ \A d \in Live : conn[d].sock \in Sockets /\ sock[conn[d].sock] \in {"open", "closed"}
      /\ \A d \in Conns : DOMAIN conn[d] = Fields
      /\ \A t \in tasks : t[1] \in Live
  BY Known
<1>1. /\ conn[c].chain = "new" /\ PostReceive(c)
      /\ UNCHANGED <<listener, sock, peer, sent, sets, inbox, wire, created, tasks>>
  BY DEF Attach, client
<1>2. PICK k : k = [conn[c] EXCEPT !.chain = Posted(c)]
  OBVIOUS
<1>3. conn' = [conn EXCEPT ![c] = k]
  BY <1>2 DEF Attach
<1>4. /\ DOMAIN k = Fields /\ k.chain = Posted(c) /\ k.chain \in {"receive", "ended"}
      /\ \A f \in Fields \ {"chain"} : k[f] = conn[c][f]
  BY <1>0, <1>2 DEF Fields, Posted
<1>5. /\ k.sock = conn[c].sock /\ k.parser = conn[c].parser /\ k.promise = conn[c].promise
      /\ k.shown = conn[c].shown /\ k.myRes = conn[c].myRes /\ k.held = conn[c].held /\ k.seen = conn[c].seen
      /\ k.self = conn[c].self /\ k.headersSent = conn[c].headersSent /\ k.writing = conn[c].writing
  BY <1>4 DEF Fields
<1>6. /\ Objects' /\ DOMAIN conn' = Conns
      /\ conn'[c] = k /\ \A d \in Conns \ {c} : conn'[d] = conn[d]
  BY <1>0, <1>1, <1>3, <1>4, <1>5, Replaced, ZenonT(60) DEF Objects, ConnOK
<1>7. Queues' /\ receives' \in [Sockets -> Seq(Conns)]
  BY <1>0, <1>1, <1>4, <1>5, <1>6, Posts
<1>8. Shapes'
  BY <1>0, <1>1, <1>6, <1>7 DEF Shapes, listener
<1>9. Chunks'
  BY <1>0, <1>1, <1>4, <1>5, <1>6, ChunksKept
<1>10. Frames'
  BY <1>0, <1>1, <1>5, <1>6, FramesKept
<1>. QED
  BY <1>6, <1>7, <1>8, <1>9, <1>10 DEF HttpInv

(* A chunk that is somewhere was sent, and is nowhere else. *)
LEMMA Nowhere ==
  ASSUME Chunks, NEW s \in Sockets, NEW x \in Chunk, NEW where, NEW n, At(s, x, where, n)
  PROVE  Sent(s, x) /\ \A where2, n2 : At(s, x, where2, n2) => where2 = where /\ n2 = n
<1>1. Sent(s, x) /\ OnePlace(s, x)
  BY DEF Chunks
<1>. QED
  BY <1>1 DEF OnePlace

(* A chunk whose places do not change is still at one place, or nowhere. *)
LEMMA Still ==
  ASSUME Chunks, UNCHANGED sent, NEW s \in Sockets, NEW x \in Chunk,
         \A where, n : At(s, x, where, n)' <=> At(s, x, where, n)
  PROVE  IF Sent(s, x)' THEN OnePlace(s, x)' ELSE \A where, n : ~ At(s, x, where, n)'
<1>1. Sent(s, x)' <=> Sent(s, x)
  BY DEF Sent
<1>. QED
  BY <1>1 DEF Chunks, OnePlace

(* The handler schedules the listener and posts the next receive. *)
LEMMA HandleKeeps ==
  ASSUME HttpInv, NEW c \in Live, Handle(c)
  PROVE  HttpInv'
<1>0. /\ Shapes /\ Objects /\ Queues /\ Chunks /\ Frames
      /\ Live \subseteq Conns /\ DOMAIN conn = Conns
      /\ \A d \in Live : conn[d].sock \in Sockets /\ sock[conn[d].sock] \in {"open", "closed"}
      /\ \A d \in Conns : DOMAIN conn[d] = Fields
      /\ \A t \in tasks : t[1] \in Live
  BY Known
<1>1. /\ conn[c].chain = "handling" /\ PostReceive(c)
      /\ tasks' = tasks \cup {<<c, Head(conn[c].held)>>}
      /\ UNCHANGED <<listener, sock, peer, sent, sets, inbox, wire, created>>
  BY DEF Handle, client
<1>2. PICK k : k = [conn[c] EXCEPT !.chain = Posted(c), !.held = << >>]
  OBVIOUS
<1>3. conn' = [conn EXCEPT ![c] = k]
  BY <1>2 DEF Handle
<1>4. /\ DOMAIN k = Fields /\ k.chain = Posted(c) /\ k.chain \in {"receive", "ended"} /\ k.held = << >>
      /\ \A f \in Fields \ {"chain", "held"} : k[f] = conn[c][f]
  BY <1>0, <1>2 DEF Fields, Posted
<1>5. /\ k.sock = conn[c].sock /\ k.parser = conn[c].parser /\ k.promise = conn[c].promise
      /\ k.shown = conn[c].shown /\ k.myRes = conn[c].myRes /\ k.seen = conn[c].seen
      /\ k.self = conn[c].self /\ k.headersSent = conn[c].headersSent /\ k.writing = conn[c].writing
  BY <1>4 DEF Fields
<1>6. /\ Objects' /\ DOMAIN conn' = Conns
      /\ conn'[c] = k /\ \A d \in Conns \ {c} : conn'[d] = conn[d]
  BY <1>0, <1>1, <1>3, <1>4, <1>5, Replaced, ZenonT(60) DEF Objects, ConnOK
<1>7. Queues' /\ receives' \in [Sockets -> Seq(Conns)]
  BY <1>0, <1>1, <1>4, <1>5, <1>6, Posts
<1>8. PICK x0 \in Chunk : conn[c].held = <<x0>>
  BY <1>0, <1>1 DEF Chunks, Holding
<1>9. tasks' = tasks \cup {<<c, x0>>}
  BY <1>1, <1>8
<1>10. Shapes'
  BY <1>0, <1>1, <1>6, <1>7, <1>9 DEF Shapes, listener
<1>11. Chunks'
  <2>1. PICK s0 \in Sockets : s0 = conn[c].sock
    BY <1>0
  <2>2. Live' = Live
    BY <1>1 DEF Live
  <2>3. At(s0, x0, "held", c)
    BY <1>8, <2>1 DEF At
  <2>4. ASSUME NEW s \in Sockets, NEW x \in Chunk, s # s0 \/ x # x0, NEW where, NEW n
        PROVE  At(s, x, where, n)' <=> At(s, x, where, n)
    <3>1. n \in Live /\ conn[n].sock = s =>
            /\ conn'[n].held = <<x>> <=> conn[n].held = <<x>>
            /\ <<n, x>> \in tasks' <=> <<n, x>> \in tasks
            /\ conn'[n].seen = conn[n].seen
      BY <1>0, <1>4, <1>5, <1>6, <1>8, <1>9, <2>1, <2>4
    <3>2. n \in Live => conn'[n].sock = conn[n].sock
      BY <1>0, <1>5, <1>6
    <3>. QED
      BY <1>1, <2>2, <3>1, <3>2 DEF At
  <2>5. ASSUME NEW where, NEW n
        PROVE  At(s0, x0, where, n)' <=>
                 \/ where = "task" /\ n = c
                 \/ At(s0, x0, where, n) /\ ~ (where = "held" /\ n = c)
    <3>1. n \in Live =>
            /\ conn'[n].sock = conn[n].sock /\ conn'[n].seen = conn[n].seen
            /\ conn'[n].held = <<x0>> <=> conn[n].held = <<x0>> /\ n # c
            /\ <<n, x0>> \in tasks' <=> <<n, x0>> \in tasks \/ n = c
      BY <1>0, <1>4, <1>5, <1>6, <1>9
    <3>. QED
      BY <1>1, <2>1, <2>2, <3>1 DEF At
  <2>6. ASSUME NEW s \in Sockets, NEW x \in Chunk
        PROVE  IF Sent(s, x)' THEN OnePlace(s, x)' ELSE \A where, n : ~ At(s, x, where, n)'
    <3>1. CASE s # s0 \/ x # x0
      BY <1>0, <1>1, <2>4, <3>1, Still
    <3>2. CASE s = s0 /\ x = x0
      <4>1. Sent(s0, x0) /\ \A where, n : At(s0, x0, where, n) => where = "held" /\ n = c
        BY <1>0, <2>3, Nowhere
      <4>2. \A where, n : At(s0, x0, where, n)' <=> where = "task" /\ n = c
        BY <2>5, <4>1
      <4>3. OnePlace(s0, x0)'
        BY <4>2 DEF OnePlace
      <4>4. Sent(s0, x0)'
        BY <1>1, <4>1 DEF Sent
      <4>. QED
        BY <3>2, <4>3, <4>4
    <3>. QED
      BY <3>1, <3>2
  <2>7. \A d \in Conns : Holding(d)'
    BY <1>0, <1>4, <1>6 DEF Chunks, Holding
  <2>8. \A d \in Conns : d \notin Live' => conn'[d].seen = {}
    BY <1>0, <1>6, <2>2 DEF Chunks
  <2>9. \A t \in tasks' : t[1] \in Live'
    BY <1>0, <1>9, <2>2
  <2>. QED
    BY <1>0, <1>1, <2>6, <2>7, <2>8, <2>9 DEF Chunks
<1>12. Frames'
  BY <1>0, <1>1, <1>5, <1>6, FramesKept
<1>. QED
  BY <1>6, <1>7, <1>10, <1>11, <1>12 DEF HttpInv

(* The first receive of a queue is the one of a chain that waits. *)
LEMMA First ==
  ASSUME HttpInv, NEW s \in Sockets, receives[s] # << >>
  PROVE  /\ Head(receives[s]) \in Live /\ Head(receives[s]) = receives[s][1]
         /\ conn[Head(receives[s])].sock = s /\ conn[Head(receives[s])].chain = "receive"
<1>1. receives[s] \in Seq(Conns) /\ Queue(s)
  BY Known DEF Shapes, Queues
<1>2. 1 \in 1..Len(receives[s]) /\ Head(receives[s]) = receives[s][1]
  BY <1>1
<1>. QED
  BY <1>1, <1>2 DEF Queue

(* It completes and its chain goes on with something else. *)
LEMMA Pops ==
  ASSUME HttpInv, NEW s \in Sockets, receives[s] # << >>, NEW c, c = Head(receives[s]),
         receives' = [receives EXCEPT ![s] = Tail(receives[s])],
         UNCHANGED <<sock, peer, created>>,
         \A d \in Live : conn'[d].sock = conn[d].sock,
         \A d \in Live \ {c} : conn'[d].chain = conn[d].chain,
         conn'[c].chain # "receive", conn'[c].chain = "ended" => peer[s] # "up"
  PROVE  Queues' /\ receives' \in [Sockets -> Seq(Conns)]
<1>0. /\ Shapes /\ Queues /\ Live \subseteq Conns /\ Live' = Live
      /\ \A d \in Live : conn[d].sock \in Sockets
  BY Known DEF Live
<1>1. \A t \in Sockets : receives[t] \in Seq(Conns) /\ Queue(t)
  BY <1>0 DEF Shapes, Queues
<1>2. c \in Live /\ c = receives[s][1] /\ conn[c].sock = s /\ conn[c].chain = "receive"
  BY First
<1>3. /\ receives'[s] = Tail(receives[s]) /\ Tail(receives[s]) \in Seq(Conns)
      /\ \A t \in Sockets \ {s} : receives'[t] = receives[t]
      /\ receives' \in [Sockets -> Seq(Conns)]
  BY <1>0, <1>1 DEF Shapes
<1>4. /\ Len(receives'[s]) = Len(receives[s]) - 1 /\ Len(receives[s]) \in Nat /\ Len(receives[s]) > 0
      /\ \A i \in 1..Len(receives'[s]) : receives'[s][i] = receives[s][i + 1] /\ i + 1 \in 1..Len(receives[s])
  BY <1>1, <1>3
<1>5. ASSUME NEW t \in Sockets PROVE Queue(t)'
  <2>1. CASE t # s
    <3>1. receives'[t] = receives[t]
      BY <1>3, <2>1
    <3>2. \A d \in Live : conn'[d].sock = t => conn'[d].chain = conn[d].chain
      BY <1>2, <2>1
    <3>3. \A i \in 1..Len(receives[t]) : receives[t][i] # c
      BY <1>1, <1>2, <2>1 DEF Queue
    <3>4. \A i \in 1..Len(receives[t]) :
            LET d == receives[t][i]
            IN  d \in Live /\ conn'[d].sock = t /\ conn'[d].chain = "receive"
      BY <1>1, <3>3 DEF Queue
    <3>5. \A d \in Live : conn'[d].sock = t /\ conn'[d].chain = "receive" =>
            \E i \in 1..Len(receives[t]) : receives[t][i] = d
      BY <1>1, <3>2 DEF Queue
    <3>6. \A i, j \in 1..Len(receives[t]) : receives[t][i] = receives[t][j] => i = j
      BY <1>1 DEF Queue
    <3>. QED
      BY <1>0, <3>1, <3>4, <3>5, <3>6 DEF Queue
  <2>2. CASE t = s
    <3>0. Queue(s) /\ 1 \in 1..Len(receives[s])
      BY <1>1, <1>4
    <3>1. \A i \in 1..Len(receives'[s]) : receives'[s][i] \in Live /\ receives'[s][i] # c
      <4>1. ASSUME NEW i \in 1..Len(receives'[s]) PROVE receives[s][i + 1] # c
        <5>1. i + 1 \in 1..Len(receives[s]) /\ i + 1 # 1
          BY <1>4
        <5>. QED
          BY <1>2, <3>0, <5>1 DEF Queue
      <4>. QED
        BY <1>4, <3>0, <4>1 DEF Queue
    <3>2. \A i \in 1..Len(receives'[s]) :
            LET d == receives'[s][i]
            IN  d \in Live' /\ conn'[d].sock = s /\ conn'[d].chain = "receive"
      BY <1>0, <1>4, <3>0, <3>1, SMTT(30) DEF Queue
    <3>3. ASSUME NEW d \in Live, conn'[d].sock = s, conn'[d].chain = "receive"
          PROVE  \E i \in 1..Len(receives'[s]) : receives'[s][i] = d
      <4>1. d # c /\ conn[d].sock = s /\ conn[d].chain = "receive"
        BY <3>3
      <4>2. PICK i \in 1..Len(receives[s]) : receives[s][i] = d
        BY <3>0, <4>1 DEF Queue
      <4>3. i - 1 \in 1..Len(receives'[s]) /\ (i - 1) + 1 = i
        BY <1>2, <1>4, <4>1, <4>2
      <4>. QED
        BY <1>4, <4>2, <4>3
    <3>4. \A i, j \in 1..Len(receives'[s]) : receives'[s][i] = receives'[s][j] => i = j
      <4>1. \A i, j \in 1..Len(receives[s]) : receives[s][i] = receives[s][j] => i = j
        BY <3>0 DEF Queue
      <4>. QED
        BY <1>4, <4>1
    <3>5. Queue(s)'
      BY <1>0, <3>2, <3>3, <3>4 DEF Queue
    <3>. QED
      BY <2>2, <3>5
  <2>. QED
    BY <2>1, <2>2
<1>6. Awake'
  BY <1>0, <1>2 DEF Queues, Awake
<1>. QED
  BY <1>3, <1>5, <1>6 DEF Queues

(* A receive completes with the first chunk of the inbox. *)
LEMMA ReceiveKeeps ==
  ASSUME HttpInv, NEW s \in Sockets, Receive(s)
  PROVE  HttpInv'
<1>0. /\ Shapes /\ Objects /\ Queues /\ Chunks /\ Frames
      /\ Live \subseteq Conns /\ DOMAIN conn = Conns
      /\ \A d \in Live : conn[d].sock \in Sockets /\ sock[conn[d].sock] \in {"open", "closed"}
      /\ \A d \in Conns : DOMAIN conn[d] = Fields
      /\ \A t \in tasks : t[1] \in Live
  BY Known
<1>1. /\ receives[s] # << >> /\ inbox[s] # << >>
      /\ receives' = [receives EXCEPT ![s] = Tail(receives[s])]
      /\ inbox' = [inbox EXCEPT ![s] = Tail(inbox[s])]
      /\ UNCHANGED <<listener, sock, peer, sent, sets, wire, created, tasks>>
  BY DEF Receive, client
<1>2. PICK c \in Live : c = Head(receives[s]) /\ conn[c].sock = s /\ conn[c].chain = "receive"
  BY <1>1, First
<1>3. PICK x0 \in Chunk : x0 = Head(inbox[s]) /\ x0 = inbox[s][1]
  BY <1>0, <1>1 DEF Shapes
<1>4. PICK k : k = [conn[c] EXCEPT !.chain = "handling", !.held = <<x0>>]
  OBVIOUS
<1>5. conn' = [conn EXCEPT ![c] = k]
  BY <1>2, <1>3, <1>4 DEF Receive
<1>6. /\ DOMAIN k = Fields /\ k.chain = "handling" /\ k.held = <<x0>>
      /\ \A f \in Fields \ {"chain", "held"} : k[f] = conn[c][f]
  BY <1>0, <1>4 DEF Fields
<1>7. /\ k.sock = conn[c].sock /\ k.parser = conn[c].parser /\ k.promise = conn[c].promise
      /\ k.shown = conn[c].shown /\ k.myRes = conn[c].myRes /\ k.seen = conn[c].seen
      /\ k.self = conn[c].self /\ k.headersSent = conn[c].headersSent /\ k.writing = conn[c].writing
  BY <1>6 DEF Fields
<1>8. /\ Objects' /\ DOMAIN conn' = Conns
      /\ conn'[c] = k /\ \A d \in Conns \ {c} : conn'[d] = conn[d]
  BY <1>0, <1>1, <1>5, <1>6, <1>7, Replaced, ZenonT(60) DEF Objects, ConnOK
<1>9. Queues' /\ receives' \in [Sockets -> Seq(Conns)]
  <2>1. /\ \A d \in Live : conn'[d].sock = conn[d].sock
        /\ \A d \in Live \ {c} : conn'[d].chain = conn[d].chain
        /\ conn'[c].chain # "receive" /\ (conn'[c].chain = "ended" => peer[s] # "up")
    BY <1>0, <1>1, <1>6, <1>7, <1>8
  <2>2. UNCHANGED <<sock, peer, created>> /\ c = Head(receives[s])
    BY <1>1, <1>2
  <2>. QED
    BY <1>1, <2>1, <2>2, Pops
<1>10. /\ inbox' \in [Sockets -> Seq(Chunk)]
       /\ \A t \in Sockets \ {s} : inbox'[t] = inbox[t]
       /\ Len(inbox'[s]) = Len(inbox[s]) - 1 /\ Len(inbox[s]) \in Nat /\ Len(inbox[s]) > 0
       /\ \A i \in 1..Len(inbox'[s]) : inbox'[s][i] = inbox[s][i + 1]
  <2>1. inbox[s] \in Seq(Chunk) /\ inbox'[s] = Tail(inbox[s]) /\ Tail(inbox[s]) \in Seq(Chunk)
    BY <1>0, <1>1 DEF Shapes
  <2>2. inbox' \in [Sockets -> Seq(Chunk)] /\ \A t \in Sockets \ {s} : inbox'[t] = inbox[t]
    BY <1>0, <1>1, <2>1 DEF Shapes
  <2>. QED
    BY <1>1, <2>1, <2>2
<1>11. Shapes'
  BY <1>0, <1>1, <1>8, <1>9, <1>10 DEF Shapes, listener
<1>12. Chunks'
  <2>1. Live' = Live
    BY <1>1 DEF Live
  <2>2. At(s, x0, "unread", 1)
    BY <1>3, <1>10 DEF At
  <2>3. Sent(s, x0) /\ \A where, n : At(s, x0, where, n) => where = "unread" /\ n = 1
    BY <1>0, <2>2, Nowhere
  <2>4. conn[c].held = << >>
    BY <1>0, <1>2 DEF Chunks, Holding
  <2>5. ASSUME NEW n \in Live
        PROVE  /\ conn'[n].sock = conn[n].sock /\ conn'[n].seen = conn[n].seen
               /\ n # c => conn'[n].held = conn[n].held
    BY <1>0, <1>7, <1>8
  <2>6. ASSUME NEW where, NEW n PROVE At(s, x0, where, n)' <=> where = "held" /\ n = c
    <3>1. n \notin 1..Len(inbox'[s]) \/ inbox'[s][n] # x0
      <4>1. SUFFICES ASSUME n \in 1..Len(inbox'[s]), inbox'[s][n] = x0 PROVE FALSE
        OBVIOUS
      <4>2. n + 1 \in 1..Len(inbox[s]) /\ inbox[s][n + 1] = x0 /\ n + 1 # 1
        BY <1>10, <4>1
      <4>3. At(s, x0, "unread", n + 1)
        BY <4>2 DEF At
      <4>. QED
        BY <2>3, <4>2, <4>3
    <3>2. n \in Live /\ conn[n].sock = s => conn[n].held # <<x0>> /\ <<n, x0>> \notin tasks /\ x0 \notin conn[n].seen
      <4>1. ~ At(s, x0, "held", n) /\ ~ At(s, x0, "task", n) /\ ~ At(s, x0, "seen", n)
        BY <2>3
      <4>. QED
        BY <4>1 DEF At
    <3>3. conn'[c].held = <<x0>> /\ conn'[c].sock = s /\ c \in Live'
      BY <1>2, <1>6, <1>7, <1>8, <2>1
    <3>. QED
      BY <1>1, <2>1, <2>5, <3>1, <3>2, <3>3 DEF At
  <2>7. ASSUME NEW x \in Chunk, x # x0, NEW where, NEW n
        PROVE  At(s, x, where, n)' <=>
                 \/ where # "unread" /\ At(s, x, where, n)
                 \/ where = "unread" /\ n \in Nat /\ At(s, x, where, n + 1)
    <3>1. n \in 1..Len(inbox'[s]) /\ inbox'[s][n] = x <=>
            n \in Nat /\ n + 1 \in 1..Len(inbox[s]) /\ inbox[s][n + 1] = x
      <4>1. n \in Nat /\ n + 1 \in 1..Len(inbox[s]) /\ inbox[s][n + 1] = x => n # 0
        BY <1>3, <2>7
      <4>. QED
        BY <1>10, <4>1, SMTT(30)
    <3>2. conn'[c].held # <<x>> /\ conn[c].held # <<x>>
      BY <1>6, <1>8, <2>4, <2>7
    <3>. QED
      BY <1>1, <2>1, <2>5, <3>1, <3>2 DEF At
  <2>8. ASSUME NEW t \in Sockets \ {s}, NEW x \in Chunk, NEW where, NEW n
        PROVE  At(t, x, where, n)' <=> At(t, x, where, n)
    BY <1>1, <1>2, <1>10, <2>1, <2>5 DEF At
  <2>9. ASSUME NEW t \in Sockets, NEW x \in Chunk
        PROVE  IF Sent(t, x)' THEN OnePlace(t, x)' ELSE \A where, n : ~ At(t, x, where, n)'
    <3>0. Sent(t, x)' <=> Sent(t, x)
      BY <1>1 DEF Sent
    <3>1. CASE t # s
      BY <1>0, <1>1, <2>8, <3>1, Still
    <3>2. CASE t = s /\ x = x0
      BY <2>3, <2>6, <3>0, <3>2 DEF OnePlace
    <3>3. CASE t = s /\ x # x0
      <4>1. CASE ~ Sent(t, x)
        BY <1>0, <2>7, <3>0, <3>3, <4>1 DEF Chunks
      <4>2. CASE Sent(t, x)
        <5>1. PICK where, n : /\ At(s, x, where, n)
                              /\ \A where2, n2 : At(s, x, where2, n2) => where2 = where /\ n2 = n
          BY <1>0, <3>3, <4>2 DEF Chunks, OnePlace
        <5>2. CASE where # "unread"
          <6>1. \A where2, n2 : At(s, x, where2, n2)' <=> where2 = where /\ n2 = n
            BY <2>7, <3>3, <5>1, <5>2
          <6>. QED
            BY <3>0, <3>3, <4>2, <6>1 DEF OnePlace
        <5>3. CASE where = "unread"
          <6>1. PICK m : m = n - 1
            OBVIOUS
          <6>2. n \in Nat /\ n # 1 /\ n > 0 /\ m \in Nat /\ m + 1 = n
            BY <1>3, <1>10, <3>3, <5>1, <5>3, <6>1 DEF At
          <6>3. \A n2 \in Nat : n2 + 1 = n => n2 = m
            BY <6>2
          <6>4. \A where2, n2 : At(s, x, where2, n2)' <=> where2 = "unread" /\ n2 = m
            BY <2>7, <3>3, <5>1, <5>3, <6>2, <6>3
          <6>. QED
            BY <3>0, <3>3, <4>2, <6>4 DEF OnePlace
        <5>. QED
          BY <5>2, <5>3
      <4>. QED
        BY <4>1, <4>2
    <3>. QED
      BY <3>1, <3>2, <3>3
  <2>10. \A d \in Conns : Holding(d)'
    BY <1>0, <1>6, <1>8 DEF Chunks, Holding
  <2>11. /\ \A d \in Conns : d \notin Live' => conn'[d].seen = {}
         /\ \A t \in tasks' : t[1] \in Live'
         /\ \A t \in Sockets : Numbered(sent[t])'
    BY <1>0, <1>1, <1>8, <2>1 DEF Chunks
  <2>. QED
    BY <2>9, <2>10, <2>11 DEF Chunks
<1>13. Frames'
  BY <1>0, <1>1, <1>7, <1>8, FramesKept
<1>. QED
  BY <1>8, <1>9, <1>11, <1>12, <1>13 DEF HttpInv

(* A receive completes with the end of what the client has sent. *)
LEMMA EndOfFileKeeps ==
  ASSUME HttpInv, NEW s \in Sockets, EndOfFile(s)
  PROVE  HttpInv'
<1>0. /\ Shapes /\ Objects /\ Queues /\ Chunks /\ Frames
      /\ Live \subseteq Conns /\ DOMAIN conn = Conns
      /\ \A d \in Live : conn[d].sock \in Sockets /\ sock[conn[d].sock] \in {"open", "closed"}
      /\ \A d \in Conns : DOMAIN conn[d] = Fields
      /\ \A t \in tasks : t[1] \in Live
  BY Known
<1>1. /\ receives[s] # << >> /\ peer[s] = "gone"
      /\ receives' = [receives EXCEPT ![s] = Tail(receives[s])]
      /\ UNCHANGED <<listener, sock, peer, sent, sets, inbox, wire, created>>
  BY DEF EndOfFile, client
<1>2. PICK c \in Live : c = Head(receives[s]) /\ conn[c].sock = s /\ conn[c].chain = "receive"
  BY <1>1, First
<1>3. tasks' \subseteq tasks \cup {<<c, ErrorEvent>>} /\ tasks \subseteq tasks'
  BY <1>2 DEF EndOfFile
<1>4. PICK k : k = [conn[c] EXCEPT !.chain = "ended", !.onError = "fired"]
  OBVIOUS
<1>5. conn' = [conn EXCEPT ![c] = k]
  BY <1>2, <1>4 DEF EndOfFile
<1>6. /\ DOMAIN k = Fields /\ k.chain = "ended"
      /\ \A f \in Fields \ {"chain", "onError"} : k[f] = conn[c][f]
  BY <1>0, <1>4 DEF Fields
<1>7. /\ k.sock = conn[c].sock /\ k.parser = conn[c].parser /\ k.promise = conn[c].promise
      /\ k.shown = conn[c].shown /\ k.myRes = conn[c].myRes /\ k.held = conn[c].held /\ k.seen = conn[c].seen
      /\ k.self = conn[c].self /\ k.headersSent = conn[c].headersSent /\ k.writing = conn[c].writing
  BY <1>6 DEF Fields
<1>8. /\ Objects' /\ DOMAIN conn' = Conns
      /\ conn'[c] = k /\ \A d \in Conns \ {c} : conn'[d] = conn[d]
  BY <1>0, <1>1, <1>5, <1>6, <1>7, Replaced, ZenonT(60) DEF Objects, ConnOK
<1>9. Queues' /\ receives' \in [Sockets -> Seq(Conns)]
  <2>1. /\ \A d \in Live : conn'[d].sock = conn[d].sock
        /\ \A d \in Live \ {c} : conn'[d].chain = conn[d].chain
        /\ conn'[c].chain # "receive" /\ (conn'[c].chain = "ended" => peer[s] # "up")
    BY <1>0, <1>1, <1>6, <1>7, <1>8
  <2>2. UNCHANGED <<sock, peer, created>> /\ c = Head(receives[s])
    BY <1>1, <1>2
  <2>. QED
    BY <1>1, <2>1, <2>2, Pops
<1>10. Shapes'
  BY <1>0, <1>1, <1>3, <1>8, <1>9 DEF Shapes, listener
<1>11. Chunks'
  <2>1. ErrorEvent \notin Chunk
    BY HttpBounds DEF ErrorEvent, Chunk
  <2>2. \A d \in Conns, x \in Chunk : <<d, x>> \in tasks' <=> <<d, x>> \in tasks
    BY <1>3, <2>1
  <2>3. \A t \in tasks' : t[1] \in Live
    BY <1>0, <1>3
  <2>. QED
    BY <1>0, <1>1, <1>2, <1>6, <1>7, <1>8, <2>2, <2>3, ChunksKept
<1>12. Frames'
  BY <1>0, <1>1, <1>7, <1>8, FramesKept
<1>. QED
  BY <1>8, <1>9, <1>10, <1>11, <1>12 DEF HttpInv

-----------------------------------------------------------------------------
(* The request. *)

(* What a put of a chunk, with outcome o, makes of a connection object.    *)
AfterPut(k, o, chunk, keep) ==
  LET k1 == [k EXCEPT !.parser = o[1], !.seen = @ \cup {chunk}]
      first == k1.header = <<>>
      k2 == IF first /\ o[1] # "header" THEN HeaderDone(k1, chunk[1], keep) ELSE k1
  IN  IF first /\ o[2] THEN Settle(k1, "rejected")
      ELSE IF o[1] = "done" THEN [k2 EXCEPT !.ends = Append(@, chunk)] ELSE k2

(* It leaves the chain and the response alone. *)
LEMMA Parsed ==
  ASSUME HttpInv, NEW c \in Live, NEW chunk \in Chunk, NEW keep,
         NEW o \in Outcomes(c, chunk), NEW k, k = AfterPut(conn[c], o, chunk, keep)
  PROVE  /\ DOMAIN k = Fields /\ k.seen = conn[c].seen \cup {chunk}
         /\ k.parser \in {"header", "body", "done"} /\ k.promise \in {"pending", "resolved", "rejected"}
         /\ \A f \in {"sock", "chain", "held", "shown", "myRes", "headersSent", "writing", "self"} :
              k[f] = conn[c][f]
<1>0. /\ DOMAIN conn[c] = Fields /\ conn[c].parser \in {"header", "body", "done"}
      /\ conn[c].promise \in {"pending", "resolved", "rejected"}
  BY Known DEF Objects, ConnOK
<1>2. o[1] \in {"header", "body", "done"}
  <2>1. chunk[2] \in {"get", "post", "body", "torn", "rest"}
    BY DEF Chunk
  <2>2. ASSUME NEW part \in {"get", "post", "body", "torn", "rest"},
               NEW state \in {"header", "body", "done"}
        PROVE  Parse(state, part)[1] \in {"header", "body", "done"}
    <3>1. CASE state = "header" /\ part = "get"
      BY <3>1 DEF Parse
    <3>2. CASE state = "header" /\ part = "post"
      BY <3>2 DEF Parse
    <3>3. CASE state = "header" /\ part \in {"body", "torn", "rest"}
      <4>1. Parse(state, part) = <<"header", TRUE>>
        BY <3>3 DEF Parse
      <4>. QED
        BY <4>1
    <3>4. CASE state \in {"body", "done"}
      <4>1. Parse(state, part) = <<"done", FALSE>>
        BY <3>4 DEF Parse
      <4>. QED
        BY <4>1
    <3>. QED
      BY <3>1, <3>2, <3>3, <3>4
  <2>3. Parse(conn[c].parser, chunk[2])[1] \in {"header", "body", "done"}
    BY <1>0, <2>1, <2>2
  <2>4. o = Parse(conn[c].parser, chunk[2]) \/ o = <<conn[c].parser, TRUE>>
    BY Zenon DEF Outcomes
  <2>. QED
    <3>1. CASE o = Parse(conn[c].parser, chunk[2])
      BY <2>3, <3>1
    <3>2. CASE o = <<conn[c].parser, TRUE>>
      BY <1>0, <3>2
    <3>. QED
      BY <2>4, <3>1, <3>2
<1>. DEFINE Good(m) ==
       /\ DOMAIN m = Fields /\ m.seen = conn[c].seen \cup {chunk}
       /\ m.parser \in {"header", "body", "done"} /\ m.promise \in {"pending", "resolved", "rejected"}
       /\ \A f \in {"sock", "chain", "held", "shown", "myRes", "headersSent", "writing", "self"} :
            m[f] = conn[c][f]
<1>3. PICK k1 : k1 = [conn[c] EXCEPT !.parser = o[1], !.seen = @ \cup {chunk}]
  OBVIOUS
<1>4. Good(k1)
  BY <1>0, <1>2, <1>3 DEF Fields
<1>5. ASSUME NEW m, Good(m), NEW how \in {"resolved", "rejected"} PROVE Good(Settle(m, how))
  BY <1>5 DEF Settle, Fields
<1>6. ASSUME NEW m, Good(m) PROVE Good([m EXCEPT !.ends = Append(@, chunk)])
  BY <1>6 DEF Fields
<1>7. ASSUME NEW m, Good(m) PROVE Good([m EXCEPT !.header = <<chunk[1]>>, !.keepAlive = keep])
  BY <1>7 DEF Fields
<1>. HIDE DEF Good
<1>8. Good(HeaderDone(k1, chunk[1], keep))
  <2>1. PICK m : m = [k1 EXCEPT !.header = <<chunk[1]>>, !.keepAlive = keep]
    OBVIOUS
  <2>2. Good(m)
    BY <1>4, <1>7, <2>1
  <2>3. PICK how \in {"resolved", "rejected"} :
          how = IF keep /\ sock[m.sock] # "open" THEN "rejected" ELSE "resolved"
    OBVIOUS
  <2>4. Good(Settle(m, how))
    BY <1>5, <2>2
  <2>5. k1.sock = m.sock
    BY <1>4, <2>1 DEF Good, Fields
  <2>6. HeaderDone(k1, chunk[1], keep) = Settle(m, how)
    BY <2>1, <2>3, <2>5 DEF HeaderDone
  <2>. QED
    BY <2>4, <2>6
<1>9. PICK k2 : k2 = IF k1.header = <<>> /\ o[1] # "header" THEN HeaderDone(k1, chunk[1], keep) ELSE k1
  OBVIOUS
<1>10. Good(k2)
  BY <1>4, <1>8, <1>9
<1>11. k = IF k1.header = <<>> /\ o[2] THEN Settle(k1, "rejected")
           ELSE IF o[1] = "done" THEN [k2 EXCEPT !.ends = Append(@, chunk)] ELSE k2
  BY <1>3, <1>9 DEF AfterPut
<1>12. Good(Settle(k1, "rejected")) /\ Good([k2 EXCEPT !.ends = Append(@, chunk)])
  BY <1>4, <1>5, <1>6, <1>10
<1>13. Good(k)
  BY <1>10, <1>11, <1>12
<1>. QED
  BY <1>13 DEF Good

(* The listener of "data": the chunk is the request's. *)
LEMMA DataKeeps ==
  ASSUME HttpInv, NEW c \in Live, NEW chunk \in Chunk, NEW keep, Data(c, chunk, keep)
  PROVE  HttpInv'
<1>0. /\ Shapes /\ Objects /\ Queues /\ Chunks /\ Frames
      /\ Live \subseteq Conns /\ DOMAIN conn = Conns
      /\ \A d \in Live : conn[d].sock \in Sockets /\ sock[conn[d].sock] \in {"open", "closed"}
      /\ \A d \in Conns : DOMAIN conn[d] = Fields
      /\ \A t \in tasks : t[1] \in Live
  BY Known
<1>1. /\ <<c, chunk>> \in tasks /\ tasks' = tasks \ {<<c, chunk>>}
      /\ UNCHANGED <<listener, sock, peer, sent, sets, inbox, receives, wire, created>>
  BY DEF Data, client
<1>a. PICK o \in Outcomes(c, chunk) : conn' = [conn EXCEPT ![c] = AfterPut(conn[c], o, chunk, keep)]
  BY DEF Data, AfterPut
<1>b. PICK k : k = AfterPut(conn[c], o, chunk, keep)
  OBVIOUS
<1>2. conn' = [conn EXCEPT ![c] = k]
  BY <1>a, <1>b
<1>3. /\ DOMAIN k = Fields /\ k.seen = conn[c].seen \cup {chunk}
      /\ k.parser \in {"header", "body", "done"} /\ k.promise \in {"pending", "resolved", "rejected"}
      /\ \A f \in {"sock", "chain", "held", "shown", "myRes", "headersSent", "writing", "self"} :
           k[f] = conn[c][f]
  BY <1>a, <1>b, Parsed, SMTT(60)
<1>4. /\ k.sock = conn[c].sock /\ k.chain = conn[c].chain
      /\ k.shown = conn[c].shown /\ k.myRes = conn[c].myRes /\ k.held = conn[c].held
      /\ k.self = conn[c].self /\ k.headersSent = conn[c].headersSent /\ k.writing = conn[c].writing
  BY <1>3
<1>5. /\ Objects' /\ DOMAIN conn' = Conns
      /\ conn'[c] = k /\ \A d \in Conns \ {c} : conn'[d] = conn[d]
  BY <1>0, <1>1, <1>2, <1>3, <1>4, Replaced, ZenonT(60) DEF Objects, ConnOK
<1>6. Shapes'
  BY <1>0, <1>1, <1>5 DEF Shapes, listener
<1>7. Queues'
  BY <1>0, <1>1, <1>4, <1>5, QueuesKept
<1>8. Frames'
  BY <1>0, <1>1, <1>4, <1>5, FramesKept
<1>9. Chunks'
  <2>1. PICK s0 \in Sockets : s0 = conn[c].sock
    BY <1>0
  <2>2. Live' = Live
    BY <1>1 DEF Live
  <2>3. At(s0, chunk, "task", c)
    BY <1>1, <2>1 DEF At
  <2>4. ASSUME NEW s \in Sockets, NEW x \in Chunk, s # s0 \/ x # chunk, NEW where, NEW n
        PROVE  At(s, x, where, n)' <=> At(s, x, where, n)
    <3>1. n \in Live /\ conn[n].sock = s =>
            /\ conn'[n].held = conn[n].held
            /\ <<n, x>> \in tasks' <=> <<n, x>> \in tasks
            /\ x \in conn'[n].seen <=> x \in conn[n].seen
      BY <1>0, <1>1, <1>3, <1>4, <1>5, <2>1, <2>4
    <3>2. n \in Live => conn'[n].sock = conn[n].sock
      BY <1>0, <1>4, <1>5
    <3>. QED
      BY <1>1, <2>2, <3>1, <3>2 DEF At
  <2>5. ASSUME NEW where, NEW n
        PROVE  At(s0, chunk, where, n)' <=>
                 \/ where = "seen" /\ n = c
                 \/ At(s0, chunk, where, n) /\ ~ (where = "task" /\ n = c)
    <3>1. n \in Live =>
            /\ conn'[n].sock = conn[n].sock /\ conn'[n].held = conn[n].held
            /\ chunk \in conn'[n].seen <=> chunk \in conn[n].seen \/ n = c
            /\ <<n, chunk>> \in tasks' <=> <<n, chunk>> \in tasks /\ n # c
      BY <1>0, <1>1, <1>3, <1>4, <1>5
    <3>. QED
      BY <1>1, <2>1, <2>2, <3>1 DEF At
  <2>6. ASSUME NEW s \in Sockets, NEW x \in Chunk
        PROVE  IF Sent(s, x)' THEN OnePlace(s, x)' ELSE \A where, n : ~ At(s, x, where, n)'
    <3>1. CASE s # s0 \/ x # chunk
      BY <1>0, <1>1, <2>4, <3>1, Still
    <3>2. CASE s = s0 /\ x = chunk
      <4>1. Sent(s0, chunk) /\ \A where, n : At(s0, chunk, where, n) => where = "task" /\ n = c
        BY <1>0, <2>3, Nowhere
      <4>2. \A where, n : At(s0, chunk, where, n)' <=> where = "seen" /\ n = c
        BY <2>5, <4>1
      <4>3. OnePlace(s0, chunk)'
        BY <4>2 DEF OnePlace
      <4>4. Sent(s0, chunk)'
        BY <1>1, <4>1 DEF Sent
      <4>. QED
        BY <3>2, <4>3, <4>4
    <3>. QED
      BY <3>1, <3>2
  <2>7. \A d \in Conns : Holding(d)'
    BY <1>0, <1>4, <1>5 DEF Chunks, Holding
  <2>8. /\ \A d \in Conns : d \notin Live' => conn'[d].seen = {}
        /\ \A t \in tasks' : t[1] \in Live'
        /\ \A t \in Sockets : Numbered(sent[t])'
    BY <1>0, <1>1, <1>5, <2>2 DEF Chunks
  <2>. QED
    BY <2>6, <2>7, <2>8 DEF Chunks
<1>. QED
  BY <1>5, <1>6, <1>7, <1>8, <1>9 DEF HttpInv

(* Steps that change what is said of a connection, not what it reads or    *)
(* has written.                                                            *)
LEMMA Aside ==
  ASSUME HttpInv, NEW c \in Live, NEW k, conn' = [conn EXCEPT ![c] = k], DOMAIN k = Fields,
         /\ k.sock = conn[c].sock /\ k.chain = conn[c].chain /\ k.held = conn[c].held
         /\ k.seen = conn[c].seen /\ k.self = conn[c].self /\ k.parser = conn[c].parser,
         k.promise \in {"pending", "resolved", "rejected"}, k.shown \in {"none", "connection", "error"},
         k.myRes \in SUBSET Nat, conn[c].headersSent => k.myRes = conn[c].myRes,
         conn[c].headersSent => k.headersSent,
         k.headersSent => conn[c].headersSent \/ peer[conn[c].sock] # "up",
         k.writing => conn[c].writing \/ conn[c].self = "set",
         tasks' \subseteq tasks, \A x \in Chunk : <<c, x>> \in tasks => <<c, x>> \in tasks',
         \A t \in tasks : t[1] # c => t \in tasks',
         sets' \in Nat, UNCHANGED <<listener, sock, peer, sent, inbox, receives, wire, created>>
  PROVE  HttpInv'
<1>0. /\ Shapes /\ Objects /\ Queues /\ Chunks /\ Frames
      /\ Live \subseteq Conns /\ DOMAIN conn = Conns
      /\ \A d \in Live : conn[d].sock \in Sockets /\ sock[conn[d].sock] \in {"open", "closed"}
      /\ \A d \in Conns : DOMAIN conn[d] = Fields
      /\ \A t \in tasks : t[1] \in Live
  BY Known
<1>1. /\ Objects' /\ DOMAIN conn' = Conns
      /\ conn'[c] = k /\ \A d \in Conns \ {c} : conn'[d] = conn[d]
  <2>1. ConnOK(c)
    BY <1>0 DEF Objects
  <2>. QED
    BY <1>0, <2>1, Replaced DEF ConnOK
<1>2. Shapes'
  BY <1>0, <1>1 DEF Shapes, listener
<1>3. Queues'
  BY <1>0, <1>1, QueuesKept
<1>4. Chunks'
  <2>1. \A d \in Conns, x \in Chunk : <<d, x>> \in tasks' <=> <<d, x>> \in tasks
    OBVIOUS
  <2>2. \A t \in tasks' : t[1] \in Live
    BY <1>0
  <2>3. \A d \in Conns : /\ d \in Live => conn'[d].sock = conn[d].sock
                         /\ conn'[d].held = conn[d].held /\ conn'[d].seen = conn[d].seen
                         /\ conn'[d].chain = "handling" <=> conn[d].chain = "handling"
    BY <1>1
  <2>. QED
    BY <1>0, <2>1, <2>2, <2>3, ChunksKept
<1>5. Frames'
  BY <1>0, <1>1, FramesKept
<1>. QED
  BY <1>1, <1>2, <1>3, <1>4, <1>5 DEF HttpInv

(* The promise is settled by an error or shown to the program; set(),      *)
(* status() and write() of the response; a header that is not written.     *)
LEMMA AsideKeeps ==
  ASSUME HttpInv, NEW c \in Live,
         Error(c) \/ Present(c) \/ Set(c) \/ Status(c) \/ Write(c) \/ EndWriteFails(c)
  PROVE  HttpInv'
<1>0. /\ Shapes /\ Objects /\ Queues /\ Chunks /\ Frames
      /\ Live \subseteq Conns /\ DOMAIN conn = Conns
      /\ \A d \in Live : conn[d].sock \in Sockets /\ sock[conn[d].sock] \in {"open", "closed"}
      /\ \A d \in Conns : DOMAIN conn[d] = Fields
      /\ \A t \in tasks : t[1] \in Live
  BY Known
<1>1. ConnOK(c) /\ sets \in Nat
  BY <1>0 DEF Objects, Shapes
<1>2. UNCHANGED <<listener, sock, peer, sent, inbox, receives, wire, created>>
  BY DEF Error, Present, Set, Status, Write, EndWriteFails, client
<1>3. CASE Error(c)
  <2>1. PICK k : k = Settle(conn[c], "rejected")
    OBVIOUS
  <2>2. conn' = [conn EXCEPT ![c] = k] /\ tasks' = tasks \ {<<c, ErrorEvent>>} /\ sets' = sets
    BY <1>3, <2>1 DEF Error, client
  <2>3. /\ DOMAIN k = Fields /\ k.promise \in {"pending", "resolved", "rejected"}
        /\ k.sock = conn[c].sock /\ k.chain = conn[c].chain /\ k.held = conn[c].held
        /\ k.seen = conn[c].seen /\ k.self = conn[c].self /\ k.parser = conn[c].parser
        /\ k.shown = conn[c].shown /\ k.myRes = conn[c].myRes
        /\ k.headersSent = conn[c].headersSent /\ k.writing = conn[c].writing
    BY <1>0, <1>1, <2>1 DEF Settle, ConnOK, Fields
  <2>4. ErrorEvent \notin Chunk
    BY HttpBounds DEF ErrorEvent, Chunk
  <2>5. /\ tasks' \subseteq tasks /\ \A x \in Chunk : <<c, x>> \in tasks => <<c, x>> \in tasks'
        /\ \A t \in tasks : t[1] # c => t \in tasks'
    BY <2>2, <2>4
  <2>6. /\ k.shown \in {"none", "connection", "error"} /\ k.myRes \in SUBSET Nat /\ sets' \in Nat
        /\ conn' = [conn EXCEPT ![c] = k]
    BY <1>1, <2>2, <2>3 DEF ConnOK
  <2>. QED
    BY <1>2, <2>3, <2>5, <2>6, Aside, ZenonT(60)
<1>4. CASE Present(c)
  <2>1. PICK k : k = [conn[c] EXCEPT !.shown = IF conn[c].promise = "resolved" THEN "connection" ELSE "error"]
    OBVIOUS
  <2>2. conn' = [conn EXCEPT ![c] = k] /\ tasks' = tasks /\ sets' = sets
    BY <1>4, <2>1 DEF Present, client
  <2>3. /\ DOMAIN k = Fields /\ k.shown \in {"none", "connection", "error"}
        /\ k.sock = conn[c].sock /\ k.chain = conn[c].chain /\ k.held = conn[c].held
        /\ k.seen = conn[c].seen /\ k.self = conn[c].self /\ k.parser = conn[c].parser
        /\ k.promise = conn[c].promise /\ k.myRes = conn[c].myRes
        /\ k.headersSent = conn[c].headersSent /\ k.writing = conn[c].writing
    BY <1>0, <1>1, <2>1 DEF ConnOK, Fields
  <2>. QED
    BY <1>1, <1>2, <2>2, <2>3, Aside, ZenonT(60) DEF ConnOK
<1>5. CASE Set(c)
  <2>1. PICK k : k = [conn[c] EXCEPT !.myRes = @ \cup {sets}]
    OBVIOUS
  <2>2. conn' = [conn EXCEPT ![c] = k] /\ tasks' = tasks /\ sets' = sets + 1 /\ ~ conn[c].headersSent
    BY <1>5, <2>1 DEF Set, HeadersOpen
  <2>3. /\ DOMAIN k = Fields /\ k.myRes = conn[c].myRes \cup {sets}
        /\ k.sock = conn[c].sock /\ k.chain = conn[c].chain /\ k.held = conn[c].held
        /\ k.seen = conn[c].seen /\ k.self = conn[c].self /\ k.parser = conn[c].parser
        /\ k.promise = conn[c].promise /\ k.shown = conn[c].shown
        /\ k.headersSent = conn[c].headersSent /\ k.writing = conn[c].writing
    BY <1>0, <1>1, <2>1 DEF ConnOK, Fields
  <2>4. k.myRes \in SUBSET Nat /\ sets' \in Nat
    BY <1>1, <2>2, <2>3 DEF ConnOK
  <2>. QED
    BY <1>1, <1>2, <2>2, <2>3, <2>4, Aside DEF ConnOK
<1>6. CASE Status(c)
  <2>1. PICK k : k = [conn[c] EXCEPT !.myStatus = 404]
    OBVIOUS
  <2>2. conn' = [conn EXCEPT ![c] = k] /\ tasks' = tasks /\ sets' = sets + 1
    BY <1>6, <2>1 DEF Status
  <2>3. /\ DOMAIN k = Fields /\ k.myRes = conn[c].myRes
        /\ k.sock = conn[c].sock /\ k.chain = conn[c].chain /\ k.held = conn[c].held
        /\ k.seen = conn[c].seen /\ k.self = conn[c].self /\ k.parser = conn[c].parser
        /\ k.promise = conn[c].promise /\ k.shown = conn[c].shown
        /\ k.headersSent = conn[c].headersSent /\ k.writing = conn[c].writing
    BY <1>0, <1>1, <2>1 DEF ConnOK, Fields
  <2>4. sets' \in Nat
    BY <1>1, <2>2
  <2>. QED
    BY <1>1, <1>2, <2>2, <2>3, <2>4, Aside, ZenonT(60) DEF ConnOK
<1>7. CASE Write(c)
  <2>1. PICK k : k = [conn[c] EXCEPT !.writing = TRUE]
    OBVIOUS
  <2>2. conn' = [conn EXCEPT ![c] = k] /\ tasks' = tasks /\ sets' = sets /\ conn[c].self = "set"
    BY <1>7, <2>1 DEF Write, Usable, client
  <2>3. /\ DOMAIN k = Fields /\ k.myRes = conn[c].myRes
        /\ k.sock = conn[c].sock /\ k.chain = conn[c].chain /\ k.held = conn[c].held
        /\ k.seen = conn[c].seen /\ k.self = conn[c].self /\ k.parser = conn[c].parser
        /\ k.promise = conn[c].promise /\ k.shown = conn[c].shown
        /\ k.headersSent = conn[c].headersSent
    BY <1>0, <1>1, <2>1 DEF ConnOK, Fields
  <2>. QED
    BY <1>1, <1>2, <2>2, <2>3, Aside, ZenonT(60) DEF ConnOK
<1>8. CASE EndWriteFails(c)
  <2>1. PICK k : k = [conn[c] EXCEPT !.headersSent = TRUE]
    OBVIOUS
  <2>2. conn' = [conn EXCEPT ![c] = k] /\ tasks' = tasks /\ sets' = sets /\ peer[conn[c].sock] = "gone"
    BY <1>8, <2>1 DEF EndWriteFails, client
  <2>3. /\ DOMAIN k = Fields /\ k.myRes = conn[c].myRes
        /\ k.sock = conn[c].sock /\ k.chain = conn[c].chain /\ k.held = conn[c].held
        /\ k.seen = conn[c].seen /\ k.self = conn[c].self /\ k.parser = conn[c].parser
        /\ k.promise = conn[c].promise /\ k.shown = conn[c].shown
        /\ k.headersSent = TRUE /\ k.writing = conn[c].writing
    BY <1>0, <1>1, <2>1 DEF ConnOK, Fields
  <2>. QED
    BY <1>1, <1>2, <2>2, <2>3, Aside DEF ConnOK
<1>. QED
  BY <1>3, <1>4, <1>5, <1>6, <1>7, <1>8

-----------------------------------------------------------------------------
(* The response. *)

(* What a connection that may write sends next: the rest of a response     *)
(* whose header is out, or a header or whole response.                     *)
Sendable(c, items) ==
  \/ /\ conn[c].headersSent
     /\ Len(items) = 1 /\ items[1] \in {"chunk", "last"}
  \/ /\ ~ conn[c].headersSent
     /\ \/ Len(items) = 1 /\ items[1] = "whole"
        \/ Len(items) = 2 /\ items[1] = "header" /\ items[2] \in {"chunk", "last"}

(* It is sent where a response may begin or go on: the response is framed. *)
LEMMA Delivers ==
  ASSUME HttpInv, NEW c \in Live, conn[c].self = "set", NEW items, Sendable(c, items),
         Deliver(c, items), NEW s, s = conn[c].sock
  PROVE  /\ wire' \in [Sockets -> Seq(Item)]
         /\ \A t \in Sockets \ {s} : wire'[t] = wire[t]
         /\ ~ (sock[s] = "open" /\ peer[s] = "up") => wire'[s] = wire[s]
         /\ sock[s] = "open" /\ peer[s] = "up" =>
              /\ Len(wire'[s]) \in 1..Len(wire'[s])
              /\ wire'[s][Len(wire'[s])][1] = c
              /\ wire'[s][Len(wire'[s])][2] = items[Len(items)]
         /\ \A i \in 1..Len(wire'[s]) :
              \/ wire'[s][i][1] = c /\ sock[s] = "open"
              \/ i \in 1..Len(wire[s]) /\ wire'[s][i] = wire[s][i]
         /\ WellFramed(wire'[s])
<1>0. /\ Shapes /\ Frames /\ Live \subseteq Conns /\ s \in Sockets
      /\ wire[s] \in Seq(Item) /\ Written(s) /\ Frame(s) /\ Writer(c)
      /\ conn[c].myRes \in SUBSET Nat
  BY Known DEF Shapes, Frames, Objects, ConnOK
<1>0a. PICK size :
         /\ size \in [1..Len(items) -> {"full", "short"}]
         /\ wire' = [wire EXCEPT ![s] = IF sock[s] = "open" /\ peer[s] = "up"
              THEN @ \o [i \in 1..Len(items) |-> <<c, items[i], conn[c].myRes, size[i]>>] ELSE @]
  BY DEF Deliver
<1>1. CASE ~ (sock[s] = "open" /\ peer[s] = "up")
  <2>1. wire' = [wire EXCEPT ![s] = wire[s]]
    BY <1>0a, <1>1
  <2>2. \A t \in Sockets : wire'[t] = wire[t]
    BY <1>0, <2>1 DEF Shapes
  <2>3. wire' \in [Sockets -> Seq(Item)]
    BY <1>0, <2>1 DEF Shapes
  <2>4. WellFramed(wire'[s])
    <3>1. wire'[s] = wire[s]
      BY <1>0, <2>2
    <3>. QED
      BY <1>0, <3>1 DEF Frame
  <2>. QED
    BY <1>0, <1>1, <2>2, <2>3, <2>4
<1>2. CASE sock[s] = "open" /\ peer[s] = "up"
  <2>0. Ended(s) <=> ~ conn[c].headersSent
    <3>1. conn[c].headersSent => ~ Ended(s)
      BY <1>0, <1>2 DEF Writer
    <3>2. ASSUME ~ Ended(s) PROVE conn[c].headersSent
      <4>1. Len(wire[s]) \in 1..Len(wire[s])
        BY <1>0, <3>2 DEF Ended
      <4>2. PICK d : d = wire[s][Len(wire[s])][1]
        BY SMTT(30)
      <4>3. d \in Live /\ conn[d].headersSent /\ conn[d].sock = s /\ conn[d].self = "set"
        BY <1>0, <1>2, <3>2, <4>1, <4>2 DEF Written
      <4>4. d = c
        BY <1>0, <4>3 DEF Frames
      <4>. QED
        BY <4>3, <4>4
    <3>. QED
      BY <3>1, <3>2
  <2>1. PICK m : m = conn[c].myRes
    OBVIOUS
  <2>2. PICK q : q = wire[s]
    OBVIOUS
  <2>3. PICK r : r = q \o [i \in 1..Len(items) |-> <<c, items[i], m, size[i]>>]
    OBVIOUS
  <2>4. wire' = [wire EXCEPT ![s] = r]
    BY <1>0a, <1>2, <2>1, <2>2, <2>3
  <2>5. /\ q \in Seq(Item) /\ Len(q) \in Nat
        /\ Len(items) \in {1, 2} /\ r \in Seq(Item) /\ Len(r) = Len(q) + Len(items)
        /\ \A i \in 1..Len(q) : r[i] = q[i]
        /\ \A i \in 1..Len(items) : r[Len(q) + i] = <<c, items[i], m, size[i]>>
    <3>1. /\ Len(items) \in {1, 2}
          /\ \A i \in 1..Len(items) : items[i] \in {"header", "chunk", "last", "whole"}
      BY DEF Sendable
    <3>2. PICK e : e = [i \in 1..Len(items) |-> <<c, items[i], m, size[i]>>]
      OBVIOUS
    <3>3. e \in Seq(Item) /\ Len(e) = Len(items) /\ \A i \in 1..Len(items) : e[i] = <<c, items[i], m, size[i]>>
      BY <1>0, <1>0a, <2>1, <3>1, <3>2 DEF Item
    <3>4. r = q \o e /\ q \in Seq(Item)
      BY <1>0, <2>2, <2>3, <3>2
    <3>5. /\ Len(q) \in Nat /\ Len(e) \in Nat /\ r \in Seq(Item) /\ Len(r) = Len(q) + Len(e)
          /\ \A i \in 1..Len(q) : r[i] = q[i]
          /\ \A i \in 1..Len(e) : r[Len(q) + i] = e[i]
      <4>1. r = q \o e /\ q \in Seq(Item) /\ e \in Seq(Item)
        BY <3>3, <3>4
      <4>. QED
        BY <4>1
    <3>. QED
      BY <3>1, <3>3, <3>4, <3>5
  <2>5a. \A i \in 1..Len(q) : i # 1 => i - 1 \in 1..Len(q) /\ r[i - 1] = q[i - 1]
    <3>1. \A n \in Nat : \A i \in 1..n : i # 1 => i - 1 \in 1..n
      OBVIOUS
    <3>. QED
      BY <2>5, <3>1
  <2>5b. Len(q) # 0 => r[Len(q)] = q[Len(q)]
    <3>1. Len(q) # 0 => Len(q) \in 1..Len(q)
      BY <2>5
    <3>. QED
      BY <2>5, <3>1
  <2>6. /\ wire'[s] = r /\ wire' \in [Sockets -> Seq(Item)]
        /\ \A t \in Sockets \ {s} : wire'[t] = wire[t]
    BY <1>0, <2>4, <2>5 DEF Shapes
  <2>7. /\ Len(r) \in 1..Len(r) /\ r[Len(r)][1] = c /\ r[Len(r)][2] = items[Len(items)]
    <3>1. Len(items) \in 1..Len(items) /\ r[Len(r)] = <<c, items[Len(items)], m, size[Len(items)]>>
      <4>1. Len(items) = 1 \/ Len(items) = 2
        BY <2>5
      <4>2. Len(items) \in 1..Len(items)
        <5>1. CASE Len(items) = 1
          BY <5>1
        <5>2. CASE Len(items) = 2
          BY <5>2
        <5>. QED
          BY <4>1, <5>1, <5>2
      <4>3. r[Len(q) + Len(items)] = <<c, items[Len(items)], m, size[Len(items)]>>
        BY <2>5, <4>2
      <4>4. Len(r) = Len(q) + Len(items)
        BY <2>5
      <4>. QED
        BY <4>2, <4>3, <4>4, Zenon
    <3>. QED
      BY <2>5, <3>1
  <2>8. \A i \in 1..Len(r) : r[i][1] = c \/ (i \in 1..Len(q) /\ r[i] = q[i])
    <3>1. \A i \in 1..Len(r) : i \in 1..Len(q) \/ (i - Len(q) \in 1..Len(items) /\ i = Len(q) + (i - Len(q)))
      BY <2>5
    <3>2. \A i \in 1..Len(items) : r[Len(q) + i][1] = c
      BY <2>5
    <3>. QED
      BY <2>5, <3>1, <3>2
  <2>9. ASSUME NEW i \in 1..Len(r)
        PROVE  LET w == r[i]
                   begins == i = 1 \/ r[i - 1][2] \in {"whole", "last"}
               IN  /\ w[2] \in {"header", "whole"} <=> begins
                   /\ ~ begins => r[i - 1][1] = w[1]
                   /\ begins => w[3] = conn[w[1]].myRes
    <3>1. CASE i \in 1..Len(q)
      <4>1. r[i] = q[i] /\ (i # 1 => r[i - 1] = q[i - 1])
        BY <2>5, <2>5a, <3>1
      <4>2. /\ q[i][2] \in {"header", "whole"} <=> (i = 1 \/ q[i - 1][2] \in {"whole", "last"})
            /\ ~ (i = 1 \/ q[i - 1][2] \in {"whole", "last"}) => q[i - 1][1] = q[i][1]
            /\ (i = 1 \/ q[i - 1][2] \in {"whole", "last"}) => q[i][3] = conn[q[i][1]].myRes
        BY <1>0, <2>2, <3>1 DEF Frame, WellFramed
      <4>3. CASE i = 1
        BY <4>1, <4>2, <4>3
      <4>4. CASE i # 1
        BY <4>1, <4>2, <4>4
      <4>. QED
        BY <4>3, <4>4
    <3>2. CASE i = Len(q) + 1
      <4>1. r[i] = <<c, items[1], m, size[1]>>
        BY <2>5, <3>2
      <4>2. r[i][1] = c /\ r[i][2] = items[1] /\ r[i][3] = m
        BY <4>1
      <4>3. CASE conn[c].headersSent
        <5>1. items[1] \in {"chunk", "last"}
          BY <4>3 DEF Sendable
        <5>2. ~ Ended(s) /\ q # << >> /\ q[Len(q)][1] = c /\ q[Len(q)][2] \notin {"last", "whole"}
          BY <1>0, <1>2, <2>0, <2>2, <4>3 DEF Writer, Ended
        <5>3. Len(q) # 0 /\ i # 1 /\ i - 1 = Len(q)
          BY <2>5, <3>2, <5>2
        <5>3a. r[i - 1] = q[Len(q)]
          BY <2>5b, <5>3
        <5>. QED
          BY <4>2, <5>1, <5>2, <5>3, <5>3a
      <4>4. CASE ~ conn[c].headersSent
        <5>1. items[1] \in {"header", "whole"}
          BY <4>4 DEF Sendable
        <5>2. q = << >> \/ q[Len(q)][2] \in {"last", "whole"}
          BY <2>0, <2>2, <4>4 DEF Ended
        <5>3. i = 1 \/ r[i - 1][2] \in {"whole", "last"}
          <6>1. CASE q = << >>
            BY <2>5, <3>2, <6>1
          <6>2. CASE q # << >> /\ q[Len(q)][2] \in {"last", "whole"}
            <7>1. r[i - 1] = q[Len(q)]
              BY <2>5, <3>2, <6>2
            <7>. QED
              BY <6>2, <7>1
          <6>. QED
            BY <5>2, <6>1, <6>2
        <5>. QED
          BY <2>1, <4>2, <5>1, <5>3
      <4>. QED
        BY <4>3, <4>4
    <3>3. CASE i = Len(q) + 2
      <4>1. Len(items) = 2 /\ items[1] = "header" /\ items[2] \in {"chunk", "last"}
        BY <2>5, <3>3 DEF Sendable
      <4>2. r[i] = <<c, items[2], m, size[2]>> /\ r[i - 1] = <<c, items[1], m, size[1]>> /\ i # 1
        BY <2>5, <3>3, <4>1
      <4>3. r[i][1] = c /\ r[i][2] = items[2] /\ r[i - 1][1] = c /\ r[i - 1][2] = "header"
        BY <4>1, <4>2
      <4>. QED
        BY <4>1, <4>2, <4>3
    <3>4. i \in 1..Len(q) \/ i = Len(q) + 1 \/ i = Len(q) + 2
      <4>1. CASE Len(items) = 1
        BY <2>5, <4>1
      <4>2. CASE Len(items) = 2
        BY <2>5, <4>2
      <4>. QED
        BY <2>5, <4>1, <4>2
    <3>. QED
      BY <3>1, <3>2, <3>3, <3>4
  <2>10. WellFramed(r)
    BY <2>9 DEF WellFramed
  <2>. QED
    BY <1>2, <2>2, <2>6, <2>7, <2>8, <2>10
<1>. QED
  BY <1>1, <1>2

(* After a delivery whose last item is y: the response goes on and its     *)
(* connection may write, or it is over and its connection may not, and at  *)
(* most one new connection of the socket may.                              *)
LEMMA FramesWritten ==
  ASSUME HttpInv, NEW c \in Live, conn[c].self = "set", NEW s, s = conn[c].sock, NEW y,
         wire' \in [Sockets -> Seq(Item)], \A t \in Sockets \ {s} : wire'[t] = wire[t],
         sock[s] = "open" /\ peer[s] = "up" =>
              /\ Len(wire'[s]) \in 1..Len(wire'[s])
              /\ wire'[s][Len(wire'[s])][1] = c
              /\ wire'[s][Len(wire'[s])][2] = y,
         \A i \in 1..Len(wire'[s]) :
              \/ wire'[s][i][1] = c /\ sock[s] = "open"
              \/ i \in 1..Len(wire[s]) /\ wire'[s][i] = wire[s][i],
         WellFramed(wire'[s]),
         UNCHANGED peer, \A t \in Sockets : sock'[t] = "open" => sock[t] = "open",
         Live \subseteq Live',
         \A d \in Live \ {c} : /\ conn'[d].sock = conn[d].sock /\ conn'[d].self = conn[d].self
                               /\ conn'[d].headersSent = conn[d].headersSent
                               /\ conn'[d].writing = conn[d].writing /\ conn'[d].myRes = conn[d].myRes,
         conn'[c].sock = s, conn'[c].myRes = conn[c].myRes, conn'[c].headersSent = TRUE,
         ~ conn'[c].writing,
         \/ y = "chunk" /\ conn'[c].self = "set" /\ Live' = Live
         \/ y \in {"last", "whole"} /\ conn'[c].self = "cleared",
         \A d \in Live' \ Live : conn'[d].sock = s /\ conn'[d].headersSent = FALSE /\ conn'[d].writing = FALSE,
         \A d, e \in Live' \ Live : d = e
  PROVE  Frames'
<1>0. /\ Shapes /\ Objects /\ Queues /\ Chunks /\ Frames
      /\ Live \subseteq Conns /\ DOMAIN conn = Conns
      /\ \A d \in Live : conn[d].sock \in Sockets /\ sock[conn[d].sock] \in {"open", "closed"}
      /\ \A d \in Conns : DOMAIN conn[d] = Fields
      /\ \A t \in tasks : t[1] \in Live
  BY Known
<1>1. /\ s \in Sockets /\ wire[s] \in Seq(Item) /\ Written(s)
      /\ \A d, e \in Live : conn[d].sock = conn[e].sock /\ conn[d].self = "set" /\ conn[e].self = "set" => d = e
  BY <1>0 DEF Frames, Shapes
<1>2. \A d \in Live \ {c} : conn[d].sock = s => conn[d].self # "set"
  BY <1>1
<1>3. \A d, e \in Live' : conn'[d].sock = conn'[e].sock /\ conn'[d].self = "set" /\ conn'[e].self = "set" => d = e
  <2>. SUFFICES ASSUME NEW d \in Live', NEW e \in Live',
                       conn'[d].sock = conn'[e].sock, conn'[d].self = "set", conn'[e].self = "set"
                PROVE  d = e
    OBVIOUS
  <2>1. CASE d \in Live /\ e \in Live
    BY <1>1, <2>1
  <2>2. CASE d \in Live' \ Live /\ e \in Live' \ Live
    BY <2>2
  <2>3. CASE d \in Live' \ Live /\ e \in Live
    BY <1>2, <2>3
  <2>4. CASE e \in Live' \ Live /\ d \in Live
    BY <1>2, <2>4
  <2>. QED
    BY <2>1, <2>2, <2>3, <2>4
<1>4. ASSUME NEW d \in Live' PROVE Writer(d)'
  <2>1. CASE d = c
    <3>1. conn'[d].self = "set" /\ sock'[s] = "open" /\ peer'[s] = "up" =>
            ~ Ended(s)' /\ wire'[s][Len(wire'[s])][1] = c
      BY <1>1, <2>1 DEF Ended
    <3>. QED
      BY <2>1, <3>1 DEF Writer
  <2>2. CASE d \in Live \ {c}
    <3>1. CASE conn[d].sock = s
      BY <1>0, <1>2, <2>2, <3>1 DEF Frames, Writer
    <3>2. CASE conn[d].sock # s
      <4>1. Writer(d) /\ conn[d].sock \in Sockets /\ wire'[conn[d].sock] = wire[conn[d].sock]
        BY <1>0, <2>2, <3>2 DEF Frames
      <4>. QED
        BY <2>2, <4>1 DEF Writer, Ended
    <3>. QED
      BY <3>1, <3>2
  <2>3. CASE d \in Live' \ Live
    BY <2>3 DEF Writer
  <2>. QED
    BY <2>1, <2>2, <2>3
<1>5. ASSUME NEW t \in Sockets \ {s} PROVE Written(t)' /\ Frame(t)'
  <2>1. /\ Written(t) /\ Frame(t) /\ wire[t] \in Seq(Item) /\ wire'[t] = wire[t]
    BY <1>0 DEF Frames, Shapes
  <2>2. \A i \in 1..Len(wire[t]) :
          LET d == wire[t][i][1]
          IN  /\ d \in Live /\ d # c /\ conn'[d].headersSent /\ conn'[d].sock = t
              /\ conn'[d].self = conn[d].self /\ conn'[d].myRes = conn[d].myRes
    BY <2>1, SMTT(30) DEF Written
  <2>3. ~ Ended(t) => Len(wire[t]) \in 1..Len(wire[t])
    BY <2>1 DEF Ended
  <2>4. Ended(t)' <=> Ended(t)
    BY <2>1 DEF Ended
  <2>5. ~ Ended(t) /\ sock'[t] = "open" /\ peer'[t] = "up" => conn'[wire[t][Len(wire[t])][1]].self = "set"
    BY <2>1, <2>2, <2>3 DEF Written
  <2>6. Written(t)'
    BY <2>1, <2>2, <2>4, <2>5, SMTT(30) DEF Written
  <2>7. Frame(t)'
    BY <2>1, <2>2 DEF Frame, WellFramed
  <2>. QED
    BY <2>6, <2>7
<1>6. Written(s)' /\ Frame(s)'
  <2>1. \A i \in 1..Len(wire[s]) :
          wire[s][i][1] \in Live /\ conn[wire[s][i][1]].headersSent /\ conn[wire[s][i][1]].sock = s
    BY <1>1 DEF Written
  <2>2. ASSUME NEW d \in Live, conn[d].headersSent, conn[d].sock = s
        PROVE  d \in Live' /\ conn'[d].headersSent /\ conn'[d].sock = s /\ conn'[d].myRes = conn[d].myRes
    <3>1. CASE d = c
      BY <3>1
    <3>2. CASE d # c
      BY <2>2, <3>2, SMTT(30)
    <3>. QED
      BY <3>1, <3>2
  <2>3. ASSUME NEW i \in 1..Len(wire'[s])
        PROVE  LET d == wire'[s][i][1]
               IN  d \in Live' /\ conn'[d].headersSent /\ conn'[d].sock = s /\ conn'[d].myRes = conn[d].myRes
    <3>1. CASE wire'[s][i][1] = c
      BY <3>1, SMTT(30)
    <3>2. CASE i \in 1..Len(wire[s]) /\ wire'[s][i] = wire[s][i]
      BY <2>1, <2>2, <3>2, SMTT(30)
    <3>. QED
      BY <3>1, <3>2
  <2>4. (~ Ended(s))' /\ sock'[s] = "open" /\ peer'[s] = "up" => conn'[wire'[s][Len(wire'[s])][1]].self = "set"
    BY <1>1 DEF Ended
  <2>5. Written(s)'
    BY <2>3, <2>4, ZenonT(60) DEF Written
  <2>6. Frame(s)'
    <3>1. PICK q : q = wire'[s]
      OBVIOUS
    <3>2. WellFramed(q) /\ \A i \in 1..Len(q) : conn'[q[i][1]].myRes = conn[q[i][1]].myRes
      BY <2>3, <3>1
    <3>3. ASSUME NEW i \in 1..Len(q)
          PROVE  LET w == q[i]
                     begins == i = 1 \/ q[i - 1][2] \in {"whole", "last"}
                 IN  /\ w[2] \in {"header", "whole"} <=> begins
                     /\ ~ begins => q[i - 1][1] = w[1]
                     /\ begins => w[3] = conn'[w[1]].myRes
      BY <3>2 DEF WellFramed
    <3>. QED
      BY <3>1, <3>3, ZenonT(60) DEF Frame, WellFramed
  <2>. QED
    BY <2>5, <2>6, SMTT(30)
<1>. QED
  BY <1>3, <1>4, <1>5, <1>6 DEF Frames

(* A response that is not whole is sent in parts: its header, once, goes   *)
(* with the first.                                                         *)
LEMMA Parted ==
  ASSUME NEW c, NEW y, y \in {"chunk", "last"}, NEW items, items = Append(Header(c), y)
  PROVE  Sendable(c, items) /\ items[Len(items)] = y
<1>1. CASE conn[c].headersSent
  <2>1. items = <<y>>
    BY <1>1 DEF Header
  <2>2. Len(items) = 1 /\ items[1] = y
    BY <2>1
  <2>. QED
    BY <1>1, <2>1, <2>2 DEF Sendable
<1>2. CASE ~ conn[c].headersSent
  <2>1. items = Append(<<"header">>, y)
    BY <1>2 DEF Header
  <2>2. Len(items) = 2 /\ items[1] = "header" /\ items[2] = y
    BY <2>1
  <2>. QED
    BY <1>2, <2>2 DEF Sendable
<1>. QED
  BY <1>1, <1>2

(* A write reaches the socket, or finds it closed. *)
LEMMA WriteTaskKeeps ==
  ASSUME HttpInv, NEW c \in Live, WriteTask(c)
  PROVE  HttpInv'
<1>0. /\ Shapes /\ Objects /\ Queues /\ Chunks /\ Frames
      /\ Live \subseteq Conns /\ DOMAIN conn = Conns
      /\ \A d \in Live : conn[d].sock \in Sockets /\ sock[conn[d].sock] \in {"open", "closed"}
      /\ \A d \in Conns : DOMAIN conn[d] = Fields
      /\ \A t \in tasks : t[1] \in Live
  BY Known
<1>1. /\ ConnOK(c) /\ conn[c].writing /\ conn[c].self = "set" /\ c \in Conns
      /\ UNCHANGED <<listener, sock, peer, sent, sets, inbox, receives, created, tasks>>
  BY <1>0 DEF Objects, WriteTask, Frames, Writer, client
<1>2. CASE sock[conn[c].sock] # "open"
  <2>1. PICK k : k = [conn[c] EXCEPT !.writing = FALSE]
    OBVIOUS
  <2>2. conn' = [conn EXCEPT ![c] = k] /\ wire' = wire
    BY <1>2, <2>1 DEF WriteTask
  <2>3. /\ DOMAIN k = Fields /\ k.myRes = conn[c].myRes
        /\ k.sock = conn[c].sock /\ k.chain = conn[c].chain /\ k.held = conn[c].held
        /\ k.seen = conn[c].seen /\ k.self = conn[c].self /\ k.parser = conn[c].parser
        /\ k.promise = conn[c].promise /\ k.shown = conn[c].shown
        /\ k.headersSent = conn[c].headersSent
    BY <1>0, <1>1, <2>1 DEF ConnOK, Fields
  <2>4. sets' \in Nat /\ k.writing = FALSE
    BY <1>0, <1>1, <2>1 DEF Shapes, ConnOK, Fields
  <2>. QED
    BY <1>1, <2>2, <2>3, <2>4, Aside DEF ConnOK
<1>3. CASE sock[conn[c].sock] = "open"
  <2>1. PICK k : k = [conn[c] EXCEPT !.writing = FALSE, !.headersSent = TRUE]
    OBVIOUS
  <2>2. PICK items : items = Append(Header(c), "chunk")
    OBVIOUS
  <2>3. conn' = [conn EXCEPT ![c] = k] /\ Deliver(c, items)
    BY <1>3, <2>1, <2>2 DEF WriteTask
  <2>4. /\ DOMAIN k = Fields /\ k.myRes = conn[c].myRes
        /\ k.sock = conn[c].sock /\ k.chain = conn[c].chain /\ k.held = conn[c].held
        /\ k.seen = conn[c].seen /\ k.self = "set" /\ k.parser = conn[c].parser
        /\ k.promise = conn[c].promise /\ k.shown = conn[c].shown
        /\ k.headersSent = TRUE /\ k.writing = FALSE
    BY <1>0, <1>1, <2>1 DEF ConnOK, Fields
  <2>5. Sendable(c, items) /\ items[Len(items)] = "chunk"
    BY <2>2, Parted
  <2>6. PICK s : s = conn[c].sock
    OBVIOUS
  <2>7. /\ wire' \in [Sockets -> Seq(Item)]
        /\ \A t \in Sockets \ {s} : wire'[t] = wire[t]
        /\ sock[s] = "open" /\ peer[s] = "up" =>
              /\ Len(wire'[s]) \in 1..Len(wire'[s])
              /\ wire'[s][Len(wire'[s])][1] = c
              /\ wire'[s][Len(wire'[s])][2] = "chunk"
        /\ \A i \in 1..Len(wire'[s]) :
              \/ wire'[s][i][1] = c /\ sock[s] = "open"
              \/ i \in 1..Len(wire[s]) /\ wire'[s][i] = wire[s][i]
        /\ WellFramed(wire'[s])
    BY <1>1, <2>3, <2>5, <2>6, Delivers
  <2>8. /\ Objects' /\ DOMAIN conn' = Conns
        /\ conn'[c] = k /\ \A d \in Conns \ {c} : conn'[d] = conn[d]
    BY <1>0, <1>1, <2>3, <2>4, Replaced DEF ConnOK
  <2>9. Shapes'
    BY <1>0, <1>1, <2>7, <2>8 DEF Shapes, listener
  <2>10. Queues'
    BY <1>0, <1>1, <2>4, <2>8, QueuesKept
  <2>11. Chunks'
    BY <1>0, <1>1, <2>4, <2>8, ChunksKept
  <2>12. Live' = Live
    BY <1>1 DEF Live
  <2>13. Frames'
    <3>1. /\ peer' = peer /\ \A t \in Sockets : sock'[t] = "open" => sock[t] = "open"
          /\ \A d \in Live \ {c} : /\ conn'[d].sock = conn[d].sock /\ conn'[d].self = conn[d].self
                                   /\ conn'[d].headersSent = conn[d].headersSent
                                   /\ conn'[d].writing = conn[d].writing /\ conn'[d].myRes = conn[d].myRes
          /\ conn'[c].sock = s /\ conn'[c].myRes = conn[c].myRes /\ conn'[c].headersSent = TRUE
          /\ conn'[c].writing = FALSE /\ conn'[c].self = "set"
      BY <1>0, <1>1, <2>4, <2>6, <2>8
    <3>. QED
      BY <1>1, <2>6, <2>7, <2>12, <3>1, FramesWritten
  <2>. QED
    BY <2>8, <2>9, <2>10, <2>11, <2>13 DEF HttpInv
<1>. QED
  BY <1>2, <1>3

(* The socket of connection c is closed: the chains that wait on it end,   *)
(* its queue is empty, and no chunk moves.                                 *)
LEMMA Closes ==
  ASSUME HttpInv, NEW c \in Live, NEW k, CloseSocket(c, k), DOMAIN k = Fields,
         /\ k.sock = conn[c].sock /\ k.chain = conn[c].chain /\ k.held = conn[c].held
         /\ k.seen = conn[c].seen /\ k.parser = conn[c].parser /\ k.promise = conn[c].promise
         /\ k.shown = conn[c].shown /\ k.myRes = conn[c].myRes,
         UNCHANGED <<peer, sent, inbox, tasks>>
  PROVE  /\ Objects' /\ Queues' /\ Chunks' /\ DOMAIN conn' = Conns /\ created' = created
         /\ sock' \in [Sockets -> {"idle", "waiting", "open", "closed"}]
         /\ receives' \in [Sockets -> Seq(Conns)]
         /\ \A t \in Sockets : sock'[t] = "open" => sock[t] = "open"
         /\ \A d \in Live \ {c} : /\ conn'[d].sock = conn[d].sock /\ conn'[d].self = conn[d].self
                                  /\ conn'[d].headersSent = conn[d].headersSent
                                  /\ conn'[d].writing = conn[d].writing /\ conn'[d].myRes = conn[d].myRes
         /\ conn'[c].sock = k.sock /\ conn'[c].self = k.self /\ conn'[c].headersSent = k.headersSent
         /\ conn'[c].writing = k.writing /\ conn'[c].myRes = k.myRes
<1>0. /\ Shapes /\ Objects /\ Queues /\ Chunks /\ Frames
      /\ Live \subseteq Conns /\ DOMAIN conn = Conns
      /\ \A d \in Live : conn[d].sock \in Sockets /\ sock[conn[d].sock] \in {"open", "closed"}
      /\ \A d \in Conns : DOMAIN conn[d] = Fields
      /\ \A t \in tasks : t[1] \in Live
  BY Known
<1>1. PICK s \in Sockets : s = conn[c].sock
  BY <1>0
<1>2. /\ sock' = [sock EXCEPT ![s] = "closed"] /\ receives' = [receives EXCEPT ![s] = << >>]
      /\ created' = created
  BY <1>1 DEF CloseSocket
<1>3. Live' = Live
  BY <1>2 DEF Live
<1>4. /\ sock' \in [Sockets -> {"idle", "waiting", "open", "closed"}]
      /\ sock'[s] = "closed" /\ \A t \in Sockets \ {s} : sock'[t] = sock[t]
      /\ receives' \in [Sockets -> Seq(Conns)]
      /\ receives'[s] = << >> /\ \A t \in Sockets \ {s} : receives'[t] = receives[t]
  BY <1>0, <1>2 DEF Shapes
<1>5. DOMAIN conn' = Conns
  BY DEF CloseSocket
<1>6. ASSUME NEW d \in Conns, NEW e, e = IF d = c THEN k ELSE conn[d]
      PROVE  /\ conn'[d].chain = IF d \in Live /\ e.sock = s /\ e.chain = "receive" THEN "ended" ELSE e.chain
             /\ DOMAIN conn'[d] = Fields
             /\ \A f \in Fields \ {"chain"} : conn'[d][f] = e[f]
  <2>1. conn'[d] = IF d \in Live /\ e.sock = s /\ e.chain = "receive" THEN [e EXCEPT !.chain = "ended"] ELSE e
    BY <1>1, <1>6 DEF CloseSocket
  <2>2. DOMAIN e = Fields
    BY <1>0, <1>6
  <2>3. CASE d \in Live /\ e.sock = s /\ e.chain = "receive"
    <3>1. conn'[d] = [e EXCEPT !.chain = "ended"]
      BY <2>1, <2>3
    <3>. QED
      BY <2>2, <2>3, <3>1 DEF Fields
  <2>4. CASE ~ (d \in Live /\ e.sock = s /\ e.chain = "receive")
    <3>1. conn'[d] = e
      BY <2>1, <2>4
    <3>. QED
      BY <2>2, <2>4, <3>1
  <2>. QED
    BY <2>3, <2>4
<1>7. ASSUME NEW d \in Conns
      PROVE  /\ DOMAIN conn'[d] = Fields
             /\ conn'[d].chain = IF d \in Live /\ conn[d].sock = s /\ conn[d].chain = "receive" THEN "ended" ELSE conn[d].chain
             /\ conn'[d].sock = conn[d].sock /\ conn'[d].held = conn[d].held /\ conn'[d].seen = conn[d].seen
             /\ conn'[d].parser = conn[d].parser /\ conn'[d].promise = conn[d].promise
             /\ conn'[d].shown = conn[d].shown /\ conn'[d].myRes = conn[d].myRes
             /\ d # c => conn'[d].self = conn[d].self /\ conn'[d].headersSent = conn[d].headersSent
                         /\ conn'[d].writing = conn[d].writing
             /\ d = c => conn'[d].self = k.self /\ conn'[d].headersSent = k.headersSent
                         /\ conn'[d].writing = k.writing
  <2>1. CASE d = c
    <3>1. /\ conn'[d].chain = IF d \in Live /\ k.sock = s /\ k.chain = "receive" THEN "ended" ELSE k.chain
          /\ DOMAIN conn'[d] = Fields
          /\ \A f \in Fields \ {"chain"} : conn'[d][f] = k[f]
      BY <1>6, <2>1
    <3>. QED
      BY <2>1, <3>1 DEF Fields
  <2>2. CASE d # c
    <3>1. /\ conn'[d].chain = IF d \in Live /\ conn[d].sock = s /\ conn[d].chain = "receive" THEN "ended" ELSE conn[d].chain
          /\ DOMAIN conn'[d] = Fields
          /\ \A f \in Fields \ {"chain"} : conn'[d][f] = conn[d][f]
      BY <1>6, <2>2
    <3>. QED
      BY <2>2, <3>1 DEF Fields
  <2>. QED
    BY <2>1, <2>2
<1>8. Objects'
  <2>1. ASSUME NEW d \in Conns PROVE ConnOK(d)'
    <3>1. ConnOK(d)
      BY <1>0 DEF Objects
    <3>2. d \in Live => conn'[d].sock \in Sockets /\ sock'[conn'[d].sock] \in {"open", "closed"}
      BY <1>0, <1>4, <1>7
    <3>. QED
      BY <1>3, <1>7, <3>1, <3>2 DEF ConnOK
  <2>. QED
    BY <2>1 DEF Objects
<1>9. Queues'
  <2>1. ASSUME NEW t \in Sockets PROVE Queue(t)'
    <3>1. CASE t = s
      <4>1. \A d \in Live : ~ (conn'[d].sock = t /\ conn'[d].chain = "receive")
        BY <1>0, <1>7, <3>1
      <4>2. Len(receives'[t]) = 0
        BY <1>4, <3>1
      <4>. QED
        BY <1>3, <4>1, <4>2 DEF Queue
    <3>2. CASE t # s
      <4>1. receives'[t] = receives[t] /\ Queue(t)
        BY <1>0, <1>4, <3>2 DEF Queues
      <4>2. \A d \in Live : conn'[d].sock = conn[d].sock /\ (conn[d].sock = t => conn'[d].chain = conn[d].chain)
        BY <1>0, <1>7, <3>2
      <4>. QED
        BY <1>3, <4>1, <4>2 DEF Queue
    <3>. QED
      BY <3>1, <3>2
  <2>2. Awake'
    <3>1. ASSUME NEW d \in Live, conn'[d].chain = "ended"
          PROVE  sock'[conn'[d].sock] # "open" \/ peer'[conn'[d].sock] # "up"
      <4>1. CASE conn[d].sock = s
        BY <1>0, <1>4, <1>7, <4>1
      <4>2. CASE conn[d].sock # s
        BY <1>0, <1>4, <1>7, <3>1, <4>2 DEF Queues, Awake
      <4>. QED
        BY <4>1, <4>2
    <3>. QED
      BY <1>3, <3>1 DEF Awake
  <2>. QED
    BY <2>1, <2>2 DEF Queues
<1>10. Chunks'
  <2>1. \A d \in Conns : /\ d \in Live => conn'[d].sock = conn[d].sock
                         /\ conn'[d].held = conn[d].held /\ conn'[d].seen = conn[d].seen
                         /\ conn'[d].chain = "handling" <=> conn[d].chain = "handling"
    BY <1>7
  <2>. QED
    BY <1>0, <1>2, <2>1, ChunksKept
<1>. QED
  BY <1>0, <1>1, <1>2, <1>4, <1>5, <1>7, <1>8, <1>9, <1>10

(* A program closes the connection. *)
LEMMA CloseConnectionKeeps ==
  ASSUME HttpInv, NEW c \in Live, CloseConnection(c)
  PROVE  HttpInv'
<1>0. /\ Shapes /\ Objects /\ Queues /\ Chunks /\ Frames
      /\ Live \subseteq Conns /\ DOMAIN conn = Conns
      /\ \A d \in Live : conn[d].sock \in Sockets
      /\ \A d \in Conns : DOMAIN conn[d] = Fields
  BY Known
<1>1. /\ CloseSocket(c, conn[c]) /\ DOMAIN conn[c] = Fields
      /\ UNCHANGED <<listener, peer, sent, sets, inbox, wire, tasks>>
  BY <1>0 DEF CloseConnection, client
<1>2. /\ Objects' /\ Queues' /\ Chunks' /\ DOMAIN conn' = Conns /\ created' = created
      /\ sock' \in [Sockets -> {"idle", "waiting", "open", "closed"}]
      /\ receives' \in [Sockets -> Seq(Conns)]
      /\ \A t \in Sockets : sock'[t] = "open" => sock[t] = "open"
      /\ \A d \in Live : /\ conn'[d].sock = conn[d].sock /\ conn'[d].self = conn[d].self
                         /\ conn'[d].headersSent = conn[d].headersSent
                         /\ conn'[d].writing = conn[d].writing /\ conn'[d].myRes = conn[d].myRes
  BY <1>1, Closes
<1>3. Shapes'
  BY <1>0, <1>1, <1>2 DEF Shapes, listener
<1>4. Frames'
  BY <1>0, <1>1, <1>2, FramesKept
<1>. QED
  BY <1>2, <1>3, <1>4 DEF HttpInv

(* The last item of a response is delivered and the response completed:    *)
(* the socket is closed, handed to a new connection object, or closed      *)
(* already.                                                                *)
LEMMA Completes ==
  ASSUME HttpInv, NEW c \in Live, conn[c].self = "set", ~ conn[c].writing,
         NEW items, NEW y, Sendable(c, items), items[Len(items)] = y, y \in {"last", "whole"},
         Deliver(c, items), Completed(c), UNCHANGED <<listener, peer, sent, sets, inbox, tasks>>
  PROVE  HttpInv'
<1>0. /\ Shapes /\ Objects /\ Queues /\ Chunks /\ Frames
      /\ Live \subseteq Conns /\ DOMAIN conn = Conns
      /\ \A d \in Live : conn[d].sock \in Sockets /\ sock[conn[d].sock] \in {"open", "closed"}
      /\ \A d \in Conns : DOMAIN conn[d] = Fields
      /\ \A t \in tasks : t[1] \in Live
  BY Known
<1>1. PICK s \in Sockets : s = conn[c].sock
  BY <1>0
<1>2. PICK k : k = [conn[c] EXCEPT !.headersSent = TRUE, !.self = "cleared"]
  OBVIOUS
<1>3. /\ ConnOK(c) /\ DOMAIN k = Fields /\ k.myRes = conn[c].myRes
      /\ k.sock = conn[c].sock /\ k.chain = conn[c].chain /\ k.held = conn[c].held
      /\ k.seen = conn[c].seen /\ k.parser = conn[c].parser
      /\ k.promise = conn[c].promise /\ k.shown = conn[c].shown
      /\ k.headersSent = TRUE /\ k.writing = conn[c].writing /\ k.self = "cleared"
      /\ k.keepAlive = conn[c].keepAlive
  BY <1>0, <1>2 DEF Objects, ConnOK, Fields
<1>4. /\ wire' \in [Sockets -> Seq(Item)]
      /\ \A t \in Sockets \ {s} : wire'[t] = wire[t]
      /\ sock[s] = "open" /\ peer[s] = "up" =>
            /\ Len(wire'[s]) \in 1..Len(wire'[s])
            /\ wire'[s][Len(wire'[s])][1] = c
            /\ wire'[s][Len(wire'[s])][2] = y
      /\ \A i \in 1..Len(wire'[s]) :
            \/ wire'[s][i][1] = c /\ sock[s] = "open"
            \/ i \in 1..Len(wire[s]) /\ wire'[s][i] = wire[s][i]
      /\ WellFramed(wire'[s])
  BY <1>1, Delivers
<1>5. CASE CloseSocket(c, k)
  <2>1. /\ Objects' /\ Queues' /\ Chunks' /\ DOMAIN conn' = Conns /\ created' = created
        /\ sock' \in [Sockets -> {"idle", "waiting", "open", "closed"}]
        /\ receives' \in [Sockets -> Seq(Conns)]
        /\ \A t \in Sockets : sock'[t] = "open" => sock[t] = "open"
        /\ \A d \in Live \ {c} : /\ conn'[d].sock = conn[d].sock /\ conn'[d].self = conn[d].self
                                 /\ conn'[d].headersSent = conn[d].headersSent
                                 /\ conn'[d].writing = conn[d].writing /\ conn'[d].myRes = conn[d].myRes
        /\ conn'[c].sock = k.sock /\ conn'[c].self = k.self /\ conn'[c].headersSent = k.headersSent
        /\ conn'[c].writing = k.writing /\ conn'[c].myRes = k.myRes
    BY <1>3, <1>5, Closes
  <2>2. Shapes'
    BY <1>0, <1>4, <2>1 DEF Shapes, listener
  <2>3. Live' = Live
    BY <2>1 DEF Live
  <2>4. Frames'
    <3>1. /\ conn'[c].sock = s /\ conn'[c].myRes = conn[c].myRes /\ conn'[c].headersSent = TRUE
          /\ ~ conn'[c].writing /\ conn'[c].self = "cleared" /\ peer' = peer
      BY <1>1, <1>3, <2>1
    <3>. QED
      BY <1>1, <1>4, <2>1, <2>3, <3>1, FramesWritten
  <2>. QED
    BY <2>1, <2>2, <2>4 DEF HttpInv
<1>6. CASE /\ k.keepAlive /\ sock[k.sock] = "open"
           /\ created < MaxConns
           /\ created' = created + 1
           /\ conn' = [conn EXCEPT ![c] = k, ![created + 1] = NewConn(k.sock)]
           /\ UNCHANGED <<sock, receives>>
  <2>1. PICK b : b = NewConn(s)
    OBVIOUS
  <2>2. created + 1 \in Conns /\ created + 1 \notin Live /\ created + 1 # c
    BY <1>0, <1>6, Grows
  <2>3. conn' = [conn EXCEPT ![c] = k, ![created + 1] = b]
    BY <1>1, <1>3, <1>6, <2>1
  <2>4. /\ DOMAIN conn' = Conns /\ conn'[created + 1] = b /\ conn'[c] = k
        /\ \A d \in Conns \ {c, created + 1} : conn'[d] = conn[d]
    BY <1>0, <2>2, <2>3
  <2>5. /\ \A d \in Conns \ {created + 1} : DOMAIN conn'[d] = Fields
        /\ \A d \in Conns \ (Live \cup {created + 1}) : conn'[d] = conn[d]
    BY <1>0, <1>3, <2>2, <2>4
  <2>6. \A d \in Live : /\ conn'[d].sock = conn[d].sock /\ conn'[d].chain = conn[d].chain
                        /\ conn'[d].held = conn[d].held /\ conn'[d].seen = conn[d].seen
                        /\ conn'[d].parser = conn[d].parser /\ conn'[d].promise = conn[d].promise
                        /\ conn'[d].shown = conn[d].shown /\ conn'[d].myRes = conn[d].myRes
    BY <1>0, <1>3, <2>2, <2>4
  <2>7. /\ \A d \in Live : sock'[conn[d].sock] = sock[conn[d].sock]
        /\ sock'[s] = "open" /\ UNCHANGED <<peer, sent, inbox, receives, tasks>>
    BY <1>1, <1>3, <1>6
  <2>8. /\ Objects' /\ Queues' /\ Chunks'
        /\ Live' = Live \cup {created + 1}
        /\ b.sock = s /\ b.self = "set" /\ b.headersSent = FALSE /\ b.writing = FALSE
    <3>1. created < MaxConns /\ created' = created + 1
      BY <1>6
    <3>. QED
      BY <2>1, <2>4, <2>5, <2>6, <2>7, <3>1, Born, ZenonT(60)
  <2>9. Shapes'
    <3>1. /\ created' \in Nat /\ created' <= MaxConns
      BY <1>0, <1>6, HttpBounds DEF Shapes
    <3>2. /\ UNCHANGED <<acceptor, listens, accepts, errors, sets, sock, peer, sent, inbox, receives, tasks>>
          /\ DOMAIN conn' = Conns
      BY <1>6, <2>4 DEF listener
    <3>. QED
      BY <1>0, <1>4, <3>1, <3>2 DEF Shapes
  <2>10. Frames'
    <3>1. /\ conn'[c].sock = s /\ conn'[c].myRes = conn[c].myRes /\ conn'[c].headersSent = TRUE
          /\ ~ conn'[c].writing /\ conn'[c].self = "cleared" /\ peer' = peer
          /\ \A t \in Sockets : sock'[t] = "open" => sock[t] = "open"
      BY <1>1, <1>3, <1>6, <2>4
    <3>2. \A d \in Live \ {c} : /\ conn'[d].sock = conn[d].sock /\ conn'[d].self = conn[d].self
                                /\ conn'[d].headersSent = conn[d].headersSent
                                /\ conn'[d].writing = conn[d].writing /\ conn'[d].myRes = conn[d].myRes
      BY <1>0, <2>2, <2>4
    <3>3. /\ Live \subseteq Live' /\ \A d, e \in Live' \ Live : d = e
          /\ \A d \in Live' \ Live : conn'[d].sock = s /\ conn'[d].headersSent = FALSE /\ conn'[d].writing = FALSE
      BY <2>4, <2>8
    <3>. QED
      BY <1>1, <1>4, <3>1, <3>2, <3>3, FramesWritten
  <2>. QED
    BY <2>8, <2>9, <2>10 DEF HttpInv
<1>7. CASE /\ k.keepAlive /\ sock[k.sock] # "open"
           /\ conn' = [conn EXCEPT ![c] = k]
           /\ UNCHANGED <<sock, receives, created>>
  <2>1. /\ Objects' /\ DOMAIN conn' = Conns
        /\ conn'[c] = k /\ \A d \in Conns \ {c} : conn'[d] = conn[d]
    BY <1>0, <1>3, <1>7, Replaced DEF ConnOK
  <2>2. Shapes'
    BY <1>0, <1>4, <1>7, <2>1 DEF Shapes, listener
  <2>3. Queues'
    BY <1>0, <1>3, <1>7, <2>1, QueuesKept
  <2>4. Chunks'
    BY <1>0, <1>3, <1>7, <2>1, ChunksKept
  <2>5. Live' = Live
    BY <1>7 DEF Live
  <2>6. Frames'
    <3>1. /\ conn'[c].sock = s /\ conn'[c].myRes = conn[c].myRes /\ conn'[c].headersSent = TRUE
          /\ ~ conn'[c].writing /\ conn'[c].self = "cleared" /\ peer' = peer
          /\ \A t \in Sockets : sock'[t] = "open" => sock[t] = "open"
          /\ \A d \in Live \ {c} : /\ conn'[d].sock = conn[d].sock /\ conn'[d].self = conn[d].self
                                   /\ conn'[d].headersSent = conn[d].headersSent
                                   /\ conn'[d].writing = conn[d].writing /\ conn'[d].myRes = conn[d].myRes
      BY <1>0, <1>1, <1>3, <1>7, <2>1
    <3>. QED
      BY <1>1, <1>4, <2>5, <3>1, FramesWritten
  <2>. QED
    BY <2>1, <2>2, <2>3, <2>4, <2>6 DEF HttpInv
<1>. QED
  BY <1>2, <1>5, <1>6, <1>7 DEF Completed

(* A response ends: with its last chunk, or sent whole. *)
LEMMA EndKeeps ==
  ASSUME HttpInv, NEW c \in Live, EndWrite(c) \/ Send(c)
  PROVE  HttpInv'
<1>1. /\ conn[c].self = "set" /\ ~ conn[c].writing /\ Completed(c)
      /\ UNCHANGED <<listener, peer, sent, sets, inbox, tasks>>
  BY DEF EndWrite, Send, Usable, WriteWhole, client
<1>2. CASE EndWrite(c)
  <2>1. PICK items : items = Append(Header(c), "last")
    OBVIOUS
  <2>2. Deliver(c, items) /\ Sendable(c, items) /\ items[Len(items)] = "last"
    BY <1>2, <2>1, Parted DEF EndWrite
  <2>. QED
    BY <1>1, <2>2, Completes
<1>3. CASE Send(c)
  <2>1. PICK items : items = <<"whole">>
    OBVIOUS
  <2>2. Len(items) = 1 /\ items[1] = "whole"
    BY <2>1
  <2>3. Deliver(c, items) /\ Sendable(c, items) /\ items[Len(items)] = "whole"
    BY <1>3, <2>1, <2>2 DEF Send, WriteWhole, Sendable
  <2>. QED
    BY <1>1, <2>3, Completes
<1>. QED
  BY <1>2, <1>3

-----------------------------------------------------------------------------
(* The invariant. *)

(* It holds before the server is bound. *)
LEMMA HttpInit == Init => HttpInv
<1>. SUFFICES ASSUME Init PROVE HttpInv
  OBVIOUS
<1>1. /\ acceptor = "closed" /\ listens = 0 /\ accepts = 0 /\ errors = 0
      /\ sock = [s \in Sockets |-> "idle"] /\ peer = [s \in Sockets |-> "up"]
      /\ sent = [s \in Sockets |-> << >>] /\ inbox = [s \in Sockets |-> << >>]
      /\ receives = [s \in Sockets |-> << >>] /\ wire = [s \in Sockets |-> << >>]
      /\ conn = [c \in Conns |-> NoConn] /\ created = 0 /\ sets = 0 /\ tasks = {}
  BY DEF Init
<1>2. Live = {}
  BY <1>1 DEF Live
<1>3. Shapes
  BY <1>1, HttpBounds DEF Shapes
<1>4. /\ DOMAIN NoConn = Fields /\ NoConn.chain = "none" /\ NoConn.parser = "header"
      /\ NoConn.promise = "pending" /\ NoConn.shown = "none" /\ NoConn.myRes = {}
      /\ NoConn.held = << >> /\ NoConn.seen = {}
  BY DEF NoConn, NewConn, Fields
<1>5. \A c \in Conns : conn[c] = NoConn
  BY <1>1
<1>6. Objects
  BY <1>2, <1>4, <1>5 DEF Objects, ConnOK
<1>7. \A s \in Sockets : /\ Len(sent[s]) = 0 /\ Len(inbox[s]) = 0 /\ Len(receives[s]) = 0 /\ Len(wire[s]) = 0
                         /\ wire[s] = << >>
  BY <1>1
<1>8. Queues
  BY <1>2, <1>7 DEF Queues, Queue, Awake
<1>9. Chunks
  <2>1. ASSUME NEW s \in Sockets, NEW x \in Chunk
        PROVE  ~ Sent(s, x) /\ \A where, n : ~ At(s, x, where, n)
    <3>1. Len(sent[s]) = 0 /\ Len(inbox[s]) = 0 /\ 1..0 = {}
      BY <1>7
    <3>2. ~ Sent(s, x)
      BY <3>1 DEF Sent
    <3>3. ASSUME NEW where, NEW n PROVE ~ At(s, x, where, n)
      BY <1>2, <3>1 DEF At
    <3>. QED
      BY <3>2, <3>3
  <2>2. \A s \in Sockets : Numbered(sent[s])
    BY <1>7 DEF Numbered
  <2>3. \A c \in Conns : Holding(c)
    BY <1>4, <1>5 DEF Holding
  <2>. QED
    BY <1>1, <1>4, <1>5, <2>1, <2>2, <2>3 DEF Chunks
<1>10. Frames
  BY <1>2, <1>7 DEF Frames, Written, Ended, Frame, WellFramed
<1>. QED
  BY <1>3, <1>6, <1>8, <1>9, <1>10 DEF HttpInv

(* Every step keeps it. *)
LEMMA HttpNext == HttpInv /\ [Next]_vars => HttpInv'
<1>. SUFFICES ASSUME HttpInv, [Next]_vars PROVE HttpInv'
  OBVIOUS
<1>1. CASE Bind \/ Listen
  BY <1>1, OutsideKeeps
<1>2. ASSUME NEW s \in Sockets, SocketStep(s) \/ ClientStep(s) PROVE HttpInv'
  BY <1>2, OutsideKeeps, AcceptKeeps, ReceiveKeeps, EndOfFileKeeps, ArriveKeeps DEF SocketStep, ClientStep
<1>3. ASSUME NEW c \in Live, ServerStep(c) PROVE HttpInv'
  BY <1>3, AttachKeeps, HandleKeeps, AsideKeeps, WriteTaskKeeps, DataKeeps DEF ServerStep
<1>4. ASSUME NEW c \in Live, ProgramStep(c) PROVE HttpInv'
  BY <1>4, AsideKeeps, EndKeeps, CloseConnectionKeeps DEF ProgramStep
<1>5. CASE UNCHANGED vars
  <2>1. /\ UNCHANGED <<listener, sock, peer, sent, sets, inbox, receives, wire, conn, created, tasks>>
        /\ UNCHANGED <<acceptor, listens, accepts, errors>>
    BY <1>5 DEF vars, client, listener
  <2>2. /\ Shapes /\ Objects /\ Queues /\ Chunks /\ Frames
        /\ \A c \in Live : conn[c].sock \in Sockets
        /\ \A t \in tasks : t[1] \in Live
    BY Known
  <2>3. Shapes' /\ Objects'
    BY <2>1, <2>2 DEF Shapes, Objects, ConnOK, Live
  <2>4. Queues'
    BY <2>1, <2>2, QueuesKept
  <2>5. Chunks'
    BY <2>1, <2>2, ChunksKept
  <2>6. Frames'
    BY <2>1, <2>2, FramesKept
  <2>. QED
    BY <2>3, <2>4, <2>5, <2>6 DEF HttpInv
<1>. QED
  BY <1>1, <1>2, <1>3, <1>4, <1>5 DEF Next

(* The invariant holds in every state that the server can reach. *)
THEOREM HttpCorrect == Spec => []HttpInv
BY HttpInit, HttpNext, PTL DEF Spec

(* However many clients connect and however their accepts fail, each call  *)
(* of listen() has an accept outstanding, and every connection object of   *)
(* an open socket whose client is there has one receive outstanding or on  *)
(* its way: no chain of receives stops or doubles over a keep-alive hand   *)
(* over (handleAccept, the receive handler, notifyCompleted).              *)
THEOREM HearsCorrect == Spec => []NeverDeaf
BY HttpCorrect, Hears, PTL

(* The responses on a socket never run into each other, whichever of its   *)
(* connection objects write and whenever the client goes or the socket is  *)
(* closed, and a header has every field that set() accepted (deviceWrite,  *)
(* send, notifyCompleted, set).                                            *)
THEOREM FramingCorrect == Spec => []Framing
BY HttpCorrect, Framed, PTL

(* Every chunk that a client sends is at one place, from the socket to the *)
(* request that parses it: none is lost, and none is parsed twice by the   *)
(* connections that share a socket (the receive handler, attach).          *)
THEOREM ChunkOnceCorrect == Spec => []ChunkOnce
BY HttpCorrect, Counted, PTL
=============================================================================
