---------------------------- MODULE SocketSource ----------------------------
(***************************************************************************)
(* Sockets as push sources (src/classes/io/devices/socket.cpp, socket.h).  *)
(*                                                                         *)
(* resume() starts a chain of receive handlers: each one posts the next    *)
(* asynchronous receive and is called again, on any pool thread, with what *)
(* arrived.  A chain has a promise of its own and holds the scheduler.     *)
(* pause() only sets a flag that the handler reads after it has emitted    *)
(* "data": the handler of a UDP socket then ends the chain, that of a TCP  *)
(* socket schedules itself with the same buffer.  A second resume() starts *)
(* a second chain, and so do two calls of resume() at once: no lock is     *)
(* held between the test of what the socket keeps and its assignment.      *)
(*                                                                         *)
(* connect() resolves a name and then lets boost::asio::async_connect      *)
(* close the socket, open it again and connect it, on pool threads.  A udp *)
(* socket is made by JavaScript and starts closed; a tcp socket is an      *)
(* accepted one.  One connect() at a time.                                 *)
(*                                                                         *)
(* What arrives is numbered; one receive takes one number.  The methods    *)
(* are called from JavaScript, on any thread of the pool, and interleave   *)
(* with each other and with the handlers.                                  *)
(***************************************************************************)
EXTENDS Naturals, FiniteSets, Sequences, Functions

CONSTANTS
  Kinds,        \* the kinds of socket explored, of "tcp" and "udp"
  MaxChains,    \* bound: resumes that start a chain
  MaxChunks,    \* bound: chunks or datagrams the peer sends
  MaxErrors,    \* bound: errors reported by a udp receive
  MaxConnects,  \* bound: calls of connect()
  MaxEmits      \* bound: recorded "data" events

ASSUME KindsAssumption == Kinds \subseteq {"tcp", "udp"}
ASSUME SocketBounds == {MaxChains, MaxChunks, MaxErrors, MaxConnects, MaxEmits} \subseteq Nat

VARIABLES
  kind,         \* of the socket under consideration
  open,         \* "open" or "closed": mySocket->is_open()
  bound,        \* whether the socket has an address at which data arrive
  connecting,   \* "no" "resolve" "connect": what the promise of connect() awaits
  connects,     \* calls of connect() made
  peer,         \* "up", or "gone" once the peer has closed its side
  arrived,      \* number of chunks the peer has sent
  taken,        \* number of chunks that receives have taken
  errors,       \* number of udp receive errors
  myState,      \* "Paused" or "Resumed"
  myPromise,    \* "none", or "set" once resume or pause has stored a promise
  myLastError,  \* "none" or "bad": the error code the tcp socket keeps
  resuming,     \* chains whose resume() has not returned, nor stored their promise
  pc,           \* chain -> where it is
  buffer,       \* chain -> number of the chunk its handler was given, 0 for none
  settled,      \* chain -> "none" "pending" "resolved" "rejected": its promise
  holds,        \* holds of this socket on the scheduler
  emitted,      \* history: the chunks that "data" was emitted with
  pauses,       \* history: "never" until the program calls pause
  overlaps      \* history: "never" until it calls resume while a resume is under way

vars == <<kind, open, bound, connecting, connects, peer, arrived, taken, errors, myState, myPromise, myLastError,
          resuming, pc, buffer, settled, holds, emitted, pauses, overlaps>>

Chains == 1..MaxChains

link == <<bound, connecting, connects>>
wire == <<peer, arrived, taken, errors>>
device == <<myState, myPromise, myLastError>>
calls == <<resuming, overlaps>>

Init ==
  /\ kind \in Kinds
  /\ open = IF kind = "udp" THEN "closed" ELSE "open"
  /\ bound = (kind = "tcp") /\ connecting = "no" /\ connects = 0
  /\ peer = "up" /\ arrived = 0 /\ taken = 0 /\ errors = 0
  /\ myState \in IF kind = "udp" THEN {"Paused", "Resumed"} ELSE {"Paused"}
  /\ myPromise = "none"
  /\ myLastError = "none"
  /\ pc = [c \in Chains |-> "none"]
  /\ buffer = [c \in Chains |-> 0]
  /\ settled = [c \in Chains |-> "none"]
  /\ holds = 0
  /\ emitted = <<>>
  /\ pauses = "never"
  /\ resuming = {} /\ overlaps = "never"

Unfinished == {c \in Chains : pc[c] \notin {"none", "done"}}

(* The outstanding receives complete with operation_canceled. *)
Abort == pc' = [c \in Chains |-> IF pc[c] = "receive" THEN "aborted" ELSE pc[c]]

(* A call of resume() that goes on with chain c, which it holds the        *)
(* scheduler for.                                                          *)
BeginResume(c) ==
  /\ pc[c] = "none"
  /\ holds' = holds + 1
  /\ pc' = [pc EXCEPT ![c] = "enter"]
  /\ settled' = [settled EXCEPT ![c] = "pending"]
  /\ resuming' = resuming \union {c}
  /\ overlaps' = IF resuming = {} THEN overlaps ELSE "some"
  /\ UNCHANGED <<kind, open, link, wire, device, buffer, emitted, pauses>>

(* Mutant: resume() does not look for the promise it has. *)
ResumeAlways(c) == BeginResume(c)

(***************************************************************************)
(* The JavaScript methods.  resume() of a resumed socket returns the       *)
(* promise it has.  Otherwise it takes a hold and makes a promise, whose   *)
(* executor sets the state and enters the handler (pc "start"); resume()   *)
(* stores the promise when the executor has returned.                      *)
(***************************************************************************)
Resume(c) ==
  /\ ~ (myState = "Resumed" /\ myPromise = "set")
  /\ BeginResume(c)

Enter(c) ==
  /\ pc[c] = "enter"
  /\ myState' = "Resumed"
  /\ pc' = [pc EXCEPT ![c] = "start"]
  /\ UNCHANGED <<kind, open, link, wire, myPromise, myLastError, calls, buffer, settled, holds, emitted, pauses>>

Return(c) ==
  /\ c \in resuming /\ pc[c] \notin {"enter", "start", "post"}
  /\ myPromise' = "set"
  /\ resuming' = resuming \ {c}
  /\ UNCHANGED <<kind, open, link, wire, myState, myLastError, overlaps, pc, buffer, settled, holds, emitted, pauses>>

Pause ==
  /\ myState' = "Paused"
  /\ myPromise' = "set"
  /\ pauses' = "some"
  /\ UNCHANGED <<kind, open, link, wire, myLastError, pc, buffer, settled, holds, emitted, calls>>

(* reset() of a paused socket returns a resolved promise. *)
Reset == myState # "Paused" /\ Pause

(* Mutant: the outstanding receives are not aborted. *)
CloseWithoutAbort ==
  /\ open' = "closed" /\ bound' = FALSE
  /\ myLastError' = IF kind = "tcp" THEN "none" ELSE myLastError
  /\ UNCHANGED <<kind, connecting, connects, wire, myState, myPromise, pc, buffer, settled, holds, emitted, pauses, calls>>

(* close(), also of a closed socket: the error code is overwritten. *)
Close ==
  /\ open' = "closed" /\ bound' = FALSE
  /\ myLastError' = IF kind = "tcp" THEN "none" ELSE myLastError
  /\ Abort
  /\ UNCHANGED <<kind, connecting, connects, wire, myState, myPromise, buffer, settled, holds, emitted, pauses, calls>>

(* cancel() of a closed tcp socket leaves its error code behind. *)
Cancel ==
  /\ myLastError' = IF kind = "udp" THEN myLastError
                    ELSE IF open = "open" THEN "none" ELSE "bad"
  /\ Abort
  /\ UNCHANGED <<kind, open, link, wire, myState, myPromise, buffer, settled, holds, emitted, pauses, calls>>

-----------------------------------------------------------------------------
(* connect() and bind(). *)

Connect ==
  /\ connecting = "no" /\ connects < MaxConnects
  /\ connecting' = "resolve"
  /\ connects' = connects + 1
  /\ UNCHANGED <<kind, open, bound, wire, device, pc, buffer, settled, holds, emitted, pauses, calls>>

(* The name is resolved or the promise rejected.  async_connect closes the *)
(* socket first, whatever is received on it, and opens it.                 *)
Resolved ==
  /\ connecting = "resolve"
  /\ \/ /\ connecting' = "no"
        /\ UNCHANGED <<open, bound, peer, arrived, pc>>
     \/ /\ connecting' = "connect"
        /\ open' = "open" /\ bound' = FALSE
        /\ peer' = "up" /\ arrived' = taken
        /\ Abort
  /\ UNCHANGED <<kind, connects, taken, errors, device, buffer, settled, holds, emitted, pauses, calls>>

(* The connection is made, or the promise is rejected: no address answers, *)
(* and the socket stays open, or the program has closed it meanwhile.      *)
Connected ==
  /\ connecting = "connect"
  /\ connecting' = "no"
  /\ bound' \in IF open = "open" THEN {bound, TRUE} ELSE {bound}
  /\ UNCHANGED <<kind, open, connects, wire, device, pc, buffer, settled, holds, emitted, pauses, calls>>

(* The system binds an open socket that has no address yet; otherwise the  *)
(* promise of bind() is rejected.                                          *)
CanBind == open = "open" /\ ~ bound

Bind ==
  /\ kind = "udp" /\ CanBind
  /\ bound' = TRUE
  /\ UNCHANGED <<kind, open, connecting, connects, wire, device, pc, buffer, settled, holds, emitted, pauses, calls>>

-----------------------------------------------------------------------------
(* The peer and the network. *)
Arrive ==
  /\ peer = "up" /\ open = "open" /\ bound /\ arrived < MaxChunks
  /\ arrived' = arrived + 1
  /\ UNCHANGED <<kind, open, link, peer, taken, errors, device, pc, buffer, settled, holds, emitted, pauses, calls>>

PeerCloses ==
  /\ kind = "tcp" /\ peer = "up" /\ open = "open" /\ bound
  /\ peer' = "gone"
  /\ UNCHANGED <<kind, open, link, arrived, taken, errors, device, pc, buffer, settled, holds, emitted, pauses, calls>>

-----------------------------------------------------------------------------
(* The chain ends: its promise is settled and its hold released. *)
EndChain(c, how) ==
  /\ pc' = [pc EXCEPT ![c] = "done"]
  /\ buffer' = [buffer EXCEPT ![c] = 0]
  /\ settled' = [settled EXCEPT ![c] = how]
  /\ holds' = holds - 1

(* A receive completes with the next chunk. *)
Receive(c) ==
  /\ pc[c] = "receive"
  /\ open = "open" /\ taken < arrived
  /\ taken' = taken + 1
  /\ pc' = [pc EXCEPT ![c] = "handle"]
  /\ buffer' = [buffer EXCEPT ![c] = taken + 1]
  /\ UNCHANGED <<kind, open, link, peer, arrived, errors, device, settled, holds, emitted, pauses, calls>>

(* Mutant: the tcp handler does not go back to Paused. *)
FailResumed(c) ==
  /\ \/ /\ pc[c] = "receive" /\ kind = "tcp"
        /\ peer = "gone" /\ taken = arrived
        /\ UNCHANGED errors
     \/ /\ pc[c] = "receive" /\ kind = "udp"
        /\ errors < MaxErrors
        /\ errors' = errors + 1
     \/ /\ pc[c] = "receive" /\ kind = "tcp" /\ ~ bound
        /\ UNCHANGED errors
     \/ /\ pc[c] = "post" /\ open = "closed"
        /\ UNCHANGED errors
     \/ /\ pc[c] = "start" /\ kind = "tcp" /\ myLastError = "bad"
        /\ UNCHANGED errors
  /\ EndChain(c, "rejected")
  /\ UNCHANGED <<kind, open, link, peer, arrived, taken, device, emitted, pauses, calls>>

(***************************************************************************)
(* The handler is given an error: the end of the tcp stream, an error of   *)
(* a udp receive, a receive on a closed socket or on a tcp socket that is  *)
(* not connected, or the code that the tcp socket kept.  Only the tcp      *)
(* handler goes back to Paused.                                            *)
(***************************************************************************)
Fail(c) ==
  /\ \/ /\ pc[c] = "receive" /\ kind = "tcp"
        /\ peer = "gone" /\ taken = arrived
        /\ UNCHANGED errors
     \/ /\ pc[c] = "receive" /\ kind = "udp"
        /\ errors < MaxErrors
        /\ errors' = errors + 1
     \/ /\ pc[c] = "receive" /\ kind = "tcp" /\ ~ bound
        /\ UNCHANGED errors
     \/ /\ pc[c] = "post" /\ open = "closed"
        /\ UNCHANGED errors
     \/ /\ pc[c] = "start" /\ kind = "tcp" /\ myLastError = "bad"
        /\ UNCHANGED errors
  /\ EndChain(c, "rejected")
  /\ myState' = IF kind = "tcp" THEN "Paused" ELSE myState
  /\ UNCHANGED <<kind, open, link, peer, arrived, taken, myPromise, myLastError, emitted, pauses, calls>>

(* Mutant: the hold is not released. *)
CancelledKeepsHold(c) ==
  /\ pc[c] = "aborted"
  /\ pc' = [pc EXCEPT ![c] = "done"]
  /\ buffer' = [buffer EXCEPT ![c] = 0]
  /\ settled' = [settled EXCEPT ![c] = IF kind = "tcp" THEN "resolved" ELSE "rejected"]
  /\ myState' = IF kind = "tcp" THEN "Paused" ELSE myState
  /\ UNCHANGED <<kind, open, link, wire, myPromise, myLastError, holds, emitted, pauses, calls>>

(* The handler is given operation_canceled: no error for a tcp socket. *)
Cancelled(c) ==
  /\ pc[c] = "aborted"
  /\ EndChain(c, IF kind = "tcp" THEN "resolved" ELSE "rejected")
  /\ myState' = IF kind = "tcp" THEN "Paused" ELSE myState
  /\ UNCHANGED <<kind, open, link, wire, myPromise, myLastError, emitted, pauses, calls>>

(* Mutant: a paused handler drops its chunk. *)
HandleUnlessPaused(c) ==
  /\ pc[c] = "handle"
  /\ emitted' = IF myState = "Resumed" /\ Len(emitted) < MaxEmits
                THEN Append(emitted, buffer[c]) ELSE emitted
  /\ pc' = [pc EXCEPT ![c] = "decide"]
  /\ UNCHANGED <<kind, open, link, wire, device, buffer, settled, holds, pauses, calls>>

(* The handler is given a chunk: it emits "data". *)
Handle(c) ==
  /\ pc[c] = "handle"
  /\ emitted' = IF Len(emitted) < MaxEmits THEN Append(emitted, buffer[c]) ELSE emitted
  /\ pc' = [pc EXCEPT ![c] = "decide"]
  /\ UNCHANGED <<kind, open, link, wire, device, buffer, settled, holds, pauses, calls>>

(* A listener of a udp socket throws: emitFast hands the exception back. *)
HandleThrow(c) ==
  /\ pc[c] = "handle" /\ kind = "udp"
  /\ emitted' = IF Len(emitted) < MaxEmits THEN Append(emitted, buffer[c]) ELSE emitted
  /\ EndChain(c, "rejected")
  /\ UNCHANGED <<kind, open, link, wire, device, pauses, calls>>

Deciding(c) ==
  \/ pc[c] = "decide"
  \/ pc[c] = "start" /\ (kind = "tcp" => myLastError = "none")

(* Still resumed: the next receive is to be posted. *)
Continue(c) ==
  /\ Deciding(c)
  /\ open = "open" /\ myState = "Resumed"
  /\ pc' = [pc EXCEPT ![c] = "post"]
  /\ buffer' = [buffer EXCEPT ![c] = 0]
  /\ UNCHANGED <<kind, open, link, wire, device, settled, holds, emitted, pauses, calls>>

(* It is posted, also when the socket was cancelled or paused meanwhile.   *)
Post(c) ==
  /\ pc[c] = "post" /\ open = "open"
  /\ pc' = [pc EXCEPT ![c] = "receive"]
  /\ UNCHANGED <<kind, open, link, wire, device, buffer, settled, holds, emitted, pauses, calls>>

(* Paused: a tcp handler schedules itself, with the buffer it was given. *)
Spin(c) ==
  /\ kind = "tcp"
  /\ Deciding(c)
  /\ open = "open" /\ myState = "Paused"
  /\ pc' = [pc EXCEPT ![c] = IF buffer[c] = 0 THEN "decide" ELSE "handle"]
  /\ UNCHANGED <<kind, open, link, wire, device, buffer, settled, holds, emitted, pauses, calls>>

(* The socket is closed, or it is a paused udp socket: the chain ends. *)
Stop(c) ==
  /\ Deciding(c)
  /\ open = "closed" \/ (kind = "udp" /\ myState = "Paused")
  /\ EndChain(c, "resolved")
  /\ UNCHANGED <<kind, open, link, wire, device, emitted, pauses, calls>>

Step(c) ==
  \/ Enter(c) \/ Return(c)
  \/ Receive(c) \/ Fail(c) \/ Cancelled(c) \/ Handle(c) \/ HandleThrow(c)
  \/ Continue(c) \/ Post(c) \/ Spin(c) \/ Stop(c)

(* The methods that a socket has as a push source. *)
Methods == Pause \/ Reset \/ \E c \in Chains : Resume(c)

Next ==
  \/ Methods
  \/ Close
  \/ Cancel
  \/ Connect \/ Resolved \/ Connected \/ Bind
  \/ Arrive
  \/ PeerCloses
  \/ \E c \in Chains : Step(c)

Spec == Init /\ [][Next]_vars

(* A call goes on, and a posted handler or a scheduled task is eventually  *)
(* run by the pool, which a chain holds.  A connect() holds nothing: the   *)
(* pool may be gone before it is answered.                                 *)
FairSpec == Spec /\ \A c \in Chains : WF_vars(Step(c))

-----------------------------------------------------------------------------
(* The types of the variables. *)
TypeOK ==
  /\ kind \in {"tcp", "udp"}
  /\ open \in {"open", "closed"}
  /\ bound \in BOOLEAN /\ (bound => open = "open")
  /\ connecting \in {"no", "resolve", "connect"}
  /\ connects \in 0..MaxConnects
  /\ peer \in {"up", "gone"}
  /\ arrived \in 0..MaxChunks
  /\ taken \in 0..arrived
  /\ errors \in 0..MaxErrors
  /\ myState \in {"Paused", "Resumed"}
  /\ myPromise \in {"none", "set"}
  /\ myLastError \in {"none", "bad"}
  /\ pc \in [Chains -> {"none", "enter", "start", "post", "receive", "aborted", "handle", "decide", "done"}]
  /\ buffer \in [Chains -> 0..MaxChunks]
  /\ settled \in [Chains -> {"none", "pending", "resolved", "rejected"}]
  /\ holds \in 0..MaxChains
  /\ emitted \in Seq(1..MaxChunks) /\ Len(emitted) <= MaxEmits
  /\ pauses \in {"never", "some"} /\ overlaps \in {"never", "some"}
  /\ resuming \subseteq Chains

(* The scheduler is held once for every chain whose promise is pending, on *)
(* every path out of the handler: a leaked hold keeps the process from     *)
(* exiting, a hold too few lets it exit under a pending receive.  And the  *)
(* variables have their types.                                             *)
ChainAccounting ==
  /\ TypeOK
  /\ holds = Cardinality({c \in Chains : settled[c] = "pending"})
  /\ Unfinished = {c \in Chains : settled[c] = "pending"}

(* What a receive took is emitted, or is with a chain that will emit it:   *)
(* pausing, resuming, cancelling and closing lose nothing.                 *)
LosesNothing ==
  Len(emitted) < MaxEmits =>
    \A n \in 1..taken : \/ n \in Range(emitted)
                        \/ \E c \in Chains : pc[c] = "handle" /\ buffer[c] = n

(* As long as the program does not pause the socket and lets every call of *)
(* resume() return before the next one, "data" is emitted in the order of  *)
(* arrival and once per chunk, however often the socket is resumed and     *)
(* whatever errors end its chains: there is never a second reader.         *)
(* The "data" of a datagram is "Fired whenever a read has been made"       *)
(* (docs/api/io.md): once per read, paused or not.                         *)
InOrder ==
  /\ pauses = "never" /\ overlaps = "never" => \A j, k \in DOMAIN emitted : j < k => emitted[j] < emitted[k]
  /\ kind = "udp" => \A j, k \in DOMAIN emitted : emitted[j] = emitted[k] => j = k

(* An open tcp socket whose state is "resumed", so that resume() has       *)
(* nothing to do, does have a chain that reads: every error goes back to   *)
(* Paused, also while calls of resume() overlap.  This holds as long as    *)
(* the program does not connect the socket anew: after that the state that *)
(* a close has left behind remains.                                        *)
StreamResumeReads ==
  kind = "tcp" /\ connects = 0 /\ open = "open" /\ myState = "Resumed" /\ myPromise = "set"
    => Unfinished # {}

(* Once the socket is closed every chain ends, which settles its promise   *)
(* and lets the process exit, unless a connect() opens the socket again.   *)
CloseSettles == (open = "closed") ~> (open = "open" \/ Unfinished = {})
=============================================================================
