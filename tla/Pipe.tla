-------------------------------- MODULE Pipe --------------------------------
(***************************************************************************)
(* ReadableStream.pipe (src/js/io/readable_stream.js): a FilePushDevice    *)
(* whose content is written to several sinks, through WritableStreams      *)
(* (writable_stream.js) without filters.                                   *)
(*                                                                         *)
(* The listener of "data" writes the buffer to every target and is done    *)
(* when Promise.all of the writes is: when all are resolved, or at once    *)
(* when one is rejected, which it turns into an "error" event of the       *)
(* stream.  The device reads on when its listeners are done.  The n-th     *)
(* buffer read is the buffer of write n.                                   *)
(*                                                                         *)
(* The stream has an emitter of its own, EventEmitter2.  The promise of    *)
(* its resume() is settled by the first "end" or "error" it emits.         *)
(***************************************************************************)
EXTENDS FilePush, SinkDevice, FiniteSets

CONSTANTS
  MaxCalls,     \* bound: calls of pause, reset and close in one execution
  MaxTrouble    \* bound: chains, calls and faults together

ASSUME PipeBounds == MaxWrites = MaxReads /\ {MaxCalls, MaxTrouble} \subseteq Nat /\ Sinks # {}

VARIABLES
  events,       \* the stream's listeners: event -> functor -> its count
  promise,      \* chain -> "none" "pending" "resolved" "rejected": resume()
  ended,        \* number of the device's "end" events the stream has handled
  caught,       \* chains whose rejected promise the stream has handled
  nulls,        \* history: number of write(null) to every target
  calls,        \* number of calls of the program
  past          \* history, of "overlap": a chain was started beside another;
                \* "moved": the file was reset or closed; "off": the pipe was
                \* disconnected

emitter == <<events, promise, ended, caught, nulls>>
vars == <<fileVars, sinkVars, emitter, calls, past>>

-----------------------------------------------------------------------------
(* EventEmitter2. *)

Infinity == 99

(* The functors: onData and onEnd of the pipe, and those of resume number c. *)
Piping == 0

(* The list of an event, as a function from its functors: each functor is  *)
(* a closure of its own, added to a list once, and the order in which one  *)
(* emit calls them makes no difference here.                               *)
Events == {"data", "end", "error"}
NoListeners == [f \in {} |-> 0]

On(l, functor, count) == [f \in DOMAIN l \cup {functor} |-> IF f = functor THEN count ELSE l[f]]

Off(l, functor) == [f \in DOMAIN l \ {functor} |-> l[f]]

(* emit() calls the functors with a count left, and counts all of them     *)
(* down; below 0 the count means what 0 does.                              *)
Called(l) == {f \in DOMAIN l : l[f] > 0}
Counted(l) == [f \in DOMAIN l |-> IF l[f] \in {0, Infinity} THEN l[f] ELSE l[f] - 1]

(* emit(e): the promises of resume() whose functor is called are settled.  *)
Emit(e) ==
  /\ events' = [events EXCEPT ![e] = Counted(@)]
  /\ promise' = [c \in Chains |->
       IF c \in Called(events[e]) /\ promise[c] = "pending"
       THEN (IF e = "end" THEN "resolved" ELSE "rejected") ELSE promise[c]]

-----------------------------------------------------------------------------
(* pipe() has been called: its listeners are there. *)

Init ==
  /\ FileInit
  /\ SinkInit
  /\ events = [e \in Events |-> IF e = "data" THEN On(NoListeners, Piping, Infinity)
                               ELSE IF e = "end" THEN On(NoListeners, Piping, 1) ELSE NoListeners]
  /\ promise = [c \in Chains |-> "none"]
  /\ ended = 0 /\ caught = {} /\ nulls = 0
  /\ calls = 0
  /\ past = {}

-----------------------------------------------------------------------------
(* What the program calls. *)

Trouble == calls + faults + Cardinality({c \in Chains : pc[c] # "none"})

DoResume(c) ==
  /\ Trouble < MaxTrouble
  /\ events' = [events EXCEPT !.end = On(@, c, 1), !.error = On(@, c, 1)]
  /\ promise' = [promise EXCEPT ![c] = "pending"]
  /\ UNCHANGED <<ended, caught, nulls>>
  /\ Resume(c)
  /\ past' = IF \E d \in Chains : Alive(d) THEN past \cup {"overlap"} ELSE past
  /\ UNCHANGED <<sinkVars, calls>>

(* disconnectAll(), which pipe() returns. *)
Disconnect ==
  /\ events' = [events EXCEPT !.data = Off(@, Piping), !.end = Off(@, Piping)]
  /\ UNCHANGED <<promise, ended, caught, nulls>>

Call ==
  /\ calls < MaxCalls /\ Trouble < MaxTrouble
  /\ calls' = calls + 1
  /\ \/ Pause /\ UNCHANGED <<sinkVars, emitter, past>>
     \/ (Reset \/ Close) /\ past' = past \cup {"moved"} /\ UNCHANGED <<sinkVars, emitter>>
     \/ (\E s \in Sinks : CloseSink(s) \/ WriteSync(s)) /\ UNCHANGED <<fileVars, emitter, past>>
     \/ Disconnect /\ past' = past \cup {"off"} /\ UNCHANGED <<fileVars, sinkVars>>

-----------------------------------------------------------------------------
(* The listener of "data". *)

(* It writes a buffer to every target, *)
Listen(w) ==
  /\ w <= Len(reads)
  /\ \A s \in Sinks : writing[w][s] = "none"
  /\ IF Piping \in Called(events.data) THEN Write(w) ELSE Skip(w)
  /\ UNCHANGED <<fileVars, emitter, calls, past>>

(* Mutant: it is done when the first of the writes is. *)
ListenedFirst(c) ==
  LET w == current[c] IN
  /\ pc[c] = "emitted"
  /\ \E s \in Sinks : writing[w][s] \in {"resolved", "rejected", "skipped"}
  /\ UNCHANGED <<events, promise>>
  /\ pc' = [pc EXCEPT ![c] = "handled"]
  /\ UNCHANGED <<stream, myState, at, current, settled, reads, ends, errors,
                 sinkVars, ended, caught, nulls, calls, past>>

(* and is done with all of them, or when one has failed, with an "error". *)
Listened(c) ==
  LET w == current[c] IN
  /\ pc[c] = "emitted"
  /\ \/ /\ \A s \in Sinks : writing[w][s] \in {"resolved", "skipped"}
        /\ UNCHANGED <<events, promise>>
     \/ /\ \E s \in Sinks : writing[w][s] = "rejected"
        /\ Emit("error")
  /\ pc' = [pc EXCEPT ![c] = "handled"]
  /\ UNCHANGED <<stream, myState, at, current, settled, reads, ends, errors,
                 sinkVars, ended, caught, nulls, calls, past>>

(* Another listener of the device fails. *)
ListenerFails(c) ==
  /\ faults < MaxFaults /\ Trouble < MaxTrouble
  /\ faults' = faults + 1
  /\ DataRejected(c)
  /\ Emit("error")
  /\ UNCHANGED <<protocol, open, bad, writing, written, out, races, ended, caught, nulls, calls, past>>

-----------------------------------------------------------------------------
(* The stream's other listeners of its device. *)

(* "end", in a job of its own: the first one writes null to the targets.   *)
OnEnd ==
  /\ ended < ends
  /\ ended' = ended + 1
  /\ Emit("end")
  /\ nulls' = IF Piping \in Called(events.end) THEN nulls + 1 ELSE nulls
  /\ UNCHANGED <<fileVars, sinkVars, caught, calls, past>>

(* The device's promise was rejected: "error", a second time. *)
OnCatch(c) ==
  /\ settled[c] = "rejected" /\ c \notin caught
  /\ caught' = caught \cup {c}
  /\ Emit("error")
  /\ UNCHANGED <<fileVars, sinkVars, ended, nulls, calls, past>>

-----------------------------------------------------------------------------

ReadStep(c) ==
  /\ \/ ReadBegin(c) \/ ReadEnd(c) \/ ReadEof(c)
     \/ AfterData(c) \/ AfterLastData(c)
  /\ UNCHANGED <<sinkVars, emitter, calls, past>>

ChainStep(c) == ReadStep(c) \/ Listened(c) \/ OnCatch(c)

SyncReturns(s) == EndSync(s) /\ UNCHANGED <<fileVars, emitter, calls, past>>

WriteTask(w, s) ==
  /\ WriteStep(w, s)
  /\ faults' > faults => Trouble < MaxTrouble
  /\ UNCHANGED <<fileVars, emitter, calls, past>>

Next ==
  \/ \E c \in Chains : DoResume(c) \/ ChainStep(c) \/ ListenerFails(c)
  \/ Call \/ OnEnd
  \/ \E w \in Writes : Listen(w) \/ \E s \in Sinks : WriteTask(w, s)
  \/ \E s \in FileSinks : SyncReturns(s)

Spec == Init /\ [][Next]_vars

(* The pool does not stop while there are tasks or jobs that can run.      *)
Work ==
  \/ OnEnd \/ \E c \in Chains : ChainStep(c)
  \/ \E w \in Writes : Listen(w) \/ \E s \in Sinks : WriteTask(w, s)

FairSpec == Spec /\ WF_vars(Work)

-----------------------------------------------------------------------------
(* The types of the variables. *)
TypeOK ==
  /\ file \in Files
  /\ myState \in {"Paused", "Resumed"}
  /\ isOpen \in {"yes", "no"}
  /\ rdstate \subseteq {"eof", "fail"}
  /\ tellg \in 1..(Length + 1)
  /\ pc \in [Chains -> {"none", "queued", "reading", "emitted", "handled", "done"}]
  /\ at \in [Chains -> 0..Length]
  /\ current \in [Chains -> 0..MaxReads]
  /\ settled \in [Chains -> {"none", "pending", "resolved", "rejected"}]
  /\ reads \in Seq(1..Length) /\ Len(reads) <= MaxReads
  /\ {ends, errors} \subseteq 0..MaxChains
  /\ protocol \in [SocketSinks -> Protocols]
  /\ open \in [Sinks -> {"yes", "no"}]
  /\ bad \in [Sinks -> {"yes", "no"}]
  /\ writing \in [Writes -> [Sinks -> {"none", "skipped", "queued", "tested", "sending", "resolved", "rejected"}]]
  /\ written \in [Writes -> [Sinks -> 0..Units]]
  /\ out \in [Sinks -> Seq((Writes \cup {0}) \X (1..Units))]
  /\ syncing \in [FileSinks -> Nat] /\ direct \subseteq FileSinks /\ torn \subseteq Writes \X Sinks
  /\ faults \in 0..MaxFaults
  /\ calls \in 0..MaxCalls
  /\ past \subseteq {"overlap", "moved", "off"}
  /\ DOMAIN events = Events
  /\ \A e \in Events : DOMAIN events[e] \subseteq Chains \cup {Piping} /\ events[e] \in [DOMAIN events[e] -> Nat]
  /\ promise \in [Chains -> {"none", "pending", "resolved", "rejected"}]
  /\ ended \in 0..ends /\ caught \subseteq Chains /\ nulls \in Nat

(* A sink receives units of the pipe, and those of the program's own       *)
(* writes, which are units of write 0.                                     *)
Piped(u) == u[1] # 0

(* Unit u of the file comes before unit v: in an earlier buffer, or        *)
(* earlier in the same one.                                                *)
Precedes(u, v) == u[1] < v[1] \/ (u[1] = v[1] /\ u[2] < v[2])

Received(s) == {out[s][i] : i \in DOMAIN out[s]}

Rejected(s) == \E w \in Writes : writing[w][s] = "rejected"
Torn(s) == \E w \in Writes : <<w, s>> \in torn

(* A chain ended by an error may leave writes of its buffer behind, which  *)
(* the next chain does not wait for; nor does a second chain.              *)
OneReader == "overlap" \notin past /\ errors = 0

(* One reader reads the file from its start to where it is, once, however  *)
(* often it is paused, its listeners fail or its targets are closed.  The  *)
(* variables have their types.                                             *)
ReadOnce ==
  TypeOK /\ (past = {} => reads = [n \in 1..Len(reads) |-> n])

(* A write that is resolved was written whole and once to a sink that is   *)
(* open, whatever other writes were made to it meanwhile and whichever of  *)
(* them failed: write() "resolves with the number of bytes written on      *)
(* completion" (docs/api/io.md).  Not so a write to a file that another    *)
(* thread wrote to at the same time.                                       *)
ResolvedWhole ==
  \A w \in Writes, s \in Sinks :
    writing[w][s] = "resolved" /\ open[s] = "yes" /\ <<w, s>> \notin torn =>
      /\ {w} \X (1..Units) \subseteq Received(s)
      /\ \A i, j \in DOMAIN out[s] :
           i # j /\ out[s][i][1] = w => out[s][i] # out[s][j]

(* A sink receives the buffers in the order of the reads and their units   *)
(* in order, and until it is closed no two threads are ever in a file's    *)
(* deviceWrite.  It takes one reader and no failure of another target:     *)
(* after that the next buffer is read and written while this sink still    *)
(* has the previous one; and for the second part no writeSync() of the     *)
(* program to the file.  A failure of its own leaves a gap, but keeps the  *)
(* order; without one, and if no write was torn, it has everything that    *)
(* comes before what it has.                                               *)
PipeInOrder ==
  OneReader =>
    \A s \in Sinks : (\A t \in Sinks \ {s} : ~Rejected(t)) =>
      /\ s \notin direct /\ open[s] = "yes" => ~Torn(s)
      /\ \A i, j \in DOMAIN out[s] :
           i < j /\ Piped(out[s][i]) /\ Piped(out[s][j]) => Precedes(out[s][i], out[s][j])
      /\ ~Rejected(s) /\ ~Torn(s) /\ "off" \notin past =>
           \A u \in Received(s), v \in Writes \X (1..Units) :
             Piped(u) /\ Precedes(v, u) => v \in Received(s)

(* When "end" is emitted every target that was not closed, nor written to  *)
(* by writeSync(), has the whole file: no write is still under way and no  *)
(* buffer was left out.  So it is when the stream's resume() resolves, and *)
(* before write(null) tells the targets, once, that this was all.          *)
Delivered ==
  /\ ends > 0 /\ OneReader /\ past = {} /\ (\A s \in Sinks : ~Rejected(s)) =>
       \A s \in Sinks \ direct : open[s] = "yes" => (1..Length) \X (1..Units) \subseteq Received(s)
  /\ nulls > 0 \/ (\E c \in Chains : promise[c] = "resolved") => ends > 0
  /\ nulls <= 1

(* A resume() of the stream is settled, unless the program pauses the      *)
(* device, its stream fails without reaching the end (Stuck), or a file    *)
(* target goes bad, whose later writes wait for ever; or the bound on      *)
(* reads is met.                                                           *)
PipeCompletes ==
  \A c \in Chains :
    (pc[c] = "queued") ~>
      \/ promise[c] \in {"resolved", "rejected"} \/ myState = "Paused"
      \/ Stuck \/ (\E s \in FileSinks : bad[s] = "yes")
      \/ Len(reads) = MaxReads
=============================================================================
