------------------------------ MODULE PipeProof -----------------------------
(***************************************************************************)
(* Proofs about a pipe for a file of any length, any number of sinks and   *)
(* resumes, and buffers of any size.                                       *)
(***************************************************************************)
EXTENDS Pipe, FiniteSetTheorems, TLAPS

(***************************************************************************)
(* What a step does to each of the three parts: the device that reads, the *)
(* sinks, and the stream's emitter.  An invariant of one part only has to  *)
(* be shown for the steps of that part.                                    *)
(***************************************************************************)
Handled(c) ==
  /\ pc[c] = "emitted"
  /\ pc' = [pc EXCEPT ![c] = "handled"]
  /\ UNCHANGED <<stream, myState, at, current, settled, reads, ends, errors>>

ChainMoves(c) ==
  \/ Resume(c) \/ ReadBegin(c) \/ ReadEnd(c) \/ ReadEof(c) \/ AfterData(c)
  \/ AfterLastData(c) \/ DataRejected(c) \/ Handled(c)

FileStep ==
  \/ UNCHANGED fileVars
  \/ \E c \in Chains : ChainMoves(c)
  \/ Pause \/ Reset \/ Close

(* A listener that fails costs a fault, but does not touch the sinks. *)
Fault == /\ faults < MaxFaults /\ faults' = faults + 1
         /\ UNCHANGED <<protocol, open, bad, writing, written, out, races>>

WriteBegins(w) ==
  /\ w <= Len(reads)
  /\ \A s \in Sinks : writing[w][s] = "none"
  /\ IF Piping \in Called(events.data) THEN Write(w) ELSE Skip(w)

SinkStep ==
  \/ UNCHANGED sinkVars
  \/ Fault
  \/ \E w \in Writes : WriteBegins(w) \/ \E s \in Sinks : WriteStep(w, s)
  \/ \E s \in Sinks : CloseSink(s) \/ WriteSync(s)
  \/ \E s \in FileSinks : EndSync(s)

EmitterStep ==
  \/ UNCHANGED emitter
  \/ \E c \in Chains : /\ events' = [events EXCEPT !.end = On(@, c, 1), !.error = On(@, c, 1)]
                       /\ promise' = [promise EXCEPT ![c] = "pending"]
                       /\ UNCHANGED <<ended, caught, nulls>>
  \/ Disconnect
  \/ /\ Emit("error") /\ caught' \subseteq caught \cup Chains
     /\ UNCHANGED <<ended, nulls>>
  \/ /\ ended < ends /\ ended' = ended + 1
     /\ Emit("end")
     /\ nulls' = IF Piping \in Called(events.end) THEN nulls + 1 ELSE nulls
     /\ UNCHANGED caught

(* What the device does beside the sinks, and what is remembered of it. *)
Starts(c) == Resume(c) /\ ((\E d \in Chains : Alive(d)) => "overlap" \in past')

Reads(c) ==
  \/ ReadBegin(c) \/ ReadEnd(c) \/ ReadEof(c) \/ AfterData(c) \/ AfterLastData(c)
  \/ DataRejected(c)

GoesOn(c) ==
  /\ Handled(c)
  /\ \/ \A s \in Sinks : writing[current[c]][s] \in {"resolved", "skipped"}
     \/ \E s \in Sinks : writing[current[c]][s] = "rejected"

Moved == (Reset \/ Close) /\ "moved" \in past'

ReaderStep ==
  \/ UNCHANGED fileVars
  \/ /\ UNCHANGED <<open, writing, written, out>>
     /\ (\E c \in Chains : Starts(c) \/ Reads(c) \/ GoesOn(c)) \/ Pause \/ Moved

(* Every step of the pipe is one of these for each part. *)
LEMMA StepParts == [Next]_vars => FileStep /\ SinkStep /\ EmitterStep
<1>. SUFFICES ASSUME [Next]_vars PROVE FileStep /\ SinkStep /\ EmitterStep
  OBVIOUS
<1>1. ASSUME NEW c \in Chains, DoResume(c) PROVE FileStep /\ SinkStep /\ EmitterStep
  BY <1>1 DEF DoResume, FileStep, SinkStep, EmitterStep, ChainMoves
<1>2. ASSUME NEW c \in Chains, ReadStep(c) PROVE FileStep /\ SinkStep /\ EmitterStep
  BY <1>2 DEF ReadStep, FileStep, SinkStep, EmitterStep, ChainMoves
<1>3. ASSUME NEW c \in Chains, Listened(c) PROVE FileStep /\ SinkStep /\ EmitterStep
  BY <1>3 DEF Listened, FileStep, SinkStep, EmitterStep, ChainMoves, Handled, emitter
<1>4. ASSUME NEW c \in Chains, OnCatch(c) PROVE FileStep /\ SinkStep /\ EmitterStep
  BY <1>4 DEF OnCatch, FileStep, SinkStep, EmitterStep
<1>5. ASSUME NEW c \in Chains, ListenerFails(c) PROVE FileStep /\ SinkStep /\ EmitterStep
  BY <1>5 DEF ListenerFails, FileStep, SinkStep, EmitterStep, ChainMoves, Fault
<1>6. ASSUME Call PROVE FileStep /\ SinkStep /\ EmitterStep
  BY <1>6 DEF Call, FileStep, SinkStep, EmitterStep
<1>7. ASSUME OnEnd PROVE FileStep /\ SinkStep /\ EmitterStep
  BY <1>7 DEF OnEnd, FileStep, SinkStep, EmitterStep
<1>8. ASSUME NEW w \in Writes, Listen(w) PROVE FileStep /\ SinkStep /\ EmitterStep
  BY <1>8 DEF Listen, FileStep, SinkStep, EmitterStep, WriteBegins
<1>9. ASSUME NEW w \in Writes, NEW s \in Sinks, WriteTask(w, s)
      PROVE FileStep /\ SinkStep /\ EmitterStep
  BY <1>9 DEF WriteTask, FileStep, SinkStep, EmitterStep
<1>10. ASSUME NEW s \in FileSinks, SyncReturns(s) PROVE FileStep /\ SinkStep /\ EmitterStep
  BY <1>10 DEF SyncReturns, FileStep, SinkStep, EmitterStep
<1>11. ASSUME UNCHANGED vars PROVE FileStep /\ SinkStep /\ EmitterStep
  BY <1>11 DEF vars, FileStep, SinkStep, EmitterStep
<1>. QED
  BY <1>1, <1>2, <1>3, <1>4, <1>5, <1>6, <1>7, <1>8, <1>9, <1>10, <1>11 DEF Next, ChainStep

-----------------------------------------------------------------------------
(* The device: its chains, its promises and its events. *)

SettledAs(how) == {c \in Chains : settled[c] = how}

FileTypes ==
  /\ file \in Files
  /\ myState \in {"Paused", "Resumed"}
  /\ isOpen \in {"yes", "no"}
  /\ rdstate \subseteq {"eof", "fail"}
  /\ tellg \in 1..(Length + 1)
  /\ pc \in [Chains -> {"none", "queued", "reading", "emitted", "handled", "done"}]
  /\ at \in [Chains -> 0..Length]
  /\ current \in [Chains -> 0..MaxReads]
  /\ settled \in [Chains -> {"none", "pending", "resolved", "rejected"}]
  /\ reads \in Seq(1..Length) /\ Len(reads) <= MaxReads

(* A chain is reading a buffer of the file; its promise is settled when it *)
(* ends, with an event.                                                    *)
ChainState ==
  /\ \A c \in Chains : pc[c] = "reading" => at[c] >= 1
  /\ \A c \in Chains : pc[c] = "done" <=> settled[c] \in {"resolved", "rejected"}
  /\ ends = Cardinality(SettledAs("resolved"))
  /\ errors = Cardinality(SettledAs("rejected"))

(* There are no more promises than chains. *)
LEMMA SettledBound ==
  \A how : /\ IsFiniteSet(SettledAs(how))
           /\ Cardinality(SettledAs(how)) \in 0..MaxChains
<1>. SUFFICES ASSUME NEW how
              PROVE  /\ IsFiniteSet(SettledAs(how))
                     /\ Cardinality(SettledAs(how)) \in 0..MaxChains
  OBVIOUS
<1>1. MaxChains \in Nat
  BY FileBounds
<1>2. IsFiniteSet(Chains) /\ Cardinality(Chains) = MaxChains
  BY <1>1, FS_Interval DEF Chains
<1>3. SettledAs(how) \subseteq Chains
  BY DEF SettledAs
<1>4. IsFiniteSet(SettledAs(how)) /\ Cardinality(SettledAs(how)) <= MaxChains
  BY <1>2, <1>3, FS_Subset
<1>. QED
  BY <1>1, <1>4, FS_CardinalityType

(* A promise that is settled is one more of its kind. *)
LEMMA SettledOne ==
  ASSUME NEW c \in Chains, NEW how, settled[c] # how, FileTypes,
         settled' = [settled EXCEPT ![c] = how]
  PROVE  /\ Cardinality(SettledAs(how)') = Cardinality(SettledAs(how)) + 1
         /\ \A other : other # how /\ settled[c] # other => SettledAs(other)' = SettledAs(other)
<1>1. SettledAs(how)' = SettledAs(how) \cup {c} /\ c \notin SettledAs(how)
  BY DEF SettledAs, FileTypes
<1>2. Cardinality(SettledAs(how) \cup {c}) = Cardinality(SettledAs(how)) + 1
  BY <1>1, SettledBound, FS_AddElement
<1>3. ASSUME NEW other, other # how, settled[c] # other
      PROVE  SettledAs(other)' = SettledAs(other)
  BY <1>3 DEF SettledAs, FileTypes
<1>. QED
  BY <1>1, <1>2, <1>3

(* A chain that goes on and settles nothing. *)
LEMMA SettledKept ==
  ASSUME FileTypes, ChainState, NEW c \in Chains, NEW p,
         settled' = settled, ends' = ends, errors' = errors,
         pc' = [pc EXCEPT ![c] = p], pc[c] # "done", p # "done",
         p = "reading" => at'[c] >= 1,
         \A d \in Chains : d # c => at'[d] = at[d]
  PROVE  ChainState'
<1>1. \A how : SettledAs(how)' = SettledAs(how)
  BY DEF SettledAs
<1>2. \A d \in Chains : pc'[d] = IF d = c THEN p ELSE pc[d]
  BY DEF FileTypes
<1>. QED
  BY <1>1, <1>2 DEF ChainState

(* A chain that ends settles its promise. *)
LEMMA SettledDone ==
  ASSUME FileTypes, ChainState, NEW c \in Chains, NEW how \in {"resolved", "rejected"},
         settled' = [settled EXCEPT ![c] = how],
         pc' = [pc EXCEPT ![c] = "done"], pc[c] # "done", at' = at,
         ends' = IF how = "resolved" THEN ends + 1 ELSE ends,
         errors' = IF how = "rejected" THEN errors + 1 ELSE errors
  PROVE  ChainState'
<1>1. settled[c] \notin {"resolved", "rejected"}
  BY DEF ChainState
<1>2. /\ Cardinality(SettledAs(how)') = Cardinality(SettledAs(how)) + 1
      /\ \A other : other # how /\ settled[c] # other => SettledAs(other)' = SettledAs(other)
  BY <1>1, SettledOne
<1>3. \A d \in Chains : /\ pc'[d] = IF d = c THEN "done" ELSE pc[d]
                        /\ settled'[d] = IF d = c THEN how ELSE settled[d]
  BY DEF FileTypes
<1>4. ends' = Cardinality(SettledAs("resolved"))' /\ errors' = Cardinality(SettledAs("rejected"))'
  BY <1>1, <1>2 DEF ChainState
<1>. QED
  BY <1>3, <1>4 DEF ChainState

(* Every step of the device keeps its types and what its chains are at. *)
LEMMA FileNext == FileTypes /\ ChainState /\ FileStep => FileTypes' /\ ChainState'
<1>. SUFFICES ASSUME FileTypes, ChainState, FileStep PROVE FileTypes' /\ ChainState'
  OBVIOUS
<1>0. Length \in Nat /\ MaxReads \in Nat
  BY FileBounds
<1>1. CASE UNCHANGED fileVars
  <2>1. \A how : SettledAs(how)' = SettledAs(how)
    BY <1>1 DEF SettledAs, fileVars, stream
  <2>. QED
    BY <1>1, <2>1 DEF fileVars, stream, FileTypes, ChainState
<1>2. ASSUME NEW c \in Chains, Resume(c) PROVE FileTypes' /\ ChainState'
  <2>1. FileTypes'
    <3>1. /\ file' = file /\ isOpen' \in {"yes", "no"} /\ tellg' \in {tellg, 1}
          /\ rdstate' \in {rdstate, {}, rdstate \cup {"fail"}}
      BY <1>2 DEF Resume, FileTypes, stream
    <3>2. tellg' \in 1..(Length + 1) /\ rdstate' \subseteq {"eof", "fail"}
      BY <1>0, <3>1 DEF FileTypes
    <3>. QED
      BY <1>2, <3>1, <3>2 DEF Resume, FileTypes
  <2>2. \A how : how \in {"resolved", "rejected"} => SettledAs(how)' = SettledAs(how)
    BY <1>2 DEF Resume, SettledAs, FileTypes, ChainState
  <2>3. ChainState'
    BY <1>2, <2>2 DEF Resume, ChainState, FileTypes
  <2>. QED
    BY <2>1, <2>3
<1>3. ASSUME NEW c \in Chains, ReadBegin(c) PROVE FileTypes' /\ ChainState'
  <2>1. FileTypes' /\ at'[c] >= 1 /\ \A d \in Chains : d # c => at'[d] = at[d]
    BY <1>0, <1>3 DEF ReadBegin, FileTypes, stream, HasData
  <2>. QED
    BY <1>3, <2>1, SettledKept DEF ReadBegin
<1>4. ASSUME NEW c \in Chains, ReadEnd(c) PROVE FileTypes' /\ ChainState'
  <2>1. at[c] \in 1..Length
    BY <1>0, <1>4 DEF ReadEnd, FileTypes, ChainState
  <2>2. reads' \in Seq(1..Length) /\ Len(reads') = Len(reads) + 1 /\ Len(reads') <= MaxReads
    BY <1>0, <1>4, <2>1 DEF ReadEnd, FileTypes
  <2>3. FileTypes' /\ \A d \in Chains : d # c => at'[d] = at[d]
    <3>0. tellg' = at[c] + 1 /\ rdstate' \in {rdstate, {"eof", "fail"}}
      BY <1>4 DEF ReadEnd
    <3>1. tellg' \in 1..(Length + 1)
      BY <1>0, <3>0, <2>1
    <3>3. rdstate' \subseteq {"eof", "fail"}
      BY <3>0 DEF FileTypes
    <3>2. current' \in [Chains -> 0..MaxReads] /\ at' \in [Chains -> 0..Length]
      BY <1>0, <1>4, <2>2 DEF ReadEnd, FileTypes
    <3>. QED
      BY <1>4, <2>2, <3>1, <3>2, <3>3 DEF ReadEnd, FileTypes
  <2>. QED
    BY <1>4, <2>3, SettledKept DEF ReadEnd
<1>5. ASSUME NEW c \in Chains, ReadEof(c) PROVE FileTypes' /\ ChainState'
  <2>1. FileTypes'
    BY <1>0, <1>5 DEF ReadEof, FileTypes
  <2>. QED
    BY <1>5, <2>1, SettledDone DEF ReadEof
<1>6. ASSUME NEW c \in Chains, AfterData(c) PROVE FileTypes' /\ ChainState'
  <2>1. FileTypes'
    BY <1>0, <1>6 DEF AfterData, FileTypes, stream
  <2>. QED
    BY <1>6, <2>1, SettledKept DEF AfterData
<1>7. ASSUME NEW c \in Chains, AfterLastData(c) PROVE FileTypes' /\ ChainState'
  <2>1. FileTypes'
    BY <1>0, <1>7 DEF AfterLastData, FileTypes, stream
  <2>. QED
    BY <1>7, <2>1, SettledDone DEF AfterLastData
<1>8. ASSUME NEW c \in Chains, DataRejected(c) PROVE FileTypes' /\ ChainState'
  <2>1. FileTypes'
    BY <1>0, <1>8 DEF DataRejected, FileTypes, stream
  <2>. QED
    BY <1>8, <2>1, SettledDone DEF DataRejected
<1>9. ASSUME NEW c \in Chains, Handled(c) PROVE FileTypes' /\ ChainState'
  <2>1. FileTypes'
    BY <1>0, <1>9 DEF Handled, FileTypes, stream
  <2>. QED
    BY <1>9, <2>1, SettledKept DEF Handled
<1>10. CASE Pause \/ Reset \/ Close
  <2>1. /\ UNCHANGED <<file, pc, at, current, settled, reads, ends, errors>>
        /\ myState' \in {"Paused", "Resumed"} /\ isOpen' \in {"yes", "no"}
        /\ rdstate' \subseteq {"eof", "fail"} /\ tellg' \in 1..(Length + 1)
    <3>1. CASE Pause
      BY <3>1 DEF Pause, FileTypes, stream
    <3>2. CASE Reset
      BY <1>0, <3>2 DEF Reset, FileTypes
    <3>3. CASE Close
      BY <3>3 DEF Close, FileTypes
    <3>. QED
      BY <1>10, <3>1, <3>2, <3>3
  <2>2. \A how : SettledAs(how)' = SettledAs(how)
    BY <2>1 DEF SettledAs
  <2>. QED
    BY <2>1, <2>2 DEF FileTypes, ChainState
<1>. QED
  BY <1>1, <1>2, <1>3, <1>4, <1>5, <1>6, <1>7, <1>8, <1>9, <1>10 DEF FileStep, ChainMoves

-----------------------------------------------------------------------------
(* The sinks: what each received of which write. *)

Unit == (Writes \cup {0}) \X (1..Units)
Begun == {"queued", "tested", "sending", "resolved", "rejected"}

SinkTypes ==
  /\ protocol \in [SocketSinks -> Protocols]
  /\ open \in [Sinks -> {"yes", "no"}]
  /\ bad \in [Sinks -> {"yes", "no"}]
  /\ writing \in [Writes -> [Sinks -> {"none", "skipped", "queued", "tested", "sending", "resolved", "rejected"}]]
  /\ written \in [Writes -> [Sinks -> 0..Units]]
  /\ out \in [Sinks -> Seq(Unit)]
  /\ syncing \in [FileSinks -> Nat] /\ direct \subseteq FileSinks /\ torn \subseteq Writes \X Sinks
  /\ faults \in 0..MaxFaults

(* A unit that a sink has is of a write that was begun, and among those    *)
(* the write counts unless it failed.                                      *)
Counts(s) ==
  \A i \in DOMAIN out[s] : Piped(out[s][i]) =>
    /\ writing[out[s][i][1]][s] \in Begun
    /\ writing[out[s][i][1]][s] # "rejected" => out[s][i][2] <= written[out[s][i][1]][s]

(* A sink has every unit that a write counts, unless it was torn. *)
Covers(s) ==
  \A w \in Writes : <<w, s>> \notin torn => \A x \in 1..written[w][s] : <<w, x>> \in Received(s)

(* The units of one write are in order, each once. *)
Ascends(s) ==
  \A i, j \in DOMAIN out[s] :
    i < j /\ Piped(out[s][i]) /\ out[s][i][1] = out[s][j][1] => out[s][i][2] < out[s][j][2]

(* A write that is resolved is whole, or was cut short by a close. *)
WholeIfOpen(s) ==
  \A w \in Writes : writing[w][s] = "resolved" /\ open[s] = "yes" => written[w][s] = Units

SinkState == \A s \in Sinks : Counts(s) /\ Covers(s) /\ Ascends(s) /\ WholeIfOpen(s)

(* o grows to p by n units of write w, from unit k + 1 on. *)
Grows(o, p, l, n, w, k) ==
  /\ DOMAIN o = 1..l /\ DOMAIN p = 1..(l + n)
  /\ \A i \in 1..l : p[i] = o[i]
  /\ \A i \in (l + 1)..(l + n) : p[i] = <<w, k + (i - l)>>

(* What a sink has after a part of a buffer was passed on to it. *)
LEMMA Appended ==
  ASSUME NEW o \in Seq(Unit), NEW w \in Writes \cup {0}, NEW k \in Nat, NEW n \in Nat,
         k + n <= Units
  PROVE  /\ o \o Part(w, k + 1, n) \in Seq(Unit)
         /\ Grows(o, o \o Part(w, k + 1, n), Len(o), n, w, k)
<1>. PICK p : p = Part(w, k + 1, n)
  OBVIOUS
<1>0. Units \in Nat
  BY SinkBounds
<1>1. DOMAIN p = 1..n /\ \A i \in 1..n : p[i] = <<w, k + 1 + i - 1>>
  BY DEF Part
<1>2. \A i \in 1..n : p[i] = <<w, k + i>> /\ k + i \in 1..Units
  BY <1>0, <1>1
<1>3. p \in Seq(Unit) /\ Len(p) = n
  <2>1. p = [i \in 1..n |-> p[i]]
    BY <1>1 DEF Part
  <2>2. \A i \in 1..n : p[i] \in Unit
    <3>. SUFFICES ASSUME NEW i \in 1..n PROVE p[i] \in Unit
      OBVIOUS
    <3>1. PICK x \in 1..Units : p[i] = <<w, x>>
      BY <1>2
    <3>2. <<w, x>> \in (Writes \cup {0}) \X (1..Units)
      OBVIOUS
    <3>. QED
      BY <3>1, <3>2 DEF Unit
  <2>. QED
    BY <2>1, <2>2
<1>4. o \o p \in Seq(Unit) /\ Len(o \o p) = Len(o) + n
  BY <1>3
<1>5. \A i \in 1..Len(o) : (o \o p)[i] = o[i]
  BY <1>3
<1>6. \A i \in (Len(o) + 1)..(Len(o) + n) : (o \o p)[i] = p[i - Len(o)]
  BY <1>3
<1>7. \A i \in (Len(o) + 1)..(Len(o) + n) : i - Len(o) \in 1..n
  OBVIOUS
<1>8. \A i \in (Len(o) + 1)..(Len(o) + n) : (o \o p)[i] = <<w, k + (i - Len(o))>>
  BY <1>2, <1>6, <1>7
<1>9. DOMAIN o = 1..Len(o) /\ DOMAIN (o \o p) = 1..(Len(o) + n)
  BY <1>4
<1>. QED
  BY <1>4, <1>5, <1>8, <1>9 DEF Grows

(* The writes go on or end, and no sink receives anything. *)
LEMMA WritesKept ==
  ASSUME SinkTypes, SinkState, SinkTypes', out' = out, written' = written, torn \subseteq torn',
         \A s \in Sinks : open'[s] = "yes" => open[s] = "yes",
         \A w \in Writes, s \in Sinks :
           /\ writing[w][s] \in Begun => writing'[w][s] \in Begun
           /\ writing[w][s] = "rejected" => writing'[w][s] = "rejected"
           /\ writing'[w][s] = "resolved" /\ writing[w][s] # "resolved" /\ open[s] = "yes"
                => written[w][s] = Units
  PROVE  SinkState'
<1>. SUFFICES ASSUME NEW s \in Sinks
              PROVE  Counts(s)' /\ Covers(s)' /\ Ascends(s)' /\ WholeIfOpen(s)'
  BY DEF SinkState
<1>0. Counts(s) /\ Covers(s) /\ Ascends(s) /\ WholeIfOpen(s)
  BY DEF SinkState
<1>1. Counts(s)'
  <2>. SUFFICES ASSUME NEW i \in DOMAIN out[s], Piped(out[s][i])
                PROVE  LET w == out[s][i][1] IN
                       /\ writing'[w][s] \in Begun
                       /\ writing'[w][s] # "rejected" => out[s][i][2] <= written[w][s]
    BY DEF Counts, Piped
  <2>1. out[s][i][1] \in Writes
    BY DEF SinkTypes, Unit, Piped
  <2>. QED
    BY <1>0, <2>1 DEF Counts
<1>2. Covers(s)'
  BY <1>0 DEF Covers, Received
<1>3. Ascends(s)'
  BY <1>0 DEF Ascends, Piped
<1>4. WholeIfOpen(s)'
  BY <1>0 DEF WholeIfOpen
<1>. QED
  BY <1>1, <1>2, <1>3, <1>4

(* A value of write w at sink s becomes x. *)
SetAt(g, f, w, s, x) ==
  \A v \in Writes, t \in Sinks : g[v][t] = IF v = w /\ t = s THEN x ELSE f[v][t]

(* A write that was torn goes on; what the file has of it is not counted.  *)
LEMMA TornKept ==
  ASSUME SinkTypes, SinkState, SinkTypes', NEW w \in Writes, NEW s \in Sinks, <<w, s>> \in torn,
         writing[w][s] \in {"tested", "sending"}, NEW m \in Nat, m >= written[w][s],
         SetAt(writing', writing, w, s, "queued"), SetAt(written', written, w, s, m),
         out' = out, torn' = torn, open' = open
  PROVE  SinkState'
<1>. SUFFICES ASSUME NEW t \in Sinks
              PROVE  Counts(t)' /\ Covers(t)' /\ Ascends(t)' /\ WholeIfOpen(t)'
  BY DEF SinkState
<1>0. Counts(t) /\ Covers(t) /\ Ascends(t) /\ WholeIfOpen(t)
  BY DEF SinkState
<1>1. Counts(t)'
  <2>. SUFFICES ASSUME NEW i \in DOMAIN out[t], Piped(out[t][i])
                PROVE  LET v == out[t][i][1] IN
                       /\ writing'[v][t] \in Begun
                       /\ writing'[v][t] # "rejected" => out[t][i][2] <= written'[v][t]
    BY DEF Counts, Piped
  <2>0. out[t][i] \in Unit
    BY DEF SinkTypes
  <2>1. PICK v \in Writes : v = out[t][i][1]
    BY <2>0 DEF Unit, Piped
  <2>2. writing[v][t] \in Begun /\ (writing[v][t] # "rejected" => out[t][i][2] <= written[v][t])
    BY <1>0, <2>1 DEF Counts
  <2>3. CASE v = w /\ t = s
    <3>1. out[t][i][2] <= written[w][s]
      BY <2>2, <2>3
    <3>2. out[t][i][2] \in Nat /\ written[w][s] \in Nat
      BY <2>0, SinkBounds DEF Unit, SinkTypes
    <3>3. out[t][i][2] <= m
      BY <3>1, <3>2
    <3>4. writing'[v][t] = "queued" /\ written'[v][t] = m
      BY <2>3 DEF SetAt
    <3>. QED
      BY <2>1, <3>3, <3>4 DEF Begun
  <2>4. CASE ~ (v = w /\ t = s)
    <3>1. writing'[v][t] = writing[v][t] /\ written'[v][t] = written[v][t]
      BY <2>4 DEF SetAt
    <3>. QED
      BY <2>1, <2>2, <3>1
  <2>. QED
    BY <2>3, <2>4
<1>2. Covers(t)'
  <2>. SUFFICES ASSUME NEW v \in Writes, <<v, t>> \notin torn, NEW x \in 1..written'[v][t]
                PROVE  <<v, x>> \in Received(t)
    BY DEF Covers, Received
  <2>1. written'[v][t] = written[v][t]
    BY DEF SetAt
  <2>. QED
    BY <1>0, <2>1 DEF Covers
<1>3. Ascends(t)'
  BY <1>0 DEF Ascends, Piped
<1>4. WholeIfOpen(t)'
  BY <1>0 DEF WholeIfOpen, SetAt
<1>. QED
  BY <1>1, <1>2, <1>3, <1>4

(* A sink receives a part of a buffer, in a write that goes on or fails,   *)
(* in terms of the elements of what it has.                                *)
LEMMA PartKept ==
  ASSUME SinkTypes, SinkState, SinkTypes', NEW w \in Writes, NEW s \in Sinks,
         writing[w][s] \in {"tested", "sending"}, NEW n \in Nat, NEW k \in Nat, k = written[w][s],
         NEW o, o = out[s], NEW p, p = out'[s], NEW l \in Nat, Grows(o, p, l, n, w, k),
         NEW st, st \in {"queued", "rejected"}, NEW m \in Nat, m = k \/ m = k + n,
         st = "queued" => m = k + n,
         SetAt(writing', writing, w, s, st), SetAt(written', written, w, s, m),
         \A t \in Sinks : t # s => out'[t] = out[t],
         open' = open, torn' = torn
  PROVE  SinkState'
<1>0. Units \in Nat /\ 0 \notin Writes
  BY SinkBounds DEF Writes
<1>1. DOMAIN o = 1..l /\ DOMAIN p = 1..(l + n) /\ \A i \in 1..l : i \in DOMAIN p /\ p[i] = o[i]
  BY DEF Grows
<1>2. \A i \in 1..l : /\ o[i][2] \in Nat
                      /\ Piped(o[i]) => o[i][1] \in Writes
  <2>1. \A i \in 1..l : o[i] \in Unit
    BY <1>1 DEF SinkTypes
  <2>. QED
    BY <2>1, <1>0 DEF Unit, Piped
<1>3. \A i \in DOMAIN p : i \in 1..l \/ i \in (l + 1)..(l + n)
  BY <1>1
<1>4. \A i \in (l + 1)..(l + n) : p[i][1] = w /\ p[i][2] = k + (i - l)
  BY DEF Grows
<1>5. Counts(s) /\ Covers(s) /\ Ascends(s) /\ WholeIfOpen(s)
  BY DEF SinkState
<1>6. /\ writing'[w][s] = st /\ \A v \in Writes : v # w => writing'[v][s] = writing[v][s]
      /\ written'[w][s] = m /\ \A v \in Writes : v # w => written'[v][s] = written[v][s]
  BY DEF SetAt
<1>7. \A i \in 1..l : o[i][1] = w => o[i][2] <= k
  BY <1>0, <1>1, <1>5 DEF Counts, Piped
<1>8. Counts(s)'
  <2>. SUFFICES ASSUME NEW i \in DOMAIN p, Piped(p[i])
                PROVE  /\ writing'[p[i][1]][s] \in Begun
                       /\ writing'[p[i][1]][s] # "rejected" => p[i][2] <= written'[p[i][1]][s]
    BY DEF Counts, Piped
  <2>1. CASE i \in 1..l
    <3>1. p[i] = o[i] /\ o[i][1] \in Writes /\ o[i][2] \in Nat
      BY <2>1, <1>1, <1>2 DEF Piped
    <3>2. /\ writing[o[i][1]][s] \in Begun
          /\ writing[o[i][1]][s] # "rejected" => o[i][2] <= written[o[i][1]][s]
      BY <2>1, <3>1, <1>1, <1>5 DEF Counts, Piped
    <3>3. CASE o[i][1] = w
      BY <2>1, <3>1, <3>3, <1>6, <1>7 DEF Begun
    <3>4. CASE o[i][1] # w
      BY <3>1, <3>2, <3>4, <1>6
    <3>. QED
      BY <3>3, <3>4
  <2>2. CASE i \in (l + 1)..(l + n)
    <3>1. p[i][1] = w /\ p[i][2] = k + (i - l) /\ (k + (i - l) <= k + n)
      BY <2>2, <1>4
    <3>. QED
      BY <3>1, <1>6 DEF Begun
  <2>. QED
    BY <2>1, <2>2, <1>3
<1>9. Received(s) \subseteq Received(s)'
  BY <1>1 DEF Received
<1>10. Covers(s)'
  <2>. SUFFICES ASSUME NEW v \in Writes, <<v, s>> \notin torn, NEW x \in 1..written'[v][s]
                PROVE  <<v, x>> \in Received(s)'
    BY DEF Covers
  <2>1. CASE x \in 1..written[v][s]
    BY <2>1, <1>5, <1>9 DEF Covers
  <2>2. CASE x \notin 1..written[v][s]
    <3>1. v = w
      BY <2>2, <1>6
    <3>2. x \in Nat /\ k < x /\ x <= k + n
      BY <2>2, <3>1, <1>6
    <3>. PICK i : i = l + (x - k)
      OBVIOUS
    <3>3. i \in (l + 1)..(l + n) /\ k + (i - l) = x
      BY <3>2
    <3>4. i \in DOMAIN p
      BY <3>3, <1>1
    <3>5. p[i] = <<v, x>>
      BY <3>1, <3>3 DEF Grows
    <3>. QED
      BY <3>4, <3>5 DEF Received
  <2>. QED
    BY <2>1, <2>2
<1>11. Ascends(s)'
  <2>. SUFFICES ASSUME NEW i \in DOMAIN p, NEW j \in DOMAIN p, i < j, Piped(p[i]), p[i][1] = p[j][1]
                PROVE  p[i][2] < p[j][2]
    BY DEF Ascends, Piped
  <2>1. CASE i \in 1..l /\ j \in 1..l
    BY <2>1, <1>1, <1>5 DEF Ascends, Piped
  <2>2. CASE i \in 1..l /\ j \in (l + 1)..(l + n)
    <3>1. p[i] = o[i] /\ o[i][2] \in Nat /\ p[j][1] = w /\ p[j][2] = k + (j - l)
      BY <2>2, <1>1, <1>2, <1>4
    <3>2. o[i][2] <= k
      BY <2>2, <3>1, <1>7
    <3>. QED
      BY <2>2, <3>1, <3>2
  <2>3. CASE i \in (l + 1)..(l + n) /\ j \in (l + 1)..(l + n)
    <3>1. p[i][2] = k + (i - l) /\ p[j][2] = k + (j - l)
      BY <2>3, <1>4
    <3>. QED
      BY <2>3, <3>1
  <2>. QED
    BY <2>1, <2>2, <2>3, <1>1, <1>3
<1>12. WholeIfOpen(s)'
  BY <1>5, <1>6 DEF WholeIfOpen
<1>13. ASSUME NEW t \in Sinks, t # s
       PROVE  Counts(t)' /\ Covers(t)' /\ Ascends(t)' /\ WholeIfOpen(t)'
  <2>1. Counts(t) /\ Covers(t) /\ Ascends(t) /\ WholeIfOpen(t)
    BY DEF SinkState
  <2>2. /\ out'[t] = out[t] /\ open'[t] = open[t]
        /\ \A v \in Writes : writing'[v][t] = writing[v][t] /\ written'[v][t] = written[v][t]
    BY <1>13 DEF SetAt
  <2>3. \A i \in DOMAIN out[t] : Piped(out[t][i]) => out[t][i][1] \in Writes
    BY SMTT(30) DEF SinkTypes, Unit, Piped
  <2>4. Counts(t)'
    BY <2>1, <2>2, <2>3 DEF Counts, Piped
  <2>5. Covers(t)'
    BY ZenonT(60), <2>1, <2>2 DEF Covers, Received
  <2>6. Ascends(t)'
    BY <2>1, <2>2 DEF Ascends, Piped
  <2>7. WholeIfOpen(t)'
    BY <2>1, <2>2 DEF WholeIfOpen
  <2>. QED
    BY <2>4, <2>5, <2>6, <2>7
<1>. QED
  BY <1>8, <1>10, <1>11, <1>12, <1>13 DEF SinkState

(* The same of the concatenation. *)
LEMMA PartPassed ==
  ASSUME SinkTypes, SinkState, SinkTypes', NEW w \in Writes, NEW s \in Sinks,
         writing[w][s] \in {"tested", "sending"}, NEW n \in Nat, NEW k \in Nat, k = written[w][s],
         k + n <= Units,
         out' = [out EXCEPT ![s] = @ \o Part(w, k + 1, n)],
         NEW st, st \in {"queued", "rejected"}, NEW m \in Nat, m = k \/ m = k + n,
         st = "queued" => m = k + n,
         SetAt(writing', writing, w, s, st), SetAt(written', written, w, s, m),
         open' = open, torn' = torn
  PROVE  SinkState'
<1>0. w \in Writes \cup {0}
  OBVIOUS
<1>1. out[s] \in Seq(Unit) /\ Len(out[s]) \in Nat /\ \A t \in Sinks : t # s => out'[t] = out[t]
  BY DEF SinkTypes
<1>2. out'[s] = out[s] \o Part(w, k + 1, n)
  BY DEF SinkTypes
<1>3. /\ out[s] \o Part(w, k + 1, n) \in Seq(Unit)
      /\ Grows(out[s], out[s] \o Part(w, k + 1, n), Len(out[s]), n, w, k)
  BY <1>0, <1>1, Appended
<1>4. Grows(out[s], out'[s], Len(out[s]), n, w, k)
  BY <1>2, <1>3
<1>. QED
  BY <1>1, <1>4, PartKept

(* The program's own write adds nothing of the pipe. *)
LEMMA OwnKept ==
  ASSUME SinkTypes, SinkState, SinkTypes', NEW s \in Sinks, NEW n \in Nat,
         Grows(out[s], out'[s], Len(out[s]), n, 0, 0),
         \A t \in Sinks : t # s => out'[t] = out[t],
         writing' = writing, written' = written, open' = open, torn' = torn
  PROVE  SinkState'
<1>. SUFFICES ASSUME NEW t \in Sinks
              PROVE  Counts(t)' /\ Covers(t)' /\ Ascends(t)' /\ WholeIfOpen(t)'
  BY DEF SinkState
<1>0. Len(out[s]) \in Nat /\ DOMAIN out[s] = 1..Len(out[s])
  BY DEF SinkTypes
<1>1. /\ \A i \in DOMAIN out'[t] : Piped(out'[t][i]) => i \in DOMAIN out[t] /\ out'[t][i] = out[t][i]
      /\ \A i \in DOMAIN out[t] : i \in DOMAIN out'[t] /\ out'[t][i] = out[t][i]
  <2>1. CASE t = s
    <3>1. \A i \in DOMAIN out'[t] : i \in 1..Len(out[s]) \/ i \in (Len(out[s]) + 1)..(Len(out[s]) + n)
      BY <2>1, <1>0 DEF Grows
    <3>2. \A i \in (Len(out[s]) + 1)..(Len(out[s]) + n) : out'[t][i][1] = 0
      BY <2>1, <1>0 DEF Grows
    <3>3. \A i \in DOMAIN out[t] : i \in DOMAIN out'[t] /\ out'[t][i] = out[t][i]
      BY <2>1, <1>0 DEF Grows
    <3>. QED
      BY <2>1, <1>0, <3>1, <3>2, <3>3 DEF Piped
  <2>2. CASE t # s
    BY <2>2
  <2>. QED
    BY <2>1, <2>2
<1>2. Counts(t) /\ Covers(t) /\ Ascends(t) /\ WholeIfOpen(t)
  BY DEF SinkState
<1>3. Counts(t)'
  <2>. SUFFICES ASSUME NEW i \in DOMAIN out'[t], Piped(out'[t][i])
                PROVE  /\ writing[out'[t][i][1]][t] \in Begun
                       /\ writing[out'[t][i][1]][t] # "rejected" => out'[t][i][2] <= written[out'[t][i][1]][t]
    BY DEF Counts, Piped
  <2>1. i \in DOMAIN out[t] /\ out'[t][i] = out[t][i]
    BY <1>1
  <2>. QED
    BY <2>1, <1>2 DEF Counts
<1>4. Received(t) \subseteq Received(t)'
  BY <1>1 DEF Received
<1>5. Covers(t)'
  BY <1>2, <1>4 DEF Covers
<1>6. Ascends(t)'
  <2>. SUFFICES ASSUME NEW i \in DOMAIN out'[t], NEW j \in DOMAIN out'[t], i < j,
                       Piped(out'[t][i]), out'[t][i][1] = out'[t][j][1]
                PROVE  out'[t][i][2] < out'[t][j][2]
    BY DEF Ascends, Piped
  <2>1. Piped(out'[t][j])
    BY DEF Piped
  <2>2. /\ i \in DOMAIN out[t] /\ out'[t][i] = out[t][i]
        /\ j \in DOMAIN out[t] /\ out'[t][j] = out[t][j]
    BY <2>1, <1>1
  <2>. QED
    BY <2>2, <1>2 DEF Ascends
<1>7. WholeIfOpen(t)'
  BY <1>2 DEF WholeIfOpen
<1>. QED
  BY <1>3, <1>5, <1>6, <1>7

(* Every step of the sinks keeps their types, and what they have received. *)
LEMMA SinkNext == SinkTypes /\ SinkState /\ SinkStep => SinkTypes' /\ SinkState'
<1>. SUFFICES ASSUME SinkTypes, SinkState, SinkStep PROVE SinkTypes' /\ SinkState'
  OBVIOUS
<1>0. Units \in Nat \ {0} /\ WriteMax \in Nat \ {0} /\ MaxFaults \in Nat
  BY SinkBounds
<1>1. CASE UNCHANGED sinkVars \/ Fault
  <2>1. /\ UNCHANGED <<protocol, open, bad, writing, written, out, syncing, torn, direct>>
        /\ faults' = faults \/ (faults < MaxFaults /\ faults' = faults + 1)
    BY <1>1 DEF sinkVars, races, Fault
  <2>2. SinkTypes'
    BY <2>1, <1>0 DEF SinkTypes
  <2>. QED
    BY <2>1, <2>2, WritesKept
<1>2. ASSUME NEW w \in Writes, WriteBegins(w) PROVE SinkTypes' /\ SinkState'
  <2>1. PICK st \in {"queued", "skipped"} :
          /\ writing' = [writing EXCEPT ![w] = [s \in Sinks |-> st]]
          /\ UNCHANGED <<protocol, open, bad, written, out, faults, syncing, torn, direct>>
    BY <1>2 DEF WriteBegins, Write, Skip, races
  <2>2. SinkTypes'
    BY <2>1 DEF SinkTypes
  <2>3. \A v \in Writes, s \in Sinks : writing'[v][s] = IF v = w THEN st ELSE writing[v][s]
    BY <2>1 DEF SinkTypes
  <2>4. \A s \in Sinks : writing[w][s] = "none"
    BY <1>2 DEF WriteBegins
  <2>. QED
    BY <2>1, <2>2, <2>3, <2>4, WritesKept DEF Begun
<1>3. ASSUME NEW w \in Writes, NEW s \in Sinks, WriteStep(w, s) PROVE SinkTypes' /\ SinkState'
  <2>1. CASE Test(w, s) \/ Refused(w, s) \/ BeginSend(w, s) \/ Complete(w, s) \/ CutShort(w, s)
    <3>1. PICK st \in {"tested", "sending", "rejected", "resolved"} :
            /\ writing' = [writing EXCEPT ![w][s] = st]
            /\ writing[w][s] \in {"queued", "tested"}
            /\ st = "resolved" => written[w][s] = Units \/ open[s] = "no"
            /\ UNCHANGED <<protocol, open, bad, written, out, syncing, direct, faults>>
      BY <2>1 DEF Test, Refused, BeginSend, Complete, CutShort, races
    <3>2. torn \subseteq torn' /\ torn' \subseteq Writes \X Sinks
      <4>1. torn' = torn \/ (s \in FileSinks /\ torn' = torn \cup {<<v, s>> : v \in Sending(s) \cup {w}})
        BY <2>1 DEF Test, Refused, BeginSend, Complete, CutShort, races
      <4>. QED
        BY <4>1 DEF SinkTypes, Sending
    <3>3. SinkTypes'
      BY <3>1, <3>2 DEF SinkTypes
    <3>4. \A v \in Writes, t \in Sinks :
            writing'[v][t] = IF v = w /\ t = s THEN st ELSE writing[v][t]
      BY <3>1 DEF SinkTypes
    <3>. QED
      BY <3>1, <3>2, <3>3, <3>4, WritesKept DEF Begun
  <2>2. ASSUME NEW n \in Nat, written[w][s] + n <= Units, Gets(w, s, n)
        PROVE  /\ out' \in [Sinks -> Seq(Unit)]
               /\ <<w, s>> \in torn => out' = out
               /\ <<w, s>> \notin torn => out' = [out EXCEPT ![s] = @ \o Part(w, written[w][s] + 1, n)]
    <3>1. CASE <<w, s>> \in torn
      BY <2>2, <3>1 DEF Gets, SinkTypes
    <3>2. CASE <<w, s>> \notin torn
      <4>1. out' = [out EXCEPT ![s] = @ \o Part(w, written[w][s] + 1, n)]
        BY <2>2, <3>2 DEF Gets
      <4>2. out[s] \in Seq(Unit) /\ w \in Writes \cup {0} /\ written[w][s] \in Nat
        BY <1>0 DEF SinkTypes
      <4>3. out[s] \o Part(w, written[w][s] + 1, n) \in Seq(Unit)
        BY <2>2, <4>2, Appended
      <4>. QED
        BY <3>2, <4>1, <4>3 DEF SinkTypes
    <3>. QED
      BY <3>1, <3>2
  <2>3. CASE Send(w, s)
    <3>1. PICK n \in Sizes(w, s) :
            written' = [written EXCEPT ![w][s] = @ + n] /\ Gets(w, s, n)
      BY <2>3 DEF Send
    <3>2. n \in Nat /\ written[w][s] \in Nat /\ written[w][s] + n \in 0..Units
      BY <1>0 DEF Sizes, SinkTypes
    <3>3. /\ out' \in [Sinks -> Seq(Unit)]
          /\ <<w, s>> \in torn => out' = out
          /\ <<w, s>> \notin torn => out' = [out EXCEPT ![s] = @ \o Part(w, written[w][s] + 1, n)]
      <4>1. written[w][s] + n <= Units
        BY <1>0, <3>2
      <4>. QED
        BY <2>2, <3>1, <3>2, <4>1
    <3>4. bad' \in [Sinks -> {"yes", "no"}]
      BY <2>3 DEF Send, Cleared, SinkTypes
    <3>5. written' \in [Writes -> [Sinks -> 0..Units]]
      BY <3>1, <3>2, <1>0 DEF SinkTypes
    <3>6. /\ writing[w][s] \in {"tested", "sending"} /\ writing' = [writing EXCEPT ![w][s] = "queued"]
          /\ UNCHANGED <<protocol, open, faults, syncing, torn, direct>>
      BY <2>3 DEF Send, Passing, races
    <3>7. SinkTypes'
      BY <3>3, <3>4, <3>5, <3>6 DEF SinkTypes
    <3>8. SetAt(writing', writing, w, s, "queued") /\ SetAt(written', written, w, s, written[w][s] + n)
      BY <3>1, <3>6 DEF SinkTypes, SetAt
    <3>9. written[w][s] + n \in Nat /\ (written[w][s] + n <= Units) /\ written[w][s] + n >= written[w][s]
      BY <3>2
    <3>10. CASE <<w, s>> \in torn
      BY <3>3, <3>6, <3>7, <3>8, <3>9, <3>10, TornKept
    <3>11. CASE <<w, s>> \notin torn
      BY <3>2, <3>3, <3>6, <3>7, <3>8, <3>9, <3>11, PartPassed
    <3>. QED
      BY <3>10, <3>11
  <2>4. CASE SendFails(w, s)
    <3>1. /\ writing[w][s] \in {"tested", "sending"} /\ writing' = [writing EXCEPT ![w][s] = "rejected"]
          /\ UNCHANGED <<protocol, open, written, syncing, torn, direct>>
      BY <2>4 DEF SendFails, Passing, races
    <3>2. bad' \in [Sinks -> {"yes", "no"}] /\ faults' \in 0..MaxFaults
      BY <2>4, <1>0 DEF SendFails, SinkTypes
    <3>3. CASE out' = out
      <4>1. SinkTypes'
        BY <3>1, <3>2, <3>3 DEF SinkTypes
      <4>2. \A v \in Writes, t \in Sinks :
              writing'[v][t] = IF v = w /\ t = s THEN "rejected" ELSE writing[v][t]
        BY <3>1 DEF SinkTypes
      <4>. QED
        BY <3>1, <3>3, <4>1, <4>2, WritesKept DEF Begun
    <3>4. CASE out' # out
      <4>1. PICK size \in Sizes(w, s) : \E n \in Before(s, size) : Gets(w, s, n)
        BY <2>4, <3>4 DEF SendFails
      <4>2. PICK n \in Before(s, size) : Gets(w, s, n)
        BY <4>1
      <4>3. size \in Nat /\ written[w][s] \in Nat /\ written[w][s] + size <= Units
        BY <1>0 DEF Sizes, SinkTypes
      <4>4. n \in Nat /\ (n <= size)
        BY <4>3 DEF Before
      <4>5. written[w][s] + n <= Units
        BY <4>3, <4>4, <1>0
      <4>6. /\ out' \in [Sinks -> Seq(Unit)]
            /\ out' = [out EXCEPT ![s] = @ \o Part(w, written[w][s] + 1, n)]
        BY <2>2, <3>4, <4>2, <4>4, <4>5
      <4>7. SinkTypes'
        BY <3>1, <3>2, <4>6 DEF SinkTypes
      <4>8. SetAt(writing', writing, w, s, "rejected") /\ SetAt(written', written, w, s, written[w][s])
        BY <3>1 DEF SinkTypes, SetAt
      <4>. QED
        BY <3>1, <4>3, <4>4, <4>5, <4>6, <4>7, <4>8, PartPassed
    <3>. QED
      BY <3>3, <3>4
  <2>. QED
    BY <1>3, <2>1, <2>3, <2>4 DEF WriteStep
<1>4. ASSUME NEW s \in Sinks, CloseSink(s) PROVE SinkTypes' /\ SinkState'
  <2>0. torn \subseteq torn' /\ torn' \subseteq Writes \X Sinks
    <3>1. torn' = torn \cup {<<w, s>> : w \in Sending(s)}
      BY <1>4 DEF CloseSink
    <3>. QED
      BY <3>1 DEF SinkTypes, Sending
  <2>1. SinkTypes'
    BY <1>4, <2>0 DEF CloseSink, SinkTypes
  <2>2. \A t \in Sinks : open'[t] = "yes" => open[t] = "yes"
    BY <1>4 DEF CloseSink, SinkTypes
  <2>. QED
    BY <1>4, <2>0, <2>1, <2>2, WritesKept DEF CloseSink
<1>5. ASSUME NEW s \in Sinks, NEW n \in 1..Units, out' = [out EXCEPT ![s] = @ \o Part(0, 1, n)],
             bad' \in [Sinks -> {"yes", "no"}], syncing' \in [FileSinks -> Nat],
             UNCHANGED <<protocol, open, writing, written, torn, direct, faults>>
      PROVE  SinkTypes' /\ SinkState'
  <2>1. out[s] \in Seq(Unit) /\ n \in Nat /\ 0 + n <= Units /\ 0 + 1 = 1
    BY <1>0 DEF SinkTypes
  <2>2. /\ out[s] \o Part(0, 0 + 1, n) \in Seq(Unit)
        /\ Grows(out[s], out[s] \o Part(0, 0 + 1, n), Len(out[s]), n, 0, 0)
    BY <2>1, Appended
  <2>3. out' \in [Sinks -> Seq(Unit)] /\ Grows(out[s], out'[s], Len(out[s]), n, 0, 0)
    BY <1>5, <2>1, <2>2 DEF SinkTypes
  <2>4. SinkTypes'
    BY <1>5, <2>3 DEF SinkTypes
  <2>5. \A t \in Sinks : t # s => out'[t] = out[t]
    BY <1>5 DEF SinkTypes
  <2>. QED
    BY <1>5, <2>1, <2>3, <2>4, <2>5, OwnKept
<1>6. ASSUME NEW s \in Sinks, WriteSync(s) PROVE SinkTypes' /\ SinkState'
  <2>1. CASE open[s] = "yes" /\ s \in SocketSinks
    <3>1. PICK n \in 1..Units : out' = [out EXCEPT ![s] = @ \o Part(0, 1, n)]
      BY <1>0, <1>6, <2>1, SinkBounds DEF WriteSync
    <3>2. /\ bad' \in [Sinks -> {"yes", "no"}] /\ syncing' \in [FileSinks -> Nat]
          /\ UNCHANGED <<protocol, open, writing, written, torn, direct, faults>>
      BY <1>6, <2>1, SinkBounds DEF WriteSync, Cleared, SinkTypes, races
    <3>. QED
      BY <3>1, <3>2, <1>5
  <2>2. CASE ~ (open[s] = "yes" /\ s \in SocketSinks)
    <3>1. /\ UNCHANGED <<protocol, open, writing, written, out, faults>>
          /\ bad' = bad \/ bad' = [bad EXCEPT ![s] = "yes"]
          /\ \/ UNCHANGED <<syncing, torn, direct>>
             \/ /\ s \in FileSinks /\ syncing' = [syncing EXCEPT ![s] = @ + 1]
                /\ torn' = torn \cup {<<w, s>> : w \in Sending(s)} /\ direct' = direct \cup {s}
      BY <1>6, <2>2 DEF WriteSync, races
    <3>2. torn \subseteq torn' /\ torn' \subseteq Writes \X Sinks /\ direct' \subseteq FileSinks
      <4>1. torn' = torn \/ torn' = torn \cup {<<w, s>> : w \in Sending(s)}
        BY <3>1
      <4>2. direct' = direct \/ (s \in FileSinks /\ direct' = direct \cup {s})
        BY <3>1
      <4>3. torn \subseteq torn' /\ torn' \subseteq Writes \X Sinks
        BY <4>1 DEF SinkTypes, Sending
      <4>4. direct' \subseteq FileSinks
        BY <4>2 DEF SinkTypes
      <4>. QED
        BY <4>3, <4>4
    <3>3. syncing' \in [FileSinks -> Nat]
      <4>1. syncing \in [FileSinks -> Nat]
        BY DEF SinkTypes
      <4>2. syncing' = syncing \/ (s \in FileSinks /\ syncing' = [syncing EXCEPT ![s] = @ + 1])
        BY <3>1
      <4>. QED
        BY <4>1, <4>2
    <3>4. SinkTypes'
      BY <3>1, <3>2, <3>3 DEF SinkTypes
    <3>. QED
      BY <3>1, <3>2, <3>4, WritesKept
  <2>. QED
    BY <2>1, <2>2
<1>7. ASSUME NEW s \in FileSinks, EndSync(s) PROVE SinkTypes' /\ SinkState'
  <2>1. syncing' \in [FileSinks -> Nat] /\ s \in Sinks /\ Units \in 1..Units
    BY <1>0, <1>7 DEF EndSync, SinkTypes, Sinks
  <2>2. bad' \in [Sinks -> {"yes", "no"}]
    BY <1>7 DEF EndSync, SinkTypes
  <2>. QED
    BY <1>5, <1>7, <2>1, <2>2 DEF EndSync
<1>. QED
  BY <1>1, <1>2, <1>3, <1>4, <1>6, <1>7 DEF SinkStep

(* A file that is closed while it is written to tears the write; only the  *)
(* program's writeSync() writes to it beside the tasks. *)
TearState ==
  /\ \A w \in Writes, s \in Sinks : writing[w][s] = "sending" /\ open[s] = "no" => <<w, s>> \in torn
  /\ \A s \in FileSinks : s \notin direct => syncing[s] = 0

LEMMA TearNext == SinkTypes /\ TearState /\ SinkStep => TearState' /\ torn \subseteq torn' /\ direct \subseteq direct'
<1>. SUFFICES ASSUME SinkTypes, TearState, SinkStep
              PROVE  TearState' /\ torn \subseteq torn' /\ direct \subseteq direct'
  OBVIOUS
<1>1. ASSUME torn \subseteq torn', open' = open, UNCHANGED <<syncing, direct>>,
             \A w \in Writes, s \in Sinks :
               writing'[w][s] = "sending" => writing[w][s] = "sending" \/ open[s] = "yes"
      PROVE  TearState' /\ torn \subseteq torn' /\ direct \subseteq direct'
  BY <1>1 DEF TearState, SinkTypes
<1>2. CASE UNCHANGED sinkVars \/ Fault
  <2>1. UNCHANGED <<open, writing, syncing, torn, direct>>
    BY <1>2 DEF sinkVars, Fault, races
  <2>. QED
    BY <2>1, <1>1
<1>3. ASSUME NEW w \in Writes, WriteBegins(w) PROVE TearState' /\ torn \subseteq torn' /\ direct \subseteq direct'
  <2>1. PICK st \in {"queued", "skipped"} :
          writing' = [writing EXCEPT ![w] = [s \in Sinks |-> st]] /\ UNCHANGED <<open, syncing, torn, direct>>
    BY <1>3 DEF WriteBegins, Write, Skip, races
  <2>2. \A v \in Writes, s \in Sinks : writing'[v][s] = IF v = w THEN st ELSE writing[v][s]
    BY <2>1 DEF SinkTypes
  <2>. QED
    BY <2>1, <2>2, <1>1
<1>4. ASSUME NEW w \in Writes, NEW s \in Sinks, WriteStep(w, s)
      PROVE  TearState' /\ torn \subseteq torn' /\ direct \subseteq direct'
  <2>1. PICK st \in Begun :
          /\ writing' = [writing EXCEPT ![w][s] = st] /\ UNCHANGED <<open, syncing, direct>>
          /\ st = "sending" => open[s] = "yes"
    BY <1>4 DEF WriteStep, Test, Refused, BeginSend, Send, SendFails, Complete, CutShort, Begun, races, Takes
  <2>2. \A v \in Writes, t \in Sinks : writing'[v][t] = IF v = w /\ t = s THEN st ELSE writing[v][t]
    BY <2>1 DEF SinkTypes
  <2>3. torn \subseteq torn'
    BY <1>4 DEF WriteStep, Test, Refused, BeginSend, Send, SendFails, Complete, CutShort, races
  <2>. QED
    BY <2>1, <2>2, <2>3, <1>1
<1>5. ASSUME NEW s \in Sinks, CloseSink(s) PROVE TearState' /\ torn \subseteq torn' /\ direct \subseteq direct'
  <2>1. /\ \A t \in Sinks : open'[t] = IF t = s THEN "no" ELSE open[t]
        /\ torn' = torn \cup {<<w, s>> : w \in Sending(s)} /\ UNCHANGED <<writing, syncing, direct>>
    BY <1>5 DEF CloseSink, SinkTypes
  <2>2. ASSUME NEW w \in Writes, NEW t \in Sinks, writing'[w][t] = "sending", open'[t] = "no"
        PROVE  <<w, t>> \in torn'
    BY <2>1, <2>2 DEF TearState, Sending
  <2>. QED
    BY <2>1, <2>2 DEF TearState
<1>6. ASSUME NEW s \in Sinks, WriteSync(s) PROVE TearState' /\ torn \subseteq torn' /\ direct \subseteq direct'
  <2>1. /\ UNCHANGED <<open, writing>> /\ torn \subseteq torn'
        /\ \/ UNCHANGED <<syncing, direct>>
           \/ syncing' = [syncing EXCEPT ![s] = @ + 1] /\ direct' = direct \cup {s}
    BY <1>6 DEF WriteSync, races
  <2>2. \A t \in FileSinks : t \notin direct' => t \notin direct /\ syncing'[t] = syncing[t]
    BY <2>1 DEF SinkTypes
  <2>3. direct \subseteq direct'
    BY <2>1
  <2>. QED
    BY <2>1, <2>2, <2>3 DEF TearState
<1>7. ASSUME NEW s \in FileSinks, EndSync(s) PROVE TearState' /\ torn \subseteq torn' /\ direct \subseteq direct'
  <2>1. /\ UNCHANGED <<open, writing, torn, direct>>
        /\ syncing' = [syncing EXCEPT ![s] = @ - 1] /\ syncing[s] > 0
    BY <1>7 DEF EndSync
  <2>2. \A t \in FileSinks : t \notin direct => t # s /\ syncing'[t] = 0
    BY <2>1 DEF TearState, SinkTypes
  <2>. QED
    BY <2>1, <2>2 DEF TearState
<1>. QED
  BY <1>2, <1>3, <1>4, <1>5, <1>6, <1>7 DEF SinkStep

-----------------------------------------------------------------------------
(* The stream's emitter. *)

EmitterTypes ==
  /\ DOMAIN events = Events
  /\ \A e \in Events : DOMAIN events[e] \subseteq Chains \cup {Piping} /\ events[e] \in [DOMAIN events[e] -> Nat]
  /\ promise \in [Chains -> {"none", "pending", "resolved", "rejected"}]
  /\ ended \in 0..ends /\ caught \subseteq Chains /\ nulls \in Nat

(* What the stream told its targets and its callers follows an "end" of    *)
(* the device, and the pipe's listener of it is called once.               *)
EmitterState ==
  /\ nulls > 0 \/ (\E c \in Chains : promise[c] = "resolved") => ended > 0
  /\ nulls <= 1
  /\ Piping \in DOMAIN events["end"] => events["end"][Piping] <= 1 - nulls

(* The device does not take back an event. *)
LEMMA EndsGrow ==
  FileTypes /\ ChainState /\ FileStep => ends \in Nat /\ (ends' = ends \/ ends' = ends + 1)
<1>. SUFFICES ASSUME FileTypes, ChainState, FileStep
              PROVE  ends \in Nat /\ (ends' = ends \/ ends' = ends + 1)
  OBVIOUS
<1>1. ends \in Nat
  <2>1. Cardinality(SettledAs("resolved")) \in 0..MaxChains
    BY SettledBound
  <2>. QED
    BY <2>1, FileBounds DEF ChainState
<1>2. CASE UNCHANGED fileVars
  BY <1>1, <1>2 DEF fileVars
<1>3. ASSUME NEW c \in Chains, ChainMoves(c) PROVE ends' = ends \/ ends' = ends + 1
  BY <1>3 DEF ChainMoves, Resume, ReadBegin, ReadEnd, ReadEof, AfterData, AfterLastData,
              DataRejected, Handled
<1>4. CASE Pause \/ Reset \/ Close
  BY <1>1, <1>4 DEF Pause, Reset, Close
<1>. QED
  BY <1>1, <1>2, <1>3, <1>4 DEF FileStep

(* What adding, removing and counting down does to the list of an event. *)
LEMMA Lists ==
  ASSUME NEW l, DOMAIN l \subseteq Chains \cup {Piping}, l \in [DOMAIN l -> Nat]
  PROVE  /\ \A c \in Chains :
              /\ DOMAIN On(l, c, 1) = DOMAIN l \cup {c}
              /\ On(l, c, 1) \in [DOMAIN l \cup {c} -> Nat]
              /\ Piping \in DOMAIN l => On(l, c, 1)[Piping] = l[Piping]
         /\ DOMAIN Off(l, Piping) = DOMAIN l \ {Piping}
         /\ Off(l, Piping) \in [DOMAIN l \ {Piping} -> Nat]
         /\ DOMAIN Counted(l) = DOMAIN l
         /\ Counted(l) \in [DOMAIN l -> Nat]
         /\ Piping \in DOMAIN l /\ l[Piping] = 1 => Counted(l)[Piping] = 0
         /\ Piping \in DOMAIN l /\ l[Piping] = 0 => Counted(l)[Piping] = 0
<1>1. \A c \in Chains : c # Piping
  BY FileBounds DEF Chains, Piping
<1>2. \A f \in DOMAIN l : l[f] \in Nat
  OBVIOUS
<1>3. \A c \in Chains :
        /\ DOMAIN On(l, c, 1) = DOMAIN l \cup {c}
        /\ On(l, c, 1) \in [DOMAIN l \cup {c} -> Nat]
        /\ Piping \in DOMAIN l => On(l, c, 1)[Piping] = l[Piping]
  BY <1>1, <1>2 DEF On
<1>4. DOMAIN Off(l, Piping) = DOMAIN l \ {Piping} /\ Off(l, Piping) \in [DOMAIN l \ {Piping} -> Nat]
  BY <1>2 DEF Off
<1>5. DOMAIN Counted(l) = DOMAIN l /\ Counted(l) \in [DOMAIN l -> Nat]
  BY <1>2 DEF Counted
<1>6. Piping \in DOMAIN l /\ l[Piping] \in {0, 1} => Counted(l)[Piping] = 0
  BY DEF Counted, Infinity
<1>. QED
  BY <1>3, <1>4, <1>5, <1>6

(* Every step keeps the emitter's types, and what it has told. *)
LEMMA EmitterNext ==
  FileTypes /\ ChainState /\ FileStep /\ EmitterTypes /\ EmitterState /\ EmitterStep
    => EmitterTypes' /\ EmitterState'
<1>. SUFFICES ASSUME FileTypes, ChainState, FileStep, EmitterTypes, EmitterState, EmitterStep
              PROVE  EmitterTypes' /\ EmitterState'
  OBVIOUS
<1>0. /\ ends \in Nat /\ (ends' = ends \/ ends' = ends + 1)
      /\ ended \in Nat /\ ended <= ends /\ nulls \in Nat
  BY EndsGrow DEF EmitterTypes
<1>1. \A e \in Events : DOMAIN events[e] \subseteq Chains \cup {Piping} /\ events[e] \in [DOMAIN events[e] -> Nat]
  BY DEF EmitterTypes
<1>2. {"data", "end", "error"} = Events
  BY DEF Events
<1>3. CASE UNCHANGED emitter
  <2>1. UNCHANGED <<events, promise, ended, caught, nulls>>
    BY <1>3 DEF emitter
  <2>2. EmitterTypes'
    BY <2>1, <1>0 DEF EmitterTypes
  <2>3. EmitterState'
    BY <2>1 DEF EmitterState
  <2>. QED
    BY <2>2, <2>3
<1>4. ASSUME NEW c \in Chains,
             events' = [events EXCEPT !.end = On(@, c, 1), !.error = On(@, c, 1)],
             promise' = [promise EXCEPT ![c] = "pending"],
             UNCHANGED <<ended, caught, nulls>>
      PROVE  EmitterTypes' /\ EmitterState'
  <2>1. /\ DOMAIN events' = Events
        /\ events'["data"] = events["data"]
        /\ events'["end"] = On(events["end"], c, 1)
        /\ events'["error"] = On(events["error"], c, 1)
    BY <1>2, <1>4 DEF EmitterTypes
  <2>2. \A e \in Events : DOMAIN events'[e] \subseteq Chains \cup {Piping} /\ events'[e] \in [DOMAIN events'[e] -> Nat]
    <3>1. ASSUME NEW e \in {"end", "error"}
          PROVE  /\ DOMAIN On(events[e], c, 1) \subseteq Chains \cup {Piping}
                 /\ On(events[e], c, 1) \in [DOMAIN On(events[e], c, 1) -> Nat]
      <4>1. DOMAIN events[e] \subseteq Chains \cup {Piping} /\ events[e] \in [DOMAIN events[e] -> Nat]
        BY <1>1, <1>2
      <4>2. /\ DOMAIN On(events[e], c, 1) = DOMAIN events[e] \cup {c}
            /\ On(events[e], c, 1) \in [DOMAIN events[e] \cup {c} -> Nat]
        BY <4>1, Lists
      <4>. QED
        BY <4>1, <4>2
    <3>. QED
      BY <3>1, <2>1, <1>1, <1>2
  <2>3. EmitterTypes'
    BY <1>0, <1>4, <2>1, <2>2 DEF EmitterTypes
  <2>4. \A d \in Chains : promise'[d] = "resolved" => promise[d] = "resolved"
    BY <1>4 DEF EmitterTypes
  <2>5. Piping \in DOMAIN events'["end"] => Piping \in DOMAIN events["end"] /\ events'["end"][Piping] = events["end"][Piping]
    <3>1. c # Piping
      BY FileBounds DEF Chains, Piping
    <3>2. DOMAIN On(events["end"], c, 1) = DOMAIN events["end"] \cup {c}
          /\ (Piping \in DOMAIN events["end"] => On(events["end"], c, 1)[Piping] = events["end"][Piping])
      BY <1>1, <1>2, Lists
    <3>. QED
      BY <3>1, <3>2, <2>1
  <2>6. EmitterState'
    BY <1>4, <2>4, <2>5 DEF EmitterState
  <2>. QED
    BY <2>3, <2>6
<1>5. CASE Disconnect
  <2>1. /\ DOMAIN events' = Events
        /\ events'["data"] = Off(events["data"], Piping)
        /\ events'["end"] = Off(events["end"], Piping)
        /\ events'["error"] = events["error"]
        /\ UNCHANGED <<promise, ended, caught, nulls>>
    BY <1>2, <1>5 DEF EmitterTypes, Disconnect
  <2>2. \A e \in {"data", "end"} : DOMAIN Off(events[e], Piping) = DOMAIN events[e] \ {Piping}
                                  /\ Off(events[e], Piping) \in [DOMAIN events[e] \ {Piping} -> Nat]
    BY <1>1, <1>2, Lists
  <2>3. \A e \in Events : DOMAIN events'[e] \subseteq Chains \cup {Piping} /\ events'[e] \in [DOMAIN events'[e] -> Nat]
    BY <2>1, <2>2, <1>1, <1>2
  <2>4. EmitterTypes'
    BY <1>0, <2>1, <2>3 DEF EmitterTypes
  <2>5. EmitterState'
    BY <2>1, <2>2 DEF EmitterState
  <2>. QED
    BY <2>4, <2>5
<1>6. ASSUME NEW e \in Events, Emit(e)
      PROVE  /\ DOMAIN events' = Events
             /\ \A f \in Events : DOMAIN events'[f] \subseteq Chains \cup {Piping} /\ events'[f] \in [DOMAIN events'[f] -> Nat]
             /\ promise' \in [Chains -> {"none", "pending", "resolved", "rejected"}]
             /\ e # "end" => /\ events'["end"] = events["end"]
                             /\ \A c \in Chains : promise'[c] = "resolved" => promise[c] = "resolved"
             /\ e = "end" => events'["end"] = Counted(events["end"])
  <2>1. DOMAIN events' = Events /\ \A f \in Events : events'[f] = IF f = e THEN Counted(events[e]) ELSE events[f]
    BY <1>6 DEF Emit, EmitterTypes
  <2>2. DOMAIN Counted(events[e]) = DOMAIN events[e] /\ Counted(events[e]) \in [DOMAIN events[e] -> Nat]
    BY <1>1, Lists
  <2>3. \A f \in Events : DOMAIN events'[f] \subseteq Chains \cup {Piping} /\ events'[f] \in [DOMAIN events'[f] -> Nat]
    BY <2>1, <2>2, <1>1
  <2>4. promise' \in [Chains -> {"none", "pending", "resolved", "rejected"}]
    BY <1>6 DEF Emit, EmitterTypes
  <2>5. e # "end" => \A c \in Chains : promise'[c] = "resolved" => promise[c] = "resolved"
    BY <1>6 DEF Emit
  <2>. QED
    BY <2>1, <2>3, <2>4, <2>5, <1>2
<1>7. CASE Emit("error") /\ caught' \subseteq caught \cup Chains /\ UNCHANGED <<ended, nulls>>
  <2>1. /\ DOMAIN events' = Events
        /\ \A f \in Events : DOMAIN events'[f] \subseteq Chains \cup {Piping} /\ events'[f] \in [DOMAIN events'[f] -> Nat]
        /\ promise' \in [Chains -> {"none", "pending", "resolved", "rejected"}]
        /\ events'["end"] = events["end"]
        /\ \A c \in Chains : promise'[c] = "resolved" => promise[c] = "resolved"
    BY <1>2, <1>6, <1>7
  <2>2. EmitterTypes'
    BY <2>1, <1>0, <1>7 DEF EmitterTypes
  <2>3. EmitterState'
    BY <2>1, <1>7 DEF EmitterState
  <2>. QED
    BY <2>2, <2>3
<1>8. ASSUME ended < ends, ended' = ended + 1, Emit("end"), UNCHANGED caught,
             nulls' = IF Piping \in Called(events["end"]) THEN nulls + 1 ELSE nulls
      PROVE  EmitterTypes' /\ EmitterState'
  <2>1. /\ DOMAIN events' = Events
        /\ \A f \in Events : DOMAIN events'[f] \subseteq Chains \cup {Piping} /\ events'[f] \in [DOMAIN events'[f] -> Nat]
        /\ promise' \in [Chains -> {"none", "pending", "resolved", "rejected"}]
        /\ events'["end"] = Counted(events["end"])
    BY <1>2, <1>6, <1>8
  <2>2. ended' \in 0..ends' /\ ended' > 0 /\ nulls' \in Nat
    BY <1>0, <1>8
  <2>3. EmitterTypes'
    BY <2>1, <2>2, <1>8 DEF EmitterTypes
  <2>. PICK l : l = events["end"]
    OBVIOUS
  <2>4. DOMAIN l \subseteq Chains \cup {Piping} /\ l \in [DOMAIN l -> Nat]
    BY <1>1, <1>2
  <2>5. /\ DOMAIN Counted(l) = DOMAIN l
        /\ Piping \in DOMAIN l /\ l[Piping] = 1 => Counted(l)[Piping] = 0
        /\ Piping \in DOMAIN l /\ l[Piping] = 0 => Counted(l)[Piping] = 0
    BY <2>4, Lists
  <2>6. nulls' <= 1 /\ (Piping \in DOMAIN Counted(l) => Counted(l)[Piping] <= 1 - nulls')
    <3>1. CASE Piping \in DOMAIN l /\ l[Piping] > 0
      <4>1. nulls = 0 /\ l[Piping] = 1
        BY <3>1, <2>4, <1>0 DEF EmitterState
      <4>2. nulls' = 1
        BY <4>1, <3>1, <1>8 DEF Called
      <4>. QED
        BY <4>1, <4>2, <2>5, <3>1
    <3>2. CASE ~ (Piping \in DOMAIN l /\ l[Piping] > 0)
      <4>1. nulls' = nulls /\ nulls <= 1
        BY <3>2, <1>8 DEF Called, EmitterState
      <4>2. Piping \in DOMAIN l => l[Piping] = 0
        BY <3>2, <2>4
      <4>. QED
        BY <4>1, <4>2, <2>5, <1>0
    <3>. QED
      BY <3>1, <3>2
  <2>7. EmitterState'
    BY <2>1, <2>2, <2>6 DEF EmitterState
  <2>. QED
    BY <2>3, <2>7
<1>. QED
  BY <1>3, <1>4, <1>5, <1>7, <1>8 DEF EmitterStep

-----------------------------------------------------------------------------
(* The reader and the writes together. *)

OneAlive ==
  "overlap" \notin past => \A c, d \in Chains : Alive(c) /\ Alive(d) => c = d

(* A file that nobody moves in is read once from its start.  At its end    *)
(* there is nothing left to hand on.                                       *)
FileRead ==
  past = {} =>
    /\ isOpen = "no" => rdstate = {"fail"} /\ file = "missing"
    /\ Len(reads) = tellg - 1 /\ \A n \in 1..Len(reads) : reads[n] = n
    /\ \A c \in Chains : pc[c] = "reading" => at[c] = tellg /\ isOpen = "yes"
    /\ "eof" \in rdstate => tellg = Length + 1
    /\ ends > 0 => "eof" \in rdstate /\ \A c \in Chains : pc[c] \notin {"emitted", "handled"}

(* A buffer is written after it was read. *)
WritesRead == \A w \in Writes, s \in Sinks : w > Len(reads) => writing[w][s] = "none"

Done(w, s) == writing[w][s] \in {"resolved", "rejected", "skipped"}
OthersFine(s) == \A t \in Sinks \ {s} : ~Rejected(t)

(* One reader is at its last buffer; all before were dealt with, at a sink *)
(* whose neighbours did not fail.                                          *)
OneBuffer ==
  OneReader =>
    /\ \A c \in Chains : pc[c] = "emitted" => current[c] = Len(reads)
    /\ \A s \in Sinks : OthersFine(s) =>
         \A w \in 1..Len(reads) : Done(w, s) \/ \E c \in Chains : pc[c] = "emitted" /\ current[c] = w

(* Until it is disconnected the pipe writes every buffer. *)
Connected ==
  "off" \notin past =>
    /\ Piping \in DOMAIN events["data"] /\ events["data"][Piping] = Infinity
    /\ \A w \in Writes, s \in Sinks : writing[w][s] # "skipped"

(* So a sink has the buffers in order, *)
BuffersInOrder ==
  OneReader =>
    \A s \in Sinks : OthersFine(s) =>
      \A i, j \in DOMAIN out[s] :
        i < j /\ Piped(out[s][i]) /\ Piped(out[s][j]) => out[s][i][1] <= out[s][j][1]

(* and those before the one it is given whole. *)
NoGap ==
  OneReader /\ "off" \notin past =>
    \A s \in Sinks : OthersFine(s) /\ ~Rejected(s) =>
      \A v, w \in Writes :
        v < w /\ <<w, s>> \notin torn /\ written[w][s] > 0 => written[v][s] = Units

(* No two threads write to a sink, until it is closed. *)
NoneTorn ==
  OneReader =>
    \A s \in Sinks \ direct : OthersFine(s) /\ open[s] = "yes" => ~ Torn(s)

(* Every step of the pipe is one of these of its reader. *)
LEMMA ReaderPart == [Next]_vars => ReaderStep /\ past \subseteq past'
<1>. SUFFICES ASSUME [Next]_vars PROVE ReaderStep /\ past \subseteq past'
  OBVIOUS
<1>1. ASSUME NEW c \in Chains, DoResume(c) PROVE ReaderStep /\ past \subseteq past'
  BY <1>1 DEF DoResume, ReaderStep, Starts, sinkVars
<1>2. ASSUME NEW c \in Chains, ReadStep(c) PROVE ReaderStep /\ past \subseteq past'
  BY <1>2 DEF ReadStep, ReaderStep, Reads, sinkVars
<1>3. ASSUME NEW c \in Chains, Listened(c) PROVE ReaderStep /\ past \subseteq past'
  BY <1>3 DEF Listened, ReaderStep, GoesOn, Handled, sinkVars
<1>4. ASSUME NEW c \in Chains, OnCatch(c) PROVE ReaderStep /\ past \subseteq past'
  BY <1>4 DEF OnCatch, ReaderStep
<1>5. ASSUME NEW c \in Chains, ListenerFails(c) PROVE ReaderStep /\ past \subseteq past'
  BY <1>5 DEF ListenerFails, ReaderStep, Reads
<1>6. ASSUME Call PROVE ReaderStep /\ past \subseteq past'
  BY <1>6 DEF Call, ReaderStep, Moved, sinkVars
<1>7. ASSUME OnEnd PROVE ReaderStep /\ past \subseteq past'
  BY <1>7 DEF OnEnd, ReaderStep
<1>8. ASSUME NEW w \in Writes, Listen(w) PROVE ReaderStep /\ past \subseteq past'
  BY <1>8 DEF Listen, ReaderStep
<1>9. ASSUME NEW w \in Writes, NEW s \in Sinks, WriteTask(w, s)
      PROVE ReaderStep /\ past \subseteq past'
  BY <1>9 DEF WriteTask, ReaderStep
<1>10. ASSUME NEW s \in FileSinks, SyncReturns(s) PROVE ReaderStep /\ past \subseteq past'
  BY <1>10 DEF SyncReturns, ReaderStep
<1>11. ASSUME UNCHANGED vars PROVE ReaderStep /\ past \subseteq past'
  BY <1>11 DEF vars, ReaderStep
<1>. QED
  BY <1>1, <1>2, <1>3, <1>4, <1>5, <1>6, <1>7, <1>8, <1>9, <1>10, <1>11 DEF Next, ChainStep

(* A chain that goes on or ends starts no other. *)
LEMMA OneAliveNext ==
  FileTypes /\ OneAlive /\ ReaderStep /\ past \subseteq past' => OneAlive'
<1>. SUFFICES ASSUME FileTypes, OneAlive, ReaderStep, past \subseteq past', "overlap" \notin past'
              PROVE  \A c, d \in Chains : Alive(c)' /\ Alive(d)' => c = d
  BY DEF OneAlive
<1>0. \A c, d \in Chains : Alive(c) /\ Alive(d) => c = d
  BY DEF OneAlive
<1>1. CASE \E c \in Chains : Starts(c)
  BY <1>1 DEF Starts, Resume, Alive, FileTypes
<1>2. CASE ~ \E c \in Chains : Starts(c)
  <2>1. \A c \in Chains : Alive(c)' => Alive(c)
    <3>1. CASE pc' = pc
      BY <3>1 DEF Alive
    <3>2. ASSUME NEW c \in Chains, Reads(c) \/ GoesOn(c)
          PROVE  \A d \in Chains : Alive(d)' => Alive(d)
      <4>1. PICK p : pc' = [pc EXCEPT ![c] = p] /\ pc[c] \notin {"none", "done"}
        BY <3>2 DEF Reads, GoesOn, ReadBegin, ReadEnd, ReadEof, AfterData, AfterLastData,
                    DataRejected, Handled
      <4>. QED
        BY <4>1 DEF Alive, FileTypes
    <3>3. UNCHANGED fileVars \/ Pause \/ Moved => pc' = pc
      BY DEF fileVars, Pause, Moved, Reset, Close
    <3>. QED
      BY <1>2, <3>1, <3>2, <3>3 DEF ReaderStep
  <2>. QED
    BY <2>1, <1>0
<1>. QED
  BY <1>1, <1>2

(* The file is read on, or it was moved in. *)
LEMMA FileReadNext ==
  FileTypes /\ ChainState /\ OneAlive /\ FileRead /\ ReaderStep /\ past \subseteq past' => FileRead'
<1>. SUFFICES ASSUME FileTypes, ChainState, OneAlive, FileRead, ReaderStep, past \subseteq past', past' = {}
              PROVE  FileRead'
  BY DEF FileRead
<1>0. /\ isOpen = "no" => rdstate = {"fail"} /\ file = "missing"
      /\ Len(reads) = tellg - 1 /\ \A n \in 1..Len(reads) : reads[n] = n
      /\ \A c \in Chains : pc[c] = "reading" => at[c] = tellg /\ isOpen = "yes"
      /\ "eof" \in rdstate => tellg = Length + 1
      /\ ends > 0 => "eof" \in rdstate /\ \A c \in Chains : pc[c] \notin {"emitted", "handled"}
  BY DEF FileRead
<1>1. \A c, d \in Chains : Alive(c) /\ Alive(d) => c = d
  BY DEF OneAlive
<1>2. Length \in Nat /\ tellg \in Nat /\ "eof" # "fail"
  BY FileBounds DEF FileTypes
<1>3. \A c \in Chains : pc[c] = "reading" => "eof" \notin rdstate /\ ends = 0
  <2>1. \A c \in Chains : at[c] \in 0..Length
    BY DEF FileTypes
  <2>2. ends \in Nat
    BY SettledBound, FileBounds DEF ChainState
  <2>. QED
    BY <2>1, <2>2, <1>0, <1>2
<1>4. CASE UNCHANGED fileVars
  BY <1>0, <1>4 DEF fileVars, stream, FileRead
<1>5. CASE Pause
  BY <1>0, <1>5 DEF Pause, stream, FileRead
<1>6. ASSUME NEW c \in Chains, Resume(c) PROVE FileRead'
  <2>1. /\ UNCHANGED <<file, isOpen, rdstate, tellg, at, reads, ends>>
    BY <1>0, <1>6 DEF Resume, stream
  <2>2. \A d \in Chains : pc'[d] \in {"reading", "emitted", "handled"} => pc'[d] = pc[d]
    BY <1>6 DEF Resume, FileTypes
  <2>. QED
    BY <1>0, <2>1, <2>2 DEF FileRead
<1>7. ASSUME NEW c \in Chains, ReadBegin(c) PROVE FileRead'
  <2>1. UNCHANGED <<file, isOpen, rdstate, tellg, reads, ends>> /\ isOpen = "yes"
    BY <1>7 DEF ReadBegin, stream, HasData
  <2>2. /\ \A d \in Chains : pc'[d] \in {"emitted", "handled"} => pc'[d] = pc[d]
        /\ \A d \in Chains : pc'[d] = "reading" => pc[d] = "reading" \/ d = c
        /\ \A d \in Chains : at'[d] = IF d = c THEN tellg ELSE at[d]
    BY <1>7 DEF ReadBegin, FileTypes
  <2>3. ASSUME NEW d \in Chains, pc'[d] = "reading" PROVE at'[d] = tellg' /\ isOpen' = "yes"
    BY <1>0, <2>1, <2>2, <2>3
  <2>4. ASSUME ends' > 0
        PROVE  "eof" \in rdstate' /\ \A d \in Chains : pc'[d] \notin {"emitted", "handled"}
    <3>1. "eof" \in rdstate /\ \A d \in Chains : pc[d] \notin {"emitted", "handled"}
      BY <1>0, <2>1, <2>4
    <3>2. "eof" \in rdstate'
      BY <2>1, <3>1
    <3>3. ASSUME NEW d \in Chains PROVE pc'[d] \notin {"emitted", "handled"}
      BY <2>2, <3>1
    <3>. QED
      BY <3>2, <3>3
  <2>. QED
    BY <1>0, <2>1, <2>3, <2>4 DEF FileRead
<1>8. ASSUME NEW c \in Chains, ReadEnd(c) PROVE FileRead'
  <2>1. /\ at[c] = tellg /\ isOpen = "yes" /\ "eof" \notin rdstate /\ ends = 0
        /\ UNCHANGED <<file, isOpen, ends>> /\ tellg' = tellg + 1
        /\ reads' = Append(reads, tellg) /\ (rdstate' = rdstate \/ tellg = Length)
    BY <1>0, <1>3, <1>8 DEF ReadEnd
  <2>2. Len(reads') = Len(reads) + 1 /\ \A n \in 1..Len(reads') : reads'[n] = IF n <= Len(reads) THEN reads[n] ELSE tellg
    BY <2>1 DEF FileTypes
  <2>3. \A n \in 1..Len(reads') : reads'[n] = n
    BY <1>0, <1>2, <2>2
  <2>4. \A d \in Chains : pc'[d] # "reading"
    BY <1>1, <1>8 DEF ReadEnd, Alive, FileTypes
  <2>. QED
    BY <1>0, <1>2, <2>1, <2>2, <2>3, <2>4 DEF FileRead
<1>9. ASSUME NEW c \in Chains, ReadEof(c) PROVE FileRead'
  <2>1. UNCHANGED <<file, isOpen, tellg, at, reads>> /\ "eof" \in rdstate'
    BY <1>9 DEF ReadEof
  <2>2. tellg = Length + 1 /\ isOpen = "yes"
    <3>1. isOpen = "yes"
      BY <1>0, <1>9 DEF ReadEof, FileTypes
    <3>2. CASE rdstate = {}
      BY <1>2, <1>9, <3>1, <3>2 DEF ReadEof, HasData, FileTypes
    <3>3. CASE rdstate # {}
      BY <1>0, <1>2, <1>9, <3>1, <3>3 DEF ReadEof
    <3>. QED
      BY <3>1, <3>2, <3>3
  <2>3. \A d \in Chains : pc'[d] \notin {"reading", "emitted", "handled"}
    BY <1>1, <1>9 DEF ReadEof, Alive, FileTypes
  <2>. QED
    BY <1>0, <2>1, <2>2, <2>3 DEF FileRead
<1>10. ASSUME NEW c \in Chains, AfterData(c) \/ DataRejected(c) \/ Handled(c) PROVE FileRead'
  <2>1. UNCHANGED <<file, isOpen, rdstate, tellg, at, reads, ends>>
    BY <1>10 DEF AfterData, DataRejected, Handled, stream
  <2>2. /\ \A d \in Chains : pc'[d] = "reading" => pc[d] = "reading"
        /\ \A d \in Chains : pc'[d] \in {"emitted", "handled"} => pc[d] \in {"emitted", "handled"}
    BY <1>10 DEF AfterData, DataRejected, Handled, FileTypes
  <2>3. ASSUME NEW d \in Chains, pc'[d] = "reading" PROVE at'[d] = tellg' /\ isOpen' = "yes"
    <3>1. pc[d] = "reading"
      BY <2>2, <2>3
    <3>2. at[d] = tellg /\ isOpen = "yes"
      BY <1>0, <3>1
    <3>. QED
      BY <2>1, <3>2
  <2>4. ASSUME ends' > 0
        PROVE  "eof" \in rdstate' /\ \A d \in Chains : pc'[d] \notin {"emitted", "handled"}
    <3>1. "eof" \in rdstate /\ \A d \in Chains : pc[d] \notin {"emitted", "handled"}
      BY <1>0, <2>1, <2>4
    <3>2. "eof" \in rdstate'
      BY <2>1, <3>1
    <3>3. ASSUME NEW d \in Chains PROVE pc'[d] \notin {"emitted", "handled"}
      BY <2>2, <3>1
    <3>. QED
      BY <3>2, <3>3
  <2>. QED
    BY <1>0, <2>1, <2>3, <2>4 DEF FileRead
<1>11. ASSUME NEW c \in Chains, AfterLastData(c) PROVE FileRead'
  <2>1. UNCHANGED <<file, isOpen, rdstate, tellg, at, reads>> /\ "eof" \in rdstate
    BY <1>11 DEF AfterLastData, stream
  <2>2. \A d \in Chains : pc'[d] \notin {"reading", "emitted", "handled"}
    BY <1>1, <1>11 DEF AfterLastData, Alive, FileTypes
  <2>. QED
    BY <1>0, <2>1, <2>2 DEF FileRead
<1>12. ~ Moved
  BY DEF Moved
<1>13. ASSUME NEW c \in Chains, Starts(c) \/ Reads(c) \/ GoesOn(c) PROVE FileRead'
  BY <1>6, <1>7, <1>8, <1>9, <1>10, <1>11, <1>13 DEF Starts, Reads, GoesOn
<1>. QED
  BY <1>4, <1>5, <1>12, <1>13 DEF ReaderStep

(* What a step may do to one write at one sink: it begins, with a buffer   *)
(* that was read, or it goes on until it is done. *)
WriteMoves(w, s) ==
  \/ writing'[w][s] = writing[w][s]
  \/ /\ writing[w][s] = "none" /\ w <= Len(reads)
     /\ writing'[w][s] = "skipped" => Piping \notin Called(events["data"])
  \/ writing[w][s] \in {"queued", "tested", "sending"} /\ writing'[w][s] \in Begun

(* A sink receives units of a write that has been tested, or of write 0.   *)
Receives(s) ==
  \E w \in Writes \cup {0}, n, k \in Nat :
    /\ Grows(out[s], out'[s], Len(out[s]), n, w, k)
    /\ w # 0 => writing[w][s] \in {"tested", "sending"}

CountMoves(w, s) ==
  \/ written'[w][s] = written[w][s]
  \/ /\ writing[w][s] \in {"tested", "sending"} /\ (open[s] = "yes" \/ <<w, s>> \in torn)
     /\ written'[w][s] >= written[w][s]

(* Every step of the sinks is one of these for each write and sink. *)
LEMMA SinkMoves ==
  SinkTypes /\ TearState /\ SinkStep =>
    \A s \in Sinks : /\ out'[s] = out[s] \/ Receives(s)
                     /\ \A w \in Writes : WriteMoves(w, s) /\ CountMoves(w, s)
<1>. SUFFICES ASSUME SinkTypes, TearState, SinkStep
              PROVE  \A s \in Sinks : /\ out'[s] = out[s] \/ Receives(s)
                                      /\ \A w \in Writes : WriteMoves(w, s) /\ CountMoves(w, s)
  OBVIOUS
<1>0. Units \in Nat \ {0} /\ WriteMax \in Nat \ {0}
  BY SinkBounds
<1>1. CASE UNCHANGED <<writing, written, out>>
  BY <1>1 DEF WriteMoves, CountMoves
<1>2. CASE UNCHANGED sinkVars \/ Fault \/ \E s \in Sinks : CloseSink(s)
  BY <1>1, <1>2 DEF sinkVars, Fault, CloseSink
<1>3. ASSUME NEW w \in Writes, WriteBegins(w)
      PROVE  \A s \in Sinks : /\ out'[s] = out[s] \/ Receives(s)
                              /\ \A v \in Writes : WriteMoves(v, s) /\ CountMoves(v, s)
  <2>1. PICK st \in {"queued", "skipped"} :
          /\ writing' = [writing EXCEPT ![w] = [s \in Sinks |-> st]]
          /\ UNCHANGED <<written, out>>
          /\ st = "skipped" => Piping \notin Called(events["data"])
    BY <1>3 DEF WriteBegins, Write, Skip
  <2>2. \A v \in Writes, s \in Sinks : writing'[v][s] = IF v = w THEN st ELSE writing[v][s]
    BY <2>1 DEF SinkTypes
  <2>3. w <= Len(reads) /\ \A s \in Sinks : writing[w][s] = "none"
    BY <1>3 DEF WriteBegins
  <2>. QED
    BY <2>1, <2>2, <2>3 DEF WriteMoves, CountMoves
<1>4. ASSUME NEW w \in Writes, NEW s \in Sinks, WriteStep(w, s)
      PROVE  \A t \in Sinks : /\ out'[t] = out[t] \/ Receives(t)
                              /\ \A v \in Writes : WriteMoves(v, t) /\ CountMoves(v, t)
  <2>1. PICK st \in Begun :
          writing[w][s] \in {"queued", "tested", "sending"} /\ SetAt(writing', writing, w, s, st)
    <3>1. PICK st \in Begun : writing' = [writing EXCEPT ![w][s] = st]
      BY <1>4 DEF WriteStep, Test, Refused, BeginSend, Send, SendFails, Complete, CutShort, Begun
    <3>2. SetAt(writing', writing, w, s, st)
      BY <3>1 DEF SinkTypes, SetAt
    <3>3. writing[w][s] \in {"queued", "tested", "sending"}
      BY <1>4 DEF WriteStep, Test, Refused, BeginSend, Send, SendFails, Passing, Complete, CutShort
    <3>. QED
      BY <3>2, <3>3
  <2>2. \A v \in Writes, t \in Sinks : WriteMoves(v, t)
    BY <2>1 DEF SetAt, WriteMoves
  <2>3. CASE UNCHANGED <<written, out>>
    BY <2>2, <2>3 DEF CountMoves
  <2>4. ASSUME NEW n \in Nat, written[w][s] + n <= Units, Gets(w, s, n),
               writing[w][s] \in {"tested", "sending"}
        PROVE  \A t \in Sinks : out'[t] = out[t] \/ Receives(t)
    <3>1. CASE <<w, s>> \in torn
      BY <2>4, <3>1 DEF Gets, SinkTypes
    <3>2. CASE <<w, s>> \notin torn
      <4>1. out'[s] = out[s] \o Part(w, written[w][s] + 1, n) /\ \A t \in Sinks : t # s => out'[t] = out[t]
        BY <2>4, <3>2 DEF Gets, SinkTypes
      <4>2. out[s] \in Seq(Unit) /\ w \in Writes \cup {0} /\ written[w][s] \in Nat
        BY <1>0 DEF SinkTypes
      <4>3. Grows(out[s], out[s] \o Part(w, written[w][s] + 1, n), Len(out[s]), n, w, written[w][s])
        BY <2>4, <4>2, Appended
      <4>4. Receives(s)
        BY <2>4, <4>1, <4>2, <4>3 DEF Receives
      <4>. QED
        BY <4>1, <4>4
    <3>. QED
      BY <3>1, <3>2
  <2>5. CASE Send(w, s)
    <3>1. PICK n \in Sizes(w, s) :
            written' = [written EXCEPT ![w][s] = @ + n] /\ Gets(w, s, n)
      BY <2>5 DEF Send
    <3>2. n \in Nat /\ written[w][s] \in Nat /\ written[w][s] + n <= Units
      BY <1>0 DEF Sizes, SinkTypes
    <3>3. writing[w][s] \in {"tested", "sending"} /\ (open[s] = "yes" \/ <<w, s>> \in torn)
      <4>1. writing[w][s] = "sending" \/ (writing[w][s] = "tested" /\ open[s] = "yes")
        BY <2>5 DEF Send, Passing, Takes
      <4>2. open[s] \in {"yes", "no"}
        BY DEF SinkTypes
      <4>. QED
        BY <4>1, <4>2 DEF TearState
    <3>4. \A t \in Sinks : out'[t] = out[t] \/ Receives(t)
      BY <2>4, <3>1, <3>2, <3>3
    <3>5. SetAt(written', written, w, s, written[w][s] + n)
      BY <3>1 DEF SinkTypes, SetAt
    <3>6. written[w][s] + n >= written[w][s]
      BY <3>2
    <3>7. \A v \in Writes, t \in Sinks : CountMoves(v, t)
      BY <3>3, <3>5, <3>6 DEF SetAt, CountMoves
    <3>. QED
      BY <2>2, <3>4, <3>7
  <2>6. CASE SendFails(w, s) /\ out' # out
    <3>1. PICK size \in Sizes(w, s) : \E n \in Before(s, size) : Gets(w, s, n)
      BY <2>6 DEF SendFails
    <3>2. PICK n \in Before(s, size) : Gets(w, s, n)
      BY <3>1
    <3>3. size \in Nat /\ written[w][s] \in Nat /\ written[w][s] + size <= Units
      BY <1>0 DEF Sizes, SinkTypes
    <3>4. n \in Nat /\ (n <= size)
      BY <3>3 DEF Before
    <3>5. written[w][s] + n <= Units
      BY <3>3, <3>4, <1>0
    <3>6. writing[w][s] \in {"tested", "sending"} /\ written' = written
      BY <2>6 DEF SendFails, Passing
    <3>7. \A t \in Sinks : out'[t] = out[t] \/ Receives(t)
      BY <2>4, <3>2, <3>4, <3>5, <3>6
    <3>. QED
      BY <2>2, <3>6, <3>7 DEF CountMoves
  <2>7. Test(w, s) \/ Refused(w, s) \/ BeginSend(w, s) \/ Complete(w, s) \/ CutShort(w, s)
          => UNCHANGED <<written, out>>
    BY DEF Test, Refused, BeginSend, Complete, CutShort
  <2>8. SendFails(w, s) => written' = written
    BY DEF SendFails
  <2>. QED
    BY <1>4, <2>3, <2>5, <2>6, <2>7, <2>8 DEF WriteStep
<1>5. ASSUME NEW s \in Sinks, NEW n \in 1..Units, out' = [out EXCEPT ![s] = @ \o Part(0, 1, n)],
             UNCHANGED <<writing, written>>
      PROVE  \A t \in Sinks : /\ out'[t] = out[t] \/ Receives(t)
                              /\ \A w \in Writes : WriteMoves(w, t) /\ CountMoves(w, t)
  <2>1. out[s] \in Seq(Unit) /\ n \in Nat /\ 0 + n <= Units /\ 0 + 1 = 1
    BY <1>0 DEF SinkTypes
  <2>2. Grows(out[s], out[s] \o Part(0, 0 + 1, n), Len(out[s]), n, 0, 0)
    BY <2>1, Appended
  <2>3. Grows(out[s], out'[s], Len(out[s]), n, 0, 0) /\ \A t \in Sinks : t # s => out'[t] = out[t]
    BY <1>5, <2>1, <2>2 DEF SinkTypes
  <2>4. Receives(s)
    BY <2>1, <2>3 DEF Receives
  <2>. QED
    BY <1>5, <2>3, <2>4 DEF WriteMoves, CountMoves
<1>6. ASSUME NEW s \in Sinks, WriteSync(s), out' # out
      PROVE  \E n \in 1..Units : out' = [out EXCEPT ![s] = @ \o Part(0, 1, n)]
  <2>1. \E n \in IF IsUDP(s) THEN {Units} ELSE 1..Units : out' = [out EXCEPT ![s] = @ \o Part(0, 1, n)]
    BY <1>6 DEF WriteSync
  <2>2. Units \in 1..Units
    BY <1>0
  <2>. QED
    BY <2>1, <2>2
<1>7. ASSUME NEW s \in Sinks, WriteSync(s)
      PROVE  UNCHANGED <<writing, written>>
  BY <1>7 DEF WriteSync
<1>8. ASSUME NEW s \in FileSinks, EndSync(s)
      PROVE  /\ UNCHANGED <<writing, written>> /\ s \in Sinks
             /\ \E n \in 1..Units : out' = [out EXCEPT ![s] = @ \o Part(0, 1, n)]
  <2>1. Units \in 1..Units
    BY <1>0
  <2>2. out' = [out EXCEPT ![s] = @ \o Part(0, 1, Units)] /\ UNCHANGED <<writing, written>>
    BY <1>8 DEF EndSync
  <2>. QED
    BY <2>1, <2>2 DEF Sinks
<1>. QED
  BY <1>1, <1>2, <1>3, <1>4, <1>5, <1>6, <1>7, <1>8 DEF SinkStep

(* The device takes back no read and no error. *)
LEMMA ReadsGrow ==
  FileTypes /\ ChainState /\ FileStep =>
    /\ Len(reads) \in Nat /\ Len(reads') \in Nat /\ Len(reads) <= Len(reads')
    /\ errors \in Nat /\ (errors' = 0 => errors = 0)
<1>. SUFFICES ASSUME FileTypes, ChainState, FileStep
              PROVE  /\ Len(reads) \in Nat /\ Len(reads') \in Nat /\ Len(reads) <= Len(reads')
                     /\ errors \in Nat /\ (errors' = 0 => errors = 0)
  OBVIOUS
<1>1. errors \in Nat
  <2>1. Cardinality(SettledAs("rejected")) \in 0..MaxChains
    BY SettledBound
  <2>. QED
    BY <2>1, FileBounds DEF ChainState
<1>2. Len(reads) \in Nat
  BY DEF FileTypes
<1>3. reads' = reads \/ (\E c \in Chains : reads' = Append(reads, at[c]) /\ at[c] \in 1..Length)
  <2>1. CASE UNCHANGED fileVars
    BY <2>1 DEF fileVars
  <2>2. ASSUME NEW c \in Chains, ChainMoves(c), ~ ReadEnd(c) PROVE reads' = reads
    BY <2>2 DEF ChainMoves, Resume, ReadBegin, ReadEof, AfterData, AfterLastData, DataRejected, Handled
  <2>3. ASSUME NEW c \in Chains, ReadEnd(c)
        PROVE  reads' = Append(reads, at[c]) /\ at[c] \in 1..Length
    <3>1. at[c] \in 0..Length /\ at[c] >= 1
      BY <2>3 DEF ReadEnd, FileTypes, ChainState
    <3>. QED
      BY <2>3, <3>1, FileBounds DEF ReadEnd
  <2>4. CASE Pause \/ Reset \/ Close
    BY <2>4 DEF Pause, Reset, Close
  <2>. QED
    BY <2>1, <2>2, <2>3, <2>4 DEF FileStep
<1>4. Len(reads') \in Nat /\ Len(reads) <= Len(reads')
  BY <1>2, <1>3 DEF FileTypes
<1>5. errors' = 0 => errors = 0
  <2>1. CASE UNCHANGED fileVars
    BY <2>1 DEF fileVars
  <2>2. ASSUME NEW c \in Chains, ChainMoves(c) PROVE errors' = errors \/ errors' = errors + 1
    BY <2>2 DEF ChainMoves, Resume, ReadBegin, ReadEnd, ReadEof, AfterData, AfterLastData,
                DataRejected, Handled
  <2>3. CASE Pause \/ Reset \/ Close
    BY <2>3 DEF Pause, Reset, Close
  <2>. QED
    BY <1>1, <2>1, <2>2, <2>3 DEF FileStep
<1>. QED
  BY <1>1, <1>2, <1>4, <1>5

(* A buffer is not written before it was read. *)
LEMMA WritesReadNext ==
  FileTypes /\ ChainState /\ FileStep /\ SinkTypes /\ TearState /\ SinkStep /\ WritesRead => WritesRead'
<1>. SUFFICES ASSUME FileTypes, ChainState, FileStep, SinkTypes, TearState, SinkStep, WritesRead,
                     NEW w \in Writes, NEW s \in Sinks, w > Len(reads')
              PROVE  writing'[w][s] = "none"
  BY DEF WritesRead
<1>1. Len(reads) \in Nat /\ Len(reads') \in Nat /\ Len(reads) <= Len(reads')
  BY ReadsGrow
<1>2. w \in Nat
  BY SinkBounds DEF Writes
<1>3. ~ (w <= Len(reads)) /\ writing[w][s] = "none"
  BY <1>1, <1>2 DEF WritesRead
<1>4. WriteMoves(w, s)
  BY SinkMoves
<1>. QED
  BY <1>3, <1>4 DEF WriteMoves

(* A write that is done stays what it is. *)
LEMMA DoneStays ==
  SinkTypes /\ TearState /\ SinkStep =>
    \A w \in Writes, s \in Sinks : Done(w, s) => writing'[w][s] = writing[w][s]
<1>. SUFFICES ASSUME SinkTypes, TearState, SinkStep, NEW w \in Writes, NEW s \in Sinks, Done(w, s)
              PROVE  writing'[w][s] = writing[w][s]
  OBVIOUS
<1>1. WriteMoves(w, s)
  BY SinkMoves
<1>. QED
  BY <1>1 DEF WriteMoves, Done

(* Trouble is not forgotten: what holds of the past after a step held      *)
(* before it. *)
LEMMA Backwards ==
  FileTypes /\ ChainState /\ FileStep /\ SinkTypes /\ TearState /\ SinkStep /\ past \subseteq past' =>
    /\ OneReader' => OneReader /\ errors' = 0 /\ "overlap" \notin past'
    /\ "off" \notin past' => "off" \notin past
    /\ \A s \in Sinks : /\ OthersFine(s)' => OthersFine(s)
                        /\ ~ Rejected(s)' => ~ Rejected(s)
<1>. SUFFICES ASSUME FileTypes, ChainState, FileStep, SinkTypes, TearState, SinkStep, past \subseteq past'
              PROVE  /\ OneReader' => OneReader /\ errors' = 0 /\ "overlap" \notin past'
                     /\ "off" \notin past' => "off" \notin past
                     /\ \A s \in Sinks : /\ OthersFine(s)' => OthersFine(s)
                                         /\ ~ Rejected(s)' => ~ Rejected(s)
  OBVIOUS
<1>1. errors' = 0 => errors = 0
  BY ReadsGrow
<1>2. \A s \in Sinks : Rejected(s) => Rejected(s)'
  BY DoneStays DEF Rejected, Done
<1>3. \A s \in Sinks : OthersFine(s)' => OthersFine(s)
  BY <1>2 DEF OthersFine
<1>. QED
  BY <1>1, <1>2, <1>3 DEF OneReader

(* A chain that handed on a buffer is the only one, and at the last        *)
(* buffer; so every earlier buffer was dealt with. *)
LEMMA OneBufferNext ==
  FileTypes /\ ChainState /\ FileStep /\ SinkTypes /\ TearState /\ SinkStep /\
  OneAlive /\ OneBuffer /\ ReaderStep /\ past \subseteq past' => OneBuffer'
<1>. SUFFICES ASSUME FileTypes, ChainState, FileStep, SinkTypes, TearState, SinkStep,
                     OneAlive, OneBuffer, ReaderStep, past \subseteq past', OneReader'
              PROVE  OneBuffer'
  BY DEF OneBuffer
<1>0. /\ OneReader /\ errors' = 0 /\ "overlap" \notin past /\ errors = 0
      /\ \A s \in Sinks : OthersFine(s)' => OthersFine(s)
  BY Backwards DEF OneReader
<1>1. \A c, d \in Chains : Alive(c) /\ Alive(d) => c = d
  BY <1>0 DEF OneAlive
<1>2. \A c \in Chains : pc[c] = "emitted" => current[c] = Len(reads)
  BY <1>0 DEF OneBuffer
<1>3. \A s \in Sinks : OthersFine(s)' =>
        \A w \in 1..Len(reads) : Done(w, s) \/ \E c \in Chains : pc[c] = "emitted" /\ current[c] = w
  BY <1>0 DEF OneBuffer
<1>4. \A w \in 1..Len(reads) : w \in Writes
  BY FileBounds, SinkBounds, PipeBounds DEF FileTypes, Writes
<1>5. \A w \in Writes, s \in Sinks : Done(w, s) => Done(w, s)'
  BY DoneStays DEF Done
<1>6. ASSUME UNCHANGED <<reads, current>>,
             \A c \in Chains : pc'[c] = "emitted" <=> pc[c] = "emitted"
      PROVE  OneBuffer'
  BY <1>2, <1>3, <1>4, <1>5, <1>6 DEF OneBuffer
<1>7. CASE UNCHANGED fileVars \/ Pause \/ Moved
  BY <1>6, <1>7 DEF fileVars, Pause, Moved, Reset, Close
<1>8. ASSUME NEW c \in Chains, Resume(c) \/ ReadBegin(c) \/ ReadEof(c) \/ AfterData(c) \/ AfterLastData(c)
      PROVE  OneBuffer'
  <2>1. PICK p \in {"queued", "reading", "done"} :
          pc' = [pc EXCEPT ![c] = p] /\ pc[c] # "emitted" /\ UNCHANGED <<reads, current>>
    BY <1>8 DEF Resume, ReadBegin, ReadEof, AfterData, AfterLastData
  <2>2. \A d \in Chains : pc'[d] = "emitted" <=> pc[d] = "emitted"
    BY <2>1 DEF FileTypes
  <2>. QED
    BY <2>1, <2>2, <1>6
<1>9. ASSUME NEW c \in Chains, DataRejected(c) PROVE FALSE
  BY <1>0, <1>9 DEF DataRejected
<1>10. ASSUME NEW c \in Chains, ReadEnd(c), UNCHANGED writing PROVE OneBuffer'
  <2>1. /\ pc[c] = "reading" /\ pc' = [pc EXCEPT ![c] = "emitted"]
        /\ Len(reads') = Len(reads) + 1 /\ current' = [current EXCEPT ![c] = Len(reads) + 1]
    BY <1>10 DEF ReadEnd, FileTypes
  <2>2. \A d \in Chains : d # c => pc[d] # "emitted" /\ pc'[d] # "emitted"
    BY <1>1, <2>1 DEF Alive, FileTypes
  <2>3. pc'[c] = "emitted" /\ current'[c] = Len(reads')
    BY <2>1 DEF FileTypes
  <2>4. \A s \in Sinks : OthersFine(s)' => \A w \in 1..Len(reads) : Done(w, s)
    BY <1>3, <2>1, <2>2
  <2>5. \A w \in 1..Len(reads') : w \in 1..Len(reads) \/ w = Len(reads')
    BY <2>1 DEF FileTypes
  <2>6. \A d \in Chains : pc'[d] = "emitted" => current'[d] = Len(reads')
    BY <2>2, <2>3
  <2>7. ASSUME NEW s \in Sinks, OthersFine(s)', NEW w \in 1..Len(reads')
        PROVE  Done(w, s)' \/ \E d \in Chains : pc'[d] = "emitted" /\ current'[d] = w
    BY <1>4, <1>5, <2>3, <2>4, <2>5, <2>7
  <2>. QED
    BY <2>6, <2>7 DEF OneBuffer
<1>11. ASSUME NEW c \in Chains, GoesOn(c), UNCHANGED writing PROVE OneBuffer'
  <2>1. /\ pc[c] = "emitted" /\ pc' = [pc EXCEPT ![c] = "handled"]
        /\ UNCHANGED <<reads, current>>
    BY <1>11 DEF GoesOn, Handled
  <2>2. \A d \in Chains : pc'[d] = IF d = c THEN "handled" ELSE pc[d]
    BY <2>1 DEF FileTypes
  <2>3. \A d \in Chains : pc'[d] = "emitted" => current'[d] = Len(reads')
    BY <2>1, <2>2, <1>2
  <2>4. ASSUME NEW s \in Sinks, OthersFine(s)', current[c] \in 1..Len(reads) PROVE Done(current[c], s)
    <3>1. CASE \A t \in Sinks : writing[current[c]][t] \in {"resolved", "skipped"}
      BY <3>1 DEF Done
    <3>2. CASE \E t \in Sinks : writing[current[c]][t] = "rejected"
      <4>1. PICK t \in Sinks : writing[current[c]][t] = "rejected"
        BY <3>2
      <4>2. Rejected(t) /\ OthersFine(s)
        BY <4>1, <2>4, <1>0, <1>4 DEF Rejected
      <4>3. t = s
        BY <4>2 DEF OthersFine
      <4>. QED
        BY <4>1, <4>3 DEF Done
    <3>. QED
      BY <1>11, <3>1, <3>2 DEF GoesOn
  <2>5. ASSUME NEW s \in Sinks, OthersFine(s)', NEW w \in 1..Len(reads')
        PROVE  Done(w, s)' \/ \E d \in Chains : pc'[d] = "emitted" /\ current'[d] = w
    <3>1. w \in 1..Len(reads)
      BY <2>1
    <3>2. CASE Done(w, s)
      BY <3>1, <3>2, <1>4, <1>5
    <3>3. CASE ~ Done(w, s)
      <4>1. PICK d \in Chains : pc[d] = "emitted" /\ current[d] = w
        BY <1>3, <2>5, <3>1, <3>3
      <4>2. d # c
        BY <4>1, <2>4, <2>5, <3>1, <3>3
      <4>. QED
        BY <4>1, <4>2, <2>1, <2>2
    <3>. QED
      BY <3>2, <3>3
  <2>. QED
    BY <2>3, <2>5 DEF OneBuffer
<1>. QED
  BY <1>7, <1>8, <1>9, <1>10, <1>11 DEF ReaderStep, Starts, Reads

(* Only disconnecting the pipe changes the listeners of "data". *)
LEMMA DataListeners ==
  [Next]_vars /\ EmitterTypes /\ "off" \notin past' => events'["data"] = events["data"]
<1>. SUFFICES ASSUME [Next]_vars, EmitterTypes, "off" \notin past'
              PROVE  events'["data"] = events["data"]
  OBVIOUS
<1>0. DOMAIN events = {"data", "end", "error"}
  BY DEF EmitterTypes, Events
<1>1. ASSUME NEW c \in Chains, DoResume(c) PROVE events'["data"] = events["data"]
  BY <1>0, <1>1 DEF DoResume
<1>2. ASSUME Emit("end") \/ Emit("error") PROVE events'["data"] = events["data"]
  BY <1>0, <1>2 DEF Emit
<1>3. ASSUME NEW c \in Chains, ReadStep(c) PROVE events'["data"] = events["data"]
  BY <1>3 DEF ReadStep, emitter
<1>4. ASSUME NEW c \in Chains, Listened(c) \/ OnCatch(c) \/ ListenerFails(c)
      PROVE  events'["data"] = events["data"]
  BY <1>2, <1>4 DEF Listened, OnCatch, ListenerFails
<1>5. ASSUME Call PROVE events'["data"] = events["data"]
  BY <1>5 DEF Call, emitter
<1>6. ASSUME OnEnd PROVE events'["data"] = events["data"]
  BY <1>2, <1>6 DEF OnEnd
<1>7. ASSUME NEW w \in Writes, Listen(w) PROVE events'["data"] = events["data"]
  BY <1>7 DEF Listen, emitter
<1>8. ASSUME NEW w \in Writes, NEW s \in Sinks, WriteTask(w, s)
      PROVE  events'["data"] = events["data"]
  BY <1>8 DEF WriteTask, emitter
<1>9. ASSUME NEW s \in FileSinks, SyncReturns(s) PROVE events'["data"] = events["data"]
  BY <1>9 DEF SyncReturns, emitter
<1>10. ASSUME UNCHANGED vars PROVE events'["data"] = events["data"]
  BY <1>10 DEF vars, emitter
<1>. QED
  BY <1>1, <1>3, <1>4, <1>5, <1>6, <1>7, <1>8, <1>9, <1>10 DEF Next, ChainStep

(* A pipe that was not disconnected skips no buffer. *)
LEMMA ConnectedNext ==
  [Next]_vars /\ EmitterTypes /\ SinkTypes /\ TearState /\ SinkStep /\ past \subseteq past' /\ Connected
    => Connected'
<1>. SUFFICES ASSUME [Next]_vars, EmitterTypes, SinkTypes, TearState, SinkStep, past \subseteq past', Connected,
                     "off" \notin past'
              PROVE  /\ Piping \in DOMAIN events'["data"] /\ events'["data"][Piping] = Infinity
                     /\ \A w \in Writes, s \in Sinks : writing'[w][s] # "skipped"
  BY DEF Connected, Piping, Infinity
<1>1. /\ Piping \in DOMAIN events["data"] /\ events["data"][Piping] = Infinity
      /\ \A w \in Writes, s \in Sinks : writing[w][s] # "skipped"
  BY DEF Connected
<1>2. events'["data"] = events["data"]
  BY DataListeners
<1>3. Piping \in Called(events["data"])
  BY <1>1 DEF Called, Infinity
<1>4. ASSUME NEW w \in Writes, NEW s \in Sinks PROVE writing'[w][s] # "skipped"
  <2>1. WriteMoves(w, s)
    BY SinkMoves
  <2>. QED
    BY <2>1, <1>1, <1>3 DEF WriteMoves, Begun
<1>. QED
  BY <1>1, <1>2, <1>4

(* A write that goes on, at a sink whose neighbours are fine, is that of   *)
(* the last buffer. *)
LEMMA LastWrite ==
  ASSUME FileTypes, WritesRead, OneBuffer, OneReader, NEW s \in Sinks, OthersFine(s),
         NEW w \in Writes, writing[w][s] \in {"queued", "tested", "sending"}
  PROVE  w = Len(reads) /\ \A v \in 1..(w - 1) : v \in Writes /\ Done(v, s)
<1>0. Len(reads) \in Nat /\ w \in Nat /\ w >= 1 /\ MaxWrites \in Nat
  BY SinkBounds DEF FileTypes, Writes
<1>1. w \in 1..Len(reads)
  BY <1>0 DEF WritesRead
<1>2. /\ \A c \in Chains : pc[c] = "emitted" => current[c] = Len(reads)
      /\ \A v \in 1..Len(reads) : Done(v, s) \/ \E c \in Chains : pc[c] = "emitted" /\ current[c] = v
  BY DEF OneBuffer
<1>3. w = Len(reads)
  BY <1>1, <1>2 DEF Done
<1>4. \A v \in 1..(w - 1) : v \in 1..Len(reads) /\ v # Len(reads) /\ v \in Writes
  BY <1>0, <1>3 DEF Writes
<1>. QED
  BY <1>2, <1>3, <1>4

(* So the buffers come in order. *)
LEMMA BuffersInOrderNext ==
  FileTypes /\ ChainState /\ FileStep /\ SinkTypes /\ SinkState /\ TearState /\ SinkStep /\ WritesRead /\
  OneBuffer /\ past \subseteq past' /\ BuffersInOrder => BuffersInOrder'
<1>. SUFFICES ASSUME FileTypes, ChainState, FileStep, SinkTypes, SinkState, TearState, SinkStep,
                     WritesRead, OneBuffer, past \subseteq past', BuffersInOrder, OneReader',
                     NEW s \in Sinks, OthersFine(s)',
                     NEW i \in DOMAIN out'[s], NEW j \in DOMAIN out'[s], i < j,
                     Piped(out'[s][i]), Piped(out'[s][j])
              PROVE  out'[s][i][1] <= out'[s][j][1]
  BY DEF BuffersInOrder, Piped
<1>0. OneReader /\ OthersFine(s)
  BY Backwards
<1>1. \A a, b \in DOMAIN out[s] :
        a < b /\ Piped(out[s][a]) /\ Piped(out[s][b]) => out[s][a][1] <= out[s][b][1]
  BY <1>0 DEF BuffersInOrder
<1>2. CASE out'[s] = out[s]
  BY <1>1, <1>2
<1>3. ASSUME NEW w \in Writes \cup {0}, NEW n \in Nat, NEW k \in Nat,
             Grows(out[s], out'[s], Len(out[s]), n, w, k),
             w # 0 => writing[w][s] \in {"tested", "sending"}
      PROVE  out'[s][i][1] <= out'[s][j][1]
  <2>. PICK l \in Nat : l = Len(out[s])
    BY DEF SinkTypes
  <2>1. /\ DOMAIN out[s] = 1..l /\ i \in 1..(l + n) /\ j \in 1..(l + n)
        /\ \A a \in 1..l : out'[s][a] = out[s][a]
        /\ \A a \in (l + 1)..(l + n) : out'[s][a] = <<w, k + (a - l)>>
    BY <1>3 DEF Grows
  <2>2. CASE j \in 1..l
    BY <2>1, <2>2, <1>1
  <2>3. CASE j \notin 1..l
    <3>0. j \in (l + 1)..(l + n)
      BY <2>1, <2>3
    <3>1. out'[s][j] = <<w, k + (j - l)>>
      BY <2>1, <3>0
    <3>2. w # 0 /\ w \in Writes /\ w \in Nat /\ writing[w][s] \in {"tested", "sending"}
      BY <3>1, <1>3, SinkBounds DEF Piped, Writes
    <3>3. CASE i \in 1..l
      <4>1. out'[s][i] = out[s][i] /\ i \in DOMAIN out[s] /\ out[s][i] \in Unit
        BY <2>1, <3>3 DEF SinkTypes
      <4>. PICK v \in Writes : v = out[s][i][1]
        BY <4>1 DEF Unit, Piped
      <4>2. writing[v][s] \in Begun
        BY <4>1 DEF SinkState, Counts
      <4>3. ~ (v > Len(reads))
        BY <4>2 DEF WritesRead, Begun
      <4>4. w = Len(reads)
        BY <3>2, <1>0, LastWrite
      <4>. QED
        BY <3>1, <4>1, <4>3, <4>4, SinkBounds DEF Writes
    <3>4. CASE i \notin 1..l
      <4>1. i \in (l + 1)..(l + n)
        BY <2>1, <3>4
      <4>2. out'[s][i] = <<w, k + (i - l)>>
        BY <2>1, <4>1
      <4>. QED
        BY <3>1, <3>2, <4>2
    <3>. QED
      BY <3>3, <3>4
  <2>. QED
    BY <2>2, <2>3
<1>4. out'[s] = out[s] \/ Receives(s)
  BY SinkMoves
<1>. QED
  BY <1>2, <1>3, <1>4 DEF Receives

(* And without a gap, at a sink where no write failed. *)
LEMMA NoGapNext ==
  FileTypes /\ ChainState /\ FileStep /\ SinkTypes /\ SinkTypes' /\ SinkState /\ TearState /\ SinkStep /\
  WritesRead /\ OneBuffer /\ Connected /\ past \subseteq past' /\ NoGap => NoGap'
<1>. SUFFICES ASSUME FileTypes, ChainState, FileStep, SinkTypes, SinkTypes', SinkState, TearState,
                     SinkStep, WritesRead, OneBuffer, Connected, past \subseteq past', NoGap,
                     OneReader', "off" \notin past', NEW s \in Sinks, OthersFine(s)', ~ Rejected(s)',
                     NEW v \in Writes, NEW w \in Writes, v < w,
                     <<w, s>> \notin torn', written'[w][s] > 0
              PROVE  written'[v][s] = Units
  BY DEF NoGap
<1>0. OneReader /\ "off" \notin past /\ OthersFine(s) /\ ~ Rejected(s) /\ <<w, s>> \notin torn
  BY Backwards, TearNext
<1>1. /\ Units \in Nat /\ \A u \in Writes : written[u][s] \in 0..Units /\ written'[u][s] \in 0..Units
      /\ v \in Nat /\ w \in Nat /\ v \in 1..(w - 1)
  <2>1. \A u \in Writes : written[u][s] \in 0..Units
    BY DEF SinkTypes
  <2>2. \A u \in Writes : written'[u][s] \in 0..Units
    BY DEF SinkTypes
  <2>. QED
    BY <2>1, <2>2, SinkBounds DEF Writes
<1>2. CountMoves(v, s) /\ CountMoves(w, s)
  BY SinkMoves
<1>3. written[v][s] = Units
  <2>1. CASE written[w][s] > 0
    BY <1>0, <2>1 DEF NoGap
  <2>2. CASE ~ (written[w][s] > 0)
    <3>1. writing[w][s] \in {"tested", "sending"} /\ open[s] = "yes"
      BY <1>0, <1>2, <2>2 DEF CountMoves
    <3>2. Done(v, s)
      BY <3>1, <1>0, <1>1, LastWrite
    <3>3. writing[v][s] # "rejected" /\ writing[v][s] # "skipped"
      BY <1>0 DEF Rejected, Connected
    <3>4. writing[v][s] = "resolved"
      BY <3>2, <3>3 DEF Done
    <3>. QED
      BY <3>1, <3>4 DEF SinkState, WholeIfOpen
  <2>. QED
    BY <2>1, <2>2
<1>. QED
  BY <1>1, <1>2, <1>3 DEF CountMoves

(* The only write that goes on is that of the last buffer, so that it      *)
(* disturbs no other. *)
LEMMA NoneTornNext ==
  FileTypes /\ ChainState /\ FileStep /\ SinkTypes /\ TearState /\ SinkStep /\
  WritesRead /\ OneBuffer /\ past \subseteq past' /\ NoneTorn => NoneTorn'
<1>. SUFFICES ASSUME FileTypes, ChainState, FileStep, SinkTypes, TearState, SinkStep,
                     WritesRead, OneBuffer, past \subseteq past', NoneTorn,
                     OneReader', NEW s \in Sinks, s \notin direct', OthersFine(s)', open'[s] = "yes",
                     NEW w \in Writes, <<w, s>> \in torn'
              PROVE  FALSE
  BY DEF NoneTorn, Torn
<1>1. OneReader /\ OthersFine(s) /\ s \notin direct /\ direct \subseteq direct'
  BY Backwards, TearNext
<1>2. open[s] = "yes" => <<w, s>> \notin torn
  BY <1>1 DEF NoneTorn, Torn
<1>3. CASE UNCHANGED <<torn, open>>
  BY <1>2, <1>3
<1>4. UNCHANGED sinkVars \/ Fault \/ (\E v \in Writes : WriteBegins(v)) \/ (\E t \in FileSinks : EndSync(t))
        => UNCHANGED <<torn, open>>
  BY DEF sinkVars, Fault, WriteBegins, Write, Skip, EndSync, races
<1>5. ASSUME NEW v \in Writes, NEW t \in Sinks, WriteStep(v, t), ~ UNCHANGED <<torn, open>>
      PROVE  FALSE
  <2>1. /\ t \in FileSinks /\ writing[v][t] = "tested" /\ Busy(t) /\ open' = open
        /\ torn' = torn \cup {<<u, t>> : u \in Sending(t) \cup {v}}
    BY <1>5 DEF WriteStep, Test, Refused, BeginSend, Send, SendFails, Complete, CutShort, races
  <2>2. t = s
    BY <2>1, <1>2
  <2>3. syncing[s] = 0
    BY <2>1, <2>2, <1>1 DEF TearState
  <2>4. PICK u \in Writes : writing[u][s] = "sending"
    BY <2>1, <2>2, <2>3 DEF Busy, Sending
  <2>5. u = Len(reads)
    BY <2>4, <1>1, LastWrite
  <2>6. v = Len(reads)
    BY <2>1, <2>2, <1>1, LastWrite
  <2>. QED
    BY <2>1, <2>2, <2>4, <2>5, <2>6
<1>6. ASSUME NEW t \in Sinks, CloseSink(t) PROVE FALSE
  <2>1. /\ open'[t] = "no" /\ \A u \in Sinks : u # t => open'[u] = open[u]
        /\ torn' = torn \cup {<<v, t>> : v \in Sending(t)}
    BY <1>6 DEF CloseSink, SinkTypes
  <2>. QED
    BY <2>1, <1>2
<1>7. ASSUME NEW t \in Sinks, WriteSync(t) PROVE FALSE
  <2>1. /\ open' = open
        /\ torn' = torn \/ (torn' = torn \cup {<<v, t>> : v \in Sending(t)} /\ t \in direct')
    BY <1>7 DEF WriteSync, races
  <2>. QED
    BY <2>1, <1>2
<1>. QED
  BY <1>3, <1>4, <1>5, <1>6, <1>7 DEF SinkStep

-----------------------------------------------------------------------------
(* The inductive invariant, and the properties it gives. *)

PipeInv ==
  /\ FileTypes /\ ChainState
  /\ SinkTypes /\ SinkState /\ TearState
  /\ EmitterTypes /\ EmitterState
  /\ calls \in 0..MaxCalls /\ past \subseteq {"overlap", "moved", "off"}
  /\ OneAlive /\ FileRead /\ WritesRead /\ OneBuffer /\ Connected /\ BuffersInOrder /\ NoGap /\ NoneTorn

(* pipe() has been called, and nothing was read yet. *)
LEMMA PipeInit == Init => PipeInv
<1>. SUFFICES ASSUME Init PROVE PipeInv
  OBVIOUS
<1>0. /\ Length \in Nat /\ MaxReads \in Nat /\ MaxChains \in Nat /\ MaxFaults \in Nat
      /\ MaxCalls \in Nat /\ Units \in Nat
  BY FileBounds, SinkBounds, PipeBounds
<1>1. FileTypes
  BY <1>0 DEF Init, FileInit, Opened, FileTypes
<1>2. ChainState
  <2>1. \A how \in {"resolved", "rejected"} : SettledAs(how) = {}
    BY DEF Init, FileInit, SettledAs
  <2>2. Cardinality(SettledAs("resolved")) = 0 /\ Cardinality(SettledAs("rejected")) = 0
    BY <2>1, FS_EmptySet
  <2>. QED
    BY <2>2 DEF Init, FileInit, ChainState
<1>3. SinkTypes
  BY <1>0 DEF Init, SinkInit, SinkTypes
<1>4. SinkState
  BY DEF Init, SinkInit, SinkState, Counts, Covers, Ascends, WholeIfOpen
<1>15. TearState /\ NoneTorn
  BY DEF Init, SinkInit, TearState, NoneTorn, Torn
<1>5. \A l : /\ DOMAIN On(NoListeners, Piping, l) = {Piping}
             /\ On(NoListeners, Piping, l)[Piping] = l
             /\ l \in Nat => On(NoListeners, Piping, l) \in [{Piping} -> Nat]
  BY DEF On, NoListeners
<1>6. /\ DOMAIN events = Events
      /\ events["data"] = On(NoListeners, Piping, Infinity)
      /\ events["end"] = On(NoListeners, Piping, 1)
      /\ events["error"] = NoListeners
  BY DEF Init, Events
<1>7. EmitterTypes
  <2>1. Infinity \in Nat /\ DOMAIN NoListeners = {} /\ NoListeners \in [{} -> Nat]
    BY DEF Infinity, NoListeners
  <2>2. \A e \in Events : DOMAIN events[e] \subseteq {Piping} /\ events[e] \in [DOMAIN events[e] -> Nat]
    <3>1. /\ DOMAIN events["data"] = {Piping} /\ events["data"] \in [{Piping} -> Nat]
          /\ DOMAIN events["end"] = {Piping} /\ events["end"] \in [{Piping} -> Nat]
          /\ DOMAIN events["error"] = {} /\ events["error"] \in [{} -> Nat]
      BY ZenonT(60), <1>5, <1>6, <2>1
    <3>. QED
      BY <3>1 DEF Events
  <2>3. ended = 0 /\ ends = 0 /\ caught = {} /\ nulls = 0 /\ promise = [c \in Chains |-> "none"]
    BY DEF Init, FileInit
  <2>. QED
    BY <1>6, <2>2, <2>3 DEF EmitterTypes
<1>8. EmitterState
  BY <1>5, <1>6 DEF Init, EmitterState
<1>9. calls \in 0..MaxCalls /\ past \subseteq {"overlap", "moved", "off"}
  BY <1>0 DEF Init
<1>10. OneAlive /\ WritesRead
  BY DEF Init, FileInit, SinkInit, OneAlive, Alive, WritesRead
<1>11. FileRead
  BY <1>0, FilesAssumption DEF Init, FileInit, Opened, FileRead
<1>12. OneBuffer
  BY DEF Init, FileInit, OneBuffer
<1>13. Connected
  BY <1>5, <1>6 DEF Init, SinkInit, Connected
<1>14. BuffersInOrder /\ NoGap
  BY DEF Init, SinkInit, BuffersInOrder, NoGap
<1>. QED
  BY <1>1, <1>2, <1>3, <1>4, <1>7, <1>8, <1>9, <1>10, <1>11, <1>12, <1>13, <1>14, <1>15 DEF PipeInv

(* The calls of the program are counted, and what they did is remembered. *)
LEMMA CallsNext ==
  [Next]_vars /\ calls \in 0..MaxCalls /\ past \subseteq {"overlap", "moved", "off"} =>
    calls' \in 0..MaxCalls /\ past' \subseteq {"overlap", "moved", "off"}
<1>. SUFFICES ASSUME [Next]_vars, calls \in 0..MaxCalls, past \subseteq {"overlap", "moved", "off"}
              PROVE  calls' \in 0..MaxCalls /\ past' \subseteq {"overlap", "moved", "off"}
  OBVIOUS
<1>1. calls' = calls \/ (calls < MaxCalls /\ calls' = calls + 1)
  BY DEF Next, ChainStep, DoResume, ReadStep, Listened, OnCatch, ListenerFails, Call, OnEnd, Listen,
         WriteTask, SyncReturns, vars
<1>2. MaxCalls \in Nat
  BY PipeBounds
<1>3. calls' \in 0..MaxCalls
  BY <1>1, <1>2
<1>4. past' = past \/ \E p \in {"overlap", "moved", "off"} : past' = past \cup {p}
  BY DEF Next, ChainStep, DoResume, ReadStep, Listened, OnCatch, ListenerFails, Call, OnEnd, Listen,
         WriteTask, SyncReturns, vars
<1>. QED
  BY <1>3, <1>4

(* Every step keeps the invariant. *)
LEMMA PipeNext == PipeInv /\ [Next]_vars => PipeInv'
<1>. SUFFICES ASSUME PipeInv, [Next]_vars PROVE PipeInv'
  OBVIOUS
<1>0. /\ FileTypes /\ ChainState /\ SinkTypes /\ SinkState /\ TearState /\ EmitterTypes /\ EmitterState
      /\ OneAlive /\ FileRead /\ WritesRead /\ OneBuffer /\ Connected /\ BuffersInOrder /\ NoGap /\ NoneTorn
  BY DEF PipeInv
<1>1. FileStep /\ SinkStep /\ EmitterStep /\ ReaderStep /\ past \subseteq past'
  BY StepParts, ReaderPart
<1>2. FileTypes' /\ ChainState' /\ SinkTypes' /\ SinkState' /\ TearState'
  BY <1>0, <1>1, FileNext, SinkNext, TearNext
<1>3. EmitterTypes' /\ EmitterState'
  BY <1>0, <1>1, EmitterNext
<1>4. calls' \in 0..MaxCalls /\ past' \subseteq {"overlap", "moved", "off"}
  BY CallsNext DEF PipeInv
<1>5. OneAlive' /\ FileRead' /\ WritesRead' /\ OneBuffer'
  BY <1>0, <1>1, OneAliveNext, FileReadNext, WritesReadNext, OneBufferNext
<1>6. Connected' /\ BuffersInOrder' /\ NoGap' /\ NoneTorn'
  BY <1>0, <1>1, <1>2, ConnectedNext, BuffersInOrderNext, NoGapNext, NoneTornNext
<1>. QED
  BY <1>2, <1>3, <1>4, <1>5, <1>6 DEF PipeInv

(* In every reachable state of the pipe. *)
LEMMA PipeInvCorrect == Spec => []PipeInv
  BY PipeInit, PipeNext, PTL DEF Spec

(* The variables have their types, and one reader reads the file from its  *)
(* start once, whatever its listeners and its targets do                   *)
(* (FilePushDevice::resume and its read handler).                          *)
THEOREM ReadOnceCorrect == Spec => []ReadOnce
<1>1. PipeInv => ReadOnce
  <2>. SUFFICES ASSUME PipeInv PROVE ReadOnce
    OBVIOUS
  <2>1. {ends, errors} \subseteq 0..MaxChains
    BY SettledBound DEF PipeInv, ChainState
  <2>2. TypeOK
    BY <2>1 DEF PipeInv, FileTypes, SinkTypes, EmitterTypes, Unit, TypeOK
  <2>3. ASSUME past = {} PROVE reads = [n \in 1..Len(reads) |-> n]
    <3>1. \A n \in 1..Len(reads) : reads[n] = n
      BY <2>3 DEF PipeInv, FileRead
    <3>2. reads \in Seq(1..Length)
      BY DEF PipeInv, FileTypes
    <3>. QED
      BY <3>1, <3>2
  <2>. QED
    BY <2>2, <2>3 DEF ReadOnce
<1>. QED
  BY <1>1, PipeInvCorrect, PTL

(* What a sink's write promises when it resolves: the whole buffer, each   *)
(* unit once, unless the sink was closed or two threads were in a file's   *)
(* deviceWrite at once (SinkDevice.write, FileSinkDevice::deviceWrite).    *)
THEOREM ResolvedWholeCorrect == Spec => []ResolvedWhole
<1>1. PipeInv => ResolvedWhole
  <2>. SUFFICES ASSUME PipeInv, NEW w \in Writes, NEW s \in Sinks,
                       writing[w][s] = "resolved", open[s] = "yes", <<w, s>> \notin torn
                PROVE  /\ {w} \X (1..Units) \subseteq Received(s)
                       /\ \A i, j \in DOMAIN out[s] :
                            i # j /\ out[s][i][1] = w => out[s][i] # out[s][j]
    BY DEF ResolvedWhole
  <2>1. Counts(s) /\ Covers(s) /\ Ascends(s) /\ WholeIfOpen(s)
    BY DEF PipeInv, SinkState
  <2>2. written[w][s] = Units
    BY <2>1 DEF WholeIfOpen
  <2>3. {w} \X (1..Units) \subseteq Received(s)
    BY <2>1, <2>2 DEF Covers
  <2>4. ASSUME NEW i \in DOMAIN out[s], NEW j \in DOMAIN out[s], i # j, out[s][i][1] = w
        PROVE  out[s][i] # out[s][j]
    <3>. SUFFICES ASSUME out[s][i] = out[s][j] PROVE FALSE
      OBVIOUS
    <3>0. out[s] \in Seq(Unit)
      BY DEF PipeInv, SinkTypes
    <3>1. i \in Nat /\ j \in Nat /\ out[s][i] \in Unit
      BY <2>4, <3>0
    <3>2. i < j \/ j < i
      BY <2>4, <3>1
    <3>3. out[s][i][2] \in Nat /\ Piped(out[s][i]) /\ Piped(out[s][j])
      BY <3>1, <2>4, SinkBounds DEF Unit, Writes, Piped
    <3>. QED
      BY <2>1, <3>2, <3>3 DEF Ascends
  <2>. QED
    BY <2>3, <2>4
<1>. QED
  BY <1>1, PipeInvCorrect, PTL

(* A sink receives the file's buffers in order and without a gap, and one  *)
(* thread at a time is in its deviceWrite (ReadableStream.pipe), as far as *)
(* PipeInOrder says.                                                       *)
THEOREM PipeInOrderCorrect == Spec => []PipeInOrder
<1>1. PipeInv => PipeInOrder
  <2>. SUFFICES ASSUME PipeInv, OneReader, NEW s \in Sinks, \A t \in Sinks \ {s} : ~ Rejected(t)
                PROVE  /\ s \notin direct /\ open[s] = "yes" => ~ Torn(s)
                       /\ \A i, j \in DOMAIN out[s] :
                            i < j /\ Piped(out[s][i]) /\ Piped(out[s][j])
                              => Precedes(out[s][i], out[s][j])
                       /\ ~ Rejected(s) /\ ~ Torn(s) /\ "off" \notin past =>
                            \A u \in Received(s), v \in Writes \X (1..Units) :
                              Piped(u) /\ Precedes(v, u) => v \in Received(s)
    BY DEF PipeInOrder
  <2>0. Counts(s) /\ Covers(s) /\ Ascends(s) /\ OthersFine(s)
    BY DEF PipeInv, SinkState, OthersFine
  <2>1. \A i \in DOMAIN out[s] : out[s][i] \in Unit
    BY DEF PipeInv, SinkTypes
  <2>2. ASSUME NEW i \in DOMAIN out[s], NEW j \in DOMAIN out[s], i < j,
               Piped(out[s][i]), Piped(out[s][j])
        PROVE  Precedes(out[s][i], out[s][j])
    <3>1. out[s][i][1] <= out[s][j][1]
      BY <2>0, <2>2 DEF PipeInv, BuffersInOrder
    <3>2. out[s][i][1] \in Nat /\ out[s][j][1] \in Nat
      BY <2>1, SinkBounds DEF Unit, Writes
    <3>3. out[s][i][1] = out[s][j][1] => out[s][i][2] < out[s][j][2]
      BY <2>0, <2>2 DEF Ascends
    <3>. QED
      BY <3>1, <3>2, <3>3 DEF Precedes
  <2>3. ASSUME ~ Rejected(s), ~ Torn(s), "off" \notin past, NEW i \in DOMAIN out[s],
               NEW y \in Writes, NEW z \in 1..Units, Piped(out[s][i]),
               y < out[s][i][1] \/ (y = out[s][i][1] /\ z < out[s][i][2])
        PROVE  <<y, z>> \in Received(s)
    <3>. PICK w \in Writes, x \in 1..Units : w = out[s][i][1] /\ x = out[s][i][2]
      BY <2>1, <2>3 DEF Unit, Piped
    <3>1. Units \in Nat /\ written[w][s] \in Nat /\ written[y][s] \in Nat
      BY SinkBounds DEF PipeInv, SinkTypes
    <3>2. x <= written[w][s] /\ <<w, s>> \notin torn /\ <<y, s>> \notin torn
      BY <2>0, <2>3 DEF Counts, Rejected, Torn
    <3>3. CASE y < w
      <4>1. written[y][s] = Units
        BY <2>0, <2>3, <3>1, <3>2, <3>3 DEF PipeInv, NoGap
      <4>. QED
        BY <2>0, <3>2, <4>1 DEF Covers
    <3>4. CASE y = w /\ z < x
      <4>1. z \in 1..written[w][s]
        BY <3>1, <3>2, <3>4
      <4>. QED
        BY <2>0, <3>2, <3>4, <4>1 DEF Covers
    <3>. QED
      BY <2>3, <3>3, <3>4
  <2>4. ASSUME ~ Rejected(s), ~ Torn(s), "off" \notin past, NEW u \in Received(s),
               NEW v \in Writes \X (1..Units), Piped(u), Precedes(v, u)
        PROVE  v \in Received(s)
    <3>1. PICK i \in DOMAIN out[s] : u = out[s][i]
      BY DEF Received
    <3>2. PICK y \in Writes, z \in 1..Units : v = <<y, z>>
      OBVIOUS
    <3>3. Piped(out[s][i]) /\ (y < out[s][i][1] \/ (y = out[s][i][1] /\ z < out[s][i][2]))
      BY <2>4, <3>1, <3>2 DEF Precedes
    <3>. QED
      BY <2>3, <2>4, <3>2, <3>3
  <2>5. s \notin direct /\ open[s] = "yes" => ~ Torn(s)
    BY <2>0 DEF PipeInv, NoneTorn
  <2>. QED
    BY <2>2, <2>4, <2>5
<1>. QED
  BY <1>1, PipeInvCorrect, PTL

(* At the "end" of the device the whole file is with every target that is  *)
(* open, and the targets are told once, after it (ReadableStream.pipe and  *)
(* resume).                                                                *)
THEOREM DeliveredCorrect == Spec => []Delivered
<1>1. PipeInv => Delivered
  <2>. SUFFICES ASSUME PipeInv PROVE Delivered
    OBVIOUS
  <2>1. ASSUME ends > 0, OneReader, past = {}, \A s \in Sinks : ~ Rejected(s),
               NEW s \in Sinks, s \notin direct, open[s] = "yes"
        PROVE  (1..Length) \X (1..Units) \subseteq Received(s)
    <3>1. Len(reads) = Length /\ \A c \in Chains : pc[c] # "emitted"
      <4>1. /\ Len(reads) = tellg - 1 /\ ("eof" \in rdstate => tellg = Length + 1)
            /\ ends > 0 => "eof" \in rdstate /\ \A c \in Chains : pc[c] \notin {"emitted", "handled"}
        BY <2>1 DEF PipeInv, FileRead
      <4>. QED
        BY <4>1, <2>1, FileBounds
    <3>2. OthersFine(s)
      BY <2>1 DEF OthersFine
    <3>3. \A w \in 1..Length : Done(w, s)
      BY <2>1, <3>1, <3>2 DEF PipeInv, OneBuffer
    <3>4. \A w \in 1..Length : w \in Writes
      BY <3>1, FileBounds, SinkBounds, PipeBounds DEF PipeInv, FileTypes, Writes
    <3>5. ASSUME NEW w \in 1..Length PROVE written[w][s] = Units
      <4>1. writing[w][s] # "rejected" /\ writing[w][s] # "skipped"
        BY <2>1, <3>4 DEF PipeInv, Connected, Rejected
      <4>2. writing[w][s] = "resolved"
        BY <3>3, <4>1 DEF Done
      <4>. QED
        BY <2>1, <3>4, <4>2 DEF PipeInv, SinkState, WholeIfOpen
    <3>6. \A w \in 1..Length : \A x \in 1..Units : <<w, x>> \in Received(s)
      <4>1. ~ Torn(s)
        BY <2>1, <3>2 DEF PipeInv, NoneTorn
      <4>2. \A w \in 1..Length : <<w, s>> \notin torn
        BY <4>1, <3>4 DEF Torn
      <4>. QED
        BY <3>4, <3>5, <4>2 DEF PipeInv, SinkState, Covers
    <3>. QED
      BY <3>6
  <2>2. ended > 0 => ends > 0
    <3>1. ends \in 0..MaxChains
      BY SettledBound DEF PipeInv, ChainState
    <3>2. ended \in 0..ends
      BY DEF PipeInv, EmitterTypes
    <3>. QED
      BY <3>1, <3>2, FileBounds
  <2>3. nulls > 0 \/ (\E c \in Chains : promise[c] = "resolved") => ends > 0
    BY <2>2 DEF PipeInv, EmitterState
  <2>4. nulls <= 1
    BY DEF PipeInv, EmitterState
  <2>. QED
    BY <2>1, <2>3, <2>4 DEF Delivered
<1>. QED
  BY <1>1, PipeInvCorrect, PTL
=============================================================================
