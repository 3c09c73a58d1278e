----------------------------- MODULE SinkDevice -----------------------------
(***************************************************************************)
(* SinkDevice.write (src/classes/io/device.cpp) on FileSinkDevice,         *)
(* TCPSocket and UDPSocket.  A write is a chain of tasks: each tests the   *)
(* device, writes a part of the buffer and schedules the next, until       *)
(* everything is written, the device is closed, or it throws.              *)
(*                                                                         *)
(* Tasks of several writes, and writeSync() in a thread of the program,    *)
(* may be in FileSinkDevice::deviceWrite at once, which writes and flushes *)
(* the device's stream without a lock: a data race, and so is close() then.*)
(* Such writes are torn: what of them is in the file, in which order and   *)
(* how often, is open.                                                     *)
(*                                                                         *)
(* A buffer is Units long.  A file or a datagram takes WriteMax of them at *)
(* a time (8 MB and 65507 bytes in the code); a TCP socket's send takes    *)
(* any number, as the system does.                                         *)
(***************************************************************************)
EXTENDS Naturals, Sequences

CONSTANTS
  FileSinks,    \* the sinks that are FileSinkDevices
  SocketSinks,  \* the sinks that are sockets
  Protocols,    \* the kinds of socket explored, of "tcp" and "udp"
  Units,        \* the length of a buffer
  WriteMax,     \* maxWriteBufferSize of a file and of a UDP socket
  MaxWrites,    \* bound: calls of write, to each sink
  MaxFaults     \* bound: writes that fail

Sinks == FileSinks \cup SocketSinks
Writes == 1..MaxWrites

ASSUME SinkBounds == /\ {Units, WriteMax} \subseteq Nat \ {0}
                     /\ {MaxWrites, MaxFaults} \subseteq Nat
                     /\ FileSinks \cap SocketSinks = {}
                     /\ Protocols \subseteq {"tcp", "udp"}

VARIABLES
  open,         \* sink -> "yes" or "no": deviceOpen()
  protocol,     \* socket -> "tcp" or "udp"
  bad,          \* sink -> "yes" or "no": the error bits of a file's stream,
                \* myError of a UDP socket
  writing,      \* write, sink -> "none" "skipped" "queued" "tested"
                \* "sending" (in a file's deviceWrite) "resolved" "rejected"
  written,      \* write, sink -> units written
  syncing,      \* file -> number of threads in its writeSync()
  out,          \* sink -> what it received: <<write, unit>>; nothing of torn writes
  torn,         \* history: <<write, file>> whose deviceWrite was disturbed
  direct,       \* history: the files that writeSync() was called on
  faults        \* number of failures

races == <<syncing, torn, direct>>
sinkVars == <<protocol, open, bad, writing, written, out, faults, races>>

IsUDP(s) == s \in SocketSinks /\ protocol[s] = "udp"

SinkInit ==
  /\ protocol \in [SocketSinks -> Protocols]
  /\ open = [s \in Sinks |-> "yes"]
  /\ bad = [s \in Sinks |-> "no"]
  /\ writing = [w \in Writes |-> [s \in Sinks |-> "none"]]
  /\ written = [w \in Writes |-> [s \in Sinks |-> 0]]
  /\ out = [s \in Sinks |-> << >>]
  /\ syncing = [s \in FileSinks |-> 0] /\ torn = {} /\ direct = {}
  /\ faults = 0

(* write(): the same buffer for every sink of a set; its promise, and the  *)
(* first task.                                                             *)
Write(w) ==
  /\ writing' = [writing EXCEPT ![w] = [s \in Sinks |-> "queued"]]
  /\ UNCHANGED <<protocol, open, bad, written, out, faults, races>>

(* There is no listener to write it. *)
Skip(w) ==
  /\ writing' = [writing EXCEPT ![w] = [s \in Sinks |-> "skipped"]]
  /\ UNCHANGED <<protocol, open, bad, written, out, faults, races>>

(* deviceReady(): a file's stream must be good, a socket be open. *)
Ready(s) == IF s \in FileSinks THEN bad[s] = "no" ELSE open[s] = "yes"

(* A device that is open and not ready is tried again, for ever if it is   *)
(* a file: a step that changes nothing.  Only a UDP socket's deviceError() *)
(* is ever set.                                                            *)
Test(w, s) ==
  /\ writing[w][s] = "queued"
  /\ written[w][s] < Units
  /\ Ready(s) /\ open[s] = "yes"
  /\ ~ (IsUDP(s) /\ bad[s] = "yes")
  /\ writing' = [writing EXCEPT ![w][s] = "tested"]
  /\ UNCHANGED <<protocol, open, bad, written, out, faults, races>>

(* A UDP socket whose last datagram failed refuses the write. *)
Refused(w, s) ==
  /\ writing[w][s] = "queued"
  /\ written[w][s] < Units
  /\ IsUDP(s) /\ bad[s] = "yes"
  /\ writing' = [writing EXCEPT ![w][s] = "rejected"]
  /\ UNCHANGED <<protocol, open, bad, written, out, faults, races>>

(* How much deviceWrite may write. *)
Sizes(w, s) ==
  LET left == Units - written[w][s] IN
  IF s \in FileSinks \/ IsUDP(s) THEN {IF left < WriteMax THEN left ELSE WriteMax}
                                 ELSE 1..left

(* The units from..(from + n - 1) of a buffer. *)
Part(w, from, n) == [i \in 1..n |-> <<w, from + i - 1>>]

(* deviceWrite goes through: the device is open and a file's stream good.  *)
(* A datagram that is sent resets myError, which write() had found clear   *)
(* but another write may have set since.                                   *)
Takes(s) == open[s] = "yes" /\ (bad[s] = "no" \/ IsUDP(s))
Cleared(s) == bad' = IF IsUDP(s) THEN [bad EXCEPT ![s] = "no"] ELSE bad

(* The units a deviceWrite of size that throws may have passed on before.  *)
Before(s, size) == IF s \in FileSinks THEN 0..(size - 1) ELSE {0}

(* Another thread is in the deviceWrite of the same file.                  *)
Sending(s) == {w \in Writes : writing[w][s] = "sending"}
Busy(s) == syncing[s] > 0 \/ Sending(s) # {}

(* deviceWrite begins on a file: with others under way, all of them tear.  *)
BeginSend(w, s) ==
  /\ s \in FileSinks
  /\ writing[w][s] = "tested"
  /\ Takes(s)
  /\ writing' = [writing EXCEPT ![w][s] = "sending"]
  /\ torn' = IF Busy(s) THEN torn \cup {<<v, s>> : v \in Sending(s) \cup {w}} ELSE torn
  /\ UNCHANGED <<protocol, open, bad, written, out, syncing, direct, faults>>

(* Where a write passes on its next part; a socket does so in one call.    *)
Passing(w, s) ==
  IF s \in FileSinks THEN writing[w][s] = "sending" ELSE writing[w][s] = "tested" /\ Takes(s)

(* A sink gets the next n units of a write. *)
Gets(w, s, n) ==
  out' = [out EXCEPT ![s] = IF <<w, s>> \in torn THEN @ ELSE @ \o Part(w, written[w][s] + 1, n)]

(* Mutant: every part is taken from the start of the buffer. *)
SendFromStart(w, s) ==
  /\ Passing(w, s) /\ Cleared(s)
  /\ \E n \in Sizes(w, s) :
       /\ written' = [written EXCEPT ![w][s] = @ + n]
       /\ out' = [out EXCEPT ![s] = @ \o Part(w, 1, n)]
  /\ writing' = [writing EXCEPT ![w][s] = "queued"]
  /\ UNCHANGED <<protocol, open, faults, races>>

(* deviceWrite returns what it was given, or a socket what it took, and    *)
(* the next task writes the rest.                                          *)
Send(w, s) ==
  /\ Passing(w, s) /\ Cleared(s)
  /\ \E n \in Sizes(w, s) :
       /\ written' = [written EXCEPT ![w][s] = @ + n]
       /\ Gets(w, s, n)
  /\ writing' = [writing EXCEPT ![w][s] = "queued"]
  /\ UNCHANGED <<protocol, open, faults, races>>

(* deviceWrite throws: the device was closed after the test, its stream    *)
(* was bad or is made so by another thread, or it fails now.  A file keeps *)
(* its error bits, a UDP socket its error code.                            *)
SendFails(w, s) ==
  /\ \/ /\ writing[w][s] \in {"tested", "sending"} /\ ~ Takes(s)
        /\ UNCHANGED <<out, faults>>
     \/ /\ Passing(w, s) /\ faults < MaxFaults
        /\ faults' = faults + 1
        /\ \E size \in Sizes(w, s) : \E n \in Before(s, size) : Gets(w, s, n)
  /\ bad' = IF s \in FileSinks \/ IsUDP(s) THEN [bad EXCEPT ![s] = "yes"] ELSE bad
  /\ writing' = [writing EXCEPT ![w][s] = "rejected"]
  /\ UNCHANGED <<protocol, open, written, races>>

(* Mutant: a write resolves as soon as something is written. *)
CompletePartial(w, s) ==
  /\ writing[w][s] = "queued"
  /\ written[w][s] > 0
  /\ writing' = [writing EXCEPT ![w][s] = "resolved"]
  /\ UNCHANGED <<protocol, open, bad, written, out, faults, races>>

(* The promise resolves to the number of bytes written. *)
Complete(w, s) ==
  /\ writing[w][s] = "queued"
  /\ written[w][s] = Units
  /\ writing' = [writing EXCEPT ![w][s] = "resolved"]
  /\ UNCHANGED <<protocol, open, bad, written, out, faults, races>>

(* A closed device without an error: the loop ends and the promise         *)
(* resolves all the same, to what was written until then.                  *)
CutShort(w, s) ==
  /\ writing[w][s] = "queued"
  /\ written[w][s] < Units
  /\ open[s] = "no" /\ ~ (IsUDP(s) /\ bad[s] = "yes")
  /\ writing' = [writing EXCEPT ![w][s] = "resolved"]
  /\ UNCHANGED <<protocol, open, bad, written, out, faults, races>>

(* writeSync() of a buffer of its own, number 0, in the calling thread: a  *)
(* device that is not ready refuses it.  It returns the length it was      *)
(* given, whatever a TCP socket took of it.                                *)
WriteSync(s) ==
  /\ Ready(s)
  /\ \/ /\ open[s] = "yes" /\ s \in SocketSinks
        /\ \E n \in IF IsUDP(s) THEN {Units} ELSE 1..Units :
             out' = [out EXCEPT ![s] = @ \o Part(0, 1, n)]
        /\ Cleared(s)
        /\ UNCHANGED races
     \/ /\ open[s] = "yes" /\ s \in FileSinks
        /\ syncing' = [syncing EXCEPT ![s] = @ + 1]
        /\ torn' = torn \cup {<<w, s>> : w \in Sending(s)}
        /\ direct' = direct \cup {s}
        /\ UNCHANGED <<out, bad>>
     \/ /\ open[s] = "no"
        /\ bad' = [bad EXCEPT ![s] = "yes"]
        /\ UNCHANGED <<out, races>>
  /\ UNCHANGED <<protocol, open, writing, written, faults>>

(* writeSync() on a file returns: whole or torn, nothing depends on it.    *)
EndSync(s) ==
  /\ s \in FileSinks /\ syncing[s] > 0
  /\ syncing' = [syncing EXCEPT ![s] = @ - 1]
  /\ out' = [out EXCEPT ![s] = @ \o Part(0, 1, Units)]
  /\ UNCHANGED <<protocol, open, bad, writing, written, torn, direct, faults>>

(* close() tears the writes to the file that are under way.                *)
CloseSink(s) ==
  /\ open[s] = "yes"
  /\ open' = [open EXCEPT ![s] = "no"]
  /\ torn' = torn \cup {<<w, s>> : w \in Sending(s)}
  /\ UNCHANGED <<protocol, bad, writing, written, out, faults, syncing, direct>>

WriteStep(w, s) ==
  \/ Test(w, s) \/ Refused(w, s) \/ BeginSend(w, s) \/ Send(w, s)
  \/ SendFails(w, s) \/ Complete(w, s) \/ CutShort(w, s)
=============================================================================
