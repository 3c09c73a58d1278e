------------------------------ MODULE FilePush ------------------------------
(***************************************************************************)
(* FilePushDevice (src/classes/io/devices/file.cpp, file.h): a file that   *)
(* emits its content as "data" events.                                     *)
(*                                                                         *)
(* resume() starts a chain of tasks: each reads a buffer, emits it, and    *)
(* when the promises of the handlers are fulfilled schedules the next.     *)
(* While the device is paused a chain reschedules itself without reading,  *)
(* a step that changes nothing; only the end of the file or an error ends  *)
(* it.  Chains run on any thread and share the ifstream without a lock: a  *)
(* read takes the position when it begins and stores the next one when it  *)
(* ends, so that two reads at once may return the same buffer.  That the   *)
(* engine fails to make an ArrayBuffer is left out.                        *)
(***************************************************************************)
EXTENDS Naturals, Sequences

CONSTANTS
  Files,        \* the files explored, of "present" and "missing"
  Length,       \* number of buffers in the file
  MaxChains,    \* bound: resumes that start a chain
  MaxReads      \* bound: buffers read in one execution

ASSUME FilesAssumption == Files \subseteq {"present", "missing"}
ASSUME FileBounds == {Length, MaxChains, MaxReads} \subseteq Nat

VARIABLES
  file,         \* what myPath names: a file, or nothing
  myState,      \* "Paused" or "Resumed"
  isOpen,       \* "yes" or "no": myStream.is_open()
  rdstate,      \* the error bits of myStream, of "eof" and "fail"
  tellg,        \* the buffer that the next read returns
  pc,           \* chain -> "none" "queued" "reading" "emitted" "handled" "done"
  at,           \* chain -> the buffer it is reading, or 0
  current,      \* chain -> the number of the read it is emitting
  settled,      \* chain -> "none" "pending" "resolved" "rejected": its promise
  reads,        \* history: the buffers read, in the order of "data"
  ends,         \* history: number of "end" events
  errors        \* history: number of "error" events

stream == <<file, isOpen, rdstate, tellg>>
fileVars == <<stream, myState, pc, at, current, settled, reads, ends, errors>>

Chains == 1..MaxChains

(* The initialisers of the device: the file is opened. *)
Opened ==
  /\ isOpen = IF file = "missing" THEN "no" ELSE "yes"
  /\ rdstate = IF file = "missing" THEN {"fail"} ELSE {}
  /\ tellg = 1
  /\ myState = "Paused"

(* new FilePushDevice(path) makes a device whether there is a file or not. *)
FileInit ==
  /\ file \in Files
  /\ Opened
  /\ pc = [c \in Chains |-> "none"]
  /\ at = [c \in Chains |-> 0]
  /\ current = [c \in Chains |-> 0]
  /\ settled = [c \in Chains |-> "none"]
  /\ reads = << >>
  /\ ends = 0
  /\ errors = 0

-----------------------------------------------------------------------------
(* The methods.  resume() on a resumed device, and pause() on a paused     *)
(* one, only return a promise.                                             *)

Alive(c) == pc[c] \notin {"none", "done"}

(* Mutant: the file is opened whether it is open or not. *)
ResumeReopens(c) ==
  /\ myState = "Paused"
  /\ pc[c] = "none"
  /\ \A d \in 1..(c - 1) : pc[d] # "none"
  /\ isOpen' = "yes" /\ rdstate' = {} /\ tellg' = 1
  /\ myState' = "Resumed"
  /\ pc' = [pc EXCEPT ![c] = "queued"]
  /\ settled' = [settled EXCEPT ![c] = "pending"]
  /\ UNCHANGED <<file, at, current, reads, ends, errors>>

(* resume(): open the file again if it was closed, and start a chain. *)
Resume(c) ==
  /\ myState = "Paused"
  /\ pc[c] = "none"
  /\ \A d \in 1..(c - 1) : pc[d] # "none"
  /\ \/ isOpen = "yes" /\ UNCHANGED stream
     \/ /\ isOpen = "no" /\ file # "missing"
        /\ isOpen' = "yes" /\ rdstate' = {} /\ tellg' = 1
        /\ UNCHANGED file
     \/ /\ isOpen = "no" /\ file = "missing"
        /\ rdstate' = rdstate \cup {"fail"}
        /\ UNCHANGED <<file, isOpen, tellg>>
  /\ myState' = "Resumed"
  /\ pc' = [pc EXCEPT ![c] = "queued"]
  /\ settled' = [settled EXCEPT ![c] = "pending"]
  /\ UNCHANGED <<at, current, reads, ends, errors>>

Pause ==
  /\ myState = "Resumed"
  /\ myState' = "Paused"
  /\ UNCHANGED <<stream, pc, at, current, settled, reads, ends, errors>>

(* reset(): seekg clears the end-of-file bit and then seeks, unless the    *)
(* fail bit is set.  The state of the device does not change.              *)
Reset ==
  /\ \/ /\ rdstate \ {"eof"} = {} /\ isOpen = "yes"
        /\ rdstate' = {} /\ tellg' = 1
     \/ /\ rdstate \ {"eof"} # {} \/ isOpen = "no"
        /\ rdstate' = {"fail"} /\ UNCHANGED tellg
  /\ UNCHANGED <<file, isOpen, myState, pc, at, current, settled, reads, ends,
                 errors>>

(* close(): closing a closed stream sets its fail bit. *)
Close ==
  /\ isOpen' = "no"
  /\ rdstate' = IF isOpen = "yes" THEN rdstate ELSE rdstate \cup {"fail"}
  /\ UNCHANGED <<file, tellg, myState, pc, at, current, settled, reads, ends,
                 errors>>

-----------------------------------------------------------------------------
(* The read handler.                                                       *)

HasData == rdstate = {} /\ isOpen = "yes" /\ tellg <= Length

ReadBegin(c) ==
  /\ pc[c] = "queued" /\ myState = "Resumed"
  /\ HasData
  /\ pc' = [pc EXCEPT ![c] = "reading"]
  /\ at' = [at EXCEPT ![c] = tellg]
  /\ UNCHANGED <<stream, myState, current, settled, reads, ends, errors>>

(* readsome sets no bit; read, which is used when readsome does not know   *)
(* of any data, sets both bits when it comes short.                        *)
ReadEnd(c) ==
  /\ pc[c] = "reading"
  /\ Len(reads) < MaxReads
  /\ tellg' = at[c] + 1
  /\ \/ UNCHANGED rdstate
     \/ /\ at[c] = Length
        /\ rdstate' = {"eof", "fail"}
  /\ reads' = Append(reads, at[c])
  /\ current' = [current EXCEPT ![c] = Len(reads')]
  /\ at' = [at EXCEPT ![c] = 0]
  /\ pc' = [pc EXCEPT ![c] = "emitted"]
  /\ UNCHANGED <<file, isOpen, myState, settled, ends, errors>>

(* Neither call returned anything, at the end of the file. *)
ReadEof(c) ==
  /\ pc[c] = "queued" /\ myState = "Resumed"
  /\ ~HasData
  /\ rdstate' = IF rdstate = {} THEN {"eof", "fail"} ELSE rdstate \cup {"fail"}
  /\ "eof" \in rdstate'
  /\ myState' = "Paused"
  /\ ends' = ends + 1
  /\ settled' = [settled EXCEPT ![c] = "resolved"]
  /\ pc' = [pc EXCEPT ![c] = "done"]
  /\ UNCHANGED <<file, isOpen, tellg, at, current, reads, errors>>

(* Nothing was returned by a stream that has failed otherwise: the task    *)
(* schedules itself again, with nothing changed.                           *)
Stuck == "fail" \in rdstate /\ "eof" \notin rdstate

(* The handlers' promises were fulfilled: on to the next read, *)
AfterData(c) ==
  /\ pc[c] = "handled"
  /\ "eof" \notin rdstate
  /\ pc' = [pc EXCEPT ![c] = "queued"]
  /\ UNCHANGED <<stream, myState, at, current, settled, reads, ends, errors>>

(* Mutant: the end is recognised by a stream without the fail bit. *)
AfterLastDataGood(c) ==
  /\ pc[c] = "handled"
  /\ rdstate = {"eof"}
  /\ ends' = ends + 1
  /\ settled' = [settled EXCEPT ![c] = "resolved"]
  /\ pc' = [pc EXCEPT ![c] = "done"]
  /\ UNCHANGED <<stream, myState, at, current, reads, errors>>

(* or, at the end of the file, "end"; the device stays resumed. *)
AfterLastData(c) ==
  /\ pc[c] = "handled"
  /\ "eof" \in rdstate
  /\ ends' = ends + 1
  /\ settled' = [settled EXCEPT ![c] = "resolved"]
  /\ pc' = [pc EXCEPT ![c] = "done"]
  /\ UNCHANGED <<stream, myState, at, current, reads, errors>>

(* A handler's promise was rejected, while others may still be pending. *)
DataRejected(c) ==
  /\ pc[c] = "emitted"
  /\ myState' = "Paused"
  /\ errors' = errors + 1
  /\ settled' = [settled EXCEPT ![c] = "rejected"]
  /\ pc' = [pc EXCEPT ![c] = "done"]
  /\ UNCHANGED <<stream, at, current, reads, ends>>
=============================================================================
