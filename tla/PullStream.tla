----------------------------- MODULE PullStream -----------------------------
(***************************************************************************)
(* A ReadableStream (readable_stream.js) on a FilePullDevice               *)
(* (include/classes/io/devices/file.h): read(), readSync(), resume() and   *)
(* the filters of the stream, seek() and seekSync() of the device, and     *)
(* close().  read() and process() are tasks of the pool.                   *)
(*                                                                         *)
(* The program awaits a read, a resume or a process before it makes the    *)
(* next one, as every use of pull devices in the repository does; it may   *)
(* close the device at any time.  The file is the characters 1..Length of  *)
(* Text; the device is an ifstream with a position and state bits.         *)
(***************************************************************************)
EXTENDS Filter, FiniteSets

CONSTANTS
  Text,      \* the file: a sequence of characters
  Factors,   \* cells per character of the conversions explored
  Lengths,   \* the lengths a program reads; 0 is read() without a length
  Offsets,   \* the offsets a program seeks to
  BlockSize, \* what resume() reads at a time (8 MB in the code)
  MaxCalls   \* bound: calls of the program

ASSUME PullBounds == /\ {BlockSize, MaxCalls} \subseteq Nat /\ BlockSize > 0
                     /\ Lengths \subseteq Nat /\ Offsets \subseteq Int
ASSUME TextAssumption == Text \in Seq({Text[i] : i \in DOMAIN Text})

VARIABLES
  pos,       \* the stream's position
  bits,      \* "good", "eof" (eofbit and failbit) or "fail"
  open,      \* myStream.is_open()
  protect,   \* JSValueProtect minus JSValueUnprotect of the device
  leaks,     \* rejections that left the device protected
  filter,    \* the EncodingConversionFilter of the stream
  op,        \* what the program awaits
  told,      \* the position the program knows of: what it sought and read
  seen,      \* characters given to "data" listeners by the resume
  outcome,   \* how the last awaited call ended
  calls

device == <<pos, bits, open>>
vars == <<device, protect, leaks, filter, op, told, seen, outcome, calls>>

Length == Len(Text)
Unknown == -1
Idle == [kind |-> "idle"]
NoOutcome == [kind |-> "none"]

Init ==
  /\ pos = 0 /\ bits = "good" /\ open = TRUE
  /\ protect = 0 /\ leaks = 0
  /\ filter \in {NewFilter(f) : f \in Factors}
  /\ op = Idle
  /\ told = 0
  /\ seen = <<>>
  /\ outcome = NoOutcome
  /\ calls = 0

-----------------------------------------------------------------------------
(* The device. *)

deviceReady == bits = "good"
eof == bits = "eof"

(* What n characters from the position are: fewer at the end, none on a    *)
(* stream that is closed.                                                  *)
Bytes(n) ==
  IF ~ open THEN <<>>
  ELSE SubSeq(Text, pos + 1, IF pos + n < Length THEN pos + n ELSE Length)

(* deviceRead(): a short read ends the stream for good. *)
deviceRead(n) ==
  /\ pos' = pos + Len(Bytes(n))
  /\ bits' = IF Len(Bytes(n)) < n THEN "eof" ELSE bits

(* deviceBytesAvailable(): on a stream that is closed or not good the      *)
(* seeks of sourceSize() fail, tellg() is -1 and the difference is 1.      *)
deviceBytesAvailable == IF deviceReady /\ open THEN Length - pos ELSE 1

(* deviceReady() in the task of read(want), after those seeks.             *)
ReadyFor(want) == deviceReady /\ (want = 0 => open)

(* Mutant: every seek is from the beginning.                               *)
TargetBegin(offset, from) == offset

(* Where a seek goes. *)
Target(offset, from) ==
  offset + (CASE from = "begin" -> 0 [] from = "current" -> pos [] from = "end" -> Length)

(* deviceSeek(): the stream may go past the end, not before the beginning. *)
deviceSeek(offset, from) ==
  IF open /\ Target(offset, from) >= 0
  THEN pos' = Target(offset, from) /\ UNCHANGED bits
  ELSE bits' = "fail" /\ UNCHANGED pos

-----------------------------------------------------------------------------
Call ==
  /\ calls < MaxCalls
  /\ calls' = calls + 1

(* stream.read(n): the device protects itself and schedules the task.      *)
(* read() of a program that has sought past the end asks for a buffer of   *)
(* negative size and ends the process: not among these programs.           *)
Read(n) ==
  /\ op = Idle /\ Call
  /\ n = 0 => pos <= Length
  /\ op' = [kind |-> "read", want |-> n]
  /\ protect' = protect + 1
  /\ outcome' = NoOutcome
  /\ UNCHANGED <<device, leaks, filter, told, seen>>

(* What the promise of the device is rejected with reaches the program, or *)
(* the loop of resume(): "error", then "end".                              *)
Rejected ==
  /\ outcome' = [kind |-> op.kind, result |-> "rejected"]
  /\ op' = Idle

(* Mutant: a short block is not given to the listeners.                    *)
ArrivedDropsLast(data) ==
  IF op.kind = "resume"
  THEN /\ seen' = IF Len(data) < BlockSize THEN seen ELSE seen \o data
       /\ op' = [op EXCEPT !.reading = FALSE]
       /\ UNCHANGED outcome
  ELSE /\ op' = [kind |-> "process", at |-> told, data |-> data, call |-> ProcessCall(data)]
       /\ UNCHANGED <<seen, outcome>>

(* A buffer goes through the filters, or to the listeners of "data".       *)
Arrived(data) ==
  IF op.kind = "resume"
  THEN /\ seen' = seen \o data
       /\ op' = [op EXCEPT !.reading = FALSE]
       /\ UNCHANGED outcome
  ELSE /\ op' = [kind |-> "process", at |-> told, data |-> data, call |-> ProcessCall(data)]
       /\ UNCHANGED <<seen, outcome>>

Reading == op.kind = "read" \/ (op.kind = "resume" /\ op.reading)

(* The program's count of where it is after n more characters.             *)
Told(n) == IF told = Unknown THEN Unknown ELSE told + n

(* Mutant: a device that is not ready is tried again, as write() does.     *)
ReadTaskRetries ==
  LET n == IF op.want > 0 THEN op.want ELSE deviceBytesAvailable
  IN  /\ Reading
      /\ UNCHANGED <<open, filter, calls>>
      /\ \/ /\ n > 0 /\ ReadyFor(op.want)
            /\ deviceRead(n)
            /\ Arrived(Bytes(n))
            /\ told' = Told(Len(Bytes(n)))
            /\ protect' = protect - 1
            /\ UNCHANGED leaks
         \/ /\ n = 0
            /\ Rejected
            /\ protect' = protect - 1
            /\ UNCHANGED <<pos, bits, told, seen, leaks>>

(* Mutant: a rejected read unprotects the device twice.                    *)
ReadTaskTwice ==
  LET n == IF op.want > 0 THEN op.want ELSE deviceBytesAvailable
  IN  /\ Reading
      /\ UNCHANGED <<open, filter, calls>>
      /\ \/ /\ n > 0 /\ ReadyFor(op.want)
            /\ deviceRead(n)
            /\ Arrived(Bytes(n))
            /\ told' = Told(Len(Bytes(n)))
            /\ protect' = protect - 1
            /\ UNCHANGED leaks
         \/ /\ ~ (n > 0 /\ ReadyFor(op.want))
            /\ Rejected
            /\ protect' = protect - 2
            /\ UNCHANGED <<pos, bits, told, seen, leaks>>

(* The task of read().  Nothing is available at the end of the file: an    *)
(* exception rejects.  A device that is not ready rejects and returns,     *)
(* without freeing the buffer or unprotecting the device.  The seeks of    *)
(* sourceSize() clear eofbit even when they fail.                          *)
ReadTask ==
  LET n == IF op.want > 0 THEN op.want ELSE deviceBytesAvailable
  IN  /\ Reading
      /\ UNCHANGED <<open, filter, calls>>
      /\ \/ /\ n > 0 /\ ReadyFor(op.want)
            /\ deviceRead(n)
            /\ Arrived(Bytes(n))
            /\ told' = Told(Len(Bytes(n)))
            /\ protect' = protect - 1
            /\ UNCHANGED leaks
         \/ /\ n = 0
            /\ Rejected
            /\ protect' = protect - 1
            /\ UNCHANGED <<pos, bits, told, seen, leaks>>
         \/ /\ n > 0 /\ ~ ReadyFor(op.want)
            /\ Rejected
            /\ bits' = IF op.want = 0 THEN "fail" ELSE bits
            /\ leaks' = leaks + 1
            /\ UNCHANGED <<pos, told, seen, protect>>

(* The conversion's task, again and again until it is done; then the text  *)
(* of what it made, by UTF8StringFilter.                                   *)
FilterTask ==
  /\ op.kind = "process"
  /\ LET r == HandlerStep(filter, op.call)
     IN  /\ filter' = r.filter
         /\ IF r.call.done
            THEN /\ op' = Idle
                 /\ outcome' = [kind |-> "process", at |-> op.at, in |-> op.data, result |-> Result(r.call),
                                text |-> CString(Result(r.call))]
            ELSE op' = [op EXCEPT !.call = r.call] /\ UNCHANGED outcome
  /\ UNCHANGED <<device, protect, leaks, told, seen, calls>>

(* filter.process(null). *)
ProcessNull ==
  /\ op = Idle /\ Call
  /\ filter' = ResetFilter(filter)
  /\ UNCHANGED <<device, protect, leaks, op, told, seen, outcome>>

(* device.readSync(n). *)
ReadSync(n) ==
  /\ op = Idle /\ Call /\ n > 0
  /\ IF deviceReady
     THEN /\ deviceRead(n)
          /\ outcome' = [kind |-> "readSync", at |-> told, in |-> Bytes(n)]
          /\ told' = Told(Len(Bytes(n)))
     ELSE /\ outcome' = [kind |-> "readSync", result |-> "rejected"]
          /\ UNCHANGED <<pos, bits, told>>
  /\ UNCHANGED <<open, protect, leaks, filter, op, seen>>

(* readSync(n) of a stream with a UTF8StringFilter.  (An encoding filter   *)
(* has no processSync.)                                                    *)
ReadTextSync(n) ==
  /\ op = Idle /\ Call /\ n > 0
  /\ IF deviceReady
     THEN /\ deviceRead(n)
          /\ \E text \in ProcessSync(Converted(Bytes(n), 1)) :
               outcome' = [kind |-> "readSync", at |-> told, in |-> Bytes(n), text |-> text]
          /\ told' = Told(Len(Bytes(n)))
     ELSE /\ outcome' = [kind |-> "readSync", result |-> "rejected"]
          /\ UNCHANGED <<pos, bits, told>>
  /\ UNCHANGED <<open, protect, leaks, filter, op, seen>>

-----------------------------------------------------------------------------
(* seek(offset, from) seeks in the call itself and resolves with tellg().  *)
Seek(offset, from) ==
  /\ op = Idle /\ Call
  /\ IF deviceReady
     THEN /\ deviceSeek(offset, from)
          /\ told' = IF bits' # "good" THEN Unknown
                     ELSE CASE from = "begin" -> offset
                            [] from = "current" -> Told(offset)
                            [] from = "end" -> Length + offset
     ELSE UNCHANGED <<pos, bits, told>>
  /\ UNCHANGED <<open, protect, leaks, filter, op, seen, outcome>>

(* seekSync(offset, from) takes its arguments the wrong way round: the     *)
(* offset it seeks to, from the beginning, is NaN cast to an integer, 0 or *)
(* the least one, and the device fails.                                    *)
SeekSync(offset, from) ==
  /\ op = Idle /\ Call
  /\ IF deviceReady
     THEN /\ \/ deviceSeek(0, "begin")
             \/ deviceSeek(- Length - 1, "begin")
          /\ told' = IF bits' = "good" THEN 0 ELSE Unknown
     ELSE UNCHANGED <<pos, bits, told>>
  /\ UNCHANGED <<open, protect, leaks, filter, op, seen, outcome>>

(* close(), also while a read is on its way. *)
Close ==
  /\ open /\ Call
  /\ open' = FALSE
  /\ UNCHANGED <<pos, bits, protect, leaks, filter, op, told, seen, outcome>>

-----------------------------------------------------------------------------
(* resume() of a stream on a pull device. *)
Resume ==
  /\ op = Idle /\ Call
  /\ op' = [kind |-> "resume", want |-> BlockSize, from |-> IF deviceReady THEN pos ELSE Length, reading |-> FALSE]
  /\ seen' = <<>>
  /\ outcome' = NoOutcome
  /\ UNCHANGED <<device, protect, leaks, filter, told>>

(* Its loop, between two reads: another one, or "end". *)
Loop ==
  /\ op.kind = "resume" /\ ~ op.reading
  /\ IF ~ eof
     THEN /\ op' = [op EXCEPT !.reading = TRUE]
          /\ protect' = protect + 1
          /\ UNCHANGED outcome
     ELSE /\ outcome' = [kind |-> "resume", from |-> op.from, result |-> "end"]
          /\ op' = Idle
          /\ UNCHANGED protect
  /\ UNCHANGED <<device, leaks, filter, told, seen, calls>>

TaskStep == ReadTask \/ FilterTask \/ Loop

ProgramStep ==
  \/ \E n \in Lengths : Read(n) \/ ReadSync(n) \/ ReadTextSync(n)
  \/ \E o \in Offsets, f \in {"begin", "current", "end"} : Seek(o, f) \/ SeekSync(o, f)
  \/ Close \/ Resume \/ ProcessNull

Next == TaskStep \/ ProgramStep

Spec == Init /\ [][Next]_vars

(* The pool runs the tasks it is given. *)
FairSpec == Spec /\ WF_vars(TaskStep)
-----------------------------------------------------------------------------
TypeOK ==
  /\ pos \in Nat /\ bits \in {"good", "eof", "fail"} /\ open \in BOOLEAN
  /\ protect \in Int /\ {leaks, calls} \subseteq Nat
  /\ op.kind \in {"idle", "read", "process", "resume"}
  /\ told \in Nat \cup {Unknown}

(* A buffer that was read holds the characters at the place the program    *)
(* has counted to, through reads of every kind, seeks, ends of file and    *)
(* failed calls (deviceRead, deviceSeek, sourceSize, which moves to the    *)
(* end and back).                                                          *)
ReadsFollowCursor ==
  outcome.kind \in {"process", "readSync"} /\ "in" \in DOMAIN outcome /\ outcome.at # Unknown =>
    \A i \in DOMAIN outcome.in :
      outcome.at + i \in 1..Length /\ outcome.in[i] = Text[outcome.at + i]

(* A resume() that ends without "error" has given its listeners the rest   *)
(* of the file, also when that is nothing or a whole number of blocks,     *)
(* unless the program closed the device (resume of ReadableStream).        *)
ResumeWhole ==
  outcome.kind = "resume" /\ outcome.result = "end" /\ open =>
    seen = SubSeq(Text, outcome.from + 1, Length)

(* The device is protected from the collector while a read is scheduled    *)
(* and unprotected when it has ended, once; only reads of a device that    *)
(* was not ready leave it protected (the early return of read()).  The     *)
(* variables have their types.                                             *)
ReadProtected == TypeOK /\ protect = leaks + (IF Reading THEN 1 ELSE 0)

(* Every awaited call ends, with a result or an error: nothing waits for a *)
(* device to become ready.                                                 *)
CallsReturn == op # Idle ~> op = Idle

(* A conversion that keeps the length of what it converts returns the      *)
(* converted buffer, call after call, and the text of a buffer without a   *)
(* NUL is all of it (process of Filter and of UTF8StringFilter).           *)
SameSizeConverted ==
  outcome.kind = "process" /\ "in" \in DOMAIN outcome /\ filter.factor = 1 =>
    /\ outcome.result = Converted(outcome.in, 1)
    /\ (\A i \in DOMAIN outcome.in : outcome.in[i] # NUL) => outcome.text = outcome.result

(* process() returns "a new buffer containing the output data"             *)
(* (docs/api/io.md), whatever the length of that data.                     *)
ConvertedWhole ==
  outcome.kind = "process" /\ "in" \in DOMAIN outcome =>
    outcome.result = Converted(outcome.in, filter.factor)
=============================================================================
