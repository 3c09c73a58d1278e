--------------------------- MODULE PullStreamProof ---------------------------
(***************************************************************************)
(* Proofs about streams on pull devices, for every file, block size,       *)
(* lengths, offsets and number of calls.                                   *)
(***************************************************************************)
EXTENDS PullStream, SequenceTheorems, TLAPS

Chars == {Text[i] : i \in DOMAIN Text}

-----------------------------------------------------------------------------
(* The fields that the records have. *)
Shapes ==
  /\ DOMAIN filter = {"factor", "pending", "myPayloadId"}
  /\ op.kind = "idle" => op = Idle
  /\ op.kind = "read" => op = [kind |-> "read", want |-> op.want] /\ op.want \in Nat
  /\ op.kind = "resume" =>
       /\ op = [kind |-> "resume", want |-> BlockSize, from |-> op.from, reading |-> op.reading]
       /\ op.from \in Nat /\ op.reading \in BOOLEAN
  /\ op.kind = "process" =>
       op = [kind |-> "process", at |-> op.at, data |-> op.data, call |-> op.call]
  /\ op.kind = "resume" => outcome = NoOutcome

(* A buffer is what the file holds after a position.                       *)
IsText(data, at) ==
  /\ data \in Seq(Chars)
  /\ at # Unknown =>
       \A i \in DOMAIN data : at + i \in 1..Length /\ data[i] = Text[at + i]

(* While the device can be read the program's count is the position.       *)
Cursor ==
  /\ bits = "good" => told = pos
  /\ op.kind = "process" => IsText(op.data, op.at)
  /\ outcome.kind \in {"process", "readSync"} /\ "in" \in DOMAIN outcome =>
       IsText(outcome.in, outcome.at)

(* What a resume has given to its listeners so far.                        *)
Progress ==
  /\ op.kind = "resume" /\ open =>
       /\ bits = "good" => \/ op.from <= pos /\ pos <= Length /\ seen = SubSeq(Text, op.from + 1, pos)
                           \/ op.from = pos /\ pos > Length /\ seen = << >>
       /\ bits = "eof" => seen = SubSeq(Text, op.from + 1, Length)
  /\ outcome.kind = "resume" /\ outcome.result = "end" /\ open =>
       seen = SubSeq(Text, outcome.from + 1, Length)

(* A conversion that keeps the length has nothing pending and is done in   *)
(* one run.                                                                *)
SameSize ==
  /\ filter.factor = 1 =>
       filter.pending = << >> /\ (op.kind = "process" => op.call = ProcessCall(op.data))
  /\ SameSizeConverted

PullInv == ReadProtected /\ Shapes /\ Cursor /\ Progress /\ SameSize

-----------------------------------------------------------------------------
(* What is read at the position, from a stream that is open or closed. *)
LEMMA BytesIs ==
  ASSUME TypeOK, NEW n \in Nat
  PROVE  /\ Bytes(n) \in Seq(Chars) /\ Len(Bytes(n)) \in Nat
         /\ IsText(Bytes(n), pos)
         /\ open /\ pos > Length => Bytes(n) = << >>
         /\ open /\ pos <= Length =>
              /\ Bytes(n) = SubSeq(Text, pos + 1, pos + Len(Bytes(n)))
              /\ pos + Len(Bytes(n)) <= Length
              /\ Len(Bytes(n)) < n => pos + Len(Bytes(n)) = Length
<1>0. /\ Text \in Seq(Chars) /\ Length \in Nat /\ DOMAIN Text = 1..Length
      /\ \A i \in 1..Length : Text[i] \in Chars
  BY TextAssumption, LenProperties DEF Chars, Length
<1>1. CASE ~ open
  BY <1>0, <1>1 DEF Bytes, IsText
<1>2. CASE open
  <2>. DEFINE last == IF pos + n < Length THEN pos + n ELSE Length
  <2>1. /\ pos \in Nat /\ last \in Nat /\ last <= Length
        /\ \A i \in (pos + 1)..last : Text[i] \in Chars
    BY <1>0 DEF TypeOK
  <2>2. Bytes(n) = SubSeq(Text, pos + 1, last)
    BY <1>2 DEF Bytes
  <2>. HIDE DEF last
  <2>3. /\ Bytes(n) \in Seq(Chars)
        /\ Len(Bytes(n)) = IF pos + 1 <= last THEN last - pos ELSE 0
        /\ \A i \in 1..(last - pos) : Bytes(n)[i] = Text[pos + i]
    <3>1. pos + 1 \in Int /\ last \in Int /\ last - (pos + 1) + 1 = last - pos
      BY <2>1
    <3>2. \A i \in 1..(last - pos) : (pos + 1) + i - 1 = pos + i
      BY <2>1
    <3>. QED
      BY <2>1, <2>2, <3>1, <3>2, SubSeqProperties
  <2>4. IsText(Bytes(n), pos)
    <3>1. DOMAIN Bytes(n) = 1..Len(Bytes(n))
      BY <2>3, LenProperties
    <3>. QED
      BY <2>1, <2>3, <3>1, <1>0 DEF IsText
  <2>5. pos > Length => Bytes(n) = << >>
    BY <2>1, <2>2, <1>0, SubSeqEmpty
  <2>6. pos <= Length => pos + Len(Bytes(n)) = last
    BY <1>0, <2>1, <2>3 DEF last
  <2>. QED
    BY <1>0, <1>2, <2>1, <2>2, <2>3, <2>4, <2>5, <2>6 DEF last
<1>. QED
  BY <1>1, <1>2 DEF TypeOK

(* A conversion that keeps the length gives a cell for each character. *)
LEMMA ConvertedIs ==
  ASSUME NEW in \in Seq(Chars)
  PROVE  /\ Converted(in, 1) \in Seq(Chars \X {1})
         /\ Len(Converted(in, 1)) = Len(in)
         /\ \A i \in 1..Len(in) : Converted(in, 1)[i] = <<in[i], 1>>
<1>1. Len(in) \in Nat /\ Len(in) * 1 = Len(in) /\ \A i \in 1..Len(in) : in[i] \in Chars
  BY LenProperties
<1>2. \A i \in 1..Len(in) : ((i - 1) \div 1) + 1 = i /\ ((i - 1) % 1) + 1 = 1
  BY <1>1
<1>3. Converted(in, 1) = [i \in 1..Len(in) |-> <<in[i], 1>>]
  BY <1>1, <1>2 DEF Converted
<1>. QED
  BY <1>1, <1>3

(* Such a conversion is done in one run of the handler, and the text of    *)
(* what it made is all of it unless there is a NUL in it.                  *)
LEMMA OneRun ==
  ASSUME NEW f, DOMAIN f = {"factor", "pending", "myPayloadId"},
         f.factor = 1, f.pending = << >>, NEW in \in Seq(Chars)
  PROVE  LET r == HandlerStep(f, ProcessCall(in)) IN
         /\ r.filter.pending = << >>
         /\ r.call.done = TRUE
         /\ Result(r.call) = Converted(in, 1)
<1>. DEFINE cells == Converted(in, 1)
<1>1. /\ cells \in Seq(Chars \X {1}) /\ Len(cells) = Len(in) /\ Len(in) \in Nat
  BY ConvertedIs, LenProperties
<1>. HIDE DEF cells
<1>2. << >> \o cells = cells /\ SubSeq(in, 1, Len(in)) = in /\ SubSeq(cells, 1, Len(cells)) = cells
  BY <1>1, ConcatEmptySeq, SubSeqFull
<1>3. SubSeq(cells, Len(cells) + 1, Len(cells)) = << >>
  BY <1>1, SubSeqEmpty
<1>. DEFINE c == ProcessCall(in)
<1>4. /\ DOMAIN c = {"in", "out", "outLength", "outRemaining", "done"}
      /\ c.in = in /\ c.out = << >> /\ c.outLength = Len(in) /\ c.outRemaining = Len(in)
  BY DEF ProcessCall
<1>. HIDE DEF c
<1>5. ProcessBuffer(f, c) =
        [filter |-> [f EXCEPT !.pending = << >>, !.myPayloadId = IF @ > 0 THEN @ ELSE 1],
         call |-> [c EXCEPT !.in = SubSeq(in, Len(in) + 1, Len(in)), !.out = cells,
                            !.outRemaining = c.outRemaining - Len(cells)],
         needed |-> 0]
  <2>1. (IF f.myPayloadId = 0 THEN << >> ELSE f.pending) = << >>
    OBVIOUS
  <2>2. Converted(c.in, f.factor) = cells /\ Converted(SubSeq(c.in, 1, Len(c.in)), f.factor) = cells
    BY <1>2, <1>4 DEF cells
  <2>3. ~ (Len(cells) > c.outRemaining)
    BY <1>1, <1>4
  <2>. QED
    BY <1>1, <1>2, <1>3, <1>4, <2>1, <2>2, <2>3 DEF ProcessBuffer
<1>6. /\ HandlerStep(f, c).filter.pending = << >>
      /\ HandlerStep(f, c).call.done = TRUE
      /\ HandlerStep(f, c).call.out = cells
      /\ HandlerStep(f, c).call.outLength = Len(in)
  <2>. DEFINE p == ProcessBuffer(f, c)
  <2>0. /\ p.filter = [f EXCEPT !.pending = << >>, !.myPayloadId = IF @ > 0 THEN @ ELSE 1]
        /\ p.needed = 0
    BY <1>5
  <2>1. p.filter.pending = << >> /\ p.needed = 0
    <3>1. [f EXCEPT !.pending = << >>, !.myPayloadId = IF @ > 0 THEN @ ELSE 1].pending = << >>
      OBVIOUS
    <3>. QED
      BY <2>0, <3>1
  <2>2. p.call = [c EXCEPT !.in = SubSeq(in, Len(in) + 1, Len(in)), !.out = cells,
                           !.outRemaining = c.outRemaining - Len(cells)]
    BY <1>5
  <2>3. /\ DOMAIN p.call = {"in", "out", "outLength", "outRemaining", "done"}
        /\ p.call.out = cells /\ p.call.outLength = Len(in)
    BY <1>4, <2>2
  <2>. HIDE DEF p
  <2>4. HandlerStep(f, c) = [filter |-> p.filter, call |-> [p.call EXCEPT !.done = TRUE]]
    BY <2>1 DEF HandlerStep, p
  <2>. QED
    BY <2>1, <2>3, <2>4
<1>7. cells = [i \in 1..Len(cells) |-> cells[i]]
  BY <1>1, LenProperties
<1>8. Result(HandlerStep(f, c).call) = cells
  BY <1>1, <1>6, <1>7 DEF Result
<1>. QED
  BY <1>6, <1>8 DEF cells, c

(* The text of cells without a NUL. *)
LEMMA WholeText ==
  ASSUME NEW in \in Seq(Chars), \A i \in DOMAIN in : in[i] # NUL
  PROVE  CString(Converted(in, 1)) = Converted(in, 1)
<1>1. DOMAIN Converted(in, 1) = 1..Len(in) /\ DOMAIN in = 1..Len(in)
  BY ConvertedIs, LenProperties
<1>2. \A i \in 1..Len(in) : Converted(in, 1)[i][1] # NUL
  BY <1>1, ConvertedIs
<1>. QED
  BY <1>1, <1>2 DEF CString

(* The length of the file. *)
LEMMA LengthIs == Length \in Nat
  BY TextAssumption, LenProperties DEF Length

(* A run of the handler keeps the fields of the filter and its factor. *)
LEMMA FilterKept ==
  ASSUME NEW f, DOMAIN f = {"factor", "pending", "myPayloadId"}, NEW c
  PROVE  /\ DOMAIN HandlerStep(f, c).filter = {"factor", "pending", "myPayloadId"}
         /\ HandlerStep(f, c).filter.factor = f.factor
<1>1. HandlerStep(f, c).filter = ProcessBuffer(f, c).filter
  BY DEF HandlerStep
<1>2. PICK x, y : ProcessBuffer(f, c).filter = [f EXCEPT !.pending = x, !.myPayloadId = y]
  BY DEF ProcessBuffer
<1>. QED
  BY <1>1, <1>2

-----------------------------------------------------------------------------
(* read() of the stream. *)
LEMMA ReadKeeps ==
  ASSUME PullInv, NEW n \in Lengths, Read(n)
  PROVE  PullInv'
<1>0. ReadProtected /\ Shapes /\ Cursor /\ Progress /\ SameSize /\ TypeOK
  BY DEF PullInv, ReadProtected
<1>1. ReadProtected'
  <2>1. TypeOK'
    BY <1>0, PullBounds, LengthIs
    DEF Read, Call, TypeOK, Cursor, Shapes, Unknown, device, Idle
  <2>2. Reading = FALSE
    BY <1>0 DEF Read, Call, Reading, Shapes, Idle
  <2>3. Reading' = TRUE
    BY <1>0, <2>2 DEF Read, Call, Reading, Shapes, Idle
  <2>. QED
    BY <1>0, <2>1, <2>2, <2>3 DEF Read, Call, ReadProtected, TypeOK
<1>2. Shapes'
  BY <1>0, PullBounds, LengthIs
  DEF Read, Call, Shapes, Idle, NoOutcome, Reading, TypeOK, Unknown, device
<1>3. Cursor'
  BY <1>0, PullBounds, LengthIs
  DEF Read, Call, Cursor, IsText, Idle, NoOutcome, Shapes, Reading, TypeOK,
    Unknown, device
<1>4. Progress'
  BY <1>0, PullBounds, LengthIs
  DEF Read, Call, Progress, Idle, NoOutcome, Shapes, Reading, TypeOK,
    Unknown, device
<1>5. SameSize'
  BY <1>0, PullBounds, LengthIs
  DEF Read, Call, SameSize, SameSizeConverted, Idle, NoOutcome, Shapes,
    Reading, TypeOK, Unknown, device
<1>. QED
  BY <1>1, <1>2, <1>3, <1>4, <1>5 DEF PullInv

(* A run of the conversion. *)
LEMMA FilterTaskKeeps ==
  ASSUME PullInv, FilterTask
  PROVE  PullInv'
<1>0. ReadProtected /\ Shapes /\ Cursor /\ Progress /\ SameSize /\ TypeOK
  BY DEF PullInv, ReadProtected
<1>. DEFINE r == HandlerStep(filter, op.call)
<1>a. /\ op.kind = "process" /\ Reading = FALSE
      /\ op = [kind |-> "process", at |-> op.at, data |-> op.data, call |-> op.call]
      /\ filter' = r.filter /\ UNCHANGED <<device, protect, leaks, told, seen, calls>>
  BY <1>0 DEF FilterTask, Shapes, Reading
<1>b. DOMAIN filter' = {"factor", "pending", "myPayloadId"} /\ filter'.factor = filter.factor
  BY <1>0, <1>a, FilterKept DEF Shapes
<1>c. \/ /\ r.call.done /\ op' = Idle
         /\ outcome' = [kind |-> "process", at |-> op.at, in |-> op.data, result |-> Result(r.call),
                        text |-> CString(Result(r.call))]
      \/ /\ ~ r.call.done /\ UNCHANGED outcome
         /\ op' = [kind |-> "process", at |-> op.at, data |-> op.data, call |-> r.call]
  BY <1>a DEF FilterTask
<1>d. filter.factor = 1 => /\ r.filter.pending = << >> /\ r.call.done = TRUE
                           /\ Result(r.call) = Converted(op.data, 1)
  <2>1. SUFFICES ASSUME filter.factor = 1
                 PROVE  /\ r.filter.pending = << >> /\ r.call.done = TRUE
                        /\ Result(r.call) = Converted(op.data, 1)
    OBVIOUS
  <2>2. /\ DOMAIN filter = {"factor", "pending", "myPayloadId"} /\ filter.pending = << >>
        /\ op.data \in Seq(Chars) /\ op.call = ProcessCall(op.data)
    BY <1>0, <1>a, <2>1 DEF Shapes, SameSize, Cursor, IsText
  <2>3. /\ HandlerStep(filter, ProcessCall(op.data)).filter.pending = << >>
        /\ HandlerStep(filter, ProcessCall(op.data)).call.done = TRUE
        /\ Result(HandlerStep(filter, ProcessCall(op.data)).call) = Converted(op.data, 1)
    BY <2>1, <2>2, OneRun
  <2>. QED
    BY <2>2, <2>3
<1>. HIDE DEF r
<1>1. ReadProtected'
  <2>1. TypeOK'
    BY <1>0, <1>a, <1>c DEF TypeOK, device, Idle
  <2>2. Reading' = FALSE
    BY <1>c DEF Reading, Idle
  <2>. QED
    BY <1>0, <1>a, <2>1, <2>2 DEF ReadProtected
<1>2. Shapes'
  BY <1>0, <1>a, <1>b, <1>c DEF Shapes, Idle, NoOutcome, TypeOK
<1>3. Cursor'
  BY <1>0, <1>a, <1>c DEF Cursor, Idle, device
<1>4. Progress'
  BY <1>0, <1>a, <1>c DEF Progress, Idle, device
<1>5. SameSize'
  <2>1. CASE filter.factor # 1
    BY <1>b, <2>1 DEF SameSize, SameSizeConverted
  <2>2. CASE filter.factor = 1
    <3>1. /\ op' = Idle /\ outcome'.in = op.data
          /\ outcome'.result = Converted(op.data, 1) /\ outcome'.text = CString(Converted(op.data, 1))
      BY <1>c, <1>d, <2>2
    <3>2. (\A i \in DOMAIN op.data : op.data[i] # NUL) =>
            CString(Converted(op.data, 1)) = Converted(op.data, 1)
      BY <1>0, <1>a, WholeText DEF Cursor, IsText
    <3>. QED
      BY <1>a, <1>d, <2>2, <3>1, <3>2 DEF SameSize, SameSizeConverted, Idle
  <2>. QED
    BY <2>1, <2>2
<1>. QED
  BY <1>1, <1>2, <1>3, <1>4, <1>5 DEF PullInv

(* process(null). *)
LEMMA ProcessNullKeeps ==
  ASSUME PullInv, ProcessNull
  PROVE  PullInv'
<1>0. ReadProtected /\ Shapes /\ Cursor /\ Progress /\ SameSize /\ TypeOK
  BY DEF PullInv, ReadProtected
<1>1. ReadProtected'
  BY <1>0, PullBounds, LengthIs
  DEF ProcessNull, Call, ResetFilter, NewFilter, ReadProtected, TypeOK,
    Reading, Shapes, Unknown, device
<1>2. Shapes'
  BY <1>0, PullBounds, LengthIs
  DEF ProcessNull, Call, ResetFilter, NewFilter, Shapes, Idle, NoOutcome,
    Reading, TypeOK, Unknown, device
<1>3. Cursor'
  BY <1>0, PullBounds, LengthIs
  DEF ProcessNull, Call, ResetFilter, NewFilter, Cursor, IsText, Idle,
    NoOutcome, Shapes, Reading, TypeOK, Unknown, device
<1>4. Progress'
  BY <1>0, PullBounds, LengthIs
  DEF ProcessNull, Call, ResetFilter, NewFilter, Progress, Idle, NoOutcome,
    Shapes, Reading, TypeOK, Unknown, device
<1>5. SameSize'
  BY <1>0, PullBounds, LengthIs
  DEF ProcessNull, Call, ResetFilter, NewFilter, SameSize,
    SameSizeConverted, Idle, NoOutcome, Shapes, Reading, TypeOK, Unknown,
    device
<1>. QED
  BY <1>1, <1>2, <1>3, <1>4, <1>5 DEF PullInv

(* readSync() of the device. *)
LEMMA ReadSyncKeeps ==
  ASSUME PullInv, NEW n \in Lengths, ReadSync(n)
  PROVE  PullInv'
<1>0. ReadProtected /\ Shapes /\ Cursor /\ Progress /\ SameSize /\ TypeOK
  BY DEF PullInv, ReadProtected
<1>b. /\ Bytes(n) \in Seq(Chars) /\ Len(Bytes(n)) \in Nat
      /\ IsText(Bytes(n), pos)
  BY <1>0, BytesIs, PullBounds
<1>1. ReadProtected'
  <2>1. TypeOK'
    BY <1>0, <1>b, PullBounds, LengthIs, SMTT(30)
    DEF ReadSync, Call, deviceReady, deviceRead, Told, TypeOK, Cursor, Shapes, Unknown, device, Idle
  <2>2. Reading = FALSE
    BY <1>0 DEF ReadSync, Call, deviceReady, deviceRead, Told, Reading, Shapes, Idle
  <2>3. Reading' = FALSE
    BY <1>0, <1>b, <2>2 DEF ReadSync, Call, deviceReady, deviceRead, Told, Reading, Shapes, Idle
  <2>. QED
    BY <1>0, <1>b, <2>1, <2>2, <2>3 DEF ReadSync, Call, deviceReady, deviceRead, Told, ReadProtected, TypeOK
<1>2. Shapes'
  BY <1>0, <1>b, PullBounds, LengthIs
  DEF ReadSync, Call, deviceReady, deviceRead, Told, Shapes, Idle,
    NoOutcome, Reading, TypeOK, Unknown, device
<1>3. Cursor'
  <2>1. CASE bits = "good"
    <3>1. /\ told = pos /\ told' = told + Len(Bytes(n)) /\ pos' = pos + Len(Bytes(n))
          /\ outcome'.kind = "readSync" /\ outcome'.at = told /\ outcome'.in = Bytes(n) /\ op' = op
      BY <1>0, <1>b, <2>1 DEF ReadSync, deviceReady, deviceRead, Told, Cursor, TypeOK, Unknown
    <3>. QED
      BY <1>0, <1>b, <3>1 DEF Cursor, IsText, TypeOK
  <2>2. CASE bits # "good"
    <3>1. /\ UNCHANGED <<pos, bits, told, op>>
          /\ outcome' = [kind |-> "readSync", result |-> "rejected"]
      BY <2>2 DEF ReadSync, deviceReady
    <3>. QED
      BY <1>0, <3>1 DEF Cursor
  <2>. QED
    BY <2>1, <2>2
<1>4. Progress'
  BY <1>0, <1>b, PullBounds, LengthIs
  DEF ReadSync, Call, deviceReady, deviceRead, Told, Progress, Idle,
    NoOutcome, Shapes, Reading, TypeOK, Unknown, device
<1>5. SameSize'
  BY <1>0, <1>b, PullBounds, LengthIs
  DEF ReadSync, Call, deviceReady, deviceRead, Told, SameSize,
    SameSizeConverted, Idle, NoOutcome, Shapes, Reading, TypeOK, Unknown,
    device
<1>. QED
  BY <1>1, <1>2, <1>3, <1>4, <1>5 DEF PullInv

(* readSync() of a stream with a UTF8StringFilter. *)
LEMMA ReadTextSyncKeeps ==
  ASSUME PullInv, NEW n \in Lengths, ReadTextSync(n)
  PROVE  PullInv'
<1>0. ReadProtected /\ Shapes /\ Cursor /\ Progress /\ SameSize /\ TypeOK
  BY DEF PullInv, ReadProtected
<1>b. /\ Bytes(n) \in Seq(Chars) /\ Len(Bytes(n)) \in Nat
      /\ IsText(Bytes(n), pos)
  BY <1>0, BytesIs, PullBounds
<1>1. ReadProtected'
  <2>1. TypeOK'
    BY <1>0, <1>b, PullBounds, LengthIs, SMTT(30)
    DEF ReadTextSync, Call, deviceReady, deviceRead, Told, TypeOK, Cursor, Shapes, Unknown, device, Idle
  <2>2. Reading = FALSE
    BY <1>0 DEF ReadTextSync, Call, deviceReady, deviceRead, Told, Reading, Shapes, Idle
  <2>3. Reading' = FALSE
    BY <1>0, <1>b, <2>2 DEF ReadTextSync, Call, deviceReady, deviceRead, Told, Reading, Shapes, Idle
  <2>. QED
    BY <1>0, <1>b, <2>1, <2>2, <2>3 DEF ReadTextSync, Call, deviceReady, deviceRead, Told, ReadProtected, TypeOK
<1>2. Shapes'
  BY <1>0, <1>b, PullBounds, LengthIs
  DEF ReadTextSync, Call, deviceReady, deviceRead, Told, Shapes, Idle,
    NoOutcome, Reading, TypeOK, Unknown, device
<1>3. Cursor'
  <2>1. CASE bits = "good"
    <3>1. /\ told = pos /\ told' = told + Len(Bytes(n)) /\ pos' = pos + Len(Bytes(n))
          /\ outcome'.kind = "readSync" /\ outcome'.at = told /\ outcome'.in = Bytes(n) /\ op' = op
      BY <1>0, <1>b, <2>1 DEF ReadTextSync, deviceReady, deviceRead, Told, Cursor, TypeOK, Unknown
    <3>. QED
      BY <1>0, <1>b, <3>1 DEF Cursor, IsText, TypeOK
  <2>2. CASE bits # "good"
    <3>1. /\ UNCHANGED <<pos, bits, told, op>>
          /\ outcome' = [kind |-> "readSync", result |-> "rejected"]
      BY <2>2 DEF ReadTextSync, deviceReady
    <3>. QED
      BY <1>0, <3>1 DEF Cursor
  <2>. QED
    BY <2>1, <2>2
<1>4. Progress'
  BY <1>0, <1>b, PullBounds, LengthIs
  DEF ReadTextSync, Call, deviceReady, deviceRead, Told, Progress, Idle,
    NoOutcome, Shapes, Reading, TypeOK, Unknown, device
<1>5. SameSize'
  BY <1>0, <1>b, PullBounds, LengthIs
  DEF ReadTextSync, Call, deviceReady, deviceRead, Told, SameSize,
    SameSizeConverted, Idle, NoOutcome, Shapes, Reading, TypeOK, Unknown,
    device
<1>. QED
  BY <1>1, <1>2, <1>3, <1>4, <1>5 DEF PullInv

(* seek(). *)
LEMMA SeekKeeps ==
  ASSUME PullInv, NEW o \in Offsets, NEW f \in {"begin", "current", "end"}, Seek(o, f)
  PROVE  PullInv'
<1>0. ReadProtected /\ Shapes /\ Cursor /\ Progress /\ SameSize /\ TypeOK
  BY DEF PullInv, ReadProtected
<1>1. ReadProtected'
  <2>1. TypeOK'
    BY <1>0, PullBounds, LengthIs
    DEF Seek, Call, deviceReady, deviceSeek, Target, Told, TypeOK, Cursor, Shapes, Unknown, device, Idle
  <2>2. Reading = FALSE
    BY <1>0 DEF Seek, Call, deviceReady, deviceSeek, Target, Told, Reading, Shapes, Idle
  <2>3. Reading' = FALSE
    BY <1>0, <2>2 DEF Seek, Call, deviceReady, deviceSeek, Target, Told, Reading, Shapes, Idle
  <2>. QED
    BY <1>0, <2>1, <2>2, <2>3 DEF Seek, Call, deviceReady, deviceSeek, Target, Told, ReadProtected, TypeOK
<1>2. Shapes'
  BY <1>0, PullBounds, LengthIs
  DEF Seek, Call, deviceReady, deviceSeek, Target, Told, Shapes, Idle,
    NoOutcome, Reading, TypeOK, Unknown, device
<1>3. Cursor'
  BY <1>0, PullBounds, LengthIs
  DEF Seek, Call, deviceReady, deviceSeek, Target, Told, Cursor, IsText,
    Idle, NoOutcome, Shapes, Reading, TypeOK, Unknown, device
<1>4. Progress'
  BY <1>0, PullBounds, LengthIs
  DEF Seek, Call, deviceReady, deviceSeek, Target, Told, Progress, Idle,
    NoOutcome, Shapes, Reading, TypeOK, Unknown, device
<1>5. SameSize'
  BY <1>0, PullBounds, LengthIs
  DEF Seek, Call, deviceReady, deviceSeek, Target, Told, SameSize,
    SameSizeConverted, Idle, NoOutcome, Shapes, Reading, TypeOK, Unknown,
    device
<1>. QED
  BY <1>1, <1>2, <1>3, <1>4, <1>5 DEF PullInv

(* seekSync(). *)
LEMMA SeekSyncKeeps ==
  ASSUME PullInv, NEW o \in Offsets, NEW f \in {"begin", "current", "end"}, SeekSync(o, f)
  PROVE  PullInv'
<1>0. ReadProtected /\ Shapes /\ Cursor /\ Progress /\ SameSize /\ TypeOK
  BY DEF PullInv, ReadProtected
<1>1. ReadProtected'
  BY <1>0, PullBounds, LengthIs
  DEF SeekSync, Call, deviceReady, deviceSeek, Target, ReadProtected,
    TypeOK, Reading, Shapes, Unknown, device
<1>2. Shapes'
  BY <1>0, PullBounds, LengthIs
  DEF SeekSync, Call, deviceReady, deviceSeek, Target, Shapes, Idle,
    NoOutcome, Reading, TypeOK, Unknown, device
<1>3. Cursor'
  BY <1>0, PullBounds, LengthIs
  DEF SeekSync, Call, deviceReady, deviceSeek, Target, Cursor, IsText,
    Idle, NoOutcome, Shapes, Reading, TypeOK, Unknown, device
<1>4. Progress'
  BY <1>0, PullBounds, LengthIs
  DEF SeekSync, Call, deviceReady, deviceSeek, Target, Progress, Idle,
    NoOutcome, Shapes, Reading, TypeOK, Unknown, device
<1>5. SameSize'
  BY <1>0, PullBounds, LengthIs
  DEF SeekSync, Call, deviceReady, deviceSeek, Target, SameSize,
    SameSizeConverted, Idle, NoOutcome, Shapes, Reading, TypeOK, Unknown,
    device
<1>. QED
  BY <1>1, <1>2, <1>3, <1>4, <1>5 DEF PullInv

(* close(), at any time. *)
LEMMA CloseKeeps ==
  ASSUME PullInv, Close
  PROVE  PullInv'
<1>0. ReadProtected /\ Shapes /\ Cursor /\ Progress /\ SameSize /\ TypeOK
  BY DEF PullInv, ReadProtected
<1>1. ReadProtected'
  <2>1. TypeOK'
    <3>1. open' = FALSE /\ calls' = calls + 1
      BY DEF Close, Call
    <3>2. UNCHANGED <<pos, bits, protect, leaks, op, told>>
      BY DEF Close
    <3>3. open' \in BOOLEAN /\ {leaks', calls'} \subseteq Nat
      <4>1. leaks \in Nat /\ calls \in Nat
        BY <1>0 DEF TypeOK
      <4>2. open' \in BOOLEAN
        BY <3>1
      <4>. QED
        BY <3>1, <3>2, <4>1, <4>2
    <3>. QED
      BY <1>0, <3>2, <3>3 DEF TypeOK
  <2>2. Reading \in BOOLEAN
    BY <1>0 DEF Close, Call, Reading, Shapes, Idle
  <2>3. Reading' = Reading
    BY <1>0, <2>2 DEF Close, Call, Reading, Shapes, Idle
  <2>. QED
    BY <1>0, <2>1, <2>2, <2>3 DEF Close, Call, ReadProtected, TypeOK
<1>2. Shapes'
  BY <1>0, PullBounds, LengthIs
  DEF Close, Call, Shapes, Idle, NoOutcome, Reading, TypeOK, Unknown,
    device
<1>3. Cursor'
  BY <1>0, PullBounds, LengthIs
  DEF Close, Call, Cursor, IsText, Idle, NoOutcome, Shapes, Reading,
    TypeOK, Unknown, device
<1>4. Progress'
  BY <1>0, PullBounds, LengthIs
  DEF Close, Call, Progress, Idle, NoOutcome, Shapes, Reading, TypeOK,
    Unknown, device
<1>5. SameSize'
  BY <1>0, PullBounds, LengthIs
  DEF Close, Call, SameSize, SameSizeConverted, Idle, NoOutcome, Shapes,
    Reading, TypeOK, Unknown, device
<1>. QED
  BY <1>1, <1>2, <1>3, <1>4, <1>5 DEF PullInv

(* resume() of the stream. *)
LEMMA ResumeKeeps ==
  ASSUME PullInv, Resume
  PROVE  PullInv'
<1>0. ReadProtected /\ Shapes /\ Cursor /\ Progress /\ SameSize /\ TypeOK
  BY DEF PullInv, ReadProtected
<1>1. ReadProtected'
  <2>1. TypeOK'
    BY <1>0, PullBounds, LengthIs
    DEF Resume, Call, deviceReady, TypeOK, Cursor, Shapes, Unknown, device, Idle
  <2>2. Reading = FALSE
    BY <1>0 DEF Resume, Call, deviceReady, Reading, Shapes, Idle
  <2>3. Reading' = FALSE
    BY <1>0, <2>2 DEF Resume, Call, deviceReady, Reading, Shapes, Idle
  <2>. QED
    BY <1>0, <2>1, <2>2, <2>3 DEF Resume, Call, deviceReady, ReadProtected, TypeOK
<1>2. Shapes'
  BY <1>0, PullBounds, LengthIs
  DEF Resume, Call, deviceReady, Shapes, Idle, NoOutcome, Reading, TypeOK,
    Unknown, device
<1>3. Cursor'
  BY <1>0, PullBounds, LengthIs
  DEF Resume, Call, deviceReady, Cursor, IsText, Idle, NoOutcome, Shapes,
    Reading, TypeOK, Unknown, device
<1>4. Progress'
  BY <1>0, PullBounds, LengthIs
  DEF Resume, Call, deviceReady, Progress, Idle, NoOutcome, Shapes,
    Reading, TypeOK, Unknown, device
<1>5. SameSize'
  BY <1>0, PullBounds, LengthIs
  DEF Resume, Call, deviceReady, SameSize, SameSizeConverted, Idle,
    NoOutcome, Shapes, Reading, TypeOK, Unknown, device
<1>. QED
  BY <1>1, <1>2, <1>3, <1>4, <1>5 DEF PullInv

(* The loop of resume(), between two reads. *)
LEMMA LoopKeeps ==
  ASSUME PullInv, Loop
  PROVE  PullInv'
<1>0. ReadProtected /\ Shapes /\ Cursor /\ Progress /\ SameSize /\ TypeOK
  BY DEF PullInv, ReadProtected
<1>b. /\ op.kind = "resume" /\ Reading = FALSE /\ outcome = NoOutcome
      /\ \/ /\ bits # "eof" /\ protect' = protect + 1 /\ UNCHANGED outcome
            /\ op' = [kind |-> "resume", want |-> BlockSize, from |-> op.from, reading |-> TRUE]
         \/ /\ bits = "eof" /\ UNCHANGED protect /\ op' = Idle
            /\ outcome' = [kind |-> "resume", from |-> op.from, result |-> "end"]
      /\ UNCHANGED <<device, leaks, filter, told, seen, calls>>
      /\ op.from \in Nat
  BY <1>0 DEF Loop, eof, Shapes, Reading
<1>1. ReadProtected'
  <2>1. TypeOK'
    BY <1>0, <1>b DEF TypeOK, device, Idle
  <2>. QED
    BY <1>0, <1>b, <2>1 DEF ReadProtected, TypeOK, Reading, Idle
<1>2. Shapes'
  <2>1. CASE bits # "eof"
    <3>1. op' = [kind |-> "resume", want |-> BlockSize, from |-> op.from, reading |-> TRUE]
      BY <1>b, <2>1
    <3>2. op'.kind = "resume" /\ op'.from = op.from /\ op'.reading = TRUE
      BY <3>1
    <3>3. /\ op' = [kind |-> "resume", want |-> BlockSize, from |-> op'.from, reading |-> op'.reading]
          /\ op'.from \in Nat /\ op'.reading \in BOOLEAN
      BY <1>b, <3>1, <3>2
    <3>. QED
      BY <1>0, <1>b, <2>1, <3>2, <3>3 DEF Shapes
  <2>2. CASE bits = "eof"
    BY <1>0, <1>b, <2>2 DEF Shapes, Idle
  <2>. QED
    BY <2>1, <2>2
<1>3. Cursor'
  BY <1>0, <1>b DEF Cursor, IsText, device, Idle, NoOutcome
<1>4. Progress'
  BY <1>0, <1>b DEF Progress, device, Idle, NoOutcome
<1>5. SameSize'
  BY <1>0, <1>b DEF SameSize, SameSizeConverted, Idle, NoOutcome
<1>. QED
  BY <1>1, <1>2, <1>3, <1>4, <1>5 DEF PullInv

(* A read of the pool: what it gives to the listeners or to the filter,    *)
(* its ends of file and its rejections.                                    *)
LEMMA ReadTaskKeeps ==
  ASSUME PullInv, ReadTask
  PROVE  PullInv'
<1>0. ReadProtected /\ Shapes /\ Cursor /\ Progress /\ SameSize /\ TypeOK
  BY DEF PullInv, ReadProtected
<1>. DEFINE n == IF op.want > 0 THEN op.want ELSE deviceBytesAvailable
<1>1. /\ Reading /\ op.want \in Nat
      /\ UNCHANGED <<open, filter, calls>>
      /\ protect = leaks + 1
      /\ n \in Int
  <2>1. Reading /\ UNCHANGED <<open, filter, calls>>
    BY DEF ReadTask
  <2>2. op.want \in Nat
    BY <1>0, <2>1, PullBounds DEF Reading, Shapes
  <2>3. deviceBytesAvailable \in Int
    BY <1>0, LengthIs DEF deviceBytesAvailable, TypeOK
  <2>. QED
    BY <1>0, <2>1, <2>2, <2>3 DEF ReadProtected
<1>2. /\ op.kind \in {"read", "resume"}
      /\ op.kind = "read" => op = [kind |-> "read", want |-> op.want]
      /\ op.kind = "resume" =>
           /\ op = [kind |-> "resume", want |-> BlockSize, from |-> op.from, reading |-> op.reading]
           /\ op.from \in Nat /\ outcome = NoOutcome /\ op.want = BlockSize /\ n = BlockSize
  BY <1>0, <1>1, PullBounds DEF Shapes, Reading
<1>3. CASE Rejected /\ UNCHANGED <<pos, told, seen>> /\ (protect' = leaks') /\ leaks' \in Nat
           /\ bits' \in {bits, "fail"}
  <2>1. op' = Idle /\ outcome' = [kind |-> op.kind, result |-> "rejected"]
    BY <1>3 DEF Rejected
  <2>2. TypeOK'
    BY <1>0, <1>1, <1>3, <2>1 DEF TypeOK, Idle
  <2>3. Reading' = FALSE
    BY <2>1 DEF Reading, Idle
  <2>4. ReadProtected'
    <3>1. leaks' \in Nat /\ protect' = leaks'
      BY <1>3
    <3>2. (IF Reading' THEN 1 ELSE 0) = 0
      BY <2>3, Zenon
    <3>3. \A k \in Nat : k = k + 0
      OBVIOUS
    <3>4. protect' = leaks' + (IF Reading' THEN 1 ELSE 0)
      BY <3>1, <3>2, <3>3, Zenon
    <3>. QED
      BY <2>2, <3>4 DEF ReadProtected
  <2>5. Shapes'
    BY <1>0, <1>1, <2>1 DEF Shapes, Idle
  <2>6. Cursor' /\ Progress' /\ SameSize'
    BY <1>0, <1>1, <1>2, <1>3, <2>1 DEF Cursor, Progress, SameSize, SameSizeConverted, Idle
  <2>. QED
    BY <2>4, <2>5, <2>6 DEF PullInv
<1>4. CASE /\ n > 0 /\ bits = "good" /\ deviceRead(n) /\ Arrived(Bytes(n))
           /\ told' = Told(Len(Bytes(n))) /\ protect' = protect - 1 /\ UNCHANGED leaks
  <2>. DEFINE data == Bytes(n)
  <2>0. n \in Nat
    BY <1>1, <1>4
  <2>. HIDE DEF n
  <2>1. /\ data \in Seq(Chars) /\ Len(data) \in Nat
        /\ IsText(data, pos)
        /\ open /\ pos > Length => data = << >>
        /\ open /\ pos <= Length =>
             /\ data = SubSeq(Text, pos + 1, pos + Len(data))
             /\ pos + Len(data) <= Length
             /\ Len(data) < n => pos + Len(data) = Length
    BY <1>0, <2>0, BytesIs
  <2>2. /\ told = pos /\ told' = pos + Len(data) /\ pos' = pos + Len(data)
        /\ bits' = IF Len(data) < n THEN "eof" ELSE "good"
        /\ protect' = leaks' /\ leaks' = leaks
    BY <1>0, <1>1, <1>4, <2>1 DEF Cursor, Told, Unknown, TypeOK, deviceRead, ReadProtected
  <2>3. Arrived(data)
    BY <1>4
  <2>. HIDE DEF data
  <2>4. CASE op.kind = "read"
    <3>1. /\ op' = [kind |-> "process", at |-> told, data |-> data, call |-> ProcessCall(data)]
          /\ UNCHANGED <<seen, outcome>>
      BY <2>3, <2>4 DEF Arrived
    <3>2. TypeOK'
      BY <1>0, <1>1, <2>1, <2>2, <3>1 DEF TypeOK
    <3>3. Reading' = FALSE
      BY <3>1 DEF Reading
    <3>4. ReadProtected'
      BY <2>2, <3>2, <3>3 DEF ReadProtected, TypeOK
    <3>5. Shapes'
      BY <1>0, <1>1, <3>1 DEF Shapes
    <3>6. Cursor'
      BY <1>0, <2>1, <2>2, <3>1 DEF Cursor
    <3>7. Progress'
      BY <1>0, <1>1, <3>1 DEF Progress
    <3>8. SameSize'
      BY <1>0, <1>1, <3>1 DEF SameSize, SameSizeConverted
    <3>. QED
      BY <3>4, <3>5, <3>6, <3>7, <3>8 DEF PullInv
  <2>5. CASE op.kind = "resume"
    <3>1. /\ op' = [kind |-> "resume", want |-> BlockSize, from |-> op.from, reading |-> FALSE]
          /\ seen' = seen \o data /\ UNCHANGED outcome
      BY <1>2, <2>3, <2>5 DEF Arrived
    <3>2. TypeOK'
      BY <1>0, <1>1, <2>1, <2>2, <3>1 DEF TypeOK
    <3>3. Reading' = FALSE
      BY <3>1 DEF Reading
    <3>4. ReadProtected'
      BY <2>2, <3>2, <3>3 DEF ReadProtected, TypeOK
    <3>5. Shapes'
      <4>1. /\ op'.kind = "resume" /\ op'.from = op.from /\ op'.reading = FALSE
            /\ op'.from \in Nat /\ op'.reading \in BOOLEAN
        BY <1>2, <2>5, <3>1
      <4>2. op' = [kind |-> "resume", want |-> BlockSize, from |-> op'.from, reading |-> op'.reading]
        BY <3>1, <4>1
      <4>3. outcome' = NoOutcome
        BY <1>2, <2>5, <3>1
      <4>. QED
        BY <1>0, <1>1, <4>1, <4>2, <4>3 DEF Shapes
    <3>6. Cursor'
      BY <1>0, <2>1, <2>2, <3>1 DEF Cursor
    <3>7. Progress'
      <4>0. Text \in Seq(Chars) /\ Len(Text) = Length /\ Length \in Nat /\ pos \in Nat
        BY <1>0, LengthIs, TextAssumption DEF Chars, Length, TypeOK
      <4>1. CASE open /\ pos <= Length
        <5>1. seen = SubSeq(Text, op.from + 1, pos) /\ op.from <= pos
          BY <1>0, <1>4, <2>5, <4>1, <4>0 DEF Progress
        <5>2. op.from \in Nat /\ Len(Text) \in Nat /\ Len(data) \in Nat /\ pos + Len(data) <= Len(Text)
          BY <1>2, <2>1, <2>5, <4>0, <4>1, <5>1
        <5>3. SubSeq(Text, op.from + 1, pos + Len(data))
                = SubSeq(Text, op.from + 1, pos) \o SubSeq(Text, pos + 1, pos + Len(data))
          <6>1. \A m \in 1..(Len(Text) + 1) : \A k \in (m - 1)..Len(Text) : \A l \in k..Len(Text) :
                  SubSeq(Text, m, k) \o SubSeq(Text, k + 1, l) = SubSeq(Text, m, l)
            BY <4>0, ConcatAdjacentSubSeq
          <6>2. PICK m : m = op.from + 1
            OBVIOUS
          <6>3. PICK l : l = pos + Len(data)
            OBVIOUS
          <6>4. m \in 1..(Len(Text) + 1) /\ pos \in (m - 1)..Len(Text) /\ l \in pos..Len(Text)
            BY <4>0, <5>1, <5>2, <6>2, <6>3, SMTT(30)
          <6>5. SubSeq(Text, m, pos) \o SubSeq(Text, pos + 1, l) = SubSeq(Text, m, l)
            BY <6>1, <6>4, Zenon
          <6>. QED
            BY <6>2, <6>3, <6>5, Zenon
        <5>4. seen' = SubSeq(Text, op.from + 1, pos + Len(data))
          BY <2>1, <3>1, <4>1, <5>1, <5>3
        <5>5. /\ op'.from = op.from /\ outcome' = NoOutcome /\ open' = open
              /\ pos + Len(data) <= Length /\ op.from <= pos + Len(data)
              /\ bits' = "eof" => pos + Len(data) = Length
              /\ n \in Nat /\ Len(data) \in Nat
          BY <1>1, <1>2, <2>0, <2>1, <2>2, <2>5, <3>1, <4>0, <4>1, <5>1
        <5>. QED
          BY <2>2, <5>4, <5>5 DEF Progress, NoOutcome
      <4>2. CASE open /\ pos > Length
        <5>1. seen = << >> /\ op.from = pos
          BY <1>0, <1>4, <2>5, <4>2, <4>0 DEF Progress
        <5>2. seen' = << >> /\ Len(data) = 0
          BY <2>1, <3>1, <4>2, <5>1
        <5>3. SubSeq(Text, op.from + 1, Length) = << >>
          BY <4>0, <4>2, <5>1, SubSeqEmpty
        <5>4. bits' = "eof"
          BY <1>2, <2>2, <2>5, <5>2, PullBounds
        <5>5. op'.from = op.from /\ outcome' = NoOutcome /\ open' = open
          BY <1>1, <1>2, <2>5, <3>1
        <5>. QED
          BY <5>2, <5>3, <5>4, <5>5 DEF Progress, NoOutcome
      <4>3. CASE ~ open
        BY <1>1, <4>3 DEF Progress
      <4>. QED
        BY <4>0, <4>1, <4>2, <4>3
    <3>8. SameSize'
      BY <1>0, <1>1, <1>2, <2>5, <3>1 DEF SameSize, SameSizeConverted, NoOutcome
    <3>. QED
      BY <3>4, <3>5, <3>6, <3>7, <3>8 DEF PullInv
  <2>. QED
    BY <1>2, <2>4, <2>5
<1>. QED
  <2>1. leaks \in Nat /\ leaks + 1 \in Nat
    BY <1>0 DEF TypeOK
  <2>. QED
    BY <1>1, <1>3, <1>4, <2>1 DEF ReadTask, ReadyFor, deviceReady

-----------------------------------------------------------------------------
(* A device that was just opened. *)
LEMMA PullInit == Init => PullInv
<1>. SUFFICES ASSUME Init PROVE PullInv
  OBVIOUS
<1>1. ReadProtected
  BY DEF Init, ReadProtected, TypeOK, Reading, Idle, Unknown
<1>2. Shapes
  BY DEF Init, Shapes, Idle, NoOutcome, NewFilter
<1>3. Cursor /\ Progress /\ SameSize
  BY DEF Init, Cursor, Progress, SameSize, SameSizeConverted, Idle, NoOutcome, NewFilter
<1>. QED
  BY <1>1, <1>2, <1>3 DEF PullInv

(* Every step of the program and of the pool keeps the invariant. *)
LEMMA PullNext == PullInv /\ [Next]_vars => PullInv'
<1>. SUFFICES ASSUME PullInv, [Next]_vars PROVE PullInv'
  OBVIOUS
<1>1. CASE UNCHANGED vars
  BY <1>1 DEF vars, device, PullInv, ReadProtected, TypeOK, Reading, Shapes, Cursor, IsText,
    Progress, SameSize, SameSizeConverted
<1>. QED
  BY <1>1, ReadKeeps, ReadTaskKeeps, FilterTaskKeeps, ProcessNullKeeps, ReadSyncKeeps,
    ReadTextSyncKeeps, SeekKeeps, SeekSyncKeeps, CloseKeeps, ResumeKeeps, LoopKeeps
  DEF Next, TaskStep, ProgramStep

(* A buffer that was read holds the characters at the place the program    *)
(* has counted to, for every file and every sequence of calls.             *)
THEOREM CursorCorrect == Spec => []ReadsFollowCursor
<1>1. PullInv => ReadsFollowCursor
  BY DEF PullInv, Cursor, IsText, ReadsFollowCursor
<1>. QED
  BY <1>1, PullInit, PullNext, PTL DEF Spec

(* A resume that ends without an error has given its listeners the rest of *)
(* the file, for every file and block size.                                *)
THEOREM ResumeCorrect == Spec => []ResumeWhole
<1>1. PullInv => ResumeWhole
  BY DEF PullInv, Progress, ResumeWhole
<1>. QED
  BY <1>1, PullInit, PullNext, PTL DEF Spec

(* The device is protected as long as a read is scheduled and as often as  *)
(* a read was refused, for every sequence of calls.                        *)
THEOREM ReadProtectedCorrect == Spec => []ReadProtected
<1>1. PullInv => ReadProtected
  BY DEF PullInv
<1>. QED
  BY <1>1, PullInit, PullNext, PTL DEF Spec

(* A conversion that keeps the length returns the converted buffer, call   *)
(* after call, for every buffer and pivot size.                            *)
THEOREM SameSizeCorrect == Spec => []SameSizeConverted
<1>1. PullInv => SameSizeConverted
  BY DEF PullInv, SameSize
<1>. QED
  BY <1>1, PullInit, PullNext, PTL DEF Spec
=============================================================================
