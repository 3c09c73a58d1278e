------------------------------- MODULE Filter -------------------------------
(***************************************************************************)
(* Filters: the process() method that all filters inherit                  *)
(* (src/classes/io/filter.cpp), the encoding conversion it was written for *)
(* (src/classes/io/filters/encoding.cpp) and UTF8StringFilter, which has a *)
(* process() of its own.  Only operators: PullStream takes the steps.      *)
(*                                                                         *)
(* A character becomes factor cells of output, numbered <<character, i>>.  *)
(* A cell that nobody has written is Junk.                                 *)
(***************************************************************************)
EXTENDS Integers, Sequences

CONSTANTS
  Pivot,   \* characters the pivot buffer holds (1024 in the code)
  NUL      \* the character that ends a C string

ASSUME PivotAssumption == Pivot \in Nat \ {0}

Junk == <<"junk", 0>>

(* What a buffer converts to. *)
Converted(in, factor) ==
  [i \in 1..(Len(in) * factor) |-> <<in[((i - 1) \div factor) + 1], ((i - 1) % factor) + 1>>]

-----------------------------------------------------------------------------
(* The converter between two encodings: pending holds the cells that have  *)
(* been read and not written (the pivot buffer and what ICU keeps of a     *)
(* target that was full).                                                  *)
NewFilter(factor) == [factor |-> factor, pending |-> <<>>, myPayloadId |-> 0]

(* A call of process() that has been scheduled.  The estimate of the       *)
(* output's length is the length of the input.                             *)
ProcessCall(in) ==
  [in |-> in, out |-> <<>>, outLength |-> Len(in), outRemaining |-> Len(in), done |-> FALSE]

(* Characters read when the target is full after room cells: whole pivots. *)
Consumed(in, factor, room) ==
  LET pivots == (room \div (factor * Pivot)) + 1
  IN  IF pivots * Pivot < Len(in) THEN pivots * Pivot ELSE Len(in)

(* processBuffer(): the filter and the call after it, and the size it      *)
(* returns.  A full target returns the room there was, not what is needed. *)
ProcessBuffer(filter, call) ==
  LET kept == IF filter.myPayloadId = 0 THEN <<>> ELSE filter.pending
      cells == kept \o Converted(call.in, filter.factor)
      room == call.outRemaining
      overflow == Len(cells) > room
      used == IF ~ overflow THEN Len(call.in)
              ELSE IF Len(kept) > room THEN 0
              ELSE Consumed(call.in, filter.factor, room - Len(kept))
      read == kept \o Converted(SubSeq(call.in, 1, used), filter.factor)
      written == IF overflow THEN room ELSE Len(cells)
  IN  [filter |-> [filter EXCEPT !.pending = SubSeq(read, written + 1, Len(read)),
                                 !.myPayloadId = IF overflow \/ @ > 0 THEN @ ELSE 1],
       call |-> [call EXCEPT !.in = SubSeq(@, used + 1, Len(@)),
                             !.out = @ \o SubSeq(read, 1, written),
                             !.outRemaining = @ - written],
       needed |-> IF overflow THEN room ELSE 0]

(* Mutant: the buffer is resolved with what is left of it, not with all.   *)
HandlerStepShort(filter, call) ==
  LET r == ProcessBuffer(filter, call)
  IN  [filter |-> r.filter, call |-> [r.call EXCEPT !.done = TRUE, !.outLength = Len(r.call.out) - 1]]

(* One run of the handler: more room and another task, or the result.  The *)
(* room that has been added is not given to the next run.                  *)
HandlerStep(filter, call) ==
  LET r == ProcessBuffer(filter, call)
  IN  [filter |-> r.filter,
       call |-> IF r.needed > 0 THEN [r.call EXCEPT !.outLength = @ + r.needed]
                ELSE [r.call EXCEPT !.done = TRUE]]

(* The array buffer it resolves with has outLength cells, written or not.  *)
Result(call) ==
  [i \in 1..call.outLength |-> IF i <= Len(call.out) THEN call.out[i] ELSE Junk]

(* process(null) forgets what is pending. *)
ResetFilter(filter) == NewFilter(filter.factor)

-----------------------------------------------------------------------------
(* UTF8StringFilter.process(buffer): the buffer is copied and read as a C  *)
(* string, up to its first NUL.                                            *)
CString(cells) ==
  LET nuls == {i \in DOMAIN cells : cells[i][1] = NUL}
  IN  IF nuls = {} THEN cells
      ELSE SubSeq(cells, 1, (CHOOSE i \in nuls : \A j \in nuls : i <= j) - 1)

(* UTF8StringFilter.processSync(buffer) does not copy: a buffer without a  *)
(* NUL is read on into the memory behind it, up to a NUL there.            *)
ProcessSync(cells) ==
  {CString(cells)} \cup (IF CString(cells) = cells THEN {Append(cells, Junk)} ELSE {})
=============================================================================
