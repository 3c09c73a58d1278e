------------------------------ MODULE Emitter ------------------------------
(***************************************************************************)
(* Nexus.EventEmitter (src/classes/emitter.cpp, include/classes/emitter.h) *)
(*                                                                         *)
(* An emitter maps every event name to the vector of its listeners, in the *)
(* order they were registered.  A listener has a countdown: -1 for `on`, 1 *)
(* for `once`, n for `many`.  Every operation holds the JavaScript lock,   *)
(* which is recursive: another thread waits for it, but a handler that is  *)
(* called by emit runs inside the loop over the vector and may call the    *)
(* emitter again.  The variable stack holds the loops that are under way.  *)
(* A loop keeps the iterators it took at its start; when the vector is     *)
(* moved or destroyed under it, or has become shorter than the place it    *)
(* stands at, its next dereference is undefined behaviour, which ends the  *)
(* behaviour here: memory becomes "undefined" and nothing follows.         *)
(***************************************************************************)
EXTENDS Integers, SequencesExt

CONSTANTS
  Events,         \* event names
  Handlers,       \* JavaScript functions registered as handlers
  Counts,         \* the counts passed to addManyListener
  Reentrant,      \* the operations a handler may call, members of Operations
  MaxListeners,   \* bound: registrations over a behaviour
  MaxEmits,       \* bound: emits over a behaviour
  MaxDepth        \* bound: nested emits

Operations == {"on", "off", "allOff", "emit", "emitFastAndSchedule"}

ASSUME CountsAssumption == Counts \subseteq Int \ {0}
ASSUME ReentrantAssumption == Reentrant \subseteq Operations
ASSUME EmitterBounds == {MaxListeners, MaxEmits, MaxDepth} \subseteq Nat

VARIABLES
  myMap,      \* event -> sequence of listeners (an absent key is the empty one)
  stack,      \* the loops of the emits under way, the innermost one last
  memory,     \* "defined" until a loop dereferences an invalid iterator
  granted,    \* history: the count each registration was made with
  calls,      \* history: how often its handler was called
  queued,     \* tasks that emitFastAndSchedule left with the scheduler
  emits,      \* history: number of emits, for the bound
  astray      \* history: whether the code may have lost count, see Several

vars == <<myMap, stack, memory, granted, calls, queued, emits, astray>>

Ids == DOMAIN granted

Listener == [id : 1..MaxListeners, handler : Handlers, count : Counts \cup Nat]

Frame == [event : Events, at : Nat, end : Nat,
          storage : {"live", "freed"}, called : Seq(1..MaxListeners)]

Init ==
  /\ myMap = [e \in Events |-> <<>>]
  /\ stack = <<>>
  /\ memory = "defined"
  /\ granted = <<>>
  /\ calls = <<>>
  /\ queued = <<>>
  /\ emits = 0
  /\ astray = FALSE

(* The lock is free, or its holder is in a handler that may call op. *)
May(op) ==
  /\ memory = "defined"
  /\ stack # <<>> => /\ op \in Reentrant
                     /\ Last(stack).at > 0

(* What becomes of the loops over event e when its vector is moved or destroyed. *)
Freed(e) ==
  [i \in DOMAIN stack |->
     IF stack[i].event = e THEN [stack[i] EXCEPT !.storage = "freed"] ELSE stack[i]]

(* Mutant: a listener is put before the others. *)
AddFirst(e, h, n) ==
  /\ May("on")
  /\ Len(granted) < MaxListeners
  /\ myMap' = [myMap EXCEPT
       ![e] = <<[id |-> Len(granted) + 1, handler |-> h, count |-> n]>> \o @]
  /\ granted' = Append(granted, n)
  /\ calls' = Append(calls, 0)
  /\ queued' = Append(queued, 0)
  /\ stack' \in {stack, Freed(e)}
  /\ UNCHANGED <<memory, emits, astray>>

(***************************************************************************)
(* on, once and many: addManyListener appends a listener.  The vector may  *)
(* or may not have to move to grow.                                        *)
(***************************************************************************)
AddManyListener(e, h, n) ==
  /\ May("on")
  /\ Len(granted) < MaxListeners
  /\ myMap' = [myMap EXCEPT
       ![e] = Append(@, [id |-> Len(granted) + 1, handler |-> h, count |-> n])]
  /\ granted' = Append(granted, n)
  /\ calls' = Append(calls, 0)
  /\ queued' = Append(queued, 0)
  /\ stack' \in {stack, Freed(e)}
  /\ UNCHANGED <<memory, emits, astray>>

(* remove_if, from the first listener to the last. *)
Without(vec, h) ==
  LET kept[i \in 0..Len(vec)] ==
        IF i = 0 THEN <<>>
        ELSE IF vec[i].handler # h THEN Append(kept[i - 1], vec[i]) ELSE kept[i - 1]
  IN  kept[Len(vec)]

(* off: every listener of the event with this handler leaves, in place. *)
RemoveListener(e, h) ==
  /\ May("off")
  /\ myMap' = [myMap EXCEPT ![e] = Without(@, h)]
  /\ UNCHANGED <<stack, memory, granted, calls, queued, emits, astray>>

(* allOff: the key leaves the map and its vector is destroyed. *)
RemoveAllListeners(e) ==
  /\ May("allOff")
  /\ myMap' = [myMap EXCEPT ![e] = <<>>]
  /\ stack' = Freed(e)
  /\ UNCHANGED <<memory, granted, calls, queued, emits, astray>>

-----------------------------------------------------------------------------
(***************************************************************************)
(* tidy collects the positions of the listeners whose count is 0 and then  *)
(* erases them one after the other, in ascending order, through iterators  *)
(* that the erasures before have invalidated: the k-th erasure hits the    *)
(* element that has moved to the old position.  Past the end, the erase of *)
(* libstdc++ moves nothing and drops the last element.                     *)
(***************************************************************************)
(* Mutant: a listener without a count is tidied too. *)
ExpiredOrUnlimited(l) == l.count <= 0

Expired(l) == l.count = 0

EraseAt(vec, i) == IF i \in DOMAIN vec THEN RemoveAt(vec, i) ELSE Front(vec)

Tidy(vec) ==
  LET left[i \in 0..Len(vec)] ==
        IF i = 0 THEN vec
        ELSE IF Expired(vec[i]) THEN EraseAt(left[i - 1], i) ELSE left[i - 1]
  IN  left[Len(vec)]

Decrement(l) == IF l.count > 0 THEN [l EXCEPT !.count = @ - 1] ELSE l

Decremented(vec) == [i \in DOMAIN vec |-> Decrement(vec[i])]

(* What makes the code lose count: a tidy that meets several used-up       *)
(* listeners, of which it erases the first and then others than it means;  *)
(* and an emit inside an emit of the same event, which calls a used-up     *)
(* listener again, for neither loop looks at the count before the call.    *)
Several(vec) == \E i, j \in DOMAIN vec : i # j /\ vec[i].count = 0 /\ vec[j].count = 0
Nested(e) == \E i \in DOMAIN stack : stack[i].event = e

(* emit and emitFast: take the iterators of the event's vector. *)
Emit(e) ==
  /\ May("emit")
  /\ emits < MaxEmits /\ Len(stack) < MaxDepth
  /\ emits' = emits + 1
  /\ astray' = (astray \/ Nested(e))
  /\ stack' = Append(stack, [event |-> e, at |-> 0, end |-> Len(myMap[e]),
                             storage |-> "live", called |-> <<>>])
  /\ UNCHANGED <<myMap, memory, granted, calls, queued>>

(* Mutant: the count is not taken down. *)
VisitCountless ==
  LET f == Last(stack)
      k == f.at + 1
      l == myMap[f.event][k]
  IN /\ stack # <<>> /\ memory = "defined"
     /\ f.at < f.end
     /\ f.storage = "live" /\ k <= Len(myMap[f.event])
     /\ stack' = Front(stack) \o <<[f EXCEPT !.at = k, !.called = Append(@, l.id)]>>
     /\ calls' = [calls EXCEPT ![l.id] = @ + 1]
     /\ UNCHANGED <<myMap, memory, granted, queued, emits, astray>>

(* The innermost loop reaches its next listener, counts it down and calls it. *)
Visit ==
  LET f == Last(stack)
      k == f.at + 1
      l == myMap[f.event][k]
  IN /\ stack # <<>> /\ memory = "defined"
     /\ f.at < f.end
     /\ f.storage = "live" /\ k <= Len(myMap[f.event])
     /\ myMap' = [myMap EXCEPT ![f.event][k] = Decrement(@)]
     /\ stack' = Front(stack) \o <<[f EXCEPT !.at = k, !.called = Append(@, l.id)]>>
     /\ calls' = [calls EXCEPT ![l.id] = @ + 1]
     /\ UNCHANGED <<memory, granted, queued, emits, astray>>

(* The next listener of the loop is in freed memory, or past the vector's end. *)
VisitInvalid ==
  LET f == Last(stack)
  IN /\ stack # <<>> /\ memory = "defined"
     /\ f.at < f.end
     /\ f.storage = "freed" \/ f.at + 1 > Len(myMap[f.event])
     /\ memory' = "undefined"
     /\ UNCHANGED <<myMap, stack, granted, calls, queued, emits, astray>>

(* The loop ends; tidy looks the event up again, and drops an empty vector. *)
EndEmit ==
  LET f == Last(stack)
      left == Tidy(myMap[f.event])
  IN /\ stack # <<>> /\ memory = "defined"
     /\ f.at = f.end
     /\ myMap' = [myMap EXCEPT ![f.event] = left]
     /\ stack' = Front(IF left = <<>> THEN Freed(f.event) ELSE stack)
     /\ astray' = (astray \/ Several(myMap[f.event]))
     /\ UNCHANGED <<memory, granted, calls, queued, emits>>

(***************************************************************************)
(* emitFastAndSchedule: the listeners are counted down and their calls     *)
(* left to the scheduler, one task each; then tidy.                        *)
(***************************************************************************)
EmitFastAndSchedule(e) ==
  LET left == Tidy(Decremented(myMap[e]))
  IN /\ May("emitFastAndSchedule")
     /\ emits < MaxEmits
     /\ emits' = emits + 1
     /\ astray' = (astray \/ Nested(e) \/ Several(Decremented(myMap[e])))
     /\ myMap' = [myMap EXCEPT ![e] = left]
     /\ stack' = IF left = <<>> THEN Freed(e) ELSE stack
     /\ queued' = [id \in Ids |-> IF \E l \in ToSet(myMap[e]) : l.id = id
                                  THEN queued[id] + 1 ELSE queued[id]]
     /\ UNCHANGED <<memory, granted, calls>>

(* A pool thread runs such a task once it gets the lock. *)
RunTask(id) ==
  /\ memory = "defined" /\ stack = <<>>
  /\ queued[id] > 0
  /\ queued' = [queued EXCEPT ![id] = @ - 1]
  /\ calls' = [calls EXCEPT ![id] = @ + 1]
  /\ UNCHANGED <<myMap, stack, memory, granted, emits, astray>>

Next ==
  \/ \E e \in Events, h \in Handlers, n \in Counts : AddManyListener(e, h, n)
  \/ \E e \in Events, h \in Handlers : RemoveListener(e, h)
  \/ \E e \in Events : RemoveAllListeners(e)
  \/ \E e \in Events : Emit(e)
  \/ \E e \in Events : EmitFastAndSchedule(e)
  \/ Visit
  \/ VisitInvalid
  \/ EndEmit
  \/ \E id \in Ids : RunTask(id)

Spec == Init /\ [][Next]_vars

-----------------------------------------------------------------------------
(* The types of the variables; the histories grow together. *)
TypeOK ==
  /\ myMap \in [Events -> Seq(Listener)]
  /\ stack \in Seq(Frame)
  /\ memory \in {"defined", "undefined"}
  /\ granted \in Seq(Counts)
  /\ calls \in [Ids -> Nat]
  /\ queued \in [Ids -> Nat]
  /\ emits \in 0..MaxEmits /\ astray \in BOOLEAN

(* A listener registered with once or many is called, or scheduled to be   *)
(* called, at most as many times as it asked for (docs/api/emitter.md:     *)
(* "exactly once", "a `count` of times"), and when no emit is under way no *)
(* used-up listener is left for the next emit, as long as no tidy has met  *)
(* several used-up listeners and no emit was made inside one of the same   *)
(* event: nothing else makes emit, tidy and emitFastAndSchedule lose       *)
(* count.  The variables have their types.                                 *)
Budget ==
  /\ TypeOK
  /\ ~ astray =>
       /\ \A id \in Ids : granted[id] > 0 => calls[id] + queued[id] <= granted[id]
       /\ stack = <<>> /\ memory = "defined" =>
            \A e \in Events : \A i \in DOMAIN myMap[e] : myMap[e][i].count # 0

(* One emit calls its listeners in the order of their registration and     *)
(* none of them twice, whatever the handlers add and remove meanwhile.     *)
InOrder ==
  \A i \in DOMAIN stack :
    LET called == stack[i].called
    IN \A j, k \in DOMAIN called : j < k => called[j] < called[k]

(* A listener registered with on leaves the map only through off and       *)
(* allOff, or when a tidy meets several used-up listeners: one that erases *)
(* a single listener never takes another one along, whatever the handlers  *)
(* did meanwhile.                                                          *)
PersistentStays ==
  [][\A e \in Events :
       \/ \A l \in ToSet(myMap[e]) : l.count = -1 => l \in ToSet(myMap'[e])
       \/ RemoveAllListeners(e)
       \/ \E h \in Handlers : RemoveListener(e, h)
       \/ EndEmit /\ Last(stack).event = e /\ Several(myMap[e])
       \/ EmitFastAndSchedule(e) /\ Several(Decremented(myMap[e]))]_vars

=============================================================================
