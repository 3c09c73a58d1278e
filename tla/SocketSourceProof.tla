------------------------- MODULE SocketSourceProof --------------------------
(***************************************************************************)
(* Proofs about sockets as push sources, for any number of chains, chunks, *)
(* errors and connects.                                                    *)
(***************************************************************************)
EXTENDS SocketSource, FiniteSetTheorems, TLAPS

Pending == {c \in Chains : settled[c] = "pending"}

(* A chain is under way exactly while its promise is pending, and its      *)
(* handler has a chunk that was taken.                                     *)
ChainInv ==
  \A c \in Chains :
    /\ settled[c] = "pending" <=> pc[c] \notin {"none", "done"}
    /\ buffer[c] <= taken
    /\ pc[c] = "handle" => buffer[c] > 0

HoldInv == holds = Cardinality(Pending)

(* What was emitted was taken before. *)
EmitInv == \A j \in DOMAIN emitted : emitted[j] \in 1..taken

(* Until the program pauses the socket, or calls resume() while a call is  *)
(* under way, there is one reader at most, and there is none or the next   *)
(* resume() finds the socket resumed; the chunk its handler has is newer   *)
(* than all that were emitted.                                             *)
SoleReader ==
  pauses = "never" /\ overlaps = "never" =>
    /\ \A c, d \in Unfinished \union resuming : c = d
    /\ \A c \in Unfinished : IF pc[c] = "enter" THEN c \in resuming
                              ELSE myState = "Resumed" /\ (c \in resuming \/ myPromise = "set")
    /\ \A c \in Chains : pc[c] = "handle" =>
         \A j \in DOMAIN emitted : emitted[j] < buffer[c]

(* A datagram is with one handler, and was not emitted before. *)
SoleHandler ==
  kind = "udp" =>
    \A c \in Chains : pc[c] = "handle" =>
      /\ \A d \in Chains : pc[d] = "handle" /\ buffer[d] = buffer[c] => d = c
      /\ \A j \in DOMAIN emitted : emitted[j] # buffer[c]

(* A tcp socket that was not connected anew and is resumed has a chain.    *)
StreamReads ==
  kind = "tcp" /\ connects = 0 /\ open = "open" /\ myState = "Resumed" => Unfinished # {}

ConnectInv == connecting # "no" => connects > 0

(* The bounds are naturals. *)
LEMMA Bounds ==
  /\ MaxChains \in Nat /\ MaxChunks \in Nat /\ MaxErrors \in Nat
  /\ MaxConnects \in Nat /\ MaxEmits \in Nat
  BY SocketBounds

(* What a step does to the record of "data" events: nothing, or it adds    *)
(* the chunk of a handler.                                                 *)
LEMMA EmitStep ==
  ASSUME TypeOK, NEW n \in 1..MaxChunks,
         emitted' = IF Len(emitted) < MaxEmits THEN Append(emitted, n) ELSE emitted
  PROVE  /\ emitted' \in Seq(1..MaxChunks) /\ Len(emitted') <= MaxEmits
         /\ DOMAIN emitted = 1..Len(emitted) /\ DOMAIN emitted' = 1..Len(emitted')
         /\ Len(emitted) \in Nat /\ Len(emitted') \in {Len(emitted), Len(emitted) + 1}
         /\ \A j \in 1..Len(emitted) : emitted'[j] = emitted[j]
         /\ Len(emitted') # Len(emitted) => emitted'[Len(emitted) + 1] = n
         /\ Len(emitted') < MaxEmits => Len(emitted') = Len(emitted) + 1
<1>1. emitted \in Seq(1..MaxChunks) /\ Len(emitted) \in Nat /\ Len(emitted) <= MaxEmits
  BY DEF TypeOK
<1>2. CASE Len(emitted) < MaxEmits
  <2>1. emitted' = Append(emitted, n)
    BY <1>2
  <2>. QED
    BY <1>1, <1>2, <2>1, Bounds
<1>3. CASE ~(Len(emitted) < MaxEmits)
  BY <1>1, <1>3, Bounds
<1>. QED
  BY <1>2, <1>3

(* The same, event by event. *)
LEMMA EmitOrder ==
  ASSUME TypeOK, NEW n \in 1..MaxChunks,
         emitted' = IF Len(emitted) < MaxEmits THEN Append(emitted, n) ELSE emitted
  PROVE  /\ \A j \in DOMAIN emitted' :
              \/ j \in DOMAIN emitted /\ emitted'[j] = emitted[j]
              \/ j = Len(emitted) + 1 /\ emitted'[j] = n
         /\ \A j \in DOMAIN emitted : j \in Nat /\ j < Len(emitted) + 1 /\ emitted[j] \in Nat
         /\ Len(emitted) \in Nat
<1>1. \A j \in DOMAIN emitted : j \in Nat /\ j < Len(emitted) + 1 /\ emitted[j] \in Nat
  <2>1. emitted \in Seq(1..MaxChunks)
    BY DEF TypeOK
  <2>. QED
    BY <2>1, Bounds
<1>2. ASSUME NEW j \in DOMAIN emitted'
      PROVE  \/ j \in DOMAIN emitted /\ emitted'[j] = emitted[j]
             \/ j = Len(emitted) + 1 /\ emitted'[j] = n
  BY EmitStep
<1>3. Len(emitted) \in Nat
  BY DEF TypeOK
<1>. QED
  BY <1>1, <1>2, <1>3

(* The recorded chunks, as a set. *)
LEMMA EmitRange ==
  ASSUME TypeOK, NEW n \in 1..MaxChunks,
         emitted' = IF Len(emitted) < MaxEmits THEN Append(emitted, n) ELSE emitted
  PROVE  /\ \A j \in DOMAIN emitted' : emitted'[j] = n \/ (j \in DOMAIN emitted /\ emitted'[j] = emitted[j])
         /\ Range(emitted) \subseteq Range(emitted')
         /\ Len(emitted') < MaxEmits => n \in Range(emitted')
  BY EmitStep DEF Range

-----------------------------------------------------------------------------
(* A step keeps chains, their promises and their chunks together. *)
LEMMA ChainNext ==
  ASSUME TypeOK, ChainInv, [Next]_vars
  PROVE  ChainInv'
<1> USE DEF TypeOK, ChainInv, vars, link, wire, device, calls
<1>1. ASSUME Pause PROVE ChainInv'
  BY <1>1 DEF Pause
<1>2. ASSUME Close PROVE ChainInv'
  BY <1>2 DEF Close, Abort
<1>3. ASSUME Cancel PROVE ChainInv'
  BY <1>3 DEF Cancel, Abort
<1>4. ASSUME Connect PROVE ChainInv'
  BY <1>4 DEF Connect
<1>5. ASSUME Resolved PROVE ChainInv'
  BY <1>5 DEF Resolved, Abort
<1>6. ASSUME Connected PROVE ChainInv'
  BY <1>6 DEF Connected
<1>7. ASSUME Bind PROVE ChainInv'
  BY <1>7 DEF Bind, CanBind
<1>8. ASSUME Arrive PROVE ChainInv'
  BY <1>8 DEF Arrive
<1>9. ASSUME PeerCloses PROVE ChainInv'
  BY <1>9 DEF PeerCloses
<1>10. ASSUME NEW c \in Chains, Resume(c) PROVE ChainInv'
  BY <1>10 DEF Resume, BeginResume
<1>11. ASSUME NEW c \in Chains, Receive(c) PROVE ChainInv'
  BY <1>11 DEF Receive
<1>12. ASSUME NEW c \in Chains, Fail(c) PROVE ChainInv'
  BY <1>12 DEF Fail, EndChain
<1>13. ASSUME NEW c \in Chains, Cancelled(c) PROVE ChainInv'
  BY <1>13 DEF Cancelled, EndChain
<1>14. ASSUME NEW c \in Chains, Handle(c) PROVE ChainInv'
  BY <1>14 DEF Handle
<1>15. ASSUME NEW c \in Chains, HandleThrow(c) PROVE ChainInv'
  BY <1>15 DEF HandleThrow, EndChain
<1>16. ASSUME NEW c \in Chains, Continue(c) PROVE ChainInv'
  BY <1>16 DEF Continue, Deciding
<1>17. ASSUME NEW c \in Chains, Spin(c) PROVE ChainInv'
  BY <1>17 DEF Spin, Deciding
<1>18. ASSUME NEW c \in Chains, Stop(c) PROVE ChainInv'
  BY <1>18 DEF Stop, EndChain, Deciding
<1>20. ASSUME NEW c \in Chains, Enter(c) PROVE ChainInv'
  BY <1>20 DEF Enter
<1>21. ASSUME NEW c \in Chains, Return(c) PROVE ChainInv'
  BY <1>21 DEF Return
<1>22. ASSUME NEW c \in Chains, Post(c) PROVE ChainInv'
  BY <1>22 DEF Post
<1>19. CASE UNCHANGED vars
  BY <1>19
<1>. QED
  BY <1>1, <1>2, <1>3, <1>4, <1>5, <1>6, <1>7, <1>8, <1>9, <1>10, <1>11,
    <1>12, <1>13, <1>14, <1>15, <1>16, <1>17, <1>18, <1>19,
    <1>20, <1>21, <1>22 DEF Next, Methods, Reset, Step

-----------------------------------------------------------------------------
(* The chains that wait can be counted, before and after a step. *)
LEMMA PendingFinite ==
  /\ IsFiniteSet(Pending) /\ Cardinality(Pending) \in 0..MaxChains
  /\ IsFiniteSet(Pending)' /\ Cardinality(Pending)' \in 0..MaxChains
<1>1. IsFiniteSet(Chains) /\ Cardinality(Chains) = MaxChains
  BY FS_Interval, SocketBounds DEF Chains
<1>2. Pending \subseteq Chains /\ Pending' \subseteq Chains
  BY DEF Pending
<1>. QED
  BY <1>1, <1>2, FS_Subset, FS_CardinalityType, SocketBounds

(* A step that settles no promise and makes none. *)
LEMMA KeepsHolds ==
  ASSUME HoldInv, UNCHANGED <<settled, holds>>
  PROVE  HoldInv'
<1>1. Pending' = Pending
  BY DEF Pending
<1>. QED
  BY <1>1 DEF HoldInv

(* The end of a chain, on whichever path, releases the hold it took. *)
LEMMA EndHolds ==
  ASSUME TypeOK, ChainInv, HoldInv, NEW c \in Chains, NEW how \in {"resolved", "rejected"},
         pc[c] \notin {"none", "done"}, EndChain(c, how)
  PROVE  HoldInv'
<1>1. c \in Pending
  BY DEF ChainInv, Pending
<1>2. Pending' = Pending \ {c}
  BY DEF EndChain, TypeOK, Pending
<1>3. Cardinality(Pending \ {c}) = Cardinality(Pending) - 1
  BY <1>1, PendingFinite, FS_RemoveElement
<1>. QED
  BY <1>2, <1>3 DEF HoldInv, EndChain

(* One hold for every pending promise. *)
LEMMA HoldNext ==
  ASSUME TypeOK, ChainInv, HoldInv, [Next]_vars
  PROVE  HoldInv'
<1> USE DEF link, wire, device, calls
<1>1. ASSUME Pause PROVE HoldInv'
  BY <1>1, KeepsHolds DEF Pause
<1>2. ASSUME Close PROVE HoldInv'
  BY <1>2, KeepsHolds DEF Close
<1>3. ASSUME Cancel PROVE HoldInv'
  BY <1>3, KeepsHolds DEF Cancel
<1>4. ASSUME Connect PROVE HoldInv'
  BY <1>4, KeepsHolds DEF Connect
<1>5. ASSUME Resolved PROVE HoldInv'
  BY <1>5, KeepsHolds DEF Resolved
<1>6. ASSUME Connected PROVE HoldInv'
  BY <1>6, KeepsHolds DEF Connected
<1>7. ASSUME Bind PROVE HoldInv'
  BY <1>7, KeepsHolds DEF Bind
<1>8. ASSUME Arrive PROVE HoldInv'
  BY <1>8, KeepsHolds DEF Arrive
<1>9. ASSUME PeerCloses PROVE HoldInv'
  BY <1>9, KeepsHolds DEF PeerCloses
<1>10. ASSUME NEW c \in Chains, Resume(c) PROVE HoldInv'
  <2>1. c \notin Pending /\ Pending' = Pending \cup {c}
    BY <1>10 DEF Resume, BeginResume, ChainInv, Pending, TypeOK
  <2>2. Cardinality(Pending') = Cardinality(Pending) + 1
    BY <2>1, PendingFinite, FS_AddElement
  <2>. QED
    BY <1>10, <2>2 DEF Resume, BeginResume, HoldInv
<1>11. ASSUME NEW c \in Chains, Receive(c) PROVE HoldInv'
  BY <1>11, KeepsHolds DEF Receive
<1>12. ASSUME NEW c \in Chains, Fail(c) PROVE HoldInv'
  BY <1>12, EndHolds DEF Fail
<1>13. ASSUME NEW c \in Chains, Cancelled(c) PROVE HoldInv'
  BY <1>13, EndHolds DEF Cancelled
<1>14. ASSUME NEW c \in Chains, Handle(c) PROVE HoldInv'
  BY <1>14, KeepsHolds DEF Handle
<1>15. ASSUME NEW c \in Chains, HandleThrow(c) PROVE HoldInv'
  BY <1>15, EndHolds DEF HandleThrow
<1>16. ASSUME NEW c \in Chains, Continue(c) PROVE HoldInv'
  BY <1>16, KeepsHolds DEF Continue
<1>17. ASSUME NEW c \in Chains, Spin(c) PROVE HoldInv'
  BY <1>17, KeepsHolds DEF Spin
<1>18. ASSUME NEW c \in Chains, Stop(c) PROVE HoldInv'
  BY <1>18, EndHolds DEF Stop, Deciding
<1>20. ASSUME NEW c \in Chains, Enter(c) PROVE HoldInv'
  BY <1>20, KeepsHolds DEF Enter
<1>21. ASSUME NEW c \in Chains, Return(c) PROVE HoldInv'
  BY <1>21, KeepsHolds DEF Return
<1>22. ASSUME NEW c \in Chains, Post(c) PROVE HoldInv'
  BY <1>22, KeepsHolds DEF Post
<1>19. CASE UNCHANGED vars
  BY <1>19, KeepsHolds DEF vars
<1>. QED
  BY <1>1, <1>2, <1>3, <1>4, <1>5, <1>6, <1>7, <1>8, <1>9, <1>10, <1>11,
    <1>12, <1>13, <1>14, <1>15, <1>16, <1>17, <1>18, <1>19,
    <1>20, <1>21, <1>22 DEF Next, Methods, Reset, Step

(* Every step keeps the types. *)
LEMMA TypeNext ==
  ASSUME TypeOK, ChainInv, HoldInv, HoldInv', [Next]_vars
  PROVE  TypeOK'
<1> USE DEF TypeOK, vars, link, wire, device, calls
<1>0. holds' \in 0..MaxChains
  BY PendingFinite DEF HoldInv
<1>1. ASSUME Pause PROVE TypeOK'
  BY <1>1, Bounds, <1>0 DEF Pause
<1>2. ASSUME Close PROVE TypeOK'
  BY <1>2, Bounds, <1>0 DEF Close, Abort
<1>3. ASSUME Cancel PROVE TypeOK'
  BY <1>3, Bounds, <1>0 DEF Cancel, Abort
<1>4. ASSUME Connect PROVE TypeOK'
  BY <1>4, Bounds, <1>0 DEF Connect
<1>5. ASSUME Resolved PROVE TypeOK'
  <2>1. CASE connecting' = "no" /\ UNCHANGED <<open, bound, peer, arrived, pc>>
    BY <1>5, <1>0, <2>1, Bounds DEF Resolved
  <2>2. CASE /\ connecting' = "connect" /\ open' = "open" /\ bound' = FALSE
             /\ peer' = "up" /\ arrived' = taken /\ Abort
    <3>1. pc' \in [Chains -> {"none", "enter", "start", "post", "receive", "aborted", "handle", "decide", "done"}]
      BY <2>2 DEF Abort
    <3>2. taken' = taken /\ arrived' \in 0..MaxChunks /\ taken' \in 0..arrived'
      BY <1>5, <2>2, Bounds DEF Resolved
    <3>. QED
      BY <1>5, <1>0, <2>2, <3>1, <3>2 DEF Resolved
  <2>. QED
    BY <1>5, <2>1, <2>2 DEF Resolved
<1>6. ASSUME Connected PROVE TypeOK'
  BY <1>6, Bounds, <1>0 DEF Connected
<1>7. ASSUME Bind PROVE TypeOK'
  BY <1>7, Bounds, <1>0 DEF Bind, CanBind
<1>8. ASSUME Arrive PROVE TypeOK'
  BY <1>8, Bounds, <1>0 DEF Arrive
<1>9. ASSUME PeerCloses PROVE TypeOK'
  BY <1>9, Bounds, <1>0 DEF PeerCloses
<1>10. ASSUME NEW c \in Chains, Resume(c) PROVE TypeOK'
  BY <1>10, Bounds, <1>0 DEF Resume, BeginResume
<1>11. ASSUME NEW c \in Chains, Receive(c) PROVE TypeOK'
  BY <1>11, Bounds, <1>0 DEF Receive
<1>12. ASSUME NEW c \in Chains, Fail(c) PROVE TypeOK'
  BY <1>12, Bounds, <1>0 DEF Fail, EndChain
<1>13. ASSUME NEW c \in Chains, Cancelled(c) PROVE TypeOK'
  BY <1>13, Bounds, <1>0 DEF Cancelled, EndChain
<1>14. ASSUME NEW c \in Chains, Handle(c) PROVE TypeOK'
  <2>1. emitted' \in Seq(1..MaxChunks) /\ Len(emitted') <= MaxEmits
    BY <1>14, EmitStep DEF Handle, ChainInv
  <2>. QED
    BY <1>14, <1>0, <2>1 DEF Handle
<1>15. ASSUME NEW c \in Chains, HandleThrow(c) PROVE TypeOK'
  <2>1. emitted' \in Seq(1..MaxChunks) /\ Len(emitted') <= MaxEmits
    BY <1>15, EmitStep DEF HandleThrow, ChainInv
  <2>. QED
    BY <1>15, <1>0, <2>1, Bounds DEF HandleThrow, EndChain
<1>16. ASSUME NEW c \in Chains, Continue(c) PROVE TypeOK'
  BY <1>16, Bounds, <1>0 DEF Continue
<1>17. ASSUME NEW c \in Chains, Spin(c) PROVE TypeOK'
  BY <1>17, Bounds, <1>0 DEF Spin
<1>18. ASSUME NEW c \in Chains, Stop(c) PROVE TypeOK'
  BY <1>18, Bounds, <1>0 DEF Stop, EndChain
<1>20. ASSUME NEW c \in Chains, Enter(c) PROVE TypeOK'
  BY <1>20, Bounds, <1>0 DEF Enter
<1>21. ASSUME NEW c \in Chains, Return(c) PROVE TypeOK'
  BY <1>21, Bounds, <1>0 DEF Return
<1>22. ASSUME NEW c \in Chains, Post(c) PROVE TypeOK'
  BY <1>22, Bounds, <1>0 DEF Post
<1>19. CASE UNCHANGED vars
  BY <1>19, Bounds, <1>0
<1>. QED
  BY <1>1, <1>2, <1>3, <1>4, <1>5, <1>6, <1>7, <1>8, <1>9, <1>10, <1>11,
    <1>12, <1>13, <1>14, <1>15, <1>16, <1>17, <1>18, <1>19,
    <1>20, <1>21, <1>22 DEF Next, Methods, Reset, Step

-----------------------------------------------------------------------------
(* Only what was taken is emitted. *)
LEMMA EmitNext ==
  ASSUME TypeOK, ChainInv, EmitInv, [Next]_vars
  PROVE  EmitInv'
<1> USE DEF EmitInv, vars, link, wire, device, calls
<1>1. ASSUME Pause PROVE EmitInv'
  BY <1>1 DEF Pause
<1>2. ASSUME Close PROVE EmitInv'
  BY <1>2 DEF Close
<1>3. ASSUME Cancel PROVE EmitInv'
  BY <1>3 DEF Cancel
<1>4. ASSUME Connect PROVE EmitInv'
  BY <1>4 DEF Connect
<1>5. ASSUME Resolved PROVE EmitInv'
  BY <1>5 DEF Resolved
<1>6. ASSUME Connected PROVE EmitInv'
  BY <1>6 DEF Connected
<1>7. ASSUME Bind PROVE EmitInv'
  BY <1>7 DEF Bind
<1>8. ASSUME Arrive PROVE EmitInv'
  BY <1>8 DEF Arrive
<1>9. ASSUME PeerCloses PROVE EmitInv'
  BY <1>9 DEF PeerCloses
<1>10. ASSUME NEW c \in Chains, Resume(c) PROVE EmitInv'
  BY <1>10 DEF Resume, BeginResume
<1>11. ASSUME NEW c \in Chains, Receive(c) PROVE EmitInv'
  BY <1>11 DEF Receive, TypeOK
<1>12. ASSUME NEW c \in Chains, Fail(c) PROVE EmitInv'
  BY <1>12 DEF Fail
<1>13. ASSUME NEW c \in Chains, Cancelled(c) PROVE EmitInv'
  BY <1>13 DEF Cancelled
<1>14. ASSUME NEW c \in Chains, Handle(c) PROVE EmitInv'
  BY <1>14, EmitRange DEF Handle, TypeOK, ChainInv
<1>15. ASSUME NEW c \in Chains, HandleThrow(c) PROVE EmitInv'
  BY <1>15, EmitRange DEF HandleThrow, EndChain, TypeOK, ChainInv
<1>16. ASSUME NEW c \in Chains, Continue(c) PROVE EmitInv'
  BY <1>16 DEF Continue
<1>17. ASSUME NEW c \in Chains, Spin(c) PROVE EmitInv'
  BY <1>17 DEF Spin
<1>18. ASSUME NEW c \in Chains, Stop(c) PROVE EmitInv'
  BY <1>18 DEF Stop
<1>20. ASSUME NEW c \in Chains, Enter(c) PROVE EmitInv'
  BY <1>20 DEF Enter
<1>21. ASSUME NEW c \in Chains, Return(c) PROVE EmitInv'
  BY <1>21 DEF Return
<1>22. ASSUME NEW c \in Chains, Post(c) PROVE EmitInv'
  BY <1>22 DEF Post
<1>19. CASE UNCHANGED vars
  BY <1>19
<1>. QED
  BY <1>1, <1>2, <1>3, <1>4, <1>5, <1>6, <1>7, <1>8, <1>9, <1>10, <1>11,
    <1>12, <1>13, <1>14, <1>15, <1>16, <1>17, <1>18, <1>19,
    <1>20, <1>21, <1>22 DEF Next, Methods, Reset, Step

(* Without pause() or overlapping calls a second reader is never started:  *)
(* resume() does nothing while there is one, and each error that ends a    *)
(* chain ends the only one.                                                *)
LEMMA SoleReaderNext ==
  ASSUME TypeOK, ChainInv, EmitInv, SoleReader, [Next]_vars
  PROVE  SoleReader'
<1> USE DEF TypeOK, ChainInv, EmitInv, SoleReader, Unfinished, vars, link,
  wire, device, calls
<1>1. ASSUME Pause PROVE SoleReader'
  BY <1>1 DEF Pause
<1>2. ASSUME Close PROVE SoleReader'
  BY <1>2, SMTT(30) DEF Close, Abort
<1>3. ASSUME Cancel PROVE SoleReader'
  BY <1>3 DEF Cancel, Abort
<1>4. ASSUME Connect PROVE SoleReader'
  BY <1>4 DEF Connect
<1>5. ASSUME Resolved PROVE SoleReader'
  <2>1. Unfinished' = Unfinished
    BY <1>5 DEF Resolved, Abort
  <2>2. \A d \in Chains :
          (pc'[d] = "handle" => pc[d] = "handle") /\ (pc'[d] = "enter" <=> pc[d] = "enter")
    BY <1>5 DEF Resolved, Abort
  <2>3. UNCHANGED <<myState, myPromise, resuming, overlaps, pauses, emitted, buffer>>
    BY <1>5 DEF Resolved
  <2>4. ASSUME NEW d \in Unfinished', pauses = "never", overlaps = "never"
        PROVE  IF pc'[d] = "enter" THEN d \in resuming'
               ELSE myState' = "Resumed" /\ (d \in resuming' \/ myPromise' = "set")
    BY <2>1, <2>2, <2>3, <2>4
  <2>. QED
    BY <2>1, <2>2, <2>3, <2>4
<1>6. ASSUME Connected PROVE SoleReader'
  BY <1>6 DEF Connected
<1>7. ASSUME Bind PROVE SoleReader'
  BY <1>7 DEF Bind, CanBind
<1>8. ASSUME Arrive PROVE SoleReader'
  BY <1>8 DEF Arrive
<1>9. ASSUME PeerCloses PROVE SoleReader'
  BY <1>9 DEF PeerCloses
<1>10. ASSUME NEW c \in Chains, Resume(c) PROVE SoleReader'
  BY <1>10 DEF Resume, BeginResume
<1>11. ASSUME NEW c \in Chains, Receive(c) PROVE SoleReader'
  BY <1>11 DEF Receive
<1>12. ASSUME NEW c \in Chains, Fail(c) PROVE SoleReader'
  BY <1>12, SMTT(30) DEF Fail, EndChain
<1>13. ASSUME NEW c \in Chains, Cancelled(c) PROVE SoleReader'
  BY <1>13 DEF Cancelled, EndChain
<1>14. ASSUME NEW c \in Chains, Handle(c) PROVE SoleReader'
  <2>1. Unfinished' \subseteq Unfinished /\ c \in Unfinished /\ pc'[c] # "handle"
    BY <1>14 DEF Handle
  <2>2. \A d \in Chains : pc'[d] = "handle" => d \in Unfinished /\ d # c
    BY <1>14, <2>1 DEF Handle
  <2>. QED
    BY <1>14, <2>1, <2>2 DEF Handle
<1>15. ASSUME NEW c \in Chains, HandleThrow(c) PROVE SoleReader'
  <2>1. Unfinished' \subseteq Unfinished /\ c \in Unfinished /\ pc'[c] # "handle"
    BY <1>15 DEF HandleThrow, EndChain
  <2>2. \A d \in Chains : pc'[d] = "handle" => d \in Unfinished /\ d # c
    BY <1>15, <2>1 DEF HandleThrow, EndChain
  <2>. QED
    BY <1>15, <2>1, <2>2 DEF HandleThrow, EndChain
<1>16. ASSUME NEW c \in Chains, Continue(c) PROVE SoleReader'
  BY <1>16 DEF Continue, Deciding
<1>17. ASSUME NEW c \in Chains, Spin(c) PROVE SoleReader'
  BY <1>17 DEF Spin, Deciding
<1>18. ASSUME NEW c \in Chains, Stop(c) PROVE SoleReader'
  BY <1>18 DEF Stop, EndChain, Deciding
<1>20. ASSUME NEW c \in Chains, Enter(c) PROVE SoleReader'
  BY <1>20 DEF Enter
<1>21. ASSUME NEW c \in Chains, Return(c) PROVE SoleReader'
  BY <1>21 DEF Return
<1>22. ASSUME NEW c \in Chains, Post(c) PROVE SoleReader'
  BY <1>22 DEF Post
<1>19. CASE UNCHANGED vars
  BY <1>19
<1>. QED
  BY <1>1, <1>2, <1>3, <1>4, <1>5, <1>6, <1>7, <1>8, <1>9, <1>10, <1>11,
    <1>12, <1>13, <1>14, <1>15, <1>16, <1>17, <1>18, <1>19,
    <1>20, <1>21, <1>22 DEF Next, Methods, Reset, Step

(* Receives take the datagrams one by one, and each is emitted once. *)
LEMMA SoleHandlerNext ==
  ASSUME TypeOK, ChainInv, EmitInv, SoleHandler, [Next]_vars
  PROVE  SoleHandler'
<1> USE DEF TypeOK, ChainInv, EmitInv, SoleHandler, vars, link, wire,
  device, calls
<1>1. ASSUME Pause PROVE SoleHandler'
  BY <1>1 DEF Pause
<1>2. ASSUME Close PROVE SoleHandler'
  BY <1>2 DEF Close, Abort
<1>3. ASSUME Cancel PROVE SoleHandler'
  BY <1>3 DEF Cancel, Abort
<1>4. ASSUME Connect PROVE SoleHandler'
  BY <1>4 DEF Connect
<1>5. ASSUME Resolved PROVE SoleHandler'
  BY <1>5 DEF Resolved, Abort
<1>6. ASSUME Connected PROVE SoleHandler'
  BY <1>6 DEF Connected
<1>7. ASSUME Bind PROVE SoleHandler'
  BY <1>7 DEF Bind, CanBind
<1>8. ASSUME Arrive PROVE SoleHandler'
  BY <1>8 DEF Arrive
<1>9. ASSUME PeerCloses PROVE SoleHandler'
  BY <1>9 DEF PeerCloses
<1>10. ASSUME NEW c \in Chains, Resume(c) PROVE SoleHandler'
  BY <1>10 DEF Resume, BeginResume
<1>11. ASSUME NEW c \in Chains, Receive(c) PROVE SoleHandler'
  BY <1>11 DEF Receive
<1>12. ASSUME NEW c \in Chains, Fail(c) PROVE SoleHandler'
  BY <1>12 DEF Fail, EndChain
<1>13. ASSUME NEW c \in Chains, Cancelled(c) PROVE SoleHandler'
  BY <1>13 DEF Cancelled, EndChain
<1>14. ASSUME NEW c \in Chains, Handle(c) PROVE SoleHandler'
  BY <1>14, EmitStep, Bounds DEF Handle
<1>15. ASSUME NEW c \in Chains, HandleThrow(c) PROVE SoleHandler'
  BY <1>15, EmitStep, Bounds DEF HandleThrow, EndChain
<1>16. ASSUME NEW c \in Chains, Continue(c) PROVE SoleHandler'
  BY <1>16 DEF Continue, Deciding
<1>17. ASSUME NEW c \in Chains, Spin(c) PROVE SoleHandler'
  BY <1>17 DEF Spin, Deciding
<1>18. ASSUME NEW c \in Chains, Stop(c) PROVE SoleHandler'
  BY <1>18 DEF Stop, EndChain, Deciding
<1>20. ASSUME NEW c \in Chains, Enter(c) PROVE SoleHandler'
  BY <1>20 DEF Enter
<1>21. ASSUME NEW c \in Chains, Return(c) PROVE SoleHandler'
  BY <1>21 DEF Return
<1>22. ASSUME NEW c \in Chains, Post(c) PROVE SoleHandler'
  BY <1>22 DEF Post
<1>19. CASE UNCHANGED vars
  BY <1>19
<1>. QED
  BY <1>1, <1>2, <1>3, <1>4, <1>5, <1>6, <1>7, <1>8, <1>9, <1>10, <1>11,
    <1>12, <1>13, <1>14, <1>15, <1>16, <1>17, <1>18, <1>19,
    <1>20, <1>21, <1>22 DEF Next, Methods, Reset, Step

(* The order of the events. *)
LEMMA OrderNext ==
  ASSUME TypeOK, ChainInv, SoleReader, SoleHandler, InOrder, [Next]_vars
  PROVE  InOrder'
<1> USE DEF ChainInv, SoleReader, SoleHandler, InOrder, vars, link, wire,
  device, calls
<1>1. ASSUME Pause PROVE InOrder'
  BY <1>1 DEF Pause
<1>2. ASSUME Close PROVE InOrder'
  BY <1>2 DEF Close
<1>3. ASSUME Cancel PROVE InOrder'
  BY <1>3 DEF Cancel
<1>4. ASSUME Connect PROVE InOrder'
  BY <1>4 DEF Connect
<1>5. ASSUME Resolved PROVE InOrder'
  BY <1>5 DEF Resolved
<1>6. ASSUME Connected PROVE InOrder'
  BY <1>6 DEF Connected
<1>7. ASSUME Bind PROVE InOrder'
  BY <1>7 DEF Bind
<1>8. ASSUME Arrive PROVE InOrder'
  BY <1>8 DEF Arrive
<1>9. ASSUME PeerCloses PROVE InOrder'
  BY <1>9 DEF PeerCloses
<1>10. ASSUME NEW c \in Chains, Resume(c) PROVE InOrder'
  BY <1>10 DEF Resume, BeginResume
<1>11. ASSUME NEW c \in Chains, Receive(c) PROVE InOrder'
  BY <1>11 DEF Receive
<1>12. ASSUME NEW c \in Chains, Fail(c) PROVE InOrder'
  BY <1>12 DEF Fail
<1>13. ASSUME NEW c \in Chains, Cancelled(c) PROVE InOrder'
  BY <1>13 DEF Cancelled
<1>14. ASSUME NEW c \in Chains, Handle(c) PROVE InOrder'
  <2>1. buffer[c] \in 1..MaxChunks
    BY <1>14 DEF Handle, TypeOK
  <2>2. emitted' = IF Len(emitted) < MaxEmits THEN Append(emitted, buffer[c]) ELSE emitted
    BY <1>14 DEF Handle
  <2>3. /\ \A j \in DOMAIN emitted' :
             \/ j \in DOMAIN emitted /\ emitted'[j] = emitted[j]
             \/ j = Len(emitted) + 1 /\ emitted'[j] = buffer[c]
        /\ \A j \in DOMAIN emitted : j \in Nat /\ j < Len(emitted) + 1 /\ emitted[j] \in Nat
        /\ Len(emitted) \in Nat
    BY <2>1, <2>2, EmitOrder
  <2>4. ASSUME pauses' = "never", overlaps' = "never", NEW j \in DOMAIN emitted', NEW k \in DOMAIN emitted', j < k
        PROVE  emitted'[j] < emitted'[k]
    <3>1. pauses = "never" /\ overlaps = "never" /\ \A i \in DOMAIN emitted : emitted[i] < buffer[c]
      BY <1>14, <2>4 DEF Handle
    <3>2. j \in DOMAIN emitted /\ emitted'[j] = emitted[j]
      BY <2>3, <2>4
    <3>. QED
      BY <2>3, <2>4, <3>1, <3>2
  <2>5. ASSUME kind' = "udp", NEW j \in DOMAIN emitted', NEW k \in DOMAIN emitted',
               emitted'[j] = emitted'[k]
        PROVE  j = k
    <3>1. kind = "udp" /\ \A i \in DOMAIN emitted : emitted[i] # buffer[c]
      BY <1>14, <2>5 DEF Handle
    <3>. QED
      BY <2>3, <2>5, <3>1
  <2>. QED
    BY <2>4, <2>5
<1>15. ASSUME NEW c \in Chains, HandleThrow(c) PROVE InOrder'
  <2>1. buffer[c] \in 1..MaxChunks
    BY <1>15 DEF HandleThrow, TypeOK
  <2>2. emitted' = IF Len(emitted) < MaxEmits THEN Append(emitted, buffer[c]) ELSE emitted
    BY <1>15 DEF HandleThrow
  <2>3. /\ \A j \in DOMAIN emitted' :
             \/ j \in DOMAIN emitted /\ emitted'[j] = emitted[j]
             \/ j = Len(emitted) + 1 /\ emitted'[j] = buffer[c]
        /\ \A j \in DOMAIN emitted : j \in Nat /\ j < Len(emitted) + 1 /\ emitted[j] \in Nat
        /\ Len(emitted) \in Nat
    BY <2>1, <2>2, EmitOrder
  <2>4. ASSUME pauses' = "never", overlaps' = "never", NEW j \in DOMAIN emitted', NEW k \in DOMAIN emitted', j < k
        PROVE  emitted'[j] < emitted'[k]
    <3>1. pauses = "never" /\ overlaps = "never" /\ \A i \in DOMAIN emitted : emitted[i] < buffer[c]
      BY <1>15, <2>4 DEF HandleThrow
    <3>2. j \in DOMAIN emitted /\ emitted'[j] = emitted[j]
      BY <2>3, <2>4
    <3>. QED
      BY <2>3, <2>4, <3>1, <3>2
  <2>5. ASSUME kind' = "udp", NEW j \in DOMAIN emitted', NEW k \in DOMAIN emitted',
               emitted'[j] = emitted'[k]
        PROVE  j = k
    <3>1. kind = "udp" /\ \A i \in DOMAIN emitted : emitted[i] # buffer[c]
      BY <1>15, <2>5 DEF HandleThrow
    <3>. QED
      BY <2>3, <2>5, <3>1
  <2>. QED
    BY <2>4, <2>5
<1>16. ASSUME NEW c \in Chains, Continue(c) PROVE InOrder'
  BY <1>16 DEF Continue
<1>17. ASSUME NEW c \in Chains, Spin(c) PROVE InOrder'
  BY <1>17 DEF Spin
<1>18. ASSUME NEW c \in Chains, Stop(c) PROVE InOrder'
  BY <1>18 DEF Stop
<1>20. ASSUME NEW c \in Chains, Enter(c) PROVE InOrder'
  BY <1>20 DEF Enter
<1>21. ASSUME NEW c \in Chains, Return(c) PROVE InOrder'
  BY <1>21 DEF Return
<1>22. ASSUME NEW c \in Chains, Post(c) PROVE InOrder'
  BY <1>22 DEF Post
<1>19. CASE UNCHANGED vars
  BY <1>19
<1>. QED
  BY <1>1, <1>2, <1>3, <1>4, <1>5, <1>6, <1>7, <1>8, <1>9, <1>10, <1>11,
    <1>12, <1>13, <1>14, <1>15, <1>16, <1>17, <1>18, <1>19,
    <1>20, <1>21, <1>22 DEF Next, Methods, Reset, Step

(* No step drops the chunk of a handler. *)
LEMMA LosesNext ==
  ASSUME TypeOK, ChainInv, LosesNothing, [Next]_vars
  PROVE  LosesNothing'
<1> USE DEF TypeOK, ChainInv, LosesNothing, vars, link, wire, device, calls
<1>1. ASSUME Pause PROVE LosesNothing'
  BY <1>1 DEF Pause
<1>2. ASSUME Close PROVE LosesNothing'
  BY <1>2 DEF Close, Abort
<1>3. ASSUME Cancel PROVE LosesNothing'
  BY <1>3 DEF Cancel, Abort
<1>4. ASSUME Connect PROVE LosesNothing'
  BY <1>4 DEF Connect
<1>5. ASSUME Resolved PROVE LosesNothing'
  BY <1>5 DEF Resolved, Abort
<1>6. ASSUME Connected PROVE LosesNothing'
  BY <1>6 DEF Connected
<1>7. ASSUME Bind PROVE LosesNothing'
  BY <1>7 DEF Bind, CanBind
<1>8. ASSUME Arrive PROVE LosesNothing'
  BY <1>8 DEF Arrive
<1>9. ASSUME PeerCloses PROVE LosesNothing'
  BY <1>9 DEF PeerCloses
<1>10. ASSUME NEW c \in Chains, Resume(c) PROVE LosesNothing'
  BY <1>10 DEF Resume, BeginResume
<1>11. ASSUME NEW c \in Chains, Receive(c) PROVE LosesNothing'
  BY <1>11 DEF Receive
<1>12. ASSUME NEW c \in Chains, Fail(c) PROVE LosesNothing'
  BY <1>12 DEF Fail, EndChain
<1>13. ASSUME NEW c \in Chains, Cancelled(c) PROVE LosesNothing'
  BY <1>13 DEF Cancelled, EndChain
<1>14. ASSUME NEW c \in Chains, Handle(c) PROVE LosesNothing'
  BY <1>14, EmitRange DEF Handle
<1>15. ASSUME NEW c \in Chains, HandleThrow(c) PROVE LosesNothing'
  BY <1>15, EmitRange DEF HandleThrow, EndChain
<1>16. ASSUME NEW c \in Chains, Continue(c) PROVE LosesNothing'
  BY <1>16 DEF Continue, Deciding
<1>17. ASSUME NEW c \in Chains, Spin(c) PROVE LosesNothing'
  BY <1>17 DEF Spin, Deciding
<1>18. ASSUME NEW c \in Chains, Stop(c) PROVE LosesNothing'
  BY <1>18 DEF Stop, EndChain, Deciding
<1>20. ASSUME NEW c \in Chains, Enter(c) PROVE LosesNothing'
  BY <1>20 DEF Enter
<1>21. ASSUME NEW c \in Chains, Return(c) PROVE LosesNothing'
  BY <1>21 DEF Return
<1>22. ASSUME NEW c \in Chains, Post(c) PROVE LosesNothing'
  BY <1>22 DEF Post
<1>19. CASE UNCHANGED vars
  BY <1>19
<1>. QED
  BY <1>1, <1>2, <1>3, <1>4, <1>5, <1>6, <1>7, <1>8, <1>9, <1>10, <1>11,
    <1>12, <1>13, <1>14, <1>15, <1>16, <1>17, <1>18, <1>19,
    <1>20, <1>21, <1>22 DEF Next, Methods, Reset, Step

(* Every end of a chain of a tcp socket leaves it paused, or closed until  *)
(* a connect().                                                            *)
LEMMA ReadsNext ==
  ASSUME TypeOK, ConnectInv, StreamReads, [Next]_vars
  PROVE  (ConnectInv /\ StreamReads)'
<1> USE DEF TypeOK, ConnectInv, StreamReads, Unfinished, vars, link,
  wire, device, calls
<1>1. ASSUME Pause PROVE (ConnectInv /\ StreamReads)'
  BY <1>1 DEF Pause
<1>2. ASSUME Close PROVE (ConnectInv /\ StreamReads)'
  BY <1>2 DEF Close, Abort
<1>3. ASSUME Cancel PROVE (ConnectInv /\ StreamReads)'
  BY <1>3 DEF Cancel, Abort
<1>4. ASSUME Connect PROVE (ConnectInv /\ StreamReads)'
  BY <1>4 DEF Connect
<1>5. ASSUME Resolved PROVE (ConnectInv /\ StreamReads)'
  BY <1>5 DEF Resolved, Abort
<1>6. ASSUME Connected PROVE (ConnectInv /\ StreamReads)'
  BY <1>6 DEF Connected
<1>7. ASSUME Bind PROVE (ConnectInv /\ StreamReads)'
  BY <1>7 DEF Bind, CanBind
<1>8. ASSUME Arrive PROVE (ConnectInv /\ StreamReads)'
  BY <1>8 DEF Arrive
<1>9. ASSUME PeerCloses PROVE (ConnectInv /\ StreamReads)'
  BY <1>9 DEF PeerCloses
<1>10. ASSUME NEW c \in Chains, Resume(c) PROVE (ConnectInv /\ StreamReads)'
  BY <1>10 DEF Resume, BeginResume
<1>11. ASSUME NEW c \in Chains, Receive(c) PROVE (ConnectInv /\ StreamReads)'
  BY <1>11 DEF Receive
<1>12. ASSUME NEW c \in Chains, Fail(c) PROVE (ConnectInv /\ StreamReads)'
  BY <1>12 DEF Fail, EndChain
<1>13. ASSUME NEW c \in Chains, Cancelled(c) PROVE (ConnectInv /\ StreamReads)'
  BY <1>13 DEF Cancelled, EndChain
<1>14. ASSUME NEW c \in Chains, Handle(c) PROVE (ConnectInv /\ StreamReads)'
  BY <1>14 DEF Handle
<1>15. ASSUME NEW c \in Chains, HandleThrow(c) PROVE (ConnectInv /\ StreamReads)'
  BY <1>15 DEF HandleThrow, EndChain
<1>16. ASSUME NEW c \in Chains, Continue(c) PROVE (ConnectInv /\ StreamReads)'
  BY <1>16 DEF Continue, Deciding
<1>17. ASSUME NEW c \in Chains, Spin(c) PROVE (ConnectInv /\ StreamReads)'
  BY <1>17 DEF Spin, Deciding
<1>18. ASSUME NEW c \in Chains, Stop(c) PROVE (ConnectInv /\ StreamReads)'
  BY <1>18 DEF Stop, EndChain, Deciding
<1>20. ASSUME NEW c \in Chains, Enter(c) PROVE (ConnectInv /\ StreamReads)'
  BY <1>20 DEF Enter
<1>21. ASSUME NEW c \in Chains, Return(c) PROVE (ConnectInv /\ StreamReads)'
  BY <1>21 DEF Return
<1>22. ASSUME NEW c \in Chains, Post(c) PROVE (ConnectInv /\ StreamReads)'
  BY <1>22 DEF Post
<1>19. CASE UNCHANGED vars
  BY <1>19
<1>. QED
  BY <1>1, <1>2, <1>3, <1>4, <1>5, <1>6, <1>7, <1>8, <1>9, <1>10, <1>11,
    <1>12, <1>13, <1>14, <1>15, <1>16, <1>17, <1>18, <1>19,
    <1>20, <1>21, <1>22 DEF Next, Methods, Reset, Step

-----------------------------------------------------------------------------
SocketInv ==
  /\ TypeOK /\ ChainInv /\ HoldInv /\ EmitInv /\ SoleReader /\ SoleHandler
  /\ ConnectInv /\ InOrder /\ LosesNothing /\ StreamReads

(* The invariant holds before the socket is used. *)
LEMMA SocketInit == Init => SocketInv
<1>1. ASSUME Init PROVE TypeOK
  <2>1. kind \in {"tcp", "udp"} /\ open \in {"open", "closed"}
    BY <1>1, KindsAssumption DEF Init
  <2>2. bound \in BOOLEAN /\ (bound => open = "open")
    BY <1>1, KindsAssumption DEF Init
  <2>. QED
    BY <1>1, <2>1, <2>2, Bounds DEF Init, TypeOK
<1>2. ASSUME Init PROVE HoldInv
  <2>1. Pending = {}
    BY <1>2 DEF Init, Pending
  <2>. QED
    BY <1>2, <2>1, FS_EmptySet DEF Init, HoldInv
<1>3. ASSUME Init
      PROVE  /\ ChainInv /\ EmitInv /\ SoleReader /\ SoleHandler /\ ConnectInv
             /\ InOrder /\ LosesNothing /\ StreamReads
  BY <1>3 DEF Init, ChainInv, EmitInv, SoleReader, SoleHandler, ConnectInv,
    InOrder, LosesNothing, StreamReads, Unfinished
<1>. QED
  BY <1>1, <1>2, <1>3 DEF SocketInv

(* The invariant that the theorems below are read off from. *)
LEMMA SocketCorrect == Spec => []SocketInv
<1>1. SocketInv /\ [Next]_vars => SocketInv'
  BY TypeNext, ChainNext, HoldNext, EmitNext, SoleReaderNext,
     SoleHandlerNext, OrderNext, LosesNext, ReadsNext DEF SocketInv
<1>. QED
  BY SocketInit, <1>1, PTL DEF Spec

(* The scheduler is held once for every chain of receive handlers that is  *)
(* under way, on every path out of the handler.                            *)
THEOREM HoldsCorrect == Spec => []ChainAccounting
<1>1. SocketInv => ChainAccounting
  BY DEF SocketInv, ChainInv, HoldInv, Pending, ChainAccounting, Unfinished, TypeOK
<1>. QED
  BY SocketCorrect, <1>1, PTL

(* Pausing, cancelling, closing and connecting lose no chunk that a receive *)
(* has taken: it is emitted or with a handler that will emit it.            *)
THEOREM LosesCorrect == Spec => []LosesNothing
<1>1. SocketInv => LosesNothing
  BY DEF SocketInv
<1>. QED
  BY SocketCorrect, <1>1, PTL

(* Chunks are emitted in order and once as long as the program does not    *)
(* pause the socket or overlap calls of resume(), and a datagram is        *)
(* emitted once in any case.                                               *)
THEOREM OrderCorrect == Spec => []InOrder
<1>1. SocketInv => InOrder
  BY DEF SocketInv
<1>. QED
  BY SocketCorrect, <1>1, PTL

(* A tcp socket that claims to be resumed has a chain that reads. *)
THEOREM ReadsCorrect == Spec => []StreamResumeReads
<1>1. SocketInv => StreamResumeReads
  BY DEF SocketInv, StreamReads, StreamResumeReads
<1>. QED
  BY SocketCorrect, <1>1, PTL
=============================================================================
