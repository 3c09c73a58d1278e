---------------------------- MODULE EmitterProof ----------------------------
(***************************************************************************)
(* Proofs about the emitter for any events, handlers and counts, and any   *)
(* number of listeners and nested emits.                                   *)
(*                                                                         *)
(* remove_if and tidy walk over a vector of any length; what they leave of *)
(* it is shown by induction on how far they have come: the walk is a       *)
(* function from positions to the vector so far, and the positions at      *)
(* which a fact holds are a set that contains 0 and every successor.       *)
(*                                                                         *)
(* EmitterInv keeps the vectors and the loops in the order of              *)
(* registration, which gives InOrder.  BudgetInv adds the accounts: what   *)
(* each listener may still be called, against what it asked for.           *)
(***************************************************************************)
EXTENDS Emitter, SequenceTheorems, FiniteSetTheorems, WellFoundedInduction, TLAPS

(* Induction over the natural numbers, for a set. *)
LEMMA SetInduction ==
  ASSUME NEW S \in SUBSET Nat, 0 \in S, \A n \in S : n + 1 \in S
  PROVE  S = Nat
<1>1. SUFFICES ASSUME Nat \ S # {} PROVE FALSE
  OBVIOUS
<1>. PICK R : R = {ss \in Nat \X Nat : ss[1] < ss[2]}
  OBVIOUS
<1>2. IsWellFoundedOn(R, Nat)
  BY NatLessThanWellFounded DEF OpToRel
<1>3. PICK x \in Nat \ S : \A y \in Nat \ S : ~ (<<y, x>> \in R)
  <2>1. Nat \ S \subseteq Nat
    OBVIOUS
  <2>. QED
    BY <1>1, <1>2, <2>1, WFMin
<1>4. \A y \in Nat \ S : ~ (y < x)
  BY <1>3
<1>5. x # 0 /\ x - 1 \in Nat /\ x - 1 < x
  OBVIOUS
<1>6. x - 1 \in S
  BY <1>4, <1>5
<1>. QED
  BY <1>6

-----------------------------------------------------------------------------
(* What is left of a vector. *)

(* g says where the elements of new stand in old: further back or where    *)
(* they are, and in the same order.                                        *)
Embeds(g, new, old) ==
  /\ g \in [DOMAIN new -> DOMAIN old]
  /\ \A p \in DOMAIN new : g[p] >= p /\ new[p] = old[g[p]]
  /\ \A p, q \in DOMAIN new : p < q => g[p] < g[q]

SubVector(new, old) == \E g : Embeds(g, new, old)

(* A vector is left as it is, or less of what was left. *)
LEMMA SubVectors ==
  ASSUME NEW S
  PROVE  /\ \A a \in Seq(S) : SubVector(a, a) /\ SubVector(<<>>, a)
         /\ \A a, b, c \in Seq(S) : SubVector(a, b) /\ SubVector(b, c) => SubVector(a, c)
<1>1. ASSUME NEW a \in Seq(S) PROVE SubVector(a, a)
  <2>. PICK g : g = [p \in DOMAIN a |-> p]
    OBVIOUS
  <2>1. Embeds(g, a, a)
    BY DEF Embeds
  <2>. QED
    BY <2>1 DEF SubVector
<1>2. ASSUME NEW a \in Seq(S) PROVE SubVector(<<>>, a)
  <2>. PICK g : g = [p \in {} |-> p]
    OBVIOUS
  <2>1. Embeds(g, <<>>, a)
    BY DEF Embeds
  <2>. QED
    BY <2>1 DEF SubVector
<1>3. ASSUME NEW a \in Seq(S), NEW b \in Seq(S), NEW c \in Seq(S), SubVector(a, b), SubVector(b, c)
      PROVE  SubVector(a, c)
  <2>1. PICK g : Embeds(g, a, b)
    BY <1>3 DEF SubVector
  <2>2. PICK h : Embeds(h, b, c)
    BY <1>3 DEF SubVector
  <2>. PICK k : k = [p \in DOMAIN a |-> h[g[p]]]
    OBVIOUS
  <2>3. \A p \in DOMAIN a : p \in Nat /\ g[p] \in DOMAIN b /\ g[p] \in Nat /\ h[g[p]] \in DOMAIN c /\ h[g[p]] \in Nat
    BY <2>1, <2>2 DEF Embeds
  <2>4. \A p \in DOMAIN a : k[p] >= p /\ a[p] = c[k[p]]
    BY <2>1, <2>2, <2>3 DEF Embeds
  <2>5. \A p, q \in DOMAIN a : p < q => k[p] < k[q]
    BY <2>1, <2>2, <2>3 DEF Embeds
  <2>6. Embeds(k, a, c)
    BY <2>3, <2>4, <2>5 DEF Embeds
  <2>. QED
    BY <2>6 DEF SubVector
<1>. QED
  BY <1>1, <1>2, <1>3

(* The elements after an erasure. *)
LEMMA Erased ==
  ASSUME NEW S, NEW v \in Seq(S), NEW i \in Nat \ {0}
  PROVE  /\ EraseAt(v, i) \in Seq(S)
         /\ i \in DOMAIN v => /\ Len(EraseAt(v, i)) = Len(v) - 1
                              /\ \A p \in 1..(Len(v) - 1) : EraseAt(v, i)[p] = IF p < i THEN v[p] ELSE v[p + 1]
         /\ SubVector(EraseAt(v, i), v)
<1>0. Len(v) \in Nat /\ DOMAIN v = 1..Len(v)
  OBVIOUS
<1>1. CASE i \in DOMAIN v
  <2>a. PICK a : a = SubSeq(v, 1, i - 1)
    OBVIOUS
  <2>b. PICK b : b = SubSeq(v, i + 1, Len(v))
    OBVIOUS
  <2>0. EraseAt(v, i) = a \o b
    BY <1>1, <2>a, <2>b DEF EraseAt, RemoveAt
  <2>1. a \in Seq(S) /\ Len(a) = i - 1 /\ \A p \in 1..(i - 1) : a[p] = v[p]
    BY <1>0, <1>1, <2>a
  <2>2. b \in Seq(S) /\ Len(b) = Len(v) - i /\ \A p \in 1..(Len(v) - i) : b[p] = v[p + i]
    <3>1. i + 1 \in Int /\ Len(v) \in Int /\ \A p \in (i + 1)..Len(v) : v[p] \in S
      BY <1>0
    <3>2. /\ b \in Seq(S) /\ Len(b) = IF i + 1 <= Len(v) THEN Len(v) - (i + 1) + 1 ELSE 0
          /\ \A p \in 1..(Len(v) - (i + 1) + 1) : b[p] = v[i + 1 + p - 1]
      BY <2>b, <3>1, SubSeqProperties
    <3>3. Len(b) = Len(v) - i
      <4>1. Len(b) = IF i + 1 <= Len(v) THEN Len(v) - (i + 1) + 1 ELSE 0
        BY <3>2
      <4>2. i \in 1..Len(v)
        BY <1>0, <1>1
      <4>3. CASE i + 1 <= Len(v)
        BY <1>0, <4>1, <4>3
      <4>4. CASE ~ (i + 1 <= Len(v))
        <5>1. i = Len(v)
          <6>1. \A m, n \in Nat : m \in 1..n /\ ~ (m + 1 <= n) => m = n
            OBVIOUS
          <6>2. i \in Nat /\ Len(v) \in Nat
            BY <1>0
          <6>. QED
            BY <4>2, <4>4, <6>1, <6>2
        <5>. QED
          BY <1>0, <4>1, <4>4, <5>1
      <4>. QED
        BY <4>3, <4>4
    <3>4. ASSUME NEW p \in 1..(Len(v) - i) PROVE b[p] = v[p + i]
      <4>1. p \in 1..(Len(v) - (i + 1) + 1) /\ i + 1 + p - 1 = p + i
        BY <1>0
      <4>. QED
        BY <3>2, <4>1
    <3>. QED
      BY <3>2, <3>3, <3>4
  <2>3. a \o b \in Seq(S) /\ Len(a \o b) = Len(v) - 1 /\ DOMAIN (a \o b) = 1..(Len(v) - 1)
    <3>1. a \o b \in Seq(S) /\ Len(a \o b) = Len(a) + Len(b)
      BY <2>1, <2>2, ConcatProperties
    <3>2. Len(a) = i - 1 /\ Len(b) = Len(v) - i
      BY <2>1, <2>2
    <3>3. Len(a \o b) = Len(v) - 1
      BY <1>0, <3>1, <3>2
    <3>. QED
      BY <3>1, <3>3
  <2>4. ASSUME NEW p \in 1..(Len(v) - 1) PROVE (a \o b)[p] = IF p < i THEN v[p] ELSE v[p + 1]
    <3>0. (a \o b)[p] = IF p <= Len(a) THEN a[p] ELSE b[p - Len(a)]
      <4>0. Len(a) = i - 1 /\ Len(b) = Len(v) - i
        BY <2>1, <2>2
      <4>1. p \in 1..(Len(a) + Len(b))
        BY <1>0, <4>0
      <4>. QED
        BY <2>1, <2>2, <4>1, ConcatProperties
    <3>1. CASE p < i
      <4>1. p \in 1..(i - 1) /\ p <= Len(a)
        BY <1>0, <2>1, <3>1
      <4>. QED
        BY <2>1, <3>0, <3>1, <4>1
    <3>2. CASE ~ (p < i)
      <4>1. p - Len(a) \in 1..(Len(v) - i) /\ p - Len(a) + i = p + 1 /\ ~ (p <= Len(a))
        BY <1>0, <1>1, <2>1, <3>2
      <4>. QED
        BY <2>2, <3>0, <3>2, <4>1
    <3>. QED
      BY <3>1, <3>2
  <2>. PICK g : g = [p \in 1..(Len(v) - 1) |-> IF p < i THEN p ELSE p + 1]
    OBVIOUS
  <2>5. Embeds(g, a \o b, v)
    <3>1. DOMAIN (a \o b) = 1..(Len(v) - 1)
      BY <2>3
    <3>2. ASSUME NEW p \in 1..(Len(v) - 1)
          PROVE  g[p] \in 1..Len(v) /\ g[p] >= p /\ (a \o b)[p] = v[g[p]]
      <4>1. g[p] \in 1..Len(v) /\ g[p] >= p /\ g[p] = IF p < i THEN p ELSE p + 1
        BY <1>0
      <4>. QED
        BY <2>4, <4>1
    <3>3. \A p, q \in 1..(Len(v) - 1) : p < q => g[p] < g[q]
      BY <1>0
    <3>. QED
      BY <1>0, <3>1, <3>2, <3>3 DEF Embeds
  <2>. QED
    BY <2>0, <2>3, <2>4, <2>5 DEF SubVector
<1>2. CASE i \notin DOMAIN v
  <2>. PICK a : a = SubSeq(v, 1, Len(v) - 1)
    OBVIOUS
  <2>0. EraseAt(v, i) = a
    BY <1>2 DEF EraseAt, Front
  <2>1. a \in Seq(S) /\ DOMAIN a \subseteq DOMAIN v /\ \A p \in DOMAIN a : p \in Nat /\ a[p] = v[p]
    <3>1. CASE Len(v) = 0
      BY <1>0, <3>1, SubSeqEmpty
    <3>2. CASE Len(v) # 0
      BY <1>0, <3>2
    <3>. QED
      BY <3>1, <3>2
  <2>. PICK g : g = [p \in DOMAIN a |-> p]
    OBVIOUS
  <2>2. Embeds(g, a, v)
    BY <2>1 DEF Embeds
  <2>. QED
    BY <1>2, <2>0, <2>1, <2>2 DEF SubVector
<1>. QED
  BY <1>1, <1>2

-----------------------------------------------------------------------------
(* tidy. *)

TidyStep(vec, v, i) == IF Expired(vec[i]) THEN EraseAt(v, i) ELSE v

(* The first n + 1 states of the vector that tidy walks through. *)
Tidying(f, vec, n) == f = [i \in 0..n |-> IF i = 0 THEN vec ELSE TidyStep(vec, f[i - 1], i)]

(* There are such states for every vector. *)
LEMMA TidyingExists ==
  ASSUME NEW vec, NEW n \in Nat
  PROVE  \E f : Tidying(f, vec, n)
<1>1. PICK S \in SUBSET Nat : S = {m \in Nat : \E f : Tidying(f, vec, m)}
  OBVIOUS
<1>2. 0 \in S
  <2>1. PICK f : f = [i \in 0..0 |-> vec]
    OBVIOUS
  <2>2. f = [i \in 0..0 |-> IF i = 0 THEN vec ELSE TidyStep(vec, f[i - 1], i)]
    BY <2>1
  <2>. QED
    BY <1>1, <2>2 DEF Tidying
<1>3. ASSUME NEW m \in S PROVE m + 1 \in S
  <2>1. PICK f : Tidying(f, vec, m)
    BY <1>1, <1>3
  <2>2. PICK g : g = [i \in 0..(m + 1) |-> IF i = m + 1 THEN TidyStep(vec, f[m], m + 1) ELSE f[i]]
    OBVIOUS
  <2>3. m \in Nat /\ 0 # m + 1
    BY <1>1, <1>3
  <2>4. f = [i \in 0..m |-> IF i = 0 THEN vec ELSE TidyStep(vec, f[i - 1], i)]
    BY <2>1 DEF Tidying
  <2>5. ASSUME NEW i \in 0..(m + 1) PROVE g[i] = IF i = 0 THEN vec ELSE TidyStep(vec, g[i - 1], i)
    <3>1. CASE i = m + 1
      <4>1. g[i] = TidyStep(vec, f[m], i) /\ i # 0 /\ i - 1 = m
        BY <2>2, <2>3, <3>1
      <4>2. m \in 0..(m + 1) /\ m # m + 1
        BY <2>3
      <4>3. g[m] = f[m]
        BY <2>2, <4>2
      <4>. QED
        BY <4>1, <4>3
    <3>2. CASE i # m + 1
      <4>1. i \in 0..m
        BY <2>3, <3>2
      <4>2. g[i] = f[i] /\ f[i] = IF i = 0 THEN vec ELSE TidyStep(vec, f[i - 1], i)
        BY <2>2, <2>4, <3>2, <4>1
      <4>3. i # 0 => i - 1 \in 0..(m + 1) /\ i - 1 # m + 1
        BY <2>3, <4>1
      <4>4. i # 0 => g[i - 1] = f[i - 1]
        BY <2>2, <4>3
      <4>. QED
        BY <4>2, <4>4
    <3>. QED
      BY <3>1, <3>2
  <2>6. g = [i \in 0..(m + 1) |-> IF i = 0 THEN vec ELSE TidyStep(vec, g[i - 1], i)]
    BY <2>2, <2>5
  <2>7. Tidying(g, vec, m + 1) /\ m + 1 \in Nat
    BY <2>3, <2>6 DEF Tidying
  <2>. QED
    BY <1>1, <2>7
<1>4. S = Nat
  BY <1>2, <1>3, SetInduction
<1>. QED
  BY <1>1, <1>4

(* Tidy is the last of these states. *)
LEMMA TidyIsLast ==
  ASSUME NEW S, NEW vec \in Seq(S)
  PROVE  \E f : Tidying(f, vec, Len(vec)) /\ Tidy(vec) = f[Len(vec)]
<1>1. PICK f : f = CHOOSE g : Tidying(g, vec, Len(vec))
  OBVIOUS
<1>2. Tidying(f, vec, Len(vec))
  <2>0. Len(vec) \in Nat
    OBVIOUS
  <2>1. \E g : Tidying(g, vec, Len(vec))
    BY <2>0, TidyingExists
  <2>. QED
    BY <1>1, <2>1
<1>3. Tidy(vec) = f[Len(vec)]
  BY <1>1 DEF Tidy, Tidying, TidyStep
<1>. QED
  BY <1>2, <1>3

(* Whatever tidy erases, what it leaves is a part of the vector, in order. *)
LEMMA TidySub ==
  ASSUME NEW S, NEW vec \in Seq(S)
  PROVE  Tidy(vec) \in Seq(S) /\ SubVector(Tidy(vec), vec)
<1>0. Len(vec) \in Nat
  OBVIOUS
<1>1. PICK f : Tidying(f, vec, Len(vec)) /\ Tidy(vec) = f[Len(vec)]
  BY TidyIsLast
<1>2. f = [i \in 0..Len(vec) |-> IF i = 0 THEN vec ELSE TidyStep(vec, f[i - 1], i)]
  BY <1>1 DEF Tidying
<1>3. PICK T \in SUBSET Nat :
        T = {m \in Nat : m <= Len(vec) => f[m] \in Seq(S) /\ SubVector(f[m], vec)}
  OBVIOUS
<1>4. 0 \in T
  <2>1. 0 \in 0..Len(vec)
    BY <1>0
  <2>2. f[0] = vec
    BY <1>2, <2>1
  <2>. QED
    BY <1>3, <2>2, SubVectors
<1>5. ASSUME NEW m \in T PROVE m + 1 \in T
  <2>. SUFFICES ASSUME m + 1 <= Len(vec) PROVE f[m + 1] \in Seq(S) /\ SubVector(f[m + 1], vec)
    BY <1>3
  <2>1. m \in Nat /\ m <= Len(vec) /\ m + 1 \in 0..Len(vec) /\ m + 1 # 0 /\ m + 1 - 1 = m
    BY <1>0, <1>3
  <2>2. f[m] \in Seq(S) /\ SubVector(f[m], vec)
    BY <1>3, <1>5, <2>1
  <2>3. f[m + 1] = TidyStep(vec, f[m], m + 1)
    BY <1>2, <2>1
  <2>4. m + 1 \in Nat \ {0}
    BY <2>1
  <2>5. EraseAt(f[m], m + 1) \in Seq(S) /\ SubVector(EraseAt(f[m], m + 1), f[m])
    BY <2>2, <2>4, Erased
  <2>6. SubVector(EraseAt(f[m], m + 1), vec)
    BY <2>2, <2>5, SubVectors
  <2>. QED
    BY <2>2, <2>3, <2>5, <2>6 DEF TidyStep
<1>6. T = Nat
  BY <1>4, <1>5, SetInduction
<1>. QED
  BY <1>0, <1>1, <1>3, <1>6

-----------------------------------------------------------------------------
(* remove_if. *)

KeepStep(vec, h, v, i) == IF vec[i].handler # h THEN Append(v, vec[i]) ELSE v

(* The first n + 1 states of the vector that remove_if builds up. *)
Keeping(f, vec, h, n) == f = [i \in 0..n |-> IF i = 0 THEN <<>> ELSE KeepStep(vec, h, f[i - 1], i)]

(* There are such states for every vector and handler. *)
LEMMA KeepingExists ==
  ASSUME NEW vec, NEW h, NEW n \in Nat
  PROVE  \E f : Keeping(f, vec, h, n)
<1>1. PICK S \in SUBSET Nat : S = {m \in Nat : \E f : Keeping(f, vec, h, m)}
  OBVIOUS
<1>2. 0 \in S
  <2>1. PICK f : f = [i \in 0..0 |-> <<>>]
    OBVIOUS
  <2>2. f = [i \in 0..0 |-> IF i = 0 THEN <<>> ELSE KeepStep(vec, h, f[i - 1], i)]
    BY <2>1
  <2>. QED
    BY <1>1, <2>2 DEF Keeping
<1>3. ASSUME NEW m \in S PROVE m + 1 \in S
  <2>1. PICK f : Keeping(f, vec, h, m)
    BY <1>1, <1>3
  <2>2. PICK g : g = [i \in 0..(m + 1) |-> IF i = m + 1 THEN KeepStep(vec, h, f[m], m + 1) ELSE f[i]]
    OBVIOUS
  <2>3. m \in Nat /\ 0 # m + 1
    BY <1>1, <1>3
  <2>4. f = [i \in 0..m |-> IF i = 0 THEN <<>> ELSE KeepStep(vec, h, f[i - 1], i)]
    BY <2>1 DEF Keeping
  <2>5. ASSUME NEW i \in 0..(m + 1) PROVE g[i] = IF i = 0 THEN <<>> ELSE KeepStep(vec, h, g[i - 1], i)
    <3>1. CASE i = m + 1
      <4>1. g[i] = KeepStep(vec, h, f[m], i) /\ i # 0 /\ i - 1 = m
        BY <2>2, <2>3, <3>1
      <4>2. m \in 0..(m + 1) /\ m # m + 1
        BY <2>3
      <4>3. g[m] = f[m]
        BY <2>2, <4>2
      <4>. QED
        BY <4>1, <4>3
    <3>2. CASE i # m + 1
      <4>1. i \in 0..m
        BY <2>3, <3>2
      <4>2. g[i] = f[i] /\ f[i] = IF i = 0 THEN <<>> ELSE KeepStep(vec, h, f[i - 1], i)
        BY <2>2, <2>4, <3>2, <4>1
      <4>3. i # 0 => i - 1 \in 0..(m + 1) /\ i - 1 # m + 1
        BY <2>3, <4>1
      <4>4. i # 0 => g[i - 1] = f[i - 1]
        BY <2>2, <4>3
      <4>. QED
        BY <4>2, <4>4
    <3>. QED
      BY <3>1, <3>2
  <2>6. g = [i \in 0..(m + 1) |-> IF i = 0 THEN <<>> ELSE KeepStep(vec, h, g[i - 1], i)]
    BY <2>2, <2>5
  <2>7. Keeping(g, vec, h, m + 1) /\ m + 1 \in Nat
    BY <2>3, <2>6 DEF Keeping
  <2>. QED
    BY <1>1, <2>7
<1>4. S = Nat
  BY <1>2, <1>3, SetInduction
<1>. QED
  BY <1>1, <1>4

(* Without is the last of these states. *)
LEMMA WithoutIsLast ==
  ASSUME NEW S, NEW vec \in Seq(S), NEW h
  PROVE  \E f : Keeping(f, vec, h, Len(vec)) /\ Without(vec, h) = f[Len(vec)]
<1>1. PICK f : f = CHOOSE g : Keeping(g, vec, h, Len(vec))
  OBVIOUS
<1>2. Keeping(f, vec, h, Len(vec))
  <2>0. Len(vec) \in Nat
    OBVIOUS
  <2>1. \E g : Keeping(g, vec, h, Len(vec))
    BY <2>0, KeepingExists
  <2>. QED
    BY <1>1, <2>1
<1>3. Without(vec, h) = f[Len(vec)]
  BY <1>1 DEF Without, Keeping, KeepStep
<1>. QED
  BY <1>2, <1>3

(* One more element is taken over from further back. *)
LEMMA EmbedsMore ==
  ASSUME NEW S, NEW new \in Seq(S), NEW old \in Seq(S), NEW m \in Nat, m + 1 <= Len(old),
         NEW g, Embeds(g, new, old), \A p \in DOMAIN new : g[p] <= m
  PROVE  \E k : /\ Embeds(k, Append(new, old[m + 1]), old)
               /\ \A p \in DOMAIN Append(new, old[m + 1]) : k[p] <= m + 1
<1>0. Len(new) \in Nat /\ Len(old) \in Nat /\ DOMAIN new = 1..Len(new) /\ DOMAIN old = 1..Len(old) /\ m + 1 \in 1..Len(old)
  OBVIOUS
<1>a. PICK x : x = old[m + 1]
  OBVIOUS
<1>b. PICK a : a = Append(new, x)
  OBVIOUS
<1>1. x \in S
  BY <1>0, <1>a
<1>2. /\ DOMAIN a = 1..(Len(new) + 1)
      /\ a[Len(new) + 1] = x
      /\ \A p \in 1..Len(new) : a[p] = new[p]
  BY <1>0, <1>1, <1>b
<1>3. \A p \in 1..Len(new) : g[p] \in 1..Len(old) /\ g[p] >= p /\ g[p] <= m /\ new[p] = old[g[p]]
  BY <1>0 DEF Embeds
<1>4. Len(new) <= m
  <2>1. CASE Len(new) = 0
    BY <2>1
  <2>2. CASE Len(new) # 0
    <3>1. Len(new) \in 1..Len(new)
      BY <1>0, <2>2
    <3>2. g[Len(new)] \in Nat /\ g[Len(new)] >= Len(new) /\ g[Len(new)] <= m
      BY <1>0, <1>3, <3>1
    <3>. QED
      BY <1>0, <3>2
  <2>. QED
    BY <2>1, <2>2
<1>c. PICK k : k = [p \in 1..(Len(new) + 1) |-> IF p = Len(new) + 1 THEN m + 1 ELSE g[p]]
  OBVIOUS
<1>5. ASSUME NEW p \in 1..(Len(new) + 1)
      PROVE  k[p] \in 1..Len(old) /\ k[p] >= p /\ k[p] <= m + 1 /\ a[p] = old[k[p]]
  <2>1. CASE p = Len(new) + 1
    BY <1>0, <1>2, <1>4, <1>a, <1>c, <2>1
  <2>2. CASE p # Len(new) + 1
    <3>1. p \in 1..Len(new) /\ k[p] = g[p] /\ a[p] = new[p]
      BY <1>0, <1>2, <1>5, <1>c, <2>2
    <3>. QED
      BY <1>0, <1>3, <3>1
  <2>. QED
    BY <2>1, <2>2
<1>6. ASSUME NEW p \in 1..(Len(new) + 1), NEW q \in 1..(Len(new) + 1), p < q
      PROVE  k[p] < k[q]
  <2>1. p \in 1..Len(new) /\ k[p] = g[p]
    BY <1>0, <1>6, <1>c
  <2>2. CASE q = Len(new) + 1
    <3>1. k[q] = m + 1 /\ g[p] <= m /\ g[p] \in Nat
      BY <1>0, <1>3, <1>6, <1>c, <2>1, <2>2
    <3>. QED
      BY <2>1, <3>1
  <2>3. CASE q # Len(new) + 1
    <3>0. q \in 1..(Len(new) + 1)
      BY <1>6
    <3>1. q \in 1..Len(new) /\ k[q] = g[q]
      BY <1>0, <1>c, <2>3, <3>0
    <3>. QED
      BY <1>0, <1>6, <2>1, <3>1 DEF Embeds
  <2>. QED
    BY <2>2, <2>3
<1>7. k \in [1..(Len(new) + 1) -> 1..Len(old)]
  BY <1>5, <1>c
<1>8. Embeds(k, a, old)
  BY <1>0, <1>2, <1>5, <1>6, <1>7 DEF Embeds
<1>. QED
  BY <1>2, <1>5, <1>8, <1>a, <1>b

(* Whatever remove_if removes, what it leaves is a part of the vector, in  *)
(* order.                                                                  *)
LEMMA WithoutSub ==
  ASSUME NEW S, NEW vec \in Seq(S), NEW h
  PROVE  Without(vec, h) \in Seq(S) /\ SubVector(Without(vec, h), vec)
<1>0. Len(vec) \in Nat
  OBVIOUS
<1>1. PICK f : Keeping(f, vec, h, Len(vec)) /\ Without(vec, h) = f[Len(vec)]
  BY WithoutIsLast
<1>2. f = [i \in 0..Len(vec) |-> IF i = 0 THEN <<>> ELSE KeepStep(vec, h, f[i - 1], i)]
  BY <1>1 DEF Keeping
<1>3. PICK T \in SUBSET Nat :
        T = {m \in Nat : m <= Len(vec) =>
               f[m] \in Seq(S) /\ \E g : Embeds(g, f[m], vec) /\ \A p \in DOMAIN f[m] : g[p] <= m}
  OBVIOUS
<1>4. 0 \in T
  <2>1. 0 \in 0..Len(vec)
    BY <1>0
  <2>2. f[0] = <<>>
    BY <1>2, <2>1
  <2>3. PICK g : Embeds(g, <<>>, vec)
    BY SubVectors DEF SubVector
  <2>4. \A p \in DOMAIN <<>> : g[p] <= 0
    OBVIOUS
  <2>5. f[0] \in Seq(S)
    BY <2>2
  <2>. QED
    BY <1>3, <2>2, <2>3, <2>4, <2>5
<1>5. ASSUME NEW m \in T PROVE m + 1 \in T
  <2>0. SUFFICES ASSUME m + 1 <= Len(vec)
        PROVE  f[m + 1] \in Seq(S) /\ \E g : Embeds(g, f[m + 1], vec) /\ \A p \in DOMAIN f[m + 1] : g[p] <= m + 1
    BY <1>3
  <2>1. m \in Nat /\ m <= Len(vec) /\ m + 1 \in 0..Len(vec) /\ m + 1 # 0 /\ m + 1 - 1 = m /\ m + 1 \in 1..Len(vec)
    BY <1>0, <1>3, <2>0
  <2>2. f[m] \in Seq(S) /\ \E g : Embeds(g, f[m], vec) /\ \A p \in DOMAIN f[m] : g[p] <= m
    BY <1>3, <1>5, <2>1
  <2>3. f[m + 1] = KeepStep(vec, h, f[m], m + 1)
    BY <1>2, <2>1
  <2>4. PICK g : Embeds(g, f[m], vec) /\ \A p \in DOMAIN f[m] : g[p] <= m
    BY <2>2
  <2>5. CASE vec[m + 1].handler # h
    <3>1. f[m + 1] = Append(f[m], vec[m + 1])
      BY <2>3, <2>5 DEF KeepStep
    <3>2. vec[m + 1] \in S
      BY <2>1
    <3>3. Append(f[m], vec[m + 1]) \in Seq(S)
      BY <2>2, <3>2
    <3>4. \E k : /\ Embeds(k, Append(f[m], vec[m + 1]), vec)
                /\ \A p \in DOMAIN Append(f[m], vec[m + 1]) : k[p] <= m + 1
      BY <2>0, <2>1, <2>2, <2>4, EmbedsMore
    <3>. QED
      BY <3>1, <3>3, <3>4
  <2>6. CASE vec[m + 1].handler = h
    <3>1. f[m + 1] = f[m]
      BY <2>3, <2>6 DEF KeepStep
    <3>2. \A p \in DOMAIN f[m] : g[p] \in Nat /\ g[p] <= m + 1
      BY <2>1, <2>2, <2>4 DEF Embeds
    <3>. QED
      BY <2>2, <2>4, <3>1, <3>2
  <2>. QED
    BY <2>5, <2>6
<1>6. T = Nat
  BY <1>4, <1>5, SetInduction
<1>7. Len(vec) \in T
  BY <1>0, <1>6
<1>8. f[Len(vec)] \in Seq(S) /\ \E g : Embeds(g, f[Len(vec)], vec)
  BY <1>0, <1>3, <1>7
<1>. QED
  BY <1>1, <1>8 DEF SubVector

-----------------------------------------------------------------------------
(* The order of the calls. *)

(* The listeners of v are among the first n registered, in the order of    *)
(* their registration.                                                     *)
Ordered(v, n) ==
  /\ \A p \in DOMAIN v : v[p].id <= n
  /\ \A p, q \in DOMAIN v : p < q => v[p].id < v[q].id

(* The loop f has called listeners in order, and the ones it has still to  *)
(* reach in the vector v were registered after all of them.                *)
LoopOrdered(f, v, n) ==
  /\ \A j, k \in DOMAIN f.called : j < k => f.called[j] < f.called[k]
  /\ \A j \in DOMAIN f.called : f.called[j] <= n
  /\ f.storage = "live" =>
       \A j \in DOMAIN f.called : \A p \in DOMAIN v : p > f.at => f.called[j] < v[p].id

EmitterInv ==
  /\ TypeOK
  /\ Len(granted) <= MaxListeners
  /\ \A e \in Events : Ordered(myMap[e], Len(granted))
  /\ \A i \in DOMAIN stack : LoopOrdered(stack[i], myMap[stack[i].event], Len(granted))

(* The vector w holds listeners of v, no further back than in v and in the *)
(* same order; their counts may differ.                                    *)
IdsFrom(w, v) ==
  \E g \in [DOMAIN w -> DOMAIN v] :
    /\ \A p \in DOMAIN w : g[p] >= p /\ w[p].id = v[g[p]].id
    /\ \A p, q \in DOMAIN w : p < q => g[p] < g[q]

FreedLoop(f) == [f EXCEPT !.storage = "freed"]

(* The bounds are numbers. *)
LEMMA Bounds == MaxListeners \in Nat /\ MaxEmits \in Nat /\ MaxDepth \in Nat
BY EmitterBounds

(* What a listener and a loop hold. *)
LEMMA Fields ==
  /\ \A l \in Listener : /\ l.id \in Nat /\ l.id \in 1..MaxListeners
                         /\ l.count \in Int /\ l.count \in Counts \cup Nat
  /\ \A f \in Frame : /\ f.event \in Events /\ f.at \in Nat /\ f.end \in Nat
                      /\ f.called \in Seq(1..MaxListeners)
<1>1. ASSUME NEW l \in Listener
      PROVE  l.id \in Nat /\ l.id \in 1..MaxListeners /\ l.count \in Int /\ l.count \in Counts \cup Nat
  <2>1. l.id \in 1..MaxListeners /\ l.count \in Counts \cup Nat
    BY <1>1 DEF Listener
  <2>2. \A i \in 1..MaxListeners : i \in Nat
    BY Bounds
  <2>3. \A c \in Counts \cup Nat : c \in Int
    BY CountsAssumption
  <2>. QED
    BY <2>1, <2>2, <2>3
<1>2. ASSUME NEW f \in Frame
      PROVE  f.event \in Events /\ f.at \in Nat /\ f.end \in Nat /\ f.called \in Seq(1..MaxListeners)
  BY <1>2 DEF Frame
<1>. QED
  BY <1>1, <1>2

(* Fewer listeners keep a vector and its loops in order. *)
LEMMA FewerOrdered ==
  ASSUME NEW v \in Seq(Listener), NEW w \in Seq(Listener), NEW n \in Nat, IdsFrom(w, v)
  PROVE  /\ Ordered(v, n) => Ordered(w, n)
         /\ \A f \in Frame : LoopOrdered(f, v, n) => LoopOrdered(f, w, n)
<1>1. PICK g \in [DOMAIN w -> DOMAIN v] :
        /\ \A p \in DOMAIN w : g[p] >= p /\ w[p].id = v[g[p]].id
        /\ \A p, q \in DOMAIN w : p < q => g[p] < g[q]
  BY DEF IdsFrom
<1>2. \A p \in DOMAIN w : p \in Nat /\ g[p] \in DOMAIN v /\ g[p] \in Nat
  OBVIOUS
<1>3. ASSUME Ordered(v, n) PROVE Ordered(w, n)
  BY <1>1, <1>2, <1>3 DEF Ordered
<1>4. ASSUME NEW f \in Frame, LoopOrdered(f, v, n) PROVE LoopOrdered(f, w, n)
  <2>0. f.at \in Nat
    BY <1>4 DEF Frame
  <2>1. ASSUME f.storage = "live", NEW j \in DOMAIN f.called, NEW p \in DOMAIN w, p > f.at
        PROVE  f.called[j] < w[p].id
    <3>1. g[p] \in DOMAIN v /\ g[p] > f.at /\ w[p].id = v[g[p]].id
      BY <1>1, <1>2, <2>0, <2>1
    <3>. QED
      BY <1>4, <2>1, <3>1 DEF LoopOrdered
  <2>. QED
    BY <1>4, <2>1 DEF LoopOrdered
<1>. QED
  BY <1>3, <1>4

(* A listener that is registered now comes after all others. *)
LEMMA AppendOrdered ==
  ASSUME NEW v \in Seq(Listener), NEW n \in Nat, NEW l \in Listener, l.id = n + 1
  PROVE  /\ Ordered(v, n) => Ordered(Append(v, l), n + 1)
         /\ \A f \in Frame : LoopOrdered(f, v, n) => LoopOrdered(f, Append(v, l), n + 1)
<1>a. PICK w : w = Append(v, l)
  OBVIOUS
<1>1. /\ Len(v) \in Nat /\ DOMAIN v = 1..Len(v) /\ DOMAIN w = 1..(Len(v) + 1)
      /\ w[Len(v) + 1] = l
      /\ \A p \in DOMAIN v : w[p] = v[p]
  BY <1>a
<1>2. \A p \in DOMAIN w : p \in Nat /\ (p \in DOMAIN v \/ p = Len(v) + 1)
  BY <1>1
<1>3. \A p \in DOMAIN v : v[p].id \in Nat
  <2>1. \A p \in DOMAIN v : v[p] \in Listener
    OBVIOUS
  <2>. QED
    BY <2>1, Fields
<1>4. ASSUME Ordered(v, n) PROVE Ordered(w, n + 1)
  <2>1. \A p \in DOMAIN w : w[p].id <= n + 1
    BY <1>1, <1>2, <1>3, <1>4 DEF Ordered
  <2>2. ASSUME NEW p \in DOMAIN w, NEW q \in DOMAIN w, p < q PROVE w[p].id < w[q].id
    <3>1. p \in DOMAIN v
      BY <1>1, <2>2
    <3>2. CASE q \in DOMAIN v
      BY <1>1, <1>4, <2>2, <3>1, <3>2 DEF Ordered
    <3>3. CASE q = Len(v) + 1
      <4>1. w[q].id = n + 1 /\ w[p] = v[p] /\ v[p].id <= n /\ v[p].id \in Nat
        BY <1>1, <1>3, <1>4, <3>1, <3>3 DEF Ordered
      <4>. QED
        BY <4>1
    <3>. QED
      BY <1>2, <3>2, <3>3
  <2>. QED
    BY <2>1, <2>2 DEF Ordered
<1>5. ASSUME NEW f \in Frame, LoopOrdered(f, v, n) PROVE LoopOrdered(f, w, n + 1)
  <2>0. \A j \in DOMAIN f.called : f.called[j] \in Nat
    BY <1>5, Bounds DEF Frame
  <2>1. \A j \in DOMAIN f.called : f.called[j] <= n /\ f.called[j] <= n + 1
    BY <1>5, <2>0 DEF LoopOrdered
  <2>2. ASSUME f.storage = "live", NEW j \in DOMAIN f.called, NEW p \in DOMAIN w, p > f.at
        PROVE  f.called[j] < w[p].id
    <3>1. CASE p \in DOMAIN v
      BY <1>1, <1>5, <2>2, <3>1 DEF LoopOrdered
    <3>2. CASE p = Len(v) + 1
      <4>1. w[p].id = n + 1
        BY <1>1, <3>2
      <4>. QED
        BY <2>0, <2>1, <4>1
    <3>. QED
      BY <1>2, <3>1, <3>2
  <2>. QED
    BY <1>5, <2>1, <2>2 DEF LoopOrdered
<1>. QED
  BY <1>4, <1>5, <1>a

(* Nothing is asked of a loop whose vector is gone but the order so far. *)
LEMMA FreedOrdered ==
  ASSUME NEW v, NEW w, NEW n \in Nat, NEW f \in Frame, LoopOrdered(f, v, n)
  PROVE  /\ FreedLoop(f) \in Frame /\ FreedLoop(f).event = f.event
         /\ LoopOrdered(FreedLoop(f), w, n) /\ LoopOrdered(FreedLoop(f), w, n + 1)
<1>1. FreedLoop(f).called = f.called /\ FreedLoop(f).storage = "freed" /\ FreedLoop(f).event = f.event
  BY DEF FreedLoop, Frame
<1>2. FreedLoop(f) \in Frame
  BY DEF FreedLoop, Frame
<1>3. \A j \in DOMAIN f.called : f.called[j] \in Nat
  BY Bounds DEF Frame
<1>4. \A j \in DOMAIN f.called : f.called[j] <= n /\ f.called[j] <= n + 1
  BY <1>3 DEF LoopOrdered
<1>. QED
  BY <1>1, <1>2, <1>4 DEF LoopOrdered

(* What tidy and remove_if leave. *)
LEMMA SubVectorIds ==
  ASSUME NEW w, NEW v, SubVector(w, v)
  PROVE  IdsFrom(w, v)
BY DEF SubVector, Embeds, IdsFrom

(***************************************************************************)
(* A step that leaves less of one vector, and of each loop at most that    *)
(* its vector is gone, keeps the order.                                    *)
(***************************************************************************)
LEMMA ShrinkKeepsOrder ==
  ASSUME EmitterInv, NEW e \in Events, NEW w \in Seq(Listener), IdsFrom(w, myMap[e]),
         myMap' = [myMap EXCEPT ![e] = w], granted' = granted,
         \A i \in DOMAIN stack' : \E j \in DOMAIN stack : stack'[i] \in {stack[j], FreedLoop(stack[j])}
  PROVE  /\ Len(granted') <= MaxListeners
         /\ \A x \in Events : Ordered(myMap'[x], Len(granted'))
         /\ \A i \in DOMAIN stack' : LoopOrdered(stack'[i], myMap'[stack'[i].event], Len(granted'))
<1>0. /\ myMap \in [Events -> Seq(Listener)] /\ stack \in Seq(Frame) /\ Len(granted) \in Nat
      /\ Len(granted') = Len(granted)
  BY DEF EmitterInv, TypeOK
<1>1. Len(granted') <= MaxListeners
  BY <1>0 DEF EmitterInv
<1>2. ASSUME NEW x \in Events
      PROVE  /\ Ordered(myMap[x], Len(granted)) => Ordered(myMap'[x], Len(granted))
             /\ \A f \in Frame : LoopOrdered(f, myMap[x], Len(granted)) => LoopOrdered(f, myMap'[x], Len(granted))
  <2>1. CASE x = e
    <3>1. myMap'[x] = w /\ myMap[x] \in Seq(Listener) /\ IdsFrom(w, myMap[x])
      BY <1>0, <2>1
    <3>. QED
      BY <1>0, <3>1, FewerOrdered
  <2>2. CASE x # e
    BY <1>0, <2>2
  <2>. QED
    BY <2>1, <2>2
<1>3. \A x \in Events : Ordered(myMap'[x], Len(granted'))
  BY <1>0, <1>2 DEF EmitterInv
<1>4. ASSUME NEW i \in DOMAIN stack'
      PROVE  LoopOrdered(stack'[i], myMap'[stack'[i].event], Len(granted'))
  <2>1. PICK j \in DOMAIN stack : stack'[i] \in {stack[j], FreedLoop(stack[j])}
    BY <1>4
  <2>2. stack[j] \in Frame /\ stack[j].event \in Events
    <3>1. stack[j] \in Frame
      BY <1>0
    <3>. QED
      BY <3>1, Fields
  <2>3. LoopOrdered(stack[j], myMap[stack[j].event], Len(granted))
    BY DEF EmitterInv
  <2>4. LoopOrdered(stack[j], myMap'[stack[j].event], Len(granted))
    BY <1>2, <2>2, <2>3
  <2>5. /\ FreedLoop(stack[j]).event = stack[j].event
        /\ LoopOrdered(FreedLoop(stack[j]), myMap'[stack[j].event], Len(granted))
    BY <1>0, <2>2, <2>3, FreedOrdered
  <2>. QED
    BY <1>0, <2>1, <2>4, <2>5
<1>. QED
  BY <1>1, <1>3, <1>4

(* The loops after the vector of an event is gone. *)
LEMMA FreedLoops ==
  ASSUME NEW e, stack \in Seq(Frame)
  PROVE  /\ Freed(e) \in Seq(Frame) /\ Len(Freed(e)) = Len(stack) /\ DOMAIN Freed(e) = DOMAIN stack
         /\ \A i \in DOMAIN stack : /\ Freed(e)[i] \in {stack[i], FreedLoop(stack[i])}
                                    /\ stack[i].event = e => Freed(e)[i] = FreedLoop(stack[i])
<1>0. Len(stack) \in Nat /\ DOMAIN stack = 1..Len(stack)
  OBVIOUS
<1>1. \A f \in Frame : FreedLoop(f) \in Frame
  BY DEF FreedLoop, Frame
<1>2. Freed(e) = [i \in 1..Len(stack) |-> IF stack[i].event = e THEN FreedLoop(stack[i]) ELSE stack[i]]
  BY <1>0 DEF Freed, FreedLoop
<1>3. \A i \in 1..Len(stack) : stack[i] \in Frame
  BY <1>0
<1>4. Freed(e) \in [1..Len(stack) -> Frame]
  BY <1>1, <1>2, <1>3
<1>5. Freed(e) \in Seq(Frame) /\ Len(Freed(e)) = Len(stack)
  BY <1>0, <1>4
<1>. QED
  BY <1>0, <1>2, <1>5

(* The loops without the innermost one. *)
LEMMA OuterLoops ==
  ASSUME NEW S, NEW s \in Seq(S), s # <<>>
  PROVE  /\ Front(s) \in Seq(S) /\ Len(Front(s)) = Len(s) - 1 /\ DOMAIN Front(s) = 1..(Len(s) - 1)
         /\ \A i \in DOMAIN Front(s) : i \in DOMAIN s /\ Front(s)[i] = s[i]
         /\ Last(s) = s[Len(s)] /\ Last(s) \in S /\ Len(s) \in DOMAIN s
<1>0. Len(s) \in Nat /\ Len(s) # 0 /\ DOMAIN s = 1..Len(s)
  OBVIOUS
<1>1. Front(s) = SubSeq(s, 1, Len(s) - 1) /\ Last(s) = s[Len(s)]
  BY DEF Front, Last
<1>. QED
  BY <1>0, <1>1

-----------------------------------------------------------------------------
(* The steps keep the order. *)

(* A registration. *)
LEMMA AddKeepsInv ==
  ASSUME EmitterInv, NEW e \in Events, NEW h \in Handlers, NEW n \in Counts, AddManyListener(e, h, n)
  PROVE  EmitterInv'
<1>a. PICK l : l = [id |-> Len(granted) + 1, handler |-> h, count |-> n]
  OBVIOUS
<1>0. /\ myMap \in [Events -> Seq(Listener)] /\ stack \in Seq(Frame) /\ granted \in Seq(Counts)
      /\ calls \in [DOMAIN granted -> Nat] /\ queued \in [DOMAIN granted -> Nat]
  BY DEF EmitterInv, TypeOK, Ids
<1>1. /\ Len(granted) < MaxListeners /\ myMap' = [myMap EXCEPT ![e] = Append(myMap[e], l)]
      /\ granted' = Append(granted, n) /\ calls' = Append(calls, 0) /\ queued' = Append(queued, 0)
      /\ stack' \in {stack, Freed(e)} /\ memory' = memory /\ emits' = emits /\ astray' = astray
  BY <1>a DEF AddManyListener
<1>2. Len(granted) \in Nat /\ Len(granted') = Len(granted) + 1 /\ granted' \in Seq(Counts)
      /\ DOMAIN granted = 1..Len(granted) /\ DOMAIN granted' = 1..(Len(granted) + 1)
  BY <1>0, <1>1
<1>3. l \in Listener /\ l.id = Len(granted) + 1
  <2>1. Len(granted) + 1 \in 1..MaxListeners
    BY <1>1, <1>2, Bounds
  <2>. QED
    BY <1>a, <2>1 DEF Listener
<1>4. ASSUME NEW x \in Events
      PROVE  /\ myMap'[x] \in Seq(Listener)
             /\ Ordered(myMap'[x], Len(granted'))
             /\ \A f \in Frame : LoopOrdered(f, myMap[x], Len(granted)) => LoopOrdered(f, myMap'[x], Len(granted'))
  <2>0. myMap[x] \in Seq(Listener) /\ Ordered(myMap[x], Len(granted))
    BY <1>0 DEF EmitterInv
  <2>1. CASE x = e
    <3>1. myMap'[x] = Append(myMap[x], l)
      BY <1>0, <1>1, <2>1
    <3>. QED
      BY <1>2, <1>3, <2>0, <3>1, AppendOrdered
  <2>2. CASE x # e
    <3>1. myMap'[x] = myMap[x]
      BY <1>0, <1>1, <2>2
    <3>2. ASSUME NEW p \in DOMAIN myMap[x] PROVE myMap[x][p].id <= Len(granted) + 1
      <4>1. myMap[x][p] \in Listener /\ myMap[x][p].id <= Len(granted)
        BY <2>0 DEF Ordered
      <4>. QED
        BY <1>2, <4>1, Fields
    <3>3. Ordered(myMap'[x], Len(granted'))
      BY <1>2, <2>0, <3>1, <3>2 DEF Ordered
    <3>4. ASSUME NEW f \in Frame, LoopOrdered(f, myMap[x], Len(granted))
          PROVE  LoopOrdered(f, myMap[x], Len(granted) + 1)
      <4>1. ASSUME NEW j \in DOMAIN f.called PROVE f.called[j] <= Len(granted) + 1
        <5>1. f.called[j] \in Nat /\ f.called[j] <= Len(granted)
          BY <3>4, <4>1, Bounds, Fields DEF LoopOrdered
        <5>. QED
          BY <1>2, <5>1
      <4>. QED
        BY <3>4, <4>1 DEF LoopOrdered
    <3>. QED
      BY <1>2, <2>0, <3>1, <3>3, <3>4
  <2>. QED
    BY <2>1, <2>2
<1>5. stack' \in Seq(Frame) /\ DOMAIN stack' = DOMAIN stack
      /\ \A i \in DOMAIN stack : stack'[i] \in {stack[i], FreedLoop(stack[i])}
  BY <1>0, <1>1, FreedLoops
<1>6. ASSUME NEW i \in DOMAIN stack' PROVE LoopOrdered(stack'[i], myMap'[stack'[i].event], Len(granted'))
  <2>1. i \in DOMAIN stack /\ stack'[i] \in {stack[i], FreedLoop(stack[i])} /\ stack[i] \in Frame
    BY <1>0, <1>5, <1>6
  <2>2. LoopOrdered(stack[i], myMap[stack[i].event], Len(granted))
    BY <2>1 DEF EmitterInv
  <2>3. stack[i].event \in Events
    BY <2>1, Fields
  <2>4. LoopOrdered(stack[i], myMap'[stack[i].event], Len(granted'))
    BY <1>4, <2>1, <2>2, <2>3
  <2>5. /\ FreedLoop(stack[i]).event = stack[i].event
        /\ LoopOrdered(FreedLoop(stack[i]), myMap'[stack[i].event], Len(granted'))
    BY <1>2, <2>1, <2>2, FreedOrdered
  <2>. QED
    BY <2>1, <2>4, <2>5
<1>7. calls' \in [DOMAIN granted' -> Nat] /\ queued' \in [DOMAIN granted' -> Nat]
  <2>0. \A m \in Nat : \A s \in [1..m -> Nat] : s \in Seq(Nat) /\ Len(s) = m
    OBVIOUS
  <2>1. calls \in Seq(Nat) /\ Len(calls) = Len(granted) /\ queued \in Seq(Nat) /\ Len(queued) = Len(granted)
    BY <1>0, <1>2, <2>0
  <2>2. calls' \in Seq(Nat) /\ Len(calls') = Len(granted) + 1 /\ queued' \in Seq(Nat) /\ Len(queued') = Len(granted) + 1
    BY <1>1, <2>1
  <2>. QED
    BY SMTT(30), <1>2, <2>2
<1>8. myMap' \in [Events -> Seq(Listener)]
  BY <1>0, <1>1, <1>4
<1>9. TypeOK'
  BY <1>1, <1>2, <1>5, <1>7, <1>8 DEF TypeOK, EmitterInv, Ids
<1>10. Len(granted') <= MaxListeners
  BY <1>1, <1>2, Bounds
<1>. QED
  BY <1>4, <1>6, <1>9, <1>10 DEF EmitterInv

(* Less of one vector, and the same history: off, allOff and the end of an *)
(* emit.                                                                   *)
LEMMA ShrinkKeepsInv ==
  ASSUME EmitterInv, NEW e \in Events, NEW w \in Seq(Listener), IdsFrom(w, myMap[e]),
         myMap' = [myMap EXCEPT ![e] = w], stack' \in Seq(Frame),
         \A i \in DOMAIN stack' : \E j \in DOMAIN stack : stack'[i] \in {stack[j], FreedLoop(stack[j])},
         UNCHANGED <<memory, granted, calls>>, queued' \in [Ids -> Nat], emits' \in 0..MaxEmits,
         astray' \in BOOLEAN
  PROVE  EmitterInv'
<1>1. myMap' \in [Events -> Seq(Listener)]
  BY DEF EmitterInv, TypeOK
<1>2. TypeOK'
  BY <1>1 DEF EmitterInv, TypeOK, Ids
<1>3. /\ Len(granted') <= MaxListeners
      /\ \A x \in Events : Ordered(myMap'[x], Len(granted'))
      /\ \A i \in DOMAIN stack' : LoopOrdered(stack'[i], myMap'[stack'[i].event], Len(granted'))
  BY ShrinkKeepsOrder
<1>. QED
  BY <1>2, <1>3 DEF EmitterInv

(* off. *)
LEMMA RemoveKeepsInv ==
  ASSUME EmitterInv, NEW e \in Events, NEW h \in Handlers, RemoveListener(e, h)
  PROVE  EmitterInv'
<1>1. myMap[e] \in Seq(Listener) /\ stack \in Seq(Frame) /\ queued \in [Ids -> Nat] /\ emits \in 0..MaxEmits /\ astray \in BOOLEAN
  BY DEF EmitterInv, TypeOK
<1>a. PICK w : w = Without(myMap[e], h)
  OBVIOUS
<1>2. w \in Seq(Listener) /\ IdsFrom(w, myMap[e])
  BY <1>1, <1>a, WithoutSub, SubVectorIds
<1>3. myMap' = [myMap EXCEPT ![e] = w] /\ stack' = stack /\ UNCHANGED <<memory, granted, calls, queued, emits, astray>>
  BY <1>a DEF RemoveListener
<1>. QED
  BY <1>1, <1>2, <1>3, ShrinkKeepsInv

(* allOff. *)
LEMMA RemoveAllKeepsInv ==
  ASSUME EmitterInv, NEW e \in Events, RemoveAllListeners(e)
  PROVE  EmitterInv'
<1>1. myMap[e] \in Seq(Listener) /\ stack \in Seq(Frame) /\ queued \in [Ids -> Nat] /\ emits \in 0..MaxEmits /\ astray \in BOOLEAN
  BY DEF EmitterInv, TypeOK
<1>2. IdsFrom(<<>>, myMap[e]) /\ <<>> \in Seq(Listener)
  BY <1>1, SubVectors, SubVectorIds
<1>3. myMap' = [myMap EXCEPT ![e] = <<>>] /\ stack' = Freed(e) /\ UNCHANGED <<memory, granted, calls, queued, emits, astray>>
  BY DEF RemoveAllListeners
<1>4. stack' \in Seq(Frame) /\ \A i \in DOMAIN stack' : \E j \in DOMAIN stack : stack'[i] \in {stack[j], FreedLoop(stack[j])}
  BY <1>1, <1>3, FreedLoops
<1>. QED
  BY <1>1, <1>2, <1>3, <1>4, ShrinkKeepsInv

(* emit begins. *)
LEMMA EmitKeepsInv ==
  ASSUME EmitterInv, NEW e \in Events, Emit(e)
  PROVE  EmitterInv'
<1>a. PICK f : f = [event |-> e, at |-> 0, end |-> Len(myMap[e]), storage |-> "live", called |-> <<>>]
  OBVIOUS
<1>0. myMap \in [Events -> Seq(Listener)] /\ stack \in Seq(Frame) /\ emits \in 0..MaxEmits /\ granted \in Seq(Counts)
  BY DEF EmitterInv, TypeOK
<1>1. /\ stack' = Append(stack, f) /\ emits < MaxEmits /\ emits' = emits + 1
      /\ UNCHANGED <<myMap, memory, granted, calls, queued>> /\ astray' = (astray \/ Nested(e))
  BY <1>a DEF Emit
<1>2. f \in Frame
  <2>1. Len(myMap[e]) \in Nat /\ <<>> \in Seq(1..MaxListeners)
    BY <1>0
  <2>. QED
    BY <1>a, <2>1 DEF Frame
<1>3. emits' \in 0..MaxEmits
  BY <1>0, <1>1, Bounds
<1>4. stack' \in Seq(Frame) /\ \A i \in DOMAIN stack' : (i \in DOMAIN stack /\ stack'[i] = stack[i]) \/ stack'[i] = f
  BY <1>0, <1>1, <1>2
<1>5. LoopOrdered(f, myMap[e], Len(granted)) /\ f.event = e
  BY <1>a DEF LoopOrdered
<1>6. ASSUME NEW i \in DOMAIN stack' PROVE LoopOrdered(stack'[i], myMap'[stack'[i].event], Len(granted'))
  BY <1>1, <1>4, <1>5 DEF EmitterInv
<1>7. TypeOK'
  <2>1. astray' \in BOOLEAN
    BY <1>1 DEF Nested
  <2>. QED
    BY <1>1, <1>3, <1>4, <2>1 DEF EmitterInv, TypeOK, Ids
<1>. QED
  BY <1>1, <1>6, <1>7 DEF EmitterInv

(* The countdown changes neither who a listener is nor its handler. *)
LEMMA DecrementKeeps ==
  ASSUME NEW l \in Listener
  PROVE  /\ Decrement(l) \in Listener /\ Decrement(l).id = l.id
         /\ Decrement(l).count = IF l.count > 0 THEN l.count - 1 ELSE l.count
<1>0. l.count \in Int /\ l.count \in Counts \cup Nat
  BY Fields
<1>1. CASE l.count > 0
  <2>1. Decrement(l) = [l EXCEPT !.count = l.count - 1] /\ l.count - 1 \in Nat
    BY <1>0, <1>1 DEF Decrement
  <2>. QED
    BY <1>1, <2>1 DEF Listener
<1>2. CASE ~ (l.count > 0)
  BY <1>2 DEF Decrement
<1>. QED
  BY <1>1, <1>2

(* A loop that has got further. *)
LEMMA LoopFields ==
  \A f \in Frame : \A a \in Nat : \A c \in Seq(1..MaxListeners) :
    [f EXCEPT !.at = a, !.called = c] \in Frame
BY DEF Frame

Stepped(f, id) == [f EXCEPT !.at = f.at + 1, !.called = Append(f.called, id)]

(* The loop takes its next step: all it has called comes before the        *)
(* listener it calls now, and that one before the rest.                    *)
LEMMA StepOrdered ==
  ASSUME NEW v \in Seq(Listener), NEW n \in Nat, NEW f \in Frame, f.storage = "live",
         f.at + 1 \in DOMAIN v, Ordered(v, n), LoopOrdered(f, v, n)
  PROVE  LET g == Stepped(f, v[f.at + 1].id)
         IN  g \in Frame /\ g.event = f.event /\ LoopOrdered(g, v, n)
<1>g. PICK g : g = [f EXCEPT !.at = f.at + 1, !.called = Append(f.called, v[f.at + 1].id)]
  OBVIOUS
<1>0. f.at \in Nat /\ f.called \in Seq(1..MaxListeners) /\ DOMAIN f.called = 1..Len(f.called) /\ Len(f.called) \in Nat
  BY Fields
<1>a. PICK x : x = v[f.at + 1].id
  OBVIOUS
<1>1. x \in 1..MaxListeners /\ x \in Nat /\ x <= n
  <2>1. v[f.at + 1] \in Listener
    OBVIOUS
  <2>. QED
    BY <1>a, <2>1, Fields DEF Ordered
<1>b. PICK c : c = Append(f.called, x)
  OBVIOUS
<1>2. /\ c \in Seq(1..MaxListeners) /\ DOMAIN c = 1..(Len(f.called) + 1)
      /\ c[Len(f.called) + 1] = x
      /\ \A j \in DOMAIN f.called : c[j] = f.called[j]
  BY <1>0, <1>1, <1>b
<1>3. g.event = f.event /\ g.at = f.at + 1 /\ g.storage = f.storage /\ g.called = c /\ g.end = f.end
  BY <1>a, <1>b, <1>g DEF Frame
<1>4. g \in Frame
  <2>1. f.at + 1 \in Nat
    BY <1>0
  <2>. QED
    BY <1>2, <1>a, <1>b, <1>g, <2>1, LoopFields
<1>5. \A j \in DOMAIN c : j \in DOMAIN f.called \/ j = Len(f.called) + 1
  <2>1. \A m \in Nat : \A j \in 1..(m + 1) : j \in 1..m \/ j = m + 1
    OBVIOUS
  <2>. QED
    BY <1>0, <1>2, <2>1
<1>6. \A j \in DOMAIN f.called : f.called[j] < x /\ f.called[j] <= n
  <2>1. f.at + 1 > f.at
    BY <1>0
  <2>. QED
    BY <1>a, <2>1 DEF LoopOrdered
<1>7. ASSUME NEW j \in DOMAIN c, NEW k \in DOMAIN c, j < k PROVE c[j] < c[k]
  <2>1. j \in DOMAIN f.called
    BY <1>0, <1>2, <1>7
  <2>2. CASE k \in DOMAIN f.called
    BY <1>2, <1>7, <2>1, <2>2 DEF LoopOrdered
  <2>3. CASE k = Len(f.called) + 1
    BY <1>2, <1>6, <2>1, <2>3
  <2>. QED
    BY <1>5, <2>2, <2>3
<1>8. \A j \in DOMAIN c : c[j] <= n
  BY <1>1, <1>2, <1>5, <1>6
<1>9. ASSUME NEW j \in DOMAIN c, NEW p \in DOMAIN v, p > f.at + 1 PROVE c[j] < v[p].id
  <2>1. x < v[p].id
    BY <1>0, <1>9, <1>a DEF Ordered
  <2>2. CASE j \in DOMAIN f.called
    <3>1. p > f.at
      BY <1>0, <1>9
    <3>. QED
      BY <1>2, <1>9, <2>2, <3>1 DEF LoopOrdered
  <2>3. CASE j = Len(f.called) + 1
    BY <1>2, <2>1, <2>3
  <2>. QED
    BY <1>5, <1>9, <2>2, <2>3
<1>10. LoopOrdered(g, v, n)
  BY <1>3, <1>7, <1>8, <1>9 DEF LoopOrdered
<1>. QED
  BY <1>3, <1>4, <1>10, <1>g DEF Stepped

(* A listener is called. *)
LEMMA VisitKeepsInv ==
  ASSUME EmitterInv, Visit
  PROVE  EmitterInv'
<1>a. PICK f : f = Last(stack)
  OBVIOUS
<1>b. PICK k : k = f.at + 1
  OBVIOUS
<1>c. PICK l : l = myMap[f.event][k]
  OBVIOUS
<1>d. PICK g : g = [f EXCEPT !.at = k, !.called = Append(f.called, l.id)]
  OBVIOUS
<1>0. /\ myMap \in [Events -> Seq(Listener)] /\ stack \in Seq(Frame) /\ granted \in Seq(Counts)
      /\ calls \in [Ids -> Nat] /\ Len(granted) \in Nat
  BY DEF EmitterInv, TypeOK
<1>1. /\ stack # <<>> /\ f.storage = "live" /\ k <= Len(myMap[f.event])
      /\ myMap' = [myMap EXCEPT ![f.event] = [myMap[f.event] EXCEPT ![k] = Decrement(l)]]
      /\ stack' = Front(stack) \o <<g>>
      /\ calls' = [calls EXCEPT ![l.id] = calls[l.id] + 1]
      /\ UNCHANGED <<memory, granted, queued, emits, astray>>
  BY <1>a, <1>b, <1>c, <1>d DEF Visit
<1>2. f = stack[Len(stack)] /\ f \in Frame /\ Len(stack) \in DOMAIN stack
  BY <1>0, <1>1, <1>a, OuterLoops
<1>3. f.event \in Events /\ f.at \in Nat
  BY <1>2, Fields
<1>e. PICK v : v = myMap[f.event]
  OBVIOUS
<1>4. v \in Seq(Listener) /\ k \in DOMAIN v /\ l = v[k] /\ l \in Listener
  BY <1>0, <1>1, <1>3, <1>b, <1>c, <1>e
<1>5. Ordered(v, Len(granted)) /\ LoopOrdered(f, v, Len(granted))
  BY <1>2, <1>3, <1>e DEF EmitterInv
<1>6. g \in Frame /\ g.event = f.event /\ LoopOrdered(g, v, Len(granted))
  <2>1. f.at + 1 \in DOMAIN v /\ f.storage = "live"
    BY <1>1, <1>4, <1>b
  <2>2. g = Stepped(f, v[f.at + 1].id)
    BY <1>4, <1>b, <1>d DEF Stepped
  <2>3. Len(granted) \in Nat /\ v \in Seq(Listener) /\ f \in Frame
    BY <1>0, <1>2, <1>4
  <2>. QED
    BY <1>5, <2>1, <2>2, <2>3, StepOrdered
<1>f. PICK w : w = [v EXCEPT ![k] = Decrement(l)]
  OBVIOUS
<1>7. w \in Seq(Listener) /\ DOMAIN w = DOMAIN v /\ \A p \in DOMAIN v : w[p].id = v[p].id
  <2>1. Decrement(l) \in Listener /\ Decrement(l).id = l.id
    BY <1>4, DecrementKeeps
  <2>. QED
    BY <1>4, <1>f, <2>1
<1>8. IdsFrom(w, v)
  <2>1. PICK m : m = [p \in DOMAIN w |-> p]
    OBVIOUS
  <2>2. m \in [DOMAIN w -> DOMAIN v] /\ \A p \in DOMAIN w : m[p] = p /\ p \in Nat
    BY <1>4, <1>7, <2>1
  <2>. QED
    BY <1>7, <2>2 DEF IdsFrom
<1>9. /\ Ordered(w, Len(granted))
      /\ \A x \in Frame : LoopOrdered(x, v, Len(granted)) => LoopOrdered(x, w, Len(granted))
  BY <1>0, <1>4, <1>5, <1>7, <1>8, FewerOrdered
<1>10. /\ stack' \in Seq(Frame)
       /\ \A i \in DOMAIN stack' : (i \in DOMAIN stack /\ stack'[i] = stack[i]) \/ stack'[i] = g
  <2>1. /\ Front(stack) \in Seq(Frame)
        /\ \A i \in DOMAIN Front(stack) : i \in DOMAIN stack /\ Front(stack)[i] = stack[i]
    BY <1>0, <1>1, OuterLoops
  <2>2. PICK s : s = Front(stack)
    OBVIOUS
  <2>3. s \in Seq(Frame) /\ stack' = s \o <<g>>
    BY <1>1, <2>1, <2>2
  <2>4. stack' \in Seq(Frame) /\ \A i \in DOMAIN stack' : (i \in DOMAIN s /\ stack'[i] = s[i]) \/ stack'[i] = g
    BY <1>6, <2>3
  <2>. QED
    BY <2>1, <2>2, <2>4
<1>11. myMap' = [myMap EXCEPT ![f.event] = w]
  BY <1>1, <1>e, <1>f
<1>12. ASSUME NEW x \in Events
       PROVE  /\ Ordered(myMap'[x], Len(granted))
              /\ \A y \in Frame : LoopOrdered(y, myMap[x], Len(granted)) => LoopOrdered(y, myMap'[x], Len(granted))
  BY <1>0, <1>9, <1>11, <1>e DEF EmitterInv
<1>13. ASSUME NEW i \in DOMAIN stack' PROVE LoopOrdered(stack'[i], myMap'[stack'[i].event], Len(granted))
  <2>1. CASE i \in DOMAIN stack /\ stack'[i] = stack[i]
    <3>1. stack[i] \in Frame /\ LoopOrdered(stack[i], myMap[stack[i].event], Len(granted))
      BY <1>0, <2>1 DEF EmitterInv
    <3>2. stack[i].event \in Events
      BY <3>1, Fields
    <3>. QED
      BY <1>12, <2>1, <3>1, <3>2
  <2>2. CASE stack'[i] = g
    BY <1>3, <1>6, <1>12, <1>e, <2>2
  <2>. QED
    BY <1>10, <1>13, <2>1, <2>2
<1>14. calls' \in [Ids -> Nat]
  <2>1. l.id \in Nat /\ l.id \in 1..MaxListeners /\ l.id <= Len(granted)
    BY <1>4, <1>5, Fields DEF Ordered
  <2>2. l.id \in 1..Len(granted) /\ Ids = 1..Len(granted)
    BY <1>0, <2>1, Bounds DEF Ids
  <2>3. calls[l.id] + 1 \in Nat
    BY <1>0, <2>2
  <2>4. \A F \in [Ids -> Nat] : \A y \in Nat : [F EXCEPT ![l.id] = y] \in [Ids -> Nat]
    OBVIOUS
  <2>. QED
    BY <1>0, <1>1, <2>3, <2>4
<1>15. TypeOK'
  <2>1. myMap' \in [Events -> Seq(Listener)]
    BY <1>0, <1>7, <1>11
  <2>. QED
    BY <1>1, <1>10, <1>14, <2>1 DEF EmitterInv, TypeOK, Ids
<1>. QED
  BY <1>1, <1>12, <1>13, <1>15 DEF EmitterInv

(* emit ends. *)
LEMMA EndKeepsInv ==
  ASSUME EmitterInv, EndEmit
  PROVE  EmitterInv'
<1>a. PICK f : f = Last(stack)
  OBVIOUS
<1>b. PICK w : w = Tidy(myMap[f.event])
  OBVIOUS
<1>c. PICK s : s = IF w = <<>> THEN Freed(f.event) ELSE stack
  OBVIOUS
<1>0. /\ myMap \in [Events -> Seq(Listener)] /\ stack \in Seq(Frame)
      /\ queued \in [Ids -> Nat] /\ emits \in 0..MaxEmits
  BY DEF EmitterInv, TypeOK
<1>1. /\ stack # <<>> /\ myMap' = [myMap EXCEPT ![f.event] = w] /\ stack' = Front(s)
      /\ UNCHANGED <<memory, granted, calls, queued, emits>> /\ astray' \in BOOLEAN
  BY <1>a, <1>b, <1>c DEF EndEmit
<1>2. f.event \in Events /\ myMap[f.event] \in Seq(Listener)
  BY <1>0, <1>1, <1>a, OuterLoops, Fields
<1>3. w \in Seq(Listener) /\ IdsFrom(w, myMap[f.event])
  BY <1>2, <1>b, TidySub, SubVectorIds
<1>4. s \in Seq(Frame) /\ s # <<>> /\ DOMAIN s = DOMAIN stack
      /\ \A i \in DOMAIN stack : s[i] \in {stack[i], FreedLoop(stack[i])}
  <2>1. CASE w = <<>>
    <3>1. s = Freed(f.event)
      BY <1>c, <2>1
    <3>2. s \in Seq(Frame) /\ Len(s) = Len(stack) /\ DOMAIN s = DOMAIN stack
          /\ \A i \in DOMAIN stack : s[i] \in {stack[i], FreedLoop(stack[i])}
      BY <1>0, <3>1, FreedLoops
    <3>. QED
      BY <1>0, <1>1, <3>2
  <2>2. CASE w # <<>>
    BY <1>0, <1>1, <1>c, <2>2
  <2>. QED
    BY <2>1, <2>2
<1>5. stack' \in Seq(Frame) /\ \A i \in DOMAIN stack' : \E j \in DOMAIN stack : stack'[i] \in {stack[j], FreedLoop(stack[j])}
  <2>1. stack' \in Seq(Frame) /\ \A i \in DOMAIN stack' : i \in DOMAIN s /\ stack'[i] = s[i]
    BY <1>1, <1>4, OuterLoops
  <2>. QED
    BY <1>4, <2>1
<1>. QED
  BY <1>0, <1>1, <1>2, <1>3, <1>5, ShrinkKeepsInv

(* emitFastAndSchedule. *)
LEMMA ScheduleKeepsInv ==
  ASSUME EmitterInv, NEW e \in Events, EmitFastAndSchedule(e)
  PROVE  EmitterInv'
<1>a. PICK v : v = myMap[e]
  OBVIOUS
<1>b. PICK d : d = [i \in DOMAIN v |-> Decrement(v[i])]
  OBVIOUS
<1>c. PICK w : w = Tidy(d)
  OBVIOUS
<1>0. /\ myMap \in [Events -> Seq(Listener)] /\ stack \in Seq(Frame) /\ v \in Seq(Listener)
      /\ queued \in [Ids -> Nat] /\ emits \in 0..MaxEmits
  BY <1>a DEF EmitterInv, TypeOK
<1>1. /\ myMap' = [myMap EXCEPT ![e] = w] /\ stack' = (IF w = <<>> THEN Freed(e) ELSE stack)
      /\ emits < MaxEmits /\ emits' = emits + 1
      /\ queued' = [id \in Ids |-> IF \E l \in ToSet(myMap[e]) : l.id = id
                                   THEN queued[id] + 1 ELSE queued[id]]
      /\ UNCHANGED <<memory, granted, calls>> /\ astray' \in BOOLEAN
  BY <1>a, <1>b, <1>c DEF EmitFastAndSchedule, Decremented
<1>2. d \in Seq(Listener) /\ DOMAIN d = DOMAIN v /\ \A i \in DOMAIN v : d[i].id = v[i].id
  <2>1. \A i \in DOMAIN v : Decrement(v[i]) \in Listener /\ Decrement(v[i]).id = v[i].id
    BY <1>0, DecrementKeeps
  <2>2. Len(v) \in Nat /\ DOMAIN v = 1..Len(v)
    BY <1>0
  <2>3. d \in [1..Len(v) -> Listener]
    BY <1>b, <2>1, <2>2
  <2>4. \A m \in Nat : \A s \in [1..m -> Listener] : s \in Seq(Listener)
    OBVIOUS
  <2>. QED
    BY <1>b, <2>1, <2>2, <2>3, <2>4
<1>3. w \in Seq(Listener) /\ IdsFrom(w, d)
  BY <1>2, <1>c, TidySub, SubVectorIds
<1>4. IdsFrom(w, v)
  BY <1>2, <1>3 DEF IdsFrom
<1>5. queued' \in [Ids -> Nat] /\ emits' \in 0..MaxEmits
  BY <1>0, <1>1, Bounds
<1>6. stack' \in Seq(Frame) /\ \A i \in DOMAIN stack' : \E j \in DOMAIN stack : stack'[i] \in {stack[j], FreedLoop(stack[j])}
  BY <1>0, <1>1, FreedLoops
<1>. QED
  BY <1>1, <1>3, <1>4, <1>5, <1>6, <1>a, ShrinkKeepsInv

(* A step of the specification. *)
LEMMA NextKeepsInv == EmitterInv /\ [Next]_vars => EmitterInv'
<1>1. SUFFICES ASSUME EmitterInv, [Next]_vars PROVE EmitterInv'
  OBVIOUS
<1>2. CASE \E e \in Events, h \in Handlers, n \in Counts : AddManyListener(e, h, n)
  BY <1>1, <1>2, AddKeepsInv
<1>3. CASE \E e \in Events, h \in Handlers : RemoveListener(e, h)
  BY <1>1, <1>3, RemoveKeepsInv
<1>4. CASE \E e \in Events : RemoveAllListeners(e)
  BY <1>1, <1>4, RemoveAllKeepsInv
<1>5. CASE \E e \in Events : Emit(e)
  BY <1>1, <1>5, EmitKeepsInv
<1>6. CASE \E e \in Events : EmitFastAndSchedule(e)
  BY <1>1, <1>6, ScheduleKeepsInv
<1>7. CASE Visit
  BY <1>1, <1>7, VisitKeepsInv
<1>8. CASE VisitInvalid
  BY <1>1, <1>8 DEF EmitterInv, TypeOK, Ids, VisitInvalid
<1>9. CASE EndEmit
  BY <1>1, <1>9, EndKeepsInv
<1>10. CASE \E id \in Ids : RunTask(id)
  <2>1. PICK id \in Ids : RunTask(id)
    BY <1>10
  <2>2. queued' \in [Ids -> Nat] /\ calls' \in [Ids -> Nat]
    BY <1>1, <2>1 DEF EmitterInv, TypeOK, RunTask
  <2>. QED
    BY <1>1, <2>1, <2>2 DEF EmitterInv, TypeOK, Ids, RunTask
<1>11. CASE UNCHANGED vars
  BY <1>1, <1>11 DEF EmitterInv, TypeOK, Ids, vars
<1>. QED
  BY <1>1, <1>2, <1>3, <1>4, <1>5, <1>6, <1>7, <1>8, <1>9, <1>10, <1>11 DEF Next

(* Nothing is registered at the start. *)
LEMMA InitInv == Init => EmitterInv
<1>. SUFFICES ASSUME Init PROVE EmitterInv
  OBVIOUS
<1>1. TypeOK
  <2>1. astray \in BOOLEAN
    BY DEF Init
  <2>. QED
    BY <2>1, Bounds DEF Init, TypeOK, Ids
<1>2. Len(granted) <= MaxListeners
  BY Bounds DEF Init
<1>. QED
  BY <1>1, <1>2 DEF Init, EmitterInv, Ordered

(***************************************************************************)
(* In every behaviour, an emit calls its listeners in the order of their   *)
(* registration and none of them twice: whatever its handlers register and *)
(* remove, however deep they emit the same event again, and although tidy  *)
(* erases through iterators that it has invalidated.                       *)
(***************************************************************************)
THEOREM InOrderCorrect == Spec => []InOrder
<1>1. EmitterInv => InOrder
  BY DEF EmitterInv, LoopOrdered, InOrder
<1>. QED
  BY <1>1, InitInv, NextKeepsInv, PTL DEF Spec

-----------------------------------------------------------------------------
(* The counts, until the code loses them. *)

(* Nobody is registered twice under one number. *)
Distinct(m) ==
  \A e1, e2 \in Events : \A i \in DOMAIN m[e1], j \in DOMAIN m[e2] :
    m[e1][i].id = m[e2][j].id => e1 = e2 /\ i = j

(* The calls made and due, and the ones the count still allows, are within *)
(* what the listener asked for; u counts the calls made and due.           *)
Covered(m, u, g) ==
  \A e \in Events : \A i \in DOMAIN m[e] :
    g[m[e][i].id] > 0 => m[e][i].count >= 0 /\ u[m[e][i].id] + m[e][i].count <= g[m[e][i].id]

Within(u, g) == \A id \in DOMAIN g : g[id] > 0 => u[id] <= g[id]

Used == [id \in Ids |-> calls[id] + queued[id]]

(* No two of the loops s are over one event. *)
LoopsApart(s) == \A i, j \in DOMAIN s : s[i].event = s[j].event => i = j

(* Among the loops s is one over event e that has passed place i, or that  *)
(* cannot go on.                                                           *)
Passed(s, e, i) ==
  \E j \in DOMAIN s : s[j].event = e /\ (s[j].storage = "live" => i <= s[j].at)

(* A used-up listener waits for the end of an emit under way, which has    *)
(* passed it.                                                              *)
UsedUp ==
  memory = "defined" =>
    \A e \in Events : \A i \in DOMAIN myMap[e] : myMap[e][i].count = 0 => Passed(stack, e, i)

BudgetInv ==
  /\ EmitterInv
  /\ LoopsApart(stack)
  /\ Distinct(myMap) /\ Covered(myMap, Used, granted) /\ Within(Used, granted)
  /\ UsedUp

(* The loops t are the loops s, and the storage of some is freed. *)
FreedSome(t, s) == DOMAIN t = DOMAIN s /\ \A j \in DOMAIN s : t[j] \in {s[j], FreedLoop(s[j])}

(* A loop whose storage is freed is over the same event and cannot go on. *)
LEMMA FreedSomeKeeps ==
  ASSUME NEW s \in Seq(Frame), NEW t, FreedSome(t, s)
  PROVE  /\ \A j \in DOMAIN s : t[j].event = s[j].event /\ (t[j].storage = "live" => t[j] = s[j])
         /\ LoopsApart(s) => LoopsApart(t)
         /\ \A e, i : Passed(s, e, i) => Passed(t, e, i)
<1>1. ASSUME NEW j \in DOMAIN s PROVE t[j].event = s[j].event /\ (t[j].storage = "live" => t[j] = s[j])
  <2>1. s[j] \in Frame /\ t[j] \in {s[j], FreedLoop(s[j])}
    BY <1>1 DEF FreedSome
  <2>2. FreedLoop(s[j]).event = s[j].event /\ FreedLoop(s[j]).storage = "freed"
    BY <2>1 DEF FreedLoop, Frame
  <2>. QED
    BY <2>1, <2>2
<1>2. DOMAIN t = DOMAIN s
  BY DEF FreedSome
<1>3. LoopsApart(s) => LoopsApart(t)
  BY <1>1, <1>2 DEF LoopsApart
<1>4. ASSUME NEW e, NEW i, Passed(s, e, i) PROVE Passed(t, e, i)
  <2>1. PICK j : j \in DOMAIN s /\ s[j].event = e /\ (s[j].storage = "live" => i <= s[j].at)
    BY <1>4 DEF Passed
  <2>2. t[j].event = e /\ (t[j].storage = "live" => i <= t[j].at)
    BY <1>1, <2>1
  <2>. QED
    BY <1>2, <2>1, <2>2 DEF Passed
<1>. QED
  BY <1>1, <1>3, <1>4

(* Moving or destroying a vector does so. *)
LEMMA FreedIsSome == stack \in Seq(Frame) => \A e : FreedSome(Freed(e), stack) /\ FreedSome(stack, stack)
<1>1. ASSUME stack \in Seq(Frame), NEW e PROVE FreedSome(Freed(e), stack)
  BY <1>1, FreedLoops DEF FreedSome
<1>2. FreedSome(stack, stack)
  BY DEF FreedSome
<1>. QED
  BY <1>1, <1>2

(***************************************************************************)
(* With at most one expired listener, tidy erases that one and no other.   *)
(***************************************************************************)
LEMMA TidyOne ==
  ASSUME NEW S, NEW v \in Seq(S), \A i, j \in DOMAIN v : Expired(v[i]) /\ Expired(v[j]) => i = j
  PROVE  /\ \A p \in DOMAIN Tidy(v) : ~ Expired(Tidy(v)[p])
         /\ \A i \in DOMAIN v : ~ Expired(v[i]) => \E p \in DOMAIN Tidy(v) : Tidy(v)[p] = v[i]
<1>0. Len(v) \in Nat /\ DOMAIN v = 1..Len(v)
  OBVIOUS
<1>1. PICK x \in Nat : \A i \in DOMAIN v : Expired(v[i]) <=> i = x
  <2>1. CASE \E i \in DOMAIN v : Expired(v[i])
    <3>1. PICK i \in DOMAIN v : Expired(v[i])
      BY <2>1
    <3>2. i \in Nat /\ \A j \in DOMAIN v : Expired(v[j]) <=> j = i
      BY <1>0, <3>1
    <3>. QED
      BY <3>2
  <2>2. CASE ~ \E i \in DOMAIN v : Expired(v[i])
    <3>1. \A i \in DOMAIN v : Expired(v[i]) <=> i = 0
      BY <1>0, <2>2
    <3>. QED
      BY <3>1
  <2>. QED
    BY <2>1, <2>2
<1>2. PICK f : Tidying(f, v, Len(v)) /\ Tidy(v) = f[Len(v)]
  BY TidyIsLast
<1>3. f = [i \in 0..Len(v) |-> IF i = 0 THEN v ELSE TidyStep(v, f[i - 1], i)]
  BY <1>2 DEF Tidying
<1>4. PICK T \in SUBSET Nat :
        T = {m \in Nat : m <= Len(v) => f[m] = IF x \in 1..m THEN EraseAt(v, x) ELSE v}
  OBVIOUS
<1>5. 0 \in T
  <2>1. 0 \in 0..Len(v) /\ x \notin 1..0
    BY <1>0
  <2>2. f[0] = v
    BY <1>3, <2>1
  <2>. QED
    BY <1>4, <2>1, <2>2
<1>6. ASSUME NEW m \in T PROVE m + 1 \in T
  <2>0. SUFFICES ASSUME m + 1 <= Len(v)
        PROVE  f[m + 1] = IF x \in 1..(m + 1) THEN EraseAt(v, x) ELSE v
    BY <1>4
  <2>1. m \in Nat /\ m <= Len(v) /\ m + 1 \in 0..Len(v) /\ m + 1 # 0 /\ m + 1 - 1 = m /\ m + 1 \in DOMAIN v
    BY <1>0, <1>4, <2>0
  <2>2. f[m] = IF x \in 1..m THEN EraseAt(v, x) ELSE v
    BY <1>4, <1>6, <2>1
  <2>3. f[m + 1] = TidyStep(v, f[m], m + 1)
    BY <1>3, <2>1
  <2>4. Expired(v[m + 1]) <=> m + 1 = x
    BY <1>1, <2>1
  <2>5. CASE m + 1 = x
    <3>1. x \notin 1..m /\ x \in 1..(m + 1)
      BY <2>1, <2>5
    <3>. QED
      BY <2>2, <2>3, <2>4, <2>5, <3>1 DEF TidyStep
  <2>6. CASE m + 1 # x
    <3>1. x \in 1..m <=> x \in 1..(m + 1)
      BY <2>1, <2>6
    <3>. QED
      BY <2>2, <2>3, <2>4, <2>6, <3>1 DEF TidyStep
  <2>. QED
    BY <2>5, <2>6
<1>7. T = Nat
  BY <1>5, <1>6, SetInduction
<1>8. Tidy(v) = IF x \in 1..Len(v) THEN EraseAt(v, x) ELSE v
  BY <1>0, <1>2, <1>4, <1>7
<1>9. CASE x \notin 1..Len(v)
  BY <1>0, <1>1, <1>8, <1>9
<1>10. CASE x \in 1..Len(v)
  <2>a. PICK w : w = EraseAt(v, x)
    OBVIOUS
  <2>0. x \in Nat \ {0} /\ x \in DOMAIN v
    BY <1>0, <1>10
  <2>1. /\ w \in Seq(S) /\ Len(w) = Len(v) - 1
        /\ \A p \in 1..(Len(v) - 1) : w[p] = IF p < x THEN v[p] ELSE v[p + 1]
    BY <2>0, <2>a, Erased
  <2>2. DOMAIN w = 1..(Len(v) - 1)
    BY <2>1
  <2>3. Tidy(v) = w
    BY <1>8, <1>10, <2>a
  <2>4. ASSUME NEW p \in 1..(Len(v) - 1) PROVE ~ Expired(w[p])
    <3>1. CASE p < x
      <4>1. p \in DOMAIN v /\ p # x /\ w[p] = v[p]
        BY <1>0, <2>0, <2>1, <2>4, <3>1
      <4>. QED
        BY <1>1, <4>1
    <3>2. CASE ~ (p < x)
      <4>1. p + 1 \in DOMAIN v /\ p + 1 # x /\ w[p] = v[p + 1]
        BY <1>0, <2>0, <2>1, <2>4, <3>2
      <4>. QED
        BY <1>1, <4>1
    <3>. QED
      BY <3>1, <3>2
  <2>5. ASSUME NEW i \in DOMAIN v, ~ Expired(v[i]) PROVE \E p \in 1..(Len(v) - 1) : w[p] = v[i]
    <3>0. i # x /\ i \in Nat
      BY <1>0, <1>1, <2>5
    <3>1. CASE i < x
      <4>1. i \in 1..(Len(v) - 1)
        BY <1>0, <1>10, <2>5, <3>0, <3>1
      <4>. QED
        BY <2>1, <3>1, <4>1
    <3>2. CASE ~ (i < x)
      <4>1. i - 1 \in 1..(Len(v) - 1) /\ ~ (i - 1 < x) /\ i - 1 + 1 = i
        BY <1>0, <1>10, <2>0, <2>5, <3>0, <3>2
      <4>. QED
        BY <2>1, <4>1
    <3>. QED
      BY <3>1, <3>2
  <2>. QED
    BY <2>2, <2>3, <2>4, <2>5
<1>. QED
  BY <1>9, <1>10

(* Less of one vector keeps the accounts. *)
LEMMA ShrinkKeepsAccounts ==
  ASSUME NEW m \in [Events -> Seq(Listener)], NEW e \in Events, NEW w \in Seq(Listener),
         SubVector(w, m[e]), NEW u, NEW g, Distinct(m), Covered(m, u, g)
  PROVE  LET m2 == [m EXCEPT ![e] = w]
         IN  Distinct(m2) /\ Covered(m2, u, g)
<1>a. PICK m2 : m2 = [m EXCEPT ![e] = w]
  OBVIOUS
<1>1. PICK k : Embeds(k, w, m[e])
  BY DEF SubVector
<1>b. PICK at : at = [x \in Events |-> IF x = e THEN k ELSE [p \in DOMAIN m[x] |-> p]]
  OBVIOUS
<1>2. ASSUME NEW x \in Events, NEW p \in DOMAIN m2[x]
      PROVE  at[x][p] \in DOMAIN m[x] /\ m2[x][p] = m[x][at[x][p]]
  <2>1. CASE x = e
    BY <1>1, <1>2, <1>a, <1>b, <2>1 DEF Embeds
  <2>2. CASE x # e
    BY <1>2, <1>a, <1>b, <2>2
  <2>. QED
    BY <2>1, <2>2
<1>3. ASSUME NEW x \in Events, NEW p \in DOMAIN m2[x], NEW q \in DOMAIN m2[x], at[x][p] = at[x][q]
      PROVE  p = q
  <2>1. CASE x = e
    <3>1. p \in DOMAIN w /\ q \in DOMAIN w /\ k[p] = k[q]
      BY <1>3, <1>a, <1>b, <2>1
    <3>2. p \in Nat /\ q \in Nat
      BY <3>1
    <3>3. ~ (p < q) /\ ~ (q < p)
      <4>1. k[p] \in DOMAIN m[e] /\ k[q] \in DOMAIN m[e]
        BY <1>1, <3>1 DEF Embeds
      <4>2. k[p] \in Nat /\ k[q] \in Nat
        BY <4>1
      <4>. QED
        BY <1>1, <3>1, <4>2 DEF Embeds
    <3>. QED
      BY <3>2, <3>3
  <2>2. CASE x # e
    BY <1>3, <1>a, <1>b, <2>2
  <2>. QED
    BY <2>1, <2>2
<1>4. Distinct(m2)
  <2>1. ASSUME NEW x \in Events, NEW y \in Events, NEW p \in DOMAIN m2[x], NEW q \in DOMAIN m2[y],
               m2[x][p].id = m2[y][q].id
        PROVE  x = y /\ p = q
    <3>1. x = y /\ at[x][p] = at[y][q]
      BY <1>2, <2>1 DEF Distinct
    <3>. QED
      BY <1>3, <2>1, <3>1
  <2>. QED
    BY <2>1 DEF Distinct
<1>6. Covered(m2, u, g)
  <2>1. ASSUME NEW x \in Events, NEW p \in DOMAIN m2[x], g[m2[x][p].id] > 0
        PROVE  m2[x][p].count >= 0 /\ u[m2[x][p].id] + m2[x][p].count <= g[m2[x][p].id]
    <3>1. PICK i \in DOMAIN m[x] : m2[x][p] = m[x][i]
      BY <1>2, <2>1
    <3>. QED
      BY <2>1, <3>1 DEF Covered
  <2>. QED
    BY <2>1 DEF Covered
<1>. QED
  BY <1>4, <1>6, <1>a

(* The listeners of v at the places K are counted down, and their calls    *)
(* are made or become due.                                                 *)
CountedDown(v, K) == [i \in DOMAIN v |-> IF i \in K THEN Decrement(v[i]) ELSE v[i]]

UsedMore(u, v, K) == [id \in DOMAIN u |-> IF \E i \in K : v[i].id = id THEN u[id] + 1 ELSE u[id]]

(* A listener that is counted down. *)
LEMMA CountedDownAt ==
  ASSUME NEW v \in Seq(Listener), NEW K \in SUBSET DOMAIN v
  PROVE  /\ CountedDown(v, K) \in Seq(Listener) /\ DOMAIN CountedDown(v, K) = DOMAIN v
         /\ \A i \in DOMAIN v : /\ CountedDown(v, K)[i].id = v[i].id
                                /\ CountedDown(v, K)[i].count = IF i \in K /\ v[i].count > 0
                                                                THEN v[i].count - 1 ELSE v[i].count
                                /\ v[i].count < 0 => CountedDown(v, K)[i] = v[i]
<1>0. Len(v) \in Nat /\ DOMAIN v = 1..Len(v)
  OBVIOUS
<1>1. \A i \in DOMAIN v : v[i] \in Listener /\ v[i].count \in Int
  <2>1. \A i \in DOMAIN v : v[i] \in Listener
    OBVIOUS
  <2>. QED
    BY <2>1, Fields
<1>2. \A i \in DOMAIN v : /\ Decrement(v[i]) \in Listener /\ Decrement(v[i]).id = v[i].id
                          /\ Decrement(v[i]).count = IF v[i].count > 0 THEN v[i].count - 1 ELSE v[i].count
  BY <1>1, DecrementKeeps
<1>3. \A i \in DOMAIN v : v[i].count < 0 => Decrement(v[i]) = v[i]
  BY <1>1 DEF Decrement
<1>a. PICK d : d = CountedDown(v, K)
  OBVIOUS
<1>4. DOMAIN d = DOMAIN v /\ \A i \in DOMAIN v : d[i] = IF i \in K THEN Decrement(v[i]) ELSE v[i]
  BY <1>a DEF CountedDown
<1>5. d \in Seq(Listener)
  <2>1. d = [i \in 1..Len(v) |-> IF i \in K THEN Decrement(v[i]) ELSE v[i]]
    BY <1>0, <1>a DEF CountedDown
  <2>2. d \in [1..Len(v) -> Listener]
    BY <1>0, <1>1, <1>2, <2>1
  <2>3. \A n \in Nat : \A s \in [1..n -> Listener] : s \in Seq(Listener)
    OBVIOUS
  <2>. QED
    BY <1>0, <2>2, <2>3
<1>. QED
  BY <1>2, <1>3, <1>4, <1>5, <1>a

(* Counting down, and calling, keeps the accounts. *)
LEMMA CountDownKeepsAccounts ==
  ASSUME NEW m \in [Events -> Seq(Listener)], NEW e \in Events, NEW K \in SUBSET DOMAIN m[e],
         NEW n \in Nat, \A x \in Events : Ordered(m[x], n),
         NEW u \in [1..n -> Nat], NEW g \in [1..n -> Int],
         \A i \in K : m[e][i].count # 0,
         Distinct(m), Covered(m, u, g), Within(u, g)
  PROVE  LET m2 == [m EXCEPT ![e] = CountedDown(m[e], K)]
             u2 == UsedMore(u, m[e], K)
         IN  Distinct(m2) /\ Covered(m2, u2, g) /\ Within(u2, g)
<1>a. PICK m2 : m2 = [m EXCEPT ![e] = CountedDown(m[e], K)]
  OBVIOUS
<1>b. PICK u2 : u2 = UsedMore(u, m[e], K)
  OBVIOUS
<1>0. ASSUME NEW x \in Events, NEW i \in DOMAIN m[x]
      PROVE  /\ m[x][i].id \in 1..n /\ m[x][i].count \in Int
  <2>1. m[x] \in Seq(Listener)
    OBVIOUS
  <2>2. m[x][i] \in Listener /\ m[x][i].id <= n
    BY <1>0, <2>1 DEF Ordered
  <2>3. m[x][i].id \in Nat /\ m[x][i].id \in 1..MaxListeners /\ m[x][i].count \in Int
    BY <2>2, Fields
  <2>. QED
    BY <2>2, <2>3, Bounds
<1>1. ASSUME NEW x \in Events
      PROVE  /\ DOMAIN m2[x] = DOMAIN m[x]
             /\ \A i \in DOMAIN m[x] : /\ m2[x][i].id = m[x][i].id
                                       /\ m2[x][i].count = IF x = e /\ i \in K /\ m[x][i].count > 0
                                                           THEN m[x][i].count - 1 ELSE m[x][i].count
  <2>1. CASE x = e
    <3>1. m2[x] = CountedDown(m[e], K) /\ m[e] \in Seq(Listener)
      BY <1>a, <2>1
    <3>. QED
      BY <2>1, <3>1, CountedDownAt
  <2>2. CASE x # e
    BY <1>a, <2>2
  <2>. QED
    BY <2>1, <2>2
<1>2. ASSUME NEW x \in Events, NEW i \in DOMAIN m2[x]
      PROVE  i \in DOMAIN m[x] /\ m2[x][i].id = m[x][i].id /\ (m2[x][i].count >= 0 => m[x][i].count >= 0)
  <2>1. i \in DOMAIN m[x]
    BY <1>1, <1>2
  <2>2. m[x][i].count \in Int
    BY <1>0, <2>1
  <2>. QED
    BY SMTT(30), <1>1, <2>1, <2>2
<1>3. Distinct(m2)
  <2>1. ASSUME NEW x \in Events, NEW y \in Events, NEW p \in DOMAIN m2[x], NEW q \in DOMAIN m2[y],
               m2[x][p].id = m2[y][q].id
        PROVE  x = y /\ p = q
    BY <1>2, <2>1 DEF Distinct
  <2>. QED
    BY <2>1 DEF Distinct
<1>5. DOMAIN u2 = 1..n /\ \A id \in 1..n : u2[id] = IF \E i \in K : m[e][i].id = id THEN u[id] + 1 ELSE u[id]
  BY <1>b DEF UsedMore
<1>6. ASSUME NEW x \in Events, NEW i \in DOMAIN m[x]
      PROVE  (\E j \in K : m[e][j].id = m[x][i].id) <=> (x = e /\ i \in K)
  BY <1>6 DEF Distinct
<1>7. Covered(m2, u2, g)
  <2>1. ASSUME NEW x \in Events, NEW i \in DOMAIN m2[x], g[m2[x][i].id] > 0
        PROVE  m2[x][i].count >= 0 /\ u2[m2[x][i].id] + m2[x][i].count <= g[m2[x][i].id]
    <3>a. PICK id : id = m[x][i].id
      OBVIOUS
    <3>b. PICK c : c = m[x][i].count
      OBVIOUS
    <3>1. i \in DOMAIN m[x] /\ m2[x][i].id = id
      BY <1>2, <2>1, <3>a
    <3>2. id \in 1..n /\ c \in Int
      BY <1>0, <3>1, <3>a, <3>b
    <3>3. u[id] \in Nat /\ g[id] \in Int
      BY <3>2
    <3>4. c >= 0 /\ u[id] + c <= g[id]
      BY <2>1, <3>1, <3>a, <3>b DEF Covered
    <3>5. m2[x][i].count = IF x = e /\ i \in K /\ c > 0 THEN c - 1 ELSE c
      BY <1>1, <3>1, <3>b
    <3>6. CASE x = e /\ i \in K
      <4>1. c # 0
        BY <3>6, <3>b
      <4>2. u2[id] = u[id] + 1
        BY <1>5, <1>6, <3>1, <3>2, <3>6, <3>a
      <4>3. m2[x][i].count = c - 1
        BY <3>2, <3>4, <3>5, <3>6, <4>1
      <4>. QED
        BY <3>1, <3>2, <3>3, <3>4, <4>1, <4>2, <4>3
    <3>7. CASE ~ (x = e /\ i \in K)
      <4>1. u2[id] = u[id] /\ m2[x][i].count = c
        BY <1>5, <1>6, <3>1, <3>2, <3>5, <3>7, <3>a
      <4>. QED
        BY <3>1, <3>4, <4>1
    <3>. QED
      BY <3>6, <3>7
  <2>. QED
    BY <2>1 DEF Covered
<1>8. Within(u2, g)
  <2>1. ASSUME NEW id \in DOMAIN g, g[id] > 0 PROVE u2[id] <= g[id]
    <3>0. id \in 1..n /\ u[id] \in Nat /\ g[id] \in Int
      BY <2>1
    <3>1. CASE \E i \in K : m[e][i].id = id
      <4>1. PICK i \in K : m[e][i].id = id
        BY <3>1
      <4>2. m[e][i].count >= 0 /\ u[id] + m[e][i].count <= g[id]
        BY <2>1, <4>1 DEF Covered
      <4>3. m[e][i].count # 0 /\ m[e][i].count \in Int
        BY <1>0
      <4>4. u2[id] = u[id] + 1
        BY <1>5, <3>0, <3>1
      <4>. QED
        BY <3>0, <4>2, <4>3, <4>4
    <3>2. CASE ~ \E i \in K : m[e][i].id = id
      <4>1. u2[id] = u[id]
        BY <1>5, <3>0, <3>2
      <4>. QED
        BY <2>1, <4>1 DEF Within
    <3>. QED
      BY <3>1, <3>2
  <2>. QED
    BY <2>1 DEF Within
<1>. QED
  BY <1>3, <1>7, <1>8, <1>a, <1>b

(* What the accounts are about. *)
LEMMA AccountTypes ==
  ASSUME BudgetInv
  PROVE  /\ myMap \in [Events -> Seq(Listener)] /\ stack \in Seq(Frame)
         /\ Len(granted) \in Nat /\ DOMAIN granted = 1..Len(granted) /\ Ids = 1..Len(granted)
         /\ granted \in [1..Len(granted) -> Int] /\ Used \in [1..Len(granted) -> Nat]
         /\ calls \in [Ids -> Nat] /\ queued \in [Ids -> Nat]
         /\ \A e \in Events : Ordered(myMap[e], Len(granted))
<1>1. /\ myMap \in [Events -> Seq(Listener)] /\ stack \in Seq(Frame) /\ granted \in Seq(Counts)
      /\ calls \in [Ids -> Nat] /\ queued \in [Ids -> Nat]
      /\ \A e \in Events : Ordered(myMap[e], Len(granted))
  BY DEF BudgetInv, EmitterInv, TypeOK
<1>2. Len(granted) \in Nat /\ DOMAIN granted = 1..Len(granted) /\ Ids = 1..Len(granted)
  BY <1>1 DEF Ids
<1>3. granted \in [1..Len(granted) -> Int]
  <2>1. \A c \in Counts : c \in Int
    BY CountsAssumption
  <2>2. granted \in [1..Len(granted) -> Counts]
    BY <1>1
  <2>. QED
    BY <2>1, <2>2
<1>4. Used \in [1..Len(granted) -> Nat]
  BY <1>1, <1>2 DEF Used
<1>. QED
  BY <1>1, <1>2, <1>3, <1>4

-----------------------------------------------------------------------------
(* The steps keep the accounts. *)

(* A registration: a new number, a new account. *)
LEMMA AddKeepsBudget ==
  ASSUME BudgetInv, NEW e \in Events, NEW h \in Handlers, NEW n \in Counts,
         AddManyListener(e, h, n)
  PROVE  BudgetInv'
<1>a. PICK N : N = Len(granted)
  OBVIOUS
<1>b. PICK l : l = [id |-> N + 1, handler |-> h, count |-> n]
  OBVIOUS
<1>0. /\ myMap \in [Events -> Seq(Listener)] /\ stack \in Seq(Frame)
      /\ N \in Nat /\ DOMAIN granted = 1..N /\ Ids = 1..N
      /\ granted \in [1..N -> Int] /\ Used \in [1..N -> Nat]
      /\ calls \in [1..N -> Nat] /\ queued \in [1..N -> Nat]
  BY <1>a, AccountTypes
<1>1. /\ myMap' = [myMap EXCEPT ![e] = Append(myMap[e], l)]
      /\ granted' = Append(granted, n) /\ calls' = Append(calls, 0) /\ queued' = Append(queued, 0)
      /\ stack' \in {stack, Freed(e)} /\ memory' = memory
  BY <1>a, <1>b DEF AddManyListener
<1>2. n \in Int /\ n # 0 /\ l.id = N + 1 /\ l.count = n
  BY <1>b, CountsAssumption
<1>3. EmitterInv'
  BY AddKeepsInv DEF BudgetInv
<1>5. ASSUME NEW x \in Events, NEW i \in DOMAIN myMap[x]
      PROVE  myMap[x][i].id \in 1..N /\ myMap[x][i].count \in Int
  <2>1. myMap[x] \in Seq(Listener) /\ Ordered(myMap[x], N)
    BY <1>0, <1>a DEF BudgetInv, EmitterInv
  <2>2. myMap[x][i] \in Listener /\ myMap[x][i].id <= N
    BY <1>5, <2>1 DEF Ordered
  <2>3. myMap[x][i].id \in Nat /\ myMap[x][i].id \in 1..MaxListeners /\ myMap[x][i].count \in Int
    BY <2>2, Fields
  <2>. QED
    BY <1>0, <2>2, <2>3, Bounds
<1>6. ASSUME NEW x \in Events, NEW i \in DOMAIN myMap'[x]
      PROVE  \/ i \in DOMAIN myMap[x] /\ myMap'[x][i] = myMap[x][i]
             \/ x = e /\ i = Len(myMap[e]) + 1 /\ myMap'[x][i] = l
  <2>1. CASE x = e
    <3>1. myMap'[x] = Append(myMap[e], l) /\ myMap[e] \in Seq(Listener)
      BY <1>0, <1>1, <2>1
    <3>2. \A s \in Seq(Listener) : \A j \in DOMAIN Append(s, l) :
            \/ j \in DOMAIN s /\ Append(s, l)[j] = s[j]
            \/ j = Len(s) + 1 /\ Append(s, l)[j] = l
      OBVIOUS
    <3>. QED
      BY <1>6, <2>1, <3>1, <3>2
  <2>2. CASE x # e
    BY <1>0, <1>1, <1>6, <2>2
  <2>. QED
    BY <2>1, <2>2
<1>7. /\ DOMAIN granted' = 1..(N + 1) /\ Ids' = 1..(N + 1)
      /\ granted'[N + 1] = n /\ \A id \in 1..N : granted'[id] = granted[id]
      /\ Used'[N + 1] = 0 /\ \A id \in 1..N : Used'[id] = Used[id]
  <2>1. \A s : DOMAIN s = 1..N /\ s \in Seq(Int) => /\ DOMAIN Append(s, n) = 1..(N + 1)
                                  /\ Append(s, n)[N + 1] = n /\ \A id \in 1..N : Append(s, n)[id] = s[id]
    BY <1>0, <1>2
  <2>2. \A s \in [1..N -> Nat] : /\ DOMAIN Append(s, 0) = 1..(N + 1)
                                  /\ Append(s, 0)[N + 1] = 0 /\ \A id \in 1..N : Append(s, 0)[id] = s[id]
    <3>1. \A s \in [1..N -> Nat] : s \in Seq(Nat) /\ Len(s) = N
      BY <1>0
    <3>2. \A s \in Seq(Nat) : /\ DOMAIN Append(s, 0) = 1..(Len(s) + 1)
                             /\ Append(s, 0)[Len(s) + 1] = 0 /\ \A id \in 1..Len(s) : Append(s, 0)[id] = s[id]
      OBVIOUS
    <3>. QED
      BY <3>1, <3>2
  <2>3. granted \in Seq(Int)
    BY <1>0
  <2>4. Ids' = 1..(N + 1)
    BY <1>0, <1>1, <2>1, <2>3 DEF Ids
  <2>5. Used' = [id \in 1..(N + 1) |-> calls'[id] + queued'[id]]
    BY <2>4 DEF Used
  <2>6. Used = [id \in 1..N |-> calls[id] + queued[id]]
    BY <1>0 DEF Used
  <2>7. calls'[N + 1] = 0 /\ queued'[N + 1] = 0
        /\ \A id \in 1..N : calls'[id] = calls[id] /\ queued'[id] = queued[id]
    BY <1>0, <1>1, <2>2
  <2>8. N + 1 \in 1..(N + 1) /\ \A id \in 1..N : id \in 1..(N + 1)
    BY <1>0
  <2>9. Used'[N + 1] = 0 /\ \A id \in 1..N : Used'[id] = Used[id]
    BY <2>5, <2>6, <2>7, <2>8
  <2>10. DOMAIN granted' = 1..(N + 1) /\ granted'[N + 1] = n /\ \A id \in 1..N : granted'[id] = granted[id]
    BY <1>0, <1>1, <2>1, <2>3
  <2>. QED
    BY <2>4, <2>9, <2>10
<1>8. Distinct(myMap')
  <2>1. ASSUME NEW x \in Events, NEW y \in Events, NEW p \in DOMAIN myMap'[x], NEW q \in DOMAIN myMap'[y],
               myMap'[x][p].id = myMap'[y][q].id
        PROVE  x = y /\ p = q
    <3>1. \A i \in 1..N : i # N + 1
      BY <1>0
    <3>2. \/ p \in DOMAIN myMap[x] /\ myMap'[x][p] = myMap[x][p]
          \/ x = e /\ p = Len(myMap[e]) + 1 /\ myMap'[x][p] = l
      BY <1>6
    <3>3. \/ q \in DOMAIN myMap[y] /\ myMap'[y][q] = myMap[y][q]
          \/ y = e /\ q = Len(myMap[e]) + 1 /\ myMap'[y][q] = l
      BY <1>6
    <3>. QED
      BY <1>2, <1>5, <2>1, <3>1, <3>2, <3>3 DEF BudgetInv, Distinct
  <2>. QED
    BY <2>1 DEF Distinct
<1>10. Covered(myMap', Used', granted')
  <2>1. ASSUME NEW x \in Events, NEW i \in DOMAIN myMap'[x], granted'[myMap'[x][i].id] > 0
        PROVE  /\ myMap'[x][i].count >= 0
               /\ Used'[myMap'[x][i].id] + myMap'[x][i].count <= granted'[myMap'[x][i].id]
    <3>1. CASE i \in DOMAIN myMap[x] /\ myMap'[x][i] = myMap[x][i]
      <4>1. myMap[x][i].id \in 1..N
        BY <1>5, <3>1
      <4>2. granted'[myMap[x][i].id] = granted[myMap[x][i].id] /\ Used'[myMap[x][i].id] = Used[myMap[x][i].id]
        BY <1>7, <4>1
      <4>. QED
        BY <2>1, <3>1, <4>2 DEF BudgetInv, Covered
    <3>2. CASE x = e /\ i = Len(myMap[e]) + 1 /\ myMap'[x][i] = l
      BY <1>2, <1>7, <2>1, <3>2
    <3>. QED
      BY <1>6, <2>1, <3>1, <3>2
  <2>. QED
    BY <2>1 DEF Covered
<1>11. Within(Used', granted')
  <2>1. ASSUME NEW id \in 1..(N + 1), granted'[id] > 0 PROVE Used'[id] <= granted'[id]
    <3>1. CASE id \in 1..N
      BY <1>0, <1>7, <2>1, <3>1 DEF BudgetInv, Within
    <3>2. CASE id = N + 1
      BY <1>2, <1>7, <2>1, <3>2
    <3>3. \A m \in Nat : \A k \in 1..(m + 1) : k \in 1..m \/ k = m + 1
      OBVIOUS
    <3>. QED
      BY <1>0, <2>1, <3>1, <3>2, <3>3
  <2>. QED
    BY <1>7, <2>1 DEF Within
<1>12. FreedSome(stack', stack)
  BY <1>0, <1>1, FreedIsSome
<1>13. UsedUp'
  <2>1. ASSUME memory' = "defined", NEW x \in Events, NEW i \in DOMAIN myMap'[x], myMap'[x][i].count = 0
        PROVE  Passed(stack', x, i)
    <3>1. i \in DOMAIN myMap[x] /\ myMap'[x][i] = myMap[x][i]
      BY <1>2, <1>6, <2>1
    <3>2. Passed(stack, x, i)
      BY <1>1, <2>1, <3>1 DEF BudgetInv, UsedUp
    <3>. QED
      BY <1>0, <1>12, <3>2, FreedSomeKeeps
  <2>. QED
    BY <2>1 DEF UsedUp
<1>14. LoopsApart(stack')
  BY <1>0, <1>12, FreedSomeKeeps DEF BudgetInv
<1>. QED
  BY <1>3, <1>8, <1>10, <1>11, <1>13, <1>14 DEF BudgetInv

(* Less of one vector, and no call: the accounts stay. *)
LEMMA ShrinkKeepsBudget ==
  ASSUME BudgetInv, NEW e \in Events, NEW w \in Seq(Listener), SubVector(w, myMap[e]),
         myMap' = [myMap EXCEPT ![e] = w], granted' = granted, calls' = calls, queued' = queued
  PROVE  Distinct(myMap') /\ Covered(myMap', Used', granted') /\ Within(Used', granted')
<1>1. myMap \in [Events -> Seq(Listener)]
  BY AccountTypes
<1>2. Used' = Used
  BY DEF Used, Ids
<1>3. Distinct(myMap) /\ Covered(myMap, Used, granted) /\ Within(Used, granted)
  BY DEF BudgetInv
<1>4. Distinct(myMap') /\ Covered(myMap', Used, granted)
  BY <1>1, <1>3, ShrinkKeepsAccounts
<1>. QED
  BY <1>2, <1>3, <1>4

(* off: the listeners that stay move towards the front, behind what the    *)
(* loop has passed.                                                        *)
LEMMA RemoveKeepsBudget ==
  ASSUME BudgetInv, NEW e \in Events, NEW h \in Handlers, RemoveListener(e, h)
  PROVE  BudgetInv'
<1>a. PICK w : w = Without(myMap[e], h)
  OBVIOUS
<1>1. myMap \in [Events -> Seq(Listener)]
  BY AccountTypes
<1>2. w \in Seq(Listener) /\ SubVector(w, myMap[e])
  BY <1>1, <1>a, WithoutSub
<1>3. /\ myMap' = [myMap EXCEPT ![e] = w] /\ stack' = stack /\ memory' = memory
      /\ granted' = granted /\ calls' = calls /\ queued' = queued
  BY <1>a DEF RemoveListener
<1>4. Distinct(myMap') /\ Covered(myMap', Used', granted') /\ Within(Used', granted')
  BY <1>2, <1>3, ShrinkKeepsBudget
<1>5. EmitterInv'
  BY RemoveKeepsInv DEF BudgetInv
<1>6. PICK k : Embeds(k, w, myMap[e])
  BY <1>2 DEF SubVector
<1>7. UsedUp'
  <2>1. ASSUME memory' = "defined", NEW x \in Events, NEW i \in DOMAIN myMap'[x], myMap'[x][i].count = 0
        PROVE  Passed(stack', x, i)
    <3>1. CASE x = e
      <4>1. myMap'[x] = w /\ i \in DOMAIN w /\ i \in Nat
        BY <1>1, <1>2, <1>3, <2>1, <3>1
      <4>2. k[i] \in DOMAIN myMap[e] /\ k[i] >= i /\ w[i] = myMap[e][k[i]]
        BY <1>6, <4>1 DEF Embeds
      <4>3. k[i] \in Nat
        BY <1>1, <4>2
      <4>4. PICK j : j \in DOMAIN stack /\ stack[j].event = e /\ (stack[j].storage = "live" => k[i] <= stack[j].at)
        BY <1>3, <2>1, <4>1, <4>2 DEF BudgetInv, UsedUp, Passed
      <4>5. stack[j].at \in Nat
        <5>1. stack \in Seq(Frame)
          BY AccountTypes
        <5>2. stack[j] \in Frame
          BY <4>4, <5>1
        <5>. QED
          BY <5>2, Fields
      <4>6. stack[j].storage = "live" => i <= stack[j].at
        BY <4>1, <4>2, <4>3, <4>4, <4>5
      <4>. QED
        BY <1>3, <3>1, <4>4, <4>6 DEF Passed
    <3>2. CASE x # e
      <4>1. myMap'[x] = myMap[x]
        BY <1>1, <1>3, <3>2
      <4>. QED
        BY <1>3, <2>1, <4>1 DEF BudgetInv, UsedUp
    <3>. QED
      BY <3>1, <3>2
  <2>. QED
    BY <2>1 DEF UsedUp
<1>. QED
  BY <1>3, <1>4, <1>5, <1>7 DEF BudgetInv

(* allOff: the vector is gone, and the loop over it cannot go on. *)
LEMMA RemoveAllKeepsBudget ==
  ASSUME BudgetInv, NEW e \in Events, RemoveAllListeners(e)
  PROVE  BudgetInv'
<1>1. myMap \in [Events -> Seq(Listener)] /\ stack \in Seq(Frame)
  BY AccountTypes
<1>2. <<>> \in Seq(Listener) /\ SubVector(<<>>, myMap[e])
  BY <1>1, SubVectors
<1>3. /\ myMap' = [myMap EXCEPT ![e] = <<>>] /\ stack' = Freed(e) /\ memory' = memory
      /\ granted' = granted /\ calls' = calls /\ queued' = queued
  BY DEF RemoveAllListeners
<1>4. Distinct(myMap') /\ Covered(myMap', Used', granted') /\ Within(Used', granted')
  BY <1>2, <1>3, ShrinkKeepsBudget
<1>5. EmitterInv'
  BY RemoveAllKeepsInv DEF BudgetInv
<1>6. FreedSome(stack', stack)
  BY <1>1, <1>3, FreedIsSome
<1>7. UsedUp'
  <2>1. ASSUME memory' = "defined", NEW x \in Events, NEW i \in DOMAIN myMap'[x], myMap'[x][i].count = 0
        PROVE  Passed(stack', x, i)
    <3>1. x # e /\ myMap'[x] = myMap[x]
      BY <1>1, <1>3, <2>1
    <3>2. Passed(stack, x, i)
      BY <1>3, <2>1, <3>1 DEF BudgetInv, UsedUp
    <3>. QED
      BY <1>1, <1>6, <3>2, FreedSomeKeeps
  <2>. QED
    BY <2>1 DEF UsedUp
<1>8. LoopsApart(stack')
  BY <1>1, <1>6, FreedSomeKeeps DEF BudgetInv
<1>. QED
  BY <1>4, <1>5, <1>7, <1>8 DEF BudgetInv

(* emit begins, in no emit of the same event. *)
LEMMA EmitKeepsBudget ==
  ASSUME BudgetInv, NEW e \in Events, Emit(e), ~ astray'
  PROVE  BudgetInv'
<1>a. PICK f : f = [event |-> e, at |-> 0, end |-> Len(myMap[e]), storage |-> "live", called |-> <<>>]
  OBVIOUS
<1>0. stack \in Seq(Frame)
  BY AccountTypes
<1>1. stack' = Append(stack, f) /\ UNCHANGED <<myMap, memory, granted, calls, queued>> /\ ~ Nested(e)
  BY <1>a DEF Emit
<1>2. /\ \A j \in DOMAIN stack : j \in DOMAIN stack' /\ stack'[j] = stack[j]
      /\ \A j \in DOMAIN stack' : j \in DOMAIN stack \/ (j = Len(stack) + 1 /\ stack'[j] = f)
  <2>1. \A t \in Seq(Frame) :
          /\ \A j \in DOMAIN t : j \in DOMAIN Append(t, f) /\ Append(t, f)[j] = t[j]
          /\ \A j \in DOMAIN Append(t, f) : j \in DOMAIN t \/ (j = Len(t) + 1 /\ Append(t, f)[j] = f)
    OBVIOUS
  <2>. QED
    BY <1>0, <1>1, <2>1
<1>3. LoopsApart(stack')
  <2>1. \A j \in DOMAIN stack : stack[j].event # e
    BY <1>1 DEF Nested
  <2>2. f.event = e
    BY <1>a
  <2>. QED
    BY <1>2, <2>1, <2>2 DEF BudgetInv, LoopsApart
<1>4. EmitterInv'
  BY EmitKeepsInv DEF BudgetInv
<1>5. Used' = Used
  BY <1>1 DEF Used, Ids
<1>6. \A x, i : Passed(stack, x, i) => Passed(stack', x, i)
  BY <1>2 DEF Passed
<1>7. UsedUp'
  BY <1>1, <1>6 DEF BudgetInv, UsedUp
<1>. QED
  BY <1>1, <1>3, <1>4, <1>5, <1>7 DEF BudgetInv

(* A listener is called: its count was not 0, for it stands behind what    *)
(* the loop has passed.                                                    *)
LEMMA VisitKeepsBudget ==
  ASSUME BudgetInv, Visit
  PROVE  BudgetInv'
<1>a. PICK f : f = Last(stack)
  OBVIOUS
<1>b. PICK k : k = f.at + 1
  OBVIOUS
<1>c. PICK v : v = myMap[f.event]
  OBVIOUS
<1>d. PICK g : g = Stepped(f, v[k].id)
  OBVIOUS
<1>e. PICK N : N = Len(granted)
  OBVIOUS
<1>n. PICK n : n = Len(stack)
  OBVIOUS
<1>0. /\ myMap \in [Events -> Seq(Listener)] /\ stack \in Seq(Frame) /\ N \in Nat /\ Ids = 1..N
      /\ granted \in [1..N -> Int] /\ Used \in [1..N -> Nat]
      /\ calls \in [1..N -> Nat] /\ queued \in [1..N -> Nat]
      /\ \A x \in Events : Ordered(myMap[x], N)
  BY <1>e, AccountTypes
<1>1. stack # <<>> /\ f = stack[n] /\ f \in Frame /\ n \in DOMAIN stack
  <2>1. stack # <<>>
    BY DEF Visit
  <2>. QED
    BY <1>0, <1>a, <1>n, <2>1, OuterLoops
<1>2. /\ memory = "defined" /\ f.storage = "live" /\ k <= Len(v)
      /\ myMap' = [myMap EXCEPT ![f.event] = [v EXCEPT ![k] = Decrement(v[k])]]
      /\ stack' = Front(stack) \o <<g>>
      /\ calls' = [calls EXCEPT ![v[k].id] = calls[v[k].id] + 1]
      /\ UNCHANGED <<memory, granted, queued>>
  BY <1>a, <1>b, <1>c, <1>d DEF Visit, Stepped
<1>3. f.event \in Events /\ f.at \in Nat
  BY <1>1, Fields
<1>4. v \in Seq(Listener) /\ k \in DOMAIN v /\ k > f.at /\ {k} \in SUBSET DOMAIN v
  BY <1>0, <1>2, <1>3, <1>b, <1>c
<1>5. v[k].count # 0
  <2>1. SUFFICES ASSUME v[k].count = 0 PROVE FALSE
    OBVIOUS
  <2>2. PICK j : j \in DOMAIN stack /\ stack[j].event = f.event /\ (stack[j].storage = "live" => k <= stack[j].at)
    BY <1>2, <1>3, <1>4, <1>c, <2>1 DEF BudgetInv, UsedUp, Passed
  <2>3. j = n
    BY <1>1, <2>2 DEF BudgetInv, LoopsApart
  <2>. QED
    BY <1>1, <1>2, <1>3, <1>b, <2>2, <2>3
<1>6. myMap' = [myMap EXCEPT ![f.event] = CountedDown(v, {k})]
  <2>1. [v EXCEPT ![k] = Decrement(v[k])] = CountedDown(v, {k})
    BY <1>4 DEF CountedDown
  <2>. QED
    BY <1>2, <2>1
<1>7. v[k].id \in 1..N
  <2>1. v[k] \in Listener /\ v[k].id <= N
    BY <1>0, <1>3, <1>4, <1>c DEF Ordered
  <2>2. v[k].id \in Nat /\ v[k].id \in 1..MaxListeners
    BY <2>1, Fields
  <2>. QED
    BY <1>0, <2>1, <2>2, Bounds
<1>8. Used' = UsedMore(Used, v, {k})
  <2>1. Ids' = 1..N
    BY <1>0, <1>2 DEF Ids
  <2>2. Used' = [id \in 1..N |-> calls'[id] + queued[id]]
    BY <1>2, <2>1 DEF Used
  <2>3. Used = [id \in 1..N |-> calls[id] + queued[id]]
    BY <1>0 DEF Used
  <2>4. UsedMore(Used, v, {k}) = [id \in 1..N |-> IF v[k].id = id THEN Used[id] + 1 ELSE Used[id]]
    BY <1>0 DEF UsedMore
  <2>5. ASSUME NEW id \in 1..N
        PROVE  calls'[id] + queued[id] = IF v[k].id = id THEN Used[id] + 1 ELSE Used[id]
    <3>1. calls[id] \in Nat /\ queued[id] \in Nat /\ Used[id] = calls[id] + queued[id]
      BY <1>0, <2>3
    <3>2. calls'[id] = IF v[k].id = id THEN calls[id] + 1 ELSE calls[id]
      BY <1>0, <1>2
    <3>. QED
      BY <3>1, <3>2
  <2>. QED
    BY <2>2, <2>4, <2>5
<1>9. Distinct(myMap) /\ Covered(myMap, Used, granted) /\ Within(Used, granted)
  BY DEF BudgetInv
<1>10. Distinct(myMap') /\ Covered(myMap', Used', granted) /\ Within(Used', granted)
  <2>1. {k} \in SUBSET DOMAIN myMap[f.event] /\ \A i \in {k} : myMap[f.event][i].count # 0
    BY <1>4, <1>5, <1>c
  <2>2. myMap' = [myMap EXCEPT ![f.event] = CountedDown(myMap[f.event], {k})] /\ Used' = UsedMore(Used, myMap[f.event], {k})
    BY <1>6, <1>8, <1>c
  <2>. QED
    BY <1>0, <1>3, <1>9, <2>1, <2>2, CountDownKeepsAccounts
<1>11. DOMAIN stack' = DOMAIN stack /\ \A j \in DOMAIN stack : stack'[j] = IF j = n THEN g ELSE stack[j]
  <2>1. PICK s : s = Front(stack)
    OBVIOUS
  <2>2. s \in Seq(Frame) /\ Len(s) = n - 1 /\ DOMAIN s = 1..(n - 1) /\ \A j \in DOMAIN s : s[j] = stack[j]
    BY <1>0, <1>1, <1>n, <2>1, OuterLoops
  <2>3. n \in Nat /\ n # 0 /\ DOMAIN stack = 1..n
    BY <1>0, <1>1, <1>n
  <2>4. DOMAIN (s \o <<g>>) = 1..n /\ \A j \in 1..n : (s \o <<g>>)[j] = IF j = n THEN g ELSE s[j]
    BY <2>2, <2>3
  <2>5. \A j \in 1..n : j # n => j \in 1..(n - 1)
    BY <2>3
  <2>. QED
    BY <1>2, <2>1, <2>2, <2>3, <2>4, <2>5
<1>12. g.event = f.event /\ g.at = k
  BY <1>1, <1>b, <1>d DEF Stepped, Frame
<1>13. LoopsApart(stack')
  BY <1>1, <1>11, <1>12 DEF BudgetInv, LoopsApart
<1>14. UsedUp'
  <2>1. ASSUME memory' = "defined", NEW x \in Events, NEW i \in DOMAIN myMap'[x], myMap'[x][i].count = 0
        PROVE  Passed(stack', x, i)
    <3>0. k \in Nat
      BY <1>3, <1>b
    <3>1. CASE x = f.event /\ i = k
      <4>1. stack'[n].event = x /\ i <= stack'[n].at /\ n \in DOMAIN stack'
        BY <1>1, <1>11, <1>12, <3>0, <3>1
      <4>. QED
        BY <4>1 DEF Passed
    <3>2. CASE ~ (x = f.event /\ i = k)
      <4>1. i \in DOMAIN myMap[x] /\ myMap[x][i].count = 0 /\ i \in Nat
        BY <1>0, <1>2, <1>3, <1>c, <2>1, <3>2
      <4>2. PICK j : j \in DOMAIN stack /\ stack[j].event = x /\ (stack[j].storage = "live" => i <= stack[j].at)
        BY <1>2, <4>1 DEF BudgetInv, UsedUp, Passed
      <4>3. CASE j = n
        <5>1. stack'[n].event = x /\ i <= stack'[n].at /\ n \in DOMAIN stack'
          BY <1>1, <1>2, <1>3, <1>11, <1>12, <1>b, <4>1, <4>2, <4>3
        <5>. QED
          BY <5>1 DEF Passed
      <4>4. CASE j # n
        BY <1>11, <4>2, <4>4 DEF Passed
      <4>. QED
        BY <4>3, <4>4
    <3>. QED
      BY <3>1, <3>2
  <2>. QED
    BY <2>1 DEF UsedUp
<1>15. EmitterInv'
  BY VisitKeepsInv DEF BudgetInv
<1>. QED
  BY <1>2, <1>10, <1>13, <1>14, <1>15 DEF BudgetInv

(* When no several are used up, at most one listener is expired. *)
LEMMA OneExpired ==
  ASSUME NEW v, ~ Several(v)
  PROVE  \A i, j \in DOMAIN v : Expired(v[i]) /\ Expired(v[j]) => i = j
BY DEF Several, Expired

(* emit ends, and tidy takes the used-up listener with it. *)
LEMMA EndKeepsBudget ==
  ASSUME BudgetInv, EndEmit, ~ astray'
  PROVE  BudgetInv'
<1>a. PICK e : e = Last(stack).event
  OBVIOUS
<1>b. PICK w : w = Tidy(myMap[e])
  OBVIOUS
<1>c. PICK s : s = IF w = <<>> THEN Freed(e) ELSE stack
  OBVIOUS
<1>0. myMap \in [Events -> Seq(Listener)] /\ stack \in Seq(Frame)
  BY AccountTypes
<1>1. /\ stack # <<>> /\ memory = "defined" /\ myMap' = [myMap EXCEPT ![e] = w] /\ stack' = Front(s)
      /\ UNCHANGED <<memory, granted, calls, queued>> /\ ~ Several(myMap[e])
  BY <1>a, <1>b, <1>c DEF EndEmit
<1>2. /\ Last(stack) = stack[Len(stack)] /\ Last(stack) \in Frame /\ Len(stack) \in DOMAIN stack /\ Len(stack) \in Nat
  BY <1>0, <1>1, OuterLoops
<1>3. e \in Events /\ e = stack[Len(stack)].event
  BY <1>2, <1>a, Fields
<1>4. w \in Seq(Listener) /\ SubVector(w, myMap[e])
  BY <1>0, <1>3, <1>b, TidySub
<1>5. Distinct(myMap') /\ Covered(myMap', Used', granted') /\ Within(Used', granted')
  BY <1>1, <1>3, <1>4, ShrinkKeepsBudget
<1>6. FreedSome(s, stack) /\ s \in Seq(Frame) /\ Len(s) = Len(stack) /\ s # <<>>
  <2>1. /\ FreedSome(Freed(e), stack) /\ FreedSome(stack, stack)
        /\ Freed(e) \in Seq(Frame) /\ Len(Freed(e)) = Len(stack)
    BY <1>0, FreedIsSome, FreedLoops
  <2>2. Len(stack) # 0
    BY <1>0, <1>1
  <2>3. FreedSome(s, stack) /\ s \in Seq(Frame) /\ Len(s) = Len(stack)
    BY <1>0, <1>c, <2>1
  <2>. QED
    BY <2>2, <2>3
<1>7. DOMAIN stack' = 1..(Len(stack) - 1) /\ \A j \in DOMAIN stack' : j \in DOMAIN s /\ stack'[j] = s[j]
  BY <1>1, <1>6, OuterLoops
<1>8. LoopsApart(stack')
  <2>1. LoopsApart(s)
    BY <1>0, <1>6, FreedSomeKeeps DEF BudgetInv
  <2>. QED
    BY <1>7, <2>1 DEF LoopsApart
<1>9. \A p \in DOMAIN w : w[p].count # 0
  <2>1. \A i, j \in DOMAIN myMap[e] : Expired(myMap[e][i]) /\ Expired(myMap[e][j]) => i = j
    BY <1>1, OneExpired
  <2>2. \A p \in DOMAIN w : ~ Expired(w[p])
    BY <1>0, <1>3, <1>b, <2>1, TidyOne
  <2>. QED
    BY <2>2 DEF Expired
<1>10. UsedUp'
  <2>1. ASSUME NEW x \in Events, NEW i \in DOMAIN myMap'[x], myMap'[x][i].count = 0 PROVE Passed(stack', x, i)
    <3>1. x # e /\ myMap'[x] = myMap[x]
      BY <1>0, <1>1, <1>9, <2>1
    <3>2. Passed(stack, x, i)
      BY <1>1, <2>1, <3>1 DEF BudgetInv, UsedUp
    <3>3. Passed(s, x, i)
      BY <1>0, <1>6, <3>2, FreedSomeKeeps
    <3>4. PICK j : j \in DOMAIN s /\ s[j].event = x /\ (s[j].storage = "live" => i <= s[j].at)
      BY <3>3 DEF Passed
    <3>5. s[Len(stack)].event = e
      BY <1>0, <1>2, <1>3, <1>6, FreedSomeKeeps
    <3>6. j \in DOMAIN stack'
      <4>1. DOMAIN s = 1..Len(stack) /\ j # Len(stack)
        BY <1>6, <3>1, <3>4, <3>5
      <4>. QED
        BY <1>2, <1>7, <3>4, <4>1
    <3>. QED
      BY <1>7, <3>4, <3>6 DEF Passed
  <2>. QED
    BY <2>1 DEF UsedUp
<1>11. EmitterInv'
  BY EndKeepsInv DEF BudgetInv
<1>. QED
  BY <1>5, <1>8, <1>10, <1>11 DEF BudgetInv

(* emitFastAndSchedule counts every listener down, leaves its call to the  *)
(* scheduler, and tidies.                                                  *)
LEMMA ScheduleKeepsBudget ==
  ASSUME BudgetInv, NEW e \in Events, EmitFastAndSchedule(e), ~ astray'
  PROVE  BudgetInv'
<1>a. PICK v : v = myMap[e]
  OBVIOUS
<1>b. PICK K : K = DOMAIN v
  OBVIOUS
<1>c. PICK d : d = CountedDown(v, K)
  OBVIOUS
<1>d. PICK w : w = Tidy(d)
  OBVIOUS
<1>e. PICK N : N = Len(granted)
  OBVIOUS
<1>f. PICK m : m = [myMap EXCEPT ![e] = d]
  OBVIOUS
<1>0. /\ myMap \in [Events -> Seq(Listener)] /\ stack \in Seq(Frame) /\ v \in Seq(Listener) /\ N \in Nat /\ Ids = 1..N
      /\ granted \in [1..N -> Int] /\ Used \in [1..N -> Nat]
      /\ calls \in [1..N -> Nat] /\ queued \in [1..N -> Nat]
      /\ \A x \in Events : Ordered(myMap[x], N)
  BY <1>a, <1>e, AccountTypes
<1>1. memory = "defined" /\ ~ Nested(e) /\ ~ Several(d)
  <2>1. d = Decremented(myMap[e])
    BY <1>a, <1>b, <1>c DEF CountedDown, Decremented
  <2>. QED
    BY <2>1 DEF EmitFastAndSchedule, May
<1>2. /\ myMap' = [myMap EXCEPT ![e] = w]
      /\ stack' = (IF w = <<>> THEN Freed(e) ELSE stack)
      /\ queued' = [id \in Ids |-> IF \E l \in ToSet(myMap[e]) : l.id = id THEN queued[id] + 1 ELSE queued[id]]
      /\ UNCHANGED <<memory, granted, calls>>
  <2>1. d = [i \in DOMAIN myMap[e] |-> Decrement(myMap[e][i])]
    BY <1>a, <1>b, <1>c DEF CountedDown
  <2>. QED
    BY <1>d, <2>1 DEF EmitFastAndSchedule, Decremented
<1>3. \A i \in DOMAIN myMap[e] : myMap[e][i].count # 0
  BY <1>1 DEF BudgetInv, UsedUp, Passed, Nested
<1>4. Used' = UsedMore(Used, v, K)
  <2>1. Ids' = 1..N
    BY <1>0, <1>2 DEF Ids
  <2>2. Used' = [id \in 1..N |-> calls[id] + queued'[id]]
    BY <1>2, <2>1 DEF Used
  <2>3. Used = [id \in 1..N |-> calls[id] + queued[id]]
    BY <1>0 DEF Used
  <2>4. UsedMore(Used, v, K) = [id \in 1..N |-> IF \E i \in K : v[i].id = id THEN Used[id] + 1 ELSE Used[id]]
    BY <1>0 DEF UsedMore
  <2>5. \A id : (\E l \in ToSet(myMap[e]) : l.id = id) <=> (\E i \in K : v[i].id = id)
    BY <1>a, <1>b DEF ToSet
  <2>6. ASSUME NEW id \in 1..N
        PROVE  calls[id] + queued'[id] = IF \E i \in K : v[i].id = id THEN Used[id] + 1 ELSE Used[id]
    <3>1. calls[id] \in Nat /\ queued[id] \in Nat /\ Used[id] = calls[id] + queued[id]
      BY <1>0, <2>3
    <3>2. queued'[id] = IF \E i \in K : v[i].id = id THEN queued[id] + 1 ELSE queued[id]
      BY <1>0, <1>2, <2>5
    <3>. QED
      BY <3>1, <3>2
  <2>. QED
    BY <2>2, <2>4, <2>6
<1>5. Distinct(myMap) /\ Covered(myMap, Used, granted) /\ Within(Used, granted)
  BY DEF BudgetInv
<1>6. Distinct(m) /\ Covered(m, Used', granted) /\ Within(Used', granted)
  <2>1. K \in SUBSET DOMAIN myMap[e] /\ \A i \in K : myMap[e][i].count # 0
    BY <1>3, <1>a, <1>b
  <2>2. m = [myMap EXCEPT ![e] = CountedDown(myMap[e], K)] /\ Used' = UsedMore(Used, myMap[e], K)
    BY <1>4, <1>a, <1>c, <1>f
  <2>. QED
    BY <1>0, <1>5, <2>1, <2>2, CountDownKeepsAccounts
<1>7. d \in Seq(Listener)
  BY <1>0, <1>b, <1>c, CountedDownAt
<1>8. m \in [Events -> Seq(Listener)] /\ m[e] = d
  BY <1>0, <1>7, <1>f
<1>9. w \in Seq(Listener) /\ SubVector(w, d)
  BY <1>7, <1>d, TidySub
<1>10. Distinct(myMap') /\ Covered(myMap', Used', granted)
  <2>1. myMap' = [m EXCEPT ![e] = w]
    BY <1>0, <1>2, <1>f
  <2>2. SubVector(w, m[e])
    BY <1>8, <1>9
  <2>. QED
    BY <1>6, <1>8, <1>9, <2>1, <2>2, ShrinkKeepsAccounts
<1>11. \A p \in DOMAIN w : w[p].count # 0
  <2>2. \A i, j \in DOMAIN d : Expired(d[i]) /\ Expired(d[j]) => i = j
    BY <1>1, OneExpired
  <2>3. \A p \in DOMAIN w : ~ Expired(w[p])
    BY <1>7, <1>d, <2>2, TidyOne
  <2>. QED
    BY <2>3 DEF Expired
<1>12. FreedSome(stack', stack)
  BY <1>0, <1>2, FreedIsSome
<1>13. UsedUp'
  <2>1. ASSUME NEW x \in Events, NEW i \in DOMAIN myMap'[x], myMap'[x][i].count = 0 PROVE Passed(stack', x, i)
    <3>1. x # e /\ myMap'[x] = myMap[x]
      BY <1>0, <1>2, <1>11, <2>1
    <3>2. Passed(stack, x, i)
      BY <1>1, <2>1, <3>1 DEF BudgetInv, UsedUp
    <3>. QED
      BY <1>0, <1>12, <3>2, FreedSomeKeeps
  <2>. QED
    BY <2>1 DEF UsedUp
<1>14. LoopsApart(stack')
  BY <1>0, <1>12, FreedSomeKeeps DEF BudgetInv
<1>15. EmitterInv'
  BY ScheduleKeepsInv DEF BudgetInv
<1>. QED
  BY <1>2, <1>6, <1>10, <1>13, <1>14, <1>15 DEF BudgetInv

(* A call that was due is made. *)
LEMMA RunKeepsBudget ==
  ASSUME BudgetInv, NEW id \in Ids, RunTask(id)
  PROVE  BudgetInv'
<1>1. calls \in [Ids -> Nat] /\ queued \in [Ids -> Nat]
  BY AccountTypes
<1>2. /\ queued[id] > 0 /\ queued' = [queued EXCEPT ![id] = queued[id] - 1]
      /\ calls' = [calls EXCEPT ![id] = calls[id] + 1]
      /\ UNCHANGED <<myMap, stack, memory, granted, emits>>
  BY DEF RunTask
<1>3. \A i \in Ids : calls'[i] + queued'[i] = calls[i] + queued[i]
  BY <1>1, <1>2
<1>4. Used' = Used
  BY <1>2, <1>3 DEF Used, Ids
<1>5. EmitterInv'
  BY NextKeepsInv DEF BudgetInv, Next
<1>6. UsedUp'
  BY <1>2 DEF BudgetInv, UsedUp
<1>. QED
  BY <1>2, <1>4, <1>5, <1>6 DEF BudgetInv

(* A step of the specification. *)
LEMMA NextKeepsBudget ==
  ASSUME ~ astray'
  PROVE  BudgetInv /\ [Next]_vars => BudgetInv'
<1>1. SUFFICES ASSUME BudgetInv, [Next]_vars PROVE BudgetInv'
  OBVIOUS
<1>2. CASE \E e \in Events, h \in Handlers, n \in Counts : AddManyListener(e, h, n)
  BY <1>1, <1>2, AddKeepsBudget
<1>3. CASE \E e \in Events, h \in Handlers : RemoveListener(e, h)
  BY <1>1, <1>3, RemoveKeepsBudget
<1>4. CASE \E e \in Events : RemoveAllListeners(e)
  BY <1>1, <1>4, RemoveAllKeepsBudget
<1>5. CASE \E e \in Events : Emit(e)
  BY <1>1, <1>5, EmitKeepsBudget
<1>6. CASE \E e \in Events : EmitFastAndSchedule(e)
  BY <1>1, <1>6, ScheduleKeepsBudget
<1>7. CASE Visit
  BY <1>1, <1>7, VisitKeepsBudget
<1>8. CASE VisitInvalid
  <2>1. EmitterInv'
    BY <1>1, NextKeepsInv DEF BudgetInv
  <2>2. memory' = "undefined" /\ UNCHANGED <<myMap, stack, granted, calls, queued, emits>>
    BY <1>8 DEF VisitInvalid
  <2>3. UsedUp' /\ Used' = Used
    BY <2>2 DEF UsedUp, Used, Ids
  <2>. QED
    BY <1>1, <2>1, <2>2, <2>3 DEF BudgetInv
<1>9. CASE EndEmit
  BY <1>1, <1>9, EndKeepsBudget
<1>10. CASE \E id \in Ids : RunTask(id)
  BY <1>1, <1>10, RunKeepsBudget
<1>11. CASE UNCHANGED vars
  <2>1. EmitterInv'
    BY <1>1, NextKeepsInv DEF BudgetInv
  <2>2. UsedUp' /\ Used' = Used
    BY <1>1, <1>11 DEF BudgetInv, UsedUp, Used, Ids, vars
  <2>. QED
    BY <1>1, <1>11, <2>1, <2>2 DEF BudgetInv, vars
<1>. QED
  BY <1>1, <1>2, <1>3, <1>4, <1>5, <1>6, <1>7, <1>8, <1>9, <1>10, <1>11 DEF Next

(* No accounts are open at the start. *)
LEMMA InitBudget == Init => BudgetInv
<1>. SUFFICES ASSUME Init PROVE BudgetInv
  OBVIOUS
<1>1. \A x \in Events : myMap[x] = <<>>
  BY DEF Init
<1>2. stack = <<>> /\ granted = <<>>
  BY DEF Init
<1>3. LoopsApart(stack)
  BY <1>2 DEF LoopsApart
<1>4. Distinct(myMap) /\ Covered(myMap, Used, granted) /\ UsedUp
  BY <1>1 DEF Distinct, Covered, UsedUp
<1>5. Within(Used, granted)
  BY <1>2 DEF Within
<1>. QED
  BY <1>3, <1>4, <1>5, InitInv DEF BudgetInv

(* The code that has lost count does not find it again. *)
LEMMA AstrayStays == EmitterInv /\ [Next]_vars => (~ astray' => ~ astray)
BY DEF Next, vars, AddManyListener, RemoveListener, RemoveAllListeners, Emit, EmitFastAndSchedule,
       Visit, VisitInvalid, EndEmit, RunTask

(***************************************************************************)
(* As long as no tidy has met several used-up listeners and no emit was    *)
(* made inside one of the same event, a listener registered with once or   *)
(* many is called, or due to be called, at most as often as it asked for,  *)
(* and no used-up listener is left when no emit is under way: whatever the *)
(* handlers register, remove and emit, and for any number of listeners,    *)
(* with a count or without, and any depth of nested emits.  So the two     *)
(* cases are all that the code does wrong with its counts.                 *)
(***************************************************************************)
THEOREM BudgetCorrect == Spec => []Budget
<1>. DEFINE Kept == EmitterInv /\ (~ astray => BudgetInv)
<1>1. Kept => Budget
  <2>. SUFFICES ASSUME Kept PROVE Budget
    OBVIOUS
  <2>1. TypeOK
    BY DEF EmitterInv
  <2>2. ASSUME ~ astray, NEW id \in Ids, granted[id] > 0 PROVE calls[id] + queued[id] <= granted[id]
    <3>1. Used[id] = calls[id] + queued[id] /\ id \in DOMAIN granted
      BY <2>2 DEF Used, Ids
    <3>. QED
      BY <2>2, <3>1 DEF BudgetInv, Within
  <2>3. ASSUME ~ astray, stack = <<>>, memory = "defined", NEW e \in Events, NEW i \in DOMAIN myMap[e]
        PROVE  myMap[e][i].count # 0
    BY <2>3 DEF BudgetInv, UsedUp, Passed
  <2>. QED
    BY <2>1, <2>2, <2>3 DEF Budget
<1>2. Init => Kept
  BY InitInv, InitBudget
<1>3. Kept /\ [Next]_vars => Kept'
  BY NextKeepsInv, NextKeepsBudget, AstrayStays
<1>. QED
  BY <1>1, <1>2, <1>3, PTL DEF Spec

(* Tidy leaves the listeners whose count is not 0. *)
LEMMA TidyLeaves ==
  ASSUME NEW v \in Seq(Listener), \A i, j \in DOMAIN v : Expired(v[i]) /\ Expired(v[j]) => i = j,
         NEW i \in DOMAIN v, v[i].count # 0
  PROVE  v[i] \in ToSet(Tidy(v))
<1>1. ~ Expired(v[i])
  BY DEF Expired
<1>2. \E p \in DOMAIN Tidy(v) : Tidy(v)[p] = v[i]
  BY <1>1, TidyOne
<1>. QED
  BY <1>2 DEF ToSet

(* No step but off, allOff and a tidy of several used-up listeners takes a *)
(* listener without a count away.                                          *)
LEMMA StepStays ==
  ASSUME EmitterInv, Next, NEW e \in Events
  PROVE  \/ \A l \in ToSet(myMap[e]) : l.count = -1 => l \in ToSet(myMap'[e])
         \/ RemoveAllListeners(e)
         \/ \E h \in Handlers : RemoveListener(e, h)
         \/ EndEmit /\ Last(stack).event = e /\ Several(myMap[e])
         \/ EmitFastAndSchedule(e) /\ Several(Decremented(myMap[e]))
<1>0. myMap \in [Events -> Seq(Listener)] /\ myMap[e] \in Seq(Listener)
  BY DEF EmitterInv, TypeOK
<1>a. SUFFICES ASSUME ~ RemoveAllListeners(e), ~ \E h \in Handlers : RemoveListener(e, h),
                      ~ (EndEmit /\ Last(stack).event = e /\ Several(myMap[e])),
                      ~ (EmitFastAndSchedule(e) /\ Several(Decremented(myMap[e]))),
                      NEW i \in DOMAIN myMap[e], myMap[e][i].count = -1
               PROVE  myMap[e][i] \in ToSet(myMap'[e])
  BY DEF ToSet
<1>b. \A s : i \in DOMAIN s /\ s[i] = myMap[e][i] => myMap[e][i] \in ToSet(s)
  BY DEF ToSet
<1>1. CASE \E x \in Events, h \in Handlers, n \in Counts : AddManyListener(x, h, n)
  <2>1. PICK x \in Events, h \in Handlers, n \in Counts : AddManyListener(x, h, n)
    BY <1>1
  <2>l. PICK l : l = [id |-> Len(granted) + 1, handler |-> h, count |-> n]
    OBVIOUS
  <2>0. myMap' = [myMap EXCEPT ![x] = Append(myMap[x], l)]
    BY <2>1, <2>l DEF AddManyListener
  <2>2. i \in DOMAIN Append(myMap[e], l) /\ Append(myMap[e], l)[i] = myMap[e][i]
    BY <1>0
  <2>. QED
    BY <1>0, <1>b, <2>0, <2>2
<1>2. CASE \E x \in Events, h \in Handlers : RemoveListener(x, h)
  <2>1. PICK x \in Events, h \in Handlers : RemoveListener(x, h)
    BY <1>2
  <2>2. x # e
    BY <1>a, <2>1
  <2>3. myMap'[e] = myMap[e]
    BY <1>0, <2>1, <2>2 DEF RemoveListener
  <2>. QED
    BY <1>b, <2>3
<1>3. CASE \E x \in Events : RemoveAllListeners(x)
  <2>1. PICK x \in Events : RemoveAllListeners(x)
    BY <1>3
  <2>2. x # e
    BY <1>a, <2>1
  <2>3. myMap'[e] = myMap[e]
    BY <1>0, <2>1, <2>2 DEF RemoveAllListeners
  <2>. QED
    BY <1>b, <2>3
<1>4. CASE \E x \in Events : EmitFastAndSchedule(x)
  <2>1. PICK x \in Events : EmitFastAndSchedule(x)
    BY <1>4
  <2>a. PICK v : v = myMap[x]
    OBVIOUS
  <2>b. PICK d : d = CountedDown(v, DOMAIN v)
    OBVIOUS
  <2>2. myMap' = [myMap EXCEPT ![x] = Tidy(d)]
    <3>1. d = [j \in DOMAIN myMap[x] |-> Decrement(myMap[x][j])]
      BY <2>a, <2>b DEF CountedDown
    <3>. QED
      BY <2>1, <3>1 DEF EmitFastAndSchedule, Decremented
  <2>3. CASE x # e
    BY <1>0, <1>b, <2>2, <2>3
  <2>4. CASE x = e
    <3>1. v \in Seq(Listener) /\ DOMAIN v \in SUBSET DOMAIN v /\ v = myMap[e]
      BY <1>0, <2>4, <2>a
    <3>2. /\ d \in Seq(Listener) /\ DOMAIN d = DOMAIN v
          /\ \A j \in DOMAIN v : /\ d[j].count = IF j \in DOMAIN v /\ v[j].count > 0 THEN v[j].count - 1 ELSE v[j].count
                                 /\ v[j].count < 0 => d[j] = v[j]
      BY <2>b, <3>1, CountedDownAt
    <3>3. d[i] = myMap[e][i] /\ d[i].count # 0 /\ i \in DOMAIN d
      BY <1>a, <3>1, <3>2
    <3>4. ~ Several(d)
      <4>1. d = Decremented(myMap[e])
        BY <2>b, <3>1 DEF CountedDown, Decremented
      <4>. QED
        BY <1>a, <2>1, <2>4, <4>1
    <3>5. \A j, k \in DOMAIN d : Expired(d[j]) /\ Expired(d[k]) => j = k
      BY <3>4, OneExpired
    <3>6. d[i] \in ToSet(Tidy(d))
      BY <3>2, <3>3, <3>5, TidyLeaves
    <3>7. myMap'[e] = Tidy(d)
      BY <1>0, <2>2, <2>4
    <3>. QED
      BY <3>3, <3>6, <3>7
  <2>. QED
    BY <2>3, <2>4
<1>5. CASE Visit
  <2>a. PICK x : x = Last(stack).event
    OBVIOUS
  <2>b. PICK k : k = Last(stack).at + 1
    OBVIOUS
  <2>1. myMap' = [myMap EXCEPT ![x] = [myMap[x] EXCEPT ![k] = Decrement(myMap[x][k])]]
    BY <1>5, <2>a, <2>b DEF Visit
  <2>2. Decrement(myMap[e][i]) = myMap[e][i]
    BY <1>a DEF Decrement
  <2>3. i \in DOMAIN myMap'[e] /\ myMap'[e][i] = myMap[e][i]
    BY <1>0, <2>1, <2>2
  <2>. QED
    BY <1>b, <2>3
<1>6. CASE EndEmit
  <2>a. PICK x : x = Last(stack).event
    OBVIOUS
  <2>1. myMap' = [myMap EXCEPT ![x] = Tidy(myMap[x])]
    BY <1>6, <2>a DEF EndEmit
  <2>2. CASE x # e
    BY <1>0, <1>b, <2>1, <2>2
  <2>3. CASE x = e
    <3>1. \A j, k \in DOMAIN myMap[e] : Expired(myMap[e][j]) /\ Expired(myMap[e][k]) => j = k
      BY <1>6, <1>a, <2>3, <2>a, OneExpired
    <3>2. myMap[e][i].count # 0
      BY <1>a
    <3>3. myMap[e][i] \in ToSet(Tidy(myMap[e]))
      BY <1>0, <3>1, <3>2, TidyLeaves
    <3>4. myMap'[e] = Tidy(myMap[e])
      BY <1>0, <2>1, <2>3
    <3>. QED
      BY <3>3, <3>4
  <2>. QED
    BY <2>2, <2>3
<1>7. CASE (\E x \in Events : Emit(x)) \/ VisitInvalid \/ (\E id \in Ids : RunTask(id))
  BY <1>7, <1>b DEF Emit, VisitInvalid, RunTask
<1>. QED
  BY <1>1, <1>2, <1>3, <1>4, <1>5, <1>6, <1>7 DEF Next

(***************************************************************************)
(* A listener registered with on leaves the map only through off, allOff   *)
(* and a tidy that meets several used-up listeners: one that erases a      *)
(* single listener never takes it along, whatever the handlers did, also   *)
(* in nested emits and after the code has lost count.                      *)
(***************************************************************************)
THEOREM PersistentStaysCorrect == Spec => PersistentStays
<1>1. EmitterInv /\ [Next]_vars =>
        [\A e \in Events :
           \/ \A l \in ToSet(myMap[e]) : l.count = -1 => l \in ToSet(myMap'[e])
           \/ RemoveAllListeners(e)
           \/ \E h \in Handlers : RemoveListener(e, h)
           \/ EndEmit /\ Last(stack).event = e /\ Several(myMap[e])
           \/ EmitFastAndSchedule(e) /\ Several(Decremented(myMap[e]))]_vars
  BY StepStays
<1>. QED
  BY <1>1, InitInv, NextKeepsInv, PTL DEF Spec, PersistentStays

=============================================================================
