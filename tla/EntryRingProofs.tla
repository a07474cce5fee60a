--------------------------- MODULE EntryRingProofs ---------------------------
(***************************************************************************)
(* Proofs about EntryRing: for every capacity and every set of entries the *)
(* ring keeps its shape, clears what it drops, and is a bounded FIFO queue *)
(* of its linearized contents.                                             *)
(***************************************************************************)
EXTENDS EntryRing, TLAPS

(* The slot reached from another one by fewer steps than there are slots.  *)
Wrap(x, n) == IF x < n THEN x ELSE x - n

LEMMA ModWrap ==
  ASSUME NEW n \in Nat \ {0}, NEW x \in Nat, x < 2 * n
  PROVE  x % n = Wrap(x, n)
<1>1. CASE x < n
  BY <1>1 DEF Wrap
<1>2. CASE x >= n
  <2>1. x = n + (x - n) /\ x - n \in Nat /\ x - n < n
    BY <1>2
  <2> QED
    BY <1>2, <2>1 DEF Wrap
<1> QED
  BY <1>1, <1>2

(* Sequences with the same length and elements are equal.                  *)
LEMMA SameSeq ==
  ASSUME NEW S, NEW s \in Seq(S), NEW t \in Seq(S), Len(s) = Len(t),
         \A i \in 1..Len(s) : s[i] = t[i]
  PROVE  s = t
OBVIOUS

(* Slots of a ring, and the sequence it stands for.                        *)
LEMMA SlotFacts ==
  ASSUME RingOK, length > 0
  PROVE  /\ \A i \in 0..length : Slot(i) = Wrap(head + i, length)
         /\ \A i \in 0..length : Slot(i) \in Slots(length)
         /\ \A i, j \in 0..(length - 1) : Slot(i) = Slot(j) => i = j
         /\ Slot(0) = head /\ Slot(length) = head
<1>1. length \in Nat \ {0} /\ head \in Nat /\ head < length
  BY DEF RingOK
<1>2. ASSUME NEW i \in 0..length
      PROVE  Slot(i) = Wrap(head + i, length)
  <2>1. head + i \in Nat /\ head + i < 2 * length
    BY <1>1
  <2> QED
    BY <1>1, <2>1, ModWrap DEF Slot
<1>3. \A i \in 0..length : Slot(i) \in Slots(length)
  BY <1>1, <1>2 DEF Wrap, Slots
<1>4. \A i, j \in 0..(length - 1) : Slot(i) = Slot(j) => i = j
  BY <1>1, <1>2 DEF Wrap
<1>5. Slot(0) = head /\ Slot(length) = head
  BY <1>1, <1>2 DEF Wrap
<1> QED
  BY <1>2, <1>3, <1>4, <1>5

Linear ==
  /\ linearize \in Seq(Entries) /\ Len(linearize) = size
  /\ \A i \in 1..size : linearize[i] = buf[Slot(i - 1)]

LEMMA LinearizeFacts == RingOK => Linear
<1> SUFFICES ASSUME RingOK PROVE Linear
  OBVIOUS
<1>1. size \in Nat
  BY DEF RingOK
<1>2. \A i \in 1..size : buf[Slot(i - 1)] \in Entries
  <2> TAKE i \in 1..size
  <2>1. i - 1 \in 0..(size - 1)
    BY <1>1
  <2> QED
    BY <2>1 DEF RingOK
<1> QED
  BY <1>1, <1>2 DEF linearize, Linear

LEMMA LinearizeFactsNext == RingOK' => Linear'
BY LinearizeFacts, PTL

-----------------------------------------------------------------------------
(* Each operation keeps the shape, clears the slots it frees, and acts on  *)
(* the linearized contents as the queue's operation does.                  *)

Good == RingOK /\ FreeSlotsCleared

LEMMA PushEvictStep ==
  ASSUME Good, NEW e \in Entries, PushEvict(e)
  PROVE  Good' /\ Queue!Push(e)
<1>1. /\ RingOK /\ cap \in Nat \ {0} /\ length = cap /\ size = cap
      /\ head \in Slots(cap) /\ length \in Nat /\ length > 0
  BY DEF Good, RingOK, PushEvict, Slots
<1>2. /\ out' = buf[head] /\ buf' = [buf EXCEPT ![head] = e]
      /\ head' = Wrap(head + 1, length) /\ length' = length /\ size' = size
  <2>1. (head + 1) % cap = Wrap(head + 1, cap)
    BY <1>1, ModWrap DEF Slots
  <2> QED
    BY <1>1, <2>1 DEF PushEvict
<1>3. head' \in Nat /\ head' < length'
  BY <1>1, <1>2 DEF Wrap, Slots
<1>4. ASSUME NEW i \in 0..(size - 1)
      PROVE  Slot(i)' = Slot(i + 1)
  <2>1. Slot(i)' = (head' + i) % length
    BY <1>2 DEF Slot
  <2>2. head' + i \in Nat /\ head' + i < 2 * length
    BY <1>1, <1>2, <1>3
  <2>3. (head' + i) % length = Wrap(head' + i, length)
    BY <1>1, <2>2, ModWrap
  <2>4. i + 1 \in 0..length
    BY <1>1
  <2>5. Slot(i + 1) = Wrap(head + (i + 1), length)
    BY <1>1, <2>4, SlotFacts
  <2>6. Wrap(head' + i, length) = Wrap(head + (i + 1), length)
    BY <1>1, <1>2 DEF Wrap, Slots
  <2> QED
    BY <2>1, <2>3, <2>5, <2>6
<1>5. \A i \in 0..(size - 1) :
        buf'[Slot(i)'] = IF i = size - 1 THEN e ELSE buf[Slot(i + 1)]
  <2> TAKE i \in 0..(size - 1)
  <2>1. CASE i = size - 1
    <3>1. Slot(i + 1) = head
      BY <1>1, <2>1, SlotFacts
    <3> QED
      BY <1>1, <1>2, <1>4, <2>1, <3>1 DEF RingOK
  <2>2. CASE i # size - 1
    <3>1. i + 1 \in 0..(length - 1) /\ i + 1 # 0 /\ 0 \in 0..(length - 1)
      BY <1>1, <2>2
    <3>2. Slot(i + 1) # head /\ Slot(i + 1) \in Slots(length)
      BY <1>1, <3>1, SlotFacts
    <3> QED
      BY <1>1, <1>2, <1>4, <2>2, <3>2 DEF RingOK
  <2> QED
    BY <2>1, <2>2
<1>6. \A i \in 0..(size - 1) : i # size - 1 => buf[Slot(i + 1)] \in Entries
  BY <1>1 DEF RingOK
<1>7. RingOK'
  <2>1. buf' \in [Slots(length') -> Entries \cup {None}]
    BY <1>1, <1>2 DEF RingOK
  <2>2. \A i \in 0..(size' - 1) : buf'[Slot(i)'] \in Entries
    BY <1>2, <1>5, <1>6
  <2>3. out' \in Entries \cup {None}
    BY <1>1, <1>2 DEF RingOK
  <2>4. /\ length' \in Nat /\ size' \in 0..length' /\ length' > 0 /\ length' = cap
    BY <1>1, <1>2
  <2>5. cap' = cap /\ cap \in Nat
    BY <1>1 DEF PushEvict
  <2> QED
    BY <1>1, <1>2, <1>3, <2>1, <2>2, <2>3, <2>4, <2>5 DEF RingOK, Slot
<1>8. FreeSlotsCleared'
  BY <1>1, <1>2 DEF FreeSlotsCleared
<1>9. Queue!Push(e)
  <2> DEFINE q == linearize
  <2>1. /\ q \in Seq(Entries) /\ Len(q) = size
        /\ \A i \in 1..size : q[i] = buf[Slot(i - 1)]
    BY <1>1, LinearizeFacts DEF Linear
  <2>2. /\ q' \in Seq(Entries) /\ Len(q') = size
        /\ \A i \in 1..size : q'[i] = buf'[Slot(i - 1)']
    BY <1>2, <1>7, LinearizeFactsNext DEF Linear
  <2>3. q # <<>> /\ Tail(q) \in Seq(Entries) /\ Len(Tail(q)) = size - 1
        /\ \A i \in 1..(size - 1) : Tail(q)[i] = q[i + 1]
    BY <1>1, <2>1
  <2>4. Append(Tail(q), e) \in Seq(Entries) /\ Len(Append(Tail(q), e)) = size
        /\ \A i \in 1..size : Append(Tail(q), e)[i] = IF i = size THEN e ELSE q[i + 1]
    BY <1>1, <2>3
  <2>5. \A i \in 1..size : q'[i] = Append(Tail(q), e)[i]
    <3> TAKE i \in 1..size
    <3>1. i - 1 \in 0..(size - 1) /\ (i - 1) + 1 = i /\ (i - 1 = size - 1 <=> i = size)
      BY <1>1
    <3>2. q'[i] = IF i = size THEN e ELSE buf[Slot(i)]
      BY <1>5, <2>2, <3>1
    <3>3. i # size => i + 1 \in 1..size /\ (i + 1) - 1 = i
      BY <1>1
    <3> QED
      BY <2>1, <2>4, <3>2, <3>3
  <2>6. q' = Append(Tail(q), e)
    <3> HIDE DEF q
    <3> QED
      BY <2>2, <2>4, <2>5, SameSeq
  <2>7. out' = Head(q)
    <3>1. 1 \in 1..size /\ q[1] = buf[Slot(1 - 1)] /\ Slot(0) = head
      BY <1>1, <2>1, SlotFacts
    <3> QED
      BY <1>2, <2>1, <2>3, <3>1
  <2>8. cap > 0 /\ Len(q) >= cap
    BY <1>1, <2>1
  <2> QED
    BY <2>6, <2>7, <2>8 DEF Queue!Push
<1> QED
  BY <1>7, <1>8, <1>9 DEF Good

(* An append that finds or makes room: the entries keep their order and e  *)
(* comes last.                                                             *)
LEMMA AppendStep ==
  ASSUME RingOK, RingOK', NEW e \in Entries, size' = size + 1, out' = None,
         ~(cap > 0 /\ size >= cap),
         \A i \in 0..size : buf'[Slot(i)'] = IF i = size THEN e ELSE buf[Slot(i)]
  PROVE  Queue!Push(e)
<1> DEFINE q == linearize
<1>1. /\ q \in Seq(Entries) /\ Len(q) = size /\ size \in Nat
      /\ \A i \in 1..size : q[i] = buf[Slot(i - 1)]
  BY LinearizeFacts DEF Linear, RingOK
<1>2. /\ q' \in Seq(Entries) /\ Len(q') = size + 1
      /\ \A i \in 1..(size + 1) : q'[i] = buf'[Slot(i - 1)']
  BY LinearizeFactsNext DEF Linear
<1>3. \A i \in 1..(size + 1) : q'[i] = Append(q, e)[i]
  <2> TAKE i \in 1..(size + 1)
  <2>1. i - 1 \in 0..size /\ (i - 1 = size <=> i = size + 1)
    BY <1>1
  <2>2. q'[i] = IF i = size + 1 THEN e ELSE buf[Slot(i - 1)]
    BY <1>2, <2>1
  <2>3. i # size + 1 => i \in 1..size
    BY <1>1
  <2> HIDE DEF q
  <2>4. Append(q, e)[i] = IF i = size + 1 THEN e ELSE q[i]
    BY <1>1
  <2> QED
    BY <1>1, <2>2, <2>3, <2>4
<1>4. q' = Append(q, e)
  <2> HIDE DEF q
  <2>1. Append(q, e) \in Seq(Entries) /\ Len(Append(q, e)) = size + 1
    BY <1>1
  <2> QED
    BY <1>2, <1>3, <2>1, SameSeq
<1>5. ~(cap > 0 /\ Len(q) >= cap)
  BY <1>1
<1> QED
  BY <1>4, <1>5 DEF Queue!Push

LEMMA PushFreeStep ==
  ASSUME Good, NEW e \in Entries, PushFree(e)
  PROVE  Good' /\ Queue!Push(e)
<1>1. /\ RingOK /\ length \in Nat \ {0} /\ size \in 0..(length - 1)
      /\ head \in Nat /\ head < length /\ length > 0
      /\ buf \in [Slots(length) -> Entries \cup {None}]
  BY DEF Good, RingOK, PushFree
<1>2. /\ buf' = [buf EXCEPT ![Slot(size)] = e] /\ size' = size + 1
      /\ length' = length /\ head' = head /\ out' = None
  BY DEF PushFree
<1>3. \A i \in 0..length : Slot(i)' = Slot(i)
  BY <1>2 DEF Slot
<1>4. \A i \in 0..(length - 1) :
        buf'[Slot(i)'] = IF i = size THEN e ELSE buf[Slot(i)]
  <2> TAKE i \in 0..(length - 1)
  <2>1. /\ i \in 0..length /\ size \in 0..length /\ Slot(i) \in Slots(length)
        /\ Slot(size) \in Slots(length) /\ (Slot(i) = Slot(size) => i = size)
    BY <1>1, SlotFacts
  <2> QED
    BY <1>1, <1>2, <1>3, <2>1
<1>5. RingOK'
  <2>1. buf' \in [Slots(length') -> Entries \cup {None}]
    BY <1>1, <1>2
  <2>2. ASSUME NEW i \in 0..(size' - 1)
        PROVE  buf'[Slot(i)'] \in Entries
    <3>1. i \in 0..(length - 1) /\ (i # size => i \in 0..(size - 1))
      BY <1>1, <1>2
    <3> QED
      BY <1>1, <1>4, <3>1 DEF RingOK
  <2>3. /\ length' \in Nat /\ size' \in 0..length' /\ head' \in Nat
        /\ head' < length' /\ length' # 0
    BY <1>1, <1>2
  <2>4. cap > 0 => length' = cap
    BY <1>1, <1>2 DEF RingOK
  <2>5. cap' = cap /\ cap \in Nat
    BY <1>1 DEF PushFree, RingOK
  <2> QED
    BY <1>2, <2>1, <2>2, <2>3, <2>4, <2>5 DEF RingOK
<1>6. FreeSlotsCleared'
  <2> SUFFICES ASSUME NEW i \in size'..(length' - 1)
               PROVE  buf'[Slot(i)'] = None
    BY DEF FreeSlotsCleared
  <2>1. i \in 0..(length - 1) /\ i # size /\ i \in size..(length - 1)
    BY <1>1, <1>2
  <2> QED
    BY <1>4, <2>1 DEF Good, FreeSlotsCleared
<1>7. Queue!Push(e)
  <2>1. \A i \in 0..size : buf'[Slot(i)'] = IF i = size THEN e ELSE buf[Slot(i)]
    BY <1>1, <1>4
  <2>2. ~(cap > 0 /\ size >= cap)
    BY DEF PushFree
  <2> QED
    BY <1>1, <1>2, <1>5, <2>1, <2>2, AppendStep
<1> QED
  BY <1>5, <1>6, <1>7 DEF Good

(* Only a ring without a capacity grows: a capped one has all its slots.   *)
LEMMA PushGrowStep ==
  ASSUME Good, NEW e \in Entries, PushGrow(e)
  PROVE  Good' /\ Queue!Push(e)
<1>1. /\ RingOK /\ length \in Nat /\ size = length /\ cap = 0 /\ head \in Nat
      /\ ~(cap > 0 /\ size >= cap)
  BY DEF Good, RingOK, PushGrow
<1>2. NewCap \in Nat \ {0} /\ size < NewCap
  BY <1>1, GrowAssumption DEF NewCap, Larger
<1>3. /\ length' = NewCap /\ head' = 0 /\ size' = size + 1 /\ out' = None
      /\ buf' = [k \in Slots(NewCap) |->
                   IF k < size THEN buf[Slot(k)] ELSE IF k = size THEN e ELSE None]
  BY DEF PushGrow
<1>4. \A i \in Slots(NewCap) : Slot(i)' = i
  <2> TAKE i \in Slots(NewCap)
  <2>1. i \in Nat /\ i < 2 * NewCap /\ i < NewCap
    BY <1>2 DEF Slots
  <2>2. i % NewCap = i
    BY <1>2, <2>1, ModWrap DEF Wrap
  <2>3. Slot(i)' = (0 + i) % NewCap
    BY <1>3 DEF Slot
  <2> QED
    BY <2>1, <2>2, <2>3
<1>5. \A i \in Slots(NewCap) :
        buf'[Slot(i)'] = IF i < size THEN buf[Slot(i)]
                         ELSE IF i = size THEN e ELSE None
  BY <1>3, <1>4
<1>6. \A i \in 0..(size - 1) : buf[Slot(i)] \in Entries
  BY <1>1 DEF RingOK
<1>7. RingOK'
  <2>1. \A k \in Slots(NewCap) : k < size => k \in 0..(size - 1)
    BY <1>1, <1>2 DEF Slots
  <2>2. buf' \in [Slots(length') -> Entries \cup {None}]
    BY <1>3, <1>6, <2>1
  <2>3. ASSUME NEW i \in 0..(size' - 1)
        PROVE  buf'[Slot(i)'] \in Entries
    <3>1. i \in Slots(NewCap) /\ (i < size \/ i = size) /\ (i < size => i \in 0..(size - 1))
      BY <1>1, <1>2, <1>3 DEF Slots
    <3> QED
      BY <1>1, <1>5, <1>6, <3>1
  <2>4. /\ length' \in Nat /\ size' \in 0..length' /\ head' \in Nat
        /\ head' < length' /\ length' # 0 /\ head' = 0 /\ ~(cap > 0)
    BY <1>1, <1>2, <1>3
  <2>5. cap' = cap /\ cap \in Nat
    BY <1>1 DEF PushGrow
  <2> QED
    BY <1>3, <2>2, <2>3, <2>4, <2>5 DEF RingOK
<1>8. FreeSlotsCleared'
  <2> SUFFICES ASSUME NEW i \in size'..(length' - 1)
               PROVE  buf'[Slot(i)'] = None
    BY DEF FreeSlotsCleared
  <2>1. i \in Slots(NewCap) /\ ~(i < size) /\ i # size
    BY <1>1, <1>2, <1>3 DEF Slots
  <2> QED
    BY <1>5, <2>1
<1>9. Queue!Push(e)
  <2>1. \A i \in 0..size : buf'[Slot(i)'] = IF i = size THEN e ELSE buf[Slot(i)]
    <3> TAKE i \in 0..size
    <3>1. i \in Slots(NewCap) /\ (i # size => i < size) /\ (i = size => ~(i < size))
      BY <1>1, <1>2 DEF Slots
    <3> QED
      BY <1>5, <3>1
  <2> QED
    BY <1>1, <1>3, <1>7, <2>1, AppendStep
<1> QED
  BY <1>7, <1>8, <1>9 DEF Good

LEMMA popFrontStep ==
  ASSUME Good, popFront
  PROVE  Good' /\ Queue!Pop
<1> DEFINE q == linearize
<1>1. /\ q \in Seq(Entries) /\ Len(q) = size /\ size \in Nat
      /\ \A i \in 1..size : q[i] = buf[Slot(i - 1)]
  BY LinearizeFacts DEF Linear, Good, RingOK
<1>2. CASE size = 0
  <2>1. UNCHANGED <<cap, buf, length, head, size>> /\ out' = None
    BY <1>2 DEF popFront
  <2>2. Good'
    BY <2>1 DEF Good, RingOK, FreeSlotsCleared, Slot
  <2>3. q' = q
    BY <2>1 DEF linearize, Slot
  <2>4. q = <<>>
    <3> HIDE DEF q
    <3> QED
      BY <1>1, <1>2
  <2> QED
    BY <2>1, <2>2, <2>3, <2>4 DEF Queue!Pop
<1>3. CASE size # 0
  <2>1. /\ RingOK /\ length \in Nat \ {0} /\ size \in 1..length
        /\ head \in Nat /\ head < length /\ length > 0
        /\ buf \in [Slots(length) -> Entries \cup {None}]
    BY <1>3 DEF Good, RingOK
  <2>2. /\ buf' = [buf EXCEPT ![head] = None] /\ size' = size - 1
        /\ length' = length /\ head' = (head + 1) % length /\ out' = buf[head]
    BY <1>3 DEF popFront
  <2>3. /\ head' = Slot(1) /\ head' \in Slots(length) /\ head = Slot(0)
        /\ head' = Wrap(head + 1, length)
    BY <2>1, <2>2, SlotFacts DEF Slot
  <2>4. head' \in Nat /\ head' < length
    BY <2>1, <2>3 DEF Slots
  <2>5. ASSUME NEW i \in 0..(length - 1)
        PROVE  Slot(i)' = Slot(i + 1)
    <3> DEFINE h == head'
    <3>0. i \in Nat /\ i < length /\ i + 1 \in 0..length /\ length \in Nat
      BY <2>1
    <3>1. head' + i \in Nat /\ head' + i < 2 * length /\ i + 1 \in 0..length
      <4>1. h \in Nat /\ h < length
        BY <2>4
      <4> HIDE DEF h
      <4>2. h + i \in Nat /\ h + i < 2 * length
        BY <3>0, <4>1
      <4> QED
        BY <3>0, <4>2 DEF h
    <3>2. Slot(i)' = (head' + i) % length
      BY <2>2 DEF Slot
    <3>3. Slot(i)' = Wrap(head' + i, length)
      BY <2>1, <3>1, <3>2, ModWrap
    <3>4. Slot(i + 1) = Wrap(head + (i + 1), length)
      BY <2>1, <3>1, SlotFacts
    <3> QED
      BY <2>1, <2>3, <3>3, <3>4 DEF Wrap
  <2>6. ASSUME NEW i \in 0..(length - 1)
        PROVE  buf'[Slot(i)'] = IF i = length - 1 THEN None ELSE buf[Slot(i + 1)]
    <3>1. CASE i = length - 1
      <4>1. Slot(i)' = head
        BY <2>1, <2>5, <3>1, SlotFacts
      <4>2. head \in Slots(length)
        BY <2>1 DEF Slots
      <4> QED
        BY <2>1, <2>2, <3>1, <4>1, <4>2
    <3>2. CASE i # length - 1
      <4>1. i + 1 \in 0..(length - 1) /\ 0 \in 0..(length - 1) /\ i + 1 # 0
            /\ i + 1 \in 0..length
        BY <2>1, <3>2
      <4>2. Slot(i + 1) # head /\ Slot(i + 1) \in Slots(length)
        BY <2>1, <4>1, SlotFacts
      <4> QED
        BY <2>1, <2>2, <2>5, <3>2, <4>2
    <3> QED
      BY <3>1, <3>2
  <2>7. RingOK'
    <3>1. buf' \in [Slots(length') -> Entries \cup {None}]
      BY <2>1, <2>2
    <3>2. ASSUME NEW i \in 0..(size' - 1)
          PROVE  buf'[Slot(i)'] \in Entries
      <4>1. i \in 0..(length - 1) /\ i # length - 1 /\ i + 1 \in 0..(size - 1)
        BY <2>1, <2>2
      <4> QED
        BY <2>1, <2>6, <4>1 DEF RingOK
    <3>3. out' \in Entries
      <4>1. 0 \in 0..(size - 1)
        BY <2>1
      <4> QED
        BY <2>1, <2>2, <2>3, <4>1 DEF RingOK
    <3>4. /\ length' \in Nat /\ size' \in 0..length' /\ head' \in Nat
          /\ head' < length' /\ length' # 0
      BY <2>1, <2>2, <2>4
    <3>5. cap > 0 => length' = cap
      BY <2>1, <2>2 DEF RingOK
    <3>6. cap' = cap /\ cap \in Nat
      BY <2>1 DEF popFront, RingOK
    <3> QED
      BY <3>1, <3>2, <3>3, <3>4, <3>5, <3>6 DEF RingOK
  <2>8. FreeSlotsCleared'
    <3> SUFFICES ASSUME NEW i \in size'..(length' - 1)
                 PROVE  buf'[Slot(i)'] = None
      BY DEF FreeSlotsCleared
    <3>1. i \in 0..(length - 1) /\ (i # length - 1 => i + 1 \in size..(length - 1))
      BY <2>1, <2>2
    <3> QED
      BY <2>6, <3>1 DEF Good, FreeSlotsCleared
  <2>9. /\ q' \in Seq(Entries) /\ Len(q') = size - 1
        /\ \A i \in 1..(size - 1) : q'[i] = buf'[Slot(i - 1)']
    BY <2>2, <2>7, LinearizeFactsNext DEF Linear
  <2>10. \A i \in 1..(size - 1) : q'[i] = q[i + 1]
    <3> TAKE i \in 1..(size - 1)
    <3>1. /\ i - 1 \in 0..(length - 1) /\ i - 1 # length - 1 /\ i + 1 \in 1..size
          /\ (i - 1) + 1 = i /\ (i + 1) - 1 = i
      BY <2>1
    <3> QED
      BY <1>1, <2>6, <2>9, <3>1
  <2>11. q' = Tail(q) /\ Head(q) = buf[head] /\ q # <<>>
    <3>1. q[1] = buf[head]
      BY <1>1, <2>1, <2>3
    <3> HIDE DEF q
    <3>2. q # <<>> /\ Head(q) = q[1]
      BY <1>1, <1>3
    <3>3. /\ Tail(q) \in Seq(Entries) /\ Len(Tail(q)) = size - 1
          /\ \A i \in 1..(size - 1) : Tail(q)[i] = q[i + 1]
      BY <1>1, <1>3, <3>2
    <3>4. q' = Tail(q)
      BY <2>9, <2>10, <3>3, SameSeq
    <3> QED
      BY <3>1, <3>2, <3>4
  <2> QED
    BY <2>2, <2>7, <2>8, <2>11 DEF Good, Queue!Pop
<1> QED
  BY <1>2, <1>3

(* A subsequence of the contents fits the ring, so nothing is truncated.   *)
LEMMA SubsequenceFacts ==
  ASSUME NEW q \in Seq(Entries), NEW s \in Queue!Subsequences(q)
  PROVE  s \in Seq(Entries) /\ Len(s) <= Len(q)
<1>0. PICK n \in 0..Len(q) : \E f \in Queue!Increasing(n, Len(q)) :
        s = [i \in 1..n |-> q[f[i]]]
  BY DEF Queue!Subsequences
<1>1. PICK f \in Queue!Increasing(n, Len(q)) : s = [i \in 1..n |-> q[f[i]]]
  BY <1>0
<1>2. f \in [1..n -> 1..Len(q)]
  BY DEF Queue!Increasing
<1>3. n \in Nat /\ n <= Len(q) /\ \A i \in 1..n : q[f[i]] \in Entries
  BY <1>2
<1> QED
  BY <1>1, <1>3

LEMMA resetFromStep ==
  ASSUME Good, NEW s \in Queue!Subsequences(linearize), resetFrom(s)
  PROVE  Good' /\ Queue!Retain(s)
<1>1. /\ linearize \in Seq(Entries) /\ Len(linearize) = size
      /\ length \in Nat /\ size \in 0..length /\ (cap > 0 => length = cap)
  BY LinearizeFacts DEF Linear, Good, RingOK
<1>2. s \in Seq(Entries) /\ Len(s) <= size /\ Len(s) \in Nat
  <2>1. s \in Seq(Entries) /\ Len(s) <= Len(linearize)
    BY <1>1, SubsequenceFacts
  <2> QED
    BY <1>1, <2>1
<1>3. Keep(s) = s /\ Larger(length, Len(s)) = length
  BY <1>1, <1>2 DEF Keep, Larger
<1>4. /\ length' = length /\ head' = 0 /\ size' = Len(s) /\ out' = None
      /\ buf' = [j \in Slots(length) |-> IF j < Len(s) THEN s[j + 1] ELSE None]
  BY <1>3 DEF resetFrom
<1>5. ASSUME NEW i \in 0..(length - 1)
      PROVE  buf'[Slot(i)'] = IF i < Len(s) THEN s[i + 1] ELSE None
  <2>1. length \in Nat \ {0} /\ i \in Nat /\ i < 2 * length /\ i < length
    BY <1>1
  <2>2. Slot(i)' = (0 + i) % length
    BY <1>4 DEF Slot
  <2>3. i % length = i
    BY <2>1, ModWrap DEF Wrap
  <2>4. Slot(i)' = i /\ i \in Slots(length)
    BY <2>1, <2>2, <2>3 DEF Slots
  <2> QED
    BY <1>4, <2>4
<1>6. \A j \in 0..(Len(s) - 1) : s[j + 1] \in Entries
  BY <1>2
<1>7. RingOK'
  <2>1. \A j \in Slots(length) : j < Len(s) => j \in 0..(Len(s) - 1)
    BY <1>1, <1>2 DEF Slots
  <2>2. buf' \in [Slots(length') -> Entries \cup {None}]
    BY <1>4, <1>6, <2>1
  <2>3. ASSUME NEW i \in 0..(size' - 1)
        PROVE  buf'[Slot(i)'] \in Entries
    <3>1. i \in 0..(length - 1) /\ i < Len(s) /\ i \in 0..(Len(s) - 1)
      BY <1>1, <1>2, <1>4
    <3> QED
      BY <1>5, <1>6, <3>1
  <2>4. /\ length' \in Nat /\ size' \in 0..length' /\ head' \in Nat
        /\ (length' > 0 => head' < length') /\ (length' = 0 => head' = 0)
        /\ (cap > 0 => length' = cap)
    BY <1>1, <1>2, <1>4
  <2>5. cap' = cap /\ cap \in Nat
    BY DEF resetFrom, Good, RingOK
  <2> QED
    BY <1>4, <2>2, <2>3, <2>4, <2>5 DEF RingOK
<1>8. FreeSlotsCleared'
  <2> SUFFICES ASSUME NEW i \in size'..(length' - 1)
               PROVE  buf'[Slot(i)'] = None
    BY DEF FreeSlotsCleared
  <2>1. i \in 0..(length - 1) /\ ~(i < Len(s))
    BY <1>1, <1>2, <1>4
  <2> QED
    BY <1>5, <2>1
<1>9. linearize' = s
  <2>1. /\ linearize' \in Seq(Entries) /\ Len(linearize') = Len(s)
        /\ \A i \in 1..Len(s) : linearize'[i] = buf'[Slot(i - 1)']
    BY <1>4, <1>7, LinearizeFactsNext DEF Linear
  <2>2. \A i \in 1..Len(s) : linearize'[i] = s[i]
    <3> TAKE i \in 1..Len(s)
    <3>1. i - 1 \in 0..(length - 1) /\ i - 1 < Len(s) /\ (i - 1) + 1 = i
      BY <1>1, <1>2
    <3> QED
      BY <1>5, <2>1, <3>1
  <2> QED
    BY <1>2, <2>1, <2>2, SameSeq
<1> QED
  BY <1>4, <1>7, <1>8, <1>9 DEF Good, Queue!Retain

LEMMA InitGood == Init => Good /\ Queue!Init
<1> SUFFICES ASSUME Init PROVE Good /\ Queue!Init
  OBVIOUS
<1>1. /\ length = cap /\ buf = [k \in Slots(cap) |-> None]
      /\ head = 0 /\ size = 0 /\ out = None /\ cap \in Nat /\ cap \in Caps
  BY CapAssumption DEF Init
<1>2. RingOK
  BY <1>1 DEF RingOK
<1>3. ASSUME NEW i \in 0..(length - 1)
      PROVE  buf[Slot(i)] = None
  <2>1. length > 0
    BY <1>1
  <2>2. Slot(i) \in Slots(length)
    BY <1>1, <1>2, <2>1, SlotFacts
  <2> QED
    BY <1>1, <2>2
<1>4. FreeSlotsCleared
  BY <1>1, <1>3 DEF FreeSlotsCleared
<1>5. linearize = <<>>
  <2>1. linearize \in Seq(Entries) /\ Len(linearize) = 0
    BY <1>1, <1>2, LinearizeFacts DEF Linear
  <2> QED
    BY <2>1
<1> QED
  BY <1>1, <1>2, <1>4, <1>5 DEF Good, Queue!Init

(* Every step keeps the ring good and is a step of the queue, or leaves it *)
(* as it is.                                                               *)
LEMMA NextGood ==
  Good /\ [Next]_vars => Good' /\ [Queue!Next]_<<cap, linearize, out>>
<1> SUFFICES ASSUME Good, [Next]_vars
             PROVE  Good' /\ [Queue!Next]_<<cap, linearize, out>>
  OBVIOUS
<1>1. ASSUME NEW e \in Entries, Push(e)
      PROVE  Good' /\ Queue!Push(e)
  BY <1>1, PushEvictStep, PushFreeStep, PushGrowStep DEF Push
<1>2. CASE \E e \in Entries : Push(e)
  <2>1. UNCHANGED cap
    BY <1>2 DEF Push, PushEvict, PushFree, PushGrow
  <2> QED
    BY <1>1, <1>2, <2>1 DEF Queue!Next
<1>3. CASE popFront
  <2>1. UNCHANGED cap
    BY <1>3 DEF popFront
  <2> QED
    BY <1>3, <2>1, popFrontStep DEF Queue!Next
<1>4. CASE \E s \in Queue!Subsequences(linearize) : resetFrom(s)
  <2>1. UNCHANGED cap
    BY <1>4 DEF resetFrom
  <2> QED
    BY <1>4, <2>1, resetFromStep DEF Queue!Next
<1>5. CASE UNCHANGED vars
  BY <1>5 DEF vars, Good, RingOK, FreeSlotsCleared, linearize, Slot
<1> QED
  BY <1>2, <1>3, <1>4, <1>5 DEF Next

(* The ring keeps its shape under every operation of priority_index.go.    *)
THEOREM RingStaysOK == Spec => []RingOK
<1>1. Good => RingOK
  BY DEF Good
<1> QED
  BY <1>1, InitGood, NextGood, PTL DEF Spec

(* popFront, pushBack and resetFrom leave nothing in slots not in use.     *)
THEOREM FreeSlotsStayCleared == Spec => []FreeSlotsCleared
<1>1. Good => FreeSlotsCleared
  BY DEF Good
<1> QED
  BY <1>1, InitGood, NextGood, PTL DEF Spec

(* The ring implements the bounded queue: whatever its capacity, wrapping, *)
(* growing, evicting and resetting behave as on the plain sequence.        *)
THEOREM RingIsQueue == Spec => ImplementsQueue
  BY InitGood, NextGood, PTL DEF Spec, ImplementsQueue, Queue!Spec

=============================================================================
