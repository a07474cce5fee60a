--------------------------- MODULE PartitionProofs ---------------------------
(***************************************************************************)
(* Proofs about Partition, for every set of requests, batch contents,      *)
(* readers and bounds.                                                     *)
(***************************************************************************)
EXTENDS Partition, TLAPS

-----------------------------------------------------------------------------
(* The operators the model is built from                                   *)

(* A batch is not empty, and its positions name messages with headers.     *)
LEMMA BatchFacts ==
  ASSUME NEW r \in Requests
  PROVE  /\ Size(r) \in Nat \ {0}
         /\ \A i \in 1..Size(r) : <<r, i>> \in Messages
BY BatchAssumption DEF Size, Messages

LEMMA RecordOfType ==
  ASSUME NEW r \in Requests, NEW i \in Nat \ {0}, NEW b \in Nat
  PROVE  RecordOf(r, i, b) \in Records
<1>1. CASE r \notin Compressed
  BY <1>1 DEF RecordOf, Plain, Records
<1>2. CASE r \in Compressed /\ i = 1
  BY <1>2 DEF RecordOf, Leader, Records
<1>3. CASE r \in Compressed /\ i # 1
  <2>1. i - 1 \in Nat
    OBVIOUS
  <2> QED
    BY <1>3, <2>1 DEF RecordOf, Redirect, Records
<1> QED
  BY <1>1, <1>2, <1>3

(* Pushing onto a level keeps a sequence of offsets, full or not.          *)
LEMMA PushBackType ==
  ASSUME NEW q \in Seq(Nat), NEW o \in Nat
  PROVE  PushBack(q, o) \in Seq(Nat)
<1>1. Len(q) >= LevelCap => q # <<>>
  BY LimitAssumption
<1> QED
  BY <1>1 DEF PushBack

(* A successful write: the log grows by one record per message.            *)
LEMMA ExtendType ==
  ASSUME TypeOK, NEW r \in Requests, WalExtend(r, nextOffset)
  PROVE  /\ firstIndex' \in Nat \ {0} /\ lastIndex' \in Nat
         /\ firstIndex' <= lastIndex' + 1
         /\ log' \in [firstIndex'..lastIndex' -> Records]
         /\ placed' \subseteq Nat \X Messages
<1>1. Size(r) \in Nat /\ lastIndex \in Nat /\ firstIndex \in Nat \ {0}
      /\ nextOffset \in Nat /\ firstIndex <= lastIndex + 1
  BY BatchFacts DEF TypeOK
<1>2. /\ lastIndex' = lastIndex + Size(r) /\ firstIndex' = firstIndex
  BY DEF WalExtend
<1>3. \A o \in firstIndex..lastIndex' :
        (IF o <= lastIndex THEN log[o] ELSE RecordOf(r, o - lastIndex, nextOffset))
          \in Records
  <2> TAKE o \in firstIndex..lastIndex'
  <2>1. CASE o <= lastIndex
    <3>1. o \in firstIndex..lastIndex
      BY <1>1, <1>2, <2>1
    <3> QED
      BY <2>1, <3>1 DEF TypeOK
  <2>2. CASE o > lastIndex
    <3>1. o - lastIndex \in Nat \ {0} /\ ~(o <= lastIndex)
      BY <1>1, <1>2, <2>2
    <3> QED
      BY <1>1, <3>1, RecordOfType
  <2> QED
    BY <1>1, <1>2, <2>1, <2>2
<1>4. log' \in [firstIndex'..lastIndex' -> Records]
  BY <1>2, <1>3 DEF WalExtend
<1>5. placed' \subseteq Nat \X Messages
  <2>1. \A i \in 1..Size(r) : <<lastIndex + i, <<r, i>>>> \in Nat \X Messages
    BY <1>1, BatchFacts
  <2> QED
    BY <2>1 DEF WalExtend, TypeOK
<1> QED
  BY <1>1, <1>2, <1>4, <1>5

LEMMA AckOfType ==
  ASSUME NEW r \in Requests, NEW b \in Nat
  PROVE  AckOf(r, b) \subseteq Nat \X Messages
BY BatchFacts DEF AckOf

(* What Read and its continuation leave in the reader is one of the states *)
(* a reader can be in.                                                     *)
LEMMA GotType ==
  ASSUME NEW o \in Nat, NEW m \in Messages
  PROVE  Got(o, m) \in ReaderStates
BY DEF Got, Failed, ReaderStates

-----------------------------------------------------------------------------
(* The inductive invariant.  The history variable placed says which        *)
(* message was written at an offset; the first offset of a message's batch *)
(* is its own offset less its position in the batch.                       *)

FirstOf(a) == a[1] - a[2][2] + 1

(* Every record in the log was written for a message.                      *)
LogExplained ==
  \A o \in firstIndex..lastIndex : \E m \in Messages : <<o, m>> \in placed

(* A message written at an offset that truncation has not reached has its  *)
(* record there; the first message of its batch was written at FirstOf.    *)
PlacedHeld ==
  \A a \in placed :
    /\ FirstOf(a) \in Nat \ {0} /\ a[1] <= lastIndex
    /\ <<FirstOf(a), <<a[2][1], 1>>>> \in placed
    /\ a[1] >= firstIndex => log[a[1]] = RecordOf(a[2][1], a[2][2], FirstOf(a))

(* One message per offset.                                                 *)
PlacedOnce == \A a, b \in placed : a[1] = b[1] => a = b

(* A reader between its two locked sections holds the redirect of a        *)
(* message written at the offset it was asked for.                         *)
RedirectsFollow ==
  \A c \in Readers : reader[c].state = "redirected" =>
    \E m \in Messages :
      /\ <<reader[c].off, m>> \in placed /\ m[1] \in Compressed
      /\ m[2] = reader[c].idx + 1
      /\ reader[c].base = FirstOf(<<reader[c].off, m>>)

(* What is acknowledged, or will be once it is indexed, was written.       *)
AcksPlaced ==
  /\ acked \subseteq placed
  /\ \A r \in Requests : pc[r] = "adding" => AckOf(r, base[r]) \subseteq placed

IInv ==
  /\ TypeOK /\ LogExplained /\ PlacedHeld /\ PlacedOnce
  /\ RedirectsFollow /\ AcksPlaced /\ ReadBack

-----------------------------------------------------------------------------
LEMMA MessageFacts ==
  ASSUME NEW m \in Messages
  PROVE  /\ m[1] \in Requests /\ m[2] \in 1..Size(m[1])
         /\ m = <<m[1], m[2]>> /\ Size(m[1]) \in Nat
BY BatchFacts DEF Messages

LEMMA InitInv == Init => IInv
<1> SUFFICES ASSUME Init PROVE IInv
  OBVIOUS
<1>1. TypeOK
  <2>1. log \in [firstIndex..lastIndex -> Records]
    BY DEF Init
  <2>4. /\ pc \in [Requests -> {"start", "adding", "acked", "failed", "dead"}]
        /\ base \in [Requests -> Nat] /\ added \in [Requests -> Nat]
    BY DEF Init
  <2>5. /\ firstIndex \in Nat \ {0} /\ lastIndex \in Nat
        /\ firstIndex <= lastIndex + 1 /\ nextOffset \in Nat
        /\ nextOffset > lastIndex /\ failures \in Nat /\ reopens \in Nat
    BY DEF Init
  <2>6. /\ mode \in [indexed : BOOLEAN, noSync : BOOLEAN]
        /\ closed \in BOOLEAN /\ placed = {} /\ acked = {}
    BY FlagAssumption DEF Init
  <2>2. index \in [0..(MaxPriority - 1) -> Seq(Nat)]
    BY DEF Init, EmptyIndex
  <2>3. reader \in [Readers -> ReaderStates]
    BY DEF Init, ReaderStates
  <2> QED
    BY <2>1, <2>2, <2>3, <2>4, <2>5, <2>6 DEF TypeOK
<1>2. LogExplained /\ PlacedHeld /\ PlacedOnce
  BY DEF Init, LogExplained, PlacedHeld, PlacedOnce
<1>3. RedirectsFollow /\ AcksPlaced /\ ReadBack
  BY DEF Init, RedirectsFollow, AcksPlaced, ReadBack
<1> QED
  BY <1>1, <1>2, <1>3 DEF IInv

-----------------------------------------------------------------------------
(* Appending                                                               *)

(* A write that follows the last index adds the batch's messages and       *)
(* disturbs nothing that was written before.                               *)
LEMMA ExtendInv ==
  ASSUME IInv, NEW r \in Requests, InOrder(nextOffset), WalExtend(r, nextOffset)
  PROVE  /\ LogExplained' /\ PlacedHeld' /\ PlacedOnce'
         /\ placed \subseteq placed' /\ AckOf(r, nextOffset) \subseteq placed'
<1> DEFINE New == {<<lastIndex + i, <<r, i>>>> : i \in 1..Size(r)}
<1>1. /\ Size(r) \in Nat \ {0} /\ lastIndex \in Nat /\ firstIndex \in Nat \ {0}
      /\ nextOffset = lastIndex + 1 /\ firstIndex <= lastIndex + 1
  BY BatchFacts DEF IInv, TypeOK, InOrder
<1>2. /\ lastIndex' = lastIndex + Size(r) /\ firstIndex' = firstIndex
      /\ placed' = placed \cup New
      /\ \A o \in firstIndex..lastIndex' :
           log'[o] = IF o <= lastIndex THEN log[o]
                     ELSE RecordOf(r, o - lastIndex, nextOffset)
  BY DEF WalExtend
<1>3. AckOf(r, nextOffset) = New
  <2>1. \A i \in 1..Size(r) : nextOffset + i - 1 = lastIndex + i
    BY <1>1
  <2> QED
    BY <2>1 DEF AckOf
<1>4. \A i \in 1..Size(r) : <<lastIndex + i, <<r, i>>>> \in placed'
  BY <1>2
<1>5. LogExplained'
  <2> SUFFICES ASSUME NEW o \in firstIndex..(lastIndex + Size(r))
               PROVE  \E m \in Messages : <<o, m>> \in placed'
    BY <1>2 DEF LogExplained
  <2>1. CASE o <= lastIndex
    <3>1. o \in firstIndex..lastIndex
      BY <1>1, <2>1
    <3> QED
      BY <1>2, <3>1 DEF IInv, LogExplained
  <2>2. CASE o > lastIndex
    <3>1. o - lastIndex \in 1..Size(r) /\ lastIndex + (o - lastIndex) = o
      BY <1>1, <2>2
    <3>2. <<r, o - lastIndex>> \in Messages
      BY <3>1, BatchFacts
    <3>3. <<lastIndex + (o - lastIndex), <<r, o - lastIndex>>>> \in placed'
      BY <1>4, <3>1
    <3> QED
      BY <3>1, <3>2, <3>3
  <2>3. o <= lastIndex \/ o > lastIndex
    BY <1>1
  <2> QED
    BY <2>1, <2>2, <2>3
<1>6. \A a \in placed : a[1] \in Nat /\ a[1] <= lastIndex /\ a[2] \in Messages
  BY DEF IInv, TypeOK, PlacedHeld
<1>7. PlacedHeld'
  <2> SUFFICES ASSUME NEW a \in placed'
               PROVE  /\ FirstOf(a) \in Nat \ {0} /\ a[1] <= lastIndex'
                      /\ <<FirstOf(a), <<a[2][1], 1>>>> \in placed'
                      /\ a[1] >= firstIndex' =>
                           log'[a[1]] = RecordOf(a[2][1], a[2][2], FirstOf(a))
    BY DEF PlacedHeld, FirstOf, RecordOf, Plain, Leader, Redirect
  <2>1. CASE a \in placed
    <3>1. a[1] >= firstIndex => log'[a[1]] = log[a[1]]
      BY <1>1, <1>2, <1>6, <2>1
    <3> QED
      BY <1>1, <1>2, <1>6, <2>1, <3>1 DEF IInv, PlacedHeld
  <2>2. CASE a \in New
    <3>1. PICK i \in 1..Size(r) : a = <<lastIndex + i, <<r, i>>>>
      BY <2>2
    <3>2. FirstOf(a) = nextOffset
      BY <1>1, <3>1 DEF FirstOf
    <3>3. <<FirstOf(a), <<a[2][1], 1>>>> \in placed'
      <4>1. 1 \in 1..Size(r)
        BY <1>1
      <4> QED
        BY <1>1, <1>4, <3>1, <3>2, <4>1
    <3>4. log'[a[1]] = RecordOf(r, i, nextOffset)
      <4>1. a[1] \in firstIndex..lastIndex' /\ ~(a[1] <= lastIndex)
            /\ a[1] - lastIndex = i
        BY <1>1, <1>2, <3>1
      <4> QED
        BY <1>2, <4>1
    <3> QED
      BY <1>1, <1>2, <3>1, <3>2, <3>3, <3>4
  <2> QED
    BY <1>2, <2>1, <2>2
<1>8. PlacedOnce'
  <2> SUFFICES ASSUME NEW a \in placed', NEW b \in placed', a[1] = b[1]
               PROVE  a = b
    BY DEF PlacedOnce
  <2>1. \A x \in New : x[1] > lastIndex
    BY <1>1
  <2>2. CASE a \in placed /\ b \in placed
    BY <2>2 DEF IInv, PlacedOnce
  <2>3. CASE a \in New /\ b \in New
    BY <1>1, <2>3
  <2> QED
    BY <1>1, <1>2, <1>6, <2>1, <2>2, <2>3
<1> QED
  BY <1>2, <1>3, <1>5, <1>7, <1>8

(* The parts of the invariant that do not speak of the log.                *)
LEMMA HistoryInv ==
  ASSUME IInv, placed \subseteq placed', acked' = acked,
         \A r \in Requests : pc'[r] = "adding" => pc[r] = "adding" /\ base'[r] = base[r]
  PROVE  AcksPlaced'
<1>1. \A r \in Requests : pc'[r] = "adding" =>
        AckOf(r, base'[r]) = AckOf(r, base[r])
  OBVIOUS
<1> QED
  BY <1>1 DEF IInv, AcksPlaced, AckOf

LEMMA ReadersInv ==
  ASSUME IInv, placed \subseteq placed', reader' = reader
  PROVE  RedirectsFollow' /\ ReadBack'
BY DEF IInv, RedirectsFollow, ReadBack, FirstOf

LEMMA LogInv ==
  ASSUME IInv, UNCHANGED <<walVars, placed>>
  PROVE  LogExplained' /\ PlacedHeld' /\ PlacedOnce'
BY DEF IInv, walVars, LogExplained, PlacedHeld, PlacedOnce, FirstOf, RecordOf,
       Plain, Leader, Redirect

LEMMA AppendOkInv ==
  ASSUME IInv, NEW r \in Requests, AppendOk(r)
  PROVE  IInv'
<1>1. /\ TypeOK /\ WalExtend(r, nextOffset) /\ InOrder(nextOffset)
      /\ Size(r) \in Nat \ {0} /\ nextOffset \in Nat
  BY BatchFacts DEF IInv, AppendOk, TypeOK
<1>2. /\ LogExplained' /\ PlacedHeld' /\ PlacedOnce'
      /\ placed \subseteq placed' /\ AckOf(r, nextOffset) \subseteq placed'
  BY <1>1, ExtendInv
<1>3. TypeOK'
  <2>1. /\ firstIndex' \in Nat \ {0} /\ lastIndex' \in Nat
        /\ firstIndex' <= lastIndex' + 1
        /\ log' \in [firstIndex'..lastIndex' -> Records]
        /\ placed' \subseteq Nat \X Messages
    BY <1>1, ExtendType
  <2>2. nextOffset' \in Nat /\ nextOffset' > lastIndex'
    BY <1>1 DEF AppendOk, WalExtend, InOrder, TypeOK
  <2>3. /\ pc' \in [Requests -> {"start", "adding", "acked", "failed", "dead"}]
        /\ base' \in [Requests -> Nat]
    BY <1>1 DEF AppendOk, TypeOK
  <2>4. acked' \subseteq Nat \X Messages
    <3>1. AckOf(r, nextOffset) \subseteq Nat \X Messages
      BY <1>1, AckOfType
    <3> QED
      BY <1>1, <3>1 DEF AppendOk, TypeOK
  <2>5. UNCHANGED <<index, closed, added, reader, failures, reopens, mode>>
    BY DEF AppendOk
  <2> QED
    BY <1>1, <2>1, <2>2, <2>3, <2>4, <2>5 DEF TypeOK
<1>4. RedirectsFollow' /\ ReadBack'
  BY <1>2, ReadersInv DEF AppendOk
<1>5. AcksPlaced'
  <2>1. acked' \subseteq placed'
    BY <1>2 DEF AppendOk, IInv, AcksPlaced
  <2>2. ASSUME NEW q \in Requests, pc'[q] = "adding"
        PROVE  AckOf(q, base'[q]) \subseteq placed'
    <3>1. CASE q = r
      <4>1. base'[q] = nextOffset
        BY <3>1 DEF AppendOk, IInv, TypeOK
      <4> QED
        BY <1>2, <3>1, <4>1
    <3>2. CASE q # r
      <4>1. pc[q] = "adding" /\ base'[q] = base[q]
        BY <2>2, <3>2 DEF AppendOk, IInv, TypeOK
      <4> QED
        BY <1>2, <4>1 DEF IInv, AcksPlaced
    <3> QED
      BY <3>1, <3>2
  <2> QED
    BY <2>1, <2>2 DEF AcksPlaced, AckOf
<1> QED
  BY <1>2, <1>3, <1>4, <1>5 DEF IInv

LEMMA AppendRefusedInv ==
  ASSUME IInv, NEW r \in Requests, AppendRefused(r)
  PROVE  IInv'
<1>1. Size(r) \in Nat
  BY BatchFacts
<1>2. TypeOK'
  <2>1. nextOffset' \in Nat /\ (~closed' => nextOffset' > lastIndex')
    BY <1>1 DEF IInv, TypeOK, AppendRefused, walVars
  <2>2. pc' \in [Requests -> {"start", "adding", "acked", "failed", "dead"}]
    BY DEF IInv, TypeOK, AppendRefused
  <2>3. UNCHANGED <<walVars, index, closed, base, added, reader, histVars,
                    failures, reopens, mode>>
    BY DEF AppendRefused
  <2> QED
    BY <2>1, <2>2, <2>3 DEF IInv, TypeOK, walVars, histVars
<1>3. LogExplained' /\ PlacedHeld' /\ PlacedOnce'
  BY LogInv DEF AppendRefused, walVars, histVars
<1>4. RedirectsFollow' /\ ReadBack'
  BY ReadersInv DEF AppendRefused, histVars
<1>5. AcksPlaced'
  <2>1. \A q \in Requests : pc'[q] = "adding" =>
          pc[q] = "adding" /\ base'[q] = base[q]
    BY DEF AppendRefused, IInv, TypeOK
  <2> QED
    BY <2>1, HistoryInv DEF AppendRefused, histVars
<1> QED
  BY <1>2, <1>3, <1>4, <1>5 DEF IInv

LEMMA AppendFailsInv ==
  ASSUME IInv, NEW r \in Requests, AppendFails(r)
  PROVE  IInv'
<1>1. Size(r) \in Nat \ {0} /\ TypeOK /\ InOrder(nextOffset)
  BY BatchFacts DEF IInv, AppendFails
<1>2. \/ UNCHANGED <<walVars, placed>>
      \/ WalExtend(r, nextOffset)
  BY DEF AppendFails
<1>3. /\ LogExplained' /\ PlacedHeld' /\ PlacedOnce' /\ placed \subseteq placed'
  BY <1>1, <1>2, ExtendInv, LogInv
<1>4. TypeOK'
  <2>1. /\ firstIndex' \in Nat \ {0} /\ lastIndex' \in Nat
        /\ firstIndex' <= lastIndex' + 1
        /\ log' \in [firstIndex'..lastIndex' -> Records]
        /\ placed' \subseteq Nat \X Messages
    <3>1. CASE UNCHANGED <<walVars, placed>>
      BY <1>1, <3>1 DEF TypeOK, walVars
    <3>2. CASE WalExtend(r, nextOffset)
      BY <1>1, <3>2, ExtendType
    <3> QED
      BY <1>2, <3>1, <3>2
  <2>2. nextOffset' \in Nat /\ nextOffset' > lastIndex'
    BY <1>1, <1>2 DEF AppendFails, WalExtend, InOrder, TypeOK, walVars
  <2>3. /\ pc' \in [Requests -> {"start", "adding", "acked", "failed", "dead"}]
        /\ failures' \in Nat
    BY <1>1 DEF AppendFails, TypeOK
  <2>4. UNCHANGED <<index, closed, base, added, reader, acked, reopens, mode>>
    BY DEF AppendFails
  <2> QED
    BY <1>1, <2>1, <2>2, <2>3, <2>4 DEF TypeOK
<1>5. RedirectsFollow' /\ ReadBack'
  BY <1>3, ReadersInv DEF AppendFails
<1>6. AcksPlaced'
  <2>1. \A q \in Requests : pc'[q] = "adding" =>
          pc[q] = "adding" /\ base'[q] = base[q]
    BY <1>1 DEF AppendFails, TypeOK
  <2> QED
    BY <1>3, <2>1, HistoryInv DEF AppendFails
<1> QED
  BY <1>3, <1>4, <1>5, <1>6 DEF IInv

LEMMA AddToIndexInv ==
  ASSUME IInv, NEW r \in Requests, AddToIndex(r)
  PROVE  IInv'
<1>1. TypeOK /\ pc[r] = "adding" /\ AckOf(r, base[r]) \subseteq placed
  BY DEF IInv, AddToIndex, AcksPlaced
<1>2. TypeOK'
  <2>1. added[r] + 1 \in Nat /\ base[r] \in Nat /\ Offset(r, added[r] + 1) \in Nat
    BY <1>1 DEF TypeOK, Offset
  <2>2. index' \in [0..(MaxPriority - 1) -> Seq(Nat)]
    <3> DEFINE l == LevelOf(<<r, added[r] + 1>>)
    <3>1. CASE l \in 0..(MaxPriority - 1)
      <4>1. index[l] \in Seq(Nat)
        BY <1>1, <3>1 DEF TypeOK
      <4>2. PushBack(index[l], Offset(r, added[r] + 1)) \in Seq(Nat)
        BY <2>1, <4>1, PushBackType
      <4> HIDE DEF l
      <4>3. index' = [index EXCEPT ![l] = PushBack(index[l], Offset(r, added[r] + 1))]
        BY DEF AddToIndex, l
      <4> QED
        BY <1>1, <4>2, <4>3 DEF TypeOK
    <3>2. CASE l \notin 0..(MaxPriority - 1)
      <4> HIDE DEF l
      <4>1. index' = [index EXCEPT ![l] = PushBack(index[l], Offset(r, added[r] + 1))]
        BY DEF AddToIndex, l
      <4> QED
        BY <1>1, <3>2, <4>1 DEF TypeOK
    <3> QED
      BY <3>1, <3>2
  <2>3. /\ added' \in [Requests -> Nat]
        /\ pc' \in [Requests -> {"start", "adding", "acked", "failed", "dead"}]
    BY <1>1, <2>1 DEF AddToIndex, TypeOK
  <2>4. acked' \subseteq Nat \X Messages
    BY <1>1 DEF AddToIndex, TypeOK
  <2>5. UNCHANGED <<walVars, nextOffset, closed, base, reader, placed, failures,
                    reopens, mode>>
    BY DEF AddToIndex
  <2> QED
    BY <1>1, <2>2, <2>3, <2>4, <2>5 DEF TypeOK, walVars
<1>3. LogExplained' /\ PlacedHeld' /\ PlacedOnce'
  BY LogInv DEF AddToIndex
<1>4. RedirectsFollow' /\ ReadBack'
  BY ReadersInv DEF AddToIndex
<1>5. AcksPlaced'
  <2>1. acked' \subseteq placed'
    BY <1>1 DEF AddToIndex, IInv, AcksPlaced
  <2>2. \A q \in Requests : pc'[q] = "adding" => pc[q] = "adding"
    BY <1>1 DEF AddToIndex, TypeOK
  <2>3. base' = base /\ placed' = placed
    BY DEF AddToIndex
  <2> QED
    BY <2>1, <2>2, <2>3 DEF IInv, AcksPlaced, AckOf
<1> QED
  BY <1>2, <1>3, <1>4, <1>5 DEF IInv

-----------------------------------------------------------------------------
(* Reading                                                                 *)

(* The record at an offset of the log, as the message written there        *)
(* determines it.                                                          *)
LEMMA RecordAt ==
  ASSUME IInv, NEW o \in firstIndex..lastIndex
  PROVE  \E m \in Messages :
           /\ <<o, m>> \in placed
           /\ log[o] = RecordOf(m[1], m[2], FirstOf(<<o, m>>))
<1>1. PICK m \in Messages : <<o, m>> \in placed
  BY DEF IInv, LogExplained
<1>2. o >= firstIndex
  BY DEF IInv, TypeOK
<1>3. log[o] = RecordOf(m[1], m[2], FirstOf(<<o, m>>))
  BY <1>1, <1>2 DEF IInv, PlacedHeld
<1> QED
  BY <1>1, <1>3

(* The outcomes of the first locked section.                               *)
LEMMA ReadAtOutcome ==
  ASSUME IInv, NEW o \in Nat
  PROVE  \/ ReadAt(o) = Failed(o)
         \/ \E m \in Messages :
              /\ <<o, m>> \in placed
              /\ \/ ReadAt(o) = Got(o, m)
                 \/ /\ m[1] \in Compressed
                    /\ ReadAt(o) = [state |-> "redirected", off |-> o,
                                    base |-> FirstOf(<<o, m>>), idx |-> m[2] - 1]
<1>1. CASE closed \/ ~InLog(o)
  BY <1>1 DEF ReadAt
<1>2. CASE ~closed /\ InLog(o)
  <2>1. PICK m \in Messages : /\ <<o, m>> \in placed
                              /\ log[o] = RecordOf(m[1], m[2], FirstOf(<<o, m>>))
    BY <1>2, RecordAt DEF InLog
  <2>2. m = <<m[1], m[2]>>
    BY MessageFacts
  <2>3. CASE m[1] \notin Compressed
    <3>1. log[o] = [kind |-> "message", req |-> m[1], idx |-> m[2]]
      BY <2>1, <2>3 DEF RecordOf, Plain
    <3>2. ReadAt(o) = Got(o, m)
      BY <1>2, <2>2, <3>1 DEF ReadAt
    <3> QED
      BY <2>1, <3>2
  <2>4. CASE m[1] \in Compressed /\ m[2] = 1
    <3>1. log[o] = [kind |-> "batch", req |-> m[1]]
      BY <2>1, <2>4 DEF RecordOf, Leader
    <3>2. ReadAt(o) = Got(o, m)
      BY <1>2, <2>2, <2>4, <3>1 DEF ReadAt
    <3> QED
      BY <2>1, <3>2
  <2>5. CASE m[1] \in Compressed /\ m[2] # 1
    <3>1. log[o] = [kind |-> "redirect", base |-> FirstOf(<<o, m>>),
                    idx |-> m[2] - 1]
      BY <2>1, <2>5 DEF RecordOf, Redirect
    <3>2. ReadAt(o) = [state |-> "redirected", off |-> o,
                       base |-> FirstOf(<<o, m>>), idx |-> m[2] - 1]
      BY <1>2, <3>1 DEF ReadAt
    <3> QED
      BY <2>1, <2>5, <3>2
  <2> QED
    BY <2>3, <2>4, <2>5
<1> QED
  BY <1>1, <1>2

(* The outcomes of the second: the leader of the message's own batch, if   *)
(* there is still one.                                                     *)
LEMMA ReadLeaderOutcome ==
  ASSUME IInv, NEW o \in Nat, NEW m \in Messages,
         <<o, m>> \in placed, m[1] \in Compressed
  PROVE  \/ ReadLeader(o, FirstOf(<<o, m>>), m[2] - 1) = Failed(o)
         \/ ReadLeader(o, FirstOf(<<o, m>>), m[2] - 1) = Got(o, m)
<1> DEFINE b == FirstOf(<<o, m>>)
<1>1. CASE closed \/ ~InLog(b)
  BY <1>1 DEF ReadLeader
<1>2. CASE ~closed /\ InLog(b)
  <2>1. /\ m[1] \in Requests /\ m[2] \in 1..Size(m[1]) /\ m = <<m[1], m[2]>>
        /\ Size(m[1]) \in Nat
    BY MessageFacts
  <2>2. <<b, <<m[1], 1>>>> \in placed /\ b \in Nat /\ b >= firstIndex
    BY <1>2 DEF IInv, PlacedHeld, InLog, TypeOK
  <2>3. log[b] = RecordOf(m[1], 1, FirstOf(<<b, <<m[1], 1>>>>))
    BY <2>2 DEF IInv, PlacedHeld
  <2> HIDE DEF b
  <2>4. log[b] = [kind |-> "batch", req |-> m[1]]
    BY <2>3 DEF RecordOf, Leader
  <2>5. ~(m[2] - 1 >= Size(m[1])) /\ m[2] - 1 + 1 = m[2]
    BY <2>1
  <2>6. ReadLeader(o, b, m[2] - 1) = Got(o, m)
    BY <1>2, <2>1, <2>4, <2>5 DEF ReadLeader
  <2> QED
    BY <2>6 DEF b
<1> QED
  BY <1>1, <1>2

LEMMA GotFacts ==
  ASSUME NEW o, NEW m
  PROVE  /\ Got(o, m).state # "redirected"
         /\ Got(o, m).state = "ok" => Got(o, m).off = o /\ Got(o, m).msg = m
         /\ Failed(o).state = "error"
BY DEF Got, Failed

(* What RedirectsFollow and ReadBack ask of one reader's state.            *)
Sound(s) ==
  /\ s.state = "ok" => <<s.off, s.msg>> \in placed
  /\ s.state = "redirected" =>
       \E m \in Messages :
         /\ <<s.off, m>> \in placed /\ m[1] \in Compressed
         /\ m[2] = s.idx + 1 /\ s.base = FirstOf(<<s.off, m>>)

OnlyReader ==
  UNCHANGED <<walVars, nextOffset, index, closed, reqVars, histVars, failures,
              reopens, mode>>

(* One reader changes; the rest is as it was.                              *)
LEMMA OneReaderInv ==
  ASSUME IInv, NEW c \in Readers, NEW s \in ReaderStates,
         reader' = [reader EXCEPT ![c] = s], OnlyReader, Sound(s)
  PROVE  IInv'
<1> USE DEF OnlyReader, Sound
<1>1. TypeOK'
  <2>1. reader' \in [Readers -> ReaderStates]
    BY DEF IInv, TypeOK
  <2> QED
    BY <2>1 DEF IInv, TypeOK, walVars, reqVars, histVars
<1>2. LogExplained' /\ PlacedHeld' /\ PlacedOnce'
  BY LogInv DEF walVars, histVars
<1>3. \A d \in Readers : reader'[d] = IF d = c THEN s ELSE reader[d]
  BY DEF IInv, TypeOK
<1>4. placed' = placed /\ acked' = acked /\ pc' = pc /\ base' = base
  BY DEF histVars, reqVars
<1>5. RedirectsFollow'
  <2> SUFFICES ASSUME NEW d \in Readers, reader'[d].state = "redirected"
               PROVE  \E m \in Messages :
                        /\ <<reader'[d].off, m>> \in placed /\ m[1] \in Compressed
                        /\ m[2] = reader'[d].idx + 1
                        /\ reader'[d].base = FirstOf(<<reader'[d].off, m>>)
    BY <1>4 DEF RedirectsFollow, FirstOf
  <2>1. CASE d = c
    <3>1. reader'[d] = s
      BY <1>3, <2>1
    <3> QED
      BY <3>1
  <2>2. CASE d # c
    <3>1. reader'[d] = reader[d]
      BY <1>3, <2>2
    <3> QED
      BY <3>1 DEF IInv, RedirectsFollow
  <2> QED
    BY <2>1, <2>2
<1>6. ReadBack'
  BY <1>3, <1>4 DEF IInv, ReadBack
<1>7. AcksPlaced'
  BY <1>4 DEF IInv, AcksPlaced, AckOf
<1> QED
  BY <1>1, <1>2, <1>5, <1>6, <1>7 DEF IInv

LEMMA GotReaderInv ==
  ASSUME IInv, NEW c \in Readers, NEW o \in Nat, NEW m \in Messages,
         <<o, m>> \in placed, reader' = [reader EXCEPT ![c] = Got(o, m)],
         OnlyReader
  PROVE  IInv'
<1>1. Got(o, m) \in ReaderStates
  BY GotType
<1>2. Sound(Got(o, m))
  BY GotFacts DEF Sound
<1> QED
  BY <1>1, <1>2, OneReaderInv

LEMMA ReadInv ==
  ASSUME IInv, NEW c \in Readers, NEW o \in Nat, Read(c, o)
  PROVE  IInv'
<1>1. CASE ReadAt(o) = Failed(o)
  <2>1. Failed(o) \in ReaderStates /\ Failed(o).state = "error"
    BY DEF Failed, ReaderStates
  <2> QED
    BY <1>1, <2>1, OneReaderInv DEF Read, OnlyReader, Sound
<1>2. ASSUME NEW m \in Messages, <<o, m>> \in placed, ReadAt(o) = Got(o, m)
      PROVE  IInv'
  <2>1. Got(o, m) \in ReaderStates
    BY GotType
  <2>2. reader' = [reader EXCEPT ![c] = Got(o, m)]
    BY <1>2 DEF Read
  <2> QED
    BY <1>2, <2>1, <2>2, GotReaderInv DEF Read, OnlyReader
<1>3. ASSUME NEW m \in Messages, <<o, m>> \in placed, m[1] \in Compressed,
             ReadAt(o) = [state |-> "redirected", off |-> o,
                          base |-> FirstOf(<<o, m>>), idx |-> m[2] - 1]
      PROVE  IInv'
  <2> DEFINE s == [state |-> "redirected", off |-> o,
                   base |-> FirstOf(<<o, m>>), idx |-> m[2] - 1]
  <2>1. m[2] \in Nat \ {0} /\ FirstOf(<<o, m>>) \in Nat
    <3>1. m[2] \in Nat \ {0}
      BY MessageFacts
    <3>2. FirstOf(<<o, m>>) \in Nat \ {0}
      BY <1>3 DEF IInv, PlacedHeld
    <3> QED
      BY <3>1, <3>2
  <2>2. s \in ReaderStates
    BY <2>1 DEF ReaderStates
  <2>3. m[2] = s.idx + 1
    BY <2>1
  <2>4. reader' = [reader EXCEPT ![c] = s]
    BY <1>3 DEF Read
  <2>5. /\ s.state = "redirected" /\ s.off = o /\ s.base = FirstOf(<<o, m>>)
    OBVIOUS
  <2> HIDE DEF s
  <2>6. Sound(s)
    BY <1>3, <2>3, <2>5 DEF Sound
  <2> QED
    BY <2>2, <2>4, <2>6, OneReaderInv DEF Read, OnlyReader
<1> QED
  BY <1>1, <1>2, <1>3, ReadAtOutcome

LEMMA ReadFromBatchInv ==
  ASSUME IInv, NEW c \in Readers, ReadFromBatch(c)
  PROVE  IInv'
<1>1. /\ reader[c] \in ReaderStates /\ reader[c].state = "redirected"
      /\ reader[c].off \in Nat /\ reader[c].idx \in Nat
  BY DEF ReadFromBatch, IInv, TypeOK, ReaderStates
<1>2. PICK m \in Messages :
        /\ <<reader[c].off, m>> \in placed /\ m[1] \in Compressed
        /\ m[2] = reader[c].idx + 1
        /\ reader[c].base = FirstOf(<<reader[c].off, m>>)
  BY <1>1 DEF IInv, RedirectsFollow
<1> DEFINE o == reader[c].off
<1>3. reader[c].idx = m[2] - 1
  BY <1>1, <1>2
<1>4. reader' = [reader EXCEPT ![c] =
                   ReadLeader(o, FirstOf(<<o, m>>), m[2] - 1)]
  BY <1>2, <1>3 DEF ReadFromBatch
<1>5. CASE ReadLeader(o, FirstOf(<<o, m>>), m[2] - 1) = Failed(o)
  <2>1. Failed(o) \in ReaderStates /\ Failed(o).state = "error"
    BY <1>1 DEF Failed, ReaderStates
  <2> QED
    BY <1>4, <1>5, <2>1, OneReaderInv DEF ReadFromBatch, OnlyReader, Sound
<1>6. CASE ReadLeader(o, FirstOf(<<o, m>>), m[2] - 1) = Got(o, m)
  <2>1. Got(o, m) \in ReaderStates
    BY <1>1, GotType
  <2>2. reader' = [reader EXCEPT ![c] = Got(o, m)]
    BY <1>4, <1>6
  <2> QED
    BY <1>1, <1>2, <2>1, <2>2, GotReaderInv DEF ReadFromBatch, OnlyReader
<1> QED
  BY <1>1, <1>2, <1>5, <1>6, ReadLeaderOutcome

-----------------------------------------------------------------------------
(* Truncation, closing and reopening                                       *)

(* All three truncations end in TruncateTo; where the scan stopped does    *)
(* not matter.                                                             *)
LEMMA TruncateInv ==
  ASSUME IInv, NEW o, TruncateTo(o)
  PROVE  IInv'
<1>1. /\ TypeOK /\ o \in firstIndex..lastIndex /\ firstIndex' = o
      /\ lastIndex' = lastIndex /\ firstIndex \in Nat \ {0} /\ lastIndex \in Nat
      /\ log' = [x \in o..lastIndex |-> log[x]]
  BY DEF IInv, TypeOK, TruncateTo, WalTruncateFront, InLog
<1>2. UNCHANGED <<nextOffset, index, closed, reqVars, reader, histVars,
                  failures, reopens, mode>>
  BY DEF TruncateTo
<1>3. TypeOK'
  <2>1. /\ firstIndex' \in Nat \ {0} /\ lastIndex' \in Nat
        /\ firstIndex' <= lastIndex' + 1
    BY <1>1
  <2>2. log' \in [firstIndex'..lastIndex' -> Records]
    <3>1. \A x \in o..lastIndex : x \in firstIndex..lastIndex
      BY <1>1
    <3> QED
      BY <1>1, <3>1 DEF TypeOK
  <2> QED
    BY <1>1, <1>2, <2>1, <2>2 DEF TypeOK, reqVars, histVars
<1>4. LogExplained'
  <2>1. \A x \in firstIndex'..lastIndex' : x \in firstIndex..lastIndex
    BY <1>1
  <2> QED
    BY <1>2, <2>1 DEF IInv, LogExplained, histVars
<1>5. PlacedHeld'
  <2>1. ASSUME NEW a \in placed, a[1] >= firstIndex'
        PROVE  a[1] >= firstIndex /\ log'[a[1]] = log[a[1]]
    <3>1. a[1] \in Nat /\ a[1] <= lastIndex
      BY DEF IInv, TypeOK, PlacedHeld
    <3> QED
      BY <1>1, <2>1, <3>1
  <2>2. placed' = placed
    BY <1>2 DEF histVars
  <2> SUFFICES ASSUME NEW a \in placed
               PROVE  /\ FirstOf(a) \in Nat \ {0} /\ a[1] <= lastIndex
                      /\ <<FirstOf(a), <<a[2][1], 1>>>> \in placed
                      /\ a[1] >= firstIndex' =>
                           log'[a[1]] = RecordOf(a[2][1], a[2][2], FirstOf(a))
    BY <1>1, <2>2 DEF PlacedHeld, FirstOf, RecordOf, Plain, Leader, Redirect
  <2> QED
    BY <2>1 DEF IInv, PlacedHeld
<1>6. PlacedOnce' /\ AcksPlaced' /\ RedirectsFollow' /\ ReadBack'
  BY <1>2 DEF IInv, PlacedOnce, AcksPlaced, AckOf, RedirectsFollow, FirstOf,
              ReadBack, reqVars, histVars
<1> QED
  BY <1>3, <1>4, <1>5, <1>6 DEF IInv

LEMMA CloseInv ==
  ASSUME IInv, Close
  PROVE  IInv'
<1>1. /\ TypeOK /\ closed' = TRUE
      /\ UNCHANGED <<walVars, nextOffset, index, reqVars, histVars, failures,
                     reopens, mode>>
  BY DEF IInv, Close
<1>2. \A c \in Readers :
        /\ reader[c] \in ReaderStates
        /\ reader'[c] = IF reader[c].state = "redirected"
                        THEN Failed(reader[c].off) ELSE reader[c]
  BY <1>1 DEF Close, AbandonReads, TypeOK
<1>3. TypeOK'
  <2>1. \A c \in Readers : reader'[c] \in ReaderStates
    <3> TAKE c \in Readers
    <3>1. CASE reader[c].state = "redirected"
      <4>1. reader[c].off \in Nat
        BY <1>2, <3>1 DEF ReaderStates
      <4>2. Failed(reader[c].off) \in ReaderStates
        BY <4>1 DEF ReaderStates, Failed
      <4> QED
        BY <1>2, <3>1, <4>2
    <3>2. CASE reader[c].state # "redirected"
      BY <1>2, <3>2
    <3> QED
      BY <3>1, <3>2
  <2>2. reader' \in [Readers -> ReaderStates]
    BY <2>1 DEF Close, AbandonReads
  <2> QED
    BY <1>1, <2>2 DEF TypeOK, walVars, reqVars, histVars
<1>4. LogExplained' /\ PlacedHeld' /\ PlacedOnce'
  BY <1>1, LogInv DEF walVars, histVars
<1>5. RedirectsFollow' /\ ReadBack'
  <2>1. \A c \in Readers : Failed(reader[c].off).state = "error"
    BY GotFacts
  <2>2. \A c \in Readers : reader'[c].state # "redirected"
    BY <1>2, <2>1
  <2>3. \A c \in Readers : reader'[c].state = "ok" => reader'[c] = reader[c]
    BY <1>2, <2>1
  <2> QED
    BY <1>1, <2>2, <2>3 DEF IInv, RedirectsFollow, ReadBack, histVars
<1>6. AcksPlaced'
  BY <1>1 DEF IInv, AcksPlaced, AckOf, histVars, reqVars
<1> QED
  BY <1>3, <1>4, <1>5, <1>6 DEF IInv

LEMMA CrashInv ==
  ASSUME IInv, Crash
  PROVE  IInv'
<1>1. TypeOK
  BY DEF IInv
<1>2. PICK k \in Kept :
        /\ lastIndex' = k
        /\ log' = [o \in firstIndex..k |-> log[o]]
        /\ placed' = {a \in placed : a[1] <= k}
        /\ acked' = {a \in acked : a[1] <= k}
  BY DEF Crash
<1>3. /\ k \in (firstIndex - 1)..lastIndex /\ k \in Nat
      /\ firstIndex \in Nat \ {0} /\ lastIndex \in Nat
      /\ firstIndex <= k + 1 /\ k <= lastIndex
  BY <1>1 DEF TypeOK, Kept
<1>4. /\ firstIndex' = firstIndex /\ closed' = TRUE
      /\ reader' = [c \in Readers |-> [state |-> "idle"]]
      /\ index' = EmptyIndex
      /\ pc' = [r \in Requests |-> IF pc[r] = "adding" THEN "dead" ELSE pc[r]]
      /\ UNCHANGED <<nextOffset, base, added, failures, reopens, mode>>
  BY DEF Crash
<1>5. TypeOK'
  <2>1. log' \in [firstIndex'..lastIndex' -> Records]
    <3>1. \A o \in firstIndex..k : o \in firstIndex..lastIndex
      BY <1>3
    <3> QED
      BY <1>1, <1>2, <1>4, <3>1 DEF TypeOK
  <2>2. index' \in [0..(MaxPriority - 1) -> Seq(Nat)]
    BY <1>4 DEF EmptyIndex
  <2>3. reader' \in [Readers -> ReaderStates]
    BY <1>4 DEF ReaderStates
  <2>4. pc' \in [Requests -> {"start", "adding", "acked", "failed", "dead"}]
    BY <1>1, <1>4 DEF TypeOK
  <2>5. placed' \subseteq Nat \X Messages /\ acked' \subseteq Nat \X Messages
    BY <1>1, <1>2 DEF TypeOK
  <2>6. /\ firstIndex' \in Nat \ {0} /\ lastIndex' \in Nat
        /\ firstIndex' <= lastIndex' + 1
    BY <1>2, <1>3, <1>4
  <2> QED
    BY <1>1, <1>4, <2>1, <2>2, <2>3, <2>4, <2>5, <2>6 DEF TypeOK
<1>6. LogExplained'
  <2> SUFFICES ASSUME NEW o \in firstIndex..k
               PROVE  \E m \in Messages : <<o, m>> \in placed'
    BY <1>2, <1>4 DEF LogExplained
  <2>1. o \in firstIndex..lastIndex /\ o <= k
    BY <1>3
  <2>2. PICK m \in Messages : <<o, m>> \in placed
    BY <2>1 DEF IInv, LogExplained
  <2> QED
    BY <1>2, <2>1, <2>2
<1>7. PlacedHeld'
  <2> SUFFICES ASSUME NEW a \in placed, a[1] <= k
               PROVE  /\ FirstOf(a) \in Nat \ {0}
                      /\ <<FirstOf(a), <<a[2][1], 1>>>> \in placed'
                      /\ a[1] >= firstIndex =>
                           log'[a[1]] = RecordOf(a[2][1], a[2][2], FirstOf(a))
    BY <1>2, <1>4 DEF PlacedHeld, FirstOf, RecordOf, Plain, Leader, Redirect
  <2>1. /\ FirstOf(a) \in Nat \ {0} /\ <<FirstOf(a), <<a[2][1], 1>>>> \in placed
        /\ a[1] >= firstIndex => log[a[1]] = RecordOf(a[2][1], a[2][2], FirstOf(a))
    BY DEF IInv, PlacedHeld
  <2>2. a[1] \in Nat /\ a[2] \in Messages
    BY <1>1 DEF TypeOK
  <2>3. FirstOf(a) <= k
    <3>1. a[2][2] \in Nat \ {0}
      BY <2>2, MessageFacts
    <3> QED
      BY <1>3, <2>2, <3>1 DEF FirstOf
  <2>4. <<FirstOf(a), <<a[2][1], 1>>>> \in placed'
    BY <1>2, <2>1, <2>3
  <2>5. a[1] >= firstIndex => log'[a[1]] = log[a[1]]
    BY <1>2, <1>3, <2>2
  <2> QED
    BY <2>1, <2>4, <2>5
<1>8. PlacedOnce'
  BY <1>2 DEF IInv, PlacedOnce
<1>9. RedirectsFollow' /\ ReadBack'
  BY <1>4 DEF RedirectsFollow, ReadBack
<1>10. AcksPlaced'
  <2>1. \A r \in Requests : pc'[r] # "adding"
    BY <1>4
  <2>2. acked' \subseteq placed'
    BY <1>2 DEF IInv, AcksPlaced
  <2> QED
    BY <2>1, <2>2 DEF AcksPlaced
<1> QED
  BY <1>5, <1>6, <1>7, <1>8, <1>9, <1>10 DEF IInv

LEMMA NewPartitionInv ==
  ASSUME IInv, NewPartition
  PROVE  IInv'
<1> DEFINE Adding == {q \in Requests : pc[q] = "adding"}
<1>0. mode' \in [indexed : BOOLEAN, noSync : BOOLEAN]
  BY FlagAssumption DEF NewPartition
<1>1. /\ TypeOK /\ closed' = FALSE /\ nextOffset' = lastIndex + 1
      /\ reopens' = reopens + 1 /\ index' = EmptyIndex
      /\ pc' = [r \in Requests |-> IF pc[r] = "adding" THEN "acked" ELSE pc[r]]
      /\ acked' = acked \cup UNION {AckOf(r, base[r]) : r \in Adding}
      /\ UNCHANGED <<walVars, base, added, reader, placed, failures>>
  BY DEF IInv, NewPartition
<1>2. acked' \subseteq placed
  <2>1. \A r \in Adding : AckOf(r, base[r]) \subseteq placed
    BY DEF IInv, AcksPlaced
  <2> QED
    BY <1>1, <2>1 DEF IInv, AcksPlaced
<1>3. TypeOK'
  <2>1. index' \in [0..(MaxPriority - 1) -> Seq(Nat)]
    <3>1. <<>> \in Seq(Nat)
      OBVIOUS
    <3>2. index' = EmptyIndex
      BY <1>1
    <3> QED
      BY <3>1, <3>2 DEF EmptyIndex
  <2>2. pc' \in [Requests -> {"start", "adding", "acked", "failed", "dead"}]
    BY <1>1 DEF TypeOK
  <2>3. nextOffset' \in Nat /\ nextOffset' > lastIndex' /\ reopens' \in Nat
    BY <1>1 DEF TypeOK, walVars
  <2>4. acked' \subseteq Nat \X Messages
    BY <1>1, <1>2 DEF TypeOK
  <2> QED
    BY <1>0, <1>1, <2>1, <2>2, <2>3, <2>4 DEF TypeOK, walVars
<1>4. LogExplained' /\ PlacedHeld' /\ PlacedOnce'
  BY <1>1, LogInv
<1>5. RedirectsFollow' /\ ReadBack'
  BY <1>1, ReadersInv
<1>6. AcksPlaced'
  <2>1. \A r \in Requests : pc'[r] # "adding"
    BY <1>1
  <2> QED
    BY <1>1, <1>2, <2>1 DEF AcksPlaced
<1> QED
  BY <1>3, <1>4, <1>5, <1>6 DEF IInv

-----------------------------------------------------------------------------
LEMMA NextInv == IInv /\ [Next]_vars => IInv'
<1> SUFFICES ASSUME IInv, [Next]_vars PROVE IInv'
  OBVIOUS
<1>1. ASSUME NEW r \in Requests, Append_(r)
      PROVE  IInv'
  BY <1>1, AppendOkInv, AppendRefusedInv, AppendFailsInv, AddToIndexInv
     DEF Append_
<1>2. ASSUME NEW c \in Readers,
             ReadFromBatch(c) \/ \E o \in 1..nextOffset : Read(c, o)
      PROVE  IInv'
  <2>1. CASE ReadFromBatch(c)
    BY <2>1, ReadFromBatchInv
  <2>2. ASSUME NEW o \in 1..nextOffset, Read(c, o)
        PROVE  IInv'
    <3>1. o \in Nat
      BY DEF IInv, TypeOK
    <3> QED
      BY <2>2, <3>1, ReadInv
  <2> QED
    BY <1>2, <2>1, <2>2
<1>3. CASE Truncate
  BY <1>3, TruncateInv
     DEF Truncate, TruncateFront, TruncateBefore, TruncateOldestUntilSize
<1>4. CASE Close \/ Crash \/ NewPartition
  BY <1>4, CloseInv, CrashInv, NewPartitionInv
<1>5. CASE UNCHANGED vars
  <2>1. /\ UNCHANGED <<walVars, placed>> /\ reader' = reader /\ acked' = acked
        /\ pc' = pc /\ base' = base
    BY <1>5 DEF vars, histVars, reqVars
  <2>2. TypeOK'
    BY <1>5 DEF IInv, TypeOK, vars, walVars, reqVars, histVars
  <2>3. LogExplained' /\ PlacedHeld' /\ PlacedOnce'
    BY <2>1, LogInv
  <2>4. RedirectsFollow' /\ ReadBack' /\ AcksPlaced'
    BY <2>1, ReadersInv, HistoryInv
  <2> QED
    BY <2>2, <2>3, <2>4 DEF IInv
<1> QED
  BY <1>1, <1>2, <1>3, <1>4, <1>5 DEF Next

(* The partition's state keeps its shape through appends that fail or are  *)
(* refused, truncations, crashes and reopenings; in particular nextOffset  *)
(* of an open partition is never behind its log.                           *)
THEOREM TypeCorrect == Spec => []TypeOK
<1>1. IInv => TypeOK
  BY DEF IInv
<1> QED
  BY <1>1, InitInv, NextInv, PTL DEF Spec

(* Read never returns the wrong message, whatever happens between the two  *)
(* locked sections it takes to follow a redirect.                          *)
THEOREM ReadsAreRight == Spec => []ReadBack
<1>1. IInv => ReadBack
  BY DEF IInv
<1> QED
  BY <1>1, InitInv, NextInv, PTL DEF Spec

(* An offset returned to a publisher identifies one message.               *)
THEOREM OffsetsIdentify == Spec => []OneMessagePerOffset
<1>1. IInv => OneMessagePerOffset
  <2> SUFFICES ASSUME IInv, NEW a \in acked, NEW b \in acked, a[1] = b[1]
               PROVE  a[2] = b[2]
    BY DEF OneMessagePerOffset
  <2>1. a \in placed /\ b \in placed
    BY DEF IInv, AcksPlaced
  <2> QED
    BY <2>1 DEF IInv, PlacedOnce
<1> QED
  BY <1>1, InitInv, NextInv, PTL DEF Spec

(* An acknowledged message that truncation has not reached can be read     *)
(* back, unless its redirect lost its leader or its priority byte is a     *)
(* magic byte.                                                             *)
THEOREM AcksAreReadable == Spec => []AckedReadable
<1>1. IInv => AckedReadable
  <2> SUFFICES ASSUME IInv, ~closed, NEW a \in acked, a[1] >= firstIndex,
                      ~Orphan(a[1]), ~LooksLikeMagic(a[2])
               PROVE  Readable(a)
    BY DEF AckedReadable
  <2> DEFINE o == a[1]
             m == a[2]
  <2>1. a \in placed /\ o \in Nat /\ m \in Messages /\ a = <<o, m>>
    BY DEF IInv, AcksPlaced, TypeOK
  <2>2. /\ InLog(o) /\ log[o] = RecordOf(m[1], m[2], FirstOf(a))
        /\ <<FirstOf(a), <<m[1], 1>>>> \in placed /\ FirstOf(a) \in Nat \ {0}
        /\ o <= lastIndex
    <3>1. /\ log[o] = RecordOf(m[1], m[2], FirstOf(a)) /\ o <= lastIndex
          /\ <<FirstOf(a), <<m[1], 1>>>> \in placed /\ FirstOf(a) \in Nat \ {0}
      BY <2>1 DEF IInv, PlacedHeld
    <3>2. InLog(o)
      BY <2>1, <3>1 DEF IInv, TypeOK, InLog
    <3> QED
      BY <3>1, <3>2
  <2>3. /\ m[1] \in Requests /\ m[2] \in 1..Size(m[1]) /\ m = <<m[1], m[2]>>
        /\ Size(m[1]) \in Nat
    BY <2>1, MessageFacts
  <2>4. Got(o, m) = [state |-> "ok", off |-> o, msg |-> m]
    BY DEF Got
  <2>5. CASE m[1] \notin Compressed
    <3>1. log[o] = [kind |-> "message", req |-> m[1], idx |-> m[2]]
      BY <2>2, <2>5 DEF RecordOf, Plain
    <3>2. ReadAt(o) = Got(o, m)
      BY <2>2, <2>3, <3>1 DEF ReadAt
    <3> QED
      BY <2>4, <3>2 DEF Readable, Resolve
  <2>6. CASE m[1] \in Compressed /\ m[2] = 1
    <3>1. log[o] = [kind |-> "batch", req |-> m[1]]
      BY <2>2, <2>6 DEF RecordOf, Leader
    <3>2. ReadAt(o) = Got(o, m)
      BY <2>2, <2>3, <2>6, <3>1 DEF ReadAt
    <3> QED
      BY <2>4, <3>2 DEF Readable, Resolve
  <2>7. CASE m[1] \in Compressed /\ m[2] # 1
    <3> DEFINE b == FirstOf(a)
               s == [state |-> "redirected", off |-> o, base |-> b,
                     idx |-> m[2] - 1]
    <3>0. log[o] = [kind |-> "redirect", base |-> b, idx |-> m[2] - 1]
      BY <2>2, <2>7 DEF RecordOf, Redirect
    <3>1. b \in Nat /\ <<b, <<m[1], 1>>>> \in placed
      BY <2>2
    <3>2. b <= o
      BY <2>1, <2>3 DEF FirstOf
    <3> HIDE DEF b
    <3>3. log[o].kind = "redirect" /\ log[o].base = b /\ log[o].idx = m[2] - 1
      <4> DEFINE rec == log[o]
                 i == m[2] - 1
      <4>1. rec = [kind |-> "redirect", base |-> b, idx |-> i]
        BY <3>0
      <4> HIDE DEF rec, i
      <4>2. rec.kind = "redirect" /\ rec.base = b /\ rec.idx = i
        BY <4>1
      <4> QED
        BY <4>2 DEF rec, i
    <3>4. b >= firstIndex /\ b <= lastIndex /\ InLog(b)
      <4>1. ~(b < firstIndex)
        BY <2>2, <3>3 DEF Orphan
      <4>2. firstIndex \in Nat /\ lastIndex \in Nat
        BY DEF IInv, TypeOK
      <4> QED
        BY <2>1, <2>2, <3>1, <3>2, <4>1, <4>2 DEF InLog
    <3>5. log[b].kind = "batch" /\ log[b].req = m[1]
      <4> DEFINE a1 == <<b, <<m[1], 1>>>>
      <4>1. a1 \in placed /\ a1[1] >= firstIndex
        BY <3>1, <3>4
      <4>2. log[a1[1]] = RecordOf(a1[2][1], a1[2][2], FirstOf(a1))
        BY <4>1 DEF IInv, PlacedHeld
      <4>3. log[b] = RecordOf(m[1], 1, FirstOf(a1))
        BY <4>2
      <4>4. log[b] = [kind |-> "batch", req |-> m[1]]
        BY <2>7, <4>3 DEF RecordOf, Leader
      <4> QED
        BY <4>4
    <3>6. ReadLeader(o, b, m[2] - 1) = Got(o, m)
      <4>1. ~(m[2] - 1 >= Size(m[1])) /\ m[2] - 1 + 1 = m[2]
        BY <2>3
      <4>2. ReadLeader(o, b, m[2] - 1) = Got(o, <<m[1], m[2] - 1 + 1>>)
        BY <3>4, <3>5, <4>1 DEF ReadLeader
      <4> QED
        BY <2>3, <4>1, <4>2
    <3>7. Resolve(o) = ReadLeader(o, b, m[2] - 1)
      <4>1. ReadAt(o) = s
        BY <2>2, <3>3 DEF ReadAt
      <4>2. s.state = "redirected" /\ s.base = b /\ s.idx = m[2] - 1
        OBVIOUS
      <4> HIDE DEF s
      <4> QED
        BY <4>1, <4>2 DEF Resolve
    <3> QED
      BY <2>4, <3>6, <3>7 DEF Readable
  <2> QED
    BY <2>5, <2>6, <2>7
<1> QED
  BY <1>1, InitInv, NextInv, PTL DEF Spec

(* With a syncing policy no step takes an acknowledgement back.            *)
THEOREM AcksStay == Spec => AcksAreDurable
<1>1. IInv /\ [Next]_vars => [~mode.noSync => acked \subseteq acked']_vars
  <2> SUFFICES ASSUME IInv, Next, ~mode.noSync PROVE acked \subseteq acked'
    OBVIOUS
  <2>1. CASE Crash
    <3>1. acked' = {a \in acked : a[1] <= lastIndex}
      BY <2>1 DEF Crash, Kept
    <3>2. \A a \in acked : a[1] <= lastIndex
      BY DEF IInv, AcksPlaced, PlacedHeld
    <3> QED
      BY <3>1, <3>2
  <2>2. CASE ~Crash
    BY <2>2 DEF Next, Append_, AppendOk, AppendRefused, AppendFails, AddToIndex,
       ReadFromBatch, Read, Truncate, TruncateFront, TruncateBefore,
       TruncateOldestUntilSize, TruncateTo, Close, NewPartition, histVars
  <2> QED
    BY <2>1, <2>2
<1> QED
  BY <1>1, InitInv, NextInv, PTL DEF Spec, AcksAreDurable

=============================================================================
