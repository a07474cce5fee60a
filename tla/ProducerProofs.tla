--------------------------- MODULE ProducerProofs ---------------------------
(* Proofs about Producer, for every set of messages, timers and partitions  *)
(* and every batch size and memory limit.                                   *)
EXTENDS Producer, TLAPS, FiniteSetTheorems, WellFoundedInduction

-----------------------------------------------------------------------------
(* Sums over sequences.  What is shown of all lengths is shown of a         *)
(* smallest counterexample.                                                 *)

LEMMA LeastNumber ==
    ASSUME NEW T, T \subseteq Nat, T # {}
    PROVE  \E x \in T : \A y \in T : x <= y
<1> DEFINE Below(n) == 1..n
           F == {Below(n) : n \in T}
<1>1. F \subseteq FiniteSubsetsOf(Nat) /\ F # {}
  <2>1. \A n \in T : Below(n) \subseteq Nat /\ IsFiniteSet(Below(n))
    BY FS_Interval
  <2> HIDE DEF Below
  <2> QED
    BY <2>1 DEF FiniteSubsetsOf
<1>2. IsWellFoundedOn(StrictSubsetOrdering(Nat), FiniteSubsetsOf(Nat))
  BY FS_StrictSubsetOrderingWellFounded
<1>3. \E X \in F : \A Y \in F : <<Y, X>> \notin StrictSubsetOrdering(Nat)
  <2> HIDE DEF F
  <2> QED
    BY <1>1, <1>2, WFMin
<1>4. PICK x \in T : \A y \in T : <<Below(y), Below(x)>> \notin StrictSubsetOrdering(Nat)
  BY <1>3
<1>5. ASSUME NEW y \in T, y < x PROVE FALSE
  <2>1. x \in Below(x) /\ x \notin Below(y)
    BY <1>5
  <2>2. Below(y) \subseteq Below(x) /\ Below(y) # Below(x) /\ Below(x) \subseteq Nat
    BY <1>5, <2>1
  <2> HIDE DEF Below
  <2>3. <<Below(y), Below(x)>> \in StrictSubsetOrdering(Nat)
    BY <2>2 DEF StrictSubsetOrdering
  <2> QED
    BY <2>3, <1>4
<1> QED
  BY <1>5

(* f holds the bytes of every prefix of b.                                  *)
Sums(f, b) == f = [i \in 0..Len(b) |-> IF i = 0 THEN 0 ELSE f[i - 1] + Size[b[i]]]

LEMMA BytesDef == \A b : Bytes(b) = (CHOOSE f : Sums(f, b))[Len(b)]
BY DEF Bytes, Sums

LEMMA SumsUnique ==
    ASSUME NEW b \in Seq(Msgs), NEW f, NEW g, Sums(f, b), Sums(g, b)
    PROVE  f = g
<1> DEFINE T == {i \in 0..Len(b) : f[i] # g[i]}
<1>0. f = [i \in 0..Len(b) |-> f[i]] /\ g = [i \in 0..Len(b) |-> g[i]]
  BY DEF Sums
<1>1. CASE T = {}
  <2>1. \A i \in 0..Len(b) : f[i] = g[i]
    BY <1>1
  <2> QED
    BY <1>0, <2>1
<1>2. CASE T # {}
  <2>1. PICK i \in T : \A j \in T : i <= j
    <3>1. T \subseteq Nat
      OBVIOUS
    <3> HIDE DEF T
    <3> QED
      BY <1>2, <3>1, LeastNumber
  <2>2. i # 0
    BY DEF Sums
  <2>3. i - 1 \in 0..Len(b) /\ i - 1 \notin T
    BY <2>1, <2>2
  <2>4. f[i - 1] = g[i - 1]
    BY <2>3
  <2>5. f[i] = f[i - 1] + Size[b[i]] /\ g[i] = g[i - 1] + Size[b[i]]
    BY <2>2 DEF Sums
  <2> QED
    BY <2>4, <2>5
<1> QED
  BY <1>1, <1>2

(* The sums of a longer sequence.                                           *)
LEMMA SumsAppend ==
    ASSUME NEW b \in Seq(Msgs), NEW m \in Msgs, NEW f \in [0..Len(b) -> Nat], Sums(f, b)
    PROVE  \E g \in [0..Len(Append(b, m)) -> Nat] :
             Sums(g, Append(b, m)) /\ g[Len(Append(b, m))] = f[Len(b)] + Size[m]
<1> DEFINE n == Len(b)
           c == Append(b, m)
           g == [i \in 0..n + 1 |-> IF i <= n THEN f[i] ELSE f[n] + Size[m]]
<1>1. n \in Nat /\ Len(c) = n + 1 /\ c[n + 1] = m /\ \A i \in 1..n : c[i] = b[i]
  OBVIOUS
<1>2. Size[m] \in Nat
  BY SizeAssumption
<1>3. g \in [0..n + 1 -> Nat] /\ g[n + 1] = f[n] + Size[m]
  BY <1>1, <1>2
<1>4. Sums(g, c)
  <2>1. f[0] = 0 /\ \A i \in 1..n : f[i] = f[i - 1] + Size[b[i]]
    BY <1>1 DEF Sums
  <2>2. \A i \in 0..n + 1 : g[i] = IF i = 0 THEN 0 ELSE g[i - 1] + Size[c[i]]
    <3> SUFFICES ASSUME NEW i \in 0..n + 1
                 PROVE  g[i] = IF i = 0 THEN 0 ELSE g[i - 1] + Size[c[i]]
      OBVIOUS
    <3>1. CASE i = 0
      BY <1>1, <2>1, <3>1
    <3>2. CASE i \in 1..n
      <4>1. i - 1 \in 0..n /\ g[i] = f[i] /\ g[i - 1] = f[i - 1] /\ c[i] = b[i]
        BY <1>1, <3>2
      <4> QED
        BY <2>1, <3>2, <4>1
    <3>3. CASE i = n + 1
      <4>1. g[i - 1] = f[n]
        BY <1>1, <3>3
      <4> QED
        BY <1>1, <1>3, <3>3, <4>1
    <3> QED
      BY <1>1, <3>1, <3>2, <3>3
  <2>3. g = [i \in 0..n + 1 |-> g[i]]
    OBVIOUS
  <2> HIDE DEF g, c
  <2>4. g = [i \in 0..n + 1 |-> IF i = 0 THEN 0 ELSE g[i - 1] + Size[c[i]]]
    BY <2>2, <2>3
  <2> QED
    BY <1>1, <2>4 DEF Sums
<1> HIDE DEF g, c
<1> QED
  BY <1>1, <1>3, <1>4 DEF c

LEMMA SumsExist == \A b \in Seq(Msgs) : \E f \in [0..Len(b) -> Nat] : Sums(f, b)
<1> DEFINE Ok(b) == \E f \in [0..Len(b) -> Nat] : Sums(f, b)
           T == {n \in Nat : \E b \in Seq(Msgs) : Len(b) = n /\ ~Ok(b)}
<1>1. CASE T = {}
  <2>1. \A b \in Seq(Msgs) : Len(b) \in Nat
    OBVIOUS
  <2> QED
    BY <1>1, <2>1
<1>2. CASE T # {}
  <2>1. PICK n \in T : \A k \in T : n <= k
    <3>1. T \subseteq Nat
      OBVIOUS
    <3> HIDE DEF T
    <3> QED
      BY <1>2, <3>1, LeastNumber
  <2>2. PICK b \in Seq(Msgs) : Len(b) = n /\ ~Ok(b)
    OBVIOUS
  <2>3. n # 0
    <3>1. ASSUME n = 0 PROVE FALSE
      <4>1. [i \in 0..0 |-> 0] \in [0..Len(b) -> Nat] /\ Sums([i \in 0..0 |-> 0], b)
        BY <2>2, <3>1 DEF Sums
      <4> QED
        BY <2>2, <4>1
    <3> QED
      BY <3>1
  <2>4. PICK c \in Seq(Msgs), m \in Msgs : b = Append(c, m) /\ Len(c) = n - 1
    <3>1. b = Append(SubSeq(b, 1, n - 1), b[n])
      BY <2>2, <2>3
    <3>2. SubSeq(b, 1, n - 1) \in Seq(Msgs) /\ Len(SubSeq(b, 1, n - 1)) = n - 1
      BY <2>2, <2>3
    <3>3. b[n] \in Msgs
      BY <2>2, <2>3
    <3> QED
      BY <3>1, <3>2, <3>3
  <2>5. n - 1 \in Nat /\ n - 1 \notin T
    BY <2>1, <2>3
  <2>6. Ok(c)
    BY <2>4, <2>5
  <2> QED
    BY <2>2, <2>4, <2>6, SumsAppend
<1> QED
  BY <1>1, <1>2

(* What Send counts: a message adds its own bytes.                          *)
LEMMA BytesOf ==
    /\ Bytes(<<>>) = 0
    /\ \A b \in Seq(Msgs) : Bytes(b) \in Nat
    /\ \A b \in Seq(Msgs), m \in Msgs : Bytes(Append(b, m)) = Bytes(b) + Size[m]
<1>1. ASSUME NEW b \in Seq(Msgs), NEW f, Sums(f, b) PROVE Bytes(b) = f[Len(b)]
  BY <1>1, SumsUnique, BytesDef
<1>2. \A b \in Seq(Msgs) : \E f \in [0..Len(b) -> Nat] : Sums(f, b) /\ Bytes(b) = f[Len(b)]
  BY <1>1, SumsExist
<1>3. Bytes(<<>>) = 0
  <2>1. <<>> \in Seq(Msgs) /\ Sums([i \in 0..0 |-> 0], <<>>)
    BY DEF Sums
  <2> QED
    BY <1>1, <2>1
<1>4. ASSUME NEW b \in Seq(Msgs), NEW m \in Msgs
      PROVE  Bytes(Append(b, m)) = Bytes(b) + Size[m]
  <2>1. PICK f \in [0..Len(b) -> Nat] : Sums(f, b) /\ Bytes(b) = f[Len(b)]
    BY <1>2
  <2>2. PICK g \in [0..Len(Append(b, m)) -> Nat] :
          Sums(g, Append(b, m)) /\ g[Len(Append(b, m))] = f[Len(b)] + Size[m]
    BY <2>1, SumsAppend
  <2>3. Append(b, m) \in Seq(Msgs)
    OBVIOUS
  <2> QED
    BY <1>1, <2>1, <2>2, <2>3
<1>5. \A b \in Seq(Msgs) : Len(b) \in 0..Len(b)
  OBVIOUS
<1> QED
  BY <1>2, <1>3, <1>4, <1>5

-----------------------------------------------------------------------------
(* The invariant                                                            *)

CallRecs == [at : {"idle", "again", "flush", "sending", "serving", "returned"},
             batch : Seq(Msgs), attempt : Nat, again : BOOLEAN]
WorkRecs == [todo : SUBSET SUBSET Nat, throttled : SUBSET Nat, failed : SUBSET Nat]

TypeInv ==
    /\ maxMemory \in Nat /\ buf \in Seq(Msgs) /\ bufBytes \in Nat
    /\ call \in [Threads -> CallRecs]
    /\ work \in [Threads -> WorkRecs]
    /\ copies \in [Msgs -> Nat] /\ kept \in [Msgs -> Nat]

Batch(t) == call[t].batch
Sending(t) == call[t].at \in {"sending", "serving"}
Distinct(b) == \A i, j \in DOMAIN b : b[i] = b[j] => i = j
Lost(t) == work[t].throttled \cup work[t].failed

(* Every copy of m in the logs stems from an append reported as failed.     *)
Clean(m) == copies[m] <= kept[m]

(* Send(m) has yet to put m into the buffer or into a batch.                *)
Fresh(m) == call[m].at \in {"idle", "again"} \/ call[m].again

(* Only a call that sends has a batch, and no batch repeats a message.      *)
Batches ==
    /\ Distinct(buf)
    /\ \A t \in Threads : Distinct(Batch(t))
    /\ \A t \in Threads : ~Sending(t) => Batch(t) = <<>> /\ ~call[t].again

(* What may still be appended is clean: a message no call has taken, a      *)
(* buffered one, and every message of a batch that is about to be sent.     *)
Pending ==
    /\ \A m \in Msgs : Fresh(m) => /\ Clean(m) /\ m \notin Range(buf)
                                   /\ \A t \in Threads : m \notin Range(Batch(t))
    /\ \A m \in Range(buf) : Clean(m)
    /\ \A t \in Threads : call[t].at = "sending" => \A m \in Range(Batch(t)) : Clean(m)

(* The server's groups do not overlap, and what is not appended is clean.   *)
Grouped(t) ==
    /\ \A I \in work[t].todo : I \subseteq DOMAIN Batch(t) /\ I \cap Lost(t) = {}
    /\ \A I, J \in work[t].todo : I # J => I \cap J = {}
    /\ Lost(t) \subseteq DOMAIN Batch(t)
    /\ \A i \in Lost(t) : Clean(Batch(t)[i])
    /\ \A I \in work[t].todo : \A i \in I : Clean(Batch(t)[i])
Served == \A t \in Threads : call[t].at = "serving" => Grouped(t)

(* The byte counter counts the buffer, which has room for a message.        *)
BufferRoom ==
    /\ bufBytes = Bytes(buf)
    /\ Len(buf) < BatchSize
    /\ maxMemory > 0 => bufBytes < maxMemory

PInv == /\ TypeInv /\ Batches /\ Pending /\ Served /\ BufferRoom
        /\ OneOwner /\ NoDuplicates /\ BatchesBounded

-----------------------------------------------------------------------------
(* What the calls do to the buffer and the batches                          *)

LEMMA Ranges ==
    /\ <<>> \in Seq(Msgs) /\ Range(<<>>) = {} /\ Distinct(<<>>)
    /\ \A b \in Seq(Msgs) : Range(b) \subseteq Msgs
    /\ \A b \in Seq(Msgs), m \in Msgs : Range(Append(b, m)) = Range(b) \cup {m}
    /\ \A b \in Seq(Msgs), m \in Msgs :
         Distinct(b) /\ m \notin Range(b) => Distinct(Append(b, m))
<1>1. <<>> \in Seq(Msgs) /\ Range(<<>>) = {} /\ Distinct(<<>>)
  BY DEF Range, Distinct
<1>2. \A b \in Seq(Msgs) : Range(b) \subseteq Msgs
  BY DEF Range
<1>3. ASSUME NEW b \in Seq(Msgs), NEW m \in Msgs
      PROVE  Range(Append(b, m)) = Range(b) \cup {m}
  <2> DEFINE c == Append(b, m)
  <2>1. /\ DOMAIN c = 1..(Len(b) + 1) /\ DOMAIN b = 1..Len(b) /\ Len(b) \in Nat
        /\ c[Len(b) + 1] = m /\ \A i \in 1..Len(b) : c[i] = b[i]
    OBVIOUS
  <2> HIDE DEF c
  <2>2. ASSUME NEW x \in Range(c) PROVE x \in Range(b) \cup {m}
    BY <2>1, <2>2 DEF Range
  <2>3. ASSUME NEW x \in Range(b) PROVE x \in Range(c)
    BY <2>1, <2>3 DEF Range
  <2>4. m \in Range(c)
    BY <2>1 DEF Range
  <2> QED
    BY <2>2, <2>3, <2>4 DEF c
<1>4. ASSUME NEW b \in Seq(Msgs), NEW m \in Msgs, Distinct(b), m \notin Range(b)
      PROVE  Distinct(Append(b, m))
  <2> DEFINE c == Append(b, m)
  <2>1. /\ DOMAIN c = 1..(Len(b) + 1) /\ DOMAIN b = 1..Len(b) /\ Len(b) \in Nat
        /\ c[Len(b) + 1] = m /\ \A i \in 1..Len(b) : c[i] = b[i]
    OBVIOUS
  <2>2. \A i \in 1..Len(b) : b[i] # m
    BY <1>4, <2>1 DEF Range
  <2> HIDE DEF c
  <2>3. Distinct(c)
    BY <1>4, <2>1, <2>2 DEF Distinct
  <2> QED
    BY <2>3 DEF c
<1> QED
  BY <1>1, <1>2, <1>3, <1>4

LEMMA CallTypes ==
    ASSUME TypeInv, NEW t \in Threads
    PROVE  /\ Batch(t) \in Seq(Msgs) /\ call[t].again \in BOOLEAN /\ call[t].attempt \in Nat
           /\ Range(Batch(t)) \subseteq Msgs
           /\ call[t] = [at |-> call[t].at, batch |-> call[t].batch,
                         attempt |-> call[t].attempt, again |-> call[t].again]
<1>1. call[t] \in CallRecs
  BY DEF TypeInv
<1> QED
  BY <1>1, Ranges DEF CallRecs, Batch

LEMMA CleanGroups ==
    ASSUME NEW t, Grouped(t), work'[t] = work[t], Batch(t)' = Batch(t),
           \A i \in DOMAIN Batch(t) : Clean(Batch(t)[i]) => Clean(Batch(t)[i])'
    PROVE  Grouped(t)'
<1>1. Lost(t)' = Lost(t)
  BY DEF Lost
<1> QED
  BY <1>1 DEF Grouped

(* One group less to serve, perhaps one more that failed.                   *)
LEMMA GroupTaken ==
    ASSUME NEW t, Grouped(t), NEW I \in work[t].todo, Batch(t)' = Batch(t),
           work'[t].todo = work[t].todo \ {I},
           Lost(t)' = Lost(t) \/ Lost(t)' = Lost(t) \cup I,
           \A i \in Lost(t)' : Clean(Batch(t)[i])',
           \A J \in work[t].todo \ {I} : \A i \in J : Clean(Batch(t)[i])'
    PROVE  Grouped(t)'
<1>1. /\ Lost(t)' \subseteq DOMAIN Batch(t)
      /\ \A J \in work[t].todo \ {I} : J \subseteq DOMAIN Batch(t) /\ J \cap Lost(t)' = {}
  BY DEF Grouped
<1> QED
  BY <1>1 DEF Grouped

LEMMA SameGroups ==
    ASSUME NEW t, Grouped(t), work'[t] = work[t], Batch(t)' = Batch(t),
           \A m : Clean(m)' <=> Clean(m)
    PROVE  Grouped(t)'
<1>1. Lost(t)' = Lost(t)
  BY DEF Lost
<1>2. \A i : Clean(Batch(t)[i])' <=> Clean(Batch(t)[i])
  OBVIOUS
<1> QED
  BY <1>1, <1>2 DEF Grouped

(* A call ends, or waits without a batch; what it had is in no hand.        *)
LEMMA KeepEnds ==
    ASSUME PInv, NEW t \in Threads,
           NEW at \in {"idle", "again", "flush", "returned"},
           call' = [call EXCEPT ![t] = [Idle EXCEPT !.at = at]],
           t \in Msgs /\ at \in {"idle", "again"} => Fresh(t),
           work' \in [Threads -> WorkRecs],
           \A u \in Threads : u # t => work'[u] = work[u],
           closed' = closed \/ buf = <<>>,
           UNCHANGED <<maxMemory, buf, bufBytes, copies, kept>>
    PROVE  PInv'
<1>1. /\ call'[t] = [at |-> at, batch |-> <<>>, attempt |-> 0, again |-> FALSE]
      /\ \A u \in Threads : u # t => call'[u] = call[u]
  BY DEF PInv, TypeInv, Idle
<1>2. TypeInv'
  <2>0. PICK no \in BOOLEAN : no = FALSE
    OBVIOUS
  <2>1. PICK none \in Seq(Msgs) : none = <<>>
    BY Ranges
  <2>2. [at |-> at, batch |-> none, attempt |-> 0, again |-> no] \in CallRecs
    BY DEF CallRecs
  <2>3. call'[t] \in CallRecs
    BY <1>1, <2>0, <2>1, <2>2
  <2> QED
    BY <2>3 DEF PInv, TypeInv
<1>3. /\ Batch(t)' = <<>> /\ Range(Batch(t))' = {} /\ ~Sending(t)'
      /\ \A u \in Threads : u # t => Batch(u)' = Batch(u) /\ (Sending(u)' <=> Sending(u))
  BY <1>1, Ranges DEF Batch, Sending
<1>4. Batches'
  BY <1>1, <1>3, Ranges DEF PInv, Batches
<1>5. \A m \in Msgs : Fresh(m)' => Fresh(m)
  BY <1>1 DEF Fresh, Threads
<1>clean. \A m : Clean(m)' <=> Clean(m)
  BY DEF Clean
<1>6. Pending'
  BY <1>1, <1>3, <1>5, <1>clean DEF PInv, Pending
<1>7. Served'
  <2> SUFFICES ASSUME NEW u \in Threads, call'[u].at = "serving" PROVE Grouped(u)'
    BY DEF Served
  <2>1. u # t /\ call'[u] = call[u]
    BY <1>1
  <2>2. Grouped(u) /\ Batch(u)' = Batch(u) /\ work'[u] = work[u]
    BY <1>3, <2>1 DEF PInv, Served
  <2> QED
    BY <1>clean, <2>2, SameGroups
<1>8. OneOwner'
  BY <1>3 DEF PInv, OneOwner, Batch
<1>9. BatchesBounded'
  <2>1. Len(<<>>) = 0 /\ Bytes(<<>>) = 0 /\ BatchSize \in Nat /\ maxMemory \in Nat
    BY BytesOf, SizeAssumption DEF PInv, TypeInv
  <2>2. Len(Batch(t)') <= BatchSize /\ (maxMemory > 0 => Bytes(Batch(t)') <= maxMemory)
    BY <1>3, <2>1
  <2> QED
    BY <1>3, <2>2 DEF PInv, BatchesBounded, Batch
<1>10. BufferRoom' /\ NoDuplicates'
  BY DEF PInv, BufferRoom, NoDuplicates
<1> QED
  BY <1>2, <1>4, <1>6, <1>7, <1>8, <1>9, <1>10 DEF PInv

(* The batch goes out once more; the server has kept nothing of it but what *)
(* it reported as failed.                                                   *)
LEMMA KeepRetries ==
    ASSUME PInv, NEW t \in Threads, Sending(t), \A m \in Range(Batch(t)) : Clean(m),
           call' = [call EXCEPT ![t].at = "sending", ![t].attempt = @ + 1],
           work' \in [Threads -> WorkRecs],
           \A u \in Threads : u # t => work'[u] = work[u],
           UNCHANGED <<maxMemory, buf, bufBytes, closed, copies, kept>>
    PROVE  PInv'
<1>0. call[t].attempt + 1 \in Nat
  <2>1. call[t].attempt \in Nat
    BY CallTypes DEF PInv
  <2> QED
    BY <2>1
<1>1. /\ call'[t] = [at |-> "sending", batch |-> call[t].batch,
                     attempt |-> call[t].attempt + 1, again |-> call[t].again]
      /\ \A u \in Threads : u # t => call'[u] = call[u]
      /\ call' \in [Threads -> CallRecs]
  <2>1. call[t] \in CallRecs
    BY DEF PInv, TypeInv
  <2> QED
    BY <1>0, <2>1 DEF PInv, TypeInv, CallRecs
<1>2. TypeInv'
  BY <1>1 DEF PInv, TypeInv
<1>3. \A u \in Threads : Batch(u)' = Batch(u) /\ (Sending(u)' <=> Sending(u))
                         /\ call'[u].again = call[u].again
  BY <1>1 DEF Batch, Sending
<1>4. Batches'
  BY <1>3 DEF PInv, Batches
<1>5. \A m \in Msgs : Fresh(m)' => Fresh(m)
  BY <1>1 DEF Fresh, Threads
<1>clean. \A m : Clean(m)' <=> Clean(m)
  BY DEF Clean
<1>6. Pending'
  BY <1>1, <1>3, <1>5, <1>clean DEF PInv, Pending
<1>7. Served'
  <2> SUFFICES ASSUME NEW u \in Threads, call'[u].at = "serving" PROVE Grouped(u)'
    BY DEF Served
  <2>1. u # t /\ call'[u] = call[u]
    BY <1>1
  <2>2. Grouped(u) /\ Batch(u)' = Batch(u) /\ work'[u] = work[u]
    BY <1>3, <2>1 DEF PInv, Served
  <2> QED
    BY <1>clean, <2>2, SameGroups
<1>8. OneOwner' /\ BatchesBounded' /\ BufferRoom' /\ NoDuplicates'
  BY <1>3 DEF PInv, OneOwner, BatchesBounded, BufferRoom, NoDuplicates, Batch
<1> QED
  BY <1>2, <1>4, <1>6, <1>7, <1>8 DEF PInv

(* A call takes the buffer, perhaps with its own message, to send it.       *)
LEMMA KeepTakes ==
    ASSUME PInv, NEW t \in Threads, ~Sending(t), NEW again \in BOOLEAN,
           NEW b \in Seq(Msgs), Distinct(b),
           call' = [call EXCEPT ![t] = [at |-> "sending", batch |-> b, attempt |-> 0,
                                        again |-> again]],
           \A m \in Range(b) : Clean(m) /\ \A u \in Threads : m \notin Range(Batch(u)),
           t \in Msgs /\ again => Fresh(t),
           \A m \in Msgs : Fresh(m)' => m \notin Range(b),
           Len(b) <= BatchSize, maxMemory > 0 => Bytes(b) <= maxMemory,
           buf' = <<>>, bufBytes' = 0,
           UNCHANGED <<maxMemory, work, copies, kept>>
    PROVE  PInv'
<1>1. /\ call'[t] = [at |-> "sending", batch |-> b, attempt |-> 0, again |-> again]
      /\ \A u \in Threads : u # t => call'[u] = call[u]
  BY DEF PInv, TypeInv
<1>2. TypeInv'
  <2>1. call'[t] \in CallRecs
    BY <1>1 DEF CallRecs
  <2> QED
    BY <2>1 DEF PInv, TypeInv
<1>3. /\ Batch(t)' = b /\ Range(Batch(t))' = Range(b) /\ Sending(t)'
      /\ \A u \in Threads : u # t => Batch(u)' = Batch(u) /\ (Sending(u)' <=> Sending(u))
  BY <1>1 DEF Batch, Sending
<1>4. Range(buf)' = {} /\ Distinct(buf)'
  BY Ranges
<1>5. Batches'
  BY <1>1, <1>3, <1>4 DEF PInv, Batches
<1>6. \A m \in Msgs : Fresh(m)' => Fresh(m)
  BY <1>1 DEF Fresh, Threads
<1>clean. \A m : Clean(m)' <=> Clean(m)
  BY DEF Clean
<1>7. Pending'
  BY <1>1, <1>3, <1>4, <1>6, <1>clean DEF PInv, Pending
<1>8. Served'
  <2> SUFFICES ASSUME NEW u \in Threads, call'[u].at = "serving" PROVE Grouped(u)'
    BY DEF Served
  <2>1. u # t /\ call'[u] = call[u]
    BY <1>1
  <2>2. Grouped(u) /\ Batch(u)' = Batch(u) /\ work'[u] = work[u]
    BY <1>3, <2>1 DEF PInv, Served
  <2> QED
    BY <1>clean, <2>2, SameGroups
<1>9. OneOwner'
  <2>1. \A u \in Threads : Range(b) \cap Range(Batch(u)) = {}
    OBVIOUS
  <2>2. \A u \in Threads : Range(Batch(u)') \cap Range(buf') = {}
    BY <1>4
  <2>3. \A u, v \in Threads : u # v => Range(Batch(u)') \cap Range(Batch(v)') = {}
    BY <1>3, <2>1 DEF PInv, OneOwner, Batch
  <2> QED
    BY <2>2, <2>3 DEF OneOwner, Batch
<1>10. BatchesBounded' /\ BufferRoom'
  <2>1. Len(<<>>) = 0 /\ Bytes(<<>>) = 0 /\ BatchSize \in Nat \ {0} /\ maxMemory \in Nat
    BY BytesOf, SizeAssumption DEF PInv, TypeInv
  <2>2. BufferRoom'
    BY <2>1 DEF BufferRoom
  <2>3. \A u \in Threads : Len(Batch(u)') <= BatchSize
                           /\ (maxMemory > 0 => Bytes(Batch(u)') <= maxMemory)
    BY <1>3 DEF PInv, BatchesBounded, Batch
  <2> QED
    BY <2>2, <2>3 DEF BatchesBounded, Batch
<1>11. NoDuplicates'
  BY DEF PInv, NoDuplicates
<1> QED
  BY <1>2, <1>5, <1>7, <1>8, <1>9, <1>10, <1>11 DEF PInv

(* The buffered messages, which no batch has and no Send is about to place. *)
LEMMA Buffered ==
    ASSUME PInv, NEW m \in Range(buf)
    PROVE  m \in Msgs /\ Clean(m) /\ ~Fresh(m) /\ \A u \in Threads : m \notin Range(Batch(u))
<1>1. m \in Msgs
  BY Ranges DEF PInv, TypeInv
<1> QED
  BY <1>1 DEF PInv, Pending, OneOwner, Batch

LEMMA KeepTakesBuffer ==
    ASSUME PInv, NEW t \in Threads, ~Sending(t), NEW again \in BOOLEAN,
           SendBatch(t, buf, again), t \in Msgs => again /\ Fresh(t),
           buf' = <<>>, bufBytes' = 0, UNCHANGED <<maxMemory, work, copies, kept>>
    PROVE  PInv'
<1>1. call' = [call EXCEPT ![t] = [at |-> "sending", batch |-> buf, attempt |-> 0,
                                   again |-> again]]
  BY DEF SendBatch
<1>2. \A m \in Msgs : Fresh(m)' => Fresh(m)
  <2>1. \A u \in Threads : u # t => call'[u] = call[u]
    BY <1>1 DEF PInv, TypeInv
  <2> QED
    BY <2>1 DEF Fresh, Threads
<1>3. \A m \in Range(buf) : Clean(m) /\ \A u \in Threads : m \notin Range(Batch(u))
  BY Buffered
<1>4. \A m \in Msgs : Fresh(m)' => m \notin Range(buf)
  BY <1>2, Buffered
<1>5. Len(buf) <= BatchSize /\ (maxMemory > 0 => Bytes(buf) <= maxMemory)
  <2>1. Len(buf) \in Nat /\ BatchSize \in Nat /\ bufBytes \in Nat /\ maxMemory \in Nat
    BY SizeAssumption DEF PInv, TypeInv
  <2> QED
    BY <2>1 DEF PInv, BufferRoom
<1>6. buf \in Seq(Msgs) /\ Distinct(buf)
  BY DEF PInv, TypeInv, Batches
<1> QED
  BY <1>1, <1>3, <1>4, <1>5, <1>6, KeepTakes

LEMMA KeepSendEnds ==
    ASSUME PInv, NEW m \in Msgs, SendRefused(m) \/ SendTooLarge(m)
    PROVE  PInv'
<1>1. /\ call' = [call EXCEPT ![m] = [Idle EXCEPT !.at = "returned"]]
      /\ UNCHANGED <<maxMemory, buf, bufBytes, closed, work, copies, kept>>
  BY DEF SendRefused, SendTooLarge, Return, serverVars
<1>2. work' \in [Threads -> WorkRecs] /\ \A u \in Threads : work'[u] = work[u]
  BY <1>1 DEF PInv, TypeInv
<1> QED
  BY <1>1, <1>2, KeepEnds DEF Threads

LEMMA KeepSendNoRoom ==
    ASSUME PInv, NEW m \in Msgs, SendNoRoom(m)
    PROVE  PInv'
<1>1. SendBatch(m, buf, TRUE) /\ buf' = <<>> /\ bufBytes' = 0
      /\ UNCHANGED <<maxMemory, work, copies, kept>>
  BY DEF SendNoRoom, serverVars
<1>2. m \in Threads /\ ~Sending(m) /\ Fresh(m)
  BY DEF SendNoRoom, Accepting, Sendable, Sending, Fresh, Threads
<1> QED
  BY <1>1, <1>2, KeepTakesBuffer

(* Send has found that the message fits.                                    *)
LEMMA FitsWith ==
    ASSUME PInv, NEW m \in Msgs, ~NoRoom(m), maxMemory = 0 \/ Size[m] <= maxMemory
    PROVE  /\ Append(buf, m) \in Seq(Msgs) /\ Len(Append(buf, m)) = Len(buf) + 1
           /\ Len(buf) + 1 <= BatchSize
           /\ Bytes(Append(buf, m)) = bufBytes + Size[m]
           /\ maxMemory > 0 => bufBytes + Size[m] <= maxMemory
<1>1. /\ Len(buf) \in Nat /\ BatchSize \in Nat /\ bufBytes \in Nat /\ maxMemory \in Nat
      /\ Size[m] \in Nat /\ Append(buf, m) \in Seq(Msgs)
      /\ Len(Append(buf, m)) = Len(buf) + 1 /\ buf \in Seq(Msgs)
  BY SizeAssumption DEF PInv, TypeInv
<1>2. Bytes(Append(buf, m)) = bufBytes + Size[m]
  BY <1>1, BytesOf DEF PInv, BufferRoom
<1>3. buf = <<>> => bufBytes = 0
  BY BytesOf DEF PInv, BufferRoom
<1> QED
  BY <1>1, <1>2, <1>3 DEF PInv, BufferRoom, NoRoom

LEMMA KeepSendFull ==
    ASSUME PInv, NEW m \in Msgs, SendFull(m)
    PROVE  PInv'
<1>1. /\ SendBatch(m, Append(buf, m), FALSE) /\ buf' = <<>> /\ bufBytes' = 0
      /\ UNCHANGED <<maxMemory, work, copies, kept>>
      /\ ~NoRoom(m) /\ (maxMemory = 0 \/ Size[m] <= maxMemory)
  BY DEF SendFull, serverVars
<1>2. m \in Threads /\ ~Sending(m) /\ Fresh(m)
  BY DEF SendFull, Accepting, Sendable, Sending, Fresh, Threads
<1> DEFINE b == Append(buf, m)
<1>3. call' = [call EXCEPT ![m] = [at |-> "sending", batch |-> b, attempt |-> 0,
                                   again |-> FALSE]]
  BY <1>1 DEF SendBatch
<1>4. /\ b \in Seq(Msgs) /\ Len(b) <= BatchSize
      /\ (maxMemory > 0 => Bytes(b) <= maxMemory)
  BY <1>1, FitsWith
<1>5. Range(b) = Range(buf) \cup {m} /\ Distinct(b)
  <2>1. buf \in Seq(Msgs) /\ Distinct(buf) /\ m \notin Range(buf)
    BY <1>2 DEF PInv, TypeInv, Batches, Pending
  <2> QED
    BY <2>1, Ranges
<1>6. \A x \in Range(b) : Clean(x) /\ \A u \in Threads : x \notin Range(Batch(u))
  <2>1. Clean(m) /\ \A u \in Threads : m \notin Range(Batch(u))
    BY <1>2 DEF PInv, Pending
  <2> HIDE DEF b
  <2> QED
    BY <1>5, <2>1, Buffered
<1>7. \A x \in Msgs : Fresh(x)' => x \notin Range(b)
  <2>1. ~Fresh(m)' /\ \A x \in Msgs : x # m => (Fresh(x)' <=> Fresh(x))
    BY <1>2, <1>3 DEF PInv, TypeInv, Fresh, Threads
  <2> HIDE DEF b
  <2> QED
    BY <1>5, <2>1, Buffered
<1> HIDE DEF b
<1> QED
  BY <1>1, <1>2, <1>3, <1>4, <1>5, <1>6, <1>7, KeepTakes

LEMMA KeepSendKeeps ==
    ASSUME PInv, NEW m \in Msgs, SendKeeps(m)
    PROVE  PInv'
<1>1. /\ ~NoRoom(m) /\ (maxMemory = 0 \/ Size[m] <= maxMemory) /\ ~Full(m) /\ ~closed
      /\ buf' = Append(buf, m) /\ bufBytes' = bufBytes + Size[m]
      /\ call' = [call EXCEPT ![m] = [Idle EXCEPT !.at = "returned"]]
      /\ UNCHANGED <<maxMemory, closed, work, copies, kept>>
  BY DEF SendKeeps, Return, Accepting, serverVars
<1>2. m \in Threads /\ ~Sending(m) /\ Fresh(m)
  BY DEF SendKeeps, Accepting, Sendable, Sending, Fresh, Threads
<1>3. Batch(m) = <<>> /\ ~call[m].again
  BY <1>2 DEF PInv, Batches
<1>4. /\ call'[m] = [at |-> "returned", batch |-> <<>>, attempt |-> 0, again |-> FALSE]
      /\ \A u \in Threads : u # m => call'[u] = call[u]
  BY <1>1, <1>2 DEF PInv, TypeInv, Idle
<1>5. /\ \A u \in Threads : /\ Batch(u)' = Batch(u) /\ (Sending(u)' <=> Sending(u))
                            /\ call'[u].again <=> call[u].again
  BY <1>2, <1>3, <1>4 DEF Batch, Sending
<1>6. /\ ~Fresh(m)' /\ \A x \in Msgs : x # m => (Fresh(x)' <=> Fresh(x))
      /\ \A x : Clean(x)' <=> Clean(x)
  BY <1>1, <1>4 DEF Fresh, Threads, Clean
<1>7. buf \in Seq(Msgs) /\ Distinct(buf) /\ m \notin Range(buf) /\ Clean(m)
      /\ \A u \in Threads : m \notin Range(Batch(u))
  BY <1>2 DEF PInv, TypeInv, Batches, Pending
<1>8. Range(buf)' = Range(buf) \cup {m} /\ Distinct(buf)' /\ buf' \in Seq(Msgs)
  BY <1>1, <1>7, Ranges, FitsWith
<1>9. TypeInv'
  <2>1. call'[m] \in CallRecs
    <3>1. PICK no \in BOOLEAN : no = FALSE
      OBVIOUS
    <3>2. PICK none \in Seq(Msgs) : none = <<>>
      BY Ranges
    <3>3. [at |-> "returned", batch |-> none, attempt |-> 0, again |-> no] \in CallRecs
      BY DEF CallRecs
    <3> QED
      BY <1>4, <3>1, <3>2, <3>3
  <2>2. bufBytes' \in Nat
    <3>1. bufBytes \in Nat /\ Size[m] \in Nat
      BY SizeAssumption DEF PInv, TypeInv
    <3> QED
      BY <1>1, <3>1
  <2> QED
    BY <1>1, <1>8, <2>1, <2>2 DEF PInv, TypeInv
<1>10. Batches'
  BY <1>5, <1>8 DEF PInv, Batches
<1>11. Pending'
  <2>1. \A u \in Threads : call'[u].at = "sending" => call[u].at = "sending"
    BY <1>4
  <2> QED
    BY <1>5, <1>6, <1>7, <1>8, <2>1 DEF PInv, Pending
<1>12. Served'
  <2> SUFFICES ASSUME NEW u \in Threads, call'[u].at = "serving" PROVE Grouped(u)'
    BY DEF Served
  <2>1. u # m /\ call'[u] = call[u]
    BY <1>4
  <2>2. Grouped(u) /\ Batch(u)' = Batch(u) /\ work'[u] = work[u]
    BY <1>1, <1>5, <2>1 DEF PInv, Served
  <2> QED
    BY <1>6, <2>2, SameGroups
<1>13. OneOwner'
  BY <1>5, <1>7, <1>8 DEF PInv, OneOwner, Batch
<1>14. BufferRoom'
  <2>1. /\ Len(buf) \in Nat /\ BatchSize \in Nat /\ bufBytes \in Nat /\ maxMemory \in Nat
        /\ Size[m] \in Nat
    BY SizeAssumption DEF PInv, TypeInv
  <2>2. Len(Append(buf, m)) = Len(buf) + 1 /\ Bytes(Append(buf, m)) = bufBytes + Size[m]
    BY <1>1, FitsWith
  <2> QED
    BY <1>1, <2>1, <2>2 DEF BufferRoom, Full
<1>15. BatchesBounded' /\ NoDuplicates'
  BY <1>1, <1>5 DEF PInv, BatchesBounded, NoDuplicates, Batch
<1> QED
  BY <1>9, <1>10, <1>11, <1>12, <1>13, <1>14, <1>15 DEF PInv

LEMMA NotMessages ==
    ASSUME NEW t \in Timers \cup {Flush, Close}
    PROVE  t \in Threads /\ t \notin Msgs
BY ThreadsAssumption DEF Threads

LEMMA IdleIs == Idle = [Idle EXCEPT !.at = "idle"]
BY DEF Idle

LEMMA KeepTimerFires ==
    ASSUME PInv, NEW t \in Timers, TimerFires(t)
    PROVE  PInv'
<1>1. t \in Threads /\ t \notin Msgs
  BY NotMessages
<1>2. /\ call[t].at = "idle" /\ call' = [call EXCEPT ![t].at = "flush"]
      /\ UNCHANGED <<maxMemory, buf, bufBytes, closed, work, copies, kept>>
  BY DEF TimerFires, serverVars
<1>3. call[t].batch = <<>> /\ call[t].again = FALSE
  BY <1>1, <1>2, CallTypes DEF PInv, Batches, Sending, Batch
<1>4. /\ call'[t] = [at |-> "flush", batch |-> <<>>, attempt |-> call[t].attempt, again |-> FALSE]
      /\ \A u \in Threads : u # t => call'[u] = call[u]
      /\ call' \in [Threads -> CallRecs]
  <2>1. call[t] \in CallRecs
    BY <1>1 DEF PInv, TypeInv
  <2> QED
    BY <1>1, <1>2, <1>3, <2>1 DEF PInv, TypeInv, CallRecs
<1>5. \A u \in Threads : Batch(u)' = Batch(u) /\ (Sending(u)' <=> Sending(u))
                         /\ (call'[u].again <=> call[u].again)
  BY <1>2, <1>3, <1>4 DEF Batch, Sending
<1>6. \A m \in Msgs : call'[m] = call[m]
  BY <1>1, <1>4 DEF Threads
<1>7. TypeInv'
  BY <1>2, <1>4 DEF PInv, TypeInv
<1>8. Batches'
  BY <1>2, <1>5 DEF PInv, Batches
<1>clean. \A m : Clean(m)' <=> Clean(m)
  BY <1>2 DEF Clean
<1>9. Pending'
  <2>1. \A u \in Threads : call'[u].at = "sending" => call[u].at = "sending"
    <3>1. call'[t].at = "flush"
      BY <1>4
    <3> QED
      BY <1>4, <3>1
  <2>2. \A m \in Msgs : Fresh(m)' <=> Fresh(m)
    BY <1>6 DEF Fresh
  <2> QED
    BY <1>2, <1>5, <1>clean, <2>1, <2>2 DEF PInv, Pending
<1>10. Served'
  <2> SUFFICES ASSUME NEW u \in Threads, call'[u].at = "serving" PROVE Grouped(u)'
    BY DEF Served
  <2>1. u # t /\ call'[u] = call[u]
    BY <1>4
  <2>2. Grouped(u) /\ Batch(u)' = Batch(u) /\ work'[u] = work[u]
    BY <1>2, <1>5, <2>1 DEF PInv, Served
  <2> QED
    BY <1>clean, <2>2, SameGroups
<1>11. OneOwner' /\ BatchesBounded' /\ BufferRoom' /\ NoDuplicates'
  BY <1>2, <1>5 DEF PInv, OneOwner, BatchesBounded, BufferRoom, NoDuplicates, Batch
<1> QED
  BY <1>7, <1>8, <1>9, <1>10, <1>11 DEF PInv

LEMMA KeepFlushBuffer ==
    ASSUME PInv, NEW t \in Timers \cup {Flush}, FlushBuffer(t)
    PROVE  PInv'
<1>1. t \in Threads /\ t \notin Msgs
  BY NotMessages
<1>2. ~Sending(t)
  BY DEF FlushBuffer, Sending
<1>3. UNCHANGED <<maxMemory, closed, work, copies, kept>>
  BY DEF FlushBuffer, serverVars
<1>4. CASE buf = <<>>
  <2>1. UNCHANGED <<buf, bufBytes>>
        /\ \/ call' = [call EXCEPT ![t] = [Idle EXCEPT !.at = "returned"]]
           \/ call' = [call EXCEPT ![t] = [Idle EXCEPT !.at = "idle"]]
    BY <1>4, IdleIs DEF FlushBuffer, Return
  <2>2. work' \in [Threads -> WorkRecs] /\ \A u \in Threads : work'[u] = work[u]
    BY <1>3 DEF PInv, TypeInv
  <2> QED
    BY <1>1, <1>3, <2>1, <2>2, KeepEnds
<1>5. CASE buf # <<>>
  <2>1. SendBatch(t, buf, FALSE) /\ buf' = <<>> /\ bufBytes' = 0
    BY <1>5 DEF FlushBuffer
  <2> QED
    BY <1>1, <1>2, <1>3, <2>1, KeepTakesBuffer
<1> QED
  BY <1>4, <1>5

LEMMA KeepCloseProducer ==
    ASSUME PInv, CloseProducer
    PROVE  PInv'
<1>1. Close \in Threads /\ Close \notin Msgs
  BY NotMessages
<1>2. /\ ~Sending(Close) /\ buf' = <<>> /\ bufBytes' = 0 /\ closed' = TRUE
      /\ UNCHANGED <<maxMemory, work, copies, kept>>
  BY DEF CloseProducer, Sending, serverVars
<1>3. CASE buf = <<>>
  <2>1. call' = [call EXCEPT ![Close] = [Idle EXCEPT !.at = "returned"]]
    BY <1>3 DEF CloseProducer, Return
  <2>2. buf' = buf /\ bufBytes' = bufBytes
    BY <1>2, <1>3, BytesOf DEF PInv, BufferRoom
  <2>3. work' \in [Threads -> WorkRecs] /\ \A u \in Threads : work'[u] = work[u]
    BY <1>2 DEF PInv, TypeInv
  <2> QED
    BY <1>1, <1>2, <1>3, <2>1, <2>2, <2>3, KeepEnds
<1>4. CASE buf # <<>>
  <2>1. SendBatch(Close, buf, FALSE)
    BY <1>4 DEF CloseProducer
  <2> QED
    BY <1>1, <1>2, <2>1, KeepTakesBuffer
<1> QED
  BY <1>3, <1>4

-----------------------------------------------------------------------------
(* The attempts                                                             *)

LEMMA KeepEndSend ==
    ASSUME PInv, NEW t \in Threads, NEW ok \in BOOLEAN, EndSend(t, ok),
           work' \in [Threads -> WorkRecs],
           \A u \in Threads : u # t => work'[u] = work[u],
           UNCHANGED <<maxMemory, buf, bufBytes, closed, copies, kept>>
    PROVE  PInv'
<1>1. CASE t \in Timers
  <2>1. call' = [call EXCEPT ![t] = [Idle EXCEPT !.at = "idle"]]
    BY <1>1, IdleIs DEF EndSend
  <2>2. t \notin Msgs
    BY <1>1, NotMessages
  <2> QED
    BY <2>1, <2>2, KeepEnds
<1>2. CASE t \notin Timers /\ ok /\ call[t].again
  <2>1. call' = [call EXCEPT ![t] = [Idle EXCEPT !.at = "again"]] /\ Fresh(t)
    BY <1>2 DEF EndSend, Fresh
  <2> QED
    BY <2>1, KeepEnds
<1>3. CASE t \notin Timers /\ ~(ok /\ call[t].again)
  <2>1. call' = [call EXCEPT ![t] = [Idle EXCEPT !.at = "returned"]]
    BY <1>3 DEF EndSend
  <2> QED
    BY <2>1, KeepEnds
<1> QED
  BY <1>1, <1>2, <1>3

(* A failed attempt is repeated only if it was refused for lack of          *)
(* resources, and then nothing of the batch is in the logs.                 *)
LEMMA KeepAttemptFails ==
    ASSUME PInv, NEW t \in Threads, Sending(t), NEW code, AttemptFails(t, code),
           Retryable(code) => \A m \in Range(Batch(t)) : Clean(m),
           work' \in [Threads -> WorkRecs],
           \A u \in Threads : u # t => work'[u] = work[u],
           UNCHANGED <<maxMemory, buf, bufBytes, closed, copies, kept>>
    PROVE  PInv'
<1>1. CASE Retryable(code) /\ call[t].attempt + 1 < produceMaxRetries
  BY <1>1, KeepRetries DEF AttemptFails
<1>2. CASE ~(Retryable(code) /\ call[t].attempt + 1 < produceMaxRetries)
  <2>1. EndSend(t, FALSE)
    BY <1>2 DEF AttemptFails
  <2> QED
    BY <2>1, KeepEndSend
<1> QED
  BY <1>1, <1>2

LEMMA KeepCancelled ==
    ASSUME PInv, NEW t \in Timers, Cancelled(t)
    PROVE  PInv'
<1>1. EndSend(t, FALSE) /\ UNCHANGED <<maxMemory, buf, bufBytes, closed, work, copies, kept>>
  BY DEF Cancelled, serverVars
<1>2. work' \in [Threads -> WorkRecs] /\ \A u \in Threads : work'[u] = work[u]
  BY <1>1 DEF PInv, TypeInv
<1> QED
  BY <1>1, <1>2, KeepEndSend, NotMessages

LEMMA KeepOverloaded ==
    ASSUME PInv, NEW t \in Threads, Overloaded(t)
    PROVE  PInv'
<1>1. /\ call[t].at = "sending" /\ AttemptFails(t, "ResourceExhausted")
      /\ UNCHANGED <<maxMemory, buf, bufBytes, closed, work, copies, kept>>
  BY DEF Overloaded, serverVars
<1>2. work' \in [Threads -> WorkRecs] /\ \A u \in Threads : work'[u] = work[u]
  BY <1>1 DEF PInv, TypeInv
<1>3. Sending(t) /\ \A m \in Range(Batch(t)) : Clean(m)
  BY <1>1 DEF PInv, Pending, Sending
<1> QED
  BY <1>1, <1>2, <1>3, KeepAttemptFails

LEMMA NoWorkType == NoWork \in WorkRecs
BY DEF NoWork, WorkRecs

LEMMA KeepRespond ==
    ASSUME PInv, NEW t \in Threads, Respond(t)
    PROVE  PInv'
<1>1. /\ call[t].at = "serving" /\ work' = [work EXCEPT ![t] = NoWork]
      /\ UNCHANGED <<maxMemory, buf, bufBytes, closed, copies, kept>>
  BY DEF Respond
<1>2. work' \in [Threads -> WorkRecs] /\ \A u \in Threads : u # t => work'[u] = work[u]
  BY <1>1, NoWorkType DEF PInv, TypeInv
<1>3. Sending(t)
  BY <1>1 DEF Sending
<1>4. CASE allFailed(t)
  <2>1. \A m \in Range(Batch(t)) : Clean(m)
    <3>1. Lost(t) = DOMAIN Batch(t)
      BY <1>4 DEF allFailed, Lost, Batch
    <3>2. Grouped(t)
      BY <1>1 DEF PInv, Served
    <3>3. \A i \in DOMAIN Batch(t) : Clean(Batch(t)[i])
      BY <3>1, <3>2 DEF Grouped
    <3> QED
      BY <3>3 DEF Range
  <2>2. \E code : AttemptFails(t, code)
    BY <1>4 DEF Respond
  <2> QED
    BY <1>1, <1>2, <1>3, <2>1, <2>2, KeepAttemptFails
<1>5. CASE ~allFailed(t)
  <2>1. EndSend(t, TRUE)
    BY <1>5 DEF Respond
  <2> QED
    BY <1>1, <1>2, <2>1, KeepEndSend
<1> QED
  BY <1>4, <1>5

LEMMA KeepAnswerLost ==
    ASSUME PInv, NEW t \in Threads, AnswerLost(t)
    PROVE  PInv'
<1>1. /\ call[t].at = "serving" /\ work' = [work EXCEPT ![t] = NoWork]
      /\ AttemptFails(t, "Unavailable")
      /\ UNCHANGED <<maxMemory, buf, bufBytes, closed, copies, kept>>
  BY DEF AnswerLost
<1>2. work' \in [Threads -> WorkRecs] /\ \A u \in Threads : u # t => work'[u] = work[u]
  BY <1>1, NoWorkType DEF PInv, TypeInv
<1>3. Sending(t) /\ ~Retryable("Unavailable")
  BY <1>1 DEF Sending, Retryable
<1> QED
  BY <1>1, <1>2, <1>3, KeepAttemptFails

-----------------------------------------------------------------------------
(* The server                                                               *)

LEMMA KeepServe ==
    ASSUME PInv, NEW t \in Threads, Serve(t)
    PROVE  PInv'
<1> DEFINE TooLarge == {i \in DOMAIN Batch(t) : Size[Batch(t)[i]] > MaxMessageBytes}
           Groups(to) == {{i \in DOMAIN to : to[i] = p} : p \in Range(to)}
<1>1. /\ call[t].at = "sending" /\ call' = [call EXCEPT ![t].at = "serving"]
      /\ UNCHANGED <<maxMemory, buf, bufBytes, closed, copies, kept>>
  BY DEF Serve
<1>2. PICK hot \in SUBSET (DOMAIN Batch(t) \ TooLarge) :
        \E to \in [DOMAIN Batch(t) \ (TooLarge \cup hot) -> Partitions] :
          work' = [work EXCEPT ![t] =
                     [todo |-> Groups(to), throttled |-> hot, failed |-> TooLarge]]
  BY DEF Serve, Batch
<1>3. PICK b \in Seq(Msgs), large \in SUBSET DOMAIN Batch(t) : b = Batch(t) /\ large = TooLarge
  BY CallTypes DEF PInv
<1> HIDE DEF TooLarge, Groups
<1>3a. PICK to \in [DOMAIN b \ (large \cup hot) -> Partitions] :
        work' = [work EXCEPT ![t] = [todo |-> Groups(to), throttled |-> hot, failed |-> large]]
  BY <1>2, <1>3
<1> DEFINE todo == Groups(to)
<1>4. /\ large \subseteq DOMAIN b /\ hot \subseteq DOMAIN b /\ DOMAIN b \subseteq Nat
      /\ DOMAIN to = DOMAIN b \ (large \cup hot)
  <2>1. DOMAIN b \subseteq Nat
    OBVIOUS
  <2> QED
    BY <1>2, <1>3, <2>1
<1>5. /\ \A I \in todo : I \subseteq DOMAIN to
      /\ \A I, J \in todo : I # J => I \cap J = {}
  BY DEF Groups
<1> HIDE DEF todo
<1>6. /\ work'[t].todo = todo /\ work'[t].throttled = hot /\ work'[t].failed = large
      /\ \A u \in Threads : u # t => work'[u] = work[u]
      /\ work' \in [Threads -> WorkRecs]
  <2>1. [todo |-> todo, throttled |-> hot, failed |-> large] \in WorkRecs
    <3>1. todo \in SUBSET SUBSET Nat
      BY <1>4, <1>5
    <3> QED
      BY <1>4, <3>1 DEF WorkRecs
  <2> QED
    BY <1>3a, <2>1 DEF todo, PInv, TypeInv
<1>7. /\ call'[t] = [at |-> "serving", batch |-> call[t].batch, attempt |-> call[t].attempt,
                     again |-> call[t].again]
      /\ \A u \in Threads : u # t => call'[u] = call[u]
      /\ call' \in [Threads -> CallRecs]
  <2>1. call[t] \in CallRecs
    BY DEF PInv, TypeInv
  <2> QED
    BY <1>1, <2>1 DEF PInv, TypeInv, CallRecs
<1>8. \A u \in Threads : Batch(u)' = Batch(u) /\ (Sending(u)' <=> Sending(u))
                         /\ call'[u].again = call[u].again
  <2>1. Batch(t)' = Batch(t) /\ Sending(t)' /\ Sending(t) /\ call'[t].again = call[t].again
    BY <1>1, <1>7 DEF Batch, Sending
  <2>2. \A u \in Threads : u # t => Batch(u)' = Batch(u) /\ (Sending(u)' <=> Sending(u))
                                    /\ call'[u].again = call[u].again
    BY <1>7 DEF Batch, Sending
  <2> QED
    BY <2>1, <2>2
<1>8a. call'[t].at = "serving"
  BY <1>7
<1>9. TypeInv' /\ Batches'
  BY <1>1, <1>6, <1>7, <1>8 DEF PInv, TypeInv, Batches
<1>10. \A m : Clean(m)' <=> Clean(m)
  BY <1>1 DEF Clean
<1>11. Pending'
  <2>1. \A m \in Msgs : Fresh(m)' => Fresh(m)
    <3> SUFFICES ASSUME NEW m \in Msgs, Fresh(m)' PROVE Fresh(m)
      OBVIOUS
    <3>1. CASE m = t
      BY <1>8, <3>1, <1>8a DEF Fresh
    <3>2. CASE m # t
      <4>1. call'[m] = call[m]
        BY <1>7, <3>2 DEF Threads
      <4> QED
        BY <4>1 DEF Fresh
    <3> QED
      BY <3>1, <3>2
  <2> QED
    BY <1>1, <1>7, <1>8, <1>10, <2>1 DEF PInv, Pending
<1>12. Served'
  <2>1. \A i \in DOMAIN b : Clean(b[i])
    BY <1>1, <1>3 DEF PInv, Pending, Range
  <2>2. /\ work'[t].todo = todo /\ work'[t].throttled = hot /\ work'[t].failed = large
        /\ Batch(t)' = b
    <3>1. Batch(t)' = b
      BY <1>3, <1>8
    <3> QED
      BY <1>6, <3>1
  <2>3. Grouped(t)'
    <3>1. Lost(t)' = hot \cup large
      BY <2>2 DEF Lost
    <3>2. \A i \in DOMAIN b : Clean(b[i])'
      BY <1>10, <2>1
    <3>3. \A I \in todo : I \subseteq DOMAIN b /\ I \cap (hot \cup large) = {}
      BY <1>4, <1>5
    <3>4. hot \cup large \subseteq DOMAIN b
      BY <1>4
    <3>5. /\ \A i \in hot \cup large : Clean(b[i])'
          /\ \A I \in todo : \A i \in I : Clean(b[i])'
      BY <3>2, <3>3, <3>4
    <3> QED
      BY <1>5, <2>2, <3>1, <3>3, <3>4, <3>5 DEF Grouped
  <2>4. ASSUME NEW u \in Threads, u # t, call'[u].at = "serving" PROVE Grouped(u)'
    <3>1. Grouped(u) /\ Batch(u)' = Batch(u) /\ work'[u] = work[u]
      BY <1>6, <1>7, <1>8, <2>4 DEF PInv, Served
    <3> QED
      BY <1>10, <3>1, SameGroups
  <2> QED
    BY <2>3, <2>4 DEF Served
<1>13. OneOwner' /\ BatchesBounded' /\ BufferRoom' /\ NoDuplicates'
  BY <1>1, <1>8 DEF PInv, OneOwner, BatchesBounded, BufferRoom, NoDuplicates, Batch
<1> QED
  BY <1>9, <1>11, <1>12, <1>13 DEF PInv

(* The messages of group I of t's batch.                                    *)
GroupOf(t, I) == {Batch(t)[i] : i \in I}

(* Nobody else has a message of the group, nor is it in the batch again.    *)
LEMMA GroupIsOwn ==
    ASSUME PInv, NEW t \in Threads, call[t].at = "serving", NEW I \in work[t].todo
    PROVE  /\ \A m \in GroupOf(t, I) : m \in Msgs /\ Clean(m)
           /\ \A m \in Msgs : Fresh(m) => m \notin GroupOf(t, I)
           /\ Range(buf) \cap GroupOf(t, I) = {}
           /\ \A u \in Threads : u # t => Range(Batch(u)) \cap GroupOf(t, I) = {}
           /\ \A i \in Lost(t) : Batch(t)[i] \notin GroupOf(t, I)
           /\ \A J \in work[t].todo \ {I} : \A i \in J : Batch(t)[i] \notin GroupOf(t, I)
<1>1. Grouped(t) /\ Distinct(Batch(t))
  BY DEF PInv, Served, Batches
<1>2. I \subseteq DOMAIN Batch(t)
  BY <1>1 DEF Grouped
<1>3. GroupOf(t, I) \subseteq Range(Batch(t))
  BY <1>2 DEF GroupOf, Range
<1>4. \A m \in GroupOf(t, I) : m \in Msgs /\ Clean(m)
  <2>1. \A m \in GroupOf(t, I) : Clean(m)
    BY <1>1 DEF Grouped, GroupOf
  <2>2. Range(Batch(t)) \subseteq Msgs
    BY CallTypes DEF PInv
  <2> QED
    BY <1>3, <2>1, <2>2
<1>5. \A m \in Msgs : Fresh(m) => m \notin GroupOf(t, I)
  BY <1>3 DEF PInv, Pending
<1>6. /\ Range(buf) \cap GroupOf(t, I) = {}
      /\ \A u \in Threads : u # t => Range(Batch(u)) \cap GroupOf(t, I) = {}
  BY <1>3 DEF PInv, OneOwner, Batch
<1>7. ASSUME NEW i \in DOMAIN Batch(t), i \notin I PROVE Batch(t)[i] \notin GroupOf(t, I)
  BY <1>1, <1>2, <1>7 DEF GroupOf, Distinct
<1>8. \A i \in Lost(t) : i \in DOMAIN Batch(t) /\ i \notin I
  BY <1>1 DEF Grouped
<1>9. \A J \in work[t].todo \ {I} : \A i \in J : i \in DOMAIN Batch(t) /\ i \notin I
  BY <1>1 DEF Grouped
<1> QED
  BY <1>4, <1>5, <1>6, <1>7, <1>8, <1>9

(* A group is done; it joins the failed ones only if its records do not     *)
(* count.                                                                   *)
LEMMA KeepGroupDone ==
    ASSUME PInv, NEW t \in Threads, call[t].at = "serving", NEW I \in work[t].todo,
           NEW f \in SUBSET Nat,
           work'[t].todo = work[t].todo \ {I}, work'[t].throttled = work[t].throttled,
           work'[t].failed = f, work' \in [Threads -> WorkRecs],
           \A u \in Threads : u # t => work'[u] = work[u],
           copies' \in [Msgs -> Nat], kept' \in [Msgs -> Nat],
           \A m \in Msgs : m \notin GroupOf(t, I) => copies'[m] = copies[m] /\ kept'[m] = kept[m],
           \A m \in GroupOf(t, I) : copies'[m] <= 1 + kept'[m],
           f \in {work[t].failed, work[t].failed \cup I},
           f # work[t].failed => \A m \in GroupOf(t, I) : copies'[m] <= kept'[m],
           UNCHANGED <<maxMemory, buf, bufBytes, closed, call>>
    PROVE  PInv'
<1> DEFINE G == GroupOf(t, I)
<1>0. /\ \A m \in G : m \in Msgs /\ Clean(m)
      /\ \A m \in Msgs : Fresh(m) => m \notin G
      /\ Range(buf) \cap G = {}
      /\ \A u \in Threads : u # t => Range(Batch(u)) \cap G = {}
      /\ \A i \in Lost(t) : Batch(t)[i] \notin G
      /\ \A J \in work[t].todo \ {I} : \A i \in J : Batch(t)[i] \notin G
  BY GroupIsOwn
<1>1. \A m \in Msgs : m \notin G => (Clean(m)' <=> Clean(m))
  BY DEF Clean
<1> HIDE DEF G
<1>2. /\ \A u \in Threads : Batch(u)' = Batch(u) /\ (Sending(u)' <=> Sending(u))
      /\ \A m : Fresh(m)' <=> Fresh(m)
      /\ \A u \in Threads : Range(Batch(u)) \subseteq Msgs
      /\ Range(buf) \subseteq Msgs
  BY CallTypes, Ranges DEF Batch, Sending, Fresh, PInv, TypeInv
<1>3. TypeInv' /\ Batches'
  BY <1>2 DEF PInv, TypeInv, Batches
<1>4. Pending'
  <2>1. \A m \in Msgs : Fresh(m) => /\ Clean(m)' /\ m \notin Range(buf)
                                    /\ \A u \in Threads : m \notin Range(Batch(u))
    BY <1>0, <1>1 DEF PInv, Pending
  <2>2. \A m \in Range(buf) : Clean(m)'
    BY <1>0, <1>1, <1>2 DEF PInv, Pending
  <2>3. ASSUME NEW u \in Threads, call[u].at = "sending", NEW m \in Range(Batch(u))
        PROVE  Clean(m)'
    <3>1. u # t
      BY <2>3
    <3>2. m \in Msgs /\ m \notin G /\ Clean(m)
      BY <1>0, <1>2, <2>3, <3>1 DEF PInv, Pending
    <3> QED
      BY <1>1, <3>2
  <2> QED
    BY <1>2, <2>1, <2>2, <2>3 DEF Pending
<1>5. Served'
  <2>1. ASSUME NEW u \in Threads, NEW i \in DOMAIN Batch(u) PROVE Batch(u)[i] \in Range(Batch(u))
    BY DEF Range
  <2>2. ASSUME NEW u \in Threads, u # t, call[u].at = "serving" PROVE Grouped(u)'
    <3>1. Grouped(u)
      BY <2>2 DEF PInv, Served
    <3>2. \A i \in DOMAIN Batch(u) : Batch(u)[i] \in Msgs /\ Batch(u)[i] \notin G
      BY <1>0, <1>2, <2>1, <2>2
    <3>3. work'[u] = work[u] /\ Batch(u)' = Batch(u)
      BY <1>2, <2>2
    <3>4. \A i \in DOMAIN Batch(u) : Clean(Batch(u)[i]) => Clean(Batch(u)[i])'
      BY <1>1, <1>2, <3>2
    <3> QED
      BY <3>1, <3>3, <3>4, CleanGroups
  <2>3. Grouped(t)'
    <3>1. Grouped(t)
      BY DEF PInv, Served
    <3>2. Batch(t)' = Batch(t)
      BY <1>2
    <3>3. work'[t].todo = work[t].todo \ {I} /\ Lost(t)' = work[t].throttled \cup f
      BY DEF Lost
    <3>4. \A i \in DOMAIN Batch(t) :
            Batch(t)[i] \notin G => (Clean(Batch(t)[i])' <=> Clean(Batch(t)[i]))
      BY <1>1, <1>2, <2>1
    <3>5. \A J \in work[t].todo \ {I} : \A i \in J : Clean(Batch(t)[i])'
      BY <1>0, <3>1, <3>4 DEF Grouped
    <3>6. \A i \in Lost(t) : Clean(Batch(t)[i])'
      BY <1>0, <3>1, <3>4 DEF Grouped
    <3>7. CASE f = work[t].failed
      <4>1. Lost(t)' = Lost(t)
        BY <3>3, <3>7 DEF Lost
      <4> QED
        BY <3>1, <3>2, <3>3, <3>5, <3>6, <4>1, GroupTaken
    <3>8. CASE f # work[t].failed /\ f = work[t].failed \cup I
      <4>1. Lost(t)' = Lost(t) \cup I
        BY <3>3, <3>8 DEF Lost
      <4>2. \A i \in I : Clean(Batch(t)[i])'
        BY <1>2, <3>8 DEF GroupOf, Clean
      <4> QED
        BY <3>1, <3>2, <3>3, <3>5, <3>6, <4>1, <4>2, GroupTaken
    <3> QED
      BY <3>7, <3>8
  <2> QED
    BY <2>2, <2>3 DEF Served
<1>6. NoDuplicates'
  BY <1>0 DEF PInv, NoDuplicates, G
<1>7. OneOwner' /\ BatchesBounded' /\ BufferRoom'
  BY DEF PInv, OneOwner, BatchesBounded, BufferRoom
<1> QED
  BY <1>3, <1>4, <1>5, <1>6, <1>7 DEF PInv

(* What appending a group adds to a count.                                  *)
LEMMA CountedIs ==
    ASSUME NEW t \in Threads, NEW I, NEW c \in [Msgs -> Nat]
    PROVE  /\ Counted(c, t, I) \in [Msgs -> Nat]
           /\ \A m \in Msgs : Counted(c, t, I)[m] =
                IF m \in GroupOf(t, I) THEN c[m] + 1 ELSE c[m]
BY DEF Counted, GroupOf, Batch

LEMMA KeepAppendGroup ==
    ASSUME PInv, NEW t \in Threads, NEW I \in work[t].todo, AppendGroup(t, I)
    PROVE  PInv'
<1>1. /\ call[t].at = "serving" /\ copies' = Counted(copies, t, I)
      /\ work' = [work EXCEPT ![t].todo = @ \ {I}]
      /\ UNCHANGED <<maxMemory, buf, bufBytes, closed, call, kept>>
  BY DEF AppendGroup
<1>2. work[t] \in WorkRecs /\ work \in [Threads -> WorkRecs] /\ work[t].failed \in SUBSET Nat
  BY DEF PInv, TypeInv, WorkRecs
<1>3. /\ work'[t].todo = work[t].todo \ {I} /\ work'[t].throttled = work[t].throttled
      /\ work'[t].failed = work[t].failed
      /\ work' \in [Threads -> WorkRecs] /\ \A u \in Threads : u # t => work'[u] = work[u]
  BY <1>1, <1>2 DEF WorkRecs
<1>4. /\ copies \in [Msgs -> Nat] /\ kept \in [Msgs -> Nat] /\ copies' \in [Msgs -> Nat]
      /\ \A m \in Msgs : copies'[m] = IF m \in GroupOf(t, I) THEN copies[m] + 1 ELSE copies[m]
  BY <1>1, CountedIs DEF PInv, TypeInv
<1>5. \A m \in GroupOf(t, I) : copies'[m] <= 1 + kept'[m]
  BY <1>1, <1>4, GroupIsOwn DEF Clean
<1>6. kept' \in [Msgs -> Nat]
      /\ \A m \in Msgs : m \notin GroupOf(t, I) => copies'[m] = copies[m] /\ kept'[m] = kept[m]
  BY <1>1, <1>4
<1>7. copies' \in [Msgs -> Nat] /\ call[t].at = "serving"
      /\ UNCHANGED <<maxMemory, buf, bufBytes, closed, call>>
  BY <1>1, <1>4
<1> QED
  BY <1>2, <1>3, <1>5, <1>6, <1>7, KeepGroupDone

LEMMA KeepAppendGroupFails ==
    ASSUME PInv, NEW t \in Threads, NEW I \in work[t].todo, AppendGroupFails(t, I)
    PROVE  PInv'
<1>1. /\ call[t].at = "serving"
      /\ work' = [work EXCEPT ![t].todo = @ \ {I}, ![t].failed = @ \cup I]
      /\ UNCHANGED <<maxMemory, buf, bufBytes, closed, call>>
      /\ \/ UNCHANGED <<copies, kept>>
         \/ copies' = Counted(copies, t, I) /\ kept' = Counted(kept, t, I)
  BY DEF AppendGroupFails
<1>2. work[t] \in WorkRecs /\ work \in [Threads -> WorkRecs] /\ work[t].failed \cup I \in SUBSET Nat
  BY DEF PInv, TypeInv, WorkRecs
<1>3. /\ work'[t].todo = work[t].todo \ {I} /\ work'[t].throttled = work[t].throttled
      /\ work'[t].failed = work[t].failed \cup I
      /\ work' \in [Threads -> WorkRecs] /\ \A u \in Threads : u # t => work'[u] = work[u]
  BY <1>1, <1>2 DEF WorkRecs
<1>4. copies \in [Msgs -> Nat] /\ kept \in [Msgs -> Nat]
  BY DEF PInv, TypeInv
<1>5. /\ copies' \in [Msgs -> Nat] /\ kept' \in [Msgs -> Nat]
      /\ \A m \in Msgs : m \notin GroupOf(t, I) => copies'[m] = copies[m] /\ kept'[m] = kept[m]
      /\ \A m \in Msgs : copies[m] <= kept[m] => copies'[m] <= kept'[m]
  BY <1>1, <1>4, CountedIs
<1>6. \A m \in GroupOf(t, I) : copies'[m] <= kept'[m] /\ copies'[m] <= 1 + kept'[m]
  BY <1>1, <1>5, GroupIsOwn DEF Clean
<1> QED
  BY <1>1, <1>2, <1>3, <1>5, <1>6, KeepGroupDone

-----------------------------------------------------------------------------
LEMMA InitOK == Init => PInv
<1> SUFFICES ASSUME Init PROVE PInv
  OBVIOUS
<1>1. /\ maxMemory \in Nat /\ buf = <<>> /\ bufBytes = 0 /\ closed = FALSE
      /\ call = [t \in Threads |-> Idle] /\ work = [t \in Threads |-> NoWork]
      /\ copies = [m \in Msgs |-> 0] /\ kept = [m \in Msgs |-> 0]
  BY SizeAssumption DEF Init
<1>2. \A t \in Threads : /\ call[t].at = "idle" /\ Batch(t) = <<>> /\ ~call[t].again
                         /\ ~Sending(t)
  BY <1>1 DEF Idle, Batch, Sending
<1>3. TypeInv
  <2>1. PICK no \in BOOLEAN : no = FALSE
    OBVIOUS
  <2>2. PICK none \in Seq(Msgs) : none = <<>>
    BY Ranges
  <2>3. [at |-> "idle", batch |-> none, attempt |-> 0, again |-> no] \in CallRecs
    BY DEF CallRecs
  <2>4. Idle \in CallRecs
    BY <2>1, <2>2, <2>3 DEF Idle
  <2> QED
    BY <1>1, <2>2, <2>4, NoWorkType DEF TypeInv
<1>4. Batches /\ Pending /\ Served
  BY <1>1, <1>2, Ranges DEF Batches, Pending, Served, Clean
<1>5. BufferRoom /\ BatchesBounded
  <2>1. Len(<<>>) = 0 /\ Bytes(<<>>) = 0 /\ BatchSize \in Nat \ {0}
    BY BytesOf, SizeAssumption
  <2>2. BufferRoom
    BY <1>1, <2>1 DEF BufferRoom
  <2>3. ASSUME NEW t \in Threads
        PROVE  /\ Len(Batch(t)) <= BatchSize
               /\ maxMemory > 0 => Bytes(Batch(t)) <= maxMemory
    BY <1>1, <1>2, <2>1
  <2>4. closed => buf = <<>>
    BY <1>1
  <2> QED
    BY <2>2, <2>3, <2>4 DEF BatchesBounded, Batch
<1>6. OneOwner /\ NoDuplicates
  <2>1. \A t \in Threads : Range(Batch(t)) = {}
    BY <1>2, Ranges
  <2> QED
    BY <1>1, <2>1, Ranges DEF OneOwner, NoDuplicates, Batch
<1> QED
  BY <1>3, <1>4, <1>5, <1>6 DEF PInv

LEMMA StepOK ==
    ASSUME PInv, [Next]_vars
    PROVE  PInv'
<1>1. CASE UNCHANGED vars
  <2>1. UNCHANGED <<maxMemory, buf, bufBytes, closed, call, work, copies, kept>>
    BY <1>1 DEF vars, serverVars
  <2>2. TypeInv' /\ Batches' /\ BufferRoom'
    BY <2>1 DEF PInv, TypeInv, Batches, BufferRoom, Batch, Sending
  <2>3. Pending'
    BY <2>1 DEF PInv, Pending, Batch, Fresh, Clean
  <2>4. Served'
    BY <2>1 DEF PInv, Served, Grouped, Lost, Clean, Batch
  <2>5. OneOwner' /\ NoDuplicates' /\ BatchesBounded'
    BY <2>1 DEF PInv, OneOwner, NoDuplicates, BatchesBounded
  <2> QED
    BY <2>2, <2>3, <2>4, <2>5 DEF PInv
<1>2. ASSUME NEW m \in Msgs, Send(m) PROVE PInv'
  BY <1>2, KeepSendEnds, KeepSendNoRoom, KeepSendFull, KeepSendKeeps DEF Send
<1>3. ASSUME NEW t \in Timers, TimerFires(t) \/ Cancelled(t) PROVE PInv'
  BY <1>3, KeepTimerFires, KeepCancelled
<1>4. CASE CloseProducer
  BY <1>4, KeepCloseProducer
<1>5. ASSUME NEW t \in Threads, Progress(t) PROVE PInv'
  BY <1>2, <1>5, KeepFlushBuffer, KeepOverloaded, KeepServe, KeepRespond, KeepAppendGroup
  DEF Progress
<1>6. ASSUME NEW t \in Threads, AnswerLost(t) PROVE PInv'
  BY <1>6, KeepAnswerLost
<1>7. ASSUME NEW t \in Threads, NEW I \in work[t].todo, AppendGroupFails(t, I) PROVE PInv'
  BY <1>7, KeepAppendGroupFails
<1> QED
  BY <1>1, <1>2, <1>3, <1>4, <1>5, <1>6, <1>7 DEF Next

(* Retries do not duplicate, for any number of calls, timers, partitions    *)
(* and failures: a message is in the logs at most once more than appends of *)
(* it were reported as failed (Client.ProduceBatch, produceBatch).          *)
THEOREM RetriesDoNotDuplicate == Spec => []NoDuplicates
<1>1. PInv => NoDuplicates
  BY DEF PInv
<1> QED
  BY <1>1, InitOK, StepOK, PTL DEF Spec

(* A message is in the buffer or in one batch on its way, never in two      *)
(* hands, for any number of calls (BufferedProducer).                       *)
THEOREM MessagesHaveOneOwner == Spec => []OneOwner
<1>1. PInv => OneOwner
  BY DEF PInv
<1> QED
  BY <1>1, InitOK, StepOK, PTL DEF Spec

(* No batch exceeds batchSize or maxMemoryBytes, for any sizes and limits:  *)
(* the counter bufBytes is the sum of what is buffered (Send, Flush, Close).*)
THEOREM BatchesStayBounded == Spec => []BatchesBounded
<1>1. PInv => BatchesBounded
  BY DEF PInv
<1> QED
  BY <1>1, InitOK, StepOK, PTL DEF Spec

=============================================================================
