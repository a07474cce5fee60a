-------------------------- MODULE PublishingProofs --------------------------
(* Proofs about Publishing, for every finite set of calls, whatever each    *)
(* may be, every set of topic sizes and every batch length.                 *)
EXTENDS Publishing, TLAPS, FiniteSetTheorems

-----------------------------------------------------------------------------
(* Counting what the calls owe                                              *)

Pairs(owed) == UNION {{c} \X (1 .. owed[c]) : c \in PublishCalls}

LEMMA PairsIs ==
    ASSUME NEW owed \in [PublishCalls -> Nat]
    PROVE  /\ \A x : x \in Pairs(owed) <=>
                \E c \in PublishCalls : \E i \in 1 .. owed[c] : x = <<c, i>>
           /\ IsFiniteSet(Pairs(owed)) /\ Cardinality(Pairs(owed)) \in Nat
<1> DEFINE one == [c \in PublishCalls |-> {c} \X (1 .. owed[c])]
           all == {{c} \X (1 .. owed[c]) : c \in PublishCalls}
<1>1. one \in Surjection(PublishCalls, all)
  BY DEF Surjection
<1>2. IsFiniteSet(all)
  BY <1>1, FS_Surjection, PublishAssumption
<1>3. ASSUME NEW c \in PublishCalls PROVE IsFiniteSet({c} \X (1 .. owed[c]))
  <2>1. owed[c] \in Int /\ 1 \in Int
    OBVIOUS
  <2>2. IsFiniteSet(1 .. owed[c])
    BY <2>1, FS_Interval
  <2>3. IsFiniteSet({c})
    BY FS_Singleton
  <2> QED
    BY <2>2, <2>3, FS_Product
<1>4. IsFiniteSet(UNION all)
  <2>1. \A T \in all : IsFiniteSet(T)
    BY <1>3
  <2> HIDE DEF all
  <2> QED
    BY <1>2, <2>1, FS_UNION
<1>5. IsFiniteSet(Pairs(owed)) /\ Cardinality(Pairs(owed)) \in Nat
  BY <1>4, FS_CardinalityType DEF Pairs
<1> QED
  BY <1>5 DEF Pairs

(* One call owes k more.                                                    *)
LEMMA OwesMore ==
    ASSUME NEW f \in [PublishCalls -> Nat], NEW g \in [PublishCalls -> Nat],
           NEW c \in PublishCalls, g[c] >= f[c],
           \A d \in PublishCalls : d # c => g[d] = f[d]
    PROVE  Cardinality(Pairs(g)) = Cardinality(Pairs(f)) + (g[c] - f[c])
<1> DEFINE more == {c} \X (f[c] + 1 .. g[c])
<1>1. IsFiniteSet(more) /\ Cardinality(more) = g[c] - f[c]
  <2>1. IsFiniteSet(f[c] + 1 .. g[c]) /\ Cardinality(f[c] + 1 .. g[c]) = g[c] - f[c]
    <3>1. f[c] + 1 \in Int /\ g[c] \in Int /\ f[c] \in Int
      OBVIOUS
    <3>2. /\ IsFiniteSet(f[c] + 1 .. g[c])
          /\ Cardinality(f[c] + 1 .. g[c]) = IF f[c] + 1 > g[c] THEN 0 ELSE g[c] - (f[c] + 1) + 1
      BY <3>1, FS_Interval
    <3> QED
      BY <3>1, <3>2
  <2>2. IsFiniteSet({c}) /\ Cardinality({c}) = 1
    BY FS_Singleton
  <2>3. PICK S : S = f[c] + 1 .. g[c]
    OBVIOUS
  <2>4. IsFiniteSet({c} \X S) /\ Cardinality({c} \X S) = Cardinality({c}) * Cardinality(S)
    BY <2>1, <2>2, <2>3, FS_Product
  <2>5. Cardinality({c}) * Cardinality(S) = g[c] - f[c]
    BY <2>1, <2>2, <2>3
  <2> QED
    BY <2>3, <2>4, <2>5
<1>2. Pairs(g) = Pairs(f) \cup more
  BY PairsIs
<1>3. Pairs(f) \cap more = {}
  BY PairsIs
<1>4. Cardinality(Pairs(f) \cap more) = 0
  BY <1>3, FS_EmptySet
<1> HIDE DEF more
<1>5. /\ IsFiniteSet(Pairs(f)) /\ Cardinality(Pairs(f)) \in Nat
  BY PairsIs
<1>6. Cardinality(Pairs(f) \cup more)
        = Cardinality(Pairs(f)) + Cardinality(more) - Cardinality(Pairs(f) \cap more)
  BY <1>1, <1>5, FS_Union
<1> QED
  BY <1>1, <1>2, <1>4, <1>5, <1>6

LEMMA OwesOther ==
    ASSUME NEW f \in [PublishCalls -> Nat], NEW g \in [PublishCalls -> Nat],
           NEW c \in PublishCalls, \A d \in PublishCalls : d # c => g[d] = f[d]
    PROVE  Cardinality(Pairs(g)) = Cardinality(Pairs(f)) + (g[c] - f[c])
<1>1. Cardinality(Pairs(f)) \in Nat /\ Cardinality(Pairs(g)) \in Nat
  BY PairsIs
<1>2. CASE g[c] >= f[c]
  BY <1>2, OwesMore
<1>3. CASE f[c] >= g[c]
  <2>1. Cardinality(Pairs(f)) = Cardinality(Pairs(g)) + (f[c] - g[c])
    BY <1>3, OwesMore
  <2> QED
    BY <1>1, <2>1
<1> QED
  BY <1>2, <1>3

-----------------------------------------------------------------------------
(* The inductive invariant of publishing                                    *)

Runtimes == {rt \in [Fields -> Balancers \cup {"initial"}] : rt["balancer"] \in Balancers}
Arrays == UNION {[0 .. n - 1 -> Int] : n \in Sizes}
Busy == {"ensure", "grow", "select", "check", "append"}

SetRecs == [pc : {"set"}, field : Fields, old : Runtimes]
InstalledRecs == [pc : {"installed"}, field : Fields]
PublishRecs == [pc : Busy \cup {"done"}, rt : Runtimes, batch : BOOLEAN, n : Sizes, todo : Int,
                array : Nat, part : Partitions, groups : [Partitions -> Nat], several : BOOLEAN]

CallRecords == {NotCalled} \cup SetRecs \cup InstalledRecs \cup PublishRecs

PTypes ==
    /\ runtime \in Runtimes /\ stopped \in [Balancers -> Int]
    /\ arrays \in [Balancers -> Seq(Arrays)]
    /\ leaked \in [Balancers -> [Partitions -> Int]]
    /\ publishes \in [PublishCalls -> CallRecords]

(* The array a call selects in was long enough when it was handed out, and  *)
(* an array keeps its length.                                               *)
Handed(c) ==
    LET call == publishes[c] IN
    call.pc \in {"select", "check"} =>
        /\ call.array \in 1 .. Len(arrays[call.rt["balancer"]])
        /\ \A p \in 0 .. call.n - 1 : p \in DOMAIN arrays[call.rt["balancer"]][call.array]
        /\ call.pc = "check" => call.part \in 0 .. call.n - 1

(* What a call owes was counted in some array; in the only one, if there    *)
(* has been only one.                                                       *)
OwedIn(c) ==
    \A b \in Balancers, p \in Partitions : Owed(publishes[c], b, p) > 0 =>
        /\ Len(arrays[b]) > 0
        /\ Len(arrays[b]) = 1 => p \in DOMAIN arrays[b][1]

NothingLeaked ==
    \A b \in Balancers : Len(arrays[b]) = 0 => \A p \in Partitions : leaked[b][p] = 0

PubInv == /\ PTypes /\ NothingLeaked /\ \A c \in PublishCalls : Handed(c) /\ OwedIn(c)
          /\ runtime["balancer"] \in Installed /\ SettersKeepUpdates /\ InflightExact

LEMMA Records ==
    ASSUME NEW r \in CallRecords
    PROVE  /\ r.pc \in Busy \cup {"done"} => r \in PublishRecs
           /\ r.pc = "set" => r \in SetRecs
           /\ r.pc = "installed" => r \in InstalledRecs
<1>1. /\ NotCalled.pc = "idle" /\ \A x \in SetRecs : x.pc = "set"
      /\ \A x \in InstalledRecs : x.pc = "installed"
      /\ \A x \in PublishRecs : x.pc \in Busy \cup {"done"}
  BY DEF NotCalled, SetRecs, InstalledRecs, PublishRecs
<1> QED
  BY <1>1 DEF Busy, CallRecords

LEMMA OwedIs ==
    ASSUME NEW r \in CallRecords, NEW b \in Balancers, NEW p \in Partitions
    PROVE  Owed(r, b, p) \in Nat
<1>1. CASE r.pc \notin Busy
  BY <1>1 DEF Owed, Busy
<1>2. CASE r.pc \in Busy
  <2>1. r \in PublishRecs
    BY <1>2, Records
  <2>2. r.groups[p] \in Nat
    BY <2>1 DEF PublishRecs
  <2> QED
    BY <2>2 DEF Owed
<1> QED
  BY <1>1, <1>2

(* Only c moves.                                                            *)
LEMMA OutstandingMoves ==
    ASSUME PTypes, PTypes', NEW c \in PublishCalls,
           \A d \in PublishCalls : d # c => publishes'[d] = publishes[d],
           NEW b \in Balancers, NEW p \in Partitions
    PROVE  /\ Outstanding(b, p) \in Nat
           /\ Outstanding(b, p)' = Outstanding(b, p) +
                (Owed(publishes'[c], b, p) - Owed(publishes[c], b, p))
<1>1. PICK f : f = [d \in PublishCalls |-> Owed(publishes[d], b, p)]
  OBVIOUS
<1>2. PICK g : g = [d \in PublishCalls |-> Owed(publishes'[d], b, p)]
  OBVIOUS
<1>3. f \in [PublishCalls -> Nat] /\ g \in [PublishCalls -> Nat]
  BY <1>1, <1>2, OwedIs DEF PTypes
<1>4. Outstanding(b, p) = Cardinality(Pairs(f)) /\ Outstanding(b, p)' = Cardinality(Pairs(g))
  BY <1>1, <1>2 DEF Outstanding, Pairs
<1>5. \A d \in PublishCalls : d # c => g[d] = f[d]
  BY <1>1, <1>2
<1>6. Cardinality(Pairs(g)) = Cardinality(Pairs(f)) + (g[c] - f[c])
  BY <1>3, <1>5, OwesOther
<1> QED
  BY <1>1, <1>2, <1>3, <1>4, <1>6, PairsIs

LEMMA ArrayDomains ==
    ASSUME PTypes, NEW b \in Balancers, NEW k \in 1 .. Len(arrays[b])
    PROVE  /\ arrays[b][k] \in Arrays /\ DOMAIN arrays[b][k] \subseteq Partitions
           /\ \A p \in DOMAIN arrays[b][k] : arrays[b][k][p] \in Int
<1>1. arrays[b] \in Seq(Arrays)
  BY DEF PTypes
<1>2. arrays[b][k] \in Arrays
  BY <1>1
<1>3. PICK n \in Sizes : arrays[b][k] \in [0 .. n - 1 -> Int]
  BY <1>2 DEF Arrays
<1> QED
  BY <1>2, <1>3 DEF Partitions

SameShape ==
    \A b \in Balancers : /\ Len(arrays'[b]) = Len(arrays[b])
                         /\ \A k \in 1 .. Len(arrays[b]) : DOMAIN arrays'[b][k] = DOMAIN arrays[b][k]

(* A step that changes a count of the only array by what it owes more and   *)
(* what it leaks keeps the counts exact.                                    *)
LEMMA KeepCounts ==
    ASSUME PubInv, PTypes', NEW c \in PublishCalls, SameShape, Handed(c)',
           \A d \in PublishCalls : d # c => publishes'[d] = publishes[d],
           \A b \in Balancers, p \in Partitions : Len(arrays[b]) = 1 /\ p \in DOMAIN arrays[b][1] =>
             arrays'[b][1][p] = arrays[b][1][p] +
               (Owed(publishes'[c], b, p) - Owed(publishes[c], b, p)) + (leaked'[b][p] - leaked[b][p]),
           \A b \in Balancers, p \in Partitions :
             leaked'[b][p] # leaked[b][p] => Len(arrays[b]) > 0,
           \A b \in Balancers, p \in Partitions :
             Owed(publishes'[c], b, p) > 0 =>
               \/ Owed(publishes[c], b, p) > 0
               \/ Len(arrays[b]) > 0 /\ (Len(arrays[b]) = 1 => p \in DOMAIN arrays[b][1])
    PROVE  InflightExact' /\ NothingLeaked' /\ \A d \in PublishCalls : Handed(d)' /\ OwedIn(d)'
<1>1. PTypes
  BY DEF PubInv
<1>2. NothingLeaked'
  BY DEF PubInv, NothingLeaked, SameShape
<1>3. ASSUME NEW d \in PublishCalls PROVE Handed(d)'
  <2>1. CASE d # c
    <3> SUFFICES ASSUME publishes[d].pc \in {"select", "check"} PROVE Handed(d)'
      BY <2>1 DEF Handed
    <3>1. publishes[d] \in PublishRecs
      BY <1>1, Records DEF PTypes, Busy
    <3>2. publishes[d].rt["balancer"] \in Balancers /\ publishes'[d] = publishes[d]
      BY <2>1, <3>1 DEF PublishRecs, Runtimes
    <3>3. Handed(d)
      BY DEF PubInv
    <3> QED
      BY <3>2, <3>3 DEF SameShape, Handed
  <2> QED
    BY <2>1
<1>4. ASSUME NEW d \in PublishCalls PROVE OwedIn(d)'
  <2> SUFFICES ASSUME NEW b \in Balancers, NEW p \in Partitions, Owed(publishes'[d], b, p) > 0
               PROVE  /\ Len(arrays'[b]) > 0
                      /\ Len(arrays'[b]) = 1 => p \in DOMAIN arrays'[b][1]
    BY DEF OwedIn
  <2>1. Len(arrays[b]) > 0 /\ (Len(arrays[b]) = 1 => p \in DOMAIN arrays[b][1])
    <3>1. CASE d = c
      BY <3>1 DEF PubInv, OwedIn
    <3>2. CASE d # c
      BY <3>2 DEF PubInv, OwedIn
    <3> QED
      BY <3>1, <3>2
  <2> QED
    BY <2>1 DEF SameShape
<1>5. InflightExact'
  <2> SUFFICES ASSUME NEW b \in Balancers, Len(arrays'[b]) = 1, NEW p \in DOMAIN arrays'[b][1]
               PROVE  arrays'[b][1][p] = Outstanding(b, p)' + leaked'[b][p]
    BY DEF InflightExact
  <2>1. Len(arrays[b]) = 1 /\ p \in DOMAIN arrays[b][1]
    BY DEF SameShape
  <2>2. p \in Partitions /\ arrays[b][1][p] \in Int
    BY <1>1, <2>1, ArrayDomains
  <2>3. arrays[b][1][p] = Outstanding(b, p) + leaked[b][p]
    BY <2>1 DEF PubInv, InflightExact
  <2>4. /\ Outstanding(b, p) \in Nat
        /\ Outstanding(b, p)' = Outstanding(b, p) +
             (Owed(publishes'[c], b, p) - Owed(publishes[c], b, p))
    BY <1>1, <2>2, OutstandingMoves
  <2>5. Owed(publishes'[c], b, p) \in Nat /\ Owed(publishes[c], b, p) \in Nat
    BY <1>1, <2>2, OwedIs DEF PTypes
  <2>6. leaked[b][p] \in Int /\ leaked'[b][p] \in Int
    BY <1>1, <2>2 DEF PTypes
  <2>7. arrays'[b][1][p] = arrays[b][1][p] +
          (Owed(publishes'[c], b, p) - Owed(publishes[c], b, p)) + (leaked'[b][p] - leaked[b][p])
    BY <2>1, <2>2
  <2> QED
    BY <2>2, <2>3, <2>4, <2>5, <2>6, <2>7, SMTT(20)
<1> QED
  BY <1>2, <1>3, <1>4, <1>5

(* A step of a publish leaves the setters alone.                            *)
LEMMA KeepSetters ==
    ASSUME PubInv, NEW c \in PublishCalls, UNCHANGED <<runtime, stopped, latest>>,
           publishes[c].pc # "installed", publishes'[c].pc # "installed",
           \A d \in PublishCalls : d # c => publishes'[d] = publishes[d]
    PROVE  runtime'["balancer"] \in Installed' /\ SettersKeepUpdates'
<1>1. Installed' = Installed
  BY DEF Installed
<1> QED
  BY <1>1 DEF PubInv, SettersKeepUpdates

-----------------------------------------------------------------------------
(* SetBalancer, SetBackpressure, SetSchedulerFactory                        *)

(* The arrays stay as they are, and so does what c owes.                    *)
LEMMA KeepArrays ==
    ASSUME PubInv, PTypes', NEW c \in PublishCalls, UNCHANGED <<arrays, leaked>>, Handed(c)',
           \A d \in PublishCalls : d # c => publishes'[d] = publishes[d],
           \A b \in Balancers, p \in Partitions :
             Owed(publishes'[c], b, p) = Owed(publishes[c], b, p)
    PROVE  InflightExact' /\ NothingLeaked' /\ \A d \in PublishCalls : Handed(d)' /\ OwedIn(d)'
<1>1. SameShape
  BY DEF SameShape
<1>2. ASSUME NEW b \in Balancers, NEW p \in Partitions, Len(arrays[b]) = 1,
             p \in DOMAIN arrays[b][1]
      PROVE  arrays'[b][1][p] = arrays[b][1][p] +
               (Owed(publishes'[c], b, p) - Owed(publishes[c], b, p)) + (leaked'[b][p] - leaked[b][p])
  <2>1. PTypes
    BY DEF PubInv
  <2>2. arrays[b][1][p] \in Int
    BY <1>2, <2>1, ArrayDomains
  <2>3. Owed(publishes[c], b, p) \in Nat /\ leaked[b][p] \in Int
    BY <2>1, OwedIs DEF PTypes
  <2> QED
    BY <2>2, <2>3
<1> QED
  BY <1>1, <1>2, KeepCounts

LEMMA NotOwing ==
    ASSUME NEW r, r.pc \notin Busy, NEW b, NEW p
    PROVE  Owed(r, b, p) = 0
BY DEF Owed, Busy

LEMMA KeepSetBegins ==
    ASSUME PubInv, NEW c \in PublishCalls, NEW f \in Fields, SetBegins(c, f)
    PROVE  PubInv'
<1> DEFINE r == [pc |-> "set", field |-> f, old |-> runtime]
<1>1. /\ publishes[c].pc = "idle" /\ publishes' = [publishes EXCEPT ![c] = r]
      /\ UNCHANGED <<runtime, stopped, arrays, latest, leaked>>
  BY DEF SetBegins
<1>2. PTypes
  BY DEF PubInv
<1>3. r \in SetRecs /\ r.pc = "set"
  BY <1>2 DEF SetRecs, PTypes
<1>4. publishes'[c] = r /\ \A d \in PublishCalls : d # c => publishes'[d] = publishes[d]
  BY <1>1, <1>2 DEF PTypes
<1>5. PTypes'
  BY <1>1, <1>2, <1>3 DEF PTypes, CallRecords
<1> HIDE DEF r
<1>6. \A b \in Balancers, p \in Partitions :
        Owed(publishes'[c], b, p) = Owed(publishes[c], b, p)
  BY <1>1, <1>3, <1>4, NotOwing DEF Busy
<1>7. Handed(c)'
  BY <1>3, <1>4 DEF Handed
<1>8. /\ InflightExact' /\ NothingLeaked' /\ \A d \in PublishCalls : Handed(d)' /\ OwedIn(d)'
  BY <1>1, <1>4, <1>5, <1>6, <1>7, KeepArrays
<1>9. runtime'["balancer"] \in Installed' /\ SettersKeepUpdates'
  BY <1>1, <1>3, <1>4, KeepSetters
<1> QED
  BY <1>5, <1>8, <1>9 DEF PubInv

LEMMA KeepSetSwaps ==
    ASSUME PubInv, NEW c \in PublishCalls, SetSwaps(c)
    PROVE  PubInv'
<1> DEFINE old == publishes[c].old
           f == publishes[c].field
<1>1. publishes[c].pc = "set" /\ UNCHANGED <<arrays, leaked>>
  BY DEF SetSwaps
<1>2. PTypes
  BY DEF PubInv
<1>3. publishes[c] \in SetRecs /\ publishes \in [PublishCalls -> CallRecords]
  BY <1>1, <1>2, Records DEF PTypes
<1>4. old \in Runtimes /\ f \in Fields /\ c \in Balancers
  BY <1>3 DEF SetRecs, Balancers
<1>5. CASE runtime # old
  <2>1. publishes' = [publishes EXCEPT ![c].old = runtime] /\ UNCHANGED <<runtime, latest, stopped>>
    BY <1>5 DEF SetSwaps, Unchanged
  <2>2. publishes'[c] \in SetRecs /\ publishes'[c].pc = "set"
    BY <1>2, <1>3, <2>1 DEF SetRecs, PTypes
  <2>3. \A d \in PublishCalls : d # c => publishes'[d] = publishes[d]
    BY <1>3, <2>1
  <2>4. PTypes'
    BY <1>1, <1>2, <1>3, <2>1, <2>2, <2>3 DEF PTypes, CallRecords
  <2>5. \A b \in Balancers, p \in Partitions :
          Owed(publishes'[c], b, p) = Owed(publishes[c], b, p)
    BY <1>1, <2>2, NotOwing DEF Busy
  <2>6. Handed(c)'
    BY <2>2 DEF Handed
  <2>7. /\ InflightExact' /\ NothingLeaked' /\ \A d \in PublishCalls : Handed(d)' /\ OwedIn(d)'
    BY <1>1, <2>3, <2>4, <2>5, <2>6, KeepArrays
  <2>8. runtime'["balancer"] \in Installed' /\ SettersKeepUpdates'
    BY <1>1, <2>1, <2>2, <2>3, KeepSetters
  <2> QED
    BY <2>4, <2>7, <2>8 DEF PubInv
<1>6. CASE runtime = old
  <2> DEFINE r == [pc |-> "installed", field |-> f]
  <2>1. /\ runtime' = [old EXCEPT ![f] = c] /\ latest' = [latest EXCEPT ![f] = c]
        /\ stopped' = IF f # "balancer" THEN stopped
                      ELSE [stopped EXCEPT ![old.balancer] = @ + 1]
        /\ publishes' = [publishes EXCEPT ![c] = r]
    BY <1>6 DEF SetSwaps, Unchanged
  <2>2. r \in InstalledRecs /\ r.pc = "installed" /\ r.field = f
    BY <1>4 DEF InstalledRecs
  <2>3. publishes'[c] = r /\ \A d \in PublishCalls : d # c => publishes'[d] = publishes[d]
    BY <1>3, <2>1
  <2>4. /\ runtime' \in Runtimes
        /\ runtime'["balancer"] = IF f = "balancer" THEN c ELSE old["balancer"]
    BY <1>4, <2>1 DEF Runtimes, Fields
  <2>5. stopped' \in [Balancers -> Int]
    BY <1>2, <1>4, <2>1 DEF PTypes, Runtimes
  <2>6. PTypes'
    BY <1>1, <1>2, <1>3, <2>2, <2>1, <2>4, <2>5 DEF PTypes, CallRecords
  <2> HIDE DEF r
  <2>7. \A b \in Balancers, p \in Partitions :
          Owed(publishes'[c], b, p) = Owed(publishes[c], b, p)
    BY <1>1, <2>2, <2>3, NotOwing DEF Busy
  <2>8. Handed(c)'
    BY <2>2, <2>3 DEF Handed
  <2>9. /\ InflightExact' /\ NothingLeaked' /\ \A d \in PublishCalls : Handed(d)' /\ OwedIn(d)'
    BY <1>1, <2>3, <2>6, <2>7, <2>8, KeepArrays
  <2>10. Installed' = IF f = "balancer" THEN Installed \cup {c} ELSE Installed
    BY <1>1, <2>2, <2>3 DEF Installed
  <2>11. c \notin Installed
    BY <1>1, PublishAssumption DEF Installed
  <2>12. runtime'["balancer"] \in Installed'
    BY <1>6, <2>4, <2>10 DEF PubInv
  <2>13. runtime' = latest'
    BY <1>6, <2>1 DEF PubInv, SettersKeepUpdates
  <2>14. ASSUME NEW b \in Balancers
         PROVE  stopped'[b] = IF b \in Installed' \ {runtime'["balancer"]} THEN 1 ELSE 0
    <3>1. stopped[b] = IF b \in Installed \ {runtime["balancer"]} THEN 1 ELSE 0
      BY DEF PubInv, SettersKeepUpdates
    <3>2. CASE f # "balancer"
      BY <1>6, <2>1, <2>4, <2>10, <3>1, <3>2
    <3>3. CASE f = "balancer"
      <4>1. stopped'[b] = IF b = old["balancer"] THEN stopped[b] + 1 ELSE stopped[b]
        BY <1>2, <1>4, <2>1, <3>3 DEF PTypes, Runtimes
      <4>2. old["balancer"] \in Installed /\ old["balancer"] = runtime["balancer"]
        BY <1>6 DEF PubInv
      <4> QED
        BY <2>4, <2>10, <2>11, <3>1, <3>3, <4>1, <4>2
    <3> QED
      BY <3>2, <3>3
  <2> QED
    BY <2>6, <2>9, <2>12, <2>13, <2>14 DEF PubInv, SettersKeepUpdates
<1> QED
  BY <1>5, <1>6

-----------------------------------------------------------------------------
(* Publish and PublishBatch                                                 *)

LEMMA KeepPublishBegins ==
    ASSUME PubInv, NEW c \in PublishCalls, NEW batch \in BOOLEAN, NEW n \in Sizes,
           PublishBegins(c, batch, n)
    PROVE  PubInv'
<1> DEFINE todo == IF batch THEN BatchLen ELSE 1
           none == [p \in Partitions |-> 0]
           r == [pc |-> "ensure", rt |-> runtime, batch |-> batch, n |-> n, todo |-> todo,
                 array |-> 0, part |-> 0, groups |-> none, several |-> FALSE]
<1>1. 0 \in Partitions
  BY PublishAssumption DEF Partitions
<1>2. todo \in Int /\ none \in [Partitions -> Nat] /\ \A p \in Partitions : none[p] = 0
  BY PublishAssumption
<1>3. /\ publishes[c].pc = "idle" /\ publishes' = [publishes EXCEPT ![c] = r]
      /\ UNCHANGED <<runtime, stopped, arrays, latest, leaked>>
  BY DEF PublishBegins
<1>4. PTypes
  BY DEF PubInv
<1> HIDE DEF todo, none
<1>5. r \in PublishRecs /\ r.pc = "ensure" /\ r.groups = none
  BY <1>1, <1>2, <1>4 DEF PublishRecs, PTypes, Busy
<1>6. publishes'[c] = r /\ \A d \in PublishCalls : d # c => publishes'[d] = publishes[d]
  BY <1>3, <1>4 DEF PTypes
<1>7. PTypes'
  BY <1>3, <1>4, <1>5 DEF PTypes, CallRecords
<1> HIDE DEF r
<1>8. \A b \in Balancers, p \in Partitions :
        Owed(publishes'[c], b, p) = Owed(publishes[c], b, p)
  <2>1. \A b \in Balancers, p \in Partitions : Owed(publishes[c], b, p) = 0
    BY <1>3, NotOwing DEF Busy
  <2>2. \A b \in Balancers, p \in Partitions : Owed(publishes'[c], b, p) = 0
    BY <1>2, <1>5, <1>6 DEF Owed, Busy
  <2> QED
    BY <2>1, <2>2
<1>9. Handed(c)'
  BY <1>5, <1>6 DEF Handed
<1>10. /\ InflightExact' /\ NothingLeaked' /\ \A d \in PublishCalls : Handed(d)' /\ OwedIn(d)'
  BY <1>3, <1>6, <1>7, <1>8, <1>9, KeepArrays
<1>11. runtime'["balancer"] \in Installed' /\ SettersKeepUpdates'
  BY <1>3, <1>5, <1>6, KeepSetters
<1> QED
  BY <1>7, <1>10, <1>11 DEF PubInv

LEMMA KeepEnsureLoad ==
    ASSUME PubInv, NEW c \in PublishCalls, EnsureLoad(c)
    PROVE  PubInv'
<1>1. PTypes /\ publishes[c].pc = "ensure"
  BY DEF PubInv, EnsureLoad
<1>2. publishes[c] \in PublishRecs /\ publishes \in [PublishCalls -> CallRecords]
  BY <1>1, Records DEF PTypes, Busy
<1>3. PICK b \in Balancers : b = publishes[c].rt["balancer"]
  BY <1>2 DEF PublishRecs, Runtimes
<1>4. PICK k \in Nat : k = Len(arrays[b])
  BY <1>1 DEF PTypes
<1>5. PICK pc \in {"select", "grow"} :
        /\ publishes' = [publishes EXCEPT ![c].array = k, ![c].pc = pc]
        /\ pc = "select" => k > 0 /\ publishes[c].n <= Cardinality(DOMAIN arrays[b][k])
        /\ UNCHANGED <<runtime, stopped, arrays, latest, leaked>>
  BY <1>3, <1>4 DEF EnsureLoad
<1>6. /\ publishes'[c] \in PublishRecs /\ publishes'[c].pc = pc /\ publishes'[c].array = k
      /\ publishes'[c].rt = publishes[c].rt /\ publishes'[c].n = publishes[c].n
      /\ publishes'[c].groups = publishes[c].groups
  BY <1>2, <1>5 DEF PublishRecs, Busy
<1>7. \A d \in PublishCalls : d # c => publishes'[d] = publishes[d]
  BY <1>2, <1>5
<1>8. PTypes'
  BY <1>1, <1>2, <1>5, <1>6, <1>7 DEF PTypes, CallRecords
<1>9. \A b1 \in Balancers, p \in Partitions :
        Owed(publishes'[c], b1, p) = Owed(publishes[c], b1, p)
  BY <1>1, <1>6 DEF Owed
<1>10. Handed(c)'
  <2> SUFFICES ASSUME pc = "select" PROVE Handed(c)'
    BY <1>6 DEF Handed
  <2>1. k \in 1 .. Len(arrays[b])
    BY <1>4, <1>5
  <2>2. PICK m \in Sizes : arrays[b][k] \in [0 .. m - 1 -> Int]
    BY <1>1, <2>1, ArrayDomains DEF Arrays
  <2>3. Cardinality(0 .. m - 1) = m
    BY FS_Interval, PublishAssumption
  <2>4. publishes[c].n <= m /\ publishes[c].n \in Nat
    BY <1>2, <1>5, <2>2, <2>3, PublishAssumption DEF PublishRecs
  <2>5. \A p \in 0 .. publishes[c].n - 1 : p \in DOMAIN arrays[b][k]
    BY <2>2, <2>4, PublishAssumption
  <2> QED
    BY <1>3, <1>5, <1>6, <2>1, <2>5 DEF Handed
<1>11. /\ InflightExact' /\ NothingLeaked' /\ \A d \in PublishCalls : Handed(d)' /\ OwedIn(d)'
  BY <1>5, <1>7, <1>8, <1>9, <1>10, KeepArrays
<1>12. runtime'["balancer"] \in Installed' /\ SettersKeepUpdates'
  BY <1>1, <1>5, <1>6, <1>7, KeepSetters
<1> QED
  BY <1>8, <1>11, <1>12 DEF PubInv

LEMMA NothingOutstanding ==
    ASSUME NEW b \in Balancers, NEW p \in Partitions,
           \A d \in PublishCalls : Owed(publishes[d], b, p) = 0
    PROVE  Outstanding(b, p) = 0
<1>1. PICK f : f = [d \in PublishCalls |-> Owed(publishes[d], b, p)]
  OBVIOUS
<1>2. f \in [PublishCalls -> Nat] /\ \A d \in PublishCalls : f[d] = 0
  BY <1>1
<1>3. Pairs(f) = {}
  BY <1>2, PairsIs
<1>4. Outstanding(b, p) = Cardinality(Pairs(f))
  BY <1>1 DEF Outstanding, Pairs
<1> QED
  BY <1>3, <1>4, FS_EmptySet

(* A first array starts from zero, and nothing was owed or leaked before    *)
(* it; a later one ends the exactness of the counts.                        *)
LEMMA KeepEnsureSwap ==
    ASSUME PubInv, NEW c \in PublishCalls, EnsureSwap(c)
    PROVE  PubInv'
<1>1. PTypes /\ publishes[c].pc = "grow" /\ UNCHANGED <<runtime, stopped, latest, leaked>>
  BY DEF PubInv, EnsureSwap
<1>2. publishes[c] \in PublishRecs /\ publishes \in [PublishCalls -> CallRecords]
  BY <1>1, Records DEF PTypes, Busy
<1>3. PICK b \in Balancers, k \in Nat, n \in Sizes :
        b = publishes[c].rt["balancer"] /\ k = publishes[c].array /\ n = publishes[c].n
  BY <1>2 DEF PublishRecs, Runtimes
<1>4. CASE Len(arrays[b]) # k
  <2>1. publishes' = [publishes EXCEPT ![c].pc = "ensure"] /\ UNCHANGED arrays
    BY <1>3, <1>4 DEF EnsureSwap, Goto
  <2>2. /\ publishes'[c] \in PublishRecs /\ publishes'[c].pc = "ensure"
        /\ publishes'[c].rt = publishes[c].rt /\ publishes'[c].groups = publishes[c].groups
    BY <1>2, <2>1 DEF PublishRecs, Busy
  <2>3. \A d \in PublishCalls : d # c => publishes'[d] = publishes[d]
    BY <1>2, <2>1
  <2>4. PTypes'
    BY <1>1, <1>2, <2>1, <2>2, <2>3 DEF PTypes, CallRecords
  <2>5. \A b1 \in Balancers, p \in Partitions :
          Owed(publishes'[c], b1, p) = Owed(publishes[c], b1, p)
    BY <1>1, <2>2 DEF Owed
  <2>6. Handed(c)'
    BY <2>2 DEF Handed
  <2>7. /\ InflightExact' /\ NothingLeaked' /\ \A d \in PublishCalls : Handed(d)' /\ OwedIn(d)'
    BY <1>1, <2>1, <2>3, <2>4, <2>5, <2>6, KeepArrays
  <2>8. runtime'["balancer"] \in Installed' /\ SettersKeepUpdates'
    BY <1>1, <2>2, <2>3, KeepSetters
  <2> QED
    BY <2>4, <2>7, <2>8 DEF PubInv
<1>5. CASE Len(arrays[b]) = k
  <2>1. PICK zeros \in Arrays : zeros = [p \in 0 .. n - 1 |-> 0]
    <3>1. [p \in 0 .. n - 1 |-> 0] \in [0 .. n - 1 -> Int]
      OBVIOUS
    <3> QED
      BY <3>1 DEF Arrays
  <2>2. /\ publishes' = [publishes EXCEPT ![c].array = k + 1, ![c].pc = "select"]
        /\ arrays' = [arrays EXCEPT ![b] = Append(arrays[b], zeros)]
    BY <1>3, <1>5, <2>1 DEF EnsureSwap
  <2>3. /\ publishes'[c] \in PublishRecs /\ publishes'[c].pc = "select"
        /\ publishes'[c].array = k + 1 /\ publishes'[c].n = n
        /\ publishes'[c].rt = publishes[c].rt /\ publishes'[c].groups = publishes[c].groups
    <3>1. PICK m \in Nat : m = k + 1
      OBVIOUS
    <3>2. publishes' = [publishes EXCEPT ![c].array = m, ![c].pc = "select"]
      BY <2>2, <3>1
    <3>3. /\ publishes'[c] \in PublishRecs /\ publishes'[c].pc = "select"
          /\ publishes'[c].array = m /\ publishes'[c].n = publishes[c].n
          /\ publishes'[c].rt = publishes[c].rt /\ publishes'[c].groups = publishes[c].groups
      BY <1>2, <3>2 DEF PublishRecs, Busy
    <3> QED
      BY <1>3, <3>1, <3>3
  <2>4. \A d \in PublishCalls : d # c => publishes'[d] = publishes[d]
    BY <1>2, <2>2
  <2>5. arrays \in [Balancers -> Seq(Arrays)]
    BY <1>1 DEF PTypes
  <2>6. /\ arrays'[b] = Append(arrays[b], zeros)
        /\ \A b1 \in Balancers : b1 # b => arrays'[b1] = arrays[b1]
        /\ arrays' \in [Balancers -> Seq(Arrays)]
    BY <2>2, <2>5
  <2>7. /\ Len(arrays'[b]) = k + 1 /\ arrays'[b][k + 1] = zeros
        /\ \A j \in 1 .. k : arrays'[b][j] = arrays[b][j]
    BY <1>5, <2>5, <2>6
  <2>8. PTypes'
    BY <1>1, <1>2, <2>2, <2>3, <2>4, <2>6 DEF PTypes, CallRecords
  <2>9. \A d \in PublishCalls, b1 \in Balancers, p \in Partitions :
          Owed(publishes'[d], b1, p) = Owed(publishes[d], b1, p)
    BY <1>1, <2>3, <2>4 DEF Owed
  <2>10. ASSUME NEW d \in PublishCalls PROVE Handed(d)'
    <3>1. CASE d = c
      <4>1. k + 1 \in 1 .. Len(arrays'[b])
        BY <2>7
      <4>2. \A p \in 0 .. n - 1 : p \in DOMAIN arrays'[b][k + 1]
        BY <2>1, <2>7
      <4> QED
        BY <1>3, <2>3, <3>1, <4>1, <4>2 DEF Handed
    <3>2. CASE d # c
      <4> SUFFICES ASSUME publishes[d].pc \in {"select", "check"} PROVE Handed(d)'
        BY <2>4, <3>2 DEF Handed
      <4>1. publishes[d] \in PublishRecs
        BY <1>1, Records DEF PTypes, Busy
      <4>2. publishes[d].rt["balancer"] \in Balancers /\ publishes'[d] = publishes[d]
        BY <2>4, <3>2, <4>1 DEF PublishRecs, Runtimes
      <4>3. Handed(d)
        BY DEF PubInv
      <4>4. CASE publishes[d].rt["balancer"] # b
        BY <2>6, <4>2, <4>3, <4>4 DEF Handed
      <4>5. CASE publishes[d].rt["balancer"] = b
        <5>1. publishes[d].array \in 1 .. k
          BY <1>5, <4>3, <4>5 DEF Handed
        <5>2. publishes[d].array \in 1 .. k + 1
          BY <5>1
        <5> QED
          BY <1>5, <2>7, <4>2, <4>3, <4>5, <5>1, <5>2 DEF Handed
      <4> QED
        BY <4>4, <4>5
    <3> QED
      BY <3>1, <3>2
  <2>11. k = 0 => \A p \in Partitions :
                    leaked[b][p] = 0 /\ \A d \in PublishCalls : Owed(publishes[d], b, p) = 0
    <3> SUFFICES ASSUME k = 0, NEW p \in Partitions
                 PROVE  leaked[b][p] = 0 /\ \A d \in PublishCalls : Owed(publishes[d], b, p) = 0
      OBVIOUS
    <3>1. leaked[b][p] = 0
      BY <1>5 DEF PubInv, NothingLeaked
    <3>2. ASSUME NEW d \in PublishCalls PROVE Owed(publishes[d], b, p) = 0
      <4>1. Owed(publishes[d], b, p) \in Nat
        BY <1>2, OwedIs
      <4>2. ~ (Owed(publishes[d], b, p) > 0)
        BY <1>5 DEF PubInv, OwedIn
      <4> QED
        BY <4>1, <4>2
    <3> QED
      BY <3>1, <3>2
  <2>12. ASSUME NEW d \in PublishCalls PROVE OwedIn(d)'
    <3> SUFFICES ASSUME NEW b1 \in Balancers, NEW p \in Partitions,
                        Owed(publishes'[d], b1, p) > 0
                 PROVE  /\ Len(arrays'[b1]) > 0
                        /\ Len(arrays'[b1]) = 1 => p \in DOMAIN arrays'[b1][1]
      BY DEF OwedIn
    <3>1. Owed(publishes[d], b1, p) > 0
      BY <2>9
    <3>2. CASE b1 = b
      BY <2>7, <2>11, <3>1, <3>2
    <3>3. CASE b1 # b
      BY <2>6, <3>1, <3>3 DEF PubInv, OwedIn
    <3> QED
      BY <3>2, <3>3
  <2>13. NothingLeaked'
    BY <1>1, <2>6, <2>7 DEF PubInv, NothingLeaked
  <2>14. InflightExact'
    <3> SUFFICES ASSUME NEW b1 \in Balancers, Len(arrays'[b1]) = 1, NEW p \in DOMAIN arrays'[b1][1]
                 PROVE  arrays'[b1][1][p] = Outstanding(b1, p)' + leaked'[b1][p]
      BY DEF InflightExact
    <3>1. CASE b1 # b
      <4>1. arrays'[b1] = arrays[b1]
        BY <2>6, <3>1
      <4>2. p \in Partitions
        BY <1>1, <4>1, ArrayDomains
      <4>3. arrays[b1][1][p] = Outstanding(b1, p) + leaked[b1][p]
        BY <4>1 DEF PubInv, InflightExact
      <4>4. Outstanding(b1, p)' = Outstanding(b1, p)
        BY <2>9, <4>2 DEF Outstanding
      <4> QED
        BY <1>1, <4>1, <4>3, <4>4
    <3>2. CASE b1 = b
      <4>1. k = 0 /\ arrays'[b][1] = zeros
        BY <2>7, <3>2
      <4>2. p \in 0 .. n - 1 /\ zeros[p] = 0
        BY <2>1, <3>2, <4>1
      <4>3. p \in Partitions
        BY <4>2 DEF Partitions
      <4>4. Outstanding(b, p)' = Outstanding(b, p)
        BY <2>9, <4>3 DEF Outstanding
      <4>5. Outstanding(b, p) = 0 /\ leaked[b][p] = 0
        BY <2>11, <4>1, <4>3, NothingOutstanding
      <4> QED
        BY <1>1, <3>2, <4>1, <4>2, <4>4, <4>5
    <3> QED
      BY <3>1, <3>2
  <2>15. runtime'["balancer"] \in Installed' /\ SettersKeepUpdates'
    BY <1>1, <2>3, <2>4, KeepSetters
  <2> QED
    BY <2>8, <2>10, <2>12, <2>13, <2>14, <2>15 DEF PubInv
<1> QED
  BY <1>4, <1>5

(* One count of one array changes.                                          *)
SetsCount(b, k, p, v) == arrays' = [arrays EXCEPT ![b][k][p] = v]

OnlyCount(b, k, p, v) ==
    \A b1 \in Balancers : \A j \in 1 .. Len(arrays[b1]) : \A q \in DOMAIN arrays[b1][j] :
        arrays'[b1][j][q] = IF b1 = b /\ j = k /\ q = p THEN v ELSE arrays[b1][j][q]

LEMMA OneCount ==
    ASSUME PTypes, NEW b \in Balancers, NEW k \in 1 .. Len(arrays[b]),
           NEW p \in DOMAIN arrays[b][k], NEW v \in Int,
           SetsCount(b, k, p, v)
    PROVE  arrays' \in [Balancers -> Seq(Arrays)] /\ SameShape /\ OnlyCount(b, k, p, v)
<1>1. arrays \in [Balancers -> Seq(Arrays)] /\ arrays[b] \in Seq(Arrays)
  BY DEF PTypes
<1>2. PICK a : a = [arrays[b][k] EXCEPT ![p] = v]
  OBVIOUS
<1>3. PICK s : s = [arrays[b] EXCEPT ![k] = a]
  OBVIOUS
<1>4. arrays' = [arrays EXCEPT ![b] = s]
  BY <1>2, <1>3 DEF SetsCount
<1>5. PICK n \in Sizes : arrays[b][k] \in [0 .. n - 1 -> Int]
  BY ArrayDomains DEF Arrays
<1>6. a \in [0 .. n - 1 -> Int] /\ a[p] = v /\ \A q \in 0 .. n - 1 : q # p => a[q] = arrays[b][k][q]
  BY <1>2, <1>5
<1>7. a \in Arrays
  BY <1>6 DEF Arrays
<1>8. /\ s \in Seq(Arrays) /\ Len(s) = Len(arrays[b]) /\ s[k] = a
      /\ \A j \in 1 .. Len(arrays[b]) : j # k => s[j] = arrays[b][j]
  BY <1>1, <1>3, <1>7
<1>9. /\ arrays' \in [Balancers -> Seq(Arrays)] /\ arrays'[b] = s
      /\ \A b1 \in Balancers : b1 # b => arrays'[b1] = arrays[b1]
  BY <1>1, <1>4, <1>8
<1>10. ASSUME NEW b1 \in Balancers, NEW j \in 1 .. Len(arrays[b1])
       PROVE  /\ DOMAIN arrays'[b1][j] = DOMAIN arrays[b1][j]
              /\ \A q \in DOMAIN arrays[b1][j] :
                   arrays'[b1][j][q] = IF b1 = b /\ j = k /\ q = p THEN v ELSE arrays[b1][j][q]
  <2>1. CASE b1 = b /\ j = k
    BY <1>5, <1>6, <1>8, <1>9, <2>1
  <2>2. CASE ~ (b1 = b /\ j = k)
    BY <1>8, <1>9, <2>2
  <2> QED
    BY <2>1, <2>2
<1> QED
  BY <1>8, <1>9, <1>10 DEF SameShape, OnlyCount

LEMMA KeepP2CSelectPartition ==
    ASSUME PubInv, NEW c \in PublishCalls, NEW p \in Partitions, P2CSelectPartition(c, p)
    PROVE  PubInv'
<1>1. /\ PTypes /\ publishes[c].pc = "select" /\ UNCHANGED <<runtime, stopped, latest, leaked>>
      /\ p \in 0 .. publishes[c].n - 1
      /\ publishes' = [publishes EXCEPT ![c].part = p, ![c].pc = "check"]
  BY DEF PubInv, P2CSelectPartition, Candidates
<1>2. publishes[c] \in PublishRecs /\ publishes \in [PublishCalls -> CallRecords]
  BY <1>1, Records DEF PTypes, Busy
<1>3. PICK b \in Balancers, k \in Nat : b = publishes[c].rt["balancer"] /\ k = publishes[c].array
  BY <1>2 DEF PublishRecs, Runtimes
<1>4. /\ k \in 1 .. Len(arrays[b]) /\ \A q \in 0 .. publishes[c].n - 1 : q \in DOMAIN arrays[b][k]
      /\ p \in DOMAIN arrays[b][k] /\ leaked' = leaked
  BY <1>1, <1>3 DEF PubInv, Handed
<1>5. PICK v \in Int : v = arrays[b][k][p] + 1
  BY <1>1, <1>4, ArrayDomains
<1>6. SetsCount(b, k, p, v)
  BY <1>3, <1>5 DEF P2CSelectPartition, SetsCount
<1>7. arrays' \in [Balancers -> Seq(Arrays)] /\ SameShape /\ OnlyCount(b, k, p, v)
  <2>1. PTypes
    BY <1>1
  <2> QED
    BY <1>4, <1>6, <2>1, OneCount
<1>8. /\ publishes'[c] \in PublishRecs /\ publishes'[c].pc = "check" /\ publishes'[c].part = p
      /\ publishes'[c].rt = publishes[c].rt /\ publishes'[c].groups = publishes[c].groups
      /\ publishes'[c].array = publishes[c].array /\ publishes'[c].n = publishes[c].n
  BY <1>1, <1>2 DEF PublishRecs, Busy
<1>9. \A d \in PublishCalls : d # c => publishes'[d] = publishes[d]
  BY <1>1, <1>2
<1>10. PTypes'
  BY <1>1, <1>2, <1>7, <1>8, <1>9 DEF PTypes, CallRecords
<1>11. Handed(c)'
  <2>1. Len(arrays'[b]) = Len(arrays[b]) /\ DOMAIN arrays'[b][k] = DOMAIN arrays[b][k]
    BY <1>4, <1>7 DEF SameShape
  <2> QED
    BY <1>1, <1>3, <1>4, <1>8, <2>1 DEF Handed
<1>12. ASSUME NEW b1 \in Balancers, NEW q \in Partitions
       PROVE  /\ Owed(publishes[c], b1, q) \in Nat
              /\ Owed(publishes'[c], b1, q) =
                   Owed(publishes[c], b1, q) + IF b1 = b /\ q = p THEN 1 ELSE 0
  <2>1. publishes[c].groups[q] \in Nat
    BY <1>2 DEF PublishRecs
  <2> QED
    BY <1>1, <1>3, <1>8, <2>1 DEF Owed
<1>13. ASSUME NEW b1 \in Balancers, NEW q \in Partitions, Len(arrays[b1]) = 1,
              q \in DOMAIN arrays[b1][1]
       PROVE  arrays'[b1][1][q] = arrays[b1][1][q] +
                (Owed(publishes'[c], b1, q) - Owed(publishes[c], b1, q)) + (leaked'[b1][q] - leaked[b1][q])
  <2>1. arrays[b1][1][q] \in Int /\ leaked[b1][q] \in Int
    <3>1. PTypes /\ 1 \in 1 .. Len(arrays[b1])
      BY <1>1, <1>13
    <3> QED
      BY <1>13, <3>1, ArrayDomains DEF PTypes
  <2>2. b1 = b => k = 1
    BY <1>4, <1>13
  <2>3. arrays'[b1][1][q] = IF b1 = b /\ 1 = k /\ q = p THEN v ELSE arrays[b1][1][q]
    BY <1>7, <1>13 DEF OnlyCount
  <2>4. arrays'[b1][1][q] = arrays[b1][1][q] + IF b1 = b /\ q = p THEN 1 ELSE 0
    BY <1>5, <2>1, <2>2, <2>3
  <2> QED
    BY <1>4, <1>12, <2>1, <2>4
<1>14. ASSUME NEW b1 \in Balancers, NEW q \in Partitions, Owed(publishes'[c], b1, q) > 0
       PROVE  \/ Owed(publishes[c], b1, q) > 0
              \/ Len(arrays[b1]) > 0 /\ (Len(arrays[b1]) = 1 => q \in DOMAIN arrays[b1][1])
  BY <1>1, <1>4, <1>12, <1>14
<1>15. /\ InflightExact' /\ NothingLeaked' /\ \A d \in PublishCalls : Handed(d)' /\ OwedIn(d)'
  BY <1>4, <1>7, <1>9, <1>10, <1>11, <1>13, <1>14, KeepCounts
<1>16. runtime'["balancer"] \in Installed' /\ SettersKeepUpdates'
  BY <1>1, <1>8, <1>9, KeepSetters
<1> QED
  BY <1>10, <1>15, <1>16 DEF PubInv

(* A call that has placed its message owes what its groups hold.            *)
LEMMA OwesGroups ==
    ASSUME NEW r \in PublishRecs, r.pc \in {"ensure", "append", "done"},
           r.pc = "done" => \A p \in Partitions : r.groups[p] = 0,
           NEW b \in Balancers, NEW p \in Partitions
    PROVE  Owed(r, b, p) = IF r.rt["balancer"] = b THEN r.groups[p] ELSE 0
<1>1. r.groups[p] \in Nat
  BY DEF PublishRecs
<1>2. CASE r.pc = "done"
  BY <1>2 DEF Owed
<1>3. CASE r.pc # "done"
  BY <1>1, <1>3 DEF Owed
<1> QED
  BY <1>2, <1>3

LEMMA PlacedIs ==
    ASSUME NEW r \in PublishRecs, NEW g \in [Partitions -> Nat]
    PROVE  /\ Placed(r, g) \in PublishRecs /\ Placed(r, g).pc \in {"ensure", "append", "done"}
           /\ Placed(r, g).rt = r.rt /\ Placed(r, g).groups = g
           /\ \A b \in Balancers, p \in Partitions :
                Owed(Placed(r, g), b, p) = IF r.rt["balancer"] = b THEN g[p] ELSE 0
<1> DEFINE several == Cardinality({p \in Partitions : g[p] > 0}) > 1
<1>1. several \in BOOLEAN
  OBVIOUS
<1> DEFINE pc == IF r.todo > 1 THEN "ensure"
                 ELSE IF \A p \in Partitions : g[p] = 0 THEN "done" ELSE "append"
<1>2. pc \in {"ensure", "append", "done"} /\ (pc = "done" => \A p \in Partitions : g[p] = 0)
  OBVIOUS
<1>3. PICK todo \in Int : todo = r.todo - 1
  BY DEF PublishRecs
<1>4. Placed(r, g) = [r EXCEPT !.groups = g, !.todo = todo, !.several = several, !.pc = pc]
  BY <1>3 DEF Placed
<1> HIDE DEF pc, several
<1>5. /\ Placed(r, g) \in PublishRecs /\ Placed(r, g).pc = pc
      /\ Placed(r, g).rt = r.rt /\ Placed(r, g).groups = g
  BY <1>1, <1>2, <1>4 DEF PublishRecs, Busy
<1>6. ASSUME NEW b \in Balancers, NEW p \in Partitions
      PROVE  Owed(Placed(r, g), b, p) = IF r.rt["balancer"] = b THEN g[p] ELSE 0
  BY <1>2, <1>5, OwesGroups
<1> QED
  BY <1>2, <1>5, <1>6

LEMMA OwesChecked ==
    ASSUME NEW r \in PublishRecs, r.pc = "check", NEW b \in Balancers, NEW p \in Partitions
    PROVE  Owed(r, b, p) = IF r.rt["balancer"] = b
                           THEN r.groups[p] + IF r.part = p THEN 1 ELSE 0 ELSE 0
BY DEF Owed

LEMMA KeepAccepted ==
    ASSUME PubInv, NEW c \in PublishCalls, Accepted(c)
    PROVE  PubInv'
<1>1. PTypes /\ publishes[c].pc = "check" /\ UNCHANGED <<runtime, stopped, arrays, latest, leaked>>
  BY DEF PubInv, Accepted
<1>2. publishes[c] \in PublishRecs /\ publishes \in [PublishCalls -> CallRecords]
  BY <1>1, Records DEF PTypes, Busy
<1>3. PICK g : g = [publishes[c].groups EXCEPT ![publishes[c].part] = @ + 1]
  OBVIOUS
<1>4. /\ g \in [Partitions -> Nat]
      /\ \A p \in Partitions : g[p] = publishes[c].groups[p] + IF publishes[c].part = p THEN 1 ELSE 0
  <2>1. publishes[c].groups \in [Partitions -> Nat] /\ publishes[c].part \in Partitions
    BY <1>2 DEF PublishRecs
  <2> QED
    BY <1>3, <2>1
<1>5. publishes' = [publishes EXCEPT ![c] = Placed(publishes[c], g)]
  BY <1>3 DEF Accepted
<1>6. /\ publishes'[c] = Placed(publishes[c], g)
      /\ \A d \in PublishCalls : d # c => publishes'[d] = publishes[d]
  BY <1>2, <1>5
<1>7. publishes'[c] \in PublishRecs /\ publishes'[c].pc \in {"ensure", "append", "done"}
  BY <1>2, <1>4, <1>6, PlacedIs
<1>8. PTypes'
  BY <1>1, <1>2, <1>5, <1>6, <1>7 DEF PTypes, CallRecords
<1>9. ASSUME NEW b \in Balancers, NEW p \in Partitions
      PROVE  Owed(publishes'[c], b, p) = Owed(publishes[c], b, p)
  <2>1. Owed(publishes'[c], b, p) = IF publishes[c].rt["balancer"] = b THEN g[p] ELSE 0
    BY <1>2, <1>4, <1>6, PlacedIs
  <2> QED
    BY <1>1, <1>2, <1>4, <2>1, OwesChecked
<1>10. Handed(c)'
  BY <1>7 DEF Handed
<1>11. /\ InflightExact' /\ NothingLeaked' /\ \A d \in PublishCalls : Handed(d)' /\ OwedIn(d)'
  BY <1>1, <1>6, <1>8, <1>9, <1>10, KeepArrays
<1>12. runtime'["balancer"] \in Installed' /\ SettersKeepUpdates'
  BY <1>1, <1>6, <1>7, KeepSetters
<1> QED
  BY <1>8, <1>11, <1>12 DEF PubInv

(* k selections of p that c owes are completed, or dropped.                 *)
Released(c, b, p, k) ==
    \A b1 \in Balancers, q \in Partitions :
        Owed(publishes'[c], b1, q) = Owed(publishes[c], b1, q) - IF b1 = b /\ q = p THEN k ELSE 0

(* A step of c does so, and leaves its other selections alone.              *)
Releases(c, b, p, k) ==
    /\ k > 0 /\ b = publishes[c].rt["balancer"] /\ publishes[c].pc \in Busy
    /\ runtime' = runtime /\ stopped' = stopped /\ latest' = latest
    /\ publishes' = [publishes EXCEPT ![c] = publishes'[c]]
    /\ publishes'[c] \in PublishRecs /\ publishes'[c].pc \notin {"select", "check"}
    /\ Released(c, b, p, k)
    /\ \/ OnPublishComplete(c, p, k) /\ leaked' = leaked
       \/ Leak(c, p, k) /\ arrays' = arrays

LEMMA KeepReleased ==
    ASSUME PubInv, NEW c \in PublishCalls, NEW p \in Partitions, NEW k \in Nat,
           NEW b \in Balancers, Releases(c, b, p, k)
    PROVE  PubInv'
<1>1. /\ k > 0 /\ b = publishes[c].rt["balancer"] /\ publishes[c].pc \in Busy
       /\ publishes' = [publishes EXCEPT ![c] = publishes'[c]]
       /\ publishes'[c] \in PublishRecs /\ publishes'[c].pc \notin {"select", "check"}
  BY DEF Releases
<1>2. Released(c, b, p, k)
  BY DEF Releases
<1>3. runtime' = runtime /\ stopped' = stopped /\ latest' = latest
  BY DEF Releases
<1>4. PTypes /\ publishes \in [PublishCalls -> CallRecords]
  BY DEF PubInv, PTypes
<1>5. \A d \in PublishCalls : d # c => publishes'[d] = publishes[d]
  BY <1>4, <1>1
<1>6. \A b1 \in Balancers, q \in Partitions :
        Owed(publishes'[c], b1, q) \in Nat /\ Owed(publishes[c], b1, q) \in Nat
  BY <1>4, <1>1, OwedIs DEF CallRecords
<1>7. Owed(publishes'[c], b, p) = Owed(publishes[c], b, p) - k
  BY <1>2 DEF Released
<1>8. Owed(publishes[c], b, p) > 0
  BY <1>6, <1>7, <1>1
<1>9. Len(arrays[b]) > 0 /\ (Len(arrays[b]) = 1 => p \in DOMAIN arrays[b][1])
  BY <1>8 DEF PubInv, OwedIn
<1>10. Handed(c)'
  BY <1>1 DEF Handed
<1>11. ASSUME NEW b1 \in Balancers, NEW q \in Partitions, Owed(publishes'[c], b1, q) > 0
      PROVE  Owed(publishes[c], b1, q) > 0
  <2>1. Owed(publishes'[c], b1, q) = Owed(publishes[c], b1, q) - IF b1 = b /\ q = p THEN k ELSE 0
    BY <1>2 DEF Released
  <2> QED
    BY <1>6, <1>11, <2>1
<1>12. CASE Leak(c, p, k) /\ arrays' = arrays
  <2>1. leaked' = [leaked EXCEPT ![b][p] = leaked[b][p] + k]
    BY <1>12, <1>1 DEF Leak
  <2>2. leaked \in [Balancers -> [Partitions -> Int]]
    BY <1>4 DEF PTypes
  <2>3. /\ leaked' \in [Balancers -> [Partitions -> Int]]
        /\ \A b1 \in Balancers, q \in Partitions :
             leaked'[b1][q] = leaked[b1][q] + IF b1 = b /\ q = p THEN k ELSE 0
    BY <2>1, <2>2
  <2>4. PTypes'
    BY <1>4, <1>12, <1>1, <1>3, <2>3 DEF PTypes, CallRecords
  <2>5. SameShape
    BY <1>12 DEF SameShape
  <2>6. ASSUME NEW b1 \in Balancers, NEW q \in Partitions, Len(arrays[b1]) = 1,
               q \in DOMAIN arrays[b1][1]
        PROVE  arrays'[b1][1][q] = arrays[b1][1][q] +
                 (Owed(publishes'[c], b1, q) - Owed(publishes[c], b1, q)) + (leaked'[b1][q] - leaked[b1][q])
    <3>1. arrays[b1][1][q] \in Int /\ leaked[b1][q] \in Int
      BY <1>4, <2>2, <2>6, ArrayDomains
    <3>2. Owed(publishes'[c], b1, q) = Owed(publishes[c], b1, q) - IF b1 = b /\ q = p THEN k ELSE 0
      BY <1>2 DEF Released
    <3>3. leaked'[b1][q] = leaked[b1][q] + IF b1 = b /\ q = p THEN k ELSE 0
      BY <2>3
    <3>4. Owed(publishes[c], b1, q) \in Nat /\ arrays' = arrays
      BY <1>6, <1>12
    <3>5. CASE b1 = b /\ q = p
      BY <3>1, <3>2, <3>3, <3>4, <3>5, SMTT(20)
    <3>6. CASE ~ (b1 = b /\ q = p)
      BY <3>1, <3>2, <3>3, <3>4, <3>6, SMTT(20)
    <3> QED
      BY <3>5, <3>6
  <2>7. ASSUME NEW b1 \in Balancers, NEW q \in Partitions, leaked'[b1][q] # leaked[b1][q]
        PROVE  Len(arrays[b1]) > 0
    <3>1. leaked'[b1][q] = leaked[b1][q] + IF b1 = b /\ q = p THEN k ELSE 0
      BY <2>3
    <3>2. leaked[b1][q] \in Int
      BY <2>2
    <3>3. b1 = b
      BY <2>7, <3>1, <3>2
    <3> QED
      BY <1>9, <3>3
  <2>8. /\ InflightExact' /\ NothingLeaked' /\ \A d \in PublishCalls : Handed(d)' /\ OwedIn(d)'
    BY <1>5, <1>10, <1>11, <2>4, <2>5, <2>6, <2>7, KeepCounts
  <2>9. runtime'["balancer"] \in Installed' /\ SettersKeepUpdates'
    BY <1>5, <1>1, <1>3, KeepSetters DEF PublishRecs, Busy
  <2> QED
    BY <2>4, <2>8, <2>9 DEF PubInv
<1>13. CASE OnPublishComplete(c, p, k) /\ leaked' = leaked
  <2>1. PICK l \in 1 .. Len(arrays[b]) : l = Len(arrays[b])
    <3>1. Len(arrays[b]) \in Nat
      BY <1>4 DEF PTypes
    <3> QED
      BY <1>9, <3>1
  <2>2. /\ arrays' \in [Balancers -> Seq(Arrays)] /\ SameShape
        /\ \A b1 \in Balancers, q \in Partitions :
             Len(arrays[b1]) = 1 /\ q \in DOMAIN arrays[b1][1] =>
               arrays'[b1][1][q] = arrays[b1][1][q] - IF b1 = b /\ q = p THEN k ELSE 0
    <3>1. CASE p \in DOMAIN arrays[b][l]
      <4>1. PICK v \in Int : v = arrays[b][l][p] - k
        BY <1>4, <3>1, ArrayDomains
      <4>2. SetsCount(b, l, p, v)
        BY <1>9, <1>13, <1>1, <2>1, <3>1, <4>1 DEF OnPublishComplete, Tracker, SetsCount
      <4>3. arrays' \in [Balancers -> Seq(Arrays)] /\ SameShape /\ OnlyCount(b, l, p, v)
        BY <1>4, <3>1, <4>2, OneCount
      <4>4. ASSUME NEW b1 \in Balancers, NEW q \in Partitions, Len(arrays[b1]) = 1,
                   q \in DOMAIN arrays[b1][1]
            PROVE  arrays'[b1][1][q] = arrays[b1][1][q] - IF b1 = b /\ q = p THEN k ELSE 0
        <5>1. arrays[b1][1][q] \in Int
          BY <1>4, <4>4, ArrayDomains
        <5>2. arrays'[b1][1][q] = IF b1 = b /\ 1 = l /\ q = p THEN v ELSE arrays[b1][1][q]
          BY <4>3, <4>4 DEF OnlyCount
        <5>3. b1 = b => l = 1
          BY <2>1, <4>4
        <5> QED
          BY <4>1, <5>1, <5>2, <5>3
      <4> QED
        BY <4>3, <4>4
    <3>2. CASE p \notin DOMAIN arrays[b][l]
      <4>1. arrays' = arrays
        BY <1>13, <1>1, <2>1, <3>2 DEF OnPublishComplete, Tracker
      <4>2. Len(arrays[b]) # 1
        BY <1>9, <2>1, <3>2
      <4>3. \A b1 \in Balancers, q \in Partitions :
              Len(arrays[b1]) = 1 /\ q \in DOMAIN arrays[b1][1] => arrays[b1][1][q] \in Int
        BY <1>4, ArrayDomains
      <4>4. arrays' \in [Balancers -> Seq(Arrays)] /\ SameShape
        BY <1>4, <4>1 DEF PTypes, SameShape
      <4> QED
        BY <4>1, <4>2, <4>3, <4>4
    <3> QED
      BY <3>1, <3>2
  <2>3. PTypes'
    BY <1>4, <1>13, <1>1, <1>3, <2>2 DEF PTypes, CallRecords
  <2>4. ASSUME NEW b1 \in Balancers, NEW q \in Partitions, Len(arrays[b1]) = 1,
               q \in DOMAIN arrays[b1][1]
        PROVE  arrays'[b1][1][q] = arrays[b1][1][q] +
                 (Owed(publishes'[c], b1, q) - Owed(publishes[c], b1, q)) + (leaked'[b1][q] - leaked[b1][q])
    <3>1. arrays[b1][1][q] \in Int
      BY <1>4, <2>4, ArrayDomains
    <3>2. leaked[b1][q] \in Int
      BY <1>4 DEF PTypes
    <3>3. Owed(publishes'[c], b1, q) = Owed(publishes[c], b1, q) - IF b1 = b /\ q = p THEN k ELSE 0
      BY <1>2 DEF Released
    <3>4. arrays'[b1][1][q] = arrays[b1][1][q] - IF b1 = b /\ q = p THEN k ELSE 0
      BY <2>2, <2>4
    <3>5. Owed(publishes[c], b1, q) \in Nat /\ leaked' = leaked
      BY <1>6, <1>13
    <3>6. CASE b1 = b /\ q = p
      BY <3>1, <3>2, <3>3, <3>4, <3>5, <3>6, SMTT(20)
    <3>7. CASE ~ (b1 = b /\ q = p)
      BY <3>1, <3>2, <3>3, <3>4, <3>5, <3>7, SMTT(20)
    <3> QED
      BY <3>6, <3>7
  <2>5. /\ InflightExact' /\ NothingLeaked' /\ \A d \in PublishCalls : Handed(d)' /\ OwedIn(d)'
    BY <1>5, <1>10, <1>11, <1>13, <2>2, <2>3, <2>4, KeepCounts
  <2>6. runtime'["balancer"] \in Installed' /\ SettersKeepUpdates'
    BY <1>5, <1>1, <1>3, KeepSetters DEF PublishRecs, Busy
  <2> QED
    BY <2>3, <2>5, <2>6 DEF PubInv
<1> QED
  BY <1>12, <1>13 DEF Releases

LEMMA KeepThrottled ==
    ASSUME PubInv, NEW c \in PublishCalls, Throttled(c)
    PROVE  PubInv'
<1>1. /\ PTypes /\ publishes[c].pc = "check" /\ runtime' = runtime /\ stopped' = stopped
      /\ latest' = latest
      /\ publishes' = [publishes EXCEPT ![c] = Placed(publishes[c], publishes[c].groups)]
  BY DEF PubInv, Throttled
<1>2. publishes[c] \in PublishRecs /\ publishes \in [PublishCalls -> CallRecords]
  BY <1>1, Records DEF PTypes, Busy
<1>3. PICK b \in Balancers, p \in Partitions, g \in [Partitions -> Nat] :
        b = publishes[c].rt["balancer"] /\ p = publishes[c].part /\ g = publishes[c].groups
  BY <1>2 DEF PublishRecs, Runtimes
<1>4. publishes'[c] = Placed(publishes[c], g) /\ publishes' = [publishes EXCEPT ![c] = publishes'[c]]
  BY <1>1, <1>2, <1>3
<1>5. publishes'[c] \in PublishRecs /\ publishes'[c].pc \notin {"select", "check"}
  BY <1>2, <1>4, PlacedIs
<1>6. Released(c, b, p, 1)
  <2> SUFFICES ASSUME NEW b1 \in Balancers, NEW q \in Partitions
               PROVE  Owed(publishes'[c], b1, q) =
                        Owed(publishes[c], b1, q) - IF b1 = b /\ q = p THEN 1 ELSE 0
    BY DEF Released
  <2>1. Owed(publishes'[c], b1, q) = IF publishes[c].rt["balancer"] = b1 THEN g[q] ELSE 0
    BY <1>2, <1>4, PlacedIs
  <2>2. Owed(publishes[c], b1, q) = IF publishes[c].rt["balancer"] = b1
                                    THEN publishes[c].groups[q] + IF publishes[c].part = q THEN 1 ELSE 0
                                    ELSE 0
    BY <1>1, <1>2, OwesChecked
  <2>3. g[q] \in Nat
    OBVIOUS
  <2> QED
    BY <1>3, <2>1, <2>2, <2>3
<1>7. \/ OnPublishComplete(c, p, 1) /\ leaked' = leaked
      \/ Leak(c, p, 1) /\ arrays' = arrays
  BY <1>3 DEF Throttled
<1>8. publishes[c].pc \in Busy /\ 1 \in Nat /\ 1 > 0
  BY <1>1 DEF Busy
<1>9. Releases(c, b, p, 1)
  BY <1>1, <1>3, <1>4, <1>5, <1>6, <1>7, <1>8 DEF Releases
<1> QED
  BY <1>9, KeepReleased

GroupGone(c, p) ==
    /\ GroupDone(c, p) /\ runtime' = runtime /\ stopped' = stopped /\ latest' = latest
    /\ \/ OnPublishComplete(c, p, publishes[c].groups[p]) /\ leaked' = leaked
       \/ Leak(c, p, publishes[c].groups[p]) /\ arrays' = arrays

LEMMA GroupReleased ==
    ASSUME PubInv, NEW c \in PublishCalls, NEW p \in Partitions, GroupGone(c, p)
    PROVE  PubInv'
<1>1. PTypes /\ publishes[c].pc = "append" /\ publishes[c].groups[p] > 0
  BY DEF PubInv, GroupDone, GroupGone
<1>2. publishes[c] \in PublishRecs /\ publishes \in [PublishCalls -> CallRecords]
  BY <1>1, Records DEF PTypes, Busy
<1>3. PICK b \in Balancers, k \in Nat : b = publishes[c].rt["balancer"] /\ k = publishes[c].groups[p]
  BY <1>2 DEF PublishRecs, Runtimes
<1>4. PICK g : g = [publishes[c].groups EXCEPT ![p] = 0]
  OBVIOUS
<1>5. /\ g \in [Partitions -> Nat]
      /\ \A q \in Partitions : g[q] = publishes[c].groups[q] - IF q = p THEN k ELSE 0
  <2>1. publishes[c].groups \in [Partitions -> Nat]
    BY <1>2 DEF PublishRecs
  <2> QED
    BY <1>3, <1>4, <2>1
<1> DEFINE pc == IF \A q \in Partitions : g[q] = 0 THEN "done" ELSE "append"
<1>6. publishes' = [publishes EXCEPT ![c].groups = g, ![c].pc = pc]
  BY <1>4 DEF GroupDone, GroupGone
<1>7. pc \in {"ensure", "append", "done"} /\ (pc = "done" => \A q \in Partitions : g[q] = 0)
  OBVIOUS
<1> HIDE DEF pc
<1>8. /\ publishes'[c] \in PublishRecs /\ publishes'[c].pc = pc /\ publishes'[c].groups = g
      /\ publishes'[c].rt = publishes[c].rt
  BY <1>2, <1>5, <1>6, <1>7 DEF PublishRecs, Busy
<1>9. publishes' = [publishes EXCEPT ![c] = publishes'[c]]
  BY <1>2, <1>6
<1>10. Released(c, b, p, k)
  <2> SUFFICES ASSUME NEW b1 \in Balancers, NEW q \in Partitions
               PROVE  Owed(publishes'[c], b1, q) =
                        Owed(publishes[c], b1, q) - IF b1 = b /\ q = p THEN k ELSE 0
    BY DEF Released
  <2>1. Owed(publishes'[c], b1, q) = IF publishes[c].rt["balancer"] = b1 THEN g[q] ELSE 0
    BY <1>7, <1>8, OwesGroups
  <2>2. Owed(publishes[c], b1, q) =
          IF publishes[c].rt["balancer"] = b1 THEN publishes[c].groups[q] ELSE 0
    BY <1>1, <1>2, OwesGroups
  <2>3. publishes[c].groups[q] \in Nat
    BY <1>2 DEF PublishRecs
  <2>4. g[q] = publishes[c].groups[q] - IF q = p THEN k ELSE 0
    BY <1>5
  <2>5. CASE b1 = b
    BY <1>3, <2>1, <2>2, <2>4, <2>5, SMTT(20)
  <2>6. CASE b1 # b
    BY <1>3, <2>1, <2>2, <2>6, SMTT(20)
  <2> QED
    BY <2>5, <2>6
<1>11. publishes'[c].pc \notin {"select", "check"} /\ publishes[c].pc \in Busy /\ k > 0
  BY <1>1, <1>3, <1>7, <1>8 DEF Busy
<1>12. \/ OnPublishComplete(c, p, k) /\ leaked' = leaked
       \/ Leak(c, p, k) /\ arrays' = arrays
  BY <1>3 DEF GroupGone
<1>13. runtime' = runtime /\ stopped' = stopped /\ latest' = latest
  BY DEF GroupGone
<1>14. Releases(c, b, p, k)
  BY <1>3, <1>8, <1>9, <1>10, <1>11, <1>12, <1>13 DEF Releases
<1> QED
  BY <1>14, KeepReleased

LEMMA KeepAppendGroup ==
    ASSUME PubInv, NEW c \in PublishCalls, NEW p \in Partitions, AppendGroup(c, p)
    PROVE  PubInv'
<1>1. /\ GroupDone(c, p) /\ OnPublishComplete(c, p, publishes[c].groups[p])
      /\ runtime' = runtime /\ stopped' = stopped /\ latest' = latest /\ leaked' = leaked
  BY DEF AppendGroup
<1> QED
  BY <1>1, GroupReleased DEF GroupGone

LEMMA KeepGateCancelled ==
    ASSUME PubInv, NEW c \in PublishCalls, NEW p \in Partitions, GateCancelled(c, p)
    PROVE  PubInv'
<1>1. /\ GroupDone(c, p) /\ Leak(c, p, publishes[c].groups[p])
      /\ runtime' = runtime /\ stopped' = stopped /\ latest' = latest /\ arrays' = arrays
  BY DEF GateCancelled
<1> QED
  BY <1>1, GroupReleased DEF GroupGone

-----------------------------------------------------------------------------
(* The invariant and what follows from it                                   *)

LEMMA PublishingStarts == PublishingInit => PubInv
<1> SUFFICES ASSUME PublishingInit PROVE PubInv
  OBVIOUS
<1>1. \A c \in PublishCalls : publishes[c] = NotCalled /\ publishes[c].pc = "idle"
  BY DEF PublishingInit, NotCalled
<1>2. runtime \in Runtimes /\ runtime["balancer"] = "b0" /\ latest = runtime
  BY DEF PublishingInit, Runtimes, Fields, Balancers
<1>3. \A b \in Balancers : arrays[b] = <<>> /\ stopped[b] = 0 /\ \A p \in Partitions : leaked[b][p] = 0
  BY DEF PublishingInit
<1>4. PTypes
  <2>1. stopped \in [Balancers -> Int] /\ leaked \in [Balancers -> [Partitions -> Int]]
    BY DEF PublishingInit
  <2>2. arrays \in [Balancers -> Seq(Arrays)]
    BY DEF PublishingInit
  <2>3. publishes \in [PublishCalls -> CallRecords]
    BY DEF PublishingInit, CallRecords
  <2> QED
    BY <1>2, <2>1, <2>2, <2>3 DEF PTypes
<1>5. \A b \in Balancers : Len(arrays[b]) = 0
  BY <1>3
<1>6. NothingLeaked /\ InflightExact
  BY <1>3, <1>5 DEF NothingLeaked, InflightExact
<1>7. \A c \in PublishCalls : Handed(c) /\ OwedIn(c)
  BY <1>1, NotOwing DEF Handed, OwedIn, Busy
<1>8. Installed = {"b0"}
  BY <1>1 DEF Installed
<1> QED
  BY <1>2, <1>3, <1>4, <1>6, <1>7, <1>8 DEF PubInv, SettersKeepUpdates

LEMMA PublishingStutters == PubInv /\ UNCHANGED publishingVars => PubInv'
<1> SUFFICES ASSUME PubInv, UNCHANGED publishingVars PROVE PubInv'
  OBVIOUS
<1>1. /\ runtime' = runtime /\ stopped' = stopped /\ arrays' = arrays /\ publishes' = publishes
      /\ latest' = latest /\ leaked' = leaked
  BY DEF publishingVars
<1>2. PTypes' /\ NothingLeaked'
  BY <1>1 DEF PubInv, PTypes, NothingLeaked
<1>3. \A c \in PublishCalls : Handed(c)' /\ OwedIn(c)'
  BY <1>1 DEF PubInv, Handed, OwedIn
<1>4. runtime'["balancer"] \in Installed' /\ SettersKeepUpdates'
  BY <1>1 DEF PubInv, Installed, SettersKeepUpdates
<1>5. InflightExact'
  BY <1>1 DEF PubInv, InflightExact, Outstanding
<1> QED
  BY <1>2, <1>3, <1>4, <1>5 DEF PubInv

LEMMA PublishingSteps == PubInv /\ [PublishingNext]_publishingVars => PubInv'
<1> SUFFICES ASSUME PubInv, PublishingNext PROVE PubInv'
  BY PublishingStutters
<1>1. PICK c \in PublishCalls :
        \/ \E f \in Fields : SetBegins(c, f)
        \/ SetSwaps(c)
        \/ \E batch \in BOOLEAN, n \in Sizes : PublishBegins(c, batch, n)
        \/ EnsureLoad(c) \/ EnsureSwap(c)
        \/ \E p \in Partitions :
              P2CSelectPartition(c, p) \/ AppendGroup(c, p) \/ GateCancelled(c, p)
        \/ Accepted(c) \/ Throttled(c)
  BY Zenon DEF PublishingNext
<1> QED
  BY <1>1, KeepSetBegins, KeepSetSwaps, KeepPublishBegins, KeepEnsureLoad, KeepEnsureSwap,
     KeepP2CSelectPartition, KeepAppendGroup, KeepGateCancelled, KeepAccepted, KeepThrottled

LEMMA PublishingInvariant == PublishingSpec => []PubInv
<1> QED
  BY PublishingStarts, PublishingSteps, PTL DEF PublishingSpec

(* Setters of different fields never lose each other's value, and exactly   *)
(* the balancers that were installed and replaced have been stopped, once   *)
(* each, however many setters and publishes run (SetBalancer,               *)
(* SetBackpressure, SetSchedulerFactory).                                   *)
THEOREM UpdatesAreKept == PublishingSpec => []SettersKeepUpdates
<1>1. PubInv => SettersKeepUpdates
  BY DEF PubInv
<1> QED
  BY <1>1, PublishingInvariant, PTL

(* Until its array is replaced by a longer one, a balancer's in-flight      *)
(* count of a partition is what publishes still owe plus what was leaked,   *)
(* for any number of calls, sizes and batch length (ensureInflight,         *)
(* SelectPartition, OnPublishComplete).                                     *)
THEOREM InflightStaysExact == PublishingSpec => []InflightExact
<1>1. PubInv => InflightExact
  BY DEF PubInv
<1> QED
  BY <1>1, PublishingInvariant, PTL
=============================================================================
