------------------------------ MODULE Affinity ------------------------------
(***************************************************************************)
(* The key-affinity balancer (pkg/balancer/psa.go).  A key that was bound  *)
(* to a partition keeps it; a new key claims a partition from the free set *)
(* or falls back to its hash.  The bindings are an LRU cache, every        *)
(* partition has the set of its keys as a reverse index, and OnMetrics     *)
(* releases empty and overloaded partitions and moves keys to idle ones.   *)
(*                                                                         *)
(* Each of the four structures is safe by itself and nothing locks two of  *)
(* them together: every access to the cache, to a shard, to the free set   *)
(* and to a bind time is a step of its own.  The publishers run            *)
(* SelectPartition, the metrics loop runs OnMetrics.                       *)
(***************************************************************************)
EXTENDS Integers, Sequences, FiniteSets, SequencesExt

CONSTANTS
  Publishers, Keys,
  Watched,           \* the key that is looked at, any one of them
  EmptyKey,          \* the key of a message without one
  NumPartitions,
  HashOf,            \* hashKey(k) modulo the number of partitions
  MaxBindings,       \* defaultPSAMaxBindings
  Metrics,           \* [loads, depth]: what the collector may report
  MaxBegun           \* bound on the calls that bind and on the reports

Parts == 0..(NumPartitions - 1)
MetricsLoop == "metrics"
Threads == Publishers \cup {MetricsLoop}

VARIABLES
  bindings,          \* the LRU cache: <<key, partition>>, the latest used first
  keysOf,            \* psaShard.keys of each partition
  free,              \* the partitions nobody owns
  rated,             \* the partitions whose load is known
  fresh,             \* bound within psaGracePeriod
  thread,            \* where each goroutine is
  todo,              \* what is left of the current OnMetrics
  begun,             \* calls that bind, and reports, so far
  mixed              \* history: two goroutines worked on Watched at once

affinityVars == <<bindings, keysOf, free, rated, fresh, thread, todo, begun, mixed>>

Nothing == [at |-> "idle", key |-> EmptyKey, part |-> 0, drop |-> {}, out |-> <<>>]

(* NewPSA: all partitions are free and no load is known.                   *)
NewPSA ==
  /\ bindings = <<>>
  /\ keysOf = [p \in Parts |-> {}]
  /\ free = Parts
  /\ rated = {} /\ fresh = {}
  /\ thread = [t \in Threads |-> Nothing]
  /\ todo = <<>> /\ begun = 0

AffinityInit == NewPSA /\ mixed = FALSE

-----------------------------------------------------------------------------
(* The cache                                                               *)

Bound == {bindings[i][1] : i \in DOMAIN bindings}
PartOf(k) == (CHOOSE b \in Range(bindings) : b[1] = k)[2]
Without(k) == SelectSeq(bindings, LAMBDA b : b[1] # k)

(* Add puts the key in front, with a new value if it was there already;    *)
(* beyond the capacity the last one is evicted.                            *)
Added(k, p) == <<<<k, p>>>> \o Without(k)

Go(t, new) == thread' = [thread EXCEPT ![t] = new]

(* removeFromReverseIndex, the callback of every eviction and removal; it  *)
(* runs after the cache's lock was released.                               *)
removeFromReverseIndex(t) ==
  LET k == thread[t].out[1]  p == thread[t].out[2] IN
  /\ thread[t].out # <<>>
  /\ keysOf' = [keysOf EXCEPT ![p] = @ \ {k}]
  /\ free' = IF keysOf'[p] = {} THEN free \cup {p} ELSE free
  /\ Go(t, [thread[t] EXCEPT !.out = <<>>])
  /\ UNCHANGED <<bindings, rated, fresh, todo>>

-----------------------------------------------------------------------------
(* SelectPartition                                                         *)

(* The lookup: a hit returns the partition and refreshes the key.          *)
SelectPartition(t, k) ==
  /\ t \in Publishers /\ thread[t].at = "idle"
  /\ IF k \in Bound
       THEN /\ bindings' = Added(k, PartOf(k))
            /\ UNCHANGED thread
       ELSE /\ begun < MaxBegun
            /\ Go(t, [Nothing EXCEPT !.at = "range", !.key = k])
            /\ UNCHANGED bindings
  /\ UNCHANGED <<keysOf, free, rated, fresh, todo>>

ToHash(t) == [thread[t] EXCEPT !.at = "add", !.part = HashOf[thread[t].key]]

(* claimFreePartition up to the choice.  The random skip over a map whose  *)
(* order is open makes any free partition with a known load possible; a    *)
(* partition without one is never better than the initial bound.           *)
claimRange(t) ==
  /\ thread[t].at = "range"
  /\ \/ \E p \in free \cap rated : Go(t, [thread[t] EXCEPT !.at = "claim", !.part = p])
     \/ free \cap rated = {} /\ Go(t, ToHash(t))
  /\ UNCHANGED <<bindings, keysOf, free, rated, fresh, todo>>

(* LoadAndDelete: whoever comes second uses the hash.                      *)
claimFree(t) ==
  /\ thread[t].at = "claim"
  /\ Go(t, IF thread[t].part \in free THEN [thread[t] EXCEPT !.at = "add"] ELSE ToHash(t))
  /\ free' = free \ {thread[t].part}
  /\ UNCHANGED <<bindings, keysOf, rated, fresh, todo>>

(* bind: the cache, with the eviction of its last key, then the shard and  *)
(* the bind time, which may be over at once.                               *)
bindAdd(t) ==
  LET all == Added(thread[t].key, thread[t].part)
      full == Len(all) > MaxBindings IN
  /\ thread[t].at = "add"
  /\ bindings' = IF full THEN Front(all) ELSE all
  /\ Go(t, [thread[t] EXCEPT !.at = "index", !.out = IF full THEN Last(all) ELSE <<>>])
  /\ UNCHANGED <<keysOf, free, rated, fresh, todo>>

bindIndex(t) ==
  /\ thread[t].at = "index" /\ thread[t].out = <<>>
  /\ keysOf' = [keysOf EXCEPT ![thread[t].part] = @ \cup {thread[t].key}]
  /\ fresh' = fresh \cup {thread[t].part}
  /\ Go(t, Nothing)
  /\ todo' = IF t = MetricsLoop THEN Tail(todo) ELSE todo
  /\ UNCHANGED <<bindings, free, rated>>

(* psaGracePeriod passes.                                                  *)
GraceEnds(p) ==
  /\ p \in fresh
  /\ fresh' = fresh \ {p}
  /\ UNCHANGED <<bindings, keysOf, free, rated, thread, todo>>

-----------------------------------------------------------------------------
(* OnMetrics                                                               *)

Total(loads) == FoldFunction(+, 0, loads)

(* load > factor * avgLoad(loads), the factor in halves.                   *)
Above(loads, p, halves) ==
  2 * loads[p] * NumPartitions > halves * Total(loads)

InOrder(S) == SetToSortSeq(S, <)
Releases(S) == [i \in DOMAIN InOrder(S) |-> [op |-> "release", id |-> InOrder(S)[i]]]

(* Every idle partition takes one key of the first heavy one.              *)
Steals(m) ==
  LET idle == {p \in Parts : m.loads[p] = 0 /\ m.depth[p] = 0}
      heavy == {p \in Parts : Above(m.loads, p, 3)} IN
  IF heavy = {} THEN <<>>
  ELSE [i \in DOMAIN InOrder(idle) |->
          [op |-> "steal", id |-> Min(heavy), to |-> InOrder(idle)[i]]]

(* What OnMetrics does with a report: the partitions with an empty queue   *)
(* are released, then the overloaded ones, then keys are moved.            *)
OnMetrics(m) ==
  /\ thread[MetricsLoop].at = "idle" /\ todo = <<>>
  /\ begun < MaxBegun
  /\ rated' = Parts
  /\ todo' = Releases({p \in Parts : m.depth[p] = 0})
               \o (IF NumPartitions > 1
                     THEN Releases({p \in Parts : Above(m.loads, p, 4)}) \o Steals(m)
                     ELSE <<>>)
  /\ UNCHANGED <<bindings, keysOf, free, fresh, thread>>

Me == thread[MetricsLoop]

Begins(op) == Me.at = "idle" /\ todo # <<>> /\ Head(todo).op = op

(* releasePartition looks at the bind time before it takes the lock.       *)
releaseCheck ==
  /\ Begins("release")
  /\ IF Head(todo).id \in fresh THEN todo' = Tail(todo) /\ UNCHANGED thread
     ELSE /\ Go(MetricsLoop, [Nothing EXCEPT !.at = "clear", !.part = Head(todo).id])
          /\ UNCHANGED todo
  /\ UNCHANGED <<bindings, keysOf, free, rated, fresh>>

(* Under the shard's lock its keys are copied and cleared.                 *)
releaseClear ==
  /\ Me.at = "clear"
  /\ Go(MetricsLoop, [Me EXCEPT !.at = "peek", !.drop = keysOf[Me.part]])
  /\ keysOf' = [keysOf EXCEPT ![Me.part] = {}]
  /\ UNCHANGED <<bindings, free, rated, fresh, todo>>

(* stealOneBinding takes any key of the heavy partition out of its shard;  *)
(* without one, or with the empty key, it does nothing.                    *)
stealVictim ==
  LET src == Head(todo).id IN
  /\ Begins("steal")
  /\ \/ \E k \in keysOf[src] \ {EmptyKey} :
          /\ keysOf' = [keysOf EXCEPT ![src] = @ \ {k}]
          /\ Go(MetricsLoop, [Nothing EXCEPT !.at = "peek", !.key = k, !.part = src,
                                             !.drop = {k}])
          /\ UNCHANGED todo
     \/ /\ keysOf[src] = {} \/ EmptyKey \in keysOf[src]
        /\ todo' = Tail(todo)
        /\ UNCHANGED <<keysOf, thread>>
  /\ UNCHANGED <<bindings, free, rated, fresh>>

(* Both look the key up and remove its binding in two steps: between them  *)
(* the key may have been bound elsewhere, and Remove takes what it finds.  *)
peek ==
  /\ Me.at = "peek" /\ Me.out = <<>>
  /\ \E k \in Me.drop :
       LET match == k \in Bound /\ PartOf(k) = Me.part IN
       Go(MetricsLoop, IF match THEN [Me EXCEPT !.at = "remove", !.key = k]
                       ELSE [Me EXCEPT !.drop = @ \ {k}])
  /\ UNCHANGED <<bindings, keysOf, free, rated, fresh, todo>>

remove ==
  LET k == Me.key IN
  /\ Me.at = "remove"
  /\ bindings' = Without(k)
  /\ Go(MetricsLoop, [Me EXCEPT !.at = "peek", !.drop = @ \ {k},
                                !.key = IF Head(todo).op = "steal" THEN k ELSE EmptyKey,
                                !.out = IF k \in Bound THEN <<k, PartOf(k)>> ELSE <<>>])
  /\ UNCHANGED <<keysOf, free, rated, fresh, todo>>

Dropped(op) == Me.at = "peek" /\ Me.drop = {} /\ Me.out = <<>> /\ Head(todo).op = op

(* Mutant: the shard is cleared when its keys are unbound, not when they   *)
(* were copied.                                                            *)
releaseDone_Clears ==
  /\ Dropped("release")
  /\ keysOf' = [keysOf EXCEPT ![Me.part] = {}]
  /\ free' = free \cup {Me.part}
  /\ Go(MetricsLoop, Nothing)
  /\ todo' = Tail(todo)
  /\ UNCHANGED <<bindings, rated, fresh>>

(* The partition is free, whoever was bound to it in the meantime.         *)
releaseDone ==
  /\ Dropped("release")
  /\ free' = free \cup {Me.part}
  /\ Go(MetricsLoop, Nothing)
  /\ todo' = Tail(todo)
  /\ UNCHANGED <<bindings, keysOf, rated, fresh>>

(* The victim is bound to the idle partition, which stays free if it was.  *)
stealBind ==
  /\ Dropped("steal")
  /\ Go(MetricsLoop, [Me EXCEPT !.at = "add", !.part = Head(todo).to])
  /\ UNCHANGED <<bindings, keysOf, free, rated, fresh, todo>>

-----------------------------------------------------------------------------
(* The keys a goroutine is working on.                                     *)
Worked(t) ==
  LET w == thread[t] IN
  w.drop \cup (IF w.out = <<>> THEN {} ELSE {w.out[1]})
         \cup (IF w.at = "idle" \/ (t = MetricsLoop /\ Head(todo).op = "release")
                 THEN {} ELSE {w.key})

AffinityStep ==
  \/ \E t \in Threads :
       \/ \E k \in Keys : SelectPartition(t, k)
       \/ claimRange(t) \/ claimFree(t) \/ bindAdd(t) \/ bindIndex(t)
       \/ removeFromReverseIndex(t)
  \/ \E m \in Metrics : OnMetrics(m)
  \/ releaseCheck \/ releaseClear \/ stealVictim \/ peek \/ remove
  \/ releaseDone \/ stealBind
  \/ \E p \in Parts : GraceEnds(p)

CallBegins ==
  \/ todo = <<>> /\ todo' # <<>>
  \/ \E t \in Publishers : thread[t].at = "idle" /\ thread'[t].at # "idle"

(* Behaviours are followed until two goroutines work on the watched key.   *)
AffinityNext ==
  /\ ~mixed /\ AffinityStep
  /\ mixed' = \E t, u \in Threads :
                t # u /\ Watched \in Worked(t)' /\ Watched \in Worked(u)'
  /\ begun' = IF CallBegins THEN begun + 1 ELSE begun

AffinitySpec == AffinityInit /\ [][AffinityNext]_affinityVars

-----------------------------------------------------------------------------
(* The cache and the reverse index agree, key by key, however releases,    *)
(* steals, evictions and binds of different keys interleave: a key that no *)
(* two goroutines ever worked on at once, and that none works on now, is   *)
(* in the shard of the partition it is bound to and in no other.  (Two     *)
(* that bind or remove one key at once can leave it in two shards or in    *)
(* none: nothing locks the cache and a shard together.)                    *)
BindingsIndexed ==
  ~mixed /\ (\A t \in Threads : Watched \notin Worked(t)) =>
    {p \in Parts : Watched \in keysOf[p]} =
      IF Watched \in Bound THEN {PartOf(Watched)} ELSE {}

=============================================================================
