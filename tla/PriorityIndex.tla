---------------------------- MODULE PriorityIndex ----------------------------
(***************************************************************************)
(* PriorityIndex (pkg/broker/priority_index.go): one queue of pending      *)
(* entries per priority level, each with its own lock and counter, and a   *)
(* total kept outside the locks.                                           *)
(*                                                                         *)
(* Adders, poppers and the promoter are goroutines.  A section under one   *)
(* level's lock is one step; a lock held while another is asked for        *)
(* (PopWithThreshold) is held in the model too.  The update of total that  *)
(* follows an unlock is a step of its own.  A level is the sequence that   *)
(* entryRing implements (EntryRing, BoundedQueue).                         *)
(***************************************************************************)
EXTENDS Integers, Sequences, FiniteSets, SequencesExt

CONSTANTS
  Entries,      \* the entries, each added once by an adder of its own
  Priority,     \* Priority[e]: the argument of Add
  Arrived,      \* Arrived[e]: ArrivedAt
  Poppers,      \* goroutines that pop
  Thresholds,   \* arguments of PopWithThreshold
  Promoters,    \* goroutines that call PromoteStale
  Deadlines,    \* now - ttl of a PromoteStale: older entries are stale
  MaxPriority,  \* number of levels
  LevelCap,     \* maxPerLevel, 0 for none
  None          \* nobody, no entry

ASSUME IndexAssumption ==
  /\ Priority \in [Entries -> Int] /\ Arrived \in [Entries -> Nat]
  /\ Thresholds \subseteq Nat /\ Deadlines \subseteq Nat
  /\ MaxPriority \in Nat \ {0} /\ LevelCap \in Nat
  /\ None \notin Entries \cup Poppers

VARIABLES
  level,     \* level[l]: the entries of level l, oldest first
  holder,    \* holder[l]: the popper that holds l's lock between steps
  count,     \* priorityLevel.count
  total,     \* PriorityIndex.total
  adder,     \* where each entry's Add is
  pop,       \* each popper's call: [op, at, best, th, seen]
  promo,     \* each promoter's call: [at, ttl, stale]
  popped,    \* history: entries handed to a caller
  evicted    \* history: entries pushed out of a full level

vars == <<level, holder, count, total, adder, pop, promo, popped, evicted>>

Levels == 0..(MaxPriority - 1)
Free(l) == holder[l] = None

Idle == [op |-> "idle"]

Init ==
  /\ level = [l \in Levels |-> <<>>]
  /\ holder = [l \in Levels |-> None]
  /\ count = [l \in Levels |-> 0]
  /\ total = 0
  /\ adder = [e \in Entries |-> "start"]
  /\ pop = [t \in Poppers |-> Idle]
  /\ promo = [t \in Promoters |-> Idle]
  /\ popped = {} /\ evicted = {}

-----------------------------------------------------------------------------
(* Add                                                                     *)

Clamp(p) == IF p < 0 THEN 0 ELSE IF p >= MaxPriority THEN MaxPriority - 1 ELSE p
Full(q) == LevelCap > 0 /\ Len(q) >= LevelCap

(* pushBack as EntryRing implements it.                                    *)
PushBack(q, e) == Append(IF Full(q) THEN Tail(q) ELSE q, e)

(* Mutant: an Add that evicted an entry still counts it in total.          *)
AddLocked_CountsEviction(e) ==
  LET l == Clamp(Priority[e]) IN
  /\ adder[e] = "start" /\ Free(l)
  /\ level' = [level EXCEPT ![l] = PushBack(@, e)]
  /\ adder' = [adder EXCEPT ![e] = "pushed"]
  /\ IF Full(level[l])
     THEN evicted' = evicted \cup {Head(level[l])} /\ UNCHANGED count
     ELSE count' = [count EXCEPT ![l] = @ + 1] /\ UNCHANGED evicted
  /\ UNCHANGED <<holder, total, pop, promo, popped>>

(* The locked section: an eviction returns at once, count and total stay.  *)
AddLocked(e) ==
  LET l == Clamp(Priority[e]) IN
  /\ adder[e] = "start" /\ Free(l)
  /\ level' = [level EXCEPT ![l] = PushBack(@, e)]
  /\ IF Full(level[l])
     THEN /\ evicted' = evicted \cup {Head(level[l])}
          /\ adder' = [adder EXCEPT ![e] = "done"]
          /\ UNCHANGED count
     ELSE /\ count' = [count EXCEPT ![l] = @ + 1]
          /\ adder' = [adder EXCEPT ![e] = "pushed"]
          /\ UNCHANGED evicted
  /\ UNCHANGED <<holder, total, pop, promo, popped>>

AddTotal(e) ==
  /\ adder[e] = "pushed"
  /\ total' = total + 1
  /\ adder' = [adder EXCEPT ![e] = "done"]
  /\ UNCHANGED <<level, holder, count, pop, promo, popped, evicted>>

-----------------------------------------------------------------------------
(* PopHighest and PopWithThreshold                                         *)

Held(l) == ToSet(level[l])

(* Mutant: the scan leaves out the highest level.                          *)
Begin_SkipsTop(t, th) ==
  /\ pop[t].op = "idle"
  /\ pop' = [pop EXCEPT ![t] =
       [op |-> "down", at |-> MaxPriority - 2, best |-> -1, th |-> th,
        seen |-> level]]
  /\ UNCHANGED <<level, holder, count, total, adder, promo, popped, evicted>>

(* The call starts its downward scan of the levels from threshold on (0    *)
(* for PopHighest); seen remembers what was where.                         *)
Begin(t, th) ==
  /\ pop[t].op = "idle"
  /\ pop' = [pop EXCEPT ![t] =
       [op |-> "down", at |-> MaxPriority - 1, best |-> -1, th |-> th,
        seen |-> level]]
  /\ UNCHANGED <<level, holder, count, total, adder, promo, popped, evicted>>

PopHighest(t) == Begin(t, 0)
PopWithThreshold(t) == \E th \in Thresholds : Begin(t, th)

(* popFront and count.Add(-1) on level l.                                  *)
TakeFrom(t, l) ==
  /\ level' = [level EXCEPT ![l] = Tail(@)]
  /\ count' = [count EXCEPT ![l] = @ - 1]
  /\ pop' = [pop EXCEPT ![t] = [op |-> "took"]]
  /\ popped' = popped \cup {Head(level[l])}

ScanDown(t) ==
  LET l == pop[t].at IN
  /\ pop[t].op = "down" /\ l >= pop[t].th /\ Free(l)
  /\ IF level[l] = <<>>
     THEN /\ pop' = [pop EXCEPT ![t].at = l - 1]
          /\ UNCHANGED <<level, count, popped>>
     ELSE TakeFrom(t, l)
  /\ UNCHANGED <<holder, total, adder, promo, evicted>>

(* Below the threshold the scan goes up, to the oldest head.               *)
TurnUp(t) ==
  /\ pop[t].op = "down" /\ pop[t].at < pop[t].th
  /\ pop' = [pop EXCEPT ![t].op = "up", ![t].at = 0]
  /\ UNCHANGED <<level, holder, count, total, adder, promo, popped, evicted>>

(* Mutant: the newest head wins.                                           *)
ScanUp_Newest(t) ==
  LET l == pop[t].at
      b == pop[t].best
      better == level[l] # <<>> /\
                  (b = -1 \/ Arrived[Head(level[l])] > Arrived[Head(level[b])])
  IN
  /\ pop[t].op = "up" /\ l < pop[t].th /\ l < MaxPriority /\ Free(l)
  /\ holder' = IF better THEN [k \in Levels |-> CASE k = l -> t
                                                  [] k = b -> None
                                                  [] OTHER -> holder[k]]
               ELSE holder
  /\ pop' = [pop EXCEPT ![t].at = l + 1, ![t].best = IF better THEN l ELSE @]
  /\ UNCHANGED <<level, count, total, adder, promo, popped, evicted>>

(* Lock level at; keep the lock, and give up the one held before, when its *)
(* head is older than the best so far.                                     *)
ScanUp(t) ==
  LET l == pop[t].at
      b == pop[t].best
      better == level[l] # <<>> /\
                  (b = -1 \/ Arrived[Head(level[l])] < Arrived[Head(level[b])])
  IN
  /\ pop[t].op = "up" /\ l < pop[t].th /\ l < MaxPriority /\ Free(l)
  /\ holder' = IF better THEN [k \in Levels |-> CASE k = l -> t
                                                  [] k = b -> None
                                                  [] OTHER -> holder[k]]
               ELSE holder
  /\ pop' = [pop EXCEPT ![t].at = l + 1, ![t].best = IF better THEN l ELSE @]
  /\ UNCHANGED <<level, count, total, adder, promo, popped, evicted>>

TakeBest(t) ==
  LET b == pop[t].best IN
  /\ pop[t].op = "up" /\ ~(pop[t].at < pop[t].th /\ pop[t].at < MaxPriority)
  /\ IF b = -1
     THEN /\ pop' = [pop EXCEPT ![t] = [op |-> "empty"]]
          /\ UNCHANGED <<level, holder, count, popped>>
     ELSE /\ TakeFrom(t, b)
          /\ holder' = [holder EXCEPT ![b] = None]
  /\ UNCHANGED <<total, adder, promo, evicted>>

(* total.Add(-1) and the return; an empty-handed call just returns.        *)
PopTotal(t) ==
  /\ pop[t].op \in {"took", "empty"}
  /\ total' = IF pop[t].op = "took" THEN total - 1 ELSE total
  /\ pop' = [pop EXCEPT ![t] = Idle]
  /\ UNCHANGED <<level, holder, count, adder, promo, popped, evicted>>

-----------------------------------------------------------------------------
(* PromoteStale                                                            *)

PromoteStale(t) ==
  /\ promo[t].op = "idle"
  /\ \E d \in Deadlines :
       promo' = [promo EXCEPT ![t] =
         [op |-> "split", at |-> MaxPriority - 2, ttl |-> d, stale |-> <<>>]]
  /\ UNCHANGED <<level, holder, count, total, adder, pop, popped, evicted>>

(* Mutants: the level keeps its stale entries too; the loop over the       *)
(* levels does not move on.                                                *)
Split_KeepsAll(t) ==
  LET l == promo[t].at
      IsStale(e) == Arrived[e] < promo[t].ttl
      stale == SelectSeq(level[l], IsStale)
  IN
  /\ promo[t].op = "split" /\ l >= 0 /\ Free(l)
  /\ promo' = [promo EXCEPT ![t].stale = stale,
                            ![t].op = IF stale = <<>> THEN "split" ELSE "push",
                            ![t].at = IF stale = <<>> THEN l - 1 ELSE l]
  /\ UNCHANGED <<level, holder, count, total, adder, pop, popped, evicted>>
Split_SameLevel(t) ==
  LET l == promo[t].at
      IsStale(e) == Arrived[e] < promo[t].ttl
      IsFresh(e) == ~IsStale(e)
      stale == SelectSeq(level[l], IsStale)
      fresh == SelectSeq(level[l], IsFresh)
  IN
  /\ promo[t].op = "split" /\ l >= 0 /\ Free(l)
  /\ level' = [level EXCEPT ![l] = fresh]
  /\ count' = [count EXCEPT ![l] = Len(fresh)]
  /\ promo' = [promo EXCEPT ![t].stale = stale,
                            ![t].op = IF stale = <<>> THEN "split" ELSE "push"]
  /\ UNCHANGED <<holder, total, adder, pop, popped, evicted>>

(* Level at keeps its fresh entries; the stale ones are in nobody's level  *)
(* until they are pushed onto the next one.                                *)
Split(t) ==
  LET l == promo[t].at
      IsStale(e) == Arrived[e] < promo[t].ttl
      IsFresh(e) == ~IsStale(e)
      stale == SelectSeq(level[l], IsStale)
      fresh == SelectSeq(level[l], IsFresh)
  IN
  /\ promo[t].op = "split" /\ l >= 0 /\ Free(l)
  /\ level' = [level EXCEPT ![l] = fresh]
  /\ count' = [count EXCEPT ![l] = Len(fresh)]
  /\ promo' = [promo EXCEPT ![t].stale = stale,
                            ![t].op = IF stale = <<>> THEN "split" ELSE "push",
                            ![t].at = IF stale = <<>> THEN l - 1 ELSE l]
  /\ UNCHANGED <<holder, total, adder, pop, popped, evicted>>

(* Pushing a sequence of entries: a full level loses its oldest.           *)
Raised(q, s) ==
  LET all == q \o s IN
  IF LevelCap > 0 /\ Len(all) > LevelCap
  THEN SubSeq(all, Len(all) - LevelCap + 1, Len(all)) ELSE all

Raise(t) ==
  LET up  == promo[t].at + 1
      new == Raised(level[up], promo[t].stale)
      old == (Held(up) \cup ToSet(promo[t].stale)) \ ToSet(new)
  IN
  /\ promo[t].op = "push" /\ Free(up)
  /\ level' = [level EXCEPT ![up] = new]
  /\ count' = [count EXCEPT ![up] = Len(new)]
  /\ total' = total - Cardinality(old)
  /\ evicted' = evicted \cup old
  /\ promo' = [promo EXCEPT ![t].op = "split", ![t].at = @ - 1, ![t].stale = <<>>]
  /\ UNCHANGED <<holder, adder, pop, popped>>

PromoteDone(t) ==
  /\ promo[t].op = "split" /\ promo[t].at < 0
  /\ promo' = [promo EXCEPT ![t] = Idle]
  /\ UNCHANGED <<level, holder, count, total, adder, pop, popped, evicted>>

-----------------------------------------------------------------------------
PopStep(t) == ScanDown(t) \/ TurnUp(t) \/ ScanUp(t) \/ TakeBest(t) \/ PopTotal(t)
PromoStep(t) == Split(t) \/ Raise(t) \/ PromoteDone(t)

Next ==
  \/ \E e \in Entries : AddLocked(e) \/ AddTotal(e)
  \/ \E t \in Poppers : PopHighest(t) \/ PopWithThreshold(t) \/ PopStep(t)
  \/ \E t \in Promoters : PromoteStale(t) \/ PromoStep(t)

Spec == Init /\ [][Next]_vars

(* A goroutine inside a call is scheduled, and sync.RWMutex, on which      *)
(* xsync.RBMutex builds, does not starve a writer that waits.              *)
FairSpec ==
  /\ Spec
  /\ \A e \in Entries : SF_vars(AddLocked(e)) /\ WF_vars(AddTotal(e))
  /\ \A t \in Poppers : SF_vars(PopStep(t))
  /\ \A t \in Promoters : SF_vars(PromoStep(t))

-----------------------------------------------------------------------------
(* Properties                                                              *)

InTransit == UNION {IF promo[t].op = "push" THEN ToSet(promo[t].stale) ELSE {} :
                      t \in Promoters}
Size(S) == Cardinality(S)
Copies(e) ==
    Size({<<l, i>> \in Levels \X (1..Size(Entries)) :
            i <= Len(level[l]) /\ level[l][i] = e})
  + Size({e} \cap popped)
  + Size({t \in Promoters : promo[t].op = "push" /\ e \in ToSet(promo[t].stale)})
  + Size({e} \cap evicted)

(* No entry is lost or delivered twice: whatever adders, poppers and       *)
(* promoters interleave, an entry that was added is in exactly one level,  *)
(* on its way up one level, handed to one caller, or evicted.              *)
Conservation ==
  \A e \in Entries : Copies(e) = IF adder[e] = "start" THEN 0 ELSE 1

(* The counters read without a lock: each level's count is its length, and *)
(* total misses only the updates of calls that have not returned.          *)
CountersExact ==
  /\ \A l \in Levels : count[l] = Len(level[l])
  /\ total + Size({e \in Entries : adder[e] = "pushed"})
           - Size({t \in Poppers : pop[t].op = "took"})
     = Size(UNION {Held(l) : l \in Levels}) + Size(InTransit)

(* A pop never passes over a more urgent entry that was there all along:   *)
(* what it took from level l leaves no entry that lay in a higher level    *)
(* (of those the threshold orders by priority) when the call began and     *)
(* still lies there; below the threshold, no older entry that headed its   *)
(* level all along.                                                        *)
Stayed(t, l) == ToSet(pop[t].seen[l]) \cap Held(l)
SameHead(t, l) == /\ level[l] # <<>> /\ pop[t].seen[l] # <<>>
                  /\ Head(level[l]) = Head(pop[t].seen[l])
NoOvertaking ==
  [][\A t \in Poppers : pop[t].op \in {"down", "up"} /\ pop'[t].op = "took" =>
       LET th   == pop[t].th
           from == CHOOSE l \in Levels : level'[l] # level[l]
       IN  \A l \in Levels :
             /\ l > from /\ l >= th => Stayed(t, l) = {}
             /\ l < th /\ from < th /\ SameHead(t, l) =>
                  Arrived[Head(level[from])] <= Arrived[Head(level[l])]]_vars

(* A pop that comes back empty-handed (ErrNoMessages) did not miss an      *)
(* entry that lay in one level for the whole call.                         *)
EmptyIsEmpty ==
  [][\A t \in Poppers : pop[t].op = "up" /\ pop'[t].op = "empty" =>
       \A l \in Levels : Stayed(t, l) = {}]_vars

(* Every call returns: holding one level's lock while waiting for another  *)
(* cannot deadlock with adders, poppers and promoters.                     *)
CallsReturn ==
  /\ \A e \in Entries : []<>(adder[e] # "pushed")
  /\ \A t \in Poppers : []<>(pop[t].op = "idle")
  /\ \A t \in Promoters : []<>(promo[t].op = "idle")

=============================================================================
