---------------------------- MODULE LearnerProofs ----------------------------
(* Proofs about Learner, for every capacity, bound and number of ticks.     *)
EXTENDS Learner, TLAPS

Transition == [from : Nat, to : Nat]

-----------------------------------------------------------------------------
(* The experience is a queue: transitions enter at its end, move from the   *)
(* channel to the buffer, and leave at its front.                           *)

InOrder(a, b) == IF kind = "scheduler" THEN a.to <= b.to ELSE a.to < b.to

Forward(e) ==
    /\ \A i \in 1 .. Len(e) : e[i].from <= e[i].to
    /\ \A i \in 2 .. Len(e) : InOrder(e[i - 1], e[i])

LEMMA ForwardIs ==
    ASSUME replay \in Seq(Transition), channel \in Seq(Transition), Forward(Experience)
    PROVE  ExperienceForward
<1>1. Experience \in Seq(Transition)
  BY DEF Experience
<1> QED
  BY <1>1 DEF ExperienceForward, Forward, InOrder

LEMMA ForwardAppend ==
    ASSUME NEW e \in Seq(Transition), NEW t \in Transition, Forward(e),
           t.from <= t.to, \A i \in 1 .. Len(e) : InOrder(e[i], t)
    PROVE  Forward(Append(e, t))
<1>1. /\ Len(Append(e, t)) = Len(e) + 1 /\ Append(e, t)[Len(e) + 1] = t
      /\ \A i \in 1 .. Len(e) : Append(e, t)[i] = e[i]
  OBVIOUS
<1>2. \A i \in 1 .. Len(e) + 1 : Append(e, t)[i].from <= Append(e, t)[i].to
  BY <1>1 DEF Forward
<1>3. ASSUME NEW i \in 2 .. Len(e) + 1
      PROVE  InOrder(Append(e, t)[i - 1], Append(e, t)[i])
  <2>1. CASE i = Len(e) + 1
    BY <1>1, <2>1
  <2>2. CASE i # Len(e) + 1
    BY <1>1, <2>2 DEF Forward
  <2> QED
    BY <2>1, <2>2
<1> QED
  BY <1>1, <1>2, <1>3 DEF Forward

(* new is old without its first d elements.                                 *)
Shifted(old, new, d) ==
    /\ Len(new) = Len(old) - d
    /\ \A i \in 1 .. Len(new) : new[i] = old[i + d]

LEMMA ForwardShift ==
    ASSUME NEW old \in Seq(Transition), NEW new \in Seq(Transition), NEW d \in {0, 1},
           Shifted(old, new, d), Forward(old)
    PROVE  Forward(new)
<1>1. \A i \in 1 .. Len(new) : i + d \in 1 .. Len(old)
  BY DEF Shifted
<1>2. \A i \in 1 .. Len(new) : new[i].from <= new[i].to
  BY <1>1 DEF Shifted, Forward
<1>3. ASSUME NEW i \in 2 .. Len(new) PROVE InOrder(new[i - 1], new[i])
  <2>1. new[i - 1] = old[(i + d) - 1] /\ new[i] = old[i + d] /\ i + d \in 2 .. Len(old)
    BY DEF Shifted
  <2> QED
    BY <2>1 DEF Forward
<1> QED
  BY <1>2, <1>3 DEF Forward

LEMMA KeepType ==
    ASSUME NEW S, NEW s \in Seq(S), NEW cap \in Nat, NEW x \in S
    PROVE  /\ Remember(s, cap, x) \in Seq(S)
           /\ \E d \in {0, 1} : Shifted(Append(s, x), Remember(s, cap, x), d)
<1> DEFINE a == Append(s, x)
<1>1. a \in Seq(S) /\ a # <<>> /\ Len(a) \in Nat
  OBVIOUS
<1>2. CASE Len(a) > cap
  <2>1. Tail(a) \in Seq(S) /\ Len(Tail(a)) = Len(a) - 1
        /\ \A i \in 1 .. Len(Tail(a)) : Tail(a)[i] = a[i + 1]
    BY <1>1
  <2>2. Shifted(a, Tail(a), 1)
    BY <2>1 DEF Shifted
  <2> QED
    BY <1>2, <2>1, <2>2 DEF Remember
<1>3. CASE ~(Len(a) > cap)
  <2>1. Shifted(a, a, 0)
    BY <1>1 DEF Shifted
  <2> QED
    BY <1>1, <1>3, <2>1 DEF Remember
<1> QED
  BY <1>2, <1>3

(* Moving a transition from the channel to the buffer.                      *)
LEMMA MoveShifts ==
    ASSUME NEW r \in Seq(Transition), NEW ch \in Seq(Transition), ch # <<>>, NEW cap \in Nat
    PROVE  /\ Remember(r, cap, Head(ch)) \in Seq(Transition) /\ Tail(ch) \in Seq(Transition)
           /\ \E d \in {0, 1} :
                 Shifted(r \o ch, Remember(r, cap, Head(ch)) \o Tail(ch), d)
<1> DEFINE x == Head(ch)
           k == Remember(r, cap, x)
<1>1. /\ x \in Transition /\ x = ch[1] /\ Tail(ch) \in Seq(Transition)
      /\ Len(Tail(ch)) = Len(ch) - 1 /\ Len(ch) \in Nat
      /\ \A i \in 1 .. Len(ch) - 1 : Tail(ch)[i] = ch[i + 1]
  OBVIOUS
<1>2. k \in Seq(Transition)
  BY <1>1, KeepType
<1>3. PICK d \in {0, 1} : Shifted(Append(r, x), k, d)
  BY <1>1, KeepType
<1>4. /\ Len(k) = Len(r) + 1 - d
      /\ \A i \in 1 .. Len(k) : k[i] = IF i + d <= Len(r) THEN r[i + d] ELSE ch[1]
  BY <1>1, <1>2, <1>3 DEF Shifted
<1> HIDE DEF k, x
<1>5. \A s, t \in Seq(Transition) :
        /\ Len(s \o t) = Len(s) + Len(t)
        /\ \A i \in 1 .. Len(s) + Len(t) : (s \o t)[i] = IF i <= Len(s) THEN s[i] ELSE t[i - Len(s)]
  OBVIOUS
<1>6. Len(k \o Tail(ch)) = Len(r \o ch) - d
  <2>1. Len(k \o Tail(ch)) = Len(k) + Len(Tail(ch)) /\ Len(r \o ch) = Len(r) + Len(ch)
    BY <1>1, <1>2, <1>5
  <2> QED
    BY <1>1, <1>4, <2>1
<1>7. ASSUME NEW i \in 1 .. Len(k \o Tail(ch)) PROVE (k \o Tail(ch))[i] = (r \o ch)[i + d]
  <2>1. i \in 1 .. Len(k) + Len(Tail(ch)) /\ i + d \in 1 .. Len(r) + Len(ch)
    BY <1>1, <1>2, <1>4, <1>5
  <2>2. CASE i <= Len(k)
    <3>1. (k \o Tail(ch))[i] = k[i]
      BY <1>1, <1>2, <1>5, <2>1, <2>2
    <3>2. (r \o ch)[i + d] = IF i + d <= Len(r) THEN r[i + d] ELSE ch[i + d - Len(r)]
      BY <1>5, <2>1
    <3>3. ~(i + d <= Len(r)) => i + d - Len(r) = 1
      BY <1>2, <1>4, <2>1, <2>2
    <3>4. i \in 1 .. Len(k)
      BY <1>2, <2>2
    <3>5. k[i] = IF i + d <= Len(r) THEN r[i + d] ELSE ch[1]
      BY <1>4, <3>4
    <3>6. CASE i + d <= Len(r)
      <4>1. (r \o ch)[i + d] = r[i + d]
        BY <3>2, <3>6
      <4>2. k[i] = r[i + d]
        BY <3>5, <3>6
      <4> QED
        BY <3>1, <4>1, <4>2
    <3>7. CASE ~(i + d <= Len(r))
      <4>1. i + d - Len(r) = 1
        BY <3>3, <3>7
      <4>2. (r \o ch)[i + d] = ch[1]
        BY <3>2, <3>7, <4>1
      <4>3. k[i] = ch[1]
        BY <3>5, <3>7
      <4> QED
        BY <3>1, <4>2, <4>3
    <3> QED
      BY <3>6, <3>7
  <2>3. CASE i > Len(k)
    <3>1. (k \o Tail(ch))[i] = Tail(ch)[i - Len(k)] /\ i - Len(k) \in 1 .. Len(ch) - 1
      BY <1>1, <1>2, <1>5, <2>1, <2>3
    <3>2. (r \o ch)[i + d] = ch[i + d - Len(r)]
      BY <1>2, <1>4, <1>5, <2>1, <2>3
    <3>3. i + d - Len(r) = (i - Len(k)) + 1
      BY <1>2, <1>4, <2>1
    <3> QED
      BY <1>1, <3>1, <3>2, <3>3
  <2> QED
    BY <1>1, <1>2, <2>1, <2>2, <2>3
<1>8. Shifted(r \o ch, k \o Tail(ch), d)
  BY <1>6, <1>7 DEF Shifted
<1> QED
  BY <1>1, <1>2, <1>8 DEF k, x

-----------------------------------------------------------------------------
(* The order of stores (prevSnap first, from currSnap) and of loads         *)
(* (prevSnap first) makes every pair that is loaded one that leads forward. *)

Feeds ==
    [pc : {"wait", "first"}, ticks : Nat]
      \cup [pc : {"second"}, ticks : Nat, loaded : Nat]
      \cup [pc : {"send"}, ticks : Nat, transition : Transition]

TypeInv ==
    /\ kind \in {"balancer", "scheduler", "optimizer"}
    /\ gen \in Nat /\ lastGen \in Nat
    /\ snaps \in [prev : Nat, curr : Nat]
    /\ feed \in Feeds
    /\ replay \in Seq(Transition) /\ channel \in Seq(Transition)

(* The optimizer uses neither the snapshots' order nor the channel.         *)
Loops ==
    /\ kind = "optimizer" => /\ policy \notin {"prev", "curr", "epsilon"}
                             /\ feed.pc = "wait" /\ channel = <<>>
    /\ kind = "balancer" => policy # "epsilon"

SnapsOrdered ==
    /\ snaps.prev <= gen /\ snaps.curr <= gen
    /\ kind # "optimizer" => snaps.prev <= snaps.curr
    /\ feed.pc = "second" => feed.loaded <= snaps.curr
    /\ feed.pc = "send" => /\ feed.transition.from <= feed.transition.to
                           /\ feed.transition.to <= snaps.curr

(* Nothing that has been sent is newer than what may still be sent.         *)
Sent ==
    \A i \in 1 .. Len(Experience) :
        /\ kind = "balancer" => Experience[i].to <= lastGen
        /\ kind = "balancer" /\ feed.pc = "send" => Experience[i].to < feed.transition.to
        /\ kind = "scheduler" => Experience[i].to <= snaps.curr
        /\ kind = "scheduler" /\ feed.pc = "send" => Experience[i].to <= feed.transition.to
        /\ kind = "optimizer" => Experience[i].to <= gen

Fresh == kind = "balancer" /\ feed.pc = "send" => feed.transition.to = lastGen

LInv == TypeInv /\ Loops /\ SnapsOrdered /\ Sent /\ Fresh /\ Forward(Experience)

LEMMA ExperienceType == ASSUME TypeInv PROVE Experience \in Seq(Transition)
BY DEF TypeInv, Experience

LEMMA LInit == ASSUME LearnerInit PROVE LInv
<1>1. feed = Waiting /\ snaps = [prev |-> 0, curr |-> 0] /\ gen = 0 /\ lastGen = 0
      /\ channel = <<>> /\ kind \in {"balancer", "scheduler", "optimizer"}
  BY DEF LearnerInit
<1>2. \/ replay = <<>> /\ policy = "wait"
      \/ replay = <<[from |-> 0, to |-> 0]>> /\ policy = "blind" /\ kind = "scheduler"
  BY DEF LearnerInit, NewDQNBalancer, NewDQNScheduler, NewDDPG, seedExpertTransitions
<1>3. replay \in Seq(Transition) /\ (replay # <<>> => kind = "scheduler")
      /\ (replay = <<>> \/ (Len(replay) = 1 /\ replay[1] = [from |-> 0, to |-> 0]))
  <2>1. [from |-> 0, to |-> 0] \in Transition
    BY DEF Transition
  <2>2. CASE replay = <<>>
    BY <2>2
  <2>3. CASE replay = <<[from |-> 0, to |-> 0]>> /\ kind = "scheduler"
    BY <2>1, <2>3
  <2> QED
    BY <1>2, <2>2, <2>3
<1>4. Experience = replay
  BY <1>1, <1>3 DEF Experience
<1>5. TypeInv /\ Loops /\ SnapsOrdered /\ Fresh
  BY <1>1, <1>2, <1>3 DEF TypeInv, Loops, SnapsOrdered, Fresh, Waiting, Feeds
<1>6. Sent /\ Forward(Experience)
  BY <1>1, <1>3, <1>4 DEF Sent, Forward, InOrder, Waiting
<1> QED
  BY <1>5, <1>6 DEF LInv

(* Steps that leave the experience, the metrics loop and the kind alone.    *)
LEMMA PolicyKeeps ==
    ASSUME LInv, UNCHANGED <<kind, feed, lastGen, channel, replay>>,
           TypeInv', Loops', SnapsOrdered', gen <= gen', snaps.curr <= snaps'.curr
    PROVE  LInv'
<1>1. Experience' = Experience
  BY DEF Experience
<1>2. Forward(Experience)' /\ Fresh'
  BY <1>1 DEF LInv, Forward, InOrder, Fresh
<1>3. \A i \in 1 .. Len(Experience) : Experience[i].to \in Nat
  <2>1. Experience \in Seq(Transition)
    BY ExperienceType DEF LInv
  <2>2. \A i \in 1 .. Len(Experience) : Experience[i] \in Transition
    BY <2>1
  <2> QED
    BY <2>2 DEF Transition
<1>4. gen \in Nat /\ gen' \in Nat /\ snaps.curr \in Nat /\ snaps'.curr \in Nat
  BY DEF LInv, TypeInv
<1>5. Sent'
  BY <1>1, <1>3, <1>4 DEF LInv, Sent
<1> QED
  BY <1>2, <1>5 DEF LInv

(* Steps that move transitions on, or drop them from the front.             *)
LEMMA MovingKeeps ==
    ASSUME LInv, UNCHANGED <<kind, gen, snaps, feed, lastGen, policy>>, NEW d \in {0, 1},
           replay' \in Seq(Transition), channel' \in Seq(Transition),
           kind = "optimizer" => channel' = <<>>, Shifted(Experience, Experience', d)
    PROVE  LInv'
<1>1. TypeInv' /\ Loops' /\ SnapsOrdered' /\ Fresh'
  BY DEF LInv, TypeInv, Loops, SnapsOrdered, Fresh
<1>2. Experience \in Seq(Transition) /\ Experience' \in Seq(Transition)
  BY DEF LInv, TypeInv, Experience
<1>3. Forward(Experience')
  BY <1>2, ForwardShift DEF LInv
<1>4. Forward(Experience)'
  BY <1>3 DEF Forward, InOrder
<1>5. \A i \in 1 .. Len(Experience') :
        i + d \in 1 .. Len(Experience) /\ Experience'[i] = Experience[i + d]
  BY <1>2 DEF Shifted
<1>6. Sent'
  BY <1>5 DEF LInv, Sent
<1> QED
  BY <1>1, <1>4, <1>6 DEF LInv

LEMMA PolicySteps ==
    ASSUME LInv, NEW overload \in BOOLEAN,
           \/ SchedulerNext \/ BalancerTick \/ SchedulerTick
           \/ PolicyStoresPrev \/ PolicyStoresCurr \/ PolicyStops
           \/ SchedulerEpsilon(overload)
    PROVE  LInv'
<1>0. TypeInv /\ Loops /\ SnapsOrdered
  BY DEF LInv
<1>1. CASE SchedulerNext \/ PolicyStops \/ SchedulerEpsilon(overload)
  <2>1. UNCHANGED <<kind, gen, snaps, feed, lastGen, channel, replay>>
        /\ policy' \in {"wait", "done"}
    BY <1>1 DEF SchedulerNext, PolicyStops, SchedulerEpsilon
  <2>2. TypeInv' /\ Loops' /\ SnapsOrdered'
    BY <1>0, <2>1 DEF TypeInv, Loops, SnapsOrdered
  <2> QED
    BY <1>0, <2>1, <2>2, PolicyKeeps DEF TypeInv
<1>2. CASE BalancerTick \/ SchedulerTick
  <2>1. UNCHANGED <<kind, snaps, feed, lastGen, channel, replay>>
        /\ policy' = "prev" /\ gen' = gen + 1 /\ kind # "optimizer"
    BY <1>2 DEF BalancerTick, SchedulerTick
  <2>2. TypeInv' /\ Loops' /\ SnapsOrdered'
    BY <1>0, <2>1 DEF TypeInv, Loops, SnapsOrdered
  <2> QED
    BY <1>0, <2>1, <2>2, PolicyKeeps DEF TypeInv
<1>3. CASE PolicyStoresPrev
  <2>1. UNCHANGED <<kind, gen, feed, lastGen, channel, replay>>
        /\ policy' = "curr" /\ kind # "optimizer"
        /\ snaps' = [prev |-> snaps.curr, curr |-> snaps.curr]
    BY <1>0, <1>3 DEF PolicyStoresPrev, TypeInv, Loops
  <2>2. TypeInv' /\ Loops' /\ SnapsOrdered'
    BY <1>0, <2>1 DEF TypeInv, Loops, SnapsOrdered
  <2> QED
    BY <1>0, <2>1, <2>2, PolicyKeeps DEF TypeInv
<1>4. CASE PolicyStoresCurr
  <2>1. UNCHANGED <<kind, gen, feed, lastGen, channel, replay>>
        /\ policy' = (IF kind = "scheduler" THEN "epsilon" ELSE "wait")
        /\ kind # "optimizer" /\ snaps' = [prev |-> snaps.prev, curr |-> gen]
    BY <1>0, <1>4 DEF PolicyStoresCurr, TypeInv, Loops
  <2>2. TypeInv' /\ Loops'
    BY <1>0, <2>1 DEF TypeInv, Loops
  <2>3. SnapsOrdered'
    <3>1. feed.pc = "send" => feed.transition.to \in Nat
      BY <1>0 DEF TypeInv, Feeds, Transition
    <3>2. feed.pc = "second" => feed.loaded \in Nat
      BY <1>0 DEF TypeInv, Feeds
    <3> QED
      BY <1>0, <2>1, <3>1, <3>2 DEF TypeInv, SnapsOrdered
  <2> QED
    BY <1>0, <2>1, <2>2, <2>3, PolicyKeeps DEF TypeInv, SnapsOrdered
<1> QED
  BY <1>1, <1>2, <1>3, <1>4

LEMMA TrainingSteps ==
    ASSUME LInv, ReplayCap \in Nat, NEW overload \in BOOLEAN,
           \/ BalancerReceives \/ SchedulerReceives(overload)
           \/ TrainCancelled \/ TrainDrains
    PROVE  LInv'
<1>1. TypeInv /\ Loops
  BY DEF LInv
<1>2. UNCHANGED <<kind, gen, snaps, feed, lastGen, policy>>
  BY DEF BalancerReceives, SchedulerReceives, TrainCancelled, TrainDrains
<1>3. CASE UNCHANGED <<replay, channel>>
  <2>1. Experience' = Experience
    BY <1>3 DEF Experience
  <2>2. Shifted(Experience, Experience', 0)
    BY <1>1, <2>1, ExperienceType DEF Shifted
  <2> QED
    BY <1>1, <1>2, <1>3, <2>2, MovingKeeps DEF TypeInv, Loops
<1>4. CASE /\ channel # <<>> /\ channel' = Tail(channel)
           /\ replay' = Remember(replay, ReplayCap, Head(channel))
  <2>1. replay \in Seq(Transition) /\ channel \in Seq(Transition) /\ kind # "optimizer"
    BY <1>1, <1>4 DEF TypeInv, Loops
  <2>2. PICK d \in {0, 1} :
           Shifted(replay \o channel,
                   Remember(replay, ReplayCap, Head(channel)) \o Tail(channel), d)
    BY <1>4, <2>1, MoveShifts
  <2>3. Shifted(Experience, Experience', d)
    BY <1>4, <2>2 DEF Experience
  <2>4. replay' \in Seq(Transition) /\ channel' \in Seq(Transition)
    BY <1>4, <2>1, MoveShifts
  <2> QED
    BY <1>2, <2>1, <2>3, <2>4, MovingKeeps
<1> QED
  BY <1>3, <1>4 DEF BalancerReceives, SchedulerReceives, TrainCancelled, TrainDrains

(* Steps of the metrics loop that add nothing to the experience.            *)
LEMMA MetricsKeeps ==
    ASSUME LInv, UNCHANGED <<kind, gen, snaps, policy, channel, replay>>,
           TypeInv', Loops', SnapsOrdered', Fresh', lastGen <= lastGen',
           feed'.pc = "send" =>
              /\ kind = "balancer" => lastGen < feed'.transition.to
              /\ kind = "scheduler" => snaps.curr <= feed'.transition.to
    PROVE  LInv'
<1>1. Experience' = Experience
  BY DEF Experience
<1>2. Forward(Experience)'
  BY <1>1 DEF LInv, Forward, InOrder
<1>3. \A i \in 1 .. Len(Experience) : Experience[i].to \in Nat
  <2>1. Experience \in Seq(Transition)
    BY ExperienceType DEF LInv
  <2>2. \A i \in 1 .. Len(Experience) : Experience[i] \in Transition
    BY <2>1
  <2> QED
    BY <2>2 DEF Transition
<1>4. /\ lastGen \in Nat /\ lastGen' \in Nat /\ snaps.curr \in Nat
      /\ feed'.pc = "send" => feed'.transition.to \in Nat
  BY DEF LInv, TypeInv, Feeds, Transition
<1>5. Sent'
  BY <1>1, <1>3, <1>4 DEF LInv, Sent
<1> QED
  BY <1>2, <1>5 DEF LInv

LEMMA MetricsSteps ==
    ASSUME LInv, NEW v,
           \/ BalancerOnMetrics(v) \/ SchedulerOnMetrics
           \/ MetricsLoadFirst \/ MetricsLoadSecond
    PROVE  LInv'
<1>0. TypeInv /\ Loops /\ SnapsOrdered
  BY DEF LInv
<1>1. CASE BalancerOnMetrics(v) \/ SchedulerOnMetrics
  <2>1. /\ UNCHANGED <<kind, gen, snaps, policy, lastGen, channel, replay>>
        /\ kind # "optimizer" /\ feed.pc = "wait"
        /\ feed' = [feed EXCEPT !.pc = "first", !.ticks = @ + 1]
    BY <1>1 DEF BalancerOnMetrics, SchedulerOnMetrics
  <2>2. feed' \in [pc : {"wait", "first"}, ticks : Nat] /\ feed'.pc = "first"
    <3>1. feed \in [pc : {"wait", "first"}, ticks : Nat]
      BY <1>0, <2>1 DEF TypeInv, Feeds
    <3>2. feed' = [pc |-> "first", ticks |-> feed.ticks + 1] /\ feed.ticks \in Nat
      BY <2>1, <3>1
    <3> QED
      BY <3>2
  <2>3. TypeInv' /\ Loops' /\ SnapsOrdered' /\ Fresh'
    BY <1>0, <2>1, <2>2 DEF TypeInv, Loops, SnapsOrdered, Fresh, Feeds
  <2> QED
    BY <1>0, <2>1, <2>2, <2>3, MetricsKeeps DEF TypeInv
<1>2. CASE MetricsLoadFirst
  <2>1. /\ UNCHANGED <<kind, gen, snaps, policy, lastGen, channel, replay>>
        /\ feed.pc = "first"
        /\ feed' = [pc |-> "second", ticks |-> feed.ticks, loaded |-> snaps.prev]
    BY <1>2 DEF MetricsLoadFirst, Snapshot, LoadOrder
  <2>2. feed' \in Feeds /\ feed'.pc = "second" /\ feed'.loaded = snaps.prev
    BY <1>0, <2>1 DEF TypeInv, Feeds
  <2>3. TypeInv' /\ Loops' /\ SnapsOrdered' /\ Fresh'
    BY <1>0, <2>1, <2>2 DEF TypeInv, Loops, SnapsOrdered, Fresh
  <2> QED
    BY <1>0, <2>1, <2>2, <2>3, MetricsKeeps DEF TypeInv
<1>3. CASE MetricsLoadSecond
  <2>1. /\ UNCHANGED <<kind, gen, snaps, policy, channel, replay>>
        /\ feed.pc = "second" /\ kind # "optimizer"
    BY <1>0, <1>3 DEF MetricsLoadSecond, Loops
  <2>2. feed.loaded \in Nat /\ feed.ticks \in Nat /\ Loaded = [from |-> feed.loaded, to |-> snaps.curr]
    BY <1>0, <2>1 DEF TypeInv, Feeds, Loaded, Read, Snapshot, LoadOrder
  <2>3. CASE Usable(Loaded)
    <3>1. /\ feed' = [pc |-> "send", ticks |-> feed.ticks, transition |-> Loaded]
          /\ lastGen' = IF kind = "balancer" THEN snaps.curr ELSE lastGen
          /\ kind = "balancer" => snaps.curr > lastGen
      BY <1>3, <2>2, <2>3 DEF MetricsLoadSecond, Usable
    <3>2. Loaded \in Transition /\ Loaded.from = feed.loaded /\ Loaded.to = snaps.curr
      BY <1>0, <2>2 DEF TypeInv, Transition
    <3>3. feed' \in Feeds /\ feed'.pc = "send" /\ feed'.transition = Loaded
      BY <2>2, <3>1, <3>2 DEF Feeds
    <3>4. TypeInv' /\ Loops' /\ SnapsOrdered' /\ Fresh'
      BY <1>0, <2>1, <3>1, <3>2, <3>3 DEF TypeInv, Loops, SnapsOrdered, Fresh
    <3> QED
      BY <1>0, <2>1, <3>1, <3>2, <3>3, <3>4, MetricsKeeps DEF TypeInv
  <2>4. CASE ~Usable(Loaded)
    <3>1. feed' = [pc |-> "wait", ticks |-> feed.ticks] /\ lastGen' = lastGen
      BY <1>3, <2>4 DEF MetricsLoadSecond
    <3>2. feed' \in Feeds /\ feed'.pc = "wait"
      BY <2>2, <3>1 DEF Feeds
    <3>3. TypeInv' /\ Loops' /\ SnapsOrdered' /\ Fresh'
      BY <1>0, <2>1, <3>1, <3>2 DEF TypeInv, Loops, SnapsOrdered, Fresh
    <3> QED
      BY <1>0, <2>1, <3>1, <3>2, <3>3, MetricsKeeps DEF TypeInv
  <2> QED
    BY <2>3, <2>4
<1> QED
  BY <1>1, <1>2, <1>3

(* A transition is sent, or dropped at a full channel.                      *)
LEMMA SendStep ==
    ASSUME LInv, MetricsSend
    PROVE  LInv'
<1>0. TypeInv /\ Loops /\ SnapsOrdered /\ Sent /\ Fresh /\ Forward(Experience)
  BY DEF LInv
<1> DEFINE t == feed.transition
<1>1. /\ UNCHANGED <<kind, gen, snaps, policy, lastGen, replay>>
      /\ feed.pc = "send" /\ kind # "optimizer"
      /\ feed' = [pc |-> "wait", ticks |-> feed.ticks]
      /\ channel' \in {Append(channel, t), channel}
  BY <1>0 DEF MetricsSend, Loops
<1>2. t \in Transition /\ feed.ticks \in Nat
  BY <1>0, <1>1 DEF TypeInv, Feeds
<1>3. feed' \in Feeds /\ feed'.pc = "wait"
  BY <1>1, <1>2 DEF Feeds
<1>4. channel' \in Seq(Transition)
  <2>1. channel \in Seq(Transition)
    BY <1>0 DEF TypeInv
  <2>2. Append(channel, t) \in Seq(Transition)
    BY <1>2, <2>1
  <2> QED
    BY <1>1, <2>1, <2>2
<1>5. TypeInv' /\ Loops' /\ SnapsOrdered' /\ Fresh'
  BY <1>0, <1>1, <1>3, <1>4 DEF TypeInv, Loops, SnapsOrdered, Fresh
<1>6. CASE channel' = channel
  BY <1>0, <1>1, <1>2, <1>5, <1>6, MetricsKeeps, <1>3 DEF TypeInv
<1>7. CASE channel' = Append(channel, t)
  <2>1. Experience' = Append(Experience, t) /\ Experience \in Seq(Transition)
    BY <1>0, <1>1, <1>2, <1>7 DEF TypeInv, Experience
  <2>2. \A i \in 1 .. Len(Experience) : InOrder(Experience[i], t)
    BY <1>0, <1>1 DEF TypeInv, Sent, InOrder
  <2>3. Forward(Append(Experience, t))
    BY <1>0, <1>1, <1>2, <2>1, <2>2, ForwardAppend DEF SnapsOrdered
  <2>4. Forward(Experience)'
    BY <1>1, <2>1, <2>3 DEF Forward, InOrder
  <2>5. /\ Len(Experience') = Len(Experience) + 1 /\ Experience'[Len(Experience) + 1] = t
        /\ \A i \in 1 .. Len(Experience) : Experience'[i] = Experience[i]
    BY <2>1, <1>2
  <2>6. Sent'
    <3> SUFFICES ASSUME NEW i \in 1 .. Len(Experience')
                 PROVE  /\ kind = "balancer" => Experience'[i].to <= lastGen
                        /\ kind = "scheduler" => Experience'[i].to <= snaps.curr
      BY <1>1, <1>3 DEF Sent
    <3>1. CASE i \in 1 .. Len(Experience)
      BY <1>0, <2>5, <3>1 DEF Sent
    <3>2. CASE i = Len(Experience) + 1
      BY <1>0, <1>1, <1>2, <2>5, <3>2 DEF Fresh, SnapsOrdered, TypeInv, Transition
    <3> QED
      BY <2>1, <2>5, <3>1, <3>2
  <2> QED
    BY <1>5, <2>4, <2>6 DEF LInv
<1> QED
  BY <1>1, <1>6, <1>7

(* The optimizer's own buffer grows at its newer end by a newer transition. *)
LEMMA OptimizerStep ==
    ASSUME LInv, ReplayCap \in Nat, OptimizerTick
    PROVE  LInv'
<1>0. TypeInv /\ Loops /\ SnapsOrdered /\ Sent /\ Forward(Experience)
  BY DEF LInv
<1>1. /\ kind = "optimizer" /\ gen' = gen + 1 /\ gen \in Nat
      /\ UNCHANGED <<kind, policy, feed, lastGen, channel>>
      /\ snaps' = [prev |-> gen + 1, curr |-> snaps.curr]
      /\ snaps.prev \in Nat /\ snaps.curr \in Nat
      /\ feed.pc = "wait" /\ channel = <<>>
  BY <1>0 DEF OptimizerTick, TypeInv, Loops
<1>2. Experience = replay /\ Experience' = replay' /\ replay \in Seq(Transition)
  BY <1>0, <1>1 DEF Experience, TypeInv
<1>3. Loops' /\ SnapsOrdered' /\ Fresh'
  BY <1>0, <1>1 DEF Loops, SnapsOrdered, Fresh
<1>4. SUFFICES /\ replay' \in Seq(Transition) /\ Forward(replay')
               /\ \A i \in 1 .. Len(replay') : replay'[i].to <= gen + 1
  <2>1. TypeInv'
    BY <1>0, <1>1, <1>4 DEF TypeInv
  <2>2. Sent'
    BY <1>1, <1>2, <1>4 DEF Sent
  <2>3. Forward(Experience)'
    BY <1>1, <1>2, <1>4 DEF Forward, InOrder
  <2> QED
    BY <1>3, <2>1, <2>2, <2>3 DEF LInv
<1>5. \A i \in 1 .. Len(replay) : replay[i].to \in Nat /\ replay[i].to <= gen
  <2>1. \A i \in 1 .. Len(replay) : replay[i] \in Transition
    BY <1>2
  <2> QED
    BY <1>0, <1>1, <1>2, <2>1 DEF Sent, Transition
<1>6. CASE snaps.prev = 0
  <2>1. replay' = replay
    BY <1>6 DEF OptimizerTick
  <2> QED
    BY <1>0, <1>1, <1>2, <1>5, <2>1
<1>7. CASE snaps.prev # 0
  <2> DEFINE t == [from |-> snaps.prev, to |-> gen + 1]
             a == Append(replay, t)
  <2>1. replay' = Remember(replay, ReplayCap, t)
    BY <1>7 DEF OptimizerTick, Store
  <2>2. t \in Transition /\ t.from <= t.to /\ t.to = gen + 1
    BY <1>0, <1>1 DEF Transition, SnapsOrdered
  <2>3. Forward(a) /\ a \in Seq(Transition)
    <3>1. \A i \in 1 .. Len(replay) : InOrder(replay[i], t)
      BY <1>1, <1>5, <2>2 DEF InOrder
    <3> HIDE DEF t
    <3> QED
      BY <1>0, <1>2, <2>2, <3>1, ForwardAppend
  <2>4. \A i \in 1 .. Len(a) : a[i].to <= gen + 1
    <3> HIDE DEF t
    <3>1. /\ Len(a) = Len(replay) + 1 /\ a[Len(replay) + 1] = t
          /\ \A i \in 1 .. Len(replay) : a[i] = replay[i]
      BY <1>2, <2>2
    <3> QED
      BY <1>1, <1>2, <1>5, <2>2, <3>1
  <2>5. PICK d \in {0, 1} : replay' \in Seq(Transition) /\ Shifted(a, replay', d)
    <3> HIDE DEF t
    <3> QED
      BY <1>2, <2>1, <2>2, KeepType
  <2>6. Forward(replay')
    BY <2>3, <2>5, ForwardShift
  <2>7. \A i \in 1 .. Len(replay') : replay'[i].to <= gen + 1
    BY <2>3, <2>4, <2>5 DEF Shifted
  <2> QED
    BY <2>5, <2>6, <2>7
<1> QED
  BY <1>6, <1>7

LEMMA LNext ==
    ASSUME LInv, ReplayCap \in Nat, [LearnerNext]_learnerVars
    PROVE  LInv'
<1>1. CASE \/ SchedulerNext \/ BalancerTick \/ SchedulerTick
           \/ PolicyStoresPrev \/ PolicyStoresCurr \/ PolicyStops
           \/ \E overload \in BOOLEAN : SchedulerEpsilon(overload)
  BY <1>1, PolicySteps
<1>2. CASE \/ BalancerReceives \/ TrainCancelled \/ TrainDrains
           \/ \E overload \in BOOLEAN : SchedulerReceives(overload)
  BY <1>2, TrainingSteps
<1>3. CASE \/ SchedulerOnMetrics \/ MetricsLoadFirst \/ MetricsLoadSecond
           \/ \E v \in {Bad, Good} : BalancerOnMetrics(v)
  BY <1>3, MetricsSteps
<1>4. CASE MetricsSend
  BY <1>4, SendStep
<1>5. CASE OptimizerTick
  BY <1>5, OptimizerStep
<1>6. CASE Stop \/ UNCHANGED learnerVars
  <2>1. UNCHANGED <<kind, gen, snaps, policy, feed, lastGen, channel, replay>>
    BY <1>6 DEF Stop, learnerVars
  <2>2. Experience' = Experience
    BY <2>1 DEF Experience
  <2> QED
    BY <2>1, <2>2 DEF LInv, TypeInv, Loops, SnapsOrdered, Sent, Fresh, Forward, InOrder
<1> QED
  BY <1>1, <1>2, <1>3, <1>4, <1>5, <1>6 DEF LearnerNext

(* Whatever the sizes of channel and buffer and however the loops           *)
(* interleave, no learner is taught time running backwards: ExperienceForward *)
(* holds of DQNBalancer, DQNScheduler and DDPG.                             *)
THEOREM ExperienceMovesForward ==
    ASSUME ReplayCap \in Nat
    PROVE  LearnerSpec => []ExperienceForward
<1>1. LInv => ExperienceForward
  BY ForwardIs DEF LInv, TypeInv
<1> QED
  BY <1>1, LInit, LNext, PTL DEF LearnerSpec

(* ------------------------------- fallback ------------------------------- *)

Verdicts == {Bad, Good}

(* The counters are the lengths of the runs the recorded verdicts end in,   *)
(* as far as they reach back.                                               *)
Runs(f, seen) ==
    /\ f.bad < Len(seen) => seen[Len(seen) - f.bad] = Good
    /\ f.good < Len(seen) => seen[Len(seen) - f.good] = Bad
    /\ \A i \in 1 .. Len(seen) : seen[i] = Bad => f.good <= Len(seen) - i

(* What the counters say of the flags.                                      *)
Flags(f, seen) ==
    /\ f.bad >= EnterTicks => f.active
    /\ f.good >= ExitTicks => ~f.active /\ ~f.suppressed
    /\ f.active => f.suppressed
    /\ \A i \in 1 .. Len(seen) : seen[i] = Bad => f.suppressed

Fallbacks == [bad : Nat, good : Nat, suppressed : BOOLEAN, active : BOOLEAN]

HInv ==
    /\ fallback \in Fallbacks
    /\ verdicts \in Seq(Verdicts) /\ Len(verdicts) <= ExitTicks
    /\ Runs(fallback, verdicts) /\ Flags(fallback, verdicts)
    /\ kind # "balancer" => /\ verdicts = <<>> /\ ~fallback.active
                            /\ fallback.good = 0 /\ fallback.bad = 0
    /\ policy = "epsilon" => kind = "scheduler"

TicksPositive == EnterTicks \in Nat \ {0} /\ ExitTicks \in Nat \ {0}

LEMMA TwoVerdicts == Bad # Good
BY DEF Bad, Good

LEMMA HInvImplies == ASSUME HInv, TicksPositive PROVE FallbackHysteresis
<1>1. /\ Len(verdicts) \in Nat /\ DOMAIN verdicts = 1 .. Len(verdicts)
      /\ fallback.bad \in Nat /\ fallback.good \in Nat
      /\ EnterTicks \in Nat \ {0} /\ ExitTicks \in Nat \ {0}
  BY DEF HInv, Fallbacks, TicksPositive
<1>2. (\E i \in DOMAIN verdicts : verdicts[i] = Bad) => fallback.suppressed
  BY <1>1 DEF HInv, Flags
<1>3. ASSUME LastAll(EnterTicks, Bad) PROVE fallback.active
  <2>1. /\ Len(verdicts) >= EnterTicks
        /\ \A i \in Len(verdicts) - EnterTicks + 1 .. Len(verdicts) : verdicts[i] = Bad
    BY <1>3 DEF LastAll
  <2>2. CASE fallback.bad < EnterTicks
    <3>1. Len(verdicts) - fallback.bad \in Len(verdicts) - EnterTicks + 1 .. Len(verdicts)
      BY <1>1, <2>2
    <3>2. verdicts[Len(verdicts) - fallback.bad] = Bad
      BY <2>1, <3>1
    <3>3. fallback.bad < Len(verdicts)
      BY <1>1, <2>1, <2>2
    <3> QED
      BY <3>2, <3>3, TwoVerdicts DEF HInv, Runs
  <2> QED
    BY <1>1, <2>2 DEF HInv, Flags
<1>4. ASSUME LastAll(ExitTicks, Good) PROVE ~fallback.active /\ ~fallback.suppressed
  <2>1. /\ Len(verdicts) >= ExitTicks
        /\ \A i \in Len(verdicts) - ExitTicks + 1 .. Len(verdicts) : verdicts[i] = Good
    BY <1>4 DEF LastAll
  <2>2. CASE fallback.good < ExitTicks
    <3>1. Len(verdicts) - fallback.good \in Len(verdicts) - ExitTicks + 1 .. Len(verdicts)
      BY <1>1, <2>2
    <3>2. verdicts[Len(verdicts) - fallback.good] = Good
      BY <2>1, <3>1
    <3>3. fallback.good < Len(verdicts)
      BY <1>1, <2>1, <2>2
    <3> QED
      BY <3>2, <3>3, TwoVerdicts DEF HInv, Runs
  <2> QED
    BY <1>1, <2>2 DEF HInv, Flags
<1> QED
  BY <1>2, <1>3, <1>4 DEF FallbackHysteresis, HInv, Flags

LEMMA HInit == ASSUME LearnerInit, TicksPositive PROVE HInv
<1>1. /\ fallback = [bad |-> 0, good |-> 0, active |-> FALSE, suppressed |-> FALSE]
      /\ verdicts = <<>> /\ policy # "epsilon"
  BY DEF LearnerInit, NewDQNBalancer, NewDQNScheduler, NewDDPG
<1>2. fallback \in Fallbacks /\ fallback.bad = 0 /\ fallback.good = 0
      /\ ~fallback.active /\ ~fallback.suppressed
  BY <1>1 DEF Fallbacks
<1>3. verdicts \in Seq(Verdicts) /\ Len(verdicts) = 0
  BY <1>1
<1>4. Runs(fallback, verdicts)
  BY <1>2, <1>3 DEF Runs
<1>5. Flags(fallback, verdicts)
  BY <1>2, <1>3 DEF Flags, TicksPositive
<1> QED
  BY <1>1, <1>2, <1>3, <1>4, <1>5 DEF HInv, TicksPositive

(* One more verdict, the oldest forgotten.                                  *)
LEMMA JudgeKeeps ==
    ASSUME TicksPositive, NEW f \in Fallbacks, NEW s \in Seq(Verdicts),
           Len(s) <= ExitTicks, Runs(f, s), Flags(f, s), NEW v \in Verdicts
    PROVE  /\ Judge(f, v) \in Fallbacks /\ Remember(s, ExitTicks, v) \in Seq(Verdicts)
           /\ Len(Remember(s, ExitTicks, v)) <= ExitTicks
           /\ Runs(Judge(f, v), Remember(s, ExitTicks, v))
           /\ Flags(Judge(f, v), Remember(s, ExitTicks, v))
<1> DEFINE a == Append(s, v)
           n == Remember(s, ExitTicks, v)
           g == Judge(f, v)
<1>1. /\ EnterTicks \in Nat \ {0} /\ ExitTicks \in Nat \ {0}
      /\ f.bad \in Nat /\ f.good \in Nat /\ f.active \in BOOLEAN /\ f.suppressed \in BOOLEAN
      /\ Len(s) \in Nat
  BY DEF TicksPositive, Fallbacks
<1>2. /\ a \in Seq(Verdicts) /\ Len(a) = Len(s) + 1 /\ a[Len(s) + 1] = v
      /\ \A i \in 1 .. Len(s) : a[i] = s[i]
  OBVIOUS
<1>3. PICK d \in {0, 1} : n \in Seq(Verdicts) /\ Shifted(a, n, d)
  BY <1>1, KeepType
<1>4. Len(n) <= ExitTicks
  <2>1. a # <<>>
    BY <1>1, <1>2
  <2>2. Len(Tail(a)) = Len(a) - 1
    BY <1>2, <2>1
  <2> QED
    BY <1>1, <1>2, <2>2 DEF Remember
<1>5. /\ Len(n) = Len(s) + 1 - d /\ Len(n) \in Nat
      /\ Len(n) > 0 => n[Len(n)] = v
      /\ \A i \in 1 .. Len(n) - 1 : i + d \in 1 .. Len(s) /\ n[i] = s[i + d]
  <2>1. Len(n) = Len(s) + 1 - d /\ \A i \in 1 .. Len(n) : n[i] = a[i + d]
    BY <1>2, <1>3 DEF Shifted
  <2>2. Len(n) \in Nat
    BY <1>3
  <2> HIDE DEF a, n
  <2>3. Len(n) > 0 => n[Len(n)] = v
    BY <1>1, <1>2, <2>1, <2>2
  <2>4. \A i \in 1 .. Len(n) - 1 : i + d \in 1 .. Len(s) /\ n[i] = s[i + d]
    BY <1>1, <1>2, <2>1, <2>2
  <2> QED
    BY <2>1, <2>2, <2>3, <2>4
<1> HIDE DEF a, n
<1>6. CASE v = Bad
  <2>1. g = [bad |-> f.bad + 1, good |-> 0, suppressed |-> TRUE,
             active |-> f.active \/ f.bad + 1 >= EnterTicks]
    BY <1>6 DEF Judge
  <2>2. /\ g \in Fallbacks /\ g.bad = f.bad + 1 /\ g.good = 0 /\ g.suppressed
        /\ g.active <=> (f.active \/ f.bad + 1 >= EnterTicks)
    <3>1. PICK b \in BOOLEAN : b = (f.active \/ f.bad + 1 >= EnterTicks)
      OBVIOUS
    <3>2. g = [bad |-> f.bad + 1, good |-> 0, suppressed |-> TRUE, active |-> b]
      BY <2>1, <3>1
    <3>3. g \in Fallbacks
      BY <1>1, <3>2 DEF Fallbacks
    <3>4. g.bad = f.bad + 1 /\ g.good = 0 /\ g.suppressed = TRUE /\ g.active = b
      BY <3>2
    <3> HIDE DEF g
    <3> QED
      BY <3>1, <3>3, <3>4
  <2> HIDE DEF g
  <2>3. g.bad < Len(n) => n[Len(n) - g.bad] = Good
    <3> SUFFICES ASSUME g.bad < Len(n) PROVE n[Len(n) - g.bad] = Good
      OBVIOUS
    <3>0. g.bad = f.bad + 1 /\ f.bad \in Nat /\ Len(s) \in Nat /\ Len(n) = Len(s) + 1 - d
      BY <1>1, <1>5, <2>2
    <3>1. /\ Len(n) - g.bad \in 1 .. Len(n) - 1 /\ (Len(n) - g.bad) + d = Len(s) - f.bad
          /\ f.bad < Len(s)
      BY <3>0
    <3> QED
      BY <1>5, <3>1 DEF Runs
  <2>4. g.good < Len(n) => n[Len(n) - g.good] = Bad
    BY <1>5, <1>6, <2>2
  <2>5. \A i \in 1 .. Len(n) : n[i] = Bad => g.good <= Len(n) - i
    BY <1>5, <2>2
  <2>6. Flags(g, n)
    BY <1>1, <2>2 DEF Flags
  <2> QED
    BY <1>3, <1>4, <2>2, <2>3, <2>4, <2>5, <2>6 DEF Runs, g, n
<1>7. CASE v = Good
  <2>1. g = [bad |-> 0, good |-> f.good + 1,
             suppressed |-> f.suppressed /\ f.good + 1 < ExitTicks,
             active |-> f.active /\ f.good + 1 < ExitTicks]
    BY <1>7, TwoVerdicts DEF Judge
  <2>2. /\ g \in Fallbacks /\ g.bad = 0 /\ g.good = f.good + 1
        /\ g.suppressed <=> (f.suppressed /\ f.good + 1 < ExitTicks)
        /\ g.active <=> (f.active /\ f.good + 1 < ExitTicks)
    <3>1. PICK b \in BOOLEAN : b = (f.active /\ f.good + 1 < ExitTicks)
      OBVIOUS
    <3>2. PICK c \in BOOLEAN : c = (f.suppressed /\ f.good + 1 < ExitTicks)
      OBVIOUS
    <3>3. g = [bad |-> 0, good |-> f.good + 1, suppressed |-> c, active |-> b]
      BY <2>1, <3>1, <3>2
    <3>4. g \in Fallbacks
      BY <1>1, <3>3 DEF Fallbacks
    <3>5. g.bad = 0 /\ g.good = f.good + 1 /\ g.suppressed = c /\ g.active = b
      BY <3>3
    <3> HIDE DEF g
    <3> QED
      BY <3>1, <3>2, <3>4, <3>5
  <2> HIDE DEF g
  <2>3. g.bad < Len(n) => n[Len(n) - g.bad] = Good
    BY <1>5, <1>7, <2>2
  <2>4. g.good < Len(n) => n[Len(n) - g.good] = Bad
    <3> SUFFICES ASSUME g.good < Len(n) PROVE n[Len(n) - g.good] = Bad
      OBVIOUS
    <3>0. g.good = f.good + 1 /\ f.good \in Nat /\ Len(s) \in Nat /\ Len(n) = Len(s) + 1 - d
      BY <1>1, <1>5, <2>2
    <3>1. /\ Len(n) - g.good \in 1 .. Len(n) - 1 /\ (Len(n) - g.good) + d = Len(s) - f.good
          /\ f.good < Len(s)
      BY <3>0
    <3> QED
      BY <1>5, <3>1 DEF Runs
  <2>5. ASSUME NEW i \in 1 .. Len(n), n[i] = Bad
        PROVE  g.good <= Len(n) - i /\ i + d \in 1 .. Len(s) /\ s[i + d] = Bad
    <3>1. i \in 1 .. Len(n) - 1
      BY <1>5, <1>7, <2>5, TwoVerdicts
    <3>2. i + d \in 1 .. Len(s) /\ s[i + d] = Bad
      BY <1>5, <2>5, <3>1
    <3>3. f.good <= Len(s) - (i + d)
      BY <3>2 DEF Runs
    <3> QED
      BY <1>1, <1>5, <2>2, <3>2, <3>3
  <2>6. \A i \in 1 .. Len(n) : n[i] = Bad => g.suppressed
    <3> SUFFICES ASSUME NEW i \in 1 .. Len(n), n[i] = Bad PROVE g.suppressed
      OBVIOUS
    <3>1. f.suppressed
      BY <2>5 DEF Flags
    <3>2. f.good + 1 < ExitTicks
      BY <1>1, <1>4, <1>5, <2>2, <2>5
    <3> QED
      BY <2>2, <3>1, <3>2
  <2>7. Flags(g, n)
    <3>1. ~(g.bad >= EnterTicks)
      BY <1>1, <2>2
    <3>2. g.good >= ExitTicks => ~g.active /\ ~g.suppressed
      BY <1>1, <2>2
    <3>3. g.active => g.suppressed
      BY <2>2 DEF Flags
    <3> QED
      BY <2>6, <3>1, <3>2, <3>3 DEF Flags
  <2> QED
    BY <1>3, <1>4, <2>2, <2>3, <2>4, <2>5, <2>7 DEF Runs, g, n
<1> QED
  BY <1>6, <1>7 DEF Verdicts

LEMMA HNext ==
    ASSUME HInv, TicksPositive, [LearnerNext]_learnerVars
    PROVE  HInv'
<1>1. CASE \E v \in {Bad, Good} : BalancerOnMetrics(v)
  <2>1. PICK v \in Verdicts : BalancerOnMetrics(v)
    BY <1>1 DEF Verdicts
  <2>2. /\ kind = "balancer" /\ kind' = kind /\ policy' = policy
        /\ fallback' = Judge(fallback, v) /\ verdicts' = Remember(verdicts, ExitTicks, v)
    BY <2>1 DEF BalancerOnMetrics
  <2>3. /\ fallback' \in Fallbacks /\ verdicts' \in Seq(Verdicts)
        /\ Len(verdicts') <= ExitTicks /\ Runs(fallback', verdicts')
        /\ Flags(fallback', verdicts')
    BY <2>2, JudgeKeeps DEF HInv
  <2> QED
    BY <2>2, <2>3 DEF HInv, Runs, Flags, Verdicts, Bad, Good
<1>2. CASE \E overload \in BOOLEAN : SchedulerEpsilon(overload)
  <2>1. PICK overload \in BOOLEAN : SchedulerEpsilon(overload)
    BY <1>2
  <2>2. /\ policy' = "wait" /\ kind' = kind /\ kind = "scheduler" /\ verdicts' = verdicts
        /\ fallback' = [fallback EXCEPT !.suppressed = overload]
    BY <2>1 DEF SchedulerEpsilon, HInv
  <2>3. verdicts = <<>> /\ ~fallback.active /\ fallback.good = 0 /\ fallback.bad = 0
    BY <2>2 DEF HInv
  <2>4. /\ fallback' \in Fallbacks /\ ~fallback'.active
        /\ fallback'.good = 0 /\ fallback'.bad = 0
    BY <2>2, <2>3 DEF HInv, Fallbacks
  <2>5. Len(verdicts') = 0 /\ verdicts' = <<>>
    BY <2>2, <2>3
  <2>6. Runs(fallback', verdicts') /\ Flags(fallback', verdicts')
    BY <2>4, <2>5 DEF Runs, Flags, TicksPositive
  <2> QED
    BY <2>2, <2>4, <2>5, <2>6 DEF HInv, Runs, Flags, Verdicts, Bad, Good
<1>3. ASSUME UNCHANGED <<kind, fallback, verdicts>>,
             policy' = policy \/ policy' # "epsilon" \/ kind = "scheduler"
      PROVE  HInv'
  BY <1>3 DEF HInv, Runs, Flags, Verdicts, Bad, Good
<1>4. CASE SchedulerNext \/ BalancerTick \/ SchedulerTick \/ PolicyStoresPrev
           \/ PolicyStoresCurr \/ PolicyStops
  BY <1>3, <1>4 DEF SchedulerNext, BalancerTick, SchedulerTick, PolicyStoresPrev,
                    PolicyStoresCurr, PolicyStops
<1>5. CASE SchedulerOnMetrics \/ MetricsLoadFirst \/ MetricsLoadSecond \/ MetricsSend
  BY <1>3, <1>5 DEF SchedulerOnMetrics, MetricsLoadFirst, MetricsLoadSecond, MetricsSend
<1>6. CASE \/ BalancerReceives \/ TrainCancelled \/ TrainDrains
           \/ \E overload \in BOOLEAN : SchedulerReceives(overload)
  BY <1>3, <1>6 DEF BalancerReceives, SchedulerReceives, TrainCancelled, TrainDrains
<1>7. CASE OptimizerTick \/ Stop \/ UNCHANGED learnerVars
  BY <1>3, <1>7 DEF OptimizerTick, Stop, learnerVars
<1> QED
  BY <1>1, <1>2, <1>4, <1>5, <1>6, <1>7 DEF LearnerNext

(* For all positive fallbackEnterTicks and fallbackExitTicks,               *)
(* DQNBalancer.OnMetrics has the hysteresis of FallbackHysteresis; with     *)
(* either at zero it would not.                                             *)
THEOREM FallbackFollowsVerdicts ==
    ASSUME TicksPositive
    PROVE  LearnerSpec => []FallbackHysteresis
<1> QED
  BY HInit, HNext, HInvImplies, PTL DEF LearnerSpec

=============================================================================
