-------------------------- MODULE AdaptationProofs --------------------------
(* Proofs about two feedback loops.  About Tuning: for every set of         *)
(* parameters, resolution of the actions, warm-up, and number and content   *)
(* of competing ApplyConfig calls.  About Feedback: for every number of     *)
(* consumers, messages and levels.                                          *)
EXTENDS Tuning, Feedback, TLAPS

Callers == {"optimizer", "other"}

-----------------------------------------------------------------------------
(* Snapshots.  A call between its load and its store holds a snapshot that  *)
(* was published, and builds the new one from that.                         *)

Consistent(s) ==
    /\ s.codec = NewCodec(s.cfg["CompressionType"])
    /\ s.gate = NewGate(s.cfg["NumIOGoroutines"])

SnapInv ==
    /\ Consistent(snap)
    /\ DOMAIN apply = Callers /\ apply = [c \in Callers |-> apply[c]]
    /\ \A c \in Callers : apply[c].pc = "store" => Consistent(apply[c].old)

(* What is kept fits, because it fitted and its field did not change.       *)
LEMMA NewSnapshotConsistent ==
    ASSUME NEW cfg, NEW old, Consistent(old)
    PROVE  Consistent(NewSnapshot(cfg, old))
BY DEF Consistent, NewSnapshot

LEMMA CallKeeps ==
    ASSUME SnapInv, NEW c \in Callers, NEW cfg, Call(c, cfg), UNCHANGED snap
    PROVE  SnapInv'
BY DEF SnapInv, Call, Callers

LEMMA ApplyKeeps ==
    ASSUME SnapInv, NEW c \in Callers, ApplyLoad(c) \/ ApplyStore(c)
    PROVE  SnapInv'
<1>1. CASE ApplyLoad(c)
  BY <1>1 DEF ApplyLoad, SnapInv, NoCall, Consistent
<1>2. CASE ApplyStore(c)
  <2>1. Consistent(snap)'
    <3>1. Consistent(NewSnapshot(apply[c].cfg, apply[c].old))
      BY <1>2, NewSnapshotConsistent DEF ApplyStore, SnapInv
    <3> QED
      BY <3>1, <1>2 DEF ApplyStore, Consistent
  <2> QED
    BY <1>2, <2>1 DEF ApplyStore, SnapInv, NoCall
<1> QED
  BY <1>1, <1>2

(* However ApplyConfig calls interleave, the codec and the gate of the      *)
(* published snapshot belong to its configuration (Broker.ApplyConfig).     *)
THEOREM SnapshotsAreConsistent == TuningSpec => []SnapshotConsistent
<1>1. TuningInit => SnapInv
  BY DEF TuningInit, SnapInv, Consistent, NoCall, Callers
<1>2. SnapInv /\ [TuningNext]_tuningVars => SnapInv'
  <2> SUFFICES ASSUME SnapInv, [TuningNext]_tuningVars PROVE SnapInv'
    OBVIOUS
  <2>1. CASE \E c \in DOMAIN apply : ApplyLoad(c) \/ ApplyStore(c)
    BY <2>1, ApplyKeeps DEF SnapInv
  <2>2. CASE OtherApplies
    BY <2>2, CallKeeps DEF OtherApplies, Callers
  <2>3. ASSUME NEW delivered \in BOOLEAN, OptimizerStep(delivered) PROVE SnapInv'
    <3>1. CASE UNCHANGED apply
      BY <2>3, <3>1 DEF OptimizerStep, SnapInv, Consistent
    <3>2. CASE Call("optimizer", start)
      BY <2>3, <3>2, CallKeeps DEF OptimizerStep, Callers
    <3> QED
      BY <2>3, <3>1, <3>2 DEF OptimizerStep
  <2>4. ASSUME NEW safe \in BOOLEAN, NEW elapsed \in BOOLEAN,
               NEW action \in [Params -> 0 .. Levels], Act(safe, elapsed, action)
        PROVE  SnapInv'
    <3>1. CASE UNCHANGED apply
      BY <2>4, <3>1 DEF Act, SnapInv, Consistent
    <3>2. CASE Call("optimizer", Proposed(action))
      BY <2>4, <3>2, CallKeeps DEF Act, Callers
    <3> QED
      BY <2>4, <3>1, <3>2 DEF Act
  <2>5. CASE UNCHANGED <<snap, apply>>
    BY <2>5 DEF SnapInv, Consistent
  <2> QED
    BY <2>1, <2>2, <2>3, <2>4, <2>5
       DEF TuningNext, RolledBack, Applied, CompressMessage, PublishAppends, tuningVars
<1>3. SnapInv => SnapshotConsistent
  BY DEF SnapInv, Consistent, SnapshotConsistent
<1> QED
  BY <1>1, <1>2, <1>3, PTL DEF TuningSpec

-----------------------------------------------------------------------------
(* Every value an action can stand for passes validation.                   *)

LEMMA Quotient ==
    ASSUME NEW d \in Nat \ {0}, NEW x \in Int, NEW a \in Int, NEW b \in Int,
           d * a <= x, x < d * (b + 1)
    PROVE  x \div d \in a .. b
<1>1. /\ x \div d \in Int
      /\ d * (x \div d) <= x
      /\ x < d * (x \div d) + d
  OBVIOUS
<1> DEFINE q == x \div d
<1> HIDE DEF q
<1>2. q \in Int /\ d * q <= x /\ x < d * q + d
  BY <1>1 DEF q
<1>3. a <= q
  <2> SUFFICES ASSUME q + 1 <= a PROVE FALSE
    BY <1>2
  <2>1. d * (q + 1) <= d * a
    BY <1>2
  <2>2. d * (q + 1) = d * q + d
    BY <1>2
  <2> QED
    BY <1>2, <2>1, <2>2
<1>4. q <= b
  <2> SUFFICES ASSUME b + 1 <= q PROVE FALSE
    BY <1>2
  <2>1. d * (b + 1) <= d * q
    BY <1>2
  <2> QED
    BY <1>2, <2>1
<1> QED
  BY <1>2, <1>3, <1>4 DEF q

LEMMA SpreadStaysIn ==
    ASSUME NEW n \in Nat \ {0}, NEW l \in 0 .. n, NEW a \in Int, NEW b \in Int, a <= b
    PROVE  (2 * (n * a + l * (b - a)) + n) \div (2 * n) \in a .. b
<1> DEFINE v == n * a + l * (b - a)
<1>1. v \in Int /\ n * a <= v /\ v <= n * b
  <2>1. l * (b - a) >= 0 /\ l * (b - a) <= n * (b - a)
    OBVIOUS
  <2>2. n * (b - a) = n * b - n * a
    OBVIOUS
  <2> QED
    BY <2>1, <2>2
<1> HIDE DEF v
<1>2. (2 * n) * a <= 2 * v + n /\ 2 * v + n < (2 * n) * (b + 1)
  <2>1. (2 * n) * a = 2 * (n * a) /\ (2 * n) * (b + 1) = 2 * (n * b) + 2 * n
    OBVIOUS
  <2> QED
    BY <1>1, <2>1
<1>3. (2 * v + n) \div (2 * n) \in a .. b
  BY <1>1, <1>2, Quotient
<1> QED
  BY <1>3 DEF v

(* What the constants must satisfy: the tuned parameters are known ones,    *)
(* and an action has at least two levels to choose from.                    *)
Sensible ==
    /\ Params \subseteq DOMAIN Rules
    /\ Levels \in Nat \ {0}
    /\ WarmupTicks \in Nat /\ MaxOthers \in Nat

LEMMA ProposedInRange ==
    ASSUME Sensible, NEW p \in Params, NEW l \in 0 .. Levels
    PROVE  SetParamByName(Denormalize(p, l)) \in Rules[p][1] .. Rules[p][2]
<1>1. /\ ParamRange(p)[1] \in Int /\ ParamRange(p)[2] \in Int /\ ParamRange(p)[1] <= ParamRange(p)[2]
      /\ Rules[p][1] \in Int /\ Rules[p][2] \in Int
      /\ Rules[p][1] <= ParamRange(p)[1] /\ ParamRange(p)[2] <= Rules[p][2]
  BY DEF Sensible, ParamRange, Rules, MiB, Unbounded
<1>2. SetParamByName(Denormalize(p, l)) \in ParamRange(p)[1] .. ParamRange(p)[2]
  BY <1>1, SpreadStaysIn DEF Sensible, SetParamByName, Denormalize
<1> QED
  BY <1>1, <1>2

LEMMA ProposedValid ==
    ASSUME Sensible, goodBase, NEW levels \in [Params -> 0 .. Levels]
    PROVE  Validate(Proposed(levels))
BY ProposedInRange DEF Validate, Proposed

-----------------------------------------------------------------------------
(* The optimizer and its calls.  While a call of its is under way the       *)
(* configuration it will leave is known, and when nobody else calls,        *)
(* nothing comes in between.                                                *)

Opts == [pc : {"idle", "act", "rollback", "applying"}, ticks : Int, low : Int,
         rolledBack : BOOLEAN, applied : BOOLEAN]

Mine == apply["optimizer"]

(* The optimizer's call, if it has one, is for cfg, and once it is over cfg *)
(* is in force.                                                             *)
Heading(cfg) ==
    /\ Mine.pc \in {"validate", "store"} => Mine.cfg = cfg
    /\ (Mine.pc = "idle" /\ Undisturbed) => snap.cfg = cfg

TuneInv ==
    /\ opt \in Opts
    /\ vals \in [Params -> 0 .. Levels]
    /\ others \in Int
    /\ DOMAIN apply = Callers /\ apply = [c \in Callers |-> apply[c]]
    /\ Mine.pc \in {"idle", "validate", "store"}
    /\ alone => others = 0 /\ apply["other"].pc = "idle"
    /\ opt.pc \in {"idle", "act"} => Mine.pc = "idle"
    /\ opt.pc \in {"rollback", "applying"} => ~opt.rolledBack
    /\ opt.pc = "rollback" => Heading(start)
    /\ opt.pc = "applying" => opt.applied /\ Heading(Proposed(vals))
    /\ (opt.rolledBack /\ Undisturbed) => snap.cfg = start
    /\ (opt.pc \in {"idle", "act"} /\ opt.applied /\ ~opt.rolledBack /\ Undisturbed)
         => snap.cfg = Proposed(vals)

LEMMA TuneInit ==
    ASSUME Sensible, TuningInit
    PROVE  TuneInv
<1>1. Levels \div 2 \in 0 .. Levels
  BY DEF Sensible
<1> QED
  BY <1>1 DEF TuningInit, TuneInv, Opts, Mine, NoCall, Callers, Sensible

LEMMA TuneLoad ==
    ASSUME Sensible, TuneInv, NEW c \in Callers, ApplyLoad(c)
    PROVE  TuneInv'
<1>1. UNCHANGED <<snap, start, goodBase, alone, vals, opt, others>>
  BY DEF ApplyLoad, fixed
<1>2. Undisturbed' = Undisturbed /\ Proposed(vals)' = Proposed(vals)
  BY <1>1 DEF Undisturbed, Validate, Proposed
<1>3. CASE c = "other"
  <2>1. Mine' = Mine
    BY <1>3 DEF ApplyLoad, Mine, TuneInv, Callers
  <2>2. ~alone
    BY <1>3 DEF TuneInv, ApplyLoad
  <2>3. DOMAIN apply' = Callers /\ apply' = [d \in Callers |-> apply'[d]]
    BY DEF ApplyLoad, TuneInv
  <2> QED
    BY <1>1, <1>2, <2>1, <2>2, <2>3 DEF TuneInv, Heading
<1>4. CASE c = "optimizer"
  <2>1. apply'["other"] = apply["other"]
    BY <1>4 DEF ApplyLoad, TuneInv, Callers
  <2>2. DOMAIN apply' = Callers /\ apply' = [d \in Callers |-> apply'[d]]
    BY DEF ApplyLoad, TuneInv
  <2>3. \/ Mine'.pc = "store" /\ Mine'.cfg = Mine.cfg
        \/ Mine'.pc = "idle" /\ (Validate(Mine.cfg) => snap.cfg = Mine.cfg)
    BY <1>4 DEF ApplyLoad, Mine, TuneInv, NoCall
  <2>4. Mine.pc = "validate"
    BY <1>4 DEF ApplyLoad, Mine
  <2>5. ASSUME NEW cfg, Heading(cfg), Undisturbed => Validate(cfg)
        PROVE  /\ Mine'.pc \in {"validate", "store"} => Mine'.cfg = cfg
               /\ (Mine'.pc = "idle" /\ Undisturbed) => snap.cfg = cfg
    BY <2>3, <2>4, <2>5 DEF Heading
  <2>6. Undisturbed => Validate(start) /\ Validate(Proposed(vals))
    BY ProposedValid DEF Undisturbed, Validate, TuneInv
  <2>7. opt.pc = "rollback" => Heading(start)'
    BY <1>1, <1>2, <2>5, <2>6 DEF TuneInv, Heading
  <2>8. opt.pc = "applying" => Heading(Proposed(vals))'
    BY <1>1, <1>2, <2>5, <2>6 DEF TuneInv, Heading
  <2>9. opt.pc \notin {"idle", "act"}
    BY <2>4 DEF TuneInv
  <2> QED
    BY <1>1, <1>2, <2>1, <2>2, <2>3, <2>7, <2>8, <2>9 DEF TuneInv
<1> QED
  BY <1>3, <1>4 DEF Callers

LEMMA TuneStore ==
    ASSUME Sensible, TuneInv, NEW c \in Callers, ApplyStore(c)
    PROVE  TuneInv'
<1>1. UNCHANGED <<start, goodBase, alone, vals, opt, others>>
  BY DEF ApplyStore, fixed
<1>2. Undisturbed' = Undisturbed /\ Proposed(vals)' = Proposed(vals)
  BY <1>1 DEF Undisturbed, Validate, Proposed
<1>3. snap'.cfg = apply[c].cfg
  BY DEF ApplyStore, NewSnapshot
<1>4. DOMAIN apply' = Callers /\ apply' = [d \in Callers |-> apply'[d]]
  BY DEF ApplyStore, TuneInv
<1>5. CASE c = "other"
  <2>1. Mine' = Mine
    BY <1>5 DEF ApplyStore, Mine, TuneInv, Callers
  <2>2. ~alone
    BY <1>5 DEF TuneInv, ApplyStore
  <2> QED
    BY <1>1, <1>2, <1>4, <2>1, <2>2 DEF TuneInv, Heading, Undisturbed
<1>6. CASE c = "optimizer"
  <2>1. apply'["other"] = apply["other"]
    BY <1>6 DEF ApplyStore, TuneInv, Callers
  <2>2. Mine'.pc = "idle" /\ Mine.pc = "store"
    BY <1>6 DEF ApplyStore, Mine, TuneInv, NoCall
  <2>3. opt.pc \in {"rollback", "applying"} /\ ~opt.rolledBack
    BY <2>2 DEF TuneInv, Opts
  <2>4. opt.pc = "rollback" => Heading(start)'
    BY <1>1, <1>3, <1>6, <2>2 DEF TuneInv, Heading, Mine
  <2>5. opt.pc = "applying" => Heading(Proposed(vals))'
    BY <1>1, <1>2, <1>3, <1>6, <2>2 DEF TuneInv, Heading, Mine
  <2> QED
    BY <1>1, <1>2, <1>4, <2>1, <2>2, <2>3, <2>4, <2>5 DEF TuneInv
<1> QED
  BY <1>5, <1>6 DEF Callers

LEMMA TuneOther ==
    ASSUME TuneInv, OtherApplies
    PROVE  TuneInv'
<1>1. UNCHANGED <<snap, start, goodBase, alone, vals, opt>> /\ others > 0
  BY DEF OtherApplies, fixed
<1>2. Undisturbed' = Undisturbed /\ Proposed(vals)' = Proposed(vals)
  BY <1>1 DEF Undisturbed, Validate, Proposed
<1>3. /\ Mine' = Mine
      /\ DOMAIN apply' = Callers /\ apply' = [d \in Callers |-> apply'[d]]
  BY DEF OtherApplies, Call, Mine, TuneInv, Callers
<1>4. others' \in Int /\ ~alone
  BY DEF OtherApplies, TuneInv
<1> QED
  BY <1>1, <1>2, <1>3, <1>4 DEF TuneInv, Heading

(* A call the optimizer begins.                                             *)
LEMMA CallBegins ==
    ASSUME TuneInv, NEW cfg, Call("optimizer", cfg)
    PROVE  /\ Mine' = [pc |-> "validate", cfg |-> cfg]
           /\ apply'["other"] = apply["other"]
           /\ DOMAIN apply' = Callers /\ apply' = [d \in Callers |-> apply'[d]]
BY DEF Call, Mine, TuneInv, Callers

LEMMA TuneOptimizerStep ==
    ASSUME Sensible, TuneInv, NEW delivered \in BOOLEAN, OptimizerStep(delivered)
    PROVE  TuneInv'
<1>1. UNCHANGED <<snap, start, goodBase, alone, vals, others>> /\ opt.pc = "idle"
  BY DEF OptimizerStep, fixed
<1>2. Undisturbed' = Undisturbed /\ Proposed(vals)' = Proposed(vals)
  BY <1>1 DEF Undisturbed, Validate, Proposed
<1>3. /\ opt' \in Opts /\ opt'.rolledBack = opt.rolledBack
      /\ opt'.applied = opt.applied
  <2> DEFINE tick == IF opt.ticks > WarmupTicks THEN opt.ticks ELSE opt.ticks + 1
             low == IF delivered THEN 0 ELSE opt.low + 1
  <2>1. opt \in Opts /\ tick \in Int /\ low \in Int
    BY DEF TuneInv, Opts, Sensible
  <2>2. \/ opt' = [opt EXCEPT !.pc = "act", !.ticks = tick]
        \/ opt' = [opt EXCEPT !.pc = "act", !.ticks = tick, !.low = low]
        \/ opt' = [opt EXCEPT !.pc = "rollback", !.ticks = tick, !.low = low]
    BY DEF OptimizerStep
  <2> HIDE DEF tick, low
  <2> QED
    BY <2>1, <2>2 DEF Opts
<1>4. CASE opt'.pc = "act" /\ UNCHANGED apply
  <2>1. Mine' = Mine
    BY <1>4 DEF Mine
  <2> QED
    BY <1>1, <1>2, <1>3, <1>4, <2>1 DEF TuneInv
<1>5. CASE opt'.pc = "rollback" /\ ~opt.rolledBack /\ Call("optimizer", start)
  <2>1. Heading(start)'
    BY <1>1, <1>5, CallBegins DEF Heading
  <2> QED
    BY <1>1, <1>2, <1>3, <1>5, <2>1, CallBegins DEF TuneInv
<1> QED
  BY <1>4, <1>5 DEF OptimizerStep, TuneInv, Opts

LEMMA TuneRolledBack ==
    ASSUME TuneInv, RolledBack
    PROVE  TuneInv'
<1>1. UNCHANGED <<snap, start, goodBase, alone, vals, others, apply>>
      /\ opt.pc = "rollback" /\ Mine.pc = "idle"
  BY DEF RolledBack, fixed, Mine
<1>2. Undisturbed' = Undisturbed /\ Mine' = Mine
  BY <1>1 DEF Undisturbed, Validate, Mine
<1>3. opt' \in Opts /\ opt'.rolledBack /\ opt'.pc = "act"
  BY DEF RolledBack, TuneInv, Opts
<1> QED
  BY <1>1, <1>2, <1>3 DEF TuneInv, Heading

LEMMA TuneAct ==
    ASSUME TuneInv, NEW safe \in BOOLEAN, NEW elapsed \in BOOLEAN,
           NEW action \in [Params -> 0 .. Levels], Act(safe, elapsed, action)
    PROVE  TuneInv'
<1>1. UNCHANGED <<snap, start, goodBase, alone, others>> /\ opt.pc = "act"
  BY DEF Act, fixed
<1>2. Undisturbed' = Undisturbed
  BY <1>1 DEF Undisturbed, Validate
<1>3. opt' \in Opts /\ opt'.rolledBack = opt.rolledBack
  <2>1. \/ opt' = [opt EXCEPT !.pc = "applying", !.applied = TRUE]
        \/ opt' = [opt EXCEPT !.pc = "idle"]
    BY DEF Act
  <2>2. opt \in Opts
    BY DEF TuneInv
  <2> QED
    BY <2>1, <2>2 DEF Opts
<1>4. CASE MayApply(safe, elapsed) /\ action # vals
  <2>1. ~opt.rolledBack /\ vals' = action
    BY <1>4 DEF Act, MayApply
  <2>2. opt'.pc = "applying" /\ opt'.applied
    BY <1>4 DEF Act, TuneInv, Opts
  <2>3. Call("optimizer", Proposed(action))
    BY <1>4 DEF Act
  <2>4. Heading(Proposed(vals))'
    BY <2>1, <2>3, CallBegins DEF Heading, Proposed
  <2> QED
    BY <1>1, <1>2, <1>3, <2>1, <2>2, <2>3, <2>4, CallBegins DEF TuneInv
<1>5. CASE ~(MayApply(safe, elapsed) /\ action # vals)
  <2>1. UNCHANGED <<vals, apply>>
    BY <1>5 DEF Act
  <2>2. opt'.pc = "idle" /\ opt'.applied = opt.applied
    BY <1>5 DEF Act, TuneInv, Opts
  <2>3. Mine' = Mine /\ Proposed(vals)' = Proposed(vals)
    BY <2>1 DEF Mine, Proposed
  <2> QED
    BY <1>1, <1>2, <1>3, <2>1, <2>2, <2>3 DEF TuneInv
<1> QED
  BY <1>4, <1>5

LEMMA TuneApplied ==
    ASSUME TuneInv, Applied
    PROVE  TuneInv'
<1>1. UNCHANGED <<snap, start, goodBase, alone, vals, others, apply>>
      /\ opt.pc = "applying" /\ Mine.pc = "idle"
  BY DEF Applied, fixed, Mine
<1>2. Undisturbed' = Undisturbed /\ Mine' = Mine /\ Proposed(vals)' = Proposed(vals)
  BY <1>1 DEF Undisturbed, Validate, Mine, Proposed
<1>3. /\ opt' \in Opts /\ opt'.rolledBack = opt.rolledBack /\ opt'.pc = "idle"
      /\ opt'.applied = opt.applied
  BY DEF Applied, TuneInv, Opts
<1> QED
  BY <1>1, <1>2, <1>3 DEF TuneInv, Heading

LEMMA TuneRest ==
    ASSUME TuneInv,
           UNCHANGED <<snap, start, goodBase, alone, apply, vals, opt, others>>
    PROVE  TuneInv'
<1>1. Undisturbed' = Undisturbed /\ Mine' = Mine /\ Proposed(vals)' = Proposed(vals)
  BY DEF Undisturbed, Validate, Mine, Proposed
<1> QED
  BY <1>1 DEF TuneInv, Heading

LEMMA TuneInvariant ==
    ASSUME Sensible
    PROVE  TuningSpec => []TuneInv
<1>1. TuningInit => TuneInv
  BY TuneInit
<1>2. TuneInv /\ [TuningNext]_tuningVars => TuneInv'
  <2> SUFFICES ASSUME TuneInv, [TuningNext]_tuningVars PROVE TuneInv'
    OBVIOUS
  <2>1. CASE \E c \in DOMAIN apply : ApplyLoad(c) \/ ApplyStore(c)
    BY <2>1, TuneLoad, TuneStore DEF TuneInv
  <2>2. CASE PublishAppends \/ \E block \in BOOLEAN : CompressMessage(block)
    BY <2>2, TuneRest DEF PublishAppends, CompressMessage, fixed
  <2>3. CASE UNCHANGED tuningVars
    BY <2>3, TuneRest DEF tuningVars
  <2> QED
    BY <2>1, <2>2, <2>3, TuneOther, TuneOptimizerStep, TuneRolledBack, TuneAct, TuneApplied
       DEF TuningNext
<1> QED
  BY <1>1, <1>2, PTL DEF TuningSpec

(* After an emergency rollback the broker keeps the configuration it was    *)
(* created with, whatever the optimizer still does (checkEmergencyRollback).*)
THEOREM RollbackStays ==
    ASSUME Sensible
    PROVE  TuningSpec => []RollbackIsFinal
<1>1. TuneInv => RollbackIsFinal
  BY DEF TuneInv, RollbackIsFinal
<1> QED
  BY <1>1, TuneInvariant, PTL

(* No value the optimizer proposes is refused: between its steps the        *)
(* configuration it believes in is the one in force (applyAction).          *)
THEOREM BeliefIsRight ==
    ASSUME Sensible
    PROVE  TuningSpec => []BeliefMatchesConfig
<1>1. TuneInv => BeliefMatchesConfig
  BY DEF TuneInv, BeliefMatchesConfig
<1> QED
  BY <1>1, TuneInvariant, PTL

-----------------------------------------------------------------------------
(* Feedback                                                                 *)

(* There is a level, and priorities are not negative (they are bytes).      *)
SensibleLevels == NumLevels \in Nat \ {0} /\ PriorityOf \in [Messages -> Nat]

LEMMA LevelType ==
    ASSUME SensibleLevels, NEW m \in Messages
    PROVE  Level(m) \in LatencyLevels
<1> DEFINE S == {PriorityOf[m], NumLevels - 1}
<1>1. \E x \in S : \A y \in S : x <= y
  BY DEF SensibleLevels
<1>2. Min(S) \in S /\ \A y \in S : Min(S) <= y
  BY <1>1 DEF Min
<1> QED
  BY <1>2 DEF Level, LatencyLevels, SensibleLevels

Accumulators == [LatencyLevels -> SUBSET Messages]
Working == [pc : {"sum", "count", "reward"}, rewards : Nat, level : 0 .. NumLevels,
            s : Accumulators, c : Accumulators]

TypeInv ==
    /\ queued \subseteq Messages
    /\ consumers \in [Consumers -> {NotReading} \cup [pc : {"read", "summed"}, msg : Messages]]
    /\ sums \in Accumulators /\ counts \in Accumulators
    /\ inSums \in [Messages -> Nat] /\ inCounts \in [Messages -> Nat]
    /\ metrics \in [pc : {"wait"}, rewards : Nat] \cup Working
    /\ metrics.pc \in {"sum", "count"} => metrics.level \in LatencyLevels

Held(c) == consumers[c].pc # "idle"
Unused(m) == inSums[m] = 0 /\ m \notin sums[Level(m)]

(* A message is in the index or with one consumer, its latency unused until *)
(* it is summed; an accumulator holds latencies of its own level only.      *)
Placed ==
    /\ \A l \in LatencyLevels : \A m \in sums[l] \cup counts[l] : Level(m) = l
    /\ \A c, d \in Consumers : c # d /\ Held(c) /\ Held(d) => consumers[c].msg # consumers[d].msg
    /\ \A c \in Consumers : Held(c) => consumers[c].msg \notin queued
    /\ \A m \in queued : Unused(m)
    /\ \A c \in Consumers : consumers[c].pc = "read" => Unused(consumers[c].msg)

FInv == TypeInv /\ Placed /\ LatencyOnce

USE DEF NotReading

LEMMA KeepArrives ==
    ASSUME SensibleLevels, FInv, NEW m \in Messages, Arrives(m)
    PROVE  FInv'
<1>1. UNCHANGED <<consumers, sums, counts, metrics, inSums, inCounts>>
      /\ queued' = queued \cup {m}
  BY DEF Arrives
<1>2. Unused(m)
  <2>1. sums[Level(m)] \in {sums[l] : l \in LatencyLevels}
    BY LevelType
  <2>2. m \notin UNION {sums[l] : l \in LatencyLevels} /\ ~(inSums[m] > 0)
    BY DEF Arrives, Seen
  <2> QED
    BY <2>1, <2>2 DEF Unused, FInv, TypeInv
<1>3. ASSUME NEW c \in Consumers, Held(c) PROVE consumers[c].msg # m
  <2>1. consumers[c].msg \in {consumers[e].msg : e \in {d \in Consumers : consumers[d].pc # "idle"}}
    BY <1>3 DEF Held
  <2>2. consumers[c].msg \in Seen
    BY <2>1, Zenon DEF Seen
  <2> QED
    BY <2>2 DEF Arrives
<1>4. TypeInv' /\ LatencyOnce'
  BY <1>1 DEF FInv, TypeInv, LatencyOnce, Between
<1>5. Placed'
  BY <1>1, <1>2, <1>3 DEF FInv, Placed, Unused, Held
<1> QED
  BY <1>4, <1>5 DEF FInv

LEMMA KeepPops ==
    ASSUME SensibleLevels, FInv, NEW c \in Consumers, NEW m \in Messages, Pops(c, m)
    PROVE  FInv'
<1>1. UNCHANGED <<sums, counts, metrics, inSums, inCounts>>
      /\ queued' = queued \ {m} /\ m \in queued /\ consumers[c].pc = "idle"
  BY DEF Pops
<1>2. CASE UNCHANGED consumers
  BY <1>1, <1>2 DEF FInv, TypeInv, Placed, Unused, Held, LatencyOnce, Between
<1>3. CASE consumers' = [consumers EXCEPT ![c] = [pc |-> "read", msg |-> m]]
  <2>1. TypeInv'
    BY <1>1, <1>3 DEF FInv, TypeInv
  <2>2. \A n \in Messages : Between(n)' = Between(n)
    BY <1>1, <1>3 DEF FInv, TypeInv, Between
  <2>3. LatencyOnce'
    BY <1>1, <2>2 DEF FInv, LatencyOnce
  <2>4. Placed'
    BY <1>1, <1>3 DEF FInv, TypeInv, Placed, Unused, Held
  <2> QED
    BY <2>1, <2>3, <2>4 DEF FInv
<1> QED
  BY <1>2, <1>3 DEF Pops

LEMMA KeepAddsSum ==
    ASSUME SensibleLevels, FInv, NEW c \in Consumers, AddsSum(c)
    PROVE  FInv'
<1>0. PICK m \in Messages : m = consumers[c].msg
  BY DEF AddsSum, AddsCount, FInv, TypeInv
<1>1. /\ consumers[c].pc = "read" /\ m \in Messages /\ Level(m) \in LatencyLevels
      /\ sums' = [sums EXCEPT ![Level(m)] = @ \cup {m}]
      /\ consumers' = [consumers EXCEPT ![c].pc = "summed"]
      /\ UNCHANGED <<queued, counts, metrics, inSums, inCounts>>
  BY <1>0, LevelType DEF AddsSum, FInv, TypeInv
<1>2. consumers'[c] = [pc |-> "summed", msg |-> m]
      /\ \A d \in Consumers : d # c => consumers'[d] = consumers[d]
  BY <1>0, <1>1 DEF FInv, TypeInv
<1>3. \A n \in Messages : n \in sums'[Level(n)] <=> n \in sums[Level(n)] \/ n = m
  BY <1>1, LevelType DEF FInv, TypeInv, Accumulators
<1>4. TypeInv'
  BY <1>1 DEF FInv, TypeInv, Accumulators
<1>5. Placed'
  BY <1>0, <1>1, <1>2, <1>3 DEF FInv, TypeInv, Placed, Held, Unused, Accumulators
<1>6. Unused(m) /\ ~Between(m) /\ Between(m)'
  BY <1>0, <1>1, <1>2 DEF FInv, Placed, Between, Held
<1>7. \A n \in Messages \ {m} : Between(n)' = Between(n)
  BY <1>0, <1>1, <1>2 DEF Between
<1>8. LatencyOnce'
  <2> SUFFICES ASSUME NEW n \in Messages
               PROVE  LET sum == inSums[n] + One(n \in sums'[Level(n)])
                          count == inCounts[n] + One(n \in counts[Level(n)])
                      IN  sum <= 1 /\ count = sum - One(Between(n)')
    BY <1>1 DEF LatencyOnce
  <2>1. CASE n = m
    <3>1. inSums[m] = 0 /\ m \notin sums[Level(m)] /\ m \in sums'[Level(m)]
      BY <1>1, <1>3, <1>6 DEF Unused
    <3>2. inCounts[m] + One(m \in counts[Level(m)]) = 0
      BY <1>1, <1>6, <3>1 DEF FInv, LatencyOnce, One
    <3> QED
      BY <1>6, <2>1, <3>1, <3>2 DEF One
  <2>2. CASE n # m
    BY <1>1, <1>3, <1>7, <2>2 DEF FInv, LatencyOnce, One
  <2> QED
    BY <2>1, <2>2
<1> QED
  BY <1>4, <1>5, <1>8 DEF FInv

LEMMA KeepAddsCount ==
    ASSUME SensibleLevels, FInv, NEW c \in Consumers, AddsCount(c)
    PROVE  FInv'
<1>0. PICK m \in Messages : m = consumers[c].msg
  BY DEF AddsSum, AddsCount, FInv, TypeInv
<1>1. /\ consumers[c].pc = "summed" /\ m \in Messages /\ Level(m) \in LatencyLevels
      /\ counts' = [counts EXCEPT ![Level(m)] = @ \cup {m}]
      /\ consumers' = [consumers EXCEPT ![c] = NotReading]
      /\ UNCHANGED <<queued, sums, metrics, inSums, inCounts>>
  BY <1>0, LevelType DEF AddsCount, FInv, TypeInv
<1>2. consumers'[c] = NotReading /\ \A d \in Consumers : d # c => consumers'[d] = consumers[d]
  BY <1>1 DEF FInv, TypeInv
<1>3. \A n \in Messages : n \in counts'[Level(n)] <=> n \in counts[Level(n)] \/ n = m
  BY <1>1, LevelType DEF FInv, TypeInv, Accumulators
<1>4. TypeInv'
  BY <1>1 DEF FInv, TypeInv, Accumulators
<1>5. Placed'
  BY <1>0, <1>1, <1>2, <1>3 DEF FInv, TypeInv, Placed, Held, Unused, Accumulators
<1>6. Between(m) /\ ~Between(m)'
  BY <1>0, <1>1, <1>2 DEF FInv, Placed, Between, Held
<1>7. \A n \in Messages \ {m} : Between(n)' = Between(n)
  BY <1>0, <1>1, <1>2 DEF Between
<1>8. LatencyOnce'
  <2> SUFFICES ASSUME NEW n \in Messages
               PROVE  LET sum == inSums[n] + One(n \in sums[Level(n)])
                          count == inCounts[n] + One(n \in counts'[Level(n)])
                      IN  sum <= 1 /\ count = sum - One(Between(n)')
    BY <1>1 DEF LatencyOnce
  <2>1. CASE n = m
    <3>1. inSums[m] \in Nat /\ inCounts[m] \in Nat
      BY <1>1 DEF FInv, TypeInv
    <3>2. /\ inSums[m] + One(m \in sums[Level(m)]) <= 1
          /\ inCounts[m] + One(m \in counts[Level(m)])
               = inSums[m] + One(m \in sums[Level(m)]) - 1
      <4>1. PICK d \in Consumers : consumers[d].pc = "summed" /\ consumers[d].msg = m
        BY <1>6 DEF Between
      <4> QED
        BY <4>1, <3>1 DEF FInv, LatencyOnce, One, Between
    <3>3. m \notin counts[Level(m)] /\ m \in counts'[Level(m)]
      BY <1>1, <1>3, <3>1, <3>2 DEF One
    <3> QED
      BY <1>6, <2>1, <3>1, <3>2, <3>3 DEF One
  <2>2. CASE n # m
    BY <1>1, <1>3, <1>7, <2>2 DEF FInv, LatencyOnce, One
  <2> QED
    BY <2>1, <2>2
<1> QED
  BY <1>4, <1>5, <1>8 DEF FInv

LEMMA KeepOnMetrics ==
    ASSUME SensibleLevels, FInv, OnMetrics
    PROVE  FInv'
<1>1. UNCHANGED <<queued, consumers, sums, counts, inSums, inCounts>>
  BY DEF OnMetrics
<1>2. metrics.rewards \in Nat /\ Empty \in Accumulators /\ 0 \in LatencyLevels
      /\ 0 \in 0 .. NumLevels
  BY DEF FInv, TypeInv, Working, Empty, Accumulators, SensibleLevels, LatencyLevels
<1>3. metrics' \in Working /\ metrics'.level \in LatencyLevels
  BY <1>2 DEF OnMetrics, Working
<1> QED
  BY <1>1, <1>3 DEF FInv, TypeInv, Placed, Held, Unused, LatencyOnce, Between

(* Emptying the accumulator of a level moves its latencies to the reward.   *)
LEMMA TakenOnce ==
    ASSUME SensibleLevels, NEW a \in Accumulators, NEW used \in [Messages -> Nat], NEW l \in LatencyLevels,
           \A k \in LatencyLevels : \A m \in a[k] : Level(m) = k, NEW m \in Messages
    PROVE  /\ Swapped(a, l) \in Accumulators
           /\ Used(used, a[l]) \in [Messages -> Nat]
           /\ Used(used, a[l])[m] + One(m \in Swapped(a, l)[Level(m)])
                = used[m] + One(m \in a[Level(m)])
           /\ \A k \in LatencyLevels : Swapped(a, l)[k] \subseteq a[k]
           /\ (used[m] = 0 /\ m \notin a[Level(m)]) =>
                 Used(used, a[l])[m] = 0 /\ m \notin Swapped(a, l)[Level(m)]
<1>1. Level(m) \in LatencyLevels
  BY LevelType
<1>2. Swapped(a, l) \in Accumulators /\ \A k \in LatencyLevels : Swapped(a, l)[k] \subseteq a[k]
  BY DEF Swapped, Accumulators
<1>3. Used(used, a[l]) \in [Messages -> Nat]
  BY DEF Used
<1>4. m \in a[l] => Level(m) = l
  OBVIOUS
<1>5. CASE Level(m) = l
  BY <1>1, <1>5 DEF Swapped, Used, One, Accumulators
<1>6. CASE Level(m) # l
  BY <1>1, <1>4, <1>6 DEF Swapped, Used, One, Accumulators
<1> QED
  BY <1>2, <1>3, <1>5, <1>6

LEMMA KeepTakesSum ==
    ASSUME SensibleLevels, FInv, TakesSum
    PROVE  FInv'
<1>0. PICK l \in LatencyLevels : l = metrics.level
  BY DEF TakesSum, FInv, TypeInv
<1>1. /\ sums' = Swapped(sums, l) /\ inSums' = Used(inSums, sums[l])
      /\ UNCHANGED <<queued, consumers, counts, inCounts>>
      /\ metrics' = [metrics EXCEPT !.pc = "count", !.s[l] = sums[l]]
  BY <1>0 DEF TakesSum
<1>2. metrics \in Working
  BY DEF TakesSum, FInv, TypeInv
<1>3. metrics' \in Working /\ metrics'.level \in LatencyLevels
  BY <1>0, <1>1, <1>2 DEF Working, Accumulators, FInv, TypeInv
<1>4. sums \in Accumulators /\ inSums \in [Messages -> Nat]
      /\ \A k \in LatencyLevels : \A m \in sums[k] : Level(m) = k
  BY DEF FInv, TypeInv, Placed
<1>5. \A m \in Messages :
        /\ inSums'[m] + One(m \in sums'[Level(m)]) = inSums[m] + One(m \in sums[Level(m)])
        /\ Unused(m) => Unused(m)'
  BY <1>1, <1>4, TakenOnce DEF Unused
<1>6. /\ sums' \in Accumulators /\ \A k \in LatencyLevels : sums'[k] \subseteq sums[k]
      /\ inSums' \in [Messages -> Nat]
  BY <1>1, <1>4 DEF Swapped, Used, Accumulators
<1>7. TypeInv'
  BY <1>1, <1>3, <1>6 DEF FInv, TypeInv
<1>8. LatencyOnce'
  BY <1>1, <1>5 DEF FInv, LatencyOnce, Between
<1>9. Placed'
  <2>1. \A c \in Consumers : consumers[c].pc = "read" => consumers[c].msg \in Messages
    BY DEF FInv, TypeInv
  <2>2. queued \subseteq Messages
    BY DEF FInv, TypeInv
  <2>3. \A m \in queued' : Unused(m)'
    BY <1>1, <1>5, <2>2 DEF FInv, Placed
  <2>4. \A c \in Consumers : consumers'[c].pc = "read" => Unused(consumers[c].msg)'
    BY <1>1, <1>5, <2>1 DEF FInv, Placed, Unused
  <2> QED
    BY <1>1, <1>6, <2>3, <2>4 DEF FInv, Placed, Held, Unused
<1> QED
  BY <1>7, <1>8, <1>9 DEF FInv

LEMMA KeepTakesCount ==
    ASSUME SensibleLevels, FInv, TakesCount
    PROVE  FInv'
<1>0. PICK l \in LatencyLevels : l = metrics.level
  BY DEF TakesCount, FInv, TypeInv
<1>1. /\ counts' = Swapped(counts, l) /\ inCounts' = Used(inCounts, counts[l])
      /\ UNCHANGED <<queued, consumers, sums, inSums>>
      /\ metrics' = [metrics EXCEPT !.c[l] = counts[l], !.level = l + 1,
                         !.pc = IF l + 1 = NumLevels THEN "reward" ELSE "sum"]
  BY <1>0 DEF TakesCount
<1>2. metrics \in Working
  BY DEF TakesCount, FInv, TypeInv
<1>3. metrics' \in Working /\ (metrics'.pc # "reward" => metrics'.level \in LatencyLevels)
  <2>1. l + 1 \in 0 .. NumLevels /\ (l + 1 # NumLevels => l + 1 \in LatencyLevels)
    BY DEF LatencyLevels, SensibleLevels
  <2>2. [metrics.c EXCEPT ![l] = counts[l]] \in Accumulators
    BY <1>2 DEF Working, Accumulators, FInv, TypeInv
  <2>3. metrics' = [pc |-> IF l + 1 = NumLevels THEN "reward" ELSE "sum",
                    rewards |-> metrics.rewards, level |-> l + 1, s |-> metrics.s,
                    c |-> [metrics.c EXCEPT ![l] = counts[l]]]
    BY <1>1, <1>2 DEF Working
  <2> QED
    BY <1>2, <2>1, <2>2, <2>3 DEF Working
<1>4. counts \in Accumulators /\ inCounts \in [Messages -> Nat]
      /\ \A k \in LatencyLevels : \A m \in counts[k] : Level(m) = k
  BY DEF FInv, TypeInv, Placed
<1>5. \A m \in Messages :
        inCounts'[m] + One(m \in counts'[Level(m)]) = inCounts[m] + One(m \in counts[Level(m)])
  BY <1>1, <1>4, TakenOnce
<1>6. /\ counts' \in Accumulators /\ \A k \in LatencyLevels : counts'[k] \subseteq counts[k]
      /\ inCounts' \in [Messages -> Nat]
  BY <1>1, <1>4 DEF Swapped, Used, Accumulators
<1>7. TypeInv'
  BY <1>1, <1>3, <1>6 DEF FInv, TypeInv
<1>8. LatencyOnce'
  BY <1>1, <1>5 DEF FInv, LatencyOnce, Between
<1>9. Placed'
  BY <1>1, <1>6 DEF FInv, Placed, Held, Unused
<1> QED
  BY <1>7, <1>8, <1>9 DEF FInv

LEMMA KeepReward ==
    ASSUME FInv, computePerPriorityReward
    PROVE  FInv'
<1>1. UNCHANGED <<queued, consumers, sums, counts, inSums, inCounts>>
  BY DEF computePerPriorityReward
<1>2. metrics' \in [pc : {"wait"}, rewards : Nat] /\ metrics'.pc = "wait"
  BY DEF computePerPriorityReward, FInv, TypeInv, Working
<1> QED
  BY <1>1, <1>2 DEF FInv, TypeInv, Placed, Held, Unused, LatencyOnce, Between

(* No latency is lost or used twice, for any number of consumers and        *)
(* levels, however deliveries and rewards interleave (DQNScheduler.Next,    *)
(* computePerPriorityReward).                                               *)
THEOREM LatenciesCountOnce ==
    ASSUME SensibleLevels
    PROVE  FeedbackSpec => []LatencyOnce
<1>1. FeedbackInit => FInv
  <2> SUFFICES ASSUME FeedbackInit PROVE FInv
    OBVIOUS
  <2>1. \A m \in Messages : Level(m) \in LatencyLevels
    BY LevelType
  <2>2. TypeInv /\ Placed
    BY <2>1 DEF FeedbackInit, TypeInv, Placed, Empty, Never, Accumulators, Held, Unused
  <2>3. LatencyOnce
    BY <2>1 DEF FeedbackInit, LatencyOnce, Between, Empty, Never, One
  <2> QED
    BY <2>2, <2>3 DEF FInv
<1>2. FInv /\ [FeedbackNext]_feedbackVars => FInv'
  <2> SUFFICES ASSUME FInv, [FeedbackNext]_feedbackVars PROVE FInv'
    OBVIOUS
  <2>1. CASE UNCHANGED feedbackVars
    BY <2>1 DEF feedbackVars, FInv, TypeInv, Placed, Held, Unused, LatencyOnce, Between
  <2> QED
    BY <2>1, KeepArrives, KeepPops, KeepAddsSum, KeepAddsCount, KeepOnMetrics, KeepTakesSum,
       KeepTakesCount, KeepReward DEF FeedbackNext
<1>3. FInv => LatencyOnce
  BY DEF FInv
<1> QED
  BY <1>1, <1>2, <1>3, PTL DEF FeedbackSpec

=============================================================================
