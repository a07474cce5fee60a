------------------------------- MODULE Tuning -------------------------------
(* Online configuration: the broker's immutable configuration snapshot, the *)
(* ApplyConfig calls that replace it, the optimizer loop that drives them,  *)
(* and the codecs that stored messages are written and read with.           *)
(*   snap        Broker.snap: configuration, codec and I/O gate             *)
(*   vals        Optimizer.currentVals, as levels 0 .. Levels               *)
(*   log         stored messages, with the codec that encoded them          *)
(* A configuration is given by its tuned fields; goodBase says whether the  *)
(* fields that are never tuned pass validation (New does not check them),   *)
(* alone whether the optimizer is the only caller of ApplyConfig.           *)
(* The policy network's output is arbitrary, so learning has no state here. *)
EXTENDS Integers, FiniteSets

CONSTANTS
    Params,          \* names of the active tunable parameters
    Levels,          \* an action picks one of 0 .. Levels for each parameter
    WarmupTicks, RollbackTicks,   \* OptimizerConfig, DefaultEmergencyRollbackN
    StartConfigs,    \* configurations a broker is created with
    OtherConfigs,    \* configurations another caller may apply
    MaxOthers, MaxLog

VARIABLES snap, start, goodBase, alone, apply, vals, opt, others, log, batchCodec, pub

tuningVars == <<snap, start, goodBase, alone, apply, vals, opt, others, log, batchCodec, pub>>

MiB == 1048576
Unbounded == 1024 * MiB

(* configValidator, for the fields the optimizer can tune.                  *)
Rules ==
    [SegmentMaxBytes      |-> <<MiB, 64 * MiB>>,  SegmentMaxCount  |-> <<1, Unbounded>>,
     FlushIntervalMs      |-> <<1, 60000>>,    CompressionType  |-> <<0, 3>>,
     MaxMessageBytes      |-> <<1024, Unbounded>>,
     NumNetworkGoroutines |-> <<1, 256>>,      NumIOGoroutines  |-> <<1, 256>>,
     BatchSize            |-> <<1, Unbounded>>, BatchMemoryBytes |-> <<1024, 64 * MiB>>,
     LingerMs             |-> <<-Unbounded, Unbounded>>]

(* Mutant: one compression type more than there are codecs.                 *)
ParamRange_Wide(p) ==
    CASE p = "CompressionType" -> <<0, 4>> [] OTHER -> <<1, 32>>

(* DefaultTunableParams: the range a normalised action is spread over.      *)
ParamRange(p) ==
    [SegmentMaxBytes      |-> <<MiB, 64 * MiB>>,  SegmentMaxCount  |-> <<10, 500>>,
     FlushIntervalMs      |-> <<100, 10000>>,  BatchSize        |-> <<1, 1000>>,
     BatchMemoryBytes     |-> <<1024, MiB>>,  LingerMs         |-> <<0, 100>>,
     NumIOGoroutines      |-> <<1, 32>>,       NumNetworkGoroutines |-> <<1, 32>>,
     CompressionType      |-> <<0, 3>>,        MaxMessageBytes  |-> <<1024, 10 * MiB>>][p]

(* The value of a level, in units of 1 / Levels.                            *)
Denormalize(p, level) ==
    LET r == ParamRange(p) IN Levels * r[1] + level * (r[2] - r[1])

(* A configuration field is the nearest integer, halves going up.           *)
SetParamByName(v) == (2 * v + Levels) \div (2 * Levels)

Proposed(levels) == [p \in Params |-> SetParamByName(Denormalize(p, levels[p]))]

Validate(cfg) ==
    goodBase /\ \A p \in Params : cfg[p] \in Rules[p][1] .. Rules[p][2]

(* An unknown compression type gives the codec that does nothing.           *)
NewCodec(type) == IF type \in 1 .. 3 THEN type ELSE 0

(* The I/O gate has at least a usable size.                                 *)
NewGate(size) == IF size <= 0 THEN 4 ELSE size

fixed == <<start, goodBase, alone>>
NoCall == [pc |-> "idle"]

TuningInit ==
    /\ start \in StartConfigs
    /\ goodBase \in BOOLEAN
    /\ snap = [cfg |-> start, codec |-> NewCodec(start["CompressionType"]),
               gate |-> NewGate(start["NumIOGoroutines"])]
    /\ apply = [c \in {"optimizer", "other"} |-> NoCall]
    /\ vals = [p \in Params |-> Levels \div 2]
    /\ opt = [pc |-> "idle", ticks |-> 0, low |-> 0, rolledBack |-> FALSE, applied |-> FALSE]
    /\ alone \in BOOLEAN
    /\ others = IF alone THEN 0 ELSE MaxOthers
    /\ log = {}
    /\ batchCodec = NewCodec(start["CompressionType"])
    /\ pub = NoCall

(* ------------------------------ ApplyConfig ---------------------------- *)

Call(c, cfg) == apply' = [apply EXCEPT ![c] = [pc |-> "validate", cfg |-> cfg]]

(* Validate, then load the current snapshot; an equal configuration is done.*)
ApplyLoad(c) ==
    /\ apply[c].pc = "validate"
    /\ apply' = [apply EXCEPT ![c] =
          IF Validate(apply[c].cfg) /\ snap.cfg # apply[c].cfg
          THEN [pc |-> "store", cfg |-> apply[c].cfg, old |-> snap] ELSE NoCall]
    /\ UNCHANGED <<snap, fixed, vals, opt, others, log, batchCodec, pub>>

(* Mutant: what is kept is taken from the snapshot current at the store.    *)
NewSnapshot_Reloads(cfg, old) ==
    [cfg |-> cfg,
     codec |-> IF cfg["CompressionType"] # old.cfg["CompressionType"]
               THEN NewCodec(cfg["CompressionType"]) ELSE snap.codec,
     gate |-> IF cfg["NumIOGoroutines"] # old.cfg["NumIOGoroutines"]
              THEN NewGate(cfg["NumIOGoroutines"]) ELSE snap.gate]

(* Codec and gate are rebuilt when their field changed, kept otherwise.     *)
NewSnapshot(cfg, old) ==
    [cfg |-> cfg,
     codec |-> IF cfg["CompressionType"] # old.cfg["CompressionType"]
               THEN NewCodec(cfg["CompressionType"]) ELSE old.codec,
     gate |-> IF cfg["NumIOGoroutines"] # old.cfg["NumIOGoroutines"]
              THEN NewGate(cfg["NumIOGoroutines"]) ELSE old.gate]

ApplyStore(c) ==
    /\ apply[c].pc = "store"
    /\ snap' = NewSnapshot(apply[c].cfg, apply[c].old)
    /\ apply' = [apply EXCEPT ![c] = NoCall]
    /\ UNCHANGED <<fixed, vals, opt, others, log, batchCodec, pub>>

OtherApplies ==
    /\ others > 0 /\ apply["other"].pc = "idle"
    /\ \E cfg \in OtherConfigs : Call("other", cfg)
    /\ others' = others - 1
    /\ UNCHANGED <<snap, fixed, vals, opt, log, batchCodec, pub>>

(* ------------------------------- optimizer ----------------------------- *)

(* step up to checkEmergencyRollback: delivered says whether this tick's    *)
(* delivery ratio is acceptable or nothing was published.                   *)
OptimizerStep(delivered) ==
    LET low == IF delivered THEN 0 ELSE opt.low + 1
        tick == IF opt.ticks > WarmupTicks THEN opt.ticks ELSE opt.ticks + 1
    IN
    /\ opt.pc = "idle"
    /\ \/ /\ opt.rolledBack
          /\ opt' = [opt EXCEPT !.pc = "act", !.ticks = tick]
          /\ UNCHANGED apply
       \/ /\ ~opt.rolledBack /\ low < RollbackTicks
          /\ opt' = [opt EXCEPT !.pc = "act", !.ticks = tick, !.low = low]
          /\ UNCHANGED apply
       \/ /\ ~opt.rolledBack /\ low >= RollbackTicks
          /\ opt' = [opt EXCEPT !.pc = "rollback", !.ticks = tick, !.low = low]
          /\ Call("optimizer", start)
    /\ UNCHANGED <<snap, fixed, vals, others, log, batchCodec, pub>>

(* rolledBack is set whether or not ApplyConfig accepted the configuration. *)
RolledBack ==
    /\ opt.pc = "rollback" /\ apply["optimizer"].pc = "idle"
    /\ opt' = [opt EXCEPT !.pc = "act", !.rolledBack = TRUE]
    /\ UNCHANGED <<snap, fixed, apply, vals, others, log, batchCodec, pub>>

(* Mutant: a rolled-back optimizer goes on tuning.                          *)
MayApply_Again(safe, elapsed) ==
    opt.ticks > WarmupTicks /\ safe /\ (opt.applied => elapsed)

(* Past the warm-up, never after a rollback, only while consumers keep up   *)
(* and minApplyInterval after the last change.                              *)
MayApply(safe, elapsed) ==
    opt.ticks > WarmupTicks /\ ~opt.rolledBack /\ safe /\ (opt.applied => elapsed)

(* applyAction: levels closer than the hysteresis are the same level here.  *)
Act(safe, elapsed, action) ==
    /\ opt.pc = "act"
    /\ IF MayApply(safe, elapsed) /\ action # vals
       THEN /\ vals' = action
            /\ opt' = [opt EXCEPT !.pc = "applying", !.applied = TRUE]
            /\ Call("optimizer", Proposed(action))
       ELSE opt' = [opt EXCEPT !.pc = "idle"] /\ UNCHANGED <<vals, apply>>
    /\ UNCHANGED <<snap, fixed, others, log, batchCodec, pub>>

Applied ==
    /\ opt.pc = "applying" /\ apply["optimizer"].pc = "idle"
    /\ opt' = [opt EXCEPT !.pc = "idle"]
    /\ UNCHANGED <<snap, fixed, apply, vals, others, log, batchCodec, pub>>

(* -------------------------- publish and consume ------------------------ *)

(* A publish loads one snapshot and encodes with its codec.  A batch of more*)
(* than one message is encoded as a block unless compression is off.        *)
CompressMessage(block) ==
    /\ pub.pc = "idle" /\ Cardinality(log) < MaxLog
    /\ pub' = [pc |-> "append", enc |-> snap.codec,
               block |-> block /\ snap.cfg["CompressionType"] # 0]
    /\ UNCHANGED <<snap, fixed, apply, vals, opt, others, log, batchCodec>>

PublishAppends ==
    /\ pub.pc = "append"
    /\ log' = log \cup {[enc |-> pub.enc, block |-> pub.block]}
    /\ pub' = NoCall
    /\ UNCHANGED <<snap, fixed, apply, vals, opt, others, batchCodec>>

(* A codec undoes its own encoding; another's it refuses or garbles.        *)
Decodes(codec, m) == m.enc = codec

(* What a consumer gets for a stored message now: a block is decoded with   *)
(* the codec its partition was created with, a single message with the      *)
(* current snapshot's.                                                      *)
Readable(m) == Decodes(IF m.block THEN batchCodec ELSE snap.codec, m)

TuningNext ==
    \/ \E c \in DOMAIN apply : ApplyLoad(c) \/ ApplyStore(c)
    \/ OtherApplies
    \/ \E delivered \in BOOLEAN : OptimizerStep(delivered)
    \/ RolledBack \/ Applied
    \/ \E safe, elapsed \in BOOLEAN, action \in [Params -> 0 .. Levels] :
          Act(safe, elapsed, action)
    \/ \E block \in BOOLEAN : CompressMessage(block)
    \/ PublishAppends

TuningSpec == TuningInit /\ [][TuningNext]_tuningVars

(* ------------------------------ properties ----------------------------- *)

(* However ApplyConfig calls interleave, the codec and the I/O gate of the  *)
(* published snapshot are the ones its own configuration asks for           *)
(* ("All fields are consistent with each other", configSnapshot).           *)
SnapshotConsistent ==
    /\ snap.codec = NewCodec(snap.cfg["CompressionType"])
    /\ snap.gate = NewGate(snap.cfg["NumIOGoroutines"])

Undisturbed == alone /\ Validate(start)

(* After an emergency rollback the broker runs with the configuration it    *)
(* was created with, for good: no later optimizer step moves it             *)
(* (checkEmergencyRollback, step).                                          *)
RollbackIsFinal == (opt.rolledBack /\ Undisturbed) => snap.cfg = start

(* Between steps the optimizer's idea of the configuration, which is half   *)
(* of the state its policy sees, is the broker's configuration: no value it *)
(* can propose is refused by ApplyConfig (applyAction, buildState).         *)
BeliefMatchesConfig ==
    (Undisturbed /\ opt.pc = "idle" /\ opt.applied /\ ~opt.rolledBack) =>
        snap.cfg = Proposed(vals)

(* Every stored message can be read back as it was published                *)
(* (TestCompressionRoundTrip).                                              *)
ReadsBack == \A m \in log : Readable(m)

=============================================================================
