------------------------------ MODULE MCBroker ------------------------------
(* Small instances of six components of the broker that share no state: the *)
(* entry ring, the registry, publishing, configuration tuning, the learners *)
(* and the key-affinity balancer.  focus names the one that moves in a      *)
(* behaviour; the others stay where they start.                             *)
EXTENDS EntryRing, Registry, Publishing, Tuning, Learner, Affinity, TLC

MCRoles == "c1" :> {"batch"} @@ "c2" :> {"publish", "set"} @@ "c3" :> {"set"}

Config(compression, io) == [CompressionType |-> compression, NumIOGoroutines |-> io]
MCStartConfigs == {Config(0, 4), Config(1, 4), Config(0, 0)}
MCOtherConfigs == {Config(1, 4), Config(3, 17)}

Report(l0, l1, d0, d1) == [loads |-> 0 :> l0 @@ 1 :> l1, depth |-> 0 :> d0 @@ 1 :> d1]
MCMetrics == {Report(2, 0, 0, 0)}
MCHashOf == "" :> 0 @@ "a" :> 1 @@ "b" :> 0

VARIABLE focus

all == <<focus, vars, registryVars, publishingVars, tuningVars, learnerVars, affinityVars>>

BrokerInit ==
    /\ focus \in {"ring", "registry", "publishing", "tuning", "learner", "affinity"}
    /\ Init /\ RegistryInit /\ PublishingInit /\ TuningInit /\ LearnerInit /\ AffinityInit
    /\ focus # "ring" => cap = 0
    /\ focus # "registry" => schedulers["n1"] = "none"
    /\ focus # "tuning" => start = Config(0, 4) /\ goodBase /\ alone
    /\ focus # "learner" => kind = "balancer"

BrokerNext ==
    /\ \/ focus = "ring" /\ Next
          /\ UNCHANGED <<registryVars, publishingVars, tuningVars, learnerVars, affinityVars>>
       \/ focus = "registry" /\ RegistryNext
          /\ UNCHANGED <<vars, publishingVars, tuningVars, learnerVars, affinityVars>>
       \/ focus = "publishing" /\ PublishingNext
          /\ UNCHANGED <<vars, registryVars, tuningVars, learnerVars, affinityVars>>
       \/ focus = "tuning" /\ TuningNext
          /\ UNCHANGED <<vars, registryVars, publishingVars, learnerVars, affinityVars>>
       \/ focus = "learner" /\ LearnerNext
          /\ UNCHANGED <<vars, registryVars, publishingVars, tuningVars, affinityVars>>
       \/ focus = "affinity" /\ AffinityNext
          /\ UNCHANGED <<vars, registryVars, publishingVars, tuningVars, learnerVars>>
    /\ UNCHANGED focus

BrokerSpec == BrokerInit /\ [][BrokerNext]_all

=============================================================================
