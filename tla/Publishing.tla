----------------------------- MODULE Publishing -----------------------------
(* The broker's runtime snapshot (balancer, backpressure, scheduler factory)*)
(* replaced by compare-and-swap while publishes run, and the in-flight      *)
(* counters that the power-of-two-choices and DQN balancers keep.           *)
(*   runtime    Broker.runtime                                              *)
(*   arrays     per balancer, the in-flight arrays it has had; the last one *)
(*              is current, none means a nil pointer                        *)
(* Loads, random picks and Q-values make any partition a possible choice.   *)
EXTENDS Integers, Sequences, FiniteSets

CONSTANTS
    PublishCalls,        \* concurrent calls, each made once
    Roles,        \* what each call may be: "set", "publish", "batch"
    Sizes,        \* numbers of partitions of the topics published to
    BatchLen      \* messages in a PublishBatch

ASSUME PublishAssumption ==
    /\ IsFiniteSet(PublishCalls) /\ "b0" \notin PublishCalls
    /\ Sizes \subseteq Nat \ {0} /\ BatchLen \in Nat \ {0}

VARIABLES runtime, stopped, arrays, publishes,
          latest,     \* history: the last value set for each field
          leaked      \* history: selections that were never completed

publishingVars == <<runtime, stopped, arrays, publishes, latest, leaked>>

Fields == {"balancer", "backpressure", "factory"}
Balancers == {"b0"} \cup PublishCalls
Partitions == UNION {0 .. n - 1 : n \in Sizes}
NotCalled == [pc |-> "idle"]

PublishingInit ==
    /\ runtime = [f \in Fields |-> IF f = "balancer" THEN "b0" ELSE "initial"]
    /\ latest = runtime
    /\ stopped = [b \in Balancers |-> 0]
    /\ arrays = [b \in Balancers |-> <<>>]
    /\ publishes = [c \in PublishCalls |-> NotCalled]
    /\ leaked = [b \in Balancers |-> [p \in Partitions |-> 0]]

(* ------------------- SetBalancer, SetBackpressure, ... ----------------- *)

SetBegins(c, f) ==
    /\ publishes[c].pc = "idle" /\ "set" \in Roles[c]
    /\ publishes' = [publishes EXCEPT ![c] = [pc |-> "set", field |-> f, old |-> runtime]]
    /\ UNCHANGED <<runtime, stopped, arrays, latest, leaked>>

(* Mutant: the new snapshot is stored without comparing.                    *)
Unchanged_Any(old) == TRUE

Unchanged(old) == runtime = old

(* CompareAndSwap of a snapshot that differs in one field; SetBalancer then *)
(* stops the balancer it replaced.  A failed swap loads again.              *)
SetSwaps(c) ==
    LET call == publishes[c]
        new == [call.old EXCEPT ![call.field] = c]
    IN
    /\ call.pc = "set"
    /\ IF Unchanged(call.old)
       THEN /\ runtime' = new
            /\ latest' = [latest EXCEPT ![call.field] = c]
            /\ stopped' = IF call.field # "balancer" THEN stopped
                          ELSE [stopped EXCEPT ![call.old.balancer] = @ + 1]
            /\ publishes' = [publishes EXCEPT ![c] = [pc |-> "installed", field |-> call.field]]
       ELSE /\ publishes' = [publishes EXCEPT ![c].old = runtime]
            /\ UNCHANGED <<runtime, latest, stopped>>
    /\ UNCHANGED <<arrays, leaked>>

(* ----------------------- Publish and PublishBatch ---------------------- *)

Goto(c, pc) == publishes' = [publishes EXCEPT ![c].pc = pc]

(* The runtime snapshot is loaded once; messages are then placed one by one.*)
PublishBegins(c, batch, n) ==
    /\ publishes[c].pc = "idle" /\ (IF batch THEN "batch" ELSE "publish") \in Roles[c]
    /\ publishes' = [publishes EXCEPT ![c] =
          [pc |-> "ensure", rt |-> runtime, batch |-> batch, n |-> n,
           todo |-> IF batch THEN BatchLen ELSE 1, array |-> 0, part |-> 0,
           groups |-> [p \in Partitions |-> 0], several |-> FALSE]]
    /\ UNCHANGED <<runtime, stopped, arrays, latest, leaked>>

(* ensureInflight: load the array; too short or nil, try to replace it.     *)
EnsureLoad(c) ==
    LET call == publishes[c]
        current == Len(arrays[call.rt.balancer])
        fits == current > 0 /\ call.n <= Cardinality(DOMAIN arrays[call.rt.balancer][current])
    IN
    /\ call.pc = "ensure"
    /\ publishes' = [publishes EXCEPT ![c].array = current,
                                      ![c].pc = IF fits THEN "select" ELSE "grow"]
    /\ UNCHANGED <<runtime, stopped, arrays, latest, leaked>>

EnsureSwap(c) ==
    LET call == publishes[c]
        b == call.rt.balancer
    IN
    /\ call.pc = "grow"
    /\ IF Len(arrays[b]) = call.array
       THEN /\ arrays' = [arrays EXCEPT ![b] = Append(@, [p \in 0 .. call.n - 1 |-> 0])]
            /\ publishes' = [publishes EXCEPT ![c].array = call.array + 1, ![c].pc = "select"]
       ELSE Goto(c, "ensure") /\ UNCHANGED arrays
    /\ UNCHANGED <<runtime, stopped, latest, leaked>>

(* The fallback, exploration and the cached Q-values can each pick any.     *)
Candidates(n) == 0 .. n - 1

(* SelectPartition counts its choice in the array it was handed.            *)
P2CSelectPartition(c, p) ==
    LET call == publishes[c] IN
    /\ call.pc = "select" /\ p \in Candidates(call.n)
    /\ arrays' = [arrays EXCEPT ![call.rt.balancer][call.array][p] = @ + 1]
    /\ publishes' = [publishes EXCEPT ![c].part = p, ![c].pc = "check"]
    /\ UNCHANGED <<runtime, stopped, latest, leaked>>

(* Mutant: the completion goes to whichever balancer is installed by now.   *)
Tracker_Reloaded(c) == runtime.balancer

Tracker(c) == publishes[c].rt.balancer

(* OnPublishComplete, k times, on the array that is current now.            *)
OnPublishComplete(c, p, k) ==
    LET b == Tracker(c)
        current == Len(arrays[b])
    IN  arrays' = IF current > 0 /\ p \in DOMAIN arrays[b][current]
                  THEN [arrays EXCEPT ![b][current][p] = @ - k] ELSE arrays

Leak(c, p, k) == leaked' = [leaked EXCEPT ![publishes[c].rt.balancer][p] = @ + k]

Placed(call, groups) ==
    [call EXCEPT !.groups = groups, !.todo = @ - 1,
                 !.several = Cardinality({p \in Partitions : groups[p] > 0}) > 1,
                 !.pc = IF call.todo > 1 THEN "ensure"
                        ELSE IF \A p \in Partitions : groups[p] = 0 THEN "done" ELSE "append"]

(* Backpressure lets the message through ...                                *)
Accepted(c) ==
    LET call == publishes[c] IN
    /\ call.pc = "check"
    /\ publishes' = [publishes EXCEPT ![c] =
          Placed(call, [call.groups EXCEPT ![call.part] = @ + 1])]
    /\ UNCHANGED <<runtime, stopped, arrays, latest, leaked>>

(* ... or refuses it: PublishBatch completes the selection, Publish returns *)
(* without doing so.                                                        *)
Throttled(c) ==
    LET call == publishes[c] IN
    /\ call.pc = "check"
    /\ publishes' = [publishes EXCEPT ![c] = Placed(call, call.groups)]
    /\ IF call.batch THEN OnPublishComplete(c, call.part, 1) /\ UNCHANGED leaked
                     ELSE Leak(c, call.part, 1) /\ UNCHANGED arrays
    /\ UNCHANGED <<runtime, stopped, latest>>

GroupDone(c, p) ==
    LET call == publishes[c]
        groups == [call.groups EXCEPT ![p] = 0]
    IN
    /\ call.pc = "append" /\ call.groups[p] > 0
    /\ publishes' = [publishes EXCEPT ![c].groups = groups,
          ![c].pc = IF \A q \in Partitions : groups[q] = 0 THEN "done" ELSE "append"]

(* The log append, whose error changes nothing here, then the completions.  *)
AppendGroup(c, p) ==
    /\ GroupDone(c, p)
    /\ OnPublishComplete(c, p, publishes[c].groups[p])
    /\ UNCHANGED <<runtime, stopped, latest, leaked>>

(* With several groups each waits for the I/O gate; a cancelled wait drops  *)
(* the group without completing it.                                         *)
GateCancelled(c, p) ==
    /\ publishes[c].pc = "append" /\ publishes[c].several
    /\ GroupDone(c, p)
    /\ Leak(c, p, publishes[c].groups[p])
    /\ UNCHANGED <<runtime, stopped, arrays, latest>>

PublishingNext ==
    \E c \in PublishCalls :
        \/ \E f \in Fields : SetBegins(c, f)
        \/ SetSwaps(c)
        \/ \E batch \in BOOLEAN, n \in Sizes : PublishBegins(c, batch, n)
        \/ EnsureLoad(c) \/ EnsureSwap(c)
        \/ \E p \in Partitions :
              P2CSelectPartition(c, p) \/ AppendGroup(c, p) \/ GateCancelled(c, p)
        \/ Accepted(c) \/ Throttled(c)

PublishingSpec == PublishingInit /\ [][PublishingNext]_publishingVars

(* ------------------------------ properties ----------------------------- *)

Installed ==
    {"b0"} \cup {c \in PublishCalls : /\ publishes[c].pc = "installed"
                                      /\ publishes[c].field = "balancer"}

(* No setter's value is lost to a concurrent setter of another field, and   *)
(* of the balancers that were ever installed exactly the replaced ones have *)
(* been stopped, once each (SetBalancer, SetBackpressure,                   *)
(* SetSchedulerFactory).                                                    *)
SettersKeepUpdates ==
    /\ runtime = latest
    /\ \A b \in Balancers :
          stopped[b] = IF b \in Installed \ {runtime.balancer} THEN 1 ELSE 0

(* Selections of partition p by balancer b that a call has not finished.    *)
Owed(call, b, p) ==
    IF call.pc \notin {"ensure", "grow", "select", "check", "append"} THEN 0
    ELSE IF call.rt.balancer # b THEN 0
    ELSE call.groups[p] + IF call.pc = "check" /\ call.part = p THEN 1 ELSE 0

Outstanding(b, p) ==
    Cardinality(UNION {{c} \X (1 .. Owed(publishes[c], b, p)) : c \in PublishCalls})

(* As long as its array was never replaced by a longer one, a balancer's    *)
(* in-flight count of a partition is the number of publishes that chose it  *)
(* and have not finished, plus those that Publish throttled or whose gate   *)
(* wait was cancelled - whichever balancer is installed meanwhile           *)
(* (SelectPartition, OnPublishComplete).                                    *)
InflightExact ==
    \A b \in Balancers : Len(arrays[b]) = 1 =>
        \A p \in DOMAIN arrays[b][1] :
            arrays[b][1][p] = Outstanding(b, p) + leaked[b][p]

=============================================================================
