--------------------------- MODULE RegistryProofs ---------------------------
(* Proofs about Registry, for every set of topic names and of calls.        *)
EXTENDS Registry, TLAPS, FiniteSetTheorems

-----------------------------------------------------------------------------
(* The registry's inductive invariant                                       *)

PCs == {"idle", "open", "register", "schedule", "unregister", "take", "stop",
        "close", "remove", "done"}
Owners == Names \cup Calls \cup {Absent}
CallRecs == [op : {"create", "delete", "set", Absent}, name : Names \cup {Absent},
             via : {"http", "grpc", "local", Absent}, pc : PCs,
             topic : Calls \cup {Absent}, sched : Owners]

RTypes ==
    /\ topics \in [Names -> Calls \cup {Absent}] /\ schedulers \in [Names -> Owners]
    /\ files \in [Names -> SUBSET Calls] /\ calls \in [Calls -> CallRecs]
    /\ opened \in SUBSET Calls /\ running \in SUBSET (Names \cup Calls)

(* What a call holds, by where it is.                                       *)
CallState ==
    \A c \in Calls :
      /\ calls[c].pc \in {"idle", "open", "schedule", "unregister", "done"}
           => calls[c].topic = Absent
      /\ calls[c].pc = "register" => calls[c].topic = c
      /\ calls[c].pc # "stop" => calls[c].sched = Absent
      /\ calls[c].pc \notin {"idle", "done"} => calls[c].name \in Names /\ calls[c].via # Absent
      /\ calls[c].pc \in {"open", "register", "unregister"} => calls[c].op # "set"
      /\ calls[c].op = "set" => calls[c].topic = Absent

(* A Topic is registered once, under one name, or being deleted by a call   *)
(* that has unregistered it; its files are removed after it is closed.      *)
Early == {"idle", "open", "register"}
TopicsKnown ==
    /\ \A n \in Names : topics[n] # Absent => calls[topics[n]].pc \notin Early
    /\ \A m, n \in Names : topics[m] = topics[n] /\ topics[m] # Absent => m = n
    /\ \A c \in Calls : calls[c].pc # "register" /\ calls[c].topic # Absent =>
         /\ calls[calls[c].topic].pc \notin Early
         /\ \A n \in Names : topics[n] # calls[c].topic
    /\ \A c \in Calls : calls[c].pc = "remove" => calls[c].topic \notin opened

(* A scheduler is in one place: under one name or taken out to be stopped.  *)
SchedulersKnown ==
    /\ \A m, n \in Names : schedulers[m] = schedulers[n] /\ schedulers[m] # Absent => m = n
    /\ \A c \in Calls : calls[c].sched # Absent =>
         \A n \in Names : schedulers[n] # calls[c].sched
    /\ \A n \in Names : schedulers[n] \in Calls => calls[schedulers[n]].pc = "done"
    /\ \A c \in Calls : calls[c].sched \in Calls => calls[calls[c].sched].pc = "done"

(* What is about to be registered has its files, too.                       *)
OpenedHasFiles ==
    \A c \in Calls : calls[c].pc = "register" => c \in files[calls[c].name] \cup removed

(* Stop lets the requests of one server after the other come to their end.  *)
Loops == {"loops", "schedulers", "topics", "stopped"}
Stopping ==
    /\ app \in {"admin", "http", "grpc"} \cup Loops => Active("local") = {}
    /\ app \in {"http", "grpc"} \cup Loops => "http" \notin up
    /\ app \in {"grpc"} \cup Loops => "grpc" \notin up /\ (~timedOut => Active("http") = {})
    /\ app \in Loops => Active("grpc") = {}

(* What the two sweeps have left to do.                                     *)
Swept ==
    /\ app = "stopped" => workers = {}
    /\ app = "schedulers" /\ ~timedOut => \A n \in Names : schedulers[n] # Absent => n \in sweep
    /\ app \in {"topics", "stopped"} /\ ~timedOut => \A n \in Names : schedulers[n] = Absent
    /\ app = "topics" /\ ~timedOut => \A t \in opened : \E n \in sweep : topics[n] = t
    /\ app = "stopped" /\ ~timedOut => opened = {}

RInv == /\ RTypes /\ CallState /\ TopicsKnown /\ SchedulersKnown /\ OpenedHasFiles
        /\ Stopping /\ Swept /\ NothingOrphaned /\ RegisteredHasFiles

-----------------------------------------------------------------------------
(* What a step of a call leaves alone                                       *)

(* Only c has moved.                                                        *)
Moved(c, pc, t, s) ==
    /\ calls' \in [Calls -> CallRecs]
    /\ calls'[c].pc = pc /\ calls'[c].topic = t /\ calls'[c].sched = s
    /\ calls'[c].op = calls[c].op /\ calls'[c].name = calls[c].name
    /\ calls'[c].via = calls[c].via
    /\ \A d \in Calls : d # c => calls'[d] = calls[d]

LEMMA MoveOnMoves ==
    ASSUME RTypes, NEW c \in Calls, NEW pc \in PCs, NEW t \in Calls \cup {Absent},
           NEW s \in Owners, MoveOn(c, pc, t, s)
    PROVE  Moved(c, pc, t, s)
<1>1. calls \in [Calls -> CallRecs] /\ calls[c] \in CallRecs
  BY DEF RTypes
<1>2. calls' = [calls EXCEPT ![c].pc = pc, ![c].topic = t, ![c].sched = s]
  BY DEF MoveOn
<1> QED
  BY <1>1, <1>2 DEF Moved, CallRecs

(* The others still hold what they held.                                    *)
LEMMA StillHeld ==
    ASSUME NEW c \in Calls, NEW pc, NEW t, NEW s, Moved(c, pc, t, s), NEW x
    PROVE  /\ (\E d \in Calls : calls[d].topic = x) =>
                calls[c].topic = x \/ \E d \in Calls : calls'[d].topic = x
           /\ (\E d \in Calls : calls[d].sched = x) =>
                calls[c].sched = x \/ \E d \in Calls : calls'[d].sched = x
<1>1. ASSUME NEW d \in Calls, calls[d].topic = x, d # c PROVE calls'[d].topic = x
  BY <1>1 DEF Moved
<1>2. ASSUME NEW d \in Calls, calls[d].sched = x, d # c PROVE calls'[d].sched = x
  BY <1>2 DEF Moved
<1> QED
  BY <1>1, <1>2

LEMMA RunningHeld ==
    ASSUME RInv, NEW c \in Calls, NEW pc, NEW t, NEW s, Moved(c, pc, t, s),
           calls[c].sched = Absent,
           schedulers' = schedulers, running' = running, replaced' = replaced
    PROVE  \A r \in running' : \/ r \in Mapped(schedulers)' \cup replaced'
                               \/ \E d \in Calls : calls'[d].sched = r
<1> SUFFICES ASSUME NEW r \in running
             PROVE  \/ r \in Mapped(schedulers)' \cup replaced'
                    \/ \E d \in Calls : calls'[d].sched = r
  OBVIOUS
<1>1. r # Absent
  BY NamesAssumption DEF RInv, RTypes
<1>2. r \in Mapped(schedulers) \cup replaced \/ \E d \in Calls : calls[d].sched = r
  BY DEF RInv, NothingOrphaned
<1>3. Mapped(schedulers)' = Mapped(schedulers)
  BY DEF Mapped
<1> QED
  BY <1>1, <1>2, <1>3, StillHeld

(* Nobody knows the Topic of a call that has not registered it, nor the     *)
(* scheduler of one that has not returned.                                  *)
LEMMA Unknown ==
    ASSUME RInv, NEW c \in Calls
    PROVE  /\ calls[c].pc \in Early =>
                /\ \A n \in Names : topics[n] # c
                /\ \A d \in Calls : calls[d].pc # "register" => calls[d].topic # c
           /\ calls[c].pc # "done" =>
                (\A n \in Names : schedulers[n] # c) /\ (\A d \in Calls : calls[d].sched # c)
<1>1. c # Absent
  BY NamesAssumption
<1> QED
  BY <1>1 DEF RInv, TopicsKnown, SchedulersKnown

(* A call that has no scheduler in hand leaves them where they are.         *)
LEMMA KeepSchedulers ==
    ASSUME RInv, NEW c \in Calls, calls[c].pc # "done", NEW pc, NEW t, Moved(c, pc, t, Absent),
           UNCHANGED schedulers
    PROVE  SchedulersKnown'
<1>1. \A d \in Calls : calls'[d].sched = calls[d].sched \/ calls'[d].sched = Absent
  BY DEF Moved
<1>2. \A d \in Calls : calls[d].pc = "done" => calls'[d].pc = "done"
  BY DEF Moved
<1>3. Absent \notin Calls
  BY NamesAssumption
<1> QED
  BY <1>1, <1>2, <1>3 DEF RInv, SchedulersKnown

(* A call that keeps or drops the Topic it deletes leaves the others'.      *)
LEMMA KeepTopics ==
    ASSUME RInv, NEW c \in Calls, calls[c].pc \notin Early, NEW pc \in PCs \ Early,
           NEW t \in {calls[c].topic, Absent}, NEW s, Moved(c, pc, t, s),
           UNCHANGED topics, opened' \subseteq opened, pc = "remove" => t \notin opened'
    PROVE  TopicsKnown'
<1>1. /\ \A m \in Names : topics[m] \in Calls \cup {Absent}
      /\ \A d \in Calls : calls[d].topic \in Calls \cup {Absent}
  BY DEF RInv, RTypes, CallRecs
<1>2. \A d \in Calls : calls[d].pc \notin Early => calls'[d].pc \notin Early
  BY DEF Moved
<1>3. \A m \in Names : topics[m] # Absent => calls'[topics[m]].pc \notin Early
  BY <1>1, <1>2 DEF RInv, TopicsKnown
<1>4. ASSUME NEW d \in Calls, calls'[d].pc # "register", calls'[d].topic # Absent
      PROVE  /\ calls'[calls'[d].topic].pc \notin Early
             /\ \A m \in Names : topics[m] # calls'[d].topic
  <2>1. calls'[d].topic = calls[d].topic /\ calls[d].pc # "register"
    BY <1>4 DEF Moved, Early
  <2> QED
    BY <1>1, <1>2, <1>4, <2>1 DEF RInv, TopicsKnown
<1>5. ASSUME NEW d \in Calls, calls'[d].pc = "remove" PROVE calls'[d].topic \notin opened'
  BY <1>5 DEF Moved, RInv, TopicsKnown
<1> QED
  BY <1>3, <1>4, <1>5 DEF RInv, TopicsKnown

(* Once Stop is past its servers, no call is on its way.                    *)
LEMMA NoneLeft ==
    ASSUME RInv, app \in Loops, ~timedOut, NEW c \in Calls
    PROVE  calls[c].pc \in {"idle", "done"} /\ calls[c].topic = Absent /\ calls[c].sched = Absent
<1>1. Active("local") = {} /\ Active("http") = {} /\ Active("grpc") = {}
  BY DEF RInv, Stopping
<1>2. calls[c].via \in {"http", "grpc", "local", Absent}
  BY DEF RInv, RTypes, CallRecs
<1>3. calls[c].pc \in {"idle", "done"}
  BY <1>1, <1>2 DEF RInv, CallState, Active
<1> QED
  BY <1>3 DEF RInv, CallState

(* A call that is on its way holds up Stop and what Stop sweeps.            *)
LEMMA KeepStopping ==
    ASSUME RInv, NEW c \in Calls, calls[c].pc \notin {"idle", "done"}, UNCHANGED stopVars,
           NEW pc, NEW t, NEW s, Moved(c, pc, t, s)
    PROVE  Stopping' /\ Swept'
<1>1. UNCHANGED <<up, app, sweep, workers, timedOut>>
  BY DEF stopVars
<1>2. \A via : Active(via)' \subseteq Active(via)
  BY DEF Active, Moved
<1>3. Stopping'
  BY <1>1, <1>2 DEF RInv, Stopping
<1>4. ~(app \in Loops /\ ~timedOut)
  BY NoneLeft
<1> QED
  BY <1>1, <1>3, <1>4 DEF RInv, Swept, Loops

-----------------------------------------------------------------------------
(* CreateTopic                                                              *)

LEMMA KeepCreateOpen ==
    ASSUME RInv, NEW c \in Calls, CreateOpen(c)
    PROVE  RInv'
<1>1. /\ calls[c].pc = "open"
      /\ UNCHANGED <<topics, schedulers, running, replaced, removed>> /\ UNCHANGED stopVars
  BY DEF CreateOpen
<1>2. /\ calls[c].topic = Absent /\ calls[c].sched = Absent /\ calls[c].op # "set"
      /\ calls[c].name \in Names /\ calls[c].via # Absent /\ c # Absent
  BY <1>1, NamesAssumption DEF RInv, CallState
<1>0. opened \subseteq Calls /\ running \subseteq Names \cup Calls
  BY DEF RInv, RTypes
<1>3. /\ \A n \in Names : topics[n] # c
      /\ \A d \in Calls : calls[d].pc # "register" => calls[d].topic # c
      /\ (\A n \in Names : schedulers[n] # c) /\ (\A d \in Calls : calls[d].sched # c)
  BY <1>1, Unknown DEF Early
<1>4. CASE /\ opened' = opened \cup {c}
           /\ files' = [files EXCEPT ![calls[c].name] = @ \cup {c}]
           /\ MoveOn(c, "register", c, Absent)
  <2>1. Moved(c, "register", c, Absent)
    BY <1>4, MoveOnMoves DEF RInv, PCs, Owners
  <2>2. /\ files' \in [Names -> SUBSET Calls] /\ \A n \in Names : files[n] \subseteq files'[n]
        /\ c \in files'[calls[c].name]
    BY <1>2, <1>4 DEF RInv, RTypes
  <2>3. RTypes' /\ CallState'
    <3>1. RTypes'
      BY <1>1, <1>2, <1>4, <2>1, <2>2 DEF RInv, RTypes, Moved
    <3> QED
      BY <3>1, <1>1, <1>2, <1>4, <2>1, <2>2 DEF RInv, CallState, Moved
  <2>4. TopicsKnown'
    BY <1>1, <1>2, <1>3, <1>4, <2>1 DEF RInv, RTypes, TopicsKnown, Moved, Early, CallRecs
  <2>5. SchedulersKnown'
    BY <1>1, <2>1, KeepSchedulers
  <2>6. OpenedHasFiles' /\ RegisteredHasFiles'
    BY <1>1, <1>2, <2>1, <2>2 DEF RInv, CallState, OpenedHasFiles, RegisteredHasFiles, Moved
  <2>7. Stopping' /\ Swept'
    BY <1>1, <2>1, KeepStopping
  <2>8. NothingOrphaned'
    <3>1. \A t \in opened' : t \in Mapped(topics) \/ \E d \in Calls : calls'[d].topic = t
      BY <1>0, <1>2, <1>4, <2>1, NamesAssumption DEF RInv, NothingOrphaned, Moved
    <3> QED
      BY <1>0, <1>1, <1>2, <2>1, <3>1, NamesAssumption DEF RInv, NothingOrphaned, Mapped, Moved
  <2> QED
    BY <2>3, <2>4, <2>5, <2>6, <2>7, <2>8 DEF RInv
<1>5. CASE Return(c) /\ UNCHANGED <<opened, files>>
  <2>1. Moved(c, "done", Absent, Absent)
    BY <1>5, MoveOnMoves DEF RInv, PCs, Owners, Return
  <2>3. RTypes' /\ CallState'
    <3>1. RTypes'
      BY <1>1, <1>2, <1>5, <2>1 DEF RInv, RTypes, Moved
    <3> QED
      BY <3>1, <1>1, <1>2, <1>5, <2>1 DEF RInv, CallState, Moved
  <2>4. TopicsKnown'
    BY <1>1, <1>2, <1>3, <1>5, <2>1 DEF RInv, RTypes, TopicsKnown, Moved, Early, CallRecs
  <2>5. SchedulersKnown'
    BY <1>1, <2>1, KeepSchedulers
  <2>6. OpenedHasFiles' /\ RegisteredHasFiles'
    BY <1>1, <1>2, <1>5, <2>1 DEF RInv, OpenedHasFiles, RegisteredHasFiles, Moved
  <2>7. Stopping' /\ Swept'
    BY <1>1, <2>1, KeepStopping
  <2>8. NothingOrphaned'
    BY <1>1, <1>2, <1>5, <2>1, NamesAssumption DEF RInv, NothingOrphaned, Mapped, Moved
  <2> QED
    BY <2>3, <2>4, <2>5, <2>6, <2>7, <2>8 DEF RInv
<1> QED
  BY <1>4, <1>5 DEF CreateOpen

LEMMA KeepCreateRegister ==
    ASSUME RInv, NEW c \in Calls, CreateRegister(c)
    PROVE  RInv'
<1>1. /\ calls[c].pc = "register"
      /\ UNCHANGED <<schedulers, running, replaced, removed>> /\ UNCHANGED stopVars
  BY DEF CreateRegister
<1>2. /\ calls[c].topic = c /\ calls[c].sched = Absent /\ calls[c].op # "set"
      /\ calls[c].name \in Names /\ calls[c].via # Absent /\ c # Absent
      /\ c \in files[calls[c].name] \cup removed
  BY <1>1, NamesAssumption DEF RInv, CallState, OpenedHasFiles
<1>3. /\ \A n \in Names : topics[n] # c
      /\ \A d \in Calls : d # c => calls[d].topic # c
      /\ (\A n \in Names : schedulers[n] # c) /\ (\A d \in Calls : calls[d].sched # c)
  BY <1>1, Unknown DEF Early, RInv, CallState
<1>4. opened \subseteq Calls /\ running \subseteq Names \cup Calls
  BY DEF RInv, RTypes
<1> DEFINE n == calls[c].name
<1>5. CASE topics[n] = Absent
  <2>1. /\ topics' = [topics EXCEPT ![n] = c] /\ MoveOn(c, "schedule", Absent, Absent)
        /\ UNCHANGED <<opened, files>>
    BY <1>5 DEF CreateRegister
  <2>2. Moved(c, "schedule", Absent, Absent)
    BY <2>1, MoveOnMoves DEF RInv, PCs, Owners
  <2>3. /\ topics' \in [Names -> Calls \cup {Absent}] /\ topics'[n] = c
        /\ \A m \in Names : m # n => topics'[m] = topics[m]
    BY <1>2, <2>1 DEF RInv, RTypes
  <2>4. RTypes' /\ CallState'
    <3>1. RTypes'
      BY <1>1, <1>2, <2>1, <2>2, <2>3 DEF RInv, RTypes, Moved
    <3> QED
      BY <3>1, <1>1, <1>2, <2>1, <2>2, <2>3 DEF RInv, CallState, Moved
  <2>5. TopicsKnown'
    BY <1>1, <1>2, <1>3, <2>1, <2>2, <2>3, SMTT(20) DEF RInv, RTypes, TopicsKnown, Moved, Early, CallRecs
  <2>6. SchedulersKnown'
    BY <1>1, <2>2, KeepSchedulers
  <2>7. OpenedHasFiles' /\ RegisteredHasFiles'
    BY <1>1, <1>2, <2>1, <2>2, <2>3 DEF RInv, OpenedHasFiles, RegisteredHasFiles, Moved
  <2>8. Stopping' /\ Swept'
    BY <1>1, <2>2, KeepStopping
  <2>9. NothingOrphaned'
    <3>1. Mapped(topics)' = Mapped(topics) \cup {c} /\ Mapped(schedulers)' = Mapped(schedulers)
      BY <1>1, <1>2, <1>5, <2>3 DEF Mapped
    <3>2. \A t \in opened' : t \in Mapped(topics)' \/ \E d \in Calls : calls'[d].topic = t
      BY <1>2, <2>1, <2>2, <3>1, StillHeld DEF RInv, NothingOrphaned
    <3>3. \A r \in running' : \/ r \in Mapped(schedulers)' \cup replaced'
                             \/ \E d \in Calls : calls'[d].sched = r
      BY <1>1, <1>2, <2>2, RunningHeld
    <3> QED
      BY <1>1, <3>1, <3>2, <3>3 DEF RInv, NothingOrphaned
  <2> QED
    BY <2>4, <2>5, <2>6, <2>7, <2>8, <2>9 DEF RInv
<1>6. CASE topics[n] # Absent
  <2>1. CloseLoser(c) /\ Return(c) /\ UNCHANGED topics
    BY <1>6 DEF CreateRegister
  <2>2. Moved(c, "done", Absent, Absent)
    BY <2>1, MoveOnMoves DEF RInv, PCs, Owners, Return
  <2>3. /\ opened' = opened \ {c} /\ files' \in [Names -> SUBSET Calls]
        /\ \A m \in Names : files[m] \ {c} \subseteq files'[m]
    BY <1>2, <2>1 DEF RInv, RTypes, CloseLoser
  <2>4. RTypes' /\ CallState'
    <3>1. RTypes'
      BY <1>1, <1>2, <2>1, <2>2, <2>3 DEF RInv, RTypes, Moved
    <3> QED
      BY <3>1, <1>1, <1>2, <2>1, <2>2, <2>3 DEF RInv, CallState, Moved
  <2>5. TopicsKnown'
    BY <1>1, <1>2, <1>3, <2>1, <2>2, <2>3 DEF RInv, RTypes, TopicsKnown, Moved, Early, CallRecs
  <2>6. SchedulersKnown'
    BY <1>1, <2>2, KeepSchedulers
  <2>7. OpenedHasFiles' /\ RegisteredHasFiles'
    BY <1>1, <1>2, <1>3, <2>1, <2>2, <2>3
    DEF RInv, CallState, OpenedHasFiles, RegisteredHasFiles, Moved
  <2>8. Stopping' /\ Swept'
    BY <1>1, <2>2, KeepStopping
  <2>9. NothingOrphaned'
    <3>1. Mapped(topics)' = Mapped(topics) /\ Mapped(schedulers)' = Mapped(schedulers)
      BY <1>1, <2>1 DEF Mapped
    <3>2. ASSUME NEW t \in opened'
          PROVE  t \in Mapped(topics)' \/ \E d \in Calls : calls'[d].topic = t
      <4>1. t \in opened /\ t # calls[c].topic
        BY <1>2, <2>3
      <4>2. t \in Mapped(topics) \/ \E d \in Calls : calls[d].topic = t
        BY <4>1 DEF RInv, NothingOrphaned
      <4> QED
        BY <2>2, <3>1, <4>1, <4>2, StillHeld
    <3>3. \A r \in running' : \/ r \in Mapped(schedulers)' \cup replaced'
                             \/ \E d \in Calls : calls'[d].sched = r
      BY <1>1, <1>2, <2>2, RunningHeld
    <3> QED
      BY <1>1, <3>1, <3>2, <3>3 DEF RInv, NothingOrphaned
  <2> QED
    BY <2>4, <2>5, <2>6, <2>7, <2>8, <2>9 DEF RInv
<1> QED
  BY <1>5, <1>6

LEMMA KeepStoreScheduler ==
    ASSUME RInv, NEW c \in Calls, StoreScheduler(c)
    PROVE  RInv'
<1> DEFINE n == calls[c].name
<1>1. /\ calls[c].pc = "schedule" /\ schedulers' = [schedulers EXCEPT ![n] = c]
      /\ running' = running \cup {c} /\ replaced' = replaced \cup ({schedulers[n]} \ {Absent})
      /\ UNCHANGED <<topics, opened, files, removed>> /\ UNCHANGED stopVars /\ Return(c)
  BY DEF StoreScheduler
<1>2. /\ calls[c].topic = Absent /\ calls[c].sched = Absent
      /\ n \in Names /\ calls[c].via # Absent /\ c # Absent
  BY <1>1, NamesAssumption DEF RInv, CallState
<1>3. (\A m \in Names : schedulers[m] # c) /\ (\A d \in Calls : calls[d].sched # c)
  BY <1>1, Unknown
<1>4. opened \subseteq Calls /\ running \subseteq Names \cup Calls
  BY DEF RInv, RTypes
<1>5. Moved(c, "done", Absent, Absent)
  BY <1>1, MoveOnMoves DEF RInv, PCs, Owners, Return
<1>6. /\ schedulers' \in [Names -> Owners] /\ schedulers'[n] = c
      /\ \A m \in Names : m # n => schedulers'[m] = schedulers[m]
  BY <1>1, <1>2 DEF RInv, RTypes, Owners
<1> HIDE DEF n
<1>7. RTypes' /\ CallState'
  <2>1. RTypes'
    BY <1>1, <1>2, <1>5, <1>6 DEF RInv, RTypes, Moved
  <2> QED
    BY <2>1, <1>1, <1>2, <1>5, <1>6 DEF RInv, CallState, Moved
<1>8. TopicsKnown'
  BY <1>1, <1>2, <1>5, KeepTopics DEF Early, PCs
<1>9. SchedulersKnown'
  <2>1. \A d \in Calls : calls'[d].sched = calls[d].sched
    BY <1>2, <1>5 DEF Moved
  <2>2. /\ \A d \in Calls : calls[d].pc = "done" => calls'[d].pc = "done"
        /\ calls'[c].pc = "done"
    BY <1>5 DEF Moved
  <2>3. \A m, k \in Names : schedulers'[m] = schedulers'[k] /\ schedulers'[m] # Absent => m = k
    BY <1>3, <1>6 DEF RInv, SchedulersKnown
  <2>4. \A d \in Calls, m \in Names : calls[d].sched # Absent => schedulers'[m] # calls[d].sched
    BY <1>3, <1>6 DEF RInv, SchedulersKnown
  <2>5. \A m \in Names : schedulers'[m] \in Calls => calls'[schedulers'[m]].pc = "done"
    BY <1>6, <2>2 DEF RInv, SchedulersKnown
  <2>6. \A d \in Calls : calls[d].sched \in Calls => calls'[calls[d].sched].pc = "done"
    BY <2>2 DEF RInv, SchedulersKnown
  <2> QED
    BY <2>1, <2>3, <2>4, <2>5, <2>6 DEF SchedulersKnown
<1>10. OpenedHasFiles' /\ RegisteredHasFiles'
  BY <1>1, <1>2, <1>5 DEF RInv, OpenedHasFiles, RegisteredHasFiles, Moved
<1>11. Stopping' /\ Swept'
  BY <1>1, <1>5, KeepStopping
<1>12. NothingOrphaned'
  <2>1. /\ Mapped(schedulers)' \subseteq Mapped(schedulers) \cup {c}
        /\ Mapped(schedulers) \subseteq Mapped(schedulers)' \cup replaced'
        /\ c \in Mapped(schedulers)' /\ Mapped(topics)' = Mapped(topics)
    BY <1>1, <1>2, <1>6 DEF Mapped
  <2>2. ASSUME NEW t \in opened'
        PROVE  t \in Mapped(topics)' \/ \E d \in Calls : calls'[d].topic = t
    <3>1. t \in opened /\ t # calls[c].topic
      BY <1>1, <1>2, <1>4, NamesAssumption
    <3>2. t \in Mapped(topics) \/ \E d \in Calls : calls[d].topic = t
      BY <3>1 DEF RInv, NothingOrphaned
    <3> QED
      BY <1>5, <2>1, <3>1, <3>2, StillHeld
  <2>3. ASSUME NEW r \in running'
        PROVE  r \in Mapped(schedulers)' \cup replaced' \/ \E d \in Calls : calls'[d].sched = r
    <3>1. replaced \subseteq replaced'
      BY <1>1
    <3>2. CASE r = c
      BY <2>1, <3>2
    <3>3. CASE r \in running
      <4>1. r # calls[c].sched
        BY <1>2, <1>4, <3>3, NamesAssumption
      <4>2. r \in Mapped(schedulers) \cup replaced \/ \E d \in Calls : calls[d].sched = r
        BY <3>3 DEF RInv, NothingOrphaned
      <4> QED
        BY <1>5, <2>1, <3>1, <4>1, <4>2, StillHeld
    <3> QED
      BY <1>1, <3>2, <3>3
  <2> QED
    BY <1>1, <2>1, <2>2, <2>3 DEF RInv, NothingOrphaned
<1> QED
  BY <1>7, <1>8, <1>9, <1>10, <1>11, <1>12 DEF RInv

-----------------------------------------------------------------------------
(* DeleteTopic and SetScheduler                                             *)

LEMMA KeepDeleteUnregister ==
    ASSUME RInv, NEW c \in Calls, DeleteUnregister(c)
    PROVE  RInv'
<1> DEFINE n == calls[c].name
<1>1. /\ calls[c].pc = "unregister" /\ topics' = [topics EXCEPT ![n] = Absent]
      /\ UNCHANGED <<opened, files, schedulers, running, replaced, removed>>
      /\ UNCHANGED stopVars
  BY DEF DeleteUnregister
<1>2. /\ calls[c].topic = Absent /\ calls[c].sched = Absent /\ calls[c].op # "set"
      /\ n \in Names /\ calls[c].via # Absent
  BY <1>1 DEF RInv, CallState
<1>3. (\A m \in Names : schedulers[m] # c) /\ (\A d \in Calls : calls[d].sched # c)
  BY <1>1, Unknown
<1>4. opened \subseteq Calls /\ running \subseteq Names \cup Calls
  BY DEF RInv, RTypes
<1>5. /\ topics' \in [Names -> Calls \cup {Absent}] /\ topics'[n] = Absent
      /\ \A m \in Names : m # n => topics'[m] = topics[m]
      /\ topics[n] \in Calls \cup {Absent}
  BY <1>1, <1>2 DEF RInv, RTypes
<1>6. PICK pc \in {"take", "done"} :
        Moved(c, pc, topics[n], Absent) /\ (pc = "done" <=> topics[n] = Absent)
  <2>1. CASE topics[n] = Absent
    <3>1. Moved(c, "done", Absent, Absent)
      BY <2>1, MoveOnMoves DEF RInv, PCs, Owners, DeleteUnregister, Return
    <3> QED
      BY <2>1, <3>1
  <2>2. CASE topics[n] # Absent
    BY <1>5, <2>2, MoveOnMoves DEF RInv, PCs, Owners, DeleteUnregister
  <2> QED
    BY <2>1, <2>2
<1> HIDE DEF n
<1>7. RTypes' /\ CallState'
  <2>1. RTypes'
    BY <1>1, <1>2, <1>5, <1>6 DEF RInv, RTypes, Moved
  <2>2. ASSUME NEW d \in Calls, d # c PROVE calls'[d] = calls[d]
    BY <1>6, <2>2 DEF Moved
  <2>3. /\ calls'[c].pc = pc /\ calls'[c].topic = topics[n] /\ calls'[c].sched = Absent
        /\ calls'[c].op = calls[c].op /\ calls'[c].name = n /\ calls'[c].via = calls[c].via
    BY <1>6 DEF Moved, n
  <2> QED
    BY <1>2, <1>6, <2>1, <2>2, <2>3 DEF RInv, CallState
<1>8. TopicsKnown'
  <2>1. topics[n] # Absent => calls[topics[n]].pc \notin Early
    BY <1>1, <1>2 DEF RInv, TopicsKnown, Early
  <2> QED
    BY <1>1, <1>2, <1>5, <1>6, <2>1 DEF RInv, RTypes, TopicsKnown, Moved, Early, CallRecs
<1>9. SchedulersKnown'
  BY <1>1, <1>6, KeepSchedulers
<1>10. OpenedHasFiles' /\ RegisteredHasFiles'
  BY <1>1, <1>2, <1>5, <1>6 DEF RInv, OpenedHasFiles, RegisteredHasFiles, Moved
<1>11. Stopping' /\ Swept'
  BY <1>1, <1>6, KeepStopping
<1>12. NothingOrphaned'
  <2>1. /\ Mapped(topics) \subseteq Mapped(topics)' \cup {topics[n]}
        /\ Mapped(schedulers)' = Mapped(schedulers)
    BY <1>1, <1>2, <1>5 DEF Mapped
  <2>2. calls'[c].topic = topics[n] /\ calls'[c].sched = Absent
    BY <1>6 DEF Moved
  <2>3. ASSUME NEW t \in opened'
        PROVE  t \in Mapped(topics)' \/ \E d \in Calls : calls'[d].topic = t
    <3>1. t \in opened /\ t # calls[c].topic
      BY <1>1, <1>2, <1>4, NamesAssumption
    <3>2. t \in Mapped(topics) \/ \E d \in Calls : calls[d].topic = t
      BY <3>1 DEF RInv, NothingOrphaned
    <3> QED
      BY <1>6, <2>1, <2>2, <3>1, <3>2, StillHeld
  <2>4. \A r \in running' : \/ r \in Mapped(schedulers)' \cup replaced'
                           \/ \E d \in Calls : calls'[d].sched = r
    BY <1>1, <1>2, <1>6, RunningHeld
  <2> QED
    BY <1>1, <2>1, <2>3, <2>4 DEF RInv, NothingOrphaned
<1> QED
  BY <1>7, <1>8, <1>9, <1>10, <1>11, <1>12 DEF RInv

LEMMA KeepTakeScheduler ==
    ASSUME RInv, NEW c \in Calls, TakeScheduler(c)
    PROVE  RInv'
<1> DEFINE n == calls[c].name
<1>1. /\ calls[c].pc = "take" /\ schedulers' = [schedulers EXCEPT ![n] = Absent]
      /\ MoveOn(c, "stop", calls[c].topic, schedulers[n])
      /\ UNCHANGED <<topics, opened, files, running, replaced, removed>> /\ UNCHANGED stopVars
  BY DEF TakeScheduler
<1>2. /\ calls[c].sched = Absent /\ n \in Names /\ calls[c].via # Absent
      /\ calls[c].topic \in Calls \cup {Absent} /\ schedulers[n] \in Owners
  BY <1>1 DEF RInv, RTypes, CallRecs, CallState
<1>3. (\A m \in Names : schedulers[m] # c) /\ (\A d \in Calls : calls[d].sched # c)
  BY <1>1, Unknown
<1>4. opened \subseteq Calls /\ running \subseteq Names \cup Calls
  BY DEF RInv, RTypes
<1>5. /\ schedulers' \in [Names -> Owners] /\ schedulers'[n] = Absent
      /\ \A m \in Names : m # n => schedulers'[m] = schedulers[m]
  BY <1>1, <1>2 DEF RInv, RTypes, Owners
<1>6. Moved(c, "stop", calls[c].topic, schedulers[n])
  BY <1>1, <1>2, MoveOnMoves DEF RInv, PCs
<1> HIDE DEF n
<1>7. RTypes' /\ CallState'
  <2>1. RTypes'
    BY <1>1, <1>5, <1>6 DEF RInv, RTypes, Moved
  <2> QED
    <3>1. \A d \in Calls : d # c => calls'[d] = calls[d]
      BY <1>6 DEF Moved
    <3>2. /\ calls'[c].pc = "stop" /\ calls'[c].topic = calls[c].topic /\ calls'[c].op = calls[c].op
          /\ calls'[c].name = calls[c].name /\ calls'[c].via = calls[c].via
      BY <1>6 DEF Moved
    <3>3. calls[c].op = "set" => calls[c].topic = Absent
      BY DEF RInv, CallState
    <3>4. calls'[c].name \in Names /\ calls'[c].via # Absent
      BY <1>2, <3>2 DEF n
    <3> QED
      BY <2>1, <3>1, <3>2, <3>3, <3>4 DEF RInv, CallState
<1>8. TopicsKnown'
  BY <1>1, <1>2, <1>6, KeepTopics DEF Early, PCs
<1>9. SchedulersKnown'
  <2>1. calls'[c].sched = schedulers[n] /\ \A d \in Calls : d # c => calls'[d].sched = calls[d].sched
    BY <1>6 DEF Moved
  <2>2. \A d \in Calls : calls[d].pc = "done" => calls'[d].pc = "done"
    BY <1>1, <1>6 DEF Moved
  <2>3. \A m, k \in Names : schedulers'[m] = schedulers'[k] /\ schedulers'[m] # Absent => m = k
    BY <1>5 DEF RInv, SchedulersKnown
  <2>4. ASSUME NEW d \in Calls, calls'[d].sched # Absent, NEW m \in Names
        PROVE  schedulers'[m] # calls'[d].sched
    BY <1>2, <1>5, <2>1, <2>4 DEF RInv, SchedulersKnown
  <2>5. \A m \in Names : schedulers'[m] \in Calls => calls'[schedulers'[m]].pc = "done"
    BY <1>5, <2>2, NamesAssumption DEF RInv, SchedulersKnown
  <2>6. \A d \in Calls : calls'[d].sched \in Calls => calls'[calls'[d].sched].pc = "done"
    BY <1>2, <2>1, <2>2 DEF RInv, SchedulersKnown
  <2> QED
    BY <2>3, <2>4, <2>5, <2>6 DEF SchedulersKnown
<1>10. OpenedHasFiles' /\ RegisteredHasFiles'
  BY <1>1, <1>2, <1>6 DEF RInv, OpenedHasFiles, RegisteredHasFiles, Moved
<1>11. Stopping' /\ Swept'
  BY <1>1, <1>6, KeepStopping
<1>12. NothingOrphaned'
  <2>1. /\ Mapped(schedulers)' \subseteq Mapped(schedulers)
        /\ Mapped(schedulers) \subseteq Mapped(schedulers)' \cup {schedulers[n]}
        /\ Mapped(topics)' = Mapped(topics)
    BY <1>1, <1>2, <1>5 DEF Mapped
  <2>2. calls'[c].topic = calls[c].topic /\ calls'[c].sched = schedulers[n]
    BY <1>6 DEF Moved
  <2>3. \A t \in opened' : t \in Mapped(topics)' \/ \E d \in Calls : calls'[d].topic = t
    BY <1>1, <1>6, <2>1, <2>2, StillHeld DEF RInv, NothingOrphaned
  <2>4. ASSUME NEW r \in running'
        PROVE  r \in Mapped(schedulers)' \cup replaced' \/ \E d \in Calls : calls'[d].sched = r
    <3>1. r \in running /\ r # calls[c].sched /\ replaced' = replaced
      BY <1>1, <1>2, <1>4, NamesAssumption
    <3>2. r \in Mapped(schedulers) \cup replaced \/ \E d \in Calls : calls[d].sched = r
      BY <3>1 DEF RInv, NothingOrphaned
    <3> QED
      BY <1>6, <2>1, <2>2, <3>1, <3>2, StillHeld
  <2> QED
    BY <1>1, <2>1, <2>3, <2>4 DEF RInv, NothingOrphaned
<1> QED
  BY <1>7, <1>8, <1>9, <1>10, <1>11, <1>12 DEF RInv

LEMMA KeepStopTaken ==
    ASSUME RInv, NEW c \in Calls, StopTaken(c)
    PROVE  RInv'
<1> DEFINE x == calls[c].sched
<1>1. /\ calls[c].pc = "stop" /\ running' = running \ {x}
      /\ UNCHANGED <<topics, opened, files, schedulers, replaced, removed>>
      /\ UNCHANGED stopVars
  BY DEF StopTaken
<1>2. /\ calls[c].name \in Names /\ calls[c].via # Absent
      /\ calls[c].topic \in Calls \cup {Absent} /\ (calls[c].op = "set" => calls[c].topic = Absent)
  BY <1>1 DEF RInv, RTypes, CallRecs, CallState
<1>3. (\A m \in Names : schedulers[m] # c) /\ (\A d \in Calls : calls[d].sched # c)
  BY <1>1, Unknown
<1>4. opened \subseteq Calls /\ running \subseteq Names \cup Calls
  BY DEF RInv, RTypes
<1>5. PICK pc \in {"schedule", "close"} :
        Moved(c, pc, calls[c].topic, Absent) /\ (pc = "schedule" => calls[c].op = "set")
  <2>1. CASE calls[c].op = "set"
    <3>1. Moved(c, "schedule", calls[c].topic, Absent)
      BY <1>2, <2>1, MoveOnMoves DEF RInv, PCs, Owners, StopTaken
    <3> QED
      BY <2>1, <3>1
  <2>2. CASE calls[c].op # "set"
    <3>1. Moved(c, "close", calls[c].topic, Absent)
      BY <1>2, <2>2, MoveOnMoves DEF RInv, PCs, Owners, StopTaken
    <3> QED
      BY <3>1
  <2> QED
    BY <2>1, <2>2
<1>6. RTypes' /\ CallState'
  <2>1. RTypes'
    BY <1>1, <1>2, <1>4, <1>5 DEF RInv, RTypes, Moved
  <2> QED
    BY <2>1, <1>1, <1>2, <1>4, <1>5 DEF RInv, CallState, Moved
<1>7. TopicsKnown'
  BY <1>1, <1>2, <1>5, KeepTopics DEF Early, PCs
<1>8. SchedulersKnown'
  BY <1>1, <1>5, KeepSchedulers
<1>9. OpenedHasFiles' /\ RegisteredHasFiles'
  BY <1>1, <1>2, <1>5 DEF RInv, OpenedHasFiles, RegisteredHasFiles, Moved
<1>10. Stopping' /\ Swept'
  BY <1>1, <1>5, KeepStopping
<1>11. NothingOrphaned'
  <2>1. Mapped(schedulers)' = Mapped(schedulers) /\ Mapped(topics)' = Mapped(topics)
    BY <1>1 DEF Mapped
  <2>2. x \notin Mapped(schedulers)
    BY DEF Mapped, RInv, SchedulersKnown
  <2>3. \A t \in opened' : t \in Mapped(topics)' \/ \E d \in Calls : calls'[d].topic = t
    <3>1. calls'[c].topic = calls[c].topic
      BY <1>5 DEF Moved
    <3> QED
      BY <1>1, <1>5, <2>1, <3>1, StillHeld DEF RInv, NothingOrphaned
  <2>4. ASSUME NEW r \in running'
        PROVE  r \in Mapped(schedulers)' \cup replaced' \/ \E d \in Calls : calls'[d].sched = r
    <3>1. r \in running /\ r # calls[c].sched /\ replaced' = replaced
      BY <1>1
    <3>2. r \in Mapped(schedulers) \cup replaced \/ \E d \in Calls : calls[d].sched = r
      BY <3>1 DEF RInv, NothingOrphaned
    <3> QED
      BY <1>5, <2>1, <3>1, <3>2, StillHeld
  <2> QED
    BY <1>1, <2>1, <2>2, <2>3, <2>4 DEF RInv, NothingOrphaned
<1> QED
  BY <1>6, <1>7, <1>8, <1>9, <1>10, <1>11 DEF RInv

LEMMA KeepDeleteClose ==
    ASSUME RInv, NEW c \in Calls, DeleteClose(c)
    PROVE  RInv'
<1> DEFINE x == calls[c].topic
<1>1. /\ calls[c].pc = "close" /\ opened' = opened \ {x}
      /\ UNCHANGED <<topics, files, schedulers, running, replaced, removed>>
      /\ UNCHANGED stopVars
  BY DEF DeleteClose
<1>2. /\ calls[c].name \in Names /\ calls[c].via # Absent /\ calls[c].sched = Absent
      /\ x \in Calls \cup {Absent} /\ (calls[c].op = "set" => x = Absent)
  BY <1>1 DEF RInv, RTypes, CallRecs, CallState
<1>3. (\A m \in Names : schedulers[m] # c) /\ (\A d \in Calls : calls[d].sched # c)
  BY <1>1, Unknown
<1>4. opened \subseteq Calls /\ running \subseteq Names \cup Calls
  BY DEF RInv, RTypes
<1>5. PICK pc \in {"done", "remove"}, t \in {x, Absent} :
        Moved(c, pc, t, Absent) /\ t = IF pc = "remove" THEN x ELSE Absent
  <2>1. CASE Return(c)
    <3>1. Moved(c, "done", Absent, Absent)
      BY <2>1, MoveOnMoves DEF RInv, PCs, Owners, Return
    <3> QED
      BY <3>1
  <2>2. CASE MoveOn(c, "remove", x, Absent)
    <3>1. Moved(c, "remove", x, Absent)
      BY <1>2, <2>2, MoveOnMoves DEF RInv, PCs, Owners
    <3> QED
      BY <3>1
  <2> QED
    BY <2>1, <2>2 DEF DeleteClose
<1>6. RTypes' /\ CallState'
  <2>1. RTypes'
    BY <1>1, <1>2, <1>4, <1>5 DEF RInv, RTypes, Moved
  <2> QED
    BY <2>1, <1>1, <1>2, <1>4, <1>5 DEF RInv, CallState, Moved
<1>7. TopicsKnown'
  BY <1>1, <1>2, <1>5, KeepTopics DEF Early, PCs
<1>8. SchedulersKnown'
  BY <1>1, <1>5, KeepSchedulers
<1>9. OpenedHasFiles' /\ RegisteredHasFiles'
  BY <1>1, <1>2, <1>5 DEF RInv, OpenedHasFiles, RegisteredHasFiles, Moved
<1>10. Stopping' /\ Swept'
  BY <1>1, <1>5, KeepStopping
<1>11. NothingOrphaned'
  <2>1. Mapped(schedulers)' = Mapped(schedulers) /\ Mapped(topics)' = Mapped(topics)
    BY <1>1 DEF Mapped
  <2>2. \A o \in opened' : o \in Mapped(topics)' \/ \E d \in Calls : calls'[d].topic = o
    BY <1>1, <1>5, <2>1, StillHeld DEF RInv, NothingOrphaned
  <2>3. ASSUME NEW r \in running'
        PROVE  r \in Mapped(schedulers)' \cup replaced' \/ \E d \in Calls : calls'[d].sched = r
    <3>1. r \in running /\ r # calls[c].sched /\ replaced' = replaced
      BY <1>1, <1>2, <1>4, NamesAssumption
    <3>2. r \in Mapped(schedulers) \cup replaced \/ \E d \in Calls : calls[d].sched = r
      BY <3>1 DEF RInv, NothingOrphaned
    <3> QED
      BY <1>5, <2>1, <3>1, <3>2, StillHeld
  <2> QED
    BY <1>1, <2>1, <2>2, <2>3 DEF RInv, NothingOrphaned
<1> QED
  BY <1>6, <1>7, <1>8, <1>9, <1>10, <1>11 DEF RInv

LEMMA KeepDeleteRemove ==
    ASSUME RInv, NEW c \in Calls, DeleteRemove(c)
    PROVE  RInv'
<1> DEFINE n == calls[c].name
           x == calls[c].topic
<1>1. /\ calls[c].pc = "remove" /\ Return(c)
      /\ UNCHANGED <<topics, opened, schedulers, running, replaced>> /\ UNCHANGED stopVars
  BY DEF DeleteRemove
<1>2. /\ n \in Names /\ calls[c].via # Absent /\ calls[c].sched = Absent
      /\ x \notin opened
  BY <1>1 DEF RInv, CallState, TopicsKnown
<1>3. (\A m \in Names : schedulers[m] # c) /\ (\A d \in Calls : calls[d].sched # c)
  BY <1>1, Unknown
<1>4. opened \subseteq Calls /\ running \subseteq Names \cup Calls
  BY DEF RInv, RTypes
<1>5. Moved(c, "done", Absent, Absent)
  BY <1>1, MoveOnMoves DEF RInv, PCs, Owners, Return
<1>6. /\ files' \in [Names -> SUBSET Calls] /\ removed \subseteq removed'
      /\ \A m \in Names : files[m] \ {x} \subseteq files'[m] \cup removed'
  BY <1>2 DEF RInv, RTypes, DeleteRemove
<1>7. RTypes' /\ CallState'
  <2>1. RTypes'
    BY <1>1, <1>5, <1>6 DEF RInv, RTypes, Moved
  <2> QED
    BY <2>1, <1>2, <1>5 DEF RInv, CallState, Moved
<1>8. TopicsKnown'
  <2>1. "done" \in PCs \ Early /\ calls[c].pc \notin Early /\ opened' \subseteq opened
    BY <1>1 DEF Early, PCs
  <2> QED
    BY <1>1, <1>5, <2>1, KeepTopics
<1>9. SchedulersKnown'
  BY <1>1, <1>5, KeepSchedulers
<1>10. OpenedHasFiles' /\ RegisteredHasFiles'
  <2>1. \A m \in Names : topics[m] # Absent => topics[m] # x
    BY <1>1 DEF RInv, TopicsKnown
  <2>2. \A d \in Calls : calls[d].pc = "register" => d # x /\ calls[d].name \in Names
    BY <1>1, Unknown DEF RInv, CallState, Early
  <2>3. \A d \in Calls : calls'[d].pc = "register" => calls[d].pc = "register" /\ calls'[d] = calls[d]
    BY <1>5 DEF Moved
  <2> QED
    BY <1>1, <1>6, <2>1, <2>2, <2>3 DEF RInv, OpenedHasFiles, RegisteredHasFiles
<1>11. Stopping' /\ Swept'
  BY <1>1, <1>5, KeepStopping
<1>12. NothingOrphaned'
  <2>1. Mapped(schedulers)' = Mapped(schedulers) /\ Mapped(topics)' = Mapped(topics)
    BY <1>1 DEF Mapped
  <2>2. ASSUME NEW t \in opened'
        PROVE  t \in Mapped(topics)' \/ \E d \in Calls : calls'[d].topic = t
    <3>1. t \in opened /\ t # calls[c].topic
      BY <1>1, <1>2
    <3>2. t \in Mapped(topics) \/ \E d \in Calls : calls[d].topic = t
      BY <3>1 DEF RInv, NothingOrphaned
    <3> QED
      BY <1>5, <2>1, <3>1, <3>2, StillHeld
  <2>3. ASSUME NEW r \in running'
        PROVE  r \in Mapped(schedulers)' \cup replaced' \/ \E d \in Calls : calls'[d].sched = r
    <3>1. r \in running /\ r # calls[c].sched /\ replaced' = replaced
      BY <1>1, <1>2, <1>4, NamesAssumption
    <3>2. r \in Mapped(schedulers) \cup replaced \/ \E d \in Calls : calls[d].sched = r
      BY <3>1 DEF RInv, NothingOrphaned
    <3> QED
      BY <1>5, <2>1, <3>1, <3>2, StillHeld
  <2> QED
    BY <1>1, <2>1, <2>2, <2>3 DEF RInv, NothingOrphaned
<1> QED
  BY <1>7, <1>8, <1>9, <1>10, <1>11, <1>12 DEF RInv

LEMMA KeepRequest ==
    ASSUME RInv, NEW c \in Calls, Request(c)
    PROVE  RInv'
<1>1. /\ calls[c].pc = "idle" /\ UNCHANGED <<topics, opened, files, schedulers, running, replaced, removed>>
      /\ UNCHANGED <<up, app, sweep, workers, timedOut>>
  BY DEF Request, registryMaps, stopVars
<1>2. PICK op \in {"create", "delete", "set"}, via \in {"http", "grpc", "local"}, n \in Names :
        /\ calls[c].pc = "idle"
        /\ Serving(via)
        /\ (op = "set") <=> (via = "local")
        /\ calls' = [calls EXCEPT ![c] =
             [op |-> op, name |-> n, via |-> via, topic |-> Absent, sched |-> Absent,
              pc |-> IF Overloaded(via) THEN "done" ELSE FirstStep(op)]]
        /\ UNCHANGED <<registryMaps, stopVars>>
  BY Zenon DEF Request
<1>3. PICK pc \in {"done", "open", "unregister", "take"} :
        /\ pc = IF Overloaded(via) THEN "done" ELSE FirstStep(op)
        /\ pc \in {"open", "unregister"} => op # "set"
  BY DEF FirstStep
<1>4. /\ calls[c].topic = Absent /\ calls[c].sched = Absent
  BY <1>1 DEF RInv, CallState
<1>5. /\ \A n1 \in Names : topics[n1] # c
      /\ \A d \in Calls : calls[d].pc # "register" => calls[d].topic # c
      /\ (\A n1 \in Names : schedulers[n1] # c) /\ (\A d \in Calls : calls[d].sched # c)
  BY <1>1, Unknown DEF Early
<1>6. /\ calls' \in [Calls -> CallRecs] /\ \A d \in Calls : d # c => calls'[d] = calls[d]
      /\ calls'[c].op = op /\ calls'[c].name = n /\ calls'[c].via = via /\ calls'[c].pc = pc
      /\ calls'[c].topic = Absent /\ calls'[c].sched = Absent
  <2>1. [op |-> op, name |-> n, via |-> via, topic |-> Absent, sched |-> Absent, pc |-> pc]
          \in CallRecs
    BY <1>3 DEF CallRecs, PCs, Owners
  <2> QED
    BY <1>2, <1>3, <2>1 DEF RInv, RTypes
<1>7. RTypes' /\ CallState'
  <2>1. RTypes'
    BY <1>1, <1>6 DEF RInv, RTypes
  <2>2. via # Absent
    BY DEF Absent
  <2> QED
    BY <2>1, <2>2, <1>3, <1>6 DEF RInv, CallState
<1>8. TopicsKnown'
  <2>1. \A d \in Calls : /\ calls'[d].topic = calls[d].topic
                         /\ calls[d].pc \notin Early => calls'[d].pc \notin Early
                         /\ calls'[d].pc \in {"register", "remove"} <=> calls[d].pc \in {"register", "remove"}
                         /\ calls'[d].pc = "register" <=> calls[d].pc = "register"
    BY <1>1, <1>3, <1>4, <1>6 DEF Early
  <2>2. /\ \A m \in Names : topics[m] \in Calls \cup {Absent}
        /\ \A d \in Calls : calls[d].topic \in Calls \cup {Absent}
    BY DEF RInv, RTypes, CallRecs
  <2>3. /\ \A m \in Names : topics[m] # Absent => calls'[topics[m]].pc \notin Early
        /\ \A d \in Calls : calls'[d].pc = "remove" => calls[d].topic \notin opened
    BY <1>3, <1>6, <2>1, <2>2 DEF RInv, TopicsKnown
  <2>4. ASSUME NEW d \in Calls, calls'[d].pc # "register", calls[d].topic # Absent
        PROVE  /\ calls'[calls[d].topic].pc \notin Early
               /\ \A m \in Names : topics[m] # calls[d].topic
    BY <2>1, <2>2, <2>4 DEF RInv, TopicsKnown
  <2>5. \A m, k \in Names : topics[m] = topics[k] /\ topics[m] # Absent => m = k
    BY DEF RInv, TopicsKnown
  <2> QED
    <3>1. \A d \in Calls : calls'[d].topic = calls[d].topic
      BY <2>1
    <3>2. topics' = topics /\ opened' = opened
      BY <1>1
    <3> QED
      BY <2>3, <2>4, <2>5, <3>1, <3>2 DEF TopicsKnown
<1>9. SchedulersKnown'
  <2>1. \A d \in Calls : calls'[d].sched = calls[d].sched
    BY <1>4, <1>6
  <2>2. \A d \in Calls : calls[d].pc = "done" => calls'[d].pc = "done"
    BY <1>1, <1>6
  <2> QED
    BY <1>1, <2>1, <2>2 DEF RInv, SchedulersKnown
<1>10. OpenedHasFiles' /\ RegisteredHasFiles'
  BY <1>1, <1>3, <1>6 DEF RInv, OpenedHasFiles, RegisteredHasFiles
<1>11. Stopping' /\ Swept'
  <2>1. \A v : v # via => Active(v)' \subseteq Active(v)
    BY <1>1, <1>6 DEF Active
  <2>2. via = "local" => app = "serving"
    BY <1>2 DEF Serving
  <2>3. via \in {"http", "grpc"} => via \in up
    BY <1>2 DEF Serving
  <2>4. Stopping'
    BY <1>1, <2>1, <2>2, <2>3 DEF RInv, Stopping, Loops
  <2> QED
    BY <1>1, <2>4 DEF RInv, Swept
<1>12. NothingOrphaned'
  <2>1. Mapped(schedulers)' = Mapped(schedulers) /\ Mapped(topics)' = Mapped(topics)
    BY <1>1 DEF Mapped
  <2>2. \A d \in Calls : calls'[d].topic = calls[d].topic /\ calls'[d].sched = calls[d].sched
    BY <1>4, <1>6
  <2>3. opened' = opened /\ running' = running /\ replaced' = replaced
    BY <1>1
  <2>4. \A t \in opened : t \in Mapped(topics) \/ \E d \in Calls : calls'[d].topic = t
    BY <2>2 DEF RInv, NothingOrphaned
  <2>5. \A r \in running : \/ r \in Mapped(schedulers) \cup replaced
                          \/ \E d \in Calls : calls'[d].sched = r
    BY <2>2 DEF RInv, NothingOrphaned
  <2> QED
    BY <2>1, <2>3, <2>4, <2>5 DEF RInv, NothingOrphaned
<1> QED
  BY <1>7, <1>8, <1>9, <1>10, <1>11, <1>12 DEF RInv

-----------------------------------------------------------------------------
(* Start and Stop                                                           *)

(* A step that touches neither the maps nor a call.                         *)
LEMMA KeepMaps ==
    ASSUME RInv, UNCHANGED registryMaps, UNCHANGED calls
    PROVE  /\ RTypes' /\ CallState' /\ TopicsKnown' /\ SchedulersKnown' /\ OpenedHasFiles'
           /\ NothingOrphaned' /\ RegisteredHasFiles'
           /\ \A via : Active(via)' = Active(via)
<1>1. UNCHANGED <<topics, opened, files, schedulers, running, replaced, removed, calls>>
  BY DEF registryMaps
<1>2. RTypes' /\ CallState'
  BY <1>1 DEF RInv, RTypes, CallState
<1>3. TopicsKnown' /\ SchedulersKnown'
  BY <1>1 DEF RInv, TopicsKnown, SchedulersKnown
<1>4. OpenedHasFiles' /\ RegisteredHasFiles' /\ NothingOrphaned'
  <2>1. Mapped(schedulers)' = Mapped(schedulers) /\ Mapped(topics)' = Mapped(topics)
    BY <1>1 DEF Mapped
  <2>2. NothingOrphaned'
    BY <1>1, <2>1 DEF RInv, NothingOrphaned
  <2> QED
    BY <1>1, <2>2 DEF RInv, OpenedHasFiles, RegisteredHasFiles
<1> QED
  BY <1>1, <1>2, <1>3, <1>4 DEF Active

LEMMA KeepStart ==
    ASSUME RInv, Start \/ StartGRPC \/ StartHTTP \/ StartAdmin
    PROVE  RInv'
<1>1. /\ UNCHANGED registryMaps /\ UNCHANGED calls
      /\ app' \in {"starting", "serving", "failed"}
  BY DEF Start, StartGRPC, StartHTTP, StartAdmin, Listen
<1>2. Stopping' /\ Swept'
  BY <1>1 DEF Stopping, Swept, Loops
<1> QED
  BY <1>1, <1>2, KeepMaps DEF RInv

LEMMA KeepFatal ==
    ASSUME RInv, Fatal
    PROVE  RInv'
<1>1. /\ app' = "exited" /\ opened' = {} /\ running' = {}
      /\ topics' = [n \in Names |-> Absent] /\ schedulers' = [n \in Names |-> Absent]
      /\ calls' = [c \in Calls |-> [Idle EXCEPT !.pc = "done"]]
      /\ UNCHANGED <<files, replaced, removed>>
  BY DEF Fatal
<1>2. [Idle EXCEPT !.pc = "done"] \in CallRecs
  BY DEF Idle, CallRecs, PCs, Owners
<1>3. /\ calls' \in [Calls -> CallRecs]
      /\ \A c \in Calls : /\ calls'[c].pc = "done" /\ calls'[c].topic = Absent
                          /\ calls'[c].sched = Absent
  BY <1>1, <1>2 DEF Idle
<1>4. RTypes' /\ CallState'
  BY <1>1, <1>3 DEF RInv, RTypes, CallState, Owners
<1>5. TopicsKnown' /\ SchedulersKnown'
  BY <1>1, <1>3, NamesAssumption DEF TopicsKnown, SchedulersKnown
<1>6. OpenedHasFiles' /\ RegisteredHasFiles' /\ NothingOrphaned'
  BY <1>1, <1>3 DEF OpenedHasFiles, RegisteredHasFiles, NothingOrphaned, Mapped
<1>7. Stopping' /\ Swept'
  BY <1>1 DEF Stopping, Swept, Loops
<1> QED
  BY <1>4, <1>5, <1>6, <1>7 DEF RInv

LEMMA KeepStopServers ==
    ASSUME RInv, StopBegins \/ StopAdmin \/ StopHTTP \/ StopGRPC \/ StopLoops
    PROVE  RInv'
<1>1. UNCHANGED registryMaps /\ UNCHANGED calls
  BY DEF StopBegins, StopAdmin, StopHTTP, StopGRPC, StopLoops
<1>2. \A via : Active(via)' = Active(via)
  BY <1>1, KeepMaps
<1>3. Stopping'
  BY <1>2 DEF RInv, Stopping, Loops, StopBegins, StopAdmin, StopHTTP, StopGRPC, StopLoops
<1>4. Swept'
  <2>1. CASE StopLoops
    BY <2>1, <1>1 DEF Swept, StopLoops, RInv, RTypes, registryMaps
  <2>2. CASE StopBegins \/ StopAdmin \/ StopHTTP \/ StopGRPC
    BY <2>2 DEF Swept, StopBegins, StopAdmin, StopHTTP, StopGRPC
  <2> QED
    BY <2>1, <2>2
<1> QED
  BY <1>1, <1>3, <1>4, KeepMaps DEF RInv

LEMMA KeepStopScheduler ==
    ASSUME RInv, NEW n \in Names, StopScheduler(n)
    PROVE  RInv'
<1>1. /\ app = "schedulers" /\ schedulers' = [schedulers EXCEPT ![n] = Absent]
      /\ running' = running \ {schedulers[n]}
      /\ sweep' = IF sweep = {n} THEN Names ELSE sweep \ {n}
      /\ app' = IF sweep = {n} THEN "topics" ELSE app
      /\ UNCHANGED <<topics, opened, files, replaced, removed, up, calls, workers, timedOut>>
  BY DEF StopScheduler
<1>2. /\ schedulers' \in [Names -> Owners] /\ schedulers'[n] = Absent
      /\ \A m \in Names : m # n => schedulers'[m] = schedulers[m]
      /\ opened \subseteq Calls /\ running \subseteq Names \cup Calls
  BY <1>1 DEF RInv, RTypes, Owners
<1>3. RTypes' /\ CallState'
  BY <1>1, <1>2 DEF RInv, RTypes, CallState
<1>4. TopicsKnown'
  BY <1>1 DEF RInv, TopicsKnown
<1>5. SchedulersKnown'
  BY <1>1, <1>2, NamesAssumption DEF RInv, SchedulersKnown
<1>6. OpenedHasFiles' /\ RegisteredHasFiles'
  BY <1>1 DEF RInv, OpenedHasFiles, RegisteredHasFiles
<1>7. Stopping'
  <2>1. \A via : Active(via)' = Active(via)
    BY <1>1 DEF Active
  <2>2. app' \in Loops /\ app \in Loops
    BY <1>1 DEF Loops
  <2> QED
    BY <1>1, <2>1, <2>2 DEF RInv, Stopping
<1>8. NothingOrphaned'
  <2>1. /\ Mapped(topics)' = Mapped(topics)
        /\ Mapped(schedulers)' = Mapped(schedulers) \ {schedulers[n]}
    BY <1>1, <1>2 DEF Mapped, RInv, SchedulersKnown
  <2> QED
    BY <1>1, <2>1 DEF RInv, NothingOrphaned
<1>9. Swept'
  <2>1. CASE timedOut
    BY <1>1, <2>1 DEF RInv, Swept
  <2>2. CASE ~timedOut
    <3>1. \A m \in Names : schedulers[m] # Absent => m \in sweep
      BY <1>1, <2>2 DEF RInv, Swept
    <3>2. \A t \in opened : \E m \in Names : topics[m] = t
      <4>1. \A c \in Calls : calls[c].topic = Absent
        BY <1>1, <2>2, NoneLeft DEF Loops
      <4>2. opened \subseteq Mapped(topics)
        BY <1>2, <4>1, NamesAssumption DEF RInv, NothingOrphaned
      <4> QED
        BY <4>2 DEF Mapped
    <3> QED
      BY <1>1, <1>2, <3>1, <3>2 DEF Swept
  <2> QED
    BY <2>1, <2>2 DEF RInv, RTypes
<1> QED
  BY <1>3, <1>4, <1>5, <1>6, <1>7, <1>8, <1>9 DEF RInv

LEMMA KeepStopTopic ==
    ASSUME RInv, NEW n \in Names, StopTopic(n)
    PROVE  RInv'
<1>1. /\ app = "topics" /\ opened' = opened \ {topics[n]} /\ sweep' = sweep \ {n}
      /\ app' = IF sweep = {n} THEN "stopped" ELSE app
      /\ workers' = IF sweep = {n} THEN {} ELSE workers
      /\ UNCHANGED <<topics, files, schedulers, running, replaced, removed, up, calls, timedOut>>
  BY DEF StopTopic
<1>2. RTypes' /\ CallState'
  BY <1>1 DEF RInv, RTypes, CallState
<1>3. TopicsKnown' /\ SchedulersKnown'
  BY <1>1 DEF RInv, TopicsKnown, SchedulersKnown
<1>4. OpenedHasFiles' /\ RegisteredHasFiles' /\ NothingOrphaned'
  <2>1. Mapped(schedulers)' = Mapped(schedulers) /\ Mapped(topics)' = Mapped(topics)
    BY <1>1 DEF Mapped
  <2>2. NothingOrphaned'
    BY <1>1, <2>1 DEF RInv, NothingOrphaned
  <2> QED
    BY <1>1, <2>2 DEF RInv, OpenedHasFiles, RegisteredHasFiles
<1>5. Stopping'
  <2>1. \A via : Active(via)' = Active(via)
    BY <1>1 DEF Active
  <2>2. app' \in Loops /\ app \in Loops
    BY <1>1 DEF Loops
  <2> QED
    BY <1>1, <2>1, <2>2 DEF RInv, Stopping
<1>6. Swept'
  <2>1. CASE timedOut
    BY <1>1, <2>1 DEF RInv, Swept
  <2>2. CASE ~timedOut
    <3>1. /\ \A m \in Names : schedulers[m] = Absent
          /\ \A t \in opened : \E m \in sweep : topics[m] = t
      BY <1>1, <2>2 DEF RInv, Swept
    <3> QED
      BY <1>1, <3>1 DEF Swept
  <2> QED
    BY <2>1, <2>2
<1> QED
  BY <1>2, <1>3, <1>4, <1>5, <1>6 DEF RInv

-----------------------------------------------------------------------------
LEMMA RegistryInitOK == RegistryInit => RInv
<1> SUFFICES ASSUME RegistryInit PROVE RInv
  OBVIOUS
<1>1. Idle \in CallRecs
  BY DEF Idle, CallRecs, PCs, Owners
<1>2. /\ calls \in [Calls -> CallRecs]
      /\ \A c \in Calls : /\ calls[c].pc = "idle" /\ calls[c].topic = Absent
                          /\ calls[c].sched = Absent /\ calls[c].op = Absent
  BY <1>1 DEF RegistryInit, Idle
<1>3. RTypes /\ CallState
  BY <1>2 DEF RegistryInit, RTypes, CallState, Absent, Owners, Mapped
<1>4. TopicsKnown /\ SchedulersKnown
  BY <1>2, NamesAssumption DEF RegistryInit, TopicsKnown, SchedulersKnown
<1>5. OpenedHasFiles /\ RegisteredHasFiles /\ NothingOrphaned
  BY <1>2 DEF RegistryInit, OpenedHasFiles, RegisteredHasFiles, NothingOrphaned
<1>6. Stopping /\ Swept
  BY DEF RegistryInit, Stopping, Swept, Loops
<1> QED
  BY <1>3, <1>4, <1>5, <1>6 DEF RInv

LEMMA RegistryStepOK ==
    ASSUME RInv, [RegistryNext]_registryVars
    PROVE  RInv'
<1>1. CASE UNCHANGED registryVars
  <2>1. UNCHANGED registryMaps /\ UNCHANGED calls /\ UNCHANGED stopVars
    BY <1>1 DEF registryVars, registryMaps, stopVars
  <2>2. \A via : Active(via)' = Active(via)
    BY <2>1, KeepMaps
  <2>3. Stopping' /\ Swept'
    BY <2>1, <2>2 DEF RInv, Stopping, Swept, registryMaps, stopVars
  <2> QED
    BY <2>1, <2>3, KeepMaps DEF RInv
<1>2. ASSUME NEW c \in Calls, CallStep(c) PROVE RInv'
  BY <1>2, KeepRequest, KeepCreateOpen, KeepCreateRegister, KeepStoreScheduler,
     KeepDeleteUnregister, KeepTakeScheduler, KeepStopTaken, KeepDeleteClose, KeepDeleteRemove
  DEF CallStep
<1>3. CASE Start \/ StartGRPC \/ StartHTTP \/ StartAdmin
  BY <1>3, KeepStart
<1>4. CASE Fatal
  BY <1>4, KeepFatal
<1>5. CASE StopBegins \/ StopAdmin \/ StopHTTP \/ StopGRPC \/ StopLoops
  BY <1>5, KeepStopServers
<1>6. ASSUME NEW n \in Names, StopScheduler(n) \/ StopTopic(n) PROVE RInv'
  BY <1>6, KeepStopScheduler, KeepStopTopic
<1> QED
  BY <1>1, <1>2, <1>3, <1>4, <1>5, <1>6 DEF RegistryNext

LEMMA RegistryInvariant == RegistrySpec => []RInv
<1> QED
  BY RegistryInitOK, RegistryStepOK, PTL DEF RegistrySpec

(* However CreateTopic, DeleteTopic, SetScheduler, Start and Stop overlap,  *)
(* no open log and no running scheduler is out of everybody's reach, and    *)
(* the scheduler map holds running schedulers only.                         *)
THEOREM NothingIsOrphaned == RegistrySpec => []NothingOrphaned
<1>1. RInv => NothingOrphaned
  BY DEF RInv
<1> QED
  BY <1>1, RegistryInvariant, PTL

(* A registered topic has its log files unless an older DeleteTopic of that *)
(* name took them with os.RemoveAll.                                        *)
THEOREM RegisteredTopicsHaveFiles == RegistrySpec => []RegisteredHasFiles
<1>1. RInv => RegisteredHasFiles
  BY DEF RInv
<1> QED
  BY <1>1, RegistryInvariant, PTL

(* When BrokerApp.Stop has returned without giving up on an HTTP request,   *)
(* everything is closed and stopped but the schedulers a Store overwrote.   *)
THEOREM StopLeavesNothing == RegistrySpec => []StopStopsAll
<1>1. RInv => StopStopsAll
  <2> SUFFICES ASSUME RInv, app = "stopped", ~timedOut
               PROVE  opened = {} /\ workers = {} /\ running \subseteq replaced
    BY DEF StopStopsAll
  <2>1. opened = {} /\ workers = {} /\ \A n \in Names : schedulers[n] = Absent
    BY DEF RInv, Swept
  <2>2. \A c \in Calls : calls[c].sched = Absent
    BY NoneLeft DEF Loops
  <2>3. running \subseteq Names \cup Calls
    BY DEF RInv, RTypes
  <2> QED
    BY <2>1, <2>2, <2>3, NamesAssumption DEF RInv, NothingOrphaned, Mapped
<1> QED
  BY <1>1, RegistryInvariant, PTL

=============================================================================
