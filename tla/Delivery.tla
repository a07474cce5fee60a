------------------------------ MODULE Delivery ------------------------------
(***************************************************************************)
(* How the messages of one partition reach consumer groups: the Consume    *)
(* and Commit handlers (pkg/transport/server.go), the schedulers           *)
(* (pkg/scheduler), the committed offsets as the store caches and dumps    *)
(* them, retention by commit floor (Broker.retentionLoop) and the client   *)
(* loop of cmd/consumer.  The partition is module Partition; its           *)
(* mode.indexed tells the two kinds of scheduler apart.                    *)
(*                                                                         *)
(* A worker is one runWorker goroutine together with the handler that      *)
(* serves its current call.  A handler loads the group's offset once, asks *)
(* the scheduler for one message after another, commits the last position  *)
(* and only then answers; the client then commits every message again.     *)
(* Nothing keeps two workers of one group, the retention loop, the dump    *)
(* loop and a restart of the broker apart.                                 *)
(***************************************************************************)
EXTENDS Partition, SequencesExt

CONSTANTS
  Groups,          \* consumer groups
  Workers,         \* consumer goroutines
  Assignments,     \* the ways to assign workers to groups
  MaxFetch,        \* MaxFetch[w]: messages that reach w's maxBytes
  MaxFaults        \* bound on expired sessions and restarts together

ASSUME WorkerAssumption ==
  /\ Assignments \subseteq [Workers -> Groups]
  /\ MaxFetch \in [Workers -> Nat \ {0}] /\ MaxFaults \in Nat

VARIABLES
  groupOf,         \* the group each worker consumes for, which never changes
  worker,          \* what each worker is doing
  cache,           \* OffsetStore.cache: committed offset of a group, 0 if none
  db,              \* what the dump loop has written of it
  floor,           \* the retention loop, between CommitFloor and TruncateFront
  handed,          \* history: <<offset, message>> put in a group's responses
  expiries         \* sessions expired so far

consumerVars == <<groupOf, worker, cache, db, floor, handed, expiries>>
allVars == <<vars, consumerVars>>

Idle == [at |-> "idle", cur |-> 0, off |-> 0, got |-> <<>>, acks |-> <<>>]
NoFloor == [off |-> 0, known |-> {}]
Serving(w) == worker[w].at \in {"fetch", "popped", "commit"}

DeliveryInit ==
  /\ Init
  /\ groupOf \in Assignments
  /\ worker = [w \in Workers |-> Idle]
  /\ cache = [g \in Groups |-> 0]
  /\ db = [g \in Groups |-> 0]
  /\ floor = NoFloor
  /\ handed = [g \in Groups |-> {}]
  /\ expiries = 0

-----------------------------------------------------------------------------
(* The Consume handler                                                     *)

Step(w, new) ==
  /\ worker' = [worker EXCEPT ![w] = new]
  /\ UNCHANGED <<groupOf, cache, db, floor, handed, expiries>>

(* Broker.LoadOffset: a group without an offset starts at 1.               *)
Position(g) == IF cache[g] = 0 THEN 1 ELSE cache[g]

LoadOffset(w) ==
  /\ ~closed /\ worker[w].at = "idle"
  /\ Step(w, [Idle EXCEPT !.at = "fetch", !.cur = Position(groupOf[w])])
  /\ UNCHANGED vars

(* Mutant: a response that is not full is dropped.                         *)
EndLoop_Drops(k) == Idle

(* An error or the end of the log ends the loop: what was collected is     *)
(* committed and returned, and an empty response commits nothing.          *)
EndLoop(k) ==
  IF k.got = <<>> THEN Idle ELSE [k EXCEPT !.at = "commit", !.off = 0]

(* The scheduler's Read of offset o; next is the position it returns.      *)
Receive(w, o, next) ==
  LET k == worker[w]  r == Resolve(o) IN
  IF r.state # "ok" THEN EndLoop(k)
  ELSE [k EXCEPT !.at = IF Len(k.got) + 1 >= MaxFetch[w] THEN "commit" ELSE "fetch",
                 !.cur = next,
                 !.off = 0,
                 !.got = Append(@, [entry |-> <<o, r.msg>>, next |-> next])]

(* Mutant: a message that cannot be read is passed over.                   *)
FIFONext_SkipsErrors(w) ==
  LET k == worker[w] IN
  /\ ~mode.indexed /\ k.at = "fetch" /\ k.cur < nextOffset
  /\ Step(w, IF Resolve(k.cur).state # "ok" THEN [k EXCEPT !.cur = @ + 1]
             ELSE Receive(w, k.cur, k.cur + 1))
  /\ UNCHANGED vars

(* FIFO.Next below the high-water mark, which is nextOffset - 1.           *)
FIFONext(w) ==
  LET k == worker[w] IN
  /\ ~mode.indexed /\ k.at = "fetch" /\ k.cur < nextOffset
  /\ Step(w, Receive(w, k.cur, k.cur + 1))
  /\ UNCHANGED vars

NonEmpty == {l \in DOMAIN index : index[l] # <<>>}

(* Mutant: the entry is read but stays in the index.                       *)
PopNext_Keeps(w) ==
  /\ mode.indexed /\ worker[w].at = "fetch"
  /\ \E l \in NonEmpty :
       Step(w, [worker[w] EXCEPT !.at = "popped", !.off = Head(index[l])])
  /\ UNCHANGED vars

(* StrictPriority.Next and DQNScheduler.Next up to the pop.  The first     *)
(* takes the highest level; the second does so down to its threshold, and  *)
(* below it takes the head that arrived first, which the model leaves      *)
(* open.  The group's offset plays no part.                                *)
PopNext(w) ==
  /\ mode.indexed /\ worker[w].at = "fetch"
  /\ \E l \in NonEmpty :
       /\ index' = [index EXCEPT ![l] = Tail(@)]
       /\ Step(w, [worker[w] EXCEPT !.at = "popped", !.off = Head(index[l])])
  /\ UNCHANGED <<walVars, nextOffset, mode, closed, reqVars, reader, histVars,
                 failures, reopens>>

(* The Read after the pop; the position returned is the offset itself.  If *)
(* the read fails the entry is in nobody's hands any more.                 *)
ReadPopped(w) ==
  LET k == worker[w] IN
  /\ k.at = "popped"
  /\ Step(w, Receive(w, k.off, k.off))
  /\ UNCHANGED vars

(* ErrNoMessages once fetchMinBytes or the deadline allows to give up.     *)
NoMessages(w) ==
  LET k == worker[w] IN
  /\ k.at = "fetch"
  /\ IF mode.indexed THEN NonEmpty = {} ELSE k.cur >= nextOffset
  /\ Step(w, EndLoop(k))
  /\ UNCHANGED vars

(* What the client commits for a message: env.Offset + 1, where            *)
(* env.Offset = nextOffset - 1.                                            *)
EnvOffset(next) == next - 1

ClientPosition(env) == env + 1

LastPosition(w) == Last(worker[w].got).next

(* The single Commit at the end of the loop, and the response.             *)
AutoCommit(w) ==
  LET g == groupOf[w]  got == worker[w].got IN
  /\ worker[w].at = "commit"
  /\ cache' = [cache EXCEPT ![g] = LastPosition(w)]
  /\ handed' = [handed EXCEPT ![g] = @ \cup {got[i].entry : i \in DOMAIN got}]
  /\ worker' = [worker EXCEPT ![w] =
       [Idle EXCEPT !.at = "ack",
                    !.acks = [i \in DOMAIN got |->
                                ClientPosition(EnvOffset(got[i].next))]]]
  /\ UNCHANGED <<groupOf, db, floor, expiries>>
  /\ UNCHANGED vars

-----------------------------------------------------------------------------
(* The client                                                              *)

(* runWorker commits the messages one by one; an error is counted and the  *)
(* next message's commit is tried.                                         *)
ClientCommit(w) ==
  LET k == worker[w] IN
  /\ k.at = "ack"
  /\ cache' = IF closed THEN cache
              ELSE [cache EXCEPT ![groupOf[w]] = Head(k.acks)]
  /\ worker' = [worker EXCEPT ![w] =
       IF Len(k.acks) = 1 THEN Idle ELSE [k EXCEPT !.acks = Tail(@)]]
  /\ UNCHANGED <<groupOf, db, floor, handed, expiries>>
  /\ UNCHANGED vars

(* The response is lost, or the client stops before its commits.           *)
ClientGone(w) ==
  /\ worker[w].at = "ack"
  /\ Step(w, Idle)
  /\ UNCHANGED vars

-----------------------------------------------------------------------------
(* The broker's loops                                                      *)

Dumped == [g \in Groups |-> IF cache[g] # 0 THEN cache[g] ELSE db[g]]

(* Without a restart to come nothing reads the database again, and the     *)
(* model stops writing it.                                                 *)
Dump ==
  /\ ~closed /\ Dumped # db
  /\ expiries + reopens < MaxFaults
  /\ db' = Dumped
  /\ UNCHANGED <<groupOf, worker, cache, floor, handed, expiries>>
  /\ UNCHANGED vars

(* A group that has not committed for ConsumerSessionTimeoutMs is dropped  *)
(* from the cache.                                                         *)
ExpireSession(g) ==
  /\ ~closed /\ cache[g] # 0 /\ expiries + reopens < MaxFaults
  /\ cache' = [cache EXCEPT ![g] = 0]
  /\ expiries' = expiries + 1
  /\ UNCHANGED <<groupOf, worker, db, floor, handed>>
  /\ UNCHANGED vars

(* Mutant: the furthest group decides.                                     *)
CommitFloor_Max(known) == Max({cache[g] : g \in known})
CommitFloor(known) == Min({cache[g] : g \in known})

(* The commit-floor fallback of the retention loop.                        *)
RetentionScan ==
  LET known == {g \in Groups : cache[g] # 0} IN
  /\ ~closed /\ floor = NoFloor /\ known # {}
  /\ CommitFloor(known) > 1
  /\ floor' = [off |-> CommitFloor(known), known |-> known]
  /\ UNCHANGED <<groupOf, worker, cache, db, handed, expiries>>
  /\ UNCHANGED vars

(* An offset past the log, when every group is done, is ErrOutOfRange.     *)
RetentionTruncate ==
  /\ floor # NoFloor
  /\ IF InLog(floor.off) THEN TruncateFront(floor.off) ELSE UNCHANGED vars
  /\ floor' = NoFloor
  /\ UNCHANGED <<groupOf, worker, cache, db, handed, expiries>>

-----------------------------------------------------------------------------
(* App.Stop: GracefulStop waits for the handlers and Broker.Stop for its   *)
(* loops; the offset store flushes when it is closed.                      *)
StopBroker ==
  /\ expiries + reopens < MaxFaults
  /\ \A w \in Workers : ~Serving(w)
  /\ \A r \in Requests : pc[r] # "adding"
  /\ floor = NoFloor
  /\ Close
  /\ db' = Dumped
  /\ cache' = [g \in Groups |-> 0]
  /\ UNCHANGED <<groupOf, worker, floor, handed, expiries>>

CrashBroker ==
  /\ expiries + reopens < MaxFaults
  /\ Crash
  /\ cache' = [g \in Groups |-> 0]
  /\ floor' = NoFloor
  /\ worker' = [w \in Workers |-> IF Serving(w) THEN Idle ELSE worker[w]]
  /\ UNCHANGED <<groupOf, db, handed, expiries>>

(* Broker start with the same topic settings: NewOffsetStore fills the     *)
(* cache and NewPartition reopens the log.                                 *)
StartBroker ==
  /\ NewPartition /\ mode' = mode
  /\ cache' = db
  /\ UNCHANGED <<groupOf, worker, db, floor, handed, expiries>>

Publish(r) == Append_(r) /\ UNCHANGED consumerVars

WorkerStep(w) ==
  \/ LoadOffset(w) \/ FIFONext(w) \/ PopNext(w) \/ ReadPopped(w)
  \/ NoMessages(w) \/ AutoCommit(w) \/ ClientCommit(w)

DeliveryNext ==
  \/ \E r \in Requests : Publish(r)
  \/ \E w \in Workers : WorkerStep(w) \/ ClientGone(w)
  \/ \E g \in Groups : ExpireSession(g)
  \/ Dump \/ RetentionScan \/ RetentionTruncate
  \/ StopBroker \/ CrashBroker \/ StartBroker

(* runWorker polls for ever and a handler always finishes: the fetch loop  *)
(* ends at maxBytes, at an error or at its deadline.                       *)
DeliverySpec ==
  /\ DeliveryInit /\ [][DeliveryNext]_allVars
  /\ \A w \in Workers : WF_allVars(WorkerStep(w))

-----------------------------------------------------------------------------
(* Properties                                                              *)

(* A FIFO group's committed offset never passes a message the group was    *)
(* not given, nor the end of the log, where the next message will be:      *)
(* whatever two workers of the group, their late client commits, expiry,   *)
(* retention, dumps, crashes and restarts do, everything in front of the   *)
(* committed offset was in one of the group's responses.                   *)
NoSkip ==
  ~mode.indexed =>
    \A g \in Groups :
      /\ \A a \in placed : a[1] < Max({cache[g], db[g]}) => a \in handed[g]
      /\ ~mode.noSync => Max({cache[g], db[g]}) <= lastIndex + 1

(* With a priority scheduler a message is handed out at most once, to one  *)
(* group: an offset is in one place only, a level of the index, the hands  *)
(* of one handler, or a response already given.                            *)
HandedOnce ==
  mode.indexed =>
    /\ \A v, w \in Workers : \A i \in DOMAIN worker[v].got :
         \A j \in DOMAIN worker[w].got :
           worker[v].got[i] = worker[w].got[j] => v = w /\ i = j
    /\ \A w \in Workers :
         LET held == {worker[w].got[i].entry[1] : i \in DOMAIN worker[w].got}
                       \cup ({worker[w].off} \ {0}) IN
         /\ \A l \in DOMAIN index : held \cap Range(index[l]) = {}
         /\ \A g \in Groups : held \cap {a[1] : a \in handed[g]} = {}
    /\ \A g, h \in Groups : g # h => handed[g] \cap handed[h] = {}

(* Commit-floor retention removes nothing a FIFO group still needs: every  *)
(* group that had a committed offset when the floor was computed has been  *)
(* given all messages that the truncation removes, although commits may go *)
(* backwards and sessions expire before TruncateFront is called.           *)
RetentionKeepsUnread ==
  [][RetentionTruncate /\ ~mode.indexed =>
       \A g \in floor.known : \A a \in placed :
         a[1] \in firstIndex..(firstIndex' - 1) => a \in handed[g]]_allVars

(* The group's next fetch starts in front of the log: retention followed a *)
(* further group, or offsets that a crash took back.                       *)
Overtaken(g) == Position(g) < firstIndex

(* A group that keeps polling a FIFO topic catches up: again and again it  *)
(* has been given every message acknowledged so far, unless the broker     *)
(* stays down or retention has overtaken the group.                        *)
GroupsCatchUp ==
  \A g \in Groups :
    []<>(\/ mode.indexed \/ g \notin Range(groupOf)
         \/ closed \/ Overtaken(g)
         \/ acked \subseteq handed[g])

(* offset_store.go:25: "On restart consumers will re-receive messages from *)
(* the last persisted offset": after a start the persisted offset of each  *)
(* group of a FIFO topic is in the log, or at its end.                     *)
ResumesAtPersisted ==
  [][StartBroker /\ ~mode.indexed =>
       \A g \in Groups : db[g] # 0 => db[g] \in firstIndex..(lastIndex + 1)]_allVars

=============================================================================
