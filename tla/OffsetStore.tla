----------------------------- MODULE OffsetStore -----------------------------
(***************************************************************************)
(* OffsetStore (pkg/broker/offset_store.go): committed offsets of the      *)
(* consumer groups, in a concurrent map (cache) and in BadgerDB (db), with *)
(* the time of each group's last commit.                                   *)
(*                                                                         *)
(* Commits, DeleteTopic, ExpireSessions and the dump loop run in           *)
(* goroutines of their own and share no lock: each access to one of the    *)
(* three maps is a step.  A pass over all keys (Range, the deletions after *)
(* it, a WriteBatch) is one step: the properties below speak of one key at *)
(* a time, and a key's share of a pass is one access.                      *)
(*                                                                         *)
(* The offset of the n-th Commit that reaches the cache for a key is       *)
(* represented by n, and no offset by 0: the properties are about which    *)
(* commit a map reflects.                                                  *)
(***************************************************************************)
EXTENDS Integers, FiniteSets

CONSTANTS
  Topics, Groups,   \* a key is a topic and a group of one partition
  Committers,       \* goroutines that serve Commit calls
  Serves,           \* Serves[c]: the keys whose consumer c serves
  MaxCommits,       \* bound on the commits of a key
  MaxRestarts,      \* bound on restarts
  MaxFailures       \* bound on failed BadgerDB writes

Keys == Topics \X Groups

ASSUME StoreAssumption ==
  /\ Serves \in [Committers -> SUBSET Keys]
  /\ MaxCommits \in Nat /\ MaxRestarts \in Nat /\ MaxFailures \in Nat

VARIABLES
  dumping,      \* dumpInterval > 0, the same at every start
  cache,        \* OffsetStore.cache
  lastCommit,   \* OffsetStore.lastCommit: "none", "recent" or "old"
  db,           \* BadgerDB, under off/
  commit,       \* each committer's call
  dumper,       \* the dump in progress
  deleter,      \* the DeleteTopic in progress
  expirer,      \* the ExpireSessions in progress
  life,         \* "up", "stopping" (Close called) or "down"
  issued,       \* history: commits of a key so far
  acked,        \* history: newest returned commit of a key, 0 once deleted
  deleted,      \* history: keys of a deleted topic, no commit begun since
  failures, restarts

calls == <<commit, dumper, deleter, expirer>>
hist  == <<issued, acked, deleted>>
vars == <<cache, lastCommit, db, calls, life, hist, failures, restarts,
          dumping>>

Idle == [pc |-> "idle"]
NoCalls == /\ commit = [c \in Committers |-> Idle]
           /\ dumper = Idle /\ deleter = Idle /\ expirer = Idle
KeysOf(t) == {k \in Keys : k[1] = t}
Cached == {k \in Keys : cache[k] # 0}
Larger(a, b) == IF a > b THEN a ELSE b
Without(m, S) == [k \in Keys |-> IF k \in S THEN 0 ELSE m[k]]

Init ==
  /\ cache = [k \in Keys |-> 0] /\ db = [k \in Keys |-> 0]
  /\ lastCommit = [k \in Keys |-> "none"]
  /\ NoCalls
  /\ life = "up"
  /\ issued = [k \in Keys |-> 0] /\ acked = [k \in Keys |-> 0]
  /\ deleted = {}
  /\ failures = 0 /\ restarts = 0 /\ dumping \in BOOLEAN

-----------------------------------------------------------------------------
(* Commit                                                                  *)

CommitCache(c) ==
  /\ life = "up" /\ commit[c].pc = "idle"
  /\ \E k \in Serves[c] :
       /\ issued[k] < MaxCommits
       /\ issued' = [issued EXCEPT ![k] = @ + 1]
       /\ cache' = [cache EXCEPT ![k] = issued[k] + 1]
       /\ commit' = [commit EXCEPT ![c] =
                       [pc |-> "stamp", key |-> k, off |-> issued[k] + 1]]
       /\ deleted' = deleted \ {k}
  /\ UNCHANGED <<lastCommit, db, dumper, deleter, expirer, life, acked, failures,
                 restarts, dumping>>

Returned(c) ==
  /\ acked' = [acked EXCEPT ![commit[c].key] = Larger(@, commit[c].off)]
  /\ commit' = [commit EXCEPT ![c] = Idle]

(* Mutants: every commit also writes through to the database; the call     *)
(* returns before the write.                                               *)
CommitStamp_WriteThrough(c) ==
  /\ commit[c].pc = "stamp"
  /\ lastCommit' = [lastCommit EXCEPT ![commit[c].key] = "recent"]
  /\ db' = [db EXCEPT ![commit[c].key] = commit[c].off]
  /\ Returned(c)
  /\ UNCHANGED <<cache, dumper, deleter, expirer, life, issued, deleted,
                 failures, restarts, dumping>>
CommitStamp_Returns(c) ==
  /\ commit[c].pc = "stamp"
  /\ lastCommit' = [lastCommit EXCEPT ![commit[c].key] = "recent"]
  /\ Returned(c)
  /\ UNCHANGED <<cache, db, dumper, deleter, expirer, life, issued, deleted,
                 failures, restarts, dumping>>

(* lastCommit.Store; with a dump loop the call returns here.               *)
CommitStamp(c) ==
  /\ commit[c].pc = "stamp"
  /\ lastCommit' = [lastCommit EXCEPT ![commit[c].key] = "recent"]
  /\ IF dumping THEN Returned(c)
     ELSE commit' = [commit EXCEPT ![c].pc = "write"] /\ UNCHANGED acked
  /\ UNCHANGED <<cache, db, dumper, deleter, expirer, life, issued, deleted,
                 failures, restarts, dumping>>

(* writeOne; on an error the call fails, the cache keeps the offset.       *)
WriteOne(c) ==
  /\ commit[c].pc = "write"
  /\ db' = [db EXCEPT ![commit[c].key] = commit[c].off]
  /\ Returned(c)
  /\ UNCHANGED <<cache, lastCommit, dumper, deleter, expirer, life, issued,
                 deleted, failures, restarts, dumping>>

WriteOneFails(c) ==
  /\ commit[c].pc = "write" /\ failures < MaxFailures
  /\ failures' = failures + 1
  /\ commit' = [commit EXCEPT ![c] = Idle]
  /\ UNCHANGED <<cache, lastCommit, db, dumper, deleter, expirer, life, hist,
                 restarts, dumping>>

-----------------------------------------------------------------------------
(* dumpLoop and dump                                                       *)

(* Mutant: only keys the database does not hold yet are written.           *)
DumpCollect_NewKeysOnly ==
  /\ dumping /\ life # "down" /\ dumper.pc = "idle"
  /\ IF Cached = {} /\ life = "stopping"
     THEN life' = "down" /\ UNCHANGED dumper
     ELSE /\ Cached # {}
          /\ dumper' = [pc |-> "flush", last |-> life = "stopping",
                        batch |-> Without(cache, {k \in Keys : db[k] # 0})]
          /\ UNCHANGED life
  /\ UNCHANGED <<cache, lastCommit, db, commit, deleter, expirer, hist, failures,
                 restarts, dumping>>

(* The pass over the cache; an empty batch is cancelled, and the dump that *)
(* follows the stop signal is the last one.                                *)
DumpCollect ==
  /\ dumping /\ life # "down" /\ dumper.pc = "idle"
  /\ IF Cached = {} /\ life = "stopping"
     THEN life' = "down" /\ UNCHANGED dumper
     ELSE /\ Cached # {}
          /\ dumper' = [pc |-> "flush", batch |-> cache, last |-> life = "stopping"]
          /\ UNCHANGED life
  /\ UNCHANGED <<cache, lastCommit, db, commit, deleter, expirer, hist, failures,
                 restarts, dumping>>

(* Mutants: the offsets are written one too far; a dump that had begun     *)
(* before the stop signal counts as the last one.                          *)
DumpFlush_OffByOne ==
  /\ dumper.pc = "flush"
  /\ db' = [k \in Keys |-> IF dumper.batch[k] # 0 THEN dumper.batch[k] + 1
                            ELSE db[k]]
  /\ dumper' = Idle
  /\ life' = IF dumper.last THEN "down" ELSE life
  /\ UNCHANGED <<cache, lastCommit, commit, deleter, expirer, hist, failures,
                 restarts, dumping>>
DumpFlush_AnyIsLast ==
  /\ dumper.pc = "flush"
  /\ db' = [k \in Keys |-> IF dumper.batch[k] # 0 THEN dumper.batch[k] ELSE db[k]]
  /\ dumper' = Idle
  /\ life' = IF life = "stopping" THEN "down" ELSE life
  /\ UNCHANGED <<cache, lastCommit, commit, deleter, expirer, hist, failures,
                 restarts, dumping>>

(* WriteBatch.Flush; an error is logged, the next dump tries again.  Close *)
(* waits for the last dump and closes the database.                        *)
DumpFlush ==
  /\ dumper.pc = "flush"
  /\ \/ /\ db' = [k \in Keys |-> IF dumper.batch[k] # 0 THEN dumper.batch[k]
                                 ELSE db[k]]
        /\ UNCHANGED failures
     \/ /\ failures < MaxFailures /\ failures' = failures + 1
        /\ UNCHANGED db
  /\ dumper' = Idle
  /\ life' = IF dumper.last THEN "down" ELSE life
  /\ UNCHANGED <<cache, lastCommit, commit, deleter, expirer, hist, restarts,
                 dumping>>

-----------------------------------------------------------------------------
(* DeleteTopic                                                             *)

DeleteTopic(t) ==
  /\ life = "up" /\ deleter.pc = "idle"
  /\ deleter' = [pc |-> "cache", topic |-> t, keys |-> KeysOf(t) \cap Cached]
  /\ deleted' = deleted \cup KeysOf(t)
  /\ UNCHANGED <<cache, lastCommit, db, commit, dumper, expirer, life, issued,
                 acked, failures, restarts, dumping>>

DeleteFromCache ==
  /\ deleter.pc = "cache"
  /\ cache' = Without(cache, deleter.keys)
  /\ deleter' = [deleter EXCEPT !.pc = "db"]
  /\ UNCHANGED <<lastCommit, db, commit, dumper, expirer, life, hist, failures,
                 restarts, dumping>>

(* Only the keys that were cached are deleted; an error is only logged.    *)
DeleteFromDB ==
  /\ deleter.pc = "db"
  /\ \/ db' = Without(db, deleter.keys) /\ UNCHANGED failures
     \/ failures < MaxFailures /\ failures' = failures + 1 /\ UNCHANGED db
  /\ acked' = Without(acked, deleter.keys)
  /\ deleter' = Idle
  /\ UNCHANGED <<cache, lastCommit, commit, dumper, expirer, life, issued, deleted,
                 restarts, dumping>>

-----------------------------------------------------------------------------
(* ExpireSessions                                                          *)

(* Time passes: what was committed recently is now older than the timeout. *)
TimePasses ==
  /\ \E k \in Keys : lastCommit[k] = "recent"
  /\ lastCommit' = [k \in Keys |-> IF lastCommit[k] = "recent" THEN "old"
                                   ELSE lastCommit[k]]
  /\ UNCHANGED <<cache, db, calls, life, hist, failures, restarts, dumping>>

ExpireSessions ==
  /\ life = "up" /\ expirer.pc = "idle"
  /\ \E k \in Keys : lastCommit[k] = "old"
  /\ expirer' = [pc |-> "cache", keys |-> {k \in Keys : lastCommit[k] = "old"}]
  /\ UNCHANGED <<cache, lastCommit, db, commit, dumper, deleter, life, hist,
                 failures, restarts, dumping>>

ExpireFromCache ==
  /\ expirer.pc = "cache"
  /\ cache' = Without(cache, expirer.keys)
  /\ expirer' = [expirer EXCEPT !.pc = "times"]
  /\ UNCHANGED <<lastCommit, db, commit, dumper, deleter, life, hist, failures,
                 restarts, dumping>>

ExpireTimes ==
  /\ expirer.pc = "times"
  /\ lastCommit' = [k \in Keys |-> IF k \in expirer.keys THEN "none"
                                   ELSE lastCommit[k]]
  /\ expirer' = Idle
  /\ UNCHANGED <<cache, db, commit, dumper, deleter, life, hist, failures,
                 restarts, dumping>>

-----------------------------------------------------------------------------
(* Close, crash and NewOffsetStore                                         *)

(* Broker.Stop closes the store after the servers and the session loop     *)
(* have finished.                                                          *)
Close ==
  /\ life = "up"
  /\ commit = [c \in Committers |-> Idle] /\ deleter = Idle /\ expirer = Idle
  /\ life' = IF dumping THEN "stopping" ELSE "down"
  /\ UNCHANGED <<cache, lastCommit, db, calls, hist, failures, restarts,
                 dumping>>

Crash ==
  /\ life # "down"
  /\ life' = "down"
  /\ commit' = [c \in Committers |-> Idle]
  /\ dumper' = Idle /\ deleter' = Idle /\ expirer' = Idle
  /\ deleted' = IF deleter = Idle THEN deleted ELSE {}
  /\ UNCHANGED <<cache, lastCommit, db, issued, acked, failures, restarts,
                 dumping>>

(* The cache is warmed from the database; the commit times are not.        *)
NewOffsetStore ==
  /\ life = "down" /\ restarts < MaxRestarts
  /\ restarts' = restarts + 1
  /\ life' = "up"
  /\ cache' = db
  /\ lastCommit' = [k \in Keys |-> "none"]
  /\ UNCHANGED <<db, calls, hist, failures, dumping>>

-----------------------------------------------------------------------------
CommitStep(c) == CommitStamp(c) \/ WriteOne(c) \/ WriteOneFails(c)
Dump == DumpCollect \/ DumpFlush

Next ==
  \/ \E c \in Committers : CommitCache(c) \/ CommitStep(c)
  \/ Dump
  \/ \E t \in Topics : DeleteTopic(t)
  \/ DeleteFromCache \/ DeleteFromDB
  \/ TimePasses \/ ExpireSessions \/ ExpireFromCache \/ ExpireTimes
  \/ Close \/ Crash \/ NewOffsetStore

Spec == Init /\ [][Next]_vars

(* The dump loop's ticker fires again and again and BadgerDB accepts       *)
(* writes in the end; a call that began goes on.                           *)
FairSpec == Spec /\ WF_vars(DumpCollect) /\ WF_vars(DumpFlush)
                 /\ WF_vars(DeleteFromCache) /\ WF_vars(DeleteFromDB)
                 /\ \A c \in Committers : WF_vars(CommitStep(c))

-----------------------------------------------------------------------------
(* Properties                                                              *)

(* With one consumer per key the commits of a key are written in order:    *)
(* the database never goes back to an older offset, although the dump loop *)
(* writes what it read some time before.                                   *)
NeverBackwards == [][\A k \in Keys : db'[k] = 0 \/ db'[k] >= db[k]]_vars

(* What a restart brings back is an offset the group did commit, and never *)
(* one beyond what the cache of the running store holds for it: a crash    *)
(* can make a group read again but not skip.                               *)
DatabaseNotAhead ==
  \A k \in Keys : db[k] <= issued[k] /\ (cache[k] # 0 => db[k] <= cache[k])

(* offset_store.go:27: without a dump loop an acknowledged commit is in    *)
(* the database, whatever crashes follow (one consumer per key).           *)
SyncDurable == ~dumping => \A k \in Keys : db[k] >= acked[k]

(* A clean Close leaves nothing behind: the last dump, begun after every   *)
(* call has returned, persists each offset the cache holds, unless that    *)
(* very write failed.                                                      *)
CloseFlushes ==
  [][DumpFlush /\ life' = "down" /\ failures' = failures =>
       \A k \in Keys : cache[k] # 0 => db'[k] = cache[k]]_vars

(* With a dump loop an acknowledged offset reaches the database, unless    *)
(* its session expires, its topic is deleted or the process stops.         *)
EventuallyPersisted ==
  \A k \in Keys : \A n \in 1..MaxCommits :
    dumping /\ cache[k] = n /\ life = "up"
      ~> db[k] >= n \/ cache[k] = 0 \/ life # "up"

(* offset_store_test.go:148: deleted topic offsets do not survive a        *)
(* restart.                                                                *)
DeletedStaysDeleted ==
  life = "up" /\ restarts > 0 /\ deleter = Idle /\ failures = 0 =>
    \A k \in deleted : cache[k] = 0

=============================================================================
