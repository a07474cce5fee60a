------------------------- MODULE OffsetStoreProofs -------------------------
(* Proofs about OffsetStore, for every set of topics, groups and committers *)
(* and every number of commits, failures and restarts.                      *)
EXTENDS OffsetStore, TLAPS

(* A partition of a group has one consumer, whose calls one goroutine       *)
(* serves at a time.                                                        *)
OneConsumer == \A c, d \in Committers : c # d => Serves[c] \cap Serves[d] = {}

Offsets == [Keys -> Nat]
Committing == [pc : {"stamp", "write"}, key : Keys, off : Nat]
Flushing   == [pc : {"flush"}, batch : Offsets, last : BOOLEAN]
Deleting   == [pc : {"cache", "db"}, topic : Topics, keys : SUBSET Keys]
Expiring   == [pc : {"cache", "times"}, keys : SUBSET Keys]

TypeInv ==
    /\ cache \in Offsets /\ db \in Offsets /\ issued \in Offsets /\ acked \in Offsets
    /\ commit \in [Committers -> {Idle} \cup Committing]
    /\ dumper \in {Idle} \cup Flushing
    /\ deleter \in {Idle} \cup Deleting
    /\ expirer \in {Idle} \cup Expiring
    /\ failures \in Nat /\ dumping \in BOOLEAN

(* No map is ahead of the commits that were made, nor the database of the   *)
(* cache.                                                                   *)
Behind ==
    \A k \in Keys :
        /\ cache[k] <= issued[k] /\ db[k] <= issued[k] /\ acked[k] <= issued[k]
        /\ cache[k] # 0 => db[k] <= cache[k]

(* A Commit in progress is the newest one of its key.                       *)
NewestInFlight ==
    \A c \in Committers : commit[c] # Idle =>
        /\ life = "up"
        /\ commit[c].key \in Serves[c]
        /\ commit[c].off = issued[commit[c].key]
        /\ cache[commit[c].key] \in {0, commit[c].off}
        /\ commit[c].pc = "write" => ~dumping

(* What a dump has read lies between the database and the cache; the last   *)
(* dump, when no call is left, has read what the cache holds.               *)
BatchBetween ==
    dumper # Idle =>
        /\ dumping /\ life # "down"
        /\ dumper.last => life = "stopping" /\ dumper.batch = cache
        /\ \A k \in Keys :
             /\ dumper.batch[k] <= issued[k]
             /\ cache[k] # 0 => dumper.batch[k] <= cache[k]
             /\ dumper.batch[k] # 0 => db[k] <= dumper.batch[k]

(* Close waits for the calls, and a crash ends them.                        *)
QuietUnlessUp ==
    life # "up" => deleter = Idle /\ expirer = Idle

OInv == TypeInv /\ Behind /\ NewestInFlight /\ BatchBetween /\ QuietUnlessUp /\ SyncDurable

USE DEF Offsets

(* The two ways a map is changed: one key is set, or some keys are removed. *)
LEMMA WithoutType ==
    ASSUME NEW m \in Offsets, NEW S
    PROVE  /\ Without(m, S) \in Offsets
           /\ \A k \in Keys : Without(m, S)[k] \in {0, m[k]}
BY DEF Without

LEMMA CommitTypes ==
    ASSUME TypeInv, NEW c \in Committers, commit[c] # Idle
    PROVE  /\ commit[c].pc \in {"stamp", "write"} /\ commit[c].key \in Keys
           /\ commit[c].off \in Nat
           /\ commit[c] = [pc |-> commit[c].pc, key |-> commit[c].key, off |-> commit[c].off]
BY DEF TypeInv, Committing

LEMMA KeepCommitCache ==
    ASSUME OneConsumer, OInv, NEW c \in Committers, CommitCache(c)
    PROVE  OInv'
<1>1. PICK k \in Serves[c] :
        /\ issued' = [issued EXCEPT ![k] = @ + 1]
        /\ cache' = [cache EXCEPT ![k] = issued[k] + 1]
        /\ commit' = [commit EXCEPT ![c] = [pc |-> "stamp", key |-> k, off |-> issued[k] + 1]]
  BY DEF CommitCache
<1>2. life = "up" /\ UNCHANGED <<db, dumper, deleter, expirer, life, acked, failures, dumping>>
  BY DEF CommitCache
<1>3. k \in Keys
  BY StoreAssumption
<1>4. TypeInv'
  BY <1>1, <1>2, <1>3 DEF OInv, TypeInv, Committing
<1>5. Behind'
  BY <1>1, <1>2, <1>3 DEF OInv, TypeInv, Behind
<1>6. NewestInFlight'
  <2> SUFFICES ASSUME NEW d \in Committers, commit'[d] # Idle
               PROVE  /\ commit'[d].key \in Serves[d]
                      /\ commit'[d].off = issued'[commit'[d].key]
                      /\ cache'[commit'[d].key] \in {0, commit'[d].off}
                      /\ commit'[d].pc = "write" => ~dumping
    BY <1>2 DEF NewestInFlight
  <2>1. CASE d = c
    BY <1>1, <1>3, <2>1 DEF OInv, TypeInv
  <2>2. CASE d # c
    <3>1. commit'[d] = commit[d] /\ commit[d] # Idle
      BY <1>1, <2>2 DEF OInv, TypeInv
    <3>2. commit[d].key \in Keys
      BY <3>1, CommitTypes DEF OInv
    <3>3. commit[d].key # k
      BY <3>1, <2>2 DEF OneConsumer, OInv, NewestInFlight
    <3> QED
      BY <1>1, <3>1, <3>2, <3>3 DEF OInv, TypeInv, NewestInFlight
  <2> QED
    BY <2>1, <2>2
<1>7. BatchBetween'
  <2> SUFFICES ASSUME dumper # Idle PROVE BatchBetween'
    BY <1>2 DEF BatchBetween
  <2>1. dumper \in Flushing
    BY DEF OInv, TypeInv
  <2> QED
    BY <1>1, <1>2, <1>3, <2>1 DEF OInv, TypeInv, BatchBetween, Flushing
<1>8. QuietUnlessUp' /\ SyncDurable'
  BY <1>2 DEF OInv, QuietUnlessUp, SyncDurable
<1> QED
  BY <1>4, <1>5, <1>6, <1>7, <1>8 DEF OInv

(* A Commit that goes on, whether or not it returns.                        *)
LEMMA CommitGoesOn ==
    ASSUME OInv, NEW c \in Committers, commit[c] # Idle,
           \/ commit' = [commit EXCEPT ![c] = Idle]
           \/ commit' = [commit EXCEPT ![c].pc = "write"] /\ ~dumping,
           cache' = cache /\ life' = life /\ issued' = issued /\ dumping' = dumping
    PROVE  commit' \in [Committers -> {Idle} \cup Committing] /\ NewestInFlight'
<1>1. CASE commit' = [commit EXCEPT ![c] = Idle]
  BY <1>1 DEF OInv, TypeInv, NewestInFlight
<1>2. CASE commit' = [commit EXCEPT ![c].pc = "write"] /\ ~dumping
  <2>1. commit'[c] = [pc |-> "write", key |-> commit[c].key, off |-> commit[c].off]
        /\ \A d \in Committers : d # c => commit'[d] = commit[d]
    BY <1>2, CommitTypes DEF OInv, TypeInv
  <2>2. commit' \in [Committers -> {Idle} \cup Committing]
    BY <1>2, <2>1, CommitTypes DEF OInv, TypeInv, Committing
  <2>3. NewestInFlight'
    BY <1>2, <2>1 DEF OInv, NewestInFlight
  <2> QED
    BY <2>2, <2>3
<1> QED
  BY <1>1, <1>2

LEMMA KeepCommitStamp ==
    ASSUME OneConsumer, OInv, NEW c \in Committers, CommitStamp(c)
    PROVE  OInv'
<1>1. /\ commit[c].pc = "stamp"
      /\ UNCHANGED <<cache, db, dumper, deleter, expirer, life, issued, failures, dumping>>
  BY DEF CommitStamp
<1>2. commit[c] # Idle
  BY <1>1 DEF Idle
<1>3. commit[c].key \in Keys /\ commit[c].off \in Nat /\ commit[c].off = issued[commit[c].key]
  BY <1>2, CommitTypes DEF OInv, NewestInFlight
<1>4. \/ dumping /\ acked' = [acked EXCEPT ![commit[c].key] = Larger(@, commit[c].off)]
         /\ commit' = [commit EXCEPT ![c] = Idle]
      \/ ~dumping /\ acked' = acked /\ commit' = [commit EXCEPT ![c].pc = "write"]
  BY DEF CommitStamp, Returned
<1>5. commit' \in [Committers -> {Idle} \cup Committing] /\ NewestInFlight'
  BY <1>1, <1>2, <1>4, CommitGoesOn
<1>6. acked' \in Offsets /\ \A k \in Keys : acked'[k] <= issued[k]
  BY <1>3, <1>4 DEF OInv, TypeInv, Behind, Larger
<1>7. TypeInv' /\ Behind'
  BY <1>1, <1>5, <1>6 DEF OInv, TypeInv, Behind
<1>8. BatchBetween' /\ QuietUnlessUp'
  BY <1>1 DEF OInv, BatchBetween, QuietUnlessUp
<1>9. SyncDurable'
  BY <1>1, <1>4 DEF OInv, SyncDurable
<1> QED
  BY <1>5, <1>7, <1>8, <1>9 DEF OInv

LEMMA KeepWriteOne ==
    ASSUME OneConsumer, OInv, NEW c \in Committers, WriteOne(c)
    PROVE  OInv' /\ \A k \in Keys : db'[k] >= db[k]
<1>1. /\ commit[c].pc = "write"
      /\ UNCHANGED <<cache, dumper, deleter, expirer, life, issued, failures, dumping>>
  BY DEF WriteOne
<1>2. commit[c] # Idle
  BY <1>1 DEF Idle
<1>3. PICK k \in Keys, n \in Nat :
        /\ k = commit[c].key /\ n = commit[c].off
        /\ n = issued[k] /\ cache[k] \in {0, n} /\ ~dumping /\ life = "up"
  BY <1>1, <1>2, CommitTypes DEF OInv, NewestInFlight
<1>4. /\ db' = [db EXCEPT ![k] = n] /\ acked' = [acked EXCEPT ![k] = Larger(@, n)]
      /\ commit' = [commit EXCEPT ![c] = Idle]
  BY <1>3 DEF WriteOne, Returned
<1>5. commit' \in [Committers -> {Idle} \cup Committing] /\ NewestInFlight'
  BY <1>1, <1>2, <1>4, CommitGoesOn
<1>6. acked'[k] = n /\ acked' \in Offsets /\ db' \in Offsets
  BY <1>3, <1>4 DEF OInv, TypeInv, Behind, Larger
<1>7. TypeInv'
  BY <1>1, <1>5, <1>6 DEF OInv, TypeInv
<1>8. Behind' /\ SyncDurable' /\ \A j \in Keys : db'[j] >= db[j]
  BY <1>1, <1>3, <1>4, <1>6 DEF OInv, TypeInv, Behind, SyncDurable
<1>9. BatchBetween' /\ QuietUnlessUp'
  BY <1>1, <1>3 DEF OInv, BatchBetween, QuietUnlessUp
<1> QED
  BY <1>5, <1>7, <1>8, <1>9 DEF OInv

LEMMA KeepWriteOneFails ==
    ASSUME OneConsumer, OInv, NEW c \in Committers, WriteOneFails(c)
    PROVE  OInv'
<1>1. /\ commit[c].pc = "write" /\ failures' = failures + 1
      /\ commit' = [commit EXCEPT ![c] = Idle]
      /\ UNCHANGED <<cache, db, dumper, deleter, expirer, life, issued, acked, dumping>>
  BY DEF WriteOneFails, hist
<1>2. commit[c] # Idle
  BY <1>1 DEF Idle
<1>3. commit' \in [Committers -> {Idle} \cup Committing] /\ NewestInFlight'
  BY <1>1, <1>2, CommitGoesOn
<1> QED
  BY <1>1, <1>3 DEF OInv, TypeInv, Behind, BatchBetween, QuietUnlessUp, SyncDurable

LEMMA KeepDumpCollect ==
    ASSUME OInv, DumpCollect
    PROVE  OInv'
<1>1. /\ dumping /\ life # "down" /\ dumper.pc = "idle"
      /\ UNCHANGED <<cache, db, commit, deleter, expirer, issued, acked, failures, dumping>>
  BY DEF DumpCollect, hist
<1>2. dumper = Idle
  BY <1>1 DEF OInv, TypeInv, Flushing
<1>3. CASE life = "stopping" /\ life' = "down" /\ dumper' = dumper
  <2>1. \A c \in Committers : commit[c] = Idle
    BY <1>3 DEF OInv, NewestInFlight
  <2> QED
    BY <1>1, <1>2, <1>3, <2>1
    DEF OInv, TypeInv, Behind, NewestInFlight, BatchBetween, QuietUnlessUp, SyncDurable
<1>4. CASE /\ dumper' = [pc |-> "flush", batch |-> cache, last |-> life = "stopping"]
           /\ life' = life
  <2> DEFINE e == life = "stopping"
  <2>1. dumper' \in Flushing /\ dumper'.batch = cache /\ dumper'.last = e
    BY <1>4 DEF OInv, TypeInv, Flushing
  <2>2. TypeInv'
    BY <1>1, <2>1 DEF OInv, TypeInv
  <2>3. BatchBetween'
    <3>1. e => life' = "stopping"
      BY <1>4
    <3>2. \A k \in Keys : cache[k] <= issued[k] /\ (cache[k] # 0 => db[k] <= cache[k])
                         /\ cache[k] \in Nat
      BY DEF OInv, TypeInv, Behind
    <3> HIDE DEF e
    <3> QED
      BY <1>1, <1>4, <2>1, <3>1, <3>2 DEF BatchBetween
  <2> QED
    BY <1>1, <1>4, <2>2, <2>3
    DEF OInv, Behind, NewestInFlight, QuietUnlessUp, SyncDurable
<1> QED
  BY <1>3, <1>4 DEF DumpCollect

LEMMA KeepDumpFlush ==
    ASSUME OInv, DumpFlush
    PROVE  /\ OInv' /\ \A k \in Keys : db'[k] >= db[k]
           /\ life' = "down" /\ failures' = failures =>
                \A k \in Keys : cache[k] # 0 => db'[k] = cache[k]
<1>1. /\ dumper.pc = "flush" /\ dumper' = Idle
      /\ life' = IF dumper.last THEN "down" ELSE life
      /\ UNCHANGED <<cache, commit, deleter, expirer, issued, acked, dumping>>
  BY DEF DumpFlush, hist
<1>2. dumper # Idle /\ dumper \in Flushing
  BY <1>1 DEF Idle, OInv, TypeInv
<1>3. PICK b \in Offsets, e \in BOOLEAN : b = dumper.batch /\ e = dumper.last
  BY <1>2 DEF Flushing
<1>4. /\ dumping /\ life # "down" /\ (e => life = "stopping" /\ b = cache)
      /\ \A k \in Keys : /\ b[k] <= issued[k] /\ (cache[k] # 0 => b[k] <= cache[k])
                         /\ b[k] # 0 => db[k] <= b[k]
  BY <1>2, <1>3 DEF OInv, BatchBetween
<1>5. \/ db' = [k \in Keys |-> IF b[k] # 0 THEN b[k] ELSE db[k]] /\ failures' = failures
      \/ db' = db /\ failures' = failures + 1
  BY <1>3 DEF DumpFlush
<1>6. /\ db' \in Offsets /\ failures' \in Nat
      /\ \A k \in Keys : db'[k] \in {b[k], db[k]} /\ db'[k] >= db[k]
  BY <1>4, <1>5 DEF OInv, TypeInv
<1>7. TypeInv'
  BY <1>1, <1>6 DEF OInv, TypeInv
<1>8. Behind'
  BY <1>1, <1>4, <1>6 DEF OInv, TypeInv, Behind
<1>9. NewestInFlight' /\ QuietUnlessUp'
  <2>1. life' = IF e THEN "down" ELSE life
    BY <1>1, <1>3
  <2> QED
    BY <1>1, <1>4, <2>1 DEF OInv, NewestInFlight, QuietUnlessUp
<1>10. BatchBetween' /\ SyncDurable'
  BY <1>1, <1>4 DEF BatchBetween, SyncDurable
<1>11. ASSUME life' = "down", failures' = failures, NEW k \in Keys, cache[k] # 0
       PROVE  db'[k] = cache[k]
  <2>1. b = cache
    BY <1>1, <1>3, <1>4, <1>11
  <2>2. db' = [j \in Keys |-> IF b[j] # 0 THEN b[j] ELSE db[j]]
    BY <1>5, <1>11 DEF OInv, TypeInv
  <2> QED
    BY <1>11, <2>1, <2>2
<1> QED
  BY <1>6, <1>7, <1>8, <1>9, <1>10, <1>11 DEF OInv

LEMMA KeepDeleteTopic ==
    ASSUME OInv, NEW t \in Topics, DeleteTopic(t)
    PROVE  OInv'
<1>1. /\ life = "up"
      /\ deleter' = [pc |-> "cache", topic |-> t, keys |-> KeysOf(t) \cap Cached]
      /\ UNCHANGED <<cache, db, commit, dumper, expirer, life, issued, acked, failures, dumping>>
  BY DEF DeleteTopic
<1>2. deleter' \in Deleting
  BY <1>1 DEF Deleting, KeysOf
<1> QED
  BY <1>1, <1>2
  DEF OInv, TypeInv, Behind, NewestInFlight, BatchBetween, QuietUnlessUp, SyncDurable

(* Keys leave the cache while the store is up, between two accesses of      *)
(* anyone else.                                                             *)
LEMMA KeepRemoval ==
    ASSUME OInv, life = "up", NEW S, cache' = Without(cache, S),
           deleter' \in {Idle} \cup Deleting, expirer' \in {Idle} \cup Expiring,
           UNCHANGED <<db, commit, dumper, life, issued, acked, failures, dumping>>
    PROVE  OInv'
<1>1. cache' \in Offsets /\ \A k \in Keys : cache'[k] \in {0, cache[k]}
  BY WithoutType DEF OInv, TypeInv
<1>2. TypeInv' /\ Behind'
  BY <1>1 DEF OInv, TypeInv, Behind
<1>3. NewestInFlight'
  <2> SUFFICES ASSUME NEW c \in Committers, commit[c] # Idle
               PROVE  cache'[commit[c].key] \in {0, commit[c].off}
    BY DEF OInv, NewestInFlight
  <2>1. commit[c].key \in Keys
    BY CommitTypes DEF OInv
  <2> QED
    BY <1>1, <2>1 DEF OInv, NewestInFlight
<1>4. BatchBetween'
  BY <1>1 DEF OInv, BatchBetween
<1> QED
  BY <1>2, <1>3, <1>4 DEF OInv, QuietUnlessUp, SyncDurable

LEMMA KeepDeleteFromCache ==
    ASSUME OInv, DeleteFromCache
    PROVE  OInv'
<1>1. deleter # Idle /\ deleter \in Deleting /\ life = "up"
  BY DEF DeleteFromCache, Idle, OInv, TypeInv, QuietUnlessUp
<1>2. deleter' \in Deleting
  BY <1>1 DEF DeleteFromCache, Deleting
<1> QED
  BY <1>1, <1>2, KeepRemoval DEF DeleteFromCache, hist, OInv, TypeInv

LEMMA KeepDeleteFromDB ==
    ASSUME OInv, DeleteFromDB
    PROVE  OInv' /\ \A k \in Keys : db'[k] \in {0, db[k]}
<1>1. /\ deleter' = Idle /\ acked' = Without(acked, deleter.keys)
      /\ UNCHANGED <<cache, commit, dumper, expirer, life, issued, dumping>>
  BY DEF DeleteFromDB
<1>2. \/ db' = Without(db, deleter.keys) /\ failures' = failures
      \/ db' = db /\ failures' = failures + 1
  BY DEF DeleteFromDB
<1>3. /\ db' \in Offsets /\ acked' \in Offsets /\ failures' \in Nat
      /\ \A k \in Keys : db'[k] \in {0, db[k]} /\ acked'[k] \in {0, acked[k]}
  BY <1>1, <1>2, WithoutType DEF OInv, TypeInv
<1>4. TypeInv' /\ Behind'
  BY <1>1, <1>3 DEF OInv, TypeInv, Behind
<1>5. SyncDurable'
  <2>1. \A k \in Keys : acked'[k] = 0 \/ (acked'[k] = acked[k] /\ db'[k] = db[k])
    BY <1>1, <1>2 DEF Without
  <2> QED
    BY <1>1, <1>3, <2>1 DEF OInv, TypeInv, SyncDurable
<1>6. BatchBetween'
  <2>1. dumper # Idle => dumper.batch \in Offsets
    BY DEF OInv, TypeInv, Flushing
  <2> QED
    BY <1>1, <1>3, <2>1 DEF OInv, BatchBetween
<1> QED
  BY <1>1, <1>3, <1>4, <1>5, <1>6 DEF OInv, NewestInFlight, QuietUnlessUp

LEMMA KeepExpireSessions ==
    ASSUME OInv, ExpireSessions \/ ExpireFromCache \/ ExpireTimes
    PROVE  OInv' /\ db' = db
<1>1. CASE ExpireSessions
  <2>1. expirer' \in Expiring
    BY <1>1 DEF ExpireSessions, Expiring
  <2> QED
    BY <1>1, <2>1 DEF ExpireSessions, hist, OInv, TypeInv, Behind, NewestInFlight,
                      BatchBetween, QuietUnlessUp, SyncDurable
<1>2. CASE ExpireFromCache
  <2>1. expirer # Idle /\ expirer \in Expiring /\ life = "up"
    BY <1>2 DEF ExpireFromCache, Idle, OInv, TypeInv, QuietUnlessUp
  <2>2. expirer' \in Expiring
    BY <1>2, <2>1 DEF ExpireFromCache, Expiring
  <2> QED
    BY <1>2, <2>1, <2>2, KeepRemoval DEF ExpireFromCache, hist, OInv, TypeInv
<1>3. CASE ExpireTimes
  BY <1>3 DEF ExpireTimes, hist, OInv, TypeInv, Behind, NewestInFlight,
              BatchBetween, QuietUnlessUp, SyncDurable
<1> QED
  BY <1>1, <1>2, <1>3

LEMMA KeepLifeCycle ==
    ASSUME OInv, Close \/ Crash \/ NewOffsetStore
    PROVE  OInv' /\ db' = db
<1>1. CASE Close
  <2>1. \A c \in Committers : commit[c] = Idle
    BY <1>1 DEF Close
  <2>2. dumper # Idle => dumping /\ life = "up" /\ life' = "stopping"
    BY <1>1 DEF Close, OInv, BatchBetween
  <2> QED
    BY <1>1, <2>1, <2>2 DEF Close, calls, hist, OInv, TypeInv, Behind, NewestInFlight,
                            BatchBetween, QuietUnlessUp, SyncDurable
<1>2. CASE Crash
  BY <1>2 DEF Crash, OInv, TypeInv, Behind, NewestInFlight, BatchBetween, QuietUnlessUp,
              SyncDurable
<1>3. CASE NewOffsetStore
  <2>1. dumper = Idle /\ \A c \in Committers : commit[c] = Idle
    BY <1>3 DEF NewOffsetStore, OInv, NewestInFlight, BatchBetween
  <2> QED
    BY <1>3, <2>1 DEF NewOffsetStore, calls, hist, OInv, TypeInv, Behind, NewestInFlight,
                      BatchBetween, QuietUnlessUp, SyncDurable
<1> QED
  BY <1>1, <1>2, <1>3

LEMMA InitOK == Init => OInv
BY DEF Init, NoCalls, OInv, TypeInv, Behind, NewestInFlight, BatchBetween, QuietUnlessUp,
       SyncDurable

(* One step: the invariant is kept and no offset in the database goes back. *)
LEMMA StepOK ==
    ASSUME OneConsumer, OInv, [Next]_vars
    PROVE  OInv' /\ \A k \in Keys : db'[k] = 0 \/ db'[k] >= db[k]
<1>0. db \in Offsets
  BY DEF OInv, TypeInv
<1>1. CASE UNCHANGED vars
  BY <1>0, <1>1 DEF vars, calls, hist, OInv, TypeInv, Behind, NewestInFlight, BatchBetween,
                    QuietUnlessUp, SyncDurable
<1>2. ASSUME NEW c \in Committers, CommitCache(c) \/ CommitStep(c)
      PROVE  OInv' /\ \A k \in Keys : db'[k] >= db[k]
  <2>0. CommitCache(c) \/ CommitStamp(c) \/ WriteOneFails(c) => db' = db
    BY DEF CommitCache, CommitStamp, WriteOneFails
  <2>1. CASE CommitCache(c)
    BY <1>0, <2>0, <2>1, KeepCommitCache
  <2>2. CASE CommitStamp(c)
    BY <1>0, <2>0, <2>2, KeepCommitStamp
  <2>3. CASE WriteOne(c)
    BY <2>3, KeepWriteOne
  <2>4. CASE WriteOneFails(c)
    BY <1>0, <2>0, <2>4, KeepWriteOneFails
  <2> QED
    BY <1>2, <2>1, <2>2, <2>3, <2>4 DEF CommitStep
<1>3. CASE DumpCollect
  BY <1>0, <1>3, KeepDumpCollect DEF DumpCollect
<1>4. CASE DumpFlush
  BY <1>4, KeepDumpFlush
<1>5. ASSUME NEW t \in Topics, DeleteTopic(t)
      PROVE  OInv' /\ \A k \in Keys : db'[k] >= db[k]
  BY <1>0, <1>5, KeepDeleteTopic DEF DeleteTopic
<1>6. CASE DeleteFromCache
  BY <1>0, <1>6, KeepDeleteFromCache DEF DeleteFromCache
<1>7. CASE DeleteFromDB
  BY <1>0, <1>7, KeepDeleteFromDB
<1>8. CASE TimePasses
  <2>1. /\ cache' = cache /\ db' = db /\ issued' = issued /\ acked' = acked /\ commit' = commit
        /\ dumper' = dumper /\ deleter' = deleter /\ expirer' = expirer /\ life' = life
        /\ failures' = failures /\ dumping' = dumping
    BY <1>8 DEF TimePasses, calls, hist
  <2> QED
    BY <1>0, <2>1 DEF OInv, TypeInv, Behind, NewestInFlight, BatchBetween, QuietUnlessUp,
                      SyncDurable
<1>9. CASE ExpireSessions \/ ExpireFromCache \/ ExpireTimes
  BY <1>0, <1>9, KeepExpireSessions
<1>10. CASE Close \/ Crash \/ NewOffsetStore
  BY <1>0, <1>10, KeepLifeCycle
<1> QED
  BY <1>1, <1>2, <1>3, <1>4, <1>5, <1>6, <1>7, <1>8, <1>9, <1>10 DEF Next, Dump

(* What a restart brings back was committed and is not beyond what the      *)
(* running store holds, for any number of topics, groups and commits, with  *)
(* dumps, deletions, expiries and crashes in between (dump, NewOffsetStore).*)
THEOREM DatabaseStaysBehind ==
    ASSUME OneConsumer
    PROVE  Spec => []DatabaseNotAhead
<1>1. OInv => DatabaseNotAhead
  BY DEF OInv, Behind, DatabaseNotAhead
<1> QED
  BY <1>1, InitOK, StepOK, PTL DEF Spec

(* Without a dump loop an acknowledged Commit is in the database, whatever  *)
(* fails and crashes (Commit, writeOne).                                    *)
THEOREM AcknowledgedIsDurable ==
    ASSUME OneConsumer
    PROVE  Spec => []SyncDurable
<1>1. OInv => SyncDurable
  BY DEF OInv
<1> QED
  BY <1>1, InitOK, StepOK, PTL DEF Spec

(* The database never returns to an older offset of a key, although a dump  *)
(* writes what it has read some time before (dump).                         *)
THEOREM OffsetsNeverGoBack ==
    ASSUME OneConsumer
    PROVE  Spec => NeverBackwards
<1>1. OInv /\ [Next]_vars => [\A k \in Keys : db'[k] = 0 \/ db'[k] >= db[k]]_vars
  BY StepOK
<1> QED
  BY <1>1, InitOK, StepOK, PTL DEF Spec, NeverBackwards

(* The dump that Close waits for leaves no cached offset unwritten, unless  *)
(* its own write fails (dumpLoop, Close).                                   *)
THEOREM CloseLeavesNothing ==
    ASSUME OneConsumer
    PROVE  Spec => CloseFlushes
<1>1. OInv /\ [Next]_vars =>
        [DumpFlush /\ life' = "down" /\ failures' = failures =>
           \A k \in Keys : cache[k] # 0 => db'[k] = cache[k]]_vars
  BY KeepDumpFlush
<1> QED
  BY <1>1, InitOK, StepOK, PTL DEF Spec, CloseFlushes

=============================================================================
