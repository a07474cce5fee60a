------------------------------ MODULE Partition ------------------------------
(***************************************************************************)
(* One partition of a topic (pkg/broker/partition.go): a write-ahead log,  *)
(* the offset the next message will get, and, unless the topic is FIFO, an *)
(* index of the undelivered offsets of each priority level.                *)
(*                                                                         *)
(* A request is one call of AppendBatch or AppendBatchCompressed by a      *)
(* publishing goroutine.  The section under p.mu, the WAL write included,  *)
(* is one step; every pi.Add that follows it, outside p.mu, is a step of   *)
(* its own.  A reader is a goroutine inside Read: following a redirect     *)
(* record to the leader of a compressed batch takes the lock a second      *)
(* time, so truncation can happen in between.                              *)
(*                                                                         *)
(* A message is <<r, i>>, the i-th of request r; of its bytes only what    *)
(* the code looks at is kept: priority, timestamp and size.                *)
(***************************************************************************)
EXTENDS Integers, Sequences, FiniteSets, FiniteSetsExt

CONSTANTS
  Requests,        \* the append calls
  Batch,           \* Batch[r]: the headers [pri, ts, size] of r's messages
  Compressed,      \* the requests that call AppendBatchCompressed
  Readers,         \* goroutines that call Read
  Modes,           \* the settings [indexed, noSync] NewPartition is called with
  Cutoffs,         \* arguments of TruncateBefore
  ByteLimits,      \* arguments of TruncateOldestUntilSize
  LevelCap,        \* capacity of a priority level
  MaxFailures,     \* bound on failed writes
  MaxReopens       \* bound on NewPartition calls after the first

MaxPriority == 10

ASSUME BatchAssumption ==
  /\ Batch \in [Requests -> Seq([pri : Nat, ts : Nat, size : Nat])]
  /\ \A r \in Requests : Batch[r] # <<>>
ASSUME FlagAssumption ==
  /\ Compressed \subseteq Requests
  /\ Modes \subseteq [indexed : BOOLEAN, noSync : BOOLEAN]
ASSUME LimitAssumption ==
  /\ Cutoffs \subseteq Nat /\ ByteLimits \subseteq Nat
  /\ LevelCap \in Nat \ {0}
  /\ MaxFailures \in Nat /\ MaxReopens \in Nat

VARIABLES
  firstIndex,      \* oldest index held by the WAL
  lastIndex,       \* newest index held by the WAL
  log,             \* the records at firstIndex..lastIndex
  nextOffset,      \* Partition.nextOffset
  index,           \* Partition.priorityIndex: offsets per level, oldest first
  mode,            \* indexed: the schedule mode is not FIFO; noSync:
                   \* walOptions leaves writes unsynced
  closed,          \* the WAL is closed
  pc,              \* where each request is
  base,            \* first offset given to a request
  added,           \* how many of a request's messages pi.Add has seen
  reader,          \* what each reader is doing
  placed,          \* history: <<offset, message>> written and not lost
  acked,           \* history: <<offset, message>> returned to a publisher
  failures,        \* failed writes so far
  reopens          \* reopenings so far

walVars  == <<firstIndex, lastIndex, log>>
reqVars  == <<pc, base, added>>
histVars == <<placed, acked>>
vars == <<walVars, nextOffset, index, mode, closed, reqVars, reader, histVars,
          failures, reopens>>

-----------------------------------------------------------------------------
(* Messages and records                                                    *)

Size(r) == Len(Batch[r])
Messages == UNION {{<<r, i>> : i \in 1..Size(r)} : r \in Requests}
Header(m) == Batch[m[1]][m[2]]

(* Records by their first byte: a plain message, the leader of a           *)
(* compressed batch, or a redirect to the idx-th message (from 0) of the   *)
(* leader at offset base.                                                  *)
Plain(r, i)       == [kind |-> "message", req |-> r, idx |-> i]
Leader(r)         == [kind |-> "batch", req |-> r]
Redirect(b, i)    == [kind |-> "redirect", base |-> b, idx |-> i]
Records ==
  [kind : {"message"}, req : Requests, idx : Nat]
    \cup [kind : {"batch"}, req : Requests]
    \cup [kind : {"redirect"}, base : Nat, idx : Nat]

(* The record a request writes at the i-th offset of its batch.            *)
RecordOf(r, i, b) ==
  IF r \notin Compressed THEN Plain(r, i)
  ELSE IF i = 1 THEN Leader(r) ELSE Redirect(b, i - 1)

(* The first byte of a plain record is its priority, which is not clamped: *)
(* walRedirectMagic is 255 and walBatchMagic 186.                          *)
LooksLikeMagic(m) == m[1] \notin Compressed /\ Header(m).pri \in {186, 255}

(* UnmarshalHeader as the retention scan applies it to any record.  A      *)
(* redirect is shorter than a header.  In a leader the eight timestamp     *)
(* bytes begin with the message count, so the time they spell lies within  *)
(* hours of 1970: time 0.                                                  *)
HeaderReadable(rec) == rec.kind # "redirect"
HeaderTime(rec) ==
  IF rec.kind = "message" THEN Batch[rec.req][rec.idx].ts ELSE 0

(* Bytes of a record; a compressed payload counts as its largest message,  *)
(* a redirect as one unit.                                                 *)
RecordSize(rec) ==
  CASE rec.kind = "message"  -> Batch[rec.req][rec.idx].size
    [] rec.kind = "batch"    -> Max({Batch[rec.req][i].size : i \in 1..Size(rec.req)})
    [] rec.kind = "redirect" -> 1

-----------------------------------------------------------------------------
(* github.com/tidwall/wal, as the partition uses it                        *)

InLog(o) == o \in firstIndex..lastIndex

(* WriteBatch of n records from index b on: refused unless b follows the   *)
(* last index.                                                             *)
InOrder(b) == b = lastIndex + 1

WalExtend(r, b) ==
  /\ lastIndex' = lastIndex + Size(r)
  /\ log' = [o \in firstIndex..(lastIndex + Size(r)) |->
               IF o <= lastIndex THEN log[o]
               ELSE RecordOf(r, o - lastIndex, b)]
  /\ placed' = placed \cup {<<lastIndex + i, <<r, i>>>> : i \in 1..Size(r)}
  /\ UNCHANGED firstIndex

(* TruncateFront keeps the entry it is given, so it never empties the log: *)
(* an index outside the log is ErrOutOfRange.                              *)
WalTruncateFront(o) ==
  /\ InLog(o)
  /\ firstIndex' = o
  /\ log' = [x \in o..lastIndex |-> log[x]]
  /\ UNCHANGED lastIndex

-----------------------------------------------------------------------------
EmptyIndex == [l \in 0..(MaxPriority - 1) |-> <<>>]

Init ==
  /\ firstIndex = 1 /\ lastIndex = 0 /\ log = <<>>
  /\ nextOffset = 1
  /\ index = EmptyIndex
  /\ mode \in Modes /\ closed = FALSE
  /\ pc = [r \in Requests |-> "start"]
  /\ base = [r \in Requests |-> 0]
  /\ added = [r \in Requests |-> 0]
  /\ reader = [c \in Readers |-> [state |-> "idle"]]
  /\ placed = {} /\ acked = {}
  /\ failures = 0 /\ reopens = 0

(* Mutants: offsets counted from one too far, and not counted at all.      *)
Offset_OffByOne(r, i) == base[r] + i
AckOf_SameOffset(r, b) == {<<b, <<r, i>>>> : i \in 1..Size(r)}

Offset(r, i) == base[r] + i - 1
AckOf(r, b) == {<<b + i - 1, <<r, i>>>> : i \in 1..Size(r)}

(***************************************************************************)
(* AppendBatch / AppendBatchCompressed up to the unlock.  nextOffset       *)
(* advances before WriteBatch is called and is not restored when it fails. *)
(***************************************************************************)
AppendOk(r) ==
  /\ pc[r] = "start"
  /\ ~closed /\ InOrder(nextOffset)
  /\ WalExtend(r, nextOffset)
  /\ nextOffset' = nextOffset + Size(r)
  /\ base' = [base EXCEPT ![r] = nextOffset]
  /\ IF mode.indexed
     THEN /\ pc' = [pc EXCEPT ![r] = "adding"]
          /\ UNCHANGED acked
     ELSE /\ pc' = [pc EXCEPT ![r] = "acked"]
          /\ acked' = acked \cup AckOf(r, nextOffset)
  /\ UNCHANGED <<index, closed, added, reader, failures, reopens, mode>>

(* WriteBatch refuses: the log is closed, or an earlier failure left       *)
(* nextOffset ahead of the log.                                            *)
AppendRefused(r) ==
  /\ pc[r] = "start"
  /\ closed \/ ~InOrder(nextOffset)
  /\ nextOffset' = nextOffset + Size(r)
  /\ pc' = [pc EXCEPT ![r] = "failed"]
  /\ UNCHANGED <<walVars, index, closed, base, added, reader, histVars,
                 failures, reopens, mode>>

(* Mutant: the error of WriteBatch is ignored.                             *)
AppendFails_Ignored(r) ==
  /\ pc[r] = "start"
  /\ ~closed /\ InOrder(nextOffset)
  /\ failures < MaxFailures
  /\ failures' = failures + 1
  /\ nextOffset' = nextOffset + Size(r)
  /\ pc' = [pc EXCEPT ![r] = "acked"]
  /\ acked' = acked \cup AckOf(r, nextOffset)
  /\ UNCHANGED <<walVars, placed>>
  /\ UNCHANGED <<index, closed, base, added, reader, reopens, mode>>

(* The file write fails, or the fsync after it: then the records are in    *)
(* the log although the publisher is told of an error.                     *)
AppendFails(r) ==
  /\ pc[r] = "start"
  /\ ~closed /\ InOrder(nextOffset)
  /\ failures < MaxFailures
  /\ failures' = failures + 1
  /\ nextOffset' = nextOffset + Size(r)
  /\ pc' = [pc EXCEPT ![r] = "failed"]
  /\ \/ UNCHANGED <<walVars, placed>>
     \/ ~mode.noSync /\ WalExtend(r, nextOffset)
  /\ UNCHANGED <<index, closed, base, added, reader, acked, reopens, mode>>

(* PriorityIndex.Add: clamp the priority, push, evict the oldest entry of  *)
(* a full level.                                                           *)
LevelOf(m) == Min({Header(m).pri, MaxPriority - 1})
PushBack(q, o) == Append(IF Len(q) >= LevelCap THEN Tail(q) ELSE q, o)

(* One iteration of the loop of pi.Add calls; the last one returns.        *)
AddToIndex(r) ==
  LET i == added[r] + 1 IN
  /\ pc[r] = "adding"
  /\ index' = [index EXCEPT ![LevelOf(<<r, i>>)] = PushBack(@, Offset(r, i))]
  /\ added' = [added EXCEPT ![r] = i]
  /\ IF i = Size(r)
     THEN /\ pc' = [pc EXCEPT ![r] = "acked"]
          /\ acked' = acked \cup AckOf(r, base[r])
     ELSE UNCHANGED <<pc, acked>>
  /\ UNCHANGED <<walVars, nextOffset, closed, base, reader, placed, failures,
                 reopens, mode>>

-----------------------------------------------------------------------------
(* Read                                                                    *)

Failed(o) == [state |-> "error", off |-> o]
Got(o, m) == IF LooksLikeMagic(m) THEN Failed(o)
             ELSE [state |-> "ok", off |-> o, msg |-> m]

(* Read up to the first unlock and the dispatch on the record's kind.      *)
ReadAt(o) ==
  IF closed \/ ~InLog(o) THEN Failed(o)
  ELSE LET rec == log[o] IN
       CASE rec.kind = "message"  -> Got(o, <<rec.req, rec.idx>>)
         [] rec.kind = "batch"    -> Got(o, <<rec.req, 1>>)
         [] rec.kind = "redirect" -> [state |-> "redirected", off |-> o,
                                      base |-> rec.base, idx |-> rec.idx]

(* Mutant: the message before the one asked for.                           *)
ReadLeader_OffByOne(o, b, i) ==
  IF closed \/ ~InLog(b) THEN Failed(o)
  ELSE IF log[b].kind # "batch" THEN Failed(o)
  ELSE IF i >= Size(log[b].req) THEN Failed(o)
  ELSE Got(o, <<log[b].req, i>>)

(* readFromBatch and readFromBatchData: the record at base must still be   *)
(* there, be a leader, and hold more than idx messages.                    *)
ReadLeader(o, b, i) ==
  IF closed \/ ~InLog(b) THEN Failed(o)
  ELSE IF log[b].kind # "batch" THEN Failed(o)
  ELSE IF i >= Size(log[b].req) THEN Failed(o)
  ELSE Got(o, <<log[b].req, i + 1>>)

Read(c, o) ==
  /\ reader[c].state # "redirected"
  /\ reader' = [reader EXCEPT ![c] = ReadAt(o)]
  /\ UNCHANGED <<walVars, nextOffset, index, closed, reqVars, histVars,
                 failures, reopens, mode>>

ReadFromBatch(c) ==
  /\ reader[c].state = "redirected"
  /\ reader' = [reader EXCEPT ![c] = ReadLeader(@.off, @.base, @.idx)]
  /\ UNCHANGED <<walVars, nextOffset, index, closed, reqVars, histVars,
                 failures, reopens, mode>>

-----------------------------------------------------------------------------
(* Truncation, each call under the write lock                              *)

TruncateTo(o) ==
  /\ ~closed
  /\ WalTruncateFront(o)
  /\ UNCHANGED <<nextOffset, index, closed, reqVars, reader, histVars,
                 failures, reopens, mode>>

TruncateFront(o) == o >= 1 /\ TruncateTo(o)

(* The scan stops at the first entry it cannot read, cannot parse, or that *)
(* is not older than the cutoff.                                           *)
AgeStop(cutoff) ==
  Min({o \in firstIndex..(lastIndex + 1) :
         \/ ~InLog(o)
         \/ ~HeaderReadable(log[o])
         \/ HeaderTime(log[o]) >= cutoff})

TruncateBefore(cutoff) ==
  /\ lastIndex # 0
  /\ AgeStop(cutoff) > firstIndex
  /\ TruncateTo(AgeStop(cutoff))

BytesFrom(o) == MapThenSumSet(LAMBDA x : RecordSize(log[x]), o..lastIndex)

(* The first offset from which on the log fits in the limit.               *)
SizeStop(limit) ==
  Min({o \in firstIndex..(lastIndex + 1) : BytesFrom(o) <= limit})

TruncateOldestUntilSize(limit) ==
  /\ lastIndex # 0
  /\ BytesFrom(firstIndex) > limit
  /\ TruncateTo(SizeStop(limit))

-----------------------------------------------------------------------------
(* Close, crash and NewPartition                                           *)

(* A reader that was about to follow a redirect finds the log closed.      *)
AbandonReads ==
  reader' = [c \in Readers |-> IF reader[c].state = "redirected"
                               THEN Failed(reader[c].off) ELSE reader[c]]

Close ==
  /\ ~closed
  /\ closed' = TRUE
  /\ AbandonReads
  /\ UNCHANGED <<walVars, nextOffset, index, reqVars, histVars, failures,
                 reopens, mode>>

(* Mutant: the end of a synced log is lost as well.                        *)
Kept_Unsynced == {k \in (firstIndex - 1)..lastIndex :
                    firstIndex = 1 \/ k >= firstIndex}

(* The machine stops.  Unsynced writes may be lost from any index on, but  *)
(* a truncation has synced the entry it kept.                              *)
Kept == IF mode.noSync THEN {k \in (firstIndex - 1)..lastIndex :
                          firstIndex = 1 \/ k >= firstIndex}
        ELSE {lastIndex}

Crash ==
  /\ ~closed
  /\ \E k \in Kept :
       /\ lastIndex' = k
       /\ log' = [o \in firstIndex..k |-> log[o]]
       /\ placed' = {a \in placed : a[1] <= k}
       /\ acked' = {a \in acked : a[1] <= k}
  /\ closed' = TRUE
  /\ pc' = [r \in Requests |-> IF pc[r] = "adding" THEN "dead" ELSE pc[r]]
  /\ reader' = [c \in Readers |-> [state |-> "idle"]]
  /\ index' = EmptyIndex
  /\ UNCHANGED <<firstIndex, nextOffset, base, added, failures, reopens, mode>>

(* NewPartition on the same directory: a new object with an empty index.   *)
(* A request still adding does so to the old object's index and returns.   *)
NewPartition ==
  /\ closed /\ reopens < MaxReopens
  /\ reopens' = reopens + 1
  /\ closed' = FALSE /\ mode' \in Modes
  /\ nextOffset' = lastIndex + 1
  /\ index' = EmptyIndex
  /\ pc' = [r \in Requests |-> IF pc[r] = "adding" THEN "acked" ELSE pc[r]]
  /\ acked' = acked \cup
       UNION {AckOf(r, base[r]) : r \in {q \in Requests : pc[q] = "adding"}}
  /\ UNCHANGED <<walVars, base, added, reader, placed, failures>>

-----------------------------------------------------------------------------
Append_(r) == AppendOk(r) \/ AppendRefused(r) \/ AppendFails(r) \/ AddToIndex(r)

Truncate ==
  \/ \E o \in 2..lastIndex : TruncateFront(o)
  \/ \E t \in Cutoffs : TruncateBefore(t)
  \/ \E b \in ByteLimits : TruncateOldestUntilSize(b)

Next ==
  \/ \E r \in Requests : Append_(r)
  \/ \E c \in Readers : ReadFromBatch(c) \/ \E o \in 1..nextOffset : Read(c, o)
  \/ Truncate
  \/ Close \/ Crash \/ NewPartition

Spec == Init /\ [][Next]_vars

-----------------------------------------------------------------------------
(* Properties                                                              *)

ReaderStates ==
  [state : {"idle"}]
    \cup [state : {"error"}, off : Nat]
    \cup [state : {"ok"}, off : Nat, msg : Messages]
    \cup [state : {"redirected"}, off : Nat, base : Nat, idx : Nat]

(* The variables keep their types, the log covers exactly the offsets      *)
(* firstIndex..lastIndex, and nextOffset is never behind the log of an     *)
(* open partition.                                                         *)
TypeOK ==
  /\ firstIndex \in Nat \ {0} /\ lastIndex \in Nat
  /\ firstIndex <= lastIndex + 1
  /\ log \in [firstIndex..lastIndex -> Records]
  /\ nextOffset \in Nat /\ (~closed => nextOffset > lastIndex)
  /\ index \in [0..(MaxPriority - 1) -> Seq(Nat)]
  /\ mode \in [indexed : BOOLEAN, noSync : BOOLEAN] /\ closed \in BOOLEAN
  /\ pc \in [Requests -> {"start", "adding", "acked", "failed", "dead"}]
  /\ base \in [Requests -> Nat]
  /\ added \in [Requests -> Nat]
  /\ reader \in [Readers -> ReaderStates]
  /\ placed \subseteq Nat \X Messages
  /\ acked \subseteq Nat \X Messages
  /\ failures \in Nat /\ reopens \in Nat

(* Read never returns the wrong message: what it returns for an offset is  *)
(* the message that was written there, even when the leader of a           *)
(* compressed batch is looked up in a second locked section, after         *)
(* truncations and appends by others, and after offsets lost in a crash    *)
(* were given out again.                                                   *)
ReadBack ==
  \A c \in Readers :
    reader[c].state = "ok" => <<reader[c].off, reader[c].msg>> \in placed

(* An offset returned to a publisher identifies one message: no two        *)
(* acknowledgements that are still good share an offset, whatever writes   *)
(* failed, were refused or were cut off by a crash in between.             *)
OneMessagePerOffset ==
  \A a, b \in acked : a[1] = b[1] => a[2] = b[2]

(* What a Read of o comes to when nothing intervenes.                      *)
Resolve(o) ==
  LET s == ReadAt(o) IN
  IF s.state = "redirected" THEN ReadLeader(o, s.base, s.idx) ELSE s

Readable(a) == Resolve(a[1]) = [state |-> "ok", off |-> a[1], msg |-> a[2]]

Orphan(o) == InLog(o) /\ log[o].kind = "redirect" /\ log[o].base < firstIndex

(* An acknowledged message that no truncation has reached can be read back *)
(* at its offset from the open log, across failed writes, crashes and      *)
(* reopenings.  Two exceptions are in the code: a redirect whose leader    *)
(* was truncated, and a plain record whose priority byte is a magic byte.  *)
AckedReadable ==
  ~closed =>
    \A a \in acked :
      a[1] >= firstIndex =>
        Readable(a) \/ Orphan(a[1]) \/ LooksLikeMagic(a[2])

(* Every offset in the priority index was written to the log before it was *)
(* indexed, sits in the level of its message's priority, and is indexed    *)
(* once, although pi.Add runs after the partition lock is released.        *)
IndexSound ==
  \A l \in DOMAIN index : \A i \in DOMAIN index[l] :
    /\ \E m \in Messages : <<index[l][i], m>> \in placed /\ LevelOf(m) = l
    /\ \A j \in DOMAIN index[l] : index[l][i] = index[l][j] => i = j

(* With a syncing policy nothing takes an acknowledgement back: every step *)
(* keeps the acknowledged messages in the log or behind its front.         *)
AcksAreDurable == [][~mode.noSync => acked \subseteq acked']_vars

(* partition.go:367: TruncateBefore removes what is older than the cutoff: *)
(* a message that is not older and could be read can still be read.        *)
TruncateBeforeKeepsFresh ==
  [][\A t \in Cutoffs :
       TruncateBefore(t) =>
         \A a \in acked :
           Header(a[2]).ts >= t /\ Readable(a) => Readable(a)']_vars

=============================================================================
