------------------------------ MODULE EntryRing ------------------------------
(***************************************************************************)
(* entryRing (pkg/broker/priority_index.go): the circular buffer behind    *)
(* each priority level, as its callers drive it under the level's lock.    *)
(* buf has len(buf) = length slots numbered from 0.                        *)
(***************************************************************************)
EXTENDS Integers, Sequences

CONSTANTS
  Entries,     \* pending entries
  None,        \* the zero PendingEntry
  Caps,        \* the values of entryRing.cap, 0 for unbounded
  MinGrow,     \* smallest buffer grow allocates (16)
  MaxSize      \* bound on the entries held when cap = 0

ASSUME NoneAssumption == None \notin Entries
ASSUME CapAssumption == Caps \subseteq Nat
ASSUME GrowAssumption == MinGrow \in Nat \ {0}
ASSUME SizeBound == MaxSize \in Nat

VARIABLES cap, buf, length, head, size, out

vars == <<cap, buf, length, head, size, out>>

Slots(n) == 0..(n - 1)
Slot(i) == (head + i) % length

(* NewPriorityIndex: a capped ring gets its whole buffer at once.          *)
Init ==
  /\ cap \in Caps /\ length = cap
  /\ buf = [k \in Slots(cap) |-> None]
  /\ head = 0 /\ size = 0 /\ out = None

(* linearize: the entries, oldest first.                                   *)
linearize == [i \in 1..size |-> buf[Slot(i - 1)]]

(* grow: the size of the new buffer; the entries are copied to its front.  *)
Larger(a, b) == IF a > b THEN a ELSE b
NewCap == LET twice == Larger(2 * length, MinGrow)
          IN  IF cap > 0 /\ twice > cap THEN cap ELSE twice

(* pushBack, when the ring is full: the oldest entry is overwritten.       *)
PushEvict(e) ==
  /\ cap > 0 /\ size >= cap
  /\ out' = buf[head]
  /\ buf' = [buf EXCEPT ![head] = e]
  /\ head' = (head + 1) % cap
  /\ UNCHANGED <<cap, length, size>>

(* pushBack into a free slot.                                              *)
PushFree(e) ==
  /\ ~(cap > 0 /\ size >= cap) /\ size # length
  /\ cap = 0 => size < MaxSize
  /\ buf' = [buf EXCEPT ![Slot(size)] = e]
  /\ size' = size + 1 /\ out' = None
  /\ UNCHANGED <<cap, length, head>>

(* Mutant: growing copies the buffer as it lies, not from head on.         *)
PushGrow_NotUnrolled(e) ==
  /\ ~(cap > 0 /\ size >= cap) /\ size = length
  /\ cap = 0 => size < MaxSize
  /\ length' = NewCap
  /\ buf' = [k \in Slots(NewCap) |->
               IF k < size THEN buf[k] ELSE IF k = size THEN e ELSE None]
  /\ head' = 0 /\ size' = size + 1 /\ out' = None
  /\ UNCHANGED cap

(* pushBack that has to grow the buffer first.                             *)
PushGrow(e) ==
  /\ ~(cap > 0 /\ size >= cap) /\ size = length
  /\ cap = 0 => size < MaxSize
  /\ length' = NewCap
  /\ buf' = [k \in Slots(NewCap) |->
               IF k < size THEN buf[Slot(k)] ELSE IF k = size THEN e ELSE None]
  /\ head' = 0 /\ size' = size + 1 /\ out' = None
  /\ UNCHANGED cap

(* Mutant: popFront leaves the entry in its slot.                          *)
popFront_Kept ==
  /\ IF size = 0
     THEN out' = None /\ UNCHANGED <<buf, head, size>>
     ELSE /\ out' = buf[head]
          /\ head' = (head + 1) % length
          /\ size' = size - 1
          /\ UNCHANGED buf
  /\ UNCHANGED <<cap, length>>

popFront ==
  /\ IF size = 0
     THEN out' = None /\ UNCHANGED <<buf, head, size>>
     ELSE /\ out' = buf[head]
          /\ buf' = [buf EXCEPT ![head] = None]
          /\ head' = (head + 1) % length
          /\ size' = size - 1
  /\ UNCHANGED <<cap, length>>

(* resetFrom: of too many entries the newest are kept; the buffer only     *)
(* grows when they do not fit.                                             *)
Keep(s) == IF cap > 0 /\ Len(s) > cap
           THEN SubSeq(s, Len(s) - cap + 1, Len(s)) ELSE s
(* Mutant: resetFrom leaves head where it was.                             *)
resetFrom_HeadStays(s) ==
  LET k == Keep(s) IN
  /\ length' = Larger(length, Len(k))
  /\ buf' = [j \in Slots(Larger(length, Len(k))) |->
               IF j < Len(k) THEN k[j + 1] ELSE None]
  /\ size' = Len(k) /\ out' = None
  /\ UNCHANGED <<cap, head>>

resetFrom(s) ==
  LET k == Keep(s) IN
  /\ length' = Larger(length, Len(k))
  /\ buf' = [j \in Slots(Larger(length, Len(k))) |->
               IF j < Len(k) THEN k[j + 1] ELSE None]
  /\ head' = 0 /\ size' = Len(k) /\ out' = None
  /\ UNCHANGED cap

Push(e) == PushEvict(e) \/ PushFree(e) \/ PushGrow(e)

Queue == INSTANCE BoundedQueue WITH queue <- linearize

(* PromoteStale resets a level from the fresh part of its contents.        *)
Next ==
  \/ \E e \in Entries : Push(e)
  \/ popFront
  \/ \E s \in Queue!Subsequences(linearize) : resetFrom(s)

Spec == Init /\ [][Next]_vars

-----------------------------------------------------------------------------
(* The buffer, its bookkeeping and its capacity fit together: head is a    *)
(* slot (or 0 for the empty buffer), no more entries than slots, never     *)
(* more than cap slots, and exactly the occupied slots hold entries.       *)
RingOK ==
  /\ cap \in Nat
  /\ length \in Nat /\ size \in 0..length
  /\ head \in Nat /\ (length > 0 => head < length) /\ (length = 0 => head = 0)
  /\ cap > 0 => length = cap
  /\ buf \in [Slots(length) -> Entries \cup {None}]
  /\ \A i \in 0..(size - 1) : buf[Slot(i)] \in Entries
  /\ out \in Entries \cup {None}

(* The slots outside the occupied arc hold the zero entry: popped and      *)
(* dropped entries are not kept reachable.                                 *)
FreeSlotsCleared ==
  \A i \in size..(length - 1) : buf[Slot(i)] = None

(* The ring is a bounded FIFO queue of its linearized contents: wrapping,  *)
(* growing, evicting and resetting never lose, repeat or reorder entries.  *)
ImplementsQueue == Queue!Spec

=============================================================================
