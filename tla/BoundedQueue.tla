---------------------------- MODULE BoundedQueue ----------------------------
(***************************************************************************)
(* What one priority level promises: a queue that forgets its oldest entry *)
(* when it is full (cap > 0) or never forgets (cap = 0).                   *)
(***************************************************************************)
EXTENDS Integers, Sequences

CONSTANTS
  Entries,   \* pending entries
  Caps,      \* the capacities a level may have, 0 for none
  None       \* no entry: PendingEntry{}, false

VARIABLES
  cap,       \* the capacity, fixed when the level is made
  queue,     \* the entries, oldest first
  out        \* what the last operation handed back

(* The sequences left when some elements of a sequence are taken out.      *)
Increasing(n, m) == {f \in [1..n -> 1..m] :
                       \A i, j \in 1..n : i < j => f[i] < f[j]}
Subsequences(s) ==
  UNION {{[i \in 1..n |-> s[f[i]]] : f \in Increasing(n, Len(s))} :
           n \in 0..Len(s)}

Init == cap \in Caps /\ queue = <<>> /\ out = None

Push(e) ==
  IF cap > 0 /\ Len(queue) >= cap
  THEN queue' = Append(Tail(queue), e) /\ out' = Head(queue)
  ELSE queue' = Append(queue, e) /\ out' = None

Pop ==
  IF queue = <<>> THEN out' = None /\ UNCHANGED queue
  ELSE queue' = Tail(queue) /\ out' = Head(queue)

Retain(s) == queue' = s /\ out' = None

Next ==
  /\ \/ \E e \in Entries : Push(e)
     \/ Pop
     \/ \E s \in Subsequences(queue) : Retain(s)
  /\ UNCHANGED cap

Spec == Init /\ [][Next]_<<cap, queue, out>>

=============================================================================
