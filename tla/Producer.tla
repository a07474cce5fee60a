------------------------------ MODULE Producer ------------------------------
(***************************************************************************)
(* The producing client (pkg/transport/client.go: BufferedProducer and     *)
(* Client.ProduceBatch) and the handler of its requests (server.go:        *)
(* produceBatch; broker.go: PublishBatch).                                 *)
(*                                                                         *)
(* A thread is one call: Send of a message, an explicit Flush, Close, or   *)
(* the function of a linger timer that went off.  A call works on the      *)
(* buffer in one section under p.mu and sends what it took out of the      *)
(* buffer after the unlock, so batches of several calls are on their way   *)
(* at once.  The server splits a batch over the partitions and appends the *)
(* parts concurrently; some may be throttled or fail.  The client retries  *)
(* a batch of which everything failed for lack of resources.               *)
(***************************************************************************)
EXTENDS Integers, Sequences, FiniteSets, FiniteSetsExt, Functions

CONSTANTS
  Msgs,            \* messages, each with one Send call
  Size,            \* Size[m]: bytes of key and value
  BatchSize,       \* BufferedProducer.batchSize
  MemoryLimits,    \* what maxMemoryBytes is set to, 0 if not set
  Timers,          \* goroutines that run a timer's function (bounds them)
  Partitions,      \* partitions of the topic
  MaxMessageBytes, \* the broker's limit on a message
  MaxQueued,       \* capacity of the server's request semaphore
  MaxFailures,     \* bound on failed appends and lost answers
  Flush, Close     \* the threads of those two calls

ASSUME SizeAssumption ==
  /\ Size \in [Msgs -> Nat \ {0}]
  /\ BatchSize \in Nat \ {0} /\ MemoryLimits \subseteq Nat
  /\ MaxMessageBytes \in Nat \ {0} /\ MaxQueued \in Nat \ {0}
  /\ MaxFailures \in Nat

(* Every call has a goroutine of its own.                                  *)
ASSUME ThreadsAssumption ==
  /\ Msgs \cap Timers = {} /\ Flush # Close
  /\ Flush \notin Msgs \cup Timers /\ Close \notin Msgs \cup Timers

produceMaxRetries == 3
Threads == Msgs \cup Timers \cup {Flush, Close}

VARIABLES
  maxMemory,       \* BufferedProducer.maxMemoryBytes, which never changes
  buf,             \* BufferedProducer.buf
  bufBytes,        \* BufferedProducer.bufBytes
  timer,           \* BufferedProducer.timer: "nil", "running", or "fired"
  asyncErr,        \* an error of a timer's flush waits to be reported
  closed,          \* BufferedProducer.closed; bgCtx is cancelled with it
  call,            \* each thread: where it is and what it sends
  work,            \* the server's work for a thread's request: the groups of
                   \* the batch, one per partition, yet to be appended, and
                   \* the messages that were throttled or failed, by index
  copies,          \* how often each message is in the logs
  kept,            \* history: appends that failed but left m in the log
  failures

serverVars == <<work, copies, kept, failures>>
vars == <<maxMemory, buf, bufBytes, timer, asyncErr, closed, call, serverVars>>

Idle == [at |-> "idle", batch |-> <<>>, attempt |-> 0, again |-> FALSE]
NoWork == [todo |-> {}, throttled |-> {}, failed |-> {}]

Init ==
  /\ maxMemory \in MemoryLimits
  /\ buf = <<>> /\ bufBytes = 0 /\ timer = "nil" /\ asyncErr = FALSE /\ closed = FALSE
  /\ call = [t \in Threads |-> Idle]
  /\ work = [t \in Threads |-> NoWork]
  /\ copies = [m \in Msgs |-> 0] /\ kept = [m \in Msgs |-> 0]
  /\ failures = 0

-----------------------------------------------------------------------------
(* BufferedProducer                                                        *)

Return(t) == call' = [call EXCEPT ![t] = [Idle EXCEPT !.at = "returned"]]
SendBatch(t, b, again) ==
  call' = [call EXCEPT ![t] =
             [at |-> "sending", batch |-> b, attempt |-> 0, again |-> again]]

(* Mutant: the pointer to the stopped timer stays.                         *)
stopTimerLocked_Kept == timer' = IF timer = "running" THEN "fired" ELSE timer

(* A function that has started already is not stopped.                     *)
stopTimerLocked == timer' = "nil"

(* Mutant: the new message is not counted.                                 *)
NoRoom_Before(m) == maxMemory > 0 /\ bufBytes > maxMemory /\ buf # <<>>

NoRoom(m) == maxMemory > 0 /\ bufBytes + Size[m] > maxMemory /\ buf # <<>>

(* The buffer is full with m.                                              *)
Full(m) == Len(buf) + 1 >= BatchSize \/ (maxMemory > 0 /\ bufBytes + Size[m] >= maxMemory)

(* Send in the order of its tests: closed, or an error left by a timer,    *)
(* which is reported once; no room, so that the buffer is sent first and   *)
(* Send called again; a message that never fits; a full batch; or a        *)
(* message that is kept, with a timer running.                             *)
Sendable(m) == call[m].at \in {"idle", "again"}
Accepting(m) == Sendable(m) /\ ~closed /\ ~asyncErr

SendRefused(m) ==
  /\ Sendable(m)
  /\ closed \/ asyncErr
  /\ asyncErr' = (closed /\ asyncErr)
  /\ Return(m)
  /\ UNCHANGED <<maxMemory, buf, bufBytes, timer, closed, serverVars>>

SendNoRoom(m) ==
  /\ Accepting(m) /\ NoRoom(m)
  /\ SendBatch(m, buf, TRUE)
  /\ buf' = <<>> /\ bufBytes' = 0 /\ stopTimerLocked
  /\ UNCHANGED <<maxMemory, asyncErr, closed, serverVars>>

SendTooLarge(m) ==
  /\ Accepting(m) /\ ~NoRoom(m)
  /\ maxMemory > 0 /\ Size[m] > maxMemory
  /\ Return(m)
  /\ UNCHANGED <<maxMemory, buf, bufBytes, timer, asyncErr, closed, serverVars>>

SendFull(m) ==
  /\ Accepting(m) /\ ~NoRoom(m) /\ (maxMemory = 0 \/ Size[m] <= maxMemory)
  /\ Full(m)
  /\ SendBatch(m, Append(buf, m), FALSE)
  /\ buf' = <<>> /\ bufBytes' = 0 /\ stopTimerLocked
  /\ UNCHANGED <<maxMemory, asyncErr, closed, serverVars>>

SendKeeps(m) ==
  /\ Accepting(m) /\ ~NoRoom(m) /\ (maxMemory = 0 \/ Size[m] <= maxMemory)
  /\ ~Full(m)
  /\ buf' = Append(buf, m) /\ bufBytes' = bufBytes + Size[m]
  /\ timer' = IF timer = "nil" THEN "running" ELSE timer
  /\ Return(m)
  /\ UNCHANGED <<maxMemory, asyncErr, closed, serverVars>>

Send(m) ==
  SendRefused(m) \/ SendNoRoom(m) \/ SendTooLarge(m) \/ SendFull(m) \/ SendKeeps(m)

(* The linger time is over: flushFromTimer runs in its own goroutine.      *)
TimerFires(t) ==
  /\ timer = "running" /\ call[t].at = "idle"
  /\ timer' = "fired"
  /\ call' = [call EXCEPT ![t].at = "flush"]
  /\ UNCHANGED <<maxMemory, buf, bufBytes, asyncErr, closed, serverVars>>

(* Mutant: the buffer is sent and kept.                                    *)
FlushBuffer_Keeps(t) ==
  /\ call[t].at = IF t = Flush THEN "idle" ELSE "flush"
  /\ buf # <<>>
  /\ SendBatch(t, buf, FALSE)
  /\ stopTimerLocked
  /\ UNCHANGED <<maxMemory, buf, bufBytes, asyncErr, closed, serverVars>>

(* Flush, called by the application or by a timer.                         *)
FlushBuffer(t) ==
  /\ call[t].at = IF t = Flush THEN "idle" ELSE "flush"
  /\ IF buf = <<>>
     THEN /\ IF t = Flush THEN Return(t) ELSE call' = [call EXCEPT ![t] = Idle]
          /\ UNCHANGED <<buf, bufBytes, timer>>
     ELSE /\ SendBatch(t, buf, FALSE)
          /\ buf' = <<>> /\ bufBytes' = 0 /\ stopTimerLocked
  /\ UNCHANGED <<maxMemory, asyncErr, closed, serverVars>>

CloseProducer ==
  /\ call[Close].at = "idle"
  /\ closed' = TRUE
  /\ IF buf = <<>> THEN Return(Close) ELSE SendBatch(Close, buf, FALSE)
  /\ buf' = <<>> /\ bufBytes' = 0 /\ stopTimerLocked
  /\ UNCHANGED <<maxMemory, asyncErr, serverVars>>

-----------------------------------------------------------------------------
(* Client.ProduceBatch returns                                             *)

(* A timer's error is kept for the next Send, the first one only; any      *)
(* other call returns it.                                                  *)
EndSend(t, ok) ==
  /\ asyncErr' = (asyncErr \/ (t \in Timers /\ ~ok))
  /\ call' = [call EXCEPT ![t] =
       IF t \in Timers THEN Idle
       ELSE [Idle EXCEPT !.at = IF ok /\ call[t].again THEN "again" ELSE "returned"]]

(* Mutant: any error is worth another attempt.                             *)
Retryable_Any(code) == TRUE
Retryable(code) == code = "ResourceExhausted"

(* One turn of the retry loop ends in an error.                            *)
AttemptFails(t, code) ==
  IF Retryable(code) /\ call[t].attempt + 1 < produceMaxRetries
  THEN /\ call' = [call EXCEPT ![t].at = "sending", ![t].attempt = @ + 1]
       /\ UNCHANGED asyncErr
  ELSE EndSend(t, FALSE)

(* Close cancels the context of the timers' calls.                         *)
Cancelled(t) ==
  /\ t \in Timers /\ closed /\ call[t].at = "sending"
  /\ EndSend(t, FALSE)
  /\ UNCHANGED <<maxMemory, buf, bufBytes, timer, closed, serverVars>>

-----------------------------------------------------------------------------
(* The server                                                              *)

Serving == {t \in Threads : call[t].at = "serving"}

(* semaphoreInterceptor turns the request away.                            *)
Overloaded(t) ==
  /\ call[t].at = "sending"
  /\ Cardinality(Serving) >= MaxQueued
  /\ AttemptFails(t, "ResourceExhausted")
  /\ UNCHANGED <<maxMemory, buf, bufBytes, timer, closed, serverVars>>

(* PublishBatch up to the groups, one message after the other: one that is *)
(* too large fails, the balancer picks a partition for any other, and one  *)
(* whose partition is under backpressure just then is throttled.           *)
Serve(t) ==
  LET b == call[t].batch
      large == {i \in DOMAIN b : Size[b[i]] > MaxMessageBytes}
  IN
  /\ call[t].at = "sending"
  /\ Cardinality(Serving) < MaxQueued
  /\ \E hot \in SUBSET (DOMAIN b \ large) :
     \E to \in [DOMAIN b \ (large \cup hot) -> Partitions] :
       work' = [work EXCEPT ![t] =
                  [todo |-> {{i \in DOMAIN to : to[i] = p} : p \in Range(to)},
                   throttled |-> hot, failed |-> large]]
  /\ call' = [call EXCEPT ![t].at = "serving"]
  /\ UNCHANGED <<maxMemory, buf, bufBytes, timer, asyncErr, closed, copies, kept, failures>>

(* One more for each message of group I of t's batch.                      *)
Counted(f, t, I) ==
  LET ms == {call[t].batch[i] : i \in I} IN
  [m \in Msgs |-> f[m] + IF m \in ms THEN 1 ELSE 0]

AppendGroup(t, I) ==
  /\ call[t].at = "serving"
  /\ copies' = Counted(copies, t, I)
  /\ work' = [work EXCEPT ![t].todo = @ \ {I}]
  /\ UNCHANGED <<maxMemory, buf, bufBytes, timer, asyncErr, closed, call, kept, failures>>

(* AppendBatch fails, before its records are written or after.             *)
AppendGroupFails(t, I) ==
  /\ call[t].at = "serving"
  /\ failures < MaxFailures /\ failures' = failures + 1
  /\ work' = [work EXCEPT ![t].todo = @ \ {I}, ![t].failed = @ \cup I]
  /\ \/ UNCHANGED <<copies, kept>>
     \/ /\ copies' = Counted(copies, t, I)
        /\ kept' = Counted(kept, t, I)
  /\ UNCHANGED <<maxMemory, buf, bufBytes, timer, asyncErr, closed, call>>

allFailed(t) == work[t].throttled \cup work[t].failed = DOMAIN call[t].batch

(* produceBatch answers.  The error of the first message decides the code  *)
(* when all failed; otherwise the request is a success, whatever failed.   *)
Respond(t) ==
  LET w == work[t] IN
  /\ call[t].at = "serving"
  /\ w.todo = {}
  /\ IF allFailed(t)
     THEN AttemptFails(t, IF Min(w.throttled \cup w.failed) \in w.throttled
                          THEN "ResourceExhausted" ELSE "Unknown")
     ELSE EndSend(t, TRUE)
  /\ work' = [work EXCEPT ![t] = NoWork]
  /\ UNCHANGED <<maxMemory, buf, bufBytes, timer, closed, copies, kept, failures>>

(* The answer does not arrive: the connection breaks, or a timer's call is *)
(* cancelled by Close while the server is at work.  The client may notice  *)
(* before the server is done, which makes no difference to either: it does *)
(* not try again.                                                          *)
AnswerLost(t) ==
  /\ call[t].at = "serving"
  /\ work[t].todo = {}
  /\ failures < MaxFailures \/ (t \in Timers /\ closed)
  /\ failures' = Min({MaxFailures, failures + 1})
  /\ AttemptFails(t, "Unavailable")
  /\ work' = [work EXCEPT ![t] = NoWork]
  /\ UNCHANGED <<maxMemory, buf, bufBytes, timer, closed, copies, kept>>

-----------------------------------------------------------------------------
Progress(t) ==
  \/ t \in Timers \cup {Flush} /\ FlushBuffer(t)
  \/ Overloaded(t) \/ Serve(t) \/ Respond(t)
  \/ \E I \in work[t].todo : AppendGroup(t, I)
  \/ t \in Msgs /\ call[t].at = "again" /\ Send(t)

Next ==
  \/ \E m \in Msgs : Send(m)
  \/ \E t \in Timers : TimerFires(t) \/ Cancelled(t)
  \/ CloseProducer
  \/ \E t \in Threads : Progress(t) \/ AnswerLost(t)
  \/ \E t \in Threads : \E I \in work[t].todo : AppendGroupFails(t, I)

(* Goroutines that can go on do, and the runtime fires a timer that is due.*)
Spec ==
  /\ Init /\ [][Next]_vars
  /\ \A t \in Threads : WF_vars(Progress(t))
  /\ WF_vars(\E t \in Timers : TimerFires(t))

-----------------------------------------------------------------------------
(* Properties                                                              *)

(* Retries do not duplicate: a message is in the log at most once, and     *)
(* once more for every append that was reported as failed although its     *)
(* records had been written.  ProduceBatch retries only what failed as a   *)
(* whole for lack of resources.                                            *)
NoDuplicates == \A m \in Msgs : copies[m] <= 1 + kept[m]

(* No message is in two hands: while the buffer is handed over to a call   *)
(* and refilled by others, a message is in the buffer or in one batch on   *)
(* its way, never in both or in two.                                       *)
OneOwner ==
  /\ \A t \in Threads : Range(call[t].batch) \cap Range(buf) = {}
  /\ \A t, u \in Threads : t # u => Range(call[t].batch) \cap Range(call[u].batch) = {}

(* The bytes of a batch.                                                   *)
Bytes(b) ==
  LET sum[i \in 0..Len(b)] == IF i = 0 THEN 0 ELSE sum[i - 1] + Size[b[i]]
  IN  sum[Len(b)]

(* No batch that is sent exceeds batchSize or maxMemoryBytes, although     *)
(* Send looks at the buffer again after it was flushed for lack of room    *)
(* and refilled by others; and nothing is buffered after Close.            *)
BatchesBounded ==
  /\ \A t \in Threads :
       /\ Len(call[t].batch) <= BatchSize
       /\ maxMemory > 0 => Bytes(call[t].batch) <= maxMemory
  /\ closed => buf = <<>>

(* A buffered message does not stay behind: with a linger time it leaves   *)
(* the buffer although no further Send is made, and every call that has    *)
(* begun to send returns.                                                  *)
BufferedIsSent ==
  /\ \A m \in Msgs : []<>(m \notin Range(buf))
  /\ \A t \in Threads : []<>(call[t].at \in {"idle", "returned"})

=============================================================================
