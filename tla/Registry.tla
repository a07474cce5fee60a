------------------------------ MODULE Registry ------------------------------
(* The broker's registry of topics and schedulers under concurrent requests,*)
(* and the order in which BrokerApp starts and stops everything.            *)
(*   topics, schedulers   the two concurrent maps of Broker                 *)
(*   opened, running      Topic objects with open logs, live schedulers     *)
(*   files                the Topic objects whose log files are on disk     *)
(* A call makes at most one Topic and one scheduler, so both carry its name.*)
EXTENDS FiniteSets, Integers

CONSTANTS
    Names,              \* topic names
    Calls,              \* requests and in-process calls, each made once
    MaxQueuedRequests   \* Config.MaxQueuedRequests, per server

VARIABLES topics, opened, files, schedulers, running,
          replaced,     \* history: schedulers overwritten in the map
          removed,      \* history: Topics whose files an older deletion took
          up,           \* the servers that have been started
          calls, app, sweep, workers, timedOut

registryVars == <<topics, opened, files, schedulers, running, replaced,
                  removed, up, calls, app, sweep, workers, timedOut>>

Absent == "none"

(* A scheduler that app.New was given is told from one a call stores.       *)
ASSUME NamesAssumption == Names \cap Calls = {} /\ Absent \notin Names \cup Calls

Idle == [op |-> Absent, name |-> Absent, via |-> Absent, pc |-> "idle",
         topic |-> Absent, sched |-> Absent]

(* The goroutines that Start launches and Stop must end.                    *)
Workers == {"metrics", "retention", "sessions", "balancer", "optimizer",
            "predictor", "offsets"}

Mapped(m) == {m[n] : n \in Names} \ {Absent}
Active(via) == {c \in Calls : calls[c].via = via /\ calls[c].pc # "done"}

(* Schedulers given to WithScheduler are stored by app.New, before any      *)
(* topic exists; a preset scheduler carries the topic's name.               *)
RegistryInit ==
    /\ topics = [n \in Names |-> Absent]
    /\ schedulers \in [Names -> Names \cup {Absent}]
    /\ \A n \in Names : schedulers[n] \in {n, Absent}
    /\ running = Mapped(schedulers)
    /\ opened = {} /\ replaced = {} /\ removed = {}
    /\ files = [n \in Names |-> {}]
    /\ calls = [c \in Calls |-> Idle]
    /\ app = "new" /\ up = {}
    /\ workers = {"balancer", "offsets"}
    /\ sweep = {}
    /\ timedOut = FALSE

registryMaps == <<topics, opened, files, schedulers, running, replaced, removed>>
stopVars == <<up, app, sweep, workers, timedOut>>

(* -------------------------------- requests ----------------------------- *)

(* A server takes requests from the moment it listens, while Start is still *)
(* busy with the others, or after it has failed; Stop closes its listener.  *)
Serving(via) ==
    IF via = "local" THEN app = "serving" ELSE via \in up

FirstStep(op) ==
    CASE op = "create" -> "open" [] op = "delete" -> "unregister" [] op = "set" -> "take"

(* Both servers answer "overloaded" at once when their semaphore is full.   *)
Overloaded(via) == via # "local" /\ Cardinality(Active(via)) >= MaxQueuedRequests

Request(c) ==
    \E op \in {"create", "delete", "set"}, via \in {"http", "grpc", "local"}, n \in Names :
        /\ calls[c].pc = "idle"
        /\ Serving(via)
        /\ (op = "set") <=> (via = "local")
        /\ calls' = [calls EXCEPT ![c] =
              [op |-> op, name |-> n, via |-> via, topic |-> Absent, sched |-> Absent,
               pc |-> IF Overloaded(via) THEN "done" ELSE FirstStep(op)]]
        /\ UNCHANGED <<registryMaps, stopVars>>

(* The call moves on, with t the Topic and s the scheduler it holds.        *)
MoveOn(c, pc, t, s) ==
    calls' = [calls EXCEPT ![c].pc = pc, ![c].topic = t, ![c].sched = s]
Return(c) == MoveOn(c, "done", Absent, Absent)

(* NewTopic opens the logs of every partition, or closes those it opened.   *)
CreateOpen(c) ==
    /\ calls[c].pc = "open"
    /\ \/ /\ opened' = opened \cup {c}
          /\ files' = [files EXCEPT ![calls[c].name] = @ \cup {c}]
          /\ MoveOn(c, "register", c, Absent)
       \/ Return(c) /\ UNCHANGED <<opened, files>>
    /\ UNCHANGED <<topics, schedulers, running, replaced, removed, stopVars>>

(* Mutants: the loser of the race for the name leaves its logs open, or     *)
(* removes the directory as if it were its own.                             *)
CloseLoser_Leaks(c) == UNCHANGED <<opened, files>>

CloseLoser_Cleans(c) ==
    /\ opened' = opened \ {c}
    /\ files' = [files EXCEPT ![calls[c].name] = {}]

CloseLoser(c) ==
    /\ opened' = opened \ {c}
    /\ files' = [files EXCEPT ![calls[c].name] = @ \ {c}]

(* LoadOrStore decides who gets the name; the loser closes its Topic.       *)
CreateRegister(c) ==
    LET n == calls[c].name IN
    /\ calls[c].pc = "register"
    /\ \/ /\ topics[n] = Absent
          /\ topics' = [topics EXCEPT ![n] = c]
          /\ MoveOn(c, "schedule", Absent, Absent)
          /\ UNCHANGED <<opened, files>>
       \/ /\ topics[n] # Absent
          /\ CloseLoser(c)
          /\ Return(c)
          /\ UNCHANGED topics
    /\ UNCHANGED <<schedulers, running, replaced, removed, stopVars>>

(* schedulers.Store: whatever was in the map is overwritten, not stopped.   *)
StoreScheduler(c) ==
    LET n == calls[c].name IN
    /\ calls[c].pc = "schedule"
    /\ schedulers' = [schedulers EXCEPT ![n] = c]
    /\ running' = running \cup {c}
    /\ replaced' = replaced \cup ({schedulers[n]} \ {Absent})
    /\ Return(c)
    /\ UNCHANGED <<topics, opened, files, removed, stopVars>>

DeleteUnregister(c) ==
    LET n == calls[c].name IN
    /\ calls[c].pc = "unregister"
    /\ topics' = [topics EXCEPT ![n] = Absent]
    /\ IF topics[n] = Absent THEN Return(c) ELSE MoveOn(c, "take", topics[n], Absent)
    /\ UNCHANGED <<opened, files, schedulers, running, replaced, removed, stopVars>>

(* stopScheduler: LoadAndDelete, then Stop of the scheduler that was there. *)
TakeScheduler(c) ==
    LET n == calls[c].name IN
    /\ calls[c].pc = "take"
    /\ schedulers' = [schedulers EXCEPT ![n] = Absent]
    /\ MoveOn(c, "stop", calls[c].topic, schedulers[n])
    /\ UNCHANGED <<topics, opened, files, running, replaced, removed, stopVars>>

StopTaken(c) ==
    /\ calls[c].pc = "stop"
    /\ running' = running \ {calls[c].sched}
    /\ MoveOn(c, IF calls[c].op = "set" THEN "schedule" ELSE "close", calls[c].topic, Absent)
    /\ UNCHANGED <<topics, opened, files, schedulers, replaced, removed, stopVars>>

(* Topic.Close closes every partition; an error ends DeleteTopic here and   *)
(* leaves the directory.                                                    *)
DeleteClose(c) ==
    /\ calls[c].pc = "close"
    /\ opened' = opened \ {calls[c].topic}
    /\ Return(c) \/ MoveOn(c, "remove", calls[c].topic, Absent)
    /\ UNCHANGED <<topics, files, schedulers, running, replaced, removed, stopVars>>

(* RemoveAll takes whatever lies under the name, a newer Topic's files too. *)
DeleteRemove(c) ==
    LET n == calls[c].name IN
    /\ calls[c].pc = "remove"
    /\ \/ /\ files' = [files EXCEPT ![n] = {}]
          /\ removed' = removed \cup (files[n] \ {calls[c].topic})
       \/ UNCHANGED <<files, removed>>
    /\ Return(c)
    /\ UNCHANGED <<topics, opened, schedulers, running, replaced, stopVars>>

CallStep(c) ==
    \/ Request(c)
    \/ CreateOpen(c) \/ CreateRegister(c) \/ StoreScheduler(c)
    \/ DeleteUnregister(c) \/ TakeScheduler(c) \/ StopTaken(c)
    \/ DeleteClose(c) \/ DeleteRemove(c)

(* ---------------------------- start and stop --------------------------- *)

(* Broker loops, predictor and optimizer first, then the listeners.         *)
Start ==
    /\ app = "new"
    /\ workers' = Workers
    /\ app' = "starting"
    /\ UNCHANGED <<registryMaps, up, calls, sweep, timedOut>>

(* A server that cannot bind its address ends Start with what runs so far   *)
(* left running; with the last one the app is ready.                        *)
Listen(server, before) ==
    /\ app = "starting" /\ up = before
    /\ \/ /\ up' = up \cup {server}
          /\ app' = IF server = "admin" THEN "serving" ELSE app
       \/ app' = "failed" /\ UNCHANGED up
    /\ UNCHANGED <<registryMaps, calls, sweep, workers, timedOut>>

StartGRPC == Listen("grpc", {})
StartHTTP == Listen("http", {"grpc"})
StartAdmin == Listen("admin", {"grpc", "http"})

(* A failed Start is fatal for the broker's process.                        *)
Fatal ==
    /\ app = "failed"
    /\ app' = "exited" /\ up' = {} /\ workers' = {}
    /\ opened' = {} /\ running' = {}
    /\ calls' = [c \in Calls |-> [Idle EXCEPT !.pc = "done"]]
    /\ schedulers' = [n \in Names |-> Absent] /\ topics' = [n \in Names |-> Absent]
    /\ UNCHANGED <<files, replaced, removed, sweep, timedOut>>

(* Stop is called by the owner of the app, after its own in-process calls;  *)
(* the admin server goes first and has no request that changes anything.    *)
StopBegins ==
    /\ app = "serving"
    /\ Active("local") = {}
    /\ app' = "admin"
    /\ UNCHANGED <<registryMaps, up, calls, sweep, workers, timedOut>>

StopAdmin ==
    /\ app = "admin"
    /\ up' = up \ {"admin", "http"}
    /\ app' = "http"
    /\ UNCHANGED <<registryMaps, calls, sweep, workers, timedOut>>

(* Shutdown has closed the listener and waits for the requests it has       *)
(* accepted, but for 30 s at most; then GracefulStop closes its listener.   *)
StopHTTP ==
    /\ app = "http"
    /\ timedOut' = (Active("http") # {})
    /\ up' = up \ {"grpc"}
    /\ app' = "grpc"
    /\ UNCHANGED <<registryMaps, calls, sweep, workers>>

(* Mutant: the server is stopped without waiting for its requests.          *)
StopGRPC_Abrupt ==
    /\ app = "grpc"
    /\ app' = "loops"
    /\ UNCHANGED <<registryMaps, up, calls, sweep, workers, timedOut>>

(* GracefulStop waits for every request.                                    *)
StopGRPC ==
    /\ app = "grpc"
    /\ Active("grpc") = {}
    /\ app' = "loops"
    /\ UNCHANGED <<registryMaps, up, calls, sweep, workers, timedOut>>

(* Optimizer, predictor, the three broker loops, then the balancer.         *)
StopLoops ==
    /\ app = "loops"
    /\ workers' = {"offsets"}
    /\ sweep' = Names
    /\ app' = "schedulers"
    /\ UNCHANGED <<registryMaps, up, calls, timedOut>>

StopScheduler(n) ==
    /\ app = "schedulers" /\ n \in sweep
    /\ schedulers' = [schedulers EXCEPT ![n] = Absent]
    /\ running' = running \ {schedulers[n]}
    /\ sweep' = IF sweep = {n} THEN Names ELSE sweep \ {n}
    /\ app' = IF sweep = {n} THEN "topics" ELSE app
    /\ UNCHANGED <<topics, opened, files, replaced, removed, up, calls, workers, timedOut>>

(* The topics stay in the map, closed; the offset store closes last.        *)
StopTopic(n) ==
    /\ app = "topics" /\ n \in sweep
    /\ opened' = opened \ {topics[n]}
    /\ sweep' = sweep \ {n}
    /\ app' = IF sweep = {n} THEN "stopped" ELSE app
    /\ workers' = IF sweep = {n} THEN {} ELSE workers
    /\ UNCHANGED <<topics, files, schedulers, running, replaced, removed, up, calls,
                   timedOut>>

RegistryNext ==
    \/ \E c \in Calls : CallStep(c)
    \/ Start \/ StartGRPC \/ StartHTTP \/ StartAdmin \/ Fatal
    \/ StopBegins \/ StopAdmin \/ StopHTTP \/ StopGRPC \/ StopLoops
    \/ \E n \in Names : StopScheduler(n) \/ StopTopic(n)

RegistrySpec == RegistryInit /\ [][RegistryNext]_registryVars

(* ------------------------------ properties ----------------------------- *)

(* Nothing that runs is out of everybody's reach.  A Topic with open logs is*)
(* the one its name maps to or is held by the call that is opening or       *)
(* deleting it; a live scheduler is mapped, about to be stopped, or was     *)
(* overwritten by a later Store; and the map holds live schedulers only     *)
(* (Broker.CreateTopic, DeleteTopic, SetScheduler, stopScheduler).          *)
NothingOrphaned ==
    /\ \A t \in opened : t \in Mapped(topics) \/ \E c \in Calls : calls[c].topic = t
    /\ \A s \in running : \/ s \in Mapped(schedulers) \cup replaced
                          \/ \E c \in Calls : calls[c].sched = s
    /\ Mapped(schedulers) \subseteq running

(* A registered topic has its log files on disk, except when a DeleteTopic  *)
(* that had unregistered an older topic of that name removed the directory  *)
(* after the new one was opened (os.RemoveAll at the end of DeleteTopic).   *)
RegisteredHasFiles ==
    \A n \in Names : topics[n] # Absent => topics[n] \in files[n] \cup removed

(* When BrokerApp.Stop has returned and the HTTP server had not given up on *)
(* a request, no log is open, no goroutine is left and the only schedulers  *)
(* still running are those a Store had overwritten.                         *)
StopStopsAll ==
    (app = "stopped" /\ ~timedOut) =>
        opened = {} /\ workers = {} /\ running \subseteq replaced

=============================================================================
