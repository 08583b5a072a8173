-------------------------- MODULE ProcessLifecycle --------------------------
(***************************************************************************)
(* main() and the management socket: the order in which the process is     *)
(* brought down while clients are still being served.  UnixSocketServer    *)
(* has an accept thread and one thread per client; each command is         *)
(* dispatched to TaskManager, here one task and the model it uses.         *)
(*                                                                         *)
(* TaskManager marks a task under its mutex and starts or stops the        *)
(* executor after releasing it.                                            *)
(***************************************************************************)
EXTENDS Integers, Sequences

CONSTANTS
    Clients,      \* management connections
    MaxRequests   \* bound: requests of all clients

\* A connection is none of the other states of the accept thread.
ASSUME ProcAssumption == {"loop", "done"} \cap Clients = {}

VARIABLES
    phase,      \* where main() is
    alive,      \* objects of main() not destroyed yet
    halting,    \* stopAll() has marked the task and must stop its executor
    acceptor,   \* the accept thread: "loop" | "done" | the client it accepted
    srunning,   \* running_ of the server; its socket is open as long
    client,     \* client -> [pc, gen]
    listed,     \* client_threads_
    joining,    \* to_join of stop()
    requests,   \* requests so far
    task,       \* the task exists: its generation, 0 if not
    gens,       \* generations so far
    marked,     \* the task's state is Running
    live,       \* its executor runs
    loaded      \* the model is in the registry

taskVars == <<task, gens, marked, live, loaded>>
srvVars  == <<acceptor, srunning, client, listed, joining, requests>>
procVars == <<phase, alive, halting, srvVars, taskVars>>

\* Objects in the order in which main() destroys them when it returns.
Objects == <<"server", "tasks", "gc", "archiver", "publishers">>

ProcInit ==
    /\ phase = "serve" /\ alive = {Objects[i] : i \in DOMAIN Objects} /\ halting = FALSE
    /\ acceptor = "loop" /\ srunning = TRUE
    /\ client = [c \in Clients |-> [pc |-> "none", gen |-> 0]]
    /\ listed = {} /\ joining = {} /\ requests = 0
    /\ task = 1 /\ gens = 1 /\ marked = TRUE /\ live = TRUE /\ loaded = TRUE

-----------------------------------------------------------------------------
(* The accept thread.                                                      *)

Accept(c) ==
    /\ acceptor = "loop" /\ srunning /\ client[c].pc = "none"
    /\ acceptor' = c
    /\ client' = [client EXCEPT ![c].pc = "accepted"]
    /\ UNCHANGED <<phase, alive, halting, srunning, listed, joining, requests, taskVars>>

\* The client gets its thread, which is listed under the mutex.
Spawn(c) ==
    /\ acceptor = c
    /\ acceptor' = "loop"
    /\ client' = [client EXCEPT ![c].pc = "recv"]
    /\ listed' = listed \cup {c}
    /\ UNCHANGED <<phase, alive, halting, srunning, joining, requests, taskVars>>

\* running_ is down or accept fails on the closed socket.
AcceptorEnds ==
    /\ acceptor = "loop" /\ ~srunning
    /\ acceptor' = "done"
    /\ UNCHANGED <<phase, alive, halting, srunning, client, listed, joining, requests, taskVars>>

-----------------------------------------------------------------------------
(* handleClient and dispatch.                                              *)

procRest == <<phase, alive, halting, acceptor, srunning, listed, joining>>

\* A request has been read; the thread goes on at pc.
Receive(c, pc) ==
    /\ client[c].pc = "recv" /\ requests < MaxRequests
    /\ requests' = requests + 1
    /\ client' = [client EXCEPT ![c] = [pc |-> pc, gen |-> task]]
    /\ UNCHANGED procRest

\* The thread goes on at pc after a step of a request.
Continue(c, from, pc) ==
    /\ client[c].pc = from
    /\ client' = [client EXCEPT ![c].pc = pc]
    /\ UNCHANGED <<procRest, requests>>

\* health, metrics, list_*, and requests that are refused as they stand.
Query(c) == Receive(c, "reply") /\ UNCHANGED taskVars

\* start_task: marked under the mutex, started outside it.
MarkStart(c) ==
    /\ Receive(c, IF task # 0 /\ ~marked THEN "start" ELSE "reply")
    /\ marked' = (marked \/ task # 0)
    /\ UNCHANGED <<task, gens, live, loaded>>

\* The executor of an entry erased meanwhile dies with the last reference.
ExecutorStart(c) ==
    /\ Continue(c, "start", "reply")
    /\ live' = (live \/ client[c].gen = task)
    /\ UNCHANGED <<task, gens, marked, loaded>>

\* stop_task.
MarkStop(c) ==
    /\ Receive(c, IF marked THEN "stop" ELSE "reply")
    /\ marked' = FALSE
    /\ UNCHANGED <<task, gens, live, loaded>>

ExecutorStop(c) ==
    /\ Continue(c, "stop", "reply")
    /\ live' = (live /\ client[c].gen # task)
    /\ UNCHANGED <<task, gens, marked, loaded>>

\* add_task, with or without autostart.
AddTask(c, autostart) ==
    /\ Receive(c, "reply")
    /\ task = 0
    /\ task' = gens + 1 /\ gens' = gens + 1
    /\ marked' = autostart /\ live' = autostart
    /\ UNCHANGED loaded

\* remove_task: looks for the task in a listing, then asks for its removal,
\* which stops it under the mutex.
ListTask(c) == Receive(c, IF task # 0 THEN "remove" ELSE "reply") /\ UNCHANGED taskVars

RemoveTask(c) ==
    /\ Continue(c, "remove", "reply")
    /\ task' = 0 /\ marked' = FALSE
    /\ live' = FALSE
    /\ UNCHANGED <<gens, loaded>>

\* load_model, load_from_repository; unload_model lists first and is refused
\* while a task marked running uses the model.
LoadModel(c) ==
    /\ Receive(c, "reply")
    /\ loaded' = TRUE
    /\ UNCHANGED <<task, gens, marked, live>>

ListModel(c) == Receive(c, IF loaded THEN "unload" ELSE "reply") /\ UNCHANGED taskVars

UnloadModel(c) ==
    /\ Continue(c, "unload", "reply")
    /\ loaded' = (loaded /\ marked)
    /\ UNCHANGED <<task, gens, marked, live>>

\* The reply is sent and the thread waits for the next line; when the client
\* hangs up the thread ends.
Send(c) == Continue(c, "reply", "recv") /\ UNCHANGED taskVars
Hangup(c) == Continue(c, "recv", "gone") /\ UNCHANGED taskVars

-----------------------------------------------------------------------------
(* main() after the signal.                                                *)

\* TaskManager::stopAll, under its mutex and after it.
StopAllMarks ==
    /\ phase = "serve"
    /\ phase' = "halt" /\ halting' = marked /\ marked' = FALSE
    /\ UNCHANGED <<alive, srvVars, task, gens, live, loaded>>

StopAllStops ==
    /\ phase = "halt"
    /\ phase' = "gc" /\ live' = (live /\ ~halting)
    /\ UNCHANGED <<alive, halting, srvVars, task, gens, marked, loaded>>

\* frame_gc.stop(), then UnixSocketServer::stop: the flag and the socket.
CloseServer ==
    /\ phase = "gc"
    /\ phase' = "joinAccept" /\ srunning' = FALSE
    /\ UNCHANGED <<alive, halting, acceptor, client, listed, joining, requests, taskVars>>

\* Mutant: the client threads are collected while the accept thread still runs.
CollectEarly ==
    /\ phase = "joinAccept"
    /\ phase' = "joinClients" /\ joining' = listed /\ listed' = {}
    /\ UNCHANGED <<alive, halting, acceptor, srunning, client, requests, taskVars>>

\* The accept thread is joined, then the client threads are collected.
CollectClients ==
    /\ phase = "joinAccept" /\ acceptor = "done"
    /\ phase' = "joinClients" /\ joining' = listed /\ listed' = {}
    /\ UNCHANGED <<alive, halting, acceptor, srunning, client, requests, taskVars>>

\* Each client thread is joined, then the publishers are flushed.
JoinClients ==
    /\ phase = "joinClients" /\ \A c \in joining : client[c].pc = "gone"
    /\ phase' = "return"
    /\ UNCHANGED <<alive, halting, srvVars, taskVars>>

\* The object main() destroys next.
NextToDestroy ==
    CHOOSE o \in alive : \E i \in DOMAIN Objects :
        Objects[i] = o /\ \A j \in 1..(i - 1) : Objects[j] \notin alive

\* Destroying the TaskManager destroys, and so stops, the executors.
Destroy ==
    LET o == NextToDestroy IN
    /\ phase = "return" /\ alive # {}
    /\ alive' = alive \ {o}
    /\ live' = (live /\ o # "tasks")
    /\ UNCHANGED <<phase, halting, srvVars, task, gens, marked, loaded>>

ProcNext ==
    \/ \E c \in Clients :
         \/ Accept(c) \/ Spawn(c) \/ Query(c) \/ MarkStart(c) \/ ExecutorStart(c)
         \/ MarkStop(c) \/ ExecutorStop(c) \/ \E a \in BOOLEAN : AddTask(c, a)
         \/ ListTask(c) \/ RemoveTask(c) \/ LoadModel(c) \/ ListModel(c) \/ UnloadModel(c)
         \/ Send(c) \/ Hangup(c)
    \/ AcceptorEnds
    \/ StopAllMarks \/ StopAllStops \/ CloseServer \/ CollectClients \/ JoinClients \/ Destroy

-----------------------------------------------------------------------------
\* Nothing is used after main() has destroyed it: no thread of the server runs
\* on, not one accepted while stop() was running, and a pipeline that runs has
\* its archiver and its publishers, also one that a client started after
\* stopAll() had passed.
NothingUsedAfterDestruction ==
    /\ "server" \notin alive =>
         acceptor = "done" /\ \A c \in Clients : client[c].pc \in {"none", "gone"}
    /\ live => {"archiver", "publishers"} \subseteq alive
=============================================================================
