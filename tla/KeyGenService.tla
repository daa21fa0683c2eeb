--------------------------- MODULE KeyGenService ----------------------------
(***************************************************************************)
(* The key-gen process and its supervisor: the sequence of fallible steps   *)
(* of run and start, the three tasks (key-event watcher, cursor checkpoint, *)
(* HTTP server) tied together by one cancellation token, the shutdown with  *)
(* its time limit, the exit code, and the restart that resumes from the     *)
(* stored cursor.  What a handled event does is KeyGenProtocol's matter;    *)
(* here it succeeds, fails, or is cut off by the end of the process.        *)
(*                                                                          *)
(* A block holds at most one event of the registry; a ChainCursor is the    *)
(* number of a block.                                                       *)
(***************************************************************************)
EXTENDS Naturals, Sequences, FiniteSetsExt

CONSTANTS
    Null,
    MaxBlock,   \* blocks of the chain
    MaxFaults   \* failures of calls, lost connections, signals

ASSUME ServiceAssumption ==
    /\ MaxBlock \in Nat /\ MaxFaults \in Nat
    /\ Null \notin 0 .. MaxBlock

VARIABLES
    phase,       \* where run is, or the exit code of the process
    step,        \* of start
    token,       \* is the cancellation token cancelled
    watcher,     \* task key_event_watcher
    position,    \* cursor from which it builds its stream
    queue,       \* logs in the stream
    stream,      \* "none", "open", "closed"
    current,     \* the log it handles
    started,     \* StartedServices: the flag of the watcher
    connection,  \* of the websocket provider
    checkpoint,  \* the checkpoint task
    mark,        \* its checkpoint, Null for None
    server,      \* the task of the HTTP server
    cursor,      \* table chain_cursor
    info,        \* table node_information, as the outcome of the checks
    nodeInfo,    \* what an OPRF node on the same database runs with
    height,      \* of the chain
    logs,        \* blocks with an event of the registry
    handled,     \* events that have been handled
    contract,    \* do registry and configuration match
    faults

run_vars == <<phase, step>>
watcherVars == <<watcher, position, queue, stream, current, started>>
checkpointVars == <<checkpoint, mark>>
tables == <<cursor, info>>
chainVars == <<height, logs>>
vars == <<run_vars, token, watcherVars, connection, checkpointVars, server, tables, nodeInfo,
          chainVars, handled, contract, faults>>

Block == 1..MaxBlock
Position == 0..MaxBlock
Checks == {"match", "notRegistered", "otherThreshold", "otherNumPeers"}

StartSteps_informationFirst ==
    <<"postgres", "wallet", "http", "websocket", "balance", "information", "sanity", "groth16">>

StartSteps ==
    <<"postgres", "wallet", "http", "websocket", "balance", "sanity", "information", "groth16">>

Alive == phase \in {"starting", "serving", "stopping"}
Exited == phase \in {"SUCCESS", "FAILURE"}

(* The variables hold what their declarations say; the checkpoint task      *)
(* stores only a block number that it has fetched, and the watcher handles  *)
(* only a log that it has taken from its stream.                            *)
ServiceTypeOK ==
    /\ phase \in {"starting", "serving", "stopping", "SUCCESS", "FAILURE"}
    /\ step \in 1..Len(StartSteps) /\ token \in BOOLEAN
    /\ watcher \in {"none", "spawned", "loaded", "idle", "handling", "ok", "err"}
    /\ position \in Position /\ queue \subseteq Block /\ stream \in {"none", "open", "closed"}
    /\ current \in Block \cup {Null} /\ (watcher = "handling" => current # Null)
    /\ started \in {"unregistered", "pending", "started"}
    /\ connection \in {"none", "up", "down"}
    /\ checkpoint \in {"none", "spawned", "fetching", "waiting", "storing", "done", "panicked"}
    /\ mark \in Position \cup {Null} /\ (checkpoint = "storing" => mark # Null)
    /\ server \in {"none", "binding", "serving", "closing", "ok", "err"}
    /\ cursor \in Position /\ info \in Checks \cup {Null} /\ nodeInfo \in Checks \cup {Null}
    /\ height \in Position /\ logs \subseteq 1..height /\ handled \subseteq logs
    /\ contract \in Checks /\ faults \in 0..MaxFaults

Init ==
    /\ phase = "starting" /\ step = 1 /\ token = FALSE
    /\ watcher = "none" /\ position = 0 /\ queue = {} /\ stream = "none" /\ current = Null
    /\ started = "unregistered" /\ connection = "none"
    /\ checkpoint = "none" /\ mark = Null /\ server = "none"
    /\ cursor = 0 /\ info = Null /\ nodeInfo = Null
    /\ height = 0 /\ logs = {} /\ handled = {}
    /\ contract \in Checks /\ faults = 0

Fault == faults < MaxFaults /\ faults' = faults + 1

-----------------------------------------------------------------------------
(* The start-up. *)

contract_sanity_checks == contract = "match"

StepSucceeds(s) == s = "sanity" => contract_sanity_checks

(* Upserts the one row, if this is the step. *)
store_node_information(s) == info' = IF s = "information" THEN contract ELSE info

Spawn_registersLater ==
    /\ watcher' = "spawned" /\ started' = "unregistered"
    /\ checkpoint' = "spawned" /\ server' = "binding"

(* start registers the watcher with StartedServices before it hands out the *)
(* router.                                                                  *)
Spawn ==
    /\ watcher' = "spawned" /\ started' = "pending"
    /\ checkpoint' = "spawned" /\ server' = "binding"

(* The steps up to the spawned tasks, the last of which is the server of    *)
(* run.  None of them looks at the cancellation token.                      *)
start ==
    /\ phase = "starting"
    /\ LET s == StartSteps[step] IN
       \/ /\ StepSucceeds(s)
          /\ connection' = IF s = "websocket" THEN "up" ELSE connection
          /\ store_node_information(s)
          /\ \/ /\ step < Len(StartSteps) /\ step' = step + 1
                /\ UNCHANGED <<phase, watcher, started, checkpoint, server>>
             \/ /\ step = Len(StartSteps) /\ phase' = "serving" /\ Spawn
                /\ UNCHANGED step
          /\ UNCHANGED faults
       \/ /\ ~ StepSucceeds(s) /\ phase' = "FAILURE"
          /\ UNCHANGED <<step, connection, info, watcher, started, checkpoint, server, faults>>
       \/ /\ Fault /\ phase' = "FAILURE"
          /\ UNCHANGED <<step, connection, info, watcher, started, checkpoint, server>>
    /\ UNCHANGED <<token, position, queue, stream, current, mark, cursor, nodeInfo, chainVars,
                   handled, contract>>

(* SIGTERM or ctrl-c reach the shutdown task, which exists once the         *)
(* database is connected; before that they end the process.                 *)
shutdown_signal ==
    /\ Alive /\ ~ token /\ Fault
    /\ IF phase = "starting" /\ step = 1
       THEN phase' = "FAILURE" /\ UNCHANGED token
       ELSE token' = TRUE /\ UNCHANGED phase
    /\ UNCHANGED <<step, watcherVars, connection, checkpointVars, server, tables, nodeInfo,
                   chainVars, handled, contract>>

-----------------------------------------------------------------------------
(* The key-event watcher. *)

OutsideWatcher ==
    <<run_vars, connection, checkpointVars, server, info, nodeInfo, chainVars, contract>>

EndWatcher_noGuard(r) == watcher' = r /\ UNCHANGED token

(* The task is over and its drop guard cancels the token. *)
EndWatcher(r) == watcher' = r /\ token' = TRUE

load_chain_cursor ==
    /\ Alive /\ watcher = "spawned"
    /\ \/ /\ watcher' = "loaded" /\ position' = cursor /\ UNCHANGED <<token, faults>>
       \/ Fault /\ EndWatcher("err") /\ UNCHANGED position
    /\ UNCHANGED <<OutsideWatcher, queue, stream, current, started, cursor, handled>>

(* The stream subscribes and backfills from the cursor. *)
build_event_stream ==
    /\ Alive /\ watcher = "loaded"
    /\ \/ /\ connection = "up"
          /\ queue' = {b \in logs : b > position} /\ stream' = "open"
          /\ started' = "started" /\ watcher' = "idle"
          /\ UNCHANGED <<token, faults>>
       \/ /\ connection # "up" /\ EndWatcher("err") /\ UNCHANGED <<queue, stream, started, faults>>
       \/ Fault /\ EndWatcher("err") /\ UNCHANGED <<queue, stream, started>>
    /\ UNCHANGED <<OutsideWatcher, position, current, cursor, handled>>

(* One turn of the loop: a log, the end of the stream, an error of it, or   *)
(* the token, in no preferred order.                                        *)
key_event_watcher_task ==
    /\ Alive /\ watcher = "idle"
    /\ \/ /\ queue # {} /\ current' = Min(queue) /\ queue' = queue \ {current'}
          /\ watcher' = "handling" /\ UNCHANGED <<token, faults>>
       \/ /\ queue = {} /\ stream = "closed"
          /\ EndWatcher("ok") /\ UNCHANGED <<queue, current, faults>>
       \/ Fault /\ EndWatcher("err") /\ UNCHANGED <<queue, current>>
       \/ token /\ EndWatcher("ok") /\ UNCHANGED <<queue, current, faults>>
    /\ UNCHANGED <<OutsideWatcher, position, stream, started, cursor, handled>>

StoreChainCursor(p) == cursor' = IF p > cursor THEN p ELSE cursor

(* The handler runs to its end whatever the token says. *)
key_gen_event ==
    /\ Alive /\ watcher = "handling"
    /\ current' = Null
    /\ \/ /\ handled' = handled \cup {current} /\ StoreChainCursor(current)
          /\ watcher' = "idle" /\ UNCHANGED <<token, faults>>
       \/ Fault /\ EndWatcher("err") /\ UNCHANGED <<handled, cursor>>
       \/ /\ Fault /\ handled' = handled \cup {current}
          /\ EndWatcher("err") /\ UNCHANGED cursor
    /\ UNCHANGED <<OutsideWatcher, position, queue, stream, started>>

try_reconnect_silently ==
    /\ Alive /\ connection = "down" /\ connection' = "up"
    /\ UNCHANGED <<run_vars, token, watcherVars, checkpointVars, server, tables, nodeInfo,
                   chainVars, handled, contract, faults>>

(* NoReconnect: the pubsub service gives up and the stream ends after what  *)
(* it has received.                                                         *)
try_reconnect ==
    /\ Alive /\ connection = "down" /\ stream = "open" /\ stream' = "closed"
    /\ UNCHANGED <<run_vars, token, watcher, position, queue, current, started, connection,
                   checkpointVars, server, tables, nodeInfo, chainVars, handled, contract, faults>>

-----------------------------------------------------------------------------
(* The checkpoint task. *)

OutsideCheckpoint ==
    <<run_vars, token, watcherVars, connection, server, info, nodeInfo, chainVars, handled, contract>>

(* An interval of length zero panics in the first line of the task, which   *)
(* holds no drop guard.                                                     *)
FetchCheckpoint ==
    /\ Alive
    /\ \/ /\ checkpoint = "spawned" /\ Fault /\ checkpoint' = "panicked" /\ UNCHANGED mark
       \/ /\ checkpoint = "spawned" /\ checkpoint' = "fetching" /\ UNCHANGED <<mark, faults>>
       \/ /\ checkpoint = "fetching" /\ checkpoint' = "waiting"
          /\ \/ mark' = height /\ UNCHANGED faults
             \/ mark' = Null /\ Fault
    /\ UNCHANGED <<OutsideCheckpoint, cursor>>

(* What the configuration demands of the interval: it is so long that the   *)
(* blocks known at its begin have been handled at its end.                  *)
IntervalIsLong == mark # Null => \A b \in logs : b <= mark => b \in handled

IntervalTick == checkpoint' = IF mark = Null THEN "fetching" ELSE "storing"

(* The tick or the token, in no preferred order. *)
WaitCheckpoint ==
    /\ Alive /\ checkpoint = "waiting"
    /\ \/ IntervalIsLong /\ IntervalTick
       \/ token /\ checkpoint' = "done"
    /\ UNCHANGED <<OutsideCheckpoint, mark, cursor, faults>>

StoreCheckpoint ==
    /\ Alive /\ checkpoint = "storing" /\ checkpoint' = "fetching"
    /\ \/ StoreChainCursor(mark) /\ UNCHANGED faults
       \/ Fault /\ UNCHANGED cursor
    /\ UNCHANGED <<OutsideCheckpoint, mark>>

-----------------------------------------------------------------------------
(* The HTTP server; a graceful shutdown waits for connections without limit. *)
OutsideServer ==
    <<run_vars, watcherVars, connection, checkpointVars, tables, nodeInfo, chainVars, handled, contract>>

EndServer(r) == server' = r /\ token' = TRUE

bind ==
    /\ Alive /\ server = "binding"
    /\ \/ server' = "serving" /\ UNCHANGED <<token, faults>>
       \/ Fault /\ EndServer("err")
    /\ UNCHANGED OutsideServer

graceful_shutdown ==
    /\ Alive
    /\ \/ server = "serving" /\ token /\ server' = "closing" /\ UNCHANGED token
       \/ server = "closing" /\ EndServer("ok")
    /\ UNCHANGED <<OutsideServer, faults>>

-----------------------------------------------------------------------------
(* The end of the process. *)

OutsideRun ==
    <<step, token, watcherVars, connection, checkpointVars, server, tables, nodeInfo, chainVars,
      handled, contract, faults>>

join_outerErrorsOnly ==
    IF watcher \in {"ok", "err"} /\ checkpoint = "done" THEN "ok"
    ELSE IF watcher \in {"ok", "err"} /\ checkpoint = "panicked" THEN "err"
    ELSE "pending"

(* KeyGenTasks::join awaits the watcher, then the checkpoint task unless    *)
(* the watcher failed.                                                      *)
join ==
    IF watcher = "err" \/ (watcher = "ok" /\ checkpoint = "panicked") THEN "err"
    ELSE IF watcher = "ok" /\ checkpoint = "done" THEN "ok"
    ELSE "pending"

AllJoined == server \in {"ok", "err"} /\ join # "pending"

cancelled ==
    /\ phase = "serving" /\ token /\ phase' = "stopping"
    /\ UNCHANGED OutsideRun

Shutdown ==
    /\ phase = "stopping" /\ AllJoined
    /\ phase' = IF server = "ok" /\ join = "ok" THEN "SUCCESS" ELSE "FAILURE"
    /\ UNCHANGED OutsideRun

ShutdownTimeout_none == FALSE /\ UNCHANGED vars

(* max_wait_time_shutdown is over; the tasks are dropped where they are. *)
ShutdownTimeout ==
    /\ phase = "stopping" /\ ~ AllJoined /\ phase' = "FAILURE"
    /\ UNCHANGED OutsideRun

(* The supervisor starts the process again; only the tables are left. *)
Restart ==
    /\ Exited
    /\ phase' = "starting" /\ step' = 1 /\ token' = FALSE
    /\ watcher' = "none" /\ position' = 0 /\ queue' = {} /\ stream' = "none" /\ current' = Null
    /\ started' = "unregistered" /\ connection' = "none"
    /\ checkpoint' = "none" /\ mark' = Null /\ server' = "none"
    /\ UNCHANGED <<tables, nodeInfo, chainVars, handled, contract, faults>>

-----------------------------------------------------------------------------
(* The environment. *)

Mine ==
    /\ height < MaxBlock /\ height' = height + 1
    /\ \/ UNCHANGED <<logs, queue>>
       \/ /\ logs' = logs \cup {height'}
          /\ queue' = IF stream = "open" /\ connection = "up" THEN queue \cup {height'} ELSE queue
    /\ UNCHANGED <<run_vars, token, watcher, position, stream, current, started, connection,
                   checkpointVars, server, tables, nodeInfo, handled, contract, faults>>

Disconnect ==
    /\ Alive /\ connection = "up" /\ Fault /\ connection' = "down"
    /\ UNCHANGED <<run_vars, token, watcherVars, checkpointVars, server, tables, nodeInfo,
                   chainVars, handled, contract>>

(* An OPRF node on this database starts, or starts again: without the row   *)
(* it refuses to.                                                           *)
load_node_information ==
    /\ info # Null /\ nodeInfo' = info
    /\ UNCHANGED <<run_vars, token, watcherVars, connection, checkpointVars, server, tables,
                   chainVars, handled, contract, faults>>

-----------------------------------------------------------------------------
WatcherStep ==
    \/ load_chain_cursor \/ build_event_stream \/ key_event_watcher_task \/ key_gen_event

Next ==
    \/ start \/ shutdown_signal
    \/ WatcherStep \/ try_reconnect
    \/ FetchCheckpoint \/ WaitCheckpoint \/ StoreCheckpoint
    \/ bind \/ graceful_shutdown
    \/ cancelled \/ Shutdown \/ ShutdownTimeout \/ Restart
    \/ Mine \/ Disconnect \/ load_node_information

(* The calls of start and of a handler have time limits of their own, the   *)
(* runtime schedules what is ready, the pubsub service notices a lost       *)
(* connection, timers run, and the supervisor restarts.  Nothing is assumed *)
(* of the checkpoint task or of the clients of the HTTP server.             *)
Fairness ==
    /\ WF_vars(start) /\ WF_vars(WatcherStep) /\ WF_vars(try_reconnect) /\ WF_vars(bind)
    /\ WF_vars(cancelled) /\ WF_vars(Shutdown) /\ WF_vars(ShutdownTimeout) /\ WF_vars(Restart)

Spec == Init /\ [][Next]_vars /\ Fairness

-----------------------------------------------------------------------------
all_started == started # "pending"
Healthy == Alive /\ server = "serving" /\ all_started

(* The health route answers "healthy" only for a watcher that has           *)
(* subscribed to the events in this life of the process, at every moment of *)
(* start-up and shutdown.                                                   *)
HealthyMeansSubscribed == Healthy => stream # "none"

(* The process exits with SUCCESS exactly when all three tasks came to      *)
(* their end without an error, a panic, or being cut off by the time limit. *)
ExitCodeIsTruthful ==
    Exited => (phase = "SUCCESS" <=> server = "ok" /\ watcher = "ok" /\ checkpoint = "done")

(* The stored cursor never passes an event that was not handled, though the *)
(* connection is lost at any moment and the process restarted: nothing that *)
(* was missed on a lost connection is stepped over later.                   *)
CursorCoversHandled == \A b \in logs : b <= cursor => b \in handled

(* An OPRF node only ever runs with a party id and a threshold that the     *)
(* contract confirmed.                                                      *)
NodeRunsAsRegistered == nodeInfo # Null => nodeInfo = "match"

(* What others learn from the process, over HTTP or from its database, is   *)
(* true at every moment of its lives.                                       *)
OutsideViewIsTrue == HealthyMeansSubscribed /\ NodeRunsAsRegistered

(* A signal, a task that ended for whatever reason, or a lost subscription  *)
(* ends the process, though clients keep their connections to the server    *)
(* open and the checkpoint task hangs.                                      *)
ProcessEnds ==
    (token \/ stream = "closed" \/ watcher \in {"ok", "err"} \/ server \in {"ok", "err"}) ~> Exited

(* Every event of the registry is handled in some life of the process,      *)
(* finitely many failures notwithstanding.                                  *)
EveryEventHandled ==
    \A b \in Block : (b \in logs /\ contract = "match") ~> (b \in handled)
=============================================================================
