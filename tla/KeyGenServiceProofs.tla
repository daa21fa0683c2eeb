------------------------ MODULE KeyGenServiceProofs -------------------------
(***************************************************************************)
(* Proofs about KeyGenService, for a chain of any length and any number of  *)
(* failures and restarts.                                                   *)
(***************************************************************************)
EXTENDS KeyGenService, WellFoundedInduction, TLAPS

-----------------------------------------------------------------------------
(* The inductive invariant. *)

(* Nothing has been spawned before start returns, and the database has been *)
(* told only what the contract confirmed.                                   *)
StartInv ==
    /\ phase = "starting" =>
          server = "none" /\ watcher = "none" /\ checkpoint = "none" /\ stream = "none"
    /\ step > 6 => contract = "match"
    /\ info # Null => info = "match"
    /\ NodeRunsAsRegistered

(* The flag of the watcher says what it promises. *)
StreamInv ==
    /\ started = "unregistered" => server = "none"
    /\ started = "started" => stream # "none"
    /\ watcher \in {"idle", "handling"} => stream # "none"
    /\ stream = "open" => connection # "none"
    /\ stream = "closed" => connection = "down"

(* The watcher holds a log exactly while it handles it. *)
WatcherInv == current # Null <=> watcher = "handling"

(* Logs leave the stream in ascending order. *)
InOrder == current # Null => \A q \in queue : current < q

(* A log that is neither handled nor in the stream came when the connection was  *)
(* down, so after every log of the stream.                                  *)
MissedInv ==
    watcher \in {"idle", "handling"} =>
        \A b \in logs \ handled :
            \/ b \in queue \/ b = current
            \/ /\ connection = "down"
               /\ \A q \in queue : q < b
               /\ current # Null => current < b

(* Neither the position a stream is built from nor the checkpoint about to  *)
(* be stored is past a log that was not handled.                            *)
PositionInv ==
    /\ queue \subseteq logs /\ (current # Null => current \in logs)
    /\ watcher = "loaded" => position <= cursor
    /\ cursor <= height /\ (mark # Null => mark <= height)
    /\ checkpoint = "storing" => \A b \in logs : b <= mark => b \in handled

ServiceInv ==
    /\ ServiceTypeOK
    /\ StartInv /\ StreamInv /\ ExitCodeIsTruthful /\ WatcherInv
    /\ InOrder /\ MissedInv /\ PositionInv /\ CursorCoversHandled

-----------------------------------------------------------------------------
(* A set of naturals that is not empty has a smallest element, so the log   *)
(* that the watcher takes next is one of its stream.                        *)
LEMMA MinInSet ==
    ASSUME NEW S \in SUBSET Nat, S # {}
    PROVE  Min(S) \in S /\ \A y \in S : Min(S) <= y
<1>1. PICK x \in S : \A y \in S : ~ (<<y, x>> \in OpToRel(<, Nat))
  BY WFMin, NatLessThanWellFounded, Zenon
<1>2. \A y \in S : ~ (y < x)
  BY <1>1, Zenon DEF OpToRel
<1>3. \A y \in S : x <= y
  BY <1>2
<1> QED
  BY <1>3 DEF Min

(* Storing a cursor never lowers it. *)
LEMMA CursorRises ==
    ASSUME NEW p \in Nat, cursor \in Nat, StoreChainCursor(p)
    PROVE  cursor' \in {cursor, p} /\ cursor' >= cursor /\ cursor' >= p
BY DEF StoreChainCursor

(* Null is none of the logs, and blocks are naturals. *)
LEMMA NullIsNoBlock ==
    ASSUME ServiceTypeOK
    PROVE  /\ Null \notin logs /\ logs \subseteq Nat /\ logs \subseteq Block
           /\ height \in Nat /\ cursor \in Nat
<1>1. height \in 0 .. MaxBlock /\ cursor \in 0 .. MaxBlock /\ logs \subseteq 1 .. height
  BY DEF ServiceTypeOK, Position
<1>2. logs \subseteq 1 .. MaxBlock
  BY <1>1, ServiceAssumption
<1>3. Null \notin 1 .. MaxBlock /\ 1 .. MaxBlock \subseteq Nat
  BY ServiceAssumption
<1>4. Null \notin logs /\ logs \subseteq Nat
  BY <1>2, <1>3
<1> QED
  BY <1>1, <1>2, <1>4, ServiceAssumption DEF Block

(* start has eight steps. *)
LEMMA EightSteps == Len(StartSteps) = 8
BY DEF StartSteps

(* The invariant holds initially. *)
LEMMA ServiceInvInit == Init => ServiceInv
<1> SUFFICES ASSUME Init PROVE ServiceInv
  OBVIOUS
<1>1. ServiceTypeOK
  <2>1. 1 \in 1 .. Len(StartSteps) /\ 0 \in 0 .. MaxFaults /\ 0 \in Position
    BY ServiceAssumption, EightSteps DEF Position
  <2> QED
    BY <2>1 DEF Init, ServiceTypeOK
<1>2. StartInv /\ StreamInv /\ ExitCodeIsTruthful /\ WatcherInv
  BY DEF Init, StartInv, StreamInv, ExitCodeIsTruthful, NodeRunsAsRegistered, Exited, WatcherInv
<1>3. InOrder /\ MissedInv /\ PositionInv /\ CursorCoversHandled
  BY DEF Init, InOrder, MissedInv, PositionInv, CursorCoversHandled
<1> QED
  BY <1>1, <1>2, <1>3 DEF ServiceInv

(* Every step preserves the invariant: the start-up. *)
LEMMA StartStep ==
    ASSUME ServiceInv, start
    PROVE  ServiceInv'
<1> USE DEF ServiceInv
<1>1. ServiceTypeOK'
  <2>1. faults' \in 0 .. MaxFaults
    BY ServiceAssumption DEF start, ServiceTypeOK, Fault
  <2>2. step' \in 1 .. Len(StartSteps)
    BY EightSteps DEF start, ServiceTypeOK
  <2> QED
    BY <2>1, <2>2 DEF start, ServiceTypeOK, Spawn, store_node_information, chainVars
<1>2. StartInv'
  BY DEF start, ServiceTypeOK, StartSteps, Spawn, store_node_information, StartInv,
         StepSucceeds, contract_sanity_checks, NodeRunsAsRegistered
<1>3. StreamInv'
  BY DEF start, ServiceTypeOK, StartSteps, Spawn, StartInv, StreamInv
<1>4. ExitCodeIsTruthful' /\ WatcherInv'
  BY DEF start, StartInv, ExitCodeIsTruthful, Exited, WatcherInv, Spawn
<1>5. InOrder' /\ MissedInv' /\ CursorCoversHandled'
  BY DEF start, InOrder, MissedInv, CursorCoversHandled, Spawn, StartInv, chainVars
<1>6. PositionInv'
  BY DEF start, PositionInv, Spawn, StartInv, chainVars
<1> QED
  BY <1>1, <1>2, <1>3, <1>4, <1>5, <1>6

(* ... a signal. *)
LEMMA SignalStep ==
    ASSUME ServiceInv, shutdown_signal
    PROVE  ServiceInv'
<1> USE DEF ServiceInv
<1>1. ServiceTypeOK'
  <2>1. faults' \in 0 .. MaxFaults
    BY ServiceAssumption DEF shutdown_signal, ServiceTypeOK, Fault
  <2>2. /\ token' \in BOOLEAN
        /\ phase' \in {"starting", "serving", "stopping", "SUCCESS", "FAILURE"}
    BY DEF shutdown_signal, ServiceTypeOK
  <2> QED
    BY <2>1, <2>2
       DEF shutdown_signal, ServiceTypeOK, watcherVars, checkpointVars, tables, chainVars
<1>2. StartInv' /\ StreamInv' /\ ExitCodeIsTruthful' /\ WatcherInv'
  BY DEF shutdown_signal, StartInv, StreamInv, ExitCodeIsTruthful, Exited, Alive,
         NodeRunsAsRegistered, WatcherInv, watcherVars, checkpointVars, tables
<1>3. InOrder' /\ MissedInv' /\ PositionInv' /\ CursorCoversHandled'
  BY DEF shutdown_signal, InOrder, MissedInv, PositionInv, CursorCoversHandled, watcherVars,
         checkpointVars, tables, chainVars
<1> QED
  BY <1>1, <1>2, <1>3

(* ... the watcher reading the cursor. *)
LEMMA LoadCursorStep ==
    ASSUME ServiceInv, load_chain_cursor
    PROVE  ServiceInv'
<1> USE DEF ServiceInv, OutsideWatcher, run_vars, checkpointVars, chainVars
<1>1. ServiceTypeOK'
  <2>1. faults' \in 0 .. MaxFaults
    BY ServiceAssumption DEF load_chain_cursor, ServiceTypeOK, Fault
  <2>2. token' \in BOOLEAN /\ watcher' \in {"loaded", "err"} /\ position' \in Position
    BY DEF load_chain_cursor, ServiceTypeOK, EndWatcher
  <2> QED
    BY <2>1, <2>2 DEF load_chain_cursor, ServiceTypeOK
<1>2. StartInv' /\ StreamInv' /\ ExitCodeIsTruthful' /\ WatcherInv'
  BY DEF load_chain_cursor, EndWatcher, StartInv, StreamInv, ExitCodeIsTruthful, Exited, Alive,
         NodeRunsAsRegistered, WatcherInv
<1>3. position' \in Nat /\ cursor' \in Nat
  BY ServiceAssumption, <1>1 DEF ServiceTypeOK, Position
<1>4. InOrder' /\ MissedInv' /\ PositionInv' /\ CursorCoversHandled'
  BY <1>3 DEF load_chain_cursor, EndWatcher, InOrder, MissedInv, PositionInv, CursorCoversHandled
<1> QED
  BY <1>1, <1>2, <1>4

(* ... its subscription: the backfill holds every log behind the cursor. *)
LEMMA SubscribeStep ==
    ASSUME ServiceInv, build_event_stream
    PROVE  ServiceInv'
<1> USE DEF ServiceInv, OutsideWatcher, run_vars, checkpointVars, chainVars
<1>0. /\ position \in Nat /\ cursor \in Nat /\ height \in Nat /\ logs \subseteq Block
      /\ logs \subseteq Nat
  BY ServiceAssumption DEF ServiceTypeOK, Position, Block
<1>1. ServiceTypeOK'
  <2>1. faults' \in 0 .. MaxFaults
    BY ServiceAssumption DEF build_event_stream, ServiceTypeOK, Fault
  <2>2. queue' \subseteq Block
    BY <1>0 DEF build_event_stream, ServiceTypeOK
  <2>3. /\ token' \in BOOLEAN /\ watcher' \in {"idle", "err"}
        /\ stream' \in {"none", "open", "closed"}
        /\ started' \in {"unregistered", "pending", "started"}
    BY DEF build_event_stream, ServiceTypeOK, EndWatcher
  <2> QED
    BY <2>1, <2>2, <2>3 DEF build_event_stream, ServiceTypeOK
<1>2. StartInv' /\ StreamInv' /\ ExitCodeIsTruthful' /\ WatcherInv'
  BY DEF build_event_stream, EndWatcher, StartInv, StreamInv, ExitCodeIsTruthful, Exited, Alive,
         NodeRunsAsRegistered, WatcherInv
<1>3. current = Null
  BY DEF build_event_stream, WatcherInv
<1>4. InOrder' /\ PositionInv' /\ CursorCoversHandled'
  BY <1>0, <1>3 DEF build_event_stream, EndWatcher, InOrder, PositionInv, CursorCoversHandled
<1>5. MissedInv'
  <2>1. CASE watcher' = "idle"
    <3>1. queue' = {b \in logs : b > position} /\ UNCHANGED <<logs, handled, cursor>>
      BY <2>1 DEF build_event_stream, EndWatcher
    <3>2. \A b \in logs \ handled : b > position
      BY <1>0 DEF build_event_stream, PositionInv, CursorCoversHandled
    <3> QED
      BY <3>1, <3>2 DEF MissedInv
  <2>2. CASE watcher' # "idle"
    BY <2>2 DEF build_event_stream, EndWatcher, MissedInv
  <2> QED
    BY <2>1, <2>2
<1> QED
  BY <1>1, <1>2, <1>4, <1>5

(* ... one turn of its loop. *)
LEMMA LoopStep ==
    ASSUME ServiceInv, key_event_watcher_task
    PROVE  ServiceInv'
<1> USE DEF ServiceInv, OutsideWatcher, run_vars, checkpointVars, chainVars
<1>0. queue \subseteq Nat /\ logs \subseteq Nat /\ queue \subseteq Block /\ current = Null
  BY ServiceAssumption DEF ServiceTypeOK, Block, key_event_watcher_task, WatcherInv
<1>1. CASE watcher' = "handling"
  <2>1. /\ current' \in queue /\ \A q \in queue : current' <= q
        /\ queue' = queue \ {current'}
        /\ UNCHANGED <<token, faults, OutsideWatcher, position, stream, started, cursor, handled>>
    BY <1>0, <1>1, MinInSet DEF key_event_watcher_task, EndWatcher
  <2>2. current' \in Nat /\ current' \in Block /\ current' # Null
    BY <1>0, <2>1, ServiceAssumption DEF Block
  <2>3. ServiceTypeOK'
    BY <1>1, <2>1, <2>2 DEF ServiceTypeOK
  <2>4. StartInv' /\ StreamInv' /\ ExitCodeIsTruthful' /\ WatcherInv'
    BY <1>1, <2>1, <2>2 DEF key_event_watcher_task, StartInv, StreamInv, ExitCodeIsTruthful,
           Exited, Alive, NodeRunsAsRegistered, WatcherInv
  <2>5. InOrder' /\ PositionInv' /\ CursorCoversHandled'
    BY <1>0, <1>1, <2>1, <2>2 DEF InOrder, PositionInv, CursorCoversHandled
  <2>6. MissedInv'
    <3>1. watcher = "idle" /\ UNCHANGED <<logs, handled, connection>>
      BY <2>1 DEF key_event_watcher_task
    <3>2. \A b \in logs \ handled :
              b \in queue \/ (connection = "down" /\ \A q \in queue : q < b)
      BY <1>0, <3>1, NullIsNoBlock DEF MissedInv
    <3>3. \A b \in logs \ handled :
              \/ b \in queue' \/ b = current'
              \/ connection = "down" /\ (\A q \in queue' : q < b) /\ current' < b
      BY <2>1, <3>2
    <3> QED
      BY <3>1, <3>3 DEF MissedInv
  <2> QED
    BY <2>3, <2>4, <2>5, <2>6
<1>2. CASE watcher' # "handling"
  <2>1. /\ watcher' \in {"ok", "err"} /\ token' = TRUE
        /\ UNCHANGED <<queue, current, OutsideWatcher, position, stream, started, cursor, handled>>
    BY <1>2 DEF key_event_watcher_task, EndWatcher
  <2>2. faults' \in 0 .. MaxFaults
    BY ServiceAssumption DEF key_event_watcher_task, ServiceTypeOK, Fault
  <2>3. ServiceTypeOK'
    BY <2>1, <2>2 DEF ServiceTypeOK
  <2>4. StartInv' /\ StreamInv' /\ ExitCodeIsTruthful' /\ WatcherInv'
    BY <1>0, <2>1 DEF key_event_watcher_task, StartInv, StreamInv, ExitCodeIsTruthful,
           Exited, Alive, NodeRunsAsRegistered, WatcherInv
  <2>5. InOrder' /\ PositionInv' /\ CursorCoversHandled' /\ MissedInv'
    BY <1>0, <2>1 DEF InOrder, PositionInv, CursorCoversHandled, MissedInv
  <2> QED
    BY <2>3, <2>4, <2>5
<1> QED
  BY <1>1, <1>2

(* ... a handled event: every log up to it has been handled. *)
LEMMA HandleStep ==
    ASSUME ServiceInv, key_gen_event
    PROVE  ServiceInv'
<1> USE DEF ServiceInv, OutsideWatcher, run_vars, checkpointVars, chainVars
<1>0. /\ current \in logs /\ current \in Nat /\ current \in Position /\ cursor \in Nat
      /\ Null \notin logs /\ logs \subseteq Nat /\ queue \subseteq logs
      /\ watcher = "handling" /\ current' = Null /\ current # Null
      /\ \A q \in queue : current < q
      /\ UNCHANGED <<OutsideWatcher, position, queue, stream, started>>
  BY NullIsNoBlock DEF PositionInv, InOrder, WatcherInv, ServiceTypeOK, Block, Position, key_gen_event
<1>1. /\ handled' \in {handled, handled \cup {current}}
      /\ watcher' \in {"idle", "err"}
      /\ watcher' = "idle" => handled' = handled \cup {current}
      /\ cursor' = cursor \/ (watcher' = "idle" /\ cursor' = current)
      /\ cursor' >= cursor
  BY <1>0, CursorRises DEF key_gen_event, EndWatcher
<1>2. faults' \in 0 .. MaxFaults
  BY ServiceAssumption DEF key_gen_event, ServiceTypeOK, Fault
<1>3. ServiceTypeOK'
  <2>1. token' \in BOOLEAN
    BY DEF key_gen_event, ServiceTypeOK, EndWatcher
  <2>2. cursor' \in Position /\ handled' \subseteq logs
    BY <1>0, <1>1 DEF ServiceTypeOK
  <2> QED
    BY <1>0, <1>1, <1>2, <2>1, <2>2 DEF ServiceTypeOK
<1>4. StartInv' /\ StreamInv' /\ ExitCodeIsTruthful' /\ WatcherInv'
  BY <1>0, <1>1 DEF key_gen_event, StartInv, StreamInv, ExitCodeIsTruthful, Exited, Alive,
                    NodeRunsAsRegistered, WatcherInv
<1>5. InOrder' /\ MissedInv'
  BY <1>0, <1>1 DEF InOrder, MissedInv
<1>6. PositionInv'
  <2>1. current <= height
    BY <1>0 DEF ServiceTypeOK
  <2> QED
    BY <1>0, <1>1, <2>1 DEF PositionInv
<1>7. CursorCoversHandled'
  <2>1. \A b \in logs : b <= current => b \in handled \cup {current}
    BY <1>0 DEF MissedInv
  <2> QED
    BY <1>0, <1>1, <2>1 DEF CursorCoversHandled
<1> QED
  BY <1>3, <1>4, <1>5, <1>6, <1>7

(* ... the checkpoint task. *)
LEMMA CheckpointStep ==
    ASSUME ServiceInv, FetchCheckpoint \/ WaitCheckpoint \/ StoreCheckpoint
    PROVE  ServiceInv'
<1> USE DEF ServiceInv, OutsideCheckpoint, run_vars, watcherVars, chainVars
<1>0. /\ UNCHANGED OutsideCheckpoint /\ Alive /\ checkpoint # "none"
      /\ cursor \in Nat /\ logs \subseteq Nat /\ height \in Nat /\ height # Null
  BY NullIsNoBlock, ServiceAssumption
     DEF FetchCheckpoint, WaitCheckpoint, StoreCheckpoint, ServiceTypeOK, Position
<1>1. faults' \in 0 .. MaxFaults
  BY ServiceAssumption DEF FetchCheckpoint, WaitCheckpoint, StoreCheckpoint, ServiceTypeOK, Fault
<1>2. /\ mark' \in {mark, height, Null}
      /\ checkpoint' \in {"fetching", "waiting", "storing", "done", "panicked"}
      /\ checkpoint' = "storing" => mark' = mark /\ mark # Null /\ IntervalIsLong
  BY DEF FetchCheckpoint, WaitCheckpoint, StoreCheckpoint, IntervalTick
<1>3. /\ cursor' >= cursor
      /\ cursor' = cursor \/ (checkpoint = "storing" /\ cursor' = mark /\ mark \in Position)
  BY <1>0, CursorRises, ServiceAssumption
     DEF FetchCheckpoint, WaitCheckpoint, StoreCheckpoint, ServiceTypeOK, Position
<1>4. ServiceTypeOK'
  BY <1>0, <1>1, <1>2, <1>3 DEF ServiceTypeOK
<1>5. StartInv' /\ StreamInv' /\ ExitCodeIsTruthful' /\ WatcherInv'
  <2>1. info' = info
    BY <1>0
  <2> QED
    BY <1>0, <1>2, <2>1 DEF StartInv, StreamInv, ExitCodeIsTruthful, Exited, Alive,
                            NodeRunsAsRegistered, WatcherInv
<1>6. InOrder' /\ MissedInv'
  BY <1>0 DEF InOrder, MissedInv
<1>7. PositionInv' /\ CursorCoversHandled'
  <2>1. position \in Nat
    BY ServiceAssumption DEF ServiceTypeOK, Position
  <2>2. cursor' <= height /\ (mark' # Null => mark' <= height)
    BY <1>0, <1>2, <1>3 DEF PositionInv, ServiceTypeOK
  <2>3. checkpoint' = "storing" => \A b \in logs : b <= mark' => b \in handled
    BY <1>2 DEF IntervalIsLong
  <2>4. watcher = "loaded" => position <= cursor'
    BY <1>0, <1>3, <2>1 DEF PositionInv, ServiceTypeOK, Position
  <2>5. PositionInv'
    BY <1>0, <2>2, <2>3, <2>4 DEF PositionInv
  <2> QED
    BY <1>0, <1>3, <2>5 DEF PositionInv, CursorCoversHandled
<1> QED
  BY <1>4, <1>5, <1>6, <1>7

(* ... the HTTP server. *)
LEMMA ServerStep ==
    ASSUME ServiceInv, bind \/ graceful_shutdown
    PROVE  ServiceInv'
<1> USE DEF ServiceInv, OutsideServer, run_vars, watcherVars, checkpointVars, tables, chainVars
<1>0. /\ UNCHANGED OutsideServer /\ Alive /\ server # "none" /\ token' \in BOOLEAN
      /\ server' \in {"serving", "closing", "ok", "err"}
  BY DEF bind, graceful_shutdown, EndServer, ServiceTypeOK
<1>1. faults' \in 0 .. MaxFaults
  BY ServiceAssumption DEF bind, graceful_shutdown, ServiceTypeOK, Fault
<1>2. ServiceTypeOK'
  BY <1>0, <1>1 DEF ServiceTypeOK
<1>3. StartInv' /\ StreamInv' /\ ExitCodeIsTruthful' /\ WatcherInv'
  BY <1>0 DEF StartInv, StreamInv, ExitCodeIsTruthful, Exited, Alive, NodeRunsAsRegistered,
              WatcherInv
<1>4. InOrder' /\ MissedInv' /\ PositionInv' /\ CursorCoversHandled'
  BY <1>0 DEF InOrder, MissedInv, PositionInv, CursorCoversHandled
<1> QED
  BY <1>2, <1>3, <1>4

(* ... the end of the process, whose exit code joins the tasks, ... *)
LEMMA EndStep ==
    ASSUME ServiceInv, cancelled \/ Shutdown \/ ShutdownTimeout
    PROVE  ServiceInv'
<1> USE DEF ServiceInv, OutsideRun, watcherVars, checkpointVars, tables, chainVars
<1>0. UNCHANGED OutsideRun /\ phase' \in {"stopping", "SUCCESS", "FAILURE"}
  BY DEF cancelled, Shutdown, ShutdownTimeout
<1>1. ServiceTypeOK'
  BY <1>0 DEF ServiceTypeOK
<1>2. StartInv' /\ StreamInv' /\ WatcherInv'
  BY <1>0 DEF StartInv, StreamInv, NodeRunsAsRegistered, WatcherInv
<1>3. ExitCodeIsTruthful'
  BY <1>0 DEF cancelled, Shutdown, ShutdownTimeout, AllJoined, join, ExitCodeIsTruthful, Exited
<1>4. InOrder' /\ MissedInv' /\ PositionInv' /\ CursorCoversHandled'
  BY <1>0 DEF InOrder, MissedInv, PositionInv, CursorCoversHandled
<1> QED
  BY <1>1, <1>2, <1>3, <1>4

(* ... its restart, ... *)
LEMMA RestartStep ==
    ASSUME ServiceInv, Restart
    PROVE  ServiceInv'
<1> USE DEF ServiceInv, Restart, tables, chainVars
<1>1. ServiceTypeOK'
  <2>1. 1 \in 1 .. Len(StartSteps) /\ 0 \in Position
    BY ServiceAssumption, EightSteps DEF Position
  <2> QED
    BY <2>1 DEF ServiceTypeOK
<1>2. StartInv' /\ StreamInv' /\ ExitCodeIsTruthful' /\ WatcherInv'
  BY DEF StartInv, StreamInv, ExitCodeIsTruthful, Exited, NodeRunsAsRegistered, WatcherInv
<1>3. InOrder' /\ MissedInv' /\ PositionInv' /\ CursorCoversHandled'
  BY DEF InOrder, MissedInv, PositionInv, CursorCoversHandled
<1> QED
  BY <1>1, <1>2, <1>3

(* ... a block of the chain, later than everything else, ... *)
LEMMA MineStep ==
    ASSUME ServiceInv, Mine
    PROVE  ServiceInv'
<1> USE DEF ServiceInv, run_vars, checkpointVars, tables
<1>0. /\ UNCHANGED <<run_vars, token, watcher, position, stream, current, started, connection,
                     checkpointVars, server, tables, nodeInfo, handled, contract, faults>>
      /\ height' = height + 1 /\ height \in Nat /\ height' \in Position /\ height' \in Block
  BY ServiceAssumption, NullIsNoBlock DEF Mine, ServiceTypeOK, Position, Block
<1>1. /\ logs' \in {logs, logs \cup {height'}} /\ queue' \in {queue, queue \cup {height'}}
      /\ logs' = logs => queue' = queue
      /\ logs' # logs => queue' = IF stream = "open" /\ connection = "up"
                                 THEN queue \cup {height'} ELSE queue
  <2>1. height' \notin logs
    BY <1>0 DEF ServiceTypeOK
  <2> QED
    BY <2>1 DEF Mine, PositionInv
<1>2. \A b \in logs : b <= height /\ b \in Nat
  BY <1>0 DEF ServiceTypeOK
<1>3. ServiceTypeOK'
  <2>1. logs' \subseteq 1 .. height' /\ handled' \subseteq logs' /\ queue' \subseteq Block
    BY <1>0, <1>1, <1>2 DEF ServiceTypeOK
  <2> QED
    BY <1>0, <2>1 DEF ServiceTypeOK
<1>4. StartInv' /\ StreamInv' /\ ExitCodeIsTruthful' /\ WatcherInv'
  BY <1>0 DEF StartInv, StreamInv, ExitCodeIsTruthful, Exited, NodeRunsAsRegistered, WatcherInv
<1>5. InOrder'
  BY <1>0, <1>1, <1>2 DEF InOrder, PositionInv
<1>6. cursor \in Nat /\ cursor <= height /\ (mark # Null => mark \in Nat /\ mark <= height)
  BY NullIsNoBlock, ServiceAssumption DEF PositionInv, ServiceTypeOK, Position
<1>7. PositionInv' /\ CursorCoversHandled'
  BY <1>0, <1>1, <1>2, <1>6 DEF PositionInv, CursorCoversHandled, ServiceTypeOK
<1>8. MissedInv'
  <2> SUFFICES ASSUME watcher \in {"idle", "handling"}, NEW b \in logs' \ handled
               PROVE  \/ b \in queue' \/ b = current
                      \/ /\ connection = "down"
                         /\ \A q \in queue' : q < b
                         /\ current # Null => current < b
    BY <1>0 DEF MissedInv
  <2>1. CASE b \in logs
    <3>1. connection = "down" => queue' = queue
      BY <1>1
    <3> QED
      BY <1>1, <2>1, <3>1 DEF MissedInv
  <2>2. CASE b \notin logs /\ connection = "down"
    BY <1>0, <1>1, <1>2, <2>2 DEF PositionInv
  <2>3. CASE b \notin logs /\ connection # "down"
    <3>1. stream = "open" /\ connection = "up"
      BY <2>3 DEF StreamInv, ServiceTypeOK
    <3> QED
      BY <1>1, <2>3, <3>1
  <2> QED
    BY <2>1, <2>2, <2>3
<1> QED
  BY <1>3, <1>4, <1>5, <1>7, <1>8

(* ... and what others do. *)
LEMMA OutsideStep ==
    ASSUME ServiceInv, try_reconnect \/ Disconnect \/ load_node_information \/ UNCHANGED vars
    PROVE  ServiceInv'
<1> USE DEF ServiceInv, run_vars, watcherVars, checkpointVars, tables, chainVars
<1>0. UNCHANGED <<run_vars, token, watcher, position, queue, current, started, checkpointVars,
                  server, tables, chainVars, handled, contract>>
  BY DEF try_reconnect, Disconnect, load_node_information, vars
<1>1. /\ stream' = stream \/ (stream = "open" /\ stream' = "closed" /\ connection = "down")
      /\ connection' = connection \/ (stream' = stream /\ connection' = "down")
      /\ nodeInfo' \in {info, nodeInfo} /\ (nodeInfo' # nodeInfo => info # Null)
  BY DEF try_reconnect, Disconnect, load_node_information, vars
<1>2. faults' \in 0 .. MaxFaults
  BY ServiceAssumption
     DEF try_reconnect, Disconnect, load_node_information, vars, ServiceTypeOK, Fault
<1>3. ServiceTypeOK'
  BY <1>0, <1>1, <1>2 DEF ServiceTypeOK
<1>4. StartInv' /\ StreamInv' /\ ExitCodeIsTruthful' /\ WatcherInv'
  BY <1>0, <1>1 DEF StartInv, StreamInv, ExitCodeIsTruthful, Exited, NodeRunsAsRegistered,
                    WatcherInv
<1>5. InOrder' /\ MissedInv' /\ PositionInv' /\ CursorCoversHandled'
  BY <1>0, <1>1 DEF InOrder, MissedInv, PositionInv, CursorCoversHandled
<1> QED
  BY <1>3, <1>4, <1>5

-----------------------------------------------------------------------------
(* The invariant is inductive. *)
LEMMA ServiceInvNext == ServiceInv /\ [Next]_vars => ServiceInv'
<1> SUFFICES ASSUME ServiceInv, [Next]_vars PROVE ServiceInv'
  OBVIOUS
<1>1. CASE start \/ shutdown_signal
  BY <1>1, StartStep, SignalStep
<1>2. CASE WatcherStep
  BY <1>2, LoadCursorStep, SubscribeStep, LoopStep, HandleStep DEF WatcherStep
<1>3. CASE FetchCheckpoint \/ WaitCheckpoint \/ StoreCheckpoint
  BY <1>3, CheckpointStep
<1>4. CASE bind \/ graceful_shutdown
  BY <1>4, ServerStep
<1>5. CASE cancelled \/ Shutdown \/ ShutdownTimeout \/ Restart
  BY <1>5, EndStep, RestartStep
<1>6. CASE Mine
  BY <1>6, MineStep
<1>7. CASE try_reconnect \/ Disconnect \/ load_node_information \/ UNCHANGED vars
  BY <1>7, OutsideStep
<1> QED
  BY <1>1, <1>2, <1>3, <1>4, <1>5, <1>6, <1>7 DEF Next

(* Everything the invariant says holds in every reachable state. *)
LEMMA ServiceInvariant == Spec => []ServiceInv
BY ServiceInvInit, ServiceInvNext, PTL DEF Spec

(* The variables of the process, its tasks, tables and the chain hold what  *)
(* their declarations say.                                                  *)
THEOREM ServiceTypeCorrect == Spec => []ServiceTypeOK
<1>1. ServiceInv => ServiceTypeOK
  BY DEF ServiceInv
<1> QED
  BY <1>1, ServiceInvariant, PTL

(* A healthy answer comes only from a process that has subscribed to the    *)
(* events, and an OPRF node on the same database runs only with what the    *)
(* contract confirmed (start, StartedServices, load_node_information).      *)
THEOREM OutsideViewCorrect == Spec => []OutsideViewIsTrue
<1>1. ServiceInv => OutsideViewIsTrue
  BY DEF ServiceInv, OutsideViewIsTrue, HealthyMeansSubscribed, Healthy, all_started,
         ServiceTypeOK, StartInv, StreamInv
<1> QED
  BY <1>1, ServiceInvariant, PTL

(* The exit code of run tells whether all three tasks ended well. *)
THEOREM ExitCodeCorrect == Spec => []ExitCodeIsTruthful
<1>1. ServiceInv => ExitCodeIsTruthful
  BY DEF ServiceInv
<1> QED
  BY <1>1, ServiceInvariant, PTL

(* The stored cursor, written by the watcher and by the checkpoint task,    *)
(* never passes an event that no life of the process has handled.           *)
THEOREM CursorCorrect == Spec => []CursorCoversHandled
<1>1. ServiceInv => CursorCoversHandled
  BY DEF ServiceInv
<1> QED
  BY <1>1, ServiceInvariant, PTL
=============================================================================
