------------------------------ MODULE OprfNode ------------------------------
(***************************************************************************)
(* One OPRF node (oprf-service): its web-socket sessions, the registry of   *)
(* open session ids, the key-material cache and the public-key route, on a  *)
(* database that the node's key-gen process writes.                         *)
(*                                                                          *)
(* A session runs                                                           *)
(*   idle -> upgrade -> request -> auth -> lookup -> respond -> challenge   *)
(*                                            |         ^         |         *)
(*                                            +-loading-+         v         *)
(*                                       idle <- closing <----- answer      *)
(* and leaves for "closing" from every phase on an error or when            *)
(* max_connection_lifetime is over.  A request for the public key is        *)
(* lookup [-> loading] -> respond -> idle.                                  *)
(*                                                                          *)
(* Durations are countdowns that Tick lowers together; timers fire on time, *)
(* that is, the clock does not run past one that is due.                    *)
(***************************************************************************)
EXTENDS Integers, Sequences, FiniteSets

CONSTANTS
    Conn,             \* connections at a time
    SessionId, Key, Null,
    MaxEpoch,
    SessionLifetime,  \* session_lifetime
    HttpTimeout,      \* http_request_timeout
    ShutdownTimeout,  \* websocket_shutdown_timeout
    StoreTtl,         \* store_ttl
    StoreTti,         \* store_tti
    StoreCapacity,    \* store_max_capacity
    Threshold,
    MyCoeff,          \* party id + 1
    MaxCoeff          \* bound on the coefficients in a challenge

ASSUME NodeAssumption ==
    /\ {SessionLifetime, HttpTimeout, ShutdownTimeout, StoreTtl, StoreTti} \subseteq Nat \ {0}
    /\ {MaxEpoch, StoreCapacity, MaxCoeff} \subseteq Nat
    /\ Threshold \in Nat \ {0}
    /\ MyCoeff \in 1 .. MaxCoeff
    /\ Null \notin SessionId

VARIABLES
    db,        \* table shares: epoch of the row of each key, -1 without a row
    deleted,   \* keys whose row is marked deleted
    cache,     \* the moka cache of OprfKeyMaterialStore
    load,      \* the load of a missing key in flight, at most one per key
    open,      \* OpenSessions
    conn,      \* the connections
    stale,     \* history: ticks since an epoch of a key was replaced or deleted
    served     \* history: latest epoch of each key a session was given

vars == <<db, deleted, cache, load, open, conn, stale, served>>

Epoch == 0 .. MaxEpoch

Longer(a, b) == IF a >= b THEN a ELSE b

(* An epoch that is replaced or deleted is out of use after the longest     *)
(* load that read it before, the life of the cache entry (an entry that is  *)
(* StoreTtl old is gone), and the longest session that took it from there.  *)
MaxStale ==
    LET longest == Longer(SessionLifetime, HttpTimeout)
    IN  longest + (StoreTtl - 1) + longest

Entry == [epoch : Epoch, ttl : 0 .. StoreTtl, tti : 0 .. StoreTti]

LoadResults == {"unread", "Ok", "UnknownOprfKeyId", "DeletedOprfKeyId", "Internal"}

Load == [owner : Conn, result : LoadResults, epoch : {-1} \cup Epoch]

ASSUME NullAssumption == Null \notin Entry /\ Null \notin Load

Phases == {"idle", "upgrade", "request", "auth", "lookup", "loading", "respond", "challenge",
           "answer", "closing"}

Versions == {Null, "accepted", "outdated"}

Challenges == UNION {[1 .. m -> 1 .. MaxCoeff] : m \in 0 .. Threshold + 1}

Connection ==
    [phase : Phases, kind : {"http", "ws"}, id : SessionId \cup {Null},
     header : Versions, query : Versions,   \* client version in the upgrade request
     key : Key \cup {Null},
     epoch : {-1} \cup Epoch,    \* of the key material: OprfSession, OprfResponse
     proof : {-1} \cup Epoch,    \* of the share in the proof share
     parties : Challenges,       \* contributing parties of the challenge
     left : 0 .. Longer(SessionLifetime, Longer(HttpTimeout, ShutdownTimeout))]

NoConnection ==
    [phase |-> "idle", kind |-> "http", id |-> Null, header |-> Null, query |-> Null,
     key |-> Null, epoch |-> -1, proof |-> -1, parties |-> << >>, left |-> 0]

NodeTypeOK ==
    /\ db \in [Key -> {-1} \cup Epoch] /\ deleted \subseteq Key
    /\ cache \in [Key -> Entry \cup {Null}]
    /\ load \in [Key -> Load \cup {Null}]
    /\ open \subseteq SessionId
    /\ conn \in [Conn -> Connection]
    /\ stale \in [Key -> [Epoch -> -1 .. MaxStale + 1]]
    /\ served \in [Key -> {-1} \cup Epoch]

Init ==
    /\ db = [k \in Key |-> -1] /\ deleted = {}
    /\ cache = [k \in Key |-> Null]
    /\ load = [k \in Key |-> Null]
    /\ open = {}
    /\ conn = [c \in Conn |-> NoConnection]
    /\ stale = [k \in Key |-> [e \in Epoch |-> -1]]
    /\ served = [k \in Key |-> -1]

(***************************************************************************)
(* The end of a session or request.  Dropping the future of                 *)
(* partial_oprf_inner drops its SessionDropGuard and, if it was computing   *)
(* the load of a key, hands the load to a connection that waits for it.     *)
(***************************************************************************)
Waiting(k) == {c \in Conn : conn[c].phase = "loading" /\ conn[c].key = k}

DropLoad(c) ==
    LET k == conn[c].key
    IN  IF conn[c].phase = "loading" /\ load[k] # Null /\ load[k].owner = c
        THEN \/ /\ Waiting(k) = {c}
                /\ load' = [load EXCEPT ![k] = Null]
             \/ \E w \in Waiting(k) \ {c} :
                   load' = [load EXCEPT ![k] = [owner |-> w, result |-> "unread", epoch |-> -1]]
        ELSE UNCHANGED load

Closing == [NoConnection EXCEPT !.phase = "closing", !.kind = "ws", !.left = ShutdownTimeout]

Released(c) == open \ {conn[c].id}

EndSession(c) ==
    /\ DropLoad(c)
    /\ open' = Released(c)
    /\ conn' = [conn EXCEPT ![c] = IF @.kind = "ws" THEN Closing ELSE NoConnection]
    /\ UNCHANGED <<db, deleted, cache, stale, served>>

(***************************************************************************)
(* Session steps.                                                           *)
(***************************************************************************)
(* The version announced by the client, Null if it announces none. *)
parse_client_header(header, query) == IF query # Null THEN query ELSE header

(* A client asks to upgrade; a corrupted version ends in SessionError. *)
Connect(c) ==
    /\ conn[c].phase = "idle"
    /\ \E header, query \in Versions :
          conn' = [conn EXCEPT ![c] = [@ EXCEPT !.phase = "upgrade", !.left = SessionLifetime,
                                               !.header = header, !.query = query]]
    /\ UNCHANGED <<db, deleted, cache, load, open, stale, served>>

oprf_ws_handler(c) ==
    /\ conn[c].phase = "upgrade"
    /\ conn' = [conn EXCEPT ![c] =
          IF parse_client_header(@.header, @.query) = "accepted"
          THEN [NoConnection EXCEPT !.phase = "request", !.kind = "ws", !.left = SessionLifetime]
          ELSE NoConnection]
    /\ UNCHANGED <<db, deleted, cache, load, open, stale, served>>

(* GET /oprf_pub/{id} *)
oprf_key_available(c) ==
    /\ conn[c].phase = "idle"
    /\ \E k \in Key :
          conn' = [conn EXCEPT ![c] = [@ EXCEPT !.phase = "lookup",
                                                !.key = k, !.left = HttpTimeout]]
    /\ UNCHANGED <<db, deleted, cache, load, open, stale, served>>

insert_new_session_guardFirst(c) ==
    /\ conn[c].phase = "request"
    /\ \E id \in SessionId :
          IF id \in open
          THEN /\ open' = open \ {id}
               /\ conn' = [conn EXCEPT ![c] = Closing]
               /\ UNCHANGED <<db, deleted, cache, load, stale, served>>
          ELSE /\ open' = open \cup {id}
               /\ conn' = [conn EXCEPT ![c].phase = "auth", ![c].id = id]
               /\ UNCHANGED <<db, deleted, cache, load, stale, served>>

insert_new_session(c) ==
    /\ conn[c].phase = "request"
    /\ \E id \in SessionId :
          IF id \in open
          THEN EndSession(c)
          ELSE /\ open' = open \cup {id}
               /\ conn' = [conn EXCEPT ![c].phase = "auth", ![c].id = id]
               /\ UNCHANGED <<db, deleted, cache, load, stale, served>>

(* The blinded query is not the identity and the authentication service     *)
(* names the key.  (A rejected request ends in SessionError.)               *)
authenticate(c) ==
    /\ conn[c].phase = "auth"
    /\ \E k \in Key : conn' = [conn EXCEPT ![c].phase = "lookup", ![c].key = k]
    /\ UNCHANGED <<db, deleted, cache, load, open, stale, served>>

(* An error of the client, the connection or the authentication: closed,    *)
(* unparsable or unexpected message, identity query, rejected request,      *)
(* encoding switched between the rounds, failed write.                      *)
SessionError(c) ==
    /\ conn[c].phase \in {"upgrade", "request", "auth", "respond", "challenge", "answer"}
    /\ EndSession(c)

(* The key-material snapshot that the session keeps until it ends. *)
partial_commit(cn, e) == [cn EXCEPT !.phase = "respond", !.epoch = e]

Give(k, C, e) ==
    /\ conn' = [c \in Conn |-> IF c \in C THEN partial_commit(conn[c], e) ELSE conn[c]]
    /\ served' = [served EXCEPT ![k] = IF C # {} THEN Longer(@, e) ELSE @]

(***************************************************************************)
(* The key-material store.  The cache answers a hit; of the connections     *)
(* that miss a key one loads it and the others wait for the result.         *)
(* Nothing removes an entry but its age, its idleness and the capacity.     *)
(***************************************************************************)
try_get_readsItself(c) ==
    LET k == conn[c].key
    IN  /\ conn[c].phase = "lookup"
        /\ \/ /\ cache[k] # Null
              /\ Give(k, {c}, cache[k].epoch)
              /\ UNCHANGED load
           \/ /\ cache[k] = Null /\ load[k] # Null
              /\ db[k] # -1 /\ k \notin deleted
              /\ Give(k, {c}, db[k])
              /\ UNCHANGED load
           \/ /\ cache[k] = Null /\ load[k] = Null
              /\ conn' = [conn EXCEPT ![c].phase = "loading"]
              /\ load' = [load EXCEPT ![k] = [owner |-> c, result |-> "unread", epoch |-> -1]]
              /\ UNCHANGED served
        /\ UNCHANGED <<db, deleted, cache, open, stale>>

try_get(c) ==
    LET k == conn[c].key
    IN  /\ conn[c].phase = "lookup"
        /\ \/ /\ cache[k] # Null
              /\ Give(k, {c}, cache[k].epoch)
              /\ cache' = [cache EXCEPT ![k].tti = StoreTti]
              /\ UNCHANGED load
           \/ /\ cache[k] = Null
              /\ conn' = [conn EXCEPT ![c].phase = "loading"]
              /\ load' = [load EXCEPT ![k] =
                    IF @ # Null THEN @
                    ELSE [owner |-> c, result |-> "unread", epoch |-> -1]]
              /\ UNCHANGED <<cache, served>>
        /\ UNCHANGED <<db, deleted, open, stale>>

(* The query of the secret manager; it fails when its retries are used up. *)
get_oprf_key_material(k) ==
    /\ load[k] # Null /\ load[k].result = "unread"
    /\ \E result \in {"Internal", IF db[k] = -1 THEN "UnknownOprfKeyId"
                                  ELSE IF k \in deleted THEN "DeletedOprfKeyId"
                                  ELSE "Ok"} :
          load' = [load EXCEPT ![k].result = result,
                               ![k].epoch = IF result = "Ok" THEN db[k] ELSE -1]
    /\ UNCHANGED <<db, deleted, cache, open, conn, stale, served>>

(* Key material enters the cache, an error does not; either reaches every   *)
(* connection that waits.  That is one step here: moka wakes the waiting    *)
(* tasks one by one, but what each of them gets is settled by then.         *)
or_try_insert_with(k) ==
    /\ load[k] # Null /\ load[k].result # "unread"
    /\ load' = [load EXCEPT ![k] = Null]
    /\ \/ /\ load[k].result = "Ok"
          /\ cache' = [cache EXCEPT ![k] = [epoch |-> load[k].epoch, ttl |-> StoreTtl,
                                            tti |-> StoreTti]]
          /\ Give(k, Waiting(k), load[k].epoch)
          /\ UNCHANGED open
       \/ /\ load[k].result # "Ok"
          /\ open' = open \ {conn[c].id : c \in Waiting(k)}
          /\ conn' = [c \in Conn |->
                IF c \notin Waiting(k) THEN conn[c]
                ELSE IF conn[c].kind = "ws" THEN Closing ELSE NoConnection]
          /\ UNCHANGED <<cache, served>>
    /\ UNCHANGED <<db, deleted, stale>>

Evict(k) ==
    /\ cache[k] # Null
    /\ Cardinality({j \in Key : cache[j] # Null}) > StoreCapacity
    /\ cache' = [cache EXCEPT ![k] = Null]
    /\ UNCHANGED <<db, deleted, load, open, conn, stale, served>>

write_response(c) ==
    /\ conn[c].phase = "respond"
    /\ conn' = [conn EXCEPT ![c] = IF @.kind = "ws" THEN [@ EXCEPT !.phase = "challenge"]
                                   ELSE NoConnection]
    /\ UNCHANGED <<db, deleted, cache, load, open, stale, served>>

(***************************************************************************)
(* The second round.                                                        *)
(***************************************************************************)
IsSorted(s) == \A i, j \in DOMAIN s : i <= j => s[i] <= s[j]

HasDuplicates_notChecked(s) == FALSE

(* dedup removes repeated neighbours of the sorted list. *)
HasDuplicates(s) == \E i \in 1 .. Len(s) - 1 : s[i] = s[i + 1]

ChallengeError(s) ==
    IF Len(s) # Threshold THEN "ThresholdContributingPartiesMissmatch"
    ELSE IF ~\E i \in DOMAIN s : s[i] = MyCoeff THEN "MissingMyCoefficient"
    ELSE IF ~IsSorted(s) THEN "ContributionsNotSorted"
    ELSE IF HasDuplicates(s) THEN "DuplicateCoefficients"
    ELSE "none"

(* The share of the snapshot, whatever the cache holds by now. *)
ProofEpoch_refetched(cn) == IF cache[cn.key] # Null THEN cache[cn.key].epoch ELSE cn.epoch

ProofEpoch(cn) == cn.epoch

challenge(c) ==
    /\ conn[c].phase = "challenge"
    /\ \E s \in Challenges :
          \/ /\ ChallengeError(s) # "none"
             /\ EndSession(c)
          \/ /\ ChallengeError(s) = "none"
             /\ conn' = [conn EXCEPT ![c] = [@ EXCEPT !.phase = "answer", !.parties = s,
                                                      !.proof = ProofEpoch(conn[c])]]
             /\ UNCHANGED <<db, deleted, cache, load, open, stale, served>>

(* The proof share is written and the session ends with success. *)
FinishSession(c) ==
    /\ conn[c].phase = "answer"
    /\ EndSession(c)

(***************************************************************************)
(* Timers.  tokio::time::timeout drops the session, in whatever phase it is, *)
(* unless the session finishes in the same poll.                            *)
(***************************************************************************)
Live(c) == conn[c].phase \notin {"idle", "closing"}

SessionTimeout_ofReads(c) ==
    /\ conn[c].phase \in {"request", "challenge"} /\ conn[c].left = 0
    /\ EndSession(c)

SessionTimeout(c) ==
    /\ Live(c) /\ conn[c].left = 0
    /\ EndSession(c)

(* The client answers the close frame or goes away, or                      *)
(* websocket_shutdown_timeout is over.                                      *)
teardown_websocket(c) ==
    /\ conn[c].phase = "closing"
    /\ conn' = [conn EXCEPT ![c] = NoConnection]
    /\ UNCHANGED <<db, deleted, cache, load, open, stale, served>>

Aged_idleOnly(entry) ==
    IF entry = Null \/ entry.tti = 1 THEN Null ELSE [entry EXCEPT !.tti = @ - 1]

(* A cache entry after one more tick. *)
Aged(entry) ==
    IF entry = Null \/ entry.ttl = 1 \/ entry.tti = 1 THEN Null
    ELSE [entry EXCEPT !.ttl = @ - 1, !.tti = @ - 1]

Tick ==
    /\ \A c \in Conn : conn[c].phase # "idle" => conn[c].left > 0
    /\ conn' = [c \in Conn |-> [conn[c] EXCEPT !.left = IF @ > 0 THEN @ - 1 ELSE 0]]
    /\ cache' = [k \in Key |-> Aged(cache[k])]
    /\ stale' = [k \in Key |-> [e \in Epoch |->
                   IF stale[k][e] \in 0 .. MaxStale THEN stale[k][e] + 1 ELSE stale[k][e]]]
    /\ UNCHANGED <<db, deleted, load, open, served>>

(***************************************************************************)
(* The rest of the world.                                                   *)
(***************************************************************************)
(* The key-gen process confirms the share of the next epoch, or deletes the *)
(* key: rows only move forward (KeyGenStore, SharesOnlyMoveForward).        *)
ConfirmShare(k) ==
    /\ k \notin deleted
    /\ db[k] < MaxEpoch
    /\ db' = [db EXCEPT ![k] = @ + 1]
    /\ stale' = IF db[k] = -1 THEN stale ELSE [stale EXCEPT ![k][db[k]] = 0]
    /\ UNCHANGED <<deleted, cache, load, open, conn, served>>

DeleteShare(k) ==
    /\ db[k] # -1 /\ k \notin deleted
    /\ deleted' = deleted \cup {k}
    /\ stale' = [stale EXCEPT ![k][db[k]] = 0]
    /\ UNCHANGED <<db, cache, load, open, conn, served>>

(* The process ends and starts again with nothing but the database. *)
Restart ==
    /\ cache' = [k \in Key |-> Null]
    /\ load' = [k \in Key |-> Null]
    /\ open' = {}
    /\ conn' = [c \in Conn |-> NoConnection]
    /\ UNCHANGED <<db, deleted, stale, served>>

SessionStep(c) ==
    \/ Connect(c) \/ oprf_ws_handler(c) \/ oprf_key_available(c)
    \/ insert_new_session(c) \/ authenticate(c) \/ try_get(c) \/ write_response(c)
    \/ challenge(c) \/ FinishSession(c) \/ SessionError(c)
    \/ SessionTimeout(c) \/ teardown_websocket(c)

Next ==
    \/ \E c \in Conn : SessionStep(c)
    \/ \E k \in Key : \/ get_oprf_key_material(k) \/ or_try_insert_with(k) \/ Evict(k)
                      \/ ConfirmShare(k) \/ DeleteShare(k)
    \/ Tick
    \/ Restart

Spec == Init /\ [][Next]_vars

(* Timers fire; nothing makes a client, the database or another session     *)
(* move.                                                                    *)
Fairness == WF_vars(Tick) /\ \A c \in Conn :
                WF_vars(SessionTimeout(c)) /\ WF_vars(conn[c].left = 0 /\ teardown_websocket(c))

LiveSpec == Spec /\ Fairness

-----------------------------------------------------------------------------
(* oprf.rs: "no two sessions with the same id must be handled at the same   *)
(* time".  The ids in OpenSessions are exactly the ones of the sessions in  *)
(* progress, each held by one of them: a rejected, failed or timed-out      *)
(* session frees its own id and nobody else's.                              *)
SessionIdsExclusive ==
    /\ open = {conn[c].id : c \in {d \in Conn : conn[d].id # Null}}
    /\ \A c, d \in Conn : conn[c].id # Null /\ conn[c].id = conn[d].id => c = d

(* Nobody tells the node of a reshare or a deletion.  Still no session or   *)
(* request is answered with an epoch that was replaced or deleted longer    *)
(* ago than the life of a cache entry and of the sessions around it.        *)
StalenessBounded ==
    \A c \in Conn :
        conn[c].phase \in {"respond", "challenge", "answer"} =>
            stale[conn[c].key][conn[c].epoch] <= MaxStale

(* Sessions see the epochs of a key in order: once one was given an epoch,  *)
(* no later one is given an earlier epoch, however loads, expiry, eviction  *)
(* and cancelled loads interleave.  The order is that in which the cache    *)
(* hits and ends loads, not that in which the tasks it answers then run.    *)
EpochsServedInOrder ==
    [][\A c \in Conn :
          conn[c].phase \in {"lookup", "loading"} /\ conn'[c].phase = "respond" =>
              conn'[c].epoch >= served[conn[c].key]]_vars

(* DLogSessionShamir::challenge requires that the contributing parties are  *)
(* "checked for duplicates", have "the correct number of parties" and       *)
(* contain this one; and the proof share is made with the share of the      *)
(* epoch the client was told, though the key may have been reshared or      *)
(* reloaded since.                                                          *)
AnswersAreSound ==
    \A c \in Conn :
        conn[c].phase = "answer" =>
            LET s == conn[c].parties
            IN  /\ Cardinality({s[i] : i \in DOMAIN s}) = Threshold
                /\ Len(s) = Threshold
                /\ MyCoeff \in {s[i] : i \in DOMAIN s}
                /\ \A i, j \in DOMAIN s : i < j => s[i] < s[j]
                /\ conn[c].proof = conn[c].epoch

(* Whatever the client does or fails to do, its session id becomes free.    *)
SessionsEnd == \A id \in SessionId : id \in open ~> id \notin open
=============================================================================
