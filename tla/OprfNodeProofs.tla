--------------------------- MODULE OprfNodeProofs ---------------------------
(***************************************************************************)
(* Proofs about OprfNode, for every number of connections, session ids and  *)
(* keys and every setting of the timers and of the cache.                   *)
(***************************************************************************)
EXTENDS OprfNode, FiniteSetTheorems, FunctionTheorems, TLAPS

(* The longest a connection lives before it is dropped. *)
MaxLife == Longer(SessionLifetime, HttpTimeout)

Keyed == {"lookup", "loading", "respond", "challenge", "answer"}

Given == {"respond", "challenge", "answer"}

(* A connection has an id only while it holds one, and is then a web        *)
(* socket: the response to a request for the public key frees no id.        *)
IdOk(cn) ==
    /\ cn.phase = "request" => cn.kind = "ws"
    /\ cn.id # Null => cn.kind = "ws" /\ cn.phase \in Keyed \cup {"auth"}

(* A live connection is dropped within MaxLife. *)
PhaseOk(cn) ==
    /\ cn.phase \in Keyed => cn.key \in Key
    /\ cn.phase \notin {"idle", "closing"} => cn.left <= MaxLife

(* How long a session may still live limits how stale its epoch may be. *)
GivenOk(cn) ==
    cn.phase \in Given =>
        /\ cn.epoch \in Epoch
        /\ stale[cn.key][cn.epoch] + cn.left <= MaxStale

(* AnswersAreSound for one connection. *)
AnswerOk(cn) ==
    cn.phase = "answer" =>
        /\ Cardinality({cn.parties[i] : i \in DOMAIN cn.parties}) = Threshold
        /\ Len(cn.parties) = Threshold
        /\ MyCoeff \in {cn.parties[i] : i \in DOMAIN cn.parties}
        /\ \A i, j \in DOMAIN cn.parties : i < j => cn.parties[i] < cn.parties[j]
        /\ cn.proof = cn.epoch

(* The epoch in use is not stale, nor is one yet to come. *)
StaleAt(k) ==
    \A e \in Epoch : e > db[k] \/ (e = db[k] /\ k \notin deleted) => stale[k][e] = -1

(* An entry of the cache: as stale as its age and the load that read it     *)
(* allow, and not behind what was served.                                   *)
CacheAt(k) ==
    cache[k] # Null =>
        /\ cache[k].ttl >= 1 /\ cache[k].tti >= 1
        /\ served[k] <= cache[k].epoch /\ cache[k].epoch <= db[k]
        /\ stale[k][cache[k].epoch] <= MaxLife + (StoreTtl - cache[k].ttl)

(* A load in flight: there is no entry, its owner waits for it, and what it *)
(* has read is as stale as the owner is old.                                *)
LoadAt(k) ==
    load[k] # Null =>
        /\ cache[k] = Null
        /\ conn[load[k].owner].phase = "loading" /\ conn[load[k].owner].key = k
        /\ load[k].result = "Ok" =>
              /\ load[k].epoch \in Epoch
              /\ served[k] <= load[k].epoch /\ load[k].epoch <= db[k]
              /\ stale[k][load[k].epoch] + conn[load[k].owner].left <= MaxLife

ConnOk(cn) == IdOk(cn) /\ PhaseOk(cn) /\ GivenOk(cn) /\ AnswerOk(cn)

ConnInv == \A c \in Conn : ConnOk(conn[c])

StoreInv == \A k \in Key : StaleAt(k) /\ served[k] <= db[k] /\ CacheAt(k) /\ LoadAt(k)

Inv ==
    /\ NodeTypeOK
    /\ SessionIdsExclusive
    /\ ConnInv
    /\ StoreInv

-----------------------------------------------------------------------------
(* The durations the proofs calculate with. *)
LEMMA Durations ==
    /\ MaxLife \in Nat /\ MaxStale \in Nat
    /\ SessionLifetime <= MaxLife /\ HttpTimeout <= MaxLife
    /\ MaxStale = MaxLife + (StoreTtl - 1) + MaxLife /\ MaxLife <= MaxStale
    /\ SessionLifetime \in 0 .. Longer(SessionLifetime, Longer(HttpTimeout, ShutdownTimeout))
    /\ HttpTimeout \in 0 .. Longer(SessionLifetime, Longer(HttpTimeout, ShutdownTimeout))
    /\ ShutdownTimeout \in 0 .. Longer(SessionLifetime, Longer(HttpTimeout, ShutdownTimeout))
    /\ Longer(SessionLifetime, Longer(HttpTimeout, ShutdownTimeout)) \in Nat
<1>1. {SessionLifetime, HttpTimeout, ShutdownTimeout, StoreTtl} \subseteq Nat \ {0}
  BY NodeAssumption
<1> QED
  BY <1>1 DEF MaxLife, MaxStale, Longer

(* What the invariant says of the values of the variables. *)
LEMMA Types ==
    ASSUME NodeTypeOK
    PROVE  /\ \A c \in Conn : conn[c] \in Connection
           /\ \A k \in Key : /\ db[k] \in {-1} \cup Epoch
                             /\ served[k] \in {-1} \cup Epoch
                             /\ cache[k] \in Entry \cup {Null}
                             /\ load[k] \in Load \cup {Null}
                             /\ \A e \in Epoch : stale[k][e] \in -1 .. MaxStale + 1
BY DEF NodeTypeOK

(* A connection that is closed, and one that is being closed. *)
LEMMA Closed ==
    /\ NoConnection \in Connection /\ Closing \in Connection
    /\ ConnOk(NoConnection) /\ ConnOk(Closing)
    /\ NoConnection.id = Null /\ Closing.id = Null
    /\ NoConnection.phase = "idle" /\ Closing.phase = "closing"
<1>1. << >> \in Challenges
  <2>1. << >> \in [1 .. 0 -> 1 .. MaxCoeff] /\ 0 \in 0 .. Threshold + 1
    BY NodeAssumption
  <2> QED
    BY <2>1 DEF Challenges
<1>2. NoConnection \in Connection /\ Closing \in Connection
  <2>1. 0 \in 0 .. Longer(SessionLifetime, Longer(HttpTimeout, ShutdownTimeout))
    BY Durations
  <2>2. NoConnection \in Connection
    BY <1>1, <2>1 DEF NoConnection, Connection, Phases, Versions
  <2>3. Closing \in Connection
    BY <2>2, Durations DEF Closing, Connection, Phases
  <2> QED
    BY <2>2, <2>3
<1>3. ConnOk(NoConnection) /\ ConnOk(Closing)
  BY DEF ConnOk, IdOk, PhaseOk, GivenOk, AnswerOk, NoConnection, Closing, Keyed, Given
<1> QED
  BY <1>2, <1>3 DEF NoConnection, Closing

-----------------------------------------------------------------------------
(* A step of one connection that is not loading a key and keeps its id.     *)
LEMMA ConnStep ==
    ASSUME Inv, NEW c \in Conn, NEW new \in Connection, ConnOk(new),
           conn[c].phase # "loading", new.id = conn[c].id,
           conn' = [conn EXCEPT ![c] = new],
           UNCHANGED <<db, deleted, cache, load, open, stale, served>>
    PROVE  Inv'
<1>1. NodeTypeOK /\ SessionIdsExclusive /\ ConnInv /\ StoreInv
  BY DEF Inv
<1>2. NodeTypeOK'
  BY <1>1 DEF NodeTypeOK
<1>3. \A d \in Conn : /\ conn'[d] = IF d = c THEN new ELSE conn[d]
                      /\ conn'[d].id = conn[d].id
  BY <1>1 DEF NodeTypeOK
<1>4. SessionIdsExclusive'
  BY <1>1, <1>3 DEF SessionIdsExclusive
<1>5. ConnInv'
  <2>1. ASSUME NEW d \in Conn PROVE ConnOk(conn[d])'
    <3>1. ConnOk(conn'[d])
      BY <1>1, <1>3 DEF ConnInv
    <3> QED
      BY <3>1 DEF ConnOk, IdOk, PhaseOk, GivenOk, AnswerOk
  <2> QED
    BY <2>1 DEF ConnInv
<1>6. StoreInv'
  <2>1. ASSUME NEW k \in Key PROVE LoadAt(k)'
    <3>1. load[k] # Null => load[k].owner \in Conn /\ load[k].owner # c
      BY <1>1, Types DEF StoreInv, LoadAt, Load
    <3> QED
      BY <1>1, <1>3, <3>1 DEF StoreInv, LoadAt
  <2> QED
    BY <1>1, <2>1 DEF StoreInv, StaleAt, CacheAt
<1> QED
  BY <1>2, <1>4, <1>5, <1>6 DEF Inv

(* A connection ends: its id is free again, its load is handed on, and      *)
(* nothing else changes.                                                    *)
LEMMA EndSessionInv ==
    ASSUME Inv, NEW c \in Conn, EndSession(c)
    PROVE  Inv'
<1> DEFINE new == IF conn[c].kind = "ws" THEN Closing ELSE NoConnection
<1>1. NodeTypeOK /\ SessionIdsExclusive /\ ConnInv /\ StoreInv
  BY DEF Inv
<1>2. /\ new \in Connection /\ ConnOk(new) /\ new.id = Null
      /\ new.phase \notin {"loading", "answer"}
  BY Closed
<1>3. \A d \in Conn : conn'[d] = IF d = c THEN new ELSE conn[d]
  BY <1>1 DEF NodeTypeOK, EndSession
<1> HIDE DEF new
<1>4. /\ DropLoad(c) /\ open' = open \ {conn[c].id}
      /\ UNCHANGED <<db, deleted, cache, stale, served>>
  BY DEF EndSession, Released
<1>5. ASSUME NEW k \in Key
      PROVE  /\ load'[k] \in Load \cup {Null}
             /\ \/ load'[k] = Null
                \/ load'[k] = load[k] /\ load[k].owner # c
                \/ /\ load'[k].owner \in Conn \ {c} /\ load[k] # Null
                   /\ conn[load'[k].owner].phase = "loading"
                   /\ conn[load'[k].owner].key = k
                   /\ load'[k].result = "unread"
  <2>1. load[k] # Null => conn[load[k].owner].phase = "loading" /\ conn[load[k].owner].key = k
    BY <1>1 DEF StoreInv, LoadAt
  <2>2. CASE conn[c].phase = "loading" /\ load[conn[c].key] # Null /\ load[conn[c].key].owner = c
    <3>1. CASE load' = [load EXCEPT ![conn[c].key] = Null]
      BY <1>1, <2>1, <2>2, <3>1 DEF NodeTypeOK
    <3>2. CASE \E w \in Waiting(conn[c].key) \ {c} :
                  load' = [load EXCEPT ![conn[c].key] =
                              [owner |-> w, result |-> "unread", epoch |-> -1]]
      <4>1. PICK w \in Waiting(conn[c].key) \ {c} :
                  load' = [load EXCEPT ![conn[c].key] =
                              [owner |-> w, result |-> "unread", epoch |-> -1]]
        BY <3>2
      <4>2. w \in Conn \ {c} /\ conn[w].phase = "loading" /\ conn[w].key = conn[c].key
        BY DEF Waiting
      <4>3. [owner |-> w, result |-> "unread", epoch |-> -1] \in Load
        BY <4>2 DEF Load, LoadResults
      <4> QED
        BY <1>1, <2>1, <2>2, <4>1, <4>2, <4>3 DEF NodeTypeOK
    <3> QED
      BY <1>4, <2>2, <3>1, <3>2 DEF DropLoad
  <2>3. CASE ~(conn[c].phase = "loading" /\ load[conn[c].key] # Null
                 /\ load[conn[c].key].owner = c)
    <3>1. load' = load
      BY <1>4, <2>3 DEF DropLoad
    <3> QED
      BY <1>1, <2>1, <2>3, <3>1, Types
  <2> QED
    BY <2>2, <2>3
<1>6. NodeTypeOK'
  <2>1. load' \in [Key -> Load \cup {Null}]
    <3>1. load' = [k \in Key |-> load'[k]]
      BY <1>1, <1>4 DEF NodeTypeOK, DropLoad
    <3> QED
      BY <1>5, <3>1
  <2>2. conn' \in [Conn -> Connection]
    BY <1>1, <1>2 DEF NodeTypeOK, EndSession, new
  <2> QED
    BY <1>1, <1>4, <2>1, <2>2 DEF NodeTypeOK
<1>7. SessionIdsExclusive'
  BY <1>1, <1>2, <1>3, <1>4 DEF SessionIdsExclusive
<1>8. ConnInv'
  <2>1. ASSUME NEW d \in Conn PROVE ConnOk(conn[d])'
    <3>1. ConnOk(conn'[d])
      BY <1>1, <1>2, <1>3 DEF ConnInv
    <3> QED
      BY <1>4, <3>1 DEF ConnOk, IdOk, PhaseOk, GivenOk, AnswerOk
  <2> QED
    BY <2>1 DEF ConnInv
<1>9. StoreInv'
  <2>1. ASSUME NEW k \in Key PROVE LoadAt(k)'
    <3>1. LoadAt(k) /\ load[k] \in Load \cup {Null}
      BY <1>1, Types DEF StoreInv
    <3>2. CASE load'[k] = load[k] /\ load[k].owner # c
      BY <1>3, <1>4, <3>1, <3>2 DEF LoadAt, Load
    <3>3. CASE load'[k] # load[k]
      BY <1>3, <1>4, <1>5, <3>1, <3>3 DEF LoadAt
    <3> QED
      BY <1>3, <1>4, <1>5, <3>1, <3>2, <3>3 DEF LoadAt
  <2> QED
    BY <1>1, <1>4, <2>1 DEF StoreInv, StaleAt, CacheAt
<1> QED
  BY <1>6, <1>7, <1>8, <1>9 DEF Inv

(* Sorted and without repeated neighbours: strictly increasing, so that the *)
(* parties are as many as the list is long.                                 *)
LEMMA ChallengeSound ==
    ASSUME NEW s \in Challenges, ChallengeError(s) = "none"
    PROVE  /\ Cardinality({s[i] : i \in DOMAIN s}) = Threshold
           /\ Len(s) = Threshold
           /\ MyCoeff \in {s[i] : i \in DOMAIN s}
           /\ \A i, j \in DOMAIN s : i < j => s[i] < s[j]
<1>1. PICK m \in 0 .. Threshold + 1 : s \in [1 .. m -> 1 .. MaxCoeff]
  BY DEF Challenges
<1>2. /\ Threshold \in Nat /\ MaxCoeff \in Nat /\ m \in Nat
      /\ DOMAIN s = 1 .. m /\ Len(s) = m
      /\ \A i \in 1 .. m : s[i] \in 1 .. MaxCoeff
  BY <1>1, NodeAssumption
<1>3. /\ m = Threshold
      /\ \E i \in 1 .. m : s[i] = MyCoeff
      /\ \A i, j \in 1 .. m : i <= j => s[i] <= s[j]
      /\ \A i \in 1 .. m - 1 : s[i] # s[i + 1]
  BY <1>2 DEF ChallengeError, IsSorted, HasDuplicates
<1>4. ASSUME NEW i \in 1 .. m, NEW j \in 1 .. m, i < j
      PROVE  s[i] < s[j]
  <2>1. i \in 1 .. m - 1 /\ i + 1 \in 1 .. m /\ i <= i + 1 /\ i + 1 <= j
    BY <1>2, <1>4
  <2>2. s[i] <= s[i + 1] /\ s[i + 1] <= s[j] /\ s[i] # s[i + 1]
    BY <1>3, <2>1
  <2> QED
    BY <1>2, <2>1, <2>2
<1>5. Cardinality({s[i] : i \in 1 .. m}) = m
  <2> DEFINE T == {s[i] : i \in 1 .. m}
  <2>1. s \in [1 .. m -> T] /\ \A t \in T : \E i \in 1 .. m : s[i] = t
    BY <1>1
  <2>2. \A i, j \in 1 .. m : s[i] = s[j] => i = j
    BY <1>2, <1>4
  <2>3. s \in Bijection(1 .. m, T)
    BY <2>1, <2>2, Fun_IsBij
  <2>4. ExistsBijection(1 .. m, T)
    BY <2>3 DEF ExistsBijection
  <2> QED
    BY <1>2, <2>4, FS_CountingElements
<1> QED
  BY <1>2, <1>3, <1>4, <1>5

(* The steps of a connection before it is given key material, and after.    *)
LEMMA SessionInv ==
    ASSUME Inv, NEW c \in Conn,
           \/ Connect(c) \/ oprf_ws_handler(c) \/ oprf_key_available(c) \/ authenticate(c)
           \/ write_response(c) \/ teardown_websocket(c)
    PROVE  Inv'
<1>1. conn \in [Conn -> Connection] /\ conn[c] \in Connection /\ ConnOk(conn[c])
  BY DEF Inv, NodeTypeOK, ConnInv
<1>2. SessionLifetime <= MaxLife /\ HttpTimeout <= MaxLife
  BY Durations
<1>3. CASE Connect(c)
  <2>1. PICK h, q \in Versions :
           /\ conn[c].phase = "idle"
           /\ conn' = [conn EXCEPT ![c] = [conn[c] EXCEPT !.phase = "upgrade",
                          !.left = SessionLifetime, !.header = h, !.query = q]]
           /\ UNCHANGED <<db, deleted, cache, load, open, stale, served>>
    BY <1>1, <1>3 DEF Connect
  <2> DEFINE new == [conn[c] EXCEPT !.phase = "upgrade", !.left = SessionLifetime,
                                    !.header = h, !.query = q]
  <2>2. new \in Connection /\ new.id = conn[c].id
    BY <1>1, Durations DEF Connection, Phases
  <2>3. ConnOk(new)
    BY <1>1, <1>2, <2>1 DEF ConnOk, IdOk, PhaseOk, GivenOk, AnswerOk, Keyed, Given, Connection
  <2> HIDE DEF new
  <2> QED
    BY <2>1, <2>2, <2>3, ConnStep DEF new
<1>4. CASE oprf_ws_handler(c)
  <2> DEFINE req == [NoConnection EXCEPT !.phase = "request", !.kind = "ws",
                                         !.left = SessionLifetime]
  <2>1. /\ conn[c].phase = "upgrade"
        /\ \/ conn' = [conn EXCEPT ![c] = req]
           \/ conn' = [conn EXCEPT ![c] = NoConnection]
        /\ UNCHANGED <<db, deleted, cache, load, open, stale, served>>
    BY <1>1, <1>4 DEF oprf_ws_handler
  <2>2. req \in Connection
    BY Closed, Durations DEF Connection, Phases
  <2>3. /\ req.phase = "request" /\ req.kind = "ws" /\ req.left = SessionLifetime
        /\ req.id = Null
    BY DEF NoConnection
  <2>4. ConnOk(req)
    BY <1>2, <2>3 DEF ConnOk, IdOk, PhaseOk, GivenOk, AnswerOk, Keyed, Given
  <2>5. conn[c].id = Null
    BY <1>1, <2>1 DEF ConnOk, IdOk, Keyed
  <2> HIDE DEF req
  <2> QED
    BY <2>1, <2>2, <2>3, <2>4, <2>5, Closed, ConnStep
<1>5. CASE oprf_key_available(c)
  <2>1. PICK k \in Key :
           /\ conn[c].phase = "idle"
           /\ conn' = [conn EXCEPT ![c] = [conn[c] EXCEPT !.phase = "lookup", !.key = k,
                                                          !.left = HttpTimeout]]
           /\ UNCHANGED <<db, deleted, cache, load, open, stale, served>>
    BY <1>1, <1>5 DEF oprf_key_available
  <2> DEFINE new == [conn[c] EXCEPT !.phase = "lookup", !.key = k, !.left = HttpTimeout]
  <2>2. new \in Connection /\ new.id = conn[c].id
    BY <1>1, Durations DEF Connection, Phases
  <2>3. ConnOk(new)
    BY <1>1, <1>2, <2>1 DEF ConnOk, IdOk, PhaseOk, GivenOk, AnswerOk, Keyed, Given, Connection
  <2> HIDE DEF new
  <2> QED
    BY <2>1, <2>2, <2>3, ConnStep DEF new
<1>6. CASE authenticate(c)
  <2>1. PICK k \in Key :
           /\ conn[c].phase = "auth"
           /\ conn' = [conn EXCEPT ![c] = [conn[c] EXCEPT !.phase = "lookup", !.key = k]]
           /\ UNCHANGED <<db, deleted, cache, load, open, stale, served>>
    BY <1>1, <1>6 DEF authenticate, Connection
  <2> DEFINE new == [conn[c] EXCEPT !.phase = "lookup", !.key = k]
  <2>2. new \in Connection /\ new.id = conn[c].id
    BY <1>1 DEF Connection, Phases
  <2>3. ConnOk(new)
    BY <1>1, <2>1 DEF ConnOk, IdOk, PhaseOk, GivenOk, AnswerOk, Keyed, Given, Connection
  <2> HIDE DEF new
  <2> QED
    BY <2>1, <2>2, <2>3, ConnStep DEF new
<1>7. CASE write_response(c)
  <2> DEFINE new == [conn[c] EXCEPT !.phase = "challenge"]
  <2>1. /\ conn[c].phase = "respond"
        /\ conn' = [conn EXCEPT ![c] = IF conn[c].kind = "ws" THEN new ELSE NoConnection]
        /\ UNCHANGED <<db, deleted, cache, load, open, stale, served>>
    BY <1>1, <1>7 DEF write_response
  <2>2. new \in Connection /\ new.id = conn[c].id
    BY <1>1 DEF Connection, Phases
  <2>3. ConnOk(new)
    BY <1>1, <2>1 DEF ConnOk, IdOk, PhaseOk, GivenOk, AnswerOk, Keyed, Given, Connection
  <2>4. conn[c].kind # "ws" => conn[c].id = Null
    BY <1>1 DEF ConnOk, IdOk
  <2> HIDE DEF new
  <2> QED
    BY <2>1, <2>2, <2>3, <2>4, Closed, ConnStep
<1>8. CASE teardown_websocket(c)
  <2>1. /\ conn[c].phase = "closing"
        /\ conn' = [conn EXCEPT ![c] = NoConnection]
        /\ UNCHANGED <<db, deleted, cache, load, open, stale, served>>
    BY <1>8 DEF teardown_websocket
  <2>2. conn[c].id = Null
    BY <1>1, <2>1 DEF ConnOk, IdOk, Keyed
  <2> QED
    BY <2>1, <2>2, Closed, ConnStep
<1> QED
  BY <1>3, <1>4, <1>5, <1>6, <1>7, <1>8

(* The second round answers a challenge that passed every check, with the   *)
(* epoch of the snapshot.                                                   *)
LEMMA ChallengeInv ==
    ASSUME Inv, NEW c \in Conn, challenge(c)
    PROVE  Inv'
<1>1. conn \in [Conn -> Connection] /\ conn[c] \in Connection /\ ConnOk(conn[c])
  BY DEF Inv, NodeTypeOK, ConnInv
<1>2. conn[c].phase = "challenge"
  BY DEF challenge
<1>3. ASSUME NEW s \in Challenges, ChallengeError(s) = "none",
             conn' = [conn EXCEPT ![c] = [conn[c] EXCEPT !.phase = "answer", !.parties = s,
                                                         !.proof = conn[c].epoch]],
             UNCHANGED <<db, deleted, cache, load, open, stale, served>>
      PROVE  Inv'
  <2> DEFINE new == [conn[c] EXCEPT !.phase = "answer", !.parties = s, !.proof = conn[c].epoch]
  <2>1. /\ new \in Connection /\ new.id = conn[c].id /\ new.kind = conn[c].kind
        /\ new.phase = "answer" /\ new.key = conn[c].key /\ new.left = conn[c].left
        /\ new.parties = s /\ new.proof = conn[c].epoch /\ new.epoch = conn[c].epoch
    BY <1>1 DEF Connection, Phases
  <2> HIDE DEF new
  <2>2. AnswerOk(new)
    BY <1>3, <2>1, ChallengeSound DEF AnswerOk
  <2>3. IdOk(new) /\ PhaseOk(new) /\ GivenOk(new)
    BY <1>1, <1>2, <2>1 DEF ConnOk, IdOk, PhaseOk, GivenOk, Keyed, Given
  <2> QED
    BY <1>2, <1>3, <2>1, <2>2, <2>3, ConnStep DEF ConnOk, new
<1> QED
  BY <1>1, <1>3, EndSessionInv DEF challenge, ProofEpoch

(* A session id is taken by one session at a time. *)
LEMMA InsertInv ==
    ASSUME Inv, NEW c \in Conn, insert_new_session(c)
    PROVE  Inv'
<1>1. /\ NodeTypeOK /\ SessionIdsExclusive /\ ConnInv /\ StoreInv
      /\ conn[c] \in Connection /\ ConnOk(conn[c])
  BY DEF Inv, NodeTypeOK, ConnInv
<1>2. ASSUME NEW id \in SessionId, id \notin open, open' = open \cup {id},
             conn' = [conn EXCEPT ![c] = [conn[c] EXCEPT !.phase = "auth", !.id = id]],
             UNCHANGED <<db, deleted, cache, load, stale, served>>
      PROVE  Inv'
  <2> DEFINE new == [conn[c] EXCEPT !.phase = "auth", !.id = id]
  <2>1. conn[c].phase = "request" /\ conn[c].id = Null /\ conn[c].kind = "ws"
    BY <1>1 DEF insert_new_session, ConnOk, IdOk, Keyed
  <2>2. /\ new \in Connection /\ new.phase = "auth" /\ new.id = id
        /\ new.kind = "ws" /\ new.left = conn[c].left
    BY <1>1, <2>1 DEF Connection, Phases
  <2>3. \A d \in Conn : conn'[d] = IF d = c THEN new ELSE conn[d]
    BY <1>1, <1>2 DEF NodeTypeOK
  <2> HIDE DEF new
  <2>4. NodeTypeOK'
    BY <1>1, <1>2, <2>2 DEF NodeTypeOK, new
  <2>5. SessionIdsExclusive'
    <3>1. \A d \in Conn : conn[d].id # id /\ id # Null
      BY <1>1, <1>2, NodeAssumption DEF SessionIdsExclusive
    <3> QED
      BY <1>1, <1>2, <2>1, <2>2, <2>3, <3>1 DEF SessionIdsExclusive
  <2>6. ConnInv'
    <3>1. ConnOk(new)
      BY <1>1, <2>1, <2>2 DEF ConnOk, IdOk, PhaseOk, GivenOk, AnswerOk, Keyed, Given
    <3>2. ASSUME NEW d \in Conn PROVE ConnOk(conn[d])'
      <4>1. ConnOk(conn'[d])
        BY <1>1, <2>3, <3>1 DEF ConnInv
      <4> QED
        BY <1>2, <4>1 DEF ConnOk, IdOk, PhaseOk, GivenOk, AnswerOk
    <3> QED
      BY <3>2 DEF ConnInv
  <2>7. StoreInv'
    <3>1. ASSUME NEW k \in Key PROVE LoadAt(k)'
      <4>1. load[k] # Null => load[k].owner \in Conn /\ load[k].owner # c
        BY <1>1, <2>1, Types DEF StoreInv, LoadAt, Load
      <4> QED
        BY <1>1, <1>2, <2>3, <4>1 DEF StoreInv, LoadAt
    <3> QED
      BY <1>1, <1>2, <3>1 DEF StoreInv, StaleAt, CacheAt
  <2> QED
    BY <2>4, <2>5, <2>6, <2>7 DEF Inv
<1>3. PICK id \in SessionId :
         IF id \in open
         THEN EndSession(c)
         ELSE /\ open' = open \cup {id}
              /\ conn' = [conn EXCEPT ![c].phase = "auth", ![c].id = id]
              /\ UNCHANGED <<db, deleted, cache, load, stale, served>>
  BY DEF insert_new_session
<1>4. [conn EXCEPT ![c].phase = "auth", ![c].id = id]
        = [conn EXCEPT ![c] = [conn[c] EXCEPT !.phase = "auth", !.id = id]]
  BY <1>1 DEF NodeTypeOK, Connection
<1> QED
  BY <1>2, <1>3, <1>4, EndSessionInv

-----------------------------------------------------------------------------
(* The invariant of a connection only reads the connection and stale. *)
LEMMA ConnKept ==
    ASSUME stale' = stale, \A d \in Conn : ConnOk(conn'[d])
    PROVE  ConnInv'
<1>1. ASSUME NEW d \in Conn PROVE ConnOk(conn[d])'
  <2>1. ConnOk(conn'[d])
    OBVIOUS
  <2> QED
    BY <2>1 DEF ConnOk, IdOk, PhaseOk, GivenOk, AnswerOk
<1> QED
  BY <1>1 DEF ConnInv

(* So do the ids in OpenSessions while no connection takes or frees one. *)
LEMMA IdsKept ==
    ASSUME SessionIdsExclusive, open' = open, \A d \in Conn : conn'[d].id = conn[d].id
    PROVE  SessionIdsExclusive'
BY DEF SessionIdsExclusive

(* What a connection is given. *)
LEMMA Commit ==
    ASSUME NEW cn \in Connection, NEW e \in Epoch, ConnOk(cn), cn.phase \in {"lookup", "loading"},
           stale[cn.key][e] \in Int,
           stale[cn.key][e] + MaxLife <= MaxStale
    PROVE  /\ partial_commit(cn, e) \in Connection /\ ConnOk(partial_commit(cn, e))
           /\ partial_commit(cn, e).id = cn.id
           /\ partial_commit(cn, e).phase = "respond" /\ partial_commit(cn, e).epoch = e
<1> DEFINE new == partial_commit(cn, e)
<1>1. /\ new \in Connection /\ new.id = cn.id /\ new.kind = cn.kind /\ new.phase = "respond"
      /\ new.key = cn.key /\ new.left = cn.left /\ new.epoch = e
  BY DEF Connection, Phases, partial_commit
<1>2. cn.left \in Nat /\ cn.left <= MaxLife
  <2>1. cn.left \in 0 .. Longer(SessionLifetime, Longer(HttpTimeout, ShutdownTimeout))
    BY DEF Connection
  <2> QED
    BY <2>1, Durations DEF ConnOk, PhaseOk
<1>3. stale[new.key][new.epoch] + new.left <= MaxStale
  BY <1>1, <1>2, Durations
<1> HIDE DEF new
<1>4. ConnOk(new)
  BY <1>1, <1>3 DEF ConnOk, IdOk, PhaseOk, GivenOk, AnswerOk, Keyed, Given
<1> QED
  BY <1>1, <1>4 DEF new

(* A lookup: a hit gives what is in the cache, a miss starts or joins the   *)
(* load.                                                                    *)
LEMMA TryGetInv ==
    ASSUME Inv, NEW c \in Conn, try_get(c)
    PROVE  Inv'
<1>1. /\ NodeTypeOK /\ SessionIdsExclusive /\ ConnInv /\ StoreInv
      /\ conn \in [Conn -> Connection] /\ conn[c] \in Connection /\ ConnOk(conn[c])
  BY DEF Inv, NodeTypeOK, ConnInv
<1>2. PICK k \in Key : k = conn[c].key
  BY <1>1 DEF try_get, ConnOk, PhaseOk, Keyed
<1>3. /\ conn[c].phase = "lookup" /\ StaleAt(k) /\ served[k] <= db[k] /\ CacheAt(k) /\ LoadAt(k)
      /\ UNCHANGED <<db, deleted, open, stale>>
  BY <1>1 DEF try_get, StoreInv
<1>4. \A j \in Key : load[j] # Null => load[j].owner \in Conn /\ load[j].owner # c
  BY <1>1, <1>3, Types DEF StoreInv, LoadAt, Load
<1>5. CASE cache[k] # Null
  <2> DEFINE e == cache[k].epoch
             new == partial_commit(conn[c], e)
  <2>1. /\ cache[k] \in Entry /\ e \in Epoch /\ served[k] <= e /\ e <= db[k]
        /\ stale[k][e] \in Int /\ stale[k][e] + MaxLife <= MaxStale
    <3>1. cache[k] \in Entry /\ e \in Epoch /\ cache[k].ttl \in 0 .. StoreTtl
      BY <1>1, <1>5, Types DEF Entry
    <3>2. /\ cache[k].ttl >= 1 /\ served[k] <= e /\ e <= db[k]
          /\ stale[k][e] <= MaxLife + (StoreTtl - cache[k].ttl)
      BY <1>3, <1>5 DEF CacheAt
    <3>3. stale[k][e] \in -1 .. MaxStale + 1
      BY <1>1, <3>1, Types
    <3> QED
      BY <3>1, <3>2, <3>3, Durations, NodeAssumption
  <2>2. /\ cache' = [cache EXCEPT ![k].tti = StoreTti] /\ load' = load /\ Give(k, {c}, e)
    BY <1>2, <1>5 DEF try_get
  <2>3. /\ new \in Connection /\ ConnOk(new) /\ new.id = conn[c].id /\ new.phase = "respond"
    BY <1>1, <1>2, <1>3, <2>1, Commit
  <2>4. /\ conn' = [d \in Conn |-> IF d = c THEN new ELSE conn[d]]
        /\ served' = [served EXCEPT ![k] = e]
    <3>1. Longer(served[k], e) = e
      BY <1>1, <2>1, Types DEF Longer, Epoch
    <3>2. served' = [served EXCEPT ![k] = Longer(served[k], e)]
      BY <1>1, <2>2 DEF Give, NodeTypeOK
    <3> QED
      BY <2>2, <3>1, <3>2 DEF Give
  <2>5. /\ \A j \in Key : j # k => cache'[j] = cache[j] /\ served'[j] = served[j]
        /\ cache'[k] = [cache[k] EXCEPT !.tti = StoreTti] /\ served'[k] = e
        /\ cache'[k] \in Entry /\ cache'[k].epoch = e /\ cache'[k].ttl = cache[k].ttl
        /\ cache'[k].tti >= 1
    BY <1>1, <2>1, <2>2, <2>4, NodeAssumption DEF NodeTypeOK, Entry
  <2>6. NodeTypeOK'
    <3>1. conn' \in [Conn -> Connection]
      BY <1>1, <2>3, <2>4
    <3>2. served' \in [Key -> {-1} \cup Epoch]
      BY <1>1, <2>1, <2>4 DEF NodeTypeOK
    <3>3. cache' \in [Key -> Entry \cup {Null}]
      BY <1>1, <2>2, <2>5 DEF NodeTypeOK
    <3> QED
      BY <1>1, <1>3, <2>2, <3>1, <3>2, <3>3 DEF NodeTypeOK
  <2> HIDE DEF new
  <2>7. SessionIdsExclusive'
    BY <1>1, <1>3, <2>3, <2>4, IdsKept
  <2>8. ConnInv'
    <3>1. \A d \in Conn : ConnOk(conn'[d])
      BY <1>1, <2>3, <2>4 DEF ConnInv
    <3> QED
      BY <1>3, <3>1, ConnKept
  <2>9. StoreInv'
    <3>1. load[k] = Null
      BY <1>3, <1>5 DEF LoadAt
    <3>2. ASSUME NEW j \in Key
          PROVE  CacheAt(j)' /\ LoadAt(j)' /\ (served[j] <= db[j])' /\ StaleAt(j)'
      <4>1. StaleAt(j)'
        BY <1>1, <1>3 DEF StoreInv, StaleAt
      <4>2. CASE j = k
        BY <1>3, <1>5, <2>1, <2>2, <2>5, <3>1, <4>1, <4>2 DEF CacheAt, LoadAt, Epoch
      <4>3. CASE j # k
        <5>1. CacheAt(j) /\ LoadAt(j) /\ served[j] <= db[j]
          BY <1>1 DEF StoreInv
        <5> QED
          BY <1>3, <1>4, <2>2, <2>4, <2>5, <4>1, <4>3, <5>1 DEF CacheAt, LoadAt
      <4> QED
        BY <4>2, <4>3
    <3> QED
      BY <3>2 DEF StoreInv
  <2> QED
    BY <2>6, <2>7, <2>8, <2>9 DEF Inv
<1>6. CASE cache[k] = Null
  <2> DEFINE new == [conn[c] EXCEPT !.phase = "loading"]
             mine == [owner |-> c, result |-> "unread", epoch |-> -1]
  <2>1. /\ conn' = [conn EXCEPT ![c] = new]
        /\ load' = [load EXCEPT ![k] = IF load[k] # Null THEN load[k] ELSE mine]
        /\ cache' = cache /\ served' = served
    BY <1>1, <1>2, <1>6 DEF try_get, NodeTypeOK, Connection
  <2>2. /\ new \in Connection /\ new.id = conn[c].id /\ new.phase = "loading" /\ new.key = k
        /\ new.left = conn[c].left /\ new.kind = conn[c].kind
    BY <1>1, <1>2 DEF Connection, Phases
  <2>3. mine \in Load /\ mine.owner = c /\ mine.result = "unread"
    BY DEF Load, LoadResults
  <2>4. NodeTypeOK'
    BY <1>1, <1>3, <2>1, <2>2, <2>3 DEF NodeTypeOK
  <2> HIDE DEF new, mine
  <2>5. \A d \in Conn : conn'[d] = IF d = c THEN new ELSE conn[d]
    BY <1>1, <2>1
  <2>6. SessionIdsExclusive'
    BY <1>1, <1>3, <2>2, <2>5, IdsKept
  <2>7. ConnInv'
    <3>1. ConnOk(new)
      BY <1>1, <1>3, <2>2 DEF ConnOk, IdOk, PhaseOk, GivenOk, AnswerOk, Keyed, Given
    <3>2. \A d \in Conn : ConnOk(conn'[d])
      BY <1>1, <2>5, <3>1 DEF ConnInv
    <3> QED
      BY <1>3, <3>2, ConnKept
  <2>8. StoreInv'
    <3>1. ASSUME NEW j \in Key PROVE LoadAt(j)'
      <4>1. LoadAt(j) /\ load'[j] = IF j = k /\ load[k] = Null THEN mine ELSE load[j]
        BY <1>1, <2>1 DEF StoreInv, NodeTypeOK
      <4>2. CASE j = k /\ load[k] = Null
        BY <1>6, <2>1, <2>2, <2>3, <2>5, <4>1, <4>2, NullAssumption DEF LoadAt
      <4>3. CASE ~(j = k /\ load[k] = Null)
        BY <1>3, <1>4, <2>1, <2>5, <4>1, <4>3 DEF LoadAt
      <4> QED
        BY <4>2, <4>3
    <3> QED
      BY <1>1, <1>3, <2>1, <3>1 DEF StoreInv, StaleAt, CacheAt
  <2> QED
    BY <2>4, <2>6, <2>7, <2>8 DEF Inv
<1> QED
  BY <1>5, <1>6

(* The query of the database reads what is in use at that moment. *)
LEMMA ReadInv ==
    ASSUME Inv, NEW k \in Key, get_oprf_key_material(k)
    PROVE  Inv'
<1>1. NodeTypeOK /\ SessionIdsExclusive /\ ConnInv /\ StoreInv
  BY DEF Inv
<1>2. PICK result \in {"Internal", "UnknownOprfKeyId", "DeletedOprfKeyId", "Ok"} :
         /\ result = "Ok" => db[k] # -1 /\ k \notin deleted
         /\ load' = [load EXCEPT ![k].result = result,
                                 ![k].epoch = IF result = "Ok" THEN db[k] ELSE -1]
  BY DEF get_oprf_key_material
<1>3. /\ load[k] # Null /\ UNCHANGED <<db, deleted, cache, open, conn, stale, served>>
  BY DEF get_oprf_key_material
<1> DEFINE e == IF result = "Ok" THEN db[k] ELSE -1
           new == [load[k] EXCEPT !.result = result, !.epoch = e]
<1>4. load[k] \in Load /\ db[k] \in {-1} \cup Epoch /\ e \in {-1} \cup Epoch
  BY <1>1, <1>3, Types
<1>5. /\ new \in Load /\ new.owner = load[k].owner /\ new.result = result /\ new.epoch = e
  BY <1>4 DEF Load, LoadResults
<1>6. load' = [load EXCEPT ![k] = new]
  BY <1>1, <1>2, <1>4 DEF NodeTypeOK, Load
<1>7. NodeTypeOK'
  BY <1>1, <1>3, <1>5, <1>6 DEF NodeTypeOK
<1> HIDE DEF new
<1>8. SessionIdsExclusive' /\ ConnInv'
  BY <1>1, <1>3, IdsKept, ConnKept DEF ConnInv
<1>9. ASSUME NEW j \in Key PROVE LoadAt(j)'
  <2>1. LoadAt(j) /\ StaleAt(j) /\ served[j] <= db[j]
    BY <1>1 DEF StoreInv
  <2>2. CASE j # k
    BY <1>1, <1>3, <1>6, <2>1, <2>2 DEF LoadAt, NodeTypeOK
  <2>3. CASE j = k
    <3>1. load'[k] = new /\ new # Null
      BY <1>1, <1>5, <1>6, NullAssumption DEF NodeTypeOK
    <3>2. /\ cache[k] = Null
          /\ conn[load[k].owner].phase = "loading" /\ conn[load[k].owner].key = k
      BY <1>3, <2>1, <2>3 DEF LoadAt
    <3>3. conn[load[k].owner].left <= MaxLife /\ conn[load[k].owner].left \in Nat
      <4>1. load[k].owner \in Conn
        BY <1>4 DEF Load
      <4>2. /\ ConnOk(conn[load[k].owner])
            /\ conn[load[k].owner].left
                 \in 0 .. Longer(SessionLifetime, Longer(HttpTimeout, ShutdownTimeout))
        BY <1>1, <4>1, Types DEF ConnInv, Connection
      <4> QED
        BY <3>2, <4>2, Durations DEF ConnOk, PhaseOk
    <3>4. CASE result = "Ok"
      <4>1. e = db[k] /\ e \in Epoch /\ stale[k][e] = -1 /\ served[k] <= e /\ e <= db[k]
        BY <1>2, <1>4, <2>1, <2>3, <3>4 DEF StaleAt, Epoch
      <4>2. stale[k][e] + conn[load[k].owner].left <= MaxLife
        BY <3>3, <4>1, Durations
      <4> QED
        BY <1>3, <1>5, <2>3, <3>1, <3>2, <4>1, <4>2 DEF LoadAt
    <3>5. CASE result # "Ok"
      BY <1>3, <1>5, <2>3, <3>1, <3>2, <3>5 DEF LoadAt
    <3> QED
      BY <3>4, <3>5
  <2> QED
    BY <2>2, <2>3
<1>10. StoreInv'
  BY <1>1, <1>3, <1>9 DEF StoreInv, StaleAt, CacheAt
<1> QED
  BY <1>7, <1>8, <1>10 DEF Inv

(* The result of a load: key material enters the cache and is given to all  *)
(* who wait; an error ends them all.                                        *)
LEMMA InsertEntryInv ==
    ASSUME Inv, NEW k \in Key, or_try_insert_with(k)
    PROVE  Inv'
<1>1. NodeTypeOK /\ SessionIdsExclusive /\ ConnInv /\ StoreInv
  BY DEF Inv
<1>2. /\ load[k] # Null /\ load[k] \in Load /\ load' = [load EXCEPT ![k] = Null]
      /\ UNCHANGED <<db, deleted, stale>>
  BY <1>1, Types DEF or_try_insert_with
<1>3. /\ cache[k] = Null /\ load[k].owner \in Conn
      /\ LoadAt(k) /\ StaleAt(k) /\ served[k] <= db[k]
  BY <1>1, <1>2 DEF StoreInv, LoadAt, Load
<1>4. ASSUME NEW j \in Key, j # k, load[j] # Null
      PROVE  load[j].owner \in Conn /\ load[j].owner \notin Waiting(k)
  BY <1>1, <1>4, Types DEF StoreInv, LoadAt, Load, Waiting
<1>5. \A c \in Waiting(k) : /\ c \in Conn /\ conn[c] \in Connection /\ ConnOk(conn[c])
                            /\ conn[c].phase = "loading" /\ conn[c].key = k
  BY <1>1, Types DEF Waiting, ConnInv
<1>6. CASE load[k].result = "Ok"
  <2> DEFINE e == load[k].epoch
             entry == [epoch |-> e, ttl |-> StoreTtl, tti |-> StoreTti]
  <2>1. /\ e \in Epoch /\ served[k] <= e /\ e <= db[k]
        /\ stale[k][e] \in Int /\ stale[k][e] <= MaxLife /\ stale[k][e] + MaxLife <= MaxStale
    <3>1. /\ e \in Epoch /\ served[k] <= e /\ e <= db[k]
          /\ stale[k][e] + conn[load[k].owner].left <= MaxLife
      BY <1>2, <1>3, <1>6 DEF LoadAt
    <3>2. /\ stale[k][e] \in -1 .. MaxStale + 1
          /\ conn[load[k].owner].left
               \in 0 .. Longer(SessionLifetime, Longer(HttpTimeout, ShutdownTimeout))
      BY <1>1, <1>3, <3>1, Types DEF Connection
    <3> QED
      BY <3>1, <3>2, Durations, NodeAssumption
  <2>2. /\ cache' = [cache EXCEPT ![k] = entry] /\ Give(k, Waiting(k), e) /\ open' = open
    BY <1>6 DEF or_try_insert_with
  <2>3. entry \in Entry /\ entry.epoch = e /\ entry.ttl = StoreTtl /\ entry.tti = StoreTti
    BY <2>1, NodeAssumption DEF Entry
  <2> HIDE DEF entry
  <2>4. \A d \in Conn :
           IF d \in Waiting(k) THEN conn'[d] = partial_commit(conn[d], e) ELSE conn'[d] = conn[d]
    BY <2>2 DEF Give
  <2>5. \A d \in Conn : conn'[d] \in Connection /\ ConnOk(conn'[d]) /\ conn'[d].id = conn[d].id
    <3>1. ASSUME NEW d \in Waiting(k)
          PROVE  /\ partial_commit(conn[d], e) \in Connection
                 /\ ConnOk(partial_commit(conn[d], e))
                 /\ partial_commit(conn[d], e).id = conn[d].id
      BY <1>5, <2>1, Commit
    <3> QED
      BY <1>1, <2>4, <3>1, Types DEF ConnInv
  <2>6. /\ served' \in [Key -> {-1} \cup Epoch]
        /\ \A j \in Key : j # k => served'[j] = served[j]
        /\ served'[k] <= e
    <3>1. Longer(served[k], e) = e /\ served[k] \in {-1} \cup Epoch
      BY <1>1, <2>1, Types DEF Longer, Epoch
    <3>2. served' = [served EXCEPT ![k] = IF Waiting(k) # {} THEN e ELSE served[k]]
      BY <1>1, <2>2, <3>1 DEF Give, NodeTypeOK
    <3> QED
      BY <1>1, <2>1, <3>1, <3>2 DEF NodeTypeOK, Epoch
  <2>7. NodeTypeOK'
    <3>1. conn' \in [Conn -> Connection]
      BY <2>2, <2>5 DEF Give
    <3> QED
      BY <1>1, <1>2, <2>2, <2>3, <2>6, <3>1 DEF NodeTypeOK
  <2>8. SessionIdsExclusive' /\ ConnInv'
    BY <1>1, <1>2, <2>2, <2>5, IdsKept, ConnKept
  <2>9. ASSUME NEW j \in Key
        PROVE  CacheAt(j)' /\ LoadAt(j)' /\ (served[j] <= db[j])' /\ StaleAt(j)'
    <3>1. StaleAt(j)'
      BY <1>1, <1>2 DEF StoreInv, StaleAt
    <3>2. CASE j = k
      <4>1. cache'[k] = entry /\ load'[k] = Null
        BY <1>1, <1>2, <2>2 DEF NodeTypeOK
      <4>2. CacheAt(k)'
        BY <1>2, <2>1, <2>3, <2>6, <4>1, Durations, NodeAssumption DEF CacheAt
      <4>3. served'[k] <= db'[k]
        BY <1>1, <1>2, <2>1, <2>6, Types DEF Epoch
      <4> QED
        BY <3>1, <3>2, <4>1, <4>2, <4>3 DEF LoadAt
    <3>3. CASE j # k
      <4>1. CacheAt(j) /\ LoadAt(j) /\ served[j] <= db[j]
        BY <1>1 DEF StoreInv
      <4>2. cache'[j] = cache[j] /\ load'[j] = load[j] /\ served'[j] = served[j]
        BY <1>1, <1>2, <2>2, <2>6, <3>3 DEF NodeTypeOK
      <4>3. load[j] # Null => conn'[load[j].owner] = conn[load[j].owner]
        BY <1>4, <2>4, <3>3
      <4> QED
        BY <1>2, <3>1, <4>1, <4>2, <4>3 DEF CacheAt, LoadAt
    <3> QED
      BY <3>2, <3>3
  <2> QED
    BY <2>7, <2>8, <2>9 DEF Inv, StoreInv
<1>7. CASE load[k].result # "Ok"
  <2>1. /\ open' = open \ {conn[c].id : c \in Waiting(k)}
        /\ conn' = [c \in Conn |->
              IF c \notin Waiting(k) THEN conn[c]
              ELSE IF conn[c].kind = "ws" THEN Closing ELSE NoConnection]
        /\ cache' = cache /\ served' = served
    BY <1>7 DEF or_try_insert_with
  <2>2. \A d \in Conn : /\ conn'[d] \in Connection /\ ConnOk(conn'[d])
                        /\ conn'[d].id = IF d \in Waiting(k) THEN Null ELSE conn[d].id
                        /\ d \notin Waiting(k) => conn'[d] = conn[d]
    BY <1>1, <2>1, Closed, Types DEF ConnInv
  <2>3. NodeTypeOK'
    <3>1. conn' \in [Conn -> Connection]
      BY <2>1, <2>2
    <3> QED
      BY <1>1, <1>2, <2>1, <3>1 DEF NodeTypeOK
  <2>4. SessionIdsExclusive'
    <3>1. /\ open = {conn[c].id : c \in {d \in Conn : conn[d].id # Null}}
          /\ \A c, d \in Conn : conn[c].id # Null /\ conn[c].id = conn[d].id => c = d
      BY <1>1 DEF SessionIdsExclusive
    <3>2. \A c, d \in Conn : conn'[c].id # Null /\ conn'[c].id = conn'[d].id => c = d
      BY <2>2, <3>1
    <3>3. ASSUME NEW x
          PROVE  x \in open' <=> \E c \in Conn : conn'[c].id # Null /\ x = conn'[c].id
      <4>1. ASSUME x \in open'
            PROVE  \E c \in Conn : conn'[c].id # Null /\ x = conn'[c].id
        BY <2>1, <2>2, <3>1, <4>1
      <4>2. ASSUME NEW c \in Conn, conn'[c].id # Null, x = conn'[c].id
            PROVE  x \in open'
        <5>1. c \notin Waiting(k) /\ x = conn[c].id /\ x \in open
          BY <2>2, <3>1, <4>2
        <5>2. ASSUME NEW d \in Waiting(k), x = conn[d].id PROVE FALSE
          BY <1>5, <3>1, <4>2, <5>1, <5>2
        <5> QED
          BY <2>1, <5>1, <5>2
      <4> QED
        BY <4>1, <4>2
    <3> QED
      BY <3>2, <3>3 DEF SessionIdsExclusive
  <2>5. ConnInv'
    BY <1>2, <2>2, ConnKept
  <2>6. ASSUME NEW j \in Key PROVE LoadAt(j)'
    <3>1. CASE j = k
      BY <1>1, <1>2, <3>1 DEF LoadAt, NodeTypeOK
    <3>2. CASE j # k
      <4>1. LoadAt(j) /\ load'[j] = load[j]
        BY <1>1, <1>2, <3>2 DEF StoreInv, NodeTypeOK
      <4>2. load[j] # Null => conn'[load[j].owner] = conn[load[j].owner]
        BY <1>4, <2>2, <3>2
      <4> QED
        BY <1>2, <2>1, <4>1, <4>2 DEF LoadAt
    <3> QED
      BY <3>1, <3>2
  <2>7. StoreInv'
    BY <1>1, <1>2, <2>1, <2>6 DEF StoreInv, StaleAt, CacheAt
  <2> QED
    BY <2>3, <2>4, <2>5, <2>7 DEF Inv
<1> QED
  BY <1>6, <1>7

(* An evicted entry is not missed. *)
LEMMA EvictInv ==
    ASSUME Inv, NEW k \in Key, Evict(k)
    PROVE  Inv'
<1>1. NodeTypeOK /\ SessionIdsExclusive /\ ConnInv /\ StoreInv
  BY DEF Inv
<1>2. /\ cache[k] # Null /\ cache' = [cache EXCEPT ![k] = Null]
      /\ UNCHANGED <<db, deleted, load, open, conn, stale, served>>
  BY DEF Evict
<1>3. NodeTypeOK'
  BY <1>1, <1>2 DEF NodeTypeOK
<1>4. SessionIdsExclusive' /\ ConnInv'
  BY <1>1, <1>2, IdsKept, ConnKept DEF ConnInv
<1>5. \A j \in Key : cache'[j] = Null \/ cache'[j] = cache[j]
  BY <1>1, <1>2 DEF NodeTypeOK
<1>6. StoreInv'
  BY <1>1, <1>2, <1>5 DEF StoreInv, StaleAt, CacheAt, LoadAt
<1> QED
  BY <1>3, <1>4, <1>6 DEF Inv

-----------------------------------------------------------------------------
(* How long a connection that is not over may still live. *)
LEMMA LeftBound ==
    ASSUME Inv, NEW c \in Conn
    PROVE  /\ conn[c].left \in Nat
           /\ conn[c].phase \notin {"idle", "closing"} => conn[c].left <= MaxLife
<1>1. /\ conn[c].left \in 0 .. Longer(SessionLifetime, Longer(HttpTimeout, ShutdownTimeout))
      /\ PhaseOk(conn[c])
  BY Types DEF Inv, Connection, ConnInv, ConnOk
<1> QED
  BY <1>1, Durations DEF PhaseOk

(* Rows move forward: what is no longer in use begins to be stale. *)
LEMMA RetireInv ==
    ASSUME Inv, NodeTypeOK', UNCHANGED <<cache, load, open, conn, served>>,
           \A j \in Key : db[j] <= db'[j] /\ StaleAt(j)',
           \A j \in Key, e \in Epoch : stale'[j][e] = stale[j][e] \/ stale'[j][e] = 0
    PROVE  Inv'
<1>1. NodeTypeOK /\ SessionIdsExclusive /\ ConnInv /\ StoreInv
  BY DEF Inv
<1>2. SessionIdsExclusive'
  BY <1>1, IdsKept
<1>3. ASSUME NEW c \in Conn PROVE ConnOk(conn[c])'
  <2>1. ConnOk(conn[c])
    BY <1>1 DEF ConnInv
  <2>2. GivenOk(conn[c])'
    <3>1. CASE conn[c].phase \in Given
      <4>1. /\ conn[c].key \in Key /\ conn[c].epoch \in Epoch
            /\ stale[conn[c].key][conn[c].epoch] + conn[c].left <= MaxStale
        BY <2>1, <3>1 DEF ConnOk, PhaseOk, GivenOk, Keyed, Given
      <4>2. conn[c].left \in Nat /\ conn[c].left <= MaxLife
        BY <3>1, LeftBound DEF Given
      <4>3. 0 + conn[c].left <= MaxStale
        BY <4>2, Durations
      <4>4. stale'[conn[c].key][conn[c].epoch] + conn[c].left <= MaxStale
        BY <4>1, <4>3
      <4> QED
        BY <4>1, <4>4 DEF GivenOk
    <3>2. CASE conn[c].phase \notin Given
      BY <3>2 DEF GivenOk
    <3> QED
      BY <3>1, <3>2
  <2> QED
    BY <2>1, <2>2 DEF ConnOk, IdOk, PhaseOk, AnswerOk
<1>4. ASSUME NEW j \in Key PROVE CacheAt(j)' /\ LoadAt(j)' /\ (served[j] <= db[j])'
  <2>1. CacheAt(j) /\ LoadAt(j) /\ served[j] <= db[j] /\ db[j] <= db'[j]
    BY <1>1 DEF StoreInv
  <2>2. db[j] \in Int /\ db'[j] \in Int /\ served[j] \in Int
    BY <1>1, Types DEF NodeTypeOK, Epoch
  <2>3. CacheAt(j)'
    <3>1. CASE cache[j] # Null
      <4>1. cache[j] \in Entry /\ cache[j].epoch \in Epoch /\ cache[j].ttl \in 0 .. StoreTtl
        BY <1>1, <3>1, Types DEF Entry
      <4>2. 0 <= MaxLife + (StoreTtl - cache[j].ttl)
        BY <4>1, Durations, NodeAssumption
      <4>3. stale'[j][cache[j].epoch] <= MaxLife + (StoreTtl - cache[j].ttl)
        BY <2>1, <3>1, <4>1, <4>2 DEF CacheAt
      <4>4. cache[j].epoch <= db'[j]
        BY <2>1, <2>2, <3>1, <4>1 DEF CacheAt, Epoch
      <4> QED
        BY <2>1, <3>1, <4>3, <4>4 DEF CacheAt
    <3>2. CASE cache[j] = Null
      BY <3>2 DEF CacheAt
    <3> QED
      BY <3>1, <3>2
  <2>4. LoadAt(j)'
    <3>1. CASE load[j] # Null /\ load[j].result = "Ok"
      <4>1. /\ load[j].owner \in Conn /\ load[j].epoch \in Epoch
            /\ conn[load[j].owner].phase = "loading"
        BY <1>1, <2>1, <3>1, Types DEF LoadAt, Load
      <4>2. 0 + conn[load[j].owner].left <= MaxLife
        BY <4>1, LeftBound
      <4>3. stale'[j][load[j].epoch] + conn[load[j].owner].left <= MaxLife
        BY <2>1, <3>1, <4>1, <4>2 DEF LoadAt
      <4>4. load[j].epoch <= db'[j]
        BY <2>1, <2>2, <3>1, <4>1 DEF LoadAt, Epoch
      <4> QED
        BY <2>1, <3>1, <4>3, <4>4 DEF LoadAt
    <3>2. CASE ~(load[j] # Null /\ load[j].result = "Ok")
      BY <2>1, <3>2 DEF LoadAt
    <3> QED
      BY <3>1, <3>2
  <2> QED
    BY <2>1, <2>2, <2>3, <2>4
<1> QED
  BY <1>2, <1>3, <1>4 DEF Inv, ConnInv, StoreInv

(* The key-gen process confirms the next epoch, or deletes the key. *)
LEMMA DatabaseInv ==
    ASSUME Inv, NEW k \in Key, ConfirmShare(k) \/ DeleteShare(k)
    PROVE  Inv'
<1>1. NodeTypeOK /\ \A j \in Key : StaleAt(j)
  BY DEF Inv, StoreInv
<1>2. /\ UNCHANGED <<cache, load, open, conn, served>>
      /\ db[k] \in {-1} \cup Epoch /\ MaxEpoch \in Nat
  BY <1>1, Types, NodeAssumption DEF ConfirmShare, DeleteShare
<1>3. 0 \in -1 .. MaxStale + 1
  BY Durations
<1>4. \/ stale' = stale
      \/ db[k] \in Epoch /\ stale' = [stale EXCEPT ![k] = [stale[k] EXCEPT ![db[k]] = 0]]
  BY <1>1, <1>2 DEF ConfirmShare, DeleteShare, NodeTypeOK
<1>5. /\ stale' \in [Key -> [Epoch -> -1 .. MaxStale + 1]]
      /\ \A j \in Key, e \in Epoch : \/ stale'[j][e] = stale[j][e]
                                     \/ stale'[j][e] = 0 /\ j = k /\ e = db[k]
  <2>1. /\ stale \in [Key -> [Epoch -> -1 .. MaxStale + 1]]
        /\ stale[k] \in [Epoch -> -1 .. MaxStale + 1]
    BY <1>1 DEF NodeTypeOK
  <2>2. CASE stale' = stale
    BY <2>1, <2>2
  <2>3. CASE db[k] \in Epoch /\ stale' = [stale EXCEPT ![k] = [stale[k] EXCEPT ![db[k]] = 0]]
    <3> DEFINE row == [stale[k] EXCEPT ![db[k]] = 0]
    <3>1. row \in [Epoch -> -1 .. MaxStale + 1]
      BY <1>3, <2>1
    <3>2. \A e \in Epoch : row[e] = IF e = db[k] THEN 0 ELSE stale[k][e]
      BY <2>1
    <3>3. stale' = [stale EXCEPT ![k] = row]
      BY <2>3
    <3> HIDE DEF row
    <3>4. stale' \in [Key -> [Epoch -> -1 .. MaxStale + 1]]
      BY <2>1, <3>1, <3>3
    <3>5. \A j \in Key : stale'[j] = IF j = k THEN row ELSE stale[j]
      BY <2>1, <3>3
    <3> QED
      BY <3>2, <3>4, <3>5
  <2> QED
    BY <1>4, <2>2, <2>3
<1>6. CASE ConfirmShare(k)
  <2>1. /\ k \notin deleted /\ db[k] < MaxEpoch /\ db' = [db EXCEPT ![k] = db[k] + 1]
        /\ deleted' = deleted
    BY <1>6 DEF ConfirmShare
  <2>2. db[k] + 1 \in Epoch /\ db[k] < db[k] + 1 /\ db[k] \in Int
    BY <1>2, <2>1 DEF Epoch
  <2>3. NodeTypeOK'
    BY <1>1, <1>2, <1>5, <2>1, <2>2 DEF NodeTypeOK
  <2>4. ASSUME NEW j \in Key PROVE db[j] <= db'[j] /\ StaleAt(j)'
    <3>1. db'[j] = (IF j = k THEN db[k] + 1 ELSE db[j]) /\ db[j] \in Int
      BY <1>1, <2>1, Types DEF NodeTypeOK, Epoch
    <3>2. ASSUME NEW e \in Epoch, e > db'[j] \/ (e = db'[j] /\ j \notin deleted')
          PROVE  stale'[j][e] = -1
      <4>1. (e > db[j] \/ (e = db[j] /\ j \notin deleted)) /\ (j = k => e # db[k])
        BY <2>1, <2>2, <3>1, <3>2 DEF Epoch
      <4>2. stale[j][e] = -1
        BY <1>1, <4>1 DEF StaleAt
      <4> QED
        BY <1>5, <4>1, <4>2
    <3> QED
      BY <2>2, <3>1, <3>2 DEF StaleAt
  <2> QED
    BY <1>2, <1>5, <2>3, <2>4, RetireInv
<1>7. CASE DeleteShare(k)
  <2>1. db' = db /\ deleted' = deleted \cup {k}
    BY <1>7 DEF DeleteShare
  <2>2. NodeTypeOK'
    BY <1>1, <1>2, <1>5, <2>1 DEF NodeTypeOK
  <2>3. ASSUME NEW j \in Key PROVE db[j] <= db'[j] /\ StaleAt(j)'
    <3>1. db[j] \in Int
      BY <1>1, Types DEF Epoch
    <3>2. ASSUME NEW e \in Epoch, e > db'[j] \/ (e = db'[j] /\ j \notin deleted')
          PROVE  stale'[j][e] = -1
      <4>1. (e > db[j] \/ (e = db[j] /\ j \notin deleted)) /\ (j = k => e # db[k])
        BY <2>1, <3>1, <3>2 DEF Epoch
      <4>2. stale[j][e] = -1
        BY <1>1, <4>1 DEF StaleAt
      <4> QED
        BY <1>5, <4>1, <4>2
    <3> QED
      BY <2>1, <3>1, <3>2 DEF StaleAt
  <2> QED
    BY <1>2, <1>5, <2>2, <2>3, RetireInv
<1> QED
  BY <1>6, <1>7

(* The process starts again with nothing but the database. *)
LEMMA RestartInv ==
    ASSUME Inv, Restart
    PROVE  Inv'
<1>1. NodeTypeOK /\ StoreInv
  BY DEF Inv
<1>2. NodeTypeOK'
  BY <1>1, Closed DEF NodeTypeOK, Restart
<1>3. SessionIdsExclusive'
  BY Closed DEF SessionIdsExclusive, Restart
<1>4. ConnInv'
  <2>1. stale' = stale /\ \A d \in Conn : ConnOk(conn'[d])
    BY Closed DEF Restart
  <2> QED
    BY <2>1, ConnKept
<1>5. StoreInv'
  BY <1>1 DEF StoreInv, StaleAt, CacheAt, LoadAt, Restart
<1> QED
  BY <1>2, <1>3, <1>4, <1>5 DEF Inv

(* Time passes: what grows stale by a tick loses a tick of its life. *)
LEMMA TickInv ==
    ASSUME Inv, Tick
    PROVE  Inv'
<1>1. NodeTypeOK /\ SessionIdsExclusive /\ ConnInv /\ StoreInv
  BY DEF Inv
<1>2. UNCHANGED <<db, deleted, load, open, served>>
  BY DEF Tick
<1>3. ASSUME NEW c \in Conn
      PROVE  /\ conn[c] \in Connection /\ conn'[c] \in Connection
             /\ conn'[c].phase = conn[c].phase /\ conn'[c].kind = conn[c].kind
             /\ conn'[c].id = conn[c].id /\ conn'[c].key = conn[c].key
             /\ conn'[c].epoch = conn[c].epoch /\ conn'[c].proof = conn[c].proof
             /\ conn'[c].parties = conn[c].parties
             /\ conn[c].left \in Nat /\ conn'[c].left \in Nat
             /\ conn[c].phase # "idle" => conn'[c].left + 1 = conn[c].left
  <2> DEFINE left == IF conn[c].left > 0 THEN conn[c].left - 1 ELSE 0
             B == Longer(SessionLifetime, Longer(HttpTimeout, ShutdownTimeout))
  <2>1. conn[c] \in Connection /\ conn'[c] = [conn[c] EXCEPT !.left = left]
    BY <1>1, Types DEF Tick
  <2>2. /\ conn[c].left \in 0 .. B /\ B \in Nat
        /\ conn[c].phase # "idle" => conn[c].left > 0
    BY <2>1, Durations DEF Connection, Tick
  <2> HIDE DEF B
  <2>3. left \in 0 .. B /\ left \in Nat /\ conn[c].left \in Nat
    BY <2>2
  <2>4. conn[c].phase # "idle" => left + 1 = conn[c].left
    BY <2>2
  <2> HIDE DEF left
  <2> QED
    BY <2>1, <2>3, <2>4 DEF Connection, B
<1>4. ASSUME NEW j \in Key, NEW e \in Epoch
      PROVE  /\ stale[j][e] \in -1 .. MaxStale + 1 /\ stale'[j][e] \in -1 .. MaxStale + 1
             /\ stale'[j][e] <= stale[j][e] + 1
             /\ stale[j][e] = -1 => stale'[j][e] = -1
  <2>1. stale[j][e] \in -1 .. MaxStale + 1 /\ MaxStale \in Nat
    BY <1>1, Types, Durations
  <2>2. stale'[j][e] = IF stale[j][e] \in 0 .. MaxStale THEN stale[j][e] + 1 ELSE stale[j][e]
    BY DEF Tick
  <2> QED
    BY <2>1, <2>2
<1>5. ASSUME NEW j \in Key
      PROVE  /\ cache'[j] \in Entry \cup {Null}
             /\ cache'[j] # Null =>
                   /\ cache[j] # Null /\ cache'[j].epoch = cache[j].epoch
                   /\ cache'[j].epoch \in Epoch /\ cache[j].ttl \in 0 .. StoreTtl
                   /\ cache'[j].ttl = cache[j].ttl - 1
                   /\ cache'[j].ttl >= 1 /\ cache'[j].tti >= 1
  <2>1. cache'[j] = Aged(cache[j])
    BY DEF Tick
  <2>2. CASE cache[j] = Null \/ cache[j].ttl = 1 \/ cache[j].tti = 1
    BY <2>1, <2>2 DEF Aged
  <2>3. CASE ~(cache[j] = Null \/ cache[j].ttl = 1 \/ cache[j].tti = 1)
    <3>1. /\ cache[j] \in Entry /\ cache[j].ttl \in 0 .. StoreTtl /\ cache[j].tti \in 0 .. StoreTti
          /\ StoreTtl \in Nat /\ StoreTti \in Nat
      BY <1>1, <2>3, Types, NodeAssumption DEF Entry
    <3>2. cache[j].ttl >= 1 /\ cache[j].tti >= 1
      BY <1>1, <2>3 DEF StoreInv, CacheAt
    <3>3. /\ cache[j].ttl - 1 \in 0 .. StoreTtl /\ cache[j].tti - 1 \in 0 .. StoreTti
          /\ cache[j].ttl - 1 >= 1 /\ cache[j].tti - 1 >= 1
      BY <2>3, <3>1, <3>2
    <3>4. cache'[j] = [cache[j] EXCEPT !.ttl = cache[j].ttl - 1, !.tti = cache[j].tti - 1]
      BY <2>1, <2>3, <3>1 DEF Aged, Entry
    <3> QED
      BY <2>3, <3>1, <3>3, <3>4 DEF Entry
  <2> QED
    BY <2>2, <2>3
<1>6. NodeTypeOK'
  <2>1. conn' \in [Conn -> Connection]
    BY <1>3 DEF Tick
  <2>2. stale' \in [Key -> [Epoch -> -1 .. MaxStale + 1]]
    <3>1. stale' = [j \in Key |-> [e \in Epoch |-> stale'[j][e]]]
      BY DEF Tick
    <3> QED
      BY <1>4, <3>1
  <2>3. cache' \in [Key -> Entry \cup {Null}]
    <3>1. cache' = [j \in Key |-> cache'[j]]
      BY DEF Tick
    <3> QED
      BY <1>5, <3>1
  <2> QED
    BY <1>1, <1>2, <2>1, <2>2, <2>3 DEF NodeTypeOK
<1>7. SessionIdsExclusive'
  BY <1>1, <1>2, <1>3, IdsKept
<1>8. ASSUME NEW c \in Conn PROVE ConnOk(conn[c])'
  <2>1. ConnOk(conn[c])
    BY <1>1 DEF ConnInv
  <2>2. IdOk(conn[c])' /\ AnswerOk(conn[c])'
    <3>1. IdOk(conn[c])'
      BY <1>3, <2>1 DEF ConnOk, IdOk
    <3>2. /\ conn'[c].phase = conn[c].phase /\ conn'[c].parties = conn[c].parties
          /\ conn'[c].proof = conn[c].proof /\ conn'[c].epoch = conn[c].epoch
      BY <1>3
    <3>3. AnswerOk(conn[c])'
      BY <2>1, <3>2, Zenon DEF ConnOk, AnswerOk
    <3> QED
      BY <3>1, <3>3
  <2>3. PhaseOk(conn[c])'
    BY <1>3, <2>1, Durations DEF ConnOk, PhaseOk
  <2>4. GivenOk(conn[c])'
    <3>1. CASE conn[c].phase \in Given
      <4>1. /\ conn[c].key \in Key /\ conn[c].epoch \in Epoch /\ conn[c].phase # "idle"
            /\ stale[conn[c].key][conn[c].epoch] + conn[c].left <= MaxStale
        BY <2>1, <3>1 DEF ConnOk, PhaseOk, GivenOk, Keyed, Given
      <4>2. stale'[conn[c].key][conn[c].epoch] + conn'[c].left <= MaxStale
        BY <1>3, <1>4, <4>1, Durations
      <4> QED
        BY <1>3, <4>1, <4>2 DEF GivenOk
    <3>2. CASE conn[c].phase \notin Given
      BY <1>3, <3>2 DEF GivenOk
    <3> QED
      BY <3>1, <3>2
  <2> QED
    BY <2>2, <2>3, <2>4 DEF ConnOk
<1>9. ASSUME NEW j \in Key
      PROVE  StaleAt(j)' /\ CacheAt(j)' /\ LoadAt(j)' /\ (served[j] <= db[j])'
  <2>1. StaleAt(j) /\ CacheAt(j) /\ LoadAt(j) /\ served[j] <= db[j]
    BY <1>1 DEF StoreInv
  <2>2. StaleAt(j)'
    BY <1>2, <1>4, <2>1 DEF StaleAt
  <2>3. CacheAt(j)'
    <3>1. CASE cache'[j] # Null
      <4>1. /\ served[j] <= cache[j].epoch /\ cache[j].epoch <= db[j]
            /\ stale[j][cache[j].epoch] <= MaxLife + (StoreTtl - cache[j].ttl)
        BY <1>5, <2>1, <3>1 DEF CacheAt
      <4>2. stale'[j][cache'[j].epoch] <= MaxLife + (StoreTtl - cache'[j].ttl)
        BY <1>4, <1>5, <3>1, <4>1, Durations, NodeAssumption
      <4> QED
        BY <1>2, <1>5, <3>1, <4>1, <4>2 DEF CacheAt
    <3> QED
      BY <3>1 DEF CacheAt
  <2>4. LoadAt(j)'
    <3>1. CASE load[j] # Null
      <4>1. /\ cache[j] = Null /\ load[j].owner \in Conn
            /\ conn[load[j].owner].phase = "loading" /\ conn[load[j].owner].key = j
        BY <1>1, <2>1, <3>1, Types DEF LoadAt, Load
      <4>2. cache'[j] = Null
        BY <1>5, <4>1
      <4>3. load[j].result = "Ok" =>
               /\ load[j].epoch \in Epoch
               /\ stale'[j][load[j].epoch] + conn'[load[j].owner].left <= MaxLife
        <5>1. CASE load[j].result = "Ok"
          <6>1. /\ load[j].epoch \in Epoch
                /\ stale[j][load[j].epoch] + conn[load[j].owner].left <= MaxLife
            BY <2>1, <3>1, <5>1 DEF LoadAt
          <6> QED
            BY <1>3, <1>4, <4>1, <6>1, Durations
        <5> QED
          BY <5>1
      <4> QED
        BY <1>2, <1>3, <2>1, <3>1, <4>1, <4>2, <4>3 DEF LoadAt
    <3> QED
      BY <1>2, <3>1 DEF LoadAt
  <2> QED
    BY <1>2, <2>1, <2>2, <2>3, <2>4
<1> QED
  BY <1>6, <1>7, <1>8, <1>9 DEF Inv, ConnInv, StoreInv

-----------------------------------------------------------------------------
(* The node starts without connections and with an empty cache. *)
LEMMA InvInit == Init => Inv
<1> SUFFICES ASSUME Init PROVE Inv
  OBVIOUS
<1>1. NodeTypeOK
  <2>1. -1 \in -1 .. MaxStale + 1
    BY Durations
  <2> QED
    BY <2>1, Closed DEF Init, NodeTypeOK
<1>2. SessionIdsExclusive /\ ConnInv
  BY Closed DEF Init, SessionIdsExclusive, ConnInv
<1>3. StoreInv
  BY DEF Init, StoreInv, StaleAt, CacheAt, LoadAt
<1> QED
  BY <1>1, <1>2, <1>3 DEF Inv

(* Every step of a connection, the store, the database or the clock keeps   *)
(* the invariant.                                                           *)
LEMMA InvNext == Inv /\ [Next]_vars => Inv'
<1> SUFFICES ASSUME Inv, [Next]_vars PROVE Inv'
  OBVIOUS
<1>1. ASSUME NEW c \in Conn, SessionStep(c) PROVE Inv'
  BY <1>1, SessionInv, InsertInv, TryGetInv, ChallengeInv, EndSessionInv
     DEF SessionStep, FinishSession, SessionError, SessionTimeout
<1>2. ASSUME NEW k \in Key,
             \/ get_oprf_key_material(k) \/ or_try_insert_with(k) \/ Evict(k)
             \/ ConfirmShare(k) \/ DeleteShare(k)
      PROVE  Inv'
  BY <1>2, ReadInv, InsertEntryInv, EvictInv, DatabaseInv
<1>3. CASE UNCHANGED vars
  <2>1. UNCHANGED <<db, deleted, cache, load, open, conn, stale, served>>
    BY <1>3 DEF vars
  <2>2. NodeTypeOK'
    BY <2>1 DEF Inv, NodeTypeOK
  <2>3. \A j \in Key : db[j] \in Int /\ StaleAt(j)'
    BY <2>1, Types DEF Inv, StoreInv, StaleAt, Epoch
  <2> QED
    BY <2>1, <2>2, <2>3, RetireInv
<1> QED
  BY <1>1, <1>2, <1>3, TickInv, RestartInv DEF Next

(* The inductive invariant holds throughout. *)
LEMMA InvHolds == Spec => []Inv
BY InvInit, InvNext, PTL DEF Spec

(* Type correctness of the node. *)
THEOREM NodeTypeCorrect == Spec => []NodeTypeOK
<1>1. Inv => NodeTypeOK
  BY DEF Inv
<1> QED
  BY <1>1, InvHolds, PTL

(* oprf.rs, SessionDropGuard: the ids in OpenSessions are the ones of the   *)
(* sessions in progress, each held by exactly one, with any number of       *)
(* connections that end, fail, time out or collide.                         *)
THEOREM SessionIdsCorrect == Spec => []SessionIdsExclusive
<1>1. Inv => SessionIdsExclusive
  BY DEF Inv
<1> QED
  BY <1>1, InvHolds, PTL

(* oprf_key_material_store.rs: with no invalidation at all, a replaced or   *)
(* deleted epoch is out of use after a load, a cache entry's life and a     *)
(* session, whatever store_ttl, store_tti, store_max_capacity and the       *)
(* timeouts are.                                                            *)
THEOREM StalenessCorrect == Spec => []StalenessBounded
<1>1. Inv => StalenessBounded
  <2> SUFFICES ASSUME Inv, NEW c \in Conn,
                      conn[c].phase \in {"respond", "challenge", "answer"}
               PROVE  stale[conn[c].key][conn[c].epoch] <= MaxStale
    BY DEF StalenessBounded
  <2>1. /\ conn[c].key \in Key /\ conn[c].epoch \in Epoch
        /\ stale[conn[c].key][conn[c].epoch] + conn[c].left <= MaxStale
    BY DEF Inv, ConnInv, ConnOk, PhaseOk, GivenOk, Keyed, Given
  <2>2. stale[conn[c].key][conn[c].epoch] \in -1 .. MaxStale + 1
    BY <2>1, Types DEF Inv
  <2> QED
    BY <2>1, <2>2, LeftBound, Durations
<1> QED
  BY <1>1, InvHolds, PTL

(* oprf.rs, partial_oprf_inner: a proof share is only made for a sorted,    *)
(* duplicate-free list of threshold parties with this one among them, and   *)
(* with the share of the epoch that the client was told.                    *)
THEOREM AnswersCorrect == Spec => []AnswersAreSound
<1>1. Inv => AnswersAreSound
  BY DEF Inv, ConnInv, ConnOk, AnswerOk, AnswersAreSound
<1> QED
  BY <1>1, InvHolds, PTL

(* A connection that is given key material gets no older epoch than one     *)
(* given before.                                                            *)
LEMMA GivenInOrder ==
    ASSUME Inv, [Next]_vars, NEW c \in Conn,
           conn[c].phase \in {"lookup", "loading"}, conn'[c].phase = "respond"
    PROVE  conn'[c].epoch >= served[conn[c].key]
<1> DEFINE k == conn[c].key
<1>1. /\ NodeTypeOK /\ conn \in [Conn -> Connection] /\ conn[c] \in Connection
      /\ k \in Key /\ CacheAt(k) /\ LoadAt(k) /\ served[k] \in Int
  BY Types DEF Inv, NodeTypeOK, ConnInv, ConnOk, PhaseOk, Keyed, StoreInv, Epoch
<1>2. conn'[c] # conn[c]
  BY Zenon
<1>3. ASSUME NEW d \in Conn, EndSession(d) PROVE FALSE
  <2>1. conn'[c] \in {conn[c], Closing, NoConnection}
    BY <1>1, <1>3 DEF EndSession
  <2> QED
    BY <1>2, <2>1, Closed
<1>4. ASSUME NEW d \in Conn, SessionStep(d)
      PROVE  conn'[c].epoch >= served[k]
  <2>1. d = c
    BY <1>1, <1>2, <1>3, <1>4 DEF SessionStep, Connect, oprf_ws_handler, oprf_key_available,
       insert_new_session, authenticate, try_get, Give, write_response, challenge,
       FinishSession, SessionError, SessionTimeout, teardown_websocket
  <2>2. try_get(c) \/ authenticate(c)
    BY <1>1, <1>3, <1>4, <2>1 DEF SessionStep, Connect, oprf_ws_handler, oprf_key_available,
       insert_new_session, write_response, challenge,
       FinishSession, SessionError, SessionTimeout, teardown_websocket
  <2>3. try_get(c) /\ cache[k] # Null
    BY <1>1, <2>2 DEF authenticate, try_get, Connection
  <2>4. conn'[c].epoch = cache[k].epoch
    BY <1>1, <2>3 DEF try_get, Give, partial_commit, Connection
  <2>5. served[k] <= cache[k].epoch /\ cache[k].epoch \in Int
    BY <1>1, <2>3, Types DEF CacheAt, Entry, Epoch
  <2> QED
    BY <1>1, <2>4, <2>5
<1>5. ASSUME NEW j \in Key, or_try_insert_with(j)
      PROVE  conn'[c].epoch >= served[k]
  <2>1. c \in Waiting(j) /\ k = j /\ load[j].result = "Ok" /\ load[j] # Null
    BY <1>2, <1>5, Closed DEF or_try_insert_with, Waiting, Give
  <2>2. conn'[c].epoch = load[k].epoch
    BY <1>1, <1>5, <2>1 DEF or_try_insert_with, Give, partial_commit, Connection
  <2>3. served[k] <= load[k].epoch /\ load[k].epoch \in Int
    BY <1>1, <2>1 DEF LoadAt, Epoch
  <2> QED
    BY <1>1, <2>2, <2>3
<1>6. ASSUME NEW j \in Key, \/ get_oprf_key_material(j) \/ Evict(j)
                            \/ ConfirmShare(j) \/ DeleteShare(j)
      PROVE  FALSE
  BY <1>2, <1>6 DEF get_oprf_key_material, Evict, ConfirmShare, DeleteShare
<1>7. ~Tick /\ ~Restart /\ ~UNCHANGED vars
  <2>1. Tick => conn'[c].phase = conn[c].phase
    BY <1>1 DEF Tick, Connection
  <2>2. Restart => conn'[c] = NoConnection
    BY DEF Restart
  <2> QED
    BY <1>2, <2>1, <2>2, Closed DEF vars
<1> QED
  BY <1>4, <1>5, <1>6, <1>7 DEF Next

(* Sessions see the epochs of a key in order, however loads, expiry,        *)
(* eviction, cancelled loads and restarts interleave.                       *)
THEOREM EpochOrderCorrect == Spec => EpochsServedInOrder
<1>1. Inv /\ [Next]_vars =>
        [\A c \in Conn :
           conn[c].phase \in {"lookup", "loading"} /\ conn'[c].phase = "respond" =>
              conn'[c].epoch >= served[conn[c].key]]_vars
  BY GivenInOrder
<1> QED
  BY <1>1, InvHolds, PTL DEF Spec, EpochsServedInOrder

=============================================================================
