--------------------------- MODULE KeyGenProtocol ---------------------------
(***************************************************************************)
(* The distributed key generation: the key-gen nodes (oprf-key-gen), each   *)
(* with its database, its event watcher, its transaction handler and its    *)
(* cursor-checkpoint task, against the OprfKeyRegistry contract.            *)
(*                                                                          *)
(* A node handles one event at a time:                                      *)
(*   watch --NextLog--> handle --handler--> submit --submit--> sent         *)
(*      ^                  |                  |                 |           *)
(*      |                  v                  v                 v  (mined)  *)
(*      +--StoreCursor--- done <------------- + <---------------+           *)
(* A hard error, a crash, a closed event stream or a lost receipt ends the  *)
(* process ("down"); the supervisor restarts it and the watcher resumes     *)
(* from the stored cursor.                                                  *)
(*                                                                          *)
(* A chain position is the number of watched events at or before it; the    *)
(* (block, index) pairs of the code and their order are in KeyGenStore.     *)
(* A handler's contract views and its database work are one step: nobody    *)
(* else touches the node's database, so its database work could as well     *)
(* happen at the moment of the view.                                        *)
(***************************************************************************)
EXTENDS KeyRegistry

CONSTANTS MaxRuns,       \* bound on initKeyGen and initReshare calls
          MaxCrashes,    \* bound on crashes of all nodes together
          MaxLosses,     \* bound on losses of a node's shares
          MaxAborts,     \* bound on abortKeyGen calls
          Deletes,       \* may the administrator delete keys
          ReinitWaits,   \* a run is started only when every node has handled
                         \* the aborts before it and no transaction is pending
          ReshareWaits,  \* a reshare is started only when every node has
                         \* handled the finalize events before it
          Checkpoints,   \* is the cursor-checkpoint task running
          CheckpointLate \* config.rs on cursor_checkpoint_interval: the block
                         \* fetched an interval ago "is for sure already handled"

ASSUME ProtocolAssumption ==
    /\ MaxRuns \in Nat /\ MaxCrashes \in Nat /\ MaxLosses \in Nat /\ MaxAborts \in Nat
    /\ {Deletes, ReinitWaits, ReshareWaits, Checkpoints, CheckpointLate} \subseteq BOOLEAN
    /\ Null \notin Submission

VARIABLES
    \* database of each node
    shares, inProgress, cursor,
    \* memory of each node's process
    pc,          \* where the watcher is
    pos,         \* the event it handles, or handled last
    tx,          \* the contribution it is about to submit
    checkpoint,  \* block number fetched by the checkpoint task
    \* environment
    pool,        \* transactions of each node, in nonce order, not yet mined
    serial,      \* how many intermediates each node has drawn
    runs, crashes,
    lost,        \* which nodes lost their shares, and the epochs at the time
    \* history
    handled      \* the events each node's watcher is done with

chainVars == <<reg, log>>
dbVars    == <<shares, inProgress, cursor>>
memVars   == <<pc, pos, tx, checkpoint>>
envVars   == <<runs, crashes, lost>>
vars      == <<chainVars, dbVars, memVars, pool, serial, envVars, handled>>

TypeOK ==
    /\ RegistryTypeOK
    /\ shares \in [Node -> [Key -> ShareRow(Share, Deal) \cup {Null}]]
    /\ inProgress \in [Node -> [Key -> [Epoch -> InProgressRow(Intermediate, Share) \cup {Null}]]]
    /\ cursor \in [Node -> 0 .. Len(log)]
    /\ pc \in [Node -> {"down", "watch", "handle", "submit", "sent", "done"}]
    /\ pos \in [Node -> 0 .. Len(log)]
    /\ tx \in [Node -> Submission \cup {Null}]
    /\ checkpoint \in [Node -> 0 .. Len(log) \cup {Null}]
    /\ pool \in [Node -> Seq(Submission)]
    /\ serial \in [Node -> Nat]
    /\ runs \in 0 .. MaxRuns /\ crashes \in 0 .. MaxCrashes
    /\ lost \subseteq Node \X [Key -> {-1} \cup Epoch]
    /\ handled \in [Node -> SUBSET (1 .. Len(log))]

Init ==
    /\ RegistryInit
    /\ shares = [n \in Node |-> [k \in Key |-> Null]]
    /\ inProgress = [n \in Node |-> [k \in Key |-> NoIntermediates]]
    /\ cursor = [n \in Node |-> 0]
    /\ pc = [n \in Node |-> "down"]
    /\ pos = [n \in Node |-> 0]
    /\ tx = [n \in Node |-> Null]
    /\ checkpoint = [n \in Node |-> Null]
    /\ pool = [n \in Node |-> << >>]
    /\ serial = [n \in Node |-> 0]
    /\ runs = 0 /\ crashes = 0 /\ lost = {}
    /\ handled = [n \in Node |-> {}]

(***************************************************************************)
(* The watcher loop.                                                        *)
(***************************************************************************)
SoftErrors_wrongRound ==
    {"DeletedId", "AlreadySubmitted", "MissingIntermediates", "RefusingToRollbackEpoch"}

SoftErrors ==
    {"WrongRound", "DeletedId", "AlreadySubmitted", "MissingIntermediates",
     "RefusingToRollbackEpoch"}

(* Where the watcher goes with the result of a handler. *)
HandleSoftErrors(result) == IF result \in {"Ok"} \cup SoftErrors THEN "done" ELSE "down"

Goto(n, where) == pc' = [pc EXCEPT ![n] = where]

EndHandler(n, result) ==
    /\ Goto(n, HandleSoftErrors(result))
    /\ UNCHANGED tx

(* Process start: load the cursor and build the event stream behind it. *)
Start(n) ==
    /\ pc[n] = "down"
    /\ Goto(n, "watch")
    /\ pos' = [pos EXCEPT ![n] = cursor[n]]
    /\ tx' = [tx EXCEPT ![n] = Null]
    /\ checkpoint' = [checkpoint EXCEPT ![n] = Null]
    /\ UNCHANGED <<chainVars, dbVars, pool, serial, envVars, handled>>

NextLog(n) ==
    /\ pc[n] = "watch"
    /\ pos[n] < Len(log)
    /\ Goto(n, "handle")
    /\ pos' = [pos EXCEPT ![n] = @ + 1]
    /\ UNCHANGED <<chainVars, dbVars, tx, checkpoint, pool, serial, envVars, handled>>

StoreCursor_skipped(n) ==
    /\ pc[n] = "done"
    /\ cursor' = [cursor EXCEPT ![n] = IF pos[n] + 1 > @ THEN pos[n] + 1 ELSE @]
    /\ Goto(n, "watch")
    /\ handled' = [handled EXCEPT ![n] = @ \cup {pos[n]}]
    /\ UNCHANGED <<chainVars, shares, inProgress, pos, tx, checkpoint, pool, serial, envVars>>

StoreCursor(n) ==
    /\ pc[n] = "done"
    /\ cursor' = [cursor EXCEPT ![n] = IF pos[n] > @ THEN pos[n] ELSE @]
    /\ Goto(n, "watch")
    /\ handled' = [handled EXCEPT ![n] = @ \cup {pos[n]}]
    /\ UNCHANGED <<chainVars, shares, inProgress, pos, tx, checkpoint, pool, serial, envVars>>

(***************************************************************************)
(* The event handlers (handler.rs with secret_gen.rs).                      *)
(***************************************************************************)
Ev(n) == log[pos[n]]

Handling(n, types) ==
    /\ pc[n] = "handle"
    /\ Ev(n).type \in types

(* ShareEpoch::prev *)
Prev(e) == IF e = 0 THEN e ELSE e - 1

ToSubmit(n, fn, k, im, pks) ==
    /\ Goto(n, "submit")
    /\ tx' = [tx EXCEPT ![n] = [fn |-> fn, key |-> k, im |-> im, pks |-> pks]]

(* Fresh intermediates are stored unless the epoch has some already, and the *)
(* contribution is built from the ones that are stored.                      *)
Round1With(n, k, e, im) ==
    /\ inProgress' = [inProgress EXCEPT ![n][k] = TryStoreIntermediates(@, e, im)]
    /\ serial' = [serial EXCEPT ![n] = IF inProgress'[n][k][e].im = im THEN im.id ELSE @]
    /\ ToSubmit(n, "r1", k, inProgress'[n][k][e].im, Null)
    /\ UNCHANGED <<chainVars, shares, cursor, pos, checkpoint, pool, envVars, handled>>

keygen_round1(n) ==
    /\ Handling(n, {"SecretGenRound1"})
    /\ Round1With(n, Ev(n).key, 0, [id |-> serial[n] + 1, poly |-> TRUE, old |-> Null])

(* A node without the share of the epoch before the pending one has no      *)
(* polynomial to deal: it contributes an ephemeral key, as a consumer.      *)
ReshareIntermediates(n, k, e) ==
    LET old == GetShareByEpoch(shares[n][k], Prev(e))
    IN  [id |-> serial[n] + 1, poly |-> old # Null, old |-> old]

reshare_round1(n) ==
    /\ Handling(n, {"ReshareRound1"})
    /\ Round1With(n, Ev(n).key, Ev(n).epoch, ReshareIntermediates(n, Ev(n).key, Ev(n).epoch))

(* WrongRound, and an empty list of peers, tell the node that it consumes.  *)
fetch_producer_public_keys(n, k) ==
    LET view == InRound(k, "two")
    IN  IF view = "WrongRound" \/ (view = "Ok" /\ n \notin reg[k].producers)
        THEN "Consumer" ELSE view

compute_keygen_proof(im) == IF im.poly THEN "Ok" ELSE "ProofAsConsumer"

producer_round2(row) ==
    IF row = Null THEN "MissingIntermediates" ELSE compute_keygen_proof(row.im)

round2(n) ==
    /\ Handling(n, {"SecretGenRound2"})
    /\ LET k == Ev(n).key
           row == inProgress[n][k][Ev(n).epoch]
           fetched == fetch_producer_public_keys(n, k)
           result == IF fetched = "Ok" THEN producer_round2(row) ELSE fetched
       IN  \/ /\ result = "Ok"
              /\ ToSubmit(n, "r2", k, row.im, reg[k].r1)
           \/ /\ result # "Ok"
              /\ EndHandler(n, IF result = "Consumer" THEN "Ok" ELSE result)
    /\ UNCHANGED <<chainVars, dbVars, pos, checkpoint, pool, serial, envVars, handled>>

(* The ciphertexts on chain open only with the ephemeral key that this node *)
(* committed to in round 1; the check of each decrypted value against the   *)
(* commitment of its dealer tells.                                          *)
CommitmentsMatch_unchecked(n, k, im) == TRUE

CommitmentsMatch(n, k, im) == im = reg[k].r1[n]

(* accumulate_lagrange_shares asserts as many coefficients as ciphertexts.  *)
LengthsMatch(k, ev) ==
    ev.type = "ReshareRound3" => Cardinality(ev.lagrange) = Cardinality(reg[k].producers)

decrypt_key_gen_ciphertexts_unweighted(n, k, im, ev) ==
    IF im = reg[k].r1[n] /\ ev.type # "ReshareRound3" THEN RunShare(k) ELSE Garbage

(* The ciphertexts come from the chain, the Lagrange coefficients from the  *)
(* event.                                                                   *)
decrypt_key_gen_ciphertexts(n, k, im, ev) ==
    IF im = reg[k].r1[n] /\ (ev.type = "ReshareRound3" => ev.lagrange = reg[k].producers)
    THEN RunShare(k) ELSE Garbage

(* fetch_round2_ciphers and fetch_consumer_public_keys meet the same checks.*)
FetchRound3Inputs(k) == InRound(k, "three")

(* DLogSecretGenService::round3, up to the storing of the share. *)
SecretGenRound3(n, k, row) ==
    IF row = Null THEN "MissingIntermediates"
    ELSE IF ~CommitmentsMatch(n, k, row.im) THEN "CommitmentWrong"
    ELSE IF ~LengthsMatch(k, Ev(n)) THEN "Panic"
    ELSE "Ok"

round3(n) ==
    /\ Handling(n, {"SecretGenRound3", "ReshareRound3"})
    /\ LET k == Ev(n).key
           e == Ev(n).epoch
           row == inProgress[n][k][e]
           fetched == FetchRound3Inputs(k)
           result == IF fetched = "Ok" THEN SecretGenRound3(n, k, row) ELSE fetched
       IN  \/ /\ result = "Ok"
              /\ inProgress' = [inProgress EXCEPT ![n][k] =
                    StorePendingShare(@, e, decrypt_key_gen_ciphertexts(n, k, row.im, Ev(n)))]
              /\ ToSubmit(n, "r3", k, Null, Null)
           \/ /\ result # "Ok"
              /\ EndHandler(n, result)
              /\ UNCHANGED inProgress
    /\ UNCHANGED <<chainVars, shares, cursor, pos, checkpoint, pool, serial, envVars, handled>>

(* None, for a key that was deleted between the event and its handling. *)
fetch_oprf_public_key(k) ==
    IF getOprfPublicKey(k) = "DeletedId" THEN "None" ELSE getOprfPublicKey(k)

finalize(n) ==
    /\ Handling(n, {"SecretGenFinalize"})
    /\ LET k == Ev(n).key
           e == Ev(n).epoch
           row == shares[n][k]
           ip == inProgress[n][k]
           fetched == fetch_oprf_public_key(k)
           result == IF fetched = "Ok" THEN ConfirmOutcome(row, ip, e) ELSE fetched
       IN  /\ IF result = "Ok"
              THEN /\ shares' = [shares EXCEPT ![n][k] = ConfirmRow(row, ip, e, reg[k].pk)]
                   /\ inProgress' = [inProgress EXCEPT ![n][k] = DeleteIntermediates(@)]
              ELSE UNCHANGED <<shares, inProgress>>
           /\ EndHandler(n, IF result = "None" THEN "Ok" ELSE result)
    /\ UNCHANGED <<chainVars, cursor, pos, checkpoint, pool, serial, envVars, handled>>

delete_sharesOnly(n) ==
    /\ Handling(n, {"KeyDeletion"})
    /\ shares' = [shares EXCEPT ![n][Ev(n).key] = SoftDeleteShares(@)]
    /\ EndHandler(n, "Ok")
    /\ UNCHANGED <<chainVars, inProgress, cursor, pos, checkpoint, pool, serial, envVars, handled>>

delete(n) ==
    /\ Handling(n, {"KeyDeletion"})
    /\ shares' = [shares EXCEPT ![n][Ev(n).key] = SoftDeleteShares(@)]
    /\ inProgress' = [inProgress EXCEPT ![n][Ev(n).key] = DeleteIntermediates(@)]
    /\ EndHandler(n, "Ok")
    /\ UNCHANGED <<chainVars, cursor, pos, checkpoint, pool, serial, envVars, handled>>

abort_sharesToo(n) ==
    /\ Handling(n, {"KeyGenAbort"})
    /\ shares' = [shares EXCEPT ![n][Ev(n).key] = SoftDeleteShares(@)]
    /\ inProgress' = [inProgress EXCEPT ![n][Ev(n).key] = DeleteIntermediates(@)]
    /\ EndHandler(n, "Ok")
    /\ UNCHANGED <<chainVars, cursor, pos, checkpoint, pool, serial, envVars, handled>>

abort(n) ==
    /\ Handling(n, {"KeyGenAbort"})
    /\ inProgress' = [inProgress EXCEPT ![n][Ev(n).key] = DeleteIntermediates(@)]
    /\ EndHandler(n, "Ok")
    /\ UNCHANGED <<chainVars, shares, cursor, pos, checkpoint, pool, serial, envVars, handled>>

not_enough_producers(n) ==
    /\ Handling(n, {"NotEnoughProducers"})
    /\ EndHandler(n, "Ok")
    /\ UNCHANGED <<chainVars, dbVars, pos, checkpoint, pool, serial, envVars, handled>>

handle(n) ==
    \/ keygen_round1(n) \/ reshare_round1(n) \/ round2(n) \/ round3(n)
    \/ finalize(n) \/ delete(n) \/ abort(n) \/ not_enough_producers(n)

(***************************************************************************)
(* The transaction handler: simulate, send, wait for the receipt.           *)
(***************************************************************************)
submit(n) ==
    /\ pc[n] = "submit"
    /\ LET result == CallResult(n, tx[n])
       IN  \/ /\ result = "Ok"
              /\ pool' = [pool EXCEPT ![n] = Append(@, tx[n])]
              /\ Goto(n, "sent")
           \/ /\ result # "Ok"
              /\ Goto(n, HandleSoftErrors(result))
              /\ UNCHANGED pool
    /\ UNCHANGED <<chainVars, dbVars, pos, tx, checkpoint, serial, envVars, handled>>

(* The oldest transaction of the node is mined.  The receipt reaches the    *)
(* process that still waits for this very transaction; a reverted one is a  *)
(* hard error there (ensure_success).                                       *)
Mine(n) ==
    /\ pool[n] # << >>
    /\ ExecuteSubmission(n, Head(pool[n]))
    /\ pool' = [pool EXCEPT ![n] = Tail(@)]
    /\ IF pc[n] = "sent" /\ Len(pool[n]) = 1
       THEN Goto(n, IF CallResult(n, Head(pool[n])) = "Ok" THEN "done" ELSE "down")
       ELSE UNCHANGED pc
    /\ UNCHANGED <<dbVars, pos, tx, checkpoint, serial, envVars, handled>>

(***************************************************************************)
(* The cursor-checkpoint task: fetch the block number, sleep, store it.     *)
(***************************************************************************)
FetchCheckpoint(n) ==
    /\ Checkpoints
    /\ pc[n] # "down"
    /\ checkpoint[n] = Null
    /\ checkpoint' = [checkpoint EXCEPT ![n] = Len(log)]
    /\ UNCHANGED <<chainVars, dbVars, pc, pos, tx, pool, serial, envVars, handled>>

HandledUpTo(n, p) == pos[n] > p \/ (pos[n] = p /\ pc[n] = "watch")

StoreCheckpoint_fetchedAfterSleep(n) ==
    /\ pc[n] # "down"
    /\ checkpoint[n] # Null
    /\ CheckpointLate => HandledUpTo(n, checkpoint[n])
    /\ cursor' = [cursor EXCEPT ![n] = Len(log)]
    /\ checkpoint' = [checkpoint EXCEPT ![n] = Null]
    /\ UNCHANGED <<chainVars, shares, inProgress, pc, pos, tx, pool, serial, envVars, handled>>

StoreCheckpoint(n) ==
    /\ pc[n] # "down"
    /\ checkpoint[n] # Null
    /\ CheckpointLate => HandledUpTo(n, checkpoint[n])
    /\ cursor' = [cursor EXCEPT ![n] = IF checkpoint[n] > @ THEN checkpoint[n] ELSE @]
    /\ checkpoint' = [checkpoint EXCEPT ![n] = Null]
    /\ UNCHANGED <<chainVars, shares, inProgress, pc, pos, tx, pool, serial, envVars, handled>>

(***************************************************************************)
(* The environment.                                                         *)
(***************************************************************************)
(* The process ends at any point: killed, event stream closed, RPC or       *)
(* database error, receipt not found in time.                               *)
Crash(n) ==
    /\ crashes < MaxCrashes
    /\ pc[n] # "down"
    /\ Goto(n, "down")
    /\ crashes' = crashes + 1
    /\ UNCHANGED <<chainVars, dbVars, pos, tx, checkpoint, pool, serial, runs, lost, handled>>

(* A node loses its confirmed shares (the tests' TestKeyGen::clear, a peer  *)
(* that is replaced): it is a consumer of the next reshare.  It happens to  *)
(* an idle node while no run is on.                                         *)
LoseShares(n) ==
    /\ Cardinality(lost) < MaxLosses
    /\ pc[n] = "watch" /\ pos[n] = Len(log)
    /\ \A k \in Key : ~Running(k)
    /\ shares' = [shares EXCEPT ![n] = [k \in Key |->
                    IF shares[n][k] # Null /\ shares[n][k].deleted
                    THEN shares[n][k] ELSE Null]]
    /\ lost' = lost \cup {<<n, [k \in Key |-> reg[k].epoch]>>}
    /\ UNCHANGED <<chainVars, inProgress, cursor, memVars, pool, serial, runs, crashes, handled>>

AbortHandled(k) ==
    \A n \in Node :
        /\ pool[n] = << >>
        /\ \A i \in cursor[n] + 1 .. Len(log) :
              ~(log[i].type = "KeyGenAbort" /\ log[i].key = k)

FinalizeHandled(k) ==
    \A n \in Node : \A i \in cursor[n] + 1 .. Len(log) :
        ~(log[i].type = "SecretGenFinalize" /\ log[i].key = k)

Admin(k) ==
    /\ \/ /\ runs < MaxRuns
          /\ ReinitWaits => AbortHandled(k)
          /\ ReshareWaits => FinalizeHandled(k)
          /\ initKeyGen(k) \/ initReshare(k)
          /\ runs' = runs + 1
       \/ /\ Cardinality({i \in DOMAIN log : log[i].type = "KeyGenAbort"}) < MaxAborts
          /\ abortKeyGen(k) /\ UNCHANGED runs
       \/ Deletes /\ deleteOprfPublicKey(k) /\ UNCHANGED runs
    /\ UNCHANGED <<dbVars, memVars, pool, serial, crashes, lost, handled>>

NodeStep(n) == Start(n) \/ NextLog(n) \/ handle(n) \/ submit(n) \/ StoreCursor(n)

Next ==
    \/ \E n \in Node :
          \/ NodeStep(n)
          \/ Mine(n)
          \/ FetchCheckpoint(n) \/ StoreCheckpoint(n)
          \/ Crash(n) \/ LoseShares(n)
    \/ \E k \in Key : Admin(k)

Spec == Init /\ [][Next]_vars

(* The supervisor restarts a node, the watcher makes progress and sent      *)
(* transactions are mined; nothing makes the administrator act.             *)
Fairness == \A n \in Node : WF_vars(NodeStep(n)) /\ WF_vars(Mine(n))

LiveSpec == Spec /\ Fairness

-----------------------------------------------------------------------------
Held(n, k) ==
    IF shares[n][k] # Null /\ ~shares[n][k].deleted THEN shares[n][k].epoch ELSE -1

(* Nodes that hold a share of one epoch hold shares of one sharing: they    *)
(* never combine what they computed in different runs of the protocol.      *)
Agreement ==
    \A n, m \in Node, k \in Key :
        Held(n, k) # -1 /\ Held(n, k) = Held(m, k) =>
            shares[n][k].share.deal = shares[m][k].share.deal

(* secret_manager.rs on confirm_dlog_share: "the share for the provided     *)
(* epoch MUST be ready to use".  A confirmed share is a share of the secret *)
(* behind the public key that is stored beside it, and that is the key the  *)
(* contract published.                                                      *)
ShareMatchesPublicKey ==
    \A n \in Node, k \in Key :
        Held(n, k) # -1 =>
            /\ shares[n][k].share.secret = shares[n][k].pk
            /\ shares[n][k].pk = reg[k].pk

(* Once the contract has finalised an epoch no crash can lose it: every     *)
(* node has the share, confirmed or pending, on disk.  (A node that         *)
(* finalizes gives up the share of the epoch before.)                       *)
FinalizedIsDurable ==
    \A n \in Node, k \in Key :
        /\ reg[k].epoch >= 0 /\ reg[k].round # "deleted"
        /\ ~\E l \in lost : l[1] = n /\ l[2][k] = reg[k].epoch
        =>
            \/ Held(n, k) = reg[k].epoch
            \/ FetchPendingShare(inProgress[n][k], reg[k].epoch) # Null

KnowsCommitment(n, k) ==
    Running(k) /\ reg[k].r1[n] # Null =>
        /\ inProgress[n][k][PendingEpoch(k)] # Null
        /\ inProgress[n][k][PendingEpoch(k)].im = reg[k].r1[n]

(* While a run is on, the polynomial and key a node committed to on chain   *)
(* are the ones in its database, whatever it crashed, replayed or sent      *)
(* twice: otherwise its later rounds can only fail.                         *)
CommittedIsStored == \A n \in Node, k \in Key : KnowsCommitment(n, k)

(* key_event_watcher.rs on AlreadySubmitted: "we already contributed in     *)
(* this round (duplicate event or restart); safe to skip".  A node that has *)
(* contributed to round 1 and is made to submit the same contribution again *)
(* skips it.                                                                *)
ReplayIsSkipped ==
    \A n \in Node :
        /\ pc[n] = "submit" /\ tx[n].fn = "r1"
        /\ reg[tx[n].key].round = "one" /\ reg[tx[n].key].r1[n] = tx[n].im
        => HandleSoftErrors(CallResult(n, tx[n])) = "done"

(* event_cursor_store.rs: the watcher resumes from the cursor, "ensuring no *)
(* key-generation events are missed across restarts".                       *)
NoEventSkipped == \A n \in Node : 1 .. cursor[n] \subseteq handled[n]

(* A node that is past the deletion of a key holds nothing of it any more.  *)
DeletedIsErased ==
    \A n \in Node : \A i \in 1 .. cursor[n] :
        log[i].type = "KeyDeletion" =>
            /\ Held(n, log[i].key) = -1
            /\ inProgress[n][log[i].key] = NoIntermediates

(* The key lifecycle that the nodes and the contract implement together. *)
Lifecycle == INSTANCE KeyLifecycle WITH
    MayLose <- MaxLosses > 0,
    secret <- [k \in Key |-> reg[k].pk],
    epoch  <- [k \in Key |-> reg[k].epoch],
    gone   <- {k \in Key : reg[k].round = "deleted"},
    held   <- [n \in Node |-> [k \in Key |-> Held(n, k)]]

(* The protocol implements KeyLifecycle.                                    *)
ImplementsLifecycle == Lifecycle!Spec

(* What a run of an epoch may inherit when it is started before a node has  *)
(* handled the abort of the run before: the contract has booked a round-1   *)
(* contribution of that node from the aborted run, and the node has deleted *)
(* its values with the abort.                                               *)
InheritsStale(n, k) ==
    /\ ~KnowsCommitment(n, k)
    /\ \E i \in DOMAIN log :
          /\ log[i].type = "KeyGenAbort" /\ log[i].key = k
          /\ \A j \in i .. Len(log) :
                ~(log[j].type = "SecretGenFinalize" /\ log[j].key = k)

(* No crash loop and no starvation: wherever the nodes crash, every node    *)
(* catches up with the chain again.  There is one exception, while a run    *)
(* that was started too early is in round 2 or 3: what the node now has in  *)
(* its database does not fit the stale commitment, so that the contract     *)
(* refuses its proof of round 2, or its own check in round 3 the shares     *)
(* made for the stale key; handle_soft_errors passes either error on, and   *)
(* the process ends at every restart until that run is aborted or deleted.  *)
(* When runs wait for the aborts before them (ReinitWaits) there is no      *)
(* exception: CommittedIsStored excludes it.  (The administrator's calls    *)
(* are bounded; an endless stream of them could keep a node behind.)        *)
CatchesUp ==
    \A n \in Node :
        []<>(\/ cursor[n] = Len(log)
            \/ \E k \in Key : reg[k].round \in {"two", "three"} /\ InheritsStale(n, k))

(* A run that is not aborted, deleted or stuck ends with every node holding *)
(* a share of the new epoch, wherever the nodes crash, unless it inherits a *)
(* stale contribution; with ReinitWaits none does.                          *)
RunCompletes ==
    \A k \in Key, e \in Epoch :
        Running(k) /\ PendingEpoch(k) = e ~>
            \/ \A n \in Node : Held(n, k) = e
            \/ reg[k].epoch < e /\ reg[k].round \in {"none", "idle", "stuck"}
            \/ reg[k].round = "deleted"
            \/ \E n \in Node : InheritsStale(n, k)
=============================================================================
