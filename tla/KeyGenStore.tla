---------------------------- MODULE KeyGenStore ----------------------------
(***************************************************************************)
(* PostgresDb as a component: the SecretManager and ChainCursorStorage      *)
(* traits, called by two tasks of the key-gen process.                      *)
(*                                                                          *)
(* The key-event watcher makes one call at a time (DLogSecretGenService is  *)
(* single-owner) but may make them in any order.  A call runs as a          *)
(* transaction under with_retry: when the connection fails AFTER the commit *)
(* the caller never hears of it and the whole operation is executed again.  *)
(* The cursor-checkpoint task writes the chain cursor concurrently.         *)
(***************************************************************************)
EXTENDS KeyGenDb

CONSTANTS Key,           \* OPRF key ids
          Share,         \* DLog shares
          Intermediate,  \* KeyGenIntermediateValues
          PublicKey,     \* OPRF public keys
          MaxBlock,      \* bound on block numbers and log indices
          MaxRetries     \* with_retry's max_times

ASSUME StoreAssumption ==
    /\ MaxBlock \in Nat
    /\ MaxRetries \in Nat
    /\ Null \notin Share
    /\ Null \notin Intermediate
    /\ Null \notin ShareRow(Share, PublicKey)
    /\ Null \notin InProgressRow(Intermediate, Share)

VARIABLES shares,      \* table shares, by key id
          inProgress,  \* table in_progress_keygens, by key id and epoch
          cursor,      \* table chain_cursor: the singleton <<block, idx>>
          call         \* the watcher's call in flight

vars == <<shares, inProgress, cursor, call>>

Position == (0 .. MaxBlock) \X (0 .. MaxBlock)

Errors == {"MissingIntermediates", "RefusingToRollbackEpoch", "StoreOnDeletedShare"}

Ops == {"idle", "get_share", "delete", "try_store", "fetch", "abort",
        "store_pending", "confirm", "store_cursor"}

Result == {"Ok", "None"} \cup Errors \cup Share \cup Intermediate \cup {Null}

(* An argument that an operation does not take is Null. *)
Call ==
    [op : Ops, key : Key \cup {Null}, epoch : Epoch \cup {Null},
     arg : Intermediate \cup Share \cup PublicKey \cup Position \cup {Null},
     phase : {"called", "executed"}, tries : 0 .. MaxRetries,
     first : Result, result : Result]

Idle == [op |-> "idle", key |-> Null, epoch |-> Null, arg |-> Null,
         phase |-> "called", tries |-> 0, first |-> Null, result |-> Null]

StoreTypeOK ==
    /\ shares \in [Key -> ShareRow(Share, PublicKey) \cup {Null}]
    /\ inProgress \in [Key -> [Epoch -> InProgressRow(Intermediate, Share) \cup {Null}]]
    /\ cursor \in Position
    /\ call \in Call

Init ==
    /\ shares = [k \in Key |-> Null]
    /\ inProgress = [k \in Key |-> NoIntermediates]
    /\ cursor = <<0, 0>>
    /\ call = Idle

(***************************************************************************)
(* The row comparison of store_chain_cursor: a strictly later position.     *)
(***************************************************************************)
Later_blockOnly(p, q) == p[1] >= q[1]

Later(p, q) == p[1] > q[1] \/ (p[1] = q[1] /\ p[2] > q[2])

StoreChainCursor(p) == cursor' = IF Later(p, cursor) THEN p ELSE cursor

(***************************************************************************)
(* The watcher makes a call.                                                *)
(***************************************************************************)
Begin(op, k, e, a) ==
    /\ call.op = "idle"
    /\ call' = [Idle EXCEPT !.op = op, !.key = k, !.epoch = e, !.arg = a]
    /\ UNCHANGED <<shares, inProgress, cursor>>

BeginCall ==
    \/ \E k \in Key, e \in Epoch :
          \/ Begin("get_share", k, e, Null)
          \/ Begin("fetch", k, e, Null)
          \/ \E im \in Intermediate : Begin("try_store", k, e, im)
          \/ \E s \in Share : Begin("store_pending", k, e, s)
          \/ \E pk \in PublicKey : Begin("confirm", k, e, pk)
    \/ \E k \in Key : Begin("delete", k, Null, Null) \/ Begin("abort", k, Null, Null)
    \/ \E p \in Position : Begin("store_cursor", Null, Null, p)

(***************************************************************************)
(* One execution of the call in flight, up to and including its commit.     *)
(***************************************************************************)
Executing(op) == call.op = op /\ call.phase = "called"

Finish(r) ==
    call' = [call EXCEPT !.phase = "executed", !.result = r,
                         !.first = IF call.tries = 0 THEN r ELSE call.first]

OrNone(v) == IF v = Null THEN "None" ELSE v

get_share_by_epoch ==
    /\ Executing("get_share")
    /\ Finish(OrNone(GetShareByEpoch(shares[call.key], call.epoch)))
    /\ UNCHANGED <<shares, inProgress, cursor>>

delete_oprf_key_material ==
    /\ Executing("delete")
    /\ shares' = [shares EXCEPT ![call.key] = SoftDeleteShares(@)]
    /\ inProgress' = [inProgress EXCEPT ![call.key] = DeleteIntermediates(@)]
    /\ Finish("Ok")
    /\ UNCHANGED cursor

try_store_keygen_intermediates ==
    /\ Executing("try_store")
    /\ inProgress' = [inProgress EXCEPT
            ![call.key] = TryStoreIntermediates(@, call.epoch, call.arg)]
    /\ Finish(inProgress'[call.key][call.epoch].im)
    /\ UNCHANGED <<shares, cursor>>

fetch_keygen_intermediates ==
    /\ Executing("fetch")
    /\ LET row == inProgress[call.key][call.epoch]
       IN  Finish(IF row = Null THEN "MissingIntermediates" ELSE row.im)
    /\ UNCHANGED <<shares, inProgress, cursor>>

abort_keygen ==
    /\ Executing("abort")
    /\ inProgress' = [inProgress EXCEPT ![call.key] = DeleteIntermediates(@)]
    /\ Finish("Ok")
    /\ UNCHANGED <<shares, cursor>>

store_pending_dlog_share ==
    /\ Executing("store_pending")
    /\ inProgress' = [inProgress EXCEPT
            ![call.key] = StorePendingShare(@, call.epoch, call.arg)]
    /\ Finish(IF inProgress[call.key][call.epoch] = Null
              THEN "MissingIntermediates" ELSE "Ok")
    /\ UNCHANGED <<shares, cursor>>

confirm_dlog_share ==
    LET row == shares[call.key]
        ip  == inProgress[call.key]
        out == ConfirmOutcome(row, ip, call.epoch)
    IN  /\ Executing("confirm")
        /\ IF out = "Ok"
           THEN /\ shares' = [shares EXCEPT
                        ![call.key] = ConfirmRow(row, ip, call.epoch, call.arg)]
                /\ inProgress' = [inProgress EXCEPT
                        ![call.key] = DeleteIntermediates(@)]
           ELSE UNCHANGED <<shares, inProgress>>
        /\ Finish(out)
        /\ UNCHANGED cursor

store_chain_cursor ==
    /\ Executing("store_cursor")
    /\ StoreChainCursor(call.arg)
    /\ Finish("Ok")
    /\ UNCHANGED <<shares, inProgress>>

Execute ==
    \/ get_share_by_epoch
    \/ delete_oprf_key_material
    \/ try_store_keygen_intermediates
    \/ fetch_keygen_intermediates
    \/ abort_keygen
    \/ store_pending_dlog_share
    \/ confirm_dlog_share
    \/ store_chain_cursor

(* The connection fails after the commit: with_retry executes the call      *)
(* again.  An error of confirm comes from inside the transaction and is     *)
(* final; the other operations look at what their one statement did only    *)
(* when with_retry has returned.                                            *)
with_retry ==
    /\ call.phase = "executed"
    /\ call.op = "confirm" => call.result = "Ok"
    /\ call.tries < MaxRetries
    /\ call' = [call EXCEPT !.phase = "called", !.tries = @ + 1]
    /\ UNCHANGED <<shares, inProgress, cursor>>

Return ==
    /\ call.phase = "executed"
    /\ call' = Idle
    /\ UNCHANGED <<shares, inProgress, cursor>>

(* start_cursor_checkpoint_task: a block number fetched at any earlier time. *)
StoreCheckpoint ==
    /\ \E block \in 0 .. MaxBlock : StoreChainCursor(<<block, 0>>)
    /\ UNCHANGED <<shares, inProgress, call>>

Next == BeginCall \/ Execute \/ with_retry \/ Return \/ StoreCheckpoint

Spec == Init /\ [][Next]_vars

-----------------------------------------------------------------------------
(* The CHECK constraint of table shares holds of every row, whatever the    *)
(* order of confirms and deletes: a deleted row holds no share and a row    *)
(* that holds none is deleted.                                              *)
RowsSatisfyCheck == \A k \in Key : shares[k] # Null => DeletedShareNull(shares[k])

(* A caller that was told Ok after any number of silent re-executions was   *)
(* told what the first execution did: retrying a committed transaction is   *)
(* not visible (the idempotence that the comments in confirm_dlog_share and *)
(* try_store_keygen_intermediates claim).                                   *)
RetryIsTransparent == call.phase = "executed" => call.result = call.first

(* secret_manager.rs on confirm_dlog_share: it "MUST store the confirmed    *)
(* share and delete all in-progress intermediates", and "the share for the  *)
(* provided epoch MUST be ready to use" -- also when it was retried.        *)
ConfirmedIsReady ==
    call.op = "confirm" /\ call.phase = "executed" /\ call.result = "Ok" =>
        /\ GetShareByEpoch(shares[call.key], call.epoch) # Null
        /\ inProgress[call.key] = NoIntermediates

(* A row of table shares only ever moves forward (RowForward): its epoch    *)
(* never falls, a deleted row never comes back to life, and a live share is *)
(* replaced only by one of a later epoch.                                   *)
SharesOnlyMoveForward == [][\A k \in Key : RowForward(shares[k], shares'[k])]_vars

(* The intermediates of a key-gen are never replaced while it is in         *)
(* progress, so a contribution computed again after a restart is the one    *)
(* that was sent before; they go away only as a whole, with every epoch of  *)
(* the key.                                                                 *)
IntermediatesStable ==
    [][\A k \in Key, e \in Epoch :
          inProgress[k][e] # Null =>
              \/ inProgress'[k] = NoIntermediates
              \/ inProgress'[k][e] # Null /\ inProgress'[k][e].im = inProgress[k][e].im]_vars

(* The cursor never moves back, whichever of the two tasks writes it last.  *)
CursorMonotone ==
    [][\/ cursor'[1] > cursor[1]
       \/ cursor'[1] = cursor[1] /\ cursor'[2] >= cursor[2]]_vars
=============================================================================
