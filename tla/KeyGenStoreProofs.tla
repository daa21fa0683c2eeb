------------------------- MODULE KeyGenStoreProofs -------------------------
(***************************************************************************)
(* Proofs about KeyGenStore, for any number of keys, epochs, shares and     *)
(* retries.                                                                 *)
(***************************************************************************)
EXTENDS KeyGenStore, KeyGenDbProofs

Row == ShareRow(Share, PublicKey)
Ip  == Table(Intermediate, Share)

-----------------------------------------------------------------------------
(* The inductive invariant. *)

(* What executing the call in flight now would return. *)
Outcome ==
    LET row == shares[call.key]
        ip  == inProgress[call.key]
    IN  CASE call.op = "get_share" -> OrNone(GetShareByEpoch(row, call.epoch))
          [] call.op = "try_store" ->
                IF ip[call.epoch] = Null THEN call.arg ELSE ip[call.epoch].im
          [] call.op = "fetch" ->
                IF ip[call.epoch] = Null THEN "MissingIntermediates" ELSE ip[call.epoch].im
          [] call.op = "store_pending" ->
                IF ip[call.epoch] = Null THEN "MissingIntermediates" ELSE "Ok"
          [] call.op = "confirm" -> ConfirmOutcome(row, ip, call.epoch)
          [] OTHER -> "Ok"

(* The arguments of the call in flight are what its operation takes. *)
ArgsOK ==
    /\ call.op \in {"get_share", "fetch", "try_store", "store_pending", "confirm"} =>
          call.key \in Key /\ call.epoch \in Epoch
    /\ call.op \in {"delete", "abort"} => call.key \in Key
    /\ call.op = "try_store" => call.arg \in Intermediate
    /\ call.op = "store_pending" => call.arg \in Share
    /\ call.op = "confirm" => call.arg \in PublicKey
    /\ call.op = "store_cursor" => call.arg \in Position

(* Once a call has been executed, executing it again returns the same. *)
RetryInv ==
    /\ call.phase = "executed" \/ call.tries > 0 => call.first = Outcome
    /\ call.op = "idle" => call.phase = "called" /\ call.tries = 0

StoreInv ==
    /\ StoreTypeOK /\ ArgsOK
    /\ RowsSatisfyCheck
    /\ RetryInv /\ RetryIsTransparent
    /\ ConfirmedIsReady

(* A finished execution, given what it returns is what it would return the  *)
(* next time, keeps everything the invariant says of the call.              *)
LEMMA FinishStep ==
    ASSUME StoreInv, NEW r \in Result, Finish(r), call.phase = "called",
           call.op # "idle", r = Outcome, Outcome' = r
    PROVE  call' \in Call /\ ArgsOK' /\ RetryInv' /\ RetryIsTransparent'
<1>1. call \in Call
  BY DEF StoreInv, StoreTypeOK
<1>2. /\ call' \in Call
      /\ call'.op = call.op /\ call'.key = call.key /\ call'.epoch = call.epoch
      /\ call'.arg = call.arg /\ call'.tries = call.tries
      /\ call'.phase = "executed" /\ call'.result = r
      /\ call'.first = IF call.tries = 0 THEN r ELSE call.first
  BY <1>1 DEF Finish, Call
<1>3. ArgsOK'
  BY <1>2 DEF StoreInv, ArgsOK
<1>4. call.tries \in Nat
  BY <1>1, StoreAssumption DEF Call
<1>5. call'.first = r
  BY <1>2, <1>4 DEF StoreInv, RetryInv
<1> QED
  BY <1>2, <1>3, <1>5 DEF RetryInv, RetryIsTransparent

(* The invariant holds initially. *)
LEMMA StoreInvInit == Init => StoreInv
<1> SUFFICES ASSUME Init PROVE StoreInv
  OBVIOUS
<1>1. StoreTypeOK
  BY MaxEpochAssumption, StoreAssumption
     DEF Init, StoreTypeOK, NoIntermediates, Idle, Call, Ops, Result, Position
<1>2. ArgsOK /\ RetryInv /\ RetryIsTransparent /\ ConfirmedIsReady
  BY DEF Init, Idle, ArgsOK, RetryInv, RetryIsTransparent, ConfirmedIsReady
<1>3. RowsSatisfyCheck
  BY DEF Init, RowsSatisfyCheck
<1> QED
  BY <1>1, <1>2, <1>3 DEF StoreInv


-----------------------------------------------------------------------------
(* Every step preserves the invariant: making a call. *)
LEMMA BeginCallStep ==
    ASSUME StoreInv, BeginCall
    PROVE  StoreInv'
<1>1. PICK op \in Ops \ {"idle"}, k \in Key \cup {Null}, e \in Epoch \cup {Null},
           a \in Intermediate \cup Share \cup PublicKey \cup Position \cup {Null} :
        /\ Begin(op, k, e, a)
        /\ op \in {"get_share", "fetch", "try_store", "store_pending", "confirm"} =>
              k \in Key /\ e \in Epoch
        /\ op \in {"delete", "abort"} => k \in Key
        /\ op = "try_store" => a \in Intermediate
        /\ op = "store_pending" => a \in Share
        /\ op = "confirm" => a \in PublicKey
        /\ op = "store_cursor" => a \in Position
  BY DEF BeginCall, Ops
<1>2. /\ call'.op = op /\ call'.key = k /\ call'.epoch = e /\ call'.arg = a
      /\ call'.phase = "called" /\ call'.tries = 0
      /\ UNCHANGED <<shares, inProgress, cursor>>
  BY <1>1 DEF Begin, Idle
<1>3. call' \in Call
  <2>1. call' = [op |-> op, key |-> k, epoch |-> e, arg |-> a, phase |-> "called",
                 tries |-> 0, first |-> Null, result |-> Null]
    BY <1>1 DEF Begin, Idle
  <2>2. 0 \in 0 .. MaxRetries /\ Null \in Result
    BY StoreAssumption DEF Result
  <2>3. op \in Ops
    BY <1>1
  <2> QED
    BY <2>1, <2>2, <2>3 DEF Call
<1>4. StoreTypeOK'
  BY <1>2, <1>3 DEF StoreInv, StoreTypeOK
<1>5. ArgsOK'
  BY <1>1, <1>2 DEF ArgsOK
<1>6. RowsSatisfyCheck'
  BY <1>2 DEF StoreInv, RowsSatisfyCheck
<1>7. RetryInv' /\ RetryIsTransparent' /\ ConfirmedIsReady'
  BY <1>1, <1>2 DEF RetryInv, RetryIsTransparent, ConfirmedIsReady
<1> QED
  BY <1>4, <1>5, <1>6, <1>7 DEF StoreInv

(* ... a call that only reads the tables, or only writes the cursor. *)
LEMMA ReadStep ==
    ASSUME StoreInv, get_share_by_epoch \/ fetch_keygen_intermediates \/ store_chain_cursor
    PROVE  StoreInv'
<1>0. /\ call \in Call /\ call.op \notin {"idle", "confirm"} /\ call.phase = "called"
      /\ shares' = shares /\ inProgress' = inProgress
  BY DEF StoreInv, StoreTypeOK, get_share_by_epoch, fetch_keygen_intermediates,
         store_chain_cursor, Executing
<1>1. PICK r : Finish(r) /\ r = Outcome
  BY DEF get_share_by_epoch, fetch_keygen_intermediates, store_chain_cursor,
         Executing, Outcome
<1>2. r \in Result
  <2>1. CASE call.op = "get_share"
    <3>1. call.key \in Key /\ call.epoch \in Epoch
      BY <2>1 DEF StoreInv, ArgsOK
    <3>2. shares[call.key] \in Row \cup {Null}
      BY <3>1 DEF StoreInv, StoreTypeOK, Row
    <3>3. GetShareByEpoch(shares[call.key], call.epoch) \in Share \cup {Null}
      BY <3>1, <3>2, GetShareByEpochType DEF Row
    <3> QED BY <1>1, <2>1, <3>3 DEF Outcome, OrNone, Result
  <2>2. CASE call.op = "fetch"
    <3>1. call.key \in Key /\ call.epoch \in Epoch
      BY <2>2 DEF StoreInv, ArgsOK
    <3>2. inProgress[call.key][call.epoch] \in InProgressRow(Intermediate, Share) \cup {Null}
      BY <3>1 DEF StoreInv, StoreTypeOK
    <3> QED BY <1>1, <2>2, <3>2 DEF Outcome, Result, Errors, InProgressRow
  <2>3. CASE call.op = "store_cursor"
    BY <1>1, <2>3 DEF Outcome, Result
  <2> QED
    BY <2>1, <2>2, <2>3 DEF get_share_by_epoch, fetch_keygen_intermediates,
                            store_chain_cursor, Executing
<1>3. call'.op = call.op /\ call'.key = call.key /\ call'.epoch = call.epoch
      /\ call'.arg = call.arg
  BY <1>0, <1>1 DEF Finish, Call
<1>4. Outcome' = r
  BY <1>0, <1>1, <1>3 DEF Outcome
<1>5. call' \in Call /\ ArgsOK' /\ RetryInv' /\ RetryIsTransparent'
  BY <1>0, <1>1, <1>2, <1>4, FinishStep
<1>6. cursor' \in Position
  <2>1. CASE store_chain_cursor
    BY <2>1 DEF store_chain_cursor, Executing, StoreChainCursor, StoreInv, StoreTypeOK, ArgsOK
  <2> QED
    BY <2>1 DEF get_share_by_epoch, fetch_keygen_intermediates, StoreInv, StoreTypeOK
<1>7. StoreTypeOK'
  BY <1>0, <1>5, <1>6 DEF StoreInv, StoreTypeOK
<1>8. RowsSatisfyCheck' /\ ConfirmedIsReady'
  BY <1>0, <1>3 DEF StoreInv, RowsSatisfyCheck, ConfirmedIsReady
<1> QED
  BY <1>5, <1>7, <1>8 DEF StoreInv

(* ... a call that writes in_progress_keygens only. *)
LEMMA InProgressStep ==
    ASSUME StoreInv,
           try_store_keygen_intermediates \/ store_pending_dlog_share \/ abort_keygen
    PROVE  StoreInv'
<1> DEFINE k == call.key
           e == call.epoch
<1>0. /\ call \in Call /\ call.op \notin {"idle", "confirm"} /\ call.phase = "called"
      /\ shares' = shares /\ cursor' = cursor /\ k \in Key
      /\ inProgress \in [Key -> Ip]
  BY DEF StoreInv, StoreTypeOK, ArgsOK, Ip, Table, try_store_keygen_intermediates,
         store_pending_dlog_share, abort_keygen, Executing
<1>1. ASSUME NEW r \in Result, NEW ip \in Ip, r = Outcome, Finish(r),
             inProgress' = [inProgress EXCEPT ![k] = ip], Outcome' = r
      PROVE  StoreInv'
  <2>1. call' \in Call /\ ArgsOK' /\ RetryInv' /\ RetryIsTransparent'
    BY <1>0, <1>1, FinishStep
  <2>2. call'.op = call.op
    BY <1>0, <1>1 DEF Finish, Call
  <2>3. inProgress' \in [Key -> Ip]
    BY <1>0, <1>1
  <2>4. StoreTypeOK'
    BY <1>0, <2>1, <2>3 DEF StoreInv, StoreTypeOK, Ip, Table
  <2>5. RowsSatisfyCheck' /\ ConfirmedIsReady'
    BY <1>0, <2>2 DEF StoreInv, RowsSatisfyCheck, ConfirmedIsReady
  <2> QED
    BY <2>1, <2>4, <2>5 DEF StoreInv
<1>2. CASE try_store_keygen_intermediates
  <2>1. /\ call.op = "try_store" /\ e \in Epoch /\ call.arg \in Intermediate
        /\ inProgress[k] \in Ip /\ k \in Key
    BY <1>0, <1>2 DEF try_store_keygen_intermediates, Executing, StoreInv, ArgsOK
  <2> DEFINE ip == TryStoreIntermediates(inProgress[k], e, call.arg)
             r == ip[e].im
  <2>2. ip \in Ip
    BY <2>1 DEF TryStoreIntermediates, Ip, Table, InProgressRow
  <2>3. inProgress' = [inProgress EXCEPT ![k] = ip] /\ inProgress'[k] = ip
    BY <1>0, <1>2 DEF try_store_keygen_intermediates
  <2>4. ip[e] \in InProgressRow(Intermediate, Share) /\ ip[e] # Null
    BY <2>1, StoreAssumption DEF TryStoreIntermediates, Ip, Table, InProgressRow
  <2>5. r \in Result
    BY <2>4 DEF InProgressRow, Result
  <2>6. r = Outcome
    BY <2>1 DEF TryStoreIntermediates, Outcome, Ip, Table
  <2>7. Finish(r)
    BY <1>2, <2>3 DEF try_store_keygen_intermediates
  <2>8. call'.op = call.op /\ call'.key = k /\ call'.epoch = e
    BY <1>0, <2>7 DEF Finish, Call
  <2>9. Outcome' = r
    BY <2>1, <2>3, <2>4, <2>8 DEF Outcome
  <2> QED BY <1>1, <2>2, <2>3, <2>5, <2>6, <2>7, <2>9
<1>3. CASE store_pending_dlog_share
  <2>1. /\ call.op = "store_pending" /\ e \in Epoch /\ call.arg \in Share
        /\ inProgress[k] \in Ip /\ k \in Key
    BY <1>0, <1>3 DEF store_pending_dlog_share, Executing, StoreInv, ArgsOK
  <2> DEFINE ip == StorePendingShare(inProgress[k], e, call.arg)
             r == IF inProgress[k][e] = Null THEN "MissingIntermediates" ELSE "Ok"
  <2>2. ip \in Ip
    BY <2>1 DEF StorePendingShare, Ip, Table, InProgressRow
  <2>3. inProgress' = [inProgress EXCEPT ![k] = ip] /\ inProgress'[k] = ip
    BY <1>0, <1>3 DEF store_pending_dlog_share
  <2>4. ip[e] = Null <=> inProgress[k][e] = Null
    BY <2>1, StoreAssumption DEF StorePendingShare, Ip, Table, InProgressRow
  <2>5. r \in Result
    BY DEF Result, Errors
  <2>6. r = Outcome
    BY <2>1 DEF Outcome
  <2>7. Finish(r)
    BY <1>3 DEF store_pending_dlog_share
  <2>8. call'.op = call.op /\ call'.key = k /\ call'.epoch = e
    BY <1>0, <2>7 DEF Finish, Call
  <2>9. Outcome' = r
    BY <2>1, <2>3, <2>4, <2>8 DEF Outcome
  <2> QED BY <1>1, <2>2, <2>3, <2>5, <2>6, <2>7, <2>9
<1>4. CASE abort_keygen
  <2>1. call.op = "abort" /\ Finish("Ok")
    BY <1>4 DEF abort_keygen, Executing
  <2>2. NoIntermediates \in Ip
    BY DEF NoIntermediates, Ip, Table
  <2>3. inProgress' = [inProgress EXCEPT ![k] = NoIntermediates]
    BY <1>4 DEF abort_keygen, DeleteIntermediates
  <2>4. "Ok" = Outcome /\ "Ok" \in Result
    BY <2>1 DEF Outcome, Result
  <2>5. Outcome' = "Ok"
    BY <1>0, <2>1 DEF Outcome, Finish, Call
  <2> QED BY <1>1, <2>1, <2>2, <2>3, <2>4, <2>5
<1> QED BY <1>2, <1>3, <1>4


(* ... a deletion, which writes both tables. *)
LEMMA DeleteStep ==
    ASSUME StoreInv, delete_oprf_key_material
    PROVE  StoreInv'
<1> DEFINE k == call.key
           row == SoftDeleteShares(shares[k])
<1>1. /\ call \in Call /\ call.op = "delete" /\ call.phase = "called" /\ k \in Key
      /\ shares \in [Key -> Row \cup {Null}] /\ inProgress \in [Key -> Ip]
      /\ shares' = [shares EXCEPT ![k] = row]
      /\ inProgress' = [inProgress EXCEPT ![k] = NoIntermediates]
      /\ cursor' = cursor /\ Finish("Ok")
  BY DEF StoreInv, StoreTypeOK, ArgsOK, Row, Ip, Table, delete_oprf_key_material, Executing,
         DeleteIntermediates
<1>2. row \in Row \cup {Null} /\ (row # Null => DeletedShareNull(row))
  <2>1. CASE shares[k] = Null
    BY <2>1 DEF SoftDeleteShares
  <2>2. CASE shares[k] # Null
    <3>1. shares[k] \in Row
      BY <1>1, <2>2
    <3>2. row \in Row /\ row.deleted /\ row.share = Null
      BY <3>1, SoftDelete, StoreAssumption DEF Row
    <3> QED BY <3>2 DEF DeletedShareNull
  <2> QED BY <2>1, <2>2
<1>3. call'.op = call.op
  BY <1>1 DEF Finish, Call
<1>4. "Ok" = Outcome /\ Outcome' = "Ok" /\ "Ok" \in Result
  BY <1>1, <1>3 DEF Outcome, Result
<1>5. call' \in Call /\ ArgsOK' /\ RetryInv' /\ RetryIsTransparent'
  BY <1>1, <1>4, FinishStep
<1>6. shares' \in [Key -> Row \cup {Null}]
  BY <1>1, <1>2
<1>7. inProgress' \in [Key -> Ip]
  BY <1>1 DEF NoIntermediates, Ip, Table
<1>8. StoreTypeOK'
  BY <1>1, <1>5, <1>6, <1>7 DEF StoreInv, StoreTypeOK, Row, Ip, Table
<1>9. RowsSatisfyCheck'
  BY <1>1, <1>2 DEF StoreInv, RowsSatisfyCheck
<1>10. ConfirmedIsReady'
  BY <1>1, <1>3 DEF ConfirmedIsReady
<1> QED
  BY <1>5, <1>8, <1>9, <1>10 DEF StoreInv

(* ... a confirmation: the transaction that could go wrong. *)
LEMMA ConfirmStep ==
    ASSUME StoreInv, confirm_dlog_share
    PROVE  StoreInv'
<1> DEFINE k == call.key
           e == call.epoch
           row == shares[k]
           ip == inProgress[k]
           out == ConfirmOutcome(row, ip, e)
           new == ConfirmRow(row, ip, e, call.arg)
<1>1. /\ call \in Call /\ call.op = "confirm" /\ call.phase = "called"
      /\ k \in Key /\ e \in Epoch /\ call.arg \in PublicKey
      /\ shares \in [Key -> Row \cup {Null}] /\ inProgress \in [Key -> Ip]
      /\ row \in Row \cup {Null} /\ ip \in Ip
      /\ cursor' = cursor /\ Finish(out)
  BY DEF StoreInv, StoreTypeOK, ArgsOK, Row, Ip, Table, confirm_dlog_share, Executing
<1>2. row # Null => DeletedShareNull(row)
  BY <1>1 DEF StoreInv, RowsSatisfyCheck
<1>3. out \in Result
  BY DEF ConfirmOutcome, Result, Errors
<1>4. out = Outcome
  BY <1>1 DEF Outcome
<1>5. call'.op = call.op /\ call'.key = k /\ call'.epoch = e /\ call'.result = out
  BY <1>1 DEF Finish, Call
<1>6. CASE out = "Ok"
  <2>1. /\ shares' = [shares EXCEPT ![k] = new]
        /\ inProgress' = [inProgress EXCEPT ![k] = NoIntermediates]
    BY <1>6 DEF confirm_dlog_share, DeleteIntermediates
  <2>2. new \in Row /\ DeletedShareNull(new) /\ GetShareByEpoch(new, e) # Null
    BY <1>1, <1>2, <1>6, ConfirmOk, StoreAssumption DEF Row, Ip
  <2>3. shares'[k] = new /\ inProgress'[k] = NoIntermediates
    BY <1>1, <2>1
  <2>4. Outcome' = "Ok"
    BY <1>1, <1>5, <2>2, <2>3 DEF Outcome, ConfirmOutcome
  <2>5. call' \in Call /\ ArgsOK' /\ RetryInv' /\ RetryIsTransparent'
    BY <1>1, <1>3, <1>4, <1>6, <2>4, FinishStep
  <2>6. shares' \in [Key -> Row \cup {Null}]
    BY <1>1, <2>1, <2>2
  <2>7. inProgress' \in [Key -> Ip]
    BY <1>1, <2>1 DEF NoIntermediates, Ip, Table
  <2>8. StoreTypeOK'
    BY <1>1, <2>5, <2>6, <2>7 DEF StoreInv, StoreTypeOK, Row, Ip, Table
  <2>9. RowsSatisfyCheck'
    BY <1>1, <2>1, <2>2 DEF StoreInv, RowsSatisfyCheck
  <2>10. ConfirmedIsReady'
    BY <1>5, <2>2, <2>3 DEF ConfirmedIsReady
  <2> QED
    BY <2>5, <2>8, <2>9, <2>10 DEF StoreInv
<1>7. CASE out # "Ok"
  <2>1. shares' = shares /\ inProgress' = inProgress
    BY <1>7 DEF confirm_dlog_share
  <2>2. Outcome' = out
    BY <1>1, <1>5, <2>1 DEF Outcome
  <2>3. call' \in Call /\ ArgsOK' /\ RetryInv' /\ RetryIsTransparent'
    BY <1>1, <1>3, <1>4, <2>2, FinishStep
  <2>4. StoreTypeOK'
    BY <1>1, <2>1, <2>3 DEF StoreInv, StoreTypeOK
  <2>5. RowsSatisfyCheck' /\ ConfirmedIsReady'
    BY <1>5, <1>7, <2>1 DEF StoreInv, RowsSatisfyCheck, ConfirmedIsReady
  <2> QED
    BY <2>3, <2>4, <2>5 DEF StoreInv
<1> QED BY <1>6, <1>7

(* ... a retry, a return, a checkpoint and a stuttering step. *)
LEMMA OtherStep ==
    ASSUME StoreInv, with_retry \/ Return \/ StoreCheckpoint \/ UNCHANGED vars
    PROVE  StoreInv'
<1>0. call \in Call
  BY DEF StoreInv, StoreTypeOK
<1>1. CASE with_retry
  <2>1. /\ call' = [call EXCEPT !.phase = "called", !.tries = @ + 1]
        /\ call.phase = "executed" /\ call.tries < MaxRetries
        /\ UNCHANGED <<shares, inProgress, cursor>>
    BY <1>1 DEF with_retry
  <2>2. /\ call'.op = call.op /\ call'.key = call.key /\ call'.epoch = call.epoch
        /\ call'.arg = call.arg /\ call'.first = call.first /\ call'.phase = "called"
    BY <1>0, <2>1 DEF Call
  <2>3. call.tries + 1 \in 0 .. MaxRetries
    BY <1>0, <2>1, StoreAssumption DEF Call
  <2>4. call' \in Call
    BY <1>0, <2>1, <2>3 DEF Call
  <2>5. Outcome' = Outcome
    BY <2>1, <2>2 DEF Outcome
  <2>6. RetryInv'
    BY <2>1, <2>2, <2>5 DEF StoreInv, RetryInv
  <2>7. StoreTypeOK' /\ RowsSatisfyCheck'
    BY <2>1, <2>4 DEF StoreInv, StoreTypeOK, RowsSatisfyCheck
  <2>8. ArgsOK' /\ RetryIsTransparent' /\ ConfirmedIsReady'
    BY <2>2 DEF StoreInv, ArgsOK, RetryIsTransparent, ConfirmedIsReady
  <2> QED
    BY <2>6, <2>7, <2>8 DEF StoreInv
<1>2. CASE Return
  <2>1. call' = Idle /\ UNCHANGED <<shares, inProgress, cursor>>
    BY <1>2 DEF Return
  <2>2. Idle \in Call
    BY StoreAssumption DEF Idle, Call, Ops, Result
  <2>3. StoreTypeOK' /\ RowsSatisfyCheck'
    BY <2>1, <2>2 DEF StoreInv, StoreTypeOK, RowsSatisfyCheck
  <2>4. ArgsOK' /\ RetryInv' /\ RetryIsTransparent' /\ ConfirmedIsReady'
    BY <2>1 DEF Idle, ArgsOK, RetryInv, RetryIsTransparent, ConfirmedIsReady
  <2> QED
    BY <2>3, <2>4 DEF StoreInv
<1>3. CASE StoreCheckpoint \/ UNCHANGED vars
  <2>1. shares' = shares /\ inProgress' = inProgress /\ call' = call
    BY <1>3 DEF StoreCheckpoint, vars
  <2>2. cursor' \in Position
    <3>1. CASE StoreCheckpoint
      <4>1. PICK block \in 0 .. MaxBlock : StoreChainCursor(<<block, 0>>)
        BY <3>1 DEF StoreCheckpoint
      <4>2. <<block, 0>> \in Position
        BY StoreAssumption DEF Position
      <4> QED BY <4>1, <4>2 DEF StoreChainCursor, StoreInv, StoreTypeOK
    <3>2. CASE UNCHANGED vars
      BY <3>2 DEF vars, StoreInv, StoreTypeOK
    <3> QED BY <1>3, <3>1, <3>2
  <2>3. Outcome' = Outcome
    BY <2>1 DEF Outcome
  <2>4. StoreTypeOK'
    BY <2>1, <2>2 DEF StoreInv, StoreTypeOK
  <2>5. RetryInv'
    BY <2>1, <2>3 DEF StoreInv, RetryInv
  <2>6. ArgsOK' /\ RowsSatisfyCheck' /\ RetryIsTransparent' /\ ConfirmedIsReady'
    BY <2>1 DEF StoreInv, ArgsOK, RowsSatisfyCheck, RetryIsTransparent, ConfirmedIsReady
  <2> QED
    BY <2>4, <2>5, <2>6 DEF StoreInv
<1> QED BY <1>1, <1>2, <1>3

(* The invariant is inductive. *)
LEMMA StoreInvStep == StoreInv /\ [Next]_vars => StoreInv'
<1> SUFFICES ASSUME StoreInv, [Next]_vars PROVE StoreInv'
  OBVIOUS
<1>1. CASE BeginCall
  BY <1>1, BeginCallStep
<1>2. CASE Execute
  BY <1>2, ReadStep, InProgressStep, DeleteStep, ConfirmStep DEF Execute
<1>3. CASE with_retry \/ Return \/ StoreCheckpoint \/ UNCHANGED vars
  BY <1>3, OtherStep
<1> QED
  BY <1>1, <1>2, <1>3 DEF Next

LEMMA StoreInvHolds == Spec => []StoreInv
<1> QED
  BY StoreInvInit, StoreInvStep, PTL DEF Spec


-----------------------------------------------------------------------------
(* The tables, the cursor and the call in flight always have their types.   *)
THEOREM StoreType == Spec => []StoreTypeOK
<1>1. StoreInv => StoreTypeOK
  BY DEF StoreInv
<1> QED
  BY <1>1, StoreInvHolds, PTL

(* In whatever order confirm_dlog_share and delete_oprf_key_material are    *)
(* executed and retried, no row violates the CHECK constraint of shares.    *)
THEOREM CheckConstraint == Spec => []RowsSatisfyCheck
<1>1. StoreInv => RowsSatisfyCheck
  BY DEF StoreInv
<1> QED
  BY <1>1, StoreInvHolds, PTL

(* with_retry may execute a committed operation again, any number of times: *)
(* the caller gets the answer of the first execution.                       *)
THEOREM RetriesAreIdempotent == Spec => []RetryIsTransparent
<1>1. StoreInv => RetryIsTransparent
  BY DEF StoreInv
<1> QED
  BY <1>1, StoreInvHolds, PTL

(* When confirm_dlog_share returns Ok the share can be read back and        *)
(* nothing of the key generation is left.                                   *)
THEOREM ConfirmIsFinal == Spec => []ConfirmedIsReady
<1>1. StoreInv => ConfirmedIsReady
  BY DEF StoreInv
<1> QED
  BY <1>1, StoreInvHolds, PTL

(* No step takes a row of shares back to an earlier epoch, revives a        *)
(* deleted one, or replaces a live share within its epoch.                  *)
THEOREM SharesMoveForward == Spec => SharesOnlyMoveForward
<1>1. ASSUME StoreInv, [Next]_vars
      PROVE  [\A k \in Key : RowForward(shares[k], shares'[k])]_vars
  <2>0. SUFFICES ASSUME NEW k \in Key PROVE RowForward(shares[k], shares'[k])
    OBVIOUS
  <2>1. /\ shares \in [Key -> Row \cup {Null}] /\ inProgress \in [Key -> Ip]
        /\ shares[k] # Null => DeletedShareNull(shares[k])
    BY <1>1 DEF StoreInv, StoreTypeOK, RowsSatisfyCheck, Row, Ip, Table
  <2>2. CASE shares'[k] = shares[k]
    BY <2>1, <2>2, MaxEpochAssumption DEF RowForward, Row, ShareRow, Epoch
  <2>3. CASE delete_oprf_key_material /\ call.key = k
    <3>1. shares'[k] = SoftDeleteShares(shares[k])
      BY <2>1, <2>3 DEF delete_oprf_key_material
    <3>2. CASE shares[k] \in Row
      BY <2>1, <3>1, <3>2, SoftDelete, MaxEpochAssumption, StoreAssumption
         DEF RowForward, Row, ShareRow, Epoch
    <3> QED BY <2>1, <3>2 DEF RowForward
  <2>4. CASE confirm_dlog_share /\ call.key = k /\ shares' # shares
    <3>1. /\ call.op = "confirm" /\ call.epoch \in Epoch /\ call.arg \in PublicKey
          /\ ConfirmOutcome(shares[k], inProgress[k], call.epoch) = "Ok"
          /\ shares'[k] = ConfirmRow(shares[k], inProgress[k], call.epoch, call.arg)
      BY <1>1, <2>1, <2>4 DEF confirm_dlog_share, Executing, StoreInv, ArgsOK
    <3>2. shares[k] \in Row \cup {Null} /\ inProgress[k] \in Ip
      BY <2>1
    <3> QED BY <2>1, <3>1, <3>2, ConfirmOk, StoreAssumption DEF Row, Ip
  <2>5. \/ shares'[k] = shares[k]
        \/ delete_oprf_key_material /\ call.key = k
        \/ confirm_dlog_share /\ call.key = k /\ shares' # shares
    <3>1. CASE delete_oprf_key_material \/ confirm_dlog_share
      BY <2>1, <3>1 DEF delete_oprf_key_material, confirm_dlog_share
    <3>2. CASE ~(delete_oprf_key_material \/ confirm_dlog_share)
      BY <1>1, <3>2 DEF Next, BeginCall, Begin, Execute, get_share_by_epoch,
         try_store_keygen_intermediates, fetch_keygen_intermediates, abort_keygen,
         store_pending_dlog_share, store_chain_cursor, with_retry, Return,
         StoreCheckpoint, vars
    <3> QED BY <3>1, <3>2
  <2> QED BY <2>2, <2>3, <2>4, <2>5
<1> QED
  BY <1>1, StoreInvHolds, PTL DEF Spec, SharesOnlyMoveForward

(* The stored intermediates of a key generation are never replaced: what    *)
(* round 1 committed to is what every later round, and every replay, reads. *)
THEOREM IntermediatesAreStable == Spec => IntermediatesStable
<1> DEFINE Stable(k, e) ==
        inProgress[k][e] # Null =>
              \/ inProgress'[k] = NoIntermediates
              \/ inProgress'[k][e] # Null /\ inProgress'[k][e].im = inProgress[k][e].im
<1>1. ASSUME StoreInv, [Next]_vars
      PROVE  [\A k \in Key, e \in Epoch : Stable(k, e)]_vars
  <2>0. SUFFICES ASSUME NEW k \in Key, NEW e \in Epoch PROVE Stable(k, e)
    OBVIOUS
  <2>1. inProgress \in [Key -> Ip] /\ inProgress[k] \in Ip
    BY <1>1 DEF StoreInv, StoreTypeOK, Ip, Table
  <2>2. CASE inProgress'[k] = inProgress[k]
    BY <2>2
  <2>3. CASE delete_oprf_key_material \/ abort_keygen \/ confirm_dlog_share
    BY <2>1, <2>3 DEF delete_oprf_key_material, abort_keygen, confirm_dlog_share,
                      DeleteIntermediates
  <2>4. CASE try_store_keygen_intermediates /\ call.key = k
    <3>1. inProgress'[k] = TryStoreIntermediates(inProgress[k], call.epoch, call.arg)
      BY <2>1, <2>4 DEF try_store_keygen_intermediates
    <3> QED BY <2>1, <3>1 DEF TryStoreIntermediates, Ip, Table
  <2>5. CASE store_pending_dlog_share /\ call.key = k
    <3>1. inProgress'[k] = StorePendingShare(inProgress[k], call.epoch, call.arg)
      BY <2>1, <2>5 DEF store_pending_dlog_share
    <3>2. call.epoch \in Epoch /\ call.arg \in Share
      BY <1>1, <2>5 DEF store_pending_dlog_share, Executing, StoreInv, ArgsOK
    <3>3. inProgress[k][call.epoch] \in InProgressRow(Intermediate, Share) \cup {Null}
      BY <2>1, <3>2 DEF Ip, Table
    <3> QED BY <2>1, <3>1, <3>2, <3>3, StoreAssumption DEF StorePendingShare, Ip, Table, InProgressRow
  <2>6. \/ inProgress'[k] = inProgress[k]
        \/ delete_oprf_key_material \/ abort_keygen \/ confirm_dlog_share
        \/ try_store_keygen_intermediates /\ call.key = k
        \/ store_pending_dlog_share /\ call.key = k
    <3>1. CASE try_store_keygen_intermediates \/ store_pending_dlog_share
      BY <2>1, <3>1 DEF try_store_keygen_intermediates, store_pending_dlog_share
    <3>2. CASE ~(\/ try_store_keygen_intermediates \/ store_pending_dlog_share
                 \/ delete_oprf_key_material \/ abort_keygen \/ confirm_dlog_share)
      BY <1>1, <3>2 DEF Next, BeginCall, Begin, Execute, get_share_by_epoch,
         fetch_keygen_intermediates, store_chain_cursor, with_retry, Return,
         StoreCheckpoint, vars
    <3> QED BY <3>1, <3>2
  <2> QED BY <2>2, <2>3, <2>4, <2>5, <2>6
<1> QED
  BY <1>1, StoreInvHolds, PTL DEF Spec, IntermediatesStable

(* Whichever of the watcher and the checkpoint task writes last, the cursor *)
(* never moves back.                                                        *)
THEOREM CursorMovesForward == Spec => CursorMonotone
<1>1. ASSUME StoreInv, [Next]_vars
      PROVE  [\/ cursor'[1] > cursor[1]
              \/ cursor'[1] = cursor[1] /\ cursor'[2] >= cursor[2]]_vars
  <2>1. cursor[1] \in Int /\ cursor[2] \in Int
    BY <1>1, StoreAssumption DEF StoreInv, StoreTypeOK, Position
  <2>2. cursor' = cursor \/ Later(cursor', cursor)
    BY <1>1 DEF Next, BeginCall, Begin, Execute, get_share_by_epoch,
       delete_oprf_key_material, try_store_keygen_intermediates,
       fetch_keygen_intermediates, abort_keygen, store_pending_dlog_share,
       confirm_dlog_share, store_chain_cursor, StoreChainCursor, with_retry, Return,
       StoreCheckpoint, vars
  <2>3. CASE cursor' = cursor
    <3>1. cursor'[1] = cursor[1] /\ cursor'[2] >= cursor[2]
      BY <2>1, <2>3
    <3> QED BY <3>1
  <2>4. CASE Later(cursor', cursor)
    <3>1. cursor' \in Position
      BY <1>1, StoreInvStep DEF StoreInv, StoreTypeOK
    <3>2. cursor'[1] \in Int /\ cursor'[2] \in Int
      BY <3>1, StoreAssumption DEF Position
    <3>3. \/ cursor'[1] > cursor[1]
          \/ cursor'[1] = cursor[1] /\ cursor'[2] >= cursor[2]
      BY <2>1, <2>4, <3>2 DEF Later
    <3> QED BY <3>3
  <2> QED
    BY <2>2, <2>3, <2>4
<1> QED
  BY <1>1, StoreInvHolds, PTL DEF Spec, CursorMonotone

=============================================================================
