--------------------------- MODULE KeyGenDbProofs ---------------------------
(***************************************************************************)
(* Lemmas about the queries of KeyGenDb, for any sets of shares Sh, public  *)
(* keys Pk and intermediates Im.                                            *)
(***************************************************************************)
EXTENDS KeyGenDb, TLAPS

(* The in_progress_keygens rows of one key. *)
Table(Im, Sh) == [Epoch -> InProgressRow(Im, Sh) \cup {Null}]

(* A row is read as its share or as nothing. *)
LEMMA GetShareByEpochType ==
    ASSUME NEW Sh, NEW Pk, NEW row \in ShareRow(Sh, Pk) \cup {Null}, NEW e \in Epoch
    PROVE  GetShareByEpoch(row, e) \in Sh \cup {Null}
BY DEF GetShareByEpoch, ShareRow

(* A pending share is a share or absent. *)
LEMMA FetchPendingShareType ==
    ASSUME NEW Sh, NEW Im, NEW ip \in Table(Im, Sh), NEW e \in Epoch
    PROVE  FetchPendingShare(ip, e) \in Sh \cup {Null}
BY DEF FetchPendingShare, Table, InProgressRow

(* An empty in_progress_keygens table is a table. *)
LEMMA DeleteIntermediatesType ==
    ASSUME NEW Sh, NEW Im, NEW ip
    PROVE  DeleteIntermediates(ip) \in Table(Im, Sh)
BY DEF DeleteIntermediates, NoIntermediates, Table

(* Storing intermediates leaves a table with a row for the epoch, the one   *)
(* that was there if there was one.                                         *)
LEMMA TryStore ==
    ASSUME NEW Sh, NEW Im, Null \notin InProgressRow(Im, Sh),
           NEW ip \in Table(Im, Sh), NEW e \in Epoch, NEW im \in Im
    PROVE  /\ TryStoreIntermediates(ip, e, im) \in Table(Im, Sh)
           /\ TryStoreIntermediates(ip, e, im)[e] \in InProgressRow(Im, Sh)
           /\ TryStoreIntermediates(ip, e, im)[e].im =
                 IF ip[e] = Null THEN im ELSE ip[e].im
BY DEF TryStoreIntermediates, Table, InProgressRow

(* Storing a pending share leaves a table with the same rows for the same   *)
(* epochs and the same intermediates in them.                               *)
LEMMA StorePending ==
    ASSUME NEW Sh, NEW Im, Null \notin InProgressRow(Im, Sh),
           NEW ip \in Table(Im, Sh), NEW e \in Epoch, NEW s \in Sh
    PROVE  /\ StorePendingShare(ip, e, s) \in Table(Im, Sh)
           /\ \A d \in Epoch : StorePendingShare(ip, e, s)[d] = Null <=> ip[d] = Null
           /\ \A d \in Epoch : ip[d] # Null => StorePendingShare(ip, e, s)[d].im = ip[d].im
<1>1. StorePendingShare(ip, e, s) \in Table(Im, Sh)
  BY DEF StorePendingShare, Table, InProgressRow
<1> QED
  BY <1>1 DEF StorePendingShare, Table, InProgressRow

(* A soft delete keeps the epoch and changes nothing of a row that is       *)
(* deleted already.                                                         *)
LEMMA SoftDelete ==
    ASSUME NEW Sh, NEW Pk, Null \notin ShareRow(Sh, Pk), NEW row \in ShareRow(Sh, Pk)
    PROVE  /\ SoftDeleteShares(row) \in ShareRow(Sh, Pk)
           /\ SoftDeleteShares(row) # Null
           /\ SoftDeleteShares(row).epoch = row.epoch
           /\ SoftDeleteShares(row).deleted
           /\ SoftDeleteShares(row).share = Null
           /\ DeletedShareNull(row) /\ row.deleted => SoftDeleteShares(row) = row
<1>1. row # Null
  OBVIOUS
<1>2. SoftDeleteShares(row) = [row EXCEPT !.share = Null, !.deleted = TRUE]
  BY <1>1 DEF SoftDeleteShares
<1>3. SoftDeleteShares(row) \in ShareRow(Sh, Pk)
  BY <1>2 DEF ShareRow
<1>4. SoftDeleteShares(row) # Null
  BY <1>3
<1>5. /\ SoftDeleteShares(row).epoch = row.epoch
      /\ SoftDeleteShares(row).deleted
      /\ SoftDeleteShares(row).share = Null
  BY <1>2 DEF ShareRow
<1>6. DeletedShareNull(row) /\ row.deleted => SoftDeleteShares(row) = row
  BY <1>2 DEF ShareRow, DeletedShareNull
<1> QED
  BY <1>3, <1>4, <1>5, <1>6

(* What a confirm that succeeds finds and leaves: either the share is there *)
(* already and the row stays, or the pending share goes into a new or an    *)
(* older, live row.                                                         *)
LEMMA ConfirmOk ==
    ASSUME NEW Sh, NEW Pk, NEW Im, Null \notin ShareRow(Sh, Pk), Null \notin Sh,
           NEW row \in ShareRow(Sh, Pk) \cup {Null}, NEW ip \in Table(Im, Sh),
           NEW e \in Epoch, NEW pk \in Pk, ConfirmOutcome(row, ip, e) = "Ok",
           row # Null => DeletedShareNull(row)
    PROVE  /\ ConfirmRow(row, ip, e, pk) \in ShareRow(Sh, Pk)
           /\ DeletedShareNull(ConfirmRow(row, ip, e, pk))
           /\ GetShareByEpoch(ConfirmRow(row, ip, e, pk), e) # Null
           /\ RowForward(row, ConfirmRow(row, ip, e, pk))
<1> DEFINE p   == FetchPendingShare(ip, e)
           new == ConfirmRow(row, ip, e, pk)
<1>1. CASE GetShareByEpoch(row, e) # Null
  <2>1. new = row /\ row # Null
    BY <1>1 DEF ConfirmRow, GetShareByEpoch
  <2> QED
    BY <1>1, <2>1, MaxEpochAssumption DEF RowForward, ShareRow, Epoch
<1>2. CASE GetShareByEpoch(row, e) = Null
  <2>1. /\ p # Null
        /\ UpsertAffects(row, e)
        /\ DeletedShareNull(Upsert(row, e, Null, p))
    BY <1>2 DEF ConfirmOutcome
  <2>2. p \in Sh
    BY <2>1, FetchPendingShareType
  <2>3. new = Upsert(row, e, pk, p)
    BY <1>2 DEF ConfirmRow
  <2>4. CASE row = Null
    <3>1. new = [share |-> p, epoch |-> e, pk |-> pk, deleted |-> FALSE]
      BY <2>3, <2>4 DEF Upsert
    <3>2. new \in ShareRow(Sh, Pk)
      BY <3>1, <2>2 DEF ShareRow
    <3>3. new # Null
      BY <3>2
    <3> QED
      BY <3>1, <3>2, <3>3, <2>1, <2>4 DEF DeletedShareNull, GetShareByEpoch, RowForward
  <2>5. CASE row # Null
    <3>1. row \in ShareRow(Sh, Pk)
      BY <2>5
    <3>2. new = [row EXCEPT !.share = p, !.epoch = e, !.pk = pk]
      BY <2>3, <2>5 DEF Upsert
    <3>3. new \in ShareRow(Sh, Pk)
      BY <3>1, <3>2, <2>2 DEF ShareRow
    <3>4. new # Null
      BY <3>3
    <3>5. new.share = p /\ new.epoch = e /\ new.deleted = row.deleted
      BY <3>1, <3>2 DEF ShareRow
    <3>6. ~row.deleted
      BY <3>1, <2>1, <2>5 DEF Upsert, DeletedShareNull, ShareRow
    <3>7. row.epoch < e /\ row.epoch \in Int /\ e \in Int
      BY <3>1, <2>1, <2>5, MaxEpochAssumption DEF UpsertAffects, ShareRow, Epoch
    <3> QED
      BY <3>3, <3>4, <3>5, <3>6, <3>7, <2>1, <2>5
         DEF DeletedShareNull, GetShareByEpoch, RowForward
  <2> QED BY <2>4, <2>5
<1> QED BY <1>1, <1>2
=============================================================================
