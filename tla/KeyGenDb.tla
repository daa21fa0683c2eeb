------------------------------ MODULE KeyGenDb ------------------------------
(***************************************************************************)
(* The Postgres tables of the key-gen service (oprf-key-gen/src/postgres.rs *)
(* and oprf-key-gen/migrations) as values, and its queries as operators.    *)
(*                                                                          *)
(* Everything here is about the rows of ONE key id:                         *)
(*   row  the row of table `shares`, Null when the key has none;            *)
(*   ip   the rows of table `in_progress_keygens`, a function from the      *)
(*        pending epoch to the row, Null where there is none.               *)
(* The modules that use these operators decide what a share, an             *)
(* intermediate value and a public key are.                                 *)
(*                                                                          *)
(* A definition named F_fault, here and in the other modules, is F with the *)
(* named mistake in it; nothing uses it.  They serve to show that the       *)
(* properties tell the code from that mistake.                              *)
(***************************************************************************)
EXTENDS Integers

CONSTANTS Null,      \* SQL NULL, and the absent row
          MaxEpoch   \* bound on the epochs a run explores (a u32 in the code)

ASSUME MaxEpochAssumption == MaxEpoch \in Nat

Epoch == 0 .. MaxEpoch

(***************************************************************************)
(* Table types.  The CHECK constraint deleted_share_null of the migration   *)
(* is a predicate on the row, evaluated by the database on every write.     *)
(***************************************************************************)
ShareRow(Share, PublicKey) ==
    [share : Share \cup {Null}, epoch : Epoch, pk : PublicKey, deleted : BOOLEAN]

InProgressRow(Intermediate, Share) ==
    [im : Intermediate, pending : Share \cup {Null}]

DeletedShareNull(row) == row.deleted <=> (row.share = Null)

NoIntermediates == [e \in Epoch |-> Null]

(***************************************************************************)
(* Queries on `shares`.                                                     *)
(***************************************************************************)
GetShareByEpoch_staleEpoch(row, e) ==
    IF row # Null THEN row.share ELSE Null

GetShareByEpoch(row, e) ==
    IF row # Null /\ row.epoch = e /\ ~row.deleted THEN row.share ELSE Null

SoftDeleteShares_flagOnly(row) ==
    IF row = Null THEN Null ELSE [row EXCEPT !.deleted = TRUE]

SoftDeleteShares(row) ==
    IF row = Null THEN Null ELSE [row EXCEPT !.share = Null, !.deleted = TRUE]

(* The WHERE clause of the upsert: rows_affected is 1 exactly when it holds. *)
UpsertAffects_noEpochGuard(row, e) == TRUE

UpsertAffects(row, e) == row = Null \/ row.epoch < e

(* On a conflict the upsert leaves the column `deleted` alone. *)
Upsert(row, e, pk, s) ==
    IF row = Null
    THEN [share |-> s, epoch |-> e, pk |-> pk, deleted |-> FALSE]
    ELSE [row EXCEPT !.share = s, !.epoch = e, !.pk = pk]

(***************************************************************************)
(* Queries on `in_progress_keygens`.                                        *)
(***************************************************************************)
TryStoreIntermediates_overwrite(ip, e, im) ==
    [ip EXCEPT ![e] = [im |-> im, pending |-> Null]]

(* INSERT ... ON CONFLICT keeps the row that is there, pending share and all. *)
TryStoreIntermediates(ip, e, im) ==
    IF ip[e] # Null THEN ip
    ELSE [ip EXCEPT ![e] = [im |-> im, pending |-> Null]]

StorePendingShare_inserts(ip, e, s) ==
    [ip EXCEPT ![e] = [im |-> IF ip[e] = Null THEN Null ELSE ip[e].im, pending |-> s]]

(* An UPDATE: without a row nothing is stored. *)
StorePendingShare(ip, e, s) ==
    IF ip[e] = Null THEN ip ELSE [ip EXCEPT ![e].pending = s]

FetchPendingShare(ip, e) == IF ip[e] = Null THEN Null ELSE ip[e].pending

DeleteIntermediates_keepRows(ip) == ip

(* DELETE ... WHERE id = $1: the rows of every epoch of the key. *)
DeleteIntermediates(ip) == NoIntermediates

(***************************************************************************)
(* confirm_dlog_share, one SERIALIZABLE transaction: the outcome, and the   *)
(* rows it leaves.  Only "Ok" commits; every error rolls the transaction    *)
(* back.                                                                    *)
(***************************************************************************)
ConfirmOutcome_noAlreadyCheck(row, ip, e) ==
    IF FetchPendingShare(ip, e) = Null THEN "MissingIntermediates"
    ELSE IF ~UpsertAffects(row, e) THEN "RefusingToRollbackEpoch"
    ELSE "Ok"

ConfirmOutcome(row, ip, e) ==
    IF GetShareByEpoch(row, e) # Null THEN "Ok"
    ELSE IF FetchPendingShare(ip, e) = Null THEN "MissingIntermediates"
    ELSE IF ~UpsertAffects(row, e) THEN "RefusingToRollbackEpoch"
    ELSE IF ~DeletedShareNull(Upsert(row, e, Null, FetchPendingShare(ip, e)))
         THEN "StoreOnDeletedShare"
    ELSE "Ok"

ConfirmRow(row, ip, e, pk) ==
    IF GetShareByEpoch(row, e) # Null THEN row
    ELSE Upsert(row, e, pk, FetchPendingShare(ip, e))

(* What may happen to a row of table shares: its epoch never falls, a       *)
(* deleted row never comes back to life, and a live share is replaced only  *)
(* by one of a later epoch.                                                 *)
RowForward(old, new) ==
    old # Null =>
        /\ new # Null
        /\ new.epoch >= old.epoch
        /\ old.deleted => new = old
        /\ ~new.deleted /\ new.epoch = old.epoch => new = old
=============================================================================
