---------------------------- MODULE KeyLifecycle ----------------------------
(***************************************************************************)
(* What the key-gen nodes and the registry promise about an OPRF key, with  *)
(* nothing of rounds, transactions, databases or crashes:                   *)
(*   - its secret is fixed once, when it is created, and never changes;     *)
(*   - its epoch goes up by one at a time, and only while a threshold of    *)
(*     nodes holds the epoch before;                                        *)
(*   - a node only ever takes up the current epoch;                         *)
(*   - a deleted key is never held by anyone who did not hold it before.    *)
(***************************************************************************)
EXTENDS Integers, FiniteSets

CONSTANTS Key, Node, Threshold, Null,
          MayLose   \* may a node lose its shares

VARIABLES secret,  \* of each key, Null before it is created
          epoch,   \* of each key, -1 before it is created
          gone,    \* the deleted keys
          held     \* the epoch each node holds of each key, -1 for none

vars == <<secret, epoch, gone, held>>

Init ==
    /\ secret = [k \in Key |-> Null]
    /\ epoch = [k \in Key |-> -1]
    /\ gone = {}
    /\ held = [n \in Node |-> [k \in Key |-> -1]]

Holders(k) == {n \in Node : held[n][k] = epoch[k]}

Create(k) ==
    /\ epoch[k] = -1 /\ k \notin gone
    /\ epoch' = [epoch EXCEPT ![k] = 0]
    /\ secret'[k] # Null
    /\ secret' = [secret EXCEPT ![k] = secret'[k]]
    /\ UNCHANGED <<gone, held>>

Rotate(k) ==
    /\ epoch[k] >= 0 /\ k \notin gone
    /\ Cardinality(Holders(k)) >= Threshold
    /\ epoch' = [epoch EXCEPT ![k] = @ + 1]
    /\ UNCHANGED <<secret, gone, held>>

Obtain(n, k) ==
    /\ epoch[k] >= 0 /\ k \notin gone
    /\ held[n][k] < epoch[k]
    /\ held' = [held EXCEPT ![n][k] = epoch[k]]
    /\ UNCHANGED <<secret, epoch, gone>>

Delete(k) ==
    /\ k \notin gone
    /\ gone' = gone \cup {k}
    /\ UNCHANGED <<secret, epoch, held>>

Erase(n, k) ==
    /\ k \in gone
    /\ held' = [held EXCEPT ![n][k] = -1]
    /\ UNCHANGED <<secret, epoch, gone>>

(* A node that is replaced starts without any share. *)
Lose(n) ==
    /\ MayLose
    /\ held' = [held EXCEPT ![n] = [k \in Key |-> -1]]
    /\ UNCHANGED <<secret, epoch, gone>>

Next ==
    \/ \E k \in Key : Create(k) \/ Rotate(k) \/ Delete(k)
    \/ \E n \in Node, k \in Key : Obtain(n, k) \/ Erase(n, k)
    \/ \E n \in Node : Lose(n)

Spec == Init /\ [][Next]_vars
=============================================================================
