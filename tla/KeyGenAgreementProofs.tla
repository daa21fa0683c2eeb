----------------------- MODULE KeyGenAgreementProofs ------------------------
(***************************************************************************)
(* Proofs about what the key-gen nodes agree on, for any number of nodes,   *)
(* keys, epochs, runs, aborts, deletions, crashes and losses of shares,     *)
(* when a checkpoint is stored only behind the watcher (Late).  The first   *)
(* invariant, Inv, is for runs that are started only after the aborts       *)
(* before them were handled (ReinitWaits); the second, ReshareInv, for      *)
(* runs that may follow an abort at once, if a reshare waits for the        *)
(* finalisation before it to be handled (ReshareWaits).                     *)
(***************************************************************************)
EXTENDS KeyGenProtocolProofs, FiniteSetTheorems

Round1Types == {"SecretGenRound1", "ReshareRound1"}
Round3Types == {"SecretGenRound3", "ReshareRound3"}
EndTypes    == {"KeyGenAbort", "KeyDeletion"}

(* The events of key k, and those of them that node n has not handled. *)
Of(k) == {j \in 1 .. Len(log) : log[j].key = k}
Ahead(n, k) == {j \in Of(k) : j > cursor[n]}

(* The transactions of node n that are not mined yet. *)
Pooled(n) == {pool[n][x] : x \in 1 .. Len(pool[n])}

HasRow(n, k, e) == inProgress[n][k][e] # Null
HasPending(n, k, e) == HasRow(n, k, e) /\ inProgress[n][k][e].pending # Null

(* Node n lost its share of the current epoch. *)
Lost(n, k) == \E l \in lost : l[1] = n /\ l[2][k] = reg[k].epoch

(* What a watcher between two events of its loop has on disk. *)
LocalInv(n) ==
    /\ pc[n] \in {"submit", "sent"} =>
          Ev(n).type \in Round1Types \cup {"SecretGenRound2"} \cup Round3Types
    /\ pc[n] = "submit" =>
          /\ tx[n].key = Ev(n).key
          /\ tx[n].fn = "r1" => /\ Ev(n).type \in Round1Types
                                /\ HasRow(n, Ev(n).key, Ev(n).epoch)
                                /\ inProgress[n][Ev(n).key][Ev(n).epoch].im = tx[n].im
          /\ tx[n].fn = "r3" => /\ Ev(n).type \in Round3Types
                                /\ HasPending(n, Ev(n).key, Ev(n).epoch)
    /\ pc[n] = "done" =>
          /\ Ev(n).type \in EndTypes => inProgress[n][Ev(n).key] = NoIntermediates
          /\ Ev(n).type = "SecretGenFinalize" =>
                \/ reg[Ev(n).key].round = "deleted" \/ Lost(n, Ev(n).key)
                \/ Held(n, Ev(n).key) = Ev(n).epoch

(* The events that may follow the first one of a run. *)
Allowed(round) ==
    CASE round = "two" -> {"SecretGenRound2"}
      [] round = "three" -> {"SecretGenRound2"} \cup Round3Types
      [] round = "stuck" -> {"NotEnoughProducers"}
      [] OTHER -> {}

(* Event i started the run of key k, and the rest of the key's events are   *)
(* its own; the event of the third round is the last of them.               *)
RunLog(k, i) ==
    /\ log[i].type \in Round1Types
    /\ \A j \in Of(k) : j > i =>
          /\ log[j].type \in Allowed(reg[k].round)
          /\ log[j].type \in Round3Types =>
                /\ log[j].epoch = PendingEpoch(k)
                /\ log[j].type = "ReshareRound3" => log[j].lagrange = reg[k].producers
                /\ \A l \in Of(k) : l <= j

(* What node n has on disk while the run that event i started is on: what   *)
(* it committed to, or will with a transaction under way, is stored; a      *)
(* pending share is a share of the run's sharing; and a producer of a       *)
(* reshare deals the share it holds.                                        *)
RunNode(k, i, n) ==
    LET e == PendingEpoch(k)
        row == inProgress[n][k][e]
    IN  /\ \A j \in Ahead(n, k) : j < i => log[j].type \in Round3Types \cup {"SecretGenFinalize"}
        /\ HasRow(n, k, e) => cursor[n] + 1 >= i
        /\ reg[k].r1[n] # Null => HasRow(n, k, e) /\ row.im = reg[k].r1[n]
        /\ \A t \in Pooled(n) : t.key = k =>
              /\ t.fn = "r1" => HasRow(n, k, e) /\ row.im = t.im
              /\ t.fn = "r3" => HasPending(n, k, e)
        /\ HasPending(n, k, e) =>
              /\ reg[k].round = "three" /\ row.pending = RunShare(k)
              /\ \A j \in Ahead(n, k) : log[j].type \in Round3Types
        /\ n \in reg[k].r3 => HasPending(n, k, e)
        /\ IsReshare(k) /\ HasRow(n, k, e) /\ row.im.poly =>
              Held(n, k) = reg[k].epoch /\ row.im.old = shares[n][k].share

(* While no run is on: intermediates that are left are about to be deleted, *)
(* and so is what events of a run that ended may still bring about.         *)
IdleNode(k, n) ==
    /\ PendingEpoch(k) \in Epoch /\ HasRow(n, k, PendingEpoch(k)) =>
          \E l \in Ahead(n, k) : log[l].type \in EndTypes
    /\ \A j \in Ahead(n, k) :
          log[j].type \notin Round3Types \cup {"SecretGenFinalize"} =>
              \E l \in Of(k) : l >= j /\ log[l].type \in EndTypes

(* What is on disk is of the pending epoch at most. *)
RowsNode(k, n) ==
    /\ \A j \in Ahead(n, k) : log[j].type \in Round1Types =>
          /\ log[j].epoch = PendingEpoch(k)
          /\ log[j].type = "ReshareRound1" <=> IsReshare(k)
    /\ \A d \in Epoch : HasRow(n, k, d) => d <= PendingEpoch(k)
    /\ shares[n][k] # Null =>
          /\ DeletedShareNull(shares[n][k])
          /\ shares[n][k].deleted => reg[k].round = "deleted"
          /\ shares[n][k].epoch <= reg[k].epoch
          /\ shares[n][k].pk = reg[k].pk

(* Event f finalised the current epoch. *)
FinalLog(k, f) ==
    /\ log[f].type = "SecretGenFinalize" /\ log[f].epoch = reg[k].epoch
    /\ \A j \in Of(k) : j > f => log[j].type # "SecretGenFinalize"

(* Node n has its share of the current epoch, confirmed or, if it has not   *)
(* handled event f yet, pending.                                            *)
FinalNode(k, f, n) ==
    /\ \A j \in Ahead(n, k) : j < f => log[j].type \in Round3Types
    /\ \/ reg[k].round = "deleted" \/ Lost(n, k) \/ Held(n, k) = reg[k].epoch
       \/ cursor[n] < f /\ HasPending(n, k, reg[k].epoch)

(* Node n has share v of epoch e, confirmed or pending, or none. *)
OneValue(n, k, e, v) ==
    /\ Held(n, k) = e => shares[n][k].share = v
    /\ HasPending(n, k, e) => inProgress[n][k][e].pending = v

(* The shares of one epoch are of one sharing, of the published key. *)
SharingInv(k) ==
    \A e \in Epoch : e <= reg[k].epoch =>
        \E v \in Share : v.secret = reg[k].pk /\ \A n \in Node : OneValue(n, k, e, v)

RunInv(k) == Running(k) =>
    \E i \in Of(k) : RunLog(k, i) /\ \A n \in Node : RunNode(k, i, n)

FinalInv(k) ==
    /\ reg[k].epoch >= 0 =>
          \E f \in Of(k) : FinalLog(k, f) /\ \A n \in Node : FinalNode(k, f, n)
    /\ reg[k].epoch = -1 => \A j \in Of(k) : log[j].type # "SecretGenFinalize"

(* The producers of a reshare committed to a share; there are enough of     *)
(* them once the second round has begun.                                    *)
ProducersInv(k) ==
    /\ reg[k].round \in {"one", "two", "three"} /\ IsReshare(k) =>
          \A p \in reg[k].producers : reg[k].r1[p] # Null /\ reg[k].r1[p].poly
    /\ reg[k].round \in {"two", "three"} => Cardinality(reg[k].producers) >= Threshold

RestInv(k) == \A n \in Node : RowsNode(k, n) /\ (~Running(k) => IdleNode(k, n))

KeyInv(k) == RunInv(k) /\ FinalInv(k) /\ ProducersInv(k) /\ RestInv(k) /\ SharingInv(k)

Inv == BaseInv /\ (\A n \in Node : LocalInv(n)) /\ (\A k \in Key : KeyInv(k))

-----------------------------------------------------------------------------
(* Types, and what a step leaves alone. *)

(* The rows of a key and the numbers in them. *)
LEMMA Types ==
    ASSUME BaseInv, NEW k \in Key
    PROVE  /\ RegistryInv /\ reg[k] \in KeyState /\ reg[k].epoch \in Int /\ reg[k].epoch >= -1
           /\ PendingEpoch(k) = reg[k].epoch + 1
           /\ IsReshare(k) <=> reg[k].epoch >= 0
           /\ Running(k) => PendingEpoch(k) \in Epoch
           /\ reg[k].epoch >= 0 => reg[k].epoch \in Epoch
           /\ Of(k) \subseteq 1 .. Len(log) /\ Len(log) \in Nat
           /\ \A j \in Of(k) : log[j].key = k /\ log[j].epoch \in Epoch
           /\ \A n \in Node : /\ cursor[n] \in 0 .. Len(log)
                               /\ shares[n][k] \in ShareRow(Share, Deal) \cup {Null}
                               /\ inProgress[n][k] \in Table(Intermediate, Share)
<1>1. /\ RegistryInv /\ TypeInv
      /\ \A n \in Node : /\ cursor[n] \in 0 .. Len(log)
                          /\ shares[n][k] \in ShareRow(Share, Deal) \cup {Null}
                          /\ inProgress[n][k] \in Table(Intermediate, Share)
  BY DEF BaseInv, TypeInv, TypeOK, Table
<1>2. /\ Of(k) \subseteq 1 .. Len(log) /\ Len(log) \in Nat
      /\ \A j \in Of(k) : log[j].key = k /\ log[j].epoch \in Epoch
  BY <1>1, LogTypes DEF Of
<1>3. /\ reg[k] \in KeyState /\ reg[k].epoch \in Int /\ reg[k].epoch >= -1
      /\ PendingEpoch(k) = reg[k].epoch + 1
      /\ IsReshare(k) <=> reg[k].epoch >= 0
      /\ Running(k) => PendingEpoch(k) \in Epoch
      /\ reg[k].epoch >= 0 => reg[k].epoch \in Epoch
  BY <1>1, KeyTypes DEF KeyState
<1> QED
  BY <1>1, <1>2, <1>3

(* The event that a node handles is the first one ahead of it. *)
LEMMA Handled ==
    ASSUME BaseInv, NEW n \in Node, Busy(n)
    PROVE  /\ Ev(n).key \in Key /\ Ev(n).epoch \in Epoch /\ pos[n] = cursor[n] + 1
           /\ pos[n] \in Ahead(n, Ev(n).key) /\ Ev(n) = log[pos[n]]
           /\ \A j \in Ahead(n, Ev(n).key) : j >= pos[n]
<1>1. /\ Ev(n).key \in Key /\ Ev(n).epoch \in Epoch /\ pos[n] \in 1 .. Len(log)
      /\ Ev(n) = log[pos[n]] /\ pos[n] = cursor[n] + 1 /\ cursor[n] \in Nat
  BY EvType DEF BaseInv, CursorInv, Ev, TypeInv, TypeOK
<1> QED
  BY <1>1 DEF Ahead, Of

(* The chain and the rows of node n are, for key k, what they were. *)
LogSame(k) == Of(k)' = Of(k) /\ \A j \in Of(k) : log'[j] = log[j]
RowsSame(n, k) == inProgress'[n][k] = inProgress[n][k] /\ shares'[n][k] = shares[n][k]
NodeSame(n, k) == RowsSame(n, k) /\ cursor'[n] = cursor[n]
NoMorePooled(n, k) == \A t \in Pooled(n)' : t.key = k => t \in Pooled(n)
ChainSame(k) == reg'[k] = reg[k] /\ LogSame(k)

(* What a node has ahead of it does not change. *)
LEMMA AheadFrame ==
    ASSUME NEW k \in Key, NEW n \in Node, LogSame(k), cursor'[n] = cursor[n]
    PROVE  Ahead(n, k)' = Ahead(n, k) /\ \A j \in Ahead(n, k) : log'[j] = log[j]
BY DEF Ahead, LogSame

(* The predicates on rows do not change. *)
LEMMA RowsFrame ==
    ASSUME NEW k \in Key, NEW n \in Node, RowsSame(n, k)
    PROVE  /\ Held(n, k)' = Held(n, k)
           /\ \A e : HasRow(n, k, e)' <=> HasRow(n, k, e)
           /\ \A e : HasPending(n, k, e)' <=> HasPending(n, k, e)
           /\ \A e, v : OneValue(n, k, e, v)' <=> OneValue(n, k, e, v)
BY DEF RowsSame, Held, HasRow, HasPending, OneValue

(* The predicates on the registry do not change. *)
LEMMA RegFrame ==
    ASSUME NEW k \in Key, reg'[k] = reg[k]
    PROVE  /\ PendingEpoch(k)' = PendingEpoch(k) /\ RunShare(k)' = RunShare(k)
           /\ IsReshare(k)' <=> IsReshare(k)
           /\ Running(k)' <=> Running(k)
           /\ ProducersInv(k)' <=> ProducersInv(k)
BY DEF PendingEpoch, RunShare, RunDeal, RunSecret, IsReshare, Running, ProducersInv

(* What holds of a node in a run, at rest and after a finalisation. *)
LEMMA NodeFrame ==
    ASSUME NEW k \in Key, NEW n \in Node, ChainSame(k), NodeSame(n, k)
    PROVE  /\ \A i : NoMorePooled(n, k) /\ RunNode(k, i, n) => RunNode(k, i, n)'
           /\ RowsNode(k, n) => RowsNode(k, n)'
           /\ IdleNode(k, n) => IdleNode(k, n)'
           /\ \A f : (Lost(n, k) => Lost(n, k)') /\ FinalNode(k, f, n) => FinalNode(k, f, n)'
<1>1. Ahead(n, k)' = Ahead(n, k) /\ \A j \in Ahead(n, k) : log'[j] = log[j]
  BY AheadFrame DEF ChainSame, NodeSame
<1>2. /\ Held(n, k)' = Held(n, k)
      /\ \A e : HasRow(n, k, e)' <=> HasRow(n, k, e)
      /\ \A e : HasPending(n, k, e)' <=> HasPending(n, k, e)
  BY RowsFrame DEF NodeSame
<1>3. /\ PendingEpoch(k)' = PendingEpoch(k) /\ RunShare(k)' = RunShare(k)
      /\ IsReshare(k)' <=> IsReshare(k)
  BY RegFrame DEF ChainSame
<1>4. /\ reg'[k] = reg[k] /\ cursor'[n] = cursor[n]
      /\ inProgress'[n][k] = inProgress[n][k] /\ shares'[n][k] = shares[n][k]
  BY DEF ChainSame, NodeSame, RowsSame
<1>5. ASSUME NEW i, NoMorePooled(n, k), RunNode(k, i, n)
      PROVE  RunNode(k, i, n)'
  BY <1>1, <1>2, <1>3, <1>4, <1>5 DEF RunNode, NoMorePooled
<1>6. RowsNode(k, n) => RowsNode(k, n)'
  BY <1>1, <1>2, <1>3, <1>4 DEF RowsNode, DeletedShareNull
<1>7. IdleNode(k, n) => IdleNode(k, n)'
  BY <1>1, <1>2, <1>3, <1>4 DEF IdleNode, ChainSame, LogSame
<1>8. ASSUME NEW f, Lost(n, k) => Lost(n, k)', FinalNode(k, f, n)
      PROVE  FinalNode(k, f, n)'
  BY <1>1, <1>2, <1>4, <1>8 DEF FinalNode
<1> QED
  BY <1>5, <1>6, <1>7, <1>8

(* What holds of the log. *)
LEMMA LogFrame ==
    ASSUME NEW k \in Key, ChainSame(k)
    PROVE  /\ \A i \in Of(k) : RunLog(k, i) => RunLog(k, i)'
           /\ \A f \in Of(k) : FinalLog(k, f) => FinalLog(k, f)'
<1>1. Of(k)' = Of(k) /\ (\A j \in Of(k) : log'[j] = log[j]) /\ reg'[k] = reg[k]
  BY DEF ChainSame, LogSame
<1>2. PendingEpoch(k)' = PendingEpoch(k)
  BY <1>1, RegFrame
<1>3. ASSUME NEW i \in Of(k), RunLog(k, i) PROVE RunLog(k, i)'
  BY <1>1, <1>2, <1>3 DEF RunLog, Allowed
<1>4. ASSUME NEW f \in Of(k), FinalLog(k, f) PROVE FinalLog(k, f)'
  BY <1>1, <1>4 DEF FinalLog
<1> QED
  BY <1>3, <1>4

(* A loss does not change the state of the registry that it is about. *)
LEMMA LostFrame ==
    ASSUME NEW k \in Key, NEW n \in Node, reg'[k].epoch = reg[k].epoch, lost \subseteq lost'
    PROVE  Lost(n, k) => Lost(n, k)'
BY DEF Lost

(* What is left to show of a step that leaves the chain alone. *)
LEMMA KeyStep ==
    ASSUME NEW k \in Key, KeyInv(k), ChainSame(k),
           \A n \in Node, i \in Of(k) :
               Running(k) /\ RunLog(k, i) /\ RunNode(k, i, n) => RunNode(k, i, n)',
           \A n \in Node, f \in Of(k) :
               reg[k].epoch >= 0 /\ FinalLog(k, f) /\ FinalNode(k, f, n) => FinalNode(k, f, n)',
           \A n \in Node : RowsNode(k, n) => RowsNode(k, n)',
           \A n \in Node : ~Running(k) /\ IdleNode(k, n) => IdleNode(k, n)',
           \A n \in Node, e \in Epoch, v \in Share :
               e <= reg[k].epoch /\ OneValue(n, k, e, v) => OneValue(n, k, e, v)'
    PROVE  KeyInv(k)'
<1>1. /\ Of(k)' = Of(k) /\ reg'[k] = reg[k] /\ \A j \in Of(k) : log'[j] = log[j]
  BY DEF ChainSame, LogSame
<1>2. Running(k)' <=> Running(k)
  BY <1>1, RegFrame
<1>3. RunInv(k)'
  BY <1>1, <1>2, LogFrame DEF KeyInv, RunInv
<1>4. FinalInv(k)'
  BY <1>1, LogFrame DEF KeyInv, FinalInv
<1>5. ProducersInv(k)'
  BY <1>1, RegFrame DEF KeyInv
<1>6. RestInv(k)'
  BY <1>2 DEF KeyInv, RestInv
<1>7. SharingInv(k)'
  BY <1>1 DEF KeyInv, SharingInv
<1> QED
  BY <1>3, <1>4, <1>5, <1>6, <1>7 DEF KeyInv

(* A step that leaves a key alone keeps its invariant. *)
LEMMA KeyFrame ==
    ASSUME NEW k \in Key, KeyInv(k), ChainSame(k), lost' = lost,
           \A n \in Node : NodeSame(n, k) /\ NoMorePooled(n, k)
    PROVE  KeyInv(k)'
<1>1. \A n \in Node : Lost(n, k) => Lost(n, k)'
  BY LostFrame DEF ChainSame
<1>2. \A n \in Node : \A e, v : OneValue(n, k, e, v)' <=> OneValue(n, k, e, v)
  BY RowsFrame DEF NodeSame
<1> QED
  BY <1>1, <1>2, NodeFrame, KeyStep

-----------------------------------------------------------------------------
(* Handlers that write the rows of a key. *)

(* Node n writes its rows of key k, and nothing else. *)
RowStep(n, k) ==
    /\ reg' = reg /\ log' = log /\ cursor' = cursor /\ lost' = lost /\ pool' = pool
    /\ \A m \in Node, j \in Key : m # n \/ j # k => RowsSame(m, j)

(* A step that writes nothing leaves every key alone. *)
LEMMA SameFrame ==
    ASSUME NEW k \in Key, NEW n \in Node, reg' = reg, log' = log, cursor' = cursor, lost' = lost,
           pool' = pool, RowsSame(n, k)
    PROVE  ChainSame(k) /\ NodeSame(n, k) /\ NoMorePooled(n, k)
BY DEF ChainSame, LogSame, Of, NodeSame, NoMorePooled, Pooled

(* What a write of rows leaves alone. *)
LEMMA RowStepFrame ==
    ASSUME NEW k \in Key, NEW n \in Node, RowStep(n, k)
    PROVE  /\ Ahead(n, k)' = Ahead(n, k) /\ Of(k)' = Of(k) /\ cursor' = cursor /\ log' = log
           /\ reg' = reg /\ PendingEpoch(k)' = PendingEpoch(k) /\ RunShare(k)' = RunShare(k)
           /\ IsReshare(k)' <=> IsReshare(k)
           /\ Pooled(n)' = Pooled(n)
           /\ Lost(n, k)' <=> Lost(n, k)
BY RegFrame DEF RowStep, Ahead, Of, PendingEpoch, IsReshare, Pooled, Lost

(* What is left to show when a node writes its rows of a key. *)
LEMMA RowStepInv ==
    ASSUME \A j \in Key : KeyInv(j), NEW k \in Key, NEW n \in Node, RowStep(n, k),
           \A i \in Of(k) : Running(k) /\ RunLog(k, i) /\ RunNode(k, i, n) => RunNode(k, i, n)',
           \A f \in Of(k) : reg[k].epoch >= 0 /\ FinalLog(k, f) /\ FinalNode(k, f, n) =>
                                FinalNode(k, f, n)',
           RowsNode(k, n)',
           ~Running(k) => IdleNode(k, n)',
           \A e \in Epoch, v \in Share :
               e <= reg[k].epoch /\ OneValue(n, k, e, v) => OneValue(n, k, e, v)'
    PROVE  \A j \in Key : KeyInv(j)'
<1>1. ASSUME NEW j \in Key, j # k PROVE KeyInv(j)'
  BY <1>1, SameFrame, KeyFrame DEF RowStep
<1>2. KeyInv(k)'
  <2>1. \A m \in Node : m # n => ChainSame(k) /\ NodeSame(m, k) /\ NoMorePooled(m, k)
    BY SameFrame DEF RowStep
  <2>2. ChainSame(k)
    BY DEF RowStep, ChainSame, LogSame, Of
  <2>3. \A m \in Node : Lost(m, k) => Lost(m, k)'
    BY LostFrame DEF RowStep
  <2>4. \A m \in Node : m # n => \A e, v : OneValue(m, k, e, v)' <=> OneValue(m, k, e, v)
    BY <2>1, RowsFrame DEF NodeSame
  <2> QED
    BY <2>1, <2>2, <2>3, <2>4, NodeFrame, KeyStep
<1> QED
  BY <1>1, <1>2

(* What the invariant says of a node and of a key at a time. *)
LEMMA NodeFacts ==
    ASSUME Inv, NEW k \in Key, NEW n \in Node
    PROVE  /\ BaseInv /\ KeyInv(k) /\ LocalInv(n) /\ RowsNode(k, n)
           /\ ~Running(k) => IdleNode(k, n)
           /\ \A j \in Key : KeyInv(j)
BY DEF Inv, KeyInv, RestInv

(* Where an unhandled event of a key with a run is: the first event of a    *)
(* run is the one that started it, and an event that ends a run, or a       *)
(* finalisation, is not of this run.                                        *)
LEMMA RunPlace ==
    ASSUME BaseInv, NEW k \in Key, NEW n \in Node, NEW i \in Of(k), RunLog(k, i),
           RunNode(k, i, n), NEW j \in Ahead(n, k)
    PROVE  /\ log[j].type \in Round1Types => j = i
           /\ log[j].type \notin EndTypes
           /\ log[j].type = "SecretGenFinalize" => j < i
           /\ log[j].type \in Round3Types => j # i
<1>1. i \in Nat /\ j \in Nat /\ j \in Of(k)
  BY Types DEF Ahead
<1>2. j < i => log[j].type \in Round3Types \cup {"SecretGenFinalize"}
  BY DEF RunNode
<1>3. j > i => log[j].type \in {"SecretGenRound2", "NotEnoughProducers"} \cup Round3Types
  BY <1>1 DEF RunLog, Allowed
<1>4. log[i].type \in Round1Types
  BY DEF RunLog
<1> QED
  BY <1>1, <1>2, <1>3, <1>4 DEF Round1Types, Round3Types, EndTypes

(* While a run is on the events that end it are not there. *)
LEMMA NoEnd ==
    ASSUME Inv, NEW k \in Key, NEW n \in Node, NEW j \in Ahead(n, k), log[j].type \in EndTypes
    PROVE  ~Running(k)
BY RunPlace, NodeFacts DEF KeyInv, RunInv

(* The first round: the row of the pending epoch is there, or is written.   *)
LEMMA Round1Rows ==
    ASSUME Inv, NEW n \in Node, NEW k \in Key, NEW e \in Epoch, NEW im \in Intermediate,
           pc[n] = "handle", Ev(n).type \in Round1Types, k = Ev(n).key, e = PendingEpoch(k),
           Round1With(n, k, e, im),
           IsReshare(k) /\ im.poly => Held(n, k) = reg[k].epoch /\ im.old = shares[n][k].share
    PROVE  /\ \A j \in Key : KeyInv(j)'
           /\ HasRow(n, k, e)'
<1>1. /\ BaseInv /\ KeyInv(k) /\ RowsNode(k, n)
      /\ ~Running(k) => IdleNode(k, n)
      /\ \A j \in Key : KeyInv(j)
  BY NodeFacts
<1>2. /\ pos[n] = cursor[n] + 1 /\ pos[n] \in Ahead(n, k) /\ Ev(n) = log[pos[n]]
  BY <1>1, Handled DEF Busy
<1>3. /\ reg[k].epoch \in Int /\ e = reg[k].epoch + 1 /\ cursor[n] \in Nat
      /\ inProgress[n][k] \in Table(Intermediate, Share)
      /\ Of(k) \subseteq 1 .. Len(log)
  BY <1>1, Types
<1>4. /\ DOMAIN inProgress = Node /\ \A m \in Node : DOMAIN inProgress[m] = Key
  BY <1>1 DEF BaseInv, TypeInv, TypeOK
<1>5. /\ inProgress'[n][k] = TryStoreIntermediates(inProgress[n][k], e, im)
      /\ shares' = shares /\ RowStep(n, k)
  BY <1>4 DEF Round1With, RowStep, RowsSame, chainVars, envVars
<1>6. CASE HasRow(n, k, e)
  <2>1. inProgress'[n][k] = inProgress[n][k]
    BY <1>5, <1>6 DEF TryStoreIntermediates, HasRow
  <2>2. \A m \in Node, j \in Key : RowsSame(m, j)
    BY <1>5, <2>1 DEF RowStep, RowsSame
  <2>3. \A j \in Key : KeyInv(j)'
    BY <1>1, <1>5, <2>2, SameFrame, KeyFrame DEF RowStep
  <2> QED
    BY <1>6, <2>1, <2>3 DEF HasRow
<1>7. CASE ~HasRow(n, k, e)
  <2>1. /\ inProgress'[n][k][e] = [im |-> im, pending |-> Null]
        /\ \A d \in Epoch \ {e} : inProgress'[n][k][d] = inProgress[n][k][d]
    BY <1>3, <1>5, <1>7 DEF TryStoreIntermediates, HasRow, Table
  <2>2. [im |-> im, pending |-> Null] # Null
    BY NullAssumption DEF InProgressRow
  <2>3. /\ HasRow(n, k, e)' /\ ~HasPending(n, k, e)' /\ inProgress'[n][k][e].im = im
        /\ Held(n, k)' = Held(n, k)
    BY <1>5, <2>1, <2>2 DEF HasRow, HasPending, Held
  <2>4. /\ Ahead(n, k)' = Ahead(n, k) /\ Of(k)' = Of(k) /\ cursor' = cursor /\ log' = log
        /\ reg' = reg /\ PendingEpoch(k)' = PendingEpoch(k)
        /\ IsReshare(k)' <=> IsReshare(k)
        /\ Pooled(n)' = Pooled(n)
        /\ Lost(n, k)' <=> Lost(n, k)
    BY <1>5, RowStepFrame
  <2>5. ASSUME NEW i \in Of(k), Running(k), RunLog(k, i), RunNode(k, i, n)
        PROVE  RunNode(k, i, n)'
    <3>1. pos[n] = i
      BY <1>1, <1>2, <2>5, RunPlace
    <3>2. reg[k].r1[n] = Null /\ n \notin reg[k].r3
      BY <1>7, <2>5 DEF RunNode, HasPending
    <3>3. \A t \in Pooled(n) : t.key = k => t.fn # "r1" /\ t.fn # "r3"
      BY <1>7, <2>5 DEF RunNode, HasPending
    <3>4. IsReshare(k) /\ im.poly => Held(n, k)' = reg[k].epoch /\ im.old = shares'[n][k].share
      BY <1>5, <2>3
    <3>5. \A j \in Ahead(n, k) : j < i => log[j].type \in Round3Types \cup {"SecretGenFinalize"}
      BY <2>5 DEF RunNode
    <3>6. cursor[n] + 1 >= i
      BY <1>2, <1>3, <3>1
    <3> QED
      BY <2>3, <2>4, <3>2, <3>3, <3>4, <3>5, <3>6 DEF RunNode
  <2>6. ASSUME NEW f \in Of(k), reg[k].epoch >= 0, FinalNode(k, f, n)
        PROVE  FinalNode(k, f, n)'
    <3>1. reg[k].epoch \in Epoch \ {e}
      BY <1>1, <1>3, <2>6, Types
    <3> QED
      BY <2>1, <2>3, <2>4, <2>6, <3>1 DEF FinalNode, HasPending, HasRow
  <2>7. RowsNode(k, n)'
    <3>1. \A d \in Epoch : inProgress'[n][k][d] # Null => d <= e
      BY <1>1, <1>3, <2>1 DEF RowsNode, Epoch, HasRow
    <3> QED
      BY <1>1, <1>5, <2>4, <3>1 DEF RowsNode, DeletedShareNull, HasRow
  <2>8. ASSUME ~Running(k) PROVE IdleNode(k, n)'
    <3>1. PICK l \in Of(k) : l >= pos[n] /\ log[l].type \in EndTypes
      BY <1>1, <1>2, <2>8 DEF IdleNode, Round1Types, Round3Types
    <3>2. l \in Ahead(n, k)
      BY <1>2, <1>3, <3>1 DEF Ahead
    <3> QED
      BY <1>1, <2>4, <2>8, <3>1, <3>2 DEF IdleNode
  <2>9. ASSUME NEW d \in Epoch, NEW v \in Share, d <= reg[k].epoch, OneValue(n, k, d, v)
        PROVE  OneValue(n, k, d, v)'
    <3>1. d \in Epoch \ {e}
      BY <1>3, <2>9 DEF Epoch
    <3> QED
      BY <1>5, <2>1, <2>3, <2>9, <3>1 DEF OneValue, HasPending, HasRow
  <2> QED
    BY <1>1, <1>5, <2>3, <2>5, <2>6, <2>7, <2>8, <2>9, RowStepInv
<1> QED
  BY <1>6, <1>7

(* The event of the third round that a node handles while its key is in the *)
(* third round is of the run that is on, and the last one.                  *)
LEMMA Round3Place ==
    ASSUME Inv, NEW n \in Node, Busy(n), Ev(n).type \in Round3Types,
           reg[Ev(n).key].round = "three"
    PROVE  /\ Ev(n).epoch = PendingEpoch(Ev(n).key)
           /\ Ev(n).type = "ReshareRound3" => Ev(n).lagrange = reg[Ev(n).key].producers
           /\ \A j \in Ahead(n, Ev(n).key) : log[j].type \in Round3Types
<1> DEFINE k == Ev(n).key
<1>1. /\ k \in Key /\ pos[n] = cursor[n] + 1 /\ Ev(n) = log[pos[n]]
      /\ pos[n] \in Ahead(n, k) /\ \A j \in Ahead(n, k) : j >= pos[n]
  BY Handled DEF Inv
<1> HIDE DEF k
<1>2. BaseInv /\ KeyInv(k)
  BY <1>1 DEF Inv
<1>3. PICK i \in Of(k) : RunLog(k, i) /\ RunNode(k, i, n)
  BY <1>2 DEF KeyInv, RunInv, Running, k
<1>4. reg[k].r1[n] # Null
  BY <1>1, <1>2 DEF BaseInv, TypeInv, RegistryInv, k
<1>5. pos[n] > i /\ pos[n] \in Of(k)
  <2>1. i \in Nat /\ cursor[n] \in Nat
    BY <1>1, <1>2, Types
  <2>2. pos[n] >= i
    BY <1>1, <1>3, <1>4 DEF RunNode
  <2>3. pos[n] # i
    BY <1>1, <1>2, <1>3, RunPlace
  <2> QED
    BY <1>1, <2>1, <2>2, <2>3 DEF Ahead
<1>6. /\ log[pos[n]].epoch = PendingEpoch(k)
      /\ log[pos[n]].type = "ReshareRound3" => log[pos[n]].lagrange = reg[k].producers
      /\ \A l \in Of(k) : l <= pos[n]
  BY <1>1, <1>3, <1>5 DEF RunLog
<1>7. \A j \in Ahead(n, k) : j = pos[n]
  <2>1. ASSUME NEW j \in Ahead(n, k) PROVE j = pos[n]
    <3>1. j \in Of(k) /\ j \in Nat /\ pos[n] \in Nat
      BY <1>1, <1>2, <1>5, Types DEF Ahead
    <3> QED
      BY <1>1, <1>6, <3>1
  <2> QED
    BY <2>1
<1> QED
  BY <1>1, <1>6, <1>7 DEF k

(* The third round: the pending share is one of the run's sharing. *)
LEMMA Round3Rows ==
    ASSUME Inv, NEW n \in Node, NEW k \in Key, NEW e \in Epoch, pc[n] = "handle",
           Ev(n).type \in Round3Types, k = Ev(n).key, e = Ev(n).epoch,
           FetchRound3Inputs(k) = "Ok", SecretGenRound3(n, k, inProgress[n][k][e]) = "Ok",
           inProgress' = [inProgress EXCEPT ![n][k] = StorePendingShare(@, e,
               decrypt_key_gen_ciphertexts(n, k, inProgress[n][k][e].im, Ev(n)))],
           UNCHANGED <<chainVars, shares, cursor, pool, envVars>>
    PROVE  /\ \A j \in Key : KeyInv(j)'
           /\ HasPending(n, k, e)'
<1>1. /\ BaseInv /\ KeyInv(k) /\ RowsNode(k, n)
      /\ ~Running(k) => IdleNode(k, n)
      /\ \A j \in Key : KeyInv(j)
  BY NodeFacts
<1>2. reg[k].round = "three" /\ Running(k)
  BY DEF FetchRound3Inputs, InRound, Running
<1>3. /\ e = PendingEpoch(k)
      /\ Ev(n).type = "ReshareRound3" => Ev(n).lagrange = reg[k].producers
      /\ \A j \in Ahead(n, k) : log[j].type \in Round3Types
  BY <1>2, Round3Place DEF Busy
<1>4. /\ reg[k].epoch \in Int /\ e = reg[k].epoch + 1
      /\ inProgress[n][k] \in Table(Intermediate, Share)
  BY <1>1, <1>3, Types
<1> DEFINE row == inProgress[n][k][e]
<1>5. row # Null /\ row.im = reg[k].r1[n]
  BY DEF SecretGenRound3, CommitmentsMatch
<1>6. decrypt_key_gen_ciphertexts(n, k, row.im, Ev(n)) = RunShare(k) /\ RunShare(k) \in Share
  <2>1. RunShare(k) \in Share
    BY <1>1, <1>2, RunShareType, Types
  <2> QED
    BY <1>3, <1>5, <2>1 DEF decrypt_key_gen_ciphertexts
<1>7. RunShare(k) # Null
  BY <1>6, NullAssumption
<1>8. /\ inProgress'[n][k] = [inProgress[n][k] EXCEPT ![e].pending = RunShare(k)]
      /\ shares' = shares /\ RowStep(n, k)
  <2>1. DOMAIN inProgress = Node /\ \A m \in Node : DOMAIN inProgress[m] = Key
    BY <1>1 DEF BaseInv, TypeInv, TypeOK
  <2>2. inProgress' = [inProgress EXCEPT ![n][k] = StorePendingShare(@, e, RunShare(k))]
    BY <1>6
  <2>3. StorePendingShare(inProgress[n][k], e, RunShare(k)) =
          [inProgress[n][k] EXCEPT ![e].pending = RunShare(k)]
    BY <1>5 DEF StorePendingShare
  <2> QED
    BY <2>1, <2>2, <2>3 DEF RowStep, RowsSame, chainVars, envVars
<1>9. /\ inProgress'[n][k][e] = [row EXCEPT !.pending = RunShare(k)]
      /\ \A d \in Epoch \ {e} : inProgress'[n][k][d] = inProgress[n][k][d]
  BY <1>4, <1>8 DEF Table
<1>10. row \in InProgressRow(Intermediate, Share)
  BY <1>4, <1>5 DEF Table
<1>11. /\ inProgress'[n][k][e] # Null /\ inProgress'[n][k][e].im = row.im
       /\ inProgress'[n][k][e].pending = RunShare(k)
  <2>1. inProgress'[n][k][e] \in InProgressRow(Intermediate, Share)
    BY <1>6, <1>9, <1>10 DEF InProgressRow
  <2>2. inProgress'[n][k][e] # Null
    BY <2>1, NullAssumption
  <2> QED
    BY <1>9, <1>10, <2>2 DEF InProgressRow
<1>12. /\ HasRow(n, k, e)' /\ HasPending(n, k, e)' /\ Held(n, k)' = Held(n, k)
       /\ HasRow(n, k, e)
  BY <1>5, <1>7, <1>8, <1>11 DEF HasRow, HasPending, Held
<1> HIDE DEF row
<1>13. /\ Ahead(n, k)' = Ahead(n, k) /\ Of(k)' = Of(k) /\ cursor' = cursor /\ log' = log
       /\ reg' = reg /\ PendingEpoch(k)' = e /\ RunShare(k)' = RunShare(k)
       /\ IsReshare(k)' <=> IsReshare(k)
       /\ Pooled(n)' = Pooled(n)
       /\ Lost(n, k)' <=> Lost(n, k)
  BY <1>3, <1>8, RowStepFrame
<1>14. ASSUME NEW i \in Of(k), RunNode(k, i, n)
       PROVE  RunNode(k, i, n)'
  <2>1. /\ \A j \in Ahead(n, k) : j < i => log[j].type \in Round3Types \cup {"SecretGenFinalize"}
        /\ cursor[n] + 1 >= i
    BY <1>3, <1>12, <1>14 DEF RunNode
  <2>2. reg[k].r1[n] # Null => row.im = reg[k].r1[n]
    BY <1>5 DEF row
  <2>3. \A t \in Pooled(n) : t.key = k => (t.fn = "r1" => row.im = t.im)
    BY <1>3, <1>14 DEF RunNode, row
  <2>4. IsReshare(k) /\ row.im.poly => Held(n, k) = reg[k].epoch /\ row.im.old = shares[n][k].share
    BY <1>3, <1>12, <1>14 DEF RunNode, row
  <2>5. /\ HasRow(n, k, PendingEpoch(k))' /\ HasPending(n, k, PendingEpoch(k))'
        /\ inProgress'[n][k][PendingEpoch(k)'].im = row.im
        /\ inProgress'[n][k][PendingEpoch(k)'].pending = RunShare(k)
    BY <1>7, <1>11, <1>13 DEF HasRow, HasPending
  <2>6. IsReshare(k)' /\ row.im.poly => Held(n, k)' = reg[k].epoch /\ row.im.old = shares'[n][k].share
    BY <1>8, <1>12, <1>13, <2>4
  <2> QED
    BY <1>2, <1>3, <1>13, <2>1, <2>2, <2>3, <2>5, <2>6 DEF RunNode
<1>15. ASSUME NEW f \in Of(k), reg[k].epoch >= 0, FinalNode(k, f, n)
       PROVE  FinalNode(k, f, n)'
  <2>1. reg[k].epoch \in Epoch \ {e}
    BY <1>1, <1>4, <1>15, Types
  <2> QED
    BY <1>9, <1>12, <1>13, <1>15, <2>1 DEF FinalNode, HasPending, HasRow
<1>16. RowsNode(k, n)'
  <2>1. \A d \in Epoch : inProgress'[n][k][d] # Null => d <= e
    <3>1. \A d \in Epoch \ {e} : inProgress'[n][k][d] # Null => d <= e
      BY <1>1, <1>3, <1>9 DEF RowsNode, HasRow
    <3> QED
      BY <1>4, <3>1
  <2> QED
    BY <1>1, <1>3, <1>8, <1>13, <2>1 DEF RowsNode, DeletedShareNull, HasRow
<1>17. ASSUME NEW d \in Epoch, NEW v \in Share, d <= reg[k].epoch, OneValue(n, k, d, v)
       PROVE  OneValue(n, k, d, v)'
  <2>1. d \in Epoch \ {e}
    BY <1>4, <1>17 DEF Epoch
  <2> QED
    BY <1>8, <1>9, <1>12, <1>17, <2>1 DEF OneValue, HasPending, HasRow
<1>18. \A j \in Key : KeyInv(j)'
  BY <1>1, <1>2, <1>8, <1>14, <1>15, <1>16, <1>17, RowStepInv
<1> QED
  BY <1>12, <1>18

(* The finalisation that a node handles is that of the current epoch, and   *)
(* the node has nothing of a run that was started since.                    *)
LEMMA FinalizePlace ==
    ASSUME Inv, NEW n \in Node, Busy(n), Ev(n).type = "SecretGenFinalize"
    PROVE  LET k == Ev(n).key
           IN  /\ reg[k].epoch >= 0 /\ Ev(n).epoch = reg[k].epoch
               /\ \E f \in Of(k) : pos[n] = f /\ FinalLog(k, f) /\ \A m \in Node : FinalNode(k, f, m)
               /\ Running(k) => ~HasRow(n, k, PendingEpoch(k))
<1> DEFINE k == Ev(n).key
<1>1. /\ k \in Key /\ pos[n] = cursor[n] + 1 /\ Ev(n) = log[pos[n]] /\ pos[n] \in Ahead(n, k)
  BY Handled DEF Inv
<1> HIDE DEF k
<1>2. BaseInv /\ KeyInv(k)
  BY <1>1 DEF Inv
<1>3. /\ pos[n] \in Of(k) /\ Of(k) \subseteq Nat /\ reg[k].epoch \in Int /\ reg[k].epoch >= -1
      /\ cursor[n] \in Nat
  BY <1>1, <1>2, Types DEF Ahead
<1>4. reg[k].epoch >= 0
  BY <1>1, <1>2, <1>3 DEF KeyInv, FinalInv
<1>5. PICK f \in Of(k) : FinalLog(k, f) /\ \A m \in Node : FinalNode(k, f, m)
  BY <1>2, <1>4 DEF KeyInv, FinalInv
<1>6. pos[n] = f
  <2>1. ~(pos[n] > f)
    BY <1>1, <1>3, <1>5 DEF FinalLog
  <2>2. ~(pos[n] < f)
    BY <1>1, <1>3, <1>5 DEF FinalNode, Round3Types
  <2> QED
    BY <1>3, <2>1, <2>2
<1>7. ASSUME Running(k), HasRow(n, k, PendingEpoch(k)) PROVE FALSE
  <2>1. PICK i \in Of(k) : RunLog(k, i) /\ RunNode(k, i, n)
    BY <1>2, <1>7 DEF KeyInv, RunInv
  <2>2. pos[n] < i
    BY <1>1, <1>2, <2>1, RunPlace
  <2>3. cursor[n] + 1 >= i
    BY <1>7, <2>1 DEF RunNode
  <2> QED
    BY <1>1, <1>3, <2>1, <2>2, <2>3
<1> QED
  BY <1>1, <1>4, <1>5, <1>6, <1>7 DEF k, FinalLog

(* Confirming a share that is pending or confirmed already. *)
LEMMA FinalizeRows ==
    ASSUME Inv, NEW n \in Node, NEW k \in Key, NEW e \in Epoch, pc[n] = "handle",
           Ev(n).type = "SecretGenFinalize", k = Ev(n).key, e = Ev(n).epoch,
           fetch_oprf_public_key(k) = "Ok",
           ConfirmOutcome(shares[n][k], inProgress[n][k], e) = "Ok",
           shares' = [shares EXCEPT ![n][k] =
                         ConfirmRow(shares[n][k], inProgress[n][k], e, reg[k].pk)],
           inProgress' = [inProgress EXCEPT ![n][k] = DeleteIntermediates(@)],
           UNCHANGED <<chainVars, cursor, pool, envVars>>
    PROVE  /\ \A j \in Key : KeyInv(j)'
           /\ Held(n, k)' = e
<1>1. /\ BaseInv /\ KeyInv(k) /\ RowsNode(k, n)
      /\ ~Running(k) => IdleNode(k, n)
      /\ \A j \in Key : KeyInv(j)
  BY NodeFacts
<1>2. /\ reg[k].epoch >= 0 /\ e = reg[k].epoch
      /\ Running(k) => ~HasRow(n, k, PendingEpoch(k))
  BY FinalizePlace DEF Busy
<1>3. /\ reg[k] \in KeyState /\ PendingEpoch(k) = e + 1
      /\ shares[n][k] \in ShareRow(Share, Deal) \cup {Null}
      /\ inProgress[n][k] \in Table(Intermediate, Share)
  BY <1>1, <1>2, Types
<1>4. reg[k].pk \in Deal /\ reg[k].round # "deleted"
  BY <1>3 DEF fetch_oprf_public_key, getOprfPublicKey, KeyState
<1> DEFINE old == shares[n][k]
           new == ConfirmRow(shares[n][k], inProgress[n][k], e, reg[k].pk)
<1>5. /\ shares'[n][k] = new /\ inProgress'[n][k] = NoIntermediates /\ RowStep(n, k)
  <2>1. /\ DOMAIN inProgress = Node /\ \A m \in Node : DOMAIN inProgress[m] = Key
        /\ DOMAIN shares = Node /\ \A m \in Node : DOMAIN shares[m] = Key
    BY <1>1 DEF BaseInv, TypeInv, TypeOK
  <2> HIDE DEF new
  <2> QED
    BY <2>1 DEF RowStep, RowsSame, chainVars, envVars, DeleteIntermediates, new
<1>6. old # Null => DeletedShareNull(old) /\ ~old.deleted /\ old.pk = reg[k].pk
  BY <1>1, <1>4 DEF RowsNode
<1>7. /\ new \in ShareRow(Share, Deal) /\ DeletedShareNull(new)
      /\ GetShareByEpoch(new, e) # Null
  BY <1>3, <1>4, <1>6, ConfirmOk, NullAssumption
<1>8. new # Null /\ new.epoch = e /\ ~new.deleted
  BY <1>7, NullAssumption DEF GetShareByEpoch
<1>9. \/ new = old /\ Held(n, k) = e
      \/ HasPending(n, k, e) /\ new.share = inProgress[n][k][e].pending /\ new.pk = reg[k].pk
  <2>1. CASE GetShareByEpoch(old, e) # Null
    BY <2>1 DEF ConfirmRow, GetShareByEpoch, Held
  <2>2. CASE GetShareByEpoch(old, e) = Null
    <3>1. FetchPendingShare(inProgress[n][k], e) # Null
      BY <2>2 DEF ConfirmOutcome
    <3>2. new = Upsert(old, e, reg[k].pk, FetchPendingShare(inProgress[n][k], e))
      BY <2>2 DEF ConfirmRow
    <3>3. /\ new.share = FetchPendingShare(inProgress[n][k], e)
          /\ new.pk = reg[k].pk
      BY <1>3, <3>2 DEF Upsert, ShareRow
    <3> QED
      BY <3>1, <3>3 DEF FetchPendingShare, HasPending, HasRow
  <2> QED
    BY <2>1, <2>2
<1>10. new.pk = reg[k].pk
  BY <1>3, <1>6, <1>8, <1>9
<1>11. Held(n, k)' = e /\ \A d \in Epoch : inProgress'[n][k][d] = Null
  BY <1>5, <1>8 DEF Held, NoIntermediates
<1> HIDE DEF old, new
<1>12. /\ Ahead(n, k)' = Ahead(n, k) /\ Of(k)' = Of(k) /\ cursor' = cursor /\ log' = log
       /\ reg' = reg /\ PendingEpoch(k)' = PendingEpoch(k)
       /\ IsReshare(k)' <=> IsReshare(k)
       /\ Pooled(n)' = Pooled(n)
       /\ Lost(n, k)' <=> Lost(n, k)
  BY <1>5, RowStepFrame
<1>13. ASSUME NEW i \in Of(k), Running(k), RunNode(k, i, n)
       PROVE  RunNode(k, i, n)'
  <2>1. ~HasRow(n, k, PendingEpoch(k)) /\ PendingEpoch(k) \in Epoch
    BY <1>1, <1>2, <1>13, Types
  <2>2. ~HasRow(n, k, PendingEpoch(k))' /\ ~HasPending(n, k, PendingEpoch(k))'
    BY <1>11, <1>12, <2>1 DEF HasRow, HasPending
  <2>3. /\ \A j \in Ahead(n, k) : j < i => log[j].type \in Round3Types \cup {"SecretGenFinalize"}
        /\ reg[k].r1[n] = Null /\ n \notin reg[k].r3
        /\ \A t \in Pooled(n) : t.key = k => t.fn # "r1" /\ t.fn # "r3"
    BY <1>13, <2>1 DEF RunNode, HasPending
  <2> QED
    BY <1>12, <2>2, <2>3 DEF RunNode
<1>14. ASSUME NEW f \in Of(k), FinalNode(k, f, n)
       PROVE  FinalNode(k, f, n)'
  BY <1>2, <1>11, <1>12, <1>14 DEF FinalNode
<1>15. RowsNode(k, n)'
  <2>1. /\ shares'[n][k] # Null /\ DeletedShareNull(shares'[n][k]) /\ ~shares'[n][k].deleted
        /\ shares'[n][k].epoch <= reg[k].epoch /\ shares'[n][k].pk = reg[k].pk
    BY <1>2, <1>3, <1>5, <1>7, <1>8, <1>10, Types, <1>1
  <2>2. \A d \in Epoch : ~(inProgress'[n][k][d] # Null)
    BY <1>11
  <2> QED
    BY <1>1, <1>12, <2>1, <2>2 DEF RowsNode, DeletedShareNull, HasRow
<1>16. ASSUME ~Running(k) PROVE IdleNode(k, n)'
  <2>1. PendingEpoch(k) \in Epoch => ~HasRow(n, k, PendingEpoch(k))'
    BY <1>11, <1>12 DEF HasRow
  <2> QED
    BY <1>1, <1>12, <1>16, <2>1 DEF IdleNode
<1>17. ASSUME NEW d \in Epoch, NEW v \in Share, OneValue(n, k, d, v)
       PROVE  OneValue(n, k, d, v)'
  <2>1. Held(n, k)' = d => shares'[n][k].share = v
    BY <1>5, <1>9, <1>11, <1>17 DEF OneValue, old
  <2>2. ~HasPending(n, k, d)'
    BY <1>11 DEF HasPending, HasRow
  <2> QED
    BY <2>1, <2>2 DEF OneValue
<1>18. \A j \in Key : KeyInv(j)'
  BY <1>1, <1>5, <1>13, <1>14, <1>15, <1>16, <1>17, RowStepInv
<1> QED
  BY <1>11, <1>18

(* The end of a run or of a key: its intermediates go, and with the key its *)
(* share.                                                                   *)
LEMMA EndRows ==
    ASSUME Inv, NEW n \in Node, NEW k \in Key, pc[n] = "handle", Ev(n).type \in EndTypes,
           k = Ev(n).key,
           \/ shares' = shares
           \/ /\ Ev(n).type = "KeyDeletion"
              /\ shares' = [shares EXCEPT ![n][k] = SoftDeleteShares(@)],
           inProgress' = [inProgress EXCEPT ![n][k] = DeleteIntermediates(@)],
           UNCHANGED <<chainVars, cursor, pool, envVars>>
    PROVE  /\ \A j \in Key : KeyInv(j)'
           /\ inProgress'[n][k] = NoIntermediates
<1>1. /\ BaseInv /\ KeyInv(k) /\ RowsNode(k, n)
      /\ ~Running(k) => IdleNode(k, n)
      /\ \A j \in Key : KeyInv(j)
  BY NodeFacts
<1>2. /\ pos[n] = cursor[n] + 1 /\ Ev(n) = log[pos[n]] /\ pos[n] \in Ahead(n, k)
      /\ pos[n] \in Of(k) /\ cursor[n] \in Nat /\ Of(k) \subseteq 1 .. Len(log)
  BY <1>1, Handled, Types DEF Busy, Ahead
<1>3. ~Running(k)
  BY <1>2, NoEnd
<1>4. Ev(n).type = "KeyDeletion" => reg[k].round = "deleted"
  BY <1>1, <1>2 DEF BaseInv, DeletionInv
<1>5. /\ inProgress'[n][k] = NoIntermediates /\ RowStep(n, k)
      /\ \/ shares'[n][k] = shares[n][k]
         \/ /\ Ev(n).type = "KeyDeletion"
            /\ shares'[n][k] = SoftDeleteShares(shares[n][k])
  <2>1. /\ DOMAIN inProgress = Node /\ \A m \in Node : DOMAIN inProgress[m] = Key
        /\ DOMAIN shares = Node /\ \A m \in Node : DOMAIN shares[m] = Key
    BY <1>1 DEF BaseInv, TypeInv, TypeOK
  <2>2. inProgress'[n][k] = NoIntermediates
    BY <2>1 DEF DeleteIntermediates
  <2>3. \/ shares'[n][k] = shares[n][k]
        \/ /\ Ev(n).type = "KeyDeletion"
           /\ shares'[n][k] = SoftDeleteShares(shares[n][k])
    BY <2>1
  <2>4. RowStep(n, k)
    BY <2>1 DEF RowStep, RowsSame, chainVars, envVars
  <2> QED
    BY <2>2, <2>3, <2>4
<1>6. \A d \in Epoch : inProgress'[n][k][d] = Null
  BY <1>5 DEF NoIntermediates
<1>7. shares[n][k] \in ShareRow(Share, Deal) \cup {Null} /\ reg[k].epoch \in Int
  BY <1>1, Types
<1>8. \/ shares'[n][k] = shares[n][k] /\ Held(n, k)' = Held(n, k)
      \/ /\ reg[k].round = "deleted" /\ shares'[n][k] # Null /\ shares[n][k] # Null
         /\ shares'[n][k].deleted /\ shares'[n][k].share = Null /\ Held(n, k)' = -1
         /\ shares'[n][k].epoch = shares[n][k].epoch /\ shares'[n][k].pk = shares[n][k].pk
  <2>1. CASE shares'[n][k] = shares[n][k]
    BY <2>1 DEF Held
  <2>2. CASE shares'[n][k] # shares[n][k]
    <3>1. shares'[n][k] = SoftDeleteShares(shares[n][k]) /\ reg[k].round = "deleted"
      BY <1>4, <1>5, <2>2
    <3>2. shares[n][k] # Null /\ shares[n][k] \in ShareRow(Share, Deal)
      BY <1>7, <2>2, <3>1 DEF SoftDeleteShares
    <3>3. /\ shares'[n][k] # Null /\ shares'[n][k].deleted /\ shares'[n][k].share = Null
          /\ shares'[n][k].epoch = shares[n][k].epoch
      BY <3>1, <3>2, SoftDelete, NullAssumption
    <3>4. shares'[n][k].pk = shares[n][k].pk
      BY <3>1, <3>2 DEF SoftDeleteShares, ShareRow
    <3> QED
      BY <3>1, <3>2, <3>3, <3>4 DEF Held
  <2> QED
    BY <2>1, <2>2
<1>9. /\ Ahead(n, k)' = Ahead(n, k) /\ Of(k)' = Of(k) /\ cursor' = cursor /\ log' = log
      /\ reg' = reg /\ PendingEpoch(k)' = PendingEpoch(k)
      /\ IsReshare(k)' <=> IsReshare(k)
      /\ Pooled(n)' = Pooled(n)
      /\ Lost(n, k)' <=> Lost(n, k)
  BY <1>5, RowStepFrame
<1>10. ASSUME NEW f \in Of(k), FinalLog(k, f), FinalNode(k, f, n)
       PROVE  FinalNode(k, f, n)'
  <2>1. ~(cursor[n] < f)
    <3>1. pos[n] < f \/ pos[n] = f \/ ~(cursor[n] < f)
      BY <1>2
    <3>2. ~(pos[n] < f)
      BY <1>2, <1>10 DEF FinalNode, Round3Types, EndTypes
    <3>3. pos[n] # f
      BY <1>2, <1>10 DEF FinalLog, EndTypes
    <3> QED
      BY <3>1, <3>2, <3>3
  <2> QED
    BY <1>8, <1>9, <1>10, <2>1 DEF FinalNode
<1>11. RowsNode(k, n)'
  <2>1. shares'[n][k] # Null =>
          /\ DeletedShareNull(shares'[n][k])
          /\ shares'[n][k].deleted => reg[k].round = "deleted"
          /\ shares'[n][k].epoch <= reg[k].epoch
          /\ shares'[n][k].pk = reg[k].pk
    BY <1>1, <1>8 DEF RowsNode, DeletedShareNull
  <2>2. \A d \in Epoch : ~(inProgress'[n][k][d] # Null)
    BY <1>6
  <2> QED
    BY <1>1, <1>9, <2>1, <2>2 DEF RowsNode, DeletedShareNull, HasRow
<1>12. IdleNode(k, n)'
  <2>1. PendingEpoch(k) \in Epoch => ~HasRow(n, k, PendingEpoch(k))'
    BY <1>6, <1>9 DEF HasRow
  <2> QED
    BY <1>1, <1>3, <1>9, <2>1 DEF IdleNode
<1>13. ASSUME NEW d \in Epoch, NEW v \in Share, OneValue(n, k, d, v)
       PROVE  OneValue(n, k, d, v)'
  <2>1. Held(n, k)' = d => shares'[n][k].share = v
    BY <1>8, <1>13 DEF OneValue, Epoch
  <2>2. ~HasPending(n, k, d)'
    BY <1>6 DEF HasPending, HasRow
  <2> QED
    BY <2>1, <2>2 DEF OneValue
<1>14. \A j \in Key : KeyInv(j)'
  BY <1>1, <1>3, <1>5, <1>10, <1>11, <1>12, <1>13, RowStepInv
<1> QED
  BY <1>5, <1>14

-----------------------------------------------------------------------------
(* Steps of a node that write no row of a run. *)

(* A step of node n that touches no table, no cursor and no pool. *)
LEMMA QuietStep ==
    ASSUME \A k \in Key : KeyInv(k), UNCHANGED <<reg, log, cursor, lost, pool, shares, inProgress>>
    PROVE  \A k \in Key : KeyInv(k)'
<1>1. ASSUME NEW k \in Key PROVE KeyInv(k)'
  <2>1. ChainSame(k)
    BY DEF ChainSame, LogSame, Of
  <2>2. \A n \in Node : NodeSame(n, k) /\ NoMorePooled(n, k)
    BY DEF NodeSame, RowsSame, NoMorePooled, Pooled
  <2> QED
    BY <2>1, <2>2, KeyFrame
<1> QED
  BY <1>1

(* The cursor moves past an event whose handler is done. *)
LEMMA CursorStep ==
    ASSUME Inv, NEW n \in Node, StoreCursor(n), NEW k \in Key
    PROVE  KeyInv(k)'
<1>1. /\ BaseInv /\ KeyInv(k) /\ LocalInv(n) /\ pc[n] = "done"
  BY NodeFacts DEF StoreCursor
<1>2. /\ pos[n] = cursor[n] + 1 /\ Ev(n) = log[pos[n]] /\ pos[n] \in Ahead(n, Ev(n).key)
      /\ cursor \in [Node -> Nat] /\ Of(k) \subseteq Nat
      /\ reg[k].epoch \in Int
  <2>1. cursor \in [Node -> 0 .. Len(log)] /\ Len(log) \in Nat
    BY <1>1, Types DEF BaseInv, TypeInv, TypeOK
  <2> QED
    BY <1>1, <2>1, Handled, Types DEF Busy
<1>3. cursor' = [cursor EXCEPT ![n] = cursor[n] + 1]
  <2>1. (IF pos[n] > cursor[n] THEN pos[n] ELSE cursor[n]) = cursor[n] + 1
    BY <1>2
  <2> QED
    BY <1>2, <2>1 DEF StoreCursor
<1>4. UNCHANGED <<reg, log, lost, pool, shares, inProgress>>
  BY DEF StoreCursor, chainVars, envVars
<1>5. ASSUME NEW m \in Node, m # n
      PROVE  ChainSame(k) /\ NodeSame(m, k) /\ NoMorePooled(m, k)
  BY <1>2, <1>3, <1>4, <1>5
     DEF ChainSame, LogSame, Of, NodeSame, RowsSame, NoMorePooled, Pooled
<1>6. /\ Of(k)' = Of(k) /\ cursor'[n] = cursor[n] + 1 /\ PendingEpoch(k)' = PendingEpoch(k)
      /\ RunShare(k)' = RunShare(k)
      /\ IsReshare(k)' <=> IsReshare(k)
      /\ Pooled(n)' = Pooled(n) /\ Held(n, k)' = Held(n, k)
      /\ \A m \in Node : Lost(m, k)' <=> Lost(m, k)
      /\ \A e : HasRow(n, k, e)' <=> HasRow(n, k, e)
      /\ \A e : HasPending(n, k, e)' <=> HasPending(n, k, e)
  <2>1. RowsSame(n, k) /\ reg'[k] = reg[k]
    BY <1>4 DEF RowsSame
  <2>2. /\ Of(k)' = Of(k) /\ cursor'[n] = cursor[n] + 1 /\ Pooled(n)' = Pooled(n)
        /\ \A m \in Node : Lost(m, k)' <=> Lost(m, k)
    BY <1>2, <1>3, <1>4 DEF Of, Pooled, Lost
  <2> QED
    BY <2>1, <2>2, RegFrame, RowsFrame
<1>7. /\ Ahead(n, k)' \subseteq Ahead(n, k)
      /\ \A j \in Ahead(n, k) : j \in Ahead(n, k)' \/ j = pos[n]
  BY <1>2, <1>6 DEF Ahead
<1>8. pos[n] \in Of(k) => Ev(n).key = k
  BY <1>2 DEF Of
<1>9. ASSUME NEW i \in Of(k), RunNode(k, i, n)
      PROVE  RunNode(k, i, n)'
  <2>1. cursor[n] + 1 >= i => cursor'[n] + 1 >= i
    BY <1>2, <1>6
  <2> QED
    BY <1>4, <1>6, <1>7, <1>9, <2>1 DEF RunNode
<1>10. ASSUME NEW f \in Of(k), FinalLog(k, f), FinalNode(k, f, n)
       PROVE  FinalNode(k, f, n)'
  <2>1. cursor[n] < f => cursor[n] + 1 < f \/ pos[n] = f
    BY <1>2
  <2>2. pos[n] = f => reg[k].round = "deleted" \/ Lost(n, k) \/ Held(n, k) = reg[k].epoch
    BY <1>1, <1>2, <1>8, <1>10 DEF FinalLog, LocalInv
  <2> QED
    BY <1>4, <1>6, <1>7, <1>10, <2>1, <2>2 DEF FinalNode
<1>11. RowsNode(k, n) => RowsNode(k, n)'
  BY <1>4, <1>6, <1>7 DEF RowsNode, DeletedShareNull
<1>12. ASSUME IdleNode(k, n) PROVE IdleNode(k, n)'
  <2>1. ASSUME PendingEpoch(k) \in Epoch, HasRow(n, k, PendingEpoch(k))
        PROVE  \E l \in Ahead(n, k)' : log[l].type \in EndTypes
    <3>1. PICK l \in Ahead(n, k) : log[l].type \in EndTypes
      BY <1>12, <2>1 DEF IdleNode
    <3>2. CASE l = pos[n]
      <4>1. inProgress[n][k] = NoIntermediates
        BY <1>1, <1>2, <1>8, <3>1, <3>2 DEF LocalInv, Ahead
      <4> QED
        BY <2>1, <4>1 DEF HasRow, NoIntermediates
    <3> QED
      BY <1>7, <3>1, <3>2
  <2> QED
    BY <1>4, <1>6, <1>7, <1>12, <2>1 DEF IdleNode
<1>13. \A m \in Node : \A e, v : OneValue(m, k, e, v) => OneValue(m, k, e, v)'
  BY <1>4 DEF OneValue, Held, HasPending, HasRow
<1>14. ChainSame(k)
  BY <1>4 DEF ChainSame, LogSame, Of
<1> QED
  BY <1>1, <1>5, <1>6, <1>9, <1>10, <1>11, <1>12, <1>13, <1>14, NodeFrame, KeyStep

(* A contribution is sent: what it commits to is stored. *)
LEMMA SendStep ==
    ASSUME Inv, NEW n \in Node, pc[n] = "submit", CallResult(n, tx[n]) = "Ok",
           pool' = [pool EXCEPT ![n] = Append(@, tx[n])],
           UNCHANGED <<reg, log, cursor, lost, shares, inProgress>>, NEW k \in Key
    PROVE  KeyInv(k)'
<1>1. /\ BaseInv /\ KeyInv(k) /\ LocalInv(n) /\ Busy(n) /\ RowsNode(k, n)
  BY NodeFacts DEF Busy
<1>2. \A m \in Node : ChainSame(k) /\ NodeSame(m, k)
  BY DEF ChainSame, LogSame, Of, NodeSame, RowsSame
<1>3. tx[n] \in Submission /\ pool \in [Node -> Seq(Submission)]
  BY <1>1 DEF BaseInv, TypeInv, TypeOK
<1>4. /\ \A m \in Node : m # n => Pooled(m)' = Pooled(m)
      /\ Pooled(n)' \subseteq Pooled(n) \cup {tx[n]}
  <2>1. pool[n] \in Seq(Submission) /\ pool'[n] = Append(pool[n], tx[n])
        /\ \A m \in Node : m # n => pool'[m] = pool[m]
    BY <1>3
  <2>2. /\ Len(pool'[n]) = Len(pool[n]) + 1 /\ Len(pool[n]) \in Nat
        /\ \A x \in 1 .. Len(pool[n]) : pool'[n][x] = pool[n][x]
        /\ pool'[n][Len(pool[n]) + 1] = tx[n]
    BY <1>3, <2>1
  <2> QED
    BY <2>1, <2>2 DEF Pooled
<1>5. ASSUME NEW i \in Of(k), Running(k), RunLog(k, i), RunNode(k, i, n)
      PROVE  RunNode(k, i, n)'
  <2> DEFINE e == PendingEpoch(k)
  <2>1. ASSUME tx[n].key = k
        PROVE  /\ tx[n].fn = "r1" => HasRow(n, k, e) /\ inProgress[n][k][e].im = tx[n].im
               /\ tx[n].fn = "r3" => HasPending(n, k, e)
    <3>1. Ev(n).key = k /\ Ev(n) = log[pos[n]] /\ pos[n] \in Ahead(n, k)
      BY <1>1, <2>1, Handled DEF LocalInv
    <3>2. ASSUME tx[n].fn = "r1"
          PROVE  HasRow(n, k, e) /\ inProgress[n][k][e].im = tx[n].im
      <4>1. Ev(n).epoch = e
        BY <1>1, <3>1, <3>2 DEF LocalInv, RowsNode
      <4> QED
        BY <1>1, <3>1, <3>2, <4>1 DEF LocalInv
    <3>3. ASSUME tx[n].fn = "r3" PROVE HasPending(n, k, e)
      <4>1. reg[k].round = "three"
        BY <2>1, <3>3 DEF CallResult, RoundOf
      <4>2. Ev(n).epoch = e
        BY <1>1, <3>1, <3>3, <4>1, Round3Place DEF LocalInv
      <4> QED
        BY <1>1, <3>1, <3>3, <4>2 DEF LocalInv
    <3> QED
      BY <3>2, <3>3
  <2>2. /\ e' = e /\ RunShare(k)' = RunShare(k)
        /\ IsReshare(k)' <=> IsReshare(k)
        /\ Ahead(n, k)' = Ahead(n, k) /\ Held(n, k)' = Held(n, k)
        /\ \A d : HasRow(n, k, d)' <=> HasRow(n, k, d)
        /\ \A d : HasPending(n, k, d)' <=> HasPending(n, k, d)
    BY <1>2, RegFrame, RowsFrame, AheadFrame DEF ChainSame, NodeSame
  <2>3. \A t \in Pooled(n)' : t.key = k =>
          /\ t.fn = "r1" => HasRow(n, k, e) /\ inProgress[n][k][e].im = t.im
          /\ t.fn = "r3" => HasPending(n, k, e)
    BY <1>4, <1>5, <2>1 DEF RunNode
  <2> QED
    BY <1>5, <2>2, <2>3 DEF RunNode
<1>6. \A m \in Node : m # n => NoMorePooled(m, k)
  BY <1>4 DEF NoMorePooled
<1>7. \A m \in Node : Lost(m, k) => Lost(m, k)'
  BY LostFrame
<1>8. \A m \in Node : \A e, v : OneValue(m, k, e, v)' <=> OneValue(m, k, e, v)
  BY <1>2, RowsFrame DEF NodeSame
<1>9. ASSUME NEW m \in Node, NEW i \in Of(k), Running(k), RunLog(k, i), RunNode(k, i, m)
      PROVE  RunNode(k, i, m)'
  BY <1>2, <1>5, <1>6, <1>9, NodeFrame
<1>10. ChainSame(k)
  BY <1>2 DEF ChainSame, LogSame, Of
<1> QED
  BY <1>1, <1>2, <1>7, <1>8, <1>9, <1>10, NodeFrame, KeyStep

(* A node that is at rest loses its shares. *)
LEMMA LoseStep ==
    ASSUME Inv, NEW n \in Node, LoseShares(n), NEW k \in Key
    PROVE  KeyInv(k)'
<1>1. BaseInv /\ KeyInv(k) /\ ~Running(k)
  BY NodeFacts DEF LoseShares
<1>2. UNCHANGED <<reg, log, cursor, pool, inProgress>> /\ lost \subseteq lost'
  BY DEF LoseShares, chainVars
<1>3. /\ \A m \in Node : m # n => RowsSame(m, k)
      /\ inProgress'[n][k] = inProgress[n][k]
      /\ \/ shares'[n][k] = Null
         \/ shares'[n][k] = shares[n][k] /\ shares[n][k].deleted
  BY <1>1, <1>2 DEF LoseShares, RowsSame, BaseInv, TypeInv, TypeOK
<1>4. ChainSame(k) /\ \A m \in Node : m # n => NodeSame(m, k)
  BY <1>2, <1>3 DEF ChainSame, LogSame, Of, NodeSame
<1>5. Lost(n, k)'
  <2>1. <<n, [j \in Key |-> reg[j].epoch]>> \in lost'
    BY DEF LoseShares
  <2> QED
    BY <1>2, <2>1 DEF Lost
<1>6. \A m \in Node : Lost(m, k) => Lost(m, k)'
  BY <1>2, LostFrame
<1>7. Held(n, k)' = -1
  BY <1>3 DEF Held
<1>8. /\ Ahead(n, k)' = Ahead(n, k) /\ Of(k)' = Of(k) /\ PendingEpoch(k)' = PendingEpoch(k)
      /\ IsReshare(k)' <=> IsReshare(k)
  BY <1>2 DEF Ahead, Of, PendingEpoch, IsReshare
<1>9. ASSUME NEW f \in Of(k), FinalNode(k, f, n) PROVE FinalNode(k, f, n)'
  BY <1>2, <1>5, <1>8, <1>9 DEF FinalNode
<1>10. RowsNode(k, n) => RowsNode(k, n)'
  BY <1>2, <1>3, <1>8 DEF RowsNode, DeletedShareNull, HasRow
<1>11. IdleNode(k, n) => IdleNode(k, n)'
  BY <1>2, <1>8 DEF IdleNode, HasRow
<1>12. ASSUME NEW e \in Epoch, NEW v \in Share, OneValue(n, k, e, v)
       PROVE  OneValue(n, k, e, v)'
  BY <1>2, <1>7, <1>12 DEF OneValue, HasPending, HasRow, Epoch
<1>13. \A m \in Node : m # n => \A e, v : OneValue(m, k, e, v)' <=> OneValue(m, k, e, v)
  BY <1>3, RowsFrame
<1> QED
  BY <1>1, <1>4, <1>6, <1>9, <1>10, <1>11, <1>12, <1>13, NodeFrame, KeyStep

-----------------------------------------------------------------------------
(* Steps of the chain. *)

(* A mined transaction or a call of the administrator, on key k: nothing of *)
(* the nodes changes but the pools, which only shrink.                      *)
ChainStep(k) ==
    /\ OthersKept(k) /\ UNCHANGED <<shares, inProgress, cursor, lost>>
    /\ \A n \in Node : Pooled(n)' \subseteq Pooled(n)
    /\ log' = log \/ \E ev \in Event : Extends(ev) /\ ev.key = k

(* The event that is appended is ahead of every node. *)
LEMMA LogGrows ==
    ASSUME BaseInv, NEW k \in Key, cursor' = cursor, NEW ev \in Event, Extends(ev), ev.key = k
    PROVE  /\ Of(k)' = Of(k) \cup {Len(log) + 1} /\ log'[Len(log) + 1] = ev
           /\ \A j \in Of(k) : log'[j] = log[j] /\ j < Len(log) + 1
           /\ Len(log) + 1 \in Nat /\ Of(k) \subseteq Nat
           /\ \A n \in Node : /\ Ahead(n, k)' = Ahead(n, k) \cup {Len(log) + 1}
                               /\ cursor[n] \in Nat /\ cursor[n] < Len(log) + 1
           /\ \A j \in Key : j # k => LogSame(j)
<1>1. log \in Seq(Event) /\ Len(log) \in Nat /\ \A n \in Node : cursor[n] \in 0 .. Len(log)
  BY LogTypes DEF BaseInv, TypeInv, TypeOK
<1>2. /\ Len(log') = Len(log) + 1 /\ log'[Len(log) + 1] = ev
      /\ \A j \in 1 .. Len(log) : log'[j] = log[j]
  BY <1>1, LogAppend
<1>3. Of(k)' = Of(k) \cup {Len(log) + 1}
  BY <1>1, <1>2 DEF Of
<1>4. \A n \in Node : Ahead(n, k)' = Ahead(n, k) \cup {Len(log) + 1}
  BY <1>1, <1>3 DEF Ahead
<1>5. \A j \in Key : j # k => LogSame(j)
  BY <1>1, <1>2 DEF LogSame, Of
<1>6. \A j \in Of(k) : log'[j] = log[j] /\ j < Len(log) + 1
  BY <1>1, <1>2 DEF Of
<1>7. Of(k) \subseteq Nat
  BY <1>1 DEF Of
<1> QED
  BY <1>1, <1>2, <1>3, <1>4, <1>5, <1>6, <1>7

(* The log of a run that goes on. *)
LEMMA RunLogKept ==
    ASSUME BaseInv, cursor' = cursor, NEW n \in Node, NEW k \in Key, NEW s \in Submission,
           s.key = k, CallResult(n, s) = "Ok",
           \/ s.fn = "r1" /\ addRound1(n, k, s.im)
           \/ s.fn = "r2" /\ addRound2(n, k)
           \/ s.fn = "r3" /\ addRound3(n, k) /\ reg'[k].round = "three",
           NEW i \in Of(k), RunLog(k, i)
    PROVE  RunLog(k, i)'
<1>1. RegistryInv /\ s.im \in Intermediate \cup {Null}
  BY DEF BaseInv, TypeInv, Submission
<1>2. CASE s.fn = "r1" /\ addRound1(n, k, s.im)
  <2>1. reg[k].round = "one"
    BY <1>2 DEF CallResult, RoundOf
  <2>2. \/ reg'[k].round = "one" /\ log' = log
        \/ \E ev \in Event : /\ Extends(ev) /\ ev.key = k
                              /\ \/ reg'[k].round = "stuck" /\ ev.type = "NotEnoughProducers"
                                 \/ reg'[k].round = "two" /\ ev.type = "SecretGenRound2"
    BY <1>1, <1>2, <2>1, Round1Effect
  <2>3. \A j \in Of(k) : ~(j > i)
    BY <2>1 DEF RunLog, Allowed
  <2>4. CASE reg'[k].round = "one" /\ log' = log
    BY <2>3, <2>4 DEF RunLog, Of
  <2>5. CASE ~(reg'[k].round = "one" /\ log' = log)
    <3>1. PICK ev \in Event : /\ Extends(ev) /\ ev.key = k
                              /\ \/ reg'[k].round = "stuck" /\ ev.type = "NotEnoughProducers"
                                 \/ reg'[k].round = "two" /\ ev.type = "SecretGenRound2"
      BY <2>2, <2>5
    <3>2. /\ Of(k)' = Of(k) \cup {Len(log) + 1} /\ log'[Len(log) + 1] = ev
          /\ \A j \in Of(k) : log'[j] = log[j]
      BY <3>1, LogGrows
    <3>3. \A j \in Of(k)' : j > i => log'[j] = ev
      BY <2>3, <3>2
    <3>4. ev.type \in Allowed(reg'[k].round) /\ ev.type \notin Round3Types
      BY <3>1 DEF Allowed, Round3Types
    <3>5. log'[i].type \in Round1Types
      BY <3>2 DEF RunLog
    <3> QED
      BY <3>3, <3>4, <3>5 DEF RunLog
  <2> QED
    BY <2>4, <2>5
<1>3. CASE s.fn = "r2" /\ addRound2(n, k)
  <2>1. reg[k].round = "two"
    BY <1>3 DEF CallResult, RoundOf
  <2>2. /\ reg'[k].epoch = reg[k].epoch /\ reg'[k].producers = reg[k].producers
        /\ \/ reg'[k].round = "two" /\ log' = log
           \/ /\ reg'[k].round = "three"
              /\ \E ev \in Event :
                    /\ Extends(ev) /\ ev.key = k /\ ev.epoch = PendingEpoch(k)
                    /\ ev.type \in Round3Types
                    /\ ev.type = "ReshareRound3" => ev.lagrange = reg[k].producers
    BY <1>1, <1>3, <2>1, Round2Effect DEF Round3Types
  <2>3. PendingEpoch(k)' = PendingEpoch(k)
    BY <2>2 DEF PendingEpoch
  <2>4. \A j \in Of(k) : j > i => log[j].type = "SecretGenRound2"
    BY <2>1 DEF RunLog, Allowed
  <2>5. CASE reg'[k].round = "two" /\ log' = log
    <3>1. Of(k)' = Of(k)
      BY <2>5 DEF Of
    <3> QED
      BY <2>4, <2>5, <3>1 DEF RunLog, Allowed, Round3Types
  <2>6. CASE reg'[k].round = "three"
    <3>1. PICK ev \in Event : /\ Extends(ev) /\ ev.key = k /\ ev.epoch = PendingEpoch(k)
                              /\ ev.type \in Round3Types
                              /\ ev.type = "ReshareRound3" => ev.lagrange = reg[k].producers
      BY <2>2, <2>6
    <3>2. /\ Of(k)' = Of(k) \cup {Len(log) + 1} /\ log'[Len(log) + 1] = ev
          /\ \A j \in Of(k) : log'[j] = log[j] /\ j < Len(log) + 1
          /\ Len(log) + 1 \in Nat /\ Of(k) \subseteq Nat
      BY <3>1, LogGrows
    <3>3. \A j \in Of(k)' : j > i => \/ log'[j].type = "SecretGenRound2"
                                     \/ log'[j] = ev /\ \A l \in Of(k)' : l <= j
      BY <2>4, <3>2
    <3>4. log'[i].type \in Round1Types
      BY <3>2 DEF RunLog
    <3> QED
      BY <2>2, <2>3, <2>6, <3>1, <3>3, <3>4 DEF RunLog, Allowed, Round3Types
  <2> QED
    BY <2>2, <2>5, <2>6
<1>4. CASE s.fn = "r3" /\ addRound3(n, k) /\ reg'[k].round = "three"
  <2>1. reg[k].round = "three"
    BY <1>4 DEF CallResult, RoundOf
  <2>2. log' = log /\ reg'[k].epoch = reg[k].epoch /\ reg'[k].producers = reg[k].producers
    BY <1>1, <1>4, <2>1, Round3Effect
  <2>3. Of(k)' = Of(k) /\ PendingEpoch(k)' = PendingEpoch(k)
    BY <2>2 DEF Of, PendingEpoch
  <2> QED
    BY <1>4, <2>1, <2>2, <2>3 DEF RunLog
<1> QED
  BY <1>2, <1>3, <1>4

(* The other keys keep their invariant. *)
LEMMA OtherKeys ==
    ASSUME BaseInv, \A j \in Key : KeyInv(j), NEW k \in Key, ChainStep(k)
    PROVE  \A j \in Key : j # k => KeyInv(j)'
<1>1. ASSUME NEW j \in Key, j # k PROVE KeyInv(j)'
  <2>1. LogSame(j)
    <3>1. CASE log' = log
      BY <3>1 DEF LogSame, Of
    <3>2. CASE log' # log
      BY <1>1, <3>2, LogGrows DEF ChainStep
    <3> QED
      BY <3>1, <3>2
  <2>2. ChainSame(j) /\ lost' = lost
    BY <1>1, <2>1 DEF ChainSame, ChainStep, OthersKept
  <2>3. \A n \in Node : NodeSame(n, j) /\ NoMorePooled(n, j)
    BY DEF NodeSame, RowsSame, NoMorePooled, ChainStep
  <2> QED
    BY <2>2, <2>3, KeyFrame
<1> QED
  BY <1>1

(* What a node has of a key after a step that keeps the epoch. *)
LEMMA RowsKept ==
    ASSUME NEW k \in Key, KeyInv(k), ChainStep(k), reg[k].round # "deleted",
           reg'[k].epoch = reg[k].epoch, reg'[k].pk = reg[k].pk, NEW n \in Node
    PROVE  /\ PendingEpoch(k)' = PendingEpoch(k)
           /\ IsReshare(k)' <=> IsReshare(k)
           /\ cursor' = cursor /\ Held(n, k)' = Held(n, k)
           /\ Lost(n, k)' <=> Lost(n, k)
           /\ \A e : HasRow(n, k, e)' <=> HasRow(n, k, e)
           /\ \A e : HasPending(n, k, e)' <=> HasPending(n, k, e)
           /\ (\A j \in Ahead(n, k)' : log'[j].type \in Round1Types =>
                   /\ log'[j].epoch = PendingEpoch(k)
                   /\ log'[j].type = "ReshareRound1" <=> IsReshare(k))
              => RowsNode(k, n)'
<1>1. /\ PendingEpoch(k)' = PendingEpoch(k)
      /\ IsReshare(k)' <=> IsReshare(k)
  BY DEF PendingEpoch, IsReshare
<1>2. UNCHANGED <<shares, inProgress, cursor, lost>> /\ RowsSame(n, k)
  BY DEF ChainStep, RowsSame
<1>3. /\ Held(n, k)' = Held(n, k)
      /\ \A e : HasRow(n, k, e)' <=> HasRow(n, k, e)
      /\ \A e : HasPending(n, k, e)' <=> HasPending(n, k, e)
      /\ Lost(n, k)' <=> Lost(n, k)
  BY <1>2, RowsFrame DEF Lost
<1>4. ASSUME \A j \in Ahead(n, k)' : log'[j].type \in Round1Types =>
                 /\ log'[j].epoch = PendingEpoch(k)
                 /\ log'[j].type = "ReshareRound1" <=> IsReshare(k)
      PROVE  RowsNode(k, n)'
  <2>1. RowsNode(k, n)
    BY DEF KeyInv, RestInv
  <2> QED
    BY <1>1, <1>2, <1>3, <1>4, <2>1 DEF RowsNode, DeletedShareNull
<1> QED
  BY <1>1, <1>2, <1>3, <1>4

(* A step that keeps the epoch and is no finalisation keeps what holds of   *)
(* the epochs so far.                                                       *)
LEMMA EpochKept ==
    ASSUME BaseInv, NEW k \in Key, KeyInv(k), ChainStep(k), reg[k].round # "deleted",
           reg'[k].epoch = reg[k].epoch, reg'[k].pk = reg[k].pk,
           log' # log => log'[Len(log) + 1].type # "SecretGenFinalize"
    PROVE  FinalInv(k)' /\ SharingInv(k)'
<1>1. UNCHANGED <<shares, inProgress, cursor, lost>>
  BY DEF ChainStep
<1>2. SharingInv(k)'
  <2>1. \A n \in Node : \A e, v : OneValue(n, k, e, v) => OneValue(n, k, e, v)'
    BY <1>1 DEF OneValue, Held, HasPending, HasRow
  <2> QED
    BY <2>1 DEF KeyInv, SharingInv
<1>3. CASE log' = log
  <2>1. Of(k)' = Of(k)
    BY <1>3 DEF Of
  <2>2. \A f \in Of(k) : FinalLog(k, f) => FinalLog(k, f)'
    BY <1>3, <2>1 DEF FinalLog
  <2>3. ASSUME NEW f \in Of(k), NEW n \in Node, FinalNode(k, f, n)
        PROVE  FinalNode(k, f, n)'
    <3>1. Ahead(n, k)' = Ahead(n, k)
      BY <1>1, <1>3 DEF Ahead, Of
    <3> QED
      BY <1>1, <1>3, <2>3, <3>1, RowsKept DEF FinalNode
  <2> QED
    BY <1>2, <1>3, <2>1, <2>2, <2>3 DEF KeyInv, FinalInv
<1>4. CASE log' # log
  <2>1. PICK ev \in Event : Extends(ev) /\ ev.key = k
    BY <1>4 DEF ChainStep
  <2> DEFINE q == Len(log) + 1
  <2>2. /\ Of(k)' = Of(k) \cup {q} /\ log'[q].type # "SecretGenFinalize"
        /\ \A j \in Of(k) : log'[j] = log[j] /\ j < q
        /\ q \in Nat /\ Of(k) \subseteq Nat
        /\ \A n \in Node : Ahead(n, k)' = Ahead(n, k) \cup {q}
    BY <1>1, <1>4, <2>1, LogGrows
  <2> HIDE DEF q
  <2>3. \A f \in Of(k) : FinalLog(k, f) => FinalLog(k, f)'
    BY <2>2 DEF FinalLog
  <2>4. ASSUME NEW f \in Of(k), NEW n \in Node, FinalNode(k, f, n)
        PROVE  FinalNode(k, f, n)'
    <3>1. \A j \in Ahead(n, k)' : j < f => j \in Ahead(n, k) /\ log'[j] = log[j]
      BY <2>2 DEF Ahead
    <3> QED
      BY <1>1, <2>4, <3>1, RowsKept DEF FinalNode
  <2> QED
    BY <1>2, <2>2, <2>3, <2>4 DEF KeyInv, FinalInv
<1> QED
  BY <1>3, <1>4

(* A contribution that does not end a run: what the contract has booked is  *)
(* stored at the node.                                                      *)
LEMMA RunGoesOn ==
    ASSUME BaseInv, NEW k \in Key, KeyInv(k), ChainStep(k), Running(k), Running(k)',
           reg'[k].epoch = reg[k].epoch, reg'[k].pk = reg[k].pk,
           log' # log => log'[Len(log) + 1].type \notin Round1Types \cup {"SecretGenFinalize"},
           reg[k].round = "three" => log' = log /\ reg'[k].round = "three" /\ RunShare(k)' = RunShare(k),
           \A m \in Node : \/ reg'[k].r1[m] = Null
                           \/ reg'[k].r1[m] = reg[k].r1[m]
                           \/ \E t \in Pooled(m) : t.key = k /\ t.fn = "r1" /\ t.im = reg'[k].r1[m],
           \A m \in reg'[k].r3 : \/ m \in reg[k].r3
                                 \/ \E t \in Pooled(m) : t.key = k /\ t.fn = "r3",
           \A i \in Of(k) : RunLog(k, i) => RunLog(k, i)',
           ProducersInv(k)'
    PROVE  KeyInv(k)'
<1>1. reg[k].round # "deleted"
  BY DEF Running
<1>2. FinalInv(k)' /\ SharingInv(k)'
  BY <1>1, EpochKept
<1>3. \/ log' = log /\ Of(k)' = Of(k)
      \/ /\ Of(k)' = Of(k) \cup {Len(log) + 1}
         /\ \A j \in Of(k) : log'[j] = log[j] /\ j < Len(log) + 1
         /\ Len(log) + 1 \in Nat /\ Of(k) \subseteq Nat
         /\ log' # log
  <2>1. CASE log' = log
    BY <2>1 DEF Of
  <2>2. CASE log' # log
    BY <2>2, LogGrows DEF ChainStep
  <2> QED
    BY <2>1, <2>2
<1>4. ASSUME NEW n \in Node
      PROVE  \/ log' = log /\ Ahead(n, k)' = Ahead(n, k)
             \/ /\ Ahead(n, k)' = Ahead(n, k) \cup {Len(log) + 1}
                /\ \A j \in Ahead(n, k) : log'[j] = log[j]
                /\ log' # log
  <2>1. CASE log' = log
    BY <2>1 DEF Ahead, Of, ChainStep
  <2>2. CASE log' # log
    BY <1>3, <2>2, LogGrows DEF ChainStep, Ahead
  <2> QED
    BY <2>1, <2>2
<1>5. ASSUME NEW n \in Node PROVE RowsNode(k, n)'
  <2>1. RowsNode(k, n)
    BY DEF KeyInv, RestInv
  <2>2. \A j \in Ahead(n, k)' : log'[j].type \in Round1Types => j \in Ahead(n, k) /\ log'[j] = log[j]
    BY <1>4
  <2> QED
    BY <1>1, <2>1, <2>2, RowsKept DEF RowsNode
<1>6. ASSUME NEW i \in Of(k), NEW n \in Node, RunNode(k, i, n)
      PROVE  RunNode(k, i, n)'
  <2> DEFINE e == PendingEpoch(k)
             row == inProgress[n][k][e]
  <2>1. /\ \A j \in Ahead(n, k) : j < i => log[j].type \in Round3Types \cup {"SecretGenFinalize"}
        /\ HasRow(n, k, e) => cursor[n] + 1 >= i
        /\ reg[k].r1[n] # Null => HasRow(n, k, e) /\ row.im = reg[k].r1[n]
        /\ \A t \in Pooled(n) : t.key = k =>
              /\ t.fn = "r1" => HasRow(n, k, e) /\ row.im = t.im
              /\ t.fn = "r3" => HasPending(n, k, e)
        /\ HasPending(n, k, e) =>
              /\ reg[k].round = "three" /\ row.pending = RunShare(k)
              /\ \A j \in Ahead(n, k) : log[j].type \in Round3Types
        /\ n \in reg[k].r3 => HasPending(n, k, e)
        /\ IsReshare(k) /\ HasRow(n, k, e) /\ row.im.poly =>
              Held(n, k) = reg[k].epoch /\ row.im.old = shares[n][k].share
    BY <1>6 DEF RunNode
  <2>2. /\ PendingEpoch(k)' = e /\ cursor' = cursor /\ Held(n, k)' = Held(n, k)
        /\ IsReshare(k)' <=> IsReshare(k)
        /\ HasRow(n, k, e)' <=> HasRow(n, k, e)
        /\ HasPending(n, k, e)' <=> HasPending(n, k, e)
    BY <1>1, RowsKept
  <2>3. UNCHANGED <<inProgress, shares>> /\ Pooled(n)' \subseteq Pooled(n)
    BY DEF ChainStep
  <2>4. \A j \in Ahead(n, k)' : j < i => j \in Ahead(n, k) /\ log'[j] = log[j]
    BY <1>3, <1>4
  <2>5. reg'[k].r1[n] # Null => HasRow(n, k, e) /\ row.im = reg'[k].r1[n]
    BY <2>1
  <2>6. n \in reg'[k].r3 => HasPending(n, k, e)
    BY <2>1
  <2>7. HasPending(n, k, e) => /\ reg'[k].round = "three" /\ row.pending = RunShare(k)'
                               /\ \A j \in Ahead(n, k)' : log'[j].type \in Round3Types
    BY <1>4, <2>1
  <2>8. /\ HasRow(n, k, PendingEpoch(k))' <=> HasRow(n, k, e)
        /\ HasPending(n, k, PendingEpoch(k))' <=> HasPending(n, k, e)
    BY <2>2, <2>3 DEF HasRow, HasPending
  <2> HIDE DEF e
  <2> QED
    BY <2>1, <2>2, <2>3, <2>4, <2>5, <2>6, <2>7, <2>8 DEF RunNode
<1>7. RunInv(k)'
  BY <1>3, <1>6 DEF KeyInv, RunInv
<1>8. RestInv(k)'
  BY <1>5 DEF RestInv
<1> QED
  BY <1>2, <1>7, <1>8 DEF KeyInv

(* The administrator ends a run or a key: what is left of it is ahead of    *)
(* the event that says so.                                                  *)
LEMMA EndStep ==
    ASSUME BaseInv, NEW k \in Key, KeyInv(k), ChainStep(k), reg[k].round # "deleted", ~Running(k)',
           reg'[k].epoch = reg[k].epoch, reg'[k].pk = reg[k].pk,
           NEW ev \in Event, Extends(ev), ev.key = k, ev.type \in EndTypes
    PROVE  KeyInv(k)'
<1> DEFINE q == Len(log) + 1
<1>1. /\ Of(k)' = Of(k) \cup {q} /\ log'[q] = ev
      /\ \A j \in Of(k) : log'[j] = log[j] /\ j < q
      /\ q \in Nat /\ Of(k) \subseteq Nat
  BY LogGrows DEF ChainStep
<1>2. FinalInv(k)' /\ SharingInv(k)'
  BY <1>1, EpochKept DEF EndTypes
<1>3. RunInv(k)' /\ ProducersInv(k)'
  BY DEF RunInv, ProducersInv, Running
<1>4. ASSUME NEW n \in Node PROVE RowsNode(k, n)' /\ IdleNode(k, n)'
  <2>1. Ahead(n, k)' = Ahead(n, k) \cup {q} /\ Ahead(n, k) \subseteq Of(k)
    BY LogGrows DEF ChainStep, Ahead
  <2>2. RowsNode(k, n)
    BY DEF KeyInv, RestInv
  <2>3. \A j \in Ahead(n, k)' : log'[j].type \in Round1Types => j \in Ahead(n, k) /\ log'[j] = log[j]
    BY <1>1, <2>1 DEF EndTypes, Round1Types
  <2>4. RowsNode(k, n)'
    BY <2>2, <2>3, RowsKept DEF RowsNode
  <2>5. /\ q \in Ahead(n, k)' /\ q \in Of(k)' /\ log'[q].type \in EndTypes
        /\ \A j \in Ahead(n, k)' : q >= j
    BY <1>1, <2>1
  <2> HIDE DEF q
  <2> QED
    BY <2>4, <2>5 DEF IdleNode
<1> QED
  BY <1>2, <1>3, <1>4 DEF KeyInv, RestInv

(* The administrator starts a run after every node has handled the aborts   *)
(* before it: nothing of an earlier run is left.                            *)
LEMMA InitStep ==
    ASSUME BaseInv, NEW k \in Key, KeyInv(k), ChainStep(k), AbortHandled(k),
           reg[k].round \in {"none", "idle"}, reg'[k].round = "one",
           reg'[k].epoch = reg[k].epoch, reg'[k].pk = reg[k].pk,
           reg'[k].r1 = NoContributions, reg'[k].producers = {}, reg'[k].r3 = {},
           PendingEpoch(k) \in Epoch,
           NEW ev \in Event, Extends(ev), ev.key = k, ev.epoch = PendingEpoch(k),
           ev.type = IF IsReshare(k) THEN "ReshareRound1" ELSE "SecretGenRound1"
    PROVE  KeyInv(k)'
<1>0. PICK q \in Nat : q = Len(log) + 1
  BY Types
<1>1. /\ Of(k)' = Of(k) \cup {q} /\ log'[q] = ev
      /\ \A j \in Of(k) : log'[j] = log[j] /\ j < q
      /\ q \in Nat /\ Of(k) \subseteq Nat
  BY <1>0, LogGrows DEF ChainStep
<1>2. ev.type \in Round1Types /\ ev.type # "SecretGenFinalize" /\ ~Running(k)
  BY DEF Round1Types, Running
<1>3. FinalInv(k)' /\ SharingInv(k)'
  BY <1>0, <1>1, <1>2, EpochKept
<1>4. ProducersInv(k)'
  BY DEF ProducersInv
<1>5. ASSUME NEW n \in Node
      PROVE  /\ ~HasRow(n, k, PendingEpoch(k)) /\ Pooled(n) = {}
             /\ \A j \in Ahead(n, k) : log[j].type \in Round3Types \cup {"SecretGenFinalize"}
  <2>1. \A j \in Ahead(n, k) : log[j].type \notin EndTypes
    <3>1. ASSUME NEW j \in Ahead(n, k) PROVE log[j].type \notin EndTypes
      <4>1. j \in cursor[n] + 1 .. Len(log) /\ log[j].key = k /\ j \in 1 .. Len(log)
        BY Types DEF Ahead, Of
      <4>2. log[j].type # "KeyGenAbort"
        BY <4>1 DEF AbortHandled
      <4>3. log[j].type # "KeyDeletion"
        BY <4>1 DEF BaseInv, DeletionInv
      <4> QED
        BY <4>2, <4>3 DEF EndTypes
    <3> QED
      BY <3>1
  <2>2. IdleNode(k, n)
    BY <1>2 DEF KeyInv, RestInv
  <2>3. ~HasRow(n, k, PendingEpoch(k))
    BY <2>1, <2>2 DEF IdleNode
  <2>4. \A j \in Ahead(n, k), l \in Of(k) : l >= j => l \in Ahead(n, k)
    BY Types DEF Ahead
  <2>5. \A j \in Ahead(n, k) : log[j].type \in Round3Types \cup {"SecretGenFinalize"}
    BY <2>1, <2>2, <2>4 DEF IdleNode
  <2>6. Pooled(n) = {}
    BY DEF AbortHandled, Pooled
  <2> QED
    BY <2>3, <2>5, <2>6
<1>6. ASSUME NEW n \in Node PROVE RowsNode(k, n)' /\ RunNode(k, q, n)'
  <2>1. Ahead(n, k)' = Ahead(n, k) \cup {q} /\ Ahead(n, k) \subseteq Of(k)
    BY <1>0, LogGrows DEF ChainStep, Ahead
  <2>2. \A j \in Ahead(n, k)' : j = q \/ log'[j].type \in Round3Types \cup {"SecretGenFinalize"}
    BY <1>1, <1>5, <2>1
  <2>3. /\ log'[q].epoch = PendingEpoch(k)
        /\ log'[q].type = "ReshareRound1" <=> IsReshare(k)
    BY <1>1
  <2>4. RowsNode(k, n)'
    BY <2>2, <2>3, RowsKept DEF Round1Types, Round3Types
  <2>5. PendingEpoch(k)' = PendingEpoch(k) /\ UNCHANGED inProgress /\ Pooled(n)' = {}
    BY <1>5 DEF PendingEpoch, ChainStep
  <2>6. ~HasRow(n, k, PendingEpoch(k))' /\ ~HasPending(n, k, PendingEpoch(k))'
    BY <1>5, <2>5 DEF HasRow, HasPending
  <2>7. reg'[k].r1[n] = Null /\ n \notin reg'[k].r3
    BY DEF NoContributions
  <2>8. \A j \in Ahead(n, k)' : j < q => log'[j].type \in Round3Types \cup {"SecretGenFinalize"}
    BY <1>1, <2>2
  <2>9. RunNode(k, q, n)'
    BY <2>5, <2>6, <2>7, <2>8 DEF RunNode
  <2> QED
    BY <2>4, <2>9
<1>7. RunLog(k, q)'
  <2>1. \A j \in Of(k)' : ~(j > q)
    BY <1>1
  <2> QED
    BY <1>1, <1>2, <2>1 DEF RunLog
<1>8. RunInv(k)'
  <2>1. q \in Of(k)'
    BY <1>1
  <2> QED
    BY <1>6, <1>7, <2>1 DEF RunInv
<1>9. RestInv(k)'
  BY <1>6 DEF RestInv, Running
<1> QED
  BY <1>3, <1>4, <1>8, <1>9 DEF KeyInv

(* The producers of a reshare deal shares of one sharing, of the published  *)
(* key: so is what they deal.                                               *)
LEMMA ReshareKeepsSecret ==
    ASSUME BaseInv, NEW k \in Key, KeyInv(k), reg[k].round = "three", IsReshare(k)
    PROVE  RunSecret(k) = reg[k].pk
<1>1. /\ RegistryInv /\ reg[k] \in KeyState /\ reg[k].epoch \in Epoch /\ reg[k].epoch <= reg[k].epoch
  BY Types
<1>2. PICK v \in Share : v.secret = reg[k].pk /\ \A n \in Node : OneValue(n, k, reg[k].epoch, v)
  BY <1>1 DEF KeyInv, SharingInv
<1>3. PICK i \in Of(k) : \A n \in Node : RunNode(k, i, n)
  BY DEF KeyInv, RunInv, Running
<1>4. /\ \A p \in reg[k].producers : reg[k].r1[p].poly
      /\ Cardinality(reg[k].producers) >= Threshold /\ reg[k].producers \subseteq Node
  BY <1>1 DEF KeyInv, ProducersInv, KeyState
<1>5. reg[k].producers # {}
  BY <1>4, FS_EmptySet, RegistryAssumption
<1>6. ASSUME NEW p \in reg[k].producers PROVE reg[k].r1[p].old = v
  <2>1. p \in Node /\ reg[k].r1[p] # Null
    BY <1>1, <1>4 DEF RegistryInv
  <2>2. /\ HasRow(p, k, PendingEpoch(k))
        /\ inProgress[p][k][PendingEpoch(k)].im = reg[k].r1[p]
    BY <1>3, <2>1 DEF RunNode
  <2>3. Held(p, k) = reg[k].epoch /\ reg[k].r1[p].old = shares[p][k].share
    BY <1>3, <1>4, <2>1, <2>2 DEF RunNode
  <2> QED
    BY <1>2, <2>1, <2>3 DEF OneValue
<1> DEFINE olds == {reg[k].r1[p].old : p \in reg[k].producers}
<1>7. olds = {v} /\ v # Null
  BY <1>2, <1>5, <1>6, NullAssumption
<1>8. (CHOOSE s \in olds : olds = {s}) = v /\ (\E s \in olds : olds = {s} /\ s # Null)
  BY <1>7
<1> QED
  BY <1>2, <1>8 DEF RunSecret

(* The last contribution of the third round: every node has its share of    *)
(* the new epoch pending.                                                   *)
LEMMA FinalStep ==
    ASSUME BaseInv, NEW k \in Key, KeyInv(k), ChainStep(k), reg[k].round = "three",
           reg'[k].round = "idle", reg'[k].epoch = PendingEpoch(k),
           reg'[k].pk = IF IsReshare(k) THEN reg[k].pk ELSE RunSecret(k),
           \A m \in Node : \/ m \in reg[k].r3
                           \/ \E t \in Pooled(m) : t.key = k /\ t.fn = "r3",
           NEW ev \in Event, Extends(ev), ev.key = k, ev.epoch = PendingEpoch(k),
           ev.type = "SecretGenFinalize"
    PROVE  KeyInv(k)'
<1>0. PICK q \in Nat : q = Len(log) + 1
  BY Types
<1>1. /\ Of(k)' = Of(k) \cup {q} /\ log'[q] = ev
      /\ \A j \in Of(k) : log'[j] = log[j] /\ j < q
      /\ Of(k) \subseteq Nat
  BY <1>0, LogGrows DEF ChainStep
<1>2. PICK e \in Epoch : e = PendingEpoch(k)
  BY Types DEF Running
<1>3. /\ reg[k].epoch \in Int /\ reg[k].epoch >= -1 /\ e = reg[k].epoch + 1 /\ reg'[k].epoch = e
      /\ PendingEpoch(k)' = e + 1 /\ ~Running(k)' /\ RegistryInv /\ Running(k)
      /\ IsReshare(k) <=> reg[k].epoch >= 0
  BY <1>2, Types DEF PendingEpoch, Running
<1>4. UNCHANGED <<shares, inProgress, cursor, lost>>
  BY DEF ChainStep
<1>5. PICK i \in Of(k) : \A n \in Node : RunNode(k, i, n)
  BY <1>3 DEF KeyInv, RunInv
<1>6. ASSUME NEW n \in Node
      PROVE  /\ HasPending(n, k, e) /\ inProgress[n][k][e].pending = RunShare(k)
             /\ \A j \in Ahead(n, k) : log[j].type \in Round3Types
  <2>1. HasPending(n, k, e)
    BY <1>2, <1>5 DEF RunNode
  <2> QED
    BY <1>2, <1>5, <2>1 DEF RunNode
<1>7. ASSUME NEW n \in Node
      PROVE  /\ Ahead(n, k)' = Ahead(n, k) \cup {q} /\ Ahead(n, k) \subseteq Of(k)
             /\ cursor[n] \in Nat /\ cursor[n] < q
  BY <1>0, <1>4, LogGrows DEF Ahead
<1>8. ASSUME NEW n \in Node
      PROVE  /\ \A j \in Ahead(n, k)' : j < q => log'[j].type \in Round3Types
             /\ \A j \in Ahead(n, k)' : log'[j].type \in Round3Types \cup {"SecretGenFinalize"}
  BY <1>1, <1>6, <1>7
<1>9. FinalLog(k, q)'
  BY <1>1, <1>2, <1>3 DEF FinalLog
<1>10. ASSUME NEW n \in Node PROVE FinalNode(k, q, n)'
  <2>1. inProgress'[n][k][reg'[k].epoch] # Null /\ inProgress'[n][k][reg'[k].epoch].pending # Null
    BY <1>3, <1>4, <1>6 DEF HasPending, HasRow
  <2>2. cursor'[n] < q
    BY <1>4, <1>7
  <2> QED
    BY <1>8, <2>1, <2>2 DEF FinalNode, HasPending, HasRow
<1>11. FinalInv(k)'
  <2>1. q \in Of(k)' /\ reg'[k].epoch # -1
    BY <1>1, <1>3
  <2> QED
    BY <1>9, <1>10, <2>1 DEF FinalInv
<1>12. ASSUME NEW n \in Node PROVE RowsNode(k, n)' /\ IdleNode(k, n)'
  <2>1. RowsNode(k, n) /\ shares[n][k] \in ShareRow(Share, Deal) \cup {Null}
    BY Types DEF KeyInv, RestInv
  <2>2. \A d \in Epoch : inProgress[n][k][d] # Null => d <= e
    BY <1>2, <2>1 DEF RowsNode, HasRow
  <2>3. shares[n][k] # Null =>
          /\ DeletedShareNull(shares[n][k])
          /\ ~shares[n][k].deleted
          /\ shares[n][k].epoch <= e
          /\ shares[n][k].pk = reg'[k].pk
    <3>1. SUFFICES ASSUME shares[n][k] # Null
                   PROVE  /\ DeletedShareNull(shares[n][k])
                          /\ ~shares[n][k].deleted
                          /\ shares[n][k].epoch <= e
                          /\ shares[n][k].pk = reg'[k].pk
      OBVIOUS
    <3>2. shares[n][k].epoch \in Nat
      BY <2>1, <3>1 DEF ShareRow, Epoch
    <3>3. /\ DeletedShareNull(shares[n][k]) /\ ~shares[n][k].deleted
          /\ shares[n][k].epoch <= reg[k].epoch /\ shares[n][k].pk = reg[k].pk
      BY <2>1, <3>1 DEF RowsNode
    <3>4. IsReshare(k)
      BY <1>3, <3>2, <3>3
    <3> QED
      BY <1>3, <3>2, <3>3, <3>4
  <2>4. \A d \in Epoch : inProgress[n][k][d] # Null => d <= PendingEpoch(k)'
    BY <1>3, <2>2 DEF Epoch
  <2>5. RowsNode(k, n)'
    BY <1>3, <1>4, <1>8, <2>3, <2>4 DEF RowsNode, DeletedShareNull, HasRow, Round1Types, Round3Types
  <2>6. PendingEpoch(k)' \in Epoch => inProgress[n][k][PendingEpoch(k)'] = Null
    BY <1>3, <2>2
  <2>7. IdleNode(k, n)'
    BY <1>4, <1>8, <2>6 DEF IdleNode, HasRow
  <2> QED
    BY <2>5, <2>7
<1>13. SharingInv(k)'
  <2>1. PICK w \in Share : w = RunShare(k) /\ w.secret = reg'[k].pk
    BY <1>3, RunShareType, ReshareKeepsSecret
  <2>2. ASSUME NEW n \in Node PROVE OneValue(n, k, e, w)'
    <3>1. RowsNode(k, n) /\ shares[n][k] \in ShareRow(Share, Deal) \cup {Null}
      BY Types DEF KeyInv, RestInv
    <3>2. shares[n][k] # Null => shares[n][k].epoch # e
      BY <1>3, <3>1 DEF RowsNode
    <3>3. Held(n, k)' # e
      BY <1>3, <1>4, <3>2 DEF Held
    <3>4. inProgress'[n][k][e].pending = w
      BY <1>4, <1>6, <2>1
    <3> QED
      BY <3>3, <3>4 DEF OneValue
  <2>3. ASSUME NEW d \in Epoch, d <= reg'[k].epoch
        PROVE  \E v \in Share : v.secret = reg'[k].pk /\ \A n \in Node : OneValue(n, k, d, v)'
    <3>1. CASE d = e
      BY <2>1, <2>2, <3>1
    <3>2. CASE d # e
      <4>1. d <= reg[k].epoch /\ IsReshare(k)
        BY <1>3, <2>3, <3>2 DEF Epoch
      <4>2. \A n \in Node : \A v : OneValue(n, k, d, v) => OneValue(n, k, d, v)'
        BY <1>4 DEF OneValue, Held, HasPending, HasRow
      <4> QED
        BY <4>1, <4>2 DEF KeyInv, SharingInv
    <3> QED
      BY <3>1, <3>2
  <2> QED
    BY <2>3 DEF SharingInv
<1>14. RunInv(k)' /\ ProducersInv(k)' /\ RestInv(k)'
  BY <1>3, <1>12 DEF RunInv, ProducersInv, RestInv
<1> QED
  BY <1>11, <1>13, <1>14 DEF KeyInv

(* The oldest transaction leaves the pool. *)
LEMMA PoolShrinks ==
    ASSUME BaseInv, NEW n \in Node, Mine(n)
    PROVE  /\ Head(pool[n]) \in Submission /\ Head(pool[n]) \in Pooled(n)
           /\ Head(pool[n]).key \in Key /\ Head(pool[n]).im \in Intermediate \cup {Null}
           /\ \A m \in Node : Pooled(m)' \subseteq Pooled(m)
<1>1. pool \in [Node -> Seq(Submission)] /\ pool[n] \in Seq(Submission) /\ pool[n] # << >>
      /\ pool' = [pool EXCEPT ![n] = Tail(pool[n])]
  BY DEF Mine, BaseInv, TypeInv, TypeOK
<1>2. Head(pool[n]) \in Submission /\ Len(pool[n]) \in Nat \ {0}
  BY <1>1
<1>3. /\ Len(Tail(pool[n])) = Len(pool[n]) - 1
      /\ \A x \in 1 .. Len(pool[n]) - 1 : Tail(pool[n])[x] = pool[n][x + 1]
      /\ Head(pool[n]) = pool[n][1]
  BY <1>1, <1>2
<1>4. Head(pool[n]) \in Pooled(n)
  BY <1>2, <1>3 DEF Pooled
<1>5. ASSUME NEW m \in Node PROVE Pooled(m)' \subseteq Pooled(m)
  <2>1. CASE m = n
    <3>1. pool'[n] = Tail(pool[n])
      BY <1>1
    <3> QED
      BY <1>2, <1>3, <2>1, <3>1 DEF Pooled
  <2>2. CASE m # n
    BY <1>1, <2>2 DEF Pooled
  <2> QED
    BY <2>1, <2>2
<1> QED
  BY <1>2, <1>4, <1>5 DEF Submission

(* A mined transaction keeps the invariant of every key. *)
LEMMA MineStep ==
    ASSUME Inv, NEW n \in Node, Mine(n)
    PROVE  \A k \in Key : KeyInv(k)'
<1>1. /\ BaseInv /\ RegistryInv
      /\ \A k \in Key : KeyInv(k)
  BY DEF Inv, BaseInv, TypeInv
<1>2. PICK s \in Submission : s = Head(pool[n]) /\ s \in Pooled(n)
  BY <1>1, PoolShrinks
<1>3. PICK k \in Key : k = s.key
  BY <1>1, <1>2, PoolShrinks
<1>4. /\ ExecuteSubmission(n, s) /\ UNCHANGED <<shares, inProgress, cursor, lost>>
      /\ \A m \in Node : Pooled(m)' \subseteq Pooled(m)
      /\ s.im \in Intermediate \cup {Null}
  BY <1>1, <1>2, PoolShrinks DEF Mine, dbVars, envVars
<1>5. CASE UNCHANGED <<reg, log>>
  <2>1. ASSUME NEW j \in Key PROVE KeyInv(j)'
    <3>1. ChainSame(j) /\ lost' = lost
      BY <1>4, <1>5 DEF ChainSame, LogSame, Of
    <3>2. \A m \in Node : NodeSame(m, j) /\ NoMorePooled(m, j)
      BY <1>4 DEF NodeSame, RowsSame, NoMorePooled
    <3> QED
      BY <1>1, <3>1, <3>2, KeyFrame
  <2> QED
    BY <2>1
<1>6. CASE CallResult(n, s) = "Ok" /\ s.fn = "r1" /\ addRound1(n, k, s.im)
  <2>1. reg[k].round = "one"
    BY <1>3, <1>6 DEF CallResult, RoundOf
  <2>2. /\ OthersKept(k)
        /\ reg'[k].epoch = reg[k].epoch /\ reg'[k].pk = reg[k].pk /\ reg'[k].r3 = reg[k].r3
        /\ reg'[k].r1 = [reg[k].r1 EXCEPT ![n] = s.im]
        /\ reg'[k].producers = reg[k].producers \cup IF Produces(k, s.im) THEN {n} ELSE {}
        /\ \/ reg'[k].round = "one" /\ log' = log
           \/ /\ reg'[k].round = "stuck"
              /\ \E ev \in Event : Extends(ev) /\ ev.key = k /\ ev.type = "NotEnoughProducers"
           \/ /\ reg'[k].round = "two"
              /\ Cardinality(reg'[k].producers) >= Seats(k)
              /\ \E ev \in Event : Extends(ev) /\ ev.key = k /\ ev.type = "SecretGenRound2"
    BY <1>1, <1>4, <1>6, <2>1, Round1Effect
  <2>3. ChainStep(k)
    BY <1>4, <2>2 DEF ChainStep
  <2>4. ProducersInv(k)'
    <3>1. n \notin reg[k].producers
      BY <1>3, <1>6, <2>1 DEF CallResult, RoundOf, Round1Result
    <3>2. s.im # Null
      <4>1. PICK i \in Of(k) : RunNode(k, i, n)
        BY <1>1, <2>1 DEF KeyInv, RunInv, Running
      <4>2. HasRow(n, k, PendingEpoch(k)) /\ inProgress[n][k][PendingEpoch(k)].im = s.im
        BY <1>2, <1>3, <1>6, <4>1 DEF RunNode
      <4>3. inProgress[n][k] \in Table(Intermediate, Share) /\ PendingEpoch(k) \in Epoch
        BY <1>1, <2>1, Types DEF Running
      <4> QED
        BY <4>2, <4>3, NullAssumption DEF HasRow, Table, InProgressRow
    <3>3. reg[k].r1 \in [Node -> Intermediate \cup {Null}] /\ reg[k].producers \subseteq Node
      BY <1>1, KeyTypes DEF KeyState
    <3>4. reg'[k].r1[n] = s.im /\ \A m \in Node : m # n => reg'[k].r1[m] = reg[k].r1[m]
      BY <2>2, <3>3
    <3>5. IsReshare(k)' <=> IsReshare(k)
      BY <2>2 DEF IsReshare
    <3>6. ASSUME IsReshare(k), NEW p \in reg'[k].producers
          PROVE  reg'[k].r1[p] # Null /\ reg'[k].r1[p].poly
      <4>1. CASE p = n
        <5>1. s.im.poly
          BY <2>2, <3>1, <3>6, <4>1 DEF Produces
        <5> QED
          BY <3>2, <3>4, <4>1, <5>1
      <4>2. CASE p # n
        <5>1. p \in reg[k].producers /\ p \in Node
          BY <2>2, <3>3, <3>6, <4>2
        <5>2. reg[k].r1[p] # Null /\ reg[k].r1[p].poly
          BY <1>1, <2>1, <3>6, <5>1 DEF KeyInv, ProducersInv
        <5> QED
          BY <3>4, <4>2, <5>1, <5>2
      <4> QED
        BY <4>1, <4>2
    <3>7. reg'[k].round = "two" => Cardinality(reg'[k].producers) >= Threshold
      <4>1. Cardinality(reg'[k].producers) \in Nat /\ Cardinality(Node) \in Nat
        BY <1>1, <2>2, <3>3, FS_Subset, FS_CardinalityType, RegistryAssumption
      <4> QED
        BY <2>2, <4>1, RegistryAssumption DEF Seats
    <3> QED
      BY <2>2, <3>5, <3>6, <3>7 DEF ProducersInv
  <2>5. \A m \in Node : \/ reg'[k].r1[m] = reg[k].r1[m]
                        \/ \E t \in Pooled(m) : t.key = k /\ t.fn = "r1" /\ t.im = reg'[k].r1[m]
    <3>1. reg[k].r1 \in [Node -> Intermediate \cup {Null}]
      BY <1>1, KeyTypes DEF KeyState
    <3>2. reg'[k].r1[n] = s.im /\ \A m \in Node : m # n => reg'[k].r1[m] = reg[k].r1[m]
      BY <2>2, <3>1
    <3>3. \E t \in Pooled(n) : t.key = k /\ t.fn = "r1" /\ t.im = reg'[k].r1[n]
      BY <1>2, <1>3, <1>6, <3>2
    <3> QED
      BY <3>2, <3>3
  <2>6. \A i \in Of(k) : RunLog(k, i) => RunLog(k, i)'
    BY <1>1, <1>2, <1>3, <1>4, <1>6, RunLogKept
  <2>7. log' # log => log'[Len(log) + 1].type \notin Round1Types \cup {"SecretGenFinalize"}
    BY <1>1, <1>4, <2>2, LogGrows DEF Round1Types
  <2>8. Running(k) /\ Running(k)'
    BY <2>1, <2>2 DEF Running
  <2>9. KeyInv(k)'
    BY <1>1, <2>1, <2>2, <2>3, <2>4, <2>5, <2>6, <2>7, <2>8, RunGoesOn
  <2> QED
    BY <1>1, <2>3, <2>9, OtherKeys
<1>7. CASE CallResult(n, s) = "Ok" /\ s.fn = "r2" /\ addRound2(n, k)
  <2>1. reg[k].round = "two"
    BY <1>3, <1>7 DEF CallResult, RoundOf
  <2>2. /\ OthersKept(k)
        /\ reg'[k].epoch = reg[k].epoch /\ reg'[k].pk = reg[k].pk /\ reg'[k].r3 = reg[k].r3
        /\ reg'[k].r1 = reg[k].r1 /\ reg'[k].producers = reg[k].producers
        /\ \/ reg'[k].round = "two" /\ log' = log
           \/ /\ reg'[k].round = "three"
              /\ \E ev \in Event :
                    /\ Extends(ev) /\ ev.key = k /\ ev.epoch = PendingEpoch(k)
                    /\ ev.type \in Round3Types
                    /\ ev.type = "ReshareRound3" => ev.lagrange = reg[k].producers
    BY <1>1, <1>4, <1>7, <2>1, Round2Effect DEF Round3Types
  <2>3. ChainStep(k)
    BY <1>4, <2>2 DEF ChainStep
  <2>4. ProducersInv(k)'
    BY <1>1, <2>1, <2>2 DEF KeyInv, ProducersInv, IsReshare
  <2>6. \A i \in Of(k) : RunLog(k, i) => RunLog(k, i)'
    BY <1>1, <1>2, <1>3, <1>4, <1>7, RunLogKept
  <2>7. log' # log => log'[Len(log) + 1].type \notin Round1Types \cup {"SecretGenFinalize"}
    BY <1>1, <1>4, <2>2, LogGrows DEF Round1Types, Round3Types
  <2>8. Running(k) /\ Running(k)'
    BY <2>1, <2>2 DEF Running
  <2>9. KeyInv(k)'
    BY <1>1, <2>1, <2>2, <2>3, <2>4, <2>6, <2>7, <2>8, RunGoesOn
  <2> QED
    BY <1>1, <2>3, <2>9, OtherKeys
<1>8. CASE CallResult(n, s) = "Ok" /\ s.fn = "r3" /\ addRound3(n, k)
  <2>1. reg[k].round = "three"
    BY <1>3, <1>8 DEF CallResult, RoundOf
  <2>2. /\ OthersKept(k)
        /\ \/ /\ reg'[k].round = "three" /\ log' = log
              /\ reg'[k].epoch = reg[k].epoch /\ reg'[k].pk = reg[k].pk
              /\ reg'[k].r1 = reg[k].r1 /\ reg'[k].producers = reg[k].producers
              /\ reg'[k].r3 = reg[k].r3 \cup {n}
           \/ /\ reg'[k].round = "idle" /\ reg[k].r3 \cup {n} = Node
              /\ reg'[k].epoch = PendingEpoch(k)
              /\ reg'[k].pk = IF IsReshare(k) THEN reg[k].pk ELSE RunSecret(k)
              /\ \E ev \in Event : /\ Extends(ev) /\ ev.key = k /\ ev.epoch = PendingEpoch(k)
                                    /\ ev.type = "SecretGenFinalize"
    BY <1>1, <1>8, <2>1, Round3Effect
  <2>3. ChainStep(k)
    BY <1>4, <2>2 DEF ChainStep
  <2>4. \A m \in reg[k].r3 \cup {n} : \/ m \in reg[k].r3
                                       \/ \E t \in Pooled(m) : t.key = k /\ t.fn = "r3"
    BY <1>2, <1>3, <1>8
  <2>5. CASE reg'[k].round = "three"
    <3>1. /\ log' = log /\ reg'[k].epoch = reg[k].epoch /\ reg'[k].pk = reg[k].pk
          /\ reg'[k].r1 = reg[k].r1 /\ reg'[k].producers = reg[k].producers
          /\ reg'[k].r3 = reg[k].r3 \cup {n}
      BY <2>2, <2>5
    <3>2. /\ RunShare(k)' = RunShare(k) /\ PendingEpoch(k)' = PendingEpoch(k)
          /\ IsReshare(k)' <=> IsReshare(k)
      BY <3>1 DEF RunShare, RunDeal, RunSecret, IsReshare, PendingEpoch
    <3>3. ProducersInv(k)'
      BY <1>1, <2>1, <2>5, <3>1, <3>2 DEF KeyInv, ProducersInv
    <3>4. \A i \in Of(k) : RunLog(k, i) => RunLog(k, i)'
      BY <1>1, <1>2, <1>3, <1>4, <1>8, <2>5, RunLogKept
    <3>5. Running(k) /\ Running(k)'
      BY <2>1, <2>5 DEF Running
    <3> QED
      BY <1>1, <2>2, <2>3, <2>4, <2>5, <3>1, <3>2, <3>3, <3>4, <3>5, RunGoesOn, OtherKeys
  <2>6. CASE reg'[k].round = "idle"
    <3>1. PICK ev \in Event : /\ Extends(ev) /\ ev.key = k /\ ev.epoch = PendingEpoch(k)
                              /\ ev.type = "SecretGenFinalize"
      BY <2>2, <2>6
    <3>2. /\ reg[k].r3 \cup {n} = Node /\ reg'[k].epoch = PendingEpoch(k)
          /\ reg'[k].pk = IF IsReshare(k) THEN reg[k].pk ELSE RunSecret(k)
      BY <2>2, <2>6
    <3>3. KeyInv(k)'
      BY <1>1, <2>1, <2>3, <2>4, <2>6, <3>1, <3>2, FinalStep
    <3> QED
      BY <1>1, <2>3, <3>3, OtherKeys
  <2> QED
    BY <2>2, <2>5, <2>6
<1> QED
  BY <1>3, <1>4, <1>5, <1>6, <1>7, <1>8 DEF ExecuteSubmission

(* A call of the administrator keeps the invariant of every key. *)
LEMMA AdminStep ==
    ASSUME ReinitWaits, Inv, NEW k \in Key, Admin(k)
    PROVE  \A j \in Key : KeyInv(j)'
<1>1. /\ BaseInv /\ RegistryInv
      /\ \A j \in Key : KeyInv(j)
  BY DEF Inv, BaseInv, TypeInv
<1>2. /\ UNCHANGED <<shares, inProgress, cursor, lost>>
      /\ \A m \in Node : Pooled(m)' \subseteq Pooled(m)
  BY DEF Admin, dbVars, Pooled
<1>3. CASE AbortHandled(k) /\ (initKeyGen(k) \/ initReshare(k))
  <2>1. /\ OthersKept(k)
        /\ reg[k].round \in {"none", "idle"} /\ reg'[k].round = "one"
        /\ reg'[k].epoch = reg[k].epoch /\ reg'[k].pk = reg[k].pk
        /\ reg'[k].r1 = NoContributions /\ reg'[k].producers = {} /\ reg'[k].r3 = {}
        /\ PendingEpoch(k) \in Epoch
    BY <1>1, <1>3, InitEffect
  <2>2. PICK ev \in Event :
          /\ Extends(ev) /\ ev.key = k /\ ev.epoch = PendingEpoch(k)
          /\ ev.type = IF IsReshare(k) THEN "ReshareRound1" ELSE "SecretGenRound1"
    BY <1>1, <1>3, InitEffect
  <2>3. ChainStep(k)
    BY <1>2, <2>1, <2>2 DEF ChainStep
  <2>4. KeyInv(k)'
    BY <1>1, <1>3, <2>1, <2>2, <2>3, InitStep
  <2> QED
    BY <1>1, <2>3, <2>4, OtherKeys
<1>4. CASE abortKeyGen(k) \/ deleteOprfPublicKey(k)
  <2>1. /\ OthersKept(k)
        /\ reg[k].round \notin {"none", "deleted"}
        /\ reg'[k].round \in {"none", "idle", "deleted"}
        /\ reg'[k].epoch = reg[k].epoch /\ reg'[k].pk = reg[k].pk
    BY <1>1, <1>4, EndEffect
  <2>2. PICK ev \in Event : Extends(ev) /\ ev.key = k /\ ev.type \in EndTypes
    BY <1>1, <1>4, EndEffect DEF EndTypes
  <2>3. ChainStep(k)
    BY <1>2, <2>1, <2>2 DEF ChainStep
  <2>4. ~Running(k)'
    BY <2>1 DEF Running
  <2>5. KeyInv(k)'
    BY <1>1, <2>1, <2>2, <2>3, <2>4, EndStep
  <2> QED
    BY <1>1, <2>3, <2>5, OtherKeys
<1> QED
  BY <1>3, <1>4 DEF Admin

-----------------------------------------------------------------------------
(* What a watcher has on disk between the steps of a handler. *)

(* Another node's step, or a step of the chain. *)
LEMMA LocalFrame ==
    ASSUME BaseInv, NEW n \in Node, LocalInv(n),
           pc'[n] = pc[n], pos'[n] = pos[n], tx'[n] = tx[n],
           \A j \in 1 .. Len(log) : log'[j] = log[j],
           \A k \in Key : RowsSame(n, k), lost \subseteq lost',
           \A k \in Key : /\ reg[k].round = "deleted" => reg'[k].round = "deleted"
                          /\ \/ reg'[k].epoch = reg[k].epoch
                             \/ ~(pc[n] = "done" /\ Ev(n).type = "SecretGenFinalize" /\ Ev(n).key = k)
    PROVE  LocalInv(n)'
<1>1. CASE ~Busy(n)
  BY <1>1 DEF LocalInv, Busy
<1>2. CASE Busy(n)
  <2>1. /\ Ev(n).key \in Key /\ Ev(n)' = Ev(n)
    BY <1>2, EvType DEF BaseInv, TypeInv, Ev
  <2>2. PICK k \in Key : k = Ev(n).key
    BY <2>1
  <2>3. /\ Held(n, k)' = Held(n, k) /\ inProgress'[n][k] = inProgress[n][k]
        /\ \A e : HasRow(n, k, e)' <=> HasRow(n, k, e)
        /\ \A e : HasPending(n, k, e)' <=> HasPending(n, k, e)
    BY RowsFrame DEF RowsSame
  <2>4. reg'[k].epoch = reg[k].epoch => (Lost(n, k) => Lost(n, k)')
    BY LostFrame
  <2>5. /\ Ev(n)'.key = k /\ Ev(n)'.type = Ev(n).type /\ Ev(n)'.epoch = Ev(n).epoch
    BY <2>1, <2>2
  <2>6. ASSUME pc[n] = "submit"
        PROVE  /\ tx'[n].key = k
               /\ tx'[n].fn = "r1" => /\ Ev(n).type \in Round1Types
                                      /\ inProgress'[n][k][Ev(n).epoch] # Null
                                      /\ inProgress'[n][k][Ev(n).epoch].im = tx'[n].im
               /\ tx'[n].fn = "r3" => /\ Ev(n).type \in Round3Types
                                      /\ inProgress'[n][k][Ev(n).epoch] # Null
                                      /\ inProgress'[n][k][Ev(n).epoch].pending # Null
    BY <2>2, <2>3, <2>6 DEF LocalInv, HasRow, HasPending
  <2>7. ASSUME pc[n] = "done"
        PROVE  /\ Ev(n).type \in EndTypes => inProgress'[n][k] = NoIntermediates
               /\ Ev(n).type = "SecretGenFinalize" =>
                     \/ reg'[k].round = "deleted" \/ Lost(n, k)'
                     \/ Held(n, k)' = Ev(n).epoch
    BY <2>2, <2>3, <2>4, <2>7 DEF LocalInv
  <2>8. pc[n] \in {"submit", "sent"} =>
          Ev(n).type \in Round1Types \cup {"SecretGenRound2"} \cup Round3Types
    BY DEF LocalInv
  <2>10. pc'[n] = "done" => /\ Ev(n)'.type \in EndTypes => inProgress'[n][Ev(n)'.key] = NoIntermediates
                            /\ Ev(n)'.type = "SecretGenFinalize" =>
                                 \/ reg'[Ev(n)'.key].round = "deleted" \/ Lost(n, Ev(n).key)'
                                 \/ Held(n, Ev(n).key)' = Ev(n)'.epoch
    BY <2>2, <2>5, <2>7 DEF Lost, Held
  <2> QED
    BY <2>1, <2>2, <2>5, <2>6, <2>8, <2>10 DEF LocalInv, HasRow, HasPending
<1> QED
  BY <1>1, <1>2

(* A handler that is over, or not begun, or has something to submit. *)
LEMMA LocalSet ==
    ASSUME BaseInv, NEW n \in Node, pc[n] \in {"handle", "submit", "sent"},
           pos' = pos, log' = log, NEW k \in Key, k = Ev(n).key,
           \/ pc'[n] \in {"down", "watch", "handle"}
           \/ /\ pc'[n] \in {"done", "sent"}
              /\ Ev(n).type \in Round1Types \cup {"SecretGenRound2"} \cup Round3Types
           \/ pc'[n] = "done" /\ Ev(n).type = "NotEnoughProducers"
           \/ /\ pc'[n] = "done" /\ Ev(n).type \in EndTypes
              /\ inProgress'[n][k] = NoIntermediates
           \/ /\ pc'[n] = "done" /\ Ev(n).type = "SecretGenFinalize"
              /\ reg'[k].round = "deleted" \/ Lost(n, k)' \/ Held(n, k)' = Ev(n).epoch
           \/ pc'[n] = "submit" /\ tx'[n].key = k /\ tx'[n].fn = "r2"
                /\ Ev(n).type = "SecretGenRound2"
           \/ /\ pc'[n] = "submit" /\ tx'[n].key = k /\ tx'[n].fn = "r1"
              /\ Ev(n).type \in Round1Types
              /\ inProgress'[n][k][Ev(n).epoch] # Null
              /\ inProgress'[n][k][Ev(n).epoch].im = tx'[n].im
           \/ /\ pc'[n] = "submit" /\ tx'[n].key = k /\ tx'[n].fn = "r3"
              /\ Ev(n).type \in Round3Types
              /\ inProgress'[n][k][Ev(n).epoch] # Null
              /\ inProgress'[n][k][Ev(n).epoch].pending # Null
    PROVE  LocalInv(n)'
<1>1. Ev(n)' = Ev(n)
  BY DEF Ev
<1>2. Ev(n)'.key = k /\ Ev(n)'.type = Ev(n).type /\ Ev(n)'.epoch = Ev(n).epoch
  BY <1>1
<1> QED
  BY <1>2 DEF LocalInv, HasRow, HasPending, Lost, Held, Round1Types, Round3Types, EndTypes

(* A handler of the first round. *)
LEMMA Round1Handlers ==
    ASSUME Inv, NEW n \in Node, keygen_round1(n) \/ reshare_round1(n)
    PROVE  (\A k \in Key : KeyInv(k)') /\ LocalInv(n)'
<1>0. pc[n] = "handle" /\ Ev(n).type \in Round1Types
  BY DEF keygen_round1, reshare_round1, Handling, Round1Types
<1>1. PICK k \in Key, e \in Epoch : k = Ev(n).key /\ e = Ev(n).epoch
  BY <1>0, Handled DEF Inv, Busy
<1>2. /\ BaseInv /\ RowsNode(k, n) /\ pos[n] \in Ahead(n, k) /\ Ev(n) = log[pos[n]]
  BY <1>0, <1>1, NodeFacts, Handled DEF Busy
<1>3. /\ e = PendingEpoch(k)
      /\ Ev(n).type = "ReshareRound1" <=> IsReshare(k)
  BY <1>0, <1>1, <1>2 DEF RowsNode
<1>4. /\ reg[k].epoch \in Int /\ reg[k].epoch >= -1 /\ e = reg[k].epoch + 1
      /\ IsReshare(k) <=> reg[k].epoch >= 0
      /\ shares[n][k] \in ShareRow(Share, Deal) \cup {Null}
  BY <1>2, <1>3, Types
<1>5. serial[n] + 1 \in Nat
  BY <1>2 DEF BaseInv, TypeInv, TypeOK
<1>6. PICK im \in Intermediate :
        /\ Round1With(n, k, e, im)
        /\ IsReshare(k) /\ im.poly => Held(n, k) = reg[k].epoch /\ im.old = shares[n][k].share
  <2>1. CASE keygen_round1(n)
    <3> DEFINE im == [id |-> serial[n] + 1, poly |-> TRUE, old |-> Null]
    <3>1. ~IsReshare(k)
      BY <1>3, <2>1 DEF keygen_round1, Handling
    <3>2. e = 0
      BY <1>4, <3>1
    <3>3. im \in Intermediate
      BY <1>5 DEF Intermediate
    <3>4. Round1With(n, k, e, im)
      BY <1>1, <2>1, <3>2 DEF keygen_round1
    <3> QED
      BY <3>1, <3>3, <3>4
  <2>2. CASE reshare_round1(n)
    <3> DEFINE old == GetShareByEpoch(shares[n][k], Prev(e))
               im == [id |-> serial[n] + 1, poly |-> old # Null, old |-> old]
    <3>1. IsReshare(k)
      BY <1>3, <2>2 DEF reshare_round1, Handling
    <3>2. Prev(e) = reg[k].epoch /\ Prev(e) \in Epoch
      BY <1>2, <1>4, <3>1, Types DEF Prev
    <3>3. old \in Share \cup {Null}
      BY <1>4, <3>2, GetShareByEpochType
    <3>4. im \in Intermediate
      BY <1>5, <3>3 DEF Intermediate
    <3>5. Round1With(n, k, e, im)
      BY <1>1, <2>2 DEF reshare_round1, ReshareIntermediates
    <3>6. old # Null => Held(n, k) = reg[k].epoch /\ old = shares[n][k].share
      BY <3>2 DEF GetShareByEpoch, Held
    <3>7. im.poly <=> old # Null
      OBVIOUS
    <3>8. im.old = old
      OBVIOUS
    <3> HIDE DEF im
    <3> QED
      BY <3>4, <3>5, <3>6, <3>7, <3>8
  <2> QED
    BY <2>1, <2>2
<1>7. (\A j \in Key : KeyInv(j)') /\ HasRow(n, k, e)'
  BY <1>0, <1>1, <1>3, <1>6, Round1Rows
<1>8. /\ pc'[n] = "submit" /\ tx'[n].key = k /\ tx'[n].fn = "r1"
      /\ tx'[n].im = inProgress'[n][k][e].im /\ pos' = pos /\ log' = log
  <2>1. DOMAIN pc = Node /\ DOMAIN tx = Node
    BY <1>2 DEF BaseInv, TypeInv, TypeOK
  <2> QED
    BY <1>6, <2>1 DEF Round1With, ToSubmit, Goto, chainVars
<1>9. LocalInv(n)'
  BY <1>0, <1>1, <1>2, <1>7, <1>8, LocalSet DEF HasRow
<1> QED
  BY <1>7, <1>9

(* Where EndHandler leaves the watcher. *)
LEMMA EndHandlerPc ==
    ASSUME BaseInv, NEW n \in Node, NEW result, EndHandler(n, result)
    PROVE  /\ pc'[n] = IF result \in {"Ok"} \cup SoftErrors THEN "done" ELSE "down"
           /\ pc'[n] \in {"done", "down"}
BY DEF BaseInv, TypeInv, TypeOK, EndHandler, Goto, HandleSoftErrors

(* The handlers that write nothing. *)
LEMMA Round2Handlers ==
    ASSUME Inv, NEW n \in Node, round2(n) \/ not_enough_producers(n)
    PROVE  (\A k \in Key : KeyInv(k)') /\ LocalInv(n)'
<1>1. /\ pc[n] = "handle" /\ Ev(n).type \in {"SecretGenRound2", "NotEnoughProducers"}
      /\ UNCHANGED <<reg, log, cursor, lost, pool, shares, inProgress, pos>>
      /\ round2(n) => Ev(n).type = "SecretGenRound2"
      /\ not_enough_producers(n) => Ev(n).type = "NotEnoughProducers"
  BY DEF round2, not_enough_producers, Handling, chainVars, dbVars, envVars
<1>2. BaseInv /\ \A k \in Key : KeyInv(k)
  BY DEF Inv
<1>3. PICK k \in Key : k = Ev(n).key
  BY <1>1, <1>2, Handled DEF Busy
<1>4. \/ pc'[n] \in {"done", "down"}
      \/ round2(n) /\ pc'[n] = "submit" /\ tx'[n].key = k /\ tx'[n].fn = "r2"
  <2>1. CASE not_enough_producers(n)
    BY <1>2, <2>1, EndHandlerPc DEF not_enough_producers
  <2>2. CASE round2(n)
    <3>1. DOMAIN pc = Node /\ DOMAIN tx = Node
      BY <1>2 DEF BaseInv, TypeInv, TypeOK
    <3>2. ASSUME NEW im, NEW pks, ToSubmit(n, "r2", k, im, pks)
          PROVE  pc'[n] = "submit" /\ tx'[n].key = k /\ tx'[n].fn = "r2"
      BY <3>1, <3>2 DEF ToSubmit, Goto
    <3>3. \/ \E im, pks : ToSubmit(n, "r2", k, im, pks)
          \/ \E result : EndHandler(n, result)
      BY <1>3, <2>2 DEF round2
    <3> QED
      BY <1>2, <2>2, <3>2, <3>3, EndHandlerPc
  <2> QED
    BY <2>1, <2>2
<1>5. LocalInv(n)'
  BY <1>1, <1>2, <1>3, <1>4, LocalSet DEF Round1Types, Round3Types
<1> QED
  BY <1>1, <1>2, <1>5, QuietStep

(* The handler of the third round. *)
LEMMA Round3Handler ==
    ASSUME Inv, NEW n \in Node, round3(n)
    PROVE  (\A k \in Key : KeyInv(k)') /\ LocalInv(n)'
<1>1. /\ pc[n] = "handle" /\ Ev(n).type \in Round3Types
      /\ UNCHANGED <<reg, log, cursor, lost, pool, shares, pos>>
  BY DEF round3, Handling, chainVars, envVars, Round3Types
<1>2. BaseInv /\ \A k \in Key : KeyInv(k)
  BY DEF Inv
<1>3. PICK k \in Key, e \in Epoch : k = Ev(n).key /\ e = Ev(n).epoch
  BY <1>1, <1>2, Handled DEF Busy
<1>4. CASE /\ FetchRound3Inputs(k) = "Ok" /\ SecretGenRound3(n, k, inProgress[n][k][e]) = "Ok"
           /\ inProgress' = [inProgress EXCEPT ![n][k] = StorePendingShare(@, e,
                 decrypt_key_gen_ciphertexts(n, k, inProgress[n][k][e].im, Ev(n)))]
           /\ ToSubmit(n, "r3", k, Null, Null)
  <2>1. (\A j \in Key : KeyInv(j)') /\ HasPending(n, k, e)'
    <3>1. UNCHANGED <<chainVars, shares, cursor, pool, envVars>>
      BY DEF round3
    <3> QED
      BY <1>1, <1>3, <1>4, <3>1, Round3Rows
  <2>2. pc'[n] = "submit" /\ tx'[n].key = k /\ tx'[n].fn = "r3"
    BY <1>2, <1>4 DEF ToSubmit, Goto, BaseInv, TypeInv, TypeOK
  <2>3. LocalInv(n)'
    BY <1>1, <1>2, <1>3, <2>1, <2>2, LocalSet DEF HasPending, HasRow
  <2> QED
    BY <2>1, <2>3
<1>5. CASE UNCHANGED inProgress /\ \E result : EndHandler(n, result)
  <2>1. pc'[n] \in {"done", "down"}
    BY <1>2, <1>5, EndHandlerPc
  <2>2. LocalInv(n)'
    BY <1>1, <1>2, <1>3, <2>1, LocalSet
  <2> QED
    BY <1>1, <1>2, <1>5, <2>2, QuietStep
<1> QED
  <2> DEFINE row == inProgress[n][k][e]
             fetched == FetchRound3Inputs(k)
             result == IF fetched = "Ok" THEN SecretGenRound3(n, k, row) ELSE fetched
  <2>1. \/ /\ result = "Ok"
           /\ inProgress' = [inProgress EXCEPT ![n][k] = StorePendingShare(@, e,
                 decrypt_key_gen_ciphertexts(n, k, inProgress[n][k][e].im, Ev(n)))]
           /\ ToSubmit(n, "r3", k, Null, Null)
        \/ EndHandler(n, result) /\ UNCHANGED inProgress
    BY <1>3 DEF round3
  <2>2. result = "Ok" => fetched = "Ok" /\ SecretGenRound3(n, k, row) = "Ok"
    OBVIOUS
  <2> HIDE DEF result
  <2> QED
    BY <1>4, <1>5, <2>1, <2>2

(* The handler of a finalisation: when nothing is confirmed, the node       *)
(* holds the share already, or the key is deleted, or its share is lost.    *)
LEMMA FinalizeHandler ==
    ASSUME Inv, NEW n \in Node, finalize(n)
    PROVE  (\A k \in Key : KeyInv(k)') /\ LocalInv(n)'
<1>1. /\ pc[n] = "handle" /\ Ev(n).type = "SecretGenFinalize"
      /\ UNCHANGED <<reg, log, cursor, lost, pool, pos>> /\ UNCHANGED <<chainVars, cursor, pool, envVars>>
  BY DEF finalize, Handling, chainVars, envVars
<1>2. BaseInv /\ \A k \in Key : KeyInv(k)
  BY DEF Inv
<1>3. PICK k \in Key, e \in Epoch : k = Ev(n).key /\ e = Ev(n).epoch
  BY <1>1, <1>2, Handled DEF Busy
<1>4. /\ e = reg[k].epoch /\ RowsNode(k, n)
      /\ \E f \in Of(k) : FinalNode(k, f, n)
  BY <1>1, <1>3, FinalizePlace, NodeFacts DEF Busy
<1> DEFINE row == shares[n][k]
           ip == inProgress[n][k]
           fetched == fetch_oprf_public_key(k)
           result == IF fetched = "Ok" THEN ConfirmOutcome(row, ip, e) ELSE fetched
<1>5. /\ IF result = "Ok"
         THEN /\ shares' = [shares EXCEPT ![n][k] = ConfirmRow(row, ip, e, reg[k].pk)]
              /\ inProgress' = [inProgress EXCEPT ![n][k] = DeleteIntermediates(@)]
         ELSE UNCHANGED <<shares, inProgress>>
      /\ EndHandler(n, IF result = "None" THEN "Ok" ELSE result)
  BY <1>3 DEF finalize
<1>6. CASE result = "Ok"
  <2>1. fetched = "Ok" /\ ConfirmOutcome(row, ip, e) = "Ok"
    BY <1>6
  <2>2. (\A j \in Key : KeyInv(j)') /\ Held(n, k)' = e
    BY <1>1, <1>3, <1>5, <1>6, <2>1, FinalizeRows
  <2>3. pc'[n] \in {"done", "down"}
    <3> HIDE DEF result
    <3> QED
      BY <1>2, <1>5, EndHandlerPc
  <2>4. LocalInv(n)'
    BY <1>1, <1>2, <1>3, <2>2, <2>3, LocalSet
  <2> QED
    BY <2>2, <2>4
<1>7. CASE result # "Ok"
  <2>1. \A j \in Key : KeyInv(j)'
    BY <1>1, <1>2, <1>5, <1>7, QuietStep
  <2>2. /\ Held(n, k)' = Held(n, k) /\ reg' = reg
        /\ Lost(n, k)' <=> Lost(n, k)
    BY <1>1, <1>5, <1>7 DEF Held, Lost
  <2>3. \/ pc'[n] = "down"
        \/ /\ pc'[n] = "done"
           /\ result \in {"None"} \cup SoftErrors
    <3> HIDE DEF result
    <3> QED
      BY <1>2, <1>5, <1>7, EndHandlerPc
  <2>4. result = "None" => reg[k].round = "deleted"
    <3>1. ConfirmOutcome(row, ip, e) # "None"
      BY DEF ConfirmOutcome
    <3> QED
      BY <3>1 DEF fetch_oprf_public_key, getOprfPublicKey
  <2>5. result \in SoftErrors =>
          \/ reg[k].round = "deleted" \/ Lost(n, k)
          \/ Held(n, k) = e
    <3> SUFFICES ASSUME result \in SoftErrors, reg[k].round # "deleted", ~Lost(n, k)
                 PROVE  Held(n, k) = e
      OBVIOUS
    <3>1. fetched \in {"Ok", "None", "UnknownId"}
      BY DEF fetch_oprf_public_key, getOprfPublicKey
    <3>2. /\ ConfirmOutcome(row, ip, e) \in {"MissingIntermediates", "RefusingToRollbackEpoch"}
      BY <3>1, <1>7 DEF SoftErrors, ConfirmOutcome
    <3>3. row \in ShareRow(Share, Deal) \cup {Null}
      BY <1>2, Types
    <3>4. CASE ConfirmOutcome(row, ip, e) = "MissingIntermediates"
      <4>1. FetchPendingShare(ip, e) = Null
        BY <3>4 DEF ConfirmOutcome
      <4>2. ~HasPending(n, k, e)
        BY <4>1 DEF HasPending, HasRow, FetchPendingShare
      <4> QED
        BY <1>4, <4>2 DEF FinalNode
    <3>5. CASE ConfirmOutcome(row, ip, e) = "RefusingToRollbackEpoch"
      <4>1. row # Null /\ ~(row.epoch < e)
        BY <3>5 DEF ConfirmOutcome, UpsertAffects
      <4>2. row.epoch <= e /\ ~row.deleted /\ row.epoch \in Int /\ e \in Int
        BY <1>4, <3>3, <4>1 DEF RowsNode, ShareRow, Epoch
      <4> QED
        BY <4>1, <4>2 DEF Held
    <3> QED
      BY <3>2, <3>4, <3>5
  <2> HIDE DEF result
  <2>6. LocalInv(n)'
    BY <1>1, <1>2, <1>3, <2>2, <2>3, <2>4, <2>5, LocalSet
  <2> QED
    BY <2>1, <2>6
<1> QED
  BY <1>6, <1>7

(* The handlers of an abort and of a deletion. *)
LEMMA EndHandlers ==
    ASSUME Inv, NEW n \in Node, delete(n) \/ abort(n)
    PROVE  (\A k \in Key : KeyInv(k)') /\ LocalInv(n)'
<1>1. /\ pc[n] = "handle" /\ Ev(n).type \in EndTypes /\ EndHandler(n, "Ok")
      /\ UNCHANGED <<log, pos>> /\ UNCHANGED <<chainVars, cursor, pool, envVars>>
  BY DEF delete, abort, Handling, chainVars, EndTypes
<1>2. BaseInv /\ pc'[n] = "done"
  BY <1>1, EndHandlerPc DEF Inv
<1>3. PICK k \in Key : k = Ev(n).key
  BY <1>1, <1>2, Handled DEF Busy
<1>4. /\ \/ shares' = shares
         \/ /\ Ev(n).type = "KeyDeletion"
            /\ shares' = [shares EXCEPT ![n][k] = SoftDeleteShares(@)]
      /\ inProgress' = [inProgress EXCEPT ![n][k] = DeleteIntermediates(@)]
  BY <1>3 DEF delete, abort, Handling
<1>5. (\A j \in Key : KeyInv(j)') /\ inProgress'[n][k] = NoIntermediates
  BY <1>1, <1>3, <1>4, EndRows
<1>6. LocalInv(n)'
  BY <1>1, <1>2, <1>3, <1>5, LocalSet
<1> QED
  BY <1>5, <1>6

(* A step of node n that writes nothing of the other nodes. *)
LocalStep(n) ==
    /\ reg' = reg /\ log' = log /\ lost' = lost
    /\ \A m \in Node : m # n => /\ pc'[m] = pc[m] /\ pos'[m] = pos[m] /\ tx'[m] = tx[m]
                                /\ \A k \in Key : RowsSame(m, k)

(* It keeps what holds of them. *)
LEMMA OtherNodes ==
    ASSUME Inv, NEW n \in Node, LocalStep(n), NEW m \in Node, m # n
    PROVE  LocalInv(m)'
BY LocalFrame DEF Inv, LocalStep

(* A handler writes nothing of the other nodes. *)
LEMMA HandleLocal ==
    ASSUME BaseInv, NEW n \in Node, handle(n)
    PROVE  LocalStep(n)
<1>1. /\ reg' = reg /\ log' = log /\ lost' = lost /\ pos' = pos
  BY DEF handle, keygen_round1, reshare_round1, Round1With, round2, round3, finalize, delete,
         abort, not_enough_producers, chainVars, envVars
<1>2. /\ \A m \in Node : m # n => pc'[m] = pc[m]
      /\ \A m \in Node : m # n => tx'[m] = tx[m]
  <2>1. DOMAIN pc = Node /\ DOMAIN tx = Node
    BY DEF BaseInv, TypeInv, TypeOK
  <2>2. (\E q : pc' = [pc EXCEPT ![n] = q]) /\ (tx' = tx \/ \E t : tx' = [tx EXCEPT ![n] = t])
    BY DEF handle, keygen_round1, reshare_round1, Round1With, round2, round3, finalize, delete,
           abort, not_enough_producers, ToSubmit, EndHandler, Goto
  <2> QED
    BY <2>1, <2>2
<1>3. \A m \in Node : m # n => \A k \in Key : RowsSame(m, k)
  <2>1. /\ DOMAIN inProgress = Node /\ DOMAIN shares = Node
    BY DEF BaseInv, TypeInv, TypeOK
  <2>2. /\ inProgress' = inProgress \/ \E t : inProgress' = [inProgress EXCEPT ![n] = t]
        /\ shares' = shares \/ \E t : shares' = [shares EXCEPT ![n] = t]
    BY DEF handle, keygen_round1, reshare_round1, Round1With, round2, round3, finalize, delete,
           abort, not_enough_producers, dbVars
  <2> QED
    BY <2>1, <2>2 DEF RowsSame
<1> QED
  BY <1>1, <1>2, <1>3 DEF LocalStep

(* A handler keeps the invariant. *)
LEMMA HandleStep ==
    ASSUME Inv, NEW n \in Node, handle(n)
    PROVE  (\A k \in Key : KeyInv(k)') /\ (\A m \in Node : LocalInv(m)')
<1>1. (\A k \in Key : KeyInv(k)') /\ LocalInv(n)'
  BY Round1Handlers, Round2Handlers, Round3Handler, FinalizeHandler, EndHandlers DEF handle
<1>2. BaseInv
  BY DEF Inv
<1> QED
  BY <1>1, <1>2, HandleLocal, OtherNodes

(* The steps of a node outside its handlers. *)
LEMMA NodeStepInv ==
    ASSUME Late, Inv, NEW n \in Node,
           \/ Start(n) \/ NextLog(n) \/ submit(n) \/ StoreCursor(n) \/ FetchCheckpoint(n)
           \/ StoreCheckpoint(n) \/ Crash(n) \/ LoseShares(n)
    PROVE  (\A k \in Key : KeyInv(k)') /\ (\A m \in Node : LocalInv(m)')
<1>1. /\ BaseInv /\ LocalInv(n) /\ TypeInv /\ CursorInv
      /\ \A k \in Key : KeyInv(k)
  BY DEF Inv, BaseInv
<1>2. /\ DOMAIN pc = Node /\ DOMAIN tx = Node /\ DOMAIN pos = Node /\ DOMAIN shares = Node
      /\ DOMAIN inProgress = Node
  BY <1>1 DEF TypeInv, TypeOK
<1>3. CASE LoseShares(n)
  <2>1. /\ reg' = reg /\ log' = log /\ lost \subseteq lost' /\ pc' = pc /\ pos' = pos /\ tx' = tx
        /\ pc[n] = "watch" /\ inProgress' = inProgress
        /\ \A m \in Node : m # n => \A k \in Key : RowsSame(m, k)
    BY <1>2, <1>3 DEF LoseShares, chainVars, memVars, RowsSame
  <2>2. ASSUME NEW m \in Node, m # n PROVE LocalInv(m)'
    BY <2>1, <2>2, LocalFrame DEF Inv
  <2>3. LocalInv(n)'
    BY <2>1 DEF LocalInv
  <2> QED
    BY <1>3, <2>2, <2>3, LoseStep
<1>4. CASE StoreCursor(n)
  <2>1. LocalStep(n) /\ pc'[n] = "watch"
    BY <1>2, <1>4 DEF StoreCursor, Goto, LocalStep, RowsSame, chainVars, envVars
  <2>2. LocalInv(n)'
    BY <2>1 DEF LocalInv
  <2> QED
    BY <1>4, <2>1, <2>2, CursorStep, OtherNodes
<1>5. CASE submit(n)
  <2>1. LocalStep(n) /\ pc'[n] \in {"sent", "done", "down"} /\ pos' = pos /\ log' = log
        /\ pc[n] = "submit"
    BY <1>2, <1>5 DEF submit, Goto, HandleSoftErrors, LocalStep, RowsSame, chainVars, dbVars, envVars
  <2>2. /\ Ev(n).key \in Key
        /\ Ev(n).type \in Round1Types \cup {"SecretGenRound2"} \cup Round3Types
    BY <1>1, <2>1, Handled DEF LocalInv, Busy
  <2>3. LocalInv(n)'
    BY <1>1, <2>1, <2>2, LocalSet
  <2>4. UNCHANGED <<reg, log, cursor, lost, shares, inProgress>>
    BY <1>5 DEF submit, chainVars, dbVars, envVars
  <2>5. \A k \in Key : KeyInv(k)'
    <3>1. CASE pool' = pool
      BY <1>1, <2>4, <3>1, QuietStep
    <3>2. CASE CallResult(n, tx[n]) = "Ok" /\ pool' = [pool EXCEPT ![n] = Append(@, tx[n])]
      BY <2>1, <2>4, <3>2, SendStep
    <3> QED
      BY <1>5, <3>1, <3>2 DEF submit
  <2> QED
    BY <2>1, <2>3, <2>5, OtherNodes
<1>6. CASE Start(n) \/ NextLog(n) \/ Crash(n)
  <2>1. /\ LocalStep(n) /\ pc'[n] \in {"watch", "handle", "down"}
        /\ UNCHANGED <<reg, log, cursor, lost, pool, shares, inProgress>>
    BY <1>2, <1>6 DEF Start, NextLog, Crash, Goto, LocalStep, RowsSame, chainVars, dbVars, envVars
  <2>2. LocalInv(n)'
    BY <2>1 DEF LocalInv
  <2> QED
    BY <1>1, <2>1, <2>2, OtherNodes, QuietStep
<1>7. CASE FetchCheckpoint(n) \/ StoreCheckpoint(n)
  <2>1. /\ UNCHANGED <<reg, log, lost, pool, shares, inProgress, pc, pos, tx>>
        /\ FetchCheckpoint(n) => cursor' = cursor
    BY <1>7 DEF FetchCheckpoint, StoreCheckpoint, chainVars, dbVars, envVars
  <2>2. cursor' = cursor
    BY <1>1, <1>7, <2>1, CheckpointStays
  <2>3. ASSUME NEW m \in Node PROVE LocalInv(m)'
    BY <2>1, LocalFrame DEF Inv, RowsSame
  <2> QED
    BY <1>1, <2>1, <2>2, <2>3, QuietStep
<1> QED
  BY <1>3, <1>4, <1>5, <1>6, <1>7

(* While a watcher has yet to store that it is past a finalisation, its key *)
(* is not finalised again.                                                  *)
LEMMA NoSecondFinalize ==
    ASSUME Inv, NEW n \in Node, Mine(n), NEW m \in Node, Busy(m),
           Ev(m).type = "SecretGenFinalize", NEW k \in Key, k = Ev(m).key
    PROVE  reg'[k].epoch = reg[k].epoch
<1>1. BaseInv /\ RegistryInv /\ KeyInv(k)
  BY DEF Inv, BaseInv, TypeInv
<1>2. PICK s \in Submission : s = Head(pool[n]) /\ s \in Pooled(n)
  BY <1>1, PoolShrinks
<1>3. ExecuteSubmission(n, s) /\ s.key \in Key /\ s.im \in Intermediate \cup {Null}
  BY <1>1, <1>2, PoolShrinks DEF Mine
<1>4. CASE s.key # k
  BY <1>1, <1>3, <1>4, ExecuteEffect DEF OthersKept
<1>5. CASE s.key = k /\ UNCHANGED reg
  BY <1>5
<1>6. CASE s.key = k /\ CallResult(n, s) = "Ok" /\ s.fn = "r1" /\ addRound1(n, k, s.im)
  <2>1. reg[k].round = "one"
    BY <1>6 DEF CallResult, RoundOf
  <2> QED
    BY <1>1, <1>3, <1>6, <2>1, Round1Effect
<1>7. CASE s.key = k /\ CallResult(n, s) = "Ok" /\ s.fn = "r2" /\ addRound2(n, k)
  <2>1. reg[k].round = "two"
    BY <1>7 DEF CallResult, RoundOf
  <2> QED
    BY <1>1, <1>7, <2>1, Round2Effect
<1>8. CASE s.key = k /\ CallResult(n, s) = "Ok" /\ s.fn = "r3" /\ addRound3(n, k)
  <2>1. reg[k].round = "three"
    BY <1>8 DEF CallResult, RoundOf
  <2>2. reg'[k].epoch = reg[k].epoch \/ reg[k].r3 \cup {n} = Node
    BY <1>1, <1>8, <2>1, Round3Effect
  <2>3. PICK i \in Of(k) : RunNode(k, i, m)
    BY <1>1, <2>1 DEF KeyInv, RunInv, Running
  <2>4. ~HasRow(m, k, PendingEpoch(k))
    BY <2>1, FinalizePlace DEF Running
  <2>5. m \notin reg[k].r3 /\ \A t \in Pooled(m) : t.key = k => t.fn # "r3"
    BY <2>3, <2>4 DEF RunNode, HasPending
  <2>6. m \notin reg[k].r3 \cup {n}
    BY <1>2, <1>8, <2>5
  <2> QED
    BY <2>2, <2>6
<1> QED
  BY <1>3, <1>4, <1>5, <1>6, <1>7, <1>8 DEF ExecuteSubmission

(* Mined transactions and calls of the administrator. *)
LEMMA ChainStepInv ==
    ASSUME ReinitWaits, Inv, (\E n \in Node : Mine(n)) \/ (\E k \in Key : Admin(k))
    PROVE  (\A k \in Key : KeyInv(k)') /\ (\A m \in Node : LocalInv(m)')
<1>1. BaseInv /\ TypeInv /\ RegistryInv /\ log \in Seq(Event)
  BY LogTypes DEF Inv, BaseInv, TypeInv
<1>2. ASSUME NEW n \in Node, Mine(n)
      PROVE  (\A k \in Key : KeyInv(k)') /\ (\A m \in Node : LocalInv(m)')
  <2>1. PICK s \in Submission : s = Head(pool[n]) /\ s.key \in Key
    BY <1>1, <1>2, PoolShrinks
  <2>2. /\ OthersKept(s.key)
        /\ \/ UNCHANGED <<reg, log>>
           \/ /\ reg[s.key].round \in {"one", "two", "three"}
              /\ log' = log \/ \E ev \in Event : Extends(ev)
    BY <1>1, <1>2, <2>1, ExecuteEffect DEF Mine
  <2>3. \A j \in 1 .. Len(log) : log'[j] = log[j]
    BY <1>1, <2>2, LogAppend
  <2>4. \A k \in Key : reg[k].round = "deleted" => reg'[k].round = "deleted"
    BY <2>2 DEF OthersKept
  <2>5. /\ UNCHANGED <<pos, tx, shares, inProgress, lost>>
        /\ \A m \in Node, k \in Key : RowsSame(m, k)
    BY <1>2 DEF Mine, dbVars, envVars, RowsSame
  <2>6. \A m \in Node : \/ pc'[m] = pc[m]
                        \/ m = n /\ pc[n] = "sent" /\ pc'[n] \in {"done", "down"}
    BY <1>1, <1>2 DEF Mine, Goto, TypeInv, TypeOK
  <2>7. ASSUME NEW m \in Node, pc'[m] = pc[m] PROVE LocalInv(m)'
    <3>1. LocalInv(m)
      BY DEF Inv
    <3>2. \A k \in Key : \/ reg'[k].epoch = reg[k].epoch
                         \/ ~(pc[m] = "done" /\ Ev(m).type = "SecretGenFinalize" /\ Ev(m).key = k)
      BY <1>2, NoSecondFinalize DEF Busy
    <3> QED
      BY <1>1, <2>3, <2>4, <2>5, <2>7, <3>1, <3>2, LocalFrame
  <2>8. ASSUME pc[n] = "sent", pc'[n] \in {"done", "down"} PROVE LocalInv(n)'
    <3>1. /\ Ev(n).type \in Round1Types \cup {"SecretGenRound2"} \cup Round3Types
          /\ pos[n] \in 1 .. Len(log)
      BY <1>1, <2>8, EvType DEF Inv, LocalInv, Busy
    <3>2. Ev(n)' = Ev(n)
      BY <2>3, <2>5, <3>1 DEF Ev
    <3> QED
      BY <2>8, <3>1, <3>2 DEF LocalInv, Round1Types, Round3Types, EndTypes
  <2> QED
    BY <1>2, <2>6, <2>7, <2>8, MineStep
<1>3. ASSUME NEW k \in Key, Admin(k)
      PROVE  (\A j \in Key : KeyInv(j)') /\ (\A m \in Node : LocalInv(m)')
  <2>1. /\ OthersKept(k) /\ reg[k].round # "deleted" /\ reg'[k].epoch = reg[k].epoch
        /\ \E ev \in Event : Extends(ev)
    <3>1. CASE initKeyGen(k) \/ initReshare(k)
      BY <1>1, <3>1, InitEffect
    <3>2. CASE abortKeyGen(k) \/ deleteOprfPublicKey(k)
      BY <1>1, <3>2, EndEffect
    <3> QED
      BY <1>3, <3>1, <3>2 DEF Admin
  <2>2. \A j \in 1 .. Len(log) : log'[j] = log[j]
    BY <1>1, <2>1, LogAppend
  <2>3. \A j \in Key : /\ reg[j].round = "deleted" => reg'[j].round = "deleted"
                       /\ reg'[j].epoch = reg[j].epoch
    BY <2>1 DEF OthersKept
  <2>4. /\ UNCHANGED <<pc, pos, tx, shares, inProgress, lost>>
        /\ \A m \in Node, j \in Key : RowsSame(m, j)
    BY <1>3 DEF Admin, dbVars, memVars, RowsSame
  <2>5. ASSUME NEW m \in Node PROVE LocalInv(m)'
    BY <1>1, <2>2, <2>3, <2>4, LocalFrame DEF Inv
  <2> QED
    BY <1>3, <2>5, AdminStep
<1> QED
  BY <1>2, <1>3

-----------------------------------------------------------------------------
(* The invariant. *)

(* It holds initially. *)
LEMMA InvInit == Init => Inv
<1> SUFFICES ASSUME Init PROVE Inv
  OBVIOUS
<1>1. BaseInv
  BY BaseInit
<1>2. \A n \in Node : LocalInv(n)
  BY DEF Init, LocalInv
<1>3. ASSUME NEW k \in Key PROVE KeyInv(k)
  <2>1. /\ Of(k) = {} /\ reg[k].round = "none" /\ reg[k].epoch = -1 /\ ~Running(k)
    BY DEF Init, RegistryInit, Of, Running
  <2>2. \A n \in Node : /\ Ahead(n, k) = {} /\ shares[n][k] = Null
                         /\ \A e \in Epoch : ~HasRow(n, k, e)
    BY <2>1 DEF Init, Ahead, HasRow, NoIntermediates
  <2>3. RestInv(k)
    BY <2>1, <2>2 DEF RestInv, RowsNode, IdleNode
  <2>4. SharingInv(k)
    BY <2>1 DEF SharingInv, Epoch
  <2> QED
    BY <2>1, <2>3, <2>4 DEF KeyInv, RunInv, FinalInv, ProducersInv
<1> QED
  BY <1>1, <1>2, <1>3 DEF Inv

(* Every step keeps it. *)
LEMMA InvNext ==
    ASSUME ReinitWaits, Late, Inv, [Next]_vars
    PROVE  Inv'
<1>1. BaseInv'
  BY BaseNext DEF Inv
<1>2. CASE UNCHANGED vars
  <2>1. UNCHANGED <<reg, log, cursor, lost, pool, shares, inProgress, pc, pos, tx>>
    BY <1>2 DEF vars, chainVars, dbVars, memVars, envVars
  <2>2. ASSUME NEW m \in Node PROVE LocalInv(m)'
    BY <2>1, LocalFrame DEF Inv, RowsSame
  <2> QED
    BY <1>1, <2>1, <2>2, QuietStep DEF Inv
<1>3. CASE Next
  <2>1. (\A k \in Key : KeyInv(k)') /\ (\A m \in Node : LocalInv(m)')
    BY <1>3, HandleStep, NodeStepInv, ChainStepInv DEF Next, NodeStep
  <2> QED
    BY <1>1, <2>1 DEF Inv
<1> QED
  BY <1>2, <1>3

(* The invariant holds in every reachable state. *)
LEMMA InvHolds == ReinitWaits /\ Late => (Spec => []Inv)
<1> SUFFICES ASSUME ReinitWaits, Late PROVE Spec => []Inv
  OBVIOUS
<1>1. Inv /\ [Next]_vars => Inv'
  BY InvNext
<1> QED
  BY InvInit, <1>1, PTL DEF Spec

-----------------------------------------------------------------------------
(* The theorems. *)

(* While a run is on, the polynomial and the key a node committed to on     *)
(* chain are the ones in its database, whatever it crashed, replayed or     *)
(* sent twice.                                                              *)
THEOREM CommittedIsStoredCorrect ==
    ReinitWaits /\ Late => (Spec => []CommittedIsStored)
<1>1. Inv => CommittedIsStored
  BY DEF Inv, KeyInv, RunInv, RunNode, HasRow, CommittedIsStored, KnowsCommitment
<1> QED
  BY InvHolds, <1>1, PTL

(* Once the contract has finalised an epoch, every node has its share of it *)
(* on disk, confirmed or pending, until it is lost or the key is deleted.   *)
THEOREM FinalizedIsDurableCorrect ==
    ReinitWaits /\ Late => (Spec => []FinalizedIsDurable)
<1>1. ASSUME Inv PROVE FinalizedIsDurable
  <2>1. SUFFICES ASSUME NEW n \in Node, NEW k \in Key, reg[k].epoch >= 0,
                        reg[k].round # "deleted", ~Lost(n, k)
                 PROVE  \/ Held(n, k) = reg[k].epoch
                        \/ FetchPendingShare(inProgress[n][k], reg[k].epoch) # Null
    BY DEF FinalizedIsDurable, Lost
  <2>2. Held(n, k) = reg[k].epoch \/ HasPending(n, k, reg[k].epoch)
    BY <1>1, <2>1 DEF Inv, KeyInv, FinalInv, FinalNode
  <2> QED
    BY <2>2 DEF HasPending, HasRow, FetchPendingShare
<1> QED
  BY InvHolds, <1>1, PTL

(* A node that holds a share holds the one of its epoch. *)
LEMMA HeldValue ==
    ASSUME Inv, NEW k \in Key, NEW n \in Node, Held(n, k) # -1
    PROVE  /\ Held(n, k) \in Epoch /\ Held(n, k) <= reg[k].epoch /\ reg[k].epoch \in Int
           /\ shares[n][k] # Null /\ shares[n][k].pk = reg[k].pk
<1>1. BaseInv /\ RowsNode(k, n)
  BY NodeFacts
<1>2. shares[n][k] \in ShareRow(Share, Deal) \cup {Null} /\ reg[k].epoch \in Int
  BY <1>1, Types
<1> QED
  BY <1>1, <1>2 DEF Held, RowsNode, ShareRow

(* Nodes that hold a share of one epoch hold shares of one sharing.         *)
THEOREM AgreementCorrect == ReinitWaits /\ Late => (Spec => []Agreement)
<1>1. ASSUME Inv PROVE Agreement
  <2>1. SUFFICES ASSUME NEW n \in Node, NEW m \in Node, NEW k \in Key, Held(n, k) # -1,
                        Held(n, k) = Held(m, k)
                 PROVE  shares[n][k].share = shares[m][k].share
    BY DEF Agreement
  <2>2. PICK e \in Epoch : e = Held(n, k) /\ e <= reg[k].epoch
    BY <1>1, <2>1, HeldValue
  <2>3. PICK v \in Share : \A p \in Node : OneValue(p, k, e, v)
    BY <1>1, <2>2 DEF Inv, KeyInv, SharingInv
  <2> QED
    BY <2>1, <2>2, <2>3 DEF OneValue
<1> QED
  BY InvHolds, <1>1, PTL

(* A confirmed share is a share of the secret behind the public key stored  *)
(* beside it, the key that the contract published.                          *)
THEOREM ShareMatchesPublicKeyCorrect ==
    ReinitWaits /\ Late => (Spec => []ShareMatchesPublicKey)
<1>1. ASSUME Inv PROVE ShareMatchesPublicKey
  <2>1. SUFFICES ASSUME NEW n \in Node, NEW k \in Key, Held(n, k) # -1
                 PROVE  /\ shares[n][k].share.secret = shares[n][k].pk
                        /\ shares[n][k].pk = reg[k].pk
    BY DEF ShareMatchesPublicKey
  <2>2. PICK e \in Epoch : e = Held(n, k) /\ e <= reg[k].epoch /\ shares[n][k].pk = reg[k].pk
    BY <1>1, <2>1, HeldValue
  <2>3. PICK v \in Share : v.secret = reg[k].pk /\ OneValue(n, k, e, v)
    BY <1>1, <2>2 DEF Inv, KeyInv, SharingInv
  <2> QED
    BY <2>2, <2>3 DEF OneValue
<1> QED
  BY InvHolds, <1>1, PTL

-----------------------------------------------------------------------------
(* The protocol implements KeyLifecycle. *)

(* Only finitely many shares are lost. *)
LEMMA LostFinite == Spec => []IsFiniteSet(lost)
<1>1. Init => IsFiniteSet(lost)
  BY FS_EmptySet DEF Init
<1>2. IsFiniteSet(lost) /\ [Next]_vars => IsFiniteSet(lost)'
  <2> SUFFICES ASSUME IsFiniteSet(lost), [Next]_vars PROVE IsFiniteSet(lost')
    OBVIOUS
  <2>1. lost' = lost \/ \E l : lost' = lost \cup {l}
    BY DEF Next, NodeStep, Start, NextLog, handle, keygen_round1, reshare_round1, Round1With, round2,
           round3, finalize, delete, abort, not_enough_producers, submit, StoreCursor, Mine,
           FetchCheckpoint, StoreCheckpoint, Crash, LoseShares, Admin, vars, envVars
  <2> QED
    BY <2>1, FS_AddElement
<1> QED
  BY <1>1, <1>2, PTL DEF Spec

(* What the abstract state is made of does not change. *)
LEMMA LifecycleStutter ==
    ASSUME \A n \in Node, k \in Key : Held(n, k)' = Held(n, k),
           \A k \in Key : /\ reg'[k].pk = reg[k].pk /\ reg'[k].epoch = reg[k].epoch
                          /\ reg'[k].round = "deleted" <=> reg[k].round = "deleted"
    PROVE  UNCHANGED Lifecycle!vars
BY DEF Lifecycle!vars

(* A node without a share of the current epoch confirms its pending one. *)
LEMMA FinalizeObtains ==
    ASSUME Inv, NEW n \in Node, finalize(n)
    PROVE  [Lifecycle!Next]_(Lifecycle!vars)
<1>1. /\ pc[n] = "handle" /\ Ev(n).type = "SecretGenFinalize" /\ reg' = reg
      /\ UNCHANGED <<chainVars, cursor, pool, envVars>>
  BY DEF finalize, Handling, chainVars
<1>2. BaseInv
  BY DEF Inv
<1>3. PICK k \in Key, e \in Epoch : k = Ev(n).key /\ e = Ev(n).epoch
  BY <1>1, <1>2, Handled DEF Busy
<1>4. CASE shares' = shares
  <2>1. \A m \in Node, j \in Key : Held(m, j)' = Held(m, j)
    BY <1>4 DEF Held
  <2> QED
    BY <1>1, <2>1, LifecycleStutter
<1>5. CASE shares' # shares
  <2>1. /\ fetch_oprf_public_key(k) = "Ok"
        /\ ConfirmOutcome(shares[n][k], inProgress[n][k], e) = "Ok"
        /\ shares' = [shares EXCEPT ![n][k] =
                         ConfirmRow(shares[n][k], inProgress[n][k], e, reg[k].pk)]
        /\ inProgress' = [inProgress EXCEPT ![n][k] = DeleteIntermediates(@)]
    BY <1>3, <1>5 DEF finalize
  <2>2. Held(n, k)' = e
    BY <1>1, <1>3, <2>1, FinalizeRows
  <2>3. reg[k].epoch >= 0 /\ e = reg[k].epoch
    BY <1>1, <1>3, FinalizePlace DEF Busy
  <2>4. reg[k].round # "deleted"
    BY <2>1 DEF fetch_oprf_public_key, getOprfPublicKey
  <2>5. \A m \in Node, j \in Key : m # n \/ j # k => Held(m, j)' = Held(m, j)
    <3>1. shares \in [Node -> [Key -> ShareRow(Share, Deal) \cup {Null}]]
      BY <1>2 DEF BaseInv, TypeInv, TypeOK
    <3>2. \A m \in Node, j \in Key : m # n \/ j # k => shares'[m][j] = shares[m][j]
      BY <2>1, <3>1
    <3> QED
      BY <3>2 DEF Held
  <2>6. CASE Held(n, k) = e
    <3>1. \A m \in Node, j \in Key : Held(m, j)' = Held(m, j)
      BY <2>2, <2>5, <2>6
    <3> QED
      BY <1>1, <3>1, LifecycleStutter
  <2>7. CASE Held(n, k) # e
    <3>1. Held(n, k) < reg[k].epoch
      <4>1. reg[k].epoch \in Int
        BY <1>2, Types
      <4>2. CASE Held(n, k) = -1
        BY <2>3, <4>1, <4>2
      <4>3. CASE Held(n, k) # -1
        BY <2>3, <2>7, <4>3, HeldValue DEF Epoch
      <4> QED
        BY <4>2, <4>3
    <3>2. [m \in Node |-> [j \in Key |-> Held(m, j)']] =
            [[m \in Node |-> [j \in Key |-> Held(m, j)]] EXCEPT ![n][k] = reg[k].epoch]
      BY <2>2, <2>3, <2>5
    <3>3. Lifecycle!Obtain(n, k)
      BY <1>1, <2>3, <2>4, <3>1, <3>2 DEF Lifecycle!Obtain
    <3> QED
      BY <3>3 DEF Lifecycle!Next
  <2> QED
    BY <2>6, <2>7
<1> QED
  BY <1>4, <1>5

(* A node erases its share of a key that is gone. *)
LEMMA DeleteErases ==
    ASSUME Inv, NEW n \in Node, delete(n)
    PROVE  [Lifecycle!Next]_(Lifecycle!vars)
<1>1. /\ pc[n] = "handle" /\ Ev(n).type = "KeyDeletion" /\ reg' = reg
      /\ shares' = [shares EXCEPT ![n][Ev(n).key] = SoftDeleteShares(@)]
  BY DEF delete, Handling, chainVars
<1>2. BaseInv /\ shares \in [Node -> [Key -> ShareRow(Share, Deal) \cup {Null}]]
  BY DEF Inv, BaseInv, TypeInv, TypeOK
<1>3. PICK k \in Key : k = Ev(n).key /\ pos[n] \in 1 .. Len(log) /\ Ev(n) = log[pos[n]]
  BY <1>1, <1>2, Handled, Types DEF Busy, Ahead
<1>4. reg[k].round = "deleted"
  BY <1>1, <1>2, <1>3 DEF BaseInv, DeletionInv
<1>5. /\ shares'[n][k] = SoftDeleteShares(shares[n][k])
      /\ \A m \in Node, j \in Key : m # n \/ j # k => shares'[m][j] = shares[m][j]
  BY <1>1, <1>2, <1>3
<1>6. Held(n, k)' = -1
  <2>1. CASE shares[n][k] = Null
    BY <1>5, <2>1 DEF SoftDeleteShares, Held
  <2>2. CASE shares[n][k] # Null
    <3>1. shares[n][k] \in ShareRow(Share, Deal)
      BY <1>2, <2>2
    <3>2. shares'[n][k].deleted
      BY <1>5, <2>2, <3>1, SoftDelete, NullAssumption
    <3> QED
      BY <3>2 DEF Held
  <2> QED
    BY <2>1, <2>2
<1>7. \A m \in Node, j \in Key : m # n \/ j # k => Held(m, j)' = Held(m, j)
  BY <1>5 DEF Held
<1>8. [m \in Node |-> [j \in Key |-> Held(m, j)']] =
        [[m \in Node |-> [j \in Key |-> Held(m, j)]] EXCEPT ![n][k] = -1]
  BY <1>6, <1>7
<1>9. Lifecycle!Erase(n, k)
  BY <1>1, <1>4, <1>8 DEF Lifecycle!Erase
<1> QED
  BY <1>9 DEF Lifecycle!Next

(* A node that loses its shares holds none. *)
LEMMA LoseLoses ==
    ASSUME Inv, IsFiniteSet(lost), NEW n \in Node, LoseShares(n)
    PROVE  [Lifecycle!Next]_(Lifecycle!vars)
<1>1. reg' = reg /\ Cardinality(lost) < MaxLosses
  BY DEF LoseShares, chainVars
<1>2. shares \in [Node -> [Key -> ShareRow(Share, Deal) \cup {Null}]]
  BY DEF Inv, BaseInv, TypeInv, TypeOK
<1>3. MaxLosses > 0
  <2>1. Cardinality(lost) \in Nat /\ MaxLosses \in Nat
    BY FS_CardinalityType, ProtocolAssumption
  <2> QED
    BY <1>1, <2>1
<1>4. /\ \A m \in Node, j \in Key : m # n => shares'[m][j] = shares[m][j]
      /\ \A j \in Key : shares'[n][j] = Null \/ shares'[n][j].deleted
  BY <1>2 DEF LoseShares
<1>5. /\ \A j \in Key : Held(n, j)' = -1
      /\ \A m \in Node, j \in Key : m # n => Held(m, j)' = Held(m, j)
  BY <1>4 DEF Held
<1>6. [m \in Node |-> [j \in Key |-> Held(m, j)']] =
        [[m \in Node |-> [j \in Key |-> Held(m, j)]] EXCEPT ![n] = [j \in Key |-> -1]]
  BY <1>5
<1>7. Lifecycle!Lose(n)
  BY <1>1, <1>3, <1>6 DEF Lifecycle!Lose
<1> QED
  BY <1>7 DEF Lifecycle!Next

(* The last contribution of the third round creates the key or rotates it:  *)
(* The abstract specification counts holders as the registry does. *)
LEMMA LifecycleCardinality ==
    ASSUME NEW S
    PROVE  Lifecycle!Cardinality(S) = Cardinality(S)
BY DEF Lifecycle!Cardinality, Cardinality

(* the producers of a reshare hold the epoch before.                        *)
LEMMA MineRotates ==
    ASSUME Inv, NEW n \in Node, Mine(n)
    PROVE  [Lifecycle!Next]_(Lifecycle!vars)
<1>1. BaseInv /\ RegistryInv
  BY DEF Inv, BaseInv, TypeInv
<1>2. PICK s \in Submission : s = Head(pool[n])
  BY <1>1, PoolShrinks
<1>3. PICK k \in Key : k = s.key
  BY <1>1, <1>2, PoolShrinks
<1>4. ExecuteSubmission(n, s) /\ s.im \in Intermediate \cup {Null} /\ shares' = shares
  BY <1>1, <1>2, PoolShrinks DEF Mine, dbVars
<1>5. /\ \A m \in Node, j \in Key : Held(m, j)' = Held(m, j)
      /\ OthersKept(k) /\ KeyInv(k) /\ reg[k] \in KeyState
  BY <1>1, <1>3, <1>4, ExecuteEffect, Types DEF Held, Inv
<1>6. CASE /\ reg'[k].pk = reg[k].pk /\ reg'[k].epoch = reg[k].epoch
           /\ reg'[k].round = "deleted" <=> reg[k].round = "deleted"
  BY <1>5, <1>6, LifecycleStutter DEF OthersKept
<1>7. CASE CallResult(n, s) = "Ok" /\ s.fn = "r1" /\ addRound1(n, k, s.im)
  <2>1. reg[k].round = "one"
    BY <1>3, <1>7 DEF CallResult, RoundOf
  <2>2. /\ reg'[k].pk = reg[k].pk /\ reg'[k].epoch = reg[k].epoch
        /\ reg'[k].round \in {"one", "stuck", "two"}
    BY <1>1, <1>4, <1>7, <2>1, Round1Effect
  <2> QED
    BY <1>6, <2>1, <2>2
<1>8. CASE CallResult(n, s) = "Ok" /\ s.fn = "r2" /\ addRound2(n, k)
  <2>1. reg[k].round = "two"
    BY <1>3, <1>8 DEF CallResult, RoundOf
  <2>2. /\ reg'[k].pk = reg[k].pk /\ reg'[k].epoch = reg[k].epoch
        /\ reg'[k].round \in {"two", "three"}
    BY <1>1, <1>8, <2>1, Round2Effect
  <2> QED
    BY <1>6, <2>1, <2>2
<1>9. CASE CallResult(n, s) = "Ok" /\ s.fn = "r3" /\ addRound3(n, k)
  <2>1. reg[k].round = "three"
    BY <1>3, <1>9 DEF CallResult, RoundOf
  <2>2. \/ /\ reg'[k].round = "three"
           /\ reg'[k].epoch = reg[k].epoch /\ reg'[k].pk = reg[k].pk
        \/ /\ reg'[k].round = "idle" /\ reg'[k].epoch = PendingEpoch(k)
           /\ reg'[k].pk = IF IsReshare(k) THEN reg[k].pk ELSE RunSecret(k)
    BY <1>1, <1>9, <2>1, Round3Effect
  <2>3. CASE reg'[k].round = "three"
    BY <1>6, <2>1, <2>2, <2>3
  <2>4. CASE reg'[k].round = "idle"
    <3>1. /\ reg'[k].epoch = reg[k].epoch + 1 /\ reg[k].epoch \in Int /\ reg[k].epoch >= -1
          /\ reg'[k].pk = IF IsReshare(k) THEN reg[k].pk ELSE RunSecret(k)
          /\ IsReshare(k) <=> reg[k].epoch >= 0
      BY <1>1, <2>2, <2>4, Types
    <3>2. /\ [j \in Key |-> reg'[j].epoch] =
               [[j \in Key |-> reg[j].epoch] EXCEPT ![k] = reg[k].epoch + 1]
          /\ [j \in Key |-> reg'[j].pk] = [[j \in Key |-> reg[j].pk] EXCEPT ![k] = reg'[k].pk]
          /\ {j \in Key : reg'[j].round = "deleted"} = {j \in Key : reg[j].round = "deleted"}
          /\ [m \in Node |-> [j \in Key |-> Held(m, j)']] = [m \in Node |-> [j \in Key |-> Held(m, j)]]
      BY <1>5, <2>1, <2>4, <3>1 DEF OthersKept
    <3>3. k \notin {j \in Key : reg[j].round = "deleted"}
      BY <2>1
    <3>4. CASE ~IsReshare(k)
      <4>1. reg'[k].pk # Null
        BY <1>1, <2>1, <3>1, <3>4, RunShareType, NullAssumption DEF RunSecret
      <4>2. /\ reg[k].epoch = -1
            /\ [j \in Key |-> reg'[j].epoch] = [[j \in Key |-> reg[j].epoch] EXCEPT ![k] = 0]
        <5>1. ~(reg[k].epoch >= 0)
          BY <3>1, <3>4
        <5>2. reg[k].epoch = -1 /\ reg[k].epoch + 1 = 0
          BY <3>1, <5>1
        <5> QED
          BY <3>2, <5>2
      <4>3. [j \in Key |-> reg'[j].pk] =
              [[j \in Key |-> reg[j].pk] EXCEPT ![k] = [j \in Key |-> reg'[j].pk][k]]
        BY <3>2
      <4>4. Lifecycle!Create(k)
        BY <3>2, <3>3, <4>1, <4>2, <4>3 DEF Lifecycle!Create
      <4> QED
        BY <4>4 DEF Lifecycle!Next
    <3>5. CASE IsReshare(k)
      <4>1. reg[k].producers \subseteq {m \in Node : Held(m, k) = reg[k].epoch}
        <5>1. PICK i \in Of(k) : \A m \in Node : RunNode(k, i, m)
          BY <1>5, <2>1 DEF KeyInv, RunInv, Running
        <5>2. ASSUME NEW p \in reg[k].producers
              PROVE  p \in Node /\ reg[k].r1[p] # Null /\ reg[k].r1[p].poly
          BY <1>1, <1>5, <2>1, <3>5 DEF KeyInv, ProducersInv, RegistryInv, KeyState
        <5> QED
          BY <3>5, <5>1, <5>2 DEF RunNode
      <4>2. Cardinality({m \in Node : Held(m, k) = reg[k].epoch}) >= Threshold
        <5>1. Cardinality(reg[k].producers) >= Threshold
          BY <1>5, <2>1 DEF KeyInv, ProducersInv
        <5>2. IsFiniteSet({m \in Node : Held(m, k) = reg[k].epoch})
          BY FS_Subset, RegistryAssumption
        <5>3. /\ Cardinality(reg[k].producers) <= Cardinality({m \in Node : Held(m, k) = reg[k].epoch})
              /\ Cardinality(reg[k].producers) \in Nat
              /\ Cardinality({m \in Node : Held(m, k) = reg[k].epoch}) \in Nat
          BY <4>1, <5>2, FS_Subset, FS_CardinalityType
        <5> QED
          BY <5>1, <5>3, RegistryAssumption
      <4>3. Lifecycle!Holders(k) = {m \in Node : Held(m, k) = reg[k].epoch}
        BY DEF Lifecycle!Holders
      <4>4. /\ [j \in Key |-> reg'[j].epoch] = [[j \in Key |-> reg[j].epoch] EXCEPT ![k] = @ + 1]
            /\ [j \in Key |-> reg'[j].pk] = [j \in Key |-> reg[j].pk]
        BY <1>5, <3>1, <3>2, <3>5 DEF OthersKept
      <4>5. Lifecycle!Rotate(k)
        BY <3>1, <3>2, <3>3, <3>5, <4>2, <4>3, <4>4, LifecycleCardinality DEF Lifecycle!Rotate
      <4> QED
        BY <4>5 DEF Lifecycle!Next
    <3> QED
      BY <3>4, <3>5
  <2> QED
    BY <2>2, <2>3, <2>4
<1> QED
  BY <1>3, <1>4, <1>6, <1>7, <1>8, <1>9 DEF ExecuteSubmission

(* The administrator deletes a key, or does nothing that is seen. *)
LEMMA AdminDeletes ==
    ASSUME Inv, NEW k \in Key, Admin(k)
    PROVE  [Lifecycle!Next]_(Lifecycle!vars)
<1>1. RegistryInv /\ shares' = shares
  BY DEF Inv, BaseInv, TypeInv, Admin, dbVars
<1>2. \A m \in Node, j \in Key : Held(m, j)' = Held(m, j)
  BY <1>1 DEF Held
<1>3. /\ OthersKept(k) /\ reg'[k].epoch = reg[k].epoch /\ reg'[k].pk = reg[k].pk
      /\ reg[k].round # "deleted"
  <2>1. CASE initKeyGen(k) \/ initReshare(k)
    BY <1>1, <2>1, InitEffect
  <2>2. CASE abortKeyGen(k) \/ deleteOprfPublicKey(k)
    BY <1>1, <2>2, EndEffect
  <2> QED
    BY <2>1, <2>2 DEF Admin
<1>4. CASE reg'[k].round # "deleted"
  BY <1>2, <1>3, <1>4, LifecycleStutter DEF OthersKept
<1>5. CASE reg'[k].round = "deleted"
  <2>1. /\ [j \in Key |-> reg'[j].epoch] = [j \in Key |-> reg[j].epoch]
        /\ [j \in Key |-> reg'[j].pk] = [j \in Key |-> reg[j].pk]
        /\ {j \in Key : reg'[j].round = "deleted"} = {j \in Key : reg[j].round = "deleted"} \cup {k}
        /\ [m \in Node |-> [j \in Key |-> Held(m, j)']] = [m \in Node |-> [j \in Key |-> Held(m, j)]]
    BY <1>2, <1>3, <1>5 DEF OthersKept
  <2>2. k \notin {j \in Key : reg[j].round = "deleted"}
    BY <1>3
  <2>3. Lifecycle!Delete(k)
    BY <2>1, <2>2 DEF Lifecycle!Delete
  <2> QED
    BY <2>3 DEF Lifecycle!Next
<1> QED
  BY <1>4, <1>5

(* Every step of the protocol is a step of the lifecycle, or none. *)
LEMMA LifecycleStep ==
    ASSUME Inv, IsFiniteSet(lost), [Next]_vars
    PROVE  [Lifecycle!Next]_(Lifecycle!vars)
<1>1. ASSUME reg' = reg, shares' = shares
      PROVE  [Lifecycle!Next]_(Lifecycle!vars)
  <2>1. \A m \in Node, j \in Key : Held(m, j)' = Held(m, j)
    BY <1>1 DEF Held
  <2> QED
    BY <1>1, <2>1, LifecycleStutter
<1>2. CASE UNCHANGED vars
  BY <1>1, <1>2 DEF vars, chainVars, dbVars
<1>3. ASSUME NEW n \in Node, handle(n)
      PROVE  [Lifecycle!Next]_(Lifecycle!vars)
  <2>1. \/ finalize(n) \/ delete(n)
        \/ reg' = reg /\ shares' = shares
    BY <1>3 DEF handle, keygen_round1, reshare_round1, Round1With, round2, round3, abort,
                not_enough_producers, chainVars, dbVars
  <2> QED
    BY <1>1, <2>1, FinalizeObtains, DeleteErases
<1>4. ASSUME NEW n \in Node, \/ Start(n) \/ NextLog(n) \/ submit(n) \/ StoreCursor(n)
                             \/ FetchCheckpoint(n) \/ StoreCheckpoint(n) \/ Crash(n)
      PROVE  reg' = reg /\ shares' = shares
  BY <1>4 DEF Start, NextLog, submit, StoreCursor, FetchCheckpoint, StoreCheckpoint, Crash,
              chainVars, dbVars
<1>5. CASE Next
  BY <1>1, <1>3, <1>4, <1>5, LoseLoses, MineRotates, AdminDeletes DEF Next, NodeStep
<1> QED
  BY <1>2, <1>5

(* The nodes and the contract together implement the lifecycle of an OPRF   *)
(* key: its secret is fixed when it is created, its epoch goes up one at a  *)
(* time and only while a threshold of nodes holds the one before, a node    *)
(* only takes up the current epoch, and never one of a deleted key.         *)
THEOREM ProtocolImplementsLifecycle ==
    ReinitWaits /\ Late => (Spec => ImplementsLifecycle)
<1>1. Init => Lifecycle!Init
  BY DEF Init, RegistryInit, Lifecycle!Init, Held
<1>2. Inv /\ IsFiniteSet(lost) /\ [Next]_vars => [Lifecycle!Next]_(Lifecycle!vars)
  BY LifecycleStep
<1> QED
  BY <1>1, <1>2, InvHolds, LostFinite, PTL DEF Spec, ImplementsLifecycle, Lifecycle!Spec

-----------------------------------------------------------------------------
(***************************************************************************)
(* Agreement when a run may follow an abort at once.  Here a reshare waits  *)
(* until every node has handled the finalisation before it (ReshareWaits);  *)
(* aborts need not be handled and transactions of an aborted run may be     *)
(* under way when the next run starts, and be booked in it.  What a node    *)
(* commits to is then not always what it has stored, so the invariant is    *)
(* another one: a pending share is that of the run that is on, or the node  *)
(* has yet to handle an abort, which deletes it.                            *)
(***************************************************************************)
RunEnds == {"KeyGenAbort", "SecretGenFinalize"}

(* Node n has yet to handle an abort, or a finalisation, of key k. *)
Doomed(n, k) == \E j \in Ahead(n, k) : log[j].type = "KeyGenAbort"
Unconfirmed(n, k) == \E f \in Ahead(n, k) : log[f].type = "SecretGenFinalize"

(* The runs of key k, or those of them before event i, have ended. *)
RunsEnded(k) == \A j \in Of(k) : \E l \in Of(k) : l >= j /\ log[l].type \in RunEnds
EndedBefore(k, i) ==
    \A j \in Of(k) : j < i => \E l \in Of(k) : l >= j /\ l < i /\ log[l].type \in RunEnds

(* A finalisation that a node has yet to handle is the last event of its    *)
(* key, up to the key's deletion; and a run starts where another has ended. *)
LogInv(k) ==
    /\ \A j \in Of(k) : log[j].type \in Round1Types => log[j].epoch <= PendingEpoch(k)
    /\ \A n \in Node : \A f \in Ahead(n, k) : log[f].type = "SecretGenFinalize" =>
          /\ log[f].epoch = reg[k].epoch
          /\ \A j \in Of(k) : j > f => log[j].type = "KeyDeletion"
    /\ reg[k].round \in {"none", "idle"} => RunsEnded(k)
    /\ Running(k) => \E i \in Of(k) : RunLog(k, i) /\ EndedBefore(k, i)

(* A share that an intermediate of key k deals again is of the key. *)
DealsKey(k, im) ==
    im # Null /\ im.old # Null => reg[k].epoch >= 0 /\ im.old.secret = reg[k].pk

(* So are the shares that node n deals again, wherever they are kept. *)
DealsInv(n) ==
    /\ tx[n] # Null => DealsKey(tx[n].key, tx[n].im)
    /\ \A t \in Pooled(n) : DealsKey(t.key, t.im)
    /\ \A k \in Key :
          /\ DealsKey(k, reg[k].r1[n])
          /\ \A d \in Epoch : HasRow(n, k, d) => DealsKey(k, inProgress[n][k][d].im)

(* The producers of a reshare deal shares of the sharing before; there are  *)
(* enough of them once the second round has begun.                          *)
DealersInv(k) ==
    /\ reg[k].round \in {"one", "two", "three"} /\ IsReshare(k) =>
          \A p \in reg[k].producers : reg[k].r1[p] # Null =>
              reg[k].r1[p].old # Null /\ reg[k].r1[p].old.deal = reg[k].prev
    /\ reg[k].round \in {"two", "three"} => Cardinality(reg[k].producers) >= Threshold

(* A watcher that is done with an abort has deleted what the run left. *)
WatcherInv(n) ==
    /\ pc[n] \in {"submit", "sent"} => Ev(n).type # "KeyGenAbort"
    /\ pc[n] = "done" /\ Ev(n).type = "KeyGenAbort" =>
          inProgress[n][Ev(n).key] = NoIntermediates

(* What node n has on disk: a pending share of the run that is on is of the *)
(* run's sharing, unless an abort deletes it.                               *)
DiskInv(n, k) ==
    /\ \A d \in Epoch : HasRow(n, k, d) => d <= PendingEpoch(k)
    /\ \A d \in Epoch : d = PendingEpoch(k) /\ HasPending(n, k, d) /\ ~Doomed(n, k) =>
          reg[k].round = "three" /\ inProgress[n][k][d].pending = RunShare(k)
    /\ shares[n][k] # Null =>
          /\ DeletedShareNull(shares[n][k])
          /\ shares[n][k].epoch <= reg[k].epoch
          /\ shares[n][k].pk = reg[k].pk

(* Node n has share v of epoch e, or none; and v is what it will confirm. *)
OneShare(n, k, e, v) ==
    /\ Held(n, k) = e => shares[n][k].share = v
    /\ e = reg[k].epoch /\ HasPending(n, k, e) /\ Unconfirmed(n, k) /\ ~Doomed(n, k) =>
          inProgress[n][k][e].pending = v

EpochInv(k) ==
    \A e \in Epoch : e <= reg[k].epoch =>
        \E v \in Share : v.secret = reg[k].pk /\ \A n \in Node : OneShare(n, k, e, v)

KeyShares(k) == EpochInv(k) /\ \A n \in Node : DiskInv(n, k)

NodesInv == \A n \in Node : WatcherInv(n) /\ DealsInv(n)
KeysInv == \A k \in Key : LogInv(k) /\ DealersInv(k) /\ KeyShares(k)

ReshareInv == BaseInv /\ NodesInv /\ KeysInv

-----------------------------------------------------------------------------
(* The log. *)

(* While a run is on, every node has handled the finalisations before it.   *)
LEMMA NoneUnconfirmed ==
    ASSUME BaseInv, NEW k \in Key, LogInv(k), Running(k), NEW n \in Node
    PROVE  ~Unconfirmed(n, k)
<1> SUFFICES ASSUME NEW f \in Ahead(n, k), log[f].type = "SecretGenFinalize" PROVE FALSE
  BY DEF Unconfirmed
<1>1. PICK i \in Of(k) : RunLog(k, i)
  BY DEF LogInv
<1>2. f \in Of(k) /\ f \in Nat /\ i \in Nat
  BY Types DEF Ahead
<1>3. ~(f < i) /\ f # i
  BY <1>1, <1>2 DEF LogInv, RunLog, Round1Types
<1>4. ~(f > i)
  BY <1>1, <1>2 DEF RunLog, Allowed, Round3Types
<1> QED
  BY <1>2, <1>3, <1>4

(* A step that leaves the chain of a key alone. *)
LEMMA LogInvFrame ==
    ASSUME NEW k \in Key, LogInv(k), ChainSame(k),
           \A n \in Node : Ahead(n, k)' \subseteq Ahead(n, k)
    PROVE  LogInv(k)'
<1>1. Of(k)' = Of(k) /\ (\A j \in Of(k) : log'[j] = log[j]) /\ reg'[k] = reg[k]
  BY DEF ChainSame, LogSame
<1>2. PendingEpoch(k)' = PendingEpoch(k) /\ (Running(k)' <=> Running(k))
  BY <1>1, RegFrame
<1>3. RunsEnded(k) => RunsEnded(k)'
  BY <1>1 DEF RunsEnded
<1>4. \A i \in Of(k) : RunLog(k, i) /\ EndedBefore(k, i) => RunLog(k, i)' /\ EndedBefore(k, i)'
  BY <1>1, LogFrame DEF EndedBefore
<1>5. \A n \in Node : Ahead(n, k) \subseteq Of(k)
  BY DEF Ahead
<1>6. \A n \in Node : \A f \in Ahead(n, k)' : log'[f].type = "SecretGenFinalize" =>
        /\ log'[f].epoch = reg'[k].epoch
        /\ \A j \in Of(k)' : j > f => log'[j].type = "KeyDeletion"
  BY <1>1, <1>5 DEF LogInv
<1>7. \A j \in Of(k)' : log'[j].type \in Round1Types => log'[j].epoch <= PendingEpoch(k)'
  BY <1>1, <1>2 DEF LogInv
<1> QED
  BY <1>1, <1>2, <1>3, <1>4, <1>6, <1>7 DEF LogInv

(* A contribution that does not end the run. *)
LEMMA LogGoesOn ==
    ASSUME BaseInv, NEW k \in Key, LogInv(k), ChainStep(k), Running(k), Running(k)',
           reg'[k].epoch = reg[k].epoch,
           log' # log => log'[Len(log) + 1].type \notin Round1Types \cup {"SecretGenFinalize"},
           \A i \in Of(k) : RunLog(k, i) => RunLog(k, i)'
    PROVE  LogInv(k)'
<1>1. PICK i \in Of(k) : RunLog(k, i) /\ EndedBefore(k, i)
  BY DEF LogInv
<1>2. PICK q \in Nat : q = Len(log) + 1
  BY Types
<1>3. /\ Of(k) \subseteq Of(k)' /\ \A j \in Of(k) : log'[j] = log[j]
      /\ \A j \in Of(k)' : j \in Of(k) \/ log'[j].type \notin Round1Types \cup {"SecretGenFinalize"}
      /\ \A n \in Node : Ahead(n, k)' \subseteq Ahead(n, k) \cup (Of(k)' \ Of(k))
  <2>1. CASE log' = log
    BY <2>1 DEF Of, Ahead, ChainStep
  <2>2. CASE log' # log
    BY <1>2, <2>2, LogGrows DEF ChainStep
  <2> QED
    BY <2>1, <2>2
<1>4. PendingEpoch(k)' = PendingEpoch(k) /\ reg'[k].round \notin {"none", "idle"}
  BY DEF PendingEpoch, Running
<1>5. \A n \in Node : \A f \in Ahead(n, k)' : log'[f].type # "SecretGenFinalize"
  <2>1. \A n \in Node : ~Unconfirmed(n, k) /\ Ahead(n, k) \subseteq Of(k)
    BY NoneUnconfirmed DEF Ahead
  <2> QED
    BY <1>3, <2>1 DEF Unconfirmed
<1>6. RunLog(k, i)' /\ EndedBefore(k, i)' /\ i \in Of(k)'
  <2>1. \A j \in Of(k)' : j < i => j \in Of(k)
    <3>1. CASE log' = log
      BY <3>1 DEF Of
    <3>2. CASE log' # log
      BY <1>1, <1>2, <3>2, LogGrows DEF ChainStep
    <3> QED
      BY <3>1, <3>2
  <2> QED
    BY <1>1, <1>3, <2>1 DEF EndedBefore
<1>7. \A j \in Of(k)' : log'[j].type \in Round1Types => log'[j].epoch <= PendingEpoch(k)'
  BY <1>3, <1>4 DEF LogInv
<1> QED
  BY <1>4, <1>5, <1>6, <1>7 DEF LogInv

(* The end of a run: a finalisation, or an abort or a deletion.             *)
LEMMA LogEnds ==
    ASSUME BaseInv, NEW k \in Key, LogInv(k), ChainStep(k), ~Running(k)',
           NEW ev \in Event, Extends(ev), ev.key = k,
           \/ /\ ev.type = "SecretGenFinalize" /\ Running(k)
              /\ reg'[k].epoch = PendingEpoch(k) /\ ev.epoch = PendingEpoch(k)
           \/ /\ ev.type = "KeyGenAbort" /\ Running(k) /\ reg'[k].epoch = reg[k].epoch
           \/ /\ ev.type = "KeyDeletion" /\ reg'[k].round = "deleted"
              /\ reg'[k].epoch = reg[k].epoch
    PROVE  LogInv(k)'
<1>0. PICK q \in Nat : q = Len(log) + 1
  BY Types
<1>1. /\ Of(k)' = Of(k) \cup {q} /\ log'[q] = ev
      /\ \A j \in Of(k) : log'[j] = log[j] /\ j < q
      /\ Of(k) \subseteq Nat
      /\ \A n \in Node : Ahead(n, k)' = Ahead(n, k) \cup {q} /\ Ahead(n, k) \subseteq Of(k)
  BY <1>0, LogGrows DEF ChainStep, Ahead
<1>2. /\ PendingEpoch(k) \in Int /\ PendingEpoch(k)' \in Int /\ PendingEpoch(k) <= PendingEpoch(k)'
      /\ ev.type \notin Round1Types
  BY Types DEF PendingEpoch, Round1Types
<1>3. \A j \in Of(k)' : log'[j].type \in Round1Types => log'[j].epoch <= PendingEpoch(k)'
  <2>1. \A j \in Of(k) : log[j].epoch \in Int
    BY Types DEF Epoch
  <2> QED
    BY <1>1, <1>2, <2>1 DEF LogInv
<1>4. reg'[k].round \in {"none", "idle"} => RunsEnded(k)'
  <2>1. ev.type = "KeyDeletion" \/ (q \in Of(k)' /\ log'[q].type \in RunEnds)
    BY <1>1 DEF RunEnds
  <2>2. \A j \in Of(k)' : q >= j
    BY <1>1
  <2> QED
    BY <2>1, <2>2 DEF RunsEnded
<1>5. ASSUME NEW n \in Node, NEW f \in Ahead(n, k)', log'[f].type = "SecretGenFinalize"
      PROVE  /\ log'[f].epoch = reg'[k].epoch
             /\ \A j \in Of(k)' : j > f => log'[j].type = "KeyDeletion"
  <2>1. CASE f = q
    <3>1. ev.type = "SecretGenFinalize" /\ ev.epoch = reg'[k].epoch
      BY <1>1, <1>5, <2>1
    <3>2. \A j \in Of(k)' : ~(j > q)
      BY <1>1
    <3> QED
      BY <1>1, <2>1, <3>1, <3>2
  <2>2. CASE f # q
    <3>1. f \in Ahead(n, k) /\ f \in Of(k) /\ log[f].type = "SecretGenFinalize"
      BY <1>1, <1>5, <2>2
    <3>2. ~Running(k)
      BY <3>1, NoneUnconfirmed DEF Unconfirmed
    <3>3. ev.type = "KeyDeletion" /\ reg'[k].epoch = reg[k].epoch
      BY <3>2
    <3> QED
      BY <1>1, <3>1, <3>3 DEF LogInv
  <2> QED
    BY <2>1, <2>2
<1> QED
  BY <1>3, <1>4, <1>5 DEF LogInv

(* The start of a run: every node has handled the finalisations before it.  *)
LEMMA LogStarts ==
    ASSUME BaseInv, NEW k \in Key, LogInv(k), ChainStep(k), FinalizeHandled(k),
           reg[k].round \in {"none", "idle"}, reg'[k].round = "one",
           reg'[k].epoch = reg[k].epoch,
           NEW ev \in Event, Extends(ev), ev.key = k, ev.epoch = PendingEpoch(k),
           ev.type \in Round1Types
    PROVE  LogInv(k)'
<1>0. PICK q \in Nat : q = Len(log) + 1
  BY Types
<1>1. /\ Of(k)' = Of(k) \cup {q} /\ log'[q] = ev
      /\ \A j \in Of(k) : log'[j] = log[j] /\ j < q
      /\ Of(k) \subseteq Nat
      /\ \A n \in Node : Ahead(n, k)' = Ahead(n, k) \cup {q} /\ Ahead(n, k) \subseteq Of(k)
  BY <1>0, LogGrows DEF ChainStep, Ahead
<1>2. PendingEpoch(k) \in Int /\ PendingEpoch(k)' = PendingEpoch(k)
  BY Types DEF PendingEpoch
<1>3. \A j \in Of(k)' : log'[j].type \in Round1Types => log'[j].epoch <= PendingEpoch(k)'
  BY <1>1, <1>2 DEF LogInv
<1>4. ASSUME NEW n \in Node, NEW f \in Ahead(n, k)', log'[f].type = "SecretGenFinalize"
      PROVE  FALSE
  <2>1. f \in Ahead(n, k) /\ log[f].type = "SecretGenFinalize"
    BY <1>1, <1>4 DEF Round1Types
  <2>2. f \in cursor[n] + 1 .. Len(log) /\ log[f].key = k
    BY <2>1, Types DEF Ahead, Of
  <2> QED
    BY <2>1, <2>2 DEF FinalizeHandled
<1>5. RunLog(k, q)'
  <2>1. \A j \in Of(k)' : ~(j > q)
    BY <1>1
  <2> QED
    BY <1>1, <2>1 DEF RunLog
<1>6. EndedBefore(k, q)'
  <2>1. \A j \in Of(k) : \E l \in Of(k) : l >= j /\ l < q /\ log'[l].type \in RunEnds
    BY <1>1 DEF LogInv, RunsEnded
  <2>2. \A j \in Of(k)' : j < q => j \in Of(k)
    BY <1>1
  <2> QED
    BY <1>1, <2>1, <2>2 DEF EndedBefore
<1>7. q \in Of(k)'
  BY <1>1
<1> QED
  BY <1>3, <1>4, <1>5, <1>6, <1>7 DEF LogInv

-----------------------------------------------------------------------------
(* What a step leaves alone. *)

(* The chain of a key stays. *)
LEMMA ChainKept ==
    ASSUME NEW k \in Key, LogInv(k), DealersInv(k), ChainSame(k),
           \A n \in Node : Ahead(n, k)' \subseteq Ahead(n, k)
    PROVE  LogInv(k)' /\ DealersInv(k)'
<1>1. reg'[k] = reg[k]
  BY DEF ChainSame
<1> QED
  BY <1>1, LogInvFrame DEF DealersInv, IsReshare

(* So do the rows that a node has of it. *)
LEMMA DiskFrame ==
    ASSUME NEW k \in Key, NEW n \in Node, ChainSame(k), NodeSame(n, k)
    PROVE  /\ DiskInv(n, k) => DiskInv(n, k)'
           /\ \A e, v : OneShare(n, k, e, v) => OneShare(n, k, e, v)'
<1>1. Ahead(n, k)' = Ahead(n, k) /\ \A j \in Ahead(n, k) : log'[j] = log[j]
  BY AheadFrame DEF ChainSame, NodeSame
<1>2. /\ Held(n, k)' = Held(n, k)
      /\ \A e : HasRow(n, k, e)' <=> HasRow(n, k, e)
      /\ \A e : HasPending(n, k, e)' <=> HasPending(n, k, e)
  BY RowsFrame DEF NodeSame
<1>3. /\ PendingEpoch(k)' = PendingEpoch(k) /\ RunShare(k)' = RunShare(k)
      /\ reg'[k] = reg[k]
  BY RegFrame DEF ChainSame
<1>4. inProgress'[n][k] = inProgress[n][k] /\ shares'[n][k] = shares[n][k]
  BY DEF NodeSame, RowsSame
<1>5. /\ Doomed(n, k)' <=> Doomed(n, k)
      /\ Unconfirmed(n, k)' <=> Unconfirmed(n, k)
  BY <1>1 DEF Doomed, Unconfirmed
<1>6. DiskInv(n, k) => DiskInv(n, k)'
  BY <1>2, <1>3, <1>4, <1>5 DEF DiskInv, DeletedShareNull
<1>7. ASSUME NEW e, NEW v, OneShare(n, k, e, v) PROVE OneShare(n, k, e, v)'
  BY <1>2, <1>3, <1>4, <1>5, <1>7 DEF OneShare
<1> QED
  BY <1>6, <1>7

(* The shares of a key whose chain stays, or goes on within the epoch.      *)
LEMMA SharesStep ==
    ASSUME NEW k \in Key, KeyShares(k), reg'[k].epoch = reg[k].epoch, reg'[k].pk = reg[k].pk,
           \A n \in Node : DiskInv(n, k) => DiskInv(n, k)',
           \A n \in Node, e \in Epoch, v \in Share :
               e <= reg[k].epoch /\ OneShare(n, k, e, v) => OneShare(n, k, e, v)'
    PROVE  KeyShares(k)'
<1>1. ASSUME NEW e \in Epoch, e <= reg'[k].epoch
      PROVE  \E v \in Share : v.secret = reg'[k].pk /\ \A n \in Node : OneShare(n, k, e, v)'
  <2>1. PICK v \in Share : v.secret = reg[k].pk /\ \A n \in Node : OneShare(n, k, e, v)
    BY <1>1 DEF KeyShares, EpochInv
  <2> QED
    BY <1>1, <2>1
<1>2. EpochInv(k)'
  BY <1>1 DEF EpochInv
<1> QED
  BY <1>2 DEF KeyShares

(* A step that leaves a key alone keeps all that holds of it. *)
LEMMA KeyKept ==
    ASSUME NEW k \in Key, LogInv(k), DealersInv(k), KeyShares(k), ChainSame(k),
           \A n \in Node : NodeSame(n, k)
    PROVE  LogInv(k)' /\ DealersInv(k)' /\ KeyShares(k)'
<1>1. \A n \in Node : Ahead(n, k)' \subseteq Ahead(n, k)
  BY AheadFrame DEF ChainSame, NodeSame
<1>2. reg'[k] = reg[k]
  BY DEF ChainSame
<1> QED
  BY <1>1, <1>2, ChainKept, DiskFrame, SharesStep

(* A step that writes nothing of a node's tables and nothing of the chain.  *)
LEMMA KeysQuiet ==
    ASSUME KeysInv, UNCHANGED <<reg, log, cursor, shares, inProgress>>
    PROVE  KeysInv'
<1>1. ASSUME NEW k \in Key PROVE LogInv(k)' /\ DealersInv(k)' /\ KeyShares(k)'
  <2>1. ChainSame(k) /\ \A n \in Node : NodeSame(n, k)
    BY DEF ChainSame, LogSame, Of, NodeSame, RowsSame
  <2> QED
    BY <2>1, KeyKept DEF KeysInv
<1> QED
  BY <1>1 DEF KeysInv

(* What is left to show when a node writes its rows of a key. *)
LEMMA KeysRowStep ==
    ASSUME KeysInv, NEW k \in Key, NEW n \in Node, RowStep(n, k), DiskInv(n, k)',
           \A e \in Epoch, v \in Share :
               e <= reg[k].epoch /\ OneShare(n, k, e, v) => OneShare(n, k, e, v)'
    PROVE  KeysInv'
<1>1. \A m \in Node, j \in Key : m # n \/ j # k => ChainSame(j) /\ NodeSame(m, j)
  BY SameFrame DEF RowStep
<1>2. ASSUME NEW j \in Key, j # k PROVE LogInv(j)' /\ DealersInv(j)' /\ KeyShares(j)'
  BY <1>1, <1>2, KeyKept DEF KeysInv, RowStep, ChainSame, LogSame, Of
<1>3. ChainSame(k) /\ reg'[k] = reg[k] /\ \A m \in Node : Ahead(m, k)' = Ahead(m, k)
  BY DEF RowStep, ChainSame, LogSame, Of, Ahead
<1>4. KeyShares(k)'
  BY <1>1, <1>3, DiskFrame, SharesStep DEF KeysInv
<1>5. LogInv(k)' /\ DealersInv(k)'
  BY <1>3, ChainKept DEF KeysInv
<1> QED
  BY <1>2, <1>4, <1>5 DEF KeysInv

(* A watcher whose events and rows stay. *)
LEMMA WatcherFrame ==
    ASSUME BaseInv, NEW n \in Node, WatcherInv(n), pc'[n] = pc[n], pos'[n] = pos[n],
           \A j \in 1 .. Len(log) : log'[j] = log[j], \A k \in Key : RowsSame(n, k)
    PROVE  WatcherInv(n)'
<1>1. CASE ~Busy(n)
  BY <1>1 DEF WatcherInv, Busy
<1>2. CASE Busy(n)
  <2>1. Ev(n).key \in Key /\ Ev(n)' = Ev(n)
    BY <1>2, EvType DEF BaseInv, TypeInv, Ev
  <2>2. Ev(n)'.key = Ev(n).key /\ Ev(n)'.type = Ev(n).type
    BY <2>1
  <2>3. inProgress'[n][Ev(n).key] = inProgress[n][Ev(n).key]
    BY <2>1 DEF RowsSame
  <2> QED
    BY <2>2, <2>3 DEF WatcherInv
<1> QED
  BY <1>1, <1>2

(* A key that is published stays what it is. *)
PkKept == \A k \in Key : reg[k].epoch >= 0 => reg'[k].epoch >= 0 /\ reg'[k].pk = reg[k].pk

(* What a node deals stays of the key, and what is new to it is.            *)
LEMMA DealsStep ==
    ASSUME NEW n \in Node, DealsInv(n), PkKept,
           tx'[n] # Null => \/ tx'[n] = tx[n] /\ tx[n].key \in Key
                            \/ tx'[n].key \in Key /\ DealsKey(tx'[n].key, tx'[n].im),
           \A t \in Pooled(n)' : t.key \in Key /\ (t \in Pooled(n) \/ DealsKey(t.key, t.im)),
           \A k \in Key : reg'[k].r1[n] = reg[k].r1[n] \/ DealsKey(k, reg'[k].r1[n]),
           \A k \in Key, d \in Epoch : inProgress'[n][k][d] # Null =>
               \/ HasRow(n, k, d) /\ inProgress'[n][k][d].im = inProgress[n][k][d].im
               \/ DealsKey(k, inProgress'[n][k][d].im)
    PROVE  DealsInv(n)'
<1> DEFINE Deals(k, im) == im # Null /\ im.old # Null => reg'[k].epoch >= 0 /\ im.old.secret = reg'[k].pk
<1>1. \A k \in Key : \A im : DealsKey(k, im) => Deals(k, im)
  BY DEF DealsKey, PkKept
<1>2. tx'[n] # Null => Deals(tx'[n].key, tx'[n].im)
  BY <1>1 DEF DealsInv
<1>3. \A t \in Pooled(n)' : Deals(t.key, t.im)
  BY <1>1 DEF DealsInv
<1>4. \A k \in Key : Deals(k, reg'[k].r1[n])
  BY <1>1 DEF DealsInv
<1>5. \A k \in Key, d \in Epoch : inProgress'[n][k][d] # Null => Deals(k, inProgress'[n][k][d].im)
  BY <1>1 DEF DealsInv
<1> QED
  BY <1>2, <1>3, <1>4, <1>5 DEF DealsInv, DealsKey, HasRow

-----------------------------------------------------------------------------
(* Handlers that write the rows of a key. *)

(* The first round: a row without a pending share. *)
LEMMA FirstRows ==
    ASSUME BaseInv, KeysInv, NEW n \in Node, NEW k \in Key, NEW e \in Epoch,
           e <= PendingEpoch(k), NEW im \in Intermediate, Round1With(n, k, e, im)
    PROVE  /\ KeysInv' /\ HasRow(n, k, e)' /\ RowStep(n, k)
           /\ \A d \in Epoch : HasRow(n, k, d)' =>
                 \/ HasRow(n, k, d) /\ inProgress'[n][k][d].im = inProgress[n][k][d].im
                 \/ inProgress'[n][k][d].im = im
<1>1. DiskInv(n, k)
  BY DEF KeysInv, KeyShares
<1>3. inProgress[n][k] \in Table(Intermediate, Share)
  BY Types
<1>4. /\ DOMAIN inProgress = Node /\ \A m \in Node : DOMAIN inProgress[m] = Key
  BY DEF BaseInv, TypeInv, TypeOK
<1>5. /\ inProgress'[n][k] = TryStoreIntermediates(inProgress[n][k], e, im)
      /\ shares' = shares /\ RowStep(n, k)
  BY <1>4 DEF Round1With, RowStep, RowsSame, chainVars, envVars
<1>6. CASE HasRow(n, k, e)
  <2>1. inProgress'[n][k] = inProgress[n][k]
    BY <1>5, <1>6 DEF TryStoreIntermediates, HasRow
  <2>2. ChainSame(k) /\ NodeSame(n, k)
    BY <1>5, <2>1 DEF RowStep, RowsSame, NodeSame, ChainSame, LogSame, Of
  <2>3. KeysInv'
    BY <1>1, <1>5, <2>2, DiskFrame, KeysRowStep
  <2> QED
    BY <1>5, <1>6, <2>1, <2>3 DEF HasRow
<1>7. CASE ~HasRow(n, k, e)
  <2>1. /\ inProgress'[n][k][e] = [im |-> im, pending |-> Null]
        /\ \A d \in Epoch \ {e} : inProgress'[n][k][d] = inProgress[n][k][d]
    BY <1>3, <1>5, <1>7 DEF TryStoreIntermediates, HasRow, Table
  <2>2. [im |-> im, pending |-> Null] # Null
    BY NullAssumption DEF InProgressRow
  <2>3. /\ HasRow(n, k, e)' /\ ~HasPending(n, k, e)' /\ inProgress'[n][k][e].im = im
        /\ Held(n, k)' = Held(n, k)
    BY <1>5, <2>1, <2>2 DEF HasRow, HasPending, Held
  <2>4. /\ \A d \in Epoch : HasRow(n, k, d)' => d = e \/ HasRow(n, k, d)
        /\ \A d \in Epoch : HasPending(n, k, d)' =>
              HasPending(n, k, d) /\ inProgress'[n][k][d] = inProgress[n][k][d]
    BY <2>1, <2>3 DEF HasRow, HasPending
  <2>5. /\ Ahead(n, k)' = Ahead(n, k) /\ log' = log /\ reg' = reg
        /\ PendingEpoch(k)' = PendingEpoch(k) /\ RunShare(k)' = RunShare(k)
    BY <1>5, RowStepFrame
  <2>6. /\ Doomed(n, k)' <=> Doomed(n, k)
        /\ Unconfirmed(n, k)' <=> Unconfirmed(n, k)
    BY <2>5 DEF Doomed, Unconfirmed
  <2>7. DiskInv(n, k)'
    BY <1>1, <1>5, <2>4, <2>5, <2>6 DEF DiskInv, DeletedShareNull
  <2>8. ASSUME NEW d \in Epoch, NEW v \in Share, OneShare(n, k, d, v)
        PROVE  OneShare(n, k, d, v)'
    BY <1>5, <2>3, <2>4, <2>5, <2>6, <2>8 DEF OneShare
  <2>9. KeysInv'
    BY <1>5, <2>7, <2>8, KeysRowStep
  <2>10. \A d \in Epoch : HasRow(n, k, d)' =>
                 \/ HasRow(n, k, d) /\ inProgress'[n][k][d].im = inProgress[n][k][d].im
                 \/ inProgress'[n][k][d].im = im
    BY <2>1, <2>3, <2>4
  <2> QED
    BY <1>5, <2>3, <2>9, <2>10
<1> QED
  BY <1>6, <1>7

(* The third round: an event that a node handles with no abort ahead is one *)
(* of the run that is on.                                                   *)
LEMMA ThirdPlace ==
    ASSUME BaseInv, NEW n \in Node, Busy(n), Ev(n).type \in Round3Types, NEW k \in Key,
           k = Ev(n).key, LogInv(k), reg[k].round = "three", ~Doomed(n, k)
    PROVE  /\ Ev(n).epoch = PendingEpoch(k)
           /\ Ev(n).type = "ReshareRound3" => Ev(n).lagrange = reg[k].producers
<1>1. PICK i \in Of(k) : RunLog(k, i) /\ EndedBefore(k, i)
  BY DEF LogInv, Running
<1>2. /\ pos[n] \in Of(k) /\ Ev(n) = log[pos[n]] /\ pos[n] = cursor[n] + 1
      /\ Of(k) \subseteq Nat /\ cursor[n] \in Nat
  BY Handled, Types DEF Ahead
<1>3. ~Unconfirmed(n, k)
  BY NoneUnconfirmed DEF Running
<1>4. ~(pos[n] < i)
  <2> SUFFICES ASSUME pos[n] < i PROVE FALSE
    OBVIOUS
  <2>1. PICK l \in Of(k) : l >= pos[n] /\ log[l].type \in RunEnds
    BY <1>1, <1>2 DEF EndedBefore
  <2>2. l \in Ahead(n, k)
    BY <1>2, <2>1 DEF Ahead
  <2> QED
    BY <1>3, <2>1, <2>2 DEF RunEnds, Doomed, Unconfirmed
<1>5. pos[n] # i
  BY <1>1, <1>2 DEF RunLog, Round1Types, Round3Types
<1> QED
  BY <1>1, <1>2, <1>4, <1>5 DEF RunLog

(* The third round: the pending share is of the run that is on, or an abort *)
(* will delete it.                                                          *)
LEMMA ThirdRows ==
    ASSUME BaseInv, KeysInv, NEW n \in Node, NEW k \in Key, NEW e \in Epoch, pc[n] = "handle",
           Ev(n).type \in Round3Types, k = Ev(n).key, e = Ev(n).epoch,
           FetchRound3Inputs(k) = "Ok", SecretGenRound3(n, k, inProgress[n][k][e]) = "Ok",
           inProgress' = [inProgress EXCEPT ![n][k] = StorePendingShare(@, e,
               decrypt_key_gen_ciphertexts(n, k, inProgress[n][k][e].im, Ev(n)))],
           UNCHANGED <<chainVars, shares, cursor, pool, envVars>>
    PROVE  /\ KeysInv' /\ RowStep(n, k)
           /\ \A d \in Epoch : HasRow(n, k, d)' =>
                 HasRow(n, k, d) /\ inProgress'[n][k][d].im = inProgress[n][k][d].im
<1>1. LogInv(k) /\ DiskInv(n, k)
  BY DEF KeysInv, KeyShares
<1>2. reg[k].round = "three" /\ Running(k) /\ ~Unconfirmed(n, k)
  BY <1>1, NoneUnconfirmed DEF FetchRound3Inputs, InRound, Running
<1> DEFINE row == inProgress[n][k][e]
           s == decrypt_key_gen_ciphertexts(n, k, row.im, Ev(n))
<1>3. row # Null /\ row.im = reg[k].r1[n]
  BY DEF SecretGenRound3, CommitmentsMatch
<1>4. inProgress[n][k] \in Table(Intermediate, Share)
  BY Types
<1>5. row \in InProgressRow(Intermediate, Share)
  BY <1>3, <1>4 DEF Table
<1>6. ~Doomed(n, k) => e = PendingEpoch(k) /\ s = RunShare(k)
  <2> SUFFICES ASSUME ~Doomed(n, k) PROVE e = PendingEpoch(k) /\ s = RunShare(k)
    OBVIOUS
  <2>1. /\ Ev(n).epoch = PendingEpoch(k)
        /\ Ev(n).type = "ReshareRound3" => Ev(n).lagrange = reg[k].producers
    BY <1>1, <1>2, ThirdPlace DEF Busy
  <2> QED
    BY <1>3, <2>1 DEF decrypt_key_gen_ciphertexts
<1> HIDE DEF s
<1>7. /\ inProgress'[n][k] = [inProgress[n][k] EXCEPT ![e].pending = s]
      /\ shares' = shares /\ RowStep(n, k)
  <2>1. DOMAIN inProgress = Node /\ \A m \in Node : DOMAIN inProgress[m] = Key
    BY DEF BaseInv, TypeInv, TypeOK
  <2>2. inProgress' = [inProgress EXCEPT ![n][k] = StorePendingShare(@, e, s)]
    BY DEF s
  <2>3. StorePendingShare(inProgress[n][k], e, s) = [inProgress[n][k] EXCEPT ![e].pending = s]
    BY <1>3 DEF StorePendingShare
  <2> QED
    BY <2>1, <2>2, <2>3 DEF RowStep, RowsSame, chainVars, envVars
<1>8. /\ inProgress'[n][k][e].im = row.im /\ inProgress'[n][k][e].pending = s
      /\ \A d \in Epoch \ {e} : inProgress'[n][k][d] = inProgress[n][k][d]
  BY <1>4, <1>5, <1>7 DEF Table, InProgressRow
<1>9. /\ Held(n, k)' = Held(n, k)
      /\ \A d \in Epoch : HasRow(n, k, d)' =>
            HasRow(n, k, d) /\ inProgress'[n][k][d].im = inProgress[n][k][d].im
      /\ \A d \in Epoch : d # e => (HasPending(n, k, d)' <=> HasPending(n, k, d))
  BY <1>3, <1>7, <1>8 DEF HasRow, HasPending, Held
<1>10. /\ Ahead(n, k)' = Ahead(n, k) /\ log' = log /\ reg' = reg
       /\ PendingEpoch(k)' = PendingEpoch(k) /\ RunShare(k)' = RunShare(k)
  BY <1>7, RowStepFrame
<1>11. /\ Doomed(n, k)' <=> Doomed(n, k)
       /\ ~Unconfirmed(n, k)'
  BY <1>2, <1>10 DEF Doomed, Unconfirmed
<1>12. DiskInv(n, k)'
  <2>1. \A d \in Epoch : d = PendingEpoch(k) /\ HasPending(n, k, d)' /\ ~Doomed(n, k) =>
            inProgress'[n][k][d].pending = RunShare(k)
    BY <1>1, <1>6, <1>8, <1>9 DEF DiskInv
  <2> QED
    BY <1>1, <1>2, <1>7, <1>9, <1>10, <1>11, <2>1 DEF DiskInv, DeletedShareNull
<1>13. ASSUME NEW d \in Epoch, NEW v \in Share, OneShare(n, k, d, v)
       PROVE  OneShare(n, k, d, v)'
  BY <1>7, <1>9, <1>11, <1>13 DEF OneShare
<1> QED
  BY <1>7, <1>9, <1>12, <1>13, KeysRowStep

(* A finalisation that a node handles: no abort is ahead of it. *)
LEMMA ConfirmPlace ==
    ASSUME BaseInv, NEW n \in Node, Busy(n), Ev(n).type = "SecretGenFinalize", NEW k \in Key,
           k = Ev(n).key, LogInv(k)
    PROVE  Ev(n).epoch = reg[k].epoch /\ Unconfirmed(n, k) /\ ~Doomed(n, k)
<1>1. /\ pos[n] \in Ahead(n, k) /\ Ev(n) = log[pos[n]] /\ pos[n] \in Nat
      /\ \A j \in Ahead(n, k) : j >= pos[n] /\ j \in Of(k) /\ j \in Nat
  BY Handled, Types DEF Ahead
<1>2. /\ log[pos[n]].epoch = reg[k].epoch
      /\ \A j \in Of(k) : j > pos[n] => log[j].type = "KeyDeletion"
  BY <1>1 DEF LogInv
<1>3. Unconfirmed(n, k)
  BY <1>1 DEF Unconfirmed
<1>4. ASSUME NEW j \in Ahead(n, k), log[j].type = "KeyGenAbort" PROVE FALSE
  <2>1. j # pos[n]
    BY <1>1, <1>4
  <2> QED
    BY <1>1, <1>2, <1>4, <2>1
<1> QED
  BY <1>1, <1>2, <1>3, <1>4 DEF Doomed

(* Confirming a share that is pending or confirmed already. *)
LEMMA ConfirmRows ==
    ASSUME BaseInv, KeysInv, NEW n \in Node, NEW k \in Key, NEW e \in Epoch, pc[n] = "handle",
           Ev(n).type = "SecretGenFinalize", k = Ev(n).key, e = Ev(n).epoch,
           fetch_oprf_public_key(k) = "Ok",
           ConfirmOutcome(shares[n][k], inProgress[n][k], e) = "Ok",
           shares' = [shares EXCEPT ![n][k] =
                         ConfirmRow(shares[n][k], inProgress[n][k], e, reg[k].pk)],
           inProgress' = [inProgress EXCEPT ![n][k] = DeleteIntermediates(@)],
           UNCHANGED <<chainVars, cursor, pool, envVars>>
    PROVE  /\ KeysInv' /\ RowStep(n, k) /\ inProgress'[n][k] = NoIntermediates
<1>1. LogInv(k) /\ DiskInv(n, k)
  BY DEF KeysInv, KeyShares
<1>2. e = reg[k].epoch /\ Unconfirmed(n, k) /\ ~Doomed(n, k)
  BY <1>1, ConfirmPlace DEF Busy
<1>3. /\ reg[k] \in KeyState /\ reg[k].epoch \in Int
      /\ shares[n][k] \in ShareRow(Share, Deal) \cup {Null}
      /\ inProgress[n][k] \in Table(Intermediate, Share)
  BY Types
<1>4. reg[k].pk \in Deal
  BY <1>3 DEF fetch_oprf_public_key, getOprfPublicKey, KeyState
<1> DEFINE old == shares[n][k]
           new == ConfirmRow(shares[n][k], inProgress[n][k], e, reg[k].pk)
<1>5. /\ shares'[n][k] = new /\ inProgress'[n][k] = NoIntermediates /\ RowStep(n, k)
  <2>1. /\ DOMAIN inProgress = Node /\ \A m \in Node : DOMAIN inProgress[m] = Key
        /\ DOMAIN shares = Node /\ \A m \in Node : DOMAIN shares[m] = Key
    BY DEF BaseInv, TypeInv, TypeOK
  <2> HIDE DEF new
  <2> QED
    BY <2>1 DEF RowStep, RowsSame, chainVars, envVars, DeleteIntermediates, new
<1>6. old # Null => DeletedShareNull(old) /\ old.pk = reg[k].pk
  BY <1>1 DEF DiskInv
<1>7. /\ new \in ShareRow(Share, Deal) /\ DeletedShareNull(new)
      /\ GetShareByEpoch(new, e) # Null
  BY <1>3, <1>4, <1>6, ConfirmOk, NullAssumption
<1>8. new # Null /\ new.epoch = e /\ ~new.deleted
  BY <1>7, NullAssumption DEF GetShareByEpoch
<1>9. \/ new = old /\ Held(n, k) = e
      \/ HasPending(n, k, e) /\ new.share = inProgress[n][k][e].pending /\ new.pk = reg[k].pk
  <2>1. CASE GetShareByEpoch(old, e) # Null
    BY <2>1 DEF ConfirmRow, GetShareByEpoch, Held
  <2>2. CASE GetShareByEpoch(old, e) = Null
    <3>1. FetchPendingShare(inProgress[n][k], e) # Null
      BY <2>2 DEF ConfirmOutcome
    <3>2. new = Upsert(old, e, reg[k].pk, FetchPendingShare(inProgress[n][k], e))
      BY <2>2 DEF ConfirmRow
    <3>3. /\ new.share = FetchPendingShare(inProgress[n][k], e)
          /\ new.pk = reg[k].pk
      BY <1>3, <3>2 DEF Upsert, ShareRow
    <3> QED
      BY <3>1, <3>3 DEF FetchPendingShare, HasPending, HasRow
  <2> QED
    BY <2>1, <2>2
<1>10. new.pk = reg[k].pk
  BY <1>3, <1>6, <1>8, <1>9
<1>11. Held(n, k)' = e /\ \A d \in Epoch : inProgress'[n][k][d] = Null
  BY <1>5, <1>8 DEF Held, NoIntermediates
<1> HIDE DEF old, new
<1>12. \A d \in Epoch : ~HasRow(n, k, d)' /\ ~HasPending(n, k, d)'
  BY <1>11 DEF HasRow, HasPending
<1>13. reg' = reg
  BY <1>5 DEF RowStep
<1>14. DiskInv(n, k)'
  <2>1. /\ shares'[n][k] # Null /\ DeletedShareNull(shares'[n][k])
        /\ shares'[n][k].epoch <= reg'[k].epoch /\ shares'[n][k].pk = reg'[k].pk
    BY <1>2, <1>3, <1>5, <1>7, <1>8, <1>10, <1>13
  <2> QED
    BY <1>12, <2>1 DEF DiskInv, DeletedShareNull
<1>15. ASSUME NEW d \in Epoch, NEW v \in Share, OneShare(n, k, d, v)
       PROVE  OneShare(n, k, d, v)'
  <2>1. Held(n, k)' = d => shares'[n][k].share = v
    BY <1>2, <1>5, <1>9, <1>11, <1>15 DEF OneShare, old
  <2> QED
    BY <1>12, <2>1 DEF OneShare
<1> QED
  BY <1>5, <1>14, <1>15, KeysRowStep

(* The end of a run or of a key: its intermediates go, and with the key its *)
(* share.                                                                   *)
LEMMA DeletedRows ==
    ASSUME BaseInv, KeysInv, NEW n \in Node, NEW k \in Key,
           shares' = shares \/ shares' = [shares EXCEPT ![n][k] = SoftDeleteShares(@)],
           inProgress' = [inProgress EXCEPT ![n][k] = DeleteIntermediates(@)],
           UNCHANGED <<chainVars, cursor, pool, envVars>>
    PROVE  /\ KeysInv' /\ RowStep(n, k) /\ inProgress'[n][k] = NoIntermediates
<1>1. DiskInv(n, k)
  BY DEF KeysInv, KeyShares
<1>2. /\ inProgress'[n][k] = NoIntermediates /\ RowStep(n, k)
      /\ \/ shares'[n][k] = shares[n][k]
         \/ shares'[n][k] = SoftDeleteShares(shares[n][k])
  <2>1. /\ DOMAIN inProgress = Node /\ \A m \in Node : DOMAIN inProgress[m] = Key
        /\ DOMAIN shares = Node /\ \A m \in Node : DOMAIN shares[m] = Key
    BY DEF BaseInv, TypeInv, TypeOK
  <2>2. inProgress'[n][k] = NoIntermediates
    BY <2>1 DEF DeleteIntermediates
  <2>3. shares'[n][k] = shares[n][k] \/ shares'[n][k] = SoftDeleteShares(shares[n][k])
    BY <2>1
  <2>4. RowStep(n, k)
    BY <2>1 DEF RowStep, RowsSame, chainVars, envVars
  <2> QED
    BY <2>2, <2>3, <2>4
<1>3. \A d \in Epoch : ~HasRow(n, k, d)' /\ ~HasPending(n, k, d)'
  BY <1>2 DEF NoIntermediates, HasRow, HasPending
<1>4. \/ shares'[n][k] = shares[n][k] /\ Held(n, k)' = Held(n, k)
      \/ /\ shares'[n][k] # Null /\ shares[n][k] # Null
         /\ shares'[n][k].deleted /\ shares'[n][k].share = Null /\ Held(n, k)' = -1
         /\ shares'[n][k].epoch = shares[n][k].epoch /\ shares'[n][k].pk = shares[n][k].pk
  <2>1. CASE shares'[n][k] = shares[n][k]
    BY <2>1 DEF Held
  <2>2. CASE shares'[n][k] # shares[n][k]
    <3>1. shares'[n][k] = SoftDeleteShares(shares[n][k])
      BY <1>2, <2>2
    <3>2. shares[n][k] # Null /\ shares[n][k] \in ShareRow(Share, Deal)
      BY <2>2, <3>1, Types DEF SoftDeleteShares
    <3>3. /\ shares'[n][k] # Null /\ shares'[n][k].deleted /\ shares'[n][k].share = Null
          /\ shares'[n][k].epoch = shares[n][k].epoch
      BY <3>1, <3>2, SoftDelete, NullAssumption
    <3>4. shares'[n][k].pk = shares[n][k].pk
      BY <3>1, <3>2 DEF SoftDeleteShares, ShareRow
    <3> QED
      BY <3>1, <3>2, <3>3, <3>4 DEF Held
  <2> QED
    BY <2>1, <2>2
<1>5. reg' = reg
  BY <1>2 DEF RowStep
<1>6. DiskInv(n, k)'
  BY <1>1, <1>3, <1>4, <1>5 DEF DiskInv, DeletedShareNull
<1>7. ASSUME NEW d \in Epoch, NEW v \in Share, OneShare(n, k, d, v)
      PROVE  OneShare(n, k, d, v)'
  BY <1>3, <1>4, <1>7 DEF OneShare, Epoch
<1> QED
  BY <1>2, <1>6, <1>7, KeysRowStep

(* The cursor moves past an event; with an abort goes what would delete a   *)
(* pending share, and the watcher has deleted it.                           *)
LEMMA KeysCursor ==
    ASSUME BaseInv, KeysInv, NEW n \in Node, WatcherInv(n), StoreCursor(n)
    PROVE  KeysInv'
<1>1. /\ pos[n] = cursor[n] + 1 /\ Ev(n) = log[pos[n]] /\ pc[n] = "done"
      /\ cursor \in [Node -> Nat]
  <2>1. cursor \in [Node -> 0 .. Len(log)] /\ Len(log) \in Nat /\ pc[n] = "done"
    BY LogTypes DEF BaseInv, TypeInv, TypeOK, StoreCursor
  <2> QED
    BY <2>1, Handled DEF Busy
<1>2. cursor' = [cursor EXCEPT ![n] = cursor[n] + 1]
  <2>1. (IF pos[n] > cursor[n] THEN pos[n] ELSE cursor[n]) = cursor[n] + 1
    BY <1>1
  <2> QED
    BY <1>1, <2>1 DEF StoreCursor
<1>3. UNCHANGED <<reg, log, shares, inProgress>>
  BY DEF StoreCursor, chainVars
<1>4. ASSUME NEW k \in Key PROVE LogInv(k)' /\ DealersInv(k)' /\ KeyShares(k)'
  <2>1. ChainSame(k) /\ \A m \in Node : RowsSame(m, k)
    BY <1>3 DEF ChainSame, LogSame, Of, RowsSame
  <2>2. \A m \in Node : m # n => NodeSame(m, k)
    BY <1>1, <1>2, <2>1 DEF NodeSame
  <2>3. /\ Ahead(n, k)' \subseteq Ahead(n, k)
        /\ \A j \in Ahead(n, k) : j \in Ahead(n, k)' \/ j = pos[n]
        /\ \A m \in Node : m # n => Ahead(m, k)' = Ahead(m, k)
    BY <1>1, <1>2, <1>3, Types DEF Ahead, Of
  <2>4. LogInv(k)' /\ DealersInv(k)'
    BY <2>1, <2>3, ChainKept DEF KeysInv
  <2>5. /\ Held(n, k)' = Held(n, k)
        /\ \A e : HasRow(n, k, e)' <=> HasRow(n, k, e)
        /\ \A e : HasPending(n, k, e)' <=> HasPending(n, k, e)
        /\ PendingEpoch(k)' = PendingEpoch(k) /\ RunShare(k)' = RunShare(k)
    BY <1>3, <2>1, RowsFrame, RegFrame
  <2>6. Unconfirmed(n, k)' => Unconfirmed(n, k)
    BY <1>3, <2>3 DEF Unconfirmed
  <2>7. ASSUME Doomed(n, k), ~Doomed(n, k)', NEW e \in Epoch PROVE ~HasPending(n, k, e)
    <3>1. PICK j \in Ahead(n, k) : log[j].type = "KeyGenAbort"
      BY <2>7 DEF Doomed
    <3>2. j = pos[n]
      BY <1>3, <2>3, <2>7, <3>1 DEF Doomed
    <3>3. Ev(n).type = "KeyGenAbort" /\ Ev(n).key = k
      BY <1>1, <3>1, <3>2 DEF Ahead, Of
    <3>4. inProgress[n][k] = NoIntermediates
      BY <1>1, <3>3 DEF WatcherInv
    <3> QED
      BY <3>4 DEF NoIntermediates, HasPending, HasRow
  <2>8. DiskInv(n, k) => DiskInv(n, k)'
    BY <1>3, <2>5, <2>7 DEF DiskInv, DeletedShareNull
  <2>9. ASSUME NEW e \in Epoch, NEW v \in Share, OneShare(n, k, e, v)
        PROVE  OneShare(n, k, e, v)'
    BY <1>3, <2>5, <2>6, <2>7, <2>9 DEF OneShare
  <2>10. KeyShares(k)'
    BY <1>3, <2>1, <2>2, <2>8, <2>9, DiskFrame, SharesStep DEF KeysInv
  <2> QED
    BY <2>4, <2>10
<1> QED
  BY <1>4 DEF KeysInv

(* A node that is at rest loses its shares. *)
LEMMA KeysLose ==
    ASSUME BaseInv, KeysInv, NEW n \in Node, LoseShares(n)
    PROVE  KeysInv'
<1>1. UNCHANGED <<reg, log, cursor, inProgress>>
  BY DEF LoseShares, chainVars
<1>2. ASSUME NEW k \in Key PROVE LogInv(k)' /\ DealersInv(k)' /\ KeyShares(k)'
  <2>1. /\ \A m \in Node : m # n => RowsSame(m, k)
        /\ \/ shares'[n][k] = Null
           \/ shares'[n][k] = shares[n][k] /\ shares[n][k].deleted
    BY <1>1 DEF LoseShares, RowsSame, BaseInv, TypeInv, TypeOK
  <2>2. /\ ChainSame(k) /\ \A m \in Node : m # n => NodeSame(m, k)
        /\ \A m \in Node : Ahead(m, k)' = Ahead(m, k)
    BY <1>1, <2>1 DEF ChainSame, LogSame, Of, NodeSame, Ahead
  <2>3. LogInv(k)' /\ DealersInv(k)'
    BY <2>2, ChainKept DEF KeysInv
  <2>4. Held(n, k)' = -1
    BY <2>1 DEF Held
  <2>5. /\ \A e : HasRow(n, k, e)' <=> HasRow(n, k, e)
        /\ \A e : HasPending(n, k, e)' <=> HasPending(n, k, e)
        /\ PendingEpoch(k)' = PendingEpoch(k) /\ RunShare(k)' = RunShare(k)
        /\ Unconfirmed(n, k)' <=> Unconfirmed(n, k)
        /\ Doomed(n, k)' <=> Doomed(n, k)
    BY <1>1, <2>2, RegFrame DEF HasRow, HasPending, Unconfirmed, Doomed
  <2>6. DiskInv(n, k) => DiskInv(n, k)'
    BY <1>1, <2>1, <2>5 DEF DiskInv, DeletedShareNull
  <2>7. ASSUME NEW e \in Epoch, NEW v \in Share, OneShare(n, k, e, v)
        PROVE  OneShare(n, k, e, v)'
    BY <1>1, <2>4, <2>5, <2>7 DEF OneShare, Epoch
  <2>8. KeyShares(k)'
    BY <1>1, <2>2, <2>6, <2>7, DiskFrame, SharesStep DEF KeysInv
  <2> QED
    BY <2>3, <2>8
<1> QED
  BY <1>2 DEF KeysInv

-----------------------------------------------------------------------------
(* Steps of the chain. *)

(* The keys that a step of the chain is not about. *)
LEMMA ChainOthers ==
    ASSUME BaseInv, KeysInv, NEW k \in Key, ChainStep(k),
           LogInv(k)' /\ DealersInv(k)' /\ KeyShares(k)'
    PROVE  KeysInv'
<1>1. ASSUME NEW j \in Key, j # k PROVE LogInv(j)' /\ DealersInv(j)' /\ KeyShares(j)'
  <2>1. LogSame(j)
    <3>1. CASE log' = log
      BY <3>1 DEF LogSame, Of
    <3>2. CASE log' # log
      BY <1>1, <3>2, LogGrows DEF ChainStep
    <3> QED
      BY <3>1, <3>2
  <2>2. ChainSame(j) /\ \A n \in Node : NodeSame(n, j)
    BY <1>1, <2>1 DEF ChainStep, ChainSame, OthersKept, NodeSame, RowsSame
  <2> QED
    BY <2>2, KeyKept DEF KeysInv
<1> QED
  BY <1>1 DEF KeysInv

(* What is ahead of the nodes after a step of the chain. *)
LEMMA ChainAhead ==
    ASSUME BaseInv, NEW k \in Key, ChainStep(k), NEW n \in Node
    PROVE  /\ Doomed(n, k) => Doomed(n, k)'
           /\ \A ev \in Event : Extends(ev) /\ ev.key = k =>
                 /\ ev.type = "KeyGenAbort" => Doomed(n, k)'
                 /\ ev.type # "SecretGenFinalize" /\ Unconfirmed(n, k)' => Unconfirmed(n, k)
           /\ log' = log /\ Unconfirmed(n, k)' => Unconfirmed(n, k)
<1>1. CASE log' = log
  <2>1. Ahead(n, k)' = Ahead(n, k)
    BY <1>1 DEF Ahead, Of, ChainStep
  <2>2. \A ev \in Event : ~Extends(ev)
    <3> SUFFICES ASSUME NEW ev \in Event, Extends(ev) PROVE FALSE
      OBVIOUS
    <3>1. log \in Seq(Event)
      BY LogTypes DEF BaseInv, TypeInv, TypeOK
    <3>2. Len(log') = Len(log) + 1 /\ Len(log) \in Nat
      BY <3>1, LogAppend
    <3> QED
      BY <1>1, <3>2
  <2> QED
    BY <1>1, <2>1, <2>2 DEF Doomed, Unconfirmed
<1>2. CASE log' # log
  <2>1. Ahead(n, k) \subseteq Of(k)
    BY DEF Ahead
  <2>2. ASSUME NEW ev \in Event, Extends(ev), ev.key = k
        PROVE  /\ Doomed(n, k) => Doomed(n, k)'
               /\ ev.type = "KeyGenAbort" => Doomed(n, k)'
               /\ ev.type # "SecretGenFinalize" /\ Unconfirmed(n, k)' => Unconfirmed(n, k)
    <3>1. PICK q \in Nat : q = Len(log) + 1
      BY Types
    <3>2. /\ Ahead(n, k)' = Ahead(n, k) \cup {q} /\ log'[q] = ev
          /\ \A j \in Ahead(n, k) : log'[j] = log[j]
      BY <2>1, <2>2, <3>1, LogGrows DEF ChainStep
    <3> QED
      BY <3>2 DEF Doomed, Unconfirmed
  <2> QED
    BY <1>2, <2>2 DEF ChainStep
<1> QED
  BY <1>1, <1>2

(* A step that does not finalise the run: a pending share is kept while the *)
(* third round goes on, and doomed when it is aborted.                      *)
LEMMA SharesGoOn ==
    ASSUME BaseInv, NEW k \in Key, KeyShares(k), ChainStep(k),
           reg'[k].epoch = reg[k].epoch, reg'[k].pk = reg[k].pk,
           \/ log' = log
           \/ \E ev \in Event : Extends(ev) /\ ev.key = k /\ ev.type # "SecretGenFinalize",
           \/ reg[k].round # "three"
           \/ reg'[k].round = "three" /\ RunShare(k)' = RunShare(k)
           \/ \E ev \in Event : Extends(ev) /\ ev.key = k /\ ev.type = "KeyGenAbort"
    PROVE  KeyShares(k)'
<1>1. ASSUME NEW n \in Node
      PROVE  /\ DiskInv(n, k) => DiskInv(n, k)'
             /\ \A e \in Epoch, v \in Share : OneShare(n, k, e, v) => OneShare(n, k, e, v)'
  <2>1. /\ Doomed(n, k) => Doomed(n, k)'
        /\ Unconfirmed(n, k)' => Unconfirmed(n, k)
        /\ \/ reg[k].round # "three"
           \/ reg'[k].round = "three" /\ RunShare(k)' = RunShare(k)
           \/ Doomed(n, k)'
    BY ChainAhead
  <2>2. RowsSame(n, k) /\ PendingEpoch(k)' = PendingEpoch(k)
    BY DEF ChainStep, RowsSame, PendingEpoch
  <2>3. /\ Held(n, k)' = Held(n, k)
        /\ \A e : HasRow(n, k, e)' <=> HasRow(n, k, e)
        /\ \A e : HasPending(n, k, e)' <=> HasPending(n, k, e)
        /\ inProgress'[n][k] = inProgress[n][k] /\ shares'[n][k] = shares[n][k]
    BY <2>2, RowsFrame DEF RowsSame
  <2>4. DiskInv(n, k) => DiskInv(n, k)'
    BY <2>1, <2>2, <2>3 DEF DiskInv, DeletedShareNull
  <2>5. ASSUME NEW e \in Epoch, NEW v \in Share, OneShare(n, k, e, v)
        PROVE  OneShare(n, k, e, v)'
    BY <2>1, <2>3, <2>5 DEF OneShare
  <2> QED
    BY <2>4, <2>5
<1> QED
  BY <1>1, SharesStep

(* The producers of a reshare deal shares of the sharing before, of the     *)
(* published key: so is what they deal.                                     *)
LEMMA ReshareSecret ==
    ASSUME BaseInv, NEW k \in Key, DealersInv(k), \A n \in Node : DealsInv(n),
           reg[k].round = "three", IsReshare(k)
    PROVE  RunSecret(k) = reg[k].pk
<1>1. RegistryInv /\ reg[k] \in KeyState
  BY Types
<1>2. /\ reg[k].producers \subseteq Node /\ reg[k].r1 \in [Node -> Intermediate \cup {Null}]
      /\ \A n \in Node : reg[k].r1[n] # Null
  BY <1>1 DEF RegistryInv, KeyState
<1>3. Cardinality(reg[k].producers) >= Threshold
  BY DEF DealersInv
<1>4. PICK q : q \in reg[k].producers
  BY <1>3, FS_EmptySet, RegistryAssumption
<1>5. ASSUME NEW p \in reg[k].producers
      PROVE  /\ reg[k].r1[p].old \in Share /\ reg[k].r1[p].old.deal = reg[k].prev
             /\ reg[k].r1[p].old.secret = reg[k].pk
  <2>1. reg[k].r1[p] \in Intermediate /\ reg[k].r1[p] # Null /\ p \in Node
    BY <1>2
  <2>2. reg[k].r1[p].old # Null /\ reg[k].r1[p].old.deal = reg[k].prev
    BY <2>1 DEF DealersInv
  <2>3. reg[k].r1[p].old.secret = reg[k].pk
    BY <2>1, <2>2 DEF DealsInv, DealsKey
  <2> QED
    BY <2>1, <2>2, <2>3 DEF Intermediate
<1>6. PICK v \in Share : v = reg[k].r1[q].old
  BY <1>4, <1>5
<1>7. ASSUME NEW p \in reg[k].producers PROVE reg[k].r1[p].old = v
  BY <1>4, <1>5, <1>6 DEF Share
<1> DEFINE olds == {reg[k].r1[p].old : p \in reg[k].producers}
<1>8. olds = {v} /\ v # Null
  BY <1>4, <1>7, NullAssumption
<1>9. (CHOOSE s \in olds : olds = {s}) = v /\ (\E s \in olds : olds = {s} /\ s # Null)
  BY <1>8
<1>10. v.secret = reg[k].pk
  BY <1>4, <1>5, <1>6
<1> QED
  BY <1>9, <1>10 DEF RunSecret

(* The last contribution of the third round: a node that is to confirm a    *)
(* share has the run's.                                                     *)
LEMMA SharesFinal ==
    ASSUME BaseInv, NEW k \in Key, KeyShares(k), DealersInv(k), \A n \in Node : DealsInv(n),
           ChainStep(k), reg[k].round = "three", reg'[k].round = "idle",
           reg'[k].epoch = PendingEpoch(k),
           reg'[k].pk = IF IsReshare(k) THEN reg[k].pk ELSE RunSecret(k)
    PROVE  KeyShares(k)'
<1>1. /\ reg[k].epoch \in Int /\ PendingEpoch(k) = reg[k].epoch + 1
      /\ IsReshare(k) <=> reg[k].epoch >= 0
      /\ \A n \in Node : shares[n][k] \in ShareRow(Share, Deal) \cup {Null}
  BY Types
<1>2. PendingEpoch(k)' = reg[k].epoch + 2 /\ reg'[k].epoch = reg[k].epoch + 1
  BY <1>1 DEF PendingEpoch
<1>3. /\ RunShare(k) \in Share /\ RunShare(k).secret = RunSecret(k)
  BY RunShareType, Types
<1>4. reg'[k].pk = RunSecret(k)
  BY ReshareSecret
<1>5. \A n \in Node : RowsSame(n, k)
  BY DEF ChainStep, RowsSame
<1>6. \A n \in Node :
        /\ Held(n, k)' = Held(n, k)
        /\ \A e : HasRow(n, k, e)' <=> HasRow(n, k, e)
        /\ \A e : HasPending(n, k, e)' <=> HasPending(n, k, e)
        /\ inProgress'[n][k] = inProgress[n][k] /\ shares'[n][k] = shares[n][k]
  BY <1>5, RowsFrame DEF RowsSame
<1>7. \A n \in Node : shares[n][k] # Null => shares[n][k].epoch \in Epoch
  BY <1>1 DEF ShareRow
<1>8. ASSUME NEW n \in Node PROVE DiskInv(n, k)'
  <2>1. \A d \in Epoch : HasRow(n, k, d)' => d <= reg[k].epoch + 1 /\ d \in Int
    BY <1>1, <1>6 DEF KeyShares, DiskInv, Epoch
  <2>2. \A d \in Epoch : ~(d = reg[k].epoch + 2 /\ HasPending(n, k, d)')
    BY <1>1, <2>1 DEF HasPending, HasRow
  <2>3. shares[n][k] # Null =>
          /\ DeletedShareNull(shares[n][k]) /\ shares[n][k].epoch <= reg[k].epoch + 1
          /\ shares[n][k].pk = reg'[k].pk
    <3> SUFFICES ASSUME shares[n][k] # Null
                 PROVE  /\ DeletedShareNull(shares[n][k])
                        /\ shares[n][k].epoch <= reg[k].epoch + 1
                        /\ shares[n][k].pk = reg'[k].pk
      OBVIOUS
    <3>1. /\ DeletedShareNull(shares[n][k]) /\ shares[n][k].epoch <= reg[k].epoch
          /\ shares[n][k].pk = reg[k].pk
      BY DEF KeyShares, DiskInv
    <3>2. shares[n][k].epoch \in Int /\ shares[n][k].epoch >= 0
      BY <1>7 DEF Epoch
    <3> QED
      BY <1>1, <3>1, <3>2
  <2>4. \A d \in Epoch : HasRow(n, k, d)' => d <= reg[k].epoch + 2
    BY <1>1, <2>1
  <2> QED
    BY <1>2, <1>6, <2>2, <2>3, <2>4 DEF DiskInv, DeletedShareNull
<1>9. ASSUME NEW e \in Epoch, e <= reg'[k].epoch
      PROVE  \E v \in Share : v.secret = reg'[k].pk /\ \A n \in Node : OneShare(n, k, e, v)'
  <2>1. CASE e = reg[k].epoch + 1
    <3>0. PICK v \in Share : v = RunShare(k)
      BY <1>3
    <3>1. ASSUME NEW n \in Node PROVE OneShare(n, k, e, v)'
      <4>1. Held(n, k) # e
        BY <1>1, <1>7, <2>1 DEF Held, KeyShares, DiskInv, Epoch
      <4>2. HasPending(n, k, e) /\ ~Doomed(n, k) => inProgress[n][k][e].pending = RunShare(k)
        BY <1>1, <2>1 DEF KeyShares, DiskInv
      <4>3. ~Doomed(n, k)' => ~Doomed(n, k)
        BY ChainAhead
      <4> QED
        BY <1>6, <3>0, <4>1, <4>2, <4>3 DEF OneShare
    <3> QED
      BY <1>3, <1>4, <3>0, <3>1
  <2>2. CASE e # reg[k].epoch + 1
    <3>1. e <= reg[k].epoch /\ e >= 0
      BY <1>1, <1>2, <1>9, <2>2 DEF Epoch
    <3>2. PICK v \in Share : v.secret = reg[k].pk /\ \A n \in Node : OneShare(n, k, e, v)
      BY <3>1 DEF KeyShares, EpochInv
    <3>3. reg'[k].pk = reg[k].pk
      BY <1>1, <3>1 DEF Epoch
    <3>4. \A n \in Node : OneShare(n, k, e, v)'
      BY <1>2, <1>6, <2>2, <3>2 DEF OneShare
    <3> QED
      BY <3>2, <3>3, <3>4
  <2> QED
    BY <2>1, <2>2
<1>10. EpochInv(k)'
  BY <1>9 DEF EpochInv
<1> QED
  BY <1>8, <1>10 DEF KeyShares

(* What the nodes deal after a step of the chain. *)
LEMMA SubmissionTypes ==
    ASSUME BaseInv, NEW n \in Node
    PROVE  /\ tx[n] # Null => tx[n] \in Submission /\ tx[n].key \in Key
           /\ \A t \in Pooled(n) : t \in Submission /\ t.key \in Key
<1>1. tx[n] \in Submission \cup {Null} /\ pool[n] \in Seq(Submission)
  BY DEF BaseInv, TypeInv, TypeOK
<1>2. \A t \in Pooled(n) : t \in Submission
  BY <1>1 DEF Pooled
<1> QED
  BY <1>1, <1>2 DEF Submission

LEMMA ChainNodes ==
    ASSUME BaseInv, NodesInv, NEW k \in Key, ChainStep(k), UNCHANGED <<pos, tx>>, PkKept,
           \A n \in Node : pc'[n] = pc[n] \/ (pc[n] = "sent" /\ pc'[n] \in {"done", "down"}),
           \A n \in Node : reg'[k].r1[n] = reg[k].r1[n] \/ DealsKey(k, reg'[k].r1[n])
    PROVE  NodesInv'
<1>1. \A j \in 1 .. Len(log) : log'[j] = log[j]
  BY LogTypes, LogAppend DEF ChainStep, BaseInv, TypeInv, TypeOK
<1>2. ASSUME NEW n \in Node PROVE WatcherInv(n)'
  <2>1. \A j \in Key : RowsSame(n, j)
    BY DEF ChainStep, RowsSame
  <2>2. CASE pc'[n] = pc[n]
    BY <1>1, <2>1, <2>2, WatcherFrame DEF NodesInv
  <2>3. CASE pc[n] = "sent" /\ pc'[n] \in {"done", "down"}
    <3>1. Ev(n).type # "KeyGenAbort" /\ pos[n] \in 1 .. Len(log)
      BY <2>3, EvType DEF NodesInv, WatcherInv, Busy, BaseInv
    <3>2. Ev(n)' = Ev(n)
      BY <1>1, <3>1 DEF Ev
    <3> QED
      BY <2>3, <3>1, <3>2 DEF WatcherInv
  <2> QED
    BY <2>2, <2>3
<1>3. ASSUME NEW n \in Node PROVE DealsInv(n)'
  <2>1. \A j \in Key : reg'[j].r1[n] = reg[j].r1[n] \/ DealsKey(j, reg'[j].r1[n])
    BY DEF ChainStep, OthersKept
  <2>2. \A j \in Key, d \in Epoch : inProgress'[n][j][d] # Null =>
          HasRow(n, j, d) /\ inProgress'[n][j][d].im = inProgress[n][j][d].im
    BY DEF ChainStep, HasRow
  <2>3. \A t \in Pooled(n)' : t.key \in Key /\ t \in Pooled(n)
    BY SubmissionTypes DEF ChainStep
  <2>4. tx'[n] # Null => tx'[n] = tx[n] /\ tx[n].key \in Key
    BY SubmissionTypes
  <2> QED
    BY <2>1, <2>2, <2>3, <2>4, DealsStep DEF NodesInv
<1> QED
  BY <1>2, <1>3 DEF NodesInv

(* The first round of a reshare: a new producer deals a share of the        *)
(* sharing before.                                                          *)
LEMMA DealersGrow ==
    ASSUME BaseInv, NEW n \in Node, NEW k \in Key, NEW s \in Submission, s.key = k, s.fn = "r1",
           CallResult(n, s) = "Ok", addRound1(n, k, s.im), DealersInv(k)
    PROVE  DealersInv(k)'
<1>1. RegistryInv /\ s.im \in Intermediate \cup {Null} /\ reg[k].round = "one"
  BY DEF BaseInv, TypeInv, Submission, CallResult, RoundOf
<1>2. /\ reg'[k].epoch = reg[k].epoch /\ reg'[k].prev = reg[k].prev
      /\ reg'[k].r1 = [reg[k].r1 EXCEPT ![n] = s.im]
      /\ reg'[k].producers = reg[k].producers \cup IF Produces(k, s.im) THEN {n} ELSE {}
      /\ reg'[k].round \in {"one", "stuck", "two"}
      /\ reg'[k].round = "two" => Cardinality(reg'[k].producers) >= Seats(k)
  BY <1>1, Round1Effect
<1>3. reg[k].r1 \in [Node -> Intermediate \cup {Null}] /\ reg[k].producers \subseteq Node
  BY <1>1, KeyTypes DEF KeyState
<1>4. /\ reg'[k].r1[n] = s.im /\ \A m \in Node : m # n => reg'[k].r1[m] = reg[k].r1[m]
      /\ IsReshare(k)' <=> IsReshare(k)
  BY <1>2, <1>3 DEF IsReshare
<1>5. Round1Result(n, k, s.im) = "Ok"
  BY <1>1 DEF CallResult, RoundOf
<1>6. n \notin reg[k].producers
  BY <1>5 DEF Round1Result
<1>7. ASSUME IsReshare(k), NEW p \in reg'[k].producers, reg'[k].r1[p] # Null
      PROVE  reg'[k].r1[p].old # Null /\ reg'[k].r1[p].old.deal = reg'[k].prev
  <2>1. CASE p = n
    <3>1. Produces(k, s.im) /\ s.im.poly
      BY <1>2, <1>6, <1>7, <2>1 DEF Produces
    <3>2. ForReshare(s.im) = IsReshare(k) /\ s.im.old.deal = reg[k].prev
      BY <1>5, <1>7, <3>1 DEF Round1Result
    <3>3. s.im.old # Null
      BY <1>7, <3>1, <3>2 DEF ForReshare
    <3> QED
      BY <1>2, <1>4, <2>1, <3>2, <3>3
  <2>2. CASE p # n
    <3>1. p \in reg[k].producers /\ p \in Node
      BY <1>2, <1>3, <1>7, <2>2
    <3> QED
      BY <1>1, <1>2, <1>4, <1>7, <2>2, <3>1 DEF DealersInv
  <2> QED
    BY <2>1, <2>2
<1>8. reg'[k].round = "two" => Cardinality(reg'[k].producers) >= Threshold
  <2>1. Cardinality(reg'[k].producers) \in Nat /\ Cardinality(Node) \in Nat
    BY <1>2, <1>3, FS_Subset, FS_CardinalityType, RegistryAssumption
  <2> QED
    BY <1>2, <2>1, RegistryAssumption DEF Seats
<1> QED
  BY <1>2, <1>4, <1>7, <1>8 DEF DealersInv

(* A mined transaction keeps the invariant. *)
LEMMA ReshareMine ==
    ASSUME ReshareInv, NEW n \in Node, Mine(n)
    PROVE  NodesInv' /\ KeysInv'
<1>1. BaseInv /\ RegistryInv /\ NodesInv /\ KeysInv
  BY DEF ReshareInv, BaseInv, TypeInv
<1>2. PICK s \in Submission : s = Head(pool[n]) /\ s \in Pooled(n)
  BY <1>1, PoolShrinks
<1>3. PICK k \in Key : k = s.key
  BY <1>1, <1>2, PoolShrinks
<1>4. /\ ExecuteSubmission(n, s) /\ UNCHANGED <<shares, inProgress, cursor, lost, pos, tx>>
      /\ \A m \in Node : Pooled(m)' \subseteq Pooled(m)
      /\ s.im \in Intermediate \cup {Null}
  BY <1>1, <1>2, PoolShrinks DEF Mine, dbVars, envVars
<1>5. \A m \in Node : pc'[m] = pc[m] \/ (pc[m] = "sent" /\ pc'[m] \in {"done", "down"})
  <2>1. DOMAIN pc = Node
    BY <1>1 DEF BaseInv, TypeInv, TypeOK
  <2>2. \/ pc' = pc
        \/ pc[n] = "sent" /\ \E q \in {"done", "down"} : pc' = [pc EXCEPT ![n] = q]
    BY DEF Mine, Goto
  <2> QED
    BY <2>1, <2>2
<1>6. LogInv(k) /\ DealersInv(k) /\ KeyShares(k) /\ \A m \in Node : DealsInv(m)
  BY <1>1 DEF NodesInv, KeysInv
<1>7. reg[k].r1 \in [Node -> Intermediate \cup {Null}] /\ reg[k].epoch \in Int
  BY <1>1, KeyTypes DEF KeyState
<1>8. CASE UNCHANGED <<reg, log>>
  <2>1. ChainStep(k) /\ PkKept
    BY <1>4, <1>8 DEF ChainStep, OthersKept, PkKept
  <2> QED
    BY <1>1, <1>4, <1>5, <1>8, <2>1, ChainNodes, KeysQuiet
<1>9. CASE CallResult(n, s) = "Ok" /\ s.fn = "r1" /\ addRound1(n, k, s.im)
  <2>1. reg[k].round = "one"
    BY <1>3, <1>9 DEF CallResult, RoundOf
  <2>2. /\ OthersKept(k)
        /\ reg'[k].epoch = reg[k].epoch /\ reg'[k].pk = reg[k].pk
        /\ reg'[k].r1 = [reg[k].r1 EXCEPT ![n] = s.im]
        /\ reg'[k].round \in {"one", "stuck", "two"}
        /\ \/ log' = log
           \/ \E ev \in Event : /\ Extends(ev) /\ ev.key = k
                                 /\ ev.type \in {"NotEnoughProducers", "SecretGenRound2"}
    BY <1>1, <1>4, <1>9, <2>1, Round1Effect
  <2>3. ChainStep(k) /\ PkKept
    BY <1>4, <2>2 DEF ChainStep, PkKept, OthersKept
  <2>4. \A i \in Of(k) : RunLog(k, i) => RunLog(k, i)'
    BY <1>1, <1>2, <1>3, <1>4, <1>9, RunLogKept
  <2>5. log' # log => log'[Len(log) + 1].type \notin Round1Types \cup {"SecretGenFinalize"}
    BY <1>1, <1>4, <2>2, LogGrows DEF Round1Types
  <2>6. Running(k) /\ Running(k)'
    BY <2>1, <2>2 DEF Running
  <2>7. LogInv(k)'
    BY <1>1, <1>6, <2>2, <2>3, <2>4, <2>5, <2>6, LogGoesOn
  <2>8. DealersInv(k)'
    BY <1>1, <1>3, <1>6, <1>9, DealersGrow
  <2>9. KeyShares(k)'
    BY <1>1, <1>6, <2>1, <2>2, <2>3, SharesGoOn
  <2>10. \A m \in Node : reg'[k].r1[m] = reg[k].r1[m] \/ DealsKey(k, reg'[k].r1[m])
    <3>1. DealsKey(k, s.im)
      BY <1>2, <1>3, <1>6 DEF DealsInv
    <3> QED
      BY <1>7, <2>2, <3>1
  <2> QED
    BY <1>1, <1>4, <1>5, <2>3, <2>7, <2>8, <2>9, <2>10, ChainNodes, ChainOthers
<1>10. CASE CallResult(n, s) = "Ok" /\ s.fn = "r2" /\ addRound2(n, k)
  <2>1. reg[k].round = "two"
    BY <1>3, <1>10 DEF CallResult, RoundOf
  <2>2. /\ OthersKept(k)
        /\ reg'[k].epoch = reg[k].epoch /\ reg'[k].pk = reg[k].pk /\ reg'[k].prev = reg[k].prev
        /\ reg'[k].r1 = reg[k].r1 /\ reg'[k].producers = reg[k].producers
        /\ reg'[k].round \in {"two", "three"}
        /\ \/ log' = log
           \/ \E ev \in Event : Extends(ev) /\ ev.key = k /\ ev.type \in Round3Types
    BY <1>1, <1>4, <1>10, <2>1, Round2Effect DEF Round3Types
  <2>3. ChainStep(k) /\ PkKept
    BY <1>4, <2>2 DEF ChainStep, PkKept, OthersKept
  <2>4. \A i \in Of(k) : RunLog(k, i) => RunLog(k, i)'
    BY <1>1, <1>2, <1>3, <1>4, <1>10, RunLogKept
  <2>5. log' # log => log'[Len(log) + 1].type \notin Round1Types \cup {"SecretGenFinalize"}
    BY <1>1, <1>4, <2>2, LogGrows DEF Round1Types, Round3Types
  <2>6. Running(k) /\ Running(k)'
    BY <2>1, <2>2 DEF Running
  <2>7. LogInv(k)'
    BY <1>1, <1>6, <2>2, <2>3, <2>4, <2>5, <2>6, LogGoesOn
  <2>8. DealersInv(k)'
    BY <1>6, <2>1, <2>2 DEF DealersInv, IsReshare
  <2>9. KeyShares(k)'
    BY <1>1, <1>6, <2>1, <2>2, <2>3, SharesGoOn DEF Round3Types
  <2> QED
    BY <1>1, <1>4, <1>5, <2>2, <2>3, <2>7, <2>8, <2>9, ChainNodes, ChainOthers
<1>11. CASE CallResult(n, s) = "Ok" /\ s.fn = "r3" /\ addRound3(n, k)
  <2>1. reg[k].round = "three" /\ Running(k)
    BY <1>3, <1>11 DEF CallResult, RoundOf, Running
  <2>2. /\ OthersKept(k)
        /\ \/ /\ reg'[k].round = "three" /\ log' = log
              /\ reg'[k].epoch = reg[k].epoch /\ reg'[k].pk = reg[k].pk
              /\ reg'[k].r1 = reg[k].r1 /\ reg'[k].producers = reg[k].producers
              /\ reg'[k].prev = reg[k].prev
           \/ /\ reg'[k].round = "idle" /\ reg'[k].r1 = NoContributions
              /\ reg'[k].epoch = PendingEpoch(k)
              /\ reg'[k].pk = IF IsReshare(k) THEN reg[k].pk ELSE RunSecret(k)
              /\ \E ev \in Event : /\ Extends(ev) /\ ev.key = k /\ ev.epoch = PendingEpoch(k)
                                    /\ ev.type = "SecretGenFinalize"
    BY <1>1, <1>11, <2>1, Round3Effect
  <2>3. ChainStep(k)
    BY <1>4, <2>2 DEF ChainStep
  <2>4. CASE reg'[k].round = "three"
    <3>1. /\ log' = log /\ reg'[k].epoch = reg[k].epoch /\ reg'[k].pk = reg[k].pk
          /\ reg'[k].r1 = reg[k].r1 /\ reg'[k].producers = reg[k].producers
          /\ reg'[k].prev = reg[k].prev
      BY <2>2, <2>4
    <3>2. RunShare(k)' = RunShare(k)
      BY <3>1 DEF RunShare, RunDeal, RunSecret, IsReshare
    <3>3. \A i \in Of(k) : RunLog(k, i) => RunLog(k, i)'
      BY <1>1, <1>2, <1>3, <1>4, <1>11, <2>4, RunLogKept
    <3>4. LogInv(k)'
      BY <1>1, <1>6, <2>1, <2>3, <2>4, <3>1, <3>3, LogGoesOn DEF Running
    <3>5. DealersInv(k)'
      BY <1>6, <2>1, <2>4, <3>1 DEF DealersInv, IsReshare
    <3>6. KeyShares(k)'
      BY <1>1, <1>6, <2>3, <2>4, <3>1, <3>2, SharesGoOn
    <3>7. PkKept
      BY <2>2, <3>1 DEF PkKept, OthersKept
    <3> QED
      BY <1>1, <1>4, <1>5, <2>3, <3>1, <3>4, <3>5, <3>6, <3>7, ChainNodes, ChainOthers
  <2>5. CASE reg'[k].round = "idle"
    <3>1. PICK ev \in Event : /\ Extends(ev) /\ ev.key = k /\ ev.epoch = PendingEpoch(k)
                              /\ ev.type = "SecretGenFinalize"
      BY <2>2, <2>5
    <3>2. /\ reg'[k].epoch = PendingEpoch(k) /\ reg'[k].r1 = NoContributions
          /\ reg'[k].pk = IF IsReshare(k) THEN reg[k].pk ELSE RunSecret(k)
      BY <2>2, <2>5
    <3>3. LogInv(k)'
      BY <1>1, <1>6, <2>1, <2>3, <2>5, <3>1, <3>2, LogEnds DEF Running
    <3>4. DealersInv(k)'
      BY <2>5 DEF DealersInv
    <3>5. KeyShares(k)'
      BY <1>1, <1>6, <2>1, <2>3, <2>5, <3>2, SharesFinal
    <3>6. PkKept
      BY <1>1, <1>7, <2>2, <3>2, Types DEF PkKept, OthersKept
    <3>7. \A m \in Node : DealsKey(k, reg'[k].r1[m])
      BY <3>2 DEF DealsKey, NoContributions
    <3> QED
      BY <1>1, <1>4, <1>5, <2>3, <3>3, <3>4, <3>5, <3>6, <3>7, ChainNodes, ChainOthers
  <2> QED
    BY <2>2, <2>4, <2>5
<1> QED
  BY <1>3, <1>4, <1>8, <1>9, <1>10, <1>11 DEF ExecuteSubmission

(* A call of the administrator keeps it: a run starts when every node has   *)
(* handled the finalisation before it.                                      *)
LEMMA ReshareAdmin ==
    ASSUME ReshareWaits, ReshareInv, NEW k \in Key, Admin(k)
    PROVE  NodesInv' /\ KeysInv'
<1>1. BaseInv /\ RegistryInv /\ NodesInv /\ KeysInv /\ LogInv(k) /\ KeyShares(k)
  BY DEF ReshareInv, BaseInv, TypeInv, KeysInv
<1>2. /\ UNCHANGED <<shares, inProgress, cursor, lost, pc, pos, tx>>
      /\ \A m \in Node : Pooled(m)' \subseteq Pooled(m)
  BY DEF Admin, dbVars, memVars, Pooled
<1>3. CASE FinalizeHandled(k) /\ (initKeyGen(k) \/ initReshare(k))
  <2>1. /\ OthersKept(k)
        /\ reg[k].round \in {"none", "idle"} /\ reg'[k].round = "one"
        /\ reg'[k].epoch = reg[k].epoch /\ reg'[k].pk = reg[k].pk
        /\ reg'[k].r1 = NoContributions /\ reg'[k].producers = {}
    BY <1>1, <1>3, InitEffect
  <2>2. PICK ev \in Event : /\ Extends(ev) /\ ev.key = k /\ ev.epoch = PendingEpoch(k)
                            /\ ev.type \in Round1Types
    BY <1>1, <1>3, InitEffect DEF Round1Types
  <2>3. ChainStep(k) /\ PkKept
    BY <1>2, <2>1, <2>2 DEF ChainStep, PkKept, OthersKept
  <2>4. LogInv(k)'
    BY <1>1, <1>3, <2>1, <2>2, <2>3, LogStarts
  <2>5. DealersInv(k)'
    BY <2>1 DEF DealersInv
  <2>6. KeyShares(k)'
    <3>1. ev.type # "SecretGenFinalize"
      BY <2>2 DEF Round1Types
    <3> QED
      BY <1>1, <2>1, <2>2, <2>3, <3>1, SharesGoOn
  <2>7. \A m \in Node : DealsKey(k, reg'[k].r1[m])
    BY <2>1 DEF DealsKey, NoContributions
  <2>8. NodesInv'
    BY <1>1, <1>2, <2>3, <2>7, ChainNodes
  <2> QED
    BY <1>1, <2>3, <2>4, <2>5, <2>6, <2>8, ChainOthers
<1>4. CASE abortKeyGen(k) \/ deleteOprfPublicKey(k)
  <2>1. /\ OthersKept(k)
        /\ reg'[k].round \in {"none", "idle", "deleted"}
        /\ reg'[k].epoch = reg[k].epoch /\ reg'[k].pk = reg[k].pk
        /\ reg'[k].r1 = NoContributions
        /\ IF reg'[k].round = "deleted" THEN reg[k].round = "idle" ELSE Running(k)
    BY <1>1, <1>4, EndEffect
  <2>2. PICK ev \in Event : /\ Extends(ev) /\ ev.key = k
                            /\ ev.type = IF reg'[k].round = "deleted" THEN "KeyDeletion"
                                         ELSE "KeyGenAbort"
    BY <1>1, <1>4, EndEffect
  <2>3. ChainStep(k) /\ PkKept
    BY <1>2, <2>1, <2>2 DEF ChainStep, PkKept, OthersKept
  <2>4. ~Running(k)'
    BY <2>1 DEF Running
  <2>5. LogInv(k)'
    BY <1>1, <2>1, <2>2, <2>3, <2>4, LogEnds
  <2>6. DealersInv(k)'
    BY <2>1 DEF DealersInv
  <2>7. KeyShares(k)'
    <3>1. ev.type # "SecretGenFinalize" /\ (reg[k].round # "three" \/ ev.type = "KeyGenAbort")
      BY <2>1, <2>2
    <3> QED
      BY <1>1, <2>1, <2>2, <2>3, <3>1, SharesGoOn
  <2>8. \A m \in Node : DealsKey(k, reg'[k].r1[m])
    BY <2>1 DEF DealsKey, NoContributions
  <2>9. NodesInv'
    BY <1>1, <1>2, <2>3, <2>8, ChainNodes
  <2> QED
    BY <1>1, <2>3, <2>5, <2>6, <2>7, <2>9, ChainOthers
<1> QED
  BY <1>3, <1>4 DEF Admin

-----------------------------------------------------------------------------
(* Steps of a node. *)

(* The other nodes. *)
LEMMA OtherDeals ==
    ASSUME BaseInv, NodesInv, NEW n \in Node, LocalStep(n), NEW m \in Node, m # n,
           Pooled(m)' = Pooled(m)
    PROVE  WatcherInv(m)' /\ DealsInv(m)'
<1>1. WatcherInv(m)'
  BY WatcherFrame DEF NodesInv, LocalStep
<1>2. \A j \in Key, d \in Epoch : inProgress'[m][j][d] # Null =>
        HasRow(m, j, d) /\ inProgress'[m][j][d].im = inProgress[m][j][d].im
  BY DEF LocalStep, RowsSame, HasRow
<1>3. PkKept /\ tx'[m] = tx[m] /\ \A j \in Key : reg'[j].r1[m] = reg[j].r1[m]
  BY DEF PkKept, LocalStep
<1>4. DealsInv(m)'
  BY <1>2, <1>3, SubmissionTypes, DealsStep DEF NodesInv
<1> QED
  BY <1>1, <1>4

(* The rows that a handler writes, and what it submits, deal the key. *)
LEMMA HandlerDeals ==
    ASSUME BaseInv, NEW n \in Node, DealsInv(n), reg' = reg, Pooled(n)' = Pooled(n),
           NEW k \in Key, \A j \in Key : j # k => RowsSame(n, j),
           tx'[n] # Null => \/ tx'[n] = tx[n]
                            \/ tx'[n].key \in Key /\ DealsKey(tx'[n].key, tx'[n].im),
           \A d \in Epoch : inProgress'[n][k][d] # Null =>
               \/ HasRow(n, k, d) /\ inProgress'[n][k][d].im = inProgress[n][k][d].im
               \/ DealsKey(k, inProgress'[n][k][d].im)
    PROVE  DealsInv(n)'
<1>1. \A j \in Key, d \in Epoch : inProgress'[n][j][d] # Null =>
        \/ HasRow(n, j, d) /\ inProgress'[n][j][d].im = inProgress[n][j][d].im
        \/ DealsKey(j, inProgress'[n][j][d].im)
  <2>1. ASSUME NEW j \in Key, NEW d \in Epoch, inProgress'[n][j][d] # Null, j # k
        PROVE  HasRow(n, j, d) /\ inProgress'[n][j][d].im = inProgress[n][j][d].im
    BY <2>1 DEF RowsSame, HasRow
  <2> QED
    BY <2>1
<1>2. PkKept
  BY DEF PkKept
<1> QED
  BY <1>1, <1>2, SubmissionTypes, DealsStep

(* The first round: a node deals the share it holds. *)
LEMMA FirstHandlers ==
    ASSUME ReshareInv, NEW n \in Node, keygen_round1(n) \/ reshare_round1(n)
    PROVE  KeysInv' /\ WatcherInv(n)' /\ DealsInv(n)'
<1>1. BaseInv /\ KeysInv /\ DealsInv(n)
  BY DEF ReshareInv, NodesInv
<1>2. pc[n] = "handle" /\ Ev(n).type \in Round1Types
  BY DEF keygen_round1, reshare_round1, Handling, Round1Types
<1>3. PICK k \in Key : k = Ev(n).key /\ LogInv(k) /\ KeyShares(k)
  BY <1>1, <1>2, Handled DEF Busy, KeysInv
<1>4. /\ reg[k].epoch \in Int /\ reg[k].epoch >= -1 /\ PendingEpoch(k) = reg[k].epoch + 1
      /\ shares[n][k] \in ShareRow(Share, Deal) \cup {Null} /\ 0 \in Epoch
      /\ serial[n] + 1 \in Nat /\ DOMAIN pc = Node /\ DOMAIN tx = Node
  BY <1>1, Types, MaxEpochAssumption DEF Epoch, BaseInv, TypeInv, TypeOK
<1>5. PICK e \in Epoch, im \in Intermediate :
        e <= PendingEpoch(k) /\ Round1With(n, k, e, im) /\ DealsKey(k, im)
  <2>1. CASE keygen_round1(n)
    <3> DEFINE im == [id |-> serial[n] + 1, poly |-> TRUE, old |-> Null]
    <3>1. im \in Intermediate /\ im.old = Null
      BY <1>4 DEF Intermediate
    <3>2. Round1With(n, k, 0, im)
      BY <1>3, <2>1 DEF keygen_round1
    <3>3. 0 <= PendingEpoch(k)
      BY <1>4
    <3> HIDE DEF im
    <3> QED
      BY <1>4, <3>1, <3>2, <3>3 DEF DealsKey
  <2>2. CASE reshare_round1(n)
    <3>1. PICK e \in Epoch : e = Ev(n).epoch
      BY <1>1, <1>2, Handled DEF Busy
    <3>2. e <= PendingEpoch(k)
      <4>1. pos[n] \in Of(k) /\ Ev(n) = log[pos[n]]
        BY <1>1, <1>2, <1>3, Handled DEF Busy, Ahead
      <4> QED
        BY <1>2, <1>3, <3>1, <4>1 DEF LogInv
    <3> DEFINE old == GetShareByEpoch(shares[n][k], Prev(e))
               im == [id |-> serial[n] + 1, poly |-> old # Null, old |-> old]
    <3>3. Prev(e) \in Epoch
      BY <3>1, MaxEpochAssumption DEF Prev, Epoch
    <3>4. old \in Share \cup {Null}
      BY <1>4, <3>3, GetShareByEpochType
    <3>5. im \in Intermediate /\ im.old = old
      BY <1>4, <3>4 DEF Intermediate
    <3>6. Round1With(n, k, e, im)
      BY <1>3, <2>2, <3>1 DEF reshare_round1, ReshareIntermediates
    <3>7. old # Null => reg[k].epoch >= 0 /\ old.secret = reg[k].pk
      <4> SUFFICES ASSUME old # Null PROVE reg[k].epoch >= 0 /\ old.secret = reg[k].pk
        OBVIOUS
      <4>1. /\ shares[n][k] # Null /\ shares[n][k].epoch = Prev(e) /\ Held(n, k) = Prev(e)
            /\ old = shares[n][k].share
        BY DEF GetShareByEpoch, Held
      <4>2. Prev(e) <= reg[k].epoch
        BY <1>3, <4>1 DEF KeyShares, DiskInv
      <4>3. PICK v \in Share : v.secret = reg[k].pk /\ OneShare(n, k, Prev(e), v)
        BY <1>3, <3>3, <4>2 DEF KeyShares, EpochInv
      <4>4. old = v
        BY <4>1, <4>3 DEF OneShare
      <4>5. reg[k].epoch >= 0
        BY <1>4, <3>3, <4>2 DEF Epoch
      <4> QED
        BY <4>3, <4>4, <4>5
    <3> HIDE DEF im, old
    <3>8. DealsKey(k, im)
      BY <3>5, <3>7 DEF DealsKey
    <3> QED
      BY <3>2, <3>5, <3>6, <3>8
  <2> QED
    BY <2>1, <2>2
<1>6. /\ KeysInv' /\ HasRow(n, k, e)' /\ RowStep(n, k)
      /\ \A d \in Epoch : HasRow(n, k, d)' =>
            \/ HasRow(n, k, d) /\ inProgress'[n][k][d].im = inProgress[n][k][d].im
            \/ inProgress'[n][k][d].im = im
  BY <1>1, <1>5, FirstRows
<1>7. /\ pc'[n] = "submit" /\ tx'[n].key = k /\ tx'[n].im = inProgress'[n][k][e].im
      /\ pos' = pos /\ log' = log /\ reg' = reg
  BY <1>4, <1>5 DEF Round1With, ToSubmit, Goto, chainVars
<1>8. WatcherInv(n)'
  BY <1>2, <1>7 DEF WatcherInv, Ev, Round1Types
<1>9. DealsKey(k, inProgress'[n][k][e].im)
  BY <1>1, <1>5, <1>6 DEF DealsInv
<1>10. DealsInv(n)'
  <2>1. \A j \in Key : j # k => RowsSame(n, j)
    BY <1>6 DEF RowStep
  <2>2. \A d \in Epoch : inProgress'[n][k][d] # Null =>
            \/ HasRow(n, k, d) /\ inProgress'[n][k][d].im = inProgress[n][k][d].im
            \/ DealsKey(k, inProgress'[n][k][d].im)
    BY <1>5, <1>6 DEF HasRow
  <2>3. Pooled(n)' = Pooled(n)
    BY <1>6 DEF RowStep, Pooled
  <2> QED
    BY <1>1, <1>7, <1>9, <2>1, <2>2, <2>3, HandlerDeals
<1> QED
  BY <1>6, <1>8, <1>10

(* The handlers that write nothing. *)
LEMMA SecondHandlers ==
    ASSUME ReshareInv, NEW n \in Node, round2(n) \/ not_enough_producers(n)
    PROVE  KeysInv' /\ WatcherInv(n)' /\ DealsInv(n)'
<1>1. BaseInv /\ KeysInv /\ DealsInv(n) /\ DOMAIN pc = Node /\ DOMAIN tx = Node
  BY DEF ReshareInv, NodesInv, BaseInv, TypeInv, TypeOK
<1>2. /\ pc[n] = "handle" /\ Ev(n).type \in {"SecretGenRound2", "NotEnoughProducers"}
      /\ UNCHANGED <<reg, log, cursor, lost, pool, shares, inProgress, pos>>
  BY DEF round2, not_enough_producers, Handling, chainVars, dbVars, envVars
<1>3. PICK k \in Key, e \in Epoch : k = Ev(n).key /\ e = Ev(n).epoch
  BY <1>1, <1>2, Handled DEF Busy
<1>4. KeysInv'
  BY <1>1, <1>2, KeysQuiet
<1>5. WatcherInv(n)'
  BY <1>2 DEF WatcherInv, Ev
<1>6. \/ tx' = tx
      \/ tx'[n].key = k /\ HasRow(n, k, e) /\ tx'[n].im = inProgress[n][k][e].im
  <2>1. CASE not_enough_producers(n)
    BY <2>1 DEF not_enough_producers, EndHandler
  <2>2. CASE round2(n)
    <3> DEFINE row == inProgress[n][k][e]
               fetched == fetch_producer_public_keys(n, k)
               result == IF fetched = "Ok" THEN producer_round2(row) ELSE fetched
    <3>1. \/ result = "Ok" /\ ToSubmit(n, "r2", k, row.im, reg[k].r1)
          \/ tx' = tx
      BY <1>3, <2>2 DEF round2, EndHandler
    <3>2. result = "Ok" => row # Null
      BY DEF producer_round2
    <3> HIDE DEF result
    <3>3. ToSubmit(n, "r2", k, row.im, reg[k].r1) => tx'[n].key = k /\ tx'[n].im = row.im
      BY <1>1 DEF ToSubmit
    <3> QED
      BY <3>1, <3>2, <3>3 DEF HasRow
  <2> QED
    BY <2>1, <2>2
<1>7. tx'[n] # Null => tx'[n] = tx[n] \/ (tx'[n].key \in Key /\ DealsKey(tx'[n].key, tx'[n].im))
  BY <1>1, <1>6 DEF DealsInv
<1>8. DealsInv(n)'
  BY <1>1, <1>2, <1>7, HandlerDeals DEF Pooled, RowsSame, HasRow
<1> QED
  BY <1>4, <1>5, <1>8

(* The handler of the third round. *)
LEMMA ThirdHandler ==
    ASSUME ReshareInv, NEW n \in Node, round3(n)
    PROVE  KeysInv' /\ WatcherInv(n)' /\ DealsInv(n)'
<1>1. BaseInv /\ KeysInv /\ DealsInv(n) /\ DOMAIN pc = Node /\ DOMAIN tx = Node
  BY DEF ReshareInv, NodesInv, BaseInv, TypeInv, TypeOK
<1>2. /\ pc[n] = "handle" /\ Ev(n).type \in Round3Types
      /\ UNCHANGED <<reg, log, cursor, lost, pool, shares, pos>>
      /\ UNCHANGED <<chainVars, shares, cursor, pool, envVars>>
  BY DEF round3, Handling, chainVars, envVars, Round3Types
<1>3. PICK k \in Key, e \in Epoch : k = Ev(n).key /\ e = Ev(n).epoch
  BY <1>1, <1>2, Handled DEF Busy
<1>4. WatcherInv(n)'
  BY <1>2 DEF WatcherInv, Ev, Round3Types
<1>5. CASE /\ FetchRound3Inputs(k) = "Ok" /\ SecretGenRound3(n, k, inProgress[n][k][e]) = "Ok"
           /\ inProgress' = [inProgress EXCEPT ![n][k] = StorePendingShare(@, e,
                 decrypt_key_gen_ciphertexts(n, k, inProgress[n][k][e].im, Ev(n)))]
           /\ ToSubmit(n, "r3", k, Null, Null)
  <2>1. /\ KeysInv' /\ RowStep(n, k)
        /\ \A d \in Epoch : HasRow(n, k, d)' =>
              HasRow(n, k, d) /\ inProgress'[n][k][d].im = inProgress[n][k][d].im
    BY <1>1, <1>2, <1>3, <1>5, ThirdRows
  <2>2. tx'[n].key = k /\ DealsKey(k, tx'[n].im)
    BY <1>1, <1>5 DEF ToSubmit, DealsKey
  <2>3. DealsInv(n)'
    BY <1>1, <1>2, <2>1, <2>2, HandlerDeals DEF RowStep, Pooled, HasRow
  <2> QED
    BY <1>4, <2>1, <2>3
<1>6. CASE UNCHANGED <<inProgress, tx>>
  <2>1. KeysInv'
    BY <1>1, <1>2, <1>6, KeysQuiet
  <2>2. DealsInv(n)'
    BY <1>1, <1>2, <1>3, <1>6, HandlerDeals DEF Pooled, RowsSame, HasRow
  <2> QED
    BY <1>4, <2>1, <2>2
<1> QED
  <2> DEFINE row == inProgress[n][k][e]
             fetched == FetchRound3Inputs(k)
             result == IF fetched = "Ok" THEN SecretGenRound3(n, k, row) ELSE fetched
  <2>1. \/ /\ result = "Ok"
           /\ inProgress' = [inProgress EXCEPT ![n][k] = StorePendingShare(@, e,
                 decrypt_key_gen_ciphertexts(n, k, inProgress[n][k][e].im, Ev(n)))]
           /\ ToSubmit(n, "r3", k, Null, Null)
        \/ UNCHANGED <<inProgress, tx>>
    BY <1>3 DEF round3, EndHandler
  <2>2. result = "Ok" => fetched = "Ok" /\ SecretGenRound3(n, k, row) = "Ok"
    OBVIOUS
  <2> HIDE DEF result
  <2> QED
    BY <1>5, <1>6, <2>1, <2>2

(* The handlers of a finalisation, a deletion and an abort. *)
LEMMA LastHandlers ==
    ASSUME ReshareInv, NEW n \in Node, finalize(n) \/ delete(n) \/ abort(n)
    PROVE  KeysInv' /\ WatcherInv(n)' /\ DealsInv(n)'
<1>1. BaseInv /\ KeysInv /\ DealsInv(n)
  BY DEF ReshareInv, NodesInv
<1>2. /\ pc[n] = "handle" /\ Ev(n).type \in {"SecretGenFinalize", "KeyDeletion", "KeyGenAbort"}
      /\ UNCHANGED <<reg, log, cursor, lost, pool, tx, pos>>
      /\ UNCHANGED <<chainVars, cursor, pool, envVars>>
      /\ \E result : EndHandler(n, result)
  BY DEF finalize, delete, abort, Handling, chainVars, envVars, EndHandler
<1>3. PICK k \in Key, e \in Epoch : k = Ev(n).key /\ e = Ev(n).epoch
  BY <1>1, <1>2, Handled DEF Busy
<1>4. pc'[n] \in {"done", "down"} /\ Ev(n)' = Ev(n)
  BY <1>1, <1>2, EndHandlerPc DEF Ev
<1>5. \/ UNCHANGED <<shares, inProgress>> /\ Ev(n).type = "SecretGenFinalize"
      \/ KeysInv' /\ RowStep(n, k) /\ inProgress'[n][k] = NoIntermediates
  <2>1. CASE delete(n) \/ abort(n)
    <3>1. /\ shares' = shares \/ shares' = [shares EXCEPT ![n][k] = SoftDeleteShares(@)]
          /\ inProgress' = [inProgress EXCEPT ![n][k] = DeleteIntermediates(@)]
      BY <1>3, <2>1 DEF delete, abort
    <3> QED
      BY <1>1, <1>2, <3>1, DeletedRows
  <2>2. CASE finalize(n)
    <3> DEFINE row == shares[n][k]
               ip == inProgress[n][k]
               fetched == fetch_oprf_public_key(k)
               result == IF fetched = "Ok" THEN ConfirmOutcome(row, ip, e) ELSE fetched
    <3>1. IF result = "Ok"
          THEN /\ shares' = [shares EXCEPT ![n][k] = ConfirmRow(row, ip, e, reg[k].pk)]
               /\ inProgress' = [inProgress EXCEPT ![n][k] = DeleteIntermediates(@)]
          ELSE UNCHANGED <<shares, inProgress>>
      BY <1>3, <2>2 DEF finalize
    <3>2. Ev(n).type = "SecretGenFinalize"
      BY <2>2 DEF finalize, Handling
    <3>3. CASE result = "Ok"
      <4>1. fetched = "Ok" /\ ConfirmOutcome(row, ip, e) = "Ok"
        BY <3>3
      <4> QED
        BY <1>1, <1>2, <1>3, <3>1, <3>2, <3>3, <4>1, ConfirmRows
    <3> QED
      BY <3>1, <3>2, <3>3
  <2> QED
    BY <2>1, <2>2
<1>6. KeysInv'
  BY <1>1, <1>2, <1>5, KeysQuiet
<1>7. WatcherInv(n)'
  BY <1>3, <1>4, <1>5 DEF WatcherInv
<1>8. \A d \in Epoch : inProgress'[n][k][d] # Null =>
        HasRow(n, k, d) /\ inProgress'[n][k][d].im = inProgress[n][k][d].im
  BY <1>5 DEF NoIntermediates, HasRow
<1>9. \A j \in Key : j # k => RowsSame(n, j)
  BY <1>5 DEF RowStep, RowsSame
<1>10. DealsInv(n)'
  BY <1>1, <1>2, <1>8, <1>9, HandlerDeals DEF Pooled
<1> QED
  BY <1>6, <1>7, <1>10

(* A handler keeps the invariant. *)
LEMMA ReshareHandle ==
    ASSUME ReshareInv, NEW n \in Node, handle(n)
    PROVE  NodesInv' /\ KeysInv'
<1>1. BaseInv /\ NodesInv
  BY DEF ReshareInv
<1>2. KeysInv' /\ WatcherInv(n)' /\ DealsInv(n)'
  BY FirstHandlers, SecondHandlers, ThirdHandler, LastHandlers DEF handle
<1>3. pool' = pool
  BY DEF handle, keygen_round1, reshare_round1, Round1With, round2, round3, finalize, delete,
         abort, not_enough_producers
<1>4. ASSUME NEW m \in Node, m # n PROVE WatcherInv(m)' /\ DealsInv(m)'
  BY <1>1, <1>3, <1>4, HandleLocal, OtherDeals DEF Pooled
<1> QED
  BY <1>2, <1>4 DEF NodesInv

(* What node n has in its rows, its memory and its pool stays. *)
LEMMA DealsFrame ==
    ASSUME BaseInv, NEW n \in Node, DealsInv(n), reg' = reg, inProgress' = inProgress,
           tx'[n] = tx[n] \/ tx'[n] = Null, Pooled(n)' \subseteq Pooled(n) \cup {tx[n]},
           tx[n] \in Pooled(n)' => tx[n] \in Pooled(n) \/ tx[n] # Null
    PROVE  DealsInv(n)'
<1>1. PkKept /\ \A j \in Key : reg'[j].r1[n] = reg[j].r1[n]
  BY DEF PkKept
<1>2. \A j \in Key, d \in Epoch : inProgress'[n][j][d] # Null =>
        HasRow(n, j, d) /\ inProgress'[n][j][d].im = inProgress[n][j][d].im
  BY DEF HasRow
<1>3. \A t \in Pooled(n)' : t.key \in Key /\ (t \in Pooled(n) \/ DealsKey(t.key, t.im))
  BY SubmissionTypes DEF DealsInv
<1> QED
  BY <1>1, <1>2, <1>3, SubmissionTypes, DealsStep

(* A transaction is sent. *)
LEMMA SentPool ==
    ASSUME BaseInv, NEW n \in Node, pc[n] = "submit",
           pool' = [pool EXCEPT ![n] = Append(@, tx[n])]
    PROVE  /\ tx[n] # Null
           /\ \A m \in Node : m # n => Pooled(m)' = Pooled(m)
           /\ Pooled(n)' \subseteq Pooled(n) \cup {tx[n]}
<1>1. tx[n] \in Submission /\ pool \in [Node -> Seq(Submission)]
  BY DEF BaseInv, TypeInv, TypeOK
<1>2. /\ pool[n] \in Seq(Submission) /\ pool'[n] = Append(pool[n], tx[n])
      /\ \A m \in Node : m # n => pool'[m] = pool[m]
  BY <1>1
<1>3. /\ Len(pool'[n]) = Len(pool[n]) + 1 /\ Len(pool[n]) \in Nat
      /\ \A x \in 1 .. Len(pool[n]) : pool'[n][x] = pool[n][x]
      /\ pool'[n][Len(pool[n]) + 1] = tx[n]
  BY <1>1, <1>2
<1> QED
  BY <1>1, <1>2, <1>3, ProtocolAssumption DEF Pooled

(* The steps of a node outside its handlers. *)
LEMMA ReshareNode ==
    ASSUME Late, ReshareInv, NEW n \in Node,
           \/ Start(n) \/ NextLog(n) \/ submit(n) \/ StoreCursor(n) \/ FetchCheckpoint(n)
           \/ StoreCheckpoint(n) \/ Crash(n) \/ LoseShares(n)
    PROVE  NodesInv' /\ KeysInv'
<1>1. /\ BaseInv /\ NodesInv /\ KeysInv /\ TypeInv /\ CursorInv
      /\ WatcherInv(n) /\ DealsInv(n)
  BY DEF ReshareInv, BaseInv, NodesInv
<1>2. /\ DOMAIN pc = Node /\ DOMAIN tx = Node /\ DOMAIN pos = Node /\ DOMAIN shares = Node
      /\ DOMAIN inProgress = Node
  BY <1>1 DEF TypeInv, TypeOK
<1>3. CASE LoseShares(n)
  <2>1. /\ UNCHANGED <<reg, log, pc, pos, tx, pool, inProgress>> /\ pc[n] = "watch"
        /\ \A m \in Node : m # n => \A k \in Key : RowsSame(m, k)
    BY <1>2, <1>3 DEF LoseShares, chainVars, memVars, RowsSame
  <2>2. ASSUME NEW m \in Node PROVE WatcherInv(m)'
    <3>1. CASE m = n
      BY <2>1, <3>1 DEF WatcherInv
    <3>2. CASE m # n
      BY <1>1, <2>1, <3>2, WatcherFrame DEF NodesInv
    <3> QED
      BY <3>1, <3>2
  <2>3. ASSUME NEW m \in Node PROVE DealsInv(m)'
    BY <1>1, <2>1, DealsFrame DEF NodesInv, Pooled
  <2> QED
    BY <1>1, <1>3, <2>2, <2>3, KeysLose DEF NodesInv
<1>4. CASE StoreCursor(n)
  <2>1. LocalStep(n) /\ pc'[n] = "watch" /\ UNCHANGED <<reg, inProgress, tx, pool>>
    BY <1>2, <1>4 DEF StoreCursor, Goto, LocalStep, RowsSame, chainVars, envVars
  <2>2. WatcherInv(n)' /\ DealsInv(n)'
    BY <1>1, <2>1, DealsFrame DEF WatcherInv, Pooled
  <2>3. \A m \in Node : m # n => WatcherInv(m)' /\ DealsInv(m)'
    BY <1>1, <2>1, OtherDeals DEF Pooled
  <2> QED
    BY <1>1, <1>4, <2>2, <2>3, KeysCursor DEF NodesInv
<1>5. CASE submit(n)
  <2>1. /\ LocalStep(n) /\ pc'[n] \in {"sent", "done", "down"} /\ pc[n] = "submit"
        /\ UNCHANGED <<reg, log, cursor, shares, inProgress, tx, pos>>
    BY <1>2, <1>5 DEF submit, Goto, HandleSoftErrors, LocalStep, RowsSame, chainVars, dbVars, envVars
  <2>2. WatcherInv(n)'
    BY <1>1, <2>1 DEF WatcherInv, Ev
  <2>3. pool' = pool \/ pool' = [pool EXCEPT ![n] = Append(@, tx[n])]
    BY <1>5 DEF submit
  <2>4. /\ \A m \in Node : m # n => Pooled(m)' = Pooled(m)
        /\ Pooled(n)' \subseteq Pooled(n) \cup {tx[n]}
        /\ tx[n] \in Pooled(n)' => tx[n] \in Pooled(n) \/ tx[n] # Null
    BY <1>1, <2>1, <2>3, SentPool DEF Pooled
  <2>5. DealsInv(n)'
    BY <1>1, <2>1, <2>4, DealsFrame
  <2>6. \A m \in Node : m # n => WatcherInv(m)' /\ DealsInv(m)'
    BY <1>1, <2>1, <2>4, OtherDeals
  <2> QED
    BY <1>1, <2>1, <2>2, <2>5, <2>6, KeysQuiet DEF NodesInv
<1>6. CASE Start(n) \/ NextLog(n) \/ Crash(n)
  <2>1. /\ LocalStep(n) /\ pc'[n] \in {"watch", "handle", "down"}
        /\ tx'[n] = tx[n] \/ tx'[n] = Null
        /\ UNCHANGED <<reg, log, cursor, pool, shares, inProgress>>
    BY <1>2, <1>6 DEF Start, NextLog, Crash, Goto, LocalStep, RowsSame, chainVars, dbVars, envVars
  <2>2. WatcherInv(n)' /\ DealsInv(n)'
    BY <1>1, <2>1, DealsFrame DEF WatcherInv, Pooled
  <2>3. \A m \in Node : m # n => WatcherInv(m)' /\ DealsInv(m)'
    BY <1>1, <2>1, OtherDeals DEF Pooled
  <2> QED
    BY <1>1, <2>1, <2>2, <2>3, KeysQuiet DEF NodesInv
<1>7. CASE FetchCheckpoint(n) \/ StoreCheckpoint(n)
  <2>1. /\ UNCHANGED <<reg, log, pool, shares, inProgress, pc, pos, tx>>
        /\ FetchCheckpoint(n) => cursor' = cursor
    BY <1>7 DEF FetchCheckpoint, StoreCheckpoint, chainVars, dbVars, envVars
  <2>2. cursor' = cursor
    BY <1>1, <1>7, <2>1, CheckpointStays
  <2>3. ASSUME NEW m \in Node PROVE WatcherInv(m)' /\ DealsInv(m)'
    BY <1>1, <2>1, WatcherFrame, DealsFrame DEF NodesInv, RowsSame, Pooled
  <2> QED
    BY <1>1, <2>1, <2>2, <2>3, KeysQuiet DEF NodesInv
<1> QED
  BY <1>3, <1>4, <1>5, <1>6, <1>7

-----------------------------------------------------------------------------
(* The invariant. *)

(* It holds initially. *)
LEMMA ReshareInvInit == Init => ReshareInv
<1> SUFFICES ASSUME Init PROVE ReshareInv
  OBVIOUS
<1>1. BaseInv
  BY BaseInit
<1>2. ASSUME NEW n \in Node PROVE WatcherInv(n) /\ DealsInv(n)
  <2>1. /\ pc[n] = "down" /\ tx[n] = Null /\ Pooled(n) = {}
        /\ \A k \in Key : /\ reg[k].r1[n] = Null
                          /\ \A d \in Epoch : ~HasRow(n, k, d)
    BY DEF Init, RegistryInit, NoContributions, HasRow, NoIntermediates, Pooled
  <2> QED
    BY <2>1 DEF WatcherInv, DealsInv, DealsKey
<1>3. ASSUME NEW k \in Key PROVE LogInv(k) /\ DealersInv(k) /\ KeyShares(k)
  <2>1. /\ Of(k) = {} /\ reg[k].round = "none" /\ reg[k].epoch = -1 /\ ~Running(k)
    BY DEF Init, RegistryInit, Of, Running
  <2>2. \A n \in Node : /\ Ahead(n, k) = {} /\ shares[n][k] = Null
                         /\ \A e \in Epoch : ~HasRow(n, k, e)
    BY <2>1 DEF Init, Ahead, HasRow, NoIntermediates
  <2>3. LogInv(k) /\ DealersInv(k)
    BY <2>1, <2>2 DEF LogInv, RunsEnded, DealersInv
  <2>4. KeyShares(k)
    BY <2>1, <2>2 DEF KeyShares, EpochInv, DiskInv, HasPending, Epoch
  <2> QED
    BY <2>3, <2>4
<1> QED
  BY <1>1, <1>2, <1>3 DEF ReshareInv, NodesInv, KeysInv

(* Every step keeps it. *)
LEMMA ReshareInvNext ==
    ASSUME ReshareWaits, Late, ReshareInv, [Next]_vars
    PROVE  ReshareInv'
<1>1. BaseInv' /\ BaseInv /\ NodesInv /\ KeysInv
  BY BaseNext DEF ReshareInv
<1>2. CASE UNCHANGED vars
  <2>1. UNCHANGED <<reg, log, cursor, pool, shares, inProgress, pc, pos, tx>>
    BY <1>2 DEF vars, chainVars, dbVars, memVars
  <2>2. ASSUME NEW m \in Node PROVE WatcherInv(m)' /\ DealsInv(m)'
    BY <1>1, <2>1, WatcherFrame, DealsFrame DEF NodesInv, RowsSame, Pooled
  <2> QED
    BY <1>1, <2>1, <2>2, KeysQuiet DEF ReshareInv, NodesInv
<1>3. CASE Next
  <2>1. NodesInv' /\ KeysInv'
    BY <1>3, ReshareHandle, ReshareNode, ReshareMine, ReshareAdmin DEF Next, NodeStep
  <2> QED
    BY <1>1, <2>1 DEF ReshareInv
<1> QED
  BY <1>2, <1>3

(* The invariant holds in every reachable state. *)
LEMMA ReshareInvHolds == ReshareWaits /\ Late => (Spec => []ReshareInv)
<1> SUFFICES ASSUME ReshareWaits, Late PROVE Spec => []ReshareInv
  OBVIOUS
<1>1. ReshareInv /\ [Next]_vars => ReshareInv'
  BY ReshareInvNext
<1> QED
  BY ReshareInvInit, <1>1, PTL DEF Spec

(* A node that holds a share holds the one of its epoch. *)
LEMMA HeldShare ==
    ASSUME ReshareInv, NEW k \in Key, NEW n \in Node, Held(n, k) # -1
    PROVE  /\ Held(n, k) \in Epoch /\ Held(n, k) <= reg[k].epoch /\ reg[k].epoch \in Int
           /\ shares[n][k] # Null /\ shares[n][k].pk = reg[k].pk
<1>1. BaseInv /\ DiskInv(n, k)
  BY DEF ReshareInv, KeysInv, KeyShares
<1>2. shares[n][k] \in ShareRow(Share, Deal) \cup {Null} /\ reg[k].epoch \in Int
  BY <1>1, Types
<1> QED
  BY <1>1, <1>2 DEF Held, DiskInv, ShareRow

(* Nodes that hold a share of one epoch hold shares of one sharing, when    *)
(* runs are started right after an abort, too, with the aborted run's       *)
(* events unhandled and its transactions under way, as long as a reshare    *)
(* waits for the nodes to handle the finalisation before it.                *)
THEOREM AgreementAfterAborts == ReshareWaits /\ Late => (Spec => []Agreement)
<1>1. ASSUME ReshareInv PROVE Agreement
  <2>1. SUFFICES ASSUME NEW n \in Node, NEW m \in Node, NEW k \in Key, Held(n, k) # -1,
                        Held(n, k) = Held(m, k)
                 PROVE  shares[n][k].share = shares[m][k].share
    BY DEF Agreement
  <2>2. PICK e \in Epoch : e = Held(n, k) /\ e <= reg[k].epoch
    BY <1>1, <2>1, HeldShare
  <2>3. PICK v \in Share : \A p \in Node : OneShare(p, k, e, v)
    BY <1>1, <2>2 DEF ReshareInv, KeysInv, KeyShares, EpochInv
  <2> QED
    BY <2>1, <2>2, <2>3 DEF OneShare
<1> QED
  BY ReshareInvHolds, <1>1, PTL

(* And a confirmed share is then a share of the secret behind the public    *)
(* key stored beside it, the key that the contract published, though a node *)
(* may have committed, with a transaction of an aborted run, to something   *)
(* other than what it has stored.                                           *)
THEOREM ShareMatchesPublicKeyAfterAborts ==
    ReshareWaits /\ Late => (Spec => []ShareMatchesPublicKey)
<1>1. ASSUME ReshareInv PROVE ShareMatchesPublicKey
  <2>1. SUFFICES ASSUME NEW n \in Node, NEW k \in Key, Held(n, k) # -1
                 PROVE  /\ shares[n][k].share.secret = shares[n][k].pk
                        /\ shares[n][k].pk = reg[k].pk
    BY DEF ShareMatchesPublicKey
  <2>2. PICK e \in Epoch : e = Held(n, k) /\ e <= reg[k].epoch /\ shares[n][k].pk = reg[k].pk
    BY <1>1, <2>1, HeldShare
  <2>3. PICK v \in Share : v.secret = reg[k].pk /\ OneShare(n, k, e, v)
    BY <1>1, <2>2 DEF ReshareInv, KeysInv, KeyShares, EpochInv
  <2> QED
    BY <2>2, <2>3 DEF OneShare
<1> QED
  BY ReshareInvHolds, <1>1, PTL

=============================================================================
