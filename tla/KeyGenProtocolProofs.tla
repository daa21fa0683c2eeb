------------------------ MODULE KeyGenProtocolProofs ------------------------
(***************************************************************************)
(* Proofs about KeyGenProtocol, for any number of nodes, keys, epochs, runs,*)
(* aborts and crashes: its types, the watcher's position in the chain, and  *)
(* the erasure of deleted keys.                                             *)
(***************************************************************************)
EXTENDS KeyGenProtocol, KeyGenDbProofs, SequenceTheorems

-----------------------------------------------------------------------------
(* The registry. *)

(* What the registry needs to stay well typed: a key without a run has no   *)
(* epoch or is at rest, a run generates an epoch within the bound, and its  *)
(* second round begins when everyone has contributed to the first.          *)
RegistryInv ==
    /\ RegistryTypeOK
    /\ \A k \in Key :
          /\ reg[k].round = "none" => reg[k].epoch = -1
          /\ reg[k].round = "idle" => reg[k].epoch >= 0
          /\ Running(k) => reg[k].epoch < MaxEpoch
          /\ reg[k].round \in {"two", "three"} => \A n \in Node : reg[k].r1[n] # Null

(* A call of the administrator or a contribution touches one key. *)
OthersKept(k) == \A j \in Key \ {k} : reg'[j] = reg[j]

(* An event is appended to the log. *)
Extends(ev) == log' = Append(log, ev)

(* A log that an event is appended to keeps what it had. *)
LEMMA LogAppend ==
    ASSUME log \in Seq(Event), NEW ev \in Event, Extends(ev)
    PROVE  /\ log' \in Seq(Event) /\ Len(log') = Len(log) + 1 /\ Len(log) \in Nat
           /\ \A j \in 1 .. Len(log) : log'[j] = log[j]
           /\ log'[Len(log) + 1] = ev
BY DEF Extends

(* The state of a key that is reset. *)
LEMMA ResetEffect ==
    ASSUME NEW r \in KeyState, NEW round \in Rounds
    PROVE  /\ Reset(r, round) \in KeyState
           /\ Reset(r, round).round = round /\ Reset(r, round).epoch = r.epoch
           /\ Reset(r, round).pk = r.pk /\ Reset(r, round).r1 = NoContributions
           /\ Reset(r, round).producers = {} /\ Reset(r, round).r2 = {}
           /\ Reset(r, round).r3 = {}
BY DEF Reset, KeyState, NoContributions

(* The effect of a call on a key is a new state of it. *)
LEMMA KeyChange ==
    ASSUME RegistryInv, NEW k \in Key, NEW r \in KeyState, reg' = [reg EXCEPT ![k] = r],
           log' \in Seq(Event),
           r.round = "none" => r.epoch = -1,
           r.round = "idle" => r.epoch >= 0,
           r.round \in {"one", "two", "three", "stuck"} => r.epoch < MaxEpoch,
           r.round \in {"two", "three"} => \A n \in Node : r.r1[n] # Null
    PROVE  RegistryInv' /\ OthersKept(k) /\ reg'[k] = r
<1>1. reg' \in [Key -> KeyState] /\ reg'[k] = r /\ \A j \in Key \ {k} : reg'[j] = reg[j]
  BY DEF RegistryInv, RegistryTypeOK
<1>2. ASSUME NEW j \in Key
      PROVE  /\ reg'[j].round = "none" => reg'[j].epoch = -1
             /\ reg'[j].round = "idle" => reg'[j].epoch >= 0
             /\ reg'[j].round \in {"one", "two", "three", "stuck"} => reg'[j].epoch < MaxEpoch
             /\ reg'[j].round \in {"two", "three"} => \A n \in Node : reg'[j].r1[n] # Null
  <2>1. CASE j = k
    BY <1>1, <2>1
  <2>2. CASE j # k
    BY <1>1, <2>2 DEF RegistryInv, Running
  <2> QED
    BY <2>1, <2>2
<1> QED
  BY <1>1, <1>2 DEF RegistryInv, RegistryTypeOK, OthersKept, Running

(* What a key's numbers are. *)
LEMMA KeyTypes ==
    ASSUME RegistryInv, NEW k \in Key
    PROVE  /\ reg[k] \in KeyState /\ reg[k].epoch \in Int /\ reg[k].epoch >= -1
           /\ reg[k].epoch <= MaxEpoch /\ log \in Seq(Event) /\ MaxEpoch \in Nat
           /\ PendingEpoch(k) = reg[k].epoch + 1
           /\ IsReshare(k) <=> reg[k].epoch >= 0
           /\ Running(k) => PendingEpoch(k) \in Epoch
BY MaxEpochAssumption
   DEF RegistryInv, RegistryTypeOK, KeyState, Epoch, PendingEpoch, IsReshare, Running

(* The start of a run. *)
LEMMA InitEffect ==
    ASSUME RegistryInv, NEW k \in Key, initKeyGen(k) \/ initReshare(k)
    PROVE  /\ RegistryInv' /\ OthersKept(k)
           /\ reg[k].round \in {"none", "idle"} /\ reg'[k].round = "one"
           /\ reg'[k].epoch = reg[k].epoch /\ reg'[k].pk = reg[k].pk
           /\ reg'[k].r1 = NoContributions /\ reg'[k].producers = {} /\ reg'[k].r3 = {}
           /\ PendingEpoch(k) \in Epoch
           /\ \E ev \in Event :
                 /\ Extends(ev) /\ ev.key = k /\ ev.epoch = PendingEpoch(k)
                 /\ ev.type = IF IsReshare(k) THEN "ReshareRound1" ELSE "SecretGenRound1"
<1>0. /\ reg[k] \in KeyState /\ reg[k].epoch \in Int /\ reg[k].epoch >= -1
      /\ log \in Seq(Event) /\ MaxEpoch \in Nat
      /\ PendingEpoch(k) = reg[k].epoch + 1
      /\ IsReshare(k) <=> reg[k].epoch >= 0
  BY KeyTypes
<1>1. /\ reg' = [reg EXCEPT ![k] = Reset(@, "one")]
      /\ reg[k].round \in {"none", "idle"} /\ PendingEpoch(k) \in Epoch
  BY <1>0 DEF initKeyGen, initReshare, RegistryInv, Epoch
<1>2. PICK ev \in Event :
        /\ Extends(ev) /\ ev.key = k /\ ev.epoch = PendingEpoch(k)
        /\ ev.type = IF IsReshare(k) THEN "ReshareRound1" ELSE "SecretGenRound1"
  <2>1. CASE initKeyGen(k)
    <3>1. ~IsReshare(k) /\ PendingEpoch(k) = 0
      BY <1>0, <2>1 DEF initKeyGen, RegistryInv
    <3> QED
      BY <1>1, <2>1, <3>1 DEF initKeyGen, Emit, Extends, Event, EventTypes
  <2>2. CASE initReshare(k)
    <3>1. IsReshare(k)
      BY <1>0, <2>2 DEF initReshare, RegistryInv
    <3> QED
      BY <1>1, <2>2, <3>1 DEF initReshare, Emit, Extends, Event, EventTypes
  <2> QED
    BY <2>1, <2>2
<1> DEFINE r == Reset(reg[k], "one")
<1>3. /\ r \in KeyState /\ r.round = "one" /\ r.epoch = reg[k].epoch /\ r.pk = reg[k].pk
      /\ r.r1 = NoContributions /\ r.producers = {} /\ r.r2 = {} /\ r.r3 = {}
  BY <1>0, ResetEffect DEF Rounds
<1>4. log' \in Seq(Event)
  BY <1>0, <1>2, LogAppend
<1>5. RegistryInv' /\ OthersKept(k) /\ reg'[k] = r
  <2>1. reg' = [reg EXCEPT ![k] = r]
    BY <1>1
  <2>2. r.epoch < MaxEpoch
    BY <1>0, <1>1, <1>3 DEF Epoch
  <2> HIDE DEF r
  <2> QED
    BY <1>3, <1>4, <2>1, <2>2, KeyChange
<1> QED
  BY <1>1, <1>2, <1>3, <1>5

(* The end of a run or of a key by the administrator. *)
LEMMA EndEffect ==
    ASSUME RegistryInv, NEW k \in Key, abortKeyGen(k) \/ deleteOprfPublicKey(k)
    PROVE  /\ RegistryInv' /\ OthersKept(k)
           /\ reg[k].round \notin {"none", "deleted"}
           /\ reg'[k].round \in {"none", "idle", "deleted"}
           /\ reg'[k].epoch = reg[k].epoch /\ reg'[k].pk = reg[k].pk
           /\ reg'[k].r1 = NoContributions
           /\ IF reg'[k].round = "deleted" THEN reg[k].round = "idle" ELSE Running(k)
           /\ \E ev \in Event :
                 /\ Extends(ev) /\ ev.key = k
                 /\ ev.type = IF reg'[k].round = "deleted" THEN "KeyDeletion" ELSE "KeyGenAbort"
<1>0. /\ reg[k] \in KeyState /\ reg[k].epoch \in Int /\ reg[k].epoch >= -1
      /\ log \in Seq(Event) /\ MaxEpoch \in Nat
      /\ IsReshare(k) <=> reg[k].epoch >= 0
  BY KeyTypes
<1>1. PICK round \in {"none", "idle", "deleted"} :
        /\ reg' = [reg EXCEPT ![k] = Reset(@, round)]
        /\ round = "none" => reg[k].epoch = -1
        /\ round = "idle" => reg[k].epoch >= 0
        /\ round = "deleted" => Emit("KeyDeletion", k, 0, {}) /\ reg[k].round = "idle"
        /\ round # "deleted" => Emit("KeyGenAbort", k, 0, {}) /\ Running(k)
  <2>1. CASE abortKeyGen(k) /\ IsReshare(k)
    BY <1>0, <2>1 DEF abortKeyGen
  <2>2. CASE abortKeyGen(k) /\ ~IsReshare(k)
    BY <1>0, <2>2 DEF abortKeyGen
  <2>3. CASE deleteOprfPublicKey(k)
    BY <1>0, <2>3 DEF deleteOprfPublicKey
  <2> QED
    BY <2>1, <2>2, <2>3
<1> DEFINE r == Reset(reg[k], round)
           ev == [type |-> IF round = "deleted" THEN "KeyDeletion" ELSE "KeyGenAbort",
                  key |-> k, epoch |-> 0, lagrange |-> {}]
<1>2. ev \in Event /\ Extends(ev)
  <2>1. ev \in Event
    BY <1>0 DEF Event, EventTypes, Epoch
  <2>2. Extends(ev)
    BY <1>1, Zenon DEF Emit, Extends
  <2> QED
    BY <2>1, <2>2
<1>3. /\ r \in KeyState /\ r.round = round /\ r.epoch = reg[k].epoch /\ r.pk = reg[k].pk
      /\ r.r1 = NoContributions
  BY <1>0, ResetEffect DEF Rounds
<1>4. log' \in Seq(Event)
  BY <1>0, <1>2, LogAppend
<1>5. RegistryInv' /\ OthersKept(k) /\ reg'[k] = r
  <2>1. reg' = [reg EXCEPT ![k] = r]
    BY <1>1
  <2>2. /\ r.round = "none" => r.epoch = -1
        /\ r.round = "idle" => r.epoch >= 0
        /\ r.round \notin {"one", "two", "three", "stuck"}
    BY <1>1, <1>3
  <2> HIDE DEF r
  <2> QED
    BY <1>3, <1>4, <2>1, <2>2, KeyChange
<1>6. reg[k].round \notin {"none", "deleted"}
  BY DEF abortKeyGen, deleteOprfPublicKey, Running
<1> QED
  BY <1>1, <1>2, <1>3, <1>5, <1>6

(* A contribution to the first round. *)
LEMMA Round1Effect ==
    ASSUME RegistryInv, NEW k \in Key, NEW n \in Node, NEW im \in Intermediate \cup {Null},
           reg[k].round = "one", addRound1(n, k, im)
    PROVE  /\ RegistryInv' /\ OthersKept(k)
           /\ reg'[k].epoch = reg[k].epoch /\ reg'[k].pk = reg[k].pk /\ reg'[k].r3 = reg[k].r3
           /\ reg'[k].prev = reg[k].prev
           /\ reg'[k].r1 = [reg[k].r1 EXCEPT ![n] = im]
           /\ reg'[k].producers = reg[k].producers \cup IF Produces(k, im) THEN {n} ELSE {}
           /\ \/ reg'[k].round = "one" /\ log' = log
              \/ /\ reg'[k].round = "stuck"
                 /\ \E ev \in Event : Extends(ev) /\ ev.key = k /\ ev.type = "NotEnoughProducers"
              \/ /\ reg'[k].round = "two"
                 /\ Cardinality(reg'[k].producers) >= Seats(k)
                 /\ \E ev \in Event : Extends(ev) /\ ev.key = k /\ ev.type = "SecretGenRound2"
<1> DEFINE r1 == [reg[k].r1 EXCEPT ![n] = im]
           producers == reg[k].producers \cup IF Produces(k, im) THEN {n} ELSE {}
           complete == \A m \in Node : r1[m] # Null
           booked(round) == [reg[k] EXCEPT !.r1 = r1, !.producers = producers, !.round = round]
<1>0. /\ reg[k] \in KeyState /\ reg[k].epoch \in Int /\ reg[k].epoch >= -1
      /\ log \in Seq(Event) /\ MaxEpoch \in Nat /\ reg[k].epoch < MaxEpoch
      /\ PendingEpoch(k) \in Epoch
  BY KeyTypes DEF RegistryInv, Running
<1>1. r1 \in [Node -> Intermediate \cup {Null}] /\ producers \in SUBSET Node
  BY <1>0 DEF KeyState
<1>2. ASSUME NEW round \in {"one", "stuck", "two"}, round = "two" => complete,
             log' \in Seq(Event),
             reg' = [reg EXCEPT ![k] = booked(round)]
      PROVE  /\ RegistryInv' /\ OthersKept(k) /\ reg'[k].round = round
             /\ reg'[k].epoch = reg[k].epoch /\ reg'[k].pk = reg[k].pk
             /\ reg'[k].r3 = reg[k].r3 /\ reg'[k].r1 = r1 /\ reg'[k].producers = producers
             /\ reg'[k].prev = reg[k].prev
  <2> DEFINE r == booked(round)
  <2> HIDE DEF r1, producers
  <2>1. /\ r \in KeyState /\ r.round = round /\ r.epoch = reg[k].epoch /\ r.pk = reg[k].pk
        /\ r.r1 = r1 /\ r.r3 = reg[k].r3 /\ r.producers = producers /\ r.prev = reg[k].prev
    BY <1>0, <1>1, <1>2 DEF KeyState, Rounds
  <2>2. reg' = [reg EXCEPT ![k] = r]
    BY <1>2
  <2> HIDE DEF r
  <2>3. /\ r.round \notin {"none", "idle", "three"} /\ r.epoch < MaxEpoch
        /\ r.round = "two" => \A m \in Node : r.r1[m] # Null
    BY <1>0, <1>2, <2>1
  <2>4. RegistryInv' /\ OthersKept(k) /\ reg'[k] = r
    BY <1>2, <2>1, <2>2, <2>3, KeyChange
  <2> QED
    BY <2>1, <2>4
<1> HIDE DEF r1, producers
<1>3. CASE /\ reg' = [reg EXCEPT ![k] = booked("one")]
           /\ UNCHANGED log
  BY <1>0, <1>2, <1>3 DEF r1, producers
<1>4. CASE /\ reg' = [reg EXCEPT ![k] = booked("stuck")]
           /\ Emit("NotEnoughProducers", k, 0, {})
  <2> DEFINE ev == [type |-> "NotEnoughProducers", key |-> k, epoch |-> 0, lagrange |-> {}]
  <2>1. ev \in Event /\ Extends(ev)
    BY <1>0, <1>4 DEF Emit, Extends, Event, EventTypes, Epoch
  <2>2. log' \in Seq(Event)
    BY <1>0, <2>1, LogAppend
  <2>3. ev.key = k /\ ev.type = "NotEnoughProducers"
    OBVIOUS
  <2> HIDE DEF ev
  <2> QED
    BY <1>2, <1>4, <2>1, <2>2, <2>3 DEF r1, producers
<1>5. CASE /\ complete /\ Cardinality(producers) >= Seats(k)
           /\ reg' = [reg EXCEPT ![k] = booked("two")]
           /\ Emit("SecretGenRound2", k, PendingEpoch(k), {})
  <2> DEFINE ev == [type |-> "SecretGenRound2", key |-> k, epoch |-> PendingEpoch(k),
                    lagrange |-> {}]
  <2>1. ev \in Event /\ Extends(ev)
    BY <1>0, <1>5 DEF Emit, Extends, Event, EventTypes
  <2>2. log' \in Seq(Event)
    BY <1>0, <2>1, LogAppend
  <2>3. ev.key = k /\ ev.type = "SecretGenRound2"
    OBVIOUS
  <2> HIDE DEF ev
  <2> QED
    BY <1>2, <1>5, <2>1, <2>2, <2>3 DEF r1, producers
<1> QED
  BY <1>3, <1>4, <1>5 DEF addRound1, r1, producers

(* A contribution to the second round. *)
LEMMA Round2Effect ==
    ASSUME RegistryInv, NEW k \in Key, NEW n \in Node, reg[k].round = "two", addRound2(n, k)
    PROVE  /\ RegistryInv' /\ OthersKept(k)
           /\ reg'[k].epoch = reg[k].epoch /\ reg'[k].pk = reg[k].pk /\ reg'[k].r3 = reg[k].r3
           /\ reg'[k].prev = reg[k].prev
           /\ reg'[k].r1 = reg[k].r1 /\ reg'[k].producers = reg[k].producers
           /\ \/ reg'[k].round = "two" /\ log' = log
              \/ /\ reg'[k].round = "three"
                 /\ \E ev \in Event :
                       /\ Extends(ev) /\ ev.key = k /\ ev.epoch = PendingEpoch(k)
                       /\ ev.type \in {"SecretGenRound3", "ReshareRound3"}
                       /\ ev.type = "ReshareRound3" => ev.lagrange = reg[k].producers
<1> DEFINE r2 == reg[k].r2 \cup {n}
<1>0. /\ reg[k] \in KeyState /\ reg[k].epoch \in Int /\ reg[k].epoch >= -1
      /\ log \in Seq(Event) /\ MaxEpoch \in Nat /\ reg[k].epoch < MaxEpoch
      /\ PendingEpoch(k) \in Epoch /\ PendingEpoch(k) = reg[k].epoch + 1
      /\ IsReshare(k) <=> reg[k].epoch >= 0
  BY KeyTypes DEF RegistryInv, Running
<1>1. r2 \in SUBSET Node /\ reg[k].producers \subseteq Node
  BY <1>0 DEF KeyState
<1>2. CASE reg' = [reg EXCEPT ![k].r2 = r2] /\ UNCHANGED log
  <2> DEFINE r == [reg[k] EXCEPT !.r2 = r2]
  <2>1. /\ r \in KeyState /\ r.round = "two" /\ r.epoch = reg[k].epoch /\ r.pk = reg[k].pk
        /\ r.r1 = reg[k].r1 /\ r.producers = reg[k].producers /\ r.prev = reg[k].prev
        /\ r.r3 = reg[k].r3 /\ reg' = [reg EXCEPT ![k] = r]
    BY <1>0, <1>1, <1>2 DEF KeyState, RegistryInv, RegistryTypeOK
  <2>2. /\ log' \in Seq(Event) /\ r.round \notin {"none", "idle"} /\ r.epoch < MaxEpoch
        /\ \A m \in Node : r.r1[m] # Null
    BY <1>0, <1>2, <2>1 DEF RegistryInv
  <2>3. RegistryInv' /\ OthersKept(k) /\ reg'[k] = r
    <3> HIDE DEF r
    <3> QED
      BY <2>1, <2>2, KeyChange
  <2> QED
    BY <1>2, <2>1, <2>3
<1>3. CASE /\ reg' = [reg EXCEPT ![k].r2 = r2, ![k].round = "three"]
           /\ IF IsReshare(k) THEN Emit("ReshareRound3", k, PendingEpoch(k), reg[k].producers)
              ELSE Emit("SecretGenRound3", k, 0, {})
  <2> DEFINE r == [reg[k] EXCEPT !.r2 = r2, !.round = "three"]
  <2>1. /\ r \in KeyState /\ r.round = "three" /\ r.epoch = reg[k].epoch /\ r.pk = reg[k].pk
        /\ r.r1 = reg[k].r1 /\ r.producers = reg[k].producers /\ r.prev = reg[k].prev
        /\ r.r3 = reg[k].r3 /\ reg' = [reg EXCEPT ![k] = r]
    BY <1>0, <1>1, <1>3 DEF KeyState, RegistryInv, RegistryTypeOK, Rounds
  <2>2. \A m \in Node : reg[k].r1[m] # Null
    BY DEF RegistryInv
  <2>3. PICK ev \in Event :
          /\ Extends(ev) /\ ev.key = k /\ ev.epoch = PendingEpoch(k)
          /\ ev.type \in {"SecretGenRound3", "ReshareRound3"}
          /\ ev.type = "ReshareRound3" => ev.lagrange = reg[k].producers
    <3>1. CASE IsReshare(k)
      <4> DEFINE ev == [type |-> "ReshareRound3", key |-> k, epoch |-> PendingEpoch(k),
                        lagrange |-> reg[k].producers]
      <4>1. ev \in Event /\ Extends(ev)
        BY <1>0, <1>1, <1>3, <3>1 DEF Emit, Extends, Event, EventTypes
      <4> QED
        BY <4>1
    <3>2. CASE ~IsReshare(k)
      <4> DEFINE ev == [type |-> "SecretGenRound3", key |-> k, epoch |-> 0, lagrange |-> {}]
      <4>1. PendingEpoch(k) = 0
        BY <1>0, <3>2
      <4>2. ev \in Event /\ Extends(ev)
        BY <1>0, <1>1, <1>3, <3>2, <4>1 DEF Emit, Extends, Event, EventTypes
      <4> QED
        BY <4>1, <4>2
    <3> QED
      BY <3>1, <3>2
  <2>4. log' \in Seq(Event)
    BY <1>0, <2>3, LogAppend
  <2>5. RegistryInv' /\ OthersKept(k) /\ reg'[k] = r
    <3> HIDE DEF r
    <3> QED
      BY <1>0, <2>1, <2>2, <2>4, KeyChange
  <2> QED
    BY <2>1, <2>3, <2>5
<1> QED
  BY <1>2, <1>3 DEF addRound2

(* The sharing that a run deals is one. *)
LEMMA RunShareType ==
    ASSUME RegistryInv, NEW k \in Key, reg[k].round \in {"two", "three"}
    PROVE  /\ RunShare(k) \in Share /\ RunShare(k).secret = RunSecret(k)
           /\ RunDeal(k) \in Deal /\ RunSecret(k) \in Deal \cup {Null}
           /\ RunShare(k).deal = RunDeal(k)
<1>1. \A n \in Node : reg[k].r1[n] \in Intermediate
  BY KeyTypes DEF RegistryInv, KeyState
<1>2. RunDeal(k) \in Deal
  BY <1>1 DEF RunDeal, Deal, Intermediate
<1>3. RunSecret(k) \in Deal \cup {Null}
  <2> DEFINE olds == {reg[k].r1[p].old : p \in reg[k].producers}
  <2>1. CASE \E s \in olds : olds = {s} /\ s # Null
    <3>1. PICK s \in olds : olds = {s} /\ s # Null
      BY <2>1
    <3>2. (CHOOSE t \in olds : olds = {t}) = s
      BY <3>1
    <3>3. s \in Share
      BY <1>1, <3>1, KeyTypes DEF Intermediate, KeyState
    <3> QED
      BY <1>2, <2>1, <3>2, <3>3 DEF RunSecret, Share
  <2>2. CASE ~\E s \in olds : olds = {s} /\ s # Null
    BY <1>2, <2>2 DEF RunSecret
  <2> QED
    BY <2>1, <2>2
<1> QED
  BY <1>2, <1>3 DEF RunShare, Share

(* A contribution to the third round. *)
LEMMA Round3Effect ==
    ASSUME RegistryInv, NEW k \in Key, NEW n \in Node, reg[k].round = "three", addRound3(n, k)
    PROVE  /\ RegistryInv' /\ OthersKept(k)
           /\ \/ /\ reg'[k].round = "three" /\ log' = log
                 /\ reg'[k].epoch = reg[k].epoch /\ reg'[k].pk = reg[k].pk
                 /\ reg'[k].r1 = reg[k].r1 /\ reg'[k].producers = reg[k].producers
                 /\ reg'[k].r3 = reg[k].r3 \cup {n} /\ reg'[k].prev = reg[k].prev
              \/ /\ reg'[k].round = "idle" /\ reg[k].r3 \cup {n} = Node
                 /\ reg'[k].epoch = PendingEpoch(k) /\ reg'[k].producers = {}
                 /\ reg'[k].r1 = NoContributions
                 /\ reg'[k].pk = IF IsReshare(k) THEN reg[k].pk ELSE RunSecret(k)
                 /\ \E ev \in Event : /\ Extends(ev) /\ ev.key = k /\ ev.epoch = PendingEpoch(k)
                                       /\ ev.type = "SecretGenFinalize"
<1> DEFINE r3 == reg[k].r3 \cup {n}
           pk == IF IsReshare(k) THEN reg[k].pk ELSE RunSecret(k)
<1>0. /\ reg[k] \in KeyState /\ reg[k].epoch \in Int /\ reg[k].epoch >= -1
      /\ log \in Seq(Event) /\ MaxEpoch \in Nat /\ reg[k].epoch < MaxEpoch
      /\ PendingEpoch(k) \in Epoch /\ PendingEpoch(k) = reg[k].epoch + 1
  BY KeyTypes DEF RegistryInv, Running
<1>1. r3 \in SUBSET Node /\ pk \in Deal \cup {Null} /\ RunDeal(k) \in Deal
  BY <1>0, RunShareType DEF KeyState
<1>2. CASE reg' = [reg EXCEPT ![k].r3 = r3] /\ UNCHANGED log
  <2> DEFINE r == [reg[k] EXCEPT !.r3 = r3]
  <2>1. /\ r \in KeyState /\ r.round = "three" /\ r.epoch = reg[k].epoch /\ r.pk = reg[k].pk
        /\ r.r1 = reg[k].r1 /\ r.producers = reg[k].producers /\ r.prev = reg[k].prev
        /\ r.r3 = r3 /\ reg' = [reg EXCEPT ![k] = r]
    BY <1>0, <1>1, <1>2 DEF KeyState, RegistryInv, RegistryTypeOK
  <2>2. /\ log' \in Seq(Event) /\ r.round \notin {"none", "idle"} /\ r.epoch < MaxEpoch
        /\ \A m \in Node : r.r1[m] # Null
    BY <1>0, <1>2, <2>1 DEF RegistryInv
  <2>3. RegistryInv' /\ OthersKept(k) /\ reg'[k] = r
    <3> HIDE DEF r, r3
    <3> QED
      BY <2>1, <2>2, KeyChange
  <2> QED
    BY <1>2, <2>1, <2>3
<1>3. CASE /\ r3 = Node
           /\ reg' = [reg EXCEPT ![k] = Finalized(k, @)]
           /\ Emit("SecretGenFinalize", k, PendingEpoch(k), {})
  <2> DEFINE booked == [reg[k] EXCEPT !.epoch = PendingEpoch(k), !.prev = RunDeal(k), !.pk = pk]
             r == Reset(booked, "idle")
             ev == [type |-> "SecretGenFinalize", key |-> k, epoch |-> PendingEpoch(k),
                    lagrange |-> {}]
  <2>0. booked \in KeyState /\ booked.epoch = PendingEpoch(k) /\ booked.pk = pk
    BY <1>0, <1>1 DEF KeyState
  <2>1. /\ r \in KeyState /\ r.round = "idle" /\ r.epoch = PendingEpoch(k) /\ r.pk = pk
        /\ r.producers = {} /\ r.r1 = NoContributions
    <3> HIDE DEF booked
    <3> QED
      BY <2>0, ResetEffect DEF Rounds
  <2>2. reg' = [reg EXCEPT ![k] = r]
    <3>1. Finalized(k, reg[k]) = r
      BY <1>0 DEF Finalized, KeyState
    <3> QED
      BY <1>3, <3>1
  <2>3. ev \in Event /\ Extends(ev)
    BY <1>0, <1>3 DEF Emit, Extends, Event, EventTypes
  <2>4. log' \in Seq(Event)
    BY <1>0, <2>3, LogAppend
  <2>5. RegistryInv' /\ OthersKept(k) /\ reg'[k] = r
    <3>1. r.epoch >= 0 /\ r.round \notin {"none", "one", "two", "three", "stuck"}
      BY <1>0, <2>1
    <3> HIDE DEF r, r3
    <3> QED
      BY <2>1, <2>2, <2>4, <3>1, KeyChange
  <2> HIDE DEF r
  <2> QED
    BY <1>3, <2>1, <2>3, <2>5
<1> QED
  BY <1>2, <1>3 DEF addRound3

(* A mined transaction: the key it is for, if any, is not deleted, and an   *)
(* event of that key is emitted, if any.                                    *)
LEMMA ExecuteEffect ==
    ASSUME RegistryInv, NEW n \in Node, NEW s \in Submission, ExecuteSubmission(n, s)
    PROVE  /\ RegistryInv' /\ OthersKept(s.key)
           /\ \/ UNCHANGED <<reg, log>>
              \/ /\ reg[s.key].round \in {"one", "two", "three"}
                 /\ reg'[s.key].round # "deleted"
                 /\ \/ log' = log
                    \/ \E ev \in Event : /\ Extends(ev) /\ ev.key = s.key
                                         /\ ev.type \notin {"KeyDeletion", "KeyGenAbort"}
<1>0. s.key \in Key /\ s.im \in Intermediate \cup {Null}
  BY DEF Submission
<1>1. CASE UNCHANGED <<reg, log>>
  BY <1>1 DEF RegistryInv, RegistryTypeOK, OthersKept, Running
<1>2. CASE CallResult(n, s) = "Ok" /\ s.fn = "r1" /\ addRound1(n, s.key, s.im)
  <2>1. reg[s.key].round = "one"
    BY <1>2 DEF CallResult, RoundOf
  <2> QED
    BY <1>0, <1>2, <2>1, Round1Effect
<1>3. CASE CallResult(n, s) = "Ok" /\ s.fn = "r2" /\ addRound2(n, s.key)
  <2>1. reg[s.key].round = "two"
    BY <1>3 DEF CallResult, RoundOf
  <2> QED
    BY <1>0, <1>3, <2>1, Round2Effect
<1>4. CASE CallResult(n, s) = "Ok" /\ s.fn = "r3" /\ addRound3(n, s.key)
  <2>1. reg[s.key].round = "three"
    BY <1>4 DEF CallResult, RoundOf
  <2> QED
    BY <1>0, <1>4, <2>1, Round3Effect
<1> QED
  BY <1>1, <1>2, <1>3, <1>4 DEF ExecuteSubmission

-----------------------------------------------------------------------------
(* Type correctness. *)

Busy(n) == pc[n] \in {"handle", "submit", "sent", "done"}

(* A node that handles an event has taken one, and one that submits has     *)
(* something to submit.                                                     *)
TypeInv ==
    /\ TypeOK /\ RegistryInv
    /\ \A n \in Node :
          /\ Busy(n) => pos[n] >= 1
          /\ pc[n] \in {"submit", "sent"} => tx[n] # Null

(* It holds initially. *)
LEMMA TypeInvInit == Init => TypeInv
<1> SUFFICES ASSUME Init PROVE TypeInv
  OBVIOUS
<1>1. 0 \in Epoch /\ -1 \in {-1} \cup Epoch
  BY MaxEpochAssumption DEF Epoch
<1>2. RegistryInv
  BY <1>1 DEF Init, RegistryInit, RegistryInv, RegistryTypeOK, KeyState, Rounds, NoContributions,
              Running
<1>3. Len(log) = 0
  BY DEF Init, RegistryInit
<1>4. TypeOK
  BY <1>2, <1>3, ProtocolAssumption DEF Init, TypeOK, RegistryInv, NoIntermediates
<1> QED
  BY <1>2, <1>4 DEF Init, TypeInv, Busy

(* The event that a busy node handles. *)
LEMMA EvType ==
    ASSUME TypeInv, NEW n \in Node, Busy(n)
    PROVE  /\ Ev(n) \in Event /\ Ev(n).key \in Key /\ Ev(n).epoch \in Epoch
           /\ pos[n] \in 1 .. Len(log)
<1>1. pos[n] \in 1 .. Len(log) /\ log \in Seq(Event)
  BY DEF TypeInv, TypeOK, RegistryTypeOK
<1>2. log[pos[n]] \in Event
  BY <1>1
<1> QED
  BY <1>1, <1>2 DEF Ev, Event

(* The events of the log. *)
LEMMA LogTypes ==
    ASSUME TypeInv
    PROVE  /\ log \in Seq(Event) /\ Len(log) \in Nat
           /\ \A i \in 1 .. Len(log) : log[i].key \in Key /\ log[i].epoch \in Epoch
<1>1. log \in Seq(Event)
  BY DEF TypeInv, TypeOK, RegistryTypeOK
<1>2. \A i \in 1 .. Len(log) : log[i] \in Event
  BY <1>1
<1> QED
  BY <1>1, <1>2 DEF Event

(* The tables and the pool do not change, nor does the log shrink: what is  *)
(* left to show of a step.                                                  *)
LEMMA MemoryStepTypes ==
    ASSUME TypeInv, NEW n \in Node,
           \/ Start(n) \/ NextLog(n) \/ StoreCursor(n) \/ submit(n)
           \/ round2(n) \/ not_enough_producers(n)
           \/ FetchCheckpoint(n) \/ StoreCheckpoint(n) \/ Crash(n)
    PROVE  TypeInv'
<1> USE DEF TypeInv
<1>0. Len(log) \in Nat
  BY DEF TypeOK, RegistryTypeOK
<1>1. CASE Start(n)
  BY <1>0, <1>1 DEF Start, Goto, TypeOK, chainVars, dbVars, envVars, Busy, RegistryTypeOK,
                    RegistryInv, Running
<1>2. CASE NextLog(n)
  BY <1>0, <1>2 DEF NextLog, Goto, TypeOK, chainVars, dbVars, envVars, Busy, RegistryTypeOK,
                    RegistryInv, Running
<1>3. CASE StoreCursor(n)
  BY <1>0, <1>3 DEF StoreCursor, Goto, TypeOK, chainVars, dbVars, envVars, Busy, RegistryTypeOK,
                    RegistryInv, Running
<1>4. CASE submit(n)
  <2>1. tx[n] \in Submission
    BY <1>4 DEF submit, TypeOK
  <2>2. pool' \in [Node -> Seq(Submission)]
    <3>1. pool \in [Node -> Seq(Submission)]
      BY DEF TypeOK
    <3>2. Append(pool[n], tx[n]) \in Seq(Submission)
      BY <2>1, <3>1, AppendProperties
    <3>3. pool' = pool \/ pool' = [pool EXCEPT ![n] = Append(pool[n], tx[n])]
      BY <1>4 DEF submit
    <3> QED
      BY <3>1, <3>2, <3>3
  <2>3. PICK q \in {"sent", "done", "down"} : pc' = [pc EXCEPT ![n] = q]
    BY <1>4 DEF submit, Goto, HandleSoftErrors
  <2> QED
    BY <1>0, <1>4, <2>2, <2>3 DEF submit, TypeOK, chainVars, dbVars, envVars, Busy,
                                  RegistryTypeOK, RegistryInv, Running
<1>5. CASE round2(n)
  <2> DEFINE k == Ev(n).key
             row == inProgress[n][k][Ev(n).epoch]
  <2>1. k \in Key /\ Ev(n).epoch \in Epoch /\ pos[n] >= 1
    BY <1>5, EvType DEF round2, Handling, Busy
  <2>2. CASE row # Null /\ ToSubmit(n, "r2", k, row.im, reg[k].r1)
    <3>1. row \in InProgressRow(Intermediate, Share)
      BY <2>1, <2>2 DEF TypeOK
    <3>2. [fn |-> "r2", key |-> k, im |-> row.im, pks |-> reg[k].r1] \in Submission
      BY <2>1, <3>1, KeyTypes DEF InProgressRow, Submission, KeyState
    <3> QED
      BY <1>0, <1>5, <2>1, <2>2, <3>2, ProtocolAssumption
         DEF round2, ToSubmit, Goto, TypeOK, chainVars, dbVars, envVars, Busy, RegistryTypeOK,
             RegistryInv, Running
  <2>3. CASE \E q \in {"done", "down"} : Goto(n, q) /\ UNCHANGED tx
    BY <1>0, <1>5, <2>1, <2>3 DEF round2, Goto, TypeOK, chainVars, dbVars, envVars, Busy,
                                  RegistryTypeOK, RegistryInv, Running
  <2> QED
    BY <1>5, <2>2, <2>3 DEF round2, producer_round2, EndHandler, HandleSoftErrors
<1>6. CASE not_enough_producers(n)
  <2>1. PICK q \in {"done", "down"} : pc' = [pc EXCEPT ![n] = q]
    BY <1>6 DEF not_enough_producers, EndHandler, HandleSoftErrors, Goto
  <2>2. pos[n] >= 1 /\ tx' = tx
    BY <1>6 DEF not_enough_producers, EndHandler, Handling, Busy
  <2> QED
    BY <1>0, <1>6, <2>1, <2>2 DEF not_enough_producers, TypeOK, chainVars, dbVars, envVars, Busy,
                                  RegistryTypeOK, RegistryInv, Running
<1>7. CASE FetchCheckpoint(n)
  BY <1>0, <1>7 DEF FetchCheckpoint, TypeOK, chainVars, dbVars, envVars, Busy, RegistryTypeOK,
                    RegistryInv, Running
<1>8. CASE StoreCheckpoint(n)
  BY <1>0, <1>8 DEF StoreCheckpoint, TypeOK, chainVars, envVars, Busy, RegistryTypeOK,
                    RegistryInv, Running
<1>9. CASE Crash(n)
  BY <1>0, <1>9, ProtocolAssumption
     DEF Crash, Goto, TypeOK, chainVars, dbVars, Busy, RegistryTypeOK, RegistryInv, Running
<1> QED
  BY <1>1, <1>2, <1>3, <1>4, <1>5, <1>6, <1>7, <1>8, <1>9

(* Steps that write the tables shares and in_progress_keygens. *)
LEMMA TableStepTypes ==
    ASSUME TypeInv, NEW n \in Node,
           \/ keygen_round1(n) \/ reshare_round1(n) \/ round3(n) \/ finalize(n)
           \/ delete(n) \/ abort(n) \/ LoseShares(n)
    PROVE  TypeInv'
<1> DEFINE k == Ev(n).key
           e == Ev(n).epoch
           Ip == Table(Intermediate, Share)
           Rw == ShareRow(Share, Deal) \cup {Null}
<1>1. /\ RegistryInv /\ TypeOK /\ Len(log) \in Nat
      /\ shares \in [Node -> [Key -> Rw]] /\ inProgress \in [Node -> [Key -> Ip]]
  BY DEF TypeInv, TypeOK, RegistryTypeOK, Table
<1>2. ASSUME ~LoseShares(n)
      PROVE  pc[n] = "handle" /\ pos[n] >= 1 /\ k \in Key /\ e \in Epoch
  BY <1>2, EvType DEF keygen_round1, reshare_round1, round3, finalize, delete, abort,
                      Handling, TypeInv, Busy
<1>3. /\ UNCHANGED <<reg, log, cursor, pos, checkpoint, pool, runs, crashes, handled>>
      /\ lost' = lost \/ lost' = lost \cup {<<n, [j \in Key |-> reg[j].epoch]>>}
  BY DEF keygen_round1, reshare_round1, Round1With, round3, finalize, delete, abort, LoseShares,
         chainVars, envVars, memVars
<1>4. RegistryInv' /\ lost' \subseteq Node \X [Key -> {-1} \cup Epoch]
  <2>1. [j \in Key |-> reg[j].epoch] \in [Key -> {-1} \cup Epoch]
    BY <1>1, KeyTypes DEF KeyState
  <2>2. lost \subseteq Node \X [Key -> {-1} \cup Epoch]
    BY <1>1 DEF TypeOK
  <2>3. lost' \subseteq Node \X [Key -> {-1} \cup Epoch]
    BY <1>3, <2>1, <2>2
  <2> QED
    BY <1>1, <1>3, <2>3 DEF RegistryInv, RegistryTypeOK, Running
<1>5. shares' \in [Node -> [Key -> Rw]]
  <2>1. CASE shares' = shares
    BY <1>1, <2>1
  <2>2. CASE finalize(n) /\ shares' # shares
    <3>1. /\ shares' = [shares EXCEPT ![n][k] = ConfirmRow(shares[n][k], inProgress[n][k], e, reg[k].pk)]
          /\ reg[k].pk # Null /\ ConfirmOutcome(shares[n][k], inProgress[n][k], e) = "Ok"
      BY <2>2 DEF finalize, fetch_oprf_public_key, getOprfPublicKey
    <3>2. k \in Key /\ e \in Epoch
      BY <1>2, <2>2 DEF LoseShares, finalize, Handling
    <3>3. shares[n][k] \in Rw /\ inProgress[n][k] \in Ip /\ reg[k].pk \in Deal
      BY <1>1, <3>1, <3>2, KeyTypes DEF KeyState
    <3>4. ConfirmRow(shares[n][k], inProgress[n][k], e, reg[k].pk) \in Rw
      <4>1. FetchPendingShare(inProgress[n][k], e) \in Share \cup {Null}
        BY <3>2, <3>3, FetchPendingShareType
      <4> QED
        BY <3>2, <3>3, <4>1 DEF ConfirmRow, Upsert, ShareRow
    <3> QED
      BY <1>1, <3>1, <3>2, <3>4
  <2>3. CASE delete(n)
    <3>1. k \in Key /\ shares' = [shares EXCEPT ![n][k] = SoftDeleteShares(@)]
      BY <1>2, <2>3 DEF delete, LoseShares, Handling
    <3>2. shares[n][k] \in Rw
      BY <1>1, <3>1
    <3>3. SoftDeleteShares(shares[n][k]) \in Rw
      BY <3>2, SoftDelete, NullAssumption DEF SoftDeleteShares
    <3> QED
      BY <1>1, <3>1, <3>3
  <2>4. CASE LoseShares(n)
    BY <1>1, <2>4 DEF LoseShares
  <2> QED
    BY <2>1, <2>2, <2>3, <2>4
       DEF keygen_round1, reshare_round1, Round1With, round3, abort
<1> DEFINE Written ==
             /\ inProgress' \in [Node -> [Key -> Ip]] /\ serial' \in [Node -> Nat]
             /\ pc' \in [Node -> {"down", "watch", "handle", "submit", "sent", "done"}]
             /\ tx' \in [Node -> Submission \cup {Null}]
             /\ \A m \in Node :
                   /\ Busy(m)' => Busy(m)
                   /\ pc'[m] \in {"submit", "sent"} => tx'[m] # Null
<1>6. Written
  <2>0. /\ inProgress[n] \in [Key -> Ip] /\ serial \in [Node -> Nat]
        /\ pc \in [Node -> {"down", "watch", "handle", "submit", "sent", "done"}]
        /\ tx \in [Node -> Submission \cup {Null}]
        /\ \A m \in Node : pc[m] \in {"submit", "sent"} => tx[m] # Null
    BY <1>1 DEF TypeOK, TypeInv
  <2>1. ASSUME NEW d \in Epoch, NEW im \in Intermediate, k \in Key, Round1With(n, k, d, im),
               pc[n] = "handle"
        PROVE  Written
    <3>1. /\ TryStoreIntermediates(inProgress[n][k], d, im) \in Ip
          /\ TryStoreIntermediates(inProgress[n][k], d, im)[d] \in InProgressRow(Intermediate, Share)
      BY <2>0, <2>1, TryStore, NullAssumption
    <3>2. inProgress' = [inProgress EXCEPT ![n][k] = TryStoreIntermediates(@, d, im)]
      BY <2>1 DEF Round1With
    <3>3. inProgress' \in [Node -> [Key -> Ip]]
      BY <1>1, <2>1, <3>1, <3>2
    <3>4. inProgress'[n][k][d] \in InProgressRow(Intermediate, Share)
      BY <1>1, <2>0, <2>1, <3>1, <3>2
    <3>5. [fn |-> "r1", key |-> k, im |-> inProgress'[n][k][d].im, pks |-> Null] \in Submission
      BY <2>1, <3>4 DEF InProgressRow, Submission
    <3>6. serial' \in [Node -> Nat]
      BY <2>0, <2>1 DEF Round1With, Intermediate
    <3> HIDE DEF k
    <3> QED
      BY <2>0, <2>1, <3>3, <3>5, <3>6, ProtocolAssumption DEF Round1With, ToSubmit, Goto, Busy
  <2>2. CASE keygen_round1(n)
    <3>1. [id |-> serial[n] + 1, poly |-> TRUE, old |-> Null] \in Intermediate /\ 0 \in Epoch
      BY <2>0, MaxEpochAssumption DEF Intermediate, Epoch
    <3>2. k \in Key /\ pc[n] = "handle"
      BY <1>2, <2>2 DEF keygen_round1, LoseShares, Handling
    <3> QED
      BY <2>1, <2>2, <3>1, <3>2 DEF keygen_round1
  <2>3. CASE reshare_round1(n)
    <3>1. k \in Key /\ e \in Epoch /\ pc[n] = "handle"
      BY <1>2, <2>3 DEF reshare_round1, LoseShares, Handling
    <3>2. Prev(e) \in Epoch
      BY <3>1, MaxEpochAssumption DEF Prev, Epoch
    <3>3. GetShareByEpoch(shares[n][k], Prev(e)) \in Share \cup {Null}
      BY <1>1, <3>1, <3>2, GetShareByEpochType
    <3>4. ReshareIntermediates(n, k, e) \in Intermediate
      BY <2>0, <3>3 DEF ReshareIntermediates, Intermediate
    <3> QED
      BY <2>1, <2>3, <3>1, <3>4 DEF reshare_round1
  <2>4. CASE LoseShares(n)
    BY <1>1, <2>0, <2>4 DEF LoseShares, memVars, Busy
  <2>5. CASE round3(n)
    <3>1. k \in Key /\ e \in Epoch /\ pc[n] = "handle"
      BY <1>2, <2>5 DEF round3, LoseShares, Handling
    <3>2. CASE /\ FetchRound3Inputs(k) = "Ok"
               /\ inProgress' = [inProgress EXCEPT ![n][k] = StorePendingShare(@, e,
                     decrypt_key_gen_ciphertexts(n, k, inProgress[n][k][e].im, Ev(n)))]
               /\ ToSubmit(n, "r3", k, Null, Null)
      <4>1. reg[k].round = "three"
        BY <3>2 DEF FetchRound3Inputs, InRound
      <4>2. decrypt_key_gen_ciphertexts(n, k, inProgress[n][k][e].im, Ev(n)) \in Share
        BY <1>1, <3>1, <4>1, RunShareType DEF decrypt_key_gen_ciphertexts, Garbage, Share, Deal
      <4>3. StorePendingShare(inProgress[n][k], e,
               decrypt_key_gen_ciphertexts(n, k, inProgress[n][k][e].im, Ev(n))) \in Ip
        BY <2>0, <3>1, <4>2, StorePending, NullAssumption
      <4>4. inProgress' \in [Node -> [Key -> Ip]]
        BY <1>1, <3>1, <3>2, <4>3
      <4>5. [fn |-> "r3", key |-> k, im |-> Null, pks |-> Null] \in Submission
        BY <3>1 DEF Submission
      <4> HIDE DEF k
      <4> QED
        BY <2>0, <2>5, <3>1, <3>2, <4>4, <4>5, ProtocolAssumption DEF round3, ToSubmit, Goto, Busy
    <3>3. CASE (\E q \in {"done", "down"} : Goto(n, q)) /\ UNCHANGED <<tx, inProgress>>
      BY <1>1, <2>0, <2>5, <3>1, <3>3 DEF round3, Goto, Busy
    <3> QED
      BY <2>5, <3>2, <3>3 DEF round3, EndHandler, HandleSoftErrors
  <2>6. CASE finalize(n) \/ delete(n) \/ abort(n)
    <3>1. k \in Key /\ pc[n] = "handle"
      BY <1>2, <2>6 DEF finalize, delete, abort, LoseShares, Handling
    <3>2. inProgress' = inProgress \/ inProgress' = [inProgress EXCEPT ![n][k] = DeleteIntermediates(@)]
      BY <2>6 DEF finalize, delete, abort
    <3>3. inProgress' \in [Node -> [Key -> Ip]]
      <4>1. DeleteIntermediates(inProgress[n][k]) \in Ip
        BY DeleteIntermediatesType
      <4> QED
        BY <1>1, <3>1, <3>2, <4>1
    <3>4. UNCHANGED <<tx, serial>> /\ \E q \in {"done", "down"} : Goto(n, q)
      BY <2>6 DEF finalize, delete, abort, EndHandler, HandleSoftErrors
    <3> QED
      BY <2>0, <3>1, <3>3, <3>4 DEF Goto, Busy
  <2> QED
    BY <2>2, <2>3, <2>4, <2>5, <2>6
<1>7. TypeOK'
  BY <1>1, <1>3, <1>4, <1>5, <1>6 DEF TypeOK, RegistryInv, Table
<1>8. \A m \in Node : Busy(m)' => pos'[m] >= 1
  BY <1>3, <1>6 DEF TypeInv
<1> QED
  BY <1>4, <1>6, <1>7, <1>8 DEF TypeInv

(* Mined transactions and the administrator's calls. *)
LEMMA ChainStepTypes ==
    ASSUME TypeInv, (\E n \in Node : Mine(n)) \/ (\E k \in Key : Admin(k))
    PROVE  TypeInv'
<1>1. RegistryInv /\ TypeOK /\ log \in Seq(Event)
  BY DEF TypeInv, TypeOK, RegistryTypeOK
<1>2. /\ RegistryInv' /\ Len(log') >= Len(log)
      /\ UNCHANGED <<dbVars, pos, tx, checkpoint, serial, crashes, lost, handled>>
      /\ runs' \in 0 .. MaxRuns /\ pool' \in [Node -> Seq(Submission)]
      /\ pc' \in [Node -> {"down", "watch", "handle", "submit", "sent", "done"}]
      /\ \A n \in Node : /\ Busy(n)' => Busy(n)
                         /\ pc'[n] \in {"submit", "sent"} => pc[n] = pc'[n]
  <2>1. ASSUME NEW n \in Node, Mine(n)
        PROVE  <1>2
    <3>1. Head(pool[n]) \in Submission /\ Tail(pool[n]) \in Seq(Submission)
      BY <1>1, <2>1 DEF Mine, TypeOK
    <3>2. RegistryInv' /\ Len(log') >= Len(log)
      BY <1>1, <2>1, <3>1, ExecuteEffect, LogAppend DEF Mine
    <3>3. pool' \in [Node -> Seq(Submission)]
      BY <1>1, <2>1, <3>1 DEF Mine, TypeOK
    <3>4. PICK q \in {"done", "down"} :
            \/ pc[n] = "sent" /\ pc' = [pc EXCEPT ![n] = q]
            \/ pc' = pc
      BY <2>1 DEF Mine, Goto
    <3> QED
      BY <1>1, <2>1, <3>2, <3>3, <3>4 DEF Mine, envVars, TypeOK, Busy
  <2>2. ASSUME NEW k \in Key, Admin(k)
        PROVE  <1>2
    <3>1. RegistryInv' /\ Len(log') >= Len(log)
      BY <1>1, <2>2, InitEffect, EndEffect, LogAppend DEF Admin
    <3>2. runs' \in 0 .. MaxRuns
      BY <1>1, <2>2, ProtocolAssumption DEF Admin, TypeOK
    <3> QED
      BY <1>1, <2>2, <3>1, <3>2 DEF Admin, memVars, TypeOK, Busy
  <2> QED
    BY <2>1, <2>2
<1>3. TypeOK'
  <2>1. Len(log) \in Nat /\ Len(log') \in Nat /\ log' \in Seq(Event)
    BY <1>1, <1>2 DEF RegistryInv, RegistryTypeOK
  <2>2. /\ cursor' \in [Node -> 0 .. Len(log')] /\ pos' \in [Node -> 0 .. Len(log')]
        /\ checkpoint' \in [Node -> 0 .. Len(log') \cup {Null}]
    BY <1>1, <1>2, <2>1 DEF TypeOK, dbVars
  <2>3. handled' \in [Node -> SUBSET (1 .. Len(log'))]
    BY <1>1, <1>2, <2>1 DEF TypeOK
  <2> QED
    BY <1>1, <1>2, <2>2, <2>3 DEF TypeOK, RegistryInv, dbVars
<1> QED
  BY <1>2, <1>3 DEF TypeInv

(* The invariant is inductive. *)
LEMMA TypeInvNext == TypeInv /\ [Next]_vars => TypeInv'
<1> SUFFICES ASSUME TypeInv, [Next]_vars PROVE TypeInv'
  OBVIOUS
<1>1. CASE UNCHANGED vars
  BY <1>1 DEF vars, chainVars, dbVars, memVars, envVars, TypeInv, TypeOK, RegistryInv,
              RegistryTypeOK, Running, Busy
<1>2. CASE \E n \in Node : NodeStep(n) \/ FetchCheckpoint(n) \/ StoreCheckpoint(n)
                           \/ Crash(n) \/ LoseShares(n)
  BY <1>2, MemoryStepTypes, TableStepTypes DEF NodeStep, handle
<1>3. CASE (\E n \in Node : Mine(n)) \/ (\E k \in Key : Admin(k))
  BY <1>3, ChainStepTypes
<1> QED
  BY <1>1, <1>2, <1>3 DEF Next

(* Everything the type invariant says holds in every reachable state. *)
LEMMA TypeInvariant == Spec => []TypeInv
BY TypeInvInit, TypeInvNext, PTL DEF Spec

(* The contract's storage, the nodes' databases and memories, and the       *)
(* transactions under way hold what their declarations say, whatever the    *)
(* administrator, the crashes and the checkpoint task do.                   *)
THEOREM ProtocolTypeCorrect == Spec => []TypeOK
<1>1. TypeInv => TypeOK
  BY DEF TypeInv
<1> QED
  BY <1>1, TypeInvariant, PTL
-----------------------------------------------------------------------------
(* The watcher's position in the chain. *)

(* The checkpoint task, if it runs, stores a block only when the watcher is *)
(* past it.                                                                 *)
Late == Checkpoints => CheckpointLate

(* A watcher at rest is at its cursor, one that handles an event is one     *)
(* event past it, and what the cursor covers has been handled.              *)
CursorInv ==
    \A n \in Node :
        /\ pc[n] = "watch" => pos[n] = cursor[n]
        /\ Busy(n) => pos[n] = cursor[n] + 1
        /\ checkpoint[n] # Null => Checkpoints
        /\ 1 .. cursor[n] \subseteq handled[n]

(* It holds initially. *)
LEMMA CursorInit == Init => CursorInv
BY DEF Init, CursorInv, Busy

(* A late checkpoint never moves the cursor. *)
LEMMA CheckpointStays ==
    ASSUME Late, TypeInv, CursorInv, NEW n \in Node, StoreCheckpoint(n)
    PROVE  cursor' = cursor
<1>1. checkpoint[n] # Null /\ HandledUpTo(n, checkpoint[n]) /\ pc[n] # "down"
  BY DEF StoreCheckpoint, CursorInv, Late
<1>2. cursor[n] \in Nat /\ pos[n] \in Nat /\ checkpoint[n] \in Nat
  BY <1>1 DEF TypeInv, TypeOK, RegistryTypeOK
<1>3. pos[n] = cursor[n] \/ (pos[n] = cursor[n] + 1 /\ pc[n] # "watch")
  BY <1>1 DEF CursorInv, Busy, TypeInv, TypeOK
<1>4. checkpoint[n] <= cursor[n]
  BY <1>1, <1>2, <1>3 DEF HandledUpTo, CursorInv
<1> QED
  BY <1>2, <1>4 DEF StoreCheckpoint, TypeInv, TypeOK

(* Only StoreCursor moves a cursor, and it moves it by one. *)
LEMMA CursorMoves ==
    ASSUME Late, TypeInv, CursorInv, Next
    PROVE  \/ cursor' = cursor
           \/ \E n \in Node : /\ StoreCursor(n) /\ pos[n] = cursor[n] + 1
                              /\ cursor' = [cursor EXCEPT ![n] = @ + 1]
<1>1. ASSUME NEW n \in Node, StoreCursor(n)
      PROVE  pos[n] = cursor[n] + 1 /\ cursor' = [cursor EXCEPT ![n] = @ + 1]
  <2>1. pos[n] = cursor[n] + 1 /\ cursor[n] \in Nat
    BY <1>1 DEF StoreCursor, CursorInv, Busy, TypeInv, TypeOK, RegistryTypeOK
  <2>2. cursor \in [Node -> Nat]
    BY DEF TypeInv, TypeOK, RegistryTypeOK
  <2>3. (IF pos[n] > cursor[n] THEN pos[n] ELSE cursor[n]) = cursor[n] + 1
    BY <2>1
  <2> QED
    BY <1>1, <2>1, <2>2, <2>3 DEF StoreCursor
<1>2. ASSUME NEW n \in Node, StoreCheckpoint(n)
      PROVE  cursor' = cursor
  BY <1>2, CheckpointStays
<1> QED
  BY <1>1, <1>2
     DEF Next, NodeStep, Start, NextLog, handle, keygen_round1, reshare_round1, Round1With, round2,
         round3, finalize, delete, abort, not_enough_producers, submit, Mine, FetchCheckpoint,
         Crash, LoseShares, Admin, dbVars

(* The invariant is inductive. *)
LEMMA CursorNext ==
    ASSUME Late, TypeInv, CursorInv, [Next]_vars
    PROVE  CursorInv'
<1> SUFFICES ASSUME NEW m \in Node
             PROVE  /\ pc'[m] = "watch" => pos'[m] = cursor'[m]
                    /\ Busy(m)' => pos'[m] = cursor'[m] + 1
                    /\ checkpoint'[m] # Null => Checkpoints
                    /\ 1 .. cursor'[m] \subseteq handled'[m]
  BY DEF CursorInv
<1>0. /\ cursor \in [Node -> Nat] /\ pos \in [Node -> Nat]
      /\ pc \in [Node -> {"down", "watch", "handle", "submit", "sent", "done"}]
      /\ checkpoint \in [Node -> Nat \cup {Null}] /\ DOMAIN handled = Node
  BY DEF TypeInv, TypeOK, RegistryTypeOK
<1>1. CASE UNCHANGED vars
  BY <1>1 DEF vars, dbVars, memVars, CursorInv, Busy
<1>2. ASSUME NEW n \in Node, handle(n)
      PROVE  /\ UNCHANGED <<cursor, pos, checkpoint, handled>> /\ pc[n] = "handle"
             /\ \E q \in {"submit", "done", "down"} : pc' = [pc EXCEPT ![n] = q]
  BY <1>2 DEF handle, keygen_round1, reshare_round1, Round1With, round2, round3, finalize, delete,
              abort, not_enough_producers, Handling, ToSubmit, EndHandler, HandleSoftErrors, Goto,
              dbVars
<1>3. CASE \E n \in Node : handle(n)
  BY <1>0, <1>2, <1>3 DEF CursorInv, Busy
<1>4. CASE \E n \in Node : StoreCursor(n)
  <2>1. PICK n \in Node : StoreCursor(n)
    BY <1>4
  <2>2. pos[n] = cursor[n] + 1 /\ cursor' = [cursor EXCEPT ![n] = @ + 1]
    <3>1. pos[n] = cursor[n] + 1
      BY <2>1 DEF StoreCursor, CursorInv, Busy
    <3>2. (IF pos[n] > cursor[n] THEN pos[n] ELSE cursor[n]) = cursor[n] + 1
      BY <1>0, <3>1
    <3> QED
      BY <2>1, <3>1, <3>2 DEF StoreCursor
  <2>3. handled' = [handled EXCEPT ![n] = @ \cup {pos[n]}] /\ UNCHANGED <<pos, checkpoint>>
        /\ pc' = [pc EXCEPT ![n] = "watch"]
    BY <2>1 DEF StoreCursor, Goto
  <2>4. CASE m = n
    <3>1. 1 .. cursor[n] + 1 \subseteq (1 .. cursor[n]) \cup {cursor[n] + 1}
      BY <1>0
    <3>2. 1 .. cursor[n] \subseteq handled[n]
      BY DEF CursorInv
    <3>3. handled'[n] = handled[n] \cup {cursor[n] + 1} /\ cursor'[n] = cursor[n] + 1
      BY <1>0, <2>2, <2>3
    <3>4. 1 .. cursor'[n] \subseteq handled'[n]
      BY <3>1, <3>2, <3>3
    <3> QED
      BY <1>0, <2>2, <2>3, <2>4, <3>4 DEF CursorInv, Busy
  <2>5. CASE m # n
    BY <1>0, <2>2, <2>3, <2>5 DEF CursorInv, Busy
  <2> QED
    BY <2>4, <2>5
<1>5. CASE \E n \in Node : StoreCheckpoint(n)
  <2>1. PICK n \in Node : StoreCheckpoint(n)
    BY <1>5
  <2>2. cursor' = cursor
    BY <2>1, CheckpointStays
  <2> QED
    BY <1>0, <2>1, <2>2 DEF StoreCheckpoint, CursorInv, Busy
<1>6. CASE \E n \in Node : Mine(n)
  <2>1. PICK n \in Node, q \in {"done", "down"} :
          \/ pc' = pc
          \/ pc[n] = "sent" /\ pc' = [pc EXCEPT ![n] = q]
    BY <1>6 DEF Mine, Goto
  <2>2. UNCHANGED <<cursor, pos, checkpoint, handled>>
    BY <1>6 DEF Mine, dbVars
  <2> QED
    BY <1>0, <2>1, <2>2 DEF CursorInv, Busy
<1>7. CASE \E n \in Node : submit(n)
  <2>1. PICK n \in Node, q \in {"sent", "done", "down"} :
          pc[n] = "submit" /\ pc' = [pc EXCEPT ![n] = q]
    BY <1>7 DEF submit, Goto, HandleSoftErrors
  <2>2. UNCHANGED <<cursor, pos, checkpoint, handled>>
    BY <1>7 DEF submit, dbVars
  <2> QED
    BY <1>0, <2>1, <2>2 DEF CursorInv, Busy
<1>8. CASE \E n \in Node : Start(n) \/ NextLog(n) \/ FetchCheckpoint(n) \/ Crash(n) \/ LoseShares(n)
  BY <1>0, <1>8 DEF Start, NextLog, FetchCheckpoint, Crash, LoseShares, Goto, dbVars, memVars,
                    CursorInv, Busy
<1>9. CASE \E k \in Key : Admin(k)
  BY <1>9 DEF Admin, dbVars, memVars, CursorInv, Busy
<1> QED
  BY <1>1, <1>3, <1>4, <1>5, <1>6, <1>7, <1>8, <1>9 DEF Next, NodeStep

(* The watcher resumes from a cursor behind which everything was handled:   *)
(* no crash, restart or late checkpoint makes it skip an event.             *)
THEOREM NoEventSkippedCorrect == Late => (Spec => []NoEventSkipped)
<1> SUFFICES ASSUME Late PROVE Spec => []NoEventSkipped
  OBVIOUS
<1>1. TypeInv /\ CursorInv /\ [Next]_vars => CursorInv'
  BY CursorNext
<1>2. CursorInv => NoEventSkipped
  BY DEF CursorInv, NoEventSkipped
<1> QED
  BY CursorInit, TypeInvariant, <1>1, <1>2, PTL DEF Spec

-----------------------------------------------------------------------------
(* Deleted keys. *)

(* A step of the chain concerns one key that is not deleted, and the event  *)
(* it appends, if any, says so when it deletes it.                          *)
LEMMA ChainFrame ==
    ASSUME TypeInv, Next
    PROVE  \/ UNCHANGED <<reg, log>>
           \/ \E k \in Key :
                 /\ OthersKept(k) /\ reg[k].round # "deleted"
                 /\ \/ log' = log
                    \/ \E ev \in Event :
                          /\ Extends(ev) /\ ev.key = k
                          /\ ev.type = "KeyDeletion" => reg'[k].round = "deleted"
<1>1. CASE UNCHANGED <<reg, log>>
  BY <1>1
<1>2. CASE \E n \in Node : Mine(n)
  <2>1. PICK n \in Node : Mine(n)
    BY <1>2
  <2>2. Head(pool[n]) \in Submission /\ Head(pool[n]).key \in Key
    <3>1. Head(pool[n]) \in Submission
      BY <2>1 DEF Mine, TypeInv, TypeOK
    <3> QED
      BY <3>1 DEF Submission
  <2> DEFINE s == Head(pool[n])
  <2>3. /\ OthersKept(s.key)
        /\ \/ UNCHANGED <<reg, log>>
           \/ /\ reg[s.key].round \in {"one", "two", "three"}
              /\ \/ log' = log
                 \/ \E ev \in Event : Extends(ev) /\ ev.key = s.key /\ ev.type # "KeyDeletion"
    BY <2>1, <2>2, ExecuteEffect DEF Mine, TypeInv
  <2> HIDE DEF s
  <2> QED
    BY <2>2, <2>3 DEF s
<1>3. CASE \E k \in Key : Admin(k)
  <2>1. PICK k \in Key : Admin(k)
    BY <1>3
  <2>2. CASE initKeyGen(k) \/ initReshare(k)
    BY <2>2, InitEffect DEF TypeInv
  <2>3. CASE abortKeyGen(k) \/ deleteOprfPublicKey(k)
    BY <2>3, EndEffect DEF TypeInv
  <2> QED
    BY <2>1, <2>2, <2>3 DEF Admin
<1>4. ASSUME NEW n \in Node, handle(n)
      PROVE  UNCHANGED <<reg, log>>
  BY <1>4 DEF handle, keygen_round1, reshare_round1, Round1With, round2, round3, finalize, delete,
              abort, not_enough_producers, chainVars
<1>5. ASSUME NEW n \in Node,
             \/ Start(n) \/ NextLog(n) \/ submit(n) \/ StoreCursor(n) \/ FetchCheckpoint(n)
             \/ StoreCheckpoint(n) \/ Crash(n) \/ LoseShares(n)
      PROVE  UNCHANGED <<reg, log>>
  BY <1>5 DEF Start, NextLog, submit, StoreCursor, FetchCheckpoint, StoreCheckpoint, Crash,
              LoseShares, chainVars
<1> QED
  BY <1>1, <1>2, <1>3, <1>4, <1>5 DEF Next, NodeStep

(* A handler writes the rows of the key of its event and of its node only.  *)
LEMMA TableFrame ==
    ASSUME TypeInv, Next
    PROVE  \/ UNCHANGED <<shares, inProgress>>
           \/ \E n \in Node :
                 /\ handle(n) /\ pc[n] = "handle"
                 /\ \A m \in Node, k \in Key : m # n \/ k # Ev(n).key =>
                       shares'[m][k] = shares[m][k] /\ inProgress'[m][k] = inProgress[m][k]
           \/ \E n \in Node : LoseShares(n)
<1>1. ASSUME NEW n \in Node, handle(n)
      PROVE  /\ pc[n] = "handle"
             /\ \A m \in Node, k \in Key : m # n \/ k # Ev(n).key =>
                   shares'[m][k] = shares[m][k] /\ inProgress'[m][k] = inProgress[m][k]
  <2>1. pc[n] = "handle"
    BY <1>1 DEF handle, keygen_round1, reshare_round1, round2, round3, finalize, delete, abort,
                not_enough_producers, Handling
  <2>2. Ev(n).key \in Key
    BY <2>1, EvType DEF Busy
  <2>3. /\ shares \in [Node -> [Key -> ShareRow(Share, Deal) \cup {Null}]]
        /\ DOMAIN inProgress = Node /\ \A m \in Node : DOMAIN inProgress[m] = Key
    BY DEF TypeInv, TypeOK
  <2> DEFINE k == Ev(n).key
  <2>4. \/ shares' = shares
        \/ \E row : shares' = [shares EXCEPT ![n][k] = row]
    BY <1>1 DEF handle, keygen_round1, reshare_round1, Round1With, round2, round3, finalize, delete,
                abort, not_enough_producers, dbVars
  <2>5. \/ inProgress' = inProgress
        \/ \E ip : inProgress' = [inProgress EXCEPT ![n][k] = ip]
    BY <1>1 DEF handle, keygen_round1, reshare_round1, Round1With, round2, round3, finalize, delete,
                abort, not_enough_producers, dbVars
  <2> HIDE DEF k
  <2>6. \A m \in Node, j \in Key : m # n \/ j # k => shares'[m][j] = shares[m][j]
    BY <2>2, <2>3, <2>4
  <2>7. \A m \in Node, j \in Key : m # n \/ j # k => inProgress'[m][j] = inProgress[m][j]
    BY <2>2, <2>3, <2>5
  <2> QED
    BY <2>1, <2>6, <2>7 DEF k
<1> QED
  BY <1>1 DEF Next, NodeStep, Start, NextLog, submit, StoreCursor, Mine, FetchCheckpoint,
              StoreCheckpoint, Crash, Admin, dbVars

(* The deletion of a key is its last event. *)
DeletionInv ==
    \A i \in 1 .. Len(log) : log[i].type = "KeyDeletion" =>
        /\ reg[log[i].key].round = "deleted"
        /\ \A j \in i + 1 .. Len(log) : log[j].key # log[i].key

(* The invariant is inductive. *)
LEMMA DeletionNext ==
    ASSUME TypeInv, DeletionInv, [Next]_vars
    PROVE  DeletionInv'
<1>1. CASE UNCHANGED <<reg, log>>
  BY <1>1 DEF DeletionInv
<1>2. ASSUME NEW k \in Key, OthersKept(k), reg[k].round # "deleted",
             \/ log' = log
             \/ \E ev \in Event : /\ Extends(ev) /\ ev.key = k
                                  /\ ev.type = "KeyDeletion" => reg'[k].round = "deleted"
      PROVE  DeletionInv'
  <2>0. /\ log \in Seq(Event) /\ Len(log) \in Nat
        /\ \A i \in 1 .. Len(log) : log[i].key \in Key
    BY LogTypes
  <2>1. \A i \in 1 .. Len(log) : log[i].type = "KeyDeletion" =>
            log[i].key # k /\ reg'[log[i].key].round = "deleted"
    BY <1>2, <2>0 DEF DeletionInv, OthersKept
  <2>2. CASE log' = log
    BY <2>1, <2>2 DEF DeletionInv
  <2>3. CASE log' # log
    <3>1. PICK ev \in Event : /\ Extends(ev) /\ ev.key = k
                              /\ ev.type = "KeyDeletion" => reg'[k].round = "deleted"
      BY <1>2, <2>3
    <3>2. /\ Len(log') = Len(log) + 1 /\ log'[Len(log) + 1] = ev
          /\ \A i \in 1 .. Len(log) : log'[i] = log[i]
      BY <2>0, <3>1, LogAppend
    <3>3. ASSUME NEW i \in 1 .. Len(log'), log'[i].type = "KeyDeletion"
          PROVE  /\ reg'[log'[i].key].round = "deleted"
                 /\ \A j \in i + 1 .. Len(log') : log'[j].key # log'[i].key
      <4>1. CASE i = Len(log) + 1
        BY <2>0, <3>1, <3>2, <3>3, <4>1
      <4>2. CASE i # Len(log) + 1
        <5>1. i \in 1 .. Len(log) /\ log'[i] = log[i] /\ log[i].key # k
          BY <2>0, <2>1, <3>2, <3>3, <4>2
        <5>2. \A j \in i + 1 .. Len(log) : log'[j].key # log'[i].key
          <6>1. \A j \in i + 1 .. Len(log) : log[j].key # log[i].key
            BY <3>3, <5>1 DEF DeletionInv
          <6> QED
            BY <2>0, <3>2, <5>1, <6>1
        <5>3. log'[Len(log')].key # log'[i].key
          BY <3>1, <3>2, <5>1
        <5>4. \A j \in i + 1 .. Len(log') : j \in i + 1 .. Len(log) \/ j = Len(log')
          BY <2>0, <3>2
        <5>5. reg'[log'[i].key].round = "deleted"
          BY <2>1, <3>3, <5>1
        <5> QED
          BY <5>2, <5>3, <5>4, <5>5
      <4> QED
        BY <4>1, <4>2
    <3> QED
      BY <3>3 DEF DeletionInv
  <2> QED
    BY <2>2, <2>3
<1>3. CASE Next
  BY <1>1, <1>2, <1>3, ChainFrame
<1> QED
  BY <1>1, <1>3 DEF vars, chainVars

(* Node n has nothing of key k. *)
Erased(n, k) == Held(n, k) = -1 /\ inProgress[n][k] = NoIntermediates

(* Node n is done with the deletion of key k. *)
DoneWithDeletion(n, k) ==
    \E i \in 1 .. Len(log) :
        /\ log[i].type = "KeyDeletion" /\ log[i].key = k
        /\ i <= cursor[n] \/ (pc[n] = "done" /\ i = pos[n])

(* A node that is done with the deletion of a key has erased it, and no     *)
(* other handler is at work on a deletion.                                  *)
ErasedInv ==
    \A n \in Node :
        /\ pc[n] \in {"submit", "sent"} => Ev(n).type # "KeyDeletion"
        /\ \A k \in Key : DoneWithDeletion(n, k) => Erased(n, k)

(* What a node has erased stays erased unless it handles an event of the    *)
(* key.                                                                     *)
LEMMA ErasedFrame ==
    ASSUME TypeInv, [Next]_vars, NEW n \in Node, NEW k \in Key, Erased(n, k),
           pc[n] = "handle" => Ev(n).key # k
    PROVE  Erased(n, k)'
<1>1. CASE shares'[n][k] = shares[n][k] /\ inProgress'[n][k] = inProgress[n][k]
  BY <1>1 DEF Erased, Held
<1>2. CASE \E m \in Node : LoseShares(m)
  <2>1. PICK m \in Node : LoseShares(m)
    BY <1>2
  <2>2. inProgress' = inProgress /\ (shares'[n][k] = shares[n][k] \/ shares'[n][k] = Null)
    BY <2>1 DEF LoseShares, TypeInv, TypeOK
  <2> QED
    BY <2>2 DEF Erased, Held
<1>3. CASE UNCHANGED <<shares, inProgress>>
  BY <1>3 DEF Erased, Held
<1>4. CASE Next
  BY <1>1, <1>2, <1>3, <1>4, TableFrame
<1> QED
  BY <1>3, <1>4 DEF vars, dbVars

(* A node becomes done with a deletion by handling it, and only so. *)
LEMMA DoneStep ==
    ASSUME Late, TypeInv, CursorInv, DeletionInv, ErasedInv, [Next]_vars, NEW n \in Node
    PROVE  /\ pc'[n] \in {"submit", "sent"} => Ev(n)'.type # "KeyDeletion"
           /\ \A k \in Key : DoneWithDeletion(n, k)' =>
                 \/ DoneWithDeletion(n, k)
                 \/ delete(n) /\ Ev(n).key = k
<1>0. /\ log \in Seq(Event) /\ Len(log) \in Nat /\ pos[n] \in 0 .. Len(log)
      /\ cursor[n] \in 0 .. Len(log)
      /\ pc \in [Node -> {"down", "watch", "handle", "submit", "sent", "done"}]
  BY LogTypes DEF TypeInv, TypeOK
<1>1. Len(log') \in Nat /\ Len(log) <= Len(log') /\ \A i \in 1 .. Len(log) : log'[i] = log[i]
  <2>1. CASE log' = log
    BY <1>0, <2>1
  <2>2. CASE \E ev \in Event : Extends(ev)
    BY <1>0, <2>2, LogAppend
  <2>3. CASE Next
    BY <2>1, <2>2, <2>3, ChainFrame
  <2> QED
    BY <2>1, <2>3 DEF vars, chainVars
<1> DEFINE Goal == /\ pc'[n] \in {"submit", "sent"} => Ev(n)'.type # "KeyDeletion"
                   /\ \A k \in Key : DoneWithDeletion(n, k)' =>
                         \/ DoneWithDeletion(n, k)
                         \/ delete(n) /\ Ev(n).key = k
<1>2. ASSUME cursor'[n] = cursor[n],
             pc'[n] \in {"submit", "sent", "done"} =>
                 /\ pos'[n] = pos[n] /\ pos[n] \in 1 .. Len(log)
                 /\ \/ pc'[n] = "done" /\ pc[n] = "done"
                    \/ pc'[n] = "done" /\ delete(n)
                    \/ log[pos[n]].type # "KeyDeletion"
      PROVE  Goal
  <2>1. pc'[n] \in {"submit", "sent"} => Ev(n)'.type # "KeyDeletion"
    BY <1>1, <1>2 DEF Ev
  <2>2. ASSUME NEW k \in Key, DoneWithDeletion(n, k)'
        PROVE  DoneWithDeletion(n, k) \/ (delete(n) /\ Ev(n).key = k)
    <3>1. PICK i \in 1 .. Len(log') :
            /\ log'[i].type = "KeyDeletion" /\ log'[i].key = k
            /\ i <= cursor[n] \/ (pc'[n] = "done" /\ i = pos'[n])
      BY <1>2, <2>2 DEF DoneWithDeletion
    <3>2. i \in 1 .. Len(log) /\ log'[i] = log[i]
      BY <1>0, <1>1, <1>2, <3>1
    <3> QED
      BY <1>2, <3>1, <3>2 DEF DoneWithDeletion, Ev
  <2> QED
    BY <2>1, <2>2
<1>3. CASE StoreCursor(n)
  <2>1. /\ pc'[n] = "watch" /\ pos[n] = cursor[n] + 1 /\ cursor'[n] = cursor[n] + 1
        /\ log' = log /\ pc[n] = "done"
    <3>1. pos[n] = cursor[n] + 1 /\ pc[n] = "done"
      BY <1>3 DEF StoreCursor, CursorInv, Busy
    <3> QED
      BY <1>0, <1>3, <3>1 DEF StoreCursor, Goto, chainVars, TypeInv, TypeOK
  <2> QED
    BY <1>0, <2>1 DEF DoneWithDeletion
<1>4. CASE handle(n)
  <2>1. /\ pc[n] = "handle" /\ cursor' = cursor /\ pos' = pos
        /\ \/ delete(n) /\ pc'[n] = "done"
           \/ Ev(n).type # "KeyDeletion"
    BY <1>0, <1>4 DEF handle, keygen_round1, reshare_round1, Round1With, round2, round3, finalize,
                      delete, abort, not_enough_producers, Handling, dbVars, EndHandler,
                      HandleSoftErrors, Goto
  <2>2. pos[n] \in 1 .. Len(log)
    BY <2>1, EvType DEF Busy
  <2> QED
    BY <1>2, <2>1, <2>2 DEF Ev
<1>5. CASE cursor'[n] = cursor[n] /\ pc'[n] = pc[n] /\ pos'[n] = pos[n]
  <2>1. pc[n] \in {"submit", "sent", "done"} => pos[n] \in 1 .. Len(log)
    BY EvType DEF Busy
  <2>2. pc[n] \in {"submit", "sent"} => log[pos[n]].type # "KeyDeletion"
    BY DEF ErasedInv, Ev
  <2> QED
    BY <1>2, <1>5, <2>1, <2>2
<1>6. CASE /\ cursor' = cursor /\ pos'[n] = pos[n] /\ pc[n] \in {"submit", "sent"}
           /\ pc'[n] \in {"sent", "done", "down"}
  <2>1. pos[n] \in 1 .. Len(log) /\ log[pos[n]].type # "KeyDeletion"
    BY <1>6, EvType DEF Busy, ErasedInv, Ev
  <2> QED
    BY <1>2, <1>6, <2>1
<1>7. CASE cursor' = cursor /\ pc'[n] \in {"watch", "handle", "down"}
  BY <1>2, <1>7
<1>8. CASE Next
  <2>1. CASE \E m \in Node : StoreCursor(m)
    <3>1. PICK m \in Node : StoreCursor(m)
      BY <2>1
    <3>2. CASE m # n
      BY <1>0, <1>5, <3>1, <3>2 DEF StoreCursor, Goto, TypeInv, TypeOK
    <3> QED
      BY <1>3, <3>1, <3>2
  <2>2. CASE ~\E m \in Node : StoreCursor(m)
    <3>1. cursor' = cursor
      BY <1>8, <2>2, CursorMoves
    <3>2. CASE \E m \in Node : handle(m)
      <4>1. PICK m \in Node : handle(m)
        BY <3>2
      <4>2. CASE m # n
        <5>1. pos' = pos /\ \E q : pc' = [pc EXCEPT ![m] = q]
          BY <4>1 DEF handle, keygen_round1, reshare_round1, Round1With, round2, round3, finalize,
                      delete, abort, not_enough_producers, dbVars, EndHandler, ToSubmit, Goto
        <5> QED
          BY <1>0, <1>5, <3>1, <4>2, <5>1
      <4> QED
        BY <1>4, <4>1, <4>2
    <3>3. CASE \E m \in Node : submit(m) \/ Mine(m)
      <4>1. PICK m \in Node, q \in {"sent", "done", "down"} :
              \/ pc' = pc
              \/ pc[m] \in {"submit", "sent"} /\ pc' = [pc EXCEPT ![m] = q]
        BY <3>3 DEF submit, Mine, Goto, HandleSoftErrors
      <4>2. pos' = pos
        BY <3>3 DEF submit, Mine
      <4> QED
        BY <1>0, <1>5, <1>6, <3>1, <4>1, <4>2
    <3>4. CASE \E m \in Node : Start(m) \/ NextLog(m) \/ Crash(m)
      <4>1. PICK m \in Node, q \in {"watch", "handle", "down"} :
              /\ pc' = [pc EXCEPT ![m] = q]
              /\ m # n => pos'[n] = pos[n]
        BY <1>0, <3>4 DEF Start, NextLog, Crash, Goto, TypeInv, TypeOK
      <4> HIDE DEF Goal
      <4>2. CASE m # n
        BY <1>0, <1>5, <3>1, <4>1, <4>2
      <4>3. CASE m = n
        BY <1>0, <1>7, <3>1, <4>1, <4>3
      <4> QED
        BY <4>2, <4>3
    <3>5. CASE UNCHANGED <<pc, pos>>
      BY <1>5, <3>1, <3>5
    <3> QED
      BY <1>8, <2>2, <3>2, <3>3, <3>4, <3>5
         DEF Next, NodeStep, FetchCheckpoint, StoreCheckpoint, LoseShares, Admin, memVars
  <2> QED
    BY <2>1, <2>2
<1>9. CASE UNCHANGED vars
  BY <1>5, <1>9 DEF vars, dbVars, memVars
<1> QED
  BY <1>8, <1>9

(* The invariant is inductive. *)
LEMMA ErasedNext ==
    ASSUME Late, TypeInv, CursorInv, DeletionInv, ErasedInv, [Next]_vars
    PROVE  ErasedInv'
<1> SUFFICES ASSUME NEW n \in Node, NEW k \in Key, DoneWithDeletion(n, k)'
             PROVE  Erased(n, k)'
  BY DoneStep DEF ErasedInv
<1>1. CASE DoneWithDeletion(n, k)
  <2>1. Erased(n, k)
    BY <1>1 DEF ErasedInv
  <2>2. ASSUME pc[n] = "handle" PROVE Ev(n).key # k
    <3>1. pos[n] = cursor[n] + 1 /\ pos[n] \in 1 .. Len(log) /\ cursor[n] \in Nat
      BY <2>2, EvType, LogTypes DEF CursorInv, Busy, TypeInv, TypeOK
    <3>2. PICK i \in 1 .. Len(log) :
            log[i].type = "KeyDeletion" /\ log[i].key = k /\ i <= cursor[n]
      BY <1>1, <2>2 DEF DoneWithDeletion
    <3>3. pos[n] \in i + 1 .. Len(log)
      BY <3>1, <3>2
    <3> QED
      BY <3>2, <3>3 DEF DeletionInv, Ev
  <2> QED
    BY <2>1, <2>2, ErasedFrame
<1>2. CASE delete(n) /\ Ev(n).key = k
  <2>1. shares[n][k] \in ShareRow(Share, Deal) \cup {Null}
    BY DEF TypeInv, TypeOK
  <2>2. SoftDeleteShares(shares[n][k]) = Null \/ SoftDeleteShares(shares[n][k]).deleted
    BY <2>1, SoftDelete, NullAssumption DEF SoftDeleteShares
  <2>3. shares'[n][k] = SoftDeleteShares(shares[n][k]) /\ inProgress'[n][k] = NoIntermediates
    BY <1>2 DEF delete, TypeInv, TypeOK, DeleteIntermediates
  <2> QED
    BY <2>2, <2>3 DEF Erased, Held
<1> QED
  BY <1>1, <1>2, DoneStep

(* The invariants of this module. *)
BaseInv == TypeInv /\ CursorInv /\ DeletionInv /\ ErasedInv

(* They hold initially. *)
LEMMA BaseInit == Init => BaseInv
<1>1. Init => DeletionInv /\ ErasedInv
  BY DEF Init, RegistryInit, DeletionInv, ErasedInv, DoneWithDeletion
<1> QED
  BY <1>1, TypeInvInit, CursorInit DEF BaseInv

(* They are inductive. *)
LEMMA BaseNext ==
    ASSUME Late, BaseInv, [Next]_vars
    PROVE  BaseInv'
BY TypeInvNext, CursorNext, DeletionNext, ErasedNext DEF BaseInv

(* A node that is past the deletion of a key holds neither a share nor an   *)
(* intermediate value of it, and never gets one again: events that were     *)
(* emitted before the deletion and are handled, or sent, after it find      *)
(* nothing to bring back.                                                   *)
THEOREM DeletedIsErasedCorrect == Late => (Spec => []DeletedIsErased)
<1> SUFFICES ASSUME Late PROVE Spec => []DeletedIsErased
  OBVIOUS
<1>1. BaseInv /\ [Next]_vars => BaseInv'
  BY BaseNext
<1>2. BaseInv => DeletedIsErased
  <2> SUFFICES ASSUME BaseInv, NEW n \in Node, NEW i \in 1 .. cursor[n],
                      log[i].type = "KeyDeletion"
               PROVE  Erased(n, log[i].key)
    BY DEF DeletedIsErased, Erased
  <2>1. i \in 1 .. Len(log) /\ i <= cursor[n] /\ log[i].key \in Key
    BY LogTypes DEF BaseInv, TypeInv, TypeOK
  <2> QED
    BY <2>1 DEF BaseInv, ErasedInv, DoneWithDeletion
<1> QED
  BY BaseInit, <1>1, <1>2, PTL DEF Spec
=============================================================================
