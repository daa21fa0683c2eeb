-------------------------- MODULE OprfClientProofs --------------------------
(***************************************************************************)
(* Proofs about OprfClient, for every number of services, every threshold,  *)
(* any set of faulty services and any order of the answers.                 *)
(***************************************************************************)
EXTENDS OprfClient, FiniteSetTheorems, FunctionTheorems, TLAPS

(* Service s answered with a session of epoch e and this party and key. *)
Backed(s, e, p, key) ==
    /\ s \in Service /\ reply[s] # Null /\ reply[s].error = "none"
    /\ reply[s].epoch = e /\ reply[s].party = p /\ reply[s].key = key

SameLengths(g) == Len(g.party_ids) = Len(g.ws) /\ Len(g.keys) = Len(g.ws)

(* A group of epoch_session_map holds answers to the client, at most one of *)
(* a party.                                                                 *)
Grouped(g, e) ==
    /\ SameLengths(g)
    /\ \A i \in DOMAIN g.ws : Backed(g.ws[i], e, g.party_ids[i], g.keys[i])
    /\ \A i, j \in DOMAIN g.ws : g.party_ids[i] = g.party_ids[j] => i = j

(* It has one of every party whose answer was taken, and is not full yet. *)
GroupOk(e) ==
    /\ Grouped(groups[e], e) /\ Len(groups[e].ws) < threshold
    /\ \A s \in Answered(e) \ waiting :
          \E i \in DOMAIN groups[e].ws : groups[e].party_ids[i] = reply[s].party

(* An error was pushed once for every service that sent it. *)
Pushed(x) == {i \in DOMAIN errors : errors[i] = x}

ErrorsOk(x) == Cardinality(Pushed(x)) = Cardinality(Failed(x) \ waiting)

StartInv ==
    phase = "start" =>
        /\ groups = [e \in Epoch |-> NoSessions] /\ errors = << >>
        /\ \A s \in Service : reply[s] = Null

InitInv ==
    phase = "init" =>
        /\ threshold \in 1 .. N
        /\ \A e \in Epoch : GroupOk(e)
        /\ \A x \in NodeErrors : ErrorsOk(x)
        /\ \A s \in Service \ waiting : reply[s] # Null

(* The chosen sessions: threshold of them, of one epoch, in the order of    *)
(* their party ids, each next to what its service answered.                 *)
ChosenInv ==
    phase \in {"challenge", "finish", "core"} =>
        /\ threshold \in 1 .. N
        /\ SameLengths(chosen) /\ Len(chosen.ws) = threshold
        /\ \A i, j \in DOMAIN chosen.ws : i < j => chosen.party_ids[i] < chosen.party_ids[j]
        /\ \E e \in Epoch : \A i \in DOMAIN chosen.ws :
              Backed(chosen.ws[i], e, chosen.party_ids[i], chosen.keys[i])

(* A service that is not faulty answers with its party id and the key. *)
HonestReplies ==
    \A s \in Service \ Faulty :
        reply[s] # Null /\ reply[s].error = "none" =>
            reply[s].party = party[s] /\ reply[s].key = "key"

(* A service that is not faulty sends a proof share only if it accepts the  *)
(* challenge, and rejects it only if it does not.                           *)
HonestProofs ==
    /\ phase \in {"start", "init", "challenge"} => \A s \in Service : proof[s] = "none"
    /\ phase \in {"finish", "core"} =>
          \A s \in Service \ Faulty : /\ proof[s] # "wrongShare"
                                      /\ proof[s] = "share" => Accepts(s)
    /\ phase = "core" => \A i \in DOMAIN chosen.ws :
                            proof[chosen.ws[i]] \in {"share", "wrongShare"}

(* What a verdict of init_sessions stands for. *)
VerdictBacked ==
    /\ result \in {"ServiceErrorA", "ServiceErrorB", "UnexpectedMessage"} =>
          Cardinality(Failed(result)) >= threshold
    /\ result = "Networking" => Cardinality(Failed("WsError")) >= threshold

ResultInv ==
    /\ phase # "done" => result = "none"
    /\ HonestNodesVerify
    /\ InitFailsOnlyWithoutQuorum
    /\ VerdictIsOrderFree
    /\ VerdictBacked

Inv ==
    /\ ClientTypeOK
    /\ StartInv
    /\ InitInv
    /\ ChosenInv
    /\ HonestReplies
    /\ HonestProofs
    /\ ResultInv

-----------------------------------------------------------------------------
(* The members of a finite set of integers in their order. *)
LEMMA Enumeration ==
    ASSUME NEW T, T \subseteq Int, IsFiniteSet(T)
    PROVE  \E f \in Bijection(1 .. Cardinality(T), T) :
              \A i, j \in 1 .. Cardinality(T) : i < j => f[i] < f[j]
<1> DEFINE n == Cardinality(T)
           Below(x) == {y \in T : y <= x}
           rank == [x \in T |-> Cardinality(Below(x))]
<1>1. n \in Nat /\ IsFiniteSet(1 .. n) /\ Cardinality(1 .. n) = n
  BY FS_CardinalityType, FS_Interval
<1>2. ASSUME NEW x \in T
      PROVE  IsFiniteSet(Below(x)) /\ Cardinality(Below(x)) \in 1 .. n
  <2>1. /\ IsFiniteSet(Below(x)) /\ Cardinality(Below(x)) <= n
        /\ Cardinality(Below(x)) \in Nat
    BY FS_Subset, FS_CardinalityType
  <2>2. x \in Below(x)
    OBVIOUS
  <2>3. Cardinality(Below(x)) # 0
    BY <2>1, <2>2, FS_EmptySet
  <2> QED
    BY <1>1, <2>1, <2>3
<1>3. ASSUME NEW x \in T, NEW y \in T, x < y
      PROVE  Cardinality(Below(x)) < Cardinality(Below(y))
  <2>1. Below(x) \in SUBSET Below(y) /\ y \in Below(y) /\ y \notin Below(x)
    <3>1. x \in Int /\ y \in Int /\ \A z \in T : z \in Int
      OBVIOUS
    <3>2. \A z \in T : z <= x => z <= y
      BY <1>3, <3>1
    <3>3. ~(y <= x) /\ y <= y
      BY <1>3, <3>1
    <3> QED
      BY <3>2, <3>3
  <2>2. /\ Cardinality(Below(x)) <= Cardinality(Below(y))
        /\ Cardinality(Below(x)) # Cardinality(Below(y))
    BY <1>2, <2>1, FS_Subset
  <2> QED
    BY <1>2, <2>2
<1> HIDE DEF Below, n
<1>4. rank \in [T -> 1 .. n]
  BY <1>2
<1>5. \A x, y \in T : rank[x] = rank[y] => x = y
  <2> SUFFICES ASSUME NEW x \in T, NEW y \in T, x # y PROVE rank[x] # rank[y]
    OBVIOUS
  <2>1. x < y \/ y < x
    OBVIOUS
  <2>2. Cardinality(Below(x)) \in Int /\ Cardinality(Below(y)) \in Int
    BY <1>2
  <2>3. Cardinality(Below(x)) < Cardinality(Below(y)) \/ Cardinality(Below(y)) < Cardinality(Below(x))
    BY <1>3, <2>1
  <2> QED
    BY <2>2, <2>3
<1>6. rank \in Injection(T, 1 .. n)
  BY <1>4, <1>5, Fun_IsInj
<1>7. rank \in Surjection(T, 1 .. n)
  <2>1. Cardinality(T) = Cardinality(1 .. n)
    BY <1>1 DEF n
  <2> QED
    BY <1>1, <1>6, <2>1, FS_Injection
<1>8. \A i \in 1 .. n : \E x \in T : rank[x] = i
  BY <1>7 DEF Surjection
<1>9. \A x, y \in T : rank[x] < rank[y] => x < y
  <2> SUFFICES ASSUME NEW x \in T, NEW y \in T, ~(x < y), rank[x] < rank[y] PROVE FALSE
    OBVIOUS
  <2>1. rank[x] \in Int /\ rank[y] \in Int
    BY <1>4
  <2>2. x = y \/ y < x
    OBVIOUS
  <2>3. CASE y < x
    BY <1>3, <2>1, <2>3
  <2> QED
    BY <2>1, <2>2, <2>3
<1> HIDE DEF rank
<1> DEFINE f == [i \in 1 .. n |-> CHOOSE x \in T : rank[x] = i]
<1>10. \A i \in 1 .. n : f[i] \in T /\ rank[f[i]] = i
  BY <1>8
<1>11. f \in [1 .. n -> T]
  BY <1>10
<1>12. \A x \in T : rank[x] \in 1 .. n /\ f[rank[x]] = x
  BY <1>4, <1>5, <1>10
<1> HIDE DEF f
<1>13. f \in Bijection(1 .. n, T)
  <2>1. \A i, j \in 1 .. n : f[i] = f[j] => i = j
    BY <1>10
  <2>2. \A x \in T : \E i \in 1 .. n : f[i] = x
    BY <1>12
  <2> QED
    BY <1>11, <2>1, <2>2, Fun_IsBij
<1>14. \A i, j \in 1 .. n : i < j => f[i] < f[j]
  BY <1>9, <1>10
<1> QED
  BY <1>13, <1>14 DEF n

(* sort_by_party_id: different party ids have one strict order. *)
LEMMA Sorting ==
    ASSUME NEW n \in Nat, NEW ids \in [1 .. n -> PartyIds],
           \A i, j \in 1 .. n : ids[i] = ids[j] => i = j
    PROVE  /\ PartyOrder(ids) \in [1 .. n -> 1 .. n]
           /\ \A i, j \in 1 .. n : i < j => ids[PartyOrder(ids)[i]] < ids[PartyOrder(ids)[j]]
           /\ \A j \in 1 .. n : \E i \in 1 .. n : PartyOrder(ids)[i] = j
<1> DEFINE T == {ids[i] : i \in 1 .. n}
           Good(p) == /\ \A i, j \in 1 .. n : p[i] = p[j] => i = j
                      /\ \A i, j \in 1 .. n : i < j => ids[p[i]] <= ids[p[j]]
<1>1. PartyIds \subseteq Int /\ DOMAIN ids = 1 .. n /\ \A i \in 1 .. n : ids[i] \in Int
  BY DEF PartyIds
<1>2. ids \in Bijection(1 .. n, T)
  <2>1. ids \in [1 .. n -> T] /\ \A t \in T : \E i \in 1 .. n : ids[i] = t
    OBVIOUS
  <2> QED
    BY <2>1, Fun_IsBij
<1>3. IsFiniteSet(1 .. n) /\ Cardinality(1 .. n) = n
  BY FS_Interval
<1>4. T \subseteq Int /\ IsFiniteSet(T) /\ Cardinality(T) = n
  <2>1. ExistsBijection(1 .. n, T)
    BY <1>2 DEF ExistsBijection
  <2> QED
    BY <1>1, <1>3, <2>1, FS_Bijection
<1>5. PICK f \in Bijection(1 .. n, T) : \A i, j \in 1 .. n : i < j => f[i] < f[j]
  BY <1>4, Enumeration
<1>6. f \in [1 .. n -> T] /\ \A i, j \in 1 .. n : f[i] = f[j] => i = j
  BY Fun_BijectionProperties
<1> DEFINE q == [i \in 1 .. n |-> CHOOSE j \in 1 .. n : ids[j] = f[i]]
<1>7. \A i \in 1 .. n : q[i] \in 1 .. n /\ ids[q[i]] = f[i]
  <2> SUFFICES ASSUME NEW i \in 1 .. n PROVE q[i] \in 1 .. n /\ ids[q[i]] = f[i]
    OBVIOUS
  <2>1. \E j \in 1 .. n : ids[j] = f[i]
    BY <1>6
  <2> QED
    BY <2>1
<1>8. q \in [1 .. n -> 1 .. n]
  BY <1>7
<1> HIDE DEF q, T
<1>9. Good(q)
  <2>1. \A i, j \in 1 .. n : q[i] = q[j] => i = j
    BY <1>6, <1>7
  <2>2. ASSUME NEW i \in 1 .. n, NEW j \in 1 .. n, i < j PROVE ids[q[i]] <= ids[q[j]]
    BY <1>1, <1>5, <1>7, <2>2
  <2> QED
    BY <2>1, <2>2
<1> DEFINE p == PartyOrder(ids)
<1>10. p \in [1 .. n -> 1 .. n] /\ Good(p)
  BY <1>1, <1>8, <1>9 DEF PartyOrder
<1> HIDE DEF p
<1>11. ASSUME NEW i \in 1 .. n, NEW j \in 1 .. n, i < j PROVE ids[p[i]] < ids[p[j]]
  <2>1. p[i] \in 1 .. n /\ p[j] \in 1 .. n /\ p[i] # p[j] /\ ids[p[i]] <= ids[p[j]]
    BY <1>10, <1>11
  <2>2. ids[p[i]] # ids[p[j]]
    BY <2>1
  <2> QED
    BY <1>1, <2>1, <2>2
<1>12. p \in Surjection(1 .. n, 1 .. n)
  <2>1. p \in Injection(1 .. n, 1 .. n)
    BY <1>10, Fun_IsInj
  <2> QED
    BY <1>3, <2>1, FS_Injection
<1>13. \A j \in 1 .. n : \E i \in 1 .. n : p[i] = j
  BY <1>12 DEF Surjection
<1> QED
  BY <1>10, <1>11, <1>13 DEF p

-----------------------------------------------------------------------------
(* Sequences by their elements. *)
LEMMA SeqOfElements ==
    ASSUME NEW S, NEW n \in Nat, NEW f \in [1 .. n -> S]
    PROVE  f \in Seq(S) /\ Len(f) = n /\ DOMAIN f = 1 .. n
OBVIOUS

(* Appending an element. *)
LEMMA Appended ==
    ASSUME NEW S, NEW q \in Seq(S), NEW x \in S, NEW n \in Nat, n = Len(q)
    PROVE  /\ Append(q, x) \in Seq(S) /\ Len(Append(q, x)) = n + 1
           /\ DOMAIN Append(q, x) = 1 .. n + 1
           /\ \A i \in 1 .. n : Append(q, x)[i] = q[i]
           /\ Append(q, x)[n + 1] = x
OBVIOUS

(* The sessions of a group in the order of their parties. *)
LEMMA Chosen ==
    ASSUME NEW e \in Epoch, NEW g \in OprfSessions, Grouped(g, e)
    PROVE  LET c == sort_by_party_id(g)
           IN  /\ c \in OprfSessions /\ SameLengths(c) /\ Len(c.ws) = Len(g.ws)
               /\ \A i, j \in DOMAIN c.ws : i < j => c.party_ids[i] < c.party_ids[j]
               /\ \A i \in DOMAIN c.ws : Backed(c.ws[i], e, c.party_ids[i], c.keys[i])
<1> DEFINE n == Len(g.ws)
           p == PartyOrder(g.party_ids)
           c == sort_by_party_id(g)
<1>1. /\ g.ws \in Seq(Service) /\ g.party_ids \in Seq(PartyIds) /\ g.keys \in Seq(PublicKey)
  BY DEF OprfSessions
<1>2. /\ n \in Nat /\ DOMAIN g.ws = 1 .. n
      /\ g.ws \in [1 .. n -> Service] /\ g.party_ids \in [1 .. n -> PartyIds]
      /\ g.keys \in [1 .. n -> PublicKey]
  BY <1>1 DEF Grouped, SameLengths
<1>3. /\ \A i \in 1 .. n : Backed(g.ws[i], e, g.party_ids[i], g.keys[i])
      /\ \A i, j \in 1 .. n : g.party_ids[i] = g.party_ids[j] => i = j
  BY <1>2 DEF Grouped
<1> HIDE DEF n
<1>4. /\ p \in [1 .. n -> 1 .. n]
      /\ \A i, j \in 1 .. n : i < j => g.party_ids[p[i]] < g.party_ids[p[j]]
  BY <1>2, <1>3, Sorting
<1> HIDE DEF p
<1>5. c = [ws |-> [i \in 1 .. n |-> g.ws[p[i]]],
           party_ids |-> [i \in 1 .. n |-> g.party_ids[p[i]]],
           keys |-> [i \in 1 .. n |-> g.keys[p[i]]]]
  BY <1>4 DEF sort_by_party_id, Reordered, p
<1> HIDE DEF c
<1>6. /\ c.ws = [i \in 1 .. n |-> g.ws[p[i]]]
      /\ c.party_ids = [i \in 1 .. n |-> g.party_ids[p[i]]]
      /\ c.keys = [i \in 1 .. n |-> g.keys[p[i]]]
  BY <1>5
<1>7. /\ c.ws \in [1 .. n -> Service] /\ c.party_ids \in [1 .. n -> PartyIds]
      /\ c.keys \in [1 .. n -> PublicKey]
  BY <1>2, <1>4, <1>6
<1>8. /\ c.ws \in Seq(Service) /\ c.party_ids \in Seq(PartyIds) /\ c.keys \in Seq(PublicKey)
      /\ Len(c.ws) = n /\ Len(c.party_ids) = n /\ Len(c.keys) = n /\ DOMAIN c.ws = 1 .. n
  BY <1>2, <1>7, SeqOfElements
<1>9. c \in OprfSessions
  BY <1>5, <1>6, <1>8 DEF OprfSessions
<1>10. \A i, j \in 1 .. n : i < j => c.party_ids[i] < c.party_ids[j]
  BY <1>4, <1>6
<1>11. \A i \in 1 .. n : Backed(c.ws[i], e, c.party_ids[i], c.keys[i])
  BY <1>3, <1>4, <1>6
<1> QED
  BY <1>8, <1>9, <1>10, <1>11 DEF SameLengths, c, n

(* OprfSessions::push adds the session of a party that has none. *)
LEMMA Push ==
    ASSUME NEW e \in Epoch, NEW g \in OprfSessions, Grouped(g, e),
           NEW s \in Service, reply[s] \in Reply, reply[s] # Null, reply[s].error = "none",
           reply[s].epoch = e
    PROVE  LET h == push(g, s, reply[s])
           IN  /\ h \in OprfSessions /\ Grouped(h, e)
               /\ h = g \/ Len(h.ws) = Len(g.ws) + 1
               /\ \E i \in DOMAIN h.ws : h.party_ids[i] = reply[s].party
               /\ \A i \in DOMAIN g.ws : i \in DOMAIN h.ws /\ h.party_ids[i] = g.party_ids[i]
<1> DEFINE r == reply[s]
           n == Len(g.ws)
           h == push(g, s, r)
<1>1. /\ g.ws \in Seq(Service) /\ g.party_ids \in Seq(PartyIds) /\ g.keys \in Seq(PublicKey)
      /\ n \in Nat /\ Len(g.party_ids) = n /\ Len(g.keys) = n /\ DOMAIN g.ws = 1 .. n
      /\ r.party \in PartyIds /\ r.key \in PublicKey
  BY DEF OprfSessions, Grouped, SameLengths, Reply
<1>2. CASE Contains(g.party_ids, r.party)
  <2>1. h = g /\ \E i \in 1 .. n : g.party_ids[i] = r.party
    BY <1>1, <1>2 DEF push, Contains
  <2> QED
    BY <1>1, <2>1
<1>3. CASE ~Contains(g.party_ids, r.party)
  <2>1. h = [ws |-> Append(g.ws, s), party_ids |-> Append(g.party_ids, r.party),
             keys |-> Append(g.keys, r.key)]
    BY <1>3 DEF push
  <2> HIDE DEF h
  <2>2. /\ h.ws = Append(g.ws, s) /\ h.party_ids = Append(g.party_ids, r.party)
        /\ h.keys = Append(g.keys, r.key)
    BY <2>1
  <2>3. /\ h.ws \in Seq(Service) /\ h.party_ids \in Seq(PartyIds) /\ h.keys \in Seq(PublicKey)
        /\ Len(h.ws) = n + 1 /\ Len(h.party_ids) = n + 1 /\ Len(h.keys) = n + 1
        /\ DOMAIN h.ws = 1 .. n + 1
    BY <1>1, <2>2
  <2>4. h \in OprfSessions
    BY <2>1, <2>2, <2>3 DEF OprfSessions
  <2>5. /\ \A i \in 1 .. n : /\ h.ws[i] = g.ws[i] /\ h.party_ids[i] = g.party_ids[i]
                             /\ h.keys[i] = g.keys[i]
        /\ h.ws[n + 1] = s /\ h.party_ids[n + 1] = r.party /\ h.keys[n + 1] = r.key
    BY <1>1, <2>2, Appended
  <2>6. \A i \in 1 .. n : g.party_ids[i] # r.party
    BY <1>1, <1>3 DEF Contains
  <2>7. \A i \in 1 .. n + 1 : i \in 1 .. n \/ i = n + 1
    BY <1>1
  <2>8. Backed(s, e, r.party, r.key)
    BY DEF Backed
  <2>9. \A i \in 1 .. n + 1 : Backed(h.ws[i], e, h.party_ids[i], h.keys[i])
    BY <1>1, <2>5, <2>7, <2>8 DEF Grouped
  <2>10. ASSUME NEW i \in 1 .. n + 1, NEW j \in 1 .. n + 1, h.party_ids[i] = h.party_ids[j]
         PROVE  i = j
    <3>1. \A k, m \in 1 .. n : g.party_ids[k] = g.party_ids[m] => k = m
      BY <1>1 DEF Grouped
    <3>2. CASE i \in 1 .. n /\ j \in 1 .. n
      BY <2>5, <2>10, <3>1, <3>2
    <3>3. CASE i = n + 1 \/ j = n + 1
      BY <2>5, <2>6, <2>7, <2>10, <3>3
    <3> QED
      BY <2>7, <3>2, <3>3
  <2>11. n + 1 \in 1 .. n + 1 /\ \A i \in 1 .. n : i \in 1 .. n + 1
    BY <1>1
  <2> QED
    BY <1>1, <2>3, <2>4, <2>5, <2>9, <2>10, <2>11 DEF Grouped, SameLengths, h
<1> QED
  BY <1>2, <1>3

-----------------------------------------------------------------------------
(* What is said of a group reads reply and nothing else that changes. *)
LEMMA GroupedKept ==
    ASSUME NEW e \in Epoch, NEW g \in OprfSessions, Grouped(g, e),
           \A s \in Service : reply[s] # Null => reply'[s] = reply[s]
    PROVE  /\ SameLengths(g)
           /\ \A i \in DOMAIN g.ws : Backed(g.ws[i], e, g.party_ids[i], g.keys[i])'
           /\ \A i, j \in DOMAIN g.ws : g.party_ids[i] = g.party_ids[j] => i = j
<1>1. ASSUME NEW i \in DOMAIN g.ws
      PROVE  Backed(g.ws[i], e, g.party_ids[i], g.keys[i])'
  <2>1. Backed(g.ws[i], e, g.party_ids[i], g.keys[i])
    BY DEF Grouped
  <2> QED
    BY <2>1 DEF Backed
<1> QED
  BY <1>1 DEF Grouped

(* Without a result there is nothing to say of it. *)
LEMMA NoResult ==
    ASSUME result' = "none",
           Faulty = {} /\ threshold' = Threshold => \A s \in Service : proof'[s] # "rejected"
    PROVE  ResultInv'
BY DEF ResultInv, HonestNodesVerify, InitFailsOnlyWithoutQuorum, VerdictIsOrderFree,
       VerdictBacked, InitErrors

(* A result other than a verdict of init_sessions. *)
LEMMA OtherResult ==
    ASSUME phase' = "done", result' \notin InitErrors \cup {"Panic"},
           Faulty = {} => result' \notin {"InvalidDLogProof", "InconsistentOprfPublicKeys"},
           Faulty = {} /\ threshold' = Threshold => \A s \in Service : proof'[s] # "rejected"
    PROVE  ResultInv'
BY DEF ResultInv, HonestNodesVerify, InitFailsOnlyWithoutQuorum, VerdictIsOrderFree,
       VerdictBacked, InitErrors

(* What the result invariant says of the proofs. *)
LEMMA NotRejected ==
    ASSUME Inv, threshold' = threshold, proof' = proof
    PROVE  Faulty = {} /\ threshold' = Threshold => \A s \in Service : proof'[s] # "rejected"
BY DEF Inv, ResultInv, HonestNodesVerify

(* The argument checks: a run begins with every future waiting. *)
LEMMA CoreInv ==
    ASSUME Inv, distributed_oprf_core
    PROVE  Inv'
<1>1. /\ ClientTypeOK /\ phase = "start" /\ HonestReplies /\ HonestProofs /\ result = "none"
      /\ groups = [e \in Epoch |-> NoSessions] /\ errors = << >>
      /\ \A s \in Service : reply[s] = Null
      /\ UNCHANGED <<threshold, unique, party, nodeEpoch, reply, proof, groups, errors, chosen>>
  BY DEF Inv, StartInv, ResultInv, distributed_oprf_core, nodeVars
<1>2. ClientTypeOK' /\ phase' \in {"init", "done"}
  BY <1>1 DEF ClientTypeOK, distributed_oprf_core, Done, Results
<1>3. StartInv' /\ ChosenInv' /\ HonestReplies' /\ HonestProofs'
  BY <1>1, <1>2 DEF StartInv, ChosenInv, HonestReplies, HonestProofs
<1>4. InitInv'
  <2> SUFFICES ASSUME phase' = "init" PROVE InitInv'
    BY DEF InitInv
  <2>1. threshold' \in 1 .. N /\ waiting' = Service
    BY <1>1 DEF distributed_oprf_core, Done
  <2>2. ASSUME NEW e \in Epoch PROVE GroupOk(e)'
    <3>1. groups'[e] = NoSessions /\ Len(NoSessions.ws) = 0 /\ DOMAIN NoSessions.ws = {}
          /\ SameLengths(NoSessions)
      BY <1>1 DEF NoSessions, SameLengths
    <3>2. 0 < threshold'
      BY <2>1 DEF N
    <3> QED
      BY <2>1, <3>1, <3>2 DEF GroupOk, Grouped, Answered
  <2>3. ASSUME NEW x \in NodeErrors PROVE ErrorsOk(x)'
    <3>1. Pushed(x)' = {} /\ (Failed(x) \ waiting)' = {}
      BY <1>1, <2>1 DEF Pushed, Failed
    <3> QED
      BY <3>1 DEF ErrorsOk
  <2> QED
    BY <2>1, <2>2, <2>3 DEF InitInv
<1>5. ResultInv'
  <2>1. CASE phase' = "init"
    BY <1>1, <2>1, NotRejected, NoResult DEF distributed_oprf_core, Done
  <2>2. CASE phase' = "done"
    <3>1. result' \in {"InvalidThreshold", "NonUniqueServices"}
      BY <2>2 DEF distributed_oprf_core, Done
    <3> QED
      BY <1>1, <2>2, <3>1, NotRejected, OtherResult DEF InitErrors
  <2> QED
    BY <1>2, <2>1, <2>2
<1> QED
  BY <1>2, <1>3, <1>4, <1>5 DEF Inv

(* A node takes up the next epoch. *)
LEMMA RotateInv ==
    ASSUME Inv, NEW s \in Service, Rotate(s)
    PROVE  Inv'
<1>1. /\ UNCHANGED <<threshold, unique, party, reply, proof, waiting, groups, errors, chosen>>
      /\ UNCHANGED <<phase, result>>
      /\ nodeEpoch[s] < MaxEpoch /\ nodeEpoch' = [nodeEpoch EXCEPT ![s] = nodeEpoch[s] + 1]
  BY DEF Rotate
<1>2. ClientTypeOK'
  <2>1. nodeEpoch \in [Service -> Epoch] /\ nodeEpoch[s] \in Epoch
    BY DEF Inv, ClientTypeOK
  <2>2. nodeEpoch[s] + 1 \in Epoch
    BY <1>1, <2>1, ClientAssumption DEF Epoch
  <2>3. nodeEpoch' \in [Service -> Epoch]
    BY <1>1, <2>1, <2>2
  <2> QED
    BY <1>1, <2>3 DEF Inv, ClientTypeOK
<1>3. StartInv' /\ ChosenInv' /\ HonestReplies' /\ HonestProofs'
  BY <1>1 DEF Inv, StartInv, ChosenInv, HonestReplies, HonestProofs, Backed, Accepts, Coefficients
<1>4. InitInv'
  BY <1>1 DEF Inv, InitInv, GroupOk, Grouped, Backed, Answered, ErrorsOk, Pushed, Failed
<1>5. ResultInv'
  <2>1. result = "none"
    BY DEF Inv, ResultInv, Rotate
  <2> QED
    BY <1>1, <2>1, NotRejected, NoResult
<1> QED
  BY <1>2, <1>3, <1>4, <1>5 DEF Inv

(* A node answers: nothing the client has taken so far is touched. *)
LEMMA ReplyInv ==
    ASSUME Inv, NEW s \in Service, NodeReply(s)
    PROVE  Inv'
<1>1. /\ phase = "init" /\ reply[s] = Null /\ result = "none"
      /\ UNCHANGED <<threshold, unique, party, nodeEpoch, proof, waiting, groups, errors, chosen>>
      /\ UNCHANGED <<phase, result>>
  BY DEF NodeReply, Inv, ResultInv
<1>2. /\ ClientTypeOK /\ HonestReplies /\ HonestProofs /\ threshold \in 1 .. N
      /\ \A e \in Epoch : GroupOk(e)
      /\ \A x \in NodeErrors : ErrorsOk(x)
      /\ \A t \in Service \ waiting : reply[t] # Null
  BY <1>1 DEF Inv, InitInv
<1>3. s \in waiting
  BY <1>1, <1>2
<1>4. PICK r \in Reply :
         /\ reply' = [reply EXCEPT ![s] = r]
         /\ s \notin Faulty /\ r.error = "none" => r.party = party[s] /\ r.key = "key"
  <2>1. /\ party[s] \in PartyIds /\ nodeEpoch[s] \in Epoch /\ "key" \in PublicKey
        /\ 0 \in PartyIds /\ 0 \in Epoch
    <3>1. N \in Nat /\ N >= 1
      BY ClientAssumption, FS_CardinalityType DEF N
    <3> QED
      BY <1>2, <3>1, ClientAssumption DEF ClientTypeOK, PublicKey, PartyIds, Epoch
  <2> DEFINE ok == [error |-> "none", party |-> party[s], epoch |-> nodeEpoch[s], key |-> "key"]
  <2>2. ok \in Reply /\ ok.party = party[s] /\ ok.key = "key"
    BY <2>1 DEF Reply
  <2>3. \A err \in NodeErrors : ErrorReply(err) \in Reply /\ ErrorReply(err).error = err
    BY <2>1 DEF Reply, ErrorReply
  <2>4. "none" \notin NodeErrors
    BY DEF NodeErrors
  <2>5. PICK r \in (IF s \in Faulty THEN {a \in Reply : a.error = "none"} ELSE {ok})
                     \cup (IF Reject \/ s \in Faulty THEN {ErrorReply(err) : err \in NodeErrors}
                           ELSE {}) :
           reply' = [reply EXCEPT ![s] = r]
    BY DEF NodeReply
  <2>6. r \in Reply /\ (s \notin Faulty /\ r.error = "none" => r = ok)
    BY <2>2, <2>3, <2>4
  <2> QED
    BY <2>2, <2>5, <2>6
<1>5. /\ \A t \in Service : t # s => reply'[t] = reply[t]
      /\ reply'[s] = r /\ reply' \in [Service -> Reply \cup {Null}]
  BY <1>2, <1>4 DEF ClientTypeOK
<1>6. ClientTypeOK'
  BY <1>1, <1>2, <1>5 DEF ClientTypeOK
<1>7. StartInv' /\ ChosenInv' /\ HonestProofs'
  BY <1>1, <1>2 DEF StartInv, ChosenInv, HonestProofs
<1>8. HonestReplies'
  BY <1>1, <1>2, <1>4, <1>5 DEF HonestReplies
<1>9. InitInv'
  <2>1. ASSUME NEW e \in Epoch PROVE GroupOk(e)'
    <3>1. PICK g \in OprfSessions : g = groups[e]
      BY <1>2 DEF ClientTypeOK
    <3>2. Grouped(g, e) /\ Len(g.ws) < threshold
      BY <1>2, <3>1 DEF GroupOk
    <3>3. \A t \in Service : reply[t] # Null => reply'[t] = reply[t]
      BY <1>1, <1>5
    <3>4. Grouped(g, e)'
      BY <3>2, <3>3, GroupedKept DEF Grouped
    <3>5. \A t \in Answered(e)' \ waiting : t \in Answered(e) \ waiting /\ reply'[t] = reply[t]
      BY <1>3, <1>5 DEF Answered
    <3>6. \A t \in Answered(e)' \ waiting :
             \E i \in DOMAIN g.ws : g.party_ids[i] = reply'[t].party
      BY <1>2, <3>1, <3>5 DEF GroupOk
    <3> QED
      BY <1>1, <3>1, <3>2, <3>4, <3>6 DEF GroupOk
  <2>2. ASSUME NEW x \in NodeErrors PROVE ErrorsOk(x)'
    <3>1. Failed(x)' \ waiting = Failed(x) \ waiting /\ Pushed(x)' = Pushed(x)
      BY <1>1, <1>3, <1>5 DEF Failed, Pushed
    <3> QED
      BY <1>1, <1>2, <3>1 DEF ErrorsOk
  <2> QED
    BY <1>1, <1>2, <1>3, <1>5, <2>1, <2>2 DEF InitInv
<1>10. ResultInv'
  BY <1>1, NotRejected, NoResult
<1> QED
  BY <1>6, <1>7, <1>8, <1>9, <1>10 DEF Inv

(* init_sessions takes an answer. *)
LEMMA TakeInv ==
    ASSUME Inv, NEW s \in Service, init_sessions(s)
    PROVE  Inv'
<1>1. PICK r : r = reply[s]
  OBVIOUS
<1>2. /\ phase = "init" /\ s \in waiting /\ r # Null /\ result = "none"
      /\ waiting' = waiting \ {s}
      /\ UNCHANGED <<threshold, unique, party, nodeEpoch, reply, proof, result>>
  BY <1>1 DEF init_sessions, nodeVars, Inv, ResultInv
<1>3. /\ ClientTypeOK /\ HonestReplies /\ HonestProofs /\ threshold \in 1 .. N
      /\ \A e \in Epoch : GroupOk(e)
      /\ \A x \in NodeErrors : ErrorsOk(x)
      /\ \A t \in Service \ waiting : reply[t] # Null
  BY <1>2 DEF Inv, InitInv
<1>4. /\ r \in Reply /\ r.epoch \in Epoch /\ groups \in [Epoch -> OprfSessions]
      /\ errors \in Seq(NodeErrors) /\ IsFiniteSet(Service) /\ threshold \in Nat
  <2>1. r \in Reply
    BY <1>1, <1>2, <1>3 DEF ClientTypeOK
  <2>2. N \in Nat
    BY ClientAssumption, FS_CardinalityType DEF N
  <2> QED
    BY <1>3, <2>1, <2>2, ClientAssumption DEF ClientTypeOK, Reply
<1>5. \A t \in Service \ waiting' : reply'[t] # Null
  BY <1>1, <1>2, <1>3
<1>6. StartInv' /\ HonestReplies' /\ ResultInv'
  <2>1. phase' # "start"
    BY <1>2 DEF init_sessions
  <2> QED
    BY <1>2, <1>3, <2>1, NotRejected, NoResult DEF StartInv, HonestReplies
<1>7. CASE r.error # "none"
  <2>1. /\ errors' = Append(errors, r.error) /\ UNCHANGED <<groups, chosen, phase>>
        /\ r.error \in NodeErrors
    BY <1>1, <1>4, <1>7 DEF init_sessions, Reply
  <2>2. ClientTypeOK'
    <3>1. errors' \in Seq(NodeErrors)
      BY <1>4, <2>1
    <3> QED
      BY <1>2, <1>3, <2>1, <3>1 DEF ClientTypeOK
  <2>3. ChosenInv' /\ HonestProofs'
    BY <1>2, <1>3, <2>1 DEF ChosenInv, HonestProofs
  <2>4. ASSUME NEW e \in Epoch PROVE GroupOk(e)'
    <3>1. GroupOk(e) /\ Answered(e)' \ waiting' = Answered(e) \ waiting
      BY <1>1, <1>2, <1>3, <1>7 DEF Answered
    <3>2. Grouped(groups[e], e)'
      BY <1>2, <2>1, <3>1 DEF GroupOk, Grouped, Backed
    <3> QED
      BY <1>2, <2>1, <3>1, <3>2 DEF GroupOk
  <2>5. ASSUME NEW x \in NodeErrors PROVE ErrorsOk(x)'
    <3> DEFINE n == Len(errors)
    <3>1. /\ n \in Nat /\ DOMAIN errors = 1 .. n /\ DOMAIN errors' = 1 .. n + 1
          /\ \A i \in 1 .. n : errors'[i] = errors[i]
          /\ errors'[n + 1] = r.error
      BY <1>4, <2>1, Appended
    <3>2. \A i \in 1 .. n + 1 : i \in 1 .. n \/ i = n + 1
      BY <3>1
    <3>3. n + 1 \in 1 .. n + 1 /\ n + 1 \notin 1 .. n /\ \A i \in 1 .. n : i \in 1 .. n + 1
      BY <3>1
    <3> HIDE DEF n
    <3>4. CASE x = r.error
      <4>1. Pushed(x)' = Pushed(x) \cup {n + 1} /\ n + 1 \notin Pushed(x)
        BY <3>1, <3>2, <3>3, <3>4 DEF Pushed
      <4>2. /\ (Failed(x) \ waiting)' = (Failed(x) \ waiting) \cup {s}
            /\ s \notin Failed(x) \ waiting
        BY <1>1, <1>2, <3>4 DEF Failed
      <4>3. IsFiniteSet(Pushed(x)) /\ IsFiniteSet(Failed(x) \ waiting)
        <5>1. IsFiniteSet(1 .. n) /\ Pushed(x) \in SUBSET (1 .. n)
          BY <3>1, FS_Interval DEF Pushed
        <5>2. Failed(x) \ waiting \in SUBSET Service
          BY DEF Failed
        <5> QED
          BY <1>4, <5>1, <5>2, FS_Subset
      <4>4. /\ Cardinality(Pushed(x)') = Cardinality(Pushed(x)) + 1
            /\ Cardinality((Failed(x) \ waiting)') = Cardinality(Failed(x) \ waiting) + 1
        BY <4>1, <4>2, <4>3, FS_AddElement
      <4> QED
        BY <1>3, <4>4 DEF ErrorsOk
    <3>5. CASE x # r.error
      <4>1. Pushed(x)' = Pushed(x)
        BY <3>1, <3>2, <3>3, <3>5 DEF Pushed
      <4>2. (Failed(x) \ waiting)' = Failed(x) \ waiting
        BY <1>1, <1>2, <3>5 DEF Failed
      <4> QED
        BY <1>3, <4>1, <4>2 DEF ErrorsOk
    <3> QED
      BY <3>4, <3>5
  <2>6. InitInv'
    BY <1>2, <1>3, <1>5, <2>1, <2>4, <2>5 DEF InitInv
  <2> QED
    BY <1>6, <2>2, <2>3, <2>6 DEF Inv
<1>8. CASE r.error = "none"
  <2> DEFINE e0 == r.epoch
             g == groups[e0]
             h == push(g, s, r)
  <2>1. /\ groups' = [groups EXCEPT ![e0] = h] /\ errors' = errors
        /\ \/ Enough(h) /\ chosen' = sort_by_party_id(h) /\ phase' = "challenge"
           \/ ~Enough(h) /\ chosen' = chosen /\ phase' = phase
    BY <1>1, <1>8 DEF init_sessions, Reply, NodeErrors
  <2>2. /\ e0 \in Epoch /\ g \in OprfSessions /\ GroupOk(e0) /\ Grouped(g, e0)
        /\ Len(g.ws) < threshold
    BY <1>3, <1>4 DEF GroupOk
  <2>3. /\ h \in OprfSessions /\ Grouped(h, e0)
        /\ h = g \/ Len(h.ws) = Len(g.ws) + 1
        /\ \E i \in DOMAIN h.ws : h.party_ids[i] = r.party
        /\ \A i \in DOMAIN g.ws : i \in DOMAIN h.ws /\ h.party_ids[i] = g.party_ids[i]
    BY <1>1, <1>2, <1>4, <1>8, <2>2, Push
  <2>4. Len(g.ws) \in Nat /\ Len(h.ws) \in Nat /\ Len(h.ws) <= threshold
    <3>1. g.ws \in Seq(Service) /\ h.ws \in Seq(Service)
      BY <2>2, <2>3 DEF OprfSessions
    <3> QED
      BY <1>4, <2>2, <2>3, <3>1
  <2> HIDE DEF e0, g, h
  <2>5. \A x \in NodeErrors : ErrorsOk(x)'
    <3>1. ASSUME NEW x \in NodeErrors PROVE ErrorsOk(x)'
      <4>1. Pushed(x)' = Pushed(x)
        BY <2>1 DEF Pushed
      <4>2. (Failed(x) \ waiting)' = Failed(x) \ waiting
        BY <1>1, <1>2, <1>8 DEF Failed, NodeErrors
      <4> QED
        BY <1>3, <4>1, <4>2 DEF ErrorsOk
    <3> QED
      BY <3>1
  <2>6. CASE Enough(h)
    <3>1. /\ chosen' = sort_by_party_id(h) /\ phase' = "challenge"
          /\ Len(h.ws) = threshold
      BY <2>1, <2>6 DEF Enough
    <3>2. PICK c : c = sort_by_party_id(h)
      OBVIOUS
    <3>3. /\ c \in OprfSessions /\ SameLengths(c) /\ Len(c.ws) = threshold
          /\ \A i, j \in DOMAIN c.ws : i < j => c.party_ids[i] < c.party_ids[j]
          /\ \A i \in DOMAIN c.ws : Backed(c.ws[i], e0, c.party_ids[i], c.keys[i])
      BY <2>2, <2>3, <3>1, <3>2, Chosen
    <3>4. ClientTypeOK'
      BY <1>2, <1>3, <2>1, <2>3, <3>1, <3>2, <3>3 DEF ClientTypeOK
    <3>5. HonestProofs' /\ InitInv'
      BY <1>2, <1>3, <3>1 DEF HonestProofs, InitInv
    <3>6. ChosenInv'
      <4>1. \A i \in DOMAIN c.ws : Backed(c.ws[i], e0, c.party_ids[i], c.keys[i])'
        BY <1>2, <3>3 DEF Backed
      <4>2. chosen' = c /\ threshold' = threshold
        BY <1>2, <3>1, <3>2
      <4>3. \E e \in Epoch : \A i \in DOMAIN chosen'.ws :
               Backed(chosen.ws[i], e, chosen.party_ids[i], chosen.keys[i])'
        BY <2>2, <4>1, <4>2
      <4> QED
        BY <1>3, <3>3, <4>2, <4>3 DEF ChosenInv
    <3> QED
      BY <1>6, <3>4, <3>5, <3>6 DEF Inv
  <2>7. CASE ~Enough(h)
    <3>1. chosen' = chosen /\ phase' = phase /\ Len(h.ws) < threshold
      BY <1>4, <2>1, <2>4, <2>7 DEF Enough
    <3>2. ClientTypeOK'
      BY <1>2, <1>3, <2>1, <2>3, <3>1 DEF ClientTypeOK
    <3>3. ChosenInv' /\ HonestProofs'
      BY <1>2, <1>3, <3>1 DEF ChosenInv, HonestProofs
    <3>4. ASSUME NEW e \in Epoch PROVE GroupOk(e)'
      <4>1. GroupOk(e) /\ groups'[e] = IF e = e0 THEN h ELSE groups[e]
        BY <1>3, <1>4, <2>1
      <4>2. CASE e # e0
        <5>1. Answered(e)' \ waiting' = Answered(e) \ waiting
          BY <1>1, <1>2, <4>2 DEF Answered, e0
        <5>2. Grouped(groups[e], e)'
          BY <1>2, <4>1, <4>2 DEF GroupOk, Grouped, Backed
        <5> QED
          BY <1>2, <4>1, <4>2, <5>1, <5>2 DEF GroupOk
      <4>3. CASE e = e0
        <5>1. Answered(e)' \ waiting' \subseteq (Answered(e) \ waiting) \cup {s}
          BY <1>2 DEF Answered
        <5>2. Grouped(groups[e], e)'
          BY <1>2, <2>3, <4>1, <4>3 DEF Grouped, Backed
        <5>3. \A t \in Answered(e) \ waiting :
                 \E i \in DOMAIN g.ws : g.party_ids[i] = reply[t].party
          BY <2>2, <4>3 DEF GroupOk, g
        <5>4. \A t \in Answered(e)' \ waiting' :
                 \E i \in DOMAIN h.ws : h.party_ids[i] = reply'[t].party
          BY <1>1, <1>2, <2>3, <5>1, <5>3
        <5> QED
          BY <1>2, <3>1, <4>1, <4>3, <5>2, <5>4 DEF GroupOk
      <4> QED
        BY <4>2, <4>3
    <3>5. InitInv'
      BY <1>2, <1>3, <1>5, <2>5, <3>4 DEF InitInv
    <3> QED
      BY <1>6, <3>2, <3>3, <3>5 DEF Inv
  <2> QED
    BY <2>6, <2>7
<1> QED
  BY <1>7, <1>8

-----------------------------------------------------------------------------
(* The chosen sessions as sequences of one length. *)
LEMMA ChosenShape ==
    ASSUME Inv, phase \in {"challenge", "finish", "core"}
    PROVE  /\ threshold \in Nat /\ threshold >= 1
           /\ DOMAIN chosen.ws = 1 .. threshold /\ DOMAIN chosen.keys = 1 .. threshold
           /\ DOMAIN chosen.party_ids = 1 .. threshold
           /\ \A i \in 1 .. threshold : /\ chosen.ws[i] \in Service
                                        /\ chosen.party_ids[i] \in PartyIds
                                        /\ chosen.party_ids[i] \in Int
                                        /\ chosen.keys[i] \in PublicKey
           /\ \A i, j \in 1 .. threshold : i < j => chosen.party_ids[i] < chosen.party_ids[j]
           /\ \E e \in Epoch : \A i \in 1 .. threshold :
                 Backed(chosen.ws[i], e, chosen.party_ids[i], chosen.keys[i])
<1>1. /\ threshold \in 1 .. N /\ SameLengths(chosen) /\ Len(chosen.ws) = threshold
      /\ \A i, j \in DOMAIN chosen.ws : i < j => chosen.party_ids[i] < chosen.party_ids[j]
      /\ \E e \in Epoch : \A i \in DOMAIN chosen.ws :
            Backed(chosen.ws[i], e, chosen.party_ids[i], chosen.keys[i])
  BY DEF Inv, ChosenInv
<1>2. N \in Nat
  BY ClientAssumption, FS_CardinalityType DEF N
<1>3. /\ chosen.ws \in Seq(Service) /\ chosen.party_ids \in Seq(PartyIds)
      /\ chosen.keys \in Seq(PublicKey)
  BY DEF Inv, ClientTypeOK, OprfSessions
<1>4. /\ threshold \in Nat /\ threshold >= 1
      /\ DOMAIN chosen.ws = 1 .. threshold /\ DOMAIN chosen.keys = 1 .. threshold
      /\ DOMAIN chosen.party_ids = 1 .. threshold
  BY <1>1, <1>2, <1>3 DEF SameLengths
<1>5. PartyIds \subseteq Int
  BY DEF PartyIds
<1>6. ASSUME NEW i \in 1 .. threshold
      PROVE  /\ chosen.ws[i] \in Service /\ chosen.party_ids[i] \in PartyIds
             /\ chosen.party_ids[i] \in Int /\ chosen.keys[i] \in PublicKey
  <2>1. /\ chosen.ws \in [1 .. threshold -> Service]
        /\ chosen.party_ids \in [1 .. threshold -> PartyIds]
        /\ chosen.keys \in [1 .. threshold -> PublicKey]
    BY <1>1, <1>3, <1>4 DEF SameLengths
  <2> QED
    BY <1>5, <2>1
<1> QED
  BY <1>1, <1>4, <1>6

(* The sessions of services that are not faulty name their party and the key. *)
LEMMA ChosenHonest ==
    ASSUME Inv, phase \in {"challenge", "finish", "core"}, NEW i \in 1 .. threshold,
           chosen.ws[i] \notin Faulty
    PROVE  chosen.party_ids[i] = party[chosen.ws[i]] /\ chosen.keys[i] = "key"
<1>1. PICK e \in Epoch : Backed(chosen.ws[i], e, chosen.party_ids[i], chosen.keys[i])
  BY ChosenShape
<1> QED
  BY <1>1 DEF Backed, Inv, HonestReplies

(* The challenge of the chosen sessions passes the checks of every node     *)
(* among them, if the client was given the threshold of the nodes.          *)
LEMMA ChallengeAccepted ==
    ASSUME Inv, phase \in {"challenge", "finish", "core"}, threshold = Threshold,
           NEW i \in 1 .. threshold, chosen.ws[i] \notin Faulty
    PROVE  Accepts(chosen.ws[i])
<1>1. /\ threshold \in Nat
      /\ Coefficients = [j \in 1 .. threshold |-> chosen.party_ids[j] + 1]
      /\ \A j \in 1 .. threshold : chosen.party_ids[j] \in Int
  BY ChosenShape DEF Coefficients
<1>2. Len(Coefficients) = threshold
  <2>1. Coefficients \in [1 .. threshold -> Int]
    BY <1>1
  <2> QED
    BY <1>1, <2>1, SeqOfElements
<1>3. Contains(Coefficients, party[chosen.ws[i]] + 1)
  BY <1>1, <1>2, ChosenHonest DEF Contains
<1>4. StrictlyIncreasing(Coefficients)
  <2> SUFFICES ASSUME NEW j \in 1 .. threshold - 1
               PROVE  Coefficients[j] < Coefficients[j + 1]
    BY <1>2 DEF StrictlyIncreasing
  <2>1. j \in 1 .. threshold /\ j + 1 \in 1 .. threshold /\ j < j + 1
    BY <1>1
  <2>2. chosen.party_ids[j] < chosen.party_ids[j + 1]
    BY <2>1, ChosenShape
  <2> QED
    BY <1>1, <2>1, <2>2
<1> QED
  BY <1>2, <1>3, <1>4 DEF Accepts

(* The parts of the invariant that only a phase before the end needs. *)
LEMMA DoneInv ==
    ASSUME ClientTypeOK', phase' = "done", HonestReplies', ResultInv'
    PROVE  Inv'
BY DEF Inv, StartInv, InitInv, ChosenInv, HonestProofs

(* generate_challenge_request: no panic, and one key if no node is faulty. *)
LEMMA ChallengeInv ==
    ASSUME Inv, generate_challenge_request
    PROVE  Inv'
<1>1. /\ phase = "challenge" /\ result = "none"
      /\ UNCHANGED <<threshold, unique, party, nodeEpoch, reply, proof, waiting, groups, errors>>
      /\ chosen' = chosen
  BY DEF generate_challenge_request, Inv, ResultInv, nodeVars
<1>2. ChallengeFails # "Panic"
  <2>1. ASSUME NEW i \in 1 .. threshold, NEW j \in 1 .. threshold, i # j
        PROVE  chosen.party_ids[i] + 1 # chosen.party_ids[j] + 1
    <3>1. i < j \/ j < i
      BY <1>1, <2>1, ChosenShape
    <3> QED
      BY <1>1, <3>1, ChosenShape
  <2>2. \A i, j \in DOMAIN Coefficients : i # j => Coefficients[i] # Coefficients[j]
    BY <1>1, <2>1, ChosenShape DEF Coefficients
  <2> QED
    BY <2>2 DEF ChallengeFails
<1>3. Faulty = {} => ChallengeFails # "InconsistentOprfPublicKeys"
  <2> SUFFICES ASSUME Faulty = {} PROVE ChallengeFails # "InconsistentOprfPublicKeys"
    OBVIOUS
  <2>1. 1 \in 1 .. threshold /\ DOMAIN chosen.keys = 1 .. threshold
    BY <1>1, ChosenShape
  <2>2. \A i \in 1 .. threshold : chosen.keys[i] = "key"
    BY <1>1, ChosenHonest
  <2> QED
    BY <2>1, <2>2 DEF ChallengeFails
<1>4. CASE ChallengeFails # "none" /\ Done(ChallengeFails)
  <2>1. phase' = "done" /\ result' = "InconsistentOprfPublicKeys" /\ Faulty # {}
    BY <1>2, <1>3, <1>4 DEF ChallengeFails, Done
  <2>2. ClientTypeOK'
    BY <1>1, <2>1 DEF Inv, ClientTypeOK, Results
  <2>3. HonestReplies'
    BY <1>1 DEF Inv, HonestReplies
  <2>4. ResultInv'
    BY <1>1, <2>1, NotRejected, OtherResult DEF InitErrors
  <2> QED
    BY <2>1, <2>2, <2>3, <2>4, DoneInv
<1>5. CASE phase' = "finish" /\ result' = result
  <2>1. ClientTypeOK'
    BY <1>1, <1>5 DEF Inv, ClientTypeOK
  <2>2. StartInv' /\ InitInv' /\ HonestReplies' /\ ChosenInv'
    BY <1>1, <1>5 DEF Inv, StartInv, InitInv, HonestReplies, ChosenInv, Backed
  <2>3. HonestProofs'
    BY <1>1, <1>5 DEF Inv, HonestProofs
  <2>4. ResultInv'
    BY <1>1, <1>5, NotRejected, NoResult
  <2> QED
    BY <2>1, <2>2, <2>3, <2>4 DEF Inv
<1> QED
  BY <1>4, <1>5 DEF generate_challenge_request

(* A node answers the challenge. *)
LEMMA ProofInv ==
    ASSUME Inv, NEW s \in Service, NodeProof(s)
    PROVE  Inv'
<1>1. /\ phase = "finish" /\ result = "none" /\ Contains(chosen.ws, s)
      /\ UNCHANGED <<threshold, unique, party, nodeEpoch, reply, waiting, groups, errors>>
      /\ UNCHANGED <<chosen, phase, result>>
  BY DEF NodeProof, Inv, ResultInv
<1>2. PICK p \in {"share", "wrongShare", "rejected", "error"} :
         /\ proof' = [proof EXCEPT ![s] = p]
         /\ s \notin Faulty => /\ p # "wrongShare"
                               /\ p = "share" => Accepts(s)
                               /\ p = "rejected" => ~Accepts(s)
  BY DEF NodeProof
<1>3. \A t \in Service : proof'[t] = IF t = s THEN p ELSE proof[t]
  BY <1>2 DEF Inv, ClientTypeOK
<1>4. ClientTypeOK'
  BY <1>1, <1>2 DEF Inv, ClientTypeOK
<1>5. StartInv' /\ InitInv' /\ HonestReplies' /\ ChosenInv'
  BY <1>1 DEF Inv, StartInv, InitInv, HonestReplies, ChosenInv, Backed
<1>6. HonestProofs'
  BY <1>1, <1>2, <1>3 DEF Inv, HonestProofs, Accepts, Coefficients
<1>7. ASSUME Faulty = {}, threshold = Threshold, NEW t \in Service
      PROVE  proof'[t] # "rejected"
  <2>1. proof[t] # "rejected"
    BY <1>7 DEF Inv, ResultInv, HonestNodesVerify
  <2>2. PICK i \in 1 .. threshold : chosen.ws[i] = s
    BY <1>1 DEF Contains, Inv, ChosenInv
  <2>3. Accepts(s)
    BY <1>1, <1>7, <2>2, ChallengeAccepted
  <2> QED
    BY <1>2, <1>3, <1>7, <2>1, <2>3
<1>8. ResultInv'
  BY <1>1, <1>7, NoResult
<1> QED
  BY <1>4, <1>5, <1>6, <1>8 DEF Inv

(* finish_sessions waits for all proof shares or fails with the first error. *)
LEMMA FinishInv ==
    ASSUME Inv, finish_sessions
    PROVE  Inv'
<1>1. /\ phase = "finish" /\ result = "none"
      /\ UNCHANGED <<threshold, unique, party, nodeEpoch, reply, proof, waiting, groups, errors>>
      /\ chosen' = chosen
  BY DEF finish_sessions, Inv, ResultInv, nodeVars
<1>2. CASE Done("CannotFinishSession")
  <2>1. phase' = "done" /\ result' = "CannotFinishSession"
    BY <1>2 DEF Done
  <2>2. ClientTypeOK'
    BY <1>1, <2>1 DEF Inv, ClientTypeOK, Results
  <2>3. HonestReplies'
    BY <1>1 DEF Inv, HonestReplies
  <2>4. ResultInv'
    BY <1>1, <2>1, NotRejected, OtherResult DEF InitErrors
  <2> QED
    BY <2>1, <2>2, <2>3, <2>4, DoneInv
<1>3. CASE /\ \A i \in DOMAIN chosen.ws : proof[chosen.ws[i]] \in {"share", "wrongShare"}
           /\ phase' = "core" /\ result' = result
  <2>1. ClientTypeOK'
    BY <1>1, <1>3 DEF Inv, ClientTypeOK
  <2>2. StartInv' /\ InitInv' /\ HonestReplies' /\ ChosenInv'
    BY <1>1, <1>3 DEF Inv, StartInv, InitInv, HonestReplies, ChosenInv, Backed
  <2>3. HonestProofs'
    BY <1>1, <1>3 DEF Inv, HonestProofs, Accepts, Coefficients
  <2>4. ResultInv'
    BY <1>1, <1>3, NotRejected, NoResult
  <2> QED
    BY <2>1, <2>2, <2>3, <2>4 DEF Inv
<1> QED
  BY <1>2, <1>3 DEF finish_sessions

(* With no faulty service the combined proof verifies. *)
LEMMA Verifies ==
    ASSUME Inv, phase = "core", Faulty = {}
    PROVE  ProofVerifies
<1>1. /\ threshold \in Nat /\ 1 \in 1 .. threshold /\ DOMAIN chosen.ws = 1 .. threshold
      /\ \A i \in 1 .. threshold : chosen.ws[i] \in Service
      /\ Len(chosen.ws) = threshold
  BY ChosenShape DEF Inv, ChosenInv
<1>2. \A i \in 1 .. threshold : proof[chosen.ws[i]] = "share" /\ Accepts(chosen.ws[i])
  BY <1>1 DEF Inv, HonestProofs
<1>3. threshold = Threshold
  <2>1. Len(Coefficients) = Threshold
    BY <1>1, <1>2 DEF Accepts
  <2>2. Coefficients = [j \in 1 .. threshold |-> chosen.party_ids[j] + 1]
    BY ChosenShape DEF Coefficients
  <2>3. Coefficients \in [1 .. threshold -> Int]
    BY <2>2, ChosenShape
  <2> QED
    BY <1>1, <2>1, <2>3, SeqOfElements
<1>4. \A i \in 1 .. threshold :
         party[chosen.ws[i]] = chosen.party_ids[i] /\ chosen.keys[i] = "key"
  BY ChosenHonest
<1>5. \A i, j \in 1 .. threshold : reply[chosen.ws[i]].epoch = reply[chosen.ws[j]].epoch
  <2>1. PICK e \in Epoch : \A i \in 1 .. threshold :
           Backed(chosen.ws[i], e, chosen.party_ids[i], chosen.keys[i])
    BY ChosenShape
  <2> QED
    BY <2>1 DEF Backed
<1> QED
  BY <1>1, <1>2, <1>3, <1>4, <1>5 DEF ProofVerifies

(* finalize_distributed_oprf *)
LEMMA FinalizeInv ==
    ASSUME Inv, finalize_distributed_oprf
    PROVE  Inv'
<1>1. /\ phase = "core" /\ phase' = "done"
      /\ result' = IF ProofVerifies THEN "Ok" ELSE "InvalidDLogProof"
      /\ UNCHANGED <<threshold, unique, party, nodeEpoch, reply, proof, waiting, groups, errors>>
      /\ chosen' = chosen
  BY DEF finalize_distributed_oprf, Done, nodeVars
<1>2. ClientTypeOK'
  BY <1>1 DEF Inv, ClientTypeOK, Results
<1>3. HonestReplies'
  BY <1>1 DEF Inv, HonestReplies
<1>4. ResultInv'
  BY <1>1, Verifies, NotRejected, OtherResult DEF InitErrors
<1> QED
  BY <1>1, <1>2, <1>3, <1>4, DoneInv

-----------------------------------------------------------------------------
(* The least and the greatest member of a finite set of integers. *)
LEMMA Extremes ==
    ASSUME NEW T, T \subseteq Int, IsFiniteSet(T), T # {}
    PROVE  /\ \E x \in T : \A y \in T : x <= y
           /\ \E x \in T : \A y \in T : y <= x
<1>1. PICK n \in Nat : n = Cardinality(T)
  BY FS_CardinalityType
<1>2. n >= 1
  BY <1>1, FS_EmptySet
<1>3. PICK f \in Bijection(1 .. n, T) : \A i, j \in 1 .. n : i < j => f[i] < f[j]
  BY <1>1, Enumeration
<1>4. /\ f \in [1 .. n -> T] /\ \A y \in T : \E i \in 1 .. n : f[i] = y
      /\ 1 \in 1 .. n /\ n \in 1 .. n
  BY <1>2 DEF Bijection, Surjection, Injection
<1>5. \A i \in 1 .. n : f[1] <= f[i] /\ f[i] <= f[n]
  <2> SUFFICES ASSUME NEW i \in 1 .. n PROVE f[1] <= f[i] /\ f[i] <= f[n]
    OBVIOUS
  <2>1. (i = 1 \/ 1 < i) /\ (i = n \/ i < n)
    OBVIOUS
  <2>2. f[1] \in Int /\ f[i] \in Int /\ f[n] \in Int
    BY <1>4
  <2>3. (1 < i => f[1] < f[i]) /\ (i < n => f[i] < f[n])
    BY <1>3, <1>4
  <2> QED
    BY <2>1, <2>2, <2>3
<1> QED
  BY <1>4, <1>5

Counted == {"ServiceErrorA", "ServiceErrorB", "UnexpectedMessage"}

(* aggregate_error: an error that threshold entries agree on wins; without  *)
(* one, the mismatched epochs are looked at, then the networking errors.    *)
LEMMA Aggregated ==
    ASSUME errors \in Seq(NodeErrors), threshold \in Nat, threshold >= 1, NEW m \in Nat
    PROVE  \/ \E x \in Counted : /\ Cardinality(Pushed(x)) >= threshold
                                 /\ aggregate_error(errors, m) = x
           \/ /\ \A x \in Counted : ~(Cardinality(Pushed(x)) >= threshold)
              /\ aggregate_error(errors, m) =
                   IF m >= threshold THEN "EpochMismatch"
                   ELSE IF Cardinality(Pushed("WsError")) >= threshold THEN "Networking"
                   ELSE "NodeErrorDisagreement"
<1> DEFINE n == Len(errors)
           Upto(i) == {j \in 1 .. i : errors[j] = errors[i]}
           reached == {i \in DOMAIN errors : /\ errors[i] \in Counted
                                             /\ Cardinality(Upto(i)) >= threshold}
<1>1. n \in Nat /\ DOMAIN errors = 1 .. n /\ IsFiniteSet(1 .. n)
  BY FS_Interval
<1>2. \A x : IsFiniteSet(Pushed(x)) /\ Cardinality(Pushed(x)) \in Nat /\ Pushed(x) \subseteq Int
  <2> SUFFICES ASSUME NEW x
               PROVE  /\ IsFiniteSet(Pushed(x)) /\ Cardinality(Pushed(x)) \in Nat
                      /\ Pushed(x) \subseteq Int
    OBVIOUS
  <2>1. Pushed(x) \in SUBSET (1 .. n)
    BY <1>1 DEF Pushed
  <2>2. IsFiniteSet(Pushed(x))
    BY <1>1, <2>1, FS_Subset
  <2> QED
    BY <1>1, <2>1, <2>2, FS_CardinalityType
<1>3. aggregate_error(errors, m) =
         IF reached # {} THEN errors[CHOOSE i \in reached : \A j \in reached : i <= j]
         ELSE IF m >= threshold THEN "EpochMismatch"
         ELSE IF Cardinality(Pushed("WsError")) >= threshold THEN "Networking"
         ELSE "NodeErrorDisagreement"
  BY DEF aggregate_error, Pushed, Counted
<1>4. CASE reached # {}
  <2>1. reached \in SUBSET (1 .. n) /\ reached \subseteq Int
    BY <1>1
  <2>2. IsFiniteSet(reached)
    BY <1>1, <2>1, FS_Subset
  <2>3. PICK i : i = CHOOSE l \in reached : \A j \in reached : l <= j
    OBVIOUS
  <2>4. i \in reached
    <3>1. \E k \in reached : \A j \in reached : k <= j
      BY <1>4, <2>1, <2>2, Extremes
    <3> HIDE DEF reached
    <3> QED
      BY <2>3, <3>1
  <2>5. i \in 1 .. n /\ errors[i] \in Counted /\ Cardinality(Upto(i)) >= threshold
    BY <1>1, <2>4
  <2>6. Upto(i) \in SUBSET Pushed(errors[i])
    BY <1>1, <2>5 DEF Pushed
  <2>7. /\ Cardinality(Upto(i)) <= Cardinality(Pushed(errors[i]))
        /\ Cardinality(Upto(i)) \in Nat
    BY <1>2, <2>6, FS_Subset, FS_CardinalityType
  <2>8. Cardinality(Pushed(errors[i])) >= threshold
    BY <1>2, <2>5, <2>7
  <2>9. aggregate_error(errors, m) = errors[i]
    BY <1>3, <1>4, <2>3
  <2> QED
    BY <2>5, <2>8, <2>9
<1>5. CASE reached = {}
  <2>1. ASSUME NEW x \in Counted, Cardinality(Pushed(x)) >= threshold PROVE FALSE
    <3>1. Pushed(x) # {}
      BY <1>2, <2>1, FS_EmptySet
    <3>2. PICK i \in Pushed(x) : \A j \in Pushed(x) : j <= i
      BY <1>2, <3>1, Extremes
    <3>3. i \in 1 .. n /\ errors[i] = x
      BY <1>1 DEF Pushed
    <3>4. Upto(i) = Pushed(x)
      BY <1>1, <3>2, <3>3 DEF Pushed
    <3>5. i \in reached
      BY <1>1, <2>1, <3>3, <3>4
    <3> QED
      BY <1>5, <3>5
  <2> QED
    BY <1>3, <1>5, <2>1
<1> QED
  BY <1>4, <1>5

(* The parties and epochs that answered. *)
Votes == {<<reply[s].epoch, reply[s].party>> : s \in UNION {Answered(e) : e \in Epoch}}

(* Verdict, case by case. *)
LEMMA Verdicts ==
    /\ \A x \in Counted : Verdict(x) <=> Cardinality(Failed(x)) >= threshold
    /\ Verdict("EpochMismatch") <=> Cardinality(Votes) >= threshold
    /\ Verdict("Networking") <=> Cardinality(Failed("WsError")) >= threshold
    /\ \A x \in Counted : Verdict(x)' <=> Cardinality(Failed(x)') >= threshold'
    /\ Verdict("EpochMismatch")' <=> Cardinality(Votes') >= threshold'
    /\ Verdict("Networking")' <=> Cardinality(Failed("WsError")') >= threshold'
BY DEF Verdict, Counted, Votes

-----------------------------------------------------------------------------
(* What the client knows when every future is done. *)
LEMMA AllTaken ==
    ASSUME Inv, phase = "init", waiting = {}
    PROVE  /\ threshold \in Nat /\ threshold >= 1 /\ errors \in Seq(NodeErrors)
           /\ \A x \in NodeErrors : Cardinality(Pushed(x)) = Cardinality(Failed(x))
           /\ \A e \in Epoch : Cardinality({reply[s].party : s \in Answered(e)}) < threshold
           /\ Cardinality(EpochMismatches) = Cardinality(Votes)
           /\ IsFiniteSet(Votes)
           /\ Cardinality(Votes) <= Cardinality(UNION {Answered(e) : e \in Epoch})
<1>1. /\ ClientTypeOK /\ threshold \in 1 .. N /\ \A e \in Epoch : GroupOk(e)
      /\ \A x \in NodeErrors : ErrorsOk(x)
  BY DEF Inv, InitInv
<1>2. N \in Nat /\ IsFiniteSet(Service)
  BY ClientAssumption, FS_CardinalityType DEF N
<1>3. \A x \in NodeErrors : Cardinality(Pushed(x)) = Cardinality(Failed(x))
  <2> SUFFICES ASSUME NEW x \in NodeErrors
               PROVE  Cardinality(Pushed(x)) = Cardinality(Failed(x))
    OBVIOUS
  <2>1. Failed(x) \ waiting = Failed(x)
    OBVIOUS
  <2> QED
    BY <1>1, <2>1 DEF ErrorsOk
<1>4. ASSUME NEW e \in Epoch
      PROVE  /\ Len(groups[e].ws) \in Nat /\ DOMAIN groups[e].ws = 1 .. Len(groups[e].ws)
             /\ DOMAIN groups[e].party_ids = 1 .. Len(groups[e].ws)
             /\ Len(groups[e].ws) < threshold
             /\ \A i \in DOMAIN groups[e].ws :
                   /\ groups[e].ws[i] \in Answered(e)
                   /\ reply[groups[e].ws[i]].party = groups[e].party_ids[i]
             /\ \A i, j \in DOMAIN groups[e].ws :
                   groups[e].party_ids[i] = groups[e].party_ids[j] => i = j
             /\ \A s \in Answered(e) :
                   \E i \in DOMAIN groups[e].ws : groups[e].party_ids[i] = reply[s].party
  <2>1. groups[e] \in OprfSessions /\ GroupOk(e) /\ Grouped(groups[e], e)
    BY <1>1 DEF ClientTypeOK, GroupOk
  <2>2. groups[e].ws \in Seq(Service) /\ groups[e].party_ids \in Seq(PartyIds)
    BY <2>1 DEF OprfSessions
  <2>3. /\ Len(groups[e].ws) \in Nat /\ DOMAIN groups[e].ws = 1 .. Len(groups[e].ws)
        /\ DOMAIN groups[e].party_ids = 1 .. Len(groups[e].ws)
    BY <2>1, <2>2 DEF Grouped, SameLengths
  <2>4. \A i \in DOMAIN groups[e].ws :
           /\ groups[e].ws[i] \in Answered(e)
           /\ reply[groups[e].ws[i]].party = groups[e].party_ids[i]
    BY <2>1 DEF Grouped, Backed, Answered
  <2>5. \A i, j \in DOMAIN groups[e].ws :
           groups[e].party_ids[i] = groups[e].party_ids[j] => i = j
    BY <2>1 DEF Grouped
  <2>6. /\ Len(groups[e].ws) < threshold
        /\ \A s \in Answered(e) :
              \E i \in DOMAIN groups[e].ws : groups[e].party_ids[i] = reply[s].party
    BY <2>1 DEF GroupOk
  <2> QED
    BY <2>3, <2>4, <2>5, <2>6
<1>5. ASSUME NEW e \in Epoch
      PROVE  Cardinality({reply[s].party : s \in Answered(e)}) < threshold
  <2> DEFINE n == Len(groups[e].ws)
             P == {reply[s].party : s \in Answered(e)}
             f == [i \in 1 .. n |-> groups[e].party_ids[i]]
  <2>1. f \in [1 .. n -> P]
    BY <1>4
  <2>2. \A i, j \in 1 .. n : f[i] = f[j] => i = j
    BY <1>4
  <2>3. ASSUME NEW x \in P PROVE \E i \in 1 .. n : f[i] = x
    <3>1. PICK s \in Answered(e) : x = reply[s].party
      OBVIOUS
    <3>2. PICK i \in 1 .. n : groups[e].party_ids[i] = reply[s].party
      BY <1>4
    <3> QED
      BY <3>1, <3>2
  <2> HIDE DEF f
  <2>4. f \in Bijection(1 .. n, P)
    BY <2>1, <2>2, <2>3, Fun_IsBij
  <2>5. ExistsBijection(1 .. n, P)
    BY <2>4 DEF ExistsBijection
  <2>6. Cardinality(P) = n
    BY <1>4, <2>5, FS_CountingElements
  <2> QED
    BY <1>4, <2>6
<1> DEFINE U == UNION {Answered(e) : e \in Epoch}
<1>6. IsFiniteSet(U) /\ \A s \in U : reply[s].epoch \in Epoch /\ s \in Answered(reply[s].epoch)
  <2>1. U \in SUBSET Service
    BY DEF Answered
  <2>2. IsFiniteSet(U)
    BY <1>2, <2>1, FS_Subset
  <2> QED
    BY <2>2 DEF Answered
<1>7. IsFiniteSet(Votes) /\ Cardinality(Votes) <= Cardinality(U)
  <2> DEFINE f == [s \in U |-> <<reply[s].epoch, reply[s].party>>]
  <2>1. f \in [U -> Votes] /\ \A v \in Votes : \E s \in U : f[s] = v
    BY DEF Votes
  <2>2. f \in Surjection(U, Votes)
    BY <2>1, Fun_IsSurj
  <2> QED
    BY <1>6, <2>2, FS_Surjection
<1>8. Cardinality(EpochMismatches) = Cardinality(Votes)
  <2> DEFINE f == [x \in EpochMismatches |-> <<x[1], groups[x[1]].party_ids[x[2]]>>]
  <2>1. \A x \in EpochMismatches : /\ x[1] \in Epoch /\ x[2] \in DOMAIN groups[x[1]].ws
                                   /\ x = <<x[1], x[2]>>
    BY <1>4 DEF EpochMismatches
  <2>2. \A e \in Epoch : \A i \in DOMAIN groups[e].ws : <<e, i>> \in EpochMismatches
    BY <1>4 DEF EpochMismatches
  <2>3. ASSUME NEW x \in EpochMismatches PROVE f[x] \in Votes
    <3>1. PICK s \in Answered(x[1]) : reply[s].party = groups[x[1]].party_ids[x[2]]
      BY <1>4, <2>1
    <3>2. s \in U /\ reply[s].epoch = x[1]
      BY <2>1, <3>1 DEF Answered
    <3> QED
      BY <3>1, <3>2 DEF Votes
  <2>4. ASSUME NEW x \in EpochMismatches, NEW y \in EpochMismatches, f[x] = f[y]
        PROVE  x = y
    <3>1. x[1] = y[1] /\ groups[x[1]].party_ids[x[2]] = groups[y[1]].party_ids[y[2]]
      BY <2>4
    <3>2. x[2] = y[2]
      BY <1>4, <2>1, <3>1
    <3> QED
      BY <2>1, <3>1, <3>2
  <2>5. ASSUME NEW v \in Votes PROVE \E x \in EpochMismatches : f[x] = v
    <3>1. PICK s \in U : v = <<reply[s].epoch, reply[s].party>>
      BY DEF Votes
    <3>2. PICK e \in Epoch : e = reply[s].epoch /\ s \in Answered(e)
      BY <1>6
    <3>3. PICK i \in DOMAIN groups[e].ws : groups[e].party_ids[i] = reply[s].party
      BY <1>4, <3>2
    <3>4. <<e, i>> \in EpochMismatches /\ f[<<e, i>>] = v
      BY <2>2, <3>1, <3>2, <3>3
    <3> QED
      BY <3>4
  <2>6. f \in [EpochMismatches -> Votes]
    BY <2>3
  <2> HIDE DEF f
  <2>7. f \in Injection(EpochMismatches, Votes) /\ f \in Surjection(EpochMismatches, Votes)
    BY <2>4, <2>5, <2>6, Fun_IsInj, Fun_IsSurj
  <2> QED
    BY <1>7, <2>7, FS_Injection
<1>9. threshold \in Nat /\ threshold >= 1 /\ errors \in Seq(NodeErrors)
  BY <1>1, <1>2 DEF ClientTypeOK
<1> QED
  BY <1>3, <1>5, <1>7, <1>8, <1>9

(* While a majority is needed, two verdicts never have threshold votes. *)
LEMMA OneVerdict ==
    ASSUME Inv, phase = "init", waiting = {}, 2 * threshold > N
    PROVE  /\ \A x, y \in NodeErrors : /\ Cardinality(Failed(x)) >= threshold
                                       /\ Cardinality(Failed(y)) >= threshold
                                       => x = y
           /\ \A x \in NodeErrors : ~(/\ Cardinality(Failed(x)) >= threshold
                                      /\ Cardinality(Votes) >= threshold)
<1> DEFINE U == UNION {Answered(e) : e \in Epoch}
<1>1. /\ IsFiniteSet(Service) /\ threshold \in Nat /\ N \in Nat /\ N = Cardinality(Service)
  BY AllTaken, ClientAssumption, FS_CardinalityType DEF N
<1>2. /\ U \subseteq Service /\ IsFiniteSet(U) /\ Cardinality(U) \in Nat
      /\ \A x \in NodeErrors : /\ Failed(x) \subseteq Service /\ Cardinality(Failed(x)) \in Nat
                               /\ Failed(x) \cap U = {}
  <2>1. U \in SUBSET Service
    BY DEF Answered
  <2>2. ASSUME NEW x \in NodeErrors
        PROVE  /\ Failed(x) \subseteq Service /\ Cardinality(Failed(x)) \in Nat
               /\ Failed(x) \cap U = {}
    <3>1. Failed(x) \in SUBSET Service
      BY DEF Failed
    <3>2. x # "none"
      BY DEF NodeErrors
    <3> QED
      BY <1>1, <3>1, <3>2, FS_Subset, FS_CardinalityType DEF Failed, Answered
  <2> QED
    BY <1>1, <2>1, <2>2, FS_Subset, FS_CardinalityType
<1>3. ASSUME NEW x \in NodeErrors, NEW y \in NodeErrors,
             Cardinality(Failed(x)) >= threshold, Cardinality(Failed(y)) >= threshold
      PROVE  x = y
  <2>1. Cardinality(Failed(x)) + Cardinality(Failed(y)) > Cardinality(Service)
    BY <1>1, <1>2, <1>3
  <2>2. Failed(x) \cap Failed(y) # {}
    BY <1>1, <1>2, <2>1, FS_MajoritiesIntersect
  <2> QED
    BY <2>2 DEF Failed
<1>4. ASSUME NEW x \in NodeErrors,
             Cardinality(Failed(x)) >= threshold, Cardinality(Votes) >= threshold
      PROVE  FALSE
  <2>1. Cardinality(Votes) \in Nat /\ Cardinality(Votes) <= Cardinality(U)
    BY AllTaken, FS_CardinalityType
  <2>2. Cardinality(Failed(x)) + Cardinality(U) > Cardinality(Service)
    BY <1>1, <1>2, <1>4, <2>1
  <2>3. Failed(x) \cap U # {}
    BY <1>1, <1>2, <2>2, FS_MajoritiesIntersect
  <2> QED
    BY <1>2, <2>3
<1> QED
  BY <1>3, <1>4

(* init_sessions fails: no epoch has a quorum, and the verdict is the one   *)
(* that threshold answers support.                                          *)
LEMMA FailedInv ==
    ASSUME Inv, init_sessions_failed
    PROVE  Inv'
<1> DEFINE m == Cardinality(EpochMismatches)
           v == aggregate_error(errors, m)
<1>1. /\ phase = "init" /\ waiting = {} /\ phase' = "done" /\ result' = v
      /\ UNCHANGED <<threshold, unique, party, nodeEpoch, reply, proof, waiting, groups, errors>>
      /\ chosen' = chosen
  BY DEF init_sessions_failed, Done, nodeVars
<1>2. /\ threshold \in Nat /\ threshold >= 1 /\ errors \in Seq(NodeErrors)
      /\ \A x \in NodeErrors : Cardinality(Pushed(x)) = Cardinality(Failed(x))
      /\ m = Cardinality(Votes) /\ m \in Nat
  BY <1>1, AllTaken, FS_CardinalityType
<1>3. Counted \subseteq NodeErrors /\ "WsError" \in NodeErrors
  BY DEF Counted, NodeErrors
<1> HIDE DEF m
<1>4. \/ \E x \in Counted : Cardinality(Failed(x)) >= threshold /\ v = x
      \/ /\ \A x \in Counted : ~(Cardinality(Failed(x)) >= threshold)
         /\ v = IF m >= threshold THEN "EpochMismatch"
                ELSE IF Cardinality(Failed("WsError")) >= threshold THEN "Networking"
                ELSE "NodeErrorDisagreement"
  BY <1>2, <1>3, Aggregated
<1> HIDE DEF v
<1>5. v \in InitErrors /\ v \in Results
  BY <1>4 DEF Counted, InitErrors, Results
<1>6. ClientTypeOK'
  BY <1>1, <1>5 DEF Inv, ClientTypeOK
<1>7. HonestReplies'
  BY <1>1 DEF Inv, HonestReplies
<1>8. HonestNodesVerify'
  <2>1. v \notin {"Panic", "InvalidDLogProof", "InconsistentOprfPublicKeys"}
    BY <1>5 DEF InitErrors
  <2> QED
    BY <1>1, <2>1, NotRejected DEF HonestNodesVerify
<1>9. InitFailsOnlyWithoutQuorum'
  <2>1. ASSUME NEW e \in Epoch
        PROVE  Cardinality({reply[s].party : s \in Answered(e)})' < threshold'
    BY <1>1, AllTaken DEF Answered
  <2> QED
    BY <2>1 DEF InitFailsOnlyWithoutQuorum
<1>10. \A x : Failed(x)' = Failed(x)
  BY <1>1 DEF Failed
<1>11. VerdictBacked'
  BY <1>1, <1>2, <1>4, <1>10 DEF VerdictBacked, Counted
<1>12. VerdictIsOrderFree'
  <2> SUFFICES ASSUME 2 * threshold > N, NEW r \in InitErrors \ {"NodeErrorDisagreement"}
               PROVE  Verdict(r)' <=> v = r
    BY <1>1 DEF VerdictIsOrderFree
  <2>1. Votes' = Votes
    BY <1>1 DEF Votes, Answered
  <2>2. /\ \A x \in Counted : Verdict(x)' <=> Cardinality(Failed(x)) >= threshold
        /\ Verdict("EpochMismatch")' <=> m >= threshold
        /\ Verdict("Networking")' <=> Cardinality(Failed("WsError")) >= threshold
    BY <1>1, <1>2, <1>10, <2>1, Verdicts
  <2>3. /\ \A x, y \in Counted \cup {"WsError"} : /\ Cardinality(Failed(x)) >= threshold
                                                  /\ Cardinality(Failed(y)) >= threshold
                                                  => x = y
        /\ \A x \in Counted \cup {"WsError"} : ~(/\ Cardinality(Failed(x)) >= threshold
                                                 /\ m >= threshold)
    BY <1>1, <1>2, <1>3, OneVerdict
  <2>4. CASE r \in Counted
    BY <1>4, <2>2, <2>3, <2>4 DEF Counted
  <2>5. CASE r = "EpochMismatch"
    BY <1>4, <2>2, <2>3, <2>5 DEF Counted
  <2>6. CASE r = "Networking"
    BY <1>4, <2>2, <2>3, <2>6 DEF Counted
  <2> QED
    BY <2>4, <2>5, <2>6 DEF InitErrors, Counted
<1>13. ResultInv'
  BY <1>1, <1>8, <1>9, <1>11, <1>12 DEF ResultInv
<1> QED
  BY <1>1, <1>6, <1>7, <1>13, DoneInv

-----------------------------------------------------------------------------
(* Before the evaluation begins. *)
LEMMA InvInit == Init => Inv
<1> SUFFICES ASSUME Init PROVE Inv
  OBVIOUS
<1>1. ClientTypeOK
  <2>1. NoSessions \in OprfSessions
    BY DEF NoSessions, OprfSessions
  <2> QED
    BY <2>1 DEF Init, ClientTypeOK, Results
<1>2. StartInv /\ InitInv /\ ChosenInv /\ HonestReplies /\ HonestProofs
  BY DEF Init, StartInv, InitInv, ChosenInv, HonestReplies, HonestProofs
<1>3. ResultInv
  BY DEF Init, ResultInv, HonestNodesVerify, InitFailsOnlyWithoutQuorum, VerdictIsOrderFree,
         VerdictBacked, InitErrors
<1> QED
  BY <1>1, <1>2, <1>3 DEF Inv

(* What is said of the result reads the result, the answers and the proofs. *)
LEMMA ResultKept ==
    ASSUME ResultInv, UNCHANGED <<threshold, reply, result>>, phase' = phase \/ phase' = "done",
           Faulty = {} /\ threshold' = Threshold => \A s \in Service : proof'[s] # "rejected"
    PROVE  ResultInv'
<1>1. /\ \A x : Failed(x)' = Failed(x)
      /\ \A e : Answered(e)' = Answered(e)
      /\ Votes' = Votes
  BY DEF Failed, Answered, Votes
<1>2. HonestNodesVerify'
  BY DEF ResultInv, HonestNodesVerify
<1>3. InitFailsOnlyWithoutQuorum'
  BY DEF ResultInv, InitFailsOnlyWithoutQuorum, Answered
<1>4. VerdictBacked'
  BY <1>1 DEF ResultInv, VerdictBacked
<1>5. VerdictIsOrderFree'
  <2> SUFFICES ASSUME result \in InitErrors, 2 * threshold > N,
                      NEW r \in InitErrors \ {"NodeErrorDisagreement"}
               PROVE  Verdict(r)' <=> result = r
    BY DEF VerdictIsOrderFree
  <2>1. Verdict(r) <=> result = r
    BY DEF ResultInv, VerdictIsOrderFree
  <2>2. r \in Counted \/ r = "EpochMismatch" \/ r = "Networking"
    BY DEF InitErrors, Counted
  <2>3. Verdict(r)' <=> Verdict(r)
    BY <1>1, <2>2, Verdicts
  <2> QED
    BY <2>1, <2>3
<1> QED
  BY <1>2, <1>3, <1>4, <1>5 DEF ResultInv

(* The invariant reads nothing but the variables. *)
LEMMA Stutter ==
    ASSUME Inv, UNCHANGED vars
    PROVE  Inv'
<1>1. /\ UNCHANGED <<threshold, unique, party, nodeEpoch, reply, proof, waiting, groups, errors>>
      /\ UNCHANGED <<chosen, phase, result>>
  BY DEF vars, nodeVars
<1>2. ClientTypeOK' /\ StartInv' /\ HonestReplies'
  BY <1>1 DEF Inv, ClientTypeOK, StartInv, HonestReplies
<1>3. ChosenInv'
  BY <1>1 DEF Inv, ChosenInv, Backed
<1>4. HonestProofs'
  <2>1. ASSUME NEW s \in Service PROVE Accepts(s)' <=> Accepts(s)
    BY <1>1 DEF Accepts, Coefficients
  <2> QED
    BY <1>1, <2>1 DEF Inv, HonestProofs
<1>5. InitInv'
  BY <1>1 DEF Inv, InitInv, GroupOk, Grouped, Backed, Answered, ErrorsOk, Pushed, Failed
<1>6. ResultInv'
  BY <1>1, NotRejected, ResultKept DEF Inv
<1> QED
  BY <1>2, <1>3, <1>4, <1>5, <1>6 DEF Inv

(* Every step of the client and of the nodes keeps the invariant. *)
LEMMA InvNext == Inv /\ [Next]_vars => Inv'
<1> SUFFICES ASSUME Inv, [Next]_vars PROVE Inv'
  OBVIOUS
<1> QED
  BY CoreInv, RotateInv, ReplyInv, TakeInv, ProofInv, FailedInv, ChallengeInv, FinishInv,
     FinalizeInv, Stutter DEF Next, Terminated

(* The inductive invariant holds throughout. *)
LEMMA InvHolds == Spec => []Inv
BY InvInit, InvNext, PTL DEF Spec

(* Type correctness of the client. *)
THEOREM ClientTypeCorrect == Spec => []ClientTypeOK
<1>1. Inv => ClientTypeOK
  BY DEF Inv
<1> QED
  BY <1>1, InvHolds, PTL

(* sessions.rs and lib.rs: with nodes that follow the protocol, in whatever *)
(* epochs and with whatever party ids, the sessions the client chooses and  *)
(* sorts make a challenge that every node accepts and a proof that          *)
(* verifies; and no answer of any node makes combine_commitments panic.     *)
THEOREM HonestNodesCorrect == Spec => []HonestNodesVerify
<1>1. Inv => HonestNodesVerify
  BY DEF Inv, ResultInv
<1> QED
  BY <1>1, InvHolds, PTL

(* init_sessions fails only if no epoch had answers of threshold parties,   *)
(* whatever the order of the answers and the errors between them.           *)
THEOREM QuorumCorrect == Spec => []InitFailsOnlyWithoutQuorum
<1>1. Inv => InitFailsOnlyWithoutQuorum
  BY DEF Inv, ResultInv
<1> QED
  BY <1>1, InvHolds, PTL

(* aggregate_error counts in the order of arrival and yet reports the one   *)
(* verdict that threshold services support, if a majority is needed.        *)
THEOREM VerdictOrderCorrect == Spec => []VerdictIsOrderFree
<1>1. Inv => VerdictIsOrderFree
  BY DEF Inv, ResultInv
<1> QED
  BY <1>1, InvHolds, PTL

=============================================================================
