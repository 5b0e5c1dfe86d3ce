-------------------------- MODULE MutationsProofs --------------------------
(* Proofs about Mutations, for every value of its constants.               *)
EXTENDS Mutations, FiniteSetTheorems, SequenceTheorems, TLAPS

USE MutationsAssumption

(***************************************************************************)
(* Types.                                                                  *)
(***************************************************************************)
Ids == Nat \ {0}

Pushable == [client : Clients, id : Ids, kind : Kinds]

Entries == [client : Clients, id : Ids, ran : BOOLEAN]

Results == [client : Clients, id : Ids, result : {"ok", "app", "ooo", "alreadyProcessed"}]

SockTypes ==
    [st : {"unused", "idle", "push", "txn", "call", "closed"},
     client : Clients \cup {"none", "gone"}, next : Ids, pg : {"none", "open", "broken"},
     push : Seq(Pushable), at : Nat, responses : SUBSET Results, pending : SUBSET Results,
     attempt : Nat, call : Seq(Pushable)]

TypesInv ==
    /\ made \in [Clients -> Seq(Kinds)]
    /\ log \in Seq(Entries)
    /\ sock \in [Conns -> SockTypes]
    /\ left \subseteq Seq(Pushable) \ {<<>>}
    /\ told \subseteq Results

(***************************************************************************)
(* The id n is not beyond the client's next, unless the client has heard,  *)
(* or is about to hear, that an earlier mutation failed.                   *)
(***************************************************************************)
HasFailed(c, n, heard) == \E e \in heard : e.client = c /\ e.id < n /\ e.result = "app"

InReach(c, n, heard) == n <= LastMutationID(log, c) + 1 \/ HasFailed(c, n, heard)

Heard(s) == told \cup sock[s].responses

(***************************************************************************)
(* A push is a run of one client's mutations.                              *)
(***************************************************************************)
IsRun(p) ==
    \A i \in 1..Len(p) : p[i].client = p[1].client /\ p[i].id = p[1].id + i - 1

RunInReach(p, heard) == p # <<>> => InReach(p[1].client, p[1].id, heard)

IsOwn(s, p) == p # <<>> /\ p[1].client = sock[s].client

(***************************************************************************)
(* The next mutation of the connection's own client follows the push, if   *)
(* that is its own, or is in reach.                                        *)
(***************************************************************************)
NextInReach(s, p, heard) ==
    /\ IsOwn(s, p) => sock[s].next = p[1].id + Len(p)
    /\ (sock[s].client \in Clients /\ ~IsOwn(s, p)) => InReach(sock[s].client, sock[s].next, heard)

ReachOK(s) ==
    /\ sock[s].st = "idle" => sock[s].responses = {} /\ NextInReach(s, <<>>, told)
    /\ sock[s].st \in {"push", "txn"} =>
         /\ IsRun(sock[s].push)
         /\ RunInReach(sock[s].push, Heard(s))
         /\ NextInReach(s, sock[s].push, Heard(s))
         /\ api => sock[s].push # <<>> /\ sock[s].responses = {}
    /\ sock[s].st = "call" =>
         /\ IsRun(sock[s].push) /\ IsRun(sock[s].call) /\ sock[s].push # <<>>
         /\ RunInReach(sock[s].push, told) /\ NextInReach(s, sock[s].push, told)
         /\ RunInReach(sock[s].call, Heard(s))
         /\ sock[s].call # <<>> => sock[s].call[1].client = sock[s].push[1].client
         /\ IsOwn(s, sock[s].push) => NextInReach(s, sock[s].call, Heard(s))
    /\ sock[s].st = "txn" => ~api /\ sock[s].push # <<>> /\ sock[s].at <= Len(log)
    /\ sock[s].st = "call" => api

(***************************************************************************)
(* What is answered is so.                                                 *)
(***************************************************************************)
Committed(r) == r.result = "ok" => r.id <= LastMutationID(log, r.client)

AnswersOK(s) ==
    \A r \in sock[s].responses :
        Committed(r) /\ (r.result = "ooo" => HasFailed(r.client, r.id, Heard(s)))

MutationsInv ==
    /\ TypesInv
    /\ ExactlyOnceInOrder
    /\ \A s \in Conns : ReachOK(s) /\ AnswersOK(s)
    /\ \A r \in told : Committed(r)

-----------------------------------------------------------------------------
(***************************************************************************)
(* Counting lastMutationIDs.                                               *)
(***************************************************************************)
LEMMA CountIsNat ==
    ASSUME NEW l \in Seq(Entries), NEW c
    PROVE  LastMutationID(l, c) \in Nat
  <1>1. IsFiniteSet(1..Len(l)) /\ DOMAIN l = 1..Len(l)
    BY FS_Interval
  <1>2. {i \in DOMAIN l : l[i].client = c} \in SUBSET (1..Len(l))
    BY <1>1
  <1> QED
    BY <1>1, <1>2, FS_Subset, FS_CardinalityType DEF LastMutationID

LEMMA CountOfAppend ==
    ASSUME NEW l \in Seq(Entries), NEW e \in Entries, NEW c
    PROVE  LastMutationID(Append(l, e), c) = LastMutationID(l, c) + (IF e.client = c THEN 1 ELSE 0)
  <1> DEFINE Of(m) == {i \in DOMAIN m : m[i].client = c}
  <1>1. /\ Len(Append(l, e)) = Len(l) + 1 /\ Len(l) \in Nat
        /\ DOMAIN l = 1..Len(l) /\ DOMAIN Append(l, e) = 1..(Len(l) + 1)
        /\ \A i \in 1..Len(l) : Append(l, e)[i] = l[i]
        /\ Append(l, e)[Len(l) + 1] = e
    OBVIOUS
  <1>2. IsFiniteSet(Of(l))
    <2>1. IsFiniteSet(1..Len(l)) /\ Of(l) \in SUBSET (1..Len(l))
      BY <1>1, FS_Interval
    <2> QED
      BY <2>1, FS_Subset
  <1>3. CASE e.client = c
    <2>1. Of(Append(l, e)) = Of(l) \cup {Len(l) + 1} /\ Len(l) + 1 \notin Of(l)
      BY <1>1, <1>3
    <2> QED
      BY <1>2, <1>3, <2>1, FS_AddElement DEF LastMutationID
  <1>4. CASE e.client # c
    <2>1. Of(Append(l, e)) = Of(l)
      BY <1>1, <1>4
    <2>2. LastMutationID(Append(l, e), c) = LastMutationID(l, c)
      BY <2>1 DEF LastMutationID
    <2> QED
      BY <1>4, <2>2, CountIsNat
  <1> QED
    BY <1>3, <1>4

LEMMA PrefixIsSeq ==
    ASSUME NEW l \in Seq(Entries), NEW n \in 0..Len(l)
    PROVE  /\ SubSeq(l, 1, n) \in Seq(Entries) /\ Len(SubSeq(l, 1, n)) = n
           /\ DOMAIN SubSeq(l, 1, n) = 1..n
           /\ \A i \in 1..n : SubSeq(l, 1, n)[i] = l[i]
  <1>1. n \in Nat /\ \A i \in 1..n : l[i] \in Entries
    OBVIOUS
  <1>2. /\ SubSeq(l, 1, n) \in Seq(Entries)
        /\ Len(SubSeq(l, 1, n)) = IF 1 <= n THEN n - 1 + 1 ELSE 0
        /\ \A i \in 1..(n - 1 + 1) : SubSeq(l, 1, n)[i] = l[1 + i - 1]
    BY <1>1, SubSeqProperties
  <1> QED
    BY <1>1, <1>2

\* What was counted since a snapshot is what the snapshot misses.
LEMMA CountOfPrefix ==
    ASSUME NEW l \in Seq(Entries), NEW n \in 0..Len(l), NEW c,
           \A i \in (n + 1)..Len(l) : l[i].client # c
    PROVE  LastMutationID(SubSeq(l, 1, n), c) = LastMutationID(l, c)
  <1>1. {i \in DOMAIN SubSeq(l, 1, n) : SubSeq(l, 1, n)[i].client = c} = {i \in DOMAIN l : l[i].client = c}
    <2>1. DOMAIN l = 1..Len(l) /\ Len(l) \in Nat /\ n \in Nat
      OBVIOUS
    <2> QED
      BY <2>1, PrefixIsSeq
  <1> QED
    BY <1>1 DEF LastMutationID

LEMMA PrefixOfAppend ==
    ASSUME NEW l \in Seq(Entries), NEW e \in Entries, NEW n \in 0..Len(l)
    PROVE  SubSeq(Append(l, e), 1, n) = SubSeq(l, 1, n)
  <1>1. /\ Append(l, e) \in Seq(Entries) /\ n \in 0..Len(Append(l, e))
        /\ \A i \in 1..n : Append(l, e)[i] = l[i]
    OBVIOUS
  <1>2. /\ SubSeq(l, 1, n) \in Seq(Entries) /\ Len(SubSeq(l, 1, n)) = n
        /\ \A i \in 1..n : SubSeq(l, 1, n)[i] = l[i]
    BY PrefixIsSeq
  <1>3. /\ SubSeq(Append(l, e), 1, n) \in Seq(Entries) /\ Len(SubSeq(Append(l, e), 1, n)) = n
        /\ \A i \in 1..n : SubSeq(Append(l, e), 1, n)[i] = Append(l, e)[i]
    BY <1>1, PrefixIsSeq
  <1> QED
    BY <1>1, <1>2, <1>3, SeqEqual

(***************************************************************************)
(* What a step may do to the log: count the client's next mutation.        *)
(***************************************************************************)
LogStep ==
    \/ log' = log
    \/ \E m \in Pushable, ran \in BOOLEAN :
          /\ m.id = LastMutationID(log, m.client) + 1
          /\ log' = Append(log, [client |-> m.client, id |-> m.id, ran |-> ran])

LogGrows ==
    /\ log' \in Seq(Entries) /\ Len(log) <= Len(log') /\ Len(log) \in Nat /\ Len(log') \in Nat
    /\ \A c : /\ LastMutationID(log, c) \in Nat /\ LastMutationID(log', c) \in Nat
              /\ LastMutationID(log, c) <= LastMutationID(log', c)

LEMMA LogStepGrows ==
    ASSUME log \in Seq(Entries), LogStep
    PROVE  LogGrows
  <1>1. CASE log' = log
    BY <1>1, CountIsNat DEF LogGrows
  <1>2. CASE \E m \in Pushable, ran \in BOOLEAN :
               log' = Append(log, [client |-> m.client, id |-> m.id, ran |-> ran])
    <2>1. PICK e \in Entries : log' = Append(log, e)
      BY <1>2 DEF Pushable, Entries
    <2>2. log' \in Seq(Entries) /\ Len(log') = Len(log) + 1 /\ Len(log) \in Nat
      BY <2>1
    <2>3. \A c : LastMutationID(log, c) \in Nat /\ LastMutationID(log', c) \in Nat
      BY <2>2, CountIsNat
    <2>4. \A c : LastMutationID(log', c) = LastMutationID(log, c) + (IF e.client = c THEN 1 ELSE 0)
      BY <2>1, CountOfAppend
    <2> QED
      BY <2>2, <2>3, <2>4 DEF LogGrows
  <1> QED
    BY <1>1, <1>2 DEF LogStep

LEMMA LogStepInOrder ==
    ASSUME log \in Seq(Entries), ExactlyOnceInOrder, LogStep
    PROVE  ExactlyOnceInOrder'
  <1>1. CASE log' = log
    BY <1>1 DEF ExactlyOnceInOrder
  <1>2. CASE \E m \in Pushable, ran \in BOOLEAN :
               /\ m.id = LastMutationID(log, m.client) + 1
               /\ log' = Append(log, [client |-> m.client, id |-> m.id, ran |-> ran])
    <2>1. PICK e \in Entries : log' = Append(log, e) /\ e.id = LastMutationID(log, e.client) + 1
      BY <1>2 DEF Pushable, Entries
    <2>2. /\ DOMAIN log' = 1..(Len(log) + 1) /\ Len(log) \in Nat /\ DOMAIN log = 1..Len(log)
          /\ Len(log') = Len(log) + 1 /\ log' \in Seq(Entries)
          /\ \A i \in 1..Len(log) : log'[i] = log[i]
          /\ log'[Len(log) + 1] = e
      BY <2>1
    <2>3. \A i \in 1..Len(log) : SubSeq(log', 1, i) = SubSeq(log, 1, i)
      BY <2>1, <2>2, PrefixOfAppend
    <2>4. SubSeq(log', 1, Len(log) + 1) = log'
      BY <2>2, SubSeqFull
    <2>5. LastMutationID(log', e.client) = LastMutationID(log, e.client) + 1
      BY <2>1, CountOfAppend
    <2>6. ASSUME NEW i \in DOMAIN log'
          PROVE  log'[i].id = LastMutationID(SubSeq(log', 1, i), log'[i].client)
      <3>1. CASE i \in 1..Len(log)
        BY <2>2, <2>3, <3>1 DEF ExactlyOnceInOrder
      <3>2. CASE i = Len(log) + 1
        BY <2>1, <2>2, <2>4, <2>5, <3>2
      <3> QED
        BY <2>2, <3>1, <3>2
    <2> QED
      BY <2>6 DEF ExactlyOnceInOrder
  <1> QED
    BY <1>1, <1>2 DEF LogStep

-----------------------------------------------------------------------------
(***************************************************************************)
(* Runs of mutations.                                                      *)
(***************************************************************************)
LEMMA FirstOfRun ==
    ASSUME NEW p \in Seq(Pushable), p # <<>>
    PROVE  p[1] \in Pushable /\ p[1].id \in Int /\ p[1].client \in Clients
  <1>1. p[1] \in Pushable
    OBVIOUS
  <1> QED
    BY <1>1 DEF Pushable, Ids

LEMMA RestOfRun ==
    ASSUME NEW p \in Seq(Pushable), p # <<>>, IsRun(p)
    PROVE  /\ Head(p) = p[1] /\ p[1] \in Pushable /\ Len(p) \in Nat \ {0}
           /\ Tail(p) \in Seq(Pushable) /\ Len(Tail(p)) = Len(p) - 1 /\ IsRun(Tail(p))
           /\ Tail(p) # <<>> => Tail(p)[1].client = p[1].client /\ Tail(p)[1].id = p[1].id + 1
           /\ Tail(p) = <<>> => Len(p) = 1
  <1>1. /\ Head(p) = p[1] /\ Len(p) \in Nat \ {0} /\ p[1] \in Pushable
        /\ Tail(p) \in Seq(Pushable) /\ Len(Tail(p)) = Len(p) - 1
        /\ \A i \in 1..Len(Tail(p)) : Tail(p)[i] = p[i + 1]
    OBVIOUS
  <1>2. \A i \in 1..Len(p) : p[i].client = p[1].client /\ p[i].id = p[1].id + i - 1
    BY DEF IsRun
  <1>3. p[1].id \in Nat
    BY <1>1 DEF Pushable, Ids
  <1>4. \A i \in 1..Len(Tail(p)) : Tail(p)[i].client = p[1].client /\ Tail(p)[i].id = p[1].id + i
    BY <1>1, <1>2, <1>3
  <1>5. Tail(p) # <<>> => Len(Tail(p)) >= 1
    BY <1>1
  <1>6. Tail(p) # <<>> => Tail(p)[1].client = p[1].client /\ Tail(p)[1].id = p[1].id + 1
    BY <1>1, <1>4, <1>5
  <1>7. IsRun(Tail(p))
    BY <1>1, <1>3, <1>4, <1>5, <1>6 DEF IsRun
  <1>8. Tail(p) = <<>> => Len(p) = 1
    BY <1>1
  <1> QED
    BY <1>1, <1>6, <1>7, <1>8

(***************************************************************************)
(* What is in reach stays in reach.                                        *)
(***************************************************************************)
LEMMA ReachGrows ==
    ASSUME LogGrows, NEW c, NEW n \in Int, NEW heard, NEW more, heard \subseteq more, InReach(c, n, heard)
    PROVE  InReach(c, n, more)'
  BY DEF InReach, HasFailed, LogGrows

\* What the connection has to do is what it was, though its transaction may
\* begin or end, and its client may have left.
SameWork(x) ==
    /\ sock'[x].next = sock[x].next /\ sock'[x].push = sock[x].push /\ sock'[x].call = sock[x].call
    /\ sock'[x].responses = sock[x].responses
    /\ sock'[x].client = sock[x].client \/ sock'[x].client = "gone"
    /\ \/ sock'[x].st = sock[x].st /\ sock'[x].at = sock[x].at
       \/ /\ {sock[x].st, sock'[x].st} \subseteq {"push", "txn"}
          /\ sock'[x].st = "txn" => ~api /\ sock[x].push # <<>> /\ sock'[x].at <= Len(log')

LEMMA OthersKeep ==
    ASSUME TypesInv, LogGrows, told \subseteq told', api' = api,
           NEW x \in Conns, SameWork(x), ReachOK(x), AnswersOK(x)
    PROVE  ReachOK(x)' /\ AnswersOK(x)'
  <1>1. PICK r \in SockTypes : r = sock[x]
    BY DEF TypesInv
  <1>2. /\ r.push \in Seq(Pushable) /\ r.call \in Seq(Pushable) /\ r.next \in Int /\ r.at \in Int
        /\ r.responses \subseteq Results
    BY DEF SockTypes, Ids
  <1>3. PICK heard, more : heard = Heard(x) /\ more = Heard(x)' /\ heard \subseteq more
    BY ZenonT(40) DEF Heard, SameWork
  <1>4. \A p \in Seq(Pushable) : p # <<>> => p[1].id \in Int /\ p[1].client \in Clients
    BY FirstOfRun
  <1>5. ASSUME NEW c, NEW n \in Int
        PROVE  /\ InReach(c, n, told) => InReach(c, n, told)'
               /\ InReach(c, n, heard) => InReach(c, n, more)'
    <2>1. InReach(c, n, told) => InReach(c, n, told)'
      BY DEF InReach, HasFailed, LogGrows
    <2>2. InReach(c, n, heard) => InReach(c, n, more)'
      BY <1>3, ReachGrows
    <2> QED
      BY <2>1, <2>2
  <1>6. ASSUME NEW p \in Seq(Pushable)
        PROVE  /\ RunInReach(p, told) => RunInReach(p, told)'
               /\ RunInReach(p, heard) => RunInReach(p, more)'
               /\ IsOwn(x, p)' => IsOwn(x, p)
               /\ IsOwn(x, p) /\ sock'[x].client \in Clients => IsOwn(x, p)'
               /\ NextInReach(x, p, told) => NextInReach(x, p, told)'
               /\ NextInReach(x, p, heard) => NextInReach(x, p, more)'
    <2>1. sock'[x].client \in Clients => sock'[x].client = sock[x].client
      BY DEF SameWork
    <2>2. /\ RunInReach(p, told) => RunInReach(p, told)'
          /\ RunInReach(p, heard) => RunInReach(p, more)'
      BY <1>4, <1>5 DEF RunInReach
    <2>3. /\ IsOwn(x, p)' => IsOwn(x, p)
          /\ IsOwn(x, p) /\ sock'[x].client \in Clients => IsOwn(x, p)'
      BY <1>4, <2>1 DEF IsOwn
    <2>4. /\ NextInReach(x, p, told) => NextInReach(x, p, told)'
          /\ NextInReach(x, p, heard) => NextInReach(x, p, more)'
      BY <1>1, <1>2, <1>5, <2>1, <2>3 DEF NextInReach, SameWork
    <2> QED
      BY <2>2, <2>3, <2>4
  <1>7. PICK push \in Seq(Pushable), call \in Seq(Pushable), responses \in SUBSET Results :
          /\ push = sock[x].push /\ push = sock'[x].push /\ call = sock[x].call /\ call = sock'[x].call
          /\ responses = sock[x].responses /\ responses = sock'[x].responses
    BY <1>1, <1>2 DEF SameWork
  <1>8. ASSUME sock[x].st = "idle"
        PROVE  sock'[x].responses = {} /\ NextInReach(x, <<>>, told)'
    <2>1. <<>> \in Seq(Pushable)
      OBVIOUS
    <2> QED
      BY <1>6, <1>7, <1>8, <2>1 DEF ReachOK
  <1>9. ASSUME sock[x].st \in {"push", "txn"}
        PROVE  /\ IsRun(push) /\ RunInReach(push, more)' /\ NextInReach(x, push, more)'
               /\ api' => push # <<>> /\ responses = {}
    BY <1>3, <1>6, <1>7, <1>9 DEF ReachOK
  <1>10. ASSUME sock[x].st = "call"
         PROVE  /\ IsRun(push) /\ IsRun(call) /\ push # <<>>
                /\ RunInReach(push, told)' /\ NextInReach(x, push, told)'
                /\ RunInReach(call, more)'
                /\ call # <<>> => call[1].client = push[1].client
                /\ IsOwn(x, push)' => NextInReach(x, call, more)'
    BY <1>3, <1>6, <1>7, <1>10 DEF ReachOK
  <1>11. ReachOK(x)'
    <2>1. /\ sock'[x].st = "txn" => ~api' /\ sock'[x].push # <<>> /\ sock'[x].at <= Len(log')
          /\ sock'[x].st = "call" => api'
      BY <1>1, <1>2 DEF ReachOK, SameWork, LogGrows
    <2>2. \/ sock'[x].st = sock[x].st
          \/ {sock[x].st, sock'[x].st} \subseteq {"push", "txn"}
      BY DEF SameWork
    <2> QED
      BY <1>3, <1>7, <1>8, <1>9, <1>10, <2>1, <2>2 DEF ReachOK
  <1>12. AnswersOK(x)'
    <2> SUFFICES ASSUME NEW e \in responses
                 PROVE  Committed(e)' /\ (e.result = "ooo" => HasFailed(e.client, e.id, more))
      BY <1>3, <1>7 DEF AnswersOK
    <2>1. Committed(e) /\ (e.result = "ooo" => HasFailed(e.client, e.id, heard))
      BY <1>3, <1>7 DEF AnswersOK
    <2>2. e.id \in Nat
      BY DEF Results, Ids
    <2> QED
      BY <1>3, <2>1, <2>2 DEF Committed, HasFailed, LogGrows
  <1> QED
    BY <1>11, <1>12

LEMMA StepKeeps ==
    ASSUME MutationsInv, TypesInv', LogStep, told \subseteq told', api' = api,
           \A r \in told' \ told : Committed(r)',
           \A x \in Conns : SameWork(x) \/ (ReachOK(x)' /\ AnswersOK(x)')
    PROVE  MutationsInv'
  <1>1. log \in Seq(Entries) /\ ExactlyOnceInOrder /\ TypesInv
    BY DEF MutationsInv, TypesInv
  <1>2. LogGrows /\ ExactlyOnceInOrder'
    BY <1>1, LogStepGrows, LogStepInOrder
  <1>3. \A x \in Conns : ReachOK(x)' /\ AnswersOK(x)'
    BY <1>1, <1>2, OthersKeep DEF MutationsInv
  <1>4. ASSUME NEW r \in told' PROVE Committed(r)'
    <2>1. CASE r \in told
      <3>1. Committed(r) /\ r.id \in Nat
        BY <1>1, <2>1 DEF MutationsInv, TypesInv, Results, Ids
      <3> QED
        BY <1>2, <3>1 DEF Committed, LogGrows
    <2> QED
      BY <2>1
  <1> QED
    BY <1>2, <1>3, <1>4 DEF MutationsInv

-----------------------------------------------------------------------------
(***************************************************************************)
(* The handler answers the first mutation of the push: ok if it is         *)
(* counted, out of order if it is beyond the next, nothing only if it was  *)
(* counted before.                                                         *)
(***************************************************************************)
LEMMA AnswerKeeps ==
    ASSUME MutationsInv, LogStep, api' = api, made' = made, left' = left, told' = told,
           NEW s \in Conns, sock[s].st \in {"push", "txn"}, ~api, sock[s].push # <<>>,
           NEW results \in SUBSET {"ok", "app", "ooo"}, Answer(s, results),
           "ok" \in results => Head(sock[s].push).id <= LastMutationID(log', Head(sock[s].push).client),
           "ooo" \in results => Head(sock[s].push).id > LastMutationID(log, Head(sock[s].push).client) + 1,
           \/ "app" \in results \/ "ooo" \in results
           \/ Head(sock[s].push).id <= LastMutationID(log', Head(sock[s].push).client)
    PROVE  MutationsInv'
  <1>1. PICK r \in SockTypes : r = sock[s]
    BY DEF MutationsInv, TypesInv
  <1>2. PICK p \in Seq(Pushable), q \in Seq(Pushable), m \in Pushable :
          p = sock[s].push /\ q = Tail(p) /\ m = Head(p) /\ p # <<>> /\ IsRun(p)
    <2>1. r.push \in Seq(Pushable) /\ r.push # <<>>
      BY <1>1 DEF SockTypes
    <2>2. Tail(r.push) \in Seq(Pushable) /\ Head(r.push) \in Pushable
      BY <2>1
    <2>3. IsRun(sock[s].push)
      BY DEF MutationsInv, ReachOK
    <2> QED
      BY <1>1, <2>1, <2>2, <2>3
  <1>3. /\ m = p[1] /\ IsRun(q) /\ Len(q) = Len(p) - 1 /\ Len(p) \in Nat \ {0}
        /\ q # <<>> => q[1].client = m.client /\ q[1].id = m.id + 1
        /\ q = <<>> => Len(p) = 1
    BY <1>2, RestOfRun
  <1>4. m.id \in Nat /\ m.client \in Clients
    BY DEF Pushable, Ids
  <1>5. PICK new \in SUBSET Results :
          /\ new = {Response(Head(sock[s].push), x) : x \in results}
          /\ \A x \in results : \E e \in new : e.client = m.client /\ e.id = m.id /\ e.result = x
          /\ \A e \in new : e.client = m.client /\ e.id = m.id /\ e.result \in results
    <2>0. Head(sock[s].push) = m
      BY <1>2, Zenon
    <2>1. \A x \in results : LET e == Response(Head(sock[s].push), x)
                             IN  e \in Results /\ e.client = m.client /\ e.id = m.id /\ e.result = x
      BY <2>0 DEF Response, Results, Pushable
    <2>2. {Response(Head(sock[s].push), x) : x \in results} \in SUBSET Results
      BY <2>1
    <2>3. \A x \in results : \E e \in {Response(Head(sock[s].push), y) : y \in results} :
             e.client = m.client /\ e.id = m.id /\ e.result = x
      BY <2>1
    <2>4. \A e \in {Response(Head(sock[s].push), y) : y \in results} :
             e.client = m.client /\ e.id = m.id /\ e.result \in results
      BY <2>1
    <2> QED
      BY <2>2, <2>3, <2>4, Zenon
  <1>6. PICK rest, answers :
          /\ rest = Tail(sock[s].push) /\ answers = {Response(Head(sock[s].push), x) : x \in results}
          /\ sock' = [sock EXCEPT ![s].st = "push", ![s].push = rest, ![s].responses = @ \cup answers]
    BY Zenon DEF Answer
  <1>7. /\ rest = q /\ answers = new
        /\ "ok" \in results => m.id <= LastMutationID(log', m.client)
        /\ "ooo" \in results => m.id > LastMutationID(log, m.client) + 1
        /\ "app" \in results \/ "ooo" \in results \/ m.id <= LastMutationID(log', m.client)
    <2>1. rest = q
      BY <1>2, <1>6, Zenon
    <2>2. answers = new
      BY <1>5, <1>6, Zenon
    <2>3. Head(sock[s].push) = m
      BY <1>2, Zenon
    <2> QED
      BY <2>1, <2>2, <2>3, Zenon
  <1>8. /\ sock'[s].st = "push" /\ sock'[s].push = q /\ sock'[s].responses = r.responses \cup new
        /\ sock'[s].next = r.next /\ sock'[s].client = r.client
        /\ \A x \in Conns \ {s} : sock'[x] = sock[x]
        /\ sock' \in [Conns -> SockTypes]
    BY ZenonT(40), <1>1, <1>6, <1>7 DEF MutationsInv, TypesInv, SockTypes
  <1>9. TypesInv' /\ \A x \in Conns \ {s} : SameWork(x)
    <2>1. LogGrows
      BY LogStepGrows DEF MutationsInv, TypesInv
    <2> QED
      BY <1>8, <2>1 DEF MutationsInv, TypesInv, SameWork, LogGrows
  <1>10. PICK heard, more : /\ heard = Heard(s) /\ more = Heard(s)' /\ more = heard \cup new
                            /\ \A e \in heard : e.id \in Nat
    <2>1. told' = told /\ told \subseteq Results /\ sock[s].responses \subseteq Results
      BY <1>1 DEF MutationsInv, TypesInv, SockTypes
    <2>2. \A e \in Results : e.id \in Nat
      BY DEF Results, Ids
    <2>3. Heard(s)' = Heard(s) \cup new
      BY <1>1, <1>8, <2>1 DEF Heard
    <2>4. \A e \in Heard(s) : e.id \in Nat
      BY <2>1, <2>2 DEF Heard
    <2> QED
      BY <2>3, <2>4
  <1>11. LogGrows
    BY LogStepGrows DEF MutationsInv, TypesInv
  \* The next mutation is in reach of its client.
  <1>12. "ooo" \in results => HasFailed(m.client, m.id, heard)
    <2>1. RunInReach(p, heard)
      BY <1>2, <1>10 DEF MutationsInv, ReachOK
    <2> QED
      BY <1>2, <1>3, <1>4, <1>7, <1>11, <2>1 DEF RunInReach, InReach, LogGrows
  <1>13. InReach(m.client, m.id + 1, more)'
    <2>1. CASE "app" \in results
      <3>1. HasFailed(m.client, m.id + 1, more)
        BY <1>4, <1>5, <1>10, <2>1 DEF HasFailed
      <3> QED
        BY <3>1 DEF InReach
    <2>2. CASE "ooo" \in results
      <3>1. HasFailed(m.client, m.id + 1, more)
        BY <1>4, <1>10, <1>12, <2>2 DEF HasFailed
      <3> QED
        BY <3>1 DEF InReach
    <2>3. CASE m.id <= LastMutationID(log', m.client)
      BY <1>4, <1>11, <2>3 DEF InReach, LogGrows
    <2> QED
      BY <1>7, <2>1, <2>2, <2>3
  <1>14. RunInReach(q, more)'
    BY <1>3, <1>13 DEF RunInReach
  <1>15. NextInReach(s, q, more)'
    <2>1. NextInReach(s, p, heard) /\ r.next \in Nat
      BY <1>1, <1>2, <1>10 DEF MutationsInv, ReachOK, SockTypes, Ids
    <2>2. CASE m.client = r.client
      <3>1. r.next = m.id + Len(p)
        BY <1>1, <1>2, <1>3, <2>1, <2>2 DEF NextInReach, IsOwn
      <3>2. CASE q = <<>>
        BY ZenonT(40), <1>3, <1>4, <1>8, <1>13, <2>2, <3>1, <3>2 DEF NextInReach, IsOwn
      <3>3. CASE q # <<>>
        BY <1>3, <1>4, <1>8, <2>2, <3>1, <3>3 DEF NextInReach, IsOwn
      <3> QED
        BY <3>2, <3>3
    <2>3. CASE m.client # r.client
      <3>1. ~IsOwn(s, p) /\ ~IsOwn(s, q)'
        BY <1>1, <1>2, <1>3, <1>8, <2>3 DEF IsOwn
      <3>2. r.client \in Clients => InReach(r.client, r.next, heard)
        BY <1>1, <2>1, <3>1 DEF NextInReach
      <3>3. r.client \in Clients => InReach(r.client, r.next, more)'
        BY <1>10, <1>11, <2>1, <3>2, ReachGrows
      <3> QED
        BY <1>8, <3>1, <3>3 DEF NextInReach
    <2> QED
      BY <2>2, <2>3
  <1>16. ReachOK(s)'
    BY <1>3, <1>8, <1>10, <1>14, <1>15 DEF ReachOK
  <1>17. AnswersOK(s)'
    <2> SUFFICES ASSUME NEW e \in r.responses \cup new
                 PROVE  Committed(e)' /\ (e.result = "ooo" => HasFailed(e.client, e.id, more))
      BY ZenonT(40), <1>8, <1>10 DEF AnswersOK
    <2>1. CASE e \in new
      BY <1>5, <1>7, <1>10, <1>12, <2>1 DEF Committed, HasFailed
    <2>2. CASE e \in r.responses
      <3>1. Committed(e) /\ (e.result = "ooo" => HasFailed(e.client, e.id, heard)) /\ e.id \in Nat
        BY <1>1, <1>10, <2>2 DEF MutationsInv, AnswersOK, Heard
      <3> QED
        BY <1>10, <1>11, <3>1 DEF Committed, HasFailed, LogGrows
    <2> QED
      BY <2>1, <2>2
  <1> QED
    BY <1>9, <1>16, <1>17, StepKeeps

(***************************************************************************)
(* A push that fails closes its connection.                                *)
(***************************************************************************)
LEMMA UnusedIsTyped == Unused \in SockTypes
  <1>1. <<>> \in Seq(Pushable)
    OBVIOUS
  <1> QED
    BY <1>1 DEF Unused, SockTypes, Ids

LEMMA CloseKeeps ==
    ASSUME MutationsInv, log' = log, api' = api, made' = made, left' \subseteq Seq(Pushable) \ {<<>>},
           told' = told, NEW s \in Conns, sock' = Closed(s)
    PROVE  MutationsInv'
  <1>1. PICK r \in SockTypes : r = [Unused EXCEPT !.st = "closed", !.client = sock[s].client]
    BY UnusedIsTyped DEF MutationsInv, TypesInv, SockTypes
  <1>2. r.st = "closed" /\ r.responses = {}
    BY <1>1 DEF Unused
  <1>3. sock' = [sock EXCEPT ![s] = r]
    BY <1>1, Zenon DEF Closed
  <1>4. sock'[s] = r /\ \A x \in Conns \ {s} : sock'[x] = sock[x]
    BY <1>3 DEF MutationsInv, TypesInv
  <1>5. TypesInv' /\ \A x \in Conns \ {s} : SameWork(x)
    BY <1>3, <1>4 DEF MutationsInv, TypesInv, SameWork
  <1>6. ReachOK(s)' /\ AnswersOK(s)'
    BY <1>2, <1>4 DEF ReachOK, AnswersOK
  <1> QED
    BY <1>5, <1>6, StepKeeps DEF LogStep

(***************************************************************************)
(* The end of a push.                                                      *)
(***************************************************************************)
LEMMA OutcomeKeeps ==
    ASSUME MutationsInv, log' = log, api' = api, made' = made, left' = left, NEW s \in Conns,
           sock[s].client \in Clients => InReach(sock[s].client, sock[s].next, Heard(s)),
           mutation_responses_outcome(s)
    PROVE  MutationsInv'
  <1>1. CASE IsFatal(Mine(s))
    BY <1>1, CloseKeeps DEF mutation_responses_outcome, MutationsInv, TypesInv
  <1>2. CASE ~IsFatal(Mine(s))
    <2>1. PICK mine : /\ mine = Mine(s)
                      /\ told' = told \cup mine
                      /\ sock' = [sock EXCEPT ![s].st = "idle", ![s].push = <<>>, ![s].responses = {},
                                              ![s].pending = @ \cup mine]
      BY <1>2, Zenon DEF mutation_responses_outcome
    <2>2. told' = told \cup mine
      BY <2>1
    <2>3. mine \subseteq Results /\ mine \subseteq sock[s].responses
      BY <2>1 DEF Mine, MutationsInv, TypesInv, SockTypes
    <2>4. PICK r \in SockTypes : r = sock[s]
      BY DEF MutationsInv, TypesInv
    <2>5. /\ sock'[s].st = "idle" /\ sock'[s].push = <<>> /\ sock'[s].responses = {}
          /\ sock'[s].next = r.next /\ sock'[s].client = r.client
          /\ \A x \in Conns \ {s} : sock'[x] = sock[x]
      BY <2>1, <2>4 DEF MutationsInv, TypesInv, SockTypes
    <2>6. sock' \in [Conns -> SockTypes]
      <3>1. <<>> \in Seq(Pushable) /\ {} \subseteq Results
        OBVIOUS
      <3>2. r.pending \cup mine \subseteq Results
        BY <2>3 DEF SockTypes
      <3> QED
        BY <2>1, <2>4, <3>1, <3>2 DEF MutationsInv, TypesInv, SockTypes
    <2>7. TypesInv' /\ \A x \in Conns \ {s} : SameWork(x)
      BY <2>2, <2>3, <2>5, <2>6 DEF MutationsInv, TypesInv, SameWork
    <2>8. \A e \in told' \ told : Committed(e)'
      <3>1. \A e \in mine : Committed(e)
        BY <2>3 DEF MutationsInv, AnswersOK
      <3> QED
        BY <2>2, <3>1 DEF Committed
    <2>9. r.client \in Clients => InReach(r.client, r.next, told)'
      <3>1. CASE r.next <= LastMutationID(log, r.client) + 1
        BY <3>1 DEF InReach
      <3>2. ASSUME HasFailed(r.client, r.next, Heard(s)) PROVE HasFailed(r.client, r.next, told')
        BY <2>1, <2>2, <2>4, <3>2 DEF HasFailed, Heard, Mine
      <3> QED
        BY <2>4, <3>1, <3>2 DEF InReach
    <2>10. ReachOK(s)' /\ AnswersOK(s)'
      BY <2>5, <2>9 DEF ReachOK, AnswersOK, NextInReach, IsOwn
    <2> QED
      BY <2>2, <2>7, <2>8, <2>10, StepKeeps DEF LogStep
  <1> QED
    BY <1>1, <1>2

LEMMA SameWorkKeeps ==
    ASSUME MutationsInv, LogStep, TypesInv', api' = api, told' = told,
           \A x \in Conns : SameWork(x)
    PROVE  MutationsInv'
  BY StepKeeps

-----------------------------------------------------------------------------
(***************************************************************************)
(* The clients.                                                            *)
(***************************************************************************)
LEMMA MakeKeeps ==
    ASSUME MutationsInv, NEW c \in Clients, NEW kind \in Kinds, Make(c, kind)
    PROVE  MutationsInv'
  <1>1. made' \in [Clients -> Seq(Kinds)]
    <2>1. made \in [Clients -> Seq(Kinds)] /\ Append(made[c], kind) \in Seq(Kinds)
      BY DEF MutationsInv, TypesInv
    <2>2. made' = [made EXCEPT ![c] = Append(made[c], kind)]
      BY DEF Make
    <2> QED
      BY <2>1, <2>2
  <1> QED
    BY <1>1, SameWorkKeeps DEF Make, MutationsInv, TypesInv, LogStep, SameWork

LEMMA ConnectKeeps ==
    ASSUME MutationsInv, NEW s \in Conns, NEW c \in Clients, Connect(s, c)
    PROVE  MutationsInv'
  <1>1. PICK known \in 0..LastMutationID(log, c) :
          sock' = [x \in Conns |->
                     IF x = s THEN [Unused EXCEPT !.st = "idle", !.client = c, !.next = known + 1]
                     ELSE IF sock[x].client = c /\ sock[x].st # "unused" THEN [sock[x] EXCEPT !.client = "gone"]
                     ELSE sock[x]]
    BY DEF Connect
  <1>2. LastMutationID(log, c) \in Nat /\ known + 1 \in Ids
    BY CountIsNat DEF MutationsInv, TypesInv, Ids
  <1>3. PICK r \in SockTypes : r = [Unused EXCEPT !.st = "idle", !.client = c, !.next = known + 1]
    BY <1>2, UnusedIsTyped DEF SockTypes
  <1>4. r.st = "idle" /\ r.client = c /\ r.next = known + 1 /\ r.responses = {} /\ sock'[s] = r
    BY <1>1, <1>3 DEF Unused
  <1>5. ASSUME NEW x \in Conns \ {s}
        PROVE  sock'[x] \in SockTypes /\ SameWork(x)
    <2>1. PICK t \in SockTypes : t = sock[x]
      BY DEF MutationsInv, TypesInv
    <2>2. sock'[x] = t \/ sock'[x] = [t EXCEPT !.client = "gone"]
      BY <1>1, <2>1
    <2>3. CASE sock'[x] = t
      BY <2>1, <2>3 DEF SameWork
    <2>4. CASE sock'[x] = [t EXCEPT !.client = "gone"]
      <3>1. PICK u \in SockTypes : u = [t EXCEPT !.client = "gone"]
        BY DEF SockTypes
      <3>2. /\ u.client = "gone" /\ u.next = t.next /\ u.push = t.push /\ u.call = t.call
            /\ u.responses = t.responses /\ u.st = t.st /\ u.at = t.at
        BY <3>1 DEF SockTypes
      <3> QED
        BY <2>1, <2>4, <3>1, <3>2 DEF SameWork
    <2> QED
      BY <2>2, <2>3, <2>4
  <1>6. TypesInv'
    <2>1. sock' \in [Conns -> SockTypes]
      BY <1>1, <1>4, <1>5
    <2> QED
      BY <2>1 DEF Connect, MutationsInv, TypesInv
  <1>7. ReachOK(s)' /\ AnswersOK(s)'
    BY <1>2, <1>4 DEF ReachOK, AnswersOK, NextInReach, IsOwn, InReach, Connect
  <1> QED
    BY <1>5, <1>6, <1>7, StepKeeps DEF Connect, LogStep

LEMMA AckKeeps ==
    ASSUME MutationsInv, NEW s \in Conns, NEW arrives \in BOOLEAN, Ack(s, arrives)
    PROVE  MutationsInv'
  <1>1. PICK id : sock' = [sock EXCEPT ![s].pending = {p \in @ : p.id # id}]
    BY Zenon DEF Ack
  <1>2. PICK r \in SockTypes : r = sock[s]
    BY DEF MutationsInv, TypesInv
  <1>3. {p \in r.pending : p.id # id} \subseteq Results
    BY DEF SockTypes
  <1>4. sock' \in [Conns -> SockTypes] /\ \A x \in Conns : SameWork(x)
    BY <1>1, <1>2, <1>3 DEF MutationsInv, TypesInv, SockTypes, SameWork
  <1> QED
    BY <1>4, SameWorkKeeps DEF Ack, MutationsInv, TypesInv, LogStep

\* A push begins at the connection's next mutation, or at one in reach of
\* the other client.
LEMMA PushKeeps ==
    ASSUME MutationsInv, NEW s \in Conns, NEW c \in Clients, Push(s, c)
    PROVE  MutationsInv'
  <1>1. PICK r \in SockTypes : r = sock[s]
    BY DEF MutationsInv, TypesInv
  <1>2. /\ r.next \in Nat \ {0} /\ LastMutationID(log, c) \in Nat /\ made[c] \in Seq(Kinds)
        /\ r.st = "idle" /\ r.client \in Clients
    BY <1>1, CountIsNat DEF MutationsInv, TypesInv, SockTypes, Ids, Push
  <1>3. PICK last, push, next :
          /\ last \in FirstToPush(s, c)..Len(made[c])
          /\ next = NextToPush(s, c, last) /\ push = MutationsOf(c, FirstToPush(s, c), last)
          /\ sock' = [sock EXCEPT ![s].st = "push", ![s].responses = {}, ![s].attempt = 0,
                                  ![s].next = next, ![s].push = push]
    BY Zenon DEF Push
  <1>4. PICK first : first = FirstToPush(s, c)
    OBVIOUS
  <1>5. /\ first = (IF c = sock[s].client THEN sock[s].next ELSE LastMutationID(log, c) + 1)
         /\ last \in first..Len(made[c])
         /\ next = (IF c = sock[s].client THEN last + 1 ELSE sock[s].next)
         /\ push = [i \in 1..(last - first + 1) |-> Mutation(c, first + i - 1)]
    <2>2. last \in first..Len(made[c]) /\ push = MutationsOf(c, first, last)
      BY <1>3, <1>4, Zenon
    <2>3. first = (IF c = sock[s].client THEN sock[s].next ELSE LastMutationID(log, c) + 1)
      BY <1>4, Zenon DEF FirstToPush
    <2>4. next = (IF c = sock[s].client THEN last + 1 ELSE sock[s].next)
      BY <1>3, Zenon DEF NextToPush
    <2>5. push = [i \in 1..(last - first + 1) |-> Mutation(c, first + i - 1)]
      BY <2>2, Zenon DEF MutationsOf
    <2> QED
      BY <2>2, <2>3, <2>4, <2>5
  <1>6. first \in Nat \ {0} /\ last \in Nat /\ first <= last /\ last <= Len(made[c]) /\ next \in Nat \ {0}
    BY <1>1, <1>2, <1>5
  <1>7. \A i \in 1..(last - first + 1) :
          /\ Mutation(c, first + i - 1) \in Pushable
          /\ Mutation(c, first + i - 1).client = c /\ Mutation(c, first + i - 1).id = first + i - 1
    <2>1. \A i \in 1..(last - first + 1) : first + i - 1 \in Nat \ {0} /\ first + i - 1 \in 1..Len(made[c])
      BY <1>2, <1>6
    <2>2. \A n \in 1..Len(made[c]) : made[c][n] \in Kinds
      BY <1>2
    <2> QED
      BY <2>1, <2>2 DEF Mutation, Pushable, Ids
  <1>8. /\ push \in Seq(Pushable) /\ Len(push) = last - first + 1 /\ push # <<>>
        /\ \A i \in 1..Len(push) : push[i].client = c /\ push[i].id = first + i - 1
    <2>1. last - first + 1 \in Nat /\ last - first + 1 >= 1
      BY <1>6
    <2>2. push \in Seq(Pushable)
      <3>1. push \in [1..(last - first + 1) -> Pushable]
        BY <1>5, <1>7
      <3> QED
        BY <2>1, <3>1, SeqDef
    <2>3. Len(push) = last - first + 1
      BY <1>5, <2>1
    <2> QED
      BY <1>5, <1>7, <2>1, <2>2, <2>3
  <1>9. /\ sock'[s].st = "push" /\ sock'[s].push = push /\ sock'[s].responses = {}
        /\ sock'[s].next = next /\ sock'[s].client = r.client
        /\ \A x \in Conns \ {s} : SameWork(x)
        /\ sock' \in [Conns -> SockTypes]
    <2>1. sock \in [Conns -> SockTypes] /\ next \in Ids
      BY <1>6 DEF MutationsInv, TypesInv, Ids
    <2>2. sock' \in [Conns -> SockTypes]
      <3>1. sock' = [sock EXCEPT ![s].st = "push", ![s].responses = {}, ![s].attempt = 0,
                                 ![s].next = next, ![s].push = push]
        BY <1>3
      <3>2. push \in Seq(Pushable)
        BY <1>8
      <3>3. {} \in SUBSET Results /\ 0 \in Nat
        OBVIOUS
      <3>4. [r EXCEPT !.st = "push", !.responses = {}, !.attempt = 0, !.next = next, !.push = push] \in SockTypes
        BY <2>1, <3>2, <3>3 DEF SockTypes
      <3>5. sock'[s] = [r EXCEPT !.st = "push", !.responses = {}, !.attempt = 0, !.next = next, !.push = push]
        BY <1>1, <2>1, <3>1
      <3>6. sock' = [x \in Conns |-> sock'[x]] /\ \A x \in Conns \ {s} : sock'[x] = sock[x]
        BY <2>1, <3>1
      <3> QED
        BY <2>1, <3>4, <3>5, <3>6
    <2> QED
      BY <1>1, <1>3, <2>1, <2>2 DEF SockTypes, SameWork
  <1>10. TypesInv'
    BY <1>9 DEF MutationsInv, TypesInv, Push
  <1>11. /\ IsRun(push) /\ push[1].client = c /\ push[1].id = first
    BY <1>6, <1>8 DEF IsRun
  <1>12. InReach(r.client, r.next, told)
    BY <1>1, <1>2 DEF MutationsInv, ReachOK, NextInReach, IsOwn
  <1>13. PICK heard : heard = told /\ heard = Heard(s)' /\ told' = told /\ log' = log /\ api' = api
    BY <1>9 DEF Heard, Push
  <1>14. RunInReach(push, heard)'
    <2>1. InReach(c, first, heard)
      BY <1>1, <1>2, <1>5, <1>12, <1>13 DEF InReach
    <2> QED
      BY <1>11, <1>13, <2>1 DEF RunInReach, InReach
  <1>15. NextInReach(s, push, heard)'
    <2>1. CASE c = r.client
      <3>1. next = last + 1 /\ next = push[1].id + Len(push)
        BY SMTT(40), <1>1, <1>5, <1>6, <1>8, <1>11, <2>1
      <3>2. IsOwn(s, push)'
        BY <1>8, <1>9, <1>11, <2>1 DEF IsOwn
      <3> QED
        BY <1>9, <3>1, <3>2 DEF NextInReach
    <2>2. CASE c # r.client
      <3>1. InReach(r.client, next, heard)'
        BY <1>1, <1>5, <1>12, <1>13, <2>2 DEF InReach
      <3> QED
        BY <1>9, <1>11, <2>2, <3>1 DEF NextInReach, IsOwn
    <2> QED
      BY <2>1, <2>2
  <1>16. ReachOK(s)' /\ AnswersOK(s)'
    BY <1>8, <1>9, <1>11, <1>13, <1>14, <1>15 DEF ReachOK, AnswersOK
  <1> QED
    BY <1>9, <1>10, <1>13, <1>16, StepKeeps DEF LogStep

-----------------------------------------------------------------------------
(***************************************************************************)
(* The handler and upstream.                                               *)
(***************************************************************************)
LEMMA ConnectUpstreamKeeps ==
    ASSUME MutationsInv, NEW s \in Conns, NEW ok \in BOOLEAN, ConnectUpstream(s, ok)
    PROVE  MutationsInv'
  <1>1. CASE ok
    <2>1. sock' = [sock EXCEPT ![s].pg = "open"] /\ told' = told
      BY <1>1 DEF ConnectUpstream
    <2>2. sock' \in [Conns -> SockTypes] /\ \A x \in Conns : SameWork(x)
      <3>1. PICK r \in SockTypes : r = sock[s] /\ sock \in [Conns -> SockTypes]
        BY DEF MutationsInv, TypesInv
      <3>2. [r EXCEPT !.pg = "open"] \in SockTypes
        BY <2>1 DEF SockTypes
      <3>3. /\ sock'[s] = [r EXCEPT !.pg = "open"]
            /\ sock' = [x \in Conns |-> sock'[x]] /\ \A x \in Conns \ {s} : sock'[x] = sock[x]
        BY <2>1, <3>1
      <3>4. SameWork(s)
        BY <2>1, <3>1, <3>3 DEF SameWork, SockTypes
      <3>5. \A x \in Conns \ {s} : SameWork(x)
        BY <3>3 DEF SameWork
      <3>6. sock' \in [Conns -> SockTypes]
        BY <3>1, <3>2, <3>3
      <3> QED
        BY <3>4, <3>5, <3>6
    <2> QED
      BY <2>1, <2>2, SameWorkKeeps DEF ConnectUpstream, MutationsInv, TypesInv, LogStep
  <1>2. CASE ~ok
    BY <1>2, CloseKeeps DEF ConnectUpstream, push_transport_failed, MutationsInv, TypesInv
  <1> QED
    BY <1>1, <1>2

LEMMA RefuseKeeps ==
    ASSUME MutationsInv, NEW s \in Conns, Refuse(s) \/ OnBroken(s)
    PROVE  MutationsInv'
  <1>1. /\ Answer(s, {"app"}) /\ sock[s].st \in {"push", "txn"} /\ ~api /\ sock[s].push # <<>>
        /\ api' = api /\ made' = made /\ left' = left /\ told' = told /\ log' = log
    BY DEF Refuse, OnBroken, Upstream
  <1>2. PICK results \in SUBSET {"ok", "app", "ooo"} : results = {"app"}
    OBVIOUS
  <1>3. Answer(s, results) /\ "ok" \notin results /\ "ooo" \notin results /\ "app" \in results
    BY <1>1, <1>2
  <1> QED
    BY <1>1, <1>3, AnswerKeeps DEF LogStep

LEMMA ConflictKeeps ==
    ASSUME MutationsInv, NEW s \in Conns, Conflict(s)
    PROVE  MutationsInv'
  <1>1. /\ Answer(s, {"app"}) /\ sock[s].st \in {"push", "txn"} /\ ~api /\ sock[s].push # <<>>
        /\ api' = api /\ made' = made /\ left' = left /\ told' = told /\ log' = log
    BY DEF Conflict, MutationsInv, ReachOK
  <1>2. PICK results \in SUBSET {"ok", "app", "ooo"} : results = {"app"}
    OBVIOUS
  <1>3. Answer(s, results) /\ "ok" \notin results /\ "ooo" \notin results /\ "app" \in results
    BY <1>1, <1>2
  <1> QED
    BY <1>1, <1>3, AnswerKeeps DEF LogStep

LEMMA BeginKeeps ==
    ASSUME MutationsInv, NEW s \in Conns, Begin(s)
    PROVE  MutationsInv'
  <1>1. sock' = [sock EXCEPT ![s].st = "txn", ![s].at = Len(log)] /\ log' = log /\ Len(log) \in Nat
    BY DEF Begin, MutationsInv, TypesInv
  <1>2. sock' \in [Conns -> SockTypes] /\ \A x \in Conns : SameWork(x)
    <2>1. PICK r \in SockTypes : r = sock[s] /\ sock \in [Conns -> SockTypes]
      BY DEF MutationsInv, TypesInv
    <2>2. [r EXCEPT !.st = "txn", !.at = Len(log)] \in SockTypes
      BY <1>1 DEF SockTypes
    <2>3. /\ sock'[s] = [r EXCEPT !.st = "txn", !.at = Len(log)]
          /\ sock' = [x \in Conns |-> sock'[x]] /\ \A x \in Conns \ {s} : sock'[x] = sock[x]
      BY <1>1, <2>1
    <2>4. SameWork(s)
      BY <1>1, <2>1, <2>3 DEF SameWork, SockTypes, Begin, Upstream
    <2>5. \A x \in Conns \ {s} : SameWork(x)
      BY <2>3 DEF SameWork
    <2>6. sock' \in [Conns -> SockTypes]
      BY <2>1, <2>2, <2>3
    <2> QED
      BY <2>4, <2>5, <2>6
  <1> QED
    BY <1>1, <1>2, SameWorkKeeps DEF Begin, MutationsInv, TypesInv, LogStep

\* Unless the transaction must fail, its snapshot has all that was counted
\* for the client.
LEMMA ExpectedIsNext ==
    ASSUME MutationsInv, NEW s \in Conns, sock[s].st = "txn", ~MustFail(s)
    PROVE  Expected(s) = LastMutationID(log, Head(sock[s].push).client) + 1
  <1>1. sock[s].at \in 0..Len(log) /\ log \in Seq(Entries)
    BY DEF MutationsInv, TypesInv, ReachOK, SockTypes
  <1>2. PICK c : c = Head(sock[s].push).client
    OBVIOUS
  <1>3. \A i \in (sock[s].at + 1)..Len(log) : log[i].client # c
    BY <1>2 DEF MustFail, Counted
  <1>4. LastMutationID(SubSeq(log, 1, sock[s].at), c) = LastMutationID(log, c)
    BY <1>1, <1>3, CountOfPrefix
  <1> QED
    BY <1>2, <1>4 DEF Expected

LEMMA HeadIsPushable ==
    ASSUME MutationsInv, NEW s \in Conns, sock[s].push # <<>>
    PROVE  /\ Head(sock[s].push) \in Pushable
           /\ Head(sock[s].push).id \in Nat \ {0} /\ Head(sock[s].push).client \in Clients
           /\ LastMutationID(log, Head(sock[s].push).client) \in Nat
  <1>1. sock[s].push \in Seq(Pushable) /\ log \in Seq(Entries)
    BY DEF MutationsInv, TypesInv, SockTypes
  <1>2. Head(sock[s].push) \in Pushable
    BY <1>1
  <1> QED
    BY <1>1, <1>2, CountIsNat DEF Pushable, Ids

\* A mutation that is counted has its id.
LEMMA CountedHasItsId ==
    ASSUME log \in Seq(Entries), NEW m \in Pushable, NEW ran \in BOOLEAN,
           m.id = LastMutationID(log, m.client) + 1,
           log' = Append(log, [client |-> m.client, id |-> m.id, ran |-> ran])
    PROVE  LogStep /\ LastMutationID(log', m.client) = m.id
  <1>1. PICK e \in Entries : e = [client |-> m.client, id |-> m.id, ran |-> ran]
    BY DEF Entries, Pushable
  <1>2. e.client = m.client /\ log' = Append(log, e)
    BY <1>1
  <1> QED
    BY <1>2, CountOfAppend DEF LogStep

LEMMA BreakKeeps ==
    ASSUME MutationsInv, NEW s \in Conns, NEW committed \in BOOLEAN, Break(s, committed)
    PROVE  MutationsInv'
  <1>1. /\ sock[s].st = "txn" /\ sock[s].push # <<>>
        /\ sock' = [sock EXCEPT ![s].st = "push", ![s].pg = "broken"]
    BY DEF Break, MutationsInv, ReachOK
  <1>2. sock' \in [Conns -> SockTypes] /\ \A x \in Conns : SameWork(x)
    <2>1. PICK r \in SockTypes : r = sock[s] /\ sock \in [Conns -> SockTypes]
      BY DEF MutationsInv, TypesInv
    <2>2. [r EXCEPT !.st = "push", !.pg = "broken"] \in SockTypes
      BY <1>1 DEF SockTypes
    <2>3. /\ sock'[s] = [r EXCEPT !.st = "push", !.pg = "broken"]
          /\ sock' = [x \in Conns |-> sock'[x]] /\ \A x \in Conns \ {s} : sock'[x] = sock[x]
      BY <1>1, <2>1
    <2>4. SameWork(s)
      BY <1>1, <2>1, <2>3 DEF SameWork, SockTypes
    <2>5. \A x \in Conns \ {s} : SameWork(x)
      BY <2>3 DEF SameWork
    <2>6. sock' \in [Conns -> SockTypes]
      BY <2>1, <2>2, <2>3
    <2> QED
      BY <2>4, <2>5, <2>6
  <1>3. LogStep
    <2>1. CASE ~committed
      BY <2>1 DEF Break, LogStep
    <2>2. CASE committed
      <3>1. PICK m : m = Head(sock[s].push)
        OBVIOUS
      <3>2. /\ check_mutation_id(m.id, Expected(s)) = "ok" /\ ~MustFail(s)
            /\ log' = Append(log, [client |-> m.client, id |-> m.id, ran |-> TRUE])
        BY <2>2, <3>1 DEF Break
      <3>3. m \in Pushable /\ m.id \in Nat /\ LastMutationID(log, m.client) \in Nat
        BY <1>1, <3>1, HeadIsPushable
      <3>4. m.id = LastMutationID(log, m.client) + 1
        BY <1>1, <3>1, <3>2, <3>3, ExpectedIsNext DEF check_mutation_id
      <3> QED
        BY <3>2, <3>3, <3>4 DEF LogStep
    <2> QED
      BY <2>1, <2>2
  <1>4. TypesInv'
    BY <1>2, <1>3, LogStepGrows DEF Break, MutationsInv, TypesInv, LogGrows
  <1> QED
    BY <1>2, <1>3, <1>4, SameWorkKeeps DEF Break

LEMMA RespondKeeps ==
    ASSUME MutationsInv, NEW s \in Conns, Respond(s)
    PROVE  MutationsInv'
  <1>1. sock[s].client \in Clients => InReach(sock[s].client, sock[s].next, Heard(s))
    BY DEF Respond, Upstream, MutationsInv, ReachOK, NextInReach, IsOwn
  <1> QED
    BY <1>1, OutcomeKeeps DEF Respond

LEMMA FinishKeeps ==
    ASSUME MutationsInv, NEW s \in Conns, Finish(s)
    PROVE  MutationsInv'
  <1>1. /\ sock[s].st \in {"push", "txn"} /\ sock[s].st = "txn" /\ ~api /\ sock[s].push # <<>>
        /\ api' = api /\ made' = made /\ left' = left /\ told' = told
    BY DEF Finish, MutationsInv, ReachOK
  <1>2. PICK m, expected : m = Head(sock[s].push) /\ expected = Expected(s)
    OBVIOUS
  <1>3. /\ m \in Pushable /\ m.id \in Nat /\ LastMutationID(log, m.client) \in Nat
        /\ ~MustFail(s) => expected = LastMutationID(log, m.client) + 1
        /\ log \in Seq(Entries)
    BY <1>1, <1>2, HeadIsPushable, ExpectedIsNext DEF MutationsInv, TypesInv
  <1>4. PICK authorized \in BOOLEAN : apply_crud_mutation(s, authorized)
    BY DEF Finish
  <1>5. check_mutation_id(m.id, expected) \in {"ok", "alreadyProcessed", "unexpected"}
    BY DEF check_mutation_id
  <1>6. \/ log' = log /\ Answer(s, {"app"})
        \/ /\ ~MustFail(s) /\ check_mutation_id(m.id, expected) = "unexpected"
           /\ log' = log /\ Answer(s, {"ooo"})
        \/ /\ ~MustFail(s) /\ check_mutation_id(m.id, expected) = "alreadyProcessed"
           /\ log' = log /\ Answer(s, {})
        \/ /\ ~MustFail(s) /\ check_mutation_id(m.id, expected) = "ok" /\ Answer(s, {"ok"})
           /\ log' = Append(log, [client |-> m.client, id |-> m.id, ran |-> authorized])
    BY <1>2, <1>4, <1>5, Zenon DEF apply_crud_mutation
  <1>7. CASE log' = log /\ Answer(s, {"app"})
    <2>1. PICK results \in SUBSET {"ok", "app", "ooo"} : results = {"app"}
      OBVIOUS
    <2>2. Answer(s, results) /\ "ok" \notin results /\ "ooo" \notin results /\ "app" \in results
      BY <1>7, <2>1
    <2> QED
      BY <1>1, <1>7, <2>2, AnswerKeeps DEF LogStep
  <1>8. CASE /\ ~MustFail(s) /\ check_mutation_id(m.id, expected) = "unexpected"
             /\ log' = log /\ Answer(s, {"ooo"})
    <2>1. PICK results \in SUBSET {"ok", "app", "ooo"} : results = {"ooo"}
      OBVIOUS
    <2>2. Answer(s, results) /\ "ok" \notin results /\ "ooo" \in results
      BY <1>8, <2>1
    <2>3. m.id > LastMutationID(log, m.client) + 1
      BY <1>3, <1>8 DEF check_mutation_id
    <2> QED
      BY <1>1, <1>2, <1>8, <2>2, <2>3, AnswerKeeps DEF LogStep
  <1>9. CASE /\ ~MustFail(s) /\ check_mutation_id(m.id, expected) = "alreadyProcessed"
             /\ log' = log /\ Answer(s, {})
    <2>1. PICK results \in SUBSET {"ok", "app", "ooo"} : results = {}
      OBVIOUS
    <2>2. Answer(s, results) /\ "ok" \notin results /\ "ooo" \notin results
      BY <1>9, <2>1
    <2>3. m.id <= LastMutationID(log', m.client)
      BY <1>3, <1>9 DEF check_mutation_id
    <2> QED
      BY <1>1, <1>2, <1>9, <2>2, <2>3, AnswerKeeps DEF LogStep
  <1>10. CASE /\ ~MustFail(s) /\ check_mutation_id(m.id, expected) = "ok" /\ Answer(s, {"ok"})
              /\ log' = Append(log, [client |-> m.client, id |-> m.id, ran |-> authorized])
    <2>1. PICK results \in SUBSET {"ok", "app", "ooo"} : results = {"ok"}
      OBVIOUS
    <2>2. Answer(s, results) /\ "ooo" \notin results
      BY <1>10, <2>1
    <2>3. m.id = LastMutationID(log, m.client) + 1
      BY <1>3, <1>10 DEF check_mutation_id
    <2>4. LogStep /\ LastMutationID(log', m.client) = m.id
      BY <1>3, <1>10, <2>3, CountedHasItsId
    <2>5. m.id <= LastMutationID(log', m.client)
      BY <1>3, <2>4
    <2> QED
      BY <1>1, <1>2, <2>2, <2>4, <2>5, AnswerKeeps
  <1> QED
    BY <1>6, <1>7, <1>8, <1>9, <1>10

-----------------------------------------------------------------------------
(***************************************************************************)
(* The mutate server.                                                      *)
(***************************************************************************)
LEMMA ServerCounts ==
    ASSUME log \in Seq(Entries), NEW m \in Pushable, ServerApplies(m)
    PROVE  /\ LogStep
           /\ ServerResult(m) \in {"ok", "app", "ooo", "alreadyProcessed"}
           /\ ServerResult(m) = "ooo" => m.id > LastMutationID(log, m.client) + 1
           /\ ServerResult(m) # "ooo" => m.id <= LastMutationID(log', m.client)
  <1>1. m.id \in Nat /\ m.client \in Clients /\ LastMutationID(log, m.client) \in Nat
    BY CountIsNat DEF Pushable, Ids
  <1>2. CASE ServerCheck(m) = "ok"
    <2>1. m.id = LastMutationID(log, m.client) + 1
      BY <1>1, <1>2 DEF ServerCheck, check_mutation_id
    <2>2. PICK ran : ran = (m.kind # "broken") /\ ran \in BOOLEAN
      BY Zenon
    <2>3. log' = Append(log, [client |-> m.client, id |-> m.id, ran |-> ran])
      BY <1>2, <2>2, Zenon DEF ServerApplies
    <2>4. LogStep /\ LastMutationID(log', m.client) = m.id
      BY <2>1, <2>2, <2>3, CountedHasItsId
    <2>5. ServerResult(m) \in {"ok", "app"}
      BY <1>2 DEF ServerResult
    <2> QED
      BY <1>1, <2>4, <2>5
  <1>3. CASE ServerCheck(m) = "alreadyProcessed"
    <2>1. log' = log /\ m.id < LastMutationID(log, m.client) + 1
      BY <1>1, <1>3 DEF ServerCheck, check_mutation_id, ServerApplies
    <2>2. ServerResult(m) = "alreadyProcessed"
      BY <1>3 DEF ServerResult
    <2> QED
      BY <1>1, <2>1, <2>2 DEF LogStep
  <1>4. CASE ServerCheck(m) = "unexpected"
    <2>1. log' = log /\ m.id > LastMutationID(log, m.client) + 1
      BY <1>1, <1>4 DEF ServerCheck, check_mutation_id, ServerApplies
    <2>2. ServerResult(m) = "ooo"
      BY <1>4 DEF ServerResult
    <2> QED
      BY <1>1, <2>1, <2>2 DEF LogStep
  <1> QED
    BY <1>2, <1>3, <1>4 DEF ServerCheck, check_mutation_id

LEMMA ServeLeftKeeps ==
    ASSUME MutationsInv, ServeLeft
    PROVE  MutationsInv'
  <1>1. PICK c \in left : ServerApplies(Head(c)) /\ left' = (left \ {c}) \cup ({Tail(c)} \ {<<>>})
    BY DEF ServeLeft
  <1>2. c \in Seq(Pushable) /\ c # <<>> /\ left \subseteq Seq(Pushable) \ {<<>>}
    BY DEF MutationsInv, TypesInv
  <1>3. Head(c) \in Pushable /\ Tail(c) \in Seq(Pushable)
    BY <1>2
  <1>4. LogStep
    BY <1>1, <1>3, ServerCounts DEF MutationsInv, TypesInv
  <1>5. left' \subseteq Seq(Pushable) \ {<<>>}
    BY <1>1, <1>2, <1>3
  <1>6. LogGrows
    BY <1>4, LogStepGrows DEF MutationsInv, TypesInv
  <1>7. TypesInv' /\ \A x \in Conns : SameWork(x)
    BY <1>5, <1>6 DEF ServeLeft, MutationsInv, TypesInv, LogGrows, SameWork
  <1> QED
    BY <1>4, <1>7, SameWorkKeeps DEF ServeLeft

LEMMA ServeKeeps ==
    ASSUME MutationsInv, NEW s \in Conns, Serve(s)
    PROVE  MutationsInv'
  <1>1. PICK r \in SockTypes : r = sock[s]
    BY DEF MutationsInv, TypesInv
  <1>2. r.st = "call" /\ api /\ api' = api /\ made' = made /\ left' = left /\ told' = told
    BY <1>1 DEF Serve, MutationsInv, ReachOK
  <1>3. PICK p \in Seq(Pushable), q \in Seq(Pushable), m \in Pushable :
          /\ p = sock[s].call /\ q = Tail(p) /\ m = Head(p) /\ p # <<>> /\ IsRun(p)
    <2>1. r.call \in Seq(Pushable) /\ r.call # <<>>
      BY <1>1 DEF SockTypes, Serve
    <2>2. Tail(r.call) \in Seq(Pushable) /\ Head(r.call) \in Pushable
      BY <2>1
    <2>3. IsRun(sock[s].call)
      BY <1>1, <1>2 DEF MutationsInv, ReachOK
    <2> QED
      BY <1>1, <2>1, <2>2, <2>3
  <1>4. /\ m = p[1] /\ IsRun(q) /\ Len(q) = Len(p) - 1 /\ Len(p) \in Nat \ {0}
        /\ q # <<>> => q[1].client = m.client /\ q[1].id = m.id + 1
        /\ q = <<>> => Len(p) = 1
    BY <1>3, RestOfRun
  <1>5. m.id \in Nat /\ m.client \in Clients
    BY DEF Pushable, Ids
  <1>6. PICK result : result = ServerResult(Head(sock[s].call))
    OBVIOUS
  <1>7. PICK rest, new :
          /\ rest = Tail(sock[s].call)
          /\ new = Response(Head(sock[s].call), ServerResult(Head(sock[s].call)))
          /\ sock' = [sock EXCEPT ![s].call = rest, ![s].responses = @ \cup {new}]
    BY Zenon DEF Serve
  <1>8. rest = q /\ new = Response(m, result) /\ result = ServerResult(m) /\ ServerApplies(m)
    BY <1>3, <1>6, <1>7, Zenon DEF Serve
  <1>9. /\ LogStep
        /\ result \in {"ok", "app", "ooo", "alreadyProcessed"}
        /\ result = "ooo" => m.id > LastMutationID(log, m.client) + 1
        /\ result # "ooo" => m.id <= LastMutationID(log', m.client)
    BY <1>8, ServerCounts DEF MutationsInv, TypesInv
  <1>10. new \in Results /\ new.client = m.client /\ new.id = m.id /\ new.result = result
    BY <1>8, <1>9 DEF Response, Results, Pushable
  <1>11. /\ sock'[s].st = "call" /\ sock'[s].push = r.push /\ sock'[s].call = q
         /\ sock'[s].responses = r.responses \cup {new}
         /\ sock'[s].next = r.next /\ sock'[s].client = r.client
         /\ \A x \in Conns \ {s} : sock'[x] = sock[x]
         /\ sock' \in [Conns -> SockTypes]
    <2>1. sock \in [Conns -> SockTypes] /\ r.responses \cup {new} \in SUBSET Results
      BY <1>10 DEF MutationsInv, TypesInv, SockTypes
    <2>2. /\ sock' = [sock EXCEPT ![s].call = rest, ![s].responses = @ \cup {new}]
          /\ rest = q
      BY <1>7, <1>8
    <2>3. [r EXCEPT !.call = q, !.responses = r.responses \cup {new}] \in SockTypes
      BY <2>1 DEF SockTypes
    <2>4. /\ sock'[s] = [r EXCEPT !.call = q, !.responses = r.responses \cup {new}]
          /\ sock' = [x \in Conns |-> sock'[x]] /\ \A x \in Conns \ {s} : sock'[x] = sock[x]
      BY <1>1, <2>1, <2>2 DEF SockTypes
    <2>5. sock' \in [Conns -> SockTypes]
      BY <2>1, <2>3, <2>4
    <2> QED
      BY <1>2, <2>4, <2>5 DEF SockTypes
  <1>12. LogGrows
    BY <1>9, LogStepGrows DEF MutationsInv, TypesInv
  <1>13. TypesInv' /\ \A x \in Conns \ {s} : SameWork(x)
    BY <1>2, <1>11, <1>12 DEF MutationsInv, TypesInv, SameWork, LogGrows
  <1>14. PICK heard, more : /\ heard = Heard(s) /\ more = Heard(s)' /\ more = heard \cup {new}
                            /\ \A e \in heard : e.id \in Nat
    <2>1. told' = told /\ told \subseteq Results /\ sock[s].responses \subseteq Results
      BY <1>1, <1>2 DEF MutationsInv, TypesInv, SockTypes
    <2>2. \A e \in Results : e.id \in Nat
      BY DEF Results, Ids
    <2>3. Heard(s)' = Heard(s) \cup {new}
      BY <1>1, <1>11, <2>1 DEF Heard
    <2>4. \A e \in Heard(s) : e.id \in Nat
      BY <2>1, <2>2 DEF Heard
    <2> QED
      BY <2>3, <2>4
  <1>15. PICK push \in Seq(Pushable) : push = sock[s].push /\ push = sock'[s].push
    BY <1>1, <1>11 DEF SockTypes
  \* What ReachOK says before the step.
  <1>16. /\ IsRun(push) /\ push # <<>> /\ RunInReach(push, told) /\ NextInReach(s, push, told)
         /\ RunInReach(p, heard) /\ m.client = push[1].client
         /\ IsOwn(s, push) => NextInReach(s, p, heard)
    <2>1. sock[s].st = "call" /\ ReachOK(s)
      BY <1>1, <1>2 DEF MutationsInv
    <2>2. /\ IsRun(sock[s].push) /\ sock[s].push # <<>>
          /\ RunInReach(sock[s].push, told) /\ NextInReach(s, sock[s].push, told)
          /\ RunInReach(sock[s].call, Heard(s))
          /\ sock[s].call # <<>> => sock[s].call[1].client = sock[s].push[1].client
          /\ IsOwn(s, sock[s].push) => NextInReach(s, sock[s].call, Heard(s))
      BY <2>1, Zenon DEF ReachOK
    <2> QED
      BY <1>3, <1>4, <1>14, <1>15, <2>2
  <1>17. result = "ooo" => HasFailed(m.client, m.id, heard)
    <2>1. InReach(m.client, m.id, heard)
      BY <1>3, <1>4, <1>16 DEF RunInReach
    <2>2. LastMutationID(log, m.client) \in Nat
      BY <1>12 DEF LogGrows
    <2> QED
      BY <1>5, <1>9, <2>1, <2>2 DEF InReach
  <1>18. InReach(m.client, m.id + 1, more)'
    <2>1. CASE result = "ooo"
      <3>1. HasFailed(m.client, m.id + 1, more)
        BY <1>5, <1>14, <1>17, <2>1 DEF HasFailed
      <3> QED
        BY <3>1 DEF InReach
    <2>2. CASE result # "ooo"
      BY <1>5, <1>9, <1>12, <2>2 DEF InReach, LogGrows
    <2> QED
      BY <2>1, <2>2
  <1>19. RunInReach(q, more)' /\ RunInReach(push, told)'
    <2>1. push[1].id \in Int
      BY <1>16, FirstOfRun
    <2> QED
      BY SMTT(40), <1>2, <1>4, <1>12, <1>16, <1>18, <2>1 DEF RunInReach, InReach, LogGrows
  <1>20. NextInReach(s, push, told)'
    <2>1. r.next \in Int
      BY DEF SockTypes, Ids
    <2> QED
      BY <1>1, <1>2, <1>11, <1>12, <1>16, <2>1 DEF NextInReach, IsOwn, InReach, LogGrows
  <1>21. IsOwn(s, push)' => NextInReach(s, q, more)'
    <2> SUFFICES ASSUME r.client = m.client
                 PROVE  NextInReach(s, q, more)'
      BY <1>11, <1>16 DEF IsOwn
    <2>1. IsOwn(s, push) /\ IsOwn(s, p) /\ r.next = m.id + Len(p)
      BY <1>1, <1>3, <1>4, <1>16 DEF IsOwn, NextInReach
    <2>2. CASE q = <<>>
      <3>1. ~IsOwn(s, q)' /\ r.next = m.id + 1
        BY <1>4, <1>5, <2>1, <2>2 DEF IsOwn
      <3>2. InReach(r.client, r.next, more)'
        BY <1>18, <3>1
      <3> QED
        BY <1>11, <3>1, <3>2 DEF NextInReach
    <2>3. CASE q # <<>>
      <3>1. IsOwn(s, q)' /\ r.next = q[1].id + Len(q)
        <4>1. q[1].client = m.client /\ q[1].id = m.id + 1 /\ Len(q) = Len(p) - 1 /\ Len(p) \in Nat
          BY <1>4, <2>3
        <4>2. IsOwn(s, q)'
          <5>1. q[1].client = sock'[s].client
            BY <1>11, <4>1, Zenon
          <5> QED
            BY <2>3, <5>1, Zenon DEF IsOwn
        <4>3. PICK id \in Nat, len \in Nat : id = m.id /\ len = Len(p)
          BY <1>5, <4>1
        <4>4. r.next = id + len /\ q[1].id = id + 1 /\ Len(q) = len - 1
          BY <2>1, <4>1, <4>3
        <4>5. r.next = q[1].id + Len(q)
          BY <4>4
        <4> QED
          BY <4>2, <4>5
      <3> QED
        BY <1>11, <3>1 DEF NextInReach
    <2> QED
      BY <2>2, <2>3
  <1>22. ReachOK(s)'
    BY <1>2, <1>4, <1>11, <1>14, <1>15, <1>16, <1>19, <1>20, <1>21 DEF ReachOK
  <1>23. AnswersOK(s)'
    <2> SUFFICES ASSUME NEW e \in r.responses \cup {new}
                 PROVE  Committed(e)' /\ (e.result = "ooo" => HasFailed(e.client, e.id, more))
      BY <1>11, <1>14 DEF AnswersOK
    <2>1. CASE e = new
      BY <1>9, <1>10, <1>14, <1>17, <2>1 DEF Committed, HasFailed
    <2>2. CASE e \in r.responses
      <3>1. Committed(e) /\ (e.result = "ooo" => HasFailed(e.client, e.id, heard)) /\ e.id \in Nat
        BY <1>1, <1>14, <2>2 DEF MutationsInv, AnswersOK, Heard
      <3> QED
        BY <1>12, <1>14, <3>1 DEF Committed, HasFailed, LogGrows
    <2> QED
      BY <2>1, <2>2
  <1> QED
    BY <1>2, <1>9, <1>13, <1>22, <1>23, StepKeeps

LEMMA ForwardKeeps ==
    ASSUME MutationsInv, NEW s \in Conns, Forward(s)
    PROVE  MutationsInv'
  <1>1. PICK r \in SockTypes : r = sock[s]
    BY DEF MutationsInv, TypesInv
  <1>2. PICK p \in Seq(Pushable) : p = sock[s].push
    BY <1>1 DEF SockTypes
  <1>3. /\ api' = api /\ api /\ made' = made /\ log' = log /\ left' = left /\ told' = told
        /\ sock[s].st = "push" /\ ReachOK(s)
    BY DEF Forward, MutationsInv
  <1>4. sock' = [sock EXCEPT ![s].st = "call", ![s].call = p, ![s].responses = {}]
    BY <1>2, Zenon DEF Forward
  <1>5. /\ sock'[s].st = "call" /\ sock'[s].push = p /\ sock'[s].call = p /\ sock'[s].responses = {}
        /\ sock'[s].next = r.next /\ sock'[s].client = r.client
        /\ \A x \in Conns \ {s} : sock'[x] = sock[x]
        /\ sock' \in [Conns -> SockTypes]
    <2>1. sock \in [Conns -> SockTypes] /\ {} \in SUBSET Results
      BY DEF MutationsInv, TypesInv
    <2>2. [r EXCEPT !.st = "call", !.call = p, !.responses = {}] \in SockTypes
      BY <2>1 DEF SockTypes
    <2>3. /\ sock'[s] = [r EXCEPT !.st = "call", !.call = p, !.responses = {}]
          /\ sock' = [x \in Conns |-> sock'[x]] /\ \A x \in Conns \ {s} : sock'[x] = sock[x]
      BY <1>1, <1>4, <2>1
    <2>4. sock' \in [Conns -> SockTypes]
      BY <2>1, <2>2, <2>3
    <2> QED
      BY <1>1, <1>2, <2>3, <2>4 DEF SockTypes
  <1>6. TypesInv' /\ \A x \in Conns \ {s} : SameWork(x)
    BY <1>3, <1>5 DEF MutationsInv, TypesInv, SameWork
  <1>7. PICK heard : heard = told /\ heard = Heard(s) /\ heard = Heard(s)' /\ heard = told'
    BY <1>3, <1>5 DEF Heard, ReachOK
  <1>8. IsRun(p) /\ p # <<>> /\ RunInReach(p, heard) /\ NextInReach(s, p, heard)
    BY <1>2, <1>3, <1>7 DEF ReachOK
  <1>9. RunInReach(p, heard)' /\ NextInReach(s, p, heard)'
    BY <1>1, <1>3, <1>5, <1>8 DEF RunInReach, NextInReach, IsOwn, InReach
  <1>10. ReachOK(s)' /\ AnswersOK(s)'
    BY <1>3, <1>5, <1>7, <1>8, <1>9 DEF ReachOK, AnswersOK
  <1> QED
    BY <1>3, <1>6, <1>10, StepKeeps DEF LogStep

LEMMA AnsweredKeeps ==
    ASSUME MutationsInv, NEW s \in Conns, Answered(s)
    PROVE  MutationsInv'
  <1>1. ReachOK(s) /\ sock[s].st = "call" /\ sock[s].call = <<>>
    BY DEF Answered, MutationsInv
  <1>2. /\ NextInReach(s, sock[s].push, told)
        /\ IsOwn(s, sock[s].push) => NextInReach(s, sock[s].call, Heard(s))
    BY <1>1, Zenon DEF ReachOK
  <1>3. sock[s].client \in Clients => InReach(sock[s].client, sock[s].next, Heard(s))
    <2>1. CASE IsOwn(s, sock[s].push)
      <3>1. ~IsOwn(s, sock[s].call)
        BY <1>1 DEF IsOwn
      <3> QED
        BY <1>2, <2>1, <3>1 DEF NextInReach
    <2>2. CASE ~IsOwn(s, sock[s].push)
      <3>1. sock[s].client \in Clients => InReach(sock[s].client, sock[s].next, told)
        BY <1>2, <2>2 DEF NextInReach
      <3> QED
        BY <3>1 DEF InReach, HasFailed, Heard
    <2> QED
      BY <2>1, <2>2
  <1> QED
    BY <1>3, OutcomeKeeps DEF Answered

\* A call that is made again begins with the push as it was.
LEMMA CallFailsKeeps ==
    ASSUME MutationsInv, NEW s \in Conns, NEW goesOn \in BOOLEAN, NEW retryable \in BOOLEAN,
           CallFails(s, goesOn, retryable)
    PROVE  MutationsInv'
  <1>1. PICK r \in SockTypes : r = sock[s]
    BY DEF MutationsInv, TypesInv
  <1>2. PICK p \in Seq(Pushable), call \in Seq(Pushable) : p = sock[s].push /\ call = sock[s].call
    BY <1>1 DEF SockTypes
  <1>3. /\ api' = api /\ made' = made /\ log' = log
        /\ sock[s].st = "call" /\ ReachOK(s)
    BY DEF CallFails, MutationsInv
  <1>4. left' \subseteq Seq(Pushable) \ {<<>>}
    BY <1>2 DEF CallFails, MutationsInv, TypesInv
  <1>5. CASE retryable /\ sock[s].attempt + 1 < MaxAttempts
    <2>1. told' = told
      BY <1>5 DEF CallFails
    <2>2. sock' = [sock EXCEPT ![s].st = "push", ![s].attempt = @ + 1, ![s].call = <<>>, ![s].responses = {}]
      BY <1>5 DEF CallFails
    <2>3. /\ sock'[s].st = "push" /\ sock'[s].push = p /\ sock'[s].responses = {}
          /\ sock'[s].next = r.next /\ sock'[s].client = r.client
          /\ \A x \in Conns \ {s} : sock'[x] = sock[x]
          /\ sock' \in [Conns -> SockTypes]
      <3>1. sock \in [Conns -> SockTypes] /\ {} \in SUBSET Results /\ <<>> \in Seq(Pushable) /\ r.attempt + 1 \in Nat
        BY DEF MutationsInv, TypesInv, SockTypes
      <3>2. [r EXCEPT !.st = "push", !.attempt = r.attempt + 1, !.call = <<>>, !.responses = {}] \in SockTypes
        BY <3>1 DEF SockTypes
      <3>3. /\ sock'[s] = [r EXCEPT !.st = "push", !.attempt = r.attempt + 1, !.call = <<>>, !.responses = {}]
            /\ sock' = [x \in Conns |-> sock'[x]] /\ \A x \in Conns \ {s} : sock'[x] = sock[x]
        BY <1>1, <2>2, <3>1
      <3>4. sock' \in [Conns -> SockTypes]
        BY <3>1, <3>2, <3>3
      <3> QED
        BY <1>1, <1>2, <3>3, <3>4 DEF SockTypes
    <2>4. TypesInv' /\ \A x \in Conns \ {s} : SameWork(x)
      BY <1>3, <1>4, <2>1, <2>3 DEF MutationsInv, TypesInv, SameWork
    <2>5. PICK heard : heard = told /\ heard = Heard(s)'
      BY <2>1, <2>3 DEF Heard
    <2>6. IsRun(p) /\ p # <<>> /\ RunInReach(p, heard) /\ NextInReach(s, p, heard)
      BY <1>2, <1>3, <2>5 DEF ReachOK
    <2>7. RunInReach(p, heard)' /\ NextInReach(s, p, heard)'
      BY <1>1, <1>3, <2>3, <2>6 DEF RunInReach, NextInReach, IsOwn, InReach
    <2>8. ReachOK(s)' /\ AnswersOK(s)'
      BY <2>3, <2>5, <2>6, <2>7 DEF ReachOK, AnswersOK
    <2> QED
      BY <1>3, <2>1, <2>4, <2>8, StepKeeps DEF LogStep
  <1>6. CASE ~(retryable /\ sock[s].attempt + 1 < MaxAttempts)
    BY <1>3, <1>4, <1>6, CloseKeeps DEF CallFails, push_transport_failed
  <1> QED
    BY <1>5, <1>6

-----------------------------------------------------------------------------
LEMMA InitHolds ==
    ASSUME MutInit
    PROVE  MutationsInv
  <1>1. log = <<>> /\ told = {} /\ left = {} /\ \A s \in Conns : sock[s] = Unused
    BY DEF MutInit
  <1>2. TypesInv
    <2>1. <<>> \in Seq(Kinds) /\ <<>> \in Seq(Entries)
      OBVIOUS
    <2> QED
      BY <1>1, <2>1, UnusedIsTyped DEF MutInit, TypesInv
  <1>3. \A s \in Conns : ReachOK(s) /\ AnswersOK(s)
    BY <1>1 DEF ReachOK, AnswersOK, Unused
  <1>4. ExactlyOnceInOrder
    BY <1>1 DEF ExactlyOnceInOrder
  <1> QED
    BY <1>1, <1>2, <1>3, <1>4 DEF MutationsInv

LEMMA StutterHolds ==
    ASSUME MutationsInv, UNCHANGED mutVars
    PROVE  MutationsInv'
  <1>1. /\ api' = api /\ made' = made /\ log' = log /\ sock' = sock /\ left' = left /\ told' = told
    BY DEF mutVars
  <1> QED
    BY <1>1, SameWorkKeeps DEF MutationsInv, TypesInv, LogStep, SameWork

LEMMA NextHolds ==
    ASSUME MutationsInv, [MutNext]_mutVars
    PROVE  MutationsInv'
  <1>1. CASE MutNext
    BY <1>1, MakeKeeps, ConnectKeeps, PushKeeps, ConnectUpstreamKeeps, BreakKeeps, AckKeeps, RefuseKeeps,
       BeginKeeps, FinishKeeps, ConflictKeeps, RespondKeeps, ForwardKeeps, ServeKeeps, AnsweredKeeps,
       CallFailsKeeps, ServeLeftKeeps, Zenon DEF MutNext
  <1> QED
    BY <1>1, StutterHolds

(***************************************************************************)
(* For any number of clients, connections and faults, and however often    *)
(* calls and pushes are made again: a client's mutations are committed     *)
(* once and in their order.                                                *)
(***************************************************************************)
THEOREM MutationsApplyOnce == MutSpec => []ExactlyOnceInOrder
  <1>1. MutInit => MutationsInv
    BY InitHolds
  <1>2. MutationsInv /\ [MutNext]_mutVars => MutationsInv'
    BY NextHolds
  <1>3. MutationsInv => ExactlyOnceInOrder
    BY DEF MutationsInv
  <1> QED
    BY <1>1, <1>2, <1>3, PTL DEF MutSpec

(***************************************************************************)
(* No client is told that a mutation succeeded that is not committed, and  *)
(* no push fails as out of order unless a mutation before failed.          *)
(***************************************************************************)
THEOREM ClientsAreToldTheTruth == MutSpec => []AnswersAreHonest
  <1>1. MutInit => MutationsInv
    BY InitHolds
  <1>2. MutationsInv /\ [MutNext]_mutVars => MutationsInv'
    BY NextHolds
  <1>3. MutationsInv => AnswersAreHonest
    BY DEF MutationsInv, AnswersAreHonest, AnswersOK, Committed, HasFailed, Heard
  <1> QED
    BY <1>1, <1>2, <1>3, PTL DEF MutSpec

=============================================================================
