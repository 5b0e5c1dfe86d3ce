----------------------- MODULE GroupTransitionProofs -----------------------
(***************************************************************************)
(* What the operators of GroupTransition return: the types they preserve,  *)
(* and the versions that patches, pokes and delivery states carry.         *)
(***************************************************************************)
EXTENDS GroupTransition, SequenceTheorems, WellFoundedInduction, TLAPS

(***************************************************************************)
(* Cookies and the delivery state of a connection.                         *)
(***************************************************************************)
Cookies == Nat \cup {NoCookie}

DeliveryOK(dl) ==
    /\ DOMAIN dl = {"base", "poked", "last", "lmids"}
    /\ dl.base \in Cookies
    /\ dl.last \in Cookies

(***************************************************************************)
(* The patches of a transition that no client reaches a version beyond v   *)
(* with.                                                                   *)
(***************************************************************************)
Stamped(p, v) ==
    /\ \A n \in p.config : n \in Nat /\ n <= v
    /\ DOMAIN p.to = DOMAIN p.rows
    /\ \A r \in DOMAIN p.rows : p.to[r] \in Nat /\ p.to[r] <= v
    /\ \A q \in DOMAIN p.got : p.got[q] \in Nat /\ p.got[q] <= v

(***************************************************************************)
(* A CVR none of whose queries was got at a version beyond v.              *)
(***************************************************************************)
Cvrs ==
    [version : Nat, desired : [Clients -> SUBSET Queries],
     got : [Queries -> Nat], refs : [Rows -> SUBSET Queries]]

GotBy(cvr, v) == \A q \in Queries : cvr.got[q] <= v

(***************************************************************************)
(* A pipeline holds rows of its query's tables that are there.             *)
(***************************************************************************)
PipeOK(q, pipe) ==
    \A r \in DOMAIN pipe :
        r \in Rows /\ TableOf[r] \in {Root[q]} \cup Related[q] /\ pipe[r].val # 0

DriverOK(d) ==
    /\ DOMAIN d = {"at", "pipes"}
    /\ DOMAIN d.pipes \subseteq Queries
    /\ \A q \in DOMAIN d.pipes : PipeOK(q, d.pipes[q])

ChangesOK(changes) == \A ch \in changes : ch.query \in Queries /\ ch.row \in Rows

-----------------------------------------------------------------------------
(* Sequences of commands and of frames                                     *)

IsSeq(q) == q \in Seq({q[i] : i \in DOMAIN q})

LEMMA SequenceIsSeq ==
    ASSUME NEW S, NEW r \in Seq(S)
    PROVE  IsSeq(r)
  <1> DEFINE T == {r[i] : i \in DOMAIN r}
  <1>1. r \in [1..Len(r) -> S] /\ DOMAIN r = 1..Len(r) /\ Len(r) \in Nat
    BY LenProperties
  <1>2. r \in [1..Len(r) -> T]
    BY <1>1
  <1>3. r \in UNION {[1..n -> T] : n \in Nat}
    BY <1>1, <1>2
  <1> QED
    BY <1>3, SeqDef DEF IsSeq

LEMMA EmptyQueue == IsSeq(<<>>) /\ Len(<<>>) = 0
  BY DEF IsSeq

LEMMA AppendFacts ==
    ASSUME NEW q, IsSeq(q), NEW m
    PROVE  /\ IsSeq(Append(q, m)) /\ Len(q) \in Nat /\ Len(Append(q, m)) = Len(q) + 1
           /\ \A i \in 1..Len(q) : Append(q, m)[i] = q[i]
           /\ Append(q, m)[Len(q) + 1] = m
  <1> DEFINE S == {q[i] : i \in DOMAIN q} \cup {m}
  <1>1. q \in Seq({q[i] : i \in DOMAIN q})
    BY DEF IsSeq
  <1>2. q \in Seq(S)
    BY <1>1
  <1>3. /\ Len(q) \in Nat /\ Len(Append(q, m)) = Len(q) + 1
        /\ \A i \in 1..Len(q) : Append(q, m)[i] = q[i]
        /\ Append(q, m)[Len(q) + 1] = m
        /\ Append(q, m) \in Seq(S)
    BY <1>2
  <1> QED
    BY <1>3, SequenceIsSeq

LEMMA OneQueue ==
    ASSUME NEW m
    PROVE  IsSeq(<<m>>) /\ Len(<<m>>) = 1 /\ <<m>>[1] = m
  BY DEF IsSeq

LEMMA TailFacts ==
    ASSUME NEW q, IsSeq(q), q # <<>>
    PROVE  /\ Len(q) \in Nat /\ Len(q) >= 1 /\ Head(q) = q[1]
           /\ IsSeq(Tail(q)) /\ Len(Tail(q)) = Len(q) - 1
           /\ \A i \in 1..Len(Tail(q)) : Tail(q)[i] = q[i + 1]
  <1> DEFINE S == {q[i] : i \in DOMAIN q}
  <1>1. q \in Seq(S)
    BY DEF IsSeq
  <1>2. /\ Len(q) \in Nat /\ Len(q) >= 1 /\ Head(q) = q[1] /\ Len(Tail(q)) = Len(q) - 1
        /\ \A i \in 1..(Len(q) - 1) : Tail(q)[i] = q[i + 1]
        /\ Tail(q) \in Seq(S)
    BY <1>1
  <1> QED
    BY <1>2, SequenceIsSeq

LEMMA QueueLength ==
    ASSUME NEW q, IsSeq(q)
    PROVE  Len(q) \in Nat /\ (q = <<>> <=> Len(q) = 0)
  BY DEF IsSeq

LEMMA ConcatOne ==
    ASSUME NEW q, IsSeq(q), NEW m
    PROVE  /\ q \o <<m>> = Append(q, m)
           /\ DOMAIN q = 1..Len(q) /\ DOMAIN Append(q, m) = 1..(Len(q) + 1)
  <1> DEFINE S == {q[i] : i \in DOMAIN q} \cup {m}
  <1>1. q \in Seq({q[i] : i \in DOMAIN q})
    BY DEF IsSeq
  <1>2. q \in Seq(S) /\ <<m>> \in Seq(S) /\ m \in S
    BY <1>1
  <1> HIDE DEF S
  <1> QED
    BY <1>2

-----------------------------------------------------------------------------
(* Versions                                                                *)

LEMMA HighestVersion ==
    ASSUME NEW v \in Nat, NEW S, S # {}, \A n \in S : n \in Nat /\ n <= v
    PROVE  Highest(S) \in S /\ \A m \in S : m <= Highest(S)
  <1> DEFINE T == {v - n : n \in S}
  <1>1. T \in SUBSET Nat /\ T # {}
    OBVIOUS
  <1>2. PICK x \in T : \A y \in T : ~(<<y, x>> \in OpToRel(<, Nat))
    BY <1>1, WFMin, NatLessThanWellFounded, Zenon
  <1>3. PICK n \in S : x = v - n
    BY <1>2
  <1>4. ASSUME NEW m \in S
        PROVE  m <= n
    <2>1. m \in Nat /\ n \in Nat /\ v - m \in T /\ v - m \in Nat /\ x \in Nat
      BY <1>1
    <2>2. ~(<<v - m, x>> \in OpToRel(<, Nat))
      BY <1>2, <2>1
    <2>3. <<v - m, x>> \in Nat \X Nat
      BY <2>1
    <2>4. ~(v - m < x)
      BY <2>2, <2>3 DEF OpToRel
    <2> QED
      BY <1>3, <2>1, <2>4
  <1>5. \E k \in S : \A m \in S : m <= k
    BY <1>4
  <1> QED
    BY <1>5 DEF Highest

LEMMA StampedNone ==
    ASSUME NEW v
    PROVE  Stamped(NoPatches, v) /\ IsEmpty(NoPatches)
  BY DEF Stamped, NoPatches, IsEmpty, Empty

LEMMA StampedLater ==
    ASSUME NEW v \in Nat, NEW u \in Nat, v <= u, NEW p, Stamped(p, v)
    PROVE  Stamped(p, u)
  BY DEF Stamped

LEMMA StampedEmpty ==
    ASSUME NEW v \in Nat, NEW u \in Nat, NEW p, Stamped(p, v), IsEmpty(p)
    PROVE  Stamped(p, u)
  BY DEF Stamped, IsEmpty

LEMMA StampedExtend ==
    ASSUME NEW v \in Nat, NEW p, Stamped(p, v), NEW q, Stamped(q, v)
    PROVE  Stamped(Extend(p, q), v)
  BY DEF Stamped, Extend, Over

LEMMA StampedRows ==
    ASSUME NEW v \in Nat, NEW rows, NEW got,
           \A q \in DOMAIN got : got[q] \in Nat /\ got[q] <= v
    PROVE  Stamped(RowPatches(rows, v, got), v)
  BY DEF Stamped, RowPatches

LEMMA ExtendIsEmpty ==
    ASSUME NEW p, NEW q, IsEmpty(Extend(p, q))
    PROVE  IsEmpty(p) /\ IsEmpty(q)
  BY DEF IsEmpty, Extend, Over

(***************************************************************************)
(* A poke starts from the cookie of the delivery state and ends at most at *)
(* the version, and the delivery state goes on from where it ends.         *)
(***************************************************************************)
PokeOf(poke, dl, next, v) ==
    /\ poke # Error
    /\ poke.base = BaseCookie(dl)
    /\ poke.cookie \in Cookies
    /\ poke.cookie = BaseCookie(next)
    /\ poke.cookie <= v
    /\ poke.base <= v => poke.base <= poke.cookie

LEMMA IncludedStamps ==
    ASSUME NEW v \in Nat, NEW p, Stamped(p, v), NEW base \in Cookies,
           NEW version \in Nat, version = v
    PROVE  LET end == EndCookie(Included(p, base), version)
           IN  end \in Nat /\ end <= v /\ (base <= v => base <= end)
  <1> DEFINE i == Included(p, base)
             S == i.config \cup {i.got[q] : q \in DOMAIN i.got} \cup {i.to[r] : r \in DOMAIN i.rows}
  <1>1. CASE IsEmpty(i)
    BY <1>1 DEF EndCookie
  <1>2. CASE ~IsEmpty(i)
    <2>1. \A n \in S : n \in Nat /\ n <= v /\ n > base
      BY DEF Included, Stamped
    <2>2. S # {}
      BY <1>2 DEF IsEmpty
    <2>3. Highest(S) \in S
      <3> HIDE DEF S
      <3> QED
        BY <2>1, <2>2, HighestVersion
    <2>4. EndCookie(i, version) = Highest(S)
      BY <1>2 DEF EndCookie
    <2> QED
      <3> HIDE DEF S, i
      <3>1. Highest(S) \in Nat /\ Highest(S) <= v /\ Highest(S) > base
        BY <2>1, <2>3
      <3> QED
        BY <2>4, <3>1 DEF Cookies, NoCookie, i
  <1> QED
    BY <1>1, <1>2

LEMMA BuildsPoke ==
    ASSUME NEW v \in Nat, NEW p, Stamped(p, v), NEW dl, DeliveryOK(dl), NEW lmids
    PROVE  LET b == BuildPoke(dl, p, v, lmids)
           IN  /\ DeliveryOK(b.delivery)
               /\ \/ b.pokes = <<>> /\ b.delivery = dl
                  \/ \E poke : b.pokes = <<poke>> /\ PokeOf(poke, dl, b.delivery, v)
  <1> DEFINE base == BaseCookie(dl)
             i == Included(p, base)
             new == NewLmids(dl, lmids)
             end == EndCookie(i, v)
             poke == [base |-> base, cookie |-> end, rows |-> i.rows, got |-> DOMAIN i.got, lmids |-> new]
             next == [dl EXCEPT !.poked = TRUE, !.last = end, !.lmids = lmids]
             b == BuildPoke(dl, p, v, lmids)
  <1>1. base \in Cookies
    BY DEF DeliveryOK, BaseCookie
  <1>2. end \in Nat /\ end <= v /\ (base <= v => base <= end)
    <2> HIDE DEF base
    <2> QED
      BY <1>1, IncludedStamps
  <1>3. CASE IsEmpty(i) /\ DOMAIN new = {}
    BY <1>3 DEF BuildPoke
  <1>4. CASE ~(IsEmpty(i) /\ DOMAIN new = {})
    <2>1. b = [pokes |-> <<poke>>, delivery |-> next]
      BY <1>4 DEF BuildPoke
    <2>2. DeliveryOK(next) /\ BaseCookie(next) = end
      <3> HIDE DEF end
      <3> QED
        BY <1>2 DEF DeliveryOK, BaseCookie, Cookies
    <2>3. poke # Error
      <3>1. "base" \in DOMAIN poke /\ "base" \notin DOMAIN Error
        BY DEF Error
      <3> QED
        BY <3>1
    <2>4. PokeOf(poke, dl, next, v)
      <3>1. poke.base = base /\ poke.cookie = end
        OBVIOUS
      <3> HIDE DEF poke, next, end
      <3> QED
        BY <1>2, <2>2, <2>3, <3>1 DEF PokeOf, Cookies
    <2> QED
      <3> HIDE DEF poke, next
      <3> QED
        BY <2>1, <2>2, <2>4
  <1> QED
    BY <1>3, <1>4

-----------------------------------------------------------------------------
(* Pipelines                                                               *)

LEMMA FetchedPipe ==
    ASSUME NEW q \in Queries, NEW rows
    PROVE  PipeOK(q, Fetch(q, rows))
  BY GroupTransitionAssumption DEF PipeOK, Fetch, Result, RootRows, RelatedRows

LEMMA DiffedChanges ==
    ASSUME NEW q \in Queries, NEW previous, NEW next,
           DOMAIN previous \subseteq Rows, DOMAIN next \subseteq Rows
    PROVE  ChangesOK(DiffRows(q, previous, next))
  BY DEF ChangesOK, DiffRows

LEMMA NextPipe ==
    ASSUME NEW d, DriverOK(d), NEW q \in DOMAIN d.pipes, NEW head
    PROVE  /\ PipeOK(q, PipeNext(q, d, head).rows)
           /\ ChangesOK(PipeNext(q, d, head).changes)
  <1>1. q \in Queries /\ PipeOK(q, d.pipes[q]) /\ DOMAIN d.pipes[q] \subseteq Rows
    BY DEF DriverOK, PipeOK
  <1>2. CASE ~Touched(q, d, head)
    BY <1>1, <1>2 DEF PipeNext, ChangesOK
  <1>3. CASE Touched(q, d, head) /\ Direct(q)
    <2> DEFINE pipe == d.pipes[q]
               affected == {r \in Changed(d, head) : TableOf[r] = Root[q]}
               left == {r \in affected : d.at.rows[r].val # 0}
               entered == {r \in affected : head.rows[r].val \in Wanted[q]}
               new == [r \in entered |-> head.rows[r]]
               rows == Over(new, Without(pipe, left))
               before == [r \in left \cap DOMAIN pipe |-> pipe[r]]
               after == [r \in affected \cap DOMAIN rows |-> rows[r]]
    <2>1. PipeNext(q, d, head) = [rows |-> rows, changes |-> DiffRows(q, before, after)]
      BY <1>3 DEF PipeNext, DirectNext
    <2>2. PipeOK(q, new)
      BY <1>1, GroupTransitionAssumption DEF PipeOK, Changed
    <2>3. PipeOK(q, rows)
      <3> HIDE DEF new, left
      <3> QED
        BY <1>1, <2>2 DEF PipeOK, Over, Without
    <2>4. DOMAIN before \subseteq Rows /\ DOMAIN after \subseteq Rows
      BY DEF Changed
    <2>5. ChangesOK(DiffRows(q, before, after))
      <3> HIDE DEF before, after
      <3> QED
        BY <1>1, <2>4, DiffedChanges
    <2> QED
      <3> HIDE DEF rows, before, after
      <3> QED
        BY <2>1, <2>3, <2>5
  <1>4. CASE Touched(q, d, head) /\ ~Direct(q)
    <2>1. PipeNext(q, d, head) = RehydratedNext(q, d.pipes[q], head)
      BY <1>4 DEF PipeNext
    <2>2. PipeOK(q, Fetch(q, head.rows))
      BY <1>1, FetchedPipe
    <2>3. DOMAIN Fetch(q, head.rows) \subseteq Rows
      BY <2>2 DEF PipeOK
    <2>4. ChangesOK(DiffRows(q, d.pipes[q], Fetch(q, head.rows)))
      BY <1>1, <2>3, DiffedChanges
    <2> QED
      BY <2>1, <2>2, <2>4 DEF RehydratedNext
  <1> QED
    BY <1>2, <1>3, <1>4

LEMMA AdvancedDriver ==
    ASSUME NEW d, DriverOK(d), NEW head, NEW done, done \subseteq DOMAIN d.pipes
    PROVE  LET a == Advance(d, head, done)
           IN  /\ DriverOK(a.driver)
               /\ DOMAIN a.driver.pipes = DOMAIN d.pipes
               /\ ChangesOK(a.changes)
  <1> DEFINE a == Advance(d, head, done)
             rows == [q \in done |-> PipeNext(q, d, head).rows]
             pipes == Over(rows, d.pipes)
  <1>1. \A q \in done : /\ PipeOK(q, PipeNext(q, d, head).rows)
                        /\ ChangesOK(PipeNext(q, d, head).changes)
    BY NextPipe
  <1>2. /\ a.driver = [at |-> head, pipes |-> pipes]
        /\ a.changes = UNION {PipeNext(q, d, head).changes : q \in done}
    BY DEF Advance
  <1>3. DOMAIN pipes = DOMAIN d.pipes
    BY DEF Over
  <1>4. ASSUME NEW q \in DOMAIN d.pipes
        PROVE  PipeOK(q, pipes[q])
    <2>1. pipes[q] = IF q \in done THEN PipeNext(q, d, head).rows ELSE d.pipes[q]
      BY DEF Over
    <2> QED
      BY <1>1, <2>1 DEF DriverOK
  <1>5. DriverOK(a.driver)
    <2> HIDE DEF a, pipes
    <2> QED
      BY <1>2, <1>3, <1>4 DEF DriverOK
  <1>6. ChangesOK(a.changes)
    BY <1>1, <1>2 DEF ChangesOK
  <1>7. DOMAIN a.driver.pipes = DOMAIN d.pipes
    <2> HIDE DEF a, pipes
    <2> QED
      BY <1>2, <1>3
  <1> QED
    BY <1>5, <1>6, <1>7

LEMMA FewerPipes ==
    ASSUME NEW d, DriverOK(d), NEW S
    PROVE  DriverOK([d EXCEPT !.pipes = Without(@, S)])
  BY DEF DriverOK, PipeOK, Without

LEMMA FreshDriver ==
    ASSUME NEW head
    PROVE  DriverOK(NewDriver(head))
  BY DEF DriverOK, NewDriver, Empty

LEMMA RegisteredPipe ==
    ASSUME NEW d, DriverOK(d), NEW q \in Queries, NEW rows, PipeOK(q, rows)
    PROVE  DriverOK(RegisterQuery(d, q, rows)) /\ DriverOK([d EXCEPT !.pipes = Over(One(q, rows), @)])
  BY DEF DriverOK, RegisterQuery, Over, One

LEMMA PreparedDriver ==
    ASSUME NEW d, DriverOK(d), NEW q \in Queries, NEW executed
    PROVE  DriverOK(PreparePut(d, q, executed))
  <1>1. PipeOK(q, Empty)
    BY DEF PipeOK, Empty
  <1>2. DriverOK(RegisterQuery(d, q, Empty))
    BY <1>1, RegisteredPipe
  <1>3. DriverOK(RemoveQuery(d, q))
    BY FewerPipes DEF RemoveQuery
  <1>4. PICK e : e = RemoveQuery(d, q) /\ DriverOK(e)
    BY <1>3
  <1>5. DriverOK(AddQuery(e, q))
    <2>1. PICK rows : rows = Fetch(q, e.at.rows) /\ PipeOK(q, rows)
      BY FetchedPipe
    <2>2. DriverOK([e EXCEPT !.pipes = Over(One(q, rows), @)])
      BY <1>4, <2>1, RegisteredPipe
    <2> QED
      BY <2>1, <2>2 DEF AddQuery
  <1> QED
    BY <1>2, <1>3, <1>4, <1>5 DEF PreparePut

-----------------------------------------------------------------------------
(* The CVR                                                                 *)

LEMMA EmptyCvrTyped == EmptyCvr \in Cvrs /\ EmptyCvr.version = 0 /\ GotBy(EmptyCvr, 0)
  BY DEF EmptyCvr, Cvrs, GotBy

LEMMA DesiredApplied ==
    ASSUME NEW cvr \in Cvrs, NEW c \in Clients, NEW patch
    PROVE  LET new == ApplyDesired(cvr, c, patch)
               config == ConfigVersion(cvr, c, patch)
           IN  /\ new \in Cvrs /\ new.got = cvr.got
               /\ config \in Nat /\ cvr.version <= config /\ config <= new.version
  <1> DEFINE D == (cvr.desired[c] \cup Needed(cvr, c, patch)) \ patch.dels
             config == ConfigVersion(cvr, c, patch)
             n == IF ChangesConfig(cvr, c, patch) /\ patch.puts # {} THEN cvr.version + 2 ELSE config
             new == ApplyDesired(cvr, c, patch)
  <1>1. cvr.version \in Nat /\ cvr.desired[c] \subseteq Queries /\ Needed(cvr, c, patch) \subseteq Queries
    BY DEF Cvrs, Needed
  <1>2. D \subseteq Queries
    BY <1>1
  <1>3. config \in Nat /\ cvr.version <= config /\ n \in Nat /\ config <= n
    BY <1>1 DEF ConfigVersion
  <1>4. new = [cvr EXCEPT !.desired = [cvr.desired EXCEPT ![c] = D], !.version = n]
    BY DEF ApplyDesired, Cvrs
  <1>5. new \in Cvrs /\ new.got = cvr.got /\ new.version = n
    <2> HIDE DEF D, n, new
    <2> QED
      BY <1>2, <1>3, <1>4 DEF Cvrs
  <1> QED
    BY <1>3, <1>5

LEMMA RefsTyped ==
    ASSUME NEW cvr \in Cvrs, NEW changes, ChangesOK(changes)
    PROVE  RefsAfter(cvr, changes) \in [Rows -> SUBSET Queries]
  BY DEF Cvrs, RefsAfter, ChangesOK

LEMMA HydratedRefsTyped ==
    ASSUME NEW cvr \in Cvrs, NEW q \in Queries, NEW fetched
    PROVE  HydratedRefs(cvr, q, fetched) \in [Rows -> SUBSET Queries]
  BY DEF Cvrs, HydratedRefs

LEMMA NewVersion ==
    ASSUME NEW config \in Nat, NEW version \in Nat, config <= version
    PROVE  LET v == EnsureNewVersion(config, version)
           IN  v \in Nat /\ version <= v /\ 1 <= v
  BY DEF EnsureNewVersion

LEMMA GotPatched ==
    ASSUME NEW v \in Nat, NEW q \in Queries, NEW got \in [Queries -> Nat], got[q] <= v, NEW newly
    PROVE  LET g == GotPatch(got, q, v, newly)
           IN  /\ \A x \in DOMAIN g : g[x] \in Nat /\ g[x] <= v
               /\ got[q] # 0 => DOMAIN g # {}
  BY DEF GotPatch, One, Empty

LEMMA GotLater ==
    ASSUME NEW cvr \in Cvrs, NEW v \in Nat, NEW u \in Nat, v <= u, GotBy(cvr, v)
    PROVE  GotBy(cvr, u)
  BY DEF GotBy, Cvrs

LEMMA BodiesOfRows ==
    ASSUME NEW bodies, NEW rows, DOMAIN bodies \subseteq Rows, DOMAIN rows \subseteq Rows
    PROVE  DOMAIN Bodies(bodies, rows) \subseteq Rows
  BY DEF Bodies, Over

LEMMA HydratedRowKeys ==
    ASSUME NEW cvr, NEW q, NEW fetched, DOMAIN fetched \subseteq Rows
    PROVE  DOMAIN HydratedRows(cvr, q, fetched) \subseteq Rows
  BY DEF HydratedRows, Over

LEMMA ChangePatchKeys ==
    ASSUME NEW cvr, NEW changes, ChangesOK(changes), NEW v \in Nat
    PROVE  /\ DOMAIN ChangePatches(cvr, changes, v).rows \subseteq Rows
           /\ Stamped(ChangePatches(cvr, changes, v), v)
  <1> DEFINE deleted == {r \in Dropped(changes) : RefsAfter(cvr, changes)[r] = {}}
             puts == [r \in Put(changes) |-> BodyPut(changes, r)]
             dels == [r \in deleted |-> NoRow]
             all == Over(puts, dels)
  <1>a. ChangePatches(cvr, changes, v) = RowPatches(all, v, Empty)
    BY DEF ChangePatches
  <1>b. DOMAIN all \subseteq Put(changes) \cup Dropped(changes)
    BY DEF Over
  <1>1. PICK rows : /\ ChangePatches(cvr, changes, v) = RowPatches(rows, v, Empty)
                    /\ DOMAIN rows \subseteq Put(changes) \cup Dropped(changes)
    <2> HIDE DEF all
    <2> QED
      BY <1>a, <1>b
  <1>2. Put(changes) \cup Dropped(changes) \subseteq Rows
    BY DEF Put, Dropped, ChangesOK
  <1>3. Stamped(RowPatches(rows, v, Empty), v)
    <2>1. \A q \in DOMAIN Empty : Empty[q] \in Nat /\ Empty[q] <= v
      BY DEF Empty
    <2> QED
      BY <2>1, StampedRows
  <1> QED
    BY <1>1, <1>2, <1>3 DEF RowPatches
=============================================================================
