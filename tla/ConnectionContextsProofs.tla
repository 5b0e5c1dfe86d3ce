---------------------- MODULE ConnectionContextsProofs ----------------------
(* Proofs about ConnectionContexts, for every value of its constants.      *)
EXTENDS ConnectionContexts, WellFoundedInduction, TLAPS

USE ContextsAssumption

Contexts ==
    [state : {"absent", "provisional", "validated"}, ws : Sockets \cup {None},
     user : Users \cup {None}, revision : Nat, revalidateAt : SUBSET Nat,
     order : 0..MaxRegistrations,
     checked : [ws : Sockets \cup {None}, revision : Nat]]

Groups ==
    [pinned : Users \cup {None},
     background : SUBSET [client : CtxClients, ws : Sockets \cup {None}],
     retransformAt : SUBSET Nat, notBefore : SUBSET Nat]

CtxTypeOK ==
    /\ interval \in [MaintenanceKind -> SUBSET Nat]
    /\ connections \in [CtxClients -> Contexts]
    /\ group \in Groups
    /\ ready \in BOOLEAN
    /\ order \in 0..MaxRegistrations
    /\ asked \subseteq [client : CtxClients, ws : Sockets \cup {None}, revision : Nat]
    /\ clock \in 0..MaxClock

\* A validated connection has a user and, unless that is disabled, a time to be
\* validated again.
InUse ==
    \A c \in CtxClients :
        /\ connections[c].state # "absent" => connections[c].user \in Users
        /\ connections[c].state = "validated" =>
              (connections[c].revalidateAt # {} <=> interval["revalidate"] # {})

\* Some connection is the background connection as long as one is validated,
\* and the time of the next transform, unless that is disabled, is set exactly
\* while there is one in a group that is ready.
BackgroundKept(conns, g, isReady, every) ==
    LET background == get_background_connection_context(conns, g)
    IN  /\ background \subseteq Validated(conns)
        /\ Validated(conns) # {} <=> background # {}
        /\ g.retransformAt # {} <=> (isReady /\ background # {} /\ every["retransform"] # {})

\* Maintenance is deferred to one time at most.
DeferredOnce == group.notBefore = {} \/ \E t \in Nat : group.notBefore = {t}

ContextsInv ==
    /\ CtxTypeOK
    /\ InUse
    /\ ValidatedAsItIs
    /\ BackgroundKept(connections, group, ready, interval)
    /\ DeferredOnce

-----------------------------------------------------------------------------
(* Least and greatest elements                                             *)

LEMMA LeastElement ==
    ASSUME NEW T \in SUBSET Nat, T # {}
    PROVE  \E x \in T : \A y \in T : x <= y
  <1>1. PICK x \in T : \A y \in T : ~(<<y, x>> \in OpToRel(<, Nat))
    BY WFMin, NatLessThanWellFounded, Zenon
  <1>2. ASSUME NEW y \in T
        PROVE  x <= y
    <2>1. ~(<<y, x>> \in OpToRel(<, Nat))
      BY <1>1
    <2>2. x \in Nat /\ y \in Nat
      OBVIOUS
    <2>3. <<y, x>> \in Nat \X Nat
      BY <2>2
    <2>4. ~(y < x)
      BY <2>1, <2>3 DEF OpToRel
    <2> QED
      BY <2>2, <2>4
  <1> QED
    BY <1>2

LEMMA MinIsLeast ==
    ASSUME NEW T \in SUBSET Nat, T # {}
    PROVE  Min(T) \in T /\ \A y \in T : Min(T) <= y
  BY LeastElement DEF Min

LEMMA MaxOfTwo ==
    ASSUME NEW a \in Nat, NEW b \in Nat
    PROVE  /\ Max({a, b}) \in {a, b}
           /\ Max({a, b}) >= a /\ Max({a, b}) >= b
  <1>1. \E x \in {a, b} : \A y \in {a, b} : x >= y
    OBVIOUS
  <1> QED
    BY <1>1 DEF Max

\* Some validated connection was registered last.
LEMMA LatestExists ==
    ASSUME NEW conns \in [CtxClients -> Contexts], Validated(conns) # {}
    PROVE  \E c \in Validated(conns) :
              \A d \in Validated(conns) : conns[d].order <= conns[c].order
  <1> DEFINE T == {MaxRegistrations - conns[c].order : c \in Validated(conns)}
  <1>1. \A c \in Validated(conns) : conns[c].order \in 0..MaxRegistrations
    BY DEF Validated, Contexts
  <1>2. T \in SUBSET Nat /\ T # {}
    BY <1>1 DEF ContextsAssumption
  <1>3. PICK x \in T : \A y \in T : x <= y
    BY <1>2, LeastElement
  <1>4. PICK c \in Validated(conns) : x = MaxRegistrations - conns[c].order
    OBVIOUS
  <1>5. ASSUME NEW d \in Validated(conns)
        PROVE  conns[d].order <= conns[c].order
    <2>1. MaxRegistrations - conns[c].order <= MaxRegistrations - conns[d].order
      BY <1>3, <1>4
    <2> QED
      BY <1>1, <2>1 DEF ContextsAssumption
  <1> QED
    BY <1>5

-----------------------------------------------------------------------------
(* What settling a group does                                              *)

Kept(g, h) == h.pinned = g.pinned /\ h.notBefore = g.notBefore

LEMMA RefreshTypes ==
    ASSUME NEW conns \in [CtxClients -> Contexts], NEW g \in Groups,
           NEW preferred \in SUBSET CtxClients
    PROVE  LET h == refresh_background(conns, g, preferred)
           IN  h \in Groups /\ Kept(g, h) /\ h.retransformAt = g.retransformAt
  <1> DEFINE latest == {c \in Validated(conns) :
                          \A d \in Validated(conns) : conns[d].order <= conns[c].order}
             next == IF preferred # {} THEN preferred ELSE latest
             h == refresh_background(conns, g, preferred)
             moved == [g EXCEPT !.background = {Selector(c, conns[c].ws) : c \in next}]
  <1>1. h = g \/ h = moved
    BY DEF refresh_background
  <1>2. next \subseteq CtxClients
    BY DEF Validated
  <1>3. \A c \in next : Selector(c, conns[c].ws) \in [client : CtxClients, ws : Sockets \cup {None}]
    BY <1>2 DEF Selector, Contexts
  <1>4. {Selector(c, conns[c].ws) : c \in next}
           \in SUBSET [client : CtxClients, ws : Sockets \cup {None}]
    BY <1>3
  <1> HIDE DEF next, latest
  <1>5. /\ moved \in Groups /\ Kept(g, moved)
        /\ moved.retransformAt = g.retransformAt
    BY <1>4 DEF Groups, Kept
  <1> QED
    BY <1>1, <1>5 DEF Kept

\* The connection whose selector is the background one is the background
\* connection.
LEMMA BackgroundOf ==
    ASSUME NEW conns \in [CtxClients -> Contexts], NEW g \in Groups,
           NEW S \in SUBSET CtxClients, \A c \in S : conns[c].state # "absent",
           g.background = {Selector(c, conns[c].ws) : c \in S}
    PROVE  get_background_connection_context(conns, g) = S
  <1> DEFINE B == get_background_connection_context(conns, g)
  <1>1. ASSUME NEW c \in S PROVE c \in B
    <2>1. Selector(c, conns[c].ws) \in {x \in g.background : Registered(conns, x)}
      BY DEF Registered, Selector
    <2>2. Selector(c, conns[c].ws).client = c
      BY DEF Selector
    <2> QED
      BY <2>1, <2>2 DEF get_background_connection_context
  <1>2. ASSUME NEW c \in B PROVE c \in S
    <2>1. PICK sel \in g.background : c = sel.client
      BY DEF get_background_connection_context
    <2>2. PICK d \in S : sel = Selector(d, conns[d].ws)
      BY <2>1
    <2> QED
      BY <2>1, <2>2 DEF Selector
  <1> QED
    BY <1>1, <1>2

\* The background connection is validated once the group is refreshed, if any
\* connection is.
LEMMA RefreshKeeps ==
    ASSUME NEW conns \in [CtxClients -> Contexts], NEW g \in Groups
    PROVE  LET h == refresh_background(conns, g, {})
               background == get_background_connection_context(conns, h)
           IN  /\ background \subseteq Validated(conns)
               /\ Validated(conns) # {} <=> background # {}
  <1> DEFINE latest == {c \in Validated(conns) :
                          \A d \in Validated(conns) : conns[d].order <= conns[c].order}
             current == get_background_connection_context(conns, g)
             h == refresh_background(conns, g, {})
             moved == [g EXCEPT !.background = {Selector(c, conns[c].ws) : c \in latest}]
  <1>1. CASE current # {} /\ current \subseteq Validated(conns)
    <2>1. h = g
      BY <1>1 DEF refresh_background
    <2> QED
      BY <1>1, <2>1
  <1>2. CASE ~(current # {} /\ current \subseteq Validated(conns))
    <2>1. h = moved
      BY <1>2 DEF refresh_background
    <2>2. h \in Groups
      BY RefreshTypes
    <2>3. /\ latest \in SUBSET CtxClients /\ latest \subseteq Validated(conns)
          /\ \A c \in latest : conns[c].state # "absent"
      BY DEF Validated
    <2>4. h.background = {Selector(c, conns[c].ws) : c \in latest}
      BY <2>1 DEF Groups
    <2>5. get_background_connection_context(conns, h) = latest
      <3> HIDE DEF h, latest
      <3> QED
        BY <2>2, <2>3, <2>4, BackgroundOf
    <2>6. Validated(conns) # {} => latest # {}
      BY LatestExists
    <2> QED
      BY <2>3, <2>5, <2>6
  <1> QED
    BY <1>1, <1>2

\* A connection that has just been validated fills a vacancy and takes no
\* other connection's place.
LEMMA PreferredFills ==
    ASSUME NEW conns \in [CtxClients -> Contexts], NEW g \in Groups,
           NEW c \in Validated(conns),
           get_background_connection_context(conns, g) \subseteq Validated(conns)
    PROVE  LET h == refresh_background(conns, g, {c})
               background == get_background_connection_context(conns, h)
           IN  background \subseteq Validated(conns) /\ background # {}
  <1> DEFINE current == get_background_connection_context(conns, g)
             h == refresh_background(conns, g, {c})
             moved == [g EXCEPT !.background = {Selector(x, conns[x].ws) : x \in {c}}]
  <1>1. CASE current # {}
    <2>1. h = g
      BY <1>1 DEF refresh_background
    <2> QED
      BY <1>1, <2>1
  <1>2. CASE current = {}
    <2>1. h = moved
      BY <1>2 DEF refresh_background
    <2>2. {c} \in SUBSET CtxClients /\ conns[c].state # "absent"
      BY DEF Validated
    <2>3. h \in Groups
      BY <2>2, RefreshTypes
    <2>4. h.background = {Selector(x, conns[x].ws) : x \in {c}}
      BY <2>1 DEF Groups
    <2>5. get_background_connection_context(conns, h) = {c}
      <3> HIDE DEF h
      <3> DEFINE S == {c}
      <3>1. /\ S \in SUBSET CtxClients /\ \A x \in S : conns[x].state # "absent"
            /\ h.background = {Selector(x, conns[x].ws) : x \in S}
        BY <2>2, <2>4
      <3> HIDE DEF S
      <3>2. get_background_connection_context(conns, h) = S
        BY <2>3, <3>1, BackgroundOf
      <3> QED
        BY <3>2 DEF S
    <2> QED
      BY <2>5
  <1> QED
    BY <1>1, <1>2

\* update_retransform_deadline leaves all else of the group as it is.
LEMMA DeadlineTypes ==
    ASSUME interval \in [MaintenanceKind -> SUBSET Nat],
           NEW conns, NEW g \in Groups, NEW isReady \in BOOLEAN,
           NEW reset \in BOOLEAN, NEW now \in SUBSET Nat
    PROVE  LET h == update_retransform_deadline(conns, g, isReady, reset, now)
           IN  /\ h \in Groups /\ Kept(g, h)
               /\ get_background_connection_context(conns, h)
                    = get_background_connection_context(conns, g)
  <1> DEFINE h == update_retransform_deadline(conns, g, isReady, reset, now)
             later == UNION {{t + i : i \in interval["retransform"]} : t \in now}
             none == [g EXCEPT !.retransformAt = {}]
             again == [g EXCEPT !.retransformAt = later]
  <1>1. h \in {g, none, again}
    BY DEF update_retransform_deadline
  <1>2. later \in SUBSET Nat
    BY DEF MaintenanceKind
  <1> HIDE DEF later
  <1>3. \A x \in {g, none, again} :
           x \in Groups /\ Kept(g, x) /\ x.background = g.background
    BY <1>2 DEF Groups, Kept
  <1>4. h \in Groups /\ Kept(g, h) /\ h.background = g.background
    BY <1>1, <1>3
  <1> QED
    BY <1>4 DEF get_background_connection_context

\* The deadline is set exactly while it is needed, provided that the time is
\* known whenever it has to start.
LEMMA DeadlineKept ==
    ASSUME interval \in [MaintenanceKind -> SUBSET Nat],
           NEW conns, NEW g \in Groups, NEW isReady \in BOOLEAN,
           NEW reset \in BOOLEAN, NEW now \in SUBSET Nat,
           (/\ isReady = TRUE /\ interval["retransform"] # {}
            /\ get_background_connection_context(conns, g) # {}
            /\ g.retransformAt = {}) => now # {}
    PROVE  LET h == update_retransform_deadline(conns, g, isReady, reset, now)
           IN  h.retransformAt # {} <=>
                 (/\ isReady = TRUE /\ interval["retransform"] # {}
                  /\ get_background_connection_context(conns, g) # {})
  <1> DEFINE h == update_retransform_deadline(conns, g, isReady, reset, now)
             off == \/ get_background_connection_context(conns, g) = {}
                    \/ interval["retransform"] = {} \/ isReady = FALSE
             later == UNION {{t + i : i \in interval["retransform"]} : t \in now}
             none == [g EXCEPT !.retransformAt = {}]
             again == [g EXCEPT !.retransformAt = later]
  <1>1. none.retransformAt = {}
    BY DEF Groups
  <1>2. again.retransformAt = later
    <2> HIDE DEF later
    <2> QED
      BY DEF Groups
  <1>3. CASE off
    <2>1. h = none
      BY <1>3 DEF update_retransform_deadline
    <2> QED
      BY <1>1, <1>3, <2>1
  <1>4. CASE ~off /\ (reset \/ g.retransformAt = {}) /\ now # {}
    <2>1. h = again
      BY <1>4 DEF update_retransform_deadline
    <2>2. PICK t \in now, i \in interval["retransform"] : TRUE
      BY <1>4
    <2>3. t + i \in later
      <3>1. t + i \in {t + j : j \in interval["retransform"]}
        BY Zenon
      <3>2. {t + j : j \in interval["retransform"]}
              \in {{u + j : j \in interval["retransform"]} : u \in now}
        BY Zenon
      <3>3. \A s, S, x : x \in s /\ s \in S => x \in UNION S
        OBVIOUS
      <3> QED
        BY <3>1, <3>2, <3>3, Zenon
    <2>4. h.retransformAt # {}
      <3> HIDE DEF later, again, h
      <3> QED
        BY <1>2, <2>1, <2>3
    <2>5. /\ isReady = TRUE /\ interval["retransform"] # {}
          /\ get_background_connection_context(conns, g) # {}
      BY <1>4, Zenon
    <2> QED
      BY <2>4, <2>5
  <1>5. CASE ~off /\ ~((reset \/ g.retransformAt = {}) /\ now # {})
    <2>1. h = g
      BY <1>5 DEF update_retransform_deadline
    <2> QED
      BY <1>5, <2>1
  <1> QED
    BY <1>3, <1>4, <1>5

\* Settling a group in which fewer connections are validated than before.
LEMMA SettledKeeps ==
    ASSUME NEW before \in [CtxClients -> Contexts],
           NEW conns \in [CtxClients -> Contexts], NEW g \in Groups,
           ready \in BOOLEAN, interval \in [MaintenanceKind -> SUBSET Nat],
           Validated(conns) \subseteq Validated(before),
           BackgroundKept(before, g, ready, interval)
    PROVE  LET h == Settled(conns, g, {}, {})
           IN  h \in Groups /\ Kept(g, h) /\ BackgroundKept(conns, h, ready, interval)
  <1> DEFINE f == refresh_background(conns, g, {})
             h == Settled(conns, g, {}, {})
  <1>1. /\ {} \in SUBSET CtxClients /\ {} \in SUBSET Nat /\ FALSE \in BOOLEAN
        /\ interval \in [MaintenanceKind -> SUBSET Nat]
    OBVIOUS
  <1>2. f \in Groups /\ Kept(g, f) /\ f.retransformAt = g.retransformAt
    BY <1>1, RefreshTypes
  <1>3. /\ get_background_connection_context(conns, f) \subseteq Validated(conns)
        /\ Validated(conns) # {} <=> get_background_connection_context(conns, f) # {}
    BY RefreshKeeps
  <1>4. (/\ ready /\ interval["retransform"] # {}
         /\ get_background_connection_context(conns, f) # {}) => f.retransformAt # {}
    BY <1>2, <1>3 DEF BackgroundKept
  <1>5. h = update_retransform_deadline(conns, f, ready, FALSE, {})
    BY DEF Settled
  <1> HIDE DEF f, h
  <1>6. /\ h \in Groups /\ Kept(f, h)
        /\ get_background_connection_context(conns, h)
             = get_background_connection_context(conns, f)
    BY <1>1, <1>2, <1>5, DeadlineTypes
  <1>7. h.retransformAt # {} <=>
           (/\ ready /\ interval["retransform"] # {}
            /\ get_background_connection_context(conns, f) # {})
    <2>1. (/\ ready = TRUE /\ interval["retransform"] # {}
           /\ get_background_connection_context(conns, f) # {}
           /\ f.retransformAt = {}) => {} # {}
      BY <1>4
    <2>2. update_retransform_deadline(conns, f, ready, FALSE, {}).retransformAt # {}
            <=> (/\ ready = TRUE /\ interval["retransform"] # {}
                 /\ get_background_connection_context(conns, f) # {})
      BY ZenonT(40), <1>1, <1>2, <2>1, DeadlineKept
    <2> QED
      BY <2>2, <1>5
  <1>8. BackgroundKept(conns, h, ready, interval)
    BY <1>3, <1>6, <1>7 DEF BackgroundKept
  <1>9. Kept(g, h)
    BY <1>2, <1>6 DEF Kept
  <1> QED
    BY <1>6, <1>8, <1>9 DEF h

\* Settling a group in which one more connection is validated.
LEMMA SettledFills ==
    ASSUME NEW conns \in [CtxClients -> Contexts], NEW g \in Groups,
           ready \in BOOLEAN, interval \in [MaintenanceKind -> SUBSET Nat],
           NEW c \in Validated(conns), NEW t \in Nat,
           get_background_connection_context(conns, g) \subseteq Validated(conns)
    PROVE  LET h == Settled(conns, g, {c}, {t})
           IN  h \in Groups /\ Kept(g, h) /\ BackgroundKept(conns, h, ready, interval)
  <1> DEFINE f == refresh_background(conns, g, {c})
             h == Settled(conns, g, {c}, {t})
  <1>1. /\ {c} \in SUBSET CtxClients /\ {t} \in SUBSET Nat /\ FALSE \in BOOLEAN
        /\ interval \in [MaintenanceKind -> SUBSET Nat]
    BY DEF Validated
  <1>2. f \in Groups /\ Kept(g, f)
    BY <1>1, RefreshTypes
  <1>3. /\ get_background_connection_context(conns, f) \subseteq Validated(conns)
        /\ get_background_connection_context(conns, f) # {}
    BY PreferredFills
  <1>4. h = update_retransform_deadline(conns, f, ready, FALSE, {t})
    BY DEF Settled
  <1> HIDE DEF f, h
  <1>5. /\ h \in Groups /\ Kept(f, h)
        /\ get_background_connection_context(conns, h)
             = get_background_connection_context(conns, f)
    BY <1>1, <1>2, <1>4, DeadlineTypes
  <1>6. h.retransformAt # {} <=>
           (/\ ready /\ interval["retransform"] # {}
            /\ get_background_connection_context(conns, f) # {})
    <2>1. (/\ ready = TRUE /\ interval["retransform"] # {}
           /\ get_background_connection_context(conns, f) # {}
           /\ f.retransformAt = {}) => {t} # {}
      OBVIOUS
    <2>2. update_retransform_deadline(conns, f, ready, FALSE, {t}).retransformAt # {}
            <=> (/\ ready = TRUE /\ interval["retransform"] # {}
                 /\ get_background_connection_context(conns, f) # {})
      BY <1>1, <1>2, <2>1, DeadlineKept
    <2> QED
      BY <2>2, <1>4
  <1>7. BackgroundKept(conns, h, ready, interval)
    BY <1>3, <1>5, <1>6 DEF BackgroundKept
  <1>8. Kept(g, h)
    BY <1>2, <1>5 DEF Kept
  <1> QED
    BY <1>5, <1>7, <1>8 DEF h

-----------------------------------------------------------------------------
(* The invariant                                                           *)

\* One connection of the group changes into another.
LEMMA OneChanges ==
    ASSUME CtxTypeOK, NEW c \in CtxClients, NEW new \in Contexts
    PROVE  /\ [connections EXCEPT ![c] = new] \in [CtxClients -> Contexts]
           /\ new.state # "validated" =>
                Validated([connections EXCEPT ![c] = new]) = Validated(connections) \ {c}
           /\ new.state = "validated" =>
                Validated([connections EXCEPT ![c] = new]) = Validated(connections) \cup {c}
  BY DEF CtxTypeOK, Validated

LEMMA NoConnectionType ==
    /\ NoConnection \in Contexts /\ NoConnection.state = "absent"
  BY DEF NoConnection, Contexts, ContextsAssumption

LEMMA NewContext ==
    ASSUME NEW k \in Contexts, NEW ws \in Sockets, NEW user \in Users,
           NEW o \in 0..MaxRegistrations
    PROVE  LET new == [k EXCEPT !.state = "provisional", !.ws = ws,
                                !.user = user, !.order = o]
           IN  /\ new \in Contexts /\ new.state = "provisional"
               /\ new.user \in Users
  BY DEF Contexts

LEMMA RevisedContext ==
    ASSUME NEW k \in Contexts
    PROVE  LET new == [k EXCEPT !.state = "provisional", !.revision = @ + 1,
                                !.revalidateAt = {}]
           IN  /\ new \in Contexts /\ new.state = "provisional"
               /\ new.user = k.user
  <1>1. {} \in SUBSET Nat /\ k.revision + 1 \in Nat
    BY DEF Contexts
  <1> QED
    BY <1>1 DEF Contexts

\* A connection is registered anew, changes its contexts or goes: no more
\* connections are validated than before, and the group is settled.
Unsettles(c, new) ==
    /\ connections' = [connections EXCEPT ![c] = new]
    /\ group' \in Groups /\ Kept(group, group')
    /\ BackgroundKept(connections', group', ready, interval)
    /\ UNCHANGED <<interval, ready, clock>>

LEMMA UnsettledInv ==
    ASSUME ContextsInv, NEW c \in CtxClients, NEW new \in Contexts,
           new.state # "validated",
           new.state # "absent" => new.user \in Users,
           Unsettles(c, new)
    PROVE  /\ connections' \in [CtxClients -> Contexts] /\ group' \in Groups
           /\ InUse' /\ ValidatedAsItIs'
           /\ BackgroundKept(connections, group, ready, interval)' /\ DeferredOnce'
  <1>1. /\ connections \in [CtxClients -> Contexts]
        /\ connections' = [connections EXCEPT ![c] = new] /\ interval' = interval
        /\ group'.pinned = group.pinned /\ group'.notBefore = group.notBefore
    BY DEF ContextsInv, CtxTypeOK, Unsettles, Kept
  <1>2. connections' \in [CtxClients -> Contexts]
    BY <1>1
  <1>3. InUse'
    BY <1>1 DEF ContextsInv, InUse
  <1>4. ValidatedAsItIs'
    BY <1>1 DEF ContextsInv, ValidatedAsItIs, Validated
  <1>5. BackgroundKept(connections, group, ready, interval)'
    <2>1. ready' = ready /\ interval' = interval
      BY DEF Unsettles
    <2>2. BackgroundKept(connections', group', ready, interval)
      BY DEF Unsettles
    <2> QED
      BY <2>1, <2>2, Zenon
  <1>6. DeferredOnce'
    BY <1>1 DEF ContextsInv, DeferredOnce
  <1> QED
    BY <1>2, <1>3, <1>4, <1>5, <1>6 DEF Unsettles

LEMMA RegisterInv ==
    ASSUME ContextsInv, NEW c \in CtxClients, NEW ws \in Sockets,
           NEW user \in Users, register_connection(c, ws, user)
    PROVE  ContextsInv'
  <1> DEFINE new == [NoConnection EXCEPT !.state = "provisional", !.ws = ws,
                                         !.user = user, !.order = order + 1]
             without == [connections EXCEPT ![c] = NoConnection]
             removed == IF Registered(connections, Selector(c, ws))
                        THEN Settled(without, group, {}, {}) ELSE group
  <1>1. /\ order' = order + 1 /\ order \in Nat /\ order < MaxRegistrations
        /\ connections' = [connections EXCEPT ![c] = new]
        /\ group' = Settled(connections', removed, {}, {})
        /\ UNCHANGED <<interval, ready, asked, clock>>
    BY DEF register_connection, ContextsInv, CtxTypeOK
  <1>2. order + 1 \in 0..MaxRegistrations
    BY <1>1 DEF ContextsAssumption
  <1>3. new \in Contexts /\ new.state = "provisional" /\ new.user \in Users
    BY <1>2, NoConnectionType, NewContext
  <1> HIDE DEF new
  <1>4. /\ connections \in [CtxClients -> Contexts] /\ group \in Groups
        /\ BackgroundKept(connections, group, ready, interval)
        /\ ready \in BOOLEAN /\ interval \in [MaintenanceKind -> SUBSET Nat]
    BY DEF ContextsInv, CtxTypeOK
  <1>5. /\ without \in [CtxClients -> Contexts]
        /\ Validated(without) = Validated(connections) \ {c}
        /\ connections' \in [CtxClients -> Contexts]
        /\ Validated(connections') = Validated(connections) \ {c}
    <2>1. CtxTypeOK
      BY DEF ContextsInv
    <2>2. /\ without \in [CtxClients -> Contexts]
          /\ Validated(without) = Validated(connections) \ {c}
      BY <2>1, NoConnectionType, OneChanges
    <2>3. /\ connections' \in [CtxClients -> Contexts]
          /\ Validated(connections') = Validated(connections) \ {c}
      BY <1>1, <1>3, <2>1, OneChanges
    <2> QED
      BY <2>2, <2>3
  <1> HIDE DEF without
  <1>6. \/ /\ removed = group /\ removed \in Groups
           /\ Kept(group, removed)
           /\ BackgroundKept(connections, removed, ready, interval)
        \/ /\ removed \in Groups /\ Kept(group, removed)
           /\ BackgroundKept(without, removed, ready, interval)
    <2>1. CASE Registered(connections, Selector(c, ws))
      <3>1. removed = Settled(without, group, {}, {})
        BY <2>1
      <3>2. Validated(without) \subseteq Validated(connections)
        BY <1>5
      <3> QED
        BY <1>4, <1>5, <3>1, <3>2, SettledKeeps
    <2>2. CASE ~Registered(connections, Selector(c, ws))
      <3>1. removed = group
        BY <2>2
      <3> QED
        BY <1>4, <3>1 DEF Kept
    <2> QED
      BY <2>1, <2>2
  <1> HIDE DEF removed
  <1>7. PICK was \in {connections, without} :
           /\ removed \in Groups /\ Kept(group, removed)
           /\ BackgroundKept(was, removed, ready, interval)
    BY <1>6
  <1>8. was \in [CtxClients -> Contexts] /\ Validated(connections') \subseteq Validated(was)
    BY <1>4, <1>5
  <1>9. /\ group' \in Groups /\ Kept(removed, group')
        /\ BackgroundKept(connections', group', ready, interval)
    BY <1>1, <1>4, <1>5, <1>7, <1>8, SettledKeeps
  <1>10. Unsettles(c, new)
    BY <1>1, <1>7, <1>9 DEF Unsettles, Kept
  <1>11. /\ connections' \in [CtxClients -> Contexts] /\ group' \in Groups
         /\ InUse' /\ ValidatedAsItIs'
         /\ BackgroundKept(connections, group, ready, interval)' /\ DeferredOnce'
    BY <1>3, <1>10, UnsettledInv
  <1>12. ready' \in BOOLEAN
    BY <1>1, <1>4, Zenon
  <1>13. CtxTypeOK'
    BY <1>1, <1>11, <1>12 DEF ContextsInv, CtxTypeOK, ContextsAssumption
  <1> QED
    BY <1>11, <1>13 DEF ContextsInv

\* A connection changes or goes and the group is settled once.
LEMMA SettledInv ==
    ASSUME ContextsInv, NEW c \in CtxClients, NEW new \in Contexts,
           new.state # "validated",
           new.state # "absent" => new.user \in Users,
           connections' = [connections EXCEPT ![c] = new],
           group' = Settled(connections', group, {}, {}),
           asked' \subseteq asked,
           UNCHANGED <<interval, ready, order, clock>>
    PROVE  ContextsInv'
  <1>1. /\ connections \in [CtxClients -> Contexts] /\ group \in Groups
        /\ BackgroundKept(connections, group, ready, interval)
        /\ ready \in BOOLEAN /\ CtxTypeOK
        /\ interval \in [MaintenanceKind -> SUBSET Nat]
    BY DEF ContextsInv, CtxTypeOK
  <1>2. /\ connections' \in [CtxClients -> Contexts]
        /\ Validated(connections') \subseteq Validated(connections)
    BY <1>1, OneChanges
  <1>3. /\ group' \in Groups /\ Kept(group, group')
        /\ BackgroundKept(connections', group', ready, interval)
    BY <1>1, <1>2, SettledKeeps
  <1>4. Unsettles(c, new)
    BY <1>3 DEF Unsettles
  <1>5. /\ InUse' /\ ValidatedAsItIs'
        /\ BackgroundKept(connections, group, ready, interval)' /\ DeferredOnce'
    BY <1>4, UnsettledInv
  <1>6. ready' \in BOOLEAN
    BY <1>1, Zenon
  <1>7. CtxTypeOK'
    BY <1>1, <1>2, <1>3, <1>6 DEF CtxTypeOK
  <1> QED
    BY <1>5, <1>7 DEF ContextsInv

LEMMA UpdateInv ==
    ASSUME ContextsInv, NEW c \in CtxClients, NEW ws \in Sockets,
           update_fetch_contexts(c, ws)
    PROVE  ContextsInv'
  <1> DEFINE new == [connections[c] EXCEPT !.state = "provisional", !.revision = @ + 1,
                                           !.revalidateAt = {}]
  <1>1. connections \in [CtxClients -> Contexts] /\ connections[c] \in Contexts
    BY DEF ContextsInv, CtxTypeOK
  <1>2. connections' = [connections EXCEPT ![c] = new]
    BY <1>1 DEF update_fetch_contexts
  <1>3. new \in Contexts /\ new.state = "provisional" /\ new.user = connections[c].user
    BY <1>1, RevisedContext
  <1>4. connections[c].state # "absent"
    BY DEF update_fetch_contexts, Registered, Selector
  <1>5. new.user \in Users
    BY <1>3, <1>4 DEF ContextsInv, InUse
  <1> HIDE DEF new
  <1>6. /\ group' = Settled(connections', group, {}, {}) /\ asked' \subseteq asked
        /\ UNCHANGED <<interval, ready, order, clock>>
    BY DEF update_fetch_contexts
  <1> QED
    BY <1>2, <1>3, <1>5, <1>6, SettledInv

LEMMA RemovedInv ==
    ASSUME ContextsInv, NEW c \in CtxClients, Removed(c),
           asked' \subseteq asked, UNCHANGED <<interval, ready, order, clock>>
    PROVE  ContextsInv'
  BY NoConnectionType, SettledInv DEF Removed

\* An answer that is about the connection as it is validates it; the others
\* that are validated are of the same user.
LEMMA ValidateInv ==
    ASSUME ContextsInv, NEW v \in asked, NEW answer, IsCurrent(v),
           MayValidate(v, answer), validate_connection(v, answer)
    PROVE  ContextsInv'
  <1> DEFINE c == v.client
             new == [connections[c] EXCEPT
                        !.state = "validated",
                        !.revalidateAt = next_revalidate_at,
                        !.checked = [ws |-> v.ws, revision |-> v.revision]]
             g == [group EXCEPT !.pinned = connections[c].user]
  <1>1. /\ connections \in [CtxClients -> Contexts] /\ group \in Groups
        /\ BackgroundKept(connections, group, ready, interval)
        /\ ready \in BOOLEAN /\ clock \in 0..MaxClock /\ CtxTypeOK
        /\ interval \in [MaintenanceKind -> SUBSET Nat]
        /\ c \in CtxClients /\ v.ws \in Sockets \cup {None} /\ v.revision \in Nat
    BY DEF ContextsInv, CtxTypeOK
  <1>2. /\ c \in CtxClients /\ connections[c] \in Contexts
        /\ clock \in Nat /\ next_revalidate_at \in SUBSET Nat
        /\ next_revalidate_at # {} <=> interval["revalidate"] # {}
    BY <1>1 DEF ContextsAssumption, next_revalidate_at, MaintenanceKind
  <1>3. /\ connections' = [connections EXCEPT ![c] = new]
        /\ group' = Settled(connections', g, {c}, {clock})
        /\ asked' = asked \ {v}
        /\ UNCHANGED <<interval, ready, order, clock>>
    BY <1>1 DEF validate_connection
  <1>4. /\ connections[c].state # "absent" /\ connections[c].ws = v.ws
        /\ connections[c].revision = v.revision
    BY DEF IsCurrent, Registered
  <1>5. connections[c].user \in Users /\ group.pinned \in {None, connections[c].user}
    BY <1>2, <1>4 DEF ContextsInv, InUse, MayValidate
  <1>6. /\ new \in Contexts /\ new.state = "validated"
        /\ new.user = connections[c].user /\ new.ws = connections[c].ws
        /\ new.revision = connections[c].revision
        /\ new.revalidateAt # {} <=> interval["revalidate"] # {}
        /\ new.checked.ws = v.ws /\ new.checked.revision = v.revision
    BY <1>1, <1>2 DEF Contexts
  <1>7. g \in Groups /\ g.pinned = connections[c].user /\ g.background = group.background
        /\ g.notBefore = group.notBefore
    BY <1>1, <1>5 DEF Groups
  <1> HIDE DEF new, g, c
  <1>8. /\ connections' \in [CtxClients -> Contexts]
        /\ Validated(connections') = Validated(connections) \cup {c}
        /\ c \in Validated(connections')
    <2>1. /\ [connections EXCEPT ![c] = new] \in [CtxClients -> Contexts]
          /\ Validated([connections EXCEPT ![c] = new]) = Validated(connections) \cup {c}
      BY <1>1, <1>2, <1>6, OneChanges
    <2> QED
      BY <1>3, <2>1
  <1>9. get_background_connection_context(connections', g)
          = get_background_connection_context(connections, group)
    <2>1. \A sel \in group.background :
             Registered(connections', sel) <=> Registered(connections, sel)
      BY <1>1, <1>3, <1>4, <1>6 DEF Registered, Groups
    <2> QED
      BY <1>7, <2>1 DEF get_background_connection_context
  <1>10. /\ group' \in Groups /\ Kept(g, group')
         /\ BackgroundKept(connections', group', ready, interval)
    <2>1. get_background_connection_context(connections', g) \subseteq Validated(connections')
      BY <1>1, <1>8, <1>9 DEF BackgroundKept
    <2> QED
      BY <1>1, <1>2, <1>3, <1>7, <1>8, <2>1, SettledFills
  <1>11. BackgroundKept(connections, group, ready, interval)'
    BY <1>3, <1>10, Zenon
  <1>12. InUse'
    BY <1>1, <1>2, <1>3, <1>5, <1>6 DEF ContextsInv, InUse
  <1>13. ValidatedAsItIs'
    <2>1. group'.pinned = connections[c].user
      BY <1>7, <1>10 DEF Kept
    <2> SUFFICES ASSUME NEW d \in Validated(connections')
                 PROVE  /\ connections'[d].checked.ws = connections'[d].ws
                        /\ connections'[d].checked.revision = connections'[d].revision
                        /\ connections'[d].user = group'.pinned
      BY DEF ValidatedAsItIs
    <2>2. CASE d = c
      BY <1>1, <1>2, <1>3, <1>4, <1>6, <2>1, <2>2
    <2>3. CASE d # c
      <3>1. d \in Validated(connections) /\ d \in CtxClients
        BY <1>8, <2>3 DEF Validated
      <3>2. connections'[d] = connections[d]
        BY <1>1, <1>3, <2>3, <3>1
      <3>3. /\ connections[d].checked.ws = connections[d].ws
            /\ connections[d].checked.revision = connections[d].revision
            /\ connections[d].user = group.pinned
        BY <3>1 DEF ContextsInv, ValidatedAsItIs
      <3>4. connections[d].user \in Users
        BY <3>1 DEF ContextsInv, InUse, Validated
      <3>5. group.pinned = connections[c].user
        BY <1>5, <3>3, <3>4 DEF ContextsAssumption
      <3> QED
        BY <2>1, <3>2, <3>3, <3>5
    <2> QED
      BY <2>2, <2>3
  <1>14. DeferredOnce'
    BY <1>7, <1>10 DEF ContextsInv, DeferredOnce, Kept
  <1>15. ready' \in BOOLEAN
    BY <1>1, <1>3, Zenon
  <1>16. CtxTypeOK'
    BY <1>1, <1>3, <1>8, <1>10, <1>15 DEF CtxTypeOK
  <1> QED
    BY <1>11, <1>12, <1>13, <1>14, <1>16 DEF ContextsInv

LEMMA ReadyInv ==
    ASSUME ContextsInv, NEW r \in BOOLEAN, set_shared_retransform_ready(r)
    PROVE  ContextsInv'
  <1>1. /\ connections \in [CtxClients -> Contexts] /\ group \in Groups
        /\ BackgroundKept(connections, group, ready, interval)
        /\ clock \in Nat /\ interval \in [MaintenanceKind -> SUBSET Nat]
    BY DEF ContextsInv, CtxTypeOK, ContextsAssumption
  <1>2. /\ group' = update_retransform_deadline(connections, group, r, TRUE, {clock})
        /\ UNCHANGED <<interval, connections, order, asked, clock>>
    BY DEF set_shared_retransform_ready
  <1>3. ready' = r
    BY DEF set_shared_retransform_ready
  <1>4. {clock} \in SUBSET Nat /\ TRUE \in BOOLEAN /\ {clock} # {}
    BY <1>1
  <1>5. /\ group' \in Groups /\ Kept(group, group')
        /\ get_background_connection_context(connections, group')
             = get_background_connection_context(connections, group)
    BY <1>1, <1>2, <1>4, DeadlineTypes
  <1>6. group'.retransformAt # {} <=>
           (/\ r = TRUE /\ interval["retransform"] # {}
            /\ get_background_connection_context(connections, group) # {})
    BY <1>1, <1>2, <1>4, DeadlineKept
  <1>7. BackgroundKept(connections, group, ready, interval)'
    <2>1. BackgroundKept(connections, group', r, interval)
      BY <1>1, <1>5, <1>6 DEF BackgroundKept
    <2> QED
      BY <1>2, <1>3, <2>1, Zenon
  <1>8. ready' \in BOOLEAN
    BY <1>3, Zenon
  <1>9. CtxTypeOK'
    BY <1>2, <1>5, <1>8 DEF ContextsInv, CtxTypeOK
  <1>10. InUse' /\ ValidatedAsItIs' /\ DeferredOnce'
    BY <1>2, <1>5 DEF ContextsInv, InUse, ValidatedAsItIs, Validated, DeferredOnce, Kept
  <1> QED
    BY <1>7, <1>9, <1>10 DEF ContextsInv

\* Maintenance is deferred to the latest time that was asked for.
LEMMA DeferInv ==
    ASSUME ContextsInv, NEW kind \in MaintenanceKind, defer_maintenance(kind)
    PROVE  ContextsInv'
  <1> PICK i \in interval[kind] :
         group' = [group EXCEPT !.notBefore = {Max(@ \cup {clock + i})}]
    BY DEF defer_maintenance
  <1>1. /\ connections \in [CtxClients -> Contexts] /\ group \in Groups
        /\ ready \in BOOLEAN /\ clock \in Nat /\ clock + i \in Nat
    BY DEF ContextsInv, CtxTypeOK, ContextsAssumption
  <1> DEFINE m == Max(group.notBefore \cup {clock + i})
  <1>2. m \in Nat
    <2>1. CASE group.notBefore = {}
      <3>1. group.notBefore \cup {clock + i} = {clock + i, clock + i}
        BY <2>1
      <3> QED
        BY <1>1, <3>1, MaxOfTwo
    <2>2. CASE group.notBefore # {}
      <3>1. PICK t \in Nat : group.notBefore = {t}
        BY <2>2 DEF ContextsInv, DeferredOnce
      <3>2. group.notBefore \cup {clock + i} = {t, clock + i}
        BY <3>1
      <3> QED
        BY <1>1, <3>2, MaxOfTwo
    <2> QED
      BY <2>1, <2>2
  <1>3. /\ group' = [group EXCEPT !.notBefore = {m}]
        /\ UNCHANGED <<interval, connections, ready, order, asked, clock>>
    BY <1>1 DEF defer_maintenance, Groups
  <1> HIDE DEF m
  <1>4. /\ group' \in Groups /\ group'.notBefore = {m}
        /\ group'.pinned = group.pinned /\ group'.background = group.background
        /\ group'.retransformAt = group.retransformAt
    BY <1>1, <1>2, <1>3 DEF Groups
  <1>5. BackgroundKept(connections, group, ready, interval)'
    <2>1. BackgroundKept(connections, group', ready, interval)
      <3>1. BackgroundKept(connections, group, ready, interval)
        BY DEF ContextsInv
      <3> QED
        BY <1>4, <3>1 DEF BackgroundKept, get_background_connection_context
    <2> QED
      BY <1>3, <2>1, Zenon
  <1>6. ready' \in BOOLEAN
    BY <1>1, <1>3, Zenon
  <1>7. CtxTypeOK'
    BY <1>3, <1>4, <1>6 DEF ContextsInv, CtxTypeOK
  <1>8. InUse' /\ ValidatedAsItIs' /\ DeferredOnce'
    BY <1>2, <1>3, <1>4 DEF ContextsInv, InUse, ValidatedAsItIs, Validated, DeferredOnce
  <1> QED
    BY <1>5, <1>7, <1>8 DEF ContextsInv

\* Nothing but the clock or the questions asked changes.
LEMMA QuietInv ==
    ASSUME ContextsInv, UNCHANGED <<interval, connections, group, ready, order>>,
           clock' \in 0..MaxClock,
           asked' \subseteq [client : CtxClients, ws : Sockets \cup {None}, revision : Nat]
    PROVE  ContextsInv'
  <1>1. ready' \in BOOLEAN
    BY Zenon DEF ContextsInv, CtxTypeOK
  <1>2. BackgroundKept(connections, group, ready, interval)'
    <2>1. BackgroundKept(connections, group, ready, interval)
      BY DEF ContextsInv
    <2> QED
      BY <2>1, Zenon
  <1>3. CtxTypeOK'
    BY <1>1 DEF ContextsInv, CtxTypeOK
  <1>4. InUse' /\ ValidatedAsItIs' /\ DeferredOnce'
    BY DEF ContextsInv, InUse, ValidatedAsItIs, Validated, DeferredOnce
  <1> QED
    BY <1>2, <1>3, <1>4 DEF ContextsInv

LEMMA ContextsNext == ContextsInv /\ [CtxNext]_ctxVars => ContextsInv'
  <1> SUFFICES ASSUME ContextsInv, [CtxNext]_ctxVars
               PROVE  ContextsInv'
    OBVIOUS
  <1> DEFINE Questions == [client : CtxClients, ws : Sockets \cup {None}, revision : Nat]
  <1>1. clock \in 0..MaxClock /\ asked \subseteq Questions
        /\ connections \in [CtxClients -> Contexts]
    BY DEF ContextsInv, CtxTypeOK
  <1>2. ASSUME NEW c \in CtxClients, NEW ws \in Sockets, NEW user \in Users,
               register_connection(c, ws, user)
        PROVE  ContextsInv'
    BY <1>2, RegisterInv
  <1>3. ASSUME NEW c \in CtxClients, NEW ws \in Sockets, update_fetch_contexts(c, ws)
        PROVE  ContextsInv'
    BY <1>3, UpdateInv
  <1>4. ASSUME NEW c \in CtxClients, NEW ws \in Sockets, close_connection(c, ws)
        PROVE  ContextsInv'
    BY <1>4, RemovedInv DEF close_connection
  <1>5. ASSUME NEW c \in CtxClients, AskServer(c)
        PROVE  ContextsInv'
    <2>1. [client |-> c, ws |-> connections[c].ws, revision |-> connections[c].revision]
            \in Questions
      BY <1>1 DEF Contexts
    <2>2. asked' \subseteq Questions
      BY <1>1, <1>5, <2>1 DEF AskServer
    <2> QED
      BY <1>1, <1>5, <2>2, QuietInv DEF AskServer
  <1>6. ASSUME NEW v \in asked, fail_connection(v)
        PROVE  ContextsInv'
    <2>1. CASE IsCurrent(v)
      <3>1. v.client \in CtxClients
        BY <1>1
      <3> QED
        BY <1>6, <2>1, <3>1, RemovedInv DEF fail_connection
    <2>2. CASE ~IsCurrent(v)
      BY <1>1, <1>6, <2>2, QuietInv DEF fail_connection
    <2> QED
      BY <2>1, <2>2
  <1>7. ASSUME NEW v \in asked, NEW answer, validate_connection(v, answer)
        PROVE  ContextsInv'
    <2>1. CASE IsCurrent(v) /\ MayValidate(v, answer)
      BY <1>7, <2>1, ValidateInv
    <2>2. CASE ~(IsCurrent(v) /\ MayValidate(v, answer))
      <3>1. UNCHANGED <<interval, connections, group, ready, order, clock>> /\ asked' \subseteq asked
        BY <1>7, <2>2 DEF validate_connection
      <3> QED
        BY <1>1, <3>1, QuietInv
    <2> QED
      BY <2>1, <2>2
  <1>8. ASSUME NEW r \in BOOLEAN, set_shared_retransform_ready(r)
        PROVE  ContextsInv'
    BY <1>8, ReadyInv
  <1>9. ASSUME NEW kind \in MaintenanceKind, defer_maintenance(kind)
        PROVE  ContextsInv'
    BY <1>9, DeferInv
  <1>10. CASE CtxTick
    <2>1. clock' \in 0..MaxClock
      BY <1>1, <1>10 DEF CtxTick, ContextsAssumption
    <2> QED
      BY <1>1, <1>10, <2>1, QuietInv DEF CtxTick
  <1>11. CASE UNCHANGED ctxVars
    BY <1>1, <1>11, QuietInv DEF ctxVars
  <1>12. CASE CtxNext
    BY <1>2, <1>3, <1>4, <1>5, <1>6, <1>7, <1>8, <1>9, <1>10, <1>12 DEF CtxNext
  <1> QED
    BY <1>11, <1>12

LEMMA ContextsInit == CtxInit => ContextsInv
  <1> SUFFICES ASSUME CtxInit PROVE ContextsInv
    OBVIOUS
  <1>1. /\ connections \in [CtxClients -> Contexts]
        /\ \A c \in CtxClients : connections[c].state = "absent"
    BY NoConnectionType DEF CtxInit
  <1>2. /\ group = [pinned |-> None, background |-> {}, retransformAt |-> {}, notBefore |-> {}]
        /\ order = 0 /\ asked = {} /\ clock = 0
        /\ interval \in [MaintenanceKind -> SUBSET Nat]
    BY IntervalAssumption DEF CtxInit
  <1>3. ready = FALSE
    BY DEF CtxInit
  <1>4. group \in Groups
    BY <1>2 DEF Groups
  <1>5. ready \in BOOLEAN
    BY <1>3, Zenon
  <1>6. CtxTypeOK
    BY <1>1, <1>2, <1>4, <1>5 DEF CtxTypeOK, ContextsAssumption
  <1>7. Validated(connections) = {}
    BY <1>1 DEF Validated
  <1>8. get_background_connection_context(connections, group) = {}
    BY <1>2 DEF get_background_connection_context
  <1>9. BackgroundKept(connections, group, ready, interval)
    BY <1>2, <1>7, <1>8 DEF BackgroundKept
  <1>10. InUse /\ ValidatedAsItIs /\ DeferredOnce
    BY <1>1, <1>2, <1>7 DEF InUse, ValidatedAsItIs, DeferredOnce
  <1> QED
    BY <1>6, <1>9, <1>10 DEF ContextsInv

LEMMA AlwaysContextsInv == CtxSpec => []ContextsInv
  BY ContextsInit, ContextsNext, PTL DEF CtxSpec

-----------------------------------------------------------------------------
(***************************************************************************)
(* Whatever answers of the query server come late, for connections that    *)
(* have changed or are gone, a validated connection is validated for the   *)
(* websocket and the contexts it has, and all validated connections are of *)
(* the user the group is pinned to (validate_connection).                  *)
(***************************************************************************)
THEOREM AnswersAreCurrent == CtxSpec => []ValidatedAsItIs
  <1>1. ContextsInv => ValidatedAsItIs
    BY DEF ContextsInv
  <1> QED
    BY <1>1, AlwaysContextsInv, PTL

\* A deadline that has passed is one of the work that is due.
LEMMA WorkIsDue ==
    ASSUME NEW t \in Deadlines, t <= clock,
           plan_maintenance =
             [revalidate |-> {c \in Validated(connections) : \E d \in connections[c].revalidateAt : d <= clock},
              retransform |-> \E d \in group.retransformAt : d <= clock,
              wake |-> {d \in Deadlines : \A e \in Deadlines : d <= e}]
    PROVE  plan_maintenance.retransform \/ plan_maintenance.revalidate # {}
  <1>1. CASE t \in group.retransformAt
    <2>1. \E d \in group.retransformAt : d <= clock
      BY <1>1
    <2>2. plan_maintenance.retransform = (\E d \in group.retransformAt : d <= clock)
      BY Zenon
    <2> QED
      BY <2>1, <2>2, Zenon
  <1>2. CASE t \notin group.retransformAt
    <2>1. PICK c \in Validated(connections) : t \in connections[c].revalidateAt
      BY <1>2 DEF Deadlines
    <2>2. plan_maintenance.revalidate =
            {x \in Validated(connections) : \E d \in connections[x].revalidateAt : d <= clock}
      BY Zenon
    <2>3. c \in plan_maintenance.revalidate
      BY <2>1, <2>2
    <2> QED
      BY <2>3, Zenon
  <1> QED
    BY <1>1, <1>2

\* The plan wakes up for every deadline there is.
LEMMA PlanWakes ==
    ASSUME ContextsInv, Deadlines # {}
    PROVE  \E wake \in plan_maintenance.wake :
              /\ \A d \in Deadlines : wake <= Max({d} \cup group.notBefore)
              /\ wake <= clock =>
                    plan_maintenance.retransform \/ plan_maintenance.revalidate # {}
  <1>1. /\ connections \in [CtxClients -> Contexts] /\ group \in Groups
        /\ clock \in Nat
    BY DEF ContextsInv, CtxTypeOK, ContextsAssumption
  <1>2. Deadlines \in SUBSET Nat
    <2>1. \A c \in Validated(connections) : connections[c].revalidateAt \subseteq Nat
      BY <1>1 DEF Validated, Contexts
    <2>2. group.retransformAt \subseteq Nat
      BY <1>1 DEF Groups
    <2> QED
      BY <2>1, <2>2 DEF Deadlines
  <1> DEFINE min == Min(Deadlines)
  <1>3. min \in Deadlines /\ \A d \in Deadlines : min <= d
    BY <1>2, MinIsLeast
  <1>4. min \in Nat
    BY <1>2, <1>3
  <1> HIDE DEF min
  <1>5. CASE group.notBefore = {}
    <2>1. plan_maintenance =
            [revalidate |-> {c \in Validated(connections) : \E t \in connections[c].revalidateAt : t <= clock},
             retransform |-> \E t \in group.retransformAt : t <= clock,
             wake |-> {t \in Deadlines : \A d \in Deadlines : t <= d}]
      BY <1>5 DEF plan_maintenance
    <2>2. min \in plan_maintenance.wake
      BY <1>3, <2>1
    <2>3. \A d \in Deadlines : min <= Max({d} \cup group.notBefore)
      <3>1. ASSUME NEW d \in Deadlines PROVE min <= Max({d} \cup group.notBefore)
        <4>1. {d} \cup group.notBefore = {d, d}
          BY <1>5
        <4>2. d \in Nat /\ min <= d
          BY <1>2, <1>3
        <4> QED
          BY <1>4, <4>1, <4>2, MaxOfTwo
      <3> QED
        BY <3>1
    <2>4. min <= clock => plan_maintenance.retransform \/ plan_maintenance.revalidate # {}
      BY <1>3, <2>1, WorkIsDue
    <2> QED
      BY <2>2, <2>3, <2>4
  <1>6. CASE group.notBefore # {}
    <2>1. PICK n \in Nat : group.notBefore = {n}
      BY <1>6 DEF ContextsInv, DeferredOnce
    <2>2. ASSUME NEW d \in Deadlines
          PROVE  /\ Max({d} \cup group.notBefore) \in {d, n}
                 /\ Max({d} \cup group.notBefore) >= d
                 /\ Max({d} \cup group.notBefore) >= n
                 /\ d \in Nat /\ min <= d
      <3>1. {d} \cup group.notBefore = {d, n} /\ d \in Nat /\ min <= d
        BY <1>2, <1>3, <2>1
      <3> QED
        BY <3>1, MaxOfTwo
    <2>3. CASE n > clock
      <3> DEFINE w == Max({min} \cup group.notBefore)
      <3>1. plan_maintenance.wake = {w}
        BY <2>1, <2>3 DEF plan_maintenance, min
      <3>2. w \in {min, n} /\ w >= n
        BY <1>3, <2>2
      <3>3. \A d \in Deadlines : w <= Max({d} \cup group.notBefore)
        <4> HIDE DEF w
        <4>1. ASSUME NEW d \in Deadlines PROVE w <= Max({d} \cup group.notBefore)
          BY <1>4, <2>1, <2>2, <3>2
        <4> QED
          BY <4>1
      <3>4. ~(w <= clock)
        <4> HIDE DEF w
        <4> QED
          BY <1>1, <1>4, <2>1, <2>3, <3>2
      <3> QED
        BY <3>1, <3>3, <3>4
    <2>4. CASE ~(n > clock)
      <3>1. plan_maintenance =
              [revalidate |-> {c \in Validated(connections) : \E t \in connections[c].revalidateAt : t <= clock},
               retransform |-> \E t \in group.retransformAt : t <= clock,
               wake |-> {t \in Deadlines : \A d \in Deadlines : t <= d}]
        BY <2>1, <2>4 DEF plan_maintenance
      <3>2. min \in plan_maintenance.wake
        BY <1>3, <3>1
      <3>3. \A d \in Deadlines : min <= Max({d} \cup group.notBefore)
        <4>1. ASSUME NEW d \in Deadlines PROVE min <= Max({d} \cup group.notBefore)
          BY <1>4, <2>1, <2>2
        <4> QED
          BY <4>1
      <3>4. min <= clock => plan_maintenance.retransform \/ plan_maintenance.revalidate # {}
        BY <1>3, <3>1, WorkIsDue
      <3> QED
        BY <3>2, <3>3, <3>4
    <2> QED
      BY <2>3, <2>4
  <1> QED
    BY <1>5, <1>6

(***************************************************************************)
(* Maintenance does not starve, whichever of its intervals are enabled:    *)
(* while a connection is validated there is a validated background         *)
(* connection; an enabled retransform has a deadline exactly while the     *)
(* group is ready and has a background connection, and an enabled          *)
(* revalidation has one for every validated connection; and while there is *)
(* a deadline, plan_maintenance has a time to wake up at, not later than   *)
(* any deadline unless maintenance was deferred, at which some maintenance *)
(* is due.                                                                 *)
(***************************************************************************)
THEOREM MaintenanceGoesOn == CtxSpec => []MaintenanceIsPlanned
  <1>1. ContextsInv => MaintenanceIsPlanned
    <2> SUFFICES ASSUME ContextsInv PROVE MaintenanceIsPlanned
      OBVIOUS
    <2>1. BackgroundKept(connections, group, ready, interval)
      BY DEF ContextsInv
    <2>2. LET background == get_background_connection_context(connections, group)
          IN  /\ background \subseteq Validated(connections)
              /\ Validated(connections) # {} <=> background # {}
              /\ group.retransformAt # {} <=>
                    (ready /\ background # {} /\ interval["retransform"] # {})
      BY <2>1 DEF BackgroundKept
    <2>3. \A c \in Validated(connections) :
             connections[c].revalidateAt # {} <=> interval["revalidate"] # {}
      BY DEF ContextsInv, InUse, Validated
    <2> QED
      BY <2>2, <2>3, PlanWakes, Zenon DEF MaintenanceIsPlanned
  <1> QED
    BY <1>1, AlwaysContextsInv, PTL
=============================================================================
