------------------------- MODULE ConnectionContexts -------------------------
(***************************************************************************)
(* ConnectionContextManager: the authentication state of the connections   *)
(* of one client group.  A client has one registered connection; a query   *)
(* server is asked, outside of the manager, whether a connection's context *)
(* is valid, and its answer may come when the connection has changed or is *)
(* gone.  One validated connection is the background connection, in whose  *)
(* name the group's shared queries are transformed again from time to time.*)
(***************************************************************************)
EXTENDS Integers, Sequences, FiniteSets, FiniteSetsExt

CONSTANTS
    CtxClients, Sockets,
    Users,               \* user ids; "anonymous" stands for none
    IntervalOptions,     \* what an interval may be: {n}, or {} when the maintenance is disabled
    MaxClock, MaxRegistrations, MaxRevision, MaxAsked

None == "none"

ASSUME ContextsAssumption ==
    /\ None \notin Users
    /\ MaxClock \in Nat /\ MaxRegistrations \in Nat /\ MaxRevision \in Nat

ASSUME IntervalAssumption ==
    \A o \in IntervalOptions : o \subseteq Nat /\ \A a, b \in o : a = b

VARIABLES
    interval,     \* the intervals the manager was made with, by kind of maintenance
    connections,  \* client -> its registered connection, or NoConnection
    group,        \* GroupAuthState
    ready,        \* shared_retransform_ready
    order,        \* next_insertion_order
    asked,        \* validations under way: the answers still to come
    clock

ctxVars == <<interval, connections, group, ready, order, asked, clock>>

MaintenanceKind == {"revalidate", "retransform"}

Selector(c, ws) == [client |-> c, ws |-> ws]

NoConnection == [state |-> "absent", ws |-> None, user |-> None, revision |-> 0, revalidateAt |-> {},
                 order |-> 0, checked |-> [ws |-> None, revision |-> 0]]

CtxInit ==
    /\ interval \in [MaintenanceKind -> IntervalOptions]
    /\ connections = [c \in CtxClients |-> NoConnection]
    /\ group = [pinned |-> None, background |-> {}, retransformAt |-> {}, notBefore |-> {}]
    /\ ready = FALSE
    /\ order = 0
    /\ asked = {}
    /\ clock = 0

Registered(conns, sel) == conns[sel.client].state # "absent" /\ conns[sel.client].ws = sel.ws

get_background_connection_context(conns, g) ==
    {sel.client : sel \in {x \in g.background : Registered(conns, x)}}

Validated(conns) == {c \in CtxClients : conns[c].state = "validated"}

(***************************************************************************)
(* refresh_background_connection_context: a background connection that is  *)
(* still validated stays; a preferred one only fills a vacancy; else the   *)
(* validated connection registered last.                                   *)
(***************************************************************************)
refresh_background(conns, g, preferred) ==
    LET current == get_background_connection_context(conns, g)
        latest == {c \in Validated(conns) : \A d \in Validated(conns) : conns[d].order <= conns[c].order}
        next == IF preferred # {} THEN preferred ELSE latest
    IN  IF current # {} /\ (preferred # {} \/ current \subseteq Validated(conns)) THEN g
        ELSE [g EXCEPT !.background = {Selector(c, conns[c].ws) : c \in next}]

update_retransform_deadline(conns, g, isReady, reset, now) ==
    IF get_background_connection_context(conns, g) = {} \/ interval["retransform"] = {} \/ ~isReady
    THEN [g EXCEPT !.retransformAt = {}]
    ELSE IF (reset \/ g.retransformAt = {}) /\ now # {}
    THEN [g EXCEPT !.retransformAt = UNION {{t + i : i \in interval["retransform"]} : t \in now}]
    ELSE g

(* What every change of a connection ends with. *)
Settled(conns, g, preferred, now) ==
    update_retransform_deadline(conns, refresh_background(conns, g, preferred), ready, FALSE, now)

-----------------------------------------------------------------------------
register_connection(c, ws, user) ==
    /\ order < MaxRegistrations
    /\ order' = order + 1
    /\ LET new == [NoConnection EXCEPT !.state = "provisional", !.ws = ws, !.user = user, !.order = order + 1]
           without == [connections EXCEPT ![c] = NoConnection]
           removed == IF Registered(connections, Selector(c, ws)) THEN Settled(without, group, {}, {}) ELSE group
       IN  /\ connections' = [connections EXCEPT ![c] = new]
           /\ group' = Settled(connections', removed, {}, {})
    /\ UNCHANGED <<interval, ready, asked, clock>>

(* The contexts change: what was validated no longer is. *)
update_fetch_contexts(c, ws) ==
    /\ Registered(connections, Selector(c, ws)) /\ connections[c].revision < MaxRevision
    /\ connections' = [connections EXCEPT ![c].state = "provisional", ![c].revision = @ + 1,
                                          ![c].revalidateAt = {}]
    /\ group' = Settled(connections', group, {}, {})
    /\ UNCHANGED <<interval, ready, order, asked, clock>>

(* A caller asks the query server about the connection as it is now. *)
AskServer(c) ==
    /\ connections[c].state # "absent" /\ Cardinality(asked) < MaxAsked
    /\ asked' = asked \cup {[client |-> c, ws |-> connections[c].ws, revision |-> connections[c].revision]}
    /\ UNCHANGED <<interval, connections, group, ready, order, clock>>

(* Mutant: the revision of the answer is not looked at. *)
IsCurrent_any(v) == Registered(connections, v)

IsCurrent(v) == Registered(connections, v) /\ connections[v.client].revision = v.revision

(* The answer is a user id, or "fallback": take the user id of the client. *)
MayValidate(v, answer) ==
    LET user == connections[v.client].user
    IN  answer \in {"fallback", user} /\ group.pinned \in {None, user}

next_revalidate_at == {clock + i : i \in interval["revalidate"]}

validate_connection(v, answer) ==
    /\ asked' = asked \ {v}
    /\ IF IsCurrent(v) /\ MayValidate(v, answer)
       THEN /\ connections' = [connections EXCEPT ![v.client].state = "validated",
                                                  ![v.client].revalidateAt = next_revalidate_at,
                                                  ![v.client].checked = [ws |-> v.ws, revision |-> v.revision]]
            /\ group' = Settled(connections', [group EXCEPT !.pinned = connections[v.client].user],
                              {v.client}, {clock})
       ELSE UNCHANGED <<connections, group>>
    /\ UNCHANGED <<interval, ready, order, clock>>

Removed(c) ==
    /\ connections' = [connections EXCEPT ![c] = NoConnection]
    /\ group' = Settled(connections', group, {}, {})

fail_connection(v) ==
    /\ asked' = asked \ {v}
    /\ IF IsCurrent(v) THEN Removed(v.client) ELSE UNCHANGED <<connections, group>>
    /\ UNCHANGED <<interval, ready, order, clock>>

close_connection(c, ws) ==
    /\ Registered(connections, Selector(c, ws))
    /\ Removed(c)
    /\ UNCHANGED <<interval, ready, order, asked, clock>>

(* Mutant: readiness does not start the deadline. *)
set_shared_retransform_ready_quiet(r) ==
    /\ ready # r /\ ready' = r
    /\ UNCHANGED <<interval, connections, group, order, asked, clock>>

set_shared_retransform_ready(r) ==
    /\ ready # r /\ ready' = r
    /\ group' = update_retransform_deadline(connections, group, r, TRUE, {clock})
    /\ UNCHANGED <<interval, connections, order, asked, clock>>

(* Nothing is deferred when the interval of the kind is disabled. *)
defer_maintenance(kind) ==
    /\ \E i \in interval[kind] :
          group' = [group EXCEPT !.notBefore = {Max(@ \cup {clock + i})}]
    /\ UNCHANGED <<interval, connections, ready, order, asked, clock>>

CtxTick ==
    /\ clock < MaxClock
    /\ clock' = clock + 1
    /\ UNCHANGED <<interval, connections, group, ready, order, asked>>

CtxNext ==
    \/ \E c \in CtxClients, ws \in Sockets :
          \/ \E user \in Users : register_connection(c, ws, user)
          \/ update_fetch_contexts(c, ws)
          \/ close_connection(c, ws)
    \/ \E c \in CtxClients : AskServer(c)
    \/ \E v \in asked : fail_connection(v) \/ \E answer \in Users \cup {"fallback"} : validate_connection(v, answer)
    \/ \E r \in BOOLEAN : set_shared_retransform_ready(r)
    \/ \E kind \in MaintenanceKind : defer_maintenance(kind)
    \/ CtxTick

CtxSpec == CtxInit /\ [][CtxNext]_ctxVars

-----------------------------------------------------------------------------
(***************************************************************************)
(* plan_maintenance: what is due, and when the caller has to look again.   *)
(***************************************************************************)
Deadlines ==
    (UNION {connections[c].revalidateAt : c \in Validated(connections)}) \cup group.retransformAt

plan_maintenance ==
    IF Deadlines # {} /\ \E t \in group.notBefore : t > clock
    THEN [revalidate |-> {}, retransform |-> FALSE, wake |-> {Max({Min(Deadlines)} \cup group.notBefore)}]
    ELSE [revalidate |-> {c \in Validated(connections) : \E t \in connections[c].revalidateAt : t <= clock},
          retransform |-> \E t \in group.retransformAt : t <= clock,
          wake |-> {t \in Deadlines : \A d \in Deadlines : t <= d}]

(***************************************************************************)
(* Whatever answers come late, a validated connection is validated as it   *)
(* is: for this websocket and these contexts, and all validated ones are   *)
(* of the one user that the group is pinned to.                            *)
(***************************************************************************)
ValidatedAsItIs ==
    \A c \in Validated(connections) :
        LET v == connections[c].checked
        IN  /\ v.ws = connections[c].ws /\ v.revision = connections[c].revision
            /\ connections[c].user = group.pinned

(***************************************************************************)
(* Maintenance does not starve: while some connection is validated, one is *)
(* the background connection; unless its interval is disabled, the group's *)
(* retransform deadline is set exactly while the group is ready and has a  *)
(* background connection, and every validated connection has a time to be  *)
(* validated again.  While there is a deadline, the plan has a time to     *)
(* wake up at, not later than the earliest one unless maintenance was      *)
(* deferred, and at which some maintenance is due.                         *)
(***************************************************************************)
MaintenanceIsPlanned ==
    LET background == get_background_connection_context(connections, group)
        plan == plan_maintenance
    IN  /\ background \subseteq Validated(connections)
        /\ Validated(connections) # {} <=> background # {}
        /\ group.retransformAt # {} <=> (ready /\ background # {} /\ interval["retransform"] # {})
        /\ \A c \in Validated(connections) :
              connections[c].revalidateAt # {} <=> interval["revalidate"] # {}
        /\ Deadlines # {} =>
             \E wake \in plan.wake :
                /\ \A d \in Deadlines : wake <= Max({d} \cup group.notBefore)
                /\ wake <= clock => plan.retransform \/ plan.revalidate # {}
=============================================================================
