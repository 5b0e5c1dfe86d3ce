----------------------------- MODULE Mutations -----------------------------
(***************************************************************************)
(* Pushes of the clients of one group.  Without a mutate server the        *)
(* connection's handler applies each CRUD mutation to upstream Postgres in *)
(* a SERIALIZABLE transaction that counts the client's lastMutationID up   *)
(* and checks it; with one it forwards the push, with retries.  A client   *)
(* that reconnects sends again what it does not know to be confirmed,      *)
(* while the handler of its old connection may still be at it.             *)
(***************************************************************************)
EXTENDS Integers, Sequences, FiniteSetsExt

CONSTANTS
    Clients,       \* the clients of the group
    Conns,         \* the connections they make
    Kinds,         \* what a mutation can be: "broken" has an operation that upstream refuses
    MaxMutations,  \* mutations the clients make
    MaxFaults,     \* failed connects, broken connections, lost calls, refusals by the limiter
    MaxAttempts    \* MAX_ATTEMPTS of a call of the mutate server

ASSUME MutationsAssumption ==
    /\ Kinds \subseteq {"crud", "broken", "malformed", "custom"}
    /\ Clients \cap {"none", "gone"} = {}
    /\ MaxAttempts \in Nat

VARIABLES
    api,     \* whether a mutate server is configured
    made,    \* the mutations of each client, by their kind
    log,     \* the transactions that counted a lastMutationID, in commit order
    stored,  \* the results that the mutate server keeps for clients
    sock,    \* the connections
    left,    \* what the mutate server has yet to do of calls whose answer nobody waits for
    told,    \* history: the answers that clients received
    faults

mutVars == <<api, made, log, stored, sock, left, told, faults>>

Unused == [st |-> "unused", client |-> "none", next |-> 1, pg |-> "none", push |-> <<>>, at |-> 0,
           responses |-> {}, pending |-> {}, attempt |-> 0, call |-> <<>>]

MutInit ==
    /\ api \in BOOLEAN
    /\ made = [c \in Clients |-> <<>>]
    /\ log = <<>>
    /\ stored = {}
    /\ sock = [s \in Conns |-> Unused]
    /\ left = {}
    /\ told = {}
    /\ faults = 0

Fault == faults < MaxFaults /\ faults' = faults + 1

(***************************************************************************)
(* lastMutationID of the clients table: the transactions that counted it.  *)
(***************************************************************************)
LastMutationID(l, c) == Cardinality({i \in DOMAIN l : l[i].client = c})

Response(m, result) == [client |-> m.client, id |-> m.id, result |-> result]

-----------------------------------------------------------------------------
(***************************************************************************)
(* The client (external): it makes mutations, connects knowing some        *)
(* lastMutationID that was confirmed, and pushes in order from there, its  *)
(* own mutations and, when it recovers them, another client's.             *)
(***************************************************************************)
Make(c, kind) ==
    /\ MapThenSumSet(LAMBDA x : Len(made[x]), Clients) < MaxMutations
    /\ made' = [made EXCEPT ![c] = Append(@, kind)]
    /\ UNCHANGED <<api, left, log, stored, sock, told, faults>>

Connect(s, c) ==
    /\ sock[s] = Unused
    /\ \E known \in 0..LastMutationID(log, c) :
          sock' = [x \in Conns |->
                     IF x = s THEN [Unused EXCEPT !.st = "idle", !.client = c, !.next = known + 1]
                     ELSE IF sock[x].client = c /\ sock[x].st # "unused" THEN [sock[x] EXCEPT !.client = "gone"]
                     ELSE sock[x]]
    /\ UNCHANGED <<api, made, left, log, stored, told, faults>>

Mutation(c, id) == [client |-> c, id |-> id, kind |-> made[c][id]]

MutationsOf(c, first, last) == [i \in 1..(last - first + 1) |-> Mutation(c, first + i - 1)]

FirstToPush(s, c) == IF c = sock[s].client THEN sock[s].next ELSE LastMutationID(log, c) + 1

NextToPush(s, c, last) == IF c = sock[s].client THEN last + 1 ELSE sock[s].next

Push(s, c) ==
    /\ sock[s].st = "idle" /\ sock[s].client \in Clients
    /\ \E last \in FirstToPush(s, c)..Len(made[c]) :
          sock' = [sock EXCEPT ![s].st = "push", ![s].responses = {}, ![s].attempt = 0,
                               ![s].next = NextToPush(s, c, last),
                               ![s].push = MutationsOf(c, FirstToPush(s, c), last)]
    /\ UNCHANGED <<api, made, left, log, stored, told, faults>>

-----------------------------------------------------------------------------
(***************************************************************************)
(* The end of a push: results of other clients are dropped; an out-of-     *)
(* order mutation fails the push and closes the connection; else the       *)
(* results are sent and kept until they are acknowledged.  What is sent to *)
(* a client that has left is lost.                                         *)
(***************************************************************************)
Mine(s) == {r \in sock[s].responses : r.client = sock[s].client}

IsFatal(mine) == \E r \in mine : r.result = "ooo"

Closed(s) == [sock EXCEPT ![s] = [Unused EXCEPT !.st = "closed", !.client = sock[s].client]]

mutation_responses_outcome(s) ==
    IF IsFatal(Mine(s)) THEN sock' = Closed(s) /\ UNCHANGED told
    ELSE /\ told' = told \cup Mine(s)
         /\ sock' = [sock EXCEPT ![s].st = "idle", ![s].push = <<>>, ![s].responses = {},
                                 ![s].pending = @ \cup Mine(s)]

push_transport_failed(s) == sock' = Closed(s) /\ UNCHANGED told

(***************************************************************************)
(* The answer to the first mutation of what is left of a push.             *)
(***************************************************************************)
Answer(s, results) ==
    LET rest == Tail(sock[s].push)
        new == {Response(Head(sock[s].push), x) : x \in results}
    IN  sock' = [sock EXCEPT ![s].st = "push", ![s].push = rest, ![s].responses = @ \cup new]

-----------------------------------------------------------------------------
(***************************************************************************)
(* apply_push_upstream: the connection to upstream is made once and never  *)
(* replaced.  Mutations that cannot be parsed or are custom, and those the *)
(* limiter refuses, are answered and not counted.                          *)
(***************************************************************************)
Upstream(s) == ~api /\ sock[s].st = "push"

ConnectUpstream(s, ok) ==
    /\ Upstream(s) /\ sock[s].pg = "none"
    /\ IF ok THEN /\ sock' = [sock EXCEPT ![s].pg = "open"]
                  /\ UNCHANGED <<told, faults>>
       ELSE Fault /\ push_transport_failed(s)
    /\ UNCHANGED <<api, made, left, log, stored>>

Refuse(s) ==
    /\ Upstream(s) /\ sock[s].pg # "none" /\ sock[s].push # <<>>
    /\ IF Head(sock[s].push).kind \in {"custom", "malformed"} THEN UNCHANGED faults ELSE Fault
    /\ Answer(s, {"app"})
    /\ UNCHANGED <<api, made, left, log, stored, told>>

(* The transaction begins with its snapshot, of the transactions so far. *)
Begin(s) ==
    /\ Upstream(s) /\ sock[s].pg = "open" /\ sock[s].push # <<>>
    /\ Head(sock[s].push).kind \in {"crud", "broken"}
    /\ sock' = [sock EXCEPT ![s].st = "txn", ![s].at = Len(log)]
    /\ UNCHANGED <<api, made, left, log, stored, told, faults>>

check_mutation_id(received, last) ==
    IF received < last THEN "alreadyProcessed" ELSE IF received > last THEN "unexpected" ELSE "ok"

(***************************************************************************)
(* External: SERIALIZABLE fails a transaction if another has counted the   *)
(* same client since the snapshot, and may when one wrote what it reads.   *)
(***************************************************************************)
Counted(s) == {i \in (sock[s].at + 1)..Len(log) : log[i].client = Head(sock[s].push).client}

(* Mutant: a transaction commits what it made of a count that is no longer so. *)
MustFail_never(s) == FALSE

MustFail(s) == Counted(s) # {}

MayFail(s) == sock[s].at < Len(log)

(***************************************************************************)
(* apply_crud_mutation up to its end: lastMutationID is counted and        *)
(* checked, the operations run when the mutation is authorized, and only a *)
(* mutation whose id was the expected one commits, authorized or not.      *)
(***************************************************************************)
Expected(s) == LastMutationID(SubSeq(log, 1, sock[s].at), Head(sock[s].push).client) + 1

apply_crud_mutation(s, authorized) ==
    LET m == Head(sock[s].push)
        check == check_mutation_id(m.id, Expected(s))
    IN  IF MustFail(s) \/ (check = "ok" /\ authorized /\ m.kind = "broken")
        THEN UNCHANGED log /\ Answer(s, {"app"})
        ELSE CASE check = "unexpected" -> UNCHANGED log /\ Answer(s, {"ooo"})
               [] check = "alreadyProcessed" -> UNCHANGED log /\ Answer(s, {})
               [] check = "ok" -> /\ log' = Append(log, [client |-> m.client, id |-> m.id, ran |-> authorized])
                                  /\ Answer(s, {"ok"})

Finish(s) ==
    /\ sock[s].st = "txn"
    /\ \E authorized \in BOOLEAN : apply_crud_mutation(s, authorized)
    /\ UNCHANGED <<api, made, left, stored, told, faults>>

(* Mutant: the failure of the transaction is not looked at. *)
Conflict_ok(s) ==
    /\ sock[s].st = "txn" /\ MayFail(s)
    /\ Answer(s, {"ok"})
    /\ UNCHANGED <<api, made, left, log, stored, told, faults>>

Conflict(s) ==
    /\ sock[s].st = "txn" /\ MayFail(s)
    /\ Answer(s, {"app"})
    /\ UNCHANGED <<api, made, left, log, stored, told, faults>>

(***************************************************************************)
(* The connection breaks, before the commit or with it: every later        *)
(* mutation of this handler fails on the broken connection.                *)
(***************************************************************************)
Break(s, committed) ==
    /\ sock[s].st = "txn" /\ Fault
    /\ LET m == Head(sock[s].push)
       IN  IF committed
           THEN /\ ~MustFail(s) /\ m.kind = "crud"
                /\ check_mutation_id(m.id, Expected(s)) = "ok"
                /\ log' = Append(log, [client |-> m.client, id |-> m.id, ran |-> TRUE])
           ELSE UNCHANGED log
    /\ sock' = [sock EXCEPT ![s].st = "push", ![s].pg = "broken"]
    /\ UNCHANGED <<api, made, left, stored, told>>

OnBroken(s) ==
    /\ Upstream(s) /\ sock[s].pg = "broken" /\ sock[s].push # <<>>
    /\ Answer(s, {"app"})
    /\ UNCHANGED <<api, made, left, log, stored, told, faults>>

Respond(s) ==
    /\ Upstream(s) /\ sock[s].pg # "none" /\ sock[s].push = <<>>
    /\ mutation_responses_outcome(s)
    /\ UNCHANGED <<api, made, left, log, stored, faults>>

-----------------------------------------------------------------------------
(***************************************************************************)
(* The mutate server (external) counts, checks and applies one mutation    *)
(* after the other, like the handler does, and may fail a mutation after   *)
(* counting it.  Pushes of several calls interleave, those of calls that   *)
(* have been given up included.                                            *)
(***************************************************************************)
ServerCheck(m) == check_mutation_id(m.id, LastMutationID(log, m.client) + 1)

ServerResult(m) ==
    CASE ServerCheck(m) = "ok" -> IF m.kind = "broken" THEN "app" ELSE "ok"
      [] ServerCheck(m) = "alreadyProcessed" -> "alreadyProcessed"
      [] ServerCheck(m) = "unexpected" -> "ooo"

ServerApplies(m) ==
    IF ServerCheck(m) = "ok"
    THEN /\ log' = Append(log, [client |-> m.client, id |-> m.id, ran |-> m.kind # "broken"])
         /\ stored' = stored \cup {[client |-> m.client, id |-> m.id]}
    ELSE UNCHANGED <<log, stored>>

Serve(s) ==
    /\ sock[s].st = "call" /\ sock[s].call # <<>>
    /\ ServerApplies(Head(sock[s].call))
    /\ LET rest == Tail(sock[s].call)
           new == Response(Head(sock[s].call), ServerResult(Head(sock[s].call)))
       IN  sock' = [sock EXCEPT ![s].call = rest, ![s].responses = @ \cup {new}]
    /\ UNCHANGED <<api, made, left, told, faults>>

ServeLeft ==
    /\ \E c \in left : /\ ServerApplies(Head(c))
                      /\ left' = (left \ {c}) \cup ({Tail(c)} \ {<<>>})
    /\ UNCHANGED <<api, made, sock, told, faults>>

(***************************************************************************)
(* forward_push: a call whose answer is lost, or is a 502 or 504, is made  *)
(* again, MaxAttempts times in all, whether or not the server goes on with *)
(* it; any other failure, and the last, fails the push.                    *)
(***************************************************************************)
Forward(s) ==
    /\ api /\ sock[s].st = "push"
    /\ sock' = [sock EXCEPT ![s].st = "call", ![s].call = sock[s].push, ![s].responses = {}]
    /\ UNCHANGED <<api, made, log, stored, left, told, faults>>

Answered(s) ==
    /\ sock[s].st = "call" /\ sock[s].call = <<>>
    /\ mutation_responses_outcome(s)
    /\ UNCHANGED <<api, made, log, stored, left, faults>>

CallFails(s, goesOn, retryable) ==
    /\ sock[s].st = "call" /\ Fault
    /\ left' = IF goesOn THEN left \cup ({sock[s].call} \ {<<>>}) ELSE left
    /\ IF retryable /\ sock[s].attempt + 1 < MaxAttempts
       THEN /\ sock' = [sock EXCEPT ![s].st = "push", ![s].attempt = @ + 1, ![s].call = <<>>, ![s].responses = {}]
            /\ UNCHANGED told
       ELSE push_transport_failed(s)
    /\ UNCHANGED <<api, made, log, stored>>

(***************************************************************************)
(* ackMutationResponses: the result is forgotten and, with a mutate        *)
(* server, a cleanup push drops the results up to it; whether that call    *)
(* succeeds is ignored.                                                    *)
(***************************************************************************)
Ack(s, arrives) ==
    /\ sock[s].st = "idle" /\ sock[s].client \in Clients
    /\ \E r \in {x \in told : x.client = sock[s].client} :
          /\ sock' = [sock EXCEPT ![s].pending = {p \in @ : p.id # r.id}]
          /\ stored' = IF api /\ arrives THEN {x \in stored : x.client # r.client \/ x.id > r.id} ELSE stored
    /\ IF arrives THEN UNCHANGED faults ELSE api /\ Fault
    /\ UNCHANGED <<api, made, left, log, told>>

MutNext ==
    \/ \E c \in Clients, kind \in Kinds : Make(c, kind)
    \/ \E s \in Conns, c \in Clients : Connect(s, c) \/ Push(s, c)
    \/ \E s \in Conns, ok \in BOOLEAN : ConnectUpstream(s, ok) \/ Break(s, ok) \/ Ack(s, ok)
    \/ \E s \in Conns : Refuse(s) \/ Begin(s) \/ Finish(s) \/ Conflict(s) \/ OnBroken(s) \/ Respond(s)
    \/ \E s \in Conns : Forward(s) \/ Serve(s) \/ Answered(s)
    \/ \E s \in Conns, goesOn, retryable \in BOOLEAN : CallFails(s, goesOn, retryable)
    \/ ServeLeft

MutSpec == MutInit /\ [][MutNext]_mutVars

-----------------------------------------------------------------------------
(***************************************************************************)
(* Whatever is pushed again, by whichever connection and at the same time, *)
(* a client's mutations are committed in their order and each one once.    *)
(***************************************************************************)
ExactlyOnceInOrder ==
    \A i \in DOMAIN log : log[i].id = LastMutationID(SubSeq(log, 1, i), log[i].client)

(***************************************************************************)
(* A client is told that a mutation succeeded only if it is committed, and *)
(* its push fails as out of order only after one of its mutations failed   *)
(* without being counted.                                                  *)
(***************************************************************************)
AnswersAreHonest ==
    /\ \A r \in told : r.result = "ok" => r.id <= LastMutationID(log, r.client)
    /\ \A s \in Conns : \A r \in sock[s].responses :
          r.result = "ooo" => \E e \in told \cup sock[s].responses :
                                 e.client = r.client /\ e.id < r.id /\ e.result = "app"
=============================================================================
