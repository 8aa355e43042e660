------------------------------ MODULE OpenMatch1 ------------------------------
(***************************************************************************)
(* The Open Match 1 programs of the repository around one Open Match: the  *)
(* clients, match function and director of the first match demo, the       *)
(* Agones director and the evaluator that decides between their proposals. *)
(* Open Match and Agones are external; for the demo's page see DemoUI.     *)
(***************************************************************************)
EXTENDS DefaultEvaluator

CONSTANTS
    Clients,        \* fake players
    Proposals(_),   \* what the Agones director's function may propose for a pool
    Scenarios,      \* bound: runs of runScenario of a client
    Cycles          \* bound: evaluations

Tickets == Clients \X (1..Scenarios)

ASSUME OpenMatch1Assumption == Scenarios \in Nat /\ Cycles \in Nat

ASSUME ProposalsAssumption ==
    \A tickets \in SUBSET Tickets : \A ms \in Proposals(tickets) :
        \A m \in ms : m.by = "allocator" /\ m.tickets \subseteq tickets

TicketsOf(ms) == UNION {m.tickets : m \in ms}

VARIABLES
    client,         \* each client: [at, n |-> its n-th scenario]
    director,       \* first match's run: "connect", "fetch", "assign", "sleep", "error"
    matches,        \* matches it has still to assign
    allocator,      \* the Agones director: "connect", "fetch", "stream", "sleep"
    streamed,       \* matches it has still to receive
    holding,        \* match it has allocated a game server for, as a set of at most one

    pool,           \* tickets Open Match offers to match functions
    assigned,       \* tickets with an assignment
    fetching,       \* directors whose FetchMatches takes part in the evaluation
    cycle

VARIABLES           \* history
    returned,       \* tickets of matches that Open Match has returned
    forsaken        \* tickets whose director gave them up

directorVars == <<director, matches>>
allocatorVars == <<allocator, streamed, holding>>
openMatchVars == <<pool, fetching, cycle, returned>>
vars == <<evaluatorVars, client, directorVars, allocatorVars, openMatchVars,
          assigned, forsaken>>

Init ==
    /\ EvaluatorInit
    /\ client = [c \in Clients |-> [at |-> "menu", n |-> 0]]
    /\ director = "connect" /\ matches = {}
    /\ allocator = "connect" /\ streamed = {} /\ holding = {}
    /\ pool = {} /\ assigned = {} /\ fetching = {} /\ cycle = 0
    /\ returned = {} /\ forsaken = {}

-----------------------------------------------------------------------------
(* A client.  Errors panic; the scenario recovers, reports and starts anew. *)

ClientGoes(c, at) ==
    /\ client' = [client EXCEPT ![c].at = at]
    /\ UNCHANGED <<evaluatorVars, directorVars, allocatorVars, fetching, cycle, returned, assigned, forsaken>>

StartScenario(c) ==
    /\ client[c].at \in {"menu", "error", "play"} /\ client[c].n < Scenarios
    /\ client' = [client EXCEPT ![c] = [at |-> "create", n |-> @.n + 1]]
    /\ UNCHANGED <<evaluatorVars, directorVars, allocatorVars, openMatchVars, assigned, forsaken>>

CreateTicket(c) ==
    /\ client[c].at = "create"
    /\ \/ ClientGoes(c, "wait") /\ pool' = pool \cup {<<c, client[c].n>>}
       \/ ClientGoes(c, "error") /\ UNCHANGED pool

\* The assignment comes, or its stream breaks; the ticket stays.
AwaitAssignment(c) ==
    /\ client[c].at = "wait"
    /\ \/ <<c, client[c].n>> \in assigned /\ ClientGoes(c, "play")
       \/ ClientGoes(c, "error")
    /\ UNCHANGED pool

-----------------------------------------------------------------------------
(* First match's director and match function.                              *)

Fetch ==
    /\ director \in {"connect", "sleep", "error"}
    /\ director' = "fetch"
    /\ UNCHANGED <<evaluatorVars, client, matches, allocatorVars, openMatchVars, assigned, forsaken>>

\* FetchMatches fails.
FetchFails ==
    /\ director = "fetch" /\ "director" \notin fetching
    /\ director' = "error"
    /\ UNCHANGED <<evaluatorVars, client, matches, allocatorVars, openMatchVars, assigned, forsaken>>

\* mmf.Run streams the tickets of the pool in pairs, as long as there are
\* two; fewer pairs, or none, when its query or its stream fails.
Pairs(tickets) == {p \in SUBSET tickets : Cardinality(p) = 2}
Disjoint(ps) == \A p, q \in ps : p # q => p \cap q = {}
RunMmf(tickets) ==
    { {[by |-> "director", tickets |-> p, score |-> NoCriteria] : p \in ps} :
      ps \in {qs \in SUBSET Pairs(tickets) : Disjoint(qs)} }

\* The tickets of these matches get no assignment.
Forsake(ms) == forsaken' = forsaken \cup TicketsOf(ms)

\* Variant: the director ends after its first match.
AssignOne(m) ==
    /\ director = "assign" /\ m \in matches
    /\ matches' = {}
    /\ assigned' = assigned \cup m.tickets
    /\ UNCHANGED <<evaluatorVars, client, director, allocatorVars, openMatchVars, forsaken>>

Assign(m) ==
    /\ director = "assign" /\ m \in matches
    /\ matches' = matches \ {m}
    /\ assigned' = assigned \cup m.tickets
    /\ UNCHANGED <<evaluatorVars, client, director, allocatorVars, openMatchVars, forsaken>>

\* An AssignTickets that fails panics: no other match is assigned either.
AssignFails ==
    /\ director = "assign" /\ matches # {}
    /\ director' = "error" /\ matches' = {}
    /\ Forsake(matches)
    /\ UNCHANGED <<evaluatorVars, client, allocatorVars, openMatchVars, assigned>>

AllAssigned ==
    /\ director = "assign" /\ matches = {}
    /\ director' = "sleep"
    /\ UNCHANGED <<evaluatorVars, client, matches, allocatorVars, openMatchVars, assigned, forsaken>>

-----------------------------------------------------------------------------
(* The Agones director: run, for each match of the response stream.        *)

AllocatorFetch ==
    /\ allocator \in {"connect", "sleep"}
    /\ allocator' = "fetch"
    /\ UNCHANGED <<evaluatorVars, client, directorVars, streamed, holding,
                   openMatchVars, assigned, forsaken>>

\* FetchMatches, its stream or an allocation fails, or the stream ends: run
\* returns.
AllocatorReturns ==
    /\ \/ allocator = "fetch" /\ "allocator" \notin fetching
       \/ allocator = "stream" /\ holding = {}
    /\ allocator' = "sleep" /\ streamed' = {}
    /\ Forsake(streamed)
    /\ UNCHANGED <<evaluatorVars, client, directorVars, holding,
                   openMatchVars, assigned>>

Allocate(m) ==
    /\ allocator = "stream" /\ holding = {} /\ m \in streamed
    /\ streamed' = streamed \ {m}
    /\ \/ holding' = {m} /\ UNCHANGED forsaken
       \/ Forsake({m}) /\ UNCHANGED holding         \* no game server allocated
    /\ UNCHANGED <<evaluatorVars, client, directorVars, allocator,
                   openMatchVars, assigned>>

AssignAllocated ==
    /\ holding # {}
    /\ assigned' = assigned \cup TicketsOf(holding)
    /\ holding' = {}
    /\ UNCHANGED <<evaluatorVars, client, directorVars, allocator, streamed,
                   openMatchVars, forsaken>>

\* The assignment fails and the game server is deleted.
DeleteGameServer ==
    /\ holding # {}
    /\ Forsake(holding)
    /\ holding' = {}
    /\ UNCHANGED <<evaluatorVars, client, directorVars, allocator, streamed,
                   openMatchVars, assigned>>

\* The assignment fails and the game server cannot be deleted: run returns.
DeleteFails ==
    /\ holding # {}
    /\ Forsake(holding \cup streamed)
    /\ holding' = {} /\ streamed' = {}
    /\ allocator' = "sleep"
    /\ UNCHANGED <<evaluatorVars, client, directorVars, openMatchVars, assigned>>

-----------------------------------------------------------------------------
(* Open Match: it runs the functions of the directors that fetch, has the  *)
(* evaluator decide and streams each director its matches.  Tickets it has *)
(* returned are not offered again; the directors are expected to assign    *)
(* them before Open Match would do so.                                     *)

StartEvaluation ==
    LET first == IF director = "fetch" THEN {"director"} ELSE {}
        agones == IF allocator = "fetch" THEN {"allocator"} ELSE {}
    IN  /\ cycle < Cycles /\ evaluator = "idle" /\ fetching = {}
        /\ fetching' \in (SUBSET (first \cup agones)) \ {{}}
        /\ \E ps \in RunMmf(pool), qs \in Proposals(pool) :
              Evaluate((IF "director" \in fetching' THEN ps ELSE {})
                       \cup (IF "allocator" \in fetching' THEN qs ELSE {}))
        /\ cycle' = cycle + 1
        /\ UNCHANGED <<client, directorVars, allocatorVars, pool, returned, assigned, forsaken>>

RunEvaluator ==
    /\ EvaluatorStep
    /\ UNCHANGED <<client, directorVars, allocatorVars, openMatchVars, assigned, forsaken>>

\* The matches of a director go to it; its stream may break among them, and
\* then it panics with what it has collected.
ReturnMatches ==
    LET own(d) == {m \in results : m.by = d}
    IN  /\ evaluator = "results" /\ EvaluateReturns
        /\ fetching' = {}
        /\ pool' = pool \ ticketsUsed
        /\ returned' = returned \cup TicketsOf(results)
        /\ \/ /\ IF "director" \in fetching
                 THEN director' = "assign" /\ matches' = own("director")
                 ELSE UNCHANGED directorVars
              /\ UNCHANGED forsaken
           \/ /\ "director" \in fetching
              /\ director' = "error" /\ Forsake(own("director"))
              /\ UNCHANGED matches
        /\ IF "allocator" \in fetching
           THEN allocator' = "stream" /\ streamed' = own("allocator")
           ELSE UNCHANGED <<allocator, streamed>>
        /\ UNCHANGED <<client, holding, cycle, assigned>>

\* A stream of Evaluate breaks: no match is returned.
EvaluationFails ==
    /\ evaluator # "idle" /\ EvaluateReturns
    /\ fetching' = {}
    /\ director' = IF "director" \in fetching THEN "error" ELSE director
    /\ allocator' = IF "allocator" \in fetching THEN "sleep" ELSE allocator
    /\ UNCHANGED <<client, matches, streamed, holding, pool, cycle, returned,
                   assigned, forsaken>>

-----------------------------------------------------------------------------
ClientStep(c) == StartScenario(c) \/ CreateTicket(c) \/ AwaitAssignment(c)

DirectorStep ==
    \/ Fetch \/ FetchFails \/ AssignFails \/ AllAssigned
    \/ \E m \in matches : Assign(m)

AllocatorStep ==
    \/ AllocatorFetch \/ AllocatorReturns
    \/ \E m \in streamed : Allocate(m)
    \/ AssignAllocated \/ DeleteGameServer \/ DeleteFails

OpenMatchStep == StartEvaluation \/ RunEvaluator \/ ReturnMatches \/ EvaluationFails

Next ==
    \/ \E c \in Clients : ClientStep(c)
    \/ DirectorStep \/ AllocatorStep \/ OpenMatchStep

Spec == Init /\ [][Next]_vars

-----------------------------------------------------------------------------
TypeOK ==
    /\ client \in [Clients -> [at : {"menu", "create", "wait", "play", "error"}, n : 0..Scenarios]]
    /\ director \in {"connect", "fetch", "assign", "sleep", "error"}
    /\ allocator \in {"connect", "fetch", "stream", "sleep"}
    /\ holding = {} \/ \E m \in holding : holding = {m}
    /\ (pool \cup assigned \cup forsaken) \subseteq Tickets

\* A ticket of a returned match is assigned, in its director's hands or
\* among those the director gave up after an error.
ReturnedTicketsAccountedFor ==
    returned = TicketsOf(matches \cup streamed \cup holding) \cup assigned \cup forsaken

\* Both directors implement the life of a ticket: Open Match offers a ticket
\* until it returns it, a director assigns what was returned to it or gives
\* it up after an error, and nothing is offered twice.
Life == INSTANCE TicketLife WITH
            future <- Tickets \ (pool \cup returned), offered <- pool,
            held <- TicketsOf(matches \cup streamed \cup holding),
            returning <- {}, lost <- forsaken

TicketSpec == Life!Spec
=============================================================================
