--------------------------- MODULE AgonesIntegration ---------------------------
(***************************************************************************)
(* MockAgonesIntegration: the in-memory game server manager the director   *)
(* asks for work (GetMMFParams), tells about backfills (UpdateMMFRequest)  *)
(* and asks for servers (Allocate).  Its state is one map from allocation  *)
(* specs to how many ready servers the spec selects and which matchmaking  *)
(* requests those servers carry.                                           *)
(*                                                                         *)
(* Its only caller, the director, waits on the `done` channel of every     *)
(* update the informer goroutine handles, so each operation is one step.   *)
(***************************************************************************)
EXTENDS Integers, FiniteSets, Functions

CONSTANTS
    Fleets,         \* the fleets of fleetConfig that host some game mode
    FleetRequests,  \* [Fleets -> the MmfRequests of the fleet's game modes]
    Backfills,      \* the MmfRequests an MMF may attach to a match
    FleetCount      \* ready servers of a fleet: math.MaxInt32 in the code

Requests == (UNION {FleetRequests[f] : f \in Fleets}) \cup Backfills

ASSUME FleetAssumption ==
    /\ Fleets # {}
    /\ DOMAIN FleetRequests = Fleets
    /\ \A f \in Fleets : FleetRequests[f] # {} /\ FleetRequests[f] \cap Backfills = {}
    /\ FleetCount \in Nat \ {0}

VARIABLES
    gameServers,    \* the map: alloc spec -> [count, mmfParams]
    allocated       \* how many connection strings Allocate has handed out

agonesVars == <<gameServers, allocated>>

-----------------------------------------------------------------------------
(* An allocation spec selects servers by a label, the hash of a list of    *)
(* requests, and annotates the server it allocates with such a list.  The  *)
(* hash is 128 bits wide: it is represented by what was hashed.            *)

AllocSpecs == [label : SUBSET Requests, annotation : SUBSET Requests]

AllocationSpecFromMMFRequests(reqs) == [label |-> reqs, annotation |-> reqs]

\* Init hashes json.Marshal of a struct whose only field is unexported, so
\* what is hashed is "{}" whatever the fleet's requests are, and the spec
\* carries no annotation.
FleetAllocSpec(f) == [label |-> {}, annotation |-> {}]

FleetSpecs == {FleetAllocSpec(f) : f \in Fleets}

\* One entry for each key, written by the last of its fleets that Go's
\* random map order visits.
AgonesInit ==
    /\ \E fleetOf \in [FleetSpecs -> Fleets] :
          /\ \A s \in FleetSpecs : FleetAllocSpec(fleetOf[s]) = s
          /\ gameServers = [s \in FleetSpecs |->
                 [count |-> FleetCount, mmfParams |-> FleetRequests[fleetOf[s]]]]
    /\ allocated = 0

-----------------------------------------------------------------------------
(* What the informer does with one update: forget a server of the old spec *)
(* `s`, then track a server carrying `reqs` (if there are any).            *)

\* Variants: the last server leaves an entry behind; any server takes the
\* entry with it.
RemoveServerKeepsEntry(gs, s) ==
    IF s \in DOMAIN gs THEN [gs EXCEPT ![s].count = @ - 1] ELSE gs

RemoveServerDropsEntry(gs, s) == Restrict(gs, DOMAIN gs \ {s})

RemoveServer(gs, s) ==
    IF s \notin DOMAIN gs THEN gs
    ELSE IF gs[s].count - 1 > 0
         THEN [gs EXCEPT ![s].count = @ - 1]
         ELSE Restrict(gs, DOMAIN gs \ {s})

ReadyServers(gs, s) == IF s \in DOMAIN gs THEN gs[s].count ELSE 0

\* Variant: the entry is created anew even if it exists.
AddServerAnew(gs, reqs) ==
    LET new == AllocationSpecFromMMFRequests(reqs)
    IN  IF reqs = {} THEN gs
        ELSE [k \in DOMAIN gs \cup {new} |->
                 IF k = new THEN [count |-> 1, mmfParams |-> reqs] ELSE gs[k]]

AddServer(gs, reqs) ==
    LET new == AllocationSpecFromMMFRequests(reqs)
    IN  IF reqs = {} THEN gs
        ELSE [k \in DOMAIN gs \cup {new} |->
                 IF k = new
                 THEN [count |-> ReadyServers(gs, new) + 1, mmfParams |-> reqs]
                 ELSE gs[k]]

ProcessGameServerUpdate(gs, s, reqs) == AddServer(RemoveServer(gs, s), reqs)

\* updateGameServerMetadata dereferences the map entry of `s` unchecked: a
\* caller whose spec is gone panics instead of taking this step.
UpdateMMFRequest(s, request) ==
    /\ s \in DOMAIN gameServers
    /\ gameServers' = ProcessGameServerUpdate(gameServers, s, {request})
    /\ UNCHANGED allocated

\* A server of the spec is there: it leaves the map for good and its
\* connection string is returned.
Allocate(s) ==
    /\ s \in DOMAIN gameServers
    /\ gameServers' = ProcessGameServerUpdate(gameServers, s, {})
    /\ allocated' = allocated + 1

\* No server matches the spec: Allocate returns "".
AllocateFails(s) ==
    /\ s \notin DOMAIN gameServers
    /\ UNCHANGED agonesVars

\* One invocation per tracked request, each with the allocator spec of the
\* servers that carry it.  The code also sorts them by server count, which
\* decides only in what order the director starts its goroutines.
GetMMFParams ==
    UNION {[params : gameServers[s].mmfParams, spec : {s}] : s \in DOMAIN gameServers}

Invocations == [params : Requests, spec : AllocSpecs]

-----------------------------------------------------------------------------
(* The manager by itself, whoever calls it.                                *)

AgonesNext ==
    \E s \in DOMAIN gameServers :
        \/ Allocate(s)
        \/ \E b \in Backfills : UpdateMMFRequest(s, b)

AgonesSpec == AgonesInit /\ [][AgonesNext]_agonesVars

\* An entry always stands for at least one server that asks for something.
GameServersOK(gs) ==
    /\ DOMAIN gs \subseteq AllocSpecs
    /\ gs \in [DOMAIN gs -> [count : Nat \ {0}, mmfParams : (SUBSET Requests) \ {{}}]]

AgonesTypeOK ==
    /\ GameServersOK(gameServers)
    /\ allocated \in Nat

\* The ready servers of each spec, numbered.
Servers(gs) == UNION {{s} \X (1..gs[s].count) : s \in DOMAIN gs}

\* Every server the fleets started with is still in the map or was handed
\* out: moving a server to a backfill spec neither invents nor loses one.
ServersConserved ==
    Cardinality(Servers(gameServers)) + allocated = FleetCount * Cardinality(FleetSpecs)
=============================================================================
