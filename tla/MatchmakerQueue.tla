---------------------------- MODULE MatchmakerQueue ----------------------------
(***************************************************************************)
(* MatchmakerQueue.Run: a loop that takes client requests and starts a     *)
(* goroutine for each, which creates a ticket in om-core, hands its id to  *)
(* the activation, remembers it in Tickets and answers the client; and a   *)
(* handler that takes the players' assignments and forgets their tickets.  *)
(* The director that sends the assignments and om-core are external.       *)
(***************************************************************************)
EXTENDS TicketActivation

CONSTANTS
    Requests,       \* client requests, each held by its HTTP handler
    MaxConcurrent,  \* MAX_CONCURRENT_TICKET_CREATIONS
    Creations,      \* bound: [Requests -> tickets om-core makes for the request]
    MaxDeliveries   \* bound: deliveries of rosters, repeated ones included

ASSUME QueueAssumption ==
    /\ MaxConcurrent \in Nat \ {0}
    /\ Creations \in [Requests -> Nat] /\ MaxDeliveries \in Nat
    /\ TicketIds = UNION {{r} \X (1..Creations[r]) : r \in Requests}

Deliveries == 1..MaxDeliveries

VARIABLES
    path,       \* ASSIGNMENT_DISTRIBUTION_PATH: "channel" or "pubsub"
    loop,       \* the request loop
    slots,      \* taken creation slots
    request,    \* goroutine of each request: [at, made |-> tickets om-core made for it]
    tracked,    \* Tickets: ids that wait for their assignment
    delivery    \* each delivery of a roster to the queue, and the run of
                \* assignmentHandler for it: [roster, at, left |-> tickets to go]

VARIABLES       \* history
    notified,   \* how often a ticket's assignment was passed to its player
    overtaken   \* ids whose assignment came before they were tracked

requestVars == <<path, loop, slots, request>>
assignmentVars == <<delivery, notified>>
queueVars == <<requestVars, tracked, assignmentVars, overtaken>>
vars == <<activationVars, queueVars>>

Init ==
    /\ ActivationInit
    /\ path \in {"channel", "pubsub"}
    /\ loop = "slot" /\ slots = 0
    /\ request = [r \in Requests |-> [at |-> "waiting", made |-> 0]]
    /\ tracked = {}
    /\ delivery = [d \in Deliveries |-> [roster |-> {}, at |-> "none", left |-> {}]]
    /\ notified = [id \in TicketIds |-> 0]
    /\ overtaken = {}

\* The id the request's goroutine got: of the last ticket made for it.
TicketOf(r) == <<r, request[r].made>>

-----------------------------------------------------------------------------
(* The request loop.  Its slot is released as soon as the goroutine runs.  *)

AcquireSlot ==
    /\ loop = "slot" /\ slots < MaxConcurrent
    /\ loop' = "receive" /\ slots' = slots + 1
    /\ UNCHANGED <<activationVars, path, request, tracked, assignmentVars, overtaken>>

\* From an HTTP handler that waits on the unbuffered ClientRequestChan.
Receive(r) ==
    /\ loop = "receive" /\ request[r].at = "waiting"
    /\ request' = [request EXCEPT ![r].at = "creating"]
    /\ loop' = "release"
    /\ UNCHANGED <<activationVars, path, slots, tracked, assignmentVars, overtaken>>

\* Variant: the loop goes on with its slot still taken.
KeepSlot ==
    /\ loop = "release"
    /\ loop' = "slot"
    /\ UNCHANGED <<activationVars, path, slots, request, tracked, assignmentVars, overtaken>>

ReleaseSlot ==
    /\ loop = "release"
    /\ loop' = "slot" /\ slots' = slots - 1
    /\ UNCHANGED <<activationVars, path, request, tracked, assignmentVars, overtaken>>

-----------------------------------------------------------------------------
(* The goroutine of a request: proxyCreateTicket, which retries CreateTicket *)
(* for 5 seconds, then the hand-over, Tickets.Store and the answer.        *)

MakeTicket(r, at) ==
    /\ request[r].at = "creating" /\ request[r].made < Creations[r]
    /\ request' = [request EXCEPT ![r] = [at |-> at, made |-> @.made + 1]]
    /\ UNCHANGED <<activationVars, path, loop, slots, tracked, assignmentVars, overtaken>>

CreateSucceeds(r) == MakeTicket(r, "enqueue")

\* om-core makes the ticket but the call reports an error, and is retried.
\* An attempt that fails before a ticket is made changes nothing.
CreateAnswerLost(r) == MakeTicket(r, "creating")

\* A permanent error, or 5 seconds of retries.
CreateGivesUp(r) ==
    /\ request[r].at = "creating"
    /\ request' = [request EXCEPT ![r].at = "failed"]
    /\ UNCHANGED <<activationVars, path, loop, slots, tracked, assignmentVars, overtaken>>

\* Variants: when the channel is full the id is dropped; the ids of all the
\* tickets made for the request are handed over one after the other.
EnqueueOrDrop(r) ==
    /\ request[r].at = "enqueue"
    /\ IF Len(toActivate) < ChanCap THEN EnqueueId(TicketOf(r))
                                    ELSE UNCHANGED activationVars
    /\ request' = [request EXCEPT ![r].at = "store"]
    /\ UNCHANGED <<path, loop, slots, tracked, assignmentVars, overtaken>>

EnqueueOrRetry(r) ==
    /\ request[r].at = "enqueue"
    /\ EnqueueId(TicketOf(r))
    /\ \E at \in {"store", "creating"} : request' = [request EXCEPT ![r].at = at]
    /\ UNCHANGED <<path, loop, slots, tracked, assignmentVars, overtaken>>

EnqueueTicket(r) ==
    /\ request[r].at = "enqueue"
    /\ EnqueueId(TicketOf(r))
    /\ request' = [request EXCEPT ![r].at = "store"]
    /\ UNCHANGED <<path, loop, slots, tracked, assignmentVars, overtaken>>

StoreTicket(r) ==
    /\ request[r].at = "store"
    /\ tracked' = tracked \cup {TicketOf(r)}
    /\ request' = [request EXCEPT ![r].at = "answer"]
    /\ UNCHANGED <<activationVars, path, loop, slots, assignmentVars, overtaken>>

\* The HTTP handler receives the status from the unbuffered ResultChan.
Answer(r) ==
    /\ request[r].at \in {"answer", "failed"}
    /\ request' = [request EXCEPT ![r].at = IF @ = "answer" THEN "ok" ELSE "timeout"]
    /\ UNCHANGED <<activationVars, path, loop, slots, tracked, assignmentVars, overtaken>>

-----------------------------------------------------------------------------
(* Assignments.  The handler's own map of assigned ids only serves its log *)
(* messages.                                                               *)

IsNext(d) == delivery[d].at = "none" /\ (d > 1 => delivery[d - 1].at # "none")

Busy(d) == delivery[d].left # {}

\* The director sends a roster of tickets that were active at some time.
\* A Go channel takes it when the receiver's goroutine is free and has that
\* goroutine run the handler; Pub/Sub keeps it.
Send(d, ids) ==
    /\ IsNext(d)
    /\ ids # {} /\ ids \subseteq activated
    /\ \/ /\ path = "channel" /\ \A e \in Deliveries : ~Busy(e)
          /\ delivery' = [delivery EXCEPT ![d] = [roster |-> ids, at |-> "taken", left |-> ids]]
       \/ /\ path = "pubsub"
          /\ delivery' = [delivery EXCEPT ![d] = [roster |-> ids, at |-> "queued", left |-> {}]]
    /\ UNCHANGED <<activationVars, requestVars, tracked, notified, overtaken>>

\* Pub/Sub delivers a message again when its acknowledgment is late or lost.
Redeliver(e, d) ==
    /\ path = "pubsub" /\ IsNext(d) /\ delivery[e].at = "taken"
    /\ delivery' = [delivery EXCEPT ![d] = [roster |-> delivery[e].roster, at |-> "queued", left |-> {}]]
    /\ UNCHANGED <<activationVars, requestVars, tracked, notified, overtaken>>

\* Pub/Sub's client runs the handler, also while others run.
Take(d) ==
    /\ delivery[d].at = "queued"
    /\ delivery' = [delivery EXCEPT ![d].at = "taken", ![d].left = delivery[d].roster]
    /\ UNCHANGED <<activationVars, requestVars, tracked, notified, overtaken>>

\* Variant: the id of a player who was notified stays in Tickets.
NotifyAndKeep(d, id) ==
    /\ id \in delivery[d].left /\ id \in tracked
    /\ delivery' = [delivery EXCEPT ![d].left = @ \ {id}]
    /\ notified' = [notified EXCEPT ![id] = @ + 1]
    /\ UNCHANGED <<activationVars, requestVars, tracked, overtaken>>

\* Tickets.LoadAndDelete, one atomic step: the player is notified.
Notify(d, id) ==
    /\ id \in delivery[d].left /\ id \in tracked
    /\ delivery' = [delivery EXCEPT ![d].left = @ \ {id}]
    /\ tracked' = tracked \ {id}
    /\ notified' = [notified EXCEPT ![id] = @ + 1]
    /\ UNCHANGED <<activationVars, requestVars, overtaken>>

\* Variant: the handler returns at the first ticket it does not track.
ReportAndReturn(d, id) ==
    /\ id \in delivery[d].left /\ id \notin tracked
    /\ delivery' = [delivery EXCEPT ![d].left = {}]
    /\ overtaken' = IF request[id[1]].at = "store" THEN overtaken \cup {id} ELSE overtaken
    /\ UNCHANGED <<activationVars, requestVars, tracked, notified>>

\* It finds nothing: the ticket was assigned before or is not yet stored.
ReportMiss(d, id) ==
    /\ id \in delivery[d].left /\ id \notin tracked
    /\ delivery' = [delivery EXCEPT ![d].left = @ \ {id}]
    /\ overtaken' = IF request[id[1]].at = "store" THEN overtaken \cup {id} ELSE overtaken
    /\ UNCHANGED <<activationVars, requestVars, tracked, notified>>

-----------------------------------------------------------------------------
LoopStep == AcquireSlot \/ ReleaseSlot \/ \E r \in Requests : Receive(r)

CreateEnds(r) == CreateSucceeds(r) \/ CreateGivesUp(r)

FinishRequest(r) == EnqueueTicket(r) \/ StoreTicket(r) \/ Answer(r)

HandlerStep(d) == \E id \in delivery[d].left : Notify(d, id) \/ ReportMiss(d, id)

Next ==
    \/ ActivationStep /\ UNCHANGED queueVars
    \/ LoopStep
    \/ \E r \in Requests : CreateEnds(r) \/ CreateAnswerLost(r) \/ FinishRequest(r)
    \/ \E d \in Deliveries :
          \/ \E ids \in SUBSET activated : Send(d, ids)
          \/ \E e \in Deliveries : Redeliver(e, d)
          \/ Take(d) \/ HandlerStep(d)

Spec == Init /\ [][Next]_vars

\* The goroutines run whenever they can, the 250 ms timer fires, calls end
\* or run out of retries, and Pub/Sub delivers each message once at least.
FairSpec ==
    /\ Spec
    /\ WF_vars(LoopStep)
    /\ \A r \in Requests : WF_vars(CreateEnds(r)) /\ WF_vars(FinishRequest(r))
    /\ WF_vars(CollectId /\ UNCHANGED queueVars)
    /\ WF_vars(SendBatch /\ UNCHANGED queueVars)
    /\ \A b \in SUBSET TicketIds : WF_vars(CallEnds(b) /\ UNCHANGED queueVars)
    /\ \A d \in Deliveries : WF_vars(Take(d)) /\ WF_vars(HandlerStep(d))

-----------------------------------------------------------------------------
TypeOK ==
    /\ ActivationTypeOK
    /\ path \in {"channel", "pubsub"}
    /\ loop \in {"slot", "receive", "release"} /\ slots \in 0..MaxConcurrent
    /\ request \in [Requests -> [at : {"waiting", "creating", "enqueue", "store", "answer",
                                       "failed", "ok", "timeout"},
                                 made : Nat]]
    /\ \A r \in Requests : request[r].made <= Creations[r]
    /\ tracked \subseteq TicketIds /\ overtaken \subseteq TicketIds
    /\ delivery \in [Deliveries -> [roster : SUBSET TicketIds, at : {"none", "queued", "taken"},
                                   left : SUBSET TicketIds]]
    /\ notified \in [TicketIds -> Nat]

\* ActivateTickets implements what it promises: see ActivationService.
ActivationSpec == Service!Spec

\* However often CreateTicket was retried, om-core activates at most one
\* ticket of a player, and none of a player whose request timed out.
PlayerMatchableOnce ==
    \A id \in InProgress \cup activated :
        id = TicketOf(id[1]) /\ request[id[1]].at \in {"store", "answer", "ok"}

\* Redelivered and overlapping messages notify a player once per ticket.
NotifiedOnce == \A id \in TicketIds : notified[id] <= 1

\* A player told OK has a ticket on its way to activation, activated or
\* abandoned, and the queue still knows it or has notified the player.
OkIsAccountedFor ==
    \A r \in Requests : request[r].at = "ok" =>
        /\ TicketOf(r) \in InProgress \cup activated \cup abandoned
        /\ TicketOf(r) \in tracked \/ notified[TicketOf(r)] = 1

\* A ticket whose assignment was handled is forgotten, unless the
\* assignment came before the queue remembered the ticket: the id is handed
\* over for activation first.
TrackedUntilHandled ==
    \A d \in Deliveries : delivery[d].at = "taken" =>
        (delivery[d].roster \ delivery[d].left) \cap tracked \subseteq overtaken

\* mmqueue.go:106-109 of the slots: "Limit the number of concurrent creations
\* by blocking until one of the MAX_CONCURRENT_TICKET_CREATIONS 'slots' is
\* available".  The loop releases its slot while the creation goes on.
CreationsBounded ==
    Cardinality({r \in Requests : request[r].at = "creating"}) <= MaxConcurrent

\* Every client gets its answer, and an HTTP status is all it gets.
EveryRequestAnswered ==
    \A r \in Requests : (request[r].at = "waiting") ~> (request[r].at \in {"ok", "timeout"})

\* No id stays in a channel, in a batch that is not full or in a call.
EveryIdSettled == \A id \in TicketIds : (id \in InProgress) ~> (id \in activated \cup abandoned)

\* The handler looks at each ticket of each roster: those it cannot find do
\* not keep the others from their players.
EveryAssignmentHandled ==
    \A id \in TicketIds :
        (\E d \in Deliveries : id \in delivery[d].roster) ~> (id \in overtaken \/ notified[id] > 0)
=============================================================================
