-------------------------------- MODULE Director --------------------------------
(***************************************************************************)
(* MockDirector.Run: each cycle asks the Agones integration which matches  *)
(* the game servers want, has om-core run the matchmaking functions, then  *)
(* rejects or accepts every proposal, allocates a server for each accepted *)
(* match and sends its rosters to the assignment distributor.  Tickets of  *)
(* rejected matches go through a bounded channel to the reactivation       *)
(* goroutine, which makes them matchable in om-core again.                 *)
(*                                                                         *)
(* om-core and the matchmaking functions are external: they are modelled   *)
(* by the responses they may send.                                         *)
(***************************************************************************)
EXTENDS AgonesIntegration, Sequences, SequencesExt

CONSTANTS
    Tickets,        \* ticket ids
    Rosters,        \* the sets of rosters (sets of tickets) of a match
    NoHash,         \* the hash extension of a match whose MMF did not copy it
    NoBackfill,     \* the next-request extension of a match that carries none
    MaxCycles,      \* NUM_MM_CYCLES
    MaxMatches,     \* bound: matches om-core returns in one cycle
    ChanCap         \* capacity of ticketIdsToActivate: 10000 in the code

ASSUME DirectorAssumption ==
    /\ Rosters \subseteq SUBSET SUBSET Tickets
    /\ NoBackfill \notin Backfills
    /\ MaxCycles \in Nat \ {0}
    /\ MaxMatches \in Nat
    /\ ChanCap \in Nat \ {0}

VARIABLES
    pool,           \* tickets om-core holds as active
    visible,        \* tickets the pools of this cycle's MMFs were built from
    pc,             \* where the director is in its cycle
    cycle,          \* cycles completed
    awaiting,       \* invocations whose response channel is still open
    returned,       \* how many matches om-core returned in this cycle
    pending,        \* pendingMmfRequestsByHash: hash -> allocator spec
    proposed,       \* proposedMatches not yet looked at
    matches,        \* accepted matches, each with the spec to allocate from
    rejecting,      \* tickets rejectMatch has still to queue
    sending,        \* rosters of the match being assigned, still to send
    tracking,       \* tickets of a sent roster, still to record
    toActivate,     \* the channel ticketIdsToActivate
    assignments,    \* the director's record of assigned tickets
    assignmentTTL   \* the same, in order of deadline

VARIABLES           \* history: nothing reads these
    assigned,       \* tickets whose assignment reached the distributor
    sentNow,        \* tickets assigned in this cycle
    lost,           \* tickets the director dropped without reactivating them
    backfilled      \* backfill requests of the servers allocated in this cycle

cycleVars  == <<pc, cycle>>
omVars     == <<pool, visible, awaiting, returned>>
matchVars  == <<pending, proposed, matches>>
queueVars  == <<rejecting, toActivate>>
assignVars == <<sending, tracking, assignments, assignmentTTL>>
history    == <<assigned, sentNow, lost, backfilled>>
vars == <<agonesVars, cycleVars, omVars, matchVars, queueVars, assignVars, history>>

Matches == [id : 1..MaxMatches, rosters : Rosters,
            hash : {NoHash} \cup SUBSET Requests, next : Backfills \cup {NoBackfill}]

TicketsOf(m) == UNION m.rosters

\* The director's own goroutine is between two matches of a loop.
Idle == rejecting = {} /\ sending = {} /\ tracking = {}

Init ==
    /\ AgonesInit
    /\ pool = Tickets /\ visible = {} /\ awaiting = {} /\ returned = 0
    /\ pc = "invoke" /\ cycle = 0
    /\ pending = <<>> /\ proposed = {} /\ matches = {}
    /\ rejecting = {} /\ toActivate = <<>>
    /\ sending = {} /\ tracking = {} /\ assignments = {} /\ assignmentTTL = <<>>
    /\ assigned = {} /\ sentNow = {} /\ lost = {} /\ backfilled = {}

-----------------------------------------------------------------------------
(* Invoking the matchmaking functions.                                     *)

\* pendingMmfRequestsByHash keeps the hashes of earlier cycles.
Remember(invocations) ==
    [h \in DOMAIN pending \cup {i.spec.label : i \in invocations} |->
        IF \E i \in invocations : i.spec.label = h
        THEN (CHOOSE i \in invocations : i.spec.label = h).spec
        ELSE pending[h]]

\* The pools are built from the active tickets; om-core may still be
\* deactivating tickets it returned in earlier cycles (`lag`).  Every request
\* is handed over: GetMMFParams puts a hash into each (gsdirector.go:906-914),
\* and what a request without one does to the cycle is modelled in FanIn.
BeginCycle ==
    /\ pc = "invoke"
    /\ pc' = "collect"
    /\ awaiting' = GetMMFParams
    /\ pending' = Remember(GetMMFParams)
    /\ \E lag \in SUBSET (Tickets \ pool) : visible' = pool \cup lag
    /\ returned' = 0 /\ sentNow' = {} /\ backfilled' = {}
    /\ UNCHANGED <<agonesVars, cycle, pool, proposed, matches, queueVars, assignVars,
                   assigned, lost>>

\* The goroutines that read the response channels append to the shared
\* slice without a lock.  While several channels are open an append may
\* overwrite what the others did, or be overwritten itself (see FanIn).
Survivors(m) == IF Cardinality(awaiting) > 1 THEN SUBSET (proposed \cup {m})
                                             ELSE {proposed \cup {m}}

\* om-core streams a match for invocation `i`, deactivates its tickets, and
\* the director's fan-in collects it.
OMReturn(i, rosters, copied, next) ==
    LET m == [id |-> returned + 1, rosters |-> rosters, next |-> next,
              hash |-> IF copied THEN i.spec.label ELSE NoHash]
    IN  /\ pc = "collect" /\ i \in awaiting /\ returned < MaxMatches
        /\ UNION rosters \subseteq visible \cup pool
        /\ returned' = returned + 1
        /\ pool' = pool \ UNION rosters
        /\ \E kept \in Survivors(m) :
              /\ proposed' = kept
              /\ lost' = lost \cup UNION {TicketsOf(n) : n \in (proposed \cup {m}) \ kept}
        /\ UNCHANGED <<agonesVars, cycleVars, visible, awaiting, pending, matches, queueVars,
                       assignVars, assigned, sentNow, backfilled>>

\* A response the client cannot read: om-core has deactivated the tickets,
\* but InvokeMatchmakingFunctions skips it or stops reading the stream.
OMResponseUnreadable(i, rosters, stop) ==
    /\ pc = "collect" /\ i \in awaiting /\ returned < MaxMatches
    /\ UNION rosters \subseteq visible \cup pool
    /\ returned' = returned + 1
    /\ pool' = pool \ UNION rosters
    /\ lost' = lost \cup UNION rosters
    /\ awaiting' = IF stop THEN awaiting \ {i} ELSE awaiting
    /\ UNCHANGED <<agonesVars, cycleVars, visible, matchVars, queueVars, assignVars,
                   assigned, sentNow, backfilled>>

\* The stream of `i` ends, or the call failed: its channel is closed.
OMComplete(i) ==
    /\ pc = "collect" /\ i \in awaiting
    /\ awaiting' = awaiting \ {i}
    /\ UNCHANGED <<agonesVars, cycleVars, pool, visible, returned, matchVars, queueVars,
                   assignVars, history>>

\* wg.Wait() returns: every channel is drained.
EndCollect ==
    /\ pc = "collect" /\ awaiting = {}
    /\ pc' = "proposals"
    /\ UNCHANGED <<agonesVars, cycle, omVars, matchVars, queueVars, assignVars, history>>

-----------------------------------------------------------------------------
(* ProposalsLoop.                                                          *)

\* At random, for want of a pending request with the match's hash, or
\* because the match holds an assigned ticket.
RejectProposal(m) ==
    /\ pc = "proposals" /\ Idle /\ m \in proposed
    /\ proposed' = proposed \ {m}
    /\ rejecting' = TicketsOf(m)
    /\ UNCHANGED <<agonesVars, cycleVars, omVars, pending, matches, toActivate, assignVars,
                   history>>

\* Variant: no look at the record of assigned tickets.
AcceptableUnchecked(m) == m.hash \in DOMAIN pending

Acceptable(m) ==
    /\ m.hash \in DOMAIN pending
    /\ TicketsOf(m) \cap assignments = {}

AcceptProposal(m) ==
    /\ pc = "proposals" /\ Idle /\ m \in proposed
    /\ Acceptable(m)
    /\ m.next = NoBackfill
    /\ proposed' = proposed \ {m}
    /\ matches' = matches \cup {[match |-> m, spec |-> pending[m.hash]]}
    /\ UNCHANGED <<agonesVars, cycleVars, omVars, pending, queueVars, assignVars, history>>

\* Variant: the match keeps the spec it came with.
AcceptWithOldSpec(m) ==
    /\ pc = "proposals" /\ Idle /\ m \in proposed
    /\ Acceptable(m)
    /\ m.next \in Backfills
    /\ UpdateMMFRequest(pending[m.hash], m.next)
    /\ proposed' = proposed \ {m}
    /\ matches' = matches \cup {[match |-> m, spec |-> pending[m.hash]]}
    /\ UNCHANGED <<cycleVars, omVars, pending, queueVars, assignVars, history>>

\* The match asks for a backfill: one server of the spec now carries the
\* backfill request, and the match is to be hosted by a server that does.
AcceptWithBackfill(m) ==
    /\ pc = "proposals" /\ Idle /\ m \in proposed
    /\ Acceptable(m)
    /\ m.next \in Backfills
    /\ UpdateMMFRequest(pending[m.hash], m.next)
    /\ proposed' = proposed \ {m}
    /\ matches' = matches \cup
          {[match |-> m, spec |-> AllocationSpecFromMMFRequests({m.next})]}
    /\ UNCHANGED <<cycleVars, omVars, pending, queueVars, assignVars, history>>

\* ... but the last server of the spec is gone: nil pointer dereference.
Panic(m) ==
    /\ pc = "proposals" /\ Idle /\ m \in proposed
    /\ Acceptable(m)
    /\ m.next \in Backfills
    /\ pending[m.hash] \notin DOMAIN gameServers
    /\ pc' = "panicked"
    /\ UNCHANGED <<agonesVars, cycle, omVars, matchVars, queueVars, assignVars, history>>

EndProposals ==
    /\ pc = "proposals" /\ Idle /\ proposed = {}
    /\ pc' = "allocate"
    /\ UNCHANGED <<agonesVars, cycle, omVars, matchVars, queueVars, assignVars, history>>

-----------------------------------------------------------------------------
(* Reactivation of rejected tickets.                                       *)

\* rejectMatch blocks while the channel is full.
QueueForActivation(t) ==
    /\ t \in rejecting /\ Len(toActivate) < ChanCap
    /\ rejecting' = rejecting \ {t}
    /\ toActivate' = Append(toActivate, t)
    /\ UNCHANGED <<agonesVars, cycleVars, omVars, matchVars, assignVars, history>>

\* Variants: ids are taken and forgotten; ids are taken two at a time, with
\* no timer for an incomplete pair.
ActivateForgets(activated) ==
    /\ toActivate # <<>>
    /\ toActivate' = Tail(toActivate)
    /\ UNCHANGED <<agonesVars, cycleVars, omVars, matchVars, rejecting, assignVars, history>>

ActivatePairs(activated) ==
    /\ Len(toActivate) >= 2
    /\ toActivate' = Tail(Tail(toActivate))
    /\ pool' = pool \cup ToSet(SubSeq(toActivate, 1, 2))
    /\ UNCHANGED <<agonesVars, cycleVars, visible, awaiting, returned, matchVars, rejecting,
                   assignVars, history>>

\* The goroutine running ActivateTickets takes an id and activates it, or
\* gives up on it after its retries.  (Its batches are left out.)
Activate(activated) ==
    /\ toActivate # <<>> /\ pc # "panicked"
    /\ toActivate' = Tail(toActivate)
    /\ IF activated
       THEN pool' = pool \cup {Head(toActivate)} /\ UNCHANGED lost
       ELSE lost' = lost \cup {Head(toActivate)} /\ UNCHANGED pool
    /\ UNCHANGED <<agonesVars, cycleVars, visible, awaiting, returned, matchVars, rejecting,
                   assignVars, assigned, sentNow, backfilled>>

-----------------------------------------------------------------------------
(* The allocation loop, over a Go map and so in any order.                 *)

AllocateServer(a) ==
    /\ pc = "allocate" /\ Idle /\ a \in matches
    /\ Allocate(a.spec)
    /\ matches' = matches \ {a}
    /\ sending' = a.match.rosters
    /\ backfilled' = backfilled \cup ({a.match.next} \ {NoBackfill})
    /\ UNCHANGED <<cycleVars, omVars, pending, proposed, queueVars, tracking, assignments,
                   assignmentTTL, assigned, sentNow, lost>>

\* Variant: the match is dropped.
RejectUnallocatedForgets(a) ==
    /\ pc = "allocate" /\ Idle /\ a \in matches
    /\ AllocateFails(a.spec)
    /\ matches' = matches \ {a}
    /\ UNCHANGED <<cycleVars, omVars, pending, proposed, queueVars, assignVars, history>>

\* Allocate returned "": the match is rejected after all.
RejectUnallocated(a) ==
    /\ pc = "allocate" /\ Idle /\ a \in matches
    /\ AllocateFails(a.spec)
    /\ matches' = matches \ {a}
    /\ rejecting' = TicketsOf(a.match)
    /\ UNCHANGED <<cycleVars, omVars, pending, proposed, toActivate, assignVars, history>>

SendRoster(r) ==
    /\ r \in sending /\ tracking = {}
    /\ sending' = sending \ {r}
    /\ tracking' = r
    /\ assigned' = assigned \cup r
    /\ sentNow' = sentNow \cup r
    /\ UNCHANGED <<agonesVars, cycleVars, omVars, matchVars, queueVars, assignments,
                   assignmentTTL, lost, backfilled>>

\* Variant: the roster counts as rejected and its tickets are reactivated.
SendRosterFailsRejects(r, arrived) ==
    /\ r \in sending /\ tracking = {}
    /\ sending' = sending \ {r}
    /\ rejecting' = rejecting \cup r
    /\ IF arrived THEN assigned' = assigned \cup r /\ sentNow' = sentNow \cup r
                  ELSE UNCHANGED <<assigned, sentNow>>
    /\ UNCHANGED <<agonesVars, cycleVars, omVars, matchVars, toActivate, tracking,
                   assignments, assignmentTTL, lost, backfilled>>

\* Every retry failed ("Leaked server allocation"): the director neither
\* records nor reactivates the tickets.  A publisher may report failure
\* although the message got through (`arrived`).
SendRosterFails(r, arrived) ==
    /\ r \in sending /\ tracking = {}
    /\ sending' = sending \ {r}
    /\ lost' = lost \cup r
    /\ IF arrived THEN assigned' = assigned \cup r /\ sentNow' = sentNow \cup r
                  ELSE UNCHANGED <<assigned, sentNow>>
    /\ UNCHANGED <<agonesVars, cycleVars, omVars, matchVars, queueVars, tracking, assignments,
                   assignmentTTL, backfilled>>

\* A ticket of the roster is recorded.  Its deadline is a new key of
\* assignmentTTL, or (`sameInstant`) the clock still reads what it read for
\* the ticket before, whose list the inverted test then replaces.
TrackTicket(t, sameInstant) ==
    /\ t \in tracking
    /\ tracking' = tracking \ {t}
    /\ assignments' = assignments \cup {t}
    /\ sameInstant => assignmentTTL # <<>>
    /\ assignmentTTL' = Append(IF sameInstant THEN Front(assignmentTTL) ELSE assignmentTTL, t)
    /\ UNCHANGED <<agonesVars, cycleVars, omVars, matchVars, queueVars, sending, history>>

EndAllocate ==
    /\ pc = "allocate" /\ Idle /\ matches = {}
    /\ pc' = "expire"
    /\ UNCHANGED <<agonesVars, cycle, omVars, matchVars, queueVars, assignVars, history>>

\* The `n` oldest deadlines are past.  (The periodic deep copy of both maps
\* and the sleep that ends the cycle change nothing modelled here.)
ExpireAssignments(n) ==
    /\ pc = "expire"
    /\ n <= Len(assignmentTTL)
    /\ assignments' = assignments \ ToSet(SubSeq(assignmentTTL, 1, n))
    /\ assignmentTTL' = SubSeq(assignmentTTL, n + 1, Len(assignmentTTL))
    /\ cycle' = cycle + 1
    /\ pc' = IF cycle' < MaxCycles THEN "invoke" ELSE "done"
    /\ UNCHANGED <<agonesVars, omVars, matchVars, queueVars, sending, tracking, history>>

-----------------------------------------------------------------------------
\* The process panicked, or the director returned and nothing is left to
\* reactivate.
Terminated ==
    /\ pc = "panicked" \/ (pc = "done" /\ toActivate = <<>>)
    /\ UNCHANGED vars

OMStep ==
    \E i \in awaiting :
        \/ OMComplete(i)
        \/ \E rosters \in Rosters :
              \/ \E copied \in BOOLEAN, next \in Backfills \cup {NoBackfill} :
                    OMReturn(i, rosters, copied, next)
              \/ \E stop \in BOOLEAN : OMResponseUnreadable(i, rosters, stop)

DirectorStep ==
    \/ BeginCycle \/ EndCollect \/ EndProposals \/ EndAllocate
    \/ \E m \in proposed :
          RejectProposal(m) \/ AcceptProposal(m) \/ AcceptWithBackfill(m) \/ Panic(m)
    \/ \E t \in rejecting : QueueForActivation(t)
    \/ \E a \in matches : AllocateServer(a) \/ RejectUnallocated(a)
    \/ \E r \in sending :
          \/ SendRoster(r)
          \/ \E arrived \in BOOLEAN : SendRosterFails(r, arrived)
    \/ \E t \in tracking, sameInstant \in BOOLEAN : TrackTicket(t, sameInstant)
    \/ \E n \in 0..Len(assignmentTTL) : ExpireAssignments(n)

ActivationStep == \E activated \in BOOLEAN : Activate(activated)

Next == OMStep \/ DirectorStep \/ ActivationStep \/ Terminated

\* Both goroutines run whenever they can, and om-core ends every stream
\* (its own MMF timeout sees to that).
Fairness ==
    /\ WF_vars(DirectorStep)
    /\ WF_vars(ActivationStep)
    /\ WF_vars(\E i \in awaiting : OMComplete(i))

Spec == Init /\ [][Next]_vars
FairSpec == Spec /\ Fairness

-----------------------------------------------------------------------------
TypeOK ==
    /\ AgonesTypeOK
    /\ pool \subseteq Tickets /\ visible \subseteq Tickets
    /\ pc \in {"invoke", "collect", "proposals", "allocate", "expire", "done", "panicked"}
    /\ cycle \in 0..MaxCycles /\ (pc # "done" => cycle < MaxCycles)
    /\ awaiting \subseteq Invocations
    /\ returned \in 0..MaxMatches
    /\ DOMAIN pending \subseteq SUBSET Requests
    /\ \A h \in DOMAIN pending : pending[h] \in AllocSpecs /\ pending[h].label = h
    /\ proposed \subseteq Matches
    /\ matches \subseteq [match : Matches, spec : AllocSpecs]
    /\ rejecting \subseteq Tickets
    /\ sending \subseteq SUBSET Tickets
    /\ tracking \subseteq Tickets
    /\ toActivate \in Seq(Tickets) /\ Len(toActivate) <= ChanCap
    /\ assignments \subseteq Tickets
    /\ assignmentTTL \in Seq(Tickets)
    /\ assigned \subseteq Tickets /\ sentNow \subseteq assigned /\ lost \subseteq Tickets
    /\ backfilled \subseteq Backfills

TicketsOfAll(ms) == UNION {TicketsOf(m) : m \in ms}
AcceptedMatches == {a.match : a \in matches}

\* The tickets of the matches the director has to decide, of those it has
\* accepted, and of the rosters it has still to send.
Held == TicketsOfAll(proposed) \cup TicketsOfAll(AcceptedMatches) \cup UNION sending

\* The director implements the life of a ticket: nothing but a rejected
\* match brings a ticket back to om-core, nothing but a match the director
\* holds gets one assigned, and each step that takes a ticket out of its
\* place puts it into the next one.
Life == INSTANCE TicketLife WITH
            future <- {}, offered <- pool, held <- Held,
            returning <- rejecting \cup ToSet(toActivate)

TicketSpec == Life!Spec

\* A ticket om-core no longer offers is in the director's hands, on its way
\* back to om-core, or assigned; otherwise it is one of those given up on
\* (the race in the fan-in, an unreadable response, a failed send, a failed
\* activation).  No other path strands a player.
TicketsAccountedFor == Life!Accounted

\* No accepted match holds a ticket the director still remembers having
\* assigned in an earlier cycle, even when om-core offers it again.
NoRecordedTicketAccepted ==
    TicketsOfAll(AcceptedMatches) \cap assignments \subseteq sentNow

\* The servers moved to a backfill request are exactly those the accepted
\* matches are about to take, so each of those matches gets its server.
BackfillServersReserved ==
    \A b \in Backfills :
        LET spec == AllocationSpecFromMMFRequests({b})
        IN  ReadyServers(gameServers, spec) = Cardinality({a \in matches : a.spec = spec})

\* While the fleets have servers left, no update names a spec that is gone.
NeverPanics == pc # "panicked"

\* A rejected ticket gets back to om-core, unless activating it fails (or
\* the process dies).
RejectedTicketsReturn ==
    \A t \in Tickets :
        (t \in rejecting \cup ToSet(toActivate)) ~> (t \in pool \cup lost \/ pc = "panicked")

\* The full channel only delays the director: it gets through its cycles.
AllCyclesComplete == <>(pc = "done")

-----------------------------------------------------------------------------
(* What the documentation says and the code does not do.                   *)

\* v2/examples/README.md:98, "once a player is assigned, they cannot be
\* placed in another match": in one cycle no ticket is sent an assignment a
\* second time.
AssignedOncePerCycle ==
    [][\A r \in sending \ sending' : tracking' = r => r \cap sentNow = {}]_vars

\* v2/examples/README.md:85, "in the next matchmaking cycle, this specific
\* server will be the source of a new, unique matchmaking request".
BackfillOffered ==
    [][pc = "invoke" /\ pc' = "collect" =>
          \A b \in backfilled : \E i \in awaiting' : i.params = b]_vars

\* gsdirector.go:265-269, a game server's label "allows us to use a
\* kubernetes LabelSelector to find game servers by their pb.MmfRequest":
\* every fleet's requests are offered.
EveryFleetOffered ==
    [][pc = "invoke" /\ pc' = "collect" =>
          \A f \in Fleets : \E i \in awaiting' : i.params \in FleetRequests[f]]_vars
=============================================================================
