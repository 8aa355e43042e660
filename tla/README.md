# TLA+ models of the Open Match ecosystem

This directory models the example matchmakers of the repository: the Open
Match 2 matchmaker under `v2/` (game server director, matchmaker queue,
matchmaking functions) and the Open Match 1 programs beside it (first match
demo with its page, Agones director, default evaluator). The models are checked
with TLC on small instances; the safety properties they check are also proved
with TLAPS, for every value of the constants.

Paths are relative to `src/`; `G` is `v2/internal/gsdirector/gsdirector.go`,
`O` is `v2/internal/omclient/omclient.go`, `Q` is
`v2/internal/mmqueue/mmqueue.go`, `F` is
`v2/examples/mmf/functions/fifo/fifo.go`. OM1 and OM2 are Open Match 1 and 2.

## The system

| part | state | operations | interacts with |
| --- | --- | --- | --- |
| **Game server director** `G` `MockDirector.Run` | pending requests by hash, proposals, accepted matches, record of assigned tickets and their deadlines, reactivation channel | one loop of cycles: invoke MMFs, collect, reject or accept each proposal, allocate, send rosters, expire records | asks the game server manager; calls om-core through the client; sends to the assignment distributor |
| **Game server manager** `G` `MockAgonesIntegration` | map: allocation spec -> number of ready servers and the MmfRequests they carry | `Init`, `GetMMFParams`, `UpdateMMFRequest`, `Allocate`; an informer goroutine applies updates | called by the director only; every update is waited for |
| **Fan-in** `G` 1061-1185 | response channels, WaitGroup, the shared slice of proposals | one reader goroutine per MMF invocation | client goroutines on one side, the director on the other |
| **Open Match client** `O` | the batch of ids being collected, calls with retries | `CreateTicket`, `ActivateTickets`, `InvokeMatchmakingFunctions` | queue, director, om-core |
| **Matchmaker queue** `Q` `MatchmakerQueue.Run` | tracked tickets, creation slots, activation channel | take a request, create, hand over, store, answer; handle a roster of assignments | game clients, client, assignment distributor |
| **Assignment distributor** `v2/internal/assignmentdistributor` | a Go channel or a Pub/Sub topic | `Send`, `Receive`, `Stop` | director to queue |
| **FIFO MMF** `F` | three package-level roster parameters; per run the tickets left and the match being made | `Run`: set the parameters, fill rosters in turn, attach a backfill request, stream | called by om-core |
| **MMF server** `v2/examples/mmf/server` | chunks of one request | `GetChunkedRequest` | om-core, both functions |
| **Debug MMF** `v2/examples/mmf/functions/debug` | the request's extensions | `Run` | called by om-core |
| **Default evaluator** `defaultevaluator` (OM1) | sorted proposals, results, used tickets | `Evaluate`, `evaluate`, `maybeAdd` | Open Match 1 |
| **First match demo** `firstmatch` (OM1) | a scenario of each client, the director's matches | `runScenario`, `mmf.Run`, `run` | Open Match 1, the demo UI |
| **Agones director** `agones-director-example` (OM1) | the response stream, one allocated server | `run` | Open Match 1, Agones |
| **Demo UI** `demoui` | a tree of updaters, the latest bytes, subscribers | `SetFunc`, `start`, `NewNested`, `AnnounceLatest`, `Subscribe` | first match demo, browsers |
| om-core, the MMF hosts, game clients, Pub/Sub, Kubernetes, browsers | external | | |

### What is hard in it

* *The director's memory against om-core's.* om-core deactivates the tickets of
  a match it returns, but not at once, and not atomically over concurrent MMF
  calls. The director has to recognise tickets it has already assigned, give
  back those it rejects, and never strand one in between.
* *Two halves of one server update.* A backfill moves a server from one entry
  of the manager's map to another, and the allocation of the same match takes
  it away; the counts have to agree with the accepted matches all along.
* *Bounded channels on a loop's own path.* `rejectMatch` (`G` 1202) and the
  creation goroutine (`Q` 143) block when the activation channel is full, so
  their progress depends on the batching goroutine at the other end.
* *The fan-in.* Goroutines that share a slice, a WaitGroup and a channel of
  channels, with one Done owed for each Add.
* *A ticket on two paths at once.* The queue hands an id to the activation
  before it stores it (`Q` 143-144), so its assignment can come first; a
  retried `CreateTicket` can leave a second ticket of the same player.
* *Batches cut by a timer*, each activated by a goroutine of its own that may
  activate some of its ids and report an error.
* *Parameters shared by concurrent runs* of the FIFO function, and chunks that
  are counted rather than identified.
* *Waking subscribers by closing a channel*, while updaters block each other
  and a page may stop reading.
* *Failures half way.* Unreadable responses, activations that run out of
  retries, rosters that cannot be sent, assignments that panic out of a loop,
  servers that are gone.

What makes each component correct: the **director** strands no ticket, accepts
none it still records as assigned, gives each accepted match its server, gets
through its cycles; the **manager** neither invents nor loses a server and keeps
no empty entry; the **fan-in** waits for everything and collects what was
delivered; the **client** settles each id it takes once; the **queue** makes a
player matchable once, tells a player of an assignment once, answers every
request; the **functions** use a ticket at most once and make the matches their
profile asks for; the **evaluator** returns disjoint matches, none of them
beaten by one it left out; the **OM1 directors** leave no ticket of a returned
match unassigned without an error; the **demo UI** loses no announcement, never
goes back and ends up showing the last values.

`PROJECT.json` lists the hazards line by line with the properties that watch
them.

## Modules

| module | models | rests on |
| --- | --- | --- |
| `TicketLife` | what the matchmakers promise the owner of a ticket (abstract) | |
| `AgonesIntegration` | the manager: `AgonesInit`, `UpdateMMFRequest`, `Allocate`, `AllocateFails`, `GetMMFParams`; `AgonesSpec` is the manager on its own, used by any caller | |
| `Director` | `MockDirector.Run` and the reactivation goroutine, driving the manager and answered by om-core | `AgonesIntegration` (extended: one state, one step for a call and its effect); instantiates `TicketLife` with a refinement mapping |
| `FanIn` | one cycle's collection, at the grain of channel operations and of the three memory steps of an append | |
| `ActivationService` | what `ActivateTickets` promises whoever feeds it ids (abstract) | |
| `TicketActivation` | `ActivateTickets`: channel, batch, timer, concurrent calls, retries | instantiates `ActivationService` with a refinement mapping |
| `MatchmakerQueue` | `MatchmakerQueue.Run`, ticket creation, the assignment handler behind a Go channel or Pub/Sub | `TicketActivation` (extended) |
| `ChunkedRequest` | `GetChunkedRequest` | |
| `MatchFunctions` | FIFO and debug runs side by side in one process | `ChunkedRequest` (extended) |
| `DefaultEvaluator` | the evaluator | |
| `OpenMatch1` | clients, function and director of the first match demo, the Agones director, and the Open Match between them | `DefaultEvaluator` (extended); instantiates `TicketLife` with a refinement mapping |
| `DemoUI` | updaters, nested updaters, the byteSub, the pages | |
| `MC...` | bounds for TLC of the module of that name | |
| `DirectorProofs` | types, no reassignment, and the lemmas the other two build on | `Director` |
| `DirectorTicketProofs` | the refinement of `TicketLife`; no ticket stranded | `DirectorProofs` |
| `DirectorServerProofs` | servers conserved and reserved for backfills; which requests are ever offered; no panic while the fleet lasts | `DirectorProofs` |
| `FanInProofs` | the WaitGroup and the requests, discarded ones included; types, what the racing appends can do | `FanIn` |
| `MatchmakerQueueProofs` | the queue's invariants and its refinement of `ActivationService` | `MatchmakerQueue` |
| `MatchFunctionsProofs` | whole requests, tickets used once, the shape of the matches, the causes of a panic | `MatchFunctions` |
| `OpenMatch1Proofs` | the evaluator's results, the tickets of the OM1 directors and their refinement of `TicketLife` | `OpenMatch1` |
| `DemoUIProofs` | types, no lost wakeup, pages never go back | `DemoUI` |

An operator described as a variant in a comment is not part of a specification:
it is what a plausible mistake in that place would be, and `PROJECT.json` lists
which property each one breaks.

### How the state corresponds to the code

*Allocation specs.* `gameServers` is keyed by the JSON of an Agones allocation
spec: a label selector (a 128-bit hash of a list of requests) and an annotation
(the list itself). The hash is represented by the list that was hashed.
`FleetAllocSpec` follows what `Init` really hashes: `json.Marshal` of a struct
without exported fields, that is `{}`, for every fleet. Go's random map order
decides which fleet is written last, hence the choice in `AgonesInit`.

*The informer.* `updateGameServerMetadata` hands an update to the informer
goroutine and waits for its `done`; no one else calls the manager, so the
removal and the addition are one step. `UpdateMMFRequest` and `Allocate` have
the presence of the spec as a guard; what the director does otherwise is
`Panic` (nil dereference, `G` 366) and `RejectUnallocated` (`G` 1349). Sorting
the requests (`G` 845) orders only the start of goroutines and is left out.

*The director.* `pc` is the phase of the loop. `proposed`, `matches`,
`rejecting`, `sending` and `tracking` are what is left of the loop in progress:
the nested loops over matches, rosters and tickets become actions that take one
element, in any order where the code ranges over a Go map (`matches`, rosters)
or over a slice filled by concurrent goroutines (`proposedMatches`). `Idle`
says that the inner loops are finished, so each match is dealt with completely
before the next.

*A request without a hash* is discarded by the cycle (`G` 1153-1157). In `Director`
it does not occur: every list of requests comes from `GetMMFParams` of the one
manager there is, which puts the hash in. `FanIn` does not model the manager; its
constant-valued variable `hashed` is the set of requests with a hash, and
`DiscardRequest` is the discard.

*A proposal* may be rejected at random (`G` 1235), therefore `RejectProposal`
has no further guard: rejection for want of a hash, of a pending request or
because of an assigned ticket are the same step. Accepting has all the guards.

*om-core* answers an invocation with any of a few shapes of match, made of
tickets in the pools the call was given or still in them (`visible`, `pool`).
`visible` may contain tickets of earlier cycles that om-core has not yet
deactivated. A response may be unreadable, and a stream may end at any time.

*Expiry.* The deadlines are those of one clock, so they are a sequence, oldest
first; `ExpireAssignments` drops any number of the oldest, as if the clock were
read once. Copying the maps (`G` 1421) and sleeping are left out.

*The append.* In `FanIn` an append reads the slice header, writes the element
(to a copy of twice the capacity if the array is full) and writes the header
back. A header is read and written whole; that a racing reader might see half
of one is not modelled. `Director` takes from this only what its cycle sees:
while more than one channel is open an append may lose matches (`Survivors`).

*Activation.* `toActivate` is the channel, `batch` the ids collected since the
last call, `calls` the goroutines that post or retry a batch. The timer is the
freedom of `SendBatch` to go with any non-empty batch; that a full batch is
sent before another id is taken is the guard of `CollectId`. An attempt may
activate some ids and fail (`AttemptFails`). In `Director` the same goroutine is
the action `Activate`, id by id: batches make no difference to the director.

*The queue.* `request[r]` is the goroutine of a client request, step by step:
create (with retries), hand the id over, store it, answer. `slots` and `loop`
are the creation loop; its slot is given back as soon as the goroutine runs,
as in the code. An id is a request and the number of the ticket made for it, so
that tickets left behind by lost answers are told apart. `delivery` is each
delivery of a roster: with a Go channel one handler runs at a time and the next
send waits for it; with Pub/Sub messages queue up, are delivered again and
handled concurrently. The handler's own map of assigned ids only serves its log
messages and is left out. The director is an external sender of rosters of
tickets that were active.

*Functions.* `at` is the step of each run. The three writes to the shared
parameters are three steps, and each later read sees what they are then: the
loop test, the number of rosters (read when the rosters are made and again for
each ticket's turn), the roster length. Making the rosters reads the number
once, although the code reads it once for each of them; with the numbers 1 and
2 of the run every outcome of that loop is the outcome of one of the two
reads. Order matters inside a roster only for counting, so tickets are a
sequence that is consumed from the front.

*Evaluator.* Sorting is the choice of a match with the best remaining score
(`IsNextMatch`), which allows every order of equal scores that `sort.Sort` may
produce. *Open Match 1* itself runs an evaluation for the directors that have a
fetch in progress, gives each its matches and stops offering their tickets.

*Demo UI.* A component's values are numbered and an updater's JSON is the last
number of each component below it. `updater` is the state of an updater's
goroutine: setting its children, waiting, draining the updates that wait, and,
when its context is done, removing itself.

*History variables* (`assigned`, `sentNow`, `lost`, `backfilled`, `allocated`;
`delivered`, `overlapped`; `notified`, `overtaken`; `returned`, `forsaken`) are
read by no guard.

## Runs

| run | question | result |
| --- | --- | --- |
| `director` | does the director implement the life of a ticket over two cycles; do the manager's counts agree with its matches; does the loop get through with a channel of capacity one | holds, 604 725 states |
| `director_scarce` | is no ticket stranded and does every rejected one return when the fleet has one server, so that allocations fail and `Panic` is reachable | holds, 56 251 states |
| `director_collision` | is no ticket assigned twice in a cycle (`v2/examples/README.md:98`) | **violated** |
| `director_backfill` | is a registered backfill offered in the next cycle (`v2/examples/README.md:85`) | **violated** |
| `director_fleets` | are the requests of every fleet offered (`G` 265) | **violated** |
| `fan_in` | does the director wait for exactly the work it started and get past the wait when all requests have a hash, and what can a racing append do | holds, 49 463 states |
| `fan_in_loss` | are all results of a cycle processed (`G` 1070) | **violated** |
| `queue` | is a player matchable and notified once, is everybody answered and every id settled, does the batching keep its contract | holds, 129 250 states |
| `queue_slots` | do the slots limit concurrent creations (`Q` 106) | **violated** |
| `mmf` | what are the matches like when the profiles agree, and what can end the process | holds, 414 457 states |
| `open_match1` | are the evaluator's results disjoint and greedy, and do the directors implement the life of a ticket | holds, 2 117 113 states |
| `demo_ui` | does every page that is read show the last values, and does nothing block an update for good | holds, 242 960 states |

The five violated runs are disagreements between a comment or document and the
code; `PROJECT.json` quotes both sides under "findings".

*What the properties mean.* `TicketSpec` is the promise to a player, stated
apart from matches, servers and channels in `TicketLife` and implemented by the
OM2 director and by both OM1 directors: Open Match offers a ticket until a match
takes it, a director then holds it until it assigns, rejects or gives it up, and
only a rejected ticket is offered again. The places are sets that may overlap,
because om-core's lag lets one ticket be in two matches. What the step relation
forbids and no invariant could say: a failed send must not reactivate a roster
whose assignment may have arrived, and only what a director holds is assigned.
`TicketsAccountedFor` is the invariant of that life: outside om-core's pool a
ticket is in the director's hands, on its way back, assigned, or among those
given up on at four named places.
`NoRecordedTicketAccepted` is what the collision check does achieve: across
cycles, not within one. `BackfillServersReserved` relates the manager's counts
to the director's accepted matches, `ServersConserved` says that ready servers and
those handed out are all the fleets' servers at any time, counted as a set of
numbered servers per entry of the map. `LostOnlyByOverlap` says that the unlocked append is the only
way the fan-in loses a match. `CollectionEnds` says that the wait ends if every
request has its hash. The loop counts a request before it looks for the hash
(`G` 1120) and leaves one without it counted (`G` 1153-1157), so without that
condition the wait never ends (`DiscardHoldsTheWait`). The fault is latent:
`MockAgonesIntegration.GetMMFParams` always puts the hash in (`G` 906-914), but
the director knows its manager only as the interface `GSManager`.

`PlayerMatchableOnce` says what retries of a creation that is not idempotent
cannot do: the tickets left behind never become active, because only the id
that was received is handed over. `TrackedUntilHandled` is the strongest form
of "an assigned ticket is forgotten" that the order of `Q` 143-144 allows; the
exception, `overtaken`, is the race between storing and assigning. The
liveness properties follow requests, ids and rosters to their ends:
`EveryAssignmentHandled` would fail if a handler stopped at the first ticket it
does not find.

`PanicCauses` lists all reasons why a function's process may die: a profile
without an extensions field, a broken stream of a debug run, FIFO runs that
disagree on the number of rosters, where one run's index runs past another's
rosters, and a number of rosters that is zero, where the index divides by it
(`F` 221). `MatchesAsConfigured` and `FewLeftOver` hold for runs whose profile
sets all parameters without contradiction, so they say nothing of runs that
overwrite each other's parameters: of those `TicketsUsedOnce` still holds, but a
match can have another run's shape, and a parameter that a profile leaves out is
what some run wrote last, not the default the comment at `F` 126 promises; the leftover bound
includes equality because the loop test at `F` 149-151 is strict. A profile may ask for a higher
minimum than its rosters hold: a backfill's has its length reduced to the empty
seats (`F` 285) and its minimum as before. Such a match is full instead. `NoBetterLeftOut` is the
declarative specification of the greedy evaluator.

`PageCatchesUp` is the demo's purpose: once the components are quiet every page
that is read shows the last values and nothing of the updaters that were
cancelled. `PagesNeverGoBack` says it never shows an older value on the way.

*Bounds, and why they suffice.* Two tickets and three shapes of match (one
roster with both, a roster each, a single ticket) give every overlap of two
proposals. `MaxMatches` 2 lets two proposals compete in a cycle, `MaxCycles` 2
lets a record, a lagging deactivation or a backfill of one cycle meet the next
(`NUM_MM_CYCLES` is practically infinite). `ChanCap` 1 instead of 10000 makes
the full channel an everyday event. `FleetCount` is `math.MaxInt32` in the code,
more than the program can use; 5 is more than the model can use (`MaxCycles *
MaxMatches` = 4), and 1, in `director_scarce`, is a fleet that runs out. Three
invocations with two, one and one match let `FanIn` grow the slice twice (from
capacity 0 to 1 to 2 to 4) under all interleavings of three readers, and any
subset of them may lack the hash. The queue
has two requests, one of which can make two tickets, a channel of capacity 1
that two requests fill, batches of 2 that can be cut at 1 or filled by both, one
slot, and two deliveries: two rosters, or one and its repetition. `mmf` has a
request in two chunks (received in both orders), one with five tickets (more
than two matches), a debug run, and profiles that set all parameters (one of them
with a minimum above the length), contradict each other in the number of rosters,
set only the length, or ask for no rosters at all. Profiles are given per run: one FIFO run and the debug
run, which tells nothing else apart, may also have no extensions.
`open_match1` has four tickets, so that two pairs compete with overlapping
proposals of two scores and without readable criteria, and two evaluations, so
that a director meets a second result after an error. `demo_ui` has a component
on each level, a nested updater that may be cancelled, two updates each (an
update can arrive while the last one drains) and two pages, one of which may
hang while the other has to catch up.

*Fairness.* Goroutines run when they can: weak fairness of the director and of
the reactivation goroutine as a whole (which of its enabled steps one takes is
not assumed), of each reader, request goroutine, handler, updater and page.
om-core ends every stream: its own MMF timeout does, as the comment at `G` 1052
says; the director itself has no timeout, since the calls get `ctx` and not
`cycleCtx` (`G` 1168). Nothing is assumed of what om-core returns, nor that an
activation or a creation ever succeeds, only that a call ends or runs out of
its retries. The queue's HTTP client times out after 30 seconds
(`v2/examples/matchmaker/main.go:268`); the director's sets no timeout (283), nor
do those of the standalone programs, so there it is an assumption on om-core too. In `FanIn` every reader and every stream's end is fair, a delivery
is not. In `FairSpec` of the queue the 250 ms timer fires and Pub/Sub delivers
each message once at least. In `MatchFunctions` a stream delivers its chunks or
breaks. In `DemoUI` neither the components' updates nor the return of a `Write`
are assumed.

*Deadlock* is checked in the runs of the director and the functions,
whose only states without another step are the terminal ones, where
`Terminated` stutters. In the fan-in a discarded request leaves the director in
`wg.Wait()` for good, as in the code, so its configurations say `CHECK_DEADLOCK
FALSE`, and `CollectionEnds` says that nothing else does. The queue, the OM1 programs and the demo UI are servers
that wait for input when the bounded number of requests, scenarios or updates
is used up; their configurations say `CHECK_DEADLOCK FALSE`, and for the queue
and the UI the liveness properties say that nobody waits too early.

## Proofs

| theorem | states |
| --- | --- |
| `TypeCorrect` | `Director`: `[]TypeOK`; no entry of the manager's map stands for zero servers and the channel keeps its capacity |
| `NoReassignment` | `[]NoRecordedTicketAccepted` |
| `DirectorKeepsTickets` | `TicketSpec`: the director implements `TicketLife` |
| `NoTicketStranded` | `[]TicketsAccountedFor`, from `DirectorKeepsTickets` and `TicketLife` alone |
| `BackfillsReserved` | `[]BackfillServersReserved` |
| `ManagerConservesServers`, `DirectorConservesServers` | `[]ServersConserved`, of the manager whoever calls it, and of the director |
| `OneFleetOffered` | when a cycle begins, no request of another fleet than the one filed last is invoked |
| `BackfillNeverOffered` | when a cycle begins, no backfill request is invoked |
| `AmpleFleetNeverPanics` | `[]NeverPanics` if `FleetCount >= MaxCycles * MaxMatches` |
| `FanInTypeCorrect` | `FanIn`: `[]TypeOK`; the WaitGroup counts between zero and the number of requests |
| `QuietAfterTheWait` | `[]QuietAfterWait` |
| `DiscardHoldsTheWait` | if any request lacks its hash, the director never gets past the wait |
| `CollectedWereDelivered` | `[]CollectedAreDelivered` |
| `OnlyOverlapLosesMatches` | `[]LostOnlyByOverlap` |
| `QueueTypeCorrect` | `MatchmakerQueue`: `[]TypeOK` |
| `PlayersMatchableOnce`, `PlayersNotifiedOnce` | `[]PlayerMatchableOnce`, `[]NotifiedOnce` |
| `OkIsTruthful`, `OnlyOvertakenStayTracked` | `[]OkIsAccountedFor`, `[]TrackedUntilHandled` |
| `ActivationIsImplemented` | the queue with its batches, timer and retries implements `ActivationService` |
| `FunctionTypes`, `RequestsAreWholeOrNone` | `MatchFunctions`: `[]TypeOK`, `[]WholeRequestOrNone` |
| `FifoUsesTicketsOnce` | `[]TicketsUsedOnce` |
| `FifoMatchesAsConfigured`, `FifoLeavesFew` | `[]MatchesAsConfigured`, `[]FewLeftOver` |
| `FunctionsPanicForAReason` | `[]PanicCauses` |
| `ResultsAreDisjoint`, `NoBetterIsLeftOut` | `OpenMatch1`: `[]ResultsDisjoint`, `[]NoBetterLeftOut` |
| `ReturnedTicketsAreAccountedFor`, `OpenMatch1TypeCorrect` | `[]ReturnedTicketsAccountedFor` (returned tickets are in hand, assigned or given up), `[]TypeOK` |
| `DirectorsKeepTickets` | `TicketSpec`: both OM1 directors, with the clients and Open Match, implement `TicketLife` |
| `NoWakeupIsLost`, `PagesDoNotGoBack`, `DemoUITypeCorrect` | `DemoUI`: `[]NoLostWakeup`, `PagesNeverGoBack`, `[]TypeOK` |

They hold for all sets of tickets, requests, clients, components and so on and
for all bounds, from the assumptions the modules name: `FleetAssumption` and
`DirectorAssumption` (a backfill request is not a request of a fleet, fleets are
not empty, rosters are made of tickets, the bounds are numbers);
`FanInAssumption` (finitely many invocations that share no match);
`ActivationAssumption` and `QueueAssumption` (capacities are positive, an id is
a request and a number); `ChunksAssumption` and `TicketsSentOnce` (a FIFO
request has at least one chunk, finitely many, and each of its tickets once: `F`
120-124 concatenates the pools, so the pools of a profile must not overlap, and
those of the example profiles do not), `MatchFunctionsAssumption` (the parameters
are natural numbers, zero included); `EvaluatorAssumption`, `OpenMatch1Assumption` and
`ProposalsAssumption` (scores are integers, an external function proposes
tickets it was given); `UIAssumption`.

*Arguments.* Director: `TypeOK` is inductive; the cycle counter needs the clause
that only `done` has used up all cycles. `NoRecordedTicketAccepted` is not: a
new cycle empties `sentNow`, so no match may be left from the one before
(`Phases`), and a recorded ticket must have been sent in this cycle (`tracking
\subseteq sentNow`); together they are `AssignedInv`. `TicketSpec` is proved step by
step: what is `held` is the tickets of proposals, of accepted matches and of unsent
rosters (`HeldMeans` says so ticket by ticket), accepting, allocating and queueing
for activation stutter, and each other step is the one of `TicketLife` its lemma
names; three lemmas say what `Append` and `Tail` do to the contents of the
channel. Nothing but `TypeOK` is needed of the state, so no order of the phases is
assumed. `TicketsAccountedFor` is then an invariant of `TicketLife`
(`AccountedStep`) and is inherited. `BackfillServersReserved` needs
`ServerInv`: an accepted match is no longer proposed (so accepting adds exactly
one match) and no pending request names a backfill spec (so accepting never
takes a server away from one). The latter is where the two modules meet: when a
cycle begins no match is accepted, therefore the backfill counts are zero,
therefore by `TypeOK` their entries do not exist, therefore `GetMMFParams` does
not return them. This also proves, for all instances, that the disagreement
`director_backfill` shows on a small one is not an accident of bounds.
`ServersConserved` holds of the manager alone, whoever calls it in whatever order:
taking a server out of an entry and putting it into another are two lemmas about
the set of servers (`ServersAfterRemove`, `ServersAfterAdd`), and the director
inherits it because it changes the manager's map only by the manager's own
operations (`DirectorUsesManager`, which holds by the way the two modules are put
together and is no result of its own). `OneFleetOffered` needs that every
entry but the fleets' common one is a backfill's (`OnlyOffers`): with it the two
theorems on what a cycle invokes turn the disagreements that `director_fleets`
and `director_backfill` show on small instances into facts for all of them.
`NeverPanics` needs `SupplyInv`: the fleet's count is at least what later cycles
may take (`Needed`) plus one for each proposal and each accepted match that is
still to take a fleet server (`Claims`); accepting with a backfill and
allocating take from both sides alike.

Fan-in: `ControlInv` says that the WaitGroup counts the readers that have
not returned and the discarded requests (`Discarded`), and one more between
`Add` and the hand-over or the discard; when the count is zero no reader is left,
and it is never zero again once a request was discarded, which is
`DiscardHoldsTheWait`. `MemoryInv` says of the racing
memory that every array holds delivered matches, each once, that a match not
yet written is in no array and names none in use, and that the shared header
fits its array; both ways in which an append writes an element are the lemma
`Written`. `TakingTurns` adds what holds while no two appends overlapped: the one
reader at work has the current header, and what is delivered is in the slice or
in a reader's hand.

Queue: `QueueInv` is one conjunction over requests and ids. The core is
`HandedOver`: the ids that were submitted are the last tickets of the requests
whose goroutines are past the hand-over, and no others; `Remembered` ties the answer OK,
`tracked` and `notified` together, and `Handled` says what a delivery leaves
behind. `ActivationInv` (ids are in one place of the activation and activated
ones are not abandoned) gives the refinement, step by step: collecting and
sending a batch stutter, an attempt is `Attempt`, its end `Activated` or
`GaveUp`, and the queue's hand-over is `Submit` of an id that is new because of
`HandedOver`.

Functions: `FunctionsInv` has a part for each run and one for what they share.
`ControlInv` says what a run has at each of its steps; that the chunk which makes
the count complete is the last one is `LastChunk`, a fact about cardinalities.
`OnceInv` keeps the pool, the match being made, the sent ones and the dropped
tickets apart from each other, and is stronger than `TicketsUsedOnce`, which
speaks of the *set* of matches made and so does not tell the match being made from
a sent one with the same rosters. `ParamsInv` is where runs meet: a parameter
that a run has read from its profile, and on which no profile disagrees, keeps
this value, since whoever writes it writes the same (`WrittenValue`). `ShapeInv`
rests on it: `tixCount` tickets have gone `q` times round the rosters and on to
roster `rem` (`Rotated`); `RotateOnce` says that the ticket at index `tixCount %
desiredNumRosters` continues the rotation, `LowestRotated` that the emptiest roster
then has `q` tickets, and `EnoughRounds` that a pool which passed the loop test
lasts for as many rounds as the minimum. The rest, and that the index is in range, is
arithmetic; the nonlinear part of it is the lemmas `TimesMonotonic` and `DivMod`.

Evaluator and OM1: `EvaluatorInv` says that the used tickets are those of the
results, that what is still sorted is no better than any result, and that what
was left out is blocked by a result at least as good. `FlowInv` follows the
tickets of returned matches through both directors, which hold matches only
while they assign them and wait while an evaluation for them runs. The refinement of
`TicketLife` needs two facts more (`LifeInv`): a ticket a client has still to
create is nowhere yet, and the tickets of an evaluation are still offered when it
ends, since only its own end takes tickets out of the pool; returning the results
is then one `Match` of exactly the offered tickets. Demo UI:
`OrderInv` follows a component's value through the updaters and the byteSub to
the pages: behind each there is only a newer one, or none once the updater has
stopped for good, and a stopped updater's fields are gone from `Run`'s.

*Only model-checked:* the liveness properties, whose fairness and ENABLED are out
of TLAPS's reach: `RejectedTicketsReturn`, `AllCyclesComplete`, `CollectionEnds`,
`EveryRequestAnswered`, `EveryIdSettled`, `EveryAssignmentHandled`, `RunsEnd`,
`PageCatchesUp` and `UpdatesReturn`. The properties of the violated runs are
refuted by their counterexamples.

## Not modelled

Time and the lengths of waits, metrics, logging, the format of messages, the
content of profiles and pools (but for the parameters of the functions, of which
negative ones are left out), and the scores of OM2 matches (the director
ignores them; `v2/examples/mmf/functions/debug/debug.go:189` sets one to the
smallest 32-bit integer to no effect). A crash of a process: nothing is
persisted, and a restarted director starts from `Init` while om-core keeps its
tickets.

Two nil dereferences, both listed as hazards: of a pool's participants when its
first chunk carries none and another chunk repeats the pool
(`v2/examples/mmf/server/server.go:112`), since om-core decides what a chunk
carries, and of the response to a failed post when trace logging is on (`O` 90),
since logging is left out.

The end of a process: `Stop` of the distributors and the cancellation of
contexts by the mains, after which no property is claimed. For the same reason
the path of `ActivateTickets` for a closed channel (`O` 201) is left out: no
caller closes it. `GenerateTestTickets` (`Q` 280-392), the load generator, is
one more source of requests; that it leaks a goroutine when the cycle's deadline
comes first (`Q` 383) is listed as a hazard. The creation of a token source in
`Post` without a lock (`O` 406-414) only happens with a default credential, and
either of two writers stores an equivalent one. The first match client's ticket
stays in Open Match when its scenario ends in an error, as in the code; that
Open Match releases pending tickets after a while is not modelled. Reading
configuration and starting HTTP and gRPC servers has no state worth a model.

Components that are only partly modelled are listed with the reason in
`PROJECT.json`.

## What could follow

1. A composition of `Director` and `MatchmakerQueue` over the distributor, in
   which the rosters that the queue receives are those the director sent, with
   the queue's creation and tracking of a ticket added to `TicketLife`.
2. The end of a process: cancellation, `Stop` and the channel that is closed
   while the director may still send (`v2/examples/matchmaker/main.go:421`).
3. The safety halves of the liveness properties: that a full activation channel
   always has a receiver, that a waiting handler has a sender to wait for.
