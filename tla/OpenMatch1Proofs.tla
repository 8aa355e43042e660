--------------------------- MODULE OpenMatch1Proofs ---------------------------
(***************************************************************************)
(* Whatever is proposed, the evaluator accepts disjoint matches and leaves *)
(* out no match that is better than those in its way; every ticket that    *)
(* Open Match returns is assigned, is still to be assigned, or is given up *)
(* by a director after an error; and the directors implement TicketLife.   *)
(***************************************************************************)
EXTENDS OpenMatch1, TLAPS

-----------------------------------------------------------------------------
(* The evaluator.                                                          *)

\* Why m is not, or not yet, a result.
Blocked(m) == \E n \in results : m.tickets \cap n.tickets # {} /\ n.score >= m.score

\* The slice is sorted: what is still to come is not better than a result.
SortedAfterResults == \A m \in sorted, n \in results : n.score >= m.score

TicketsUsedExactly == ticketsUsed = TicketsOf(results)

LeftOutIsBlocked ==
    \A m \in proposals : m.score # Unreadable => m \in sorted \cup results \/ Blocked(m)

EvaluatorInv ==
    /\ evaluator = "idle" => proposals = {}
    /\ evaluator = "results" => sorted = {}
    /\ sorted \subseteq proposals /\ results \subseteq proposals
    /\ SortedAfterResults /\ TicketsUsedExactly /\ LeftOutIsBlocked
    /\ ResultsDisjoint

LEMMA EvaluatorInitially == EvaluatorInit => EvaluatorInv
BY DEF EvaluatorInit, EvaluatorInv, SortedAfterResults, TicketsUsedExactly, TicketsOf,
       LeftOutIsBlocked, ResultsDisjoint

LEMMA EvaluateStarts == ASSUME NEW ps, Evaluate(ps) PROVE EvaluatorInv'
BY DEF Evaluate, EvaluatorInv, SortedAfterResults, TicketsUsedExactly, TicketsOf,
       LeftOutIsBlocked, ResultsDisjoint

LEMMA EvaluateEnds == EvaluateReturns => EvaluatorInv'
BY DEF EvaluateReturns, EvaluatorInv, SortedAfterResults, TicketsUsedExactly, TicketsOf,
       LeftOutIsBlocked, ResultsDisjoint

\* The tickets used are those of the results, so a match without a used
\* ticket is disjoint from every result, and one with a used ticket has a
\* result in its way; what comes later in the slice is not better.
LEMMA MaybeAddPreserves ==
    ASSUME EvaluatorInv, NEW m \in sorted, MaybeAdd(m)
    PROVE  EvaluatorInv'
<1>1. /\ sorted' = sorted \ {m} /\ UNCHANGED <<evaluator, proposals>>
      /\ evaluator = "sorted" /\ m \in proposals
      /\ \A other \in sorted : m.score >= other.score
  BY DEF MaybeAdd, IsNextMatch, EvaluatorInv
<1>2. CASE m.tickets \cap ticketsUsed = {}
  <2>1. results' = results \cup {m} /\ ticketsUsed' = ticketsUsed \cup m.tickets
    BY <1>2 DEF MaybeAdd
  <2>2. SortedAfterResults'
    BY <1>1, <2>1 DEF EvaluatorInv, SortedAfterResults
  <2>3. TicketsUsedExactly'
    BY <2>1 DEF EvaluatorInv, TicketsUsedExactly, TicketsOf
  <2>4. LeftOutIsBlocked'
    BY <1>1, <2>1 DEF EvaluatorInv, LeftOutIsBlocked, Blocked
  <2>5. \A n \in results : m.tickets \cap n.tickets = {}
    BY <1>2 DEF EvaluatorInv, TicketsUsedExactly, TicketsOf
  <2>6. ResultsDisjoint'
    BY <2>1, <2>5 DEF EvaluatorInv, ResultsDisjoint
  <2> QED
    BY <1>1, <2>1, <2>2, <2>3, <2>4, <2>6 DEF EvaluatorInv
<1>3. CASE m.tickets \cap ticketsUsed # {}
  <2>1. UNCHANGED <<results, ticketsUsed>>
    BY <1>3 DEF MaybeAdd
  <2>2. Blocked(m)
    <3>1. PICK n \in results : m.tickets \cap n.tickets # {}
      BY <1>3 DEF EvaluatorInv, TicketsUsedExactly, TicketsOf
    <3> QED
      BY <3>1 DEF EvaluatorInv, SortedAfterResults, Blocked
  <2>3. LeftOutIsBlocked'
    BY <1>1, <2>1, <2>2 DEF EvaluatorInv, LeftOutIsBlocked, Blocked
  <2> QED
    BY <1>1, <2>1, <2>3 DEF EvaluatorInv, SortedAfterResults, TicketsUsedExactly, TicketsOf,
                            ResultsDisjoint
<1> QED
  BY <1>2, <1>3

LEMMA EvaluatorStepPreserves ==
    ASSUME EvaluatorInv, EvaluatorStep \/ UNCHANGED evaluatorVars
    PROVE  EvaluatorInv'
<1>1. CASE SendResults
  BY <1>1 DEF SendResults, EvaluatorInv, SortedAfterResults, TicketsUsedExactly, TicketsOf,
              LeftOutIsBlocked, Blocked, ResultsDisjoint
<1>2. CASE \E m \in sorted : MaybeAdd(m)
  BY <1>2, MaybeAddPreserves
<1>3. CASE UNCHANGED evaluatorVars
  BY <1>3 DEF evaluatorVars, EvaluatorInv, SortedAfterResults, TicketsUsedExactly, TicketsOf,
              LeftOutIsBlocked, Blocked, ResultsDisjoint
<1> QED
  BY <1>1, <1>2, <1>3 DEF EvaluatorStep

\* The evaluator's variables change in four ways only.
LEMMA EvaluatorActions ==
    ASSUME [Next]_vars
    PROVE  \/ \E ps : Evaluate(ps)
           \/ EvaluateReturns
           \/ EvaluatorStep
           \/ UNCHANGED evaluatorVars
<1>1. CASE \E c \in Clients : ClientStep(c)
  BY <1>1 DEF ClientStep, StartScenario, CreateTicket, AwaitAssignment, ClientGoes
<1>2. CASE DirectorStep
  BY <1>2 DEF DirectorStep, Fetch, FetchFails, AssignFails, AllAssigned, Assign
<1>3. CASE AllocatorStep
  BY <1>3 DEF AllocatorStep, AllocatorFetch, AllocatorReturns, Allocate, AssignAllocated,
              DeleteGameServer, DeleteFails
<1>4. CASE OpenMatchStep
  BY <1>4 DEF OpenMatchStep, StartEvaluation, RunEvaluator, ReturnMatches, EvaluationFails
<1>5. CASE UNCHANGED vars
  BY <1>5 DEF vars
<1> QED
  BY <1>1, <1>2, <1>3, <1>4, <1>5 DEF Next

LEMMA EvaluatorIsInvariant == Spec => []EvaluatorInv
<1>1. Init => EvaluatorInv
  BY EvaluatorInitially DEF Init
<1>2. EvaluatorInv /\ [Next]_vars => EvaluatorInv'
  BY EvaluatorActions, EvaluateStarts, EvaluateEnds, EvaluatorStepPreserves
<1> QED
  BY <1>1, <1>2, PTL DEF Spec

\* maybeAdd: no ticket is in two of the evaluator's results, for any number
\* of proposals with any tickets.
THEOREM ResultsAreDisjoint == Spec => []ResultsDisjoint
<1>1. EvaluatorInv => ResultsDisjoint
  BY DEF EvaluatorInv
<1> QED
  BY <1>1, EvaluatorIsInvariant, PTL

\* evaluate: the results are maximal and greedy by score, for any proposals,
\* also among equal scores, which sort.Sort may leave in any order.
THEOREM NoBetterIsLeftOut == Spec => []NoBetterLeftOut
<1>1. EvaluatorInv => NoBetterLeftOut
  BY DEF EvaluatorInv, LeftOutIsBlocked, Blocked, NoBetterLeftOut
<1> QED
  BY <1>1, EvaluatorIsInvariant, PTL

-----------------------------------------------------------------------------
(* Tickets of a union of matches.                                          *)

LEMMA TicketsOfUnion == \A S, T : TicketsOf(S \cup T) = TicketsOf(S) \cup TicketsOf(T)
BY DEF TicketsOf

LEMMA TicketsOfNone == TicketsOf({}) = {}
BY DEF TicketsOf

LEMMA TicketsOfOne == \A m : TicketsOf({m}) = m.tickets
BY DEF TicketsOf

\* One match of S, of S, T and U, taken out.
LEMMA TicketsOfSplit ==
    \A S, T, U : \A m \in S :
        TicketsOf(S \cup T \cup U) = TicketsOf((S \ {m}) \cup T \cup U) \cup m.tickets
BY DEF TicketsOf

-----------------------------------------------------------------------------
(* The way of a ticket.                                                    *)

\* While an evaluation runs, the directors that take part wait for it and
\* every proposal is for one of them.
FetchingWait ==
    /\ fetching \subseteq {"director", "allocator"}
    /\ "director" \in fetching => director = "fetch"
    /\ "allocator" \in fetching => allocator = "fetch"
    /\ \A m \in proposals : m.by \in fetching /\ m.tickets \subseteq Tickets

\* A director only has matches while it assigns them.
MatchesInHand ==
    /\ director # "assign" => matches = {}
    /\ allocator # "stream" => streamed = {} /\ holding = {}

FlowInv ==
    /\ pool \subseteq Tickets /\ returned \subseteq Tickets
    /\ FetchingWait /\ MatchesInHand
    /\ ReturnedTicketsAccountedFor

ClientsOK ==
    /\ client \in [Clients -> [at : {"menu", "create", "wait", "play", "error"}, n : 0..Scenarios]]
    /\ \A c \in Clients : client[c].at = "create" => client[c].n # 0

LEMMA FlowInitially == Init => FlowInv
BY DEF Init, EvaluatorInit, FlowInv, FetchingWait, MatchesInHand,
       ReturnedTicketsAccountedFor, TicketsOf

LEMMA ClientFlow ==
    ASSUME FlowInv, ClientsOK, NEW c \in Clients, ClientStep(c)
    PROVE  FlowInv'
<1>1. /\ UNCHANGED <<evaluatorVars, directorVars, allocatorVars, fetching, returned, assigned, forsaken>>
      /\ pool' \in {pool, pool \cup {<<c, client[c].n>>}}
      /\ pool' # pool => client[c].n \in 1..Scenarios
  BY DEF ClientsOK, ClientStep, StartScenario, CreateTicket, AwaitAssignment, ClientGoes, openMatchVars
<1> QED
  BY <1>1 DEF FlowInv, FetchingWait, MatchesInHand, ReturnedTicketsAccountedFor, TicketsOf,
              Tickets, evaluatorVars, directorVars, allocatorVars

LEMMA DirectorFlow ==
    ASSUME FlowInv, DirectorStep
    PROVE  FlowInv'
<1> USE DEF FlowInv, FetchingWait, MatchesInHand, ReturnedTicketsAccountedFor,
            evaluatorVars, allocatorVars, openMatchVars
<1>1. CASE Fetch \/ FetchFails \/ AllAssigned
  BY <1>1 DEF Fetch, FetchFails, AllAssigned, TicketsOf
<1>2. CASE AssignFails
  <2>1. TicketsOf(matches \cup streamed \cup holding)
          = TicketsOf(matches) \cup TicketsOf(streamed \cup holding)
    BY TicketsOfUnion
  <2>2. TicketsOf(matches' \cup streamed' \cup holding') = TicketsOf(streamed \cup holding)
    BY <1>2 DEF AssignFails
  <2>3. ReturnedTicketsAccountedFor'
    BY <1>2, <2>1, <2>2 DEF AssignFails, Forsake
  <2> QED
    BY <1>2, <2>3 DEF AssignFails
<1>3. ASSUME NEW m \in matches, Assign(m)
      PROVE  FlowInv'
  <2>1. TicketsOf(matches \cup streamed \cup holding)
          = TicketsOf((matches \ {m}) \cup streamed \cup holding) \cup m.tickets
    BY DEF TicketsOf
  <2>2. ReturnedTicketsAccountedFor'
    BY <1>3, <2>1 DEF Assign
  <2> QED
    BY <1>3, <2>2 DEF Assign
<1> QED
  BY <1>1, <1>2, <1>3 DEF DirectorStep

LEMMA AllocatorFlow ==
    ASSUME FlowInv, AllocatorStep
    PROVE  FlowInv'
<1> USE DEF FlowInv, FetchingWait, MatchesInHand, ReturnedTicketsAccountedFor,
            evaluatorVars, directorVars, openMatchVars
<1>1. CASE AllocatorFetch
  BY <1>1 DEF AllocatorFetch
<1>2. CASE AllocatorReturns
  <2>1. TicketsOf(matches \cup streamed \cup holding)
          = TicketsOf(matches' \cup streamed' \cup holding') \cup TicketsOf(streamed)
    BY <1>2, TicketsOfUnion, TicketsOfNone DEF AllocatorReturns
  <2> QED
    BY <1>2, <2>1 DEF AllocatorReturns, Forsake
<1>3. ASSUME NEW m \in streamed, Allocate(m)
      PROVE  FlowInv'
  <2>1. TicketsOf(streamed \cup matches \cup holding)
          = TicketsOf((streamed \ {m}) \cup matches \cup holding) \cup m.tickets
    BY DEF TicketsOf
  <2> QED
    BY <1>3, <2>1, TicketsOfUnion, TicketsOfOne DEF Allocate, Forsake
<1>4. CASE AssignAllocated
  BY <1>4, TicketsOfUnion, TicketsOfNone DEF AssignAllocated
<1>5. CASE DeleteGameServer
  BY <1>5, TicketsOfUnion, TicketsOfNone DEF DeleteGameServer, Forsake
<1>6. CASE DeleteFails
  BY <1>6, TicketsOfUnion, TicketsOfNone DEF DeleteFails, Forsake
<1> QED
  BY <1>1, <1>2, <1>3, <1>4, <1>5, <1>6 DEF AllocatorStep

\* Proposals are of tickets in the pool.
LEMMA RunMmfProposes ==
    ASSUME NEW tickets, NEW ms \in RunMmf(tickets), NEW m \in ms
    PROVE  m.by = "director" /\ m.tickets \subseteq tickets
BY DEF RunMmf, Pairs

LEMMA StartEvaluationFlow ==
    ASSUME FlowInv, StartEvaluation
    PROVE  FlowInv'
<1>1. PICK ps \in RunMmf(pool), qs \in Proposals(pool) :
        proposals' = (IF "director" \in fetching' THEN ps ELSE {})
                       \cup (IF "allocator" \in fetching' THEN qs ELSE {})
  BY DEF StartEvaluation, Evaluate
<1>2. \A m \in qs : m.by = "allocator" /\ m.tickets \subseteq pool
  BY ProposalsAssumption DEF FlowInv
<1>3. \A m \in proposals' : m.by \in fetching' /\ m.tickets \subseteq Tickets
  BY <1>1, <1>2, RunMmfProposes DEF FlowInv
<1>4. /\ fetching' \subseteq {"director", "allocator"}
      /\ "director" \in fetching' => director = "fetch"
      /\ "allocator" \in fetching' => allocator = "fetch"
      /\ UNCHANGED <<directorVars, allocatorVars, pool, returned, assigned, forsaken>>
  BY DEF StartEvaluation
<1> QED
  BY <1>3, <1>4 DEF FlowInv, FetchingWait, MatchesInHand, ReturnedTicketsAccountedFor,
                    directorVars, allocatorVars

\* The results are divided between the directors.
Own(d) == {m \in results : m.by = d}

LEMMA ResultsDivided ==
    ASSUME FlowInv, EvaluatorInv, ReturnMatches
    PROVE  /\ results = Own("director") \cup Own("allocator")
           /\ "director" \notin fetching => Own("director") = {}
           /\ "allocator" \notin fetching => Own("allocator") = {}
           /\ "director" \in fetching => matches = {}
           /\ "allocator" \in fetching => streamed = {} /\ holding = {}
           /\ UNCHANGED <<holding, assigned>>
           /\ \/ /\ \/ "director" \in fetching /\ director' = "assign" /\ matches' = Own("director")
                    \/ "director" \notin fetching /\ UNCHANGED <<director, matches>>
                 /\ UNCHANGED forsaken
              \/ /\ "director" \in fetching /\ director' = "error" /\ UNCHANGED matches
                 /\ forsaken' = forsaken \cup TicketsOf(Own("director"))
           /\ \/ "allocator" \in fetching /\ allocator' = "stream" /\ streamed' = Own("allocator")
              \/ "allocator" \notin fetching /\ UNCHANGED <<allocator, streamed>>
<1>1. /\ results = Own("director") \cup Own("allocator")
      /\ "director" \notin fetching => Own("director") = {}
      /\ "allocator" \notin fetching => Own("allocator") = {}
  BY DEF FlowInv, FetchingWait, EvaluatorInv, Own
<1>2. /\ "director" \in fetching => matches = {}
      /\ "allocator" \in fetching => streamed = {} /\ holding = {}
  BY DEF FlowInv, FetchingWait, MatchesInHand
<1> QED
  BY <1>1, <1>2 DEF ReturnMatches, directorVars, Forsake, Own

LEMMA ReturnMatchesFlow ==
    ASSUME FlowInv, EvaluatorInv, ReturnMatches
    PROVE  FlowInv'
<1>1. /\ returned' = returned \cup TicketsOf(results)
      /\ fetching' = {} /\ proposals' = {} /\ pool' \subseteq pool
  BY DEF ReturnMatches, EvaluateReturns
<1>2. MatchesInHand'
  BY ResultsDivided DEF FlowInv, MatchesInHand
<1>3. TicketsOf(results) = TicketsOf(Own("director")) \cup TicketsOf(Own("allocator"))
  BY ResultsDivided, TicketsOfUnion
<1>4. ReturnedTicketsAccountedFor'
  BY <1>1, <1>3, ResultsDivided, TicketsOfUnion, TicketsOfNone
     DEF FlowInv, ReturnedTicketsAccountedFor
<1>5. returned' \subseteq Tickets
  BY <1>1 DEF FlowInv, FetchingWait, EvaluatorInv, TicketsOf
<1> QED
  BY <1>1, <1>2, <1>4, <1>5 DEF FlowInv, FetchingWait

LEMMA OpenMatchFlow ==
    ASSUME FlowInv, EvaluatorInv, OpenMatchStep
    PROVE  FlowInv'
<1>1. CASE RunEvaluator
  BY <1>1 DEF RunEvaluator, EvaluatorStep, SendResults, MaybeAdd, directorVars, allocatorVars,
              openMatchVars, FlowInv, FetchingWait, MatchesInHand, ReturnedTicketsAccountedFor
<1>2. CASE EvaluationFails
  BY <1>2 DEF EvaluationFails, EvaluateReturns, FlowInv, FetchingWait, MatchesInHand,
              ReturnedTicketsAccountedFor
<1> QED
  BY <1>1, <1>2, StartEvaluationFlow, ReturnMatchesFlow DEF OpenMatchStep

LEMMA ClientsStepOK ==
    ASSUME ClientsOK, [Next]_vars
    PROVE  ClientsOK'
<1>1. ASSUME NEW c \in Clients, StartScenario(c)
      PROVE  ClientsOK'
  BY <1>1, OpenMatch1Assumption DEF StartScenario, ClientsOK
<1>2. ASSUME NEW c \in Clients, CreateTicket(c) \/ AwaitAssignment(c)
      PROVE  ClientsOK'
  BY <1>2 DEF CreateTicket, AwaitAssignment, ClientGoes, ClientsOK
<1>3. CASE DirectorStep
  BY <1>3 DEF DirectorStep, Fetch, FetchFails, AssignFails, AllAssigned, Assign, ClientsOK
<1>4. CASE AllocatorStep
  BY <1>4 DEF AllocatorStep, AllocatorFetch, AllocatorReturns, Allocate, AssignAllocated,
              DeleteGameServer, DeleteFails, ClientsOK
<1>5. CASE OpenMatchStep
  BY <1>5 DEF OpenMatchStep, StartEvaluation, RunEvaluator, ReturnMatches, EvaluationFails, ClientsOK
<1>6. CASE UNCHANGED vars
  BY <1>6 DEF vars, ClientsOK
<1> QED
  BY <1>1, <1>2, <1>3, <1>4, <1>5, <1>6 DEF Next, ClientStep

FlowIInv == EvaluatorInv /\ ClientsOK /\ FlowInv

LEMMA FlowIsInvariant == Spec => []FlowIInv
<1>1. Init => FlowIInv
  BY EvaluatorInitially, FlowInitially, OpenMatch1Assumption DEF Init, FlowIInv, ClientsOK
<1>2. FlowIInv /\ [Next]_vars => FlowIInv'
  <2> SUFFICES ASSUME FlowIInv, [Next]_vars PROVE FlowIInv'
    OBVIOUS
  <2>1. EvaluatorInv' /\ ClientsOK'
    BY EvaluatorActions, EvaluateStarts, EvaluateEnds, EvaluatorStepPreserves, ClientsStepOK
       DEF FlowIInv
  <2>2. FlowInv /\ ClientsOK /\ EvaluatorInv
    BY DEF FlowIInv
  <2>3. ASSUME UNCHANGED vars PROVE FlowInv'
    BY <2>2, <2>3 DEF vars, FlowInv, FetchingWait, MatchesInHand, ReturnedTicketsAccountedFor,
                      evaluatorVars, directorVars, allocatorVars, openMatchVars
  <2>4. ASSUME NEW c \in Clients, ClientStep(c) PROVE FlowInv'
    BY <2>2, <2>4, ClientFlow
  <2>5. ASSUME DirectorStep \/ AllocatorStep \/ OpenMatchStep PROVE FlowInv'
    BY <2>2, <2>5, DirectorFlow, AllocatorFlow, OpenMatchFlow
  <2>6. FlowInv'
    BY <2>3, <2>4, <2>5 DEF Next, FlowIInv
  <2> QED
    BY <2>1, <2>6 DEF FlowIInv
<1> QED
  BY <1>1, <1>2, PTL DEF Spec

\* The directors of both demos: a ticket of a match that Open Match returned
\* is assigned, still in a director's hands, or given up with an error, for
\* any number of clients, scenarios and evaluations.
THEOREM ReturnedTicketsAreAccountedFor == Spec => []ReturnedTicketsAccountedFor
<1>1. FlowIInv => ReturnedTicketsAccountedFor
  BY DEF FlowIInv, FlowInv
<1> QED
  BY <1>1, FlowIsInvariant, PTL

-----------------------------------------------------------------------------
(* Types.                                                                  *)

DirectorsOK ==
    /\ director \in {"connect", "fetch", "assign", "sleep", "error"}
    /\ allocator \in {"connect", "fetch", "stream", "sleep"}
    /\ holding = {} \/ \E m \in holding : holding = {m}

LEMMA DirectorsStepOK ==
    ASSUME DirectorsOK, [Next]_vars
    PROVE  DirectorsOK'
<1> USE DEF DirectorsOK, directorVars, allocatorVars
<1>1. CASE \E c \in Clients : ClientStep(c)
  BY <1>1 DEF ClientStep, StartScenario, CreateTicket, AwaitAssignment, ClientGoes
<1>2. CASE DirectorStep
  BY <1>2 DEF DirectorStep, Fetch, FetchFails, AssignFails, AllAssigned, Assign
<1>3. CASE AllocatorStep
  BY <1>3 DEF AllocatorStep, AllocatorFetch, AllocatorReturns, Allocate, AssignAllocated,
              DeleteGameServer, DeleteFails
<1>4. CASE OpenMatchStep
  BY <1>4 DEF OpenMatchStep, StartEvaluation, RunEvaluator, ReturnMatches, EvaluationFails
<1>5. CASE UNCHANGED vars
  BY <1>5 DEF vars
<1> QED
  BY <1>1, <1>2, <1>3, <1>4, <1>5 DEF Next

\* The types of the programs' states: the Agones director never holds two
\* game servers, and no ticket comes from nowhere.
THEOREM OpenMatch1TypeCorrect == Spec => []TypeOK
<1>1. Init => DirectorsOK
  BY DEF Init, DirectorsOK
<1>2. DirectorsOK /\ [Next]_vars => DirectorsOK'
  BY DirectorsStepOK
<1>3. DirectorsOK /\ FlowIInv => TypeOK
  BY DEF DirectorsOK, FlowIInv, FlowInv, ClientsOK, ReturnedTicketsAccountedFor, TypeOK
<1> QED
  BY <1>1, <1>2, <1>3, FlowIsInvariant, PTL DEF Spec

-----------------------------------------------------------------------------
(* The life of a ticket.                                                   *)

\* A ticket the client has still to create.
Unborn(c, k) == k > client[c].n \/ (k = client[c].n /\ client[c].at = "create")

CreatedLater ==
    \A c \in Clients, k \in 1..Scenarios : Unborn(c, k) => <<c, k>> \notin pool \cup returned

\* An evaluation is about tickets that are still offered when it ends.
ProposalsOffered == \A m \in proposals : m.tickets \subseteq pool

LifeInv == CreatedLater /\ ProposalsOffered

LEMMA ReturnsFromPool ==
    ASSUME EvaluatorInv, ProposalsOffered, ReturnMatches
    PROVE  /\ TicketsOf(results) \subseteq pool
           /\ pool' = pool \ TicketsOf(results)
           /\ returned' = returned \cup TicketsOf(results)
BY DEF EvaluatorInv, TicketsUsedExactly, ProposalsOffered, ReturnMatches, TicketsOf

LEMMA ClientLater ==
    ASSUME ClientsOK, LifeInv, NEW c \in Clients, ClientStep(c)
    PROVE  LifeInv'
<1>1. pool \subseteq pool' /\ UNCHANGED <<proposals, returned>>
  BY DEF ClientStep, StartScenario, CreateTicket, AwaitAssignment, ClientGoes, evaluatorVars,
         openMatchVars
<1>2. ProposalsOffered'
  BY <1>1 DEF LifeInv, ProposalsOffered
<1>3. ASSUME NEW d \in Clients, NEW k \in 1..Scenarios, Unborn(d, k)'
      PROVE  <<d, k>> \notin (pool \cup returned)'
  <2>1. /\ client \in [Clients -> [at : {"menu", "create", "wait", "play", "error"},
                                   n : 0..Scenarios]]
        /\ Scenarios \in Nat
    BY OpenMatch1Assumption DEF ClientsOK
  <2>2. CASE StartScenario(c)
    <3>1. client' = [client EXCEPT ![c] = [at |-> "create", n |-> client[c].n + 1]]
      BY <2>2 DEF StartScenario
    <3>2. Unborn(d, k)
      BY <1>3, <2>1, <3>1 DEF Unborn
    <3> QED
      BY <1>1, <2>2, <3>2 DEF StartScenario, openMatchVars, LifeInv, CreatedLater
  <2>3. CASE CreateTicket(c) \/ AwaitAssignment(c)
    <3>1. PICK at \in {"wait", "play", "error"} : client' = [client EXCEPT ![c].at = at]
      BY <2>3 DEF CreateTicket, AwaitAssignment, ClientGoes
    <3>2. Unborn(d, k) /\ ~(d = c /\ k = client[c].n)
      BY <1>3, <2>1, <3>1 DEF Unborn
    <3>3. pool' \subseteq pool \cup {<<c, client[c].n>>}
      BY <2>3 DEF CreateTicket, AwaitAssignment
    <3> QED
      BY <1>1, <3>2, <3>3 DEF LifeInv, CreatedLater
  <2> QED
    BY <2>2, <2>3 DEF ClientStep
<1> QED
  BY <1>2, <1>3 DEF LifeInv, CreatedLater

LEMMA ProgramsLater ==
    ASSUME FlowInv, EvaluatorInv, LifeInv,
           DirectorStep \/ AllocatorStep \/ OpenMatchStep \/ UNCHANGED vars
    PROVE  LifeInv'
<1>1. CASE StartEvaluation
  <2>1. PICK ps \in RunMmf(pool), qs \in Proposals(pool) : proposals' \subseteq ps \cup qs
    BY <1>1 DEF StartEvaluation, Evaluate
  <2>2. \A m \in ps \cup qs : m.tickets \subseteq pool
    BY ProposalsAssumption, RunMmfProposes DEF FlowInv
  <2>3. UNCHANGED <<pool, returned, client>>
    BY <1>1 DEF StartEvaluation
  <2> QED
    BY <2>1, <2>2, <2>3 DEF LifeInv, ProposalsOffered, CreatedLater, Unborn
<1>2. CASE ReturnMatches
  <2>1. (pool \cup returned)' = pool \cup returned
    BY <1>2, ReturnsFromPool DEF LifeInv
  <2>2. proposals' = {} /\ UNCHANGED client
    BY <1>2 DEF ReturnMatches, EvaluateReturns
  <2> QED
    BY <2>1, <2>2 DEF LifeInv, ProposalsOffered, CreatedLater, Unborn
<1>3. CASE EvaluationFails
  BY <1>3 DEF EvaluationFails, EvaluateReturns, LifeInv, ProposalsOffered, CreatedLater, Unborn
<1>4. CASE RunEvaluator \/ DirectorStep \/ AllocatorStep \/ UNCHANGED vars
  <2>1. UNCHANGED <<pool, returned, client, proposals>>
    BY <1>4 DEF RunEvaluator, EvaluatorStep, SendResults, MaybeAdd, DirectorStep, Fetch, FetchFails,
                AssignFails, AllAssigned, Assign, AllocatorStep, AllocatorFetch, AllocatorReturns,
                Allocate, AssignAllocated, DeleteGameServer, DeleteFails, vars, evaluatorVars,
                openMatchVars
  <2> QED
    BY <2>1 DEF LifeInv, ProposalsOffered, CreatedLater, Unborn
<1> QED
  BY <1>1, <1>2, <1>3, <1>4 DEF OpenMatchStep

LEMMA LifeIsInvariant == Spec => []LifeInv
<1>1. Init => LifeInv
  BY DEF Init, EvaluatorInit, LifeInv, CreatedLater, ProposalsOffered
<1>2. FlowIInv /\ LifeInv /\ [Next]_vars => LifeInv'
  BY ClientLater, ProgramsLater DEF FlowIInv, Next
<1> QED
  BY <1>1, <1>2, FlowIsInvariant, PTL DEF Spec

InHand == TicketsOf(matches \cup streamed \cup holding)

LEMMA InHandParts ==
    /\ InHand = TicketsOf(matches) \cup TicketsOf(streamed) \cup TicketsOf(holding)
    /\ InHand' = TicketsOf(matches') \cup TicketsOf(streamed') \cup TicketsOf(holding')
BY DEF InHand, TicketsOf

LEMMA LifeStutter ==
    ASSUME UNCHANGED <<pool, returned, matches, streamed, holding, assigned, forsaken>>
    PROVE  UNCHANGED Life!lifeVars
BY DEF Life!lifeVars, TicketsOf

LEMMA LifeCreate ==
    ASSUME ClientsOK, LifeInv, NEW c \in Clients, ClientStep(c)
    PROVE  [Life!Next]_(Life!lifeVars)
<1>1. UNCHANGED <<returned, matches, streamed, holding, assigned, forsaken>>
  BY DEF ClientStep, StartScenario, CreateTicket, AwaitAssignment, ClientGoes, openMatchVars,
         directorVars, allocatorVars
<1>2. CASE UNCHANGED pool
  BY <1>1, <1>2, LifeStutter
<1>3. CASE ~UNCHANGED pool
  <2> DEFINE t == <<c, client[c].n>>
  <2>1. client[c].at = "create" /\ pool' = pool \cup {t}
    BY <1>3 DEF ClientStep, StartScenario, CreateTicket, AwaitAssignment, openMatchVars
  <2>2. client[c].n \in 1..Scenarios
    BY <2>1, OpenMatch1Assumption DEF ClientsOK
  <2>3. t \in Tickets /\ t \notin pool \cup returned
    BY <2>1, <2>2 DEF Tickets, LifeInv, CreatedLater, Unborn
  <2> HIDE DEF t
  <2>4. InHand' = InHand
    BY <1>1 DEF InHand, TicketsOf
  <2>5. Life!Create(t)
    BY <1>1, <2>1, <2>3, <2>4 DEF Life!Create, InHand
  <2> QED
    BY <2>3, <2>5 DEF Life!Next
<1> QED
  BY <1>2, <1>3

\* What is given up is one or several matches in hand.
LEMMA LifeForsake ==
    ASSUME NEW ms, TicketsOf(ms) \subseteq InHand, Forsake(ms),
           InHand \ TicketsOf(ms) \subseteq InHand', InHand' \subseteq InHand,
           UNCHANGED <<pool, returned, assigned>>
    PROVE  Life!Next
<1>1. Life!FailToAssign(TicketsOf(ms), FALSE)
  BY DEF Life!FailToAssign, Life!Without, Forsake, InHand
<1> QED
  BY <1>1 DEF Life!Next, InHand

LEMMA LifeAssign ==
    ASSUME NEW ms, TicketsOf(ms) \subseteq InHand, assigned' = assigned \cup TicketsOf(ms),
           InHand \ TicketsOf(ms) \subseteq InHand', InHand' \subseteq InHand,
           UNCHANGED <<pool, returned, forsaken>>
    PROVE  Life!Next
<1>1. Life!Assign(TicketsOf(ms))
  BY DEF Life!Assign, Life!Without, InHand
<1> QED
  BY <1>1 DEF Life!Next, InHand

LEMMA LifeDirector ==
    ASSUME DirectorStep
    PROVE  [Life!Next]_(Life!lifeVars)
<1>1. UNCHANGED <<pool, returned, streamed, holding>>
  BY DEF DirectorStep, Fetch, FetchFails, AssignFails, AllAssigned, Assign, allocatorVars,
         openMatchVars
<1>2. CASE Fetch \/ FetchFails \/ AllAssigned
  BY <1>1, <1>2, LifeStutter DEF Fetch, FetchFails, AllAssigned
<1>3. CASE AssignFails
  <2>1. matches' = {} /\ Forsake(matches) /\ UNCHANGED assigned
    BY <1>3 DEF AssignFails
  <2> QED
    BY <1>1, <2>1, LifeForsake, InHandParts, TicketsOfNone
<1>4. ASSUME NEW m \in matches, Assign(m)
      PROVE  Life!Next
  <2>1. /\ matches' = matches \ {m} /\ assigned' = assigned \cup TicketsOf({m})
        /\ UNCHANGED forsaken
    BY <1>4, TicketsOfOne DEF Assign
  <2>2. TicketsOf(matches) = TicketsOf(matches \ {m}) \cup TicketsOf({m})
    BY DEF TicketsOf
  <2> QED
    BY <1>1, <2>1, <2>2, LifeAssign, InHandParts
<1> QED
  BY <1>2, <1>3, <1>4 DEF DirectorStep

LEMMA LifeAllocator ==
    ASSUME AllocatorStep
    PROVE  [Life!Next]_(Life!lifeVars)
<1>1. UNCHANGED <<pool, returned, matches>>
  BY DEF AllocatorStep, AllocatorFetch, AllocatorReturns, Allocate, AssignAllocated,
         DeleteGameServer, DeleteFails, directorVars, openMatchVars
<1>2. CASE AllocatorFetch
  BY <1>1, <1>2, LifeStutter DEF AllocatorFetch
<1>3. CASE AllocatorReturns
  <2>1. streamed' = {} /\ Forsake(streamed) /\ UNCHANGED <<assigned, holding>>
    BY <1>3 DEF AllocatorReturns
  <2> QED
    BY <1>1, <2>1, LifeForsake, InHandParts, TicketsOfNone
<1>4. ASSUME NEW m \in streamed, Allocate(m)
      PROVE  [Life!Next]_(Life!lifeVars)
  <2>1. streamed' = streamed \ {m} /\ holding = {} /\ UNCHANGED assigned
    BY <1>4 DEF Allocate
  <2>2. CASE holding' = {m} /\ UNCHANGED forsaken
    <3>1. InHand' = InHand
      BY <1>1, <2>1, <2>2 DEF InHand, TicketsOf
    <3> QED
      BY <1>1, <2>1, <2>2, <3>1 DEF Life!lifeVars, InHand
  <2>3. CASE Forsake({m}) /\ UNCHANGED holding
    BY <1>1, <2>1, <2>3, LifeForsake DEF InHand, TicketsOf
  <2> QED
    BY <1>4, <2>2, <2>3 DEF Allocate
<1>5. CASE AssignAllocated
  <2>1. /\ holding' = {} /\ assigned' = assigned \cup TicketsOf(holding)
        /\ UNCHANGED <<streamed, forsaken>>
    BY <1>5 DEF AssignAllocated
  <2> QED
    BY <1>1, <2>1, LifeAssign, InHandParts, TicketsOfNone
<1>6. CASE DeleteGameServer
  <2>1. holding' = {} /\ Forsake(holding) /\ UNCHANGED <<streamed, assigned>>
    BY <1>6 DEF DeleteGameServer
  <2> QED
    BY <1>1, <2>1, LifeForsake, InHandParts, TicketsOfNone
<1>7. CASE DeleteFails
  <2>1. holding' = {} /\ streamed' = {} /\ Forsake(holding \cup streamed) /\ UNCHANGED assigned
    BY <1>7 DEF DeleteFails
  <2>2. TicketsOf(holding \cup streamed) = TicketsOf(holding) \cup TicketsOf(streamed)
    BY TicketsOfUnion
  <2> QED
    BY <1>1, <2>1, <2>2, LifeForsake, InHandParts, TicketsOfNone
<1> QED
  BY <1>2, <1>3, <1>4, <1>5, <1>6, <1>7 DEF AllocatorStep

\* Open Match returns tickets it offers; those of a stream that breaks do
\* not get into the director's hands.
LEMMA LifeReturn ==
    ASSUME FlowInv, EvaluatorInv, LifeInv, ReturnMatches
    PROVE  Life!Next
<1> DEFINE s == TicketsOf(results)
           own == TicketsOf(Own("director"))
           others == TicketsOf(Own("allocator"))
<1>1. s \subseteq pool /\ pool' = pool \ s /\ returned' = returned \cup s
  BY ReturnsFromPool DEF LifeInv
<1>2. s \in SUBSET Tickets
  BY <1>1 DEF FlowInv
<1>3. s = own \cup others
  BY ResultsDivided, TicketsOfUnion
<1>4. TicketsOf(streamed') \cup TicketsOf(holding')
         = TicketsOf(streamed) \cup TicketsOf(holding) \cup others
  BY ResultsDivided, TicketsOfNone
<1>5. \/ TicketsOf(matches') = TicketsOf(matches) \cup own /\ forsaken' = forsaken
      \/ matches' = matches /\ forsaken' = forsaken \cup own
  BY ResultsDivided, TicketsOfNone
<1> HIDE DEF s, own, others
<1>6. PICK dropped \in {{}, own} :
        /\ forsaken' = forsaken \cup dropped
        /\ (InHand \cup s) \ dropped \subseteq InHand'
        /\ InHand' \subseteq InHand \cup s
  BY <1>3, InHandParts, <1>4, <1>5
<1>7. dropped \in SUBSET (InHand \cup s)
  BY <1>3, <1>6
<1>8. (Tickets \ (pool \cup returned))' = Tickets \ (pool \cup returned) /\ assigned' = assigned
  <2>1. pool' \cup returned' = pool \cup returned
    BY <1>1
  <2> QED
    BY <2>1, ResultsDivided
<1>9. Life!Match(s)
  BY <1>1, <1>6, <1>7, <1>8 DEF Life!Match, Life!Without, InHand
<1> QED
  BY <1>2, <1>9 DEF Life!Next

LEMMA LifeNext == FlowIInv /\ LifeInv /\ [Next]_vars => [Life!Next]_(Life!lifeVars)
<1> SUFFICES ASSUME FlowIInv, LifeInv, [Next]_vars
             PROVE  [Life!Next]_(Life!lifeVars)
  OBVIOUS
<1>1. FlowInv /\ EvaluatorInv /\ ClientsOK
  BY DEF FlowIInv
<1>2. ASSUME RunEvaluator \/ EvaluationFails \/ StartEvaluation \/ UNCHANGED vars
      PROVE  UNCHANGED Life!lifeVars
  BY <1>2, LifeStutter DEF RunEvaluator, EvaluationFails, StartEvaluation, vars, directorVars,
                           allocatorVars, openMatchVars
<1> QED
  BY <1>1, <1>2, LifeCreate, LifeDirector, LifeAllocator, LifeReturn DEF Next, OpenMatchStep

\* Nothing is offered again once it was returned to a director, who assigns
\* it or gives it up after an error; and a director assigns only what it was
\* given.
THEOREM DirectorsKeepTickets == Spec => TicketSpec
<1>1. Init => Life!Init
  <2> SUFFICES ASSUME Init PROVE Life!Init
    OBVIOUS
  <2>1. TicketsOf(matches \cup streamed \cup holding) = {} /\ pool = {} /\ returned = {}
    BY DEF Init, TicketsOf
  <2> QED
    BY <2>1 DEF Init, Life!Init
<1> QED
  BY <1>1, LifeNext, FlowIsInvariant, LifeIsInvariant, PTL DEF Spec, TicketSpec, Life!Spec
===============================================================================
