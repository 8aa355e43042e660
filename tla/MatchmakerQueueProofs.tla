------------------------- MODULE MatchmakerQueueProofs -------------------------
(***************************************************************************)
(* ActivateTickets keeps its promise, and the queue makes one ticket of a  *)
(* player matchable, answers truthfully and notifies once, for every set   *)
(* of requests, capacity, batch size and number of deliveries.             *)
(***************************************************************************)
EXTENDS MatchmakerQueue, TLAPS, FiniteSetTheorems

-----------------------------------------------------------------------------
(* The channel of ids.                                                     *)

NoDuplicates(q) == \A i, j \in 1..Len(q) : q[i] = q[j] => i = j

LEMMA AppendToChannel ==
    ASSUME NEW S, NEW q \in Seq(S), NEW e \in S, e \notin ToSet(q), NoDuplicates(q)
    PROVE  /\ ToSet(Append(q, e)) = ToSet(q) \cup {e}
           /\ NoDuplicates(Append(q, e))
<1>1. /\ DOMAIN Append(q, e) = 1..(Len(q) + 1) /\ DOMAIN q = 1..Len(q)
      /\ Len(Append(q, e)) = Len(q) + 1
      /\ Append(q, e)[Len(q) + 1] = e
      /\ \A i \in 1..Len(q) : Append(q, e)[i] = q[i]
      /\ Len(q) \in Nat
  OBVIOUS
<1>2. \A i \in 1..Len(q) : q[i] # e
  BY DEF ToSet
<1> QED
  BY <1>1, <1>2 DEF ToSet, NoDuplicates

LEMMA TakeFromChannel ==
    ASSUME NEW S, NEW q \in Seq(S), q # <<>>, NoDuplicates(q)
    PROVE  /\ Head(q) \in S /\ Tail(q) \in Seq(S)
           /\ ToSet(q) = ToSet(Tail(q)) \cup {Head(q)} /\ Head(q) \notin ToSet(Tail(q))
           /\ NoDuplicates(Tail(q)) /\ Len(Tail(q)) = Len(q) - 1
<1>1. /\ Len(q) \in Nat \ {0} /\ DOMAIN q = 1..Len(q) /\ Head(q) = q[1]
      /\ Len(Tail(q)) = Len(q) - 1 /\ DOMAIN Tail(q) = 1..(Len(q) - 1)
      /\ \A i \in 1..(Len(q) - 1) : Tail(q)[i] = q[i + 1]
      /\ Tail(q) \in Seq(S) /\ Head(q) \in S
  OBVIOUS
<1>2. \A i \in 2..Len(q) : i - 1 \in 1..(Len(q) - 1) /\ Tail(q)[i - 1] = q[i]
  BY <1>1
<1>3. ToSet(q) \subseteq ToSet(Tail(q)) \cup {Head(q)}
  <2> SUFFICES ASSUME NEW i \in 1..Len(q), i # 1 PROVE q[i] \in ToSet(Tail(q))
    BY <1>1 DEF ToSet
  <2>1. i - 1 \in DOMAIN Tail(q) /\ Tail(q)[i - 1] = q[i]
    BY <1>1, <1>2
  <2> QED
    BY <2>1 DEF ToSet
<1>4. ToSet(Tail(q)) \cup {Head(q)} \subseteq ToSet(q)
  BY <1>1 DEF ToSet
<1>5. Head(q) \notin ToSet(Tail(q))
  BY <1>1 DEF ToSet, NoDuplicates
<1>6. NoDuplicates(Tail(q))
  BY <1>1 DEF NoDuplicates
<1> QED
  BY <1>1, <1>3, <1>4, <1>5, <1>6

-----------------------------------------------------------------------------
(* The activation of tickets.                                              *)

\* An id is in one place: the channel, the batch or one call.
ActivationInv ==
    /\ ActivationTypeOK /\ IsFiniteSet(batch)
    /\ NoDuplicates(toActivate)
    /\ ToSet(toActivate) \cap batch = {}
    /\ \A b \in calls : b \cap (ToSet(toActivate) \cup batch) = {}
    /\ \A b, c \in calls : b # c => b \cap c = {}

LEMMA ActivationInitially == ActivationInit => ActivationInv /\ InProgress = {}
<1> SUFFICES ASSUME ActivationInit PROVE ActivationInv /\ InProgress = {}
  OBVIOUS
<1>1. ToSet(toActivate) = {} /\ NoDuplicates(toActivate) /\ Len(toActivate) = 0
  BY DEF ActivationInit, ToSet, NoDuplicates
<1>2. IsFiniteSet(batch) /\ Cardinality(batch) = 0
  BY FS_EmptySet DEF ActivationInit
<1> QED
  BY <1>1, <1>2, ActivationAssumption DEF ActivationInit, ActivationInv, ActivationTypeOK, InProgress

LEMMA EnqueuePreserves ==
    ASSUME ActivationInv, NEW id \in TicketIds, id \notin InProgress, EnqueueId(id)
    PROVE  ActivationInv' /\ InProgress' = InProgress \cup {id}
<1>1. /\ ToSet(toActivate') = ToSet(toActivate) \cup {id} /\ NoDuplicates(toActivate')
      /\ toActivate' \in Seq(TicketIds) /\ Len(toActivate') <= ChanCap
  BY AppendToChannel, ActivationAssumption DEF EnqueueId, ActivationInv, ActivationTypeOK, InProgress
<1> QED
  BY <1>1 DEF EnqueueId, ActivationInv, ActivationTypeOK, InProgress

LEMMA CollectPreserves ==
    ASSUME ActivationInv, CollectId
    PROVE  ActivationInv' /\ InProgress' = InProgress
<1>1. /\ Head(toActivate) \in TicketIds /\ toActivate' \in Seq(TicketIds)
      /\ ToSet(toActivate) = ToSet(toActivate') \cup {Head(toActivate)}
      /\ Head(toActivate) \notin ToSet(toActivate')
      /\ NoDuplicates(toActivate') /\ Len(toActivate') = Len(toActivate) - 1
  BY TakeFromChannel DEF CollectId, ActivationInv, ActivationTypeOK
<1>2. IsFiniteSet(batch') /\ Cardinality(batch') <= BatchSize
  <2>1. IsFiniteSet(batch) /\ batch' = batch \cup {Head(toActivate)} /\ Cardinality(batch) < BatchSize
    BY DEF CollectId, ActivationInv
  <2>2. Cardinality(batch) \in Nat
    BY <2>1, FS_CardinalityType
  <2>3. /\ IsFiniteSet(batch')
        /\ Cardinality(batch') = IF Head(toActivate) \in batch THEN Cardinality(batch)
                                                               ELSE Cardinality(batch) + 1
    BY <2>1, FS_AddElement
  <2> QED
    BY <2>1, <2>2, <2>3, ActivationAssumption
<1>3. Len(toActivate) \in Nat
  BY DEF ActivationInv, ActivationTypeOK
<1> QED
  BY <1>1, <1>2, <1>3, ActivationAssumption
     DEF CollectId, ActivationInv, ActivationTypeOK, InProgress

LEMMA SendBatchPreserves ==
    ASSUME ActivationInv, SendBatch
    PROVE  ActivationInv' /\ InProgress' = InProgress
<1>1. IsFiniteSet(batch') /\ Cardinality(batch') <= BatchSize
  BY FS_EmptySet, ActivationAssumption DEF SendBatch
<1> QED
  BY <1>1 DEF SendBatch, ActivationInv, ActivationTypeOK, InProgress

\* A call that ends takes its ids, and no others, out of the work.
LEMMA CallPreserves ==
    ASSUME ActivationInv, NEW b, CallEnds(b)
    PROVE  /\ ActivationInv' /\ InProgress' = InProgress \ b
           /\ b \subseteq InProgress
<1>1. /\ b \in calls /\ calls' = calls \ {b} /\ UNCHANGED <<toActivate, batch>>
      /\ activated' \subseteq activated \cup b /\ abandoned' \subseteq abandoned \cup b
  BY DEF CallEnds, AttemptSucceeds, GiveUp
<1>2. b \subseteq TicketIds /\ activated' \subseteq TicketIds /\ abandoned' \subseteq TicketIds
  BY <1>1 DEF ActivationInv, ActivationTypeOK
<1>3. UNION calls' = (UNION calls) \ b
  BY <1>1 DEF ActivationInv
<1> QED
  BY <1>1, <1>2, <1>3 DEF ActivationInv, ActivationTypeOK, InProgress

LEMMA AttemptPreserves ==
    ASSUME ActivationInv, NEW b, NEW ids, AttemptFails(b, ids)
    PROVE  ActivationInv' /\ InProgress' = InProgress /\ ids \subseteq InProgress
BY DEF AttemptFails, ActivationInv, ActivationTypeOK, InProgress

\* A step of the activation loses no id and invents none.
Submitted == InProgress \cup activated \cup abandoned

LEMMA ActivationStepPreserves ==
    ASSUME ActivationInv, ActivationStep
    PROVE  /\ ActivationInv' /\ Submitted' = Submitted
           /\ activated \subseteq activated'
           /\ (InProgress \cup activated)' \subseteq InProgress \cup activated
<1>1. CASE CollectId
  BY <1>1, CollectPreserves DEF CollectId, Submitted
<1>2. CASE SendBatch
  BY <1>2, SendBatchPreserves DEF SendBatch, Submitted
<1>3. ASSUME NEW b \in calls, CallEnds(b)
      PROVE  /\ ActivationInv' /\ Submitted' = Submitted
             /\ activated \subseteq activated'
             /\ (InProgress \cup activated)' \subseteq InProgress \cup activated
  BY <1>3, CallPreserves DEF CallEnds, AttemptSucceeds, GiveUp, Submitted
<1>4. ASSUME NEW b \in calls, NEW ids \in SUBSET b, AttemptFails(b, ids)
      PROVE  /\ ActivationInv' /\ Submitted' = Submitted
             /\ activated \subseteq activated'
             /\ (InProgress \cup activated)' \subseteq InProgress \cup activated
  BY <1>4, AttemptPreserves DEF AttemptFails, Submitted
<1> QED
  BY <1>1, <1>2, <1>3, <1>4 DEF ActivationStep, CallEnds
-----------------------------------------------------------------------------
(* The queue.                                                              *)

Places == {"waiting", "creating", "enqueue", "store", "answer", "failed", "ok", "timeout"}

RequestsOK ==
    /\ request \in [Requests -> [at : Places, made : Nat]]
    /\ \A r \in Requests : request[r].made <= Creations[r]
    /\ \A r \in Requests : request[r].at \in {"enqueue", "store", "answer", "ok"} => request[r].made # 0

LoopOK ==
    /\ path \in {"channel", "pubsub"}
    /\ loop \in {"slot", "receive", "release"}
    /\ slots = IF loop = "slot" THEN 0 ELSE 1

\* The ids handed over are those of the requests that have got so far.
HandedOver ==
    /\ Submitted \subseteq TicketIds
    /\ \A id \in Submitted :
          id = TicketOf(id[1]) /\ request[id[1]].at \in {"store", "answer", "ok"}
    /\ \A r \in Requests :
          request[r].at \in {"store", "answer", "ok"} => TicketOf(r) \in Submitted

\* A ticket is remembered once and then notified once.
Remembered ==
    /\ tracked \subseteq TicketIds /\ overtaken \subseteq TicketIds
    /\ notified \in [TicketIds -> {0, 1}]
    /\ \A id \in TicketIds : id \in tracked \/ notified[id] = 1 =>
          id = TicketOf(id[1]) /\ request[id[1]].at \in {"answer", "ok"}
    /\ \A id \in tracked : notified[id] = 0
    /\ \A r \in Requests :
          request[r].at \in {"answer", "ok"} =>
              TicketOf(r) \in tracked \/ notified[TicketOf(r)] = 1

\* A handled ticket cannot be remembered any more, or was overtaken.
Handled ==
    /\ delivery \in [Deliveries -> [roster : SUBSET TicketIds, at : {"none", "queued", "taken"},
                                    left : SUBSET TicketIds]]
    /\ \A d \in Deliveries : delivery[d].roster \subseteq activated
    /\ \A d \in Deliveries : delivery[d].left \subseteq delivery[d].roster
    /\ \A d \in Deliveries : delivery[d].at = "taken" =>
          \A id \in delivery[d].roster \ delivery[d].left :
              id \in overtaken \/ (id \notin tracked /\ request[id[1]].at # "store")

QueueInv == ActivationInv /\ RequestsOK /\ LoopOK /\ HandedOver /\ Remembered /\ Handled

LEMMA TicketIdsAre ==
    /\ \A r \in Requests, n \in Nat \ {0} : n <= Creations[r] => <<r, n>> \in TicketIds
    /\ \A id \in TicketIds : id[1] \in Requests
BY QueueAssumption

LEMMA TicketOfType ==
    ASSUME RequestsOK, NEW r \in Requests, request[r].made # 0
    PROVE  TicketOf(r) \in TicketIds /\ TicketOf(r)[1] = r
<1>1. request[r].made \in Nat \ {0} /\ request[r].made <= Creations[r]
  BY DEF RequestsOK
<1> QED
  BY <1>1, TicketIdsAre DEF TicketOf

LEMMA QueueInitially == Init => QueueInv
<1> SUFFICES ASSUME Init PROVE QueueInv
  OBVIOUS
<1>1. ActivationInv /\ Submitted = {} /\ activated = {}
  BY ActivationInitially DEF Init, Submitted, ActivationInit
<1>2. RequestsOK /\ LoopOK
  BY QueueAssumption DEF Init, RequestsOK, LoopOK, Places
<1>3. HandedOver
  BY <1>1 DEF Init, HandedOver
<1>4. Remembered
  BY DEF Init, Remembered
<1>5. Handled
  BY DEF Init, Handled
<1> QED
  BY <1>1, <1>2, <1>3, <1>4, <1>5 DEF QueueInv

LEMMA QueueActivationStep ==
    ASSUME QueueInv, \/ ActivationStep /\ UNCHANGED queueVars
                     \/ UNCHANGED vars
    PROVE  QueueInv'
<1>1. /\ ActivationInv' /\ Submitted' = Submitted /\ activated \subseteq activated'
      /\ UNCHANGED queueVars
  <2>1. CASE UNCHANGED vars
    BY <2>1 DEF vars, activationVars, QueueInv, ActivationInv, ActivationTypeOK, NoDuplicates,
                ToSet, Submitted, InProgress
  <2> QED
    BY <2>1, ActivationStepPreserves DEF QueueInv
<1>2. HandedOver'
  BY <1>1 DEF QueueInv, HandedOver, TicketOf, queueVars, requestVars
<1>3. Remembered'
  BY <1>1 DEF QueueInv, Remembered, TicketOf, queueVars, requestVars, assignmentVars
<1>4. Handled'
  BY <1>1 DEF QueueInv, Handled, queueVars, requestVars, assignmentVars
<1> QED
  BY <1>1, <1>2, <1>3, <1>4 DEF QueueInv, RequestsOK, LoopOK, queueVars, requestVars

\* A step of the loop or of requests that neither hands a ticket over nor
\* stores it.
LEMMA RequestMoves ==
    ASSUME QueueInv, RequestsOK', LoopOK',
           UNCHANGED <<activationVars, tracked, assignmentVars, overtaken>>,
           \A r \in Requests :
              \/ request'[r] = request[r]
              \/ /\ request[r].at \notin {"store", "answer", "ok"}
                 /\ request'[r].at \notin {"store", "answer", "ok"}
              \/ /\ request[r].at = "answer" /\ request'[r].at = "ok"
                 /\ request'[r].made = request[r].made
    PROVE  QueueInv'
<1>1. /\ \A q \in Requests : request[q].at \in {"store", "answer", "ok"}
                               => TicketOf(q)' = TicketOf(q)
      /\ \A q \in Requests : request'[q].at \in {"store", "answer", "ok"}
                               <=> request[q].at \in {"store", "answer", "ok"}
      /\ \A q \in Requests : request'[q].at \in {"answer", "ok"} <=> request[q].at \in {"answer", "ok"}
      /\ \A q \in Requests : request'[q].at = "store" <=> request[q].at = "store"
  BY DEF TicketOf
<1>2. ActivationInv' /\ Submitted' = Submitted /\ activated' = activated
  BY DEF QueueInv, ActivationInv, ActivationTypeOK, activationVars, NoDuplicates, ToSet,
         Submitted, InProgress
<1>3. HandedOver'
  BY <1>1, <1>2, TicketIdsAre DEF QueueInv, HandedOver
<1>4. Remembered'
  BY <1>1, TicketIdsAre DEF QueueInv, Remembered, assignmentVars
<1>5. Handled'
  BY <1>1, <1>2, TicketIdsAre DEF QueueInv, Handled, assignmentVars
<1> QED
  BY <1>2, <1>3, <1>4, <1>5 DEF QueueInv

LEMMA LoopStepPreserves ==
    ASSUME QueueInv, LoopStep
    PROVE  QueueInv'
<1>1. CASE AcquireSlot \/ ReleaseSlot
  <2>1. LoopOK' /\ UNCHANGED <<activationVars, request, tracked, assignmentVars, overtaken>>
    BY <1>1 DEF AcquireSlot, ReleaseSlot, QueueInv, LoopOK
  <2>2. RequestsOK'
    BY <2>1 DEF QueueInv, RequestsOK
  <2> QED
    BY <2>1, <2>2, RequestMoves
<1>2. ASSUME NEW r \in Requests, Receive(r)
      PROVE  QueueInv'
  <2>1. RequestsOK' /\ LoopOK'
    BY <1>2 DEF Receive, QueueInv, RequestsOK, LoopOK, Places
  <2>2. /\ request[r].at = "waiting" /\ request'[r].at = "creating"
        /\ \A q \in Requests : q # r => request'[q] = request[q]
    BY <1>2 DEF Receive, QueueInv, RequestsOK
  <2> QED
    BY <1>2, <2>1, <2>2, RequestMoves DEF Receive
<1> QED
  BY <1>1, <1>2 DEF LoopStep

LEMMA CreatePreserves ==
    ASSUME QueueInv, NEW r \in Requests,
           CreateEnds(r) \/ CreateAnswerLost(r) \/ Answer(r)
    PROVE  QueueInv'
<1>1. LoopOK' /\ UNCHANGED <<activationVars, tracked, assignmentVars, overtaken>>
  BY DEF CreateEnds, CreateSucceeds, CreateGivesUp, CreateAnswerLost, MakeTicket, Answer,
         QueueInv, LoopOK
<1>2. request[r] \in [at : Places, made : Nat] /\ Creations[r] \in Nat
  BY QueueAssumption DEF QueueInv, RequestsOK
<1>3. ASSUME NEW at \in {"enqueue", "creating"}, MakeTicket(r, at)
      PROVE  QueueInv'
  <2>1. /\ request' = [request EXCEPT ![r] = [at |-> at, made |-> request[r].made + 1]]
        /\ request[r].at = "creating" /\ request[r].made < Creations[r]
    BY <1>3 DEF MakeTicket
  <2>2. RequestsOK'
    BY <1>2, <2>1 DEF QueueInv, RequestsOK, Places
  <2>3. /\ request'[r].at \in {"enqueue", "creating"}
        /\ \A q \in Requests : q # r => request'[q] = request[q]
    BY <2>1 DEF QueueInv, RequestsOK
  <2> QED
    BY <1>1, <2>1, <2>2, <2>3, RequestMoves
<1>4. CASE CreateGivesUp(r) \/ Answer(r)
  <2>1. RequestsOK'
    BY <1>4 DEF CreateGivesUp, Answer, QueueInv, RequestsOK, Places
  <2>2. /\ \/ request[r].at \in {"creating", "failed"} /\ request'[r].at \in {"failed", "timeout"}
           \/ request[r].at = "answer" /\ request'[r].at = "ok"
        /\ request'[r].made = request[r].made
        /\ \A q \in Requests : q # r => request'[q] = request[q]
    BY <1>4 DEF CreateGivesUp, Answer, QueueInv, RequestsOK
  <2> QED
    BY <1>1, <2>1, <2>2, RequestMoves
<1> QED
  BY <1>3, <1>4 DEF CreateEnds, CreateSucceeds, CreateAnswerLost

\* One request moves to the next place.
RequestGoes(r, at) ==
    /\ request'[r].at = at /\ request'[r].made = request[r].made
    /\ \A q \in Requests : q # r => request'[q] = request[q]

\* Its ticket is handed over: only now is it known to the activation.
LEMMA EnqueueTicketPreserves ==
    ASSUME QueueInv, NEW r \in Requests, EnqueueTicket(r)
    PROVE  QueueInv' /\ TicketOf(r) \notin Submitted
<1>1. request[r].at = "enqueue" /\ RequestsOK' /\ LoopOK' /\ RequestGoes(r, "store")
  BY DEF EnqueueTicket, QueueInv, RequestsOK, LoopOK, Places, RequestGoes
<1>2. TicketOf(r) \in TicketIds /\ TicketOf(r)[1] = r
  BY <1>1, TicketOfType DEF QueueInv, RequestsOK
<1>3. TicketOf(r) \notin Submitted
  BY <1>1, <1>2 DEF QueueInv, HandedOver
<1>4. /\ ActivationInv' /\ Submitted' = Submitted \cup {TicketOf(r)}
      /\ activated' = activated
      /\ UNCHANGED <<tracked, assignmentVars, overtaken>>
  BY <1>2, <1>3, EnqueuePreserves DEF EnqueueTicket, EnqueueId, QueueInv, Submitted
<1>5. \A q \in Requests : TicketOf(q)' = TicketOf(q)
  BY <1>1 DEF TicketOf, RequestGoes
<1>6. HandedOver'
  <2>1. \A id \in Submitted' : id \in TicketIds /\ id[1] \in Requests
    BY <1>2, <1>4 , TicketIdsAre DEF QueueInv, HandedOver
  <2>2. \A id \in Submitted' : id = TicketOf(id[1]) /\ request'[id[1]].at \in {"store", "answer", "ok"}
    BY <1>1, <1>2, <1>4, <2>1 DEF QueueInv, HandedOver, RequestGoes
  <2>3. \A q \in Requests : request'[q].at \in {"store", "answer", "ok"} => TicketOf(q) \in Submitted'
    BY <1>1, <1>4 DEF QueueInv, HandedOver, RequestGoes
  <2> QED
    BY <1>5, <2>1, <2>2, <2>3 DEF HandedOver
<1>7. Remembered'
  <2>1. \A q \in Requests : request'[q].at \in {"answer", "ok"} <=> request[q].at \in {"answer", "ok"}
    BY <1>1 DEF RequestGoes
  <2> QED
    BY <1>4, <1>5, <2>1, TicketIdsAre DEF QueueInv, Remembered, assignmentVars
<1>8. Handled'
  <2>1. ASSUME NEW d \in Deliveries, NEW id \in delivery[d].roster
        PROVE  request'[id[1]].at = "store" => request[id[1]].at = "store"
    <3>1. id \in Submitted
      BY DEF QueueInv, Handled, Submitted
    <3>2. id = TicketOf(id[1]) /\ id[1] \in Requests
      BY <3>1, TicketIdsAre DEF QueueInv, HandedOver
    <3> QED
      BY <1>1, <1>3, <3>1, <3>2 DEF RequestGoes
  <2> QED
    BY <1>4, <2>1 DEF QueueInv, Handled, assignmentVars
<1> QED
  BY <1>1, <1>3, <1>4, <1>6, <1>7, <1>8 DEF QueueInv

LEMMA StoreTicketPreserves ==
    ASSUME QueueInv, NEW r \in Requests, StoreTicket(r)
    PROVE  QueueInv'
<1>1. request[r].at = "store" /\ RequestsOK' /\ LoopOK' /\ RequestGoes(r, "answer")
  BY DEF StoreTicket, QueueInv, RequestsOK, LoopOK, Places, RequestGoes
<1>2. TicketOf(r) \in TicketIds /\ TicketOf(r)[1] = r
  BY <1>1, TicketOfType DEF QueueInv, RequestsOK
<1>3. /\ ActivationInv' /\ Submitted' = Submitted /\ activated' = activated
      /\ tracked' = tracked \cup {TicketOf(r)}
      /\ UNCHANGED <<assignmentVars, overtaken>>
  BY DEF StoreTicket, QueueInv, ActivationInv, ActivationTypeOK, activationVars, NoDuplicates,
         ToSet, Submitted, InProgress
<1>4. \A q \in Requests : TicketOf(q)' = TicketOf(q)
  BY <1>1 DEF TicketOf, RequestGoes
<1>5. HandedOver'
  <2>1. \A q \in Requests : request'[q].at \in {"store", "answer", "ok"}
                              <=> request[q].at \in {"store", "answer", "ok"}
    BY <1>1 DEF RequestGoes
  <2> QED
    BY <1>3, <1>4, <2>1, TicketIdsAre DEF QueueInv, HandedOver
<1>6. notified[TicketOf(r)] = 0
  BY <1>1, <1>2 DEF QueueInv, Remembered
<1>7. Remembered'
  <2>1. \A id \in TicketIds : id \in tracked' \/ notified[id] = 1 =>
            id = TicketOf(id[1]) /\ request'[id[1]].at \in {"answer", "ok"}
    BY <1>1, <1>2, <1>3, TicketIdsAre DEF QueueInv, Remembered, RequestGoes
  <2>2. \A q \in Requests : request'[q].at \in {"answer", "ok"} =>
            TicketOf(q) \in tracked' \/ notified[TicketOf(q)] = 1
    BY <1>1, <1>3 DEF QueueInv, Remembered, RequestGoes
  <2> QED
    BY <1>2, <1>3, <1>4, <1>6, <2>1, <2>2, TicketIdsAre DEF QueueInv, Remembered, assignmentVars
<1>8. Handled'
  <2>1. ASSUME NEW d \in Deliveries, delivery[d].at = "taken",
               NEW id \in delivery[d].roster \ delivery[d].left, id \notin overtaken
        PROVE  id \notin tracked' /\ request'[id[1]].at # "store"
    <3>1. id \in Submitted
      BY DEF QueueInv, Handled, Submitted
    <3>2. id = TicketOf(id[1]) /\ id[1] \in Requests
      BY <3>1, TicketIdsAre DEF QueueInv, HandedOver
    <3>3. id \notin tracked /\ request[id[1]].at # "store"
      BY <2>1 DEF QueueInv, Handled
    <3> QED
      BY <1>1, <1>2, <1>3, <3>2, <3>3 DEF RequestGoes
  <2> QED
    BY <1>3, <2>1 DEF QueueInv, Handled, assignmentVars
<1> QED
  BY <1>1, <1>3, <1>5, <1>7, <1>8 DEF QueueInv

-----------------------------------------------------------------------------
(* Assignments.                                                            *)

\* A step that leaves everything but deliveries, Tickets and the history.
LEMMA AssignmentMoves ==
    ASSUME QueueInv, Remembered', Handled', UNCHANGED <<activationVars, requestVars>>
    PROVE  QueueInv'
<1>1. ActivationInv' /\ Submitted' = Submitted
  BY DEF QueueInv, ActivationInv, ActivationTypeOK, activationVars, NoDuplicates, ToSet,
         Submitted, InProgress
<1> QED
  BY <1>1 DEF QueueInv, RequestsOK, LoopOK, HandedOver, TicketOf, requestVars

LEMMA DeliverPreserves ==
    ASSUME QueueInv, NEW d \in Deliveries,
           \/ \E ids \in SUBSET activated : Send(d, ids)
           \/ \E e \in Deliveries : Redeliver(e, d)
           \/ Take(d)
    PROVE  QueueInv'
<1>1. UNCHANGED <<activationVars, requestVars, tracked, notified, overtaken>>
  BY DEF Send, Redeliver, Take
<1>2. Remembered'
  BY <1>1 DEF QueueInv, Remembered, TicketOf, requestVars
<1>3. activated \subseteq TicketIds
  BY DEF QueueInv, ActivationInv, ActivationTypeOK
<1> DEFINE Delivered ==
       /\ delivery' \in [Deliveries -> [roster : SUBSET TicketIds,
                                        at : {"none", "queued", "taken"}, left : SUBSET TicketIds]]
       /\ delivery'[d].roster \subseteq activated
       /\ delivery'[d].left \subseteq delivery'[d].roster
       /\ delivery'[d].at = "taken" => delivery'[d].left = delivery'[d].roster
       /\ \A f \in Deliveries : f # d => delivery'[f] = delivery[f]
<1>4. Delivered
  <2> USE <1>3 DEF QueueInv, Handled
  <2>1. ASSUME NEW ids \in SUBSET activated, Send(d, ids)
        PROVE  Delivered
    BY <2>1 DEF Send
  <2>2. ASSUME NEW e \in Deliveries, Redeliver(e, d)
        PROVE  Delivered
    <3>1. delivery[e].roster \subseteq activated /\ delivery[e].roster \in SUBSET TicketIds
      OBVIOUS
    <3> QED
      BY <2>2, <3>1 DEF Redeliver
  <2>3. ASSUME Take(d)
        PROVE  Delivered
    <3>1. delivery[d].roster \subseteq activated /\ delivery[d].roster \in SUBSET TicketIds
      OBVIOUS
    <3> QED
      BY <2>3, <3>1 DEF Take
  <2> QED
    BY <2>1, <2>2, <2>3
<1>5. Handled'
  BY <1>1, <1>4 DEF QueueInv, Handled, activationVars, requestVars
<1> QED
  BY <1>1, <1>2, <1>5, AssignmentMoves

LEMMA HandlerPreserves ==
    ASSUME QueueInv, NEW d \in Deliveries, HandlerStep(d)
    PROVE  QueueInv'
<1>1. PICK id \in delivery[d].left : Notify(d, id) \/ ReportMiss(d, id)
  BY DEF HandlerStep
<1>2. id \in TicketIds /\ id \in Submitted
  BY DEF QueueInv, Handled, Submitted
<1>3. id = TicketOf(id[1]) /\ id[1] \in Requests /\ request[id[1]].at \in {"store", "answer", "ok"}
  BY <1>2, TicketIdsAre DEF QueueInv, HandedOver
<1>4. /\ delivery' = [delivery EXCEPT ![d].left = @ \ {id}]
      /\ UNCHANGED <<activationVars, requestVars>>
  BY <1>1 DEF Notify, ReportMiss
<1>5. \/ /\ id \in tracked /\ tracked' = tracked \ {id} /\ overtaken' = overtaken
         /\ notified' = [notified EXCEPT ![id] = notified[id] + 1]
      \/ /\ id \notin tracked /\ UNCHANGED <<tracked, notified>>
         /\ overtaken' \subseteq overtaken \cup {id} /\ overtaken \subseteq overtaken'
         /\ id \in overtaken' \/ request[id[1]].at # "store"
  BY <1>1 DEF Notify, ReportMiss
<1>6. Remembered'
  <2>1. CASE id \in tracked
    <3>1. notified[id] = 0 /\ notified \in [TicketIds -> {0, 1}]
      BY <2>1 DEF QueueInv, Remembered
    <3>2. /\ notified' \in [TicketIds -> {0, 1}] /\ notified'[id] = 1
          /\ \A other \in TicketIds : other # id => notified'[other] = notified[other]
      BY <1>2, <1>5, <2>1, <3>1
    <3>3. /\ tracked' = tracked \ {id} /\ UNCHANGED <<overtaken, request>>
          /\ \A r \in Requests : TicketOf(r)' = TicketOf(r)
      BY <1>4, <1>5, <2>1 DEF TicketOf, requestVars
    <3>4. \A r \in Requests : request[r].at \in {"answer", "ok"} => TicketOf(r) \in TicketIds
      BY TicketOfType DEF QueueInv, RequestsOK
    <3> QED
      BY <1>2, <2>1, <3>2, <3>3, <3>4, TicketIdsAre DEF QueueInv, Remembered
  <2>2. CASE id \notin tracked
    BY <1>2, <1>4, <1>5, <2>2 DEF QueueInv, Remembered, TicketOf, requestVars
  <2> QED
    BY <2>1, <2>2
<1>7. Handled'
  <2>1. id \notin tracked' /\ (id \in overtaken' \/ request[id[1]].at # "store")
        /\ tracked' \subseteq tracked /\ overtaken \subseteq overtaken'
    BY <1>2, <1>3, <1>5 DEF QueueInv, Remembered
  <2> QED
    BY <1>4, <2>1 DEF QueueInv, Handled, activationVars, requestVars
<1> QED
  BY <1>4, <1>6, <1>7, AssignmentMoves

LEMMA QueueIsInvariant == Spec => []QueueInv
<1>1. QueueInv /\ [Next]_vars => QueueInv'
  <2> SUFFICES ASSUME QueueInv, [Next]_vars PROVE QueueInv'
    OBVIOUS
  <2>1. ASSUME \E r \in Requests : CreateEnds(r) \/ CreateAnswerLost(r) \/ FinishRequest(r)
        PROVE  QueueInv'
    BY <2>1, CreatePreserves, EnqueueTicketPreserves, StoreTicketPreserves DEF FinishRequest
  <2>2. ASSUME NEW d \in Deliveries,
               \/ \E ids \in SUBSET activated : Send(d, ids)
               \/ \E e \in Deliveries : Redeliver(e, d)
               \/ Take(d) \/ HandlerStep(d)
        PROVE  QueueInv'
    BY <2>2, DeliverPreserves, HandlerPreserves
  <2> QED
    BY <2>1, <2>2, QueueActivationStep, LoopStepPreserves DEF Next
<1> QED
  BY <1>1, QueueInitially, PTL DEF Spec

\* The types of the queue's state, its loop's slots among them.
THEOREM QueueTypeCorrect == Spec => []TypeOK
<1>1. QueueInv => TypeOK
  <2> SUFFICES ASSUME QueueInv PROVE TypeOK
    OBVIOUS
  <2>1. slots \in 0..MaxConcurrent
    BY QueueAssumption DEF QueueInv, LoopOK
  <2>2. notified \in [TicketIds -> Nat]
    BY DEF QueueInv, Remembered
  <2> QED
    BY <2>1, <2>2 DEF QueueInv, ActivationInv, RequestsOK, LoopOK, Places, Remembered, Handled, TypeOK
<1> QED
  BY <1>1, QueueIsInvariant, PTL

\* proxyCreateTicket retries, so om-core may hold several tickets of a player;
\* at most one of them can ever be matched, and none of a player whose
\* request failed, for any number of requests and of tickets made for them.
THEOREM PlayersMatchableOnce == Spec => []PlayerMatchableOnce
<1>1. QueueInv => PlayerMatchableOnce
  BY DEF QueueInv, HandedOver, Submitted, PlayerMatchableOnce
<1> QED
  BY <1>1, QueueIsInvariant, PTL

\* assignmentHandler: repeated and overlapping deliveries of any rosters
\* notify a player once per ticket.
THEOREM PlayersNotifiedOnce == Spec => []NotifiedOnce
<1>1. QueueInv => NotifiedOnce
  BY DEF QueueInv, Remembered, NotifiedOnce
<1> QED
  BY <1>1, QueueIsInvariant, PTL

\* Run's goroutine: whoever was answered OK has a ticket that the activation
\* knows and that the queue remembers or has passed on.
THEOREM OkIsTruthful == Spec => []OkIsAccountedFor
<1>1. QueueInv => OkIsAccountedFor
  BY DEF QueueInv, HandedOver, Remembered, Submitted, OkIsAccountedFor
<1> QED
  BY <1>1, QueueIsInvariant, PTL

\* assignmentHandler: the only tickets that stay in Tickets after their
\* assignment are those it overtook between the hand-over and the store.
THEOREM OnlyOvertakenStayTracked == Spec => []TrackedUntilHandled
<1>1. QueueInv => TrackedUntilHandled
  BY DEF QueueInv, Handled, TrackedUntilHandled
<1> QED
  BY <1>1, QueueIsInvariant, PTL

-----------------------------------------------------------------------------
(* ActivateTickets implements ActivationService.                           *)

LEMMA ActivationRefines ==
    ASSUME ActivationInv, ActivationStep
    PROVE  Service!Next \/ UNCHANGED <<InProgress, activated, abandoned>>
<1>1. CASE CollectId
  BY <1>1, CollectPreserves DEF CollectId
<1>2. CASE SendBatch
  BY <1>2, SendBatchPreserves DEF SendBatch
<1>3. ASSUME NEW b \in calls, AttemptSucceeds(b)
      PROVE  Service!Next
  <2>1. b \in SUBSET TicketIds
    BY DEF ActivationInv, ActivationTypeOK
  <2>2. Service!Activated(b)
    BY <1>3, CallPreserves DEF CallEnds, AttemptSucceeds, Service!Activated
  <2> QED
    BY <2>1, <2>2 DEF Service!Next
<1>4. ASSUME NEW b \in calls, GiveUp(b)
      PROVE  Service!Next
  <2>1. b \in SUBSET TicketIds
    BY DEF ActivationInv, ActivationTypeOK
  <2>2. Service!GaveUp(b)
    BY <1>4, CallPreserves DEF CallEnds, GiveUp, Service!GaveUp
  <2> QED
    BY <2>1, <2>2 DEF Service!Next
<1>5. ASSUME NEW b \in calls, NEW ids \in SUBSET b, AttemptFails(b, ids)
      PROVE  Service!Next
  <2>1. ids \in SUBSET TicketIds
    BY DEF ActivationInv, ActivationTypeOK
  <2>2. Service!Attempt(ids)
    BY <1>5, AttemptPreserves DEF AttemptFails, Service!Attempt
  <2> QED
    BY <2>1, <2>2 DEF Service!Next
<1> QED
  BY <1>1, <1>2, <1>3, <1>4, <1>5 DEF ActivationStep

LEMMA EnqueueRefines ==
    ASSUME QueueInv, NEW r \in Requests, EnqueueTicket(r)
    PROVE  Service!Next
<1>1. TicketOf(r) \in TicketIds /\ TicketOf(r) \notin Submitted
  BY EnqueueTicketPreserves, TicketOfType DEF EnqueueTicket, QueueInv, RequestsOK
<1>2. InProgress' = InProgress \cup {TicketOf(r)} /\ UNCHANGED <<activated, abandoned>>
  BY <1>1, EnqueuePreserves DEF EnqueueTicket, EnqueueId, QueueInv, Submitted
<1>3. Service!Submit(TicketOf(r))
  BY <1>1, <1>2 DEF Service!Submit, Submitted
<1> QED
  BY <1>1, <1>3 DEF Service!Next

LEMMA OthersRefine ==
    ASSUME UNCHANGED activationVars
    PROVE  UNCHANGED <<InProgress, activated, abandoned>>
BY DEF activationVars, InProgress, ToSet

\* ActivateTickets with the queue that feeds it, for any capacity of the
\* channel and any batch size: every step is one of the service or stutters,
\* so no id is lost, taken twice or given up once it is activated.
THEOREM ActivationIsImplemented == Spec => ActivationSpec
<1>1. Init => Service!Init
  BY ActivationInitially DEF Init, ActivationInit, Service!Init
<1>2. QueueInv /\ [Next]_vars => [Service!Next]_(Service!serviceVars)
  <2> SUFFICES ASSUME QueueInv, [Next]_vars
               PROVE  Service!Next \/ UNCHANGED <<InProgress, activated, abandoned>>
    BY DEF Service!serviceVars
  <2>1. ASSUME ActivationStep
        PROVE  Service!Next \/ UNCHANGED <<InProgress, activated, abandoned>>
    BY <2>1, ActivationRefines DEF QueueInv
  <2>2. \/ ActivationStep \/ \E r \in Requests : EnqueueTicket(r)
        \/ UNCHANGED activationVars
    BY DEF Next, vars, LoopStep, AcquireSlot, ReleaseSlot, Receive, CreateEnds, CreateSucceeds,
           CreateGivesUp, CreateAnswerLost, MakeTicket, FinishRequest, StoreTicket, Answer,
           Send, Redeliver, Take, HandlerStep, Notify, ReportMiss
  <2> QED
    BY <2>1, <2>2, EnqueueRefines, OthersRefine
<1> QED
  BY <1>1, <1>2, QueueIsInvariant, PTL DEF Spec, ActivationSpec, Service!Spec

=================================================================================
