----------------------------- MODULE DirectorProofs -----------------------------
(***************************************************************************)
(* What holds of the director and its game server manager for every set of *)
(* tickets, fleets and backfill requests and every bound.                  *)
(***************************************************************************)
EXTENDS Director, TLAPS

-----------------------------------------------------------------------------
(* The map of the game server manager.                                     *)

\* Removing a server keeps every remaining count positive.
LEMMA RemoveServerType ==
    ASSUME NEW gs, GameServersOK(gs), NEW s
    PROVE  GameServersOK(RemoveServer(gs, s))
BY DEF GameServersOK, RemoveServer, Restrict

\* Adding a server for some requests yields an entry for their spec.
LEMMA AddServerType ==
    ASSUME NEW gs, GameServersOK(gs), NEW reqs \in SUBSET Requests
    PROVE  GameServersOK(AddServer(gs, reqs))
<1> DEFINE new == AllocationSpecFromMMFRequests(reqs)
<1>1. new \in AllocSpecs
  BY DEF AllocationSpecFromMMFRequests, AllocSpecs
<1>2. ReadyServers(gs, new) + 1 \in Nat \ {0}
  BY DEF GameServersOK, ReadyServers
<1>3. CASE reqs = {}
  BY <1>3 DEF AddServer
<1>4. CASE reqs # {}
  <2>1. AddServer(gs, reqs) =
          [k \in DOMAIN gs \cup {new} |->
              IF k = new THEN [count |-> ReadyServers(gs, new) + 1, mmfParams |-> reqs]
              ELSE gs[k]]
    BY <1>4 DEF AddServer
  <2> HIDE DEF new
  <2> QED
    BY <1>1, <1>2, <1>4, <2>1 DEF GameServersOK
<1> QED
  BY <1>3, <1>4

\* Each operation of the manager, started by anyone, preserves its types.
LEMMA AgonesStepType ==
    ASSUME AgonesTypeOK, NEW s,
           Allocate(s) \/ \E b \in Backfills : UpdateMMFRequest(s, b)
    PROVE  AgonesTypeOK'
<1>1. CASE Allocate(s)
  <2>1. GameServersOK(AddServer(RemoveServer(gameServers, s), {}))
    BY RemoveServerType, AddServerType DEF AgonesTypeOK
  <2> QED
    BY <1>1, <2>1 DEF Allocate, ProcessGameServerUpdate, AgonesTypeOK
<1>2. ASSUME NEW b \in Backfills, UpdateMMFRequest(s, b)
      PROVE  AgonesTypeOK'
  <2>1. {b} \in SUBSET Requests
    BY DEF Requests
  <2>2. GameServersOK(AddServer(RemoveServer(gameServers, s), {b}))
    BY <2>1, RemoveServerType, AddServerType DEF AgonesTypeOK
  <2> QED
    BY <1>2, <2>2 DEF UpdateMMFRequest, ProcessGameServerUpdate, AgonesTypeOK
<1> QED
  BY <1>1, <1>2

LEMMA AgonesInitType == AgonesInit => AgonesTypeOK
<1> SUFFICES ASSUME AgonesInit PROVE AgonesTypeOK
  OBVIOUS
<1>1. FleetSpecs \subseteq AllocSpecs
  BY DEF FleetSpecs, FleetAllocSpec, AllocSpecs
<1>2. PICK fleetOf \in [FleetSpecs -> Fleets] :
        gameServers = [s \in FleetSpecs |->
            [count |-> FleetCount, mmfParams |-> FleetRequests[fleetOf[s]]]]
  BY DEF AgonesInit
<1>3. \A f \in Fleets : FleetRequests[f] \in (SUBSET Requests) \ {{}}
  BY FleetAssumption DEF Requests
<1> QED
  BY <1>1, <1>2, <1>3, FleetAssumption DEF AgonesInit, AgonesTypeOK, GameServersOK

\* The director's requests for work are well formed invocations.
LEMMA InvocationsType == AgonesTypeOK => GetMMFParams \subseteq Invocations
BY DEF AgonesTypeOK, GameServersOK, GetMMFParams, Invocations

-----------------------------------------------------------------------------
(* Types of the director's own state.                                      *)

LEMMA TicketsOfType == \A m \in Matches : TicketsOf(m) \in SUBSET Tickets
BY DirectorAssumption DEF Matches, TicketsOf

LEMMA InitType == Init => TypeOK
<1> SUFFICES ASSUME Init PROVE TypeOK
  OBVIOUS
<1>1. AgonesTypeOK
  BY AgonesInitType DEF Init
<1> QED
  BY <1>1, DirectorAssumption DEF Init, TypeOK

LEMMA BeginCycleType == TypeOK /\ BeginCycle => TypeOK'
<1> SUFFICES ASSUME TypeOK, BeginCycle PROVE TypeOK'
  OBVIOUS
<1>1. GetMMFParams \subseteq Invocations
  BY InvocationsType DEF TypeOK
<1>2. \A h \in DOMAIN pending' :
        pending'[h] \in AllocSpecs /\ pending'[h].label = h
  BY <1>1 DEF TypeOK, BeginCycle, Remember, Invocations
<1>3. DOMAIN pending' \subseteq SUBSET Requests
  BY <1>1 DEF TypeOK, BeginCycle, Remember, Invocations, AllocSpecs
<1>4. AgonesTypeOK'
  BY DEF TypeOK, AgonesTypeOK, BeginCycle, agonesVars
<1> QED
  BY <1>1, <1>2, <1>3, <1>4, DirectorAssumption
     DEF TypeOK, BeginCycle, queueVars, assignVars

LEMMA AgonesUnchangedType == AgonesTypeOK /\ UNCHANGED agonesVars => AgonesTypeOK'
BY DEF AgonesTypeOK, agonesVars

LEMMA OMStepType == TypeOK /\ OMStep => TypeOK'
<1> SUFFICES ASSUME TypeOK, NEW i \in awaiting,
                    \/ OMComplete(i)
                    \/ \E rosters \in Rosters :
                          \/ \E copied \in BOOLEAN, next \in Backfills \cup {NoBackfill} :
                                OMReturn(i, rosters, copied, next)
                          \/ \E stop \in BOOLEAN : OMResponseUnreadable(i, rosters, stop)
             PROVE  TypeOK'
  BY DEF OMStep
<1>1. CASE OMComplete(i)
  BY <1>1, AgonesUnchangedType
     DEF TypeOK, OMComplete, cycleVars, matchVars, queueVars, assignVars, history
<1>2. ASSUME NEW rosters \in Rosters, NEW copied \in BOOLEAN,
             NEW next \in Backfills \cup {NoBackfill}, OMReturn(i, rosters, copied, next)
      PROVE  TypeOK'
  <2> DEFINE m == [id |-> returned + 1, rosters |-> rosters, next |-> next,
                   hash |-> IF copied THEN i.spec.label ELSE NoHash]
  <2>1. returned + 1 \in 1..MaxMatches
    BY <1>2, DirectorAssumption DEF TypeOK, OMReturn
  <2>2. i.spec.label \in SUBSET Requests
    BY DEF TypeOK, Invocations, AllocSpecs
  <2>3. m \in Matches
    BY <2>1, <2>2 DEF Matches
  <2> HIDE DEF m
  <2>4. PICK kept \in Survivors(m) :
          /\ proposed' = kept
          /\ lost' = lost \cup UNION {TicketsOf(n) : n \in (proposed \cup {m}) \ kept}
    BY <1>2 DEF OMReturn, m
  <2>5. proposed \cup {m} \subseteq Matches
    BY <2>3 DEF TypeOK
  <2>6. proposed' \subseteq Matches /\ lost' \subseteq Tickets
    BY <2>4, <2>5, TicketsOfType DEF Survivors, TypeOK
  <2> QED
    BY <1>2, <2>1, <2>6, AgonesUnchangedType
       DEF TypeOK, OMReturn, cycleVars, queueVars, assignVars
<1>3. ASSUME NEW rosters \in Rosters, NEW stop \in BOOLEAN,
             OMResponseUnreadable(i, rosters, stop)
      PROVE  TypeOK'
  <2>1. UNION rosters \subseteq Tickets
    BY DirectorAssumption
  <2>2. returned' \in 0..MaxMatches
    BY <1>3, DirectorAssumption DEF TypeOK, OMResponseUnreadable
  <2> QED
    BY <1>3, <2>1, <2>2, AgonesUnchangedType
       DEF TypeOK, OMResponseUnreadable, cycleVars, matchVars, queueVars, assignVars
<1> QED
  BY <1>1, <1>2, <1>3

LEMMA ProposalStepType ==
    ASSUME TypeOK, NEW m \in proposed,
           RejectProposal(m) \/ AcceptProposal(m) \/ AcceptWithBackfill(m) \/ Panic(m)
    PROVE  TypeOK'
<1>0. m \in Matches /\ TicketsOf(m) \subseteq Tickets
  BY TicketsOfType DEF TypeOK
<1>1. CASE RejectProposal(m)
  BY <1>0, <1>1, AgonesUnchangedType
     DEF TypeOK, RejectProposal, cycleVars, omVars, assignVars, history
<1>2. CASE AcceptProposal(m)
  <2>1. pending[m.hash] \in AllocSpecs
    BY <1>2 DEF AcceptProposal, Acceptable, TypeOK
  <2> QED
    BY <1>0, <1>2, <2>1, AgonesUnchangedType
       DEF TypeOK, AcceptProposal, cycleVars, omVars, queueVars, assignVars, history
<1>3. CASE AcceptWithBackfill(m)
  <2>1. AgonesTypeOK'
    BY <1>3, AgonesStepType DEF AcceptWithBackfill, TypeOK
  <2>2. AllocationSpecFromMMFRequests({m.next}) \in AllocSpecs
    BY <1>3 DEF AcceptWithBackfill, AllocationSpecFromMMFRequests, AllocSpecs, Requests
  <2> QED
    BY <1>0, <1>3, <2>1, <2>2
       DEF TypeOK, AcceptWithBackfill, cycleVars, omVars, queueVars, assignVars, history
<1>4. CASE Panic(m)
  BY <1>4, AgonesUnchangedType
     DEF TypeOK, Panic, omVars, matchVars, queueVars, assignVars, history
<1> QED
  BY <1>1, <1>2, <1>3, <1>4

LEMMA AllocationStepType ==
    ASSUME TypeOK, NEW a \in matches, AllocateServer(a) \/ RejectUnallocated(a)
    PROVE  TypeOK'
<1>0. a.match \in Matches /\ TicketsOf(a.match) \subseteq Tickets
  BY TicketsOfType DEF TypeOK
<1>1. CASE AllocateServer(a)
  <2>1. AgonesTypeOK'
    BY <1>1, AgonesStepType DEF AllocateServer, TypeOK
  <2>2. a.match.rosters \subseteq SUBSET Tickets /\ {a.match.next} \ {NoBackfill} \subseteq Backfills
    BY <1>0, DirectorAssumption DEF Matches
  <2> QED
    BY <1>1, <2>1, <2>2 DEF TypeOK, AllocateServer, cycleVars, omVars, queueVars
<1>2. CASE RejectUnallocated(a)
  BY <1>0, <1>2, AgonesUnchangedType
     DEF TypeOK, RejectUnallocated, AllocateFails, cycleVars, omVars, assignVars, history
<1> QED
  BY <1>1, <1>2

LEMMA AssignmentStepType ==
    ASSUME TypeOK,
           \/ \E r \in sending :
                 \/ SendRoster(r)
                 \/ \E arrived \in BOOLEAN : SendRosterFails(r, arrived)
           \/ \E t \in tracking, sameInstant \in BOOLEAN : TrackTicket(t, sameInstant)
    PROVE  TypeOK'
<1>1. ASSUME NEW r \in sending, SendRoster(r)
      PROVE  TypeOK'
  BY <1>1, AgonesUnchangedType
     DEF TypeOK, SendRoster, cycleVars, omVars, matchVars, queueVars
<1>2. ASSUME NEW r \in sending, NEW arrived \in BOOLEAN, SendRosterFails(r, arrived)
      PROVE  TypeOK'
  BY <1>2, AgonesUnchangedType
     DEF TypeOK, SendRosterFails, cycleVars, omVars, matchVars, queueVars
<1>3. ASSUME NEW t \in tracking, NEW sameInstant \in BOOLEAN, TrackTicket(t, sameInstant)
      PROVE  TypeOK'
  <2>1. t \in Tickets
    BY DEF TypeOK
  <2>2. assignmentTTL' \in Seq(Tickets)
    BY <1>3, <2>1 DEF TypeOK, TrackTicket, Front
  <2> QED
    BY <1>3, <2>1, <2>2, AgonesUnchangedType
       DEF TypeOK, TrackTicket, cycleVars, omVars, matchVars, queueVars, history
<1> QED
  BY <1>1, <1>2, <1>3

LEMMA ReactivationStepType ==
    ASSUME TypeOK, (\E t \in rejecting : QueueForActivation(t)) \/ ActivationStep
    PROVE  TypeOK'
<1>1. ASSUME NEW t \in rejecting, QueueForActivation(t)
      PROVE  TypeOK'
  <2>1. toActivate' \in Seq(Tickets) /\ Len(toActivate') <= ChanCap
    BY <1>1, DirectorAssumption DEF TypeOK, QueueForActivation
  <2> QED
    BY <1>1, <2>1, AgonesUnchangedType
       DEF TypeOK, QueueForActivation, cycleVars, omVars, matchVars, assignVars, history
<1>2. ASSUME NEW activated \in BOOLEAN, Activate(activated)
      PROVE  TypeOK'
  <2>1. Head(toActivate) \in Tickets
    BY <1>2 DEF TypeOK, Activate
  <2>2. toActivate' \in Seq(Tickets) /\ Len(toActivate') <= ChanCap
    BY <1>2, DirectorAssumption DEF TypeOK, Activate
  <2> QED
    BY <1>2, <2>1, <2>2, AgonesUnchangedType
       DEF TypeOK, Activate, cycleVars, matchVars, assignVars
<1> QED
  BY <1>1, <1>2 DEF ActivationStep

LEMMA PhaseStepType ==
    ASSUME TypeOK,
           \/ EndCollect \/ EndProposals \/ EndAllocate
           \/ \E n \in 0..Len(assignmentTTL) : ExpireAssignments(n)
    PROVE  TypeOK'
<1>1. CASE EndCollect \/ EndProposals \/ EndAllocate
  BY <1>1, AgonesUnchangedType
     DEF TypeOK, EndCollect, EndProposals, EndAllocate,
         omVars, matchVars, queueVars, assignVars, history
<1>2. ASSUME NEW n \in 0..Len(assignmentTTL), ExpireAssignments(n)
      PROVE  TypeOK'
  <2>1. assignmentTTL' \in Seq(Tickets)
    BY <1>2 DEF TypeOK, ExpireAssignments
  <2>2. /\ cycle' \in 0..MaxCycles
        /\ pc' \in {"invoke", "done"} /\ (pc' # "done" => cycle' < MaxCycles)
    BY <1>2, DirectorAssumption DEF TypeOK, ExpireAssignments
  <2> QED
    BY <1>2, <2>1, <2>2, AgonesUnchangedType
       DEF TypeOK, ExpireAssignments, omVars, matchVars, queueVars, history
<1> QED
  BY <1>1, <1>2

LEMMA StutterType == TypeOK /\ UNCHANGED vars => TypeOK'
BY AgonesUnchangedType
   DEF TypeOK, vars, cycleVars, omVars, matchVars, queueVars, assignVars, history

LEMMA NextType == TypeOK /\ [Next]_vars => TypeOK'
BY BeginCycleType, OMStepType, ProposalStepType, AllocationStepType, AssignmentStepType,
   ReactivationStepType, PhaseStepType, StutterType
   DEF Next, DirectorStep, Terminated

\* The director's state keeps its types; in particular no entry of the game
\* server map ever stands for zero servers, and the reactivation channel
\* stays within its capacity.
THEOREM TypeCorrect == Spec => []TypeOK
BY InitType, NextType, PTL DEF Spec

-----------------------------------------------------------------------------
(* Of the manager's state the director changes nothing by itself.  This    *)
(* holds by the shape of Director; it is stated to carry what is proved of *)
(* the manager over to the director.                                       *)

LEMMA NextRefinesAgones == [Next]_vars => [AgonesNext]_agonesVars
<1> SUFFICES ASSUME [Next]_vars PROVE [AgonesNext]_agonesVars
  OBVIOUS
<1>1. CASE OMStep
  BY <1>1 DEF OMStep, OMComplete, OMReturn, OMResponseUnreadable
<1>2. CASE ActivationStep
  BY <1>2 DEF ActivationStep, Activate
<1>3. CASE Terminated \/ UNCHANGED vars
  BY <1>3 DEF Terminated, vars
<1>4. CASE BeginCycle \/ EndCollect \/ EndProposals \/ EndAllocate
  BY <1>4 DEF BeginCycle, EndCollect, EndProposals, EndAllocate
<1>5. ASSUME NEW m \in proposed, RejectProposal(m) \/ AcceptProposal(m) \/ Panic(m)
      PROVE  UNCHANGED agonesVars
  BY <1>5 DEF RejectProposal, AcceptProposal, Panic
<1>6. ASSUME NEW m \in proposed, AcceptWithBackfill(m)
      PROVE  AgonesNext
  BY <1>6 DEF AcceptWithBackfill, AgonesNext, UpdateMMFRequest
<1>7. ASSUME NEW a \in matches, AllocateServer(a)
      PROVE  AgonesNext
  BY <1>7 DEF AllocateServer, AgonesNext, Allocate
<1>8. ASSUME NEW a \in matches, RejectUnallocated(a)
      PROVE  UNCHANGED agonesVars
  BY <1>8 DEF RejectUnallocated, AllocateFails
<1>9. ASSUME NEW t \in rejecting, QueueForActivation(t)
      PROVE  UNCHANGED agonesVars
  BY <1>9 DEF QueueForActivation
<1>10. ASSUME NEW r \in sending,
              SendRoster(r) \/ \E arrived \in BOOLEAN : SendRosterFails(r, arrived)
       PROVE  UNCHANGED agonesVars
  BY <1>10 DEF SendRoster, SendRosterFails
<1>11. ASSUME NEW t \in tracking, NEW sameInstant \in BOOLEAN, TrackTicket(t, sameInstant)
       PROVE  UNCHANGED agonesVars
  BY <1>11 DEF TrackTicket
<1>12. ASSUME NEW n \in 0..Len(assignmentTTL), ExpireAssignments(n)
       PROVE  UNCHANGED agonesVars
  BY <1>12 DEF ExpireAssignments
<1> QED
  BY <1>1, <1>2, <1>3, <1>4, <1>5, <1>6, <1>7, <1>8, <1>9, <1>10, <1>11, <1>12
     DEF Next, DirectorStep

\* The manager's map changes only in UpdateMMFRequest and Allocate.
LEMMA DirectorUsesManager == Spec => AgonesSpec
<1>1. Init => AgonesInit
  BY DEF Init
<1> QED
  BY <1>1, NextRefinesAgones, PTL DEF Spec, AgonesSpec

-----------------------------------------------------------------------------
(* Assigned tickets.                                                       *)

\* Proposals, accepted matches and unsent rosters exist only in the phases
\* that deal with them.
Phases ==
    /\ pc \notin {"collect", "proposals", "panicked"} => proposed = {}
    /\ pc \notin {"proposals", "allocate", "panicked"} => matches = {}
    /\ pc # "allocate" => sending = {} /\ tracking = {}

\* NoRecordedTicketAccepted is not inductive: a new cycle forgets sentNow
\* (so no match may be left over from the last one), and recording a ticket
\* must concern a ticket sent in this cycle.
AssignedInv ==
    /\ Phases
    /\ tracking \subseteq sentNow
    /\ NoRecordedTicketAccepted

LEMMA AssignedInit == Init => AssignedInv
BY DEF Init, AssignedInv, Phases, NoRecordedTicketAccepted, TicketsOfAll, AcceptedMatches

\* The steps that touch none of the variables AssignedInv is about.
LEMMA AssignedUnchanged ==
    ASSUME AssignedInv,
           UNCHANGED <<pc, proposed, matches, sending, tracking, assignments, sentNow>>
    PROVE  AssignedInv'
BY DEF AssignedInv, Phases, NoRecordedTicketAccepted, TicketsOfAll, AcceptedMatches

LEMMA AssignedOMStep == AssignedInv /\ OMStep => AssignedInv'
<1> SUFFICES ASSUME AssignedInv, OMStep PROVE AssignedInv'
  OBVIOUS
<1>1. /\ pc = "collect" /\ pc' = pc
      /\ UNCHANGED <<matches, sending, tracking, assignments, sentNow>>
  BY DEF OMStep, OMComplete, OMReturn, OMResponseUnreadable, cycleVars, matchVars,
         assignVars, history
<1> QED
  BY <1>1
     DEF AssignedInv, Phases, NoRecordedTicketAccepted, TicketsOfAll, AcceptedMatches

\* Between two phases nothing is left of the first.
LEMMA AssignedPhaseStep ==
    ASSUME AssignedInv,
           \/ BeginCycle \/ EndCollect \/ EndProposals \/ EndAllocate
           \/ \E n \in 0..Len(assignmentTTL) : ExpireAssignments(n)
    PROVE  AssignedInv'
<1>1. CASE BeginCycle
  <2>1. matches = {} /\ matches' = {} /\ tracking' = {} /\ sending' = {} /\ proposed' = {}
    BY <1>1 DEF BeginCycle, AssignedInv, Phases, assignVars
  <2> QED
    BY <1>1, <2>1
       DEF BeginCycle, AssignedInv, Phases, NoRecordedTicketAccepted, TicketsOfAll,
           AcceptedMatches
<1>2. CASE EndCollect \/ EndProposals \/ EndAllocate
  <2>1. UNCHANGED <<proposed, matches, sending, tracking, assignments, sentNow>>
    BY <1>2 DEF EndCollect, EndProposals, EndAllocate, matchVars, assignVars, history
  <2>2. Phases'
    BY <1>2, <2>1 DEF EndCollect, EndProposals, EndAllocate, Idle, AssignedInv, Phases
  <2> QED
    BY <2>1, <2>2
       DEF AssignedInv, NoRecordedTicketAccepted, TicketsOfAll, AcceptedMatches
<1>3. ASSUME NEW n \in 0..Len(assignmentTTL), ExpireAssignments(n)
      PROVE  AssignedInv'
  <2>1. matches = {} /\ matches' = {} /\ tracking' = {} /\ sending' = {} /\ proposed' = {}
    BY <1>3 DEF ExpireAssignments, AssignedInv, Phases, matchVars
  <2> QED
    BY <2>1 DEF AssignedInv, Phases, NoRecordedTicketAccepted, TicketsOfAll, AcceptedMatches
<1> QED
  BY <1>1, <1>2, <1>3

LEMMA AssignedProposalStep ==
    ASSUME AssignedInv, NEW m \in proposed,
           RejectProposal(m) \/ AcceptProposal(m) \/ AcceptWithBackfill(m) \/ Panic(m)
    PROVE  AssignedInv'
<1>1. CASE RejectProposal(m)
  BY <1>1
     DEF RejectProposal, cycleVars, assignVars, history, AssignedInv, Phases,
         NoRecordedTicketAccepted, TicketsOfAll, AcceptedMatches
<1>2. CASE AcceptProposal(m) \/ AcceptWithBackfill(m)
  <2>1. /\ pc = "proposals" /\ TicketsOf(m) \cap assignments = {}
        /\ UNCHANGED <<pc, sending, tracking, assignments, sentNow>>
    BY <1>2
       DEF AcceptProposal, AcceptWithBackfill, Acceptable, cycleVars, assignVars, history
  <2>2. PICK spec : matches' = matches \cup {[match |-> m, spec |-> spec]}
    BY <1>2 DEF AcceptProposal, AcceptWithBackfill
  <2>3. TicketsOfAll(AcceptedMatches)' = TicketsOfAll(AcceptedMatches) \cup TicketsOf(m)
    <3>1. AcceptedMatches' = AcceptedMatches \cup {m}
      <4>1. [match |-> m, spec |-> spec].match = m
        OBVIOUS
      <4> DEFINE new == [match |-> m, spec |-> spec]
      <4>2. matches' = matches \cup {new} /\ new.match = m
        BY <2>2, <4>1
      <4> HIDE DEF new
      <4> QED
        BY <4>2, Zenon DEF AcceptedMatches
    <3> QED
      BY <3>1 DEF TicketsOfAll, TicketsOf
  <2> QED
    BY <2>1, <2>3 DEF AssignedInv, Phases, NoRecordedTicketAccepted
<1>3. CASE Panic(m)
  BY <1>3
     DEF Panic, Idle, matchVars, assignVars, history, AssignedInv, Phases,
         NoRecordedTicketAccepted, TicketsOfAll, AcceptedMatches
<1> QED
  BY <1>1, <1>2, <1>3

LEMMA AssignedAllocationStep ==
    ASSUME AssignedInv, NEW a \in matches, AllocateServer(a) \/ RejectUnallocated(a)
    PROVE  AssignedInv'
<1>1. /\ pc = "allocate" /\ pc' = pc /\ proposed' = proposed
      /\ matches' = matches \ {a}
      /\ UNCHANGED <<tracking, assignments, sentNow>>
  BY DEF AllocateServer, RejectUnallocated, cycleVars, assignVars, history
<1>2. TicketsOfAll(AcceptedMatches)' \subseteq TicketsOfAll(AcceptedMatches)
  BY <1>1 DEF TicketsOfAll, AcceptedMatches
<1> QED
  BY <1>1, <1>2 DEF AssignedInv, Phases, NoRecordedTicketAccepted

LEMMA AssignedSendStep ==
    ASSUME AssignedInv,
           \/ \E r \in sending :
                 \/ SendRoster(r)
                 \/ \E arrived \in BOOLEAN : SendRosterFails(r, arrived)
           \/ \E t \in tracking, sameInstant \in BOOLEAN : TrackTicket(t, sameInstant)
    PROVE  AssignedInv'
<1>1. /\ sending # {} \/ tracking # {}
      /\ UNCHANGED <<pc, proposed, matches>>
  BY DEF SendRoster, SendRosterFails, TrackTicket, cycleVars, matchVars
<1>2. Phases'
  BY <1>1 DEF AssignedInv, Phases
<1>3. TicketsOfAll(AcceptedMatches)' = TicketsOfAll(AcceptedMatches)
  BY <1>1 DEF TicketsOfAll, AcceptedMatches
<1>4. CASE \E r \in sending :
              SendRoster(r) \/ \E arrived \in BOOLEAN : SendRosterFails(r, arrived)
  <2>1. assignments' = assignments /\ sentNow \subseteq sentNow' /\ tracking' \subseteq sentNow'
    BY <1>4 DEF SendRoster, SendRosterFails, AssignedInv
  <2> QED
    BY <1>2, <1>3, <2>1 DEF AssignedInv, NoRecordedTicketAccepted
<1>5. ASSUME NEW t \in tracking, NEW sameInstant \in BOOLEAN, TrackTicket(t, sameInstant)
      PROVE  AssignedInv'
  <2>1. /\ assignments' = assignments \cup {t} /\ sentNow' = sentNow
        /\ tracking' \subseteq tracking
    BY <1>5 DEF TrackTicket, history
  <2> QED
    BY <1>2, <1>3, <2>1 DEF AssignedInv, NoRecordedTicketAccepted
<1> QED
  BY <1>4, <1>5

LEMMA AssignedOtherStep ==
    ASSUME AssignedInv,
           \/ \E t \in rejecting : QueueForActivation(t)
           \/ ActivationStep \/ Terminated \/ UNCHANGED vars
    PROVE  AssignedInv'
<1>1. UNCHANGED <<pc, proposed, matches, sending, tracking, assignments, sentNow>>
  BY DEF QueueForActivation, ActivationStep, Activate, Terminated, vars, cycleVars, matchVars,
         assignVars, history
<1> QED
  BY <1>1, AssignedUnchanged

LEMMA AssignedNext == AssignedInv /\ [Next]_vars => AssignedInv'
BY AssignedOMStep, AssignedPhaseStep, AssignedProposalStep, AssignedAllocationStep,
   AssignedSendStep, AssignedOtherStep
   DEF Next, DirectorStep

\* For the proofs about the servers, which need the same.
LEMMA PhasesHold == Spec => []Phases
<1>1. AssignedInv => Phases
  BY DEF AssignedInv
<1> QED
  BY <1>1, AssignedInit, AssignedNext, PTL DEF Spec

\* The director never accepts a match with a ticket it assigned in an
\* earlier cycle and still remembers, however late om-core deactivates it.
THEOREM NoReassignment == Spec => []NoRecordedTicketAccepted
<1>1. AssignedInv => NoRecordedTicketAccepted
  BY DEF AssignedInv
<1> QED
  BY <1>1, AssignedInit, AssignedNext, PTL DEF Spec
=============================================================================
