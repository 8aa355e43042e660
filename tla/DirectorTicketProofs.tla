-------------------------- MODULE DirectorTicketProofs --------------------------
(***************************************************************************)
(* The director implements the life of a ticket (TicketLife), for every    *)
(* set of tickets and every bound: each of its steps is one of the steps   *)
(* TicketLife allows, or none.  That no path loses a ticket but the ones   *)
(* TicketLife names then follows from TicketLife alone.                    *)
(***************************************************************************)
EXTENDS DirectorProofs

\* The channel is first in, first out.
LEMMA ToSetAppend ==
    ASSUME NEW S, NEW q \in Seq(S), NEW e \in S
    PROVE  ToSet(Append(q, e)) = ToSet(q) \cup {e}
<1>1. /\ DOMAIN Append(q, e) = 1..(Len(q) + 1) /\ DOMAIN q = 1..Len(q)
      /\ Append(q, e)[Len(q) + 1] = e
      /\ \A i \in 1..Len(q) : Append(q, e)[i] = q[i]
      /\ Len(q) \in Nat
  OBVIOUS
<1> QED
  BY <1>1 DEF ToSet

LEMMA ToSetHeadTail ==
    ASSUME NEW S, NEW q \in Seq(S), q # <<>>
    PROVE  ToSet(q) \subseteq {Head(q)} \cup ToSet(Tail(q))
<1> SUFFICES ASSUME NEW i \in 1..Len(q), q[i] # Head(q)
             PROVE  \E j \in DOMAIN Tail(q) : Tail(q)[j] = q[i]
  BY DEF ToSet
<1>1. i # 1
  OBVIOUS
<1>2. i - 1 \in DOMAIN Tail(q) /\ Tail(q)[i - 1] = q[i]
  BY <1>1
<1> QED
  BY <1>2


LEMMA ToSetTail ==
    ASSUME NEW S, NEW q \in Seq(S), q # <<>>
    PROVE  Head(q) \in ToSet(q) /\ ToSet(Tail(q)) \subseteq ToSet(q)
<1>1. Head(q) = q[1] /\ 1 \in DOMAIN q
  OBVIOUS
<1>2. ASSUME NEW i \in DOMAIN Tail(q)
      PROVE  Tail(q)[i] = q[i + 1] /\ i + 1 \in DOMAIN q
  OBVIOUS
<1> QED
  BY <1>1, <1>2 DEF ToSet

-----------------------------------------------------------------------------
(* What the director holds.                                                *)

\* A ticket the director holds, by what it holds it for.
HeldFor(t) ==
    \/ \E m \in proposed : t \in TicketsOf(m)
    \/ \E a \in matches : t \in TicketsOf(a.match)
    \/ \E r \in sending : t \in r

LEMMA HeldMeans == ASSUME NEW t PROVE (t \in Held <=> HeldFor(t)) /\ (t \in Held' <=> HeldFor(t)')
<1>1. t \in Held <=> HeldFor(t)
  BY DEF Held, HeldFor, TicketsOfAll, AcceptedMatches
<1>2. t \in Held' <=> HeldFor(t)'
  BY DEF Held, HeldFor, TicketsOfAll, AcceptedMatches
<1> QED
  BY <1>1, <1>2

LEMMA HeldType == TypeOK => Held \subseteq Tickets
<1> SUFFICES ASSUME TypeOK, NEW t, HeldFor(t) PROVE t \in Tickets
  BY HeldMeans
<1> QED
  BY TicketsOfType DEF TypeOK, HeldFor

LEMMA HeldUnchanged ==
    ASSUME UNCHANGED <<proposed, matches, sending>>
    PROVE  Held' = Held
BY DEF Held, TicketsOfAll, AcceptedMatches, TicketsOf

LEMMA ReturningUnchanged ==
    ASSUME UNCHANGED <<rejecting, toActivate>>
    PROVE  (rejecting \cup ToSet(toActivate))' = rejecting \cup ToSet(toActivate)
BY DEF ToSet

LEMMA LifeInit == Init => Life!Init
<1> SUFFICES ASSUME Init PROVE Life!Init
  OBVIOUS
<1>1. Held = {}
  BY HeldMeans DEF Init, HeldFor
<1>2. ToSet(toActivate) = {}
  BY DEF Init, ToSet
<1> QED
  BY <1>1, <1>2 DEF Init, Life!Init

-----------------------------------------------------------------------------
(* The steps.                                                              *)

LEMMA LifeStutter ==
    ASSUME UNCHANGED <<pool, proposed, matches, sending, rejecting, toActivate, assigned, lost>>
    PROVE  UNCHANGED Life!lifeVars
BY HeldUnchanged, ReturningUnchanged DEF Life!lifeVars

LEMMA LifeReturnMatch ==
    ASSUME TypeOK, NEW i \in awaiting, NEW rosters \in Rosters, NEW copied \in BOOLEAN,
           NEW next \in Backfills \cup {NoBackfill}, OMReturn(i, rosters, copied, next)
    PROVE  Life!Next
<1> DEFINE m == [id |-> returned + 1, rosters |-> rosters, next |-> next,
                 hash |-> IF copied THEN i.spec.label ELSE NoHash]
<1>1. TicketsOf(m) = UNION rosters
  BY DEF TicketsOf
<1>2. UNION rosters \subseteq Tickets
  BY DirectorAssumption
<1> HIDE DEF m
<1>3. PICK kept \in Survivors(m) :
        /\ proposed' = kept
        /\ lost' = lost \cup UNION {TicketsOf(n) : n \in (proposed \cup {m}) \ kept}
  BY DEF OMReturn, m
<1>4. kept \subseteq proposed \cup {m}
  BY DEF Survivors
<1>5. /\ pool' = pool \ UNION rosters
      /\ UNCHANGED <<rejecting, assigned, matches, sending, toActivate>>
  BY DEF OMReturn, queueVars, assignVars
<1> DEFINE dropped == UNION {TicketsOf(n) : n \in (proposed \cup {m}) \ kept}
<1>6. dropped \subseteq Held \cup UNION rosters
  BY <1>1, HeldMeans DEF HeldFor
<1>7. Held' \subseteq Held \cup UNION rosters
  BY <1>1, <1>3, <1>4, <1>5, HeldMeans DEF HeldFor, TicketsOf
<1>8. (Held \cup UNION rosters) \ dropped \subseteq Held'
  <2> SUFFICES ASSUME NEW t, t \in Held \cup UNION rosters, t \notin dropped
               PROVE  HeldFor(t)'
    BY HeldMeans
  <2>1. CASE \E n \in proposed \cup {m} : t \in TicketsOf(n)
    BY <2>1, <1>3 DEF HeldFor, TicketsOf
  <2>2. CASE ~\E n \in proposed \cup {m} : t \in TicketsOf(n)
    BY <2>2, <1>1, <1>5, HeldMeans DEF HeldFor, TicketsOf
  <2> QED
    BY <2>1, <2>2
<1>9. lost' = lost \cup dropped
  BY <1>3
<1> HIDE DEF dropped
<1>10. Life!Match(UNION rosters)
  BY <1>5, <1>6, <1>7, <1>8, <1>9, ReturningUnchanged DEF Life!Match, Life!Without
<1> QED
  BY <1>2, <1>10 DEF Life!Next

\* om-core takes tickets out of the pool; they are proposed or lost.
LEMMA LifeOMStep ==
    ASSUME TypeOK, OMStep
    PROVE  [Life!Next]_(Life!lifeVars)
<1> SUFFICES ASSUME NEW i \in awaiting,
                    \/ OMComplete(i)
                    \/ \E rosters \in Rosters :
                          \/ \E copied \in BOOLEAN, next \in Backfills \cup {NoBackfill} :
                                OMReturn(i, rosters, copied, next)
                          \/ \E stop \in BOOLEAN : OMResponseUnreadable(i, rosters, stop)
             PROVE  [Life!Next]_(Life!lifeVars)
  BY DEF OMStep
<1>1. CASE OMComplete(i)
  BY <1>1, LifeStutter DEF OMComplete, matchVars, queueVars, assignVars, history
<1>2. ASSUME NEW rosters \in Rosters, NEW stop \in BOOLEAN,
             OMResponseUnreadable(i, rosters, stop)
      PROVE  Life!Next
  <2>1. UNION rosters \in SUBSET Tickets
    BY DirectorAssumption
  <2>2. /\ pool' = pool \ UNION rosters /\ lost' = lost \cup UNION rosters
        /\ UNCHANGED <<proposed, matches, sending, rejecting, toActivate, assigned>>
    BY <1>2 DEF OMResponseUnreadable, matchVars, queueVars, assignVars
  <2>3. Held' = Held
    BY <2>2, HeldUnchanged
  <2>4. (rejecting \cup ToSet(toActivate))' = rejecting \cup ToSet(toActivate)
    BY <2>2, ReturningUnchanged
  <2> QED
    BY <2>1, <2>2, <2>3, <2>4 DEF Life!Next, Life!Match, Life!Without
<1> QED
  BY <1>1, <1>2, LifeReturnMatch

LEMMA LifeProposalStep ==
    ASSUME TypeOK, NEW m \in proposed,
           RejectProposal(m) \/ AcceptProposal(m) \/ AcceptWithBackfill(m) \/ Panic(m)
    PROVE  [Life!Next]_(Life!lifeVars)
<1>0. UNCHANGED <<pool, assigned, lost, sending, toActivate>>
  BY DEF RejectProposal, AcceptProposal, AcceptWithBackfill, Panic, omVars, queueVars,
         assignVars, history
<1>1. CASE RejectProposal(m)
  <2>1. /\ proposed' = proposed \ {m} /\ rejecting' = TicketsOf(m) /\ rejecting = {}
        /\ matches' = matches
    BY <1>1 DEF RejectProposal, Idle
  <2>2. Life!Without(Held, TicketsOf(m), Held')
    BY <1>0, <2>1, HeldMeans DEF Life!Without, HeldFor, TicketsOf
  <2>3. TicketsOf(m) \subseteq Held
    BY HeldMeans DEF HeldFor
  <2>4. (rejecting \cup ToSet(toActivate))' = (rejecting \cup ToSet(toActivate)) \cup TicketsOf(m)
    BY <1>0, <2>1 DEF ToSet
  <2>5. TicketsOf(m) \in SUBSET Tickets
    BY <2>3, HeldType
  <2> QED
    BY <1>0, <2>2, <2>3, <2>4, <2>5 DEF Life!Next, Life!Reject
<1>2. CASE AcceptProposal(m) \/ AcceptWithBackfill(m)
  <2>0. PICK spec : matches' = matches \cup {[match |-> m, spec |-> spec]}
    BY <1>2 DEF AcceptProposal, AcceptWithBackfill
  <2> DEFINE a == [match |-> m, spec |-> spec]
  <2>1. matches' = matches \cup {a} /\ a.match = m
    BY <2>0
  <2> HIDE DEF a
  <2>2. proposed' = proposed \ {m} /\ rejecting' = rejecting
    BY <1>2 DEF AcceptProposal, AcceptWithBackfill, queueVars
  <2>3. ASSUME NEW t PROVE HeldFor(t) <=> HeldFor(t)'
    BY <1>0, <2>1, <2>2 DEF HeldFor, TicketsOf
  <2>4. Held' = Held
    BY <2>3, HeldMeans
  <2> QED
    BY <1>0, <2>2, <2>4, ReturningUnchanged DEF Life!lifeVars
<1>3. CASE Panic(m)
  BY <1>3, LifeStutter DEF Panic, omVars, matchVars, queueVars, assignVars, history
<1> QED
  BY <1>1, <1>2, <1>3

LEMMA LifeAllocationStep ==
    ASSUME TypeOK, NEW a \in matches, AllocateServer(a) \/ RejectUnallocated(a)
    PROVE  [Life!Next]_(Life!lifeVars)
<1>1. /\ matches' = matches \ {a} /\ Idle
      /\ UNCHANGED <<pool, proposed, toActivate, assigned, lost>>
  BY DEF AllocateServer, RejectUnallocated, omVars, queueVars, history
<1>2. CASE AllocateServer(a)
  <2>1. sending' = a.match.rosters /\ rejecting' = rejecting /\ sending = {}
    BY <1>1, <1>2 DEF AllocateServer, queueVars, Idle
  <2>2. ASSUME NEW t PROVE HeldFor(t) <=> HeldFor(t)'
    BY <1>1, <2>1 DEF HeldFor, TicketsOf
  <2>3. Held' = Held
    BY <2>2, HeldMeans
  <2> QED
    BY <1>1, <2>1, <2>3, ReturningUnchanged DEF Life!lifeVars
<1>3. CASE RejectUnallocated(a)
  <2>1. rejecting' = TicketsOf(a.match) /\ rejecting = {} /\ sending' = sending
    BY <1>1, <1>3 DEF RejectUnallocated, assignVars, Idle
  <2>2. Life!Without(Held, TicketsOf(a.match), Held')
    BY <1>1, <2>1, HeldMeans DEF Life!Without, HeldFor, TicketsOf
  <2>3. TicketsOf(a.match) \subseteq Held
    BY HeldMeans DEF HeldFor
  <2>4. (rejecting \cup ToSet(toActivate))'
           = (rejecting \cup ToSet(toActivate)) \cup TicketsOf(a.match)
    BY <1>1, <2>1 DEF ToSet
  <2>5. TicketsOf(a.match) \in SUBSET Tickets
    BY <2>3, HeldType
  <2> QED
    BY <1>1, <2>2, <2>3, <2>4, <2>5 DEF Life!Next, Life!Reject
<1> QED
  BY <1>2, <1>3

LEMMA LifeSendStep ==
    ASSUME TypeOK, NEW r \in sending,
           SendRoster(r) \/ \E arrived \in BOOLEAN : SendRosterFails(r, arrived)
    PROVE  Life!Next
<1>1. /\ sending' = sending \ {r}
      /\ UNCHANGED <<pool, proposed, matches, rejecting, toActivate>>
  BY DEF SendRoster, SendRosterFails, omVars, matchVars, queueVars
<1>2. Life!Without(Held, r, Held')
  BY <1>1, HeldMeans DEF Life!Without, HeldFor, TicketsOf
<1>3. r \subseteq Held /\ r \in SUBSET Tickets
  BY HeldMeans, HeldType DEF HeldFor
<1>4. (rejecting \cup ToSet(toActivate))' = rejecting \cup ToSet(toActivate)
  BY <1>1, ReturningUnchanged
<1>5. CASE SendRoster(r)
  <2>1. assigned' = assigned \cup r /\ lost' = lost
    BY <1>5 DEF SendRoster
  <2>2. Life!Assign(r)
    BY <1>1, <1>2, <1>3, <1>4, <2>1 DEF Life!Assign
  <2> QED
    BY <1>3, <2>2 DEF Life!Next
<1>6. ASSUME NEW arrived \in BOOLEAN, SendRosterFails(r, arrived)
      PROVE  Life!Next
  <2>1. lost' = lost \cup r /\ assigned' = IF arrived THEN assigned \cup r ELSE assigned
    BY <1>6 DEF SendRosterFails
  <2>2. Life!FailToAssign(r, arrived)
    BY <1>1, <1>2, <1>3, <1>4, <2>1 DEF Life!FailToAssign
  <2> QED
    BY <1>3, <2>2 DEF Life!Next
<1> QED
  BY <1>5, <1>6

\* A ticket leaves rejectMatch only into the channel, and the channel only
\* into om-core or the log.
LEMMA LifeReactivationStep ==
    ASSUME TypeOK, (\E t \in rejecting : QueueForActivation(t)) \/ ActivationStep
    PROVE  [Life!Next]_(Life!lifeVars)
<1> DEFINE returning == rejecting \cup ToSet(toActivate)
<1>1. ASSUME NEW t \in rejecting, QueueForActivation(t)
      PROVE  UNCHANGED Life!lifeVars
  <2>1. t \in Tickets /\ toActivate \in Seq(Tickets)
    BY DEF TypeOK
  <2>2. ToSet(Append(toActivate, t)) = ToSet(toActivate) \cup {t}
    BY <2>1, ToSetAppend
  <2>3. ToSet(toActivate)' = ToSet(Append(toActivate, t))
    BY <1>1 DEF QueueForActivation, ToSet
  <2>4. /\ rejecting' = rejecting \ {t}
        /\ UNCHANGED <<pool, proposed, matches, sending, assigned, lost>>
    BY <1>1 DEF QueueForActivation, omVars, matchVars, assignVars, history
  <2>5. returning' = returning
    BY <2>2, <2>3, <2>4
  <2> QED
    BY <2>4, <2>5, HeldUnchanged DEF Life!lifeVars
<1>2. ASSUME NEW activated \in BOOLEAN, Activate(activated)
      PROVE  Life!Next
  <2>1. toActivate \in Seq(Tickets) /\ toActivate # <<>>
    BY <1>2 DEF TypeOK, Activate
  <2>2. PICK t : t = Head(toActivate)
    OBVIOUS
  <2>3. /\ ToSet(toActivate) \subseteq {t} \cup ToSet(Tail(toActivate))
        /\ t \in ToSet(toActivate) /\ ToSet(Tail(toActivate)) \subseteq ToSet(toActivate)
    BY <2>1, <2>2, ToSetHeadTail, ToSetTail
  <2>4. ToSet(toActivate)' = ToSet(Tail(toActivate))
    BY <1>2 DEF Activate, ToSet
  <2>5. UNCHANGED <<proposed, matches, rejecting, sending, assigned>>
    BY <1>2 DEF Activate, matchVars, assignVars
  <2>6. t \in returning /\ Life!Without(returning, {t}, returning') /\ Held' = Held
    BY <2>3, <2>4, <2>5, HeldUnchanged DEF Life!Without
  <2>7. \/ pool' = pool \cup {t} /\ lost' = lost
        \/ lost' = lost \cup {t} /\ pool' = pool
    BY <1>2, <2>2 DEF Activate
  <2>8. Life!Return(t) \/ Life!GiveUp(t)
    BY <2>5, <2>6, <2>7 DEF Life!Return, Life!GiveUp
  <2> QED
    BY <2>6, <2>8 DEF Life!Next
<1> QED
  BY <1>1, <1>2 DEF ActivationStep

LEMMA LifeOtherStep ==
    ASSUME \/ BeginCycle \/ EndCollect \/ EndProposals \/ EndAllocate
           \/ \E t \in tracking, sameInstant \in BOOLEAN : TrackTicket(t, sameInstant)
           \/ \E n \in 0..Len(assignmentTTL) : ExpireAssignments(n)
           \/ Terminated \/ UNCHANGED vars
    PROVE  UNCHANGED Life!lifeVars
<1>1. UNCHANGED <<pool, rejecting, proposed, matches, sending, toActivate, assigned, lost>>
  BY DEF BeginCycle, EndCollect, EndProposals, EndAllocate, TrackTicket, ExpireAssignments,
         Terminated, vars, omVars, matchVars, queueVars, assignVars, history
<1> QED
  BY <1>1, LifeStutter

LEMMA LifeNext == TypeOK /\ [Next]_vars => [Life!Next]_(Life!lifeVars)
BY LifeOMStep, LifeProposalStep, LifeAllocationStep, LifeSendStep, LifeReactivationStep,
   LifeOtherStep
   DEF Next, DirectorStep

\* Only a rejected match brings a ticket back to om-core, only a match the
\* director holds gets it assigned, and a step of the director that takes a
\* ticket out of one place of its life puts it into the next.
THEOREM DirectorKeepsTickets == Spec => TicketSpec
BY LifeInit, LifeNext, TypeCorrect, PTL DEF Spec, TicketSpec, Life!Spec

-----------------------------------------------------------------------------
(* What follows from the life of a ticket alone.                           *)

LEMMA AccountedStep == Life!Accounted /\ [Life!Next]_(Life!lifeVars) => Life!Accounted'
<1> SUFFICES ASSUME Life!Accounted, [Life!Next]_(Life!lifeVars)
             PROVE  Life!Accounted'
  OBVIOUS
<1>1. ASSUME NEW s \in SUBSET Tickets, Life!Match(s)
      PROVE  Life!Accounted'
  BY <1>1 DEF Life!Accounted, Life!Match, Life!Without
<1>2. ASSUME NEW s, Life!Reject(s) \/ Life!Assign(s)
                \/ \E arrived \in BOOLEAN : Life!FailToAssign(s, arrived)
      PROVE  Life!Accounted'
  BY <1>2 DEF Life!Accounted, Life!Reject, Life!Assign, Life!FailToAssign, Life!Without
<1>3. ASSUME NEW t, Life!Return(t) \/ Life!GiveUp(t)
      PROVE  Life!Accounted'
  BY <1>3 DEF Life!Accounted, Life!Return, Life!GiveUp, Life!Without
<1>4. CASE UNCHANGED Life!lifeVars
  BY <1>4 DEF Life!lifeVars, Life!Accounted
<1> QED
  BY <1>1, <1>2, <1>3, <1>4 DEF Life!Next

\* A ticket om-core does not offer is always in the director's hands, in
\* the reactivation channel, assigned, or among those given up on.
THEOREM NoTicketStranded == Spec => []TicketsAccountedFor
<1>1. Life!Init => Life!Accounted
  BY DEF Life!Init, Life!Accounted
<1>2. TicketSpec => []Life!Accounted
  BY <1>1, AccountedStep, PTL DEF TicketSpec, Life!Spec
<1> QED
  BY <1>2, DirectorKeepsTickets, PTL DEF TicketsAccountedFor
=============================================================================
