-------------------------- MODULE DirectorServerProofs --------------------------
(***************************************************************************)
(* Every accepted match that asked for a backfill has a server reserved,   *)
(* for every set of fleets and backfill requests and every bound, and a    *)
(* fleet of enough servers never makes the director panic.                 *)
(***************************************************************************)
EXTENDS DirectorProofs, FiniteSetTheorems

BackfillSpec(b) == AllocationSpecFromMMFRequests({b})

-----------------------------------------------------------------------------
(* What the two halves of a game server update do to the ready servers.    *)

LEMMA ReadyAfterRemove ==
    ASSUME NEW gs, GameServersOK(gs), NEW s \in DOMAIN gs, NEW k
    PROVE  ReadyServers(RemoveServer(gs, s), k) = ReadyServers(gs, k) - (IF k = s THEN 1 ELSE 0)
<1>1. \A x \in DOMAIN gs : gs[x].count \in Nat \ {0}
  BY DEF GameServersOK
<1>2. CASE gs[s].count - 1 > 0
  <2>1. RemoveServer(gs, s) = [gs EXCEPT ![s].count = @ - 1]
    BY <1>2 DEF RemoveServer
  <2>2. DOMAIN RemoveServer(gs, s) = DOMAIN gs
    BY <2>1
  <2>3. CASE k = s
    <3>1. RemoveServer(gs, s)[s].count = gs[s].count - 1
      BY <2>1 DEF GameServersOK
    <3> QED
      BY <2>2, <2>3, <3>1 DEF ReadyServers
  <2>4. CASE k # s
    BY <1>1, <2>1, <2>2, <2>4 DEF ReadyServers
  <2> QED
    BY <2>3, <2>4
<1>3. CASE ~(gs[s].count - 1 > 0)
  <2>1. RemoveServer(gs, s) = Restrict(gs, DOMAIN gs \ {s}) /\ gs[s].count = 1
    BY <1>1, <1>3 DEF RemoveServer
  <2> QED
    BY <1>1, <2>1 DEF ReadyServers, Restrict
<1> QED
  BY <1>2, <1>3

LEMMA ReadyAfterAdd ==
    ASSUME NEW gs, GameServersOK(gs), NEW b, NEW k
    PROVE  ReadyServers(AddServer(gs, {b}), k) =
             ReadyServers(gs, k) + (IF k = BackfillSpec(b) THEN 1 ELSE 0)
<1> DEFINE new == BackfillSpec(b)
<1>1. AddServer(gs, {b}) =
        [x \in DOMAIN gs \cup {new} |->
            IF x = new THEN [count |-> ReadyServers(gs, new) + 1, mmfParams |-> {b}] ELSE gs[x]]
  BY DEF AddServer, BackfillSpec
<1> HIDE DEF new
<1>2. \A x : ReadyServers(gs, x) \in Nat
  BY DEF ReadyServers, GameServersOK
<1>3. CASE k = new
  <2>1. AddServer(gs, {b})[new].count = ReadyServers(gs, new) + 1
    BY <1>1
  <2> QED
    BY <1>1, <1>3, <2>1 DEF ReadyServers, new
<1>4. CASE k # new
  BY <1>1, <1>2, <1>4 DEF ReadyServers, new
<1> QED
  BY <1>3, <1>4

-----------------------------------------------------------------------------
(* No server is invented or lost.                                          *)

LEMMA ServersAre ==
    ASSUME NEW gs, GameServersOK(gs), NEW k, NEW n
    PROVE  <<k, n>> \in Servers(gs) <=> n \in 1..ReadyServers(gs, k)
BY DEF Servers, ReadyServers, GameServersOK

\* What leaves is the server with the highest number.
LEMMA ServersAfterRemove ==
    ASSUME NEW gs, GameServersOK(gs), NEW s \in DOMAIN gs, IsFiniteSet(Servers(gs))
    PROVE  /\ IsFiniteSet(Servers(RemoveServer(gs, s)))
           /\ Cardinality(Servers(RemoveServer(gs, s))) = Cardinality(Servers(gs)) - 1
<1> DEFINE last == <<s, ReadyServers(gs, s)>>
<1>1. GameServersOK(RemoveServer(gs, s))
  BY RemoveServerType
<1>2. \A k : ReadyServers(gs, k) \in Nat
  BY DEF ReadyServers, GameServersOK
<1>3. ReadyServers(gs, s) > 0
  BY DEF ReadyServers, GameServersOK
<1>4. ASSUME NEW k, NEW n
      PROVE  <<k, n>> \in Servers(RemoveServer(gs, s)) <=> <<k, n>> \in Servers(gs) \ {last}
  BY <1>1, <1>2, <1>3, ServersAre, ReadyAfterRemove
<1>5. Servers(RemoveServer(gs, s)) = Servers(gs) \ {last}
  <2>1. \A x \in Servers(gs) \cup Servers(RemoveServer(gs, s)) : \E k, n : x = <<k, n>>
    BY DEF Servers
  <2> QED
    BY <1>4, <2>1
<1>6. last \in Servers(gs)
  BY <1>2, <1>3, ServersAre
<1> HIDE DEF last
<1> QED
  BY <1>5, <1>6, FS_RemoveElement

LEMMA ServersAfterAdd ==
    ASSUME NEW gs, GameServersOK(gs), NEW b \in Requests, IsFiniteSet(Servers(gs))
    PROVE  /\ IsFiniteSet(Servers(AddServer(gs, {b})))
           /\ Cardinality(Servers(AddServer(gs, {b}))) = Cardinality(Servers(gs)) + 1
<1> DEFINE new == <<BackfillSpec(b), ReadyServers(gs, BackfillSpec(b)) + 1>>
<1>1. GameServersOK(AddServer(gs, {b}))
  BY AddServerType
<1>2. \A k : ReadyServers(gs, k) \in Nat
  BY DEF ReadyServers, GameServersOK
<1>3. ASSUME NEW k, NEW n
      PROVE  <<k, n>> \in Servers(AddServer(gs, {b})) <=> <<k, n>> \in Servers(gs) \cup {new}
  <2>1. /\ <<k, n>> \in Servers(gs) <=> n \in 1..ReadyServers(gs, k)
        /\ <<k, n>> \in Servers(AddServer(gs, {b})) <=> n \in 1..ReadyServers(AddServer(gs, {b}), k)
    BY <1>1, ServersAre
  <2>2. /\ ReadyServers(AddServer(gs, {b}), k) =
             ReadyServers(gs, k) + (IF k = BackfillSpec(b) THEN 1 ELSE 0)
        /\ ReadyServers(gs, k) \in Nat
    BY <1>2, ReadyAfterAdd
  <2>3. <<k, n>> = new <=> k = BackfillSpec(b) /\ n = ReadyServers(gs, BackfillSpec(b)) + 1
    OBVIOUS
  <2> HIDE DEF new
  <2> QED
    BY <2>1, <2>2, <2>3
<1>4. Servers(AddServer(gs, {b})) = Servers(gs) \cup {new}
  <2>1. \A x \in Servers(gs) \cup Servers(AddServer(gs, {b})) : \E k, n : x = <<k, n>>
    BY DEF Servers
  <2> QED
    BY <1>3, <2>1
<1>5. new \notin Servers(gs)
  <2>1. ReadyServers(gs, BackfillSpec(b)) \in Nat
    BY <1>2
  <2> QED
    BY <2>1, ServersAre
<1> HIDE DEF new
<1> QED
  BY <1>4, <1>5, FS_AddElement

ConservedInv == AgonesTypeOK /\ IsFiniteSet(Servers(gameServers)) /\ ServersConserved

LEMMA ConservedInit == AgonesInit => ConservedInv
<1> SUFFICES ASSUME AgonesInit PROVE ConservedInv
  OBVIOUS
<1>1. Servers(gameServers) = FleetSpecs \X (1..FleetCount)
  BY DEF AgonesInit, Servers
<1>2. IsFiniteSet(1..FleetCount) /\ Cardinality(1..FleetCount) = FleetCount
  BY FleetAssumption, FS_Interval
<1>3. IsFiniteSet(FleetSpecs) /\ Cardinality(FleetSpecs) = 1
  <2>1. FleetSpecs = {[label |-> {}, annotation |-> {}]}
    BY FleetAssumption DEF FleetSpecs, FleetAllocSpec
  <2> QED
    BY <2>1, FS_Singleton
<1>4. IsFiniteSet(Servers(gameServers)) /\ Cardinality(Servers(gameServers)) = 1 * FleetCount
  <2>1. /\ IsFiniteSet(FleetSpecs \X (1..FleetCount))
        /\ Cardinality(FleetSpecs \X (1..FleetCount)) =
              Cardinality(FleetSpecs) * Cardinality(1..FleetCount)
    BY <1>2, <1>3, FS_Product
  <2> QED
    BY <1>1, <1>2, <1>3, <2>1
<1>5. allocated = 0
  BY DEF AgonesInit
<1> QED
  BY <1>3, <1>4, <1>5, FleetAssumption, AgonesInitType DEF ConservedInv, ServersConserved

LEMMA ConservedStep == ConservedInv /\ [AgonesNext]_agonesVars => ConservedInv'
<1> SUFFICES ASSUME ConservedInv, [AgonesNext]_agonesVars PROVE ConservedInv'
  OBVIOUS
<1>1. GameServersOK(gameServers) /\ allocated \in Nat
  BY DEF ConservedInv, AgonesTypeOK
<1>2. Cardinality(Servers(gameServers)) \in Nat
  BY FS_CardinalityType DEF ConservedInv
<1>3. ASSUME NEW s \in DOMAIN gameServers, Allocate(s)
      PROVE  ConservedInv'
  <2>1. gameServers' = RemoveServer(gameServers, s) /\ allocated' = allocated + 1
    BY <1>3 DEF Allocate, ProcessGameServerUpdate, AddServer
  <2> QED
    BY <1>1, <1>2, <1>3, <2>1, ServersAfterRemove, AgonesStepType
       DEF ConservedInv, ServersConserved
<1>4. ASSUME NEW s \in DOMAIN gameServers, NEW b \in Backfills, UpdateMMFRequest(s, b)
      PROVE  ConservedInv'
  <2> DEFINE gs == RemoveServer(gameServers, s)
  <2>1. gameServers' = AddServer(gs, {b}) /\ allocated' = allocated
    BY <1>4 DEF UpdateMMFRequest, ProcessGameServerUpdate
  <2>2. /\ GameServersOK(gs) /\ IsFiniteSet(Servers(gs))
        /\ Cardinality(Servers(gs)) = Cardinality(Servers(gameServers)) - 1
    BY <1>1, RemoveServerType, ServersAfterRemove DEF ConservedInv
  <2> HIDE DEF gs
  <2>3. /\ IsFiniteSet(Servers(gameServers'))
        /\ Cardinality(Servers(gameServers')) = Cardinality(Servers(gs)) + 1
    BY <2>1, <2>2, ServersAfterAdd DEF Requests
  <2>4. AgonesTypeOK'
    BY <1>4, AgonesStepType DEF ConservedInv
  <2> QED
    BY <1>1, <1>2, <2>1, <2>2, <2>3, <2>4 DEF ConservedInv, ServersConserved
<1>5. CASE UNCHANGED agonesVars
  BY <1>5 DEF agonesVars, ConservedInv, AgonesTypeOK, ServersConserved
<1> QED
  BY <1>3, <1>4, <1>5 DEF AgonesNext

\* Whatever its caller does, the manager neither invents a server nor loses
\* one when it moves a server to a backfill request or hands one out.
THEOREM ManagerConservesServers == AgonesSpec => []ServersConserved
<1>1. ConservedInv => ServersConserved
  BY DEF ConservedInv
<1> QED
  BY <1>1, ConservedInit, ConservedStep, PTL DEF AgonesSpec

\* The director, as one such caller, in particular.
COROLLARY DirectorConservesServers == Spec => []ServersConserved
BY ManagerConservesServers, DirectorUsesManager, PTL

-----------------------------------------------------------------------------
(* The inductive invariant.                                                *)

MatchesOn(spec) == {a \in matches : a.spec = spec}

\* The count of a backfill spec and the matches waiting for it change
\* together only because no pending request ever names a backfill spec: the
\* entries are gone when the next cycle asks for the pending requests.
ServerInv ==
    /\ IsFiniteSet(matches)
    /\ \A a \in matches : a.match \notin proposed
    /\ \A h \in DOMAIN pending, b \in Backfills : pending[h] # BackfillSpec(b)
    /\ BackfillServersReserved

ReservedFor(b) ==
    ReadyServers(gameServers, BackfillSpec(b)) = Cardinality(MatchesOn(BackfillSpec(b)))

LEMMA ReservedEach == BackfillServersReserved <=> \A b \in Backfills : ReservedFor(b)
BY DEF BackfillServersReserved, ReservedFor, BackfillSpec, MatchesOn

LEMMA BackfillSpecsDiffer ==
    ASSUME NEW b, NEW c, BackfillSpec(b) = BackfillSpec(c)
    PROVE  b = c
<1>1. BackfillSpec(b).label = {b} /\ BackfillSpec(c).label = {c}
  BY DEF BackfillSpec, AllocationSpecFromMMFRequests
<1> QED
  BY <1>1

LEMMA ServerInit == Init => ServerInv
<1> SUFFICES ASSUME Init PROVE ServerInv
  OBVIOUS
<1>1. matches = {} /\ DOMAIN pending = {}
  BY DEF Init
<1>2. ASSUME NEW b \in Backfills PROVE ReservedFor(b)
  <2>1. BackfillSpec(b).label = {b}
    BY DEF BackfillSpec, AllocationSpecFromMMFRequests
  <2>2. BackfillSpec(b) \notin FleetSpecs
    BY <2>1 DEF FleetSpecs, FleetAllocSpec
  <2>3. DOMAIN gameServers = FleetSpecs
    BY DEF Init, AgonesInit
  <2>4. MatchesOn(BackfillSpec(b)) = {}
    BY <1>1 DEF MatchesOn
  <2> QED
    BY <2>2, <2>3, <2>4, FS_EmptySet DEF ReservedFor, ReadyServers
<1> QED
  BY <1>1, <1>2, ReservedEach, FS_EmptySet DEF ServerInv

\* Steps that leave the servers and the accepted matches alone and only
\* shrink the proposals, or replace them when no match is accepted.
LEMMA ServerUnchanged ==
    ASSUME ServerInv, UNCHANGED <<gameServers, matches, pending>>,
           proposed' \subseteq proposed \/ matches = {}
    PROVE  ServerInv'
BY DEF ServerInv, BackfillServersReserved

\* No server that carries a backfill request is left when the manager is
\* asked for work.
LEMMA NoBackfillOffered ==
    ASSUME TypeOK, Phases, ServerInv, BeginCycle,
           NEW i \in GetMMFParams, NEW b \in Backfills
    PROVE  i.spec # BackfillSpec(b)
<1>1. matches = {}
  BY DEF BeginCycle, Phases
<1>2. i.spec \in DOMAIN gameServers
  BY DEF GetMMFParams
<1>3. ReadyServers(gameServers, i.spec) # 0
  BY <1>2 DEF ReadyServers, TypeOK, AgonesTypeOK, GameServersOK
<1>4. ReservedFor(b) /\ MatchesOn(BackfillSpec(b)) = {}
  BY <1>1, ReservedEach DEF ServerInv, MatchesOn
<1> QED
  BY <1>3, <1>4, FS_EmptySet DEF ReservedFor

LEMMA ServerBeginCycle ==
    ASSUME TypeOK, Phases, ServerInv, BeginCycle
    PROVE  ServerInv'
<1>1. matches = {} /\ UNCHANGED <<gameServers, matches, proposed>>
  BY DEF BeginCycle, Phases, agonesVars
<1>2. pending' = Remember(GetMMFParams)
  BY DEF BeginCycle
<1>3. ASSUME NEW h \in DOMAIN pending', NEW b \in Backfills
      PROVE  pending'[h] # BackfillSpec(b)
  BY <1>2, NoBackfillOffered DEF Remember, ServerInv
<1> QED
  BY <1>1, <1>3 DEF ServerInv, BackfillServersReserved

\* A new match that takes spec `s`, and its place in the counts.
LEMMA MatchesOnAdd ==
    ASSUME IsFiniteSet(matches), NEW a, a \notin matches, matches' = matches \cup {a}, NEW k
    PROVE  /\ IsFiniteSet(matches')
           /\ Cardinality(MatchesOn(k)') =
                Cardinality(MatchesOn(k)) + (IF a.spec = k THEN 1 ELSE 0)
<1>1. IsFiniteSet(matches')
  BY FS_AddElement
<1>2. IsFiniteSet(MatchesOn(k)) /\ Cardinality(MatchesOn(k)) \in Nat
  BY FS_Subset, FS_CardinalityType DEF MatchesOn
<1>3. CASE a.spec = k
  <2>1. MatchesOn(k)' = MatchesOn(k) \cup {a} /\ a \notin MatchesOn(k)
    BY <1>3 DEF MatchesOn
  <2> QED
    BY <1>1, <1>2, <1>3, <2>1, FS_AddElement
<1>4. CASE a.spec # k
  <2>1. MatchesOn(k)' = MatchesOn(k)
    BY <1>4 DEF MatchesOn
  <2> QED
    BY <1>1, <1>2, <1>4, <2>1
<1> QED
  BY <1>3, <1>4

LEMMA MatchesOnRemove ==
    ASSUME IsFiniteSet(matches), NEW a \in matches, matches' = matches \ {a}, NEW k
    PROVE  /\ IsFiniteSet(matches')
           /\ Cardinality(MatchesOn(k)') =
                Cardinality(MatchesOn(k)) - (IF a.spec = k THEN 1 ELSE 0)
<1>1. IsFiniteSet(matches')
  BY FS_RemoveElement
<1>2. IsFiniteSet(MatchesOn(k)) /\ Cardinality(MatchesOn(k)) \in Nat
  BY FS_Subset, FS_CardinalityType DEF MatchesOn
<1>3. CASE a.spec = k
  <2>1. MatchesOn(k)' = MatchesOn(k) \ {a} /\ a \in MatchesOn(k)
    BY <1>3 DEF MatchesOn
  <2> QED
    BY <1>1, <1>2, <1>3, <2>1, FS_RemoveElement
<1>4. CASE a.spec # k
  <2>1. MatchesOn(k)' = MatchesOn(k)
    BY <1>4 DEF MatchesOn
  <2> QED
    BY <1>1, <1>2, <1>4, <2>1
<1> QED
  BY <1>3, <1>4

LEMMA ServerAccept ==
    ASSUME TypeOK, ServerInv, NEW m \in proposed, AcceptProposal(m) \/ AcceptWithBackfill(m)
    PROVE  ServerInv'
<1> DEFINE s == IF m.next = NoBackfill THEN pending[m.hash] ELSE BackfillSpec(m.next)
           a == [match |-> m, spec |-> s]
<1>1. /\ matches' = matches \cup {a} /\ proposed' = proposed \ {m}
      /\ pending' = pending /\ m.hash \in DOMAIN pending
  BY DirectorAssumption
     DEF AcceptProposal, AcceptWithBackfill, Acceptable, BackfillSpec
<1>2. a.match = m /\ a.spec = s
  OBVIOUS
<1> HIDE DEF a, s
<1>3. a \notin matches
  BY <1>2 DEF ServerInv
<1>4. \A x \in matches' : x.match \notin proposed'
  BY <1>1, <1>2 DEF ServerInv
<1>5. \A h \in DOMAIN pending', b \in Backfills : pending'[h] # BackfillSpec(b)
  BY <1>1 DEF ServerInv
<1>6. ASSUME NEW b \in Backfills PROVE ReservedFor(b)'
  <2>1. /\ ReservedFor(b) /\ IsFiniteSet(matches) /\ pending[m.hash] # BackfillSpec(b)
    BY <1>1, ReservedEach DEF ServerInv
  <2>2. Cardinality(MatchesOn(BackfillSpec(b))') =
          Cardinality(MatchesOn(BackfillSpec(b))) + (IF s = BackfillSpec(b) THEN 1 ELSE 0)
    BY <1>1, <1>2, <1>3, <2>1, MatchesOnAdd
  <2>3. ReadyServers(gameServers', BackfillSpec(b)) =
          ReadyServers(gameServers, BackfillSpec(b)) + (IF s = BackfillSpec(b) THEN 1 ELSE 0)
    <3>1. CASE AcceptProposal(m)
      <4>1. gameServers' = gameServers /\ s = pending[m.hash]
        BY <3>1 DEF AcceptProposal, agonesVars, s
      <4>2. ReadyServers(gameServers, BackfillSpec(b)) \in Nat
        BY DEF ReadyServers, TypeOK, AgonesTypeOK, GameServersOK
      <4> QED
        BY <2>1, <4>1, <4>2
    <3>2. CASE AcceptWithBackfill(m)
      <4> DEFINE old == pending[m.hash]
                 gs == RemoveServer(gameServers, old)
      <4>1. /\ old \in DOMAIN gameServers /\ gameServers' = AddServer(gs, {m.next})
            /\ s = BackfillSpec(m.next)
        BY <3>2, DirectorAssumption
           DEF AcceptWithBackfill, UpdateMMFRequest, ProcessGameServerUpdate, s
      <4>2. GameServersOK(gameServers)
        BY DEF TypeOK, AgonesTypeOK
      <4>3. GameServersOK(gs)
        BY <4>2, RemoveServerType
      <4>4. ReadyServers(gs, BackfillSpec(b)) = ReadyServers(gameServers, BackfillSpec(b))
        <5>1. ReadyServers(gameServers, BackfillSpec(b)) \in Nat
          BY <4>2 DEF ReadyServers, GameServersOK
        <5> QED
          BY <2>1, <4>1, <4>2, <5>1, ReadyAfterRemove
      <4> HIDE DEF gs, old
      <4>5. ReadyServers(AddServer(gs, {m.next}), BackfillSpec(b)) =
              ReadyServers(gs, BackfillSpec(b))
                + (IF BackfillSpec(b) = BackfillSpec(m.next) THEN 1 ELSE 0)
        BY <4>3, ReadyAfterAdd
      <4> QED
        BY <4>1, <4>4, <4>5
    <3> QED
      BY <3>1, <3>2
  <2> QED
    BY <2>1, <2>2, <2>3 DEF ReservedFor, BackfillSpec, AllocationSpecFromMMFRequests
<1>7. BackfillServersReserved'
  BY <1>6 DEF BackfillServersReserved, ReservedFor, BackfillSpec, MatchesOn
<1>8. IsFiniteSet(matches')
  BY <1>1, FS_AddElement DEF ServerInv
<1> QED
  BY <1>4, <1>5, <1>7, <1>8 DEF ServerInv

LEMMA ServerAllocate ==
    ASSUME TypeOK, ServerInv, NEW a \in matches, AllocateServer(a) \/ RejectUnallocated(a)
    PROVE  ServerInv'
<1>1. matches' = matches \ {a} /\ UNCHANGED <<proposed, pending>>
  BY DEF AllocateServer, RejectUnallocated
<1>2. ASSUME NEW b \in Backfills PROVE ReservedFor(b)'
  <2>1. ReservedFor(b) /\ IsFiniteSet(matches)
    BY ReservedEach DEF ServerInv
  <2>2. Cardinality(MatchesOn(BackfillSpec(b))') =
          Cardinality(MatchesOn(BackfillSpec(b))) - (IF a.spec = BackfillSpec(b) THEN 1 ELSE 0)
    BY <1>1, <2>1, MatchesOnRemove
  <2>3. ReadyServers(gameServers', BackfillSpec(b)) =
          ReadyServers(gameServers, BackfillSpec(b)) - (IF a.spec = BackfillSpec(b) THEN 1 ELSE 0)
    <3>1. GameServersOK(gameServers)
      BY DEF TypeOK, AgonesTypeOK
    <3>2. CASE AllocateServer(a)
      <4>1. a.spec \in DOMAIN gameServers /\ gameServers' = RemoveServer(gameServers, a.spec)
        BY <3>2 DEF AllocateServer, Allocate, ProcessGameServerUpdate, AddServer
      <4> QED
        BY <3>1, <4>1, ReadyAfterRemove
    <3>3. CASE RejectUnallocated(a)
      <4>1. a.spec \notin DOMAIN gameServers /\ gameServers' = gameServers
        BY <3>3 DEF RejectUnallocated, AllocateFails, agonesVars
      <4>2. a.spec # BackfillSpec(b)
        <5>1. SUFFICES ASSUME a.spec = BackfillSpec(b) PROVE FALSE
          OBVIOUS
        <5>2. a \in MatchesOn(BackfillSpec(b)) /\ IsFiniteSet(MatchesOn(BackfillSpec(b)))
          BY <2>1, <5>1, FS_Subset DEF MatchesOn
        <5>3. Cardinality(MatchesOn(BackfillSpec(b))) # 0
          BY <5>2, FS_EmptySet
        <5>4. ReadyServers(gameServers, BackfillSpec(b)) = 0
          BY <4>1, <5>1 DEF ReadyServers
        <5> QED
          BY <2>1, <5>3, <5>4 DEF ReservedFor
      <4>3. ReadyServers(gameServers, BackfillSpec(b)) \in Nat
        BY <3>1 DEF ReadyServers, GameServersOK
      <4> QED
        BY <4>1, <4>2, <4>3
    <3> QED
      BY <3>2, <3>3
  <2> QED
    BY <2>1, <2>2, <2>3 DEF ReservedFor, BackfillSpec, AllocationSpecFromMMFRequests
<1>3. BackfillServersReserved'
  BY <1>2 DEF BackfillServersReserved, ReservedFor, BackfillSpec, MatchesOn
<1>4. IsFiniteSet(matches')
  BY <1>1, FS_RemoveElement DEF ServerInv
<1> QED
  BY <1>1, <1>3, <1>4 DEF ServerInv, BackfillSpec, AllocationSpecFromMMFRequests

LEMMA ServerOMStep ==
    ASSUME Phases, ServerInv, OMStep
    PROVE  ServerInv'
<1>1. /\ matches = {}
      /\ UNCHANGED <<gameServers, matches, pending>>
  BY DEF OMStep, OMComplete, OMReturn, OMResponseUnreadable, agonesVars, matchVars, Phases
<1> QED
  BY <1>1, ServerUnchanged

LEMMA ServerOtherStep ==
    ASSUME ServerInv,
           \/ EndCollect \/ EndProposals \/ EndAllocate
           \/ \E m \in proposed : RejectProposal(m) \/ Panic(m)
           \/ \E t \in rejecting : QueueForActivation(t)
           \/ \E r \in sending :
                 SendRoster(r) \/ \E arrived \in BOOLEAN : SendRosterFails(r, arrived)
           \/ \E t \in tracking, sameInstant \in BOOLEAN : TrackTicket(t, sameInstant)
           \/ \E n \in 0..Len(assignmentTTL) : ExpireAssignments(n)
           \/ ActivationStep \/ Terminated \/ UNCHANGED vars
    PROVE  ServerInv'
<1>1. proposed' \subseteq proposed /\ UNCHANGED <<gameServers, matches, pending>>
  BY DEF EndCollect, EndProposals, EndAllocate, RejectProposal, Panic, QueueForActivation,
         SendRoster, SendRosterFails, TrackTicket, ExpireAssignments, ActivationStep, Activate,
         Terminated, vars, agonesVars, matchVars
<1> QED
  BY <1>1, ServerUnchanged

LEMMA ServerNext == TypeOK /\ Phases /\ ServerInv /\ [Next]_vars => ServerInv'
BY ServerBeginCycle, ServerOMStep, ServerAccept, ServerAllocate, ServerOtherStep
   DEF Next, DirectorStep

\* At every moment the servers that carry a backfill request are as many as
\* the accepted matches that are to take them: Allocate cannot fail for
\* such a match, and no such server outlives its match.
THEOREM BackfillsReserved == Spec => []BackfillServersReserved
<1>1. ServerInv => BackfillServersReserved
  BY DEF ServerInv
<1> QED
  BY <1>1, ServerInit, ServerNext, TypeCorrect, PhasesHold, PTL DEF Spec
-----------------------------------------------------------------------------
(* A fleet that lasts.                                                     *)

FleetSpec == [label |-> {}, annotation |-> {}]
FleetServers == ReadyServers(gameServers, FleetSpec)

\* Servers the cycles from `c` on can take at most.
Needed(c) == (MaxCycles - c) * MaxMatches

\* Proposals and accepted matches that may still take a fleet server.
Claims == Cardinality(proposed) + Cardinality(MatchesOn(FleetSpec))

KnownSpecs ==
    /\ DOMAIN gameServers \subseteq {FleetSpec} \cup {BackfillSpec(b) : b \in Backfills}
    /\ \A h \in DOMAIN pending : pending[h] = FleetSpec

\* A match takes a fleet server once: when its backfill is registered or,
\* if it has none, when its server is allocated.
SupplyInv ==
    /\ KnownSpecs
    /\ IsFiniteSet(proposed)
    /\ NeverPanics
    /\ pc \in {"invoke", "collect"} => FleetServers >= Needed(cycle)
    /\ pc = "collect" => Cardinality(proposed) <= returned
    /\ pc \in {"proposals", "allocate", "expire"} => FleetServers >= Needed(cycle + 1) + Claims

SupplyPre == TypeOK /\ Phases /\ ServerInv

LEMMA NeededStep ==
    ASSUME NEW c \in Nat, c < MaxCycles
    PROVE  /\ Needed(c + 1) \in Nat
           /\ Needed(c) = Needed(c + 1) + MaxMatches
<1>1. PICK d \in Nat : MaxCycles - (c + 1) = d /\ MaxCycles - c = d + 1
  BY DirectorAssumption
<1>2. d * MaxMatches \in Nat /\ (d + 1) * MaxMatches = d * MaxMatches + MaxMatches
  BY DirectorAssumption
<1> QED
  BY <1>1, <1>2 DEF Needed

LEMMA NeededNow ==
    ASSUME SupplyPre, pc # "done"
    PROVE  Needed(cycle + 1) \in Nat
<1>1. cycle \in Nat /\ cycle < MaxCycles
  BY DirectorAssumption DEF SupplyPre, TypeOK
<1> QED
  BY <1>1, NeededStep

LEMMA FleetSpecApart ==
    ASSUME NEW b
    PROVE  BackfillSpec(b) # FleetSpec
<1>1. BackfillSpec(b).label = {b} /\ FleetSpec.label = {}
  BY DEF BackfillSpec, AllocationSpecFromMMFRequests, FleetSpec
<1> QED
  BY <1>1

LEMMA CountsType ==
    ASSUME TypeOK, ServerInv, IsFiniteSet(proposed)
    PROVE  /\ FleetServers \in Nat
           /\ Cardinality(proposed) \in Nat
           /\ Cardinality(MatchesOn(FleetSpec)) \in Nat
<1>1. FleetServers \in Nat
  BY DEF FleetServers, ReadyServers, TypeOK, AgonesTypeOK, GameServersOK
<1>2. IsFiniteSet(MatchesOn(FleetSpec))
  BY FS_Subset DEF MatchesOn, ServerInv
<1> QED
  BY <1>1, <1>2, FS_CardinalityType

LEMMA SupplyInit ==
    ASSUME Init, FleetCount >= MaxCycles * MaxMatches
    PROVE  SupplyInv
<1>1. FleetSpecs = {FleetSpec}
  BY FleetAssumption DEF FleetSpecs, FleetAllocSpec, FleetSpec
<1>2. DOMAIN gameServers = {FleetSpec} /\ gameServers[FleetSpec].count = FleetCount
  BY <1>1 DEF Init, AgonesInit
<1>3. Needed(0) = MaxCycles * MaxMatches
  BY DirectorAssumption DEF Needed
<1> QED
  BY <1>2, <1>3, FS_EmptySet
     DEF Init, SupplyInv, KnownSpecs, NeverPanics, FleetServers, ReadyServers

LEMMA SupplyBeginCycle ==
    ASSUME SupplyPre, SupplyInv, BeginCycle
    PROVE  SupplyInv'
<1>1. /\ pc = "invoke" /\ pc' = "collect" /\ proposed = {} /\ returned' = 0
      /\ UNCHANGED <<gameServers, cycle, proposed>> /\ pending' = Remember(GetMMFParams)
  BY DEF BeginCycle, agonesVars, SupplyPre, Phases
<1>2. \A i \in GetMMFParams : i.spec = FleetSpec
  <2>1. \A i \in GetMMFParams : i.spec \in DOMAIN gameServers
    BY DEF GetMMFParams
  <2> QED
    BY <2>1, NoBackfillOffered DEF SupplyPre, SupplyInv, KnownSpecs
<1>3. KnownSpecs'
  BY <1>1, <1>2 DEF Remember, SupplyInv, KnownSpecs
<1>4. Needed(cycle)' = Needed(cycle) /\ FleetServers' = FleetServers
  BY <1>1 DEF Needed, FleetServers
<1> QED
  BY <1>1, <1>3, <1>4, FS_EmptySet DEF SupplyInv, NeverPanics

LEMMA SupplyOMStep ==
    ASSUME SupplyPre, SupplyInv, OMStep
    PROVE  SupplyInv'
<1>1. /\ pc = "collect" /\ UNCHANGED <<gameServers, pc, cycle, pending>>
      /\ returned \in Nat /\ returned' \in Nat
      /\ \/ proposed' = proposed /\ returned' >= returned
         \/ returned' = returned + 1 /\ \E m : proposed' \subseteq proposed \cup {m}
  <2>1. pc = "collect" /\ UNCHANGED <<gameServers, pc, cycle, pending>>
    BY DEF OMStep, OMReturn, OMComplete, OMResponseUnreadable, agonesVars, cycleVars, matchVars
  <2>2. returned \in Nat
    BY DirectorAssumption DEF SupplyPre, TypeOK
  <2>3. ASSUME NEW i, NEW rosters, NEW copied, NEW next, OMReturn(i, rosters, copied, next)
        PROVE  returned' = returned + 1 /\ \E m : proposed' \subseteq proposed \cup {m}
    BY <2>3 DEF OMReturn, Survivors
  <2>4. ASSUME NEW i, OMComplete(i) \/ \E rosters, stop : OMResponseUnreadable(i, rosters, stop)
        PROVE  proposed' = proposed /\ (returned' = returned \/ returned' = returned + 1)
    BY <2>4 DEF OMComplete, OMResponseUnreadable, matchVars
  <2> QED
    BY <2>1, <2>2, <2>3, <2>4 DEF OMStep
<1>2. IsFiniteSet(proposed') /\ Cardinality(proposed') <= returned'
  <2>1. IsFiniteSet(proposed) /\ Cardinality(proposed) <= returned /\ Cardinality(proposed) \in Nat
    BY <1>1, FS_CardinalityType DEF SupplyInv
  <2>2. ASSUME NEW m, proposed' \subseteq proposed \cup {m}
        PROVE  IsFiniteSet(proposed') /\ Cardinality(proposed') <= Cardinality(proposed) + 1
    <3>1. /\ IsFiniteSet(proposed \cup {m})
          /\ Cardinality(proposed \cup {m}) <= Cardinality(proposed) + 1
      BY <2>1, FS_AddElement
    <3>2. IsFiniteSet(proposed') /\ Cardinality(proposed') <= Cardinality(proposed \cup {m})
      BY <2>2, <3>1, FS_Subset
    <3>3. Cardinality(proposed') \in Nat /\ Cardinality(proposed \cup {m}) \in Nat
      BY <3>1, <3>2, FS_CardinalityType
    <3> QED
      BY <2>1, <3>1, <3>2, <3>3
  <2>3. CASE proposed' = proposed /\ returned' >= returned
    BY <1>1, <2>1, <2>3
  <2>4. CASE returned' = returned + 1 /\ \E m : proposed' \subseteq proposed \cup {m}
    <3>1. IsFiniteSet(proposed') /\ Cardinality(proposed') <= Cardinality(proposed) + 1
      BY <2>2, <2>4
    <3>2. Cardinality(proposed') \in Nat
      BY <3>1, FS_CardinalityType
    <3> QED
      BY <1>1, <2>1, <2>4, <3>1, <3>2
  <2> QED
    BY <1>1, <2>3, <2>4
<1>3. Needed(cycle)' = Needed(cycle) /\ FleetServers' = FleetServers /\ KnownSpecs'
  BY <1>1 DEF Needed, FleetServers, SupplyInv, KnownSpecs
<1> QED
  BY <1>1, <1>2, <1>3 DEF SupplyInv, NeverPanics

LEMMA SupplyEndCollect ==
    ASSUME SupplyPre, SupplyInv, EndCollect
    PROVE  SupplyInv'
<1>1. /\ pc = "collect" /\ pc' = "proposals" /\ matches = {}
      /\ UNCHANGED <<gameServers, cycle, pending, proposed, matches>>
  BY DEF EndCollect, agonesVars, matchVars, SupplyPre, Phases
<1>2. /\ cycle \in Nat /\ cycle < MaxCycles
      /\ returned \in Nat /\ returned <= MaxMatches /\ MaxMatches \in Nat
  BY <1>1, DirectorAssumption DEF SupplyPre, TypeOK
<1>3. /\ FleetServers \in Nat /\ Cardinality(proposed) \in Nat
      /\ Cardinality(MatchesOn(FleetSpec)) = 0
  BY <1>1, CountsType, FS_EmptySet DEF SupplyPre, SupplyInv, MatchesOn
<1>4. FleetServers >= Needed(cycle) /\ Cardinality(proposed) <= returned
  BY <1>1 DEF SupplyInv
<1>5. FleetServers >= Needed(cycle + 1) + Claims
  BY <1>2, <1>3, <1>4, NeededStep DEF Claims
<1>6. /\ Needed(cycle + 1)' = Needed(cycle + 1) /\ FleetServers' = FleetServers
      /\ Claims' = Claims /\ KnownSpecs'
  BY <1>1 DEF Needed, FleetServers, Claims, MatchesOn, SupplyInv, KnownSpecs
<1> QED
  BY <1>1, <1>5, <1>6 DEF SupplyInv, NeverPanics

\* Steps of the two loops: what they take from the fleet they take from the
\* claims on it.
LEMMA SupplySpent ==
    ASSUME SupplyPre, SupplyInv, pc \in {"proposals", "allocate", "expire"},
           pc' \in {"proposals", "allocate", "expire"}, UNCHANGED <<cycle, pending>>,
           KnownSpecs', IsFiniteSet(proposed'),
           NEW d \in Int, NEW e \in Int, d <= e,
           FleetServers' = FleetServers - d, Claims' = Claims - e
    PROVE  SupplyInv'
<1>1. FleetServers \in Nat /\ Claims \in Nat
  BY CountsType DEF SupplyPre, SupplyInv, Claims
<1>2. Needed(cycle + 1) \in Nat
  BY NeededNow
<1>3. FleetServers >= Needed(cycle + 1) + Claims
  BY DEF SupplyInv
<1>4. FleetServers - d >= Needed(cycle + 1) + (Claims - e)
  BY <1>1, <1>2, <1>3
<1>5. Needed(cycle + 1)' = Needed(cycle + 1)
  BY DEF Needed
<1>6. (FleetServers >= Needed(cycle + 1) + Claims)'
  BY <1>4, <1>5
<1> QED
  BY <1>6 DEF SupplyInv, NeverPanics

LEMMA SupplyReject ==
    ASSUME SupplyPre, SupplyInv, NEW m \in proposed, RejectProposal(m)
    PROVE  SupplyInv'
<1>1. /\ pc = "proposals" /\ proposed' = proposed \ {m}
      /\ UNCHANGED <<pc, cycle, pending, gameServers, matches>>
  BY DEF RejectProposal, agonesVars, cycleVars
<1>2. IsFiniteSet(proposed') /\ Cardinality(proposed') = Cardinality(proposed) - 1
  BY <1>1, FS_RemoveElement DEF SupplyInv
<1>3. /\ FleetServers \in Nat /\ Cardinality(proposed) \in Nat
      /\ Cardinality(MatchesOn(FleetSpec)) \in Nat
  BY CountsType DEF SupplyPre, SupplyInv
<1>4. FleetServers' = FleetServers - 0 /\ KnownSpecs'
  BY <1>1, <1>3 DEF FleetServers, SupplyInv, KnownSpecs
<1>5. Claims' = Claims - 1
  BY <1>1, <1>2, <1>3 DEF Claims, MatchesOn
<1> QED
  BY <1>1, <1>2, <1>4, <1>5, SupplySpent

LEMMA SupplyAccept ==
    ASSUME SupplyPre, SupplyInv, NEW m \in proposed, AcceptProposal(m) \/ AcceptWithBackfill(m)
    PROVE  SupplyInv'
<1> DEFINE s == IF m.next = NoBackfill THEN FleetSpec ELSE BackfillSpec(m.next)
           a == [match |-> m, spec |-> s]
           d == IF s = FleetSpec THEN 0 ELSE 1
<1>1. /\ pc = "proposals" /\ proposed' = proposed \ {m} /\ matches' = matches \cup {a}
      /\ UNCHANGED <<pc, cycle, pending>> /\ pending[m.hash] = FleetSpec
  BY DirectorAssumption
     DEF AcceptProposal, AcceptWithBackfill, Acceptable, BackfillSpec, cycleVars,
         SupplyInv, KnownSpecs
<1>2. IsFiniteSet(proposed') /\ Cardinality(proposed') = Cardinality(proposed) - 1
  BY <1>1, FS_RemoveElement DEF SupplyInv
<1>3. /\ FleetServers \in Nat /\ Cardinality(proposed) \in Nat
      /\ Cardinality(MatchesOn(FleetSpec)) \in Nat
  BY CountsType DEF SupplyPre, SupplyInv
<1>4. a.match = m /\ a.spec = s
  OBVIOUS
<1>5. d \in {0, 1} /\ (m.next # NoBackfill => d = 1) /\ (m.next = NoBackfill => d = 0)
  BY FleetSpecApart
<1> HIDE DEF a, s
<1>6. a \notin matches
  BY <1>4 DEF SupplyPre, ServerInv
<1>7. Cardinality(MatchesOn(FleetSpec)') = Cardinality(MatchesOn(FleetSpec)) + (1 - d)
  BY <1>1, <1>3, <1>4, <1>6, MatchesOnAdd DEF SupplyPre, ServerInv
<1> HIDE DEF d
<1>8. Claims' = Claims - d
  BY <1>2, <1>3, <1>5, <1>7 DEF Claims
<1>9. FleetServers' = FleetServers - d /\ KnownSpecs'
  <2>1. CASE AcceptProposal(m)
    <3>1. gameServers' = gameServers /\ d = 0
      BY <1>5, <2>1 DEF AcceptProposal, agonesVars
    <3> QED
      BY <1>1, <1>3, <3>1 DEF FleetServers, SupplyInv, KnownSpecs
  <2>2. CASE AcceptWithBackfill(m)
    <3> DEFINE gs == RemoveServer(gameServers, FleetSpec)
    <3>1. /\ FleetSpec \in DOMAIN gameServers /\ gameServers' = AddServer(gs, {m.next})
          /\ d = 1 /\ m.next \in Backfills
      BY <1>1, <1>5, <2>2, DirectorAssumption
         DEF AcceptWithBackfill, UpdateMMFRequest, ProcessGameServerUpdate
    <3>2. GameServersOK(gameServers)
      BY DEF SupplyPre, TypeOK, AgonesTypeOK
    <3>3. GameServersOK(gs)
      BY <3>1, <3>2, RemoveServerType
    <3>4. ReadyServers(gs, FleetSpec) = FleetServers - 1
      BY <3>1, <3>2, ReadyAfterRemove DEF FleetServers
    <3>5. DOMAIN gs \subseteq DOMAIN gameServers
      BY <3>1 DEF RemoveServer, Restrict
    <3> HIDE DEF gs
    <3>6. ReadyServers(gameServers', FleetSpec) = ReadyServers(gs, FleetSpec) + 0
      BY <3>1, <3>3, ReadyAfterAdd, FleetSpecApart
    <3>7. DOMAIN gameServers' \subseteq DOMAIN gs \cup {BackfillSpec(m.next)}
      BY <3>1 DEF AddServer, BackfillSpec
    <3>8. FleetServers' = FleetServers - d
      BY <1>3, <3>1, <3>4, <3>6 DEF FleetServers
    <3> QED
      BY <1>1, <3>1, <3>5, <3>7, <3>8 DEF SupplyInv, KnownSpecs
  <2> QED
    BY <2>1, <2>2
<1> QED
  BY <1>1, <1>2, <1>5, <1>8, <1>9, SupplySpent

\* A proposal left means a server left.
LEMMA SupplyPanic ==
    ASSUME SupplyPre, SupplyInv, NEW m \in proposed, Panic(m)
    PROVE  FALSE
<1>1. pc = "proposals" /\ FleetSpec \notin DOMAIN gameServers
  BY DEF Panic, Acceptable, SupplyInv, KnownSpecs
<1>2. FleetServers = 0
  BY <1>1 DEF FleetServers, ReadyServers
<1>3. /\ Cardinality(proposed) \in Nat /\ Cardinality(proposed) # 0
      /\ Cardinality(MatchesOn(FleetSpec)) \in Nat
  BY CountsType, FS_EmptySet DEF SupplyPre, SupplyInv
<1>4. Needed(cycle + 1) \in Nat
  BY <1>1, NeededNow
<1> QED
  BY <1>1, <1>2, <1>3, <1>4 DEF SupplyInv, Claims

LEMMA SupplyAllocate ==
    ASSUME SupplyPre, SupplyInv, NEW a \in matches, AllocateServer(a) \/ RejectUnallocated(a)
    PROVE  SupplyInv'
<1> DEFINE e == IF a.spec = FleetSpec THEN 1 ELSE 0
<1>1. /\ pc = "allocate" /\ matches' = matches \ {a}
      /\ UNCHANGED <<pc, cycle, pending, proposed>>
  BY DEF AllocateServer, RejectUnallocated, cycleVars
<1>2. /\ FleetServers \in Nat /\ Cardinality(proposed) \in Nat
      /\ Cardinality(MatchesOn(FleetSpec)) \in Nat
  BY CountsType DEF SupplyPre, SupplyInv
<1>3. Cardinality(MatchesOn(FleetSpec)') = Cardinality(MatchesOn(FleetSpec)) - e
  BY <1>1, MatchesOnRemove DEF SupplyPre, ServerInv
<1>4. e \in {0, 1}
  OBVIOUS
<1>5. \E d \in 0..e : FleetServers' = FleetServers - d
  <2>1. CASE AllocateServer(a)
    <3>1. a.spec \in DOMAIN gameServers /\ gameServers' = RemoveServer(gameServers, a.spec)
      BY <2>1 DEF AllocateServer, Allocate, ProcessGameServerUpdate, AddServer
    <3>2. GameServersOK(gameServers)
      BY DEF SupplyPre, TypeOK, AgonesTypeOK
    <3>3. FleetServers' = FleetServers - e
      BY <3>1, <3>2, ReadyAfterRemove DEF FleetServers
    <3> QED
      BY <1>4, <3>3
  <2>2. CASE RejectUnallocated(a)
    <3>1. FleetServers' = FleetServers - 0
      BY <1>2, <2>2 DEF RejectUnallocated, AllocateFails, agonesVars, FleetServers
    <3> QED
      BY <1>4, <3>1
  <2> QED
    BY <2>1, <2>2
<1>6. KnownSpecs'
  <2>1. DOMAIN gameServers' \subseteq DOMAIN gameServers
    BY DEF AllocateServer, RejectUnallocated, AllocateFails, agonesVars, Allocate,
           ProcessGameServerUpdate, AddServer, RemoveServer, Restrict
  <2> QED
    BY <1>1, <2>1 DEF SupplyInv, KnownSpecs
<1> HIDE DEF e
<1>7. Claims' = Claims - e
  BY <1>1, <1>2, <1>3, <1>4 DEF Claims
<1>8. IsFiniteSet(proposed')
  BY <1>1 DEF SupplyInv
<1>9. PICK d \in 0..e : FleetServers' = FleetServers - d
  BY <1>5
<1> QED
  BY <1>1, <1>4, <1>6, <1>7, <1>8, <1>9, SupplySpent

LEMMA SupplyExpire ==
    ASSUME SupplyPre, SupplyInv, NEW n, ExpireAssignments(n)
    PROVE  SupplyInv'
<1>1. /\ pc = "expire" /\ pc' \in {"invoke", "done"} /\ cycle' = cycle + 1
      /\ UNCHANGED <<gameServers, pending, proposed, matches>>
  BY DEF ExpireAssignments, agonesVars, matchVars
<1>2. FleetServers >= Needed(cycle + 1) + Claims /\ Claims \in Nat /\ FleetServers \in Nat
  BY <1>1, CountsType DEF SupplyPre, SupplyInv, Claims
<1>3. Needed(cycle + 1) \in Nat
  BY <1>1, NeededNow
<1>4. FleetServers' = FleetServers /\ Needed(cycle)' = Needed(cycle + 1) /\ KnownSpecs'
  BY <1>1 DEF FleetServers, Needed, SupplyInv, KnownSpecs
<1> QED
  BY <1>1, <1>2, <1>3, <1>4 DEF SupplyInv, NeverPanics

LEMMA SupplyOtherStep ==
    ASSUME SupplyPre, SupplyInv,
           \/ EndProposals \/ EndAllocate
           \/ \E t \in rejecting : QueueForActivation(t)
           \/ \E r \in sending :
                 SendRoster(r) \/ \E arrived \in BOOLEAN : SendRosterFails(r, arrived)
           \/ \E t \in tracking, sameInstant \in BOOLEAN : TrackTicket(t, sameInstant)
           \/ ActivationStep \/ Terminated \/ UNCHANGED vars
    PROVE  SupplyInv'
<1>1. UNCHANGED <<gameServers, cycle, pending, proposed, matches, returned>>
  BY DEF EndProposals, EndAllocate, QueueForActivation, SendRoster, SendRosterFails,
         TrackTicket, ActivationStep, Activate, Terminated, vars, agonesVars, cycleVars,
         matchVars, omVars
<1>2. \/ pc' = pc
      \/ pc = "proposals" /\ pc' = "allocate"
      \/ pc = "allocate" /\ pc' = "expire"
  BY DEF EndProposals, EndAllocate, QueueForActivation, SendRoster, SendRosterFails,
         TrackTicket, ActivationStep, Activate, Terminated, vars, cycleVars
<1>3. /\ FleetServers' = FleetServers /\ Claims' = Claims /\ KnownSpecs'
      /\ Needed(cycle)' = Needed(cycle) /\ Needed(cycle + 1)' = Needed(cycle + 1)
  BY <1>1 DEF FleetServers, Claims, MatchesOn, Needed, SupplyInv, KnownSpecs
<1> QED
  BY <1>1, <1>2, <1>3 DEF SupplyInv, NeverPanics

LEMMA SupplyNext == SupplyPre /\ SupplyInv /\ [Next]_vars => SupplyInv'
BY SupplyBeginCycle, SupplyOMStep, SupplyEndCollect, SupplyReject, SupplyAccept, SupplyPanic,
   SupplyAllocate, SupplyExpire, SupplyOtherStep
   DEF Next, DirectorStep

\* A fleet with a server for every match that om-core may return never makes
\* the director name an allocation spec whose servers are gone.
THEOREM AmpleFleetNeverPanics ==
    ASSUME FleetCount >= MaxCycles * MaxMatches
    PROVE  Spec => []NeverPanics
<1>1. Init => SupplyInv
  BY SupplyInit
<1>2. SupplyInv => NeverPanics
  BY DEF SupplyInv
<1>3. Spec => []ServerInv
  BY ServerInit, ServerNext, TypeCorrect, PhasesHold, PTL DEF Spec
<1>4. Spec => []SupplyPre
  BY <1>3, TypeCorrect, PhasesHold, PTL DEF SupplyPre
<1> QED
  BY <1>1, <1>2, <1>4, SupplyNext, PTL DEF Spec
-----------------------------------------------------------------------------
(* What the director is ever told to ask om-core for.                      *)

\* Apart from backfill entries there is one entry, and what it asks for is
\* what Init left there (`reqs`).
OnlyOffers(reqs) ==
    /\ DOMAIN gameServers \subseteq {FleetSpec} \cup {BackfillSpec(b) : b \in Backfills}
    /\ FleetSpec \in DOMAIN gameServers => gameServers[FleetSpec].mmfParams \subseteq reqs

LEMMA OffersAfterUpdate ==
    ASSUME NEW reqs, OnlyOffers(reqs), [AgonesNext]_agonesVars
    PROVE  OnlyOffers(reqs)'
<1>1. CASE UNCHANGED agonesVars
  BY <1>1 DEF agonesVars, OnlyOffers
<1>2. ASSUME NEW s \in DOMAIN gameServers
      PROVE  LET gs == RemoveServer(gameServers, s)
             IN  /\ DOMAIN gs \subseteq DOMAIN gameServers
                 /\ FleetSpec \in DOMAIN gs =>
                       gs[FleetSpec].mmfParams \subseteq reqs
  BY DEF RemoveServer, Restrict, OnlyOffers
<1>3. ASSUME NEW s \in DOMAIN gameServers, Allocate(s)
      PROVE  OnlyOffers(reqs)'
  <2>1. gameServers' = RemoveServer(gameServers, s)
    BY <1>3 DEF Allocate, ProcessGameServerUpdate, AddServer
  <2> QED
    BY <1>2, <2>1 DEF OnlyOffers
<1>4. ASSUME NEW s \in DOMAIN gameServers, NEW b \in Backfills, UpdateMMFRequest(s, b)
      PROVE  OnlyOffers(reqs)'
  <2> DEFINE gs == RemoveServer(gameServers, s)
  <2>1. /\ DOMAIN gs \subseteq DOMAIN gameServers
        /\ FleetSpec \in DOMAIN gs => gs[FleetSpec].mmfParams \subseteq reqs
    BY <1>2
  <2>2. gameServers' = AddServer(gs, {b})
    BY <1>4 DEF UpdateMMFRequest, ProcessGameServerUpdate
  <2> HIDE DEF gs
  <2>3. /\ DOMAIN gameServers' = DOMAIN gs \cup {BackfillSpec(b)}
        /\ FleetSpec \in DOMAIN gs => gameServers'[FleetSpec] = gs[FleetSpec]
    BY <2>2, FleetSpecApart DEF AddServer, BackfillSpec
  <2> QED
    BY <2>1, <2>3, FleetSpecApart DEF OnlyOffers
<1> QED
  BY <1>1, <1>3, <1>4 DEF AgonesNext

LEMMA OffersStep ==
    ASSUME NEW reqs, OnlyOffers(reqs), [Next]_vars
    PROVE  OnlyOffers(reqs)'
BY OffersAfterUpdate, NextRefinesAgones

LEMMA OffersInit ==
    ASSUME Init
    PROVE  /\ OnlyOffers(gameServers[FleetSpec].mmfParams)
           /\ \E f \in Fleets : gameServers[FleetSpec].mmfParams = FleetRequests[f]
<1>1. FleetSpecs = {FleetSpec}
  BY FleetAssumption DEF FleetSpecs, FleetAllocSpec, FleetSpec
<1>2. PICK fleetOf \in [FleetSpecs -> Fleets] :
        gameServers = [s \in FleetSpecs |->
            [count |-> FleetCount, mmfParams |-> FleetRequests[fleetOf[s]]]]
  BY DEF Init, AgonesInit
<1> QED
  BY <1>1, <1>2 DEF OnlyOffers

\* What a cycle asks for comes from the entry of the fleets: the entries of
\* the backfills are gone.
LEMMA OfferedInCycle ==
    ASSUME NEW reqs, OnlyOffers(reqs), TypeOK, Phases, ServerInv, BeginCycle,
           NEW i \in awaiting'
    PROVE  i.params \in reqs
<1>1. i \in GetMMFParams
  BY DEF BeginCycle
<1>2. i.spec = FleetSpec /\ FleetSpec \in DOMAIN gameServers
  <2>1. i.spec \in DOMAIN gameServers
    BY <1>1 DEF GetMMFParams
  <2> QED
    BY <1>1, <2>1, NoBackfillOffered DEF OnlyOffers
<1>3. i.params \in gameServers[i.spec].mmfParams
  BY <1>1 DEF GetMMFParams
<1> QED
  BY <1>2, <1>3 DEF OnlyOffers

LEMMA ServerInvariant == Spec => [](TypeOK /\ Phases /\ ServerInv)
BY ServerInit, ServerNext, TypeCorrect, PhasesHold, PTL DEF Spec

\* gsdirector.go Init files every fleet under the same key: when `f` is the
\* fleet that wrote it last, no cycle ever asks for a request of another.
THEOREM OneFleetOffered ==
    ASSUME NEW f \in Fleets
    PROVE  Spec /\ gameServers[FleetSpec].mmfParams = FleetRequests[f]
             => [][BeginCycle => \A i \in awaiting' : i.params \in FleetRequests[f]]_vars
<1>1. Init /\ gameServers[FleetSpec].mmfParams = FleetRequests[f] => OnlyOffers(FleetRequests[f])
  BY OffersInit
<1>2. OnlyOffers(FleetRequests[f]) /\ [Next]_vars => OnlyOffers(FleetRequests[f])'
  BY OffersStep
<1>3. OnlyOffers(FleetRequests[f]) /\ TypeOK /\ Phases /\ ServerInv
        => (BeginCycle => \A i \in awaiting' : i.params \in FleetRequests[f])
  BY OfferedInCycle
<1> QED
  BY <1>1, <1>2, <1>3, ServerInvariant, PTL DEF Spec

FleetsRequests == UNION {FleetRequests[f] : f \in Fleets}

\* A backfill request is never asked for: its servers are allocated, and so
\* forgotten by the manager, in the cycle that registered it.
THEOREM BackfillNeverOffered ==
    Spec => [][BeginCycle => \A i \in awaiting' : i.params \notin Backfills]_vars
<1>1. Init => OnlyOffers(FleetsRequests)
  BY OffersInit DEF OnlyOffers, FleetsRequests
<1>2. OnlyOffers(FleetsRequests) /\ [Next]_vars => OnlyOffers(FleetsRequests)'
  BY OffersStep
<1>3. FleetsRequests \cap Backfills = {}
  BY FleetAssumption DEF FleetsRequests
<1>4. OnlyOffers(FleetsRequests) /\ TypeOK /\ Phases /\ ServerInv
        => (BeginCycle => \A i \in awaiting' : i.params \notin Backfills)
  BY <1>3, OfferedInCycle
<1> QED
  BY <1>1, <1>2, <1>4, ServerInvariant, PTL DEF Spec
=============================================================================
