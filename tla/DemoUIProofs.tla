------------------------------ MODULE DemoUIProofs ------------------------------
(***************************************************************************)
(* No page of the first match demo misses a wake-up or goes back to an     *)
(* older value, for any components, updaters and pages.                    *)
(***************************************************************************)
EXTENDS DemoUI, TLAPS

LEMMA TypeInitially == Init => TypeOK
BY UIAssumption DEF Init, TypeOK, Object, Empty

LEMMA ComponentStepType ==
    ASSUME TypeOK, NEW c \in Components, Update(c) \/ UpdateIgnored(c)
    PROVE  TypeOK'
<1>1. CASE Update(c)
  <2>1. value[c] + 1 \in 0..MaxUpdates
    BY <1>1, UIAssumption DEF Update, TypeOK, Object
  <2> QED
    BY <1>1, <2>1 DEF Update, TypeOK, Object, subscriberVars
<1>2. CASE UpdateIgnored(c)
  BY <1>2 DEF UpdateIgnored, TypeOK, subscriberVars
<1> QED
  BY <1>1, <1>2

LEMMA UpdaterStepType ==
    ASSUME TypeOK, NEW u \in Updaters, UpdaterStep(u) \/ Cancel(u)
    PROVE  TypeOK'
<1> USE DEF TypeOK, subscriberVars
<1>1. ASSUME NEW c \in Components, ReceiveUpdate(u, c)
      PROVE  TypeOK'
  <2>1. children' \in [Updaters -> Object]
    BY <1>1 DEF ReceiveUpdate, Object
  <2> QED
    BY <1>1, <2>1 DEF ReceiveUpdate
<1>2. ASSUME NEW v \in Nested, ReceiveNested(v)
      PROVE  TypeOK'
  <2>1. v \in Updaters /\ Root \in Updaters /\ 0 \in 0..MaxUpdates
    BY UIAssumption DEF Updaters
  <2>2. [c \in Components |-> IF Parent[c] # v THEN children[Root][c]
                              ELSE IF updater[v] = "remove" THEN 0 ELSE children[v][c]] \in Object
    BY <2>1 DEF Object
  <2>3. children' \in [Updaters -> Object]
    BY <1>2, <2>1, <2>2 DEF ReceiveNested
  <2> QED
    BY <1>2, <2>1, <2>3 DEF ReceiveNested
<1>3. CASE u = Root /\ AnnounceLatest
  BY <1>3 DEF AnnounceLatest
<1>4. CASE Drained(u) \/ Stop(u) \/ SetNested(u) \/ Cancel(u)
  BY <1>4 DEF Drained, Stop, SetNested, Cancel
<1> QED
  BY <1>1, <1>2, <1>3, <1>4 DEF UpdaterStep

LEMMA PageStepType ==
    ASSUME TypeOK, NEW p \in Pages, PageStep(p) \/ PageLost(p)
    PROVE  TypeOK'
BY DEF TypeOK, PageStep, PageLost, Get, Written

LEMMA NextType == TypeOK /\ [Next]_vars => TypeOK'
<1>1. TypeOK /\ UNCHANGED vars => TypeOK'
  BY DEF TypeOK, vars, subscriberVars
<1> QED
  BY <1>1, ComponentStepType, UpdaterStepType, PageStepType DEF Next

\* The types of the updaters' and the subscribers' state.
THEOREM DemoUITypeCorrect == Spec => []TypeOK
BY TypeInitially, NextType, PTL DEF Spec

-----------------------------------------------------------------------------
\* AnnounceLatest and Subscribe: between the value a page has and the channel
\* it waits on no announcement is missed, for any number of pages.
THEOREM NoWakeupIsLost == Spec => []NoLostWakeup
<1>1. Init => NoLostWakeup
  BY DEF Init, NoLostWakeup
<1>2. TypeOK /\ NoLostWakeup /\ [Next]_vars => NoLostWakeup'
  <2> SUFFICES ASSUME TypeOK, NoLostWakeup, [Next]_vars
               PROVE  NoLostWakeup'
    OBVIOUS
  <2>1. ASSUME NEW c \in Components, Update(c) \/ UpdateIgnored(c)
        PROVE  NoLostWakeup'
    BY <2>1 DEF Update, UpdateIgnored, NoLostWakeup, subscriberVars
  <2>2. ASSUME NEW u \in Updaters, UpdaterStep(u) \/ Cancel(u)
        PROVE  NoLostWakeup'
    <3>1. AnnounceLatest \/ UNCHANGED <<announced, subscriberVars>>
      BY <2>2 DEF UpdaterStep, Cancel, ReceiveUpdate, ReceiveNested, Drained, Stop, SetNested
    <3> QED
      BY <3>1 DEF AnnounceLatest, NoLostWakeup, subscriberVars
  <2>3. ASSUME NEW p \in Pages, Get(p)
        PROVE  NoLostWakeup'
    BY <2>3 DEF Get, NoLostWakeup, TypeOK
  <2>4. ASSUME NEW p \in Pages, Written(p) \/ PageLost(p)
        PROVE  NoLostWakeup'
    BY <2>4 DEF Written, PageLost, NoLostWakeup, TypeOK
  <2>5. CASE UNCHANGED vars
    BY <2>5 DEF vars, subscriberVars, NoLostWakeup
  <2> QED
    BY <2>1, <2>2, <2>3, <2>4, <2>5 DEF Next, PageStep
<1> QED
  BY <1>1, <1>2, TypeInitially, NextType, PTL DEF Spec

-----------------------------------------------------------------------------
(* A value travels from its component through the updaters and the byteSub *)
(* to the pages; behind it there is only a newer one, or none once its     *)
(* updater has stopped for good.                                           *)

Stopped(c) == updater[Parent[c]] = "stopped"

\* What is on its way is not older than what has arrived.
NotBefore(c, sent, arrived) == arrived <= sent \/ (sent = 0 /\ Stopped(c))

\* The fields of an updater that has stopped are gone from Run's.
StoppedIsRemoved == \A c \in Components : Stopped(c) => children[Root][c] = 0

UpdatersInv ==
    /\ \A u \in Updaters : updater[u] \in {"remove", "stopped"} => u \in cancelled
    /\ \A u \in Nested \cap updating : updater[u] \in {"set", "remove"}
    /\ StoppedIsRemoved
    /\ \A c \in Components :
          /\ children[Parent[c]][c] <= value[c]
          /\ children[Root][c] <= children[Parent[c]][c]

PagesInv ==
    /\ announced = NoValue => written = [p \in Pages |-> Empty]
    /\ announced # NoValue => \A c \in Components :
          /\ NotBefore(c, children[Root][c], announced[c])
          /\ \A p \in Pages : NotBefore(c, announced[c], written[p][c])

OrderInv == TypeOK /\ UpdatersInv /\ PagesInv

LEMMA OrderInitially == Init => OrderInv
BY TypeInitially, UIAssumption DEF Init, OrderInv, UpdatersInv, PagesInv, StoppedIsRemoved,
     Stopped, Empty, Updaters

LEMMA ComponentStepOrder ==
    ASSUME OrderInv, NEW c \in Components, Update(c) \/ UpdateIgnored(c)
    PROVE  UpdatersInv' /\ PagesInv'
<1>1. /\ UNCHANGED <<updater, children, cancelled, announced, subscriberVars>>
      /\ updating' \cap Nested = updating \cap Nested
      /\ \A d \in Components : value'[d] >= value[d]
  BY UIAssumption DEF OrderInv, TypeOK, Object, Update, UpdateIgnored, Updaters
<1>2. \A d \in Components : value[d] \in Int /\ value'[d] \in Int /\ children[Parent[d]][d] \in Int
  BY UIAssumption, ComponentStepType DEF OrderInv, TypeOK, Object
<1>3. UpdatersInv'
  BY <1>1, <1>2 DEF OrderInv, UpdatersInv, StoppedIsRemoved, Stopped
<1> QED
  BY <1>1, <1>3 DEF OrderInv, PagesInv, NotBefore, Stopped, subscriberVars

\* An updater's step that leaves what the fields are worth.
LEMMA ControlOrder ==
    ASSUME OrderInv, NEW u \in Updaters, Drained(u) \/ Stop(u) \/ SetNested(u) \/ Cancel(u)
    PROVE  UpdatersInv' /\ PagesInv'
<1>1. /\ UNCHANGED <<value, children, announced, subscriberVars>>
      /\ cancelled \subseteq cancelled'
      /\ \A v \in Updaters : updater'[v] = "stopped" <=> updater[v] = "stopped"
      /\ \A v \in Updaters : updater'[v] = "remove" => v \in cancelled'
      /\ \A v \in Nested \cap updating' : updater'[v] \in {"set", "remove"}
  BY DEF OrderInv, UpdatersInv, TypeOK, Drained, Stop, SetNested, Cancel, Fields, Updaters, subscriberVars
<1>2. \A d \in Components : Stopped(d)' <=> Stopped(d)
  BY <1>1, UIAssumption DEF Stopped
<1>3. UpdatersInv'
  BY <1>1, <1>2 DEF OrderInv, UpdatersInv, StoppedIsRemoved
<1> QED
  BY <1>1, <1>2, <1>3 DEF OrderInv, PagesInv, NotBefore, subscriberVars

LEMMA ReceiveUpdateOrder ==
    ASSUME OrderInv, NEW u \in Updaters, NEW f \in Components, ReceiveUpdate(u, f)
    PROVE  UpdatersInv' /\ PagesInv'
<1>1. /\ Parent[f] = u /\ u \in Updaters /\ Root \in Updaters
      /\ updater[u] \in {"wait", "drain"}
      /\ updater' = [updater EXCEPT ![u] = "drain"]
      /\ children' = [children EXCEPT ![u][f] = value[f]]
      /\ UNCHANGED <<value, cancelled, announced, written>>
      /\ Nested \cap updating' = Nested \cap updating
  BY UIAssumption DEF ReceiveUpdate, Fields, Below, Updaters, subscriberVars
<1>2. \A d \in Components : /\ children[Root][d] \in Int /\ children[Parent[d]][d] \in Int
                            /\ value[d] \in Int
                            /\ Parent[d] \in Updaters
  BY <1>1, UIAssumption DEF OrderInv, TypeOK, Object
<1>3. \A d \in Components : Stopped(d)' <=> Stopped(d)
  BY <1>1, <1>2 DEF OrderInv, TypeOK, Stopped
<1>4. /\ \A v \in Updaters : updater'[v] \in {"remove", "stopped"} => updater[v] = updater'[v]
      /\ \A v \in Nested \cap updating : updater'[v] = updater[v]
  BY <1>1 DEF OrderInv, UpdatersInv, TypeOK
<1>5. /\ children \in [Updaters -> [Components -> 0..MaxUpdates]]
      /\ children'[u][f] = value[f]
      /\ \A v \in Updaters, d \in Components : v # u \/ d # f => children'[v][d] = children[v][d]
  BY <1>1 DEF OrderInv, TypeOK, Object
<1>6. ASSUME NEW d \in Components
      PROVE  /\ children'[Parent[d]][d] <= value[d]
             /\ children'[Root][d] <= children'[Parent[d]][d]
             /\ children'[Root][d] >= children[Root][d]
             /\ Stopped(d) => children'[Root][d] = 0
  <2>1. /\ children[Parent[d]][d] <= value[d] /\ children[Root][d] <= children[Parent[d]][d]
        /\ Stopped(d) => children[Root][d] = 0
    BY DEF OrderInv, UpdatersInv, StoppedIsRemoved
  <2>2. CASE d = f
    <3>1. ~Stopped(d)
      BY <1>1, <2>2 DEF Stopped
    <3> QED
      BY <1>1, <1>2, <1>5, <2>1, <2>2, <3>1
  <2>3. CASE d # f
    BY <1>1, <1>2, <1>5, <2>1, <2>3
  <2> QED
    BY <2>2, <2>3
<1>7. UpdatersInv'
  BY <1>1, <1>3, <1>4, <1>6 DEF OrderInv, UpdatersInv, StoppedIsRemoved
<1>8. PagesInv'
  <2> SUFFICES ASSUME announced # NoValue, NEW d \in Components
               PROVE  /\ NotBefore(d, children[Root][d], announced[d])'
                      /\ \A p \in Pages : NotBefore(d, announced[d], written[p][d])'
    BY <1>1 DEF OrderInv, PagesInv
  <2>1. announced[d] \in Int /\ children'[Root][d] \in Int
    BY <1>1, UpdaterStepType DEF OrderInv, TypeOK, Object, UpdaterStep
  <2>2. NotBefore(d, children[Root][d], announced[d])
        /\ \A p \in Pages : NotBefore(d, announced[d], written[p][d])
    BY DEF OrderInv, PagesInv
  <2> QED
    BY <1>1, <1>2, <1>3, <1>6, <2>1, <2>2 DEF NotBefore
<1> QED
  BY <1>7, <1>8

LEMMA ReceiveNestedOrder ==
    ASSUME OrderInv, NEW u \in Nested, ReceiveNested(u)
    PROVE  UpdatersInv' /\ PagesInv'
<1>1. /\ u \in Updaters /\ Root \in Updaters /\ u # Root
      /\ updater[Root] \in {"wait", "drain"} /\ updater[u] \in {"set", "remove"}
      /\ updating' = updating \ {u}
      /\ updater' = [updater EXCEPT ![Root] = "drain",
                                    ![u] = IF @ = "remove" THEN "stopped" ELSE "wait"]
      /\ UNCHANGED <<value, cancelled, announced, written>>
  BY UIAssumption DEF OrderInv, UpdatersInv, ReceiveNested, Updaters, subscriberVars
<1>2. \A d \in Components :
        /\ Parent[d] \in Updaters
        /\ children[Parent[d]][d] \in 0..MaxUpdates /\ children[Root][d] \in 0..MaxUpdates
        /\ value[d] \in 0..MaxUpdates
        /\ Parent[d] # Root => children'[Parent[d]][d] = children[Parent[d]][d]
        /\ children'[Root][d] = IF Parent[d] # u THEN children[Root][d]
                                ELSE IF updater[u] = "remove" THEN 0 ELSE children[u][d]
  BY <1>1, UIAssumption DEF OrderInv, TypeOK, Object, ReceiveNested
<1>3. /\ updater[u] = "remove" => updater'[u] = "stopped"
      /\ updater[u] # "remove" => updater'[u] = "wait"
      /\ updater'[Root] = "drain"
      /\ \A v \in Updaters : v = u \/ v = Root \/ updater'[v] = updater[v]
  BY <1>1 DEF OrderInv, TypeOK
<1>4. ASSUME NEW d \in Components
      PROVE  Stopped(d)' <=> (Stopped(d) \/ (Parent[d] = u /\ updater[u] = "remove"))
  <2>1. CASE Parent[d] = u
    BY <1>1, <1>3, <2>1 DEF Stopped
  <2>2. CASE Parent[d] = Root
    BY <1>1, <1>3, <2>2 DEF Stopped
  <2>3. CASE Parent[d] # u /\ Parent[d] # Root
    BY <1>1, <1>2, <1>3, <2>3 DEF Stopped
  <2> QED
    BY <2>1, <2>2, <2>3
<1>5. /\ \A v \in Updaters : updater'[v] \in {"remove", "stopped"} => v \in cancelled'
      /\ \A v \in Nested \cap updating' : updater'[v] \in {"set", "remove"}
  <2>1. /\ \A v \in Updaters : updater[v] \in {"remove", "stopped"} => v \in cancelled
        /\ \A v \in Nested \cap updating : updater[v] \in {"set", "remove"}
        /\ Root \notin Nested /\ Nested \subseteq Updaters
    BY UIAssumption DEF OrderInv, UpdatersInv, Updaters
  <2> QED
    BY <1>1, <1>3, <2>1
<1>6. ASSUME NEW d \in Components
      PROVE  /\ children'[Parent[d]][d] <= value[d]
             /\ children'[Root][d] <= children'[Parent[d]][d]
             /\ children'[Root][d] >= children[Root][d] \/ (children'[Root][d] = 0 /\ Stopped(d)')
             /\ Stopped(d)' => children'[Root][d] = 0
  <2>1. /\ children[Parent[d]][d] <= value[d] /\ children[Root][d] <= children[Parent[d]][d]
        /\ Stopped(d) => children[Root][d] = 0
    BY DEF OrderInv, UpdatersInv, StoppedIsRemoved
  <2>2. CASE Parent[d] = u
    <3>1. Stopped(d)' <=> updater[u] = "remove"
      BY <1>1, <1>4, <2>2 DEF Stopped
    <3>2. /\ children'[Parent[d]][d] = children[Parent[d]][d]
          /\ updater[u] = "remove" => children'[Root][d] = 0
          /\ updater[u] # "remove" => children'[Root][d] = children[Parent[d]][d]
          /\ children[Parent[d]][d] \in Nat /\ children[Root][d] \in Nat /\ value[d] \in Nat
      BY <1>1, <1>2, <2>2
    <3> QED
      BY <2>1, <3>1, <3>2
  <2>3. CASE Parent[d] # u
    BY <1>1, <1>2, <1>4, <2>1, <2>3
  <2> QED
    BY <2>2, <2>3
<1>7. UpdatersInv'
  BY <1>1, <1>5, <1>6 DEF UpdatersInv, StoppedIsRemoved
<1>8. PagesInv'
  <2> SUFFICES ASSUME announced # NoValue, NEW d \in Components
               PROVE  /\ NotBefore(d, children[Root][d], announced[d])'
                      /\ \A p \in Pages : NotBefore(d, announced[d], written[p][d])'
    BY <1>1 DEF OrderInv, PagesInv
  <2>1. announced[d] \in Int /\ children[Root][d] \in Int /\ children'[Root][d] \in Int
    BY <1>1, <1>2, UpdaterStepType DEF OrderInv, TypeOK, Object, UpdaterStep
  <2>2. NotBefore(d, children[Root][d], announced[d])
        /\ \A p \in Pages : NotBefore(d, announced[d], written[p][d])
    BY DEF OrderInv, PagesInv
  <2>3. Stopped(d) => Stopped(d)'
    BY <1>4
  <2> QED
    BY <1>1, <1>6, <2>1, <2>2, <2>3 DEF NotBefore
<1> QED
  BY <1>7, <1>8

\* A page or the byteSub takes what comes before it on the way.
LEMMA AnnounceLatestOrder ==
    ASSUME OrderInv, AnnounceLatest
    PROVE  UpdatersInv' /\ PagesInv'
<1>1. /\ updater[Root] = "set" /\ updater' = [updater EXCEPT ![Root] = "wait"]
      /\ announced' = children[Root] /\ announced' # NoValue /\ Root \in Updaters /\ Root \notin Nested
      /\ UNCHANGED <<value, updating, children, cancelled, written>>
  BY UIAssumption DEF OrderInv, TypeOK, AnnounceLatest, Updaters
<1>2. \A v \in Updaters : v # Root => updater'[v] = updater[v]
  BY <1>1 DEF OrderInv, TypeOK
<1>3. updater'[Root] = "wait"
  BY <1>1 DEF OrderInv, TypeOK
<1>4. \A d \in Components : Stopped(d)' <=> Stopped(d)
  BY <1>1, <1>2, <1>3, UIAssumption DEF Stopped
<1>5. UpdatersInv'
  BY <1>1, <1>2, <1>3, <1>4 DEF OrderInv, UpdatersInv, StoppedIsRemoved, Updaters
<1>6. ASSUME NEW d \in Components, NEW p \in Pages
      PROVE  NotBefore(d, children[Root][d], written[p][d])
  <2>1. written[p][d] \in 0..MaxUpdates /\ children[Root][d] \in 0..MaxUpdates
    BY <1>1 DEF OrderInv, TypeOK, Object
  <2>2. CASE announced = NoValue
    BY <2>1, <2>2 DEF OrderInv, PagesInv, NotBefore, Empty
  <2>3. CASE announced # NoValue
    <3>1. announced[d] \in 0..MaxUpdates
      BY <2>3 DEF OrderInv, TypeOK, Object
    <3>2. /\ NotBefore(d, children[Root][d], announced[d])
          /\ NotBefore(d, announced[d], written[p][d])
          /\ Stopped(d) => children[Root][d] = 0
      BY <2>3 DEF OrderInv, PagesInv, UpdatersInv, StoppedIsRemoved
    <3> QED
      BY <2>1, <3>1, <3>2 DEF NotBefore
  <2> QED
    BY <2>2, <2>3
<1>7. \A d \in Components : children[Root][d] \in Int
  BY <1>1 DEF OrderInv, TypeOK, Object
<1>8. PagesInv'
  BY <1>1, <1>4, <1>6, <1>7 DEF PagesInv, NotBefore
<1> QED
  BY <1>5, <1>8

LEMMA PageStepOrder ==
    ASSUME OrderInv, NEW p \in Pages, PageStep(p) \/ PageLost(p)
    PROVE  /\ UpdatersInv' /\ PagesInv'
           /\ \A q \in Pages, d \in Components : NotBefore(d, written'[q][d], written[q][d])
<1>1. /\ UNCHANGED <<value, updating, updater, children, cancelled, announced>>
      /\ \/ written' = written
         \/ announced # NoValue /\ written' = [written EXCEPT ![p] = announced]
  BY DEF PageStep, PageLost, Get, Written
<1>2. \A d \in Components : Stopped(d)' <=> Stopped(d)
  BY <1>1 DEF Stopped
<1>3. UpdatersInv'
  BY <1>1, <1>2 DEF OrderInv, UpdatersInv, StoppedIsRemoved
<1>4. \A q \in Pages, d \in Components :
        /\ written[q][d] \in Int
        /\ announced # NoValue => announced[d] \in Int
        /\ written'[q][d] = written[q][d] \/ (announced # NoValue /\ written'[q][d] = announced[d])
  BY <1>1 DEF OrderInv, TypeOK, Object
<1>5. \A q \in Pages, d \in Components : NotBefore(d, written'[q][d], written[q][d])
  BY <1>4 DEF OrderInv, PagesInv, NotBefore
<1>6. PagesInv'
  BY <1>1, <1>2, <1>4 DEF OrderInv, PagesInv, NotBefore
<1> QED
  BY <1>3, <1>5, <1>6

LEMMA NextOrder ==
    ASSUME OrderInv, [Next]_vars
    PROVE  /\ OrderInv'
           /\ \A p \in Pages, c \in Components : NotBefore(c, written'[p][c], written[p][c])
<1>1. TypeOK'
  BY NextType DEF OrderInv
<1>2. \A p \in Pages, c \in Components : written[p][c] \in Int
  BY DEF OrderInv, TypeOK, Object
<1>3. ASSUME NEW p \in Pages, PageStep(p) \/ PageLost(p)
      PROVE  /\ UpdatersInv' /\ PagesInv'
             /\ \A q \in Pages, c \in Components : NotBefore(c, written'[q][c], written[q][c])
  BY <1>3, PageStepOrder
<1>4. ASSUME \/ UNCHANGED vars
             \/ \E c \in Components : Update(c) \/ UpdateIgnored(c)
             \/ \E u \in Updaters : Cancel(u) \/ UpdaterStep(u)
      PROVE  UpdatersInv' /\ PagesInv' /\ written' = written
  <2>1. ASSUME UNCHANGED vars PROVE UpdatersInv' /\ PagesInv' /\ written' = written
    BY <2>1 DEF vars, subscriberVars, OrderInv, UpdatersInv, PagesInv, StoppedIsRemoved, Stopped, NotBefore
  <2>2. ASSUME NEW c \in Components, Update(c) \/ UpdateIgnored(c)
        PROVE  UpdatersInv' /\ PagesInv' /\ written' = written
    BY <2>2, ComponentStepOrder DEF Update, UpdateIgnored, subscriberVars
  <2>3. ASSUME NEW u \in Updaters, Cancel(u) \/ UpdaterStep(u)
        PROVE  UpdatersInv' /\ PagesInv'
    BY <2>3, ControlOrder, ReceiveUpdateOrder, ReceiveNestedOrder, AnnounceLatestOrder DEF UpdaterStep
  <2>4. ASSUME NEW u \in Updaters, Cancel(u) \/ UpdaterStep(u)
        PROVE  written' = written
    BY <2>4 DEF UpdaterStep, Cancel, ReceiveUpdate, ReceiveNested, Drained, Stop, SetNested,
                AnnounceLatest, subscriberVars
  <2> QED
    BY <1>4, <2>1, <2>2, <2>3, <2>4
<1>5. written' = written =>
        \A p \in Pages, c \in Components : NotBefore(c, written'[p][c], written[p][c])
  BY <1>2 DEF NotBefore
<1> QED
  BY <1>1, <1>3, <1>4, <1>5 DEF Next, OrderInv

LEMMA OrderIsInvariant == Spec => []OrderInv
BY OrderInitially, NextOrder, PTL DEF Spec

\* Updater.set and AnnounceLatest: for any number of components, updaters,
\* pages and updates, no page is sent a value of a component that is older
\* than one it was sent before, and none disappears but with its updater.
THEOREM PagesDoNotGoBack == Spec => PagesNeverGoBack
<1>1. ASSUME OrderInv, [Next]_vars
      PROVE  \A p \in Pages, c \in Components :
                \/ written'[p][c] >= written[p][c]
                \/ written'[p][c] = 0 /\ Parent[c] \in cancelled
  <2> TAKE p \in Pages, c \in Components
  <2>1. NotBefore(c, written'[p][c], written[p][c])
    BY <1>1, NextOrder
  <2>2. Stopped(c) => Parent[c] \in cancelled
    BY <1>1, UIAssumption DEF OrderInv, UpdatersInv, Stopped
  <2> QED
    BY <2>1, <2>2 DEF NotBefore
<1> QED
  BY <1>1, OrderIsInvariant, PTL DEF Spec, PagesNeverGoBack

=================================================================================
