--------------------------- MODULE ActivationService ---------------------------
(***************************************************************************)
(* What RestfulOMGrpcClient.ActivateTickets promises the component that    *)
(* feeds it ticket ids, whatever it does about channels, batches, timers   *)
(* and retries: an id is worked on until om-core has activated it or the   *)
(* client abandons it, it is abandoned only when no attempt activated it,  *)
(* and what is activated stays activated.                                  *)
(***************************************************************************)
EXTENDS FiniteSets

CONSTANT TicketIds

VARIABLES
    pending,    \* ids the client still works on
    active,     \* ids om-core has activated
    givenUp     \* ids the client stopped retrying, not activated

serviceVars == <<pending, active, givenUp>>

Init == pending = {} /\ active = {} /\ givenUp = {}

Submit(id) ==
    /\ id \notin pending \cup active \cup givenUp
    /\ pending' = pending \cup {id}
    /\ UNCHANGED <<active, givenUp>>

\* Some ids of an attempt are activated and the caller is not told.
Attempt(ids) ==
    /\ ids \subseteq pending
    /\ active' = active \cup ids
    /\ UNCHANGED <<pending, givenUp>>

Activated(ids) ==
    /\ ids \subseteq pending
    /\ pending' = pending \ ids
    /\ active' = active \cup ids
    /\ UNCHANGED givenUp

GaveUp(ids) ==
    /\ ids \subseteq pending
    /\ pending' = pending \ ids
    /\ givenUp' = givenUp \cup (ids \ active)
    /\ UNCHANGED active

Next ==
    \/ \E id \in TicketIds : Submit(id)
    \/ \E ids \in SUBSET TicketIds : Attempt(ids) \/ Activated(ids) \/ GaveUp(ids)

Spec == Init /\ [][Next]_serviceVars
=============================================================================
