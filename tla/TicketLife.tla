------------------------------- MODULE TicketLife -------------------------------
(***************************************************************************)
(* What a matchmaker promises the owner of a ticket, whatever it does      *)
(* about matches, servers, channels and retries: Open Match offers a       *)
(* ticket from its creation until a match takes it; from then on a         *)
(* director holds it until it has assigned it, rejected it or given up on  *)
(* it, and only a rejected ticket is offered again.                        *)
(*                                                                         *)
(* The places overlap: Open Match may match a ticket twice, and a ticket   *)
(* that leaves a place on behalf of one match stays there on behalf of     *)
(* another.  Director (Open Match 2) and OpenMatch1 implement this module. *)
(***************************************************************************)
CONSTANT Tickets

VARIABLES
    future,     \* not created yet
    offered,    \* Open Match offers it to the matchmaking functions
    held,       \* a director has a match with it, not yet settled
    returning,  \* rejected, not yet back at Open Match
    assigned,   \* its assignment reached the distributor
    lost        \* given up on

lifeVars == <<future, offered, held, returning, assigned, lost>>

Init ==
    /\ future \subseteq Tickets /\ offered = Tickets \ future
    /\ held = {} /\ returning = {} /\ assigned = {} /\ lost = {}

\* `after` is `before` but for some of the tickets of `s`.
Without(before, s, after) == before \ s \subseteq after /\ after \subseteq before

Create(t) ==
    /\ t \in future
    /\ future' = future \ {t}
    /\ offered' = offered \cup {t}
    /\ UNCHANGED <<held, returning, assigned, lost>>

\* Open Match returns matches with the tickets `s`.  Those `dropped`, of
\* these matches or of those they race with, never get to the director.
Match(s) ==
    /\ offered' = offered \ s
    /\ \E dropped \in SUBSET (held \cup s) :
          /\ Without(held \cup s, dropped, held')
          /\ lost' = lost \cup dropped
    /\ UNCHANGED <<future, returning, assigned>>

Reject(s) ==
    /\ s \subseteq held
    /\ Without(held, s, held')
    /\ returning' = returning \cup s
    /\ UNCHANGED <<future, offered, assigned, lost>>

Return(t) ==
    /\ t \in returning
    /\ Without(returning, {t}, returning')
    /\ offered' = offered \cup {t}
    /\ UNCHANGED <<future, held, assigned, lost>>

GiveUp(t) ==
    /\ t \in returning
    /\ Without(returning, {t}, returning')
    /\ lost' = lost \cup {t}
    /\ UNCHANGED <<future, offered, held, assigned>>

Assign(s) ==
    /\ s \subseteq held
    /\ Without(held, s, held')
    /\ assigned' = assigned \cup s
    /\ UNCHANGED <<future, offered, returning, lost>>

\* A director gives up on the tickets `s`, perhaps on sending an assignment
\* that did arrive: they must not be offered to another match.
FailToAssign(s, arrived) ==
    /\ s \subseteq held
    /\ Without(held, s, held')
    /\ lost' = lost \cup s
    /\ assigned' = IF arrived THEN assigned \cup s ELSE assigned
    /\ UNCHANGED <<future, offered, returning>>

Next ==
    \/ \E t \in future : Create(t)
    \/ \E s \in SUBSET Tickets : Match(s)
    \/ \E s \in SUBSET held :
          \/ Reject(s)
          \/ Assign(s)
          \/ \E arrived \in BOOLEAN : FailToAssign(s, arrived)
    \/ \E t \in returning : Return(t) \/ GiveUp(t)

Spec == Init /\ [][Next]_lifeVars

\* What the life of a ticket comes to: it is always somewhere.
Accounted == Tickets = future \cup offered \cup held \cup returning \cup assigned \cup lost
=============================================================================
