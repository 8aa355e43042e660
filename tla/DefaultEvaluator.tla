--------------------------- MODULE DefaultEvaluator ---------------------------
(***************************************************************************)
(* The evaluator of Open Match 1: of the proposals it is sent it drops     *)
(* those whose criteria cannot be read, sorts the others by score, and     *)
(* accepts each that shares no ticket with one accepted before.            *)
(***************************************************************************)
EXTENDS Integers, FiniteSets, Sequences

CONSTANTS
    Unreadable,     \* criteria that cannot be unmarshalled
    NoCriteria      \* no criteria: the score is minus infinity

ASSUME EvaluatorAssumption == NoCriteria \in Int /\ Unreadable \notin Int

VARIABLES
    evaluator,      \* "idle", "sorted" or "results"
    proposals,      \* the proposals of the call: [id, tickets, score]
    sorted,         \* those not yet looked at, in the order of the sorted slice
    results,        \* accepted matches
    ticketsUsed     \* their tickets

evaluatorVars == <<evaluator, proposals, sorted, results, ticketsUsed>>

EvaluatorInit ==
    /\ evaluator = "idle"
    /\ proposals = {} /\ sorted = {}
    /\ results = {} /\ ticketsUsed = {}

\* Evaluate has received all proposals and evaluate has read their criteria.
Evaluate(ps) ==
    /\ evaluator = "idle"
    /\ evaluator' = "sorted"
    /\ proposals' = ps
    /\ sorted' = {m \in ps : m.score # Unreadable}
    /\ results' = {} /\ ticketsUsed' = {}

\* The next match of the slice: sort.Sort leaves equal scores in any order.
IsNextMatch(m) == m \in sorted /\ \A other \in sorted : m.score >= other.score

\* Variants: the order is ascending; the tickets of an accepted match are
\* not recorded.
IsWorstMatch(m) == m \in sorted /\ \A other \in sorted : m.score <= other.score

AddUnrecorded(m) ==
    /\ evaluator = "sorted" /\ IsNextMatch(m)
    /\ sorted' = sorted \ {m}
    /\ results' = IF m.tickets \cap ticketsUsed = {} THEN results \cup {m} ELSE results
    /\ ticketsUsed' = m.tickets
    /\ UNCHANGED <<evaluator, proposals>>

MaybeAddFrom(m) ==
    /\ evaluator = "sorted" /\ IsWorstMatch(m)
    /\ sorted' = sorted \ {m}
    /\ IF m.tickets \cap ticketsUsed = {}
       THEN results' = results \cup {m} /\ ticketsUsed' = ticketsUsed \cup m.tickets
       ELSE UNCHANGED <<results, ticketsUsed>>
    /\ UNCHANGED <<evaluator, proposals>>

MaybeAdd(m) ==
    /\ evaluator = "sorted" /\ IsNextMatch(m)
    /\ sorted' = sorted \ {m}
    /\ IF m.tickets \cap ticketsUsed = {}
       THEN results' = results \cup {m} /\ ticketsUsed' = ticketsUsed \cup m.tickets
       ELSE UNCHANGED <<results, ticketsUsed>>
    /\ UNCHANGED <<evaluator, proposals>>

\* All matches are looked at; the results are streamed.
SendResults ==
    /\ evaluator = "sorted" /\ sorted = {}
    /\ evaluator' = "results"
    /\ UNCHANGED <<proposals, sorted, results, ticketsUsed>>

\* The call returns, with its results or with an error.
EvaluateReturns ==
    /\ evaluator' = "idle"
    /\ proposals' = {} /\ sorted' = {}
    /\ results' = {} /\ ticketsUsed' = {}

EvaluatorStep == SendResults \/ \E m \in sorted : MaybeAdd(m)

-----------------------------------------------------------------------------
\* No two results share a ticket.
ResultsDisjoint ==
    \A m, n \in results : m # n => m.tickets \cap n.tickets = {}

\* A readable proposal is only left out for a result that shares a ticket
\* with it and is not worse.
NoBetterLeftOut ==
    evaluator = "results" =>
        \A m \in proposals \ results : m.score # Unreadable =>
            \E n \in results : m.tickets \cap n.tickets # {} /\ n.score >= m.score
=============================================================================
