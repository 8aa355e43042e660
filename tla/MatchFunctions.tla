---------------------------- MODULE MatchFunctions ----------------------------
(***************************************************************************)
(* The matchmaking functions of the examples, as their servers run them    *)
(* side by side in one process: the FIFO function fills the rosters of a   *)
(* match in turn, ticket by ticket, and asks for backfill when it runs out *)
(* of tickets; the debug function returns an empty match.  All FIFO runs   *)
(* share three package-level parameters.  A panic ends the process.        *)
(***************************************************************************)
EXTENDS ChunkedRequest

CONSTANTS
    DebugRuns,      \* runs of the debug function; the others are FIFO runs
    Profiles,       \* [Runs -> the profiles it can be called with: a profile is
                    \* [num, len, min : a number or Unset, mmf : BOOLEAN],
                    \* or NoExtensions if it has no extensions field]
    Unset, NoExtensions

FifoRuns == Runs \ DebugRuns
Params == {"num", "len", "min"}
AllProfiles == UNION {Profiles[r] : r \in Runs}

ASSUME MatchFunctionsAssumption ==
    /\ DebugRuns \subseteq Runs
    /\ \A p \in AllProfiles \ {NoExtensions} :
          \A q \in Params : p[q] # Unset => p[q] \in Nat

\* om-core sends a ticket of the pools in one chunk, and the pools of a
\* profile do not overlap: Run concatenates them as they are.
ASSUME TicketsSentOnce ==
    \A r \in FifoRuns :
        /\ \A c \in Chunks[r] : IsInjective(c)
        /\ \A c, e \in Chunks[r] : c # e => ToSet(c) \cap ToSet(e) = {}

VARIABLES
    profile,        \* the profile of each run
    desired,        \* desiredNumRosters, desiredRosterLen, minRosterLen
    at,             \* the step of each run
    rosters,        \* rosters of the match being made, in the order of their names
    tixCount,       \* tickets placed in it, without the one that filled it
    capacity,       \* desiredRosterLen of the backfill request attached to it, or 0
    sent,           \* matches streamed to om-core
    dropped         \* tickets of matches that were made and not streamed

matchVars == <<rosters, tixCount, capacity, sent, dropped>>
vars == <<requestVars, profile, desired, at, matchVars>>

Default == [num |-> 1, len |-> 2, min |-> 2]

Init ==
    /\ RequestInit
    /\ profile \in [Runs -> AllProfiles] /\ \A r \in Runs : profile[r] \in Profiles[r]
    /\ desired = Default
    /\ at = [r \in Runs |-> "request"]
    /\ rosters = [r \in Runs |-> <<>>]
    /\ tixCount = [r \in Runs |-> 0]
    /\ capacity = [r \in Runs |-> 0]
    /\ sent = [r \in Runs |-> {}]
    /\ dropped = [r \in Runs |-> {}]

Go(r, step) == at' = [at EXCEPT ![r] = step]

-----------------------------------------------------------------------------
(* The start of every run.                                                 *)

Receive(r) ==
    /\ at[r] = "request"
    /\ StreamBreaks(r) \/ \E c \in unreceived[r] : ReceiveChunk(r, c)
    /\ UNCHANGED <<profile, desired, at, matchVars>>

\* The error of a broken stream is only logged; the run goes on with nil.
Begin(r) ==
    /\ at[r] = "request" /\ request[r] # "receiving"
    /\ Go(r, IF r \in DebugRuns THEN "debug" ELSE "num")
    /\ UNCHANGED <<requestVars, profile, desired, matchVars>>

Extension(r, param) ==
    IF request[r] = "none" \/ profile[r] = NoExtensions THEN Unset ELSE profile[r][param]

-----------------------------------------------------------------------------
(* The debug function writes to the extensions of a request that may be    *)
(* nil or have none: assignment to an entry of a nil map panics.           *)

Debug(r) ==
    /\ at[r] = "debug"
    /\ IF request[r] = "none" \/ profile[r] = NoExtensions
       THEN Go(r, "panicked") /\ UNCHANGED sent
       ELSE Go(r, "done") /\ sent' = [sent EXCEPT ![r] = {[rosters |-> <<>>, capacity |-> 0]}]
    /\ UNCHANGED <<requestVars, profile, desired, rosters, tixCount, capacity, dropped>>

-----------------------------------------------------------------------------
(* The FIFO function.                                                      *)

\* The three parameters of the profile that are there overwrite the shared
\* ones, one after the other.
After == [num |-> "len", len |-> "min", min |-> "loop"]

SetParam(r) ==
    /\ at[r] \in Params
    /\ LET value == Extension(r, at[r])
       IN  desired' = IF value = Unset THEN desired ELSE [desired EXCEPT ![at[r]] = value]
    /\ Go(r, After[at[r]])
    /\ UNCHANGED <<requestVars, profile, matchVars>>

\* Variant: the loop goes on only if all rosters can be filled.
StartFullMatch(r) ==
    /\ at[r] = "loop"
    /\ IF Len(tickets[r]) > desired.len * desired.num
       THEN Go(r, IF profile[r] = NoExtensions THEN "panicked" ELSE "rosters")
       ELSE Go(r, "done")
    /\ UNCHANGED <<requestVars, profile, desired, matchVars>>

\* The loop test, and the first write to the match's extensions.
StartMatch(r) ==
    /\ at[r] = "loop"
    /\ IF Len(tickets[r]) > desired.min * desired.num
       THEN Go(r, IF profile[r] = NoExtensions THEN "panicked" ELSE "rosters")
       ELSE Go(r, "done")
    /\ UNCHANGED <<requestVars, profile, desired, matchVars>>

MakeRosters(r) ==
    /\ at[r] = "rosters"
    /\ rosters' = [rosters EXCEPT ![r] = [i \in 1..desired.num |-> <<>>]]
    /\ tixCount' = [tixCount EXCEPT ![r] = 0]
    /\ capacity' = [capacity EXCEPT ![r] = 0]
    /\ Go(r, "fill")
    /\ UNCHANGED <<requestVars, profile, desired, sent, dropped>>

\* lowestRosterLen, never of a match without rosters.
Lowest(s) == CHOOSE n \in {Len(s[i]) : i \in DOMAIN s} : \A i \in DOMAIN s : n <= Len(s[i])

\* The roster whose turn it is.
Turn(r) == (tixCount[r] % desired.num) + 1

Place(r, i) == rosters' = [rosters EXCEPT ![r][i] = Append(@, Head(tickets[r]))]

TakeTicket(r) == tickets' = [tickets EXCEPT ![r] = Tail(@)]

\* Variant: the loop only ends when the rosters are full.
RepeatUntilFull(r) ==
    LET full == Lowest(rosters'[r]) >= desired.len
    IN  /\ tixCount' = IF full THEN tixCount ELSE [tixCount EXCEPT ![r] = @ + 1]
        /\ Go(r, IF full THEN "judge" ELSE "fill")

\* The loop ends when all rosters are full or no ticket is left.
RepeatOrEnd(r) ==
    LET full == Lowest(rosters'[r]) >= desired.len
    IN  /\ tixCount' = IF full THEN tixCount ELSE [tixCount EXCEPT ![r] = @ + 1]
        /\ Go(r, IF full \/ tickets'[r] = <<>> THEN "judge" ELSE "fill")

\* The index is taken modulo the shared number of rosters, which may be
\* zero, and may be past the names of this match's rosters.
HasTurn(r) == desired.num # 0 /\ Turn(r) \in DOMAIN rosters[r]

\* Variants: the tickets all go to the last roster; a ticket stays in the
\* pool; the index is the ticket count itself.
FillLastRoster(r) ==
    /\ at[r] = "fill" /\ HasTurn(r)
    /\ Place(r, Len(rosters[r])) /\ TakeTicket(r) /\ RepeatOrEnd(r)
    /\ UNCHANGED <<unreceived, request, profile, desired, capacity, sent, dropped>>

FillAndKeep(r) ==
    /\ at[r] = "fill" /\ HasTurn(r)
    /\ Place(r, Turn(r)) /\ UNCHANGED tickets /\ RepeatOrEnd(r)
    /\ UNCHANGED <<unreceived, request, profile, desired, capacity, sent, dropped>>

FillUnwrapped(r) ==
    /\ at[r] = "fill"
    /\ IF tixCount[r] + 1 \in DOMAIN rosters[r]
       THEN Place(r, tixCount[r] + 1) /\ TakeTicket(r) /\ RepeatOrEnd(r)
       ELSE Go(r, "panicked") /\ UNCHANGED <<rosters, tixCount, tickets>>
    /\ UNCHANGED <<unreceived, request, profile, desired, capacity, sent, dropped>>

\* One ticket goes to the roster whose turn it is; a division by zero and
\* an index out of range panic.
Fill(r) ==
    /\ at[r] = "fill"
    /\ IF HasTurn(r)
       THEN Place(r, Turn(r)) /\ TakeTicket(r) /\ RepeatOrEnd(r)
       ELSE Go(r, "panicked") /\ UNCHANGED <<rosters, tixCount, tickets>>
    /\ UNCHANGED <<unreceived, request, profile, desired, capacity, sent, dropped>>

Judge(r) ==
    /\ at[r] = "judge"
    /\ Go(r, IF Lowest(rosters[r]) < desired.len THEN "backfill" ELSE "send")
    /\ UNCHANGED <<requestVars, profile, desired, matchVars>>

MatchTickets(s) == UNION {ToSet(s[i]) : i \in DOMAIN s}

Drop(r) == dropped' = [dropped EXCEPT ![r] = @ \cup MatchTickets(rosters[r])]

\* The match, its backfill request and tixCount are local to an iteration.
Leave(r) ==
    /\ rosters' = [rosters EXCEPT ![r] = <<>>]
    /\ tixCount' = [tixCount EXCEPT ![r] = 0]
    /\ capacity' = [capacity EXCEPT ![r] = 0]

\* The backfill request asks for what the emptiest roster lacks.
AttachBackfill(r) ==
    /\ at[r] = "backfill" /\ profile[r].mmf
    /\ capacity' = [capacity EXCEPT ![r] = desired.len - Lowest(rosters[r])]
    /\ Go(r, "send")
    /\ UNCHANGED <<requestVars, profile, desired, rosters, tixCount, sent, dropped>>

\* Variant: the tickets of a match that is not streamed return to the pool.
SkipAndRefill(r) ==
    /\ at[r] = "backfill" /\ ~profile[r].mmf
    /\ tickets' = [tickets EXCEPT ![r] = FlattenSeq(rosters[r]) \o @]
    /\ Leave(r)
    /\ Go(r, "loop")
    /\ UNCHANGED <<unreceived, request, profile, desired, sent, dropped>>

\* Without an MMF list in the extensions the match is not streamed.
SkipMatch(r) ==
    /\ at[r] = "backfill" /\ ~profile[r].mmf
    /\ Drop(r)
    /\ Leave(r)
    /\ Go(r, "loop")
    /\ UNCHANGED <<requestVars, profile, desired, sent>>

SendMatch(r) ==
    /\ at[r] = "send"
    /\ sent' = [sent EXCEPT ![r] = @ \cup {[rosters |-> rosters[r], capacity |-> capacity[r]]}]
    /\ Leave(r)
    /\ Go(r, "loop")
    /\ UNCHANGED <<requestVars, profile, desired, dropped>>

SendFails(r) ==
    /\ at[r] = "send"
    /\ Drop(r)
    /\ Leave(r)
    /\ Go(r, "failed")
    /\ UNCHANGED <<requestVars, profile, desired, sent>>

-----------------------------------------------------------------------------
Alive == \A r \in Runs : at[r] # "panicked"

RunStep(r) ==
    /\ Alive
    /\ \/ Receive(r) \/ Begin(r) \/ Debug(r) \/ SetParam(r)
       \/ StartMatch(r) \/ MakeRosters(r) \/ Fill(r) \/ Judge(r)
       \/ AttachBackfill(r) \/ SkipMatch(r) \/ SendMatch(r) \/ SendFails(r)

Ended(r) == at[r] \in {"done", "failed"}

Terminated == (~Alive \/ \A r \in Runs : Ended(r)) /\ UNCHANGED vars

Next == Terminated \/ \E r \in Runs : RunStep(r)

\* gRPC runs every handler; a stream delivers its chunks or breaks.
Spec == Init /\ [][Next]_vars /\ \A r \in Runs : WF_vars(RunStep(r))

-----------------------------------------------------------------------------
TypeOK ==
    /\ request \in [Runs -> {"receiving", "whole", "none"}]
    /\ \A r \in Runs : tickets[r] \in Seq(AllTickets(r))
    /\ \A p \in Params : desired[p] \in Nat
    /\ at \in [Runs -> Params \cup {"request", "debug", "loop", "rosters", "fill", "judge",
                                    "backfill", "send", "done", "failed", "panicked"}]
    /\ \A r \in Runs : at[r] = "fill" => tickets[r] # <<>>

\* A run makes its matches from all the tickets of the request or, when the
\* stream broke, from none: whatever the order of the chunks.
WholeRequestOrNone ==
    \A r \in FifoRuns : at[r] \in Params =>
        ToSet(tickets[r]) = IF request[r] = "whole" THEN AllTickets(r) ELSE {}

PlacedOnce(s) ==
    \A i, j \in DOMAIN s : \A k \in DOMAIN s[i], l \in DOMAIN s[j] :
        s[i][k] = s[j][l] => i = j /\ k = l

\* A ticket is in one place of one match, or dropped, or left over,
\* whatever other runs do to the parameters.
TicketsUsedOnce ==
    \A r \in FifoRuns : request[r] = "whole" /\ at[r] # "request" =>
        LET made == {m.rosters : m \in sent[r]} \cup {rosters[r]}
            placed == UNION {MatchTickets(s) : s \in made}
        IN  /\ \A s, u \in made : s # u => MatchTickets(s) \cap MatchTickets(u) = {}
            /\ \A s \in made : PlacedOnce(s)
            /\ placed \cup dropped[r] \cup ToSet(tickets[r]) = AllTickets(r)
            /\ placed \cap ToSet(tickets[r]) = {}
            /\ dropped[r] \cap (placed \cup ToSet(tickets[r])) = {}

\* The run's profile sets a parameter and no other profile contradicts it.
Agreed(r, param) ==
    /\ profile[r] # NoExtensions /\ profile[r][param] # Unset
    /\ \A q \in FifoRuns : profile[q] = NoExtensions \/ profile[q][param] \in {Unset, profile[r][param]}

AllAgreed(r) == \A p \in Params : Agreed(r, p)

\* ... and its profile asks for a match with room in it.
Configured(r) == AllAgreed(r) /\ profile[r].num > 0 /\ profile[r].len > 0

\* The process only panics over a profile without extensions, over a broken
\* stream of a debug run, when runs disagree on the number of rosters, or
\* when it is zero.
PanicCauses ==
    \A r \in Runs : at[r] = "panicked" =>
        \/ profile[r] = NoExtensions
        \/ r \in DebugRuns /\ request[r] = "none"
        \/ r \in FifoRuns /\ (~Agreed(r, "num") \/ profile[r].num = 0)

\* When no profile contradicts the run's own, each match is what its
\* profile asks for: the number of rosters, filled evenly, none overfull,
\* none below the minimum unless (as for a backfill) the minimum is more
\* than fits, and backfill for exactly what is missing.  (A match without
\* rosters is not made, and rosters of length zero still get the ticket that is
\* placed before their length is looked at.)
MatchesAsConfigured ==
    \A r \in FifoRuns : Configured(r) =>
        \A m \in sent[r] :
            LET p == profile[r]
                lowest == Lowest(m.rosters)
            IN  /\ Len(m.rosters) = p.num
                /\ \A i \in DOMAIN m.rosters : Len(m.rosters[i]) \in lowest..(lowest + 1)
                /\ \A i \in DOMAIN m.rosters : Len(m.rosters[i]) <= p.len
                /\ lowest >= p.min \/ lowest = p.len
                /\ m.capacity = p.len - lowest

\* A run that ends by itself leaves no more tickets than the minimum for a
\* match, one of them included: the loop test is strict.
FewLeftOver ==
    \A r \in FifoRuns : AllAgreed(r) /\ at[r] = "done" =>
        Len(tickets[r]) <= profile[r].min * profile[r].num

\* Every run returns, unless the process panics.
RunsEnd == \A r \in Runs : <>(Ended(r) \/ ~Alive)
=============================================================================
