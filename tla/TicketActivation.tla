--------------------------- MODULE TicketActivation ---------------------------
(***************************************************************************)
(* RestfulOMGrpcClient.ActivateTickets: ids arrive on a buffered channel,  *)
(* a goroutine collects them into batches that are sent when full or when  *)
(* a 250 ms timer fires, and each batch is activated by a goroutine of its *)
(* own that retries for 5 seconds.  No caller closes the channel, so the   *)
(* batching never ends.                                                    *)
(***************************************************************************)
EXTENDS Integers, FiniteSets, Sequences, SequencesExt

CONSTANTS
    TicketIds,
    ChanCap,        \* capacity of the channel of ids (10000 in the queue)
    BatchSize       \* OM_CORE_MAX_UPDATES_PER_ACTIVATION_CALL

ASSUME ActivationAssumption == ChanCap \in Nat \ {0} /\ BatchSize \in Nat \ {0}

VARIABLES
    toActivate,     \* the channel
    batch,          \* ids collected so far
    calls,          \* batches whose activation call is being made or retried
    activated,      \* ids active in om-core
    abandoned       \* ids whose batch was given up, not activated

activationVars == <<toActivate, batch, calls, activated, abandoned>>

ActivationInit ==
    /\ toActivate = <<>>
    /\ batch = {} /\ calls = {}
    /\ activated = {} /\ abandoned = {}

\* Ids handed over and neither activated for sure nor given up.
InProgress == ToSet(toActivate) \cup batch \cup (UNION calls)

\* Variant: the channel takes any number of ids.
EnqueueUnbounded(id) ==
    /\ toActivate' = Append(toActivate, id)
    /\ UNCHANGED <<batch, calls, activated, abandoned>>

\* The caller's send on the channel; it blocks while the channel is full.
EnqueueId(id) ==
    /\ Len(toActivate) < ChanCap
    /\ toActivate' = Append(toActivate, id)
    /\ UNCHANGED <<batch, calls, activated, abandoned>>

CollectId ==
    /\ toActivate # <<>> /\ Cardinality(batch) < BatchSize
    /\ batch' = batch \cup {Head(toActivate)}
    /\ toActivate' = Tail(toActivate)
    /\ UNCHANGED <<calls, activated, abandoned>>

\* Variants: only full batches are sent; a batch that the timer cuts short
\* is thrown away.
SendFullBatch ==
    /\ Cardinality(batch) = BatchSize
    /\ calls' = calls \cup {batch}
    /\ batch' = {}
    /\ UNCHANGED <<toActivate, activated, abandoned>>

SendOrDropBatch ==
    /\ batch # {}
    /\ calls' = IF Cardinality(batch) = BatchSize THEN calls \cup {batch} ELSE calls
    /\ batch' = {}
    /\ UNCHANGED <<toActivate, activated, abandoned>>

\* The batch is full or its timer fired; an empty one is not sent.
SendBatch ==
    /\ batch # {}
    /\ calls' = calls \cup {batch}
    /\ batch' = {}
    /\ UNCHANGED <<toActivate, activated, abandoned>>

\* An attempt that reports an error, after om-core activated some of the ids.
AttemptFails(b, ids) ==
    /\ b \in calls /\ ids \subseteq b
    /\ activated' = activated \cup ids
    /\ UNCHANGED <<toActivate, batch, calls, abandoned>>

AttemptSucceeds(b) ==
    /\ b \in calls
    /\ activated' = activated \cup b
    /\ calls' = calls \ {b}
    /\ UNCHANGED <<toActivate, batch, abandoned>>

\* The retries have used up their 5 seconds; the ids are not kept anywhere.
GiveUp(b) ==
    /\ b \in calls
    /\ calls' = calls \ {b}
    /\ abandoned' = abandoned \cup (b \ activated)
    /\ UNCHANGED <<toActivate, batch, activated>>

ActivationStep ==
    \/ CollectId \/ SendBatch
    \/ \E b \in calls :
          \/ AttemptSucceeds(b) \/ GiveUp(b)
          \/ \E ids \in SUBSET b : AttemptFails(b, ids)

CallEnds(b) == AttemptSucceeds(b) \/ GiveUp(b)

ActivationTypeOK ==
    /\ toActivate \in Seq(TicketIds) /\ Len(toActivate) <= ChanCap
    /\ batch \subseteq TicketIds /\ Cardinality(batch) <= BatchSize
    /\ calls \subseteq SUBSET TicketIds
    /\ activated \subseteq TicketIds
    /\ abandoned \subseteq TicketIds

Service == INSTANCE ActivationService
             WITH pending <- InProgress, active <- activated, givenUp <- abandoned
=============================================================================
