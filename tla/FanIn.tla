--------------------------------- MODULE FanIn ---------------------------------
(***************************************************************************)
(* How one cycle of MockDirector.Run collects the matches of its MMF       *)
(* invocations.  The director makes a response channel for each request,   *)
(* hands it over fanInChan to the fan-in goroutine, and starts the client  *)
(* goroutine that writes om-core's responses to the channel.  The fan-in   *)
(* goroutine starts a reader for each channel; the readers append to the   *)
(* slice proposedMatches, which they share and do not lock.  A WaitGroup   *)
(* tells the director when all channels are drained.  The director adds a  *)
(* request to it before it looks for the request's hash; a request without *)
(* one is discarded, and stays added.                                      *)
(***************************************************************************)
EXTENDS Integers, FiniteSets, Sequences, SequencesExt

CONSTANTS
    Invocations,    \* one per MmfRequest of the cycle
    MatchesOf,      \* [Invocations -> the matches om-core may stream for it]
    None            \* the backing array of the empty slice

AllMatches == UNION {MatchesOf[i] : i \in Invocations}

ASSUME FanInAssumption ==
    /\ IsFiniteSet(Invocations)
    /\ MatchesOf \in [Invocations -> SUBSET AllMatches]
    /\ \A i, j \in Invocations : i # j => MatchesOf[i] \cap MatchesOf[j] = {}
    /\ None \notin AllMatches

VARIABLES
    hashed,     \* requests whose profile carries its hash, as the game
                \* server manager made them: it is an interface, and only
                \* MockAgonesIntegration always puts the hash in
    director,   \* the request loop: [at |-> step, left |-> requests to go]
    wg,         \* counter of the WaitGroup
    client,     \* InvokeMatchmakingFunctions of each request
    unsent,     \* matches om-core has still to stream for a request
    reader,     \* the reader goroutine of each channel
    holds,      \* the match a reader is appending
    slice,      \* proposedMatches: backing array, length and capacity
    local,      \* the slice header each reader read
    arrays      \* contents of the backing arrays, named by the match that
                \* made append allocate them

VARIABLES       \* history
    delivered,  \* matches that reached a reader
    overlapped  \* two readers were appending at the same time

control == <<director, wg>>
memory  == <<slice, local, arrays>>
vars == <<hashed, control, client, unsent, reader, holds, memory, delivered, overlapped>>

Empty == [array |-> None, len |-> 0, cap |-> 0]

Init ==
    /\ hashed \in SUBSET Invocations
    /\ director = [at |-> "add", left |-> Invocations]
    /\ wg = 0
    /\ client = [i \in Invocations |-> "idle"]
    /\ unsent = MatchesOf
    /\ reader = [i \in Invocations |-> "idle"]
    /\ holds = [i \in Invocations |-> None]
    /\ slice = Empty
    /\ local = [i \in Invocations |-> Empty]
    /\ arrays = [a \in AllMatches \cup {None} |-> <<>>]
    /\ delivered = {} /\ overlapped = FALSE

-----------------------------------------------------------------------------
(* The director.                                                           *)

\* Variant: the WaitGroup counts a request twice.
AddTwo ==
    /\ director.at = "add" /\ director.left # {}
    /\ director' = [director EXCEPT !.at = "send"]
    /\ wg' = wg + 2
    /\ UNCHANGED <<hashed, client, unsent, reader, holds, memory, delivered, overlapped>>

AddToWaitGroup ==
    /\ director.at = "add" /\ director.left # {}
    /\ director' = [director EXCEPT !.at = "send"]
    /\ wg' = wg + 1
    /\ UNCHANGED <<hashed, client, unsent, reader, holds, memory, delivered, overlapped>>

\* The request has no hash: the director goes on to the next one.  It gets
\* no channel and no reader, so nobody calls Done for it.
DiscardRequest(i) ==
    /\ director.at = "send" /\ i \in director.left \ hashed
    /\ director' = [at |-> "add", left |-> director.left \ {i}]
    /\ UNCHANGED <<hashed, wg, client, unsent, reader, holds, memory, delivered, overlapped>>

\* fanInChan is unbuffered: the fan-in goroutine takes the channel and
\* starts its reader.
HandOver(i) ==
    /\ director.at = "send" /\ i \in director.left \cap hashed
    /\ director' = [at |-> "invoke", left |-> director.left \ {i}]
    /\ reader' = [reader EXCEPT ![i] = "receive"]
    /\ UNCHANGED <<hashed, wg, client, unsent, holds, memory, delivered, overlapped>>

Invoke(i) ==
    /\ director.at = "invoke" /\ reader[i] # "idle" /\ client[i] = "idle"
    /\ director' = [director EXCEPT !.at = "add"]
    /\ client' = [client EXCEPT ![i] = "streaming"]
    /\ UNCHANGED <<hashed, wg, unsent, reader, holds, memory, delivered, overlapped>>

\* Variant: the director does not wait for the WaitGroup.
WaitForNobody ==
    /\ director.at = "add" /\ director.left = {}
    /\ director' = [director EXCEPT !.at = "collected"]
    /\ UNCHANGED <<hashed, wg, client, unsent, reader, holds, memory, delivered, overlapped>>

\* wg.Wait() returns, fanInChan is closed and proposedMatches is read.
WaitForReaders ==
    /\ director.at = "add" /\ director.left = {}
    /\ wg = 0
    /\ director' = [director EXCEPT !.at = "collected"]
    /\ UNCHANGED <<hashed, wg, client, unsent, reader, holds, memory, delivered, overlapped>>

-----------------------------------------------------------------------------
(* The client and the reader of one channel.                               *)

\* The channel is unbuffered: the client's send is the reader's receive.
Deliver(i, m) ==
    /\ client[i] = "streaming" /\ m \in unsent[i]
    /\ reader[i] = "receive"
    /\ unsent' = [unsent EXCEPT ![i] = @ \ {m}]
    /\ reader' = [reader EXCEPT ![i] = "read"]
    /\ holds' = [holds EXCEPT ![i] = m]
    /\ delivered' = delivered \cup {m}
    /\ UNCHANGED <<hashed, control, client, memory, overlapped>>

\* The call fails, or the stream ends or breaks, at any point of it.
CloseChannel(i) ==
    /\ client[i] = "streaming"
    /\ client' = [client EXCEPT ![i] = "closed"]
    /\ UNCHANGED <<hashed, control, unsent, reader, holds, memory, delivered, overlapped>>

Appending == {i \in Invocations : reader[i] \in {"store", "assign"}}

\* The three steps of proposedMatches = append(proposedMatches, match):
\* read the slice header ...
ReadSlice(i) ==
    /\ reader[i] = "read"
    /\ local' = [local EXCEPT ![i] = slice]
    /\ reader' = [reader EXCEPT ![i] = "store"]
    /\ overlapped' = (overlapped \/ Appending # {})
    /\ UNCHANGED <<hashed, control, client, unsent, holds, slice, arrays, delivered>>

\* ... write the element past its end, in the array there is or, when that
\* is full, in a copy of twice the capacity ...
StoreElement(i) ==
    LET s == local[i]
        m == holds[i]
    IN  /\ reader[i] = "store"
        /\ IF s.len < s.cap
           THEN /\ arrays' = [arrays EXCEPT ![s.array] =
                                 Append(SubSeq(@, 1, s.len), m) \o SubSeq(@, s.len + 2, Len(@))]
                /\ local' = [local EXCEPT ![i].len = s.len + 1]
           ELSE /\ arrays' = [arrays EXCEPT ![m] = Append(SubSeq(arrays[s.array], 1, s.len), m)]
                /\ local' = [local EXCEPT ![i] =
                       [array |-> m, len |-> s.len + 1, cap |-> IF s.cap = 0 THEN 1 ELSE 2 * s.cap]]
        /\ reader' = [reader EXCEPT ![i] = "assign"]
        /\ UNCHANGED <<hashed, control, client, unsent, holds, slice, delivered, overlapped>>

\* Variant: the reader appends the match it just appended once more.
AssignAndRepeat(i) ==
    /\ reader[i] = "assign"
    /\ slice' = local[i]
    /\ reader' = [reader EXCEPT ![i] = "read"]
    /\ UNCHANGED <<hashed, control, client, unsent, holds, local, arrays, delivered, overlapped>>

\* ... and write the new header back.
AssignSlice(i) ==
    /\ reader[i] = "assign"
    /\ slice' = local[i]
    /\ reader' = [reader EXCEPT ![i] = "receive"]
    /\ holds' = [holds EXCEPT ![i] = None]
    /\ UNCHANGED <<hashed, control, client, unsent, local, arrays, delivered, overlapped>>

\* Variants: the reader of a closed channel exits without wg.Done(), or
\* with a match in hand.
ExitWithMatch(i) ==
    /\ reader[i] \in {"receive", "read"} /\ client[i] = "closed"
    /\ reader' = [reader EXCEPT ![i] = "done"]
    /\ wg' = wg - 1
    /\ UNCHANGED <<hashed, director, client, unsent, holds, memory, delivered, overlapped>>

ExitSilently(i) ==
    /\ reader[i] = "receive" /\ client[i] = "closed"
    /\ reader' = [reader EXCEPT ![i] = "done"]
    /\ UNCHANGED <<hashed, control, client, unsent, holds, memory, delivered, overlapped>>

ReaderDone(i) ==
    /\ reader[i] = "receive" /\ client[i] = "closed"
    /\ reader' = [reader EXCEPT ![i] = "done"]
    /\ wg' = wg - 1
    /\ UNCHANGED <<hashed, director, client, unsent, holds, memory, delivered, overlapped>>

-----------------------------------------------------------------------------
DirectorStep ==
    \/ AddToWaitGroup \/ WaitForReaders
    \/ \E i \in Invocations : DiscardRequest(i) \/ HandOver(i) \/ Invoke(i)

ReaderStep(i) ==
    ReadSlice(i) \/ StoreElement(i) \/ AssignSlice(i) \/ ReaderDone(i)

Terminated == director.at = "collected" /\ UNCHANGED vars

Next ==
    \/ DirectorStep
    \/ \E i \in Invocations :
          \/ ReaderStep(i)
          \/ CloseChannel(i)
          \/ \E m \in unsent[i] : Deliver(i, m)
    \/ Terminated

\* The goroutines run whenever they can; om-core ends every stream.
Spec ==
    /\ Init /\ [][Next]_vars
    /\ WF_vars(DirectorStep)
    /\ \A i \in Invocations : WF_vars(ReaderStep(i)) /\ WF_vars(CloseChannel(i))

-----------------------------------------------------------------------------
TypeOK ==
    /\ hashed \subseteq Invocations
    /\ director.at \in {"add", "send", "invoke", "collected"}
    /\ director.left \subseteq Invocations
    /\ wg \in 0..Cardinality(Invocations)
    /\ client \in [Invocations -> {"idle", "streaming", "closed"}]
    /\ reader \in [Invocations -> {"idle", "receive", "read", "store", "assign", "done"}]
    /\ slice.array \in AllMatches \cup {None}
    /\ slice.len \in 0..slice.cap
    /\ slice.len <= Len(arrays[slice.array])

Collected == ToSet(SubSeq(arrays[slice.array], 1, slice.len))

\* Once the director reads proposedMatches no goroutine appends to it any
\* more, and none is left on a channel nobody will close.  It gets there
\* only when every request was handed over.
QuietAfterWait ==
    director.at = "collected" =>
        \A i \in Invocations : reader[i] = "done" /\ client[i] = "closed"

\* What the director reads is made of matches that were delivered, each
\* once, however the appends raced.
CollectedAreDelivered ==
    /\ Collected \subseteq delivered
    /\ Cardinality(Collected) = slice.len

\* Only appends that overlap lose matches: a lock around the append would
\* make the collection complete.
LostOnlyByOverlap ==
    director.at = "collected" /\ ~overlapped => Collected = delivered

\* The director gets past wg.Wait() when every request has its hash, as all
\* those of MockAgonesIntegration.GetMMFParams have.  Otherwise it waits for
\* good, since QuietAfterWait holds.
CollectionEnds == hashed = Invocations => <>(director.at = "collected")

\* gsdirector.go:1070-1072, the channel of channels "allows all results from
\* all MMFs in one cycle to be processed": every delivered match is there.
EveryResultCollected == director.at = "collected" => Collected = delivered
=============================================================================
