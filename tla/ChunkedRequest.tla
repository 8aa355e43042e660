---------------------------- MODULE ChunkedRequest ----------------------------
(***************************************************************************)
(* server.GetChunkedRequest: a matchmaking function puts its request       *)
(* together from chunks that arrive in any order, each with a part of the  *)
(* tickets and everything else.  The end is recognised by counting.        *)
(***************************************************************************)
EXTENDS Integers, FiniteSets, Sequences, SequencesExt

CONSTANTS
    Runs,           \* calls of a function's Run
    Chunks          \* [Runs -> the chunks om-core sends: a set of sequences of tickets]

ASSUME ChunksAssumption ==
    /\ DOMAIN Chunks = Runs
    /\ \A r \in Runs :
          /\ IsFiniteSet(Chunks[r]) /\ Chunks[r] # {}
          /\ \A c \in Chunks[r] : c \in Seq(ToSet(c))

VARIABLES
    unreceived,     \* chunks still in the stream
    request,        \* "receiving", "whole" or, after an error, "none"
    tickets         \* tickets of the chunks received, later those not yet used

requestVars == <<unreceived, request, tickets>>

RequestInit ==
    /\ unreceived = Chunks
    /\ request = [r \in Runs |-> "receiving"]
    /\ tickets = [r \in Runs |-> <<>>]

\* The number of the chunk being received, as the loop counts them.
ChunkNumber(r) == Cardinality(Chunks[r] \ unreceived[r]) + 1

\* Variant: the loop counts the chunks from two.
ReceiveAllButOne(r, c) ==
    /\ request[r] = "receiving" /\ c \in unreceived[r]
    /\ unreceived' = [unreceived EXCEPT ![r] = @ \ {c}]
    /\ tickets' = [tickets EXCEPT ![r] = @ \o c]
    /\ request' = IF ChunkNumber(r) + 1 >= Cardinality(Chunks[r])
                  THEN [request EXCEPT ![r] = "whole"] ELSE request

\* A pool that comes again is appended to the participants its first chunk
\* had (server.go:112).  om-core is taken to send participants, if only an
\* empty list, with each pool: with none this would be a nil dereference.
ReceiveChunk(r, c) ==
    /\ request[r] = "receiving" /\ c \in unreceived[r]
    /\ unreceived' = [unreceived EXCEPT ![r] = @ \ {c}]
    /\ tickets' = [tickets EXCEPT ![r] = @ \o c]
    /\ request' = IF ChunkNumber(r) = Cardinality(Chunks[r])
                  THEN [request EXCEPT ![r] = "whole"] ELSE request

\* stream.Recv() returns an error: what was received is thrown away.
StreamBreaks(r) ==
    /\ request[r] = "receiving"
    /\ request' = [request EXCEPT ![r] = "none"]
    /\ tickets' = [tickets EXCEPT ![r] = <<>>]
    /\ UNCHANGED unreceived

AllTickets(r) == UNION {ToSet(c) : c \in Chunks[r]}
=============================================================================
