------------------------------ MODULE FanInProofs ------------------------------
(***************************************************************************)
(* The WaitGroup of the fan-in counts the readers that have not finished   *)
(* and the requests that were discarded, so the director, once past its    *)
(* Wait, shares proposedMatches with no goroutine and has discarded no     *)
(* request, for every number of requests and whatever om-core streams.     *)
(* The readers' unsynchronized appends lose matches, but they invent and   *)
(* repeat none, and they lose none unless two of them overlap.             *)
(***************************************************************************)
EXTENDS FanIn, TLAPS, FiniteSetTheorems, SequenceTheorems

-----------------------------------------------------------------------------
(* The control of the goroutines.                                          *)

Started == {i \in Invocations : reader[i] \notin {"idle", "done"}}
Discarded == Invocations \ (hashed \cup director.left)

ControlOK ==
    /\ hashed \subseteq Invocations
    /\ director \in [at : {"add", "send", "invoke", "collected"}, left : SUBSET Invocations]
    /\ client \in [Invocations -> {"idle", "streaming", "closed"}]
    /\ reader \in [Invocations -> {"idle", "receive", "read", "store", "assign", "done"}]

\* One for each started reader, one for each discarded request, and one for
\* the request about to be handed over.
CountsReaders ==
    wg = Cardinality(Started) + Cardinality(Discarded) + (IF director.at = "send" THEN 1 ELSE 0)

\* The requests are taken one by one; the client of the one that was handed
\* over last is still to be started.
OneByOne ==
    /\ \A i \in Invocations :
          reader[i] = "idle" <=> i \in director.left \/ i \in Invocations \ hashed
    /\ \A i \in Invocations : reader[i] = "idle" => client[i] = "idle"
    /\ director.at # "invoke" =>
          \A i \in Invocations : client[i] = "idle" => reader[i] = "idle"
    /\ \A i, j \in Invocations :
          client[i] = "idle" /\ client[j] = "idle" /\ reader[i] # "idle" /\ reader[j] # "idle"
              => i = j
    /\ director.at = "send" => director.left # {}
    /\ director.at = "collected" => director.left = {} /\ Started = {} /\ Discarded = {}

ReadersLast == \A i \in Invocations : reader[i] = "done" => client[i] = "closed"

ControlInv == ControlOK /\ CountsReaders /\ OneByOne /\ ReadersLast

LEMMA StartedFinite ==
    /\ IsFiniteSet(Started) /\ Cardinality(Started) \in Nat
    /\ Cardinality(Started) = 0 <=> Started = {}
<1>1. IsFiniteSet(Started)
  BY FanInAssumption, FS_Subset DEF Started
<1> QED
  BY <1>1, FS_CardinalityType, FS_EmptySet

LEMMA DiscardedFinite ==
    /\ IsFiniteSet(Discarded) /\ Cardinality(Discarded) \in Nat
    /\ Cardinality(Discarded) = 0 <=> Discarded = {}
<1>1. IsFiniteSet(Discarded)
  BY FanInAssumption, FS_Subset DEF Discarded
<1> QED
  BY <1>1, FS_CardinalityType, FS_EmptySet

LEMMA ControlInitially == Init => ControlInv
<1> SUFFICES ASSUME Init PROVE ControlInv
  OBVIOUS
<1>1. Started = {} /\ Discarded = {}
  BY DEF Init, Started, Discarded
<1> QED
  BY <1>1, FS_EmptySet DEF Init, ControlInv, ControlOK, CountsReaders, OneByOne, ReadersLast

\* The control is what it was, but for readers in the middle of an append.
LEMMA AppendControl ==
    ASSUME ControlInv, NEW i \in Invocations,
           NEW at \in {"receive", "read", "store", "assign"},
           reader[i] \in {"receive", "read", "store", "assign"},
           reader' = [reader EXCEPT ![i] = at], UNCHANGED <<hashed, control, client>>
    PROVE  ControlInv'
<1>1. Started' = Started /\ Discarded' = Discarded
  BY DEF Started, Discarded, ControlInv, ControlOK, control
<1>2. \A j \in Invocations : /\ reader'[j] = "idle" <=> reader[j] = "idle"
                             /\ reader'[j] = "done" <=> reader[j] = "done"
  BY DEF ControlInv, ControlOK
<1>3. ControlOK' /\ CountsReaders'
  BY <1>1 DEF ControlInv, ControlOK, CountsReaders, control
<1>4. OneByOne'
  BY <1>1, <1>2 DEF ControlInv, OneByOne, control
<1>5. ReadersLast'
  BY <1>2 DEF ControlInv, ReadersLast
<1> QED
  BY <1>3, <1>4, <1>5 DEF ControlInv

LEMMA HandOverControl ==
    ASSUME ControlInv, NEW i \in Invocations, HandOver(i)
    PROVE  ControlInv'
<1>1. /\ director.at = "send" /\ i \in director.left /\ i \in hashed /\ reader[i] = "idle" /\ client[i] = "idle"
      /\ director' = [at |-> "invoke", left |-> director.left \ {i}]
      /\ reader' = [reader EXCEPT ![i] = "receive"]
      /\ UNCHANGED <<hashed, wg, client>>
  BY DEF HandOver, ControlInv, OneByOne
<1>2. Started' = Started \cup {i} /\ i \notin Started /\ Discarded' = Discarded
  BY <1>1 DEF Started, Discarded, ControlInv, ControlOK
<1>3. Cardinality(Started') = Cardinality(Started) + 1
  BY <1>2, StartedFinite, FS_AddElement
<1>4. ControlOK' /\ CountsReaders'
  BY <1>1, <1>2, <1>3, StartedFinite, DiscardedFinite DEF ControlInv, ControlOK, CountsReaders
<1>5. OneByOne'
  BY <1>1 DEF ControlInv, ControlOK, OneByOne
<1>6. ReadersLast'
  BY <1>1 DEF ControlInv, ControlOK, ReadersLast
<1> QED
  BY <1>4, <1>5, <1>6 DEF ControlInv

\* The added request moves to the discarded ones, which keep their count.
LEMMA DiscardControl ==
    ASSUME ControlInv, NEW i \in Invocations, DiscardRequest(i)
    PROVE  ControlInv'
<1>1. /\ director.at = "send" /\ i \in director.left /\ i \notin hashed
      /\ director' = [at |-> "add", left |-> director.left \ {i}]
      /\ UNCHANGED <<hashed, wg, reader, client>>
  BY DEF DiscardRequest
<1>2. Started' = Started /\ Discarded' = Discarded \cup {i} /\ i \notin Discarded
  BY <1>1 DEF Started, Discarded, ControlInv, ControlOK
<1>3. Cardinality(Discarded') = Cardinality(Discarded) + 1
  BY <1>2, DiscardedFinite, FS_AddElement
<1>4. ControlOK' /\ CountsReaders'
  BY <1>1, <1>2, <1>3, StartedFinite, DiscardedFinite DEF ControlInv, ControlOK, CountsReaders
<1>5. OneByOne'
  BY <1>1 DEF ControlInv, ControlOK, OneByOne
<1>6. ReadersLast'
  BY <1>1 DEF ControlInv, ReadersLast
<1> QED
  BY <1>4, <1>5, <1>6 DEF ControlInv

LEMMA ReaderDoneControl ==
    ASSUME ControlInv, NEW i \in Invocations, ReaderDone(i)
    PROVE  ControlInv'
<1>1. /\ reader[i] = "receive" /\ client[i] = "closed"
      /\ reader' = [reader EXCEPT ![i] = "done"]
      /\ wg' = wg - 1 /\ UNCHANGED <<hashed, director, client>>
  BY DEF ReaderDone
<1>2. Started' = Started \ {i} /\ i \in Started /\ Discarded' = Discarded
  BY <1>1 DEF Started, Discarded, ControlInv, ControlOK
<1>3. Cardinality(Started') = Cardinality(Started) - 1
  BY <1>2, StartedFinite, FS_RemoveElement
<1>4. ControlOK' /\ CountsReaders'
  BY <1>1, <1>2, <1>3, StartedFinite, DiscardedFinite DEF ControlInv, ControlOK, CountsReaders
<1>5. OneByOne'
  BY <1>1, <1>2 DEF ControlInv, ControlOK, OneByOne
<1>6. ReadersLast'
  BY <1>1 DEF ControlInv, ControlOK, ReadersLast
<1> QED
  BY <1>4, <1>5, <1>6 DEF ControlInv

LEMMA DirectorControl ==
    ASSUME ControlInv,
           AddToWaitGroup \/ WaitForReaders \/ \E i \in Invocations : Invoke(i) \/ CloseChannel(i)
    PROVE  ControlInv'
<1>1. Started' = Started /\ Discarded' = Discarded
  BY DEF AddToWaitGroup, WaitForReaders, Invoke, CloseChannel, Started, Discarded, control,
         ControlInv, ControlOK
<1>2. CASE AddToWaitGroup
  BY <1>1, <1>2, StartedFinite, DiscardedFinite
     DEF AddToWaitGroup, ControlInv, ControlOK, CountsReaders, OneByOne, ReadersLast
<1>3. CASE WaitForReaders
  BY <1>1, <1>3, StartedFinite, DiscardedFinite
     DEF WaitForReaders, ControlInv, ControlOK, CountsReaders, OneByOne, ReadersLast
<1>4. ASSUME NEW i \in Invocations, Invoke(i)
      PROVE  ControlInv'
  BY <1>1, <1>4 DEF Invoke, ControlInv, ControlOK, CountsReaders, OneByOne, ReadersLast
<1>5. ASSUME NEW i \in Invocations, CloseChannel(i)
      PROVE  ControlInv'
  BY <1>1, <1>5 DEF CloseChannel, ControlInv, ControlOK, CountsReaders, OneByOne, ReadersLast, control
<1> QED
  BY <1>2, <1>3, <1>4, <1>5

LEMMA ControlStep ==
    ASSUME ControlInv, [Next]_vars
    PROVE  ControlInv'
<1>1. ASSUME NEW i \in Invocations, \E m \in unsent[i] : Deliver(i, m)
      PROVE  ControlInv'
  BY <1>1, AppendControl DEF Deliver
<1>2. ASSUME NEW i \in Invocations, ReaderStep(i)
      PROVE  ControlInv'
  BY <1>2, AppendControl, ReaderDoneControl
     DEF ReaderStep, ReadSlice, StoreElement, AssignSlice
<1>3. CASE UNCHANGED vars
  BY <1>3 DEF vars, control, ControlInv, ControlOK, CountsReaders, OneByOne, ReadersLast,
              Started, Discarded
<1>4. CASE DirectorStep
  BY <1>4, DirectorControl, DiscardControl, HandOverControl DEF DirectorStep
<1> QED
  BY <1>1, <1>2, <1>3, <1>4, DirectorControl DEF Next, Terminated

LEMMA ControlIsInvariant == Spec => []ControlInv
BY ControlInitially, ControlStep, PTL DEF Spec

\* Run: when wg.Wait() returns every reader has returned and every channel
\* is closed, for any number of requests and interleaving.
THEOREM QuietAfterTheWait == Spec => []QuietAfterWait
<1>1. ControlInv => QuietAfterWait
  BY DEF ControlInv, ControlOK, OneByOne, ReadersLast, Started, Discarded, QuietAfterWait
<1> QED
  BY <1>1, ControlIsInvariant, PTL

\* Run: one request without a hash, discarded after wg.Add(1), is enough for
\* wg.Wait() never to return, for any number of requests and whatever the
\* other invocations stream.
THEOREM DiscardHoldsTheWait == Spec => [](hashed # Invocations => director.at # "collected")
<1>1. ControlInv => (hashed # Invocations => director.at # "collected")
  BY DEF ControlInv, ControlOK, OneByOne, Discarded
<1> QED
  BY <1>1, ControlIsInvariant, PTL

-----------------------------------------------------------------------------
(* The two ways in which append writes an element.                         *)

\* b is a with m written at n + 1, perhaps cut off after it.
Written(a, n, m, b) ==
    /\ b \in Seq(AllMatches)
    /\ Len(b) >= n + 1
    /\ \A k \in 1..Len(b) :
          b[k] = IF k = n + 1 THEN m ELSE a[k]
    /\ \A k \in 1..Len(b) : k # n + 1 => k \in 1..Len(a)

LEMMA WrittenByCopy ==
    ASSUME NEW a \in Seq(AllMatches), NEW n \in 0..Len(a), NEW m \in AllMatches
    PROVE  Written(a, n, m, Append(SubSeq(a, 1, n), m))
<1> DEFINE c == SubSeq(a, 1, n)
<1>1. c \in Seq(AllMatches) /\ Len(c) = n /\ \A k \in 1..n : c[k] = a[k]
  <2>1. \A k \in 1..n : a[k] \in AllMatches
    OBVIOUS
  <2>2. 1 \in Int /\ n \in Int /\ n >= 0
    OBVIOUS
  <2> QED
    BY <2>1, <2>2, SubSeqProperties
<1> HIDE DEF c
<1>2. /\ Append(c, m) \in Seq(AllMatches) /\ Len(Append(c, m)) = n + 1
      /\ \A k \in 1..n : Append(c, m)[k] = a[k]
      /\ Append(c, m)[n + 1] = m
  BY <1>1, AppendProperties
<1>3. Written(a, n, m, Append(c, m))
  BY <1>2 DEF Written
<1> QED
  BY <1>3 DEF c

LEMMA WrittenInPlace ==
    ASSUME NEW a \in Seq(AllMatches), NEW n \in 0..Len(a), NEW m \in AllMatches
    PROVE  LET b == Append(SubSeq(a, 1, n), m) \o SubSeq(a, n + 2, Len(a))
           IN  Written(a, n, m, b) /\ Len(b) >= Len(a)
<1> DEFINE c == Append(SubSeq(a, 1, n), m)
           d == SubSeq(a, n + 2, Len(a))
<1>1. Written(a, n, m, c) /\ Len(c) = n + 1
  <2>1. Len(SubSeq(a, 1, n)) = n /\ SubSeq(a, 1, n) \in Seq(AllMatches)
    OBVIOUS
  <2> QED
    BY <2>1, WrittenByCopy, AppendProperties
<1>2. /\ d \in Seq(AllMatches)
      /\ Len(d) = IF n + 2 <= Len(a) THEN Len(a) - (n + 2) + 1 ELSE 0
      /\ \A k \in 1..(Len(a) - (n + 2) + 1) : d[k] = a[n + 2 + k - 1]
  <2>1. \A k \in (n + 2)..Len(a) : a[k] \in AllMatches
    OBVIOUS
  <2>2. n + 2 \in Int /\ Len(a) \in Int
    OBVIOUS
  <2> QED
    BY <2>1, <2>2, SubSeqProperties
<1> HIDE DEF c, d
<1>3. /\ c \o d \in Seq(AllMatches) /\ Len(c \o d) = Len(c) + Len(d)
      /\ \A k \in 1..(Len(c) + Len(d)) :
            (c \o d)[k] = IF k <= Len(c) THEN c[k] ELSE d[k - Len(c)]
  BY <1>1, <1>2, ConcatProperties DEF Written
<1>4. /\ Len(a) \in Nat /\ Len(d) \in Nat /\ n \in Nat /\ n <= Len(a)
      /\ n + 2 <= Len(a) => Len(d) = Len(a) - (n + 1)
      /\ n + 2 > Len(a) => Len(d) = 0
      /\ Len(c \o d) = n + 1 + Len(d)
  <2>1. Len(a) \in Nat /\ Len(d) \in Nat /\ n \in Nat /\ n <= Len(a)
    BY <1>2
  <2>2. Len(c \o d) = n + 1 + Len(d)
    BY <1>1, <1>3
  <2>3. CASE n + 2 <= Len(a)
    BY <1>2, <2>1, <2>2, <2>3
  <2>4. CASE ~(n + 2 <= Len(a))
    BY <1>2, <2>1, <2>2, <2>4
  <2> QED
    BY <2>3, <2>4
<1>5. Len(c \o d) >= n + 1 /\ Len(c \o d) >= Len(a)
  BY <1>4
<1>6. ASSUME NEW k \in 1..Len(c \o d)
      PROVE  /\ (c \o d)[k] = IF k = n + 1 THEN m ELSE a[k]
             /\ k # n + 1 => k \in 1..Len(a)
  <2>1. CASE k <= n + 1
    BY <1>1, <1>3, <1>4, <2>1 DEF Written
  <2>2. CASE k > n + 1
    <3>1. k - (n + 1) \in 1..Len(d) /\ n + 2 <= Len(a)
      BY <1>4, <2>2
    <3>2. d[k - (n + 1)] = a[k]
      BY <1>2, <1>4, <3>1
    <3> QED
      BY <1>1, <1>2, <1>3, <1>4, <2>2, <3>1, <3>2
  <2> QED
    BY <1>1, <1>3, <1>4, <2>1, <2>2
<1>7. Written(a, n, m, c \o d)
  BY <1>3, <1>5, <1>6 DEF Written
<1> QED
  BY <1>5, <1>7 DEF c, d

-----------------------------------------------------------------------------
(* What is where in memory, however the readers interleave.                *)

Arrays == AllMatches \cup {None}
Headers == [array : Arrays, len : Nat, cap : Nat]
Fits(arrs, h) == h.len <= h.cap /\ h.len <= Len(arrs[h.array])

InHand(i) == reader[i] \in {"read", "store", "assign"}

\* Matches that no reader has written anywhere yet.
Unwritten(i) == unsent[i] \cup (IF reader[i] \in {"read", "store"} THEN {holds[i]} ELSE {})

MemoryOK ==
    /\ arrays \in [Arrays -> Seq(AllMatches)]
    /\ slice \in Headers /\ local \in [Invocations -> Headers]
    /\ Fits(arrays, slice) /\ \A i \in Invocations : Fits(arrays, local[i])

\* An array only has matches that were delivered, each once.
ArraysOK ==
    \A a \in Arrays :
        /\ \A k \in 1..Len(arrays[a]) : arrays[a][k] \in delivered
        /\ \A j, k \in 1..Len(arrays[a]) : arrays[a][j] = arrays[a][k] => j = k

\* A match that is not written is in no array and names none in use.
UnwrittenFresh ==
    \A i \in Invocations : \A m \in Unwritten(i) :
        /\ m \in MatchesOf[i]
        /\ \A a \in Arrays : \A k \in 1..Len(arrays[a]) : arrays[a][k] # m
        /\ slice.array # m /\ \A j \in Invocations : local[j].array # m

HandsOK ==
    /\ unsent \in [Invocations -> SUBSET AllMatches]
    /\ holds \in [Invocations -> Arrays]
    /\ \A i \in Invocations : unsent[i] \cap delivered = {}
    /\ \A i \in Invocations : InHand(i) => holds[i] \in delivered \cap MatchesOf[i]
    /\ delivered \subseteq AllMatches

MemoryInv == ControlOK /\ MemoryOK /\ ArraysOK /\ UnwrittenFresh /\ HandsOK

LEMMA MatchesOfType == \A i \in Invocations : MatchesOf[i] \subseteq AllMatches
BY DEF AllMatches

LEMMA MemoryInitially == Init => MemoryInv
<1> SUFFICES ASSUME Init PROVE MemoryInv
  OBVIOUS
<1>1. ControlOK
  BY DEF Init, ControlOK
<1>2. Empty \in Headers /\ arrays[None] = <<>> /\ Len(<<>>) = 0
  BY DEF Init, Empty, Headers, Arrays
<1>3. MemoryOK
  BY <1>2 DEF Init, MemoryOK, Fits, Empty, Arrays
<1>4. \A a \in Arrays : Len(arrays[a]) = 0
  BY DEF Init, Arrays
<1>5. ArraysOK
  BY <1>4 DEF ArraysOK
<1>6. \A i \in Invocations : Unwritten(i) = MatchesOf[i]
  BY DEF Init, Unwritten
<1>7. UnwrittenFresh
  <2> SUFFICES ASSUME NEW i \in Invocations, NEW m \in MatchesOf[i]
               PROVE  /\ \A a \in Arrays : \A k \in 1..Len(arrays[a]) : arrays[a][k] # m
                      /\ slice.array # m /\ \A j \in Invocations : local[j].array # m
    BY <1>6 DEF UnwrittenFresh
  <2>1. m # None
    BY FanInAssumption, MatchesOfType
  <2> QED
    BY <1>4, <2>1 DEF Init, Empty
<1>8. HandsOK
  <2>1. unsent \in [Invocations -> SUBSET AllMatches]
    BY MatchesOfType, FanInAssumption DEF Init
  <2> QED
    BY <2>1 DEF Init, HandsOK, InHand, Arrays
<1> QED
  BY <1>1, <1>3, <1>5, <1>7, <1>8 DEF MemoryInv

\* Steps that leave memory and the matches alone.
LEMMA MemoryUntouched ==
    ASSUME MemoryInv, ControlOK', UNCHANGED <<unsent, holds, memory, delivered>>,
           \A i \in Invocations :
              /\ InHand(i)' => InHand(i)
              /\ reader'[i] \in {"read", "store"} => reader[i] \in {"read", "store"}
    PROVE  MemoryInv'
<1>1. \A i \in Invocations : Unwritten(i)' \subseteq Unwritten(i)
  BY DEF Unwritten
<1>2. UnwrittenFresh'
  BY <1>1 DEF MemoryInv, UnwrittenFresh, memory
<1> QED
  BY <1>2 DEF MemoryInv, MemoryOK, ArraysOK, HandsOK, Fits, memory

LEMMA DeliverMemory ==
    ASSUME MemoryInv, ControlOK', NEW i \in Invocations, NEW m \in unsent[i], Deliver(i, m)
    PROVE  MemoryInv'
<1>1. /\ unsent' = [unsent EXCEPT ![i] = unsent[i] \ {m}] /\ holds' = [holds EXCEPT ![i] = m]
      /\ reader[i] = "receive" /\ reader' = [reader EXCEPT ![i] = "read"]
      /\ delivered' = delivered \cup {m} /\ UNCHANGED memory
  BY DEF Deliver
<1>2. m \in MatchesOf[i] /\ m \in AllMatches
  BY MatchesOfType DEF MemoryInv, UnwrittenFresh, Unwritten
<1>3. \A j \in Invocations : Unwritten(j)' = Unwritten(j)
  BY <1>1 DEF MemoryInv, ControlOK, HandsOK, Unwritten
<1>4. UnwrittenFresh'
  BY <1>1, <1>3 DEF MemoryInv, UnwrittenFresh, memory
<1>5. \A j \in Invocations : m \in unsent'[j] => FALSE
  <2> SUFFICES ASSUME NEW j \in Invocations, m \in unsent'[j] PROVE FALSE
    OBVIOUS
  <2>1. j # i
    BY <1>1 DEF MemoryInv, HandsOK
  <2>2. m \in unsent[j]
    BY <1>1, <2>1 DEF MemoryInv, HandsOK
  <2>3. m \in MatchesOf[j]
    BY <2>2 DEF MemoryInv, UnwrittenFresh, Unwritten
  <2> QED
    BY <1>2, <2>1, <2>3, FanInAssumption
<1>6. HandsOK'
  <2>1. unsent' \in [Invocations -> SUBSET AllMatches] /\ holds' \in [Invocations -> Arrays]
    BY <1>1, <1>2 DEF MemoryInv, HandsOK, Arrays
  <2>2. \A j \in Invocations : unsent'[j] \cap delivered' = {}
    BY <1>1, <1>5 DEF MemoryInv, HandsOK
  <2>3. \A j \in Invocations : InHand(j)' => holds'[j] \in delivered' \cap MatchesOf[j]
    BY <1>1, <1>2 DEF MemoryInv, ControlOK, HandsOK, InHand
  <2> QED
    BY <1>1, <1>2, <2>1, <2>2, <2>3 DEF MemoryInv, HandsOK
<1> QED
  BY <1>1, <1>4, <1>6 DEF MemoryInv, MemoryOK, ArraysOK, Fits, memory

LEMMA ReadSliceMemory ==
    ASSUME MemoryInv, ControlOK', NEW i \in Invocations, ReadSlice(i)
    PROVE  MemoryInv'
<1>1. /\ local' = [local EXCEPT ![i] = slice]
      /\ reader[i] = "read" /\ reader' = [reader EXCEPT ![i] = "store"]
      /\ UNCHANGED <<unsent, holds, slice, arrays, delivered>>
  BY DEF ReadSlice
<1>2. \A j \in Invocations : local'[j] \in {local[j], slice}
  BY <1>1 DEF MemoryInv, MemoryOK
<1>3. \A j \in Invocations : Unwritten(j)' = Unwritten(j) /\ (InHand(j)' <=> InHand(j))
  BY <1>1 DEF MemoryInv, ControlOK, Unwritten, InHand
<1>4. UnwrittenFresh'
  BY <1>1, <1>2, <1>3 DEF MemoryInv, UnwrittenFresh
<1>5. MemoryOK'
  BY <1>1, <1>2 DEF MemoryInv, MemoryOK, Fits
<1> QED
  BY <1>1, <1>3, <1>4, <1>5 DEF MemoryInv, ArraysOK, HandsOK

LEMMA AssignSliceMemory ==
    ASSUME MemoryInv, ControlOK', NEW i \in Invocations, AssignSlice(i)
    PROVE  MemoryInv'
<1>1. /\ slice' = local[i]
      /\ reader[i] = "assign" /\ reader' = [reader EXCEPT ![i] = "receive"]
      /\ holds' = [holds EXCEPT ![i] = None]
      /\ UNCHANGED <<unsent, local, arrays, delivered>>
  BY DEF AssignSlice
<1>2. \A j \in Invocations : Unwritten(j)' = Unwritten(j)
  BY <1>1 DEF MemoryInv, ControlOK, HandsOK, Unwritten
<1>3. UnwrittenFresh'
  BY <1>1, <1>2 DEF MemoryInv, UnwrittenFresh
<1>4. MemoryOK'
  BY <1>1 DEF MemoryInv, MemoryOK, Fits
<1>5. HandsOK'
  BY <1>1 DEF MemoryInv, ControlOK, HandsOK, InHand, Arrays
<1> QED
  BY <1>1, <1>3, <1>4, <1>5 DEF MemoryInv, ArraysOK

\* What a reader's store does: it writes its match behind its slice, in the
\* array of the slice or in that named by the match.
LEMMA StoreWrites ==
    ASSUME MemoryInv, NEW i \in Invocations, StoreElement(i)
    PROVE  \E t \in Arrays, b \in Seq(AllMatches), cap \in Nat :
              /\ arrays' = [arrays EXCEPT ![t] = b]
              /\ local' = [local EXCEPT ![i] = [array |-> t, len |-> local[i].len + 1, cap |-> cap]]
              /\ Written(arrays[local[i].array], local[i].len, holds[i], b)
              /\ local[i].len + 1 <= cap
              /\ \/ t = local[i].array /\ Len(b) >= Len(arrays[t])
                 \/ t = holds[i]
<1> DEFINE s == local[i]
           m == holds[i]
           a == arrays[s.array]
<1>1. reader[i] = "store" /\ m \in AllMatches /\ m \in Arrays
  BY MatchesOfType DEF StoreElement, MemoryInv, HandsOK, InHand, Arrays
<1>2. /\ a \in Seq(AllMatches) /\ s.len \in 0..Len(a) /\ s.len <= s.cap
      /\ s \in Headers /\ s.array \in Arrays /\ s.cap \in Nat
  BY DEF MemoryInv, MemoryOK, Fits, Headers
<1>3. CASE s.len < s.cap
  <2> DEFINE b == Append(SubSeq(a, 1, s.len), m) \o SubSeq(a, s.len + 2, Len(a))
  <2>1. arrays' = [arrays EXCEPT ![s.array] = b] /\ local' = [local EXCEPT ![i].len = s.len + 1]
    BY <1>3 DEF StoreElement
  <2>2. Written(a, s.len, m, b) /\ Len(b) >= Len(a)
    BY <1>1, <1>2, WrittenInPlace
  <2>3. local' = [local EXCEPT ![i] = [array |-> s.array, len |-> s.len + 1, cap |-> s.cap]]
    <3>1. [s EXCEPT !.len = s.len + 1] = [array |-> s.array, len |-> s.len + 1, cap |-> s.cap]
      BY <1>2 DEF Headers
    <3>2. local' = [local EXCEPT ![i] = [s EXCEPT !.len = s.len + 1]]
      BY <2>1
    <3> QED
      BY <3>1, <3>2
  <2>4. b \in Seq(AllMatches)
    BY <2>2 DEF Written
  <2>5. s.len + 1 <= s.cap
    BY <1>2, <1>3
  <2> HIDE DEF b
  <2> QED
    BY <1>2, <2>1, <2>2, <2>3, <2>4, <2>5
<1>4. CASE ~(s.len < s.cap)
  <2> DEFINE b == Append(SubSeq(a, 1, s.len), m)
             cap == IF s.cap = 0 THEN 1 ELSE 2 * s.cap
  <2>1. /\ arrays' = [arrays EXCEPT ![m] = b]
        /\ local' = [local EXCEPT ![i] = [array |-> m, len |-> s.len + 1, cap |-> cap]]
    BY <1>4 DEF StoreElement
  <2>2. Written(a, s.len, m, b)
    BY <1>1, <1>2, WrittenByCopy
  <2>3. b \in Seq(AllMatches)
    BY <2>2 DEF Written
  <2>4. cap \in Nat /\ s.len + 1 <= cap
    BY <1>2, <1>4
  <2> HIDE DEF b, cap
  <2> QED
    BY <1>1, <2>1, <2>2, <2>3, <2>4
<1> QED
  BY <1>3, <1>4

LEMMA StoreElementMemory ==
    ASSUME MemoryInv, ControlOK', NEW i \in Invocations, StoreElement(i)
    PROVE  MemoryInv'
<1> DEFINE n == local[i].len
           m == holds[i]
           a == arrays[local[i].array]
<1>1. PICK t \in Arrays, b \in Seq(AllMatches), cap \in Nat :
        /\ arrays' = [arrays EXCEPT ![t] = b]
        /\ local' = [local EXCEPT ![i] = [array |-> t, len |-> n + 1, cap |-> cap]]
        /\ Written(a, n, m, b)
        /\ n + 1 <= cap
        /\ \/ t = local[i].array /\ Len(b) >= Len(arrays[t])
           \/ t = m
  BY StoreWrites
<1>2. /\ reader[i] = "store" /\ reader' = [reader EXCEPT ![i] = "assign"]
      /\ UNCHANGED <<unsent, holds, slice, delivered>>
  BY DEF StoreElement
<1>3. /\ arrays \in [Arrays -> Seq(AllMatches)] /\ local \in [Invocations -> Headers]
      /\ a \in Seq(AllMatches) /\ n \in 0..Len(a) /\ local[i].array \in Arrays
  BY DEF MemoryInv, MemoryOK, Fits, Headers
<1>4. m \in Unwritten(i) /\ m \in delivered /\ m \in MatchesOf[i]
  BY <1>2 DEF Unwritten, MemoryInv, HandsOK, InHand
<1>5. /\ arrays' \in [Arrays -> Seq(AllMatches)] /\ arrays'[t] = b
      /\ \A u \in Arrays : u # t => arrays'[u] = arrays[u]
  BY <1>1, <1>3
<1>6. /\ local'[i] = [array |-> t, len |-> n + 1, cap |-> cap]
      /\ \A j \in Invocations : j # i => local'[j] = local[j]
  BY <1>1, <1>3
<1>7. /\ \A k \in 1..Len(b) : b[k] = m <=> k = n + 1
      /\ \A k \in 1..Len(b) : k # n + 1 => k \in 1..Len(a) /\ b[k] = a[k]
      /\ Len(b) >= n + 1
  BY <1>1, <1>3, <1>4 DEF Written, MemoryInv, UnwrittenFresh
<1>8. \A h \in Headers : Fits(arrays, h) /\ h.array # m => Fits(arrays', h)
  <2> SUFFICES ASSUME NEW h \in Headers, Fits(arrays, h), h.array # m
               PROVE  h.len <= Len(arrays'[h.array])
    BY DEF Fits
  <2>1. h.array \in Arrays /\ h.len \in Nat /\ h.len <= Len(arrays[h.array])
    BY DEF Fits, Headers
  <2>2. Len(arrays[h.array]) \in Nat /\ Len(b) \in Nat
    BY <1>3, <2>1
  <2>3. CASE h.array = t
    BY <1>1, <1>5, <2>1, <2>2, <2>3
  <2>4. CASE h.array # t
    BY <1>5, <2>1, <2>4
  <2> QED
    BY <2>3, <2>4
<1>9. MemoryOK'
  <2>1. slice \in Headers /\ Fits(arrays, slice) /\ slice.array # m
    BY <1>4 DEF MemoryInv, MemoryOK, UnwrittenFresh
  <2>2. \A j \in Invocations : local[j] \in Headers /\ Fits(arrays, local[j]) /\ local[j].array # m
    BY <1>4 DEF MemoryInv, MemoryOK, UnwrittenFresh
  <2>3. local'[i] \in Headers /\ Fits(arrays', local'[i])
    <3>1. local'[i] \in Headers
      BY <1>3, <1>6 DEF Headers
    <3>2. n + 1 <= cap /\ n + 1 <= Len(arrays'[t])
      BY <1>1, <1>5, <1>7
    <3> QED
      BY <1>6, <3>1, <3>2 DEF Fits
  <2>4. local' \in [Invocations -> Headers]
    BY <1>1, <1>3, <2>3, <1>6
  <2>5. \A j \in Invocations : Fits(arrays', local'[j])
    <3> SUFFICES ASSUME NEW j \in Invocations PROVE Fits(arrays', local'[j])
      OBVIOUS
    <3>1. CASE j = i
      BY <2>3, <3>1
    <3>2. CASE j # i
      BY <1>6, <1>8, <2>2, <3>2
    <3> QED
      BY <3>1, <3>2
  <2> QED
    BY <1>2, <1>5, <1>8, <2>1, <2>4, <2>5 DEF MemoryOK
<1>10. ArraysOK'
  <2>1. /\ \A k \in 1..Len(a) : a[k] \in delivered
        /\ \A j, k \in 1..Len(a) : a[j] = a[k] => j = k
    BY <1>3 DEF MemoryInv, ArraysOK
  <2>2. /\ \A k \in 1..Len(b) : b[k] \in delivered
        /\ \A j, k \in 1..Len(b) : b[j] = b[k] => j = k
    BY <1>4, <1>7, <2>1
  <2> QED
    BY <1>2, <1>5, <2>2 DEF MemoryInv, ArraysOK
<1>11. \A j \in Invocations : Unwritten(j)' \subseteq Unwritten(j) /\ m \notin Unwritten(j)'
  <2> SUFFICES ASSUME NEW j \in Invocations
               PROVE  Unwritten(j)' \subseteq Unwritten(j) /\ m \notin Unwritten(j)'
    OBVIOUS
  <2>1. CASE j = i
    <3>1. Unwritten(j)' = unsent[i]
      BY <1>2, <2>1 DEF MemoryInv, ControlOK, Unwritten
    <3> QED
      BY <1>4, <2>1, <3>1 DEF MemoryInv, HandsOK, Unwritten
  <2>2. CASE j # i
    <3>1. Unwritten(j)' = Unwritten(j)
      BY <1>2, <2>2 DEF MemoryInv, ControlOK, Unwritten
    <3> QED
      BY <1>4, <2>2, <3>1, FanInAssumption DEF MemoryInv, UnwrittenFresh
  <2> QED
    BY <2>1, <2>2
<1>12. UnwrittenFresh'
  <2> SUFFICES ASSUME NEW j \in Invocations, NEW x \in Unwritten(j)'
               PROVE  /\ x \in MatchesOf[j]
                      /\ \A u \in Arrays : \A k \in 1..Len(arrays'[u]) : arrays'[u][k] # x
                      /\ slice.array # x /\ \A l \in Invocations : local'[l].array # x
    BY <1>2 DEF UnwrittenFresh
  <2>1. /\ x # m /\ x \in MatchesOf[j]
        /\ \A u \in Arrays : \A k \in 1..Len(arrays[u]) : arrays[u][k] # x
        /\ slice.array # x /\ \A l \in Invocations : local[l].array # x
    BY <1>11 DEF MemoryInv, UnwrittenFresh
  <2>2. \A k \in 1..Len(b) : b[k] # x
    BY <1>3, <1>7, <2>1
  <2>3. ASSUME NEW u \in Arrays, NEW k \in 1..Len(arrays'[u])
        PROVE  arrays'[u][k] # x
    <3>1. CASE u = t
      BY <1>5, <2>2, <3>1
    <3>2. CASE u # t
      BY <1>5, <2>1, <3>2
    <3> QED
      BY <3>1, <3>2
  <2>4. ASSUME NEW l \in Invocations
        PROVE  local'[l].array # x
    <3>1. CASE l = i
      BY <1>1, <1>6, <2>1, <3>1
    <3>2. CASE l # i
      BY <1>6, <2>1, <3>2
    <3> QED
      BY <3>1, <3>2
  <2> QED
    BY <2>1, <2>3, <2>4
<1>13. HandsOK'
  BY <1>2 DEF MemoryInv, ControlOK, HandsOK, InHand
<1> QED
  BY <1>9, <1>10, <1>12, <1>13 DEF MemoryInv

LEMMA MemoryStep ==
    ASSUME MemoryInv, ControlInv, [Next]_vars
    PROVE  MemoryInv'
<1>1. ControlOK'
  BY ControlStep DEF ControlInv
<1>2. CASE DirectorStep \/ UNCHANGED vars
  <2>1. /\ UNCHANGED <<unsent, holds, memory, delivered>>
        /\ \A i \in Invocations : reader'[i] \in {reader[i], "receive"}
    BY <1>2 DEF DirectorStep, AddToWaitGroup, WaitForReaders, DiscardRequest, HandOver,
                Invoke, vars,
                ControlInv, ControlOK
  <2> QED
    BY <1>1, <2>1, MemoryUntouched DEF InHand
<1>3. ASSUME NEW i \in Invocations, CloseChannel(i) \/ ReaderDone(i)
      PROVE  MemoryInv'
  <2>1. /\ UNCHANGED <<unsent, holds, memory, delivered>>
        /\ \A j \in Invocations : reader'[j] \in {reader[j], "done"}
    BY <1>3 DEF CloseChannel, ReaderDone, ControlInv, ControlOK
  <2> QED
    BY <1>1, <2>1, MemoryUntouched DEF InHand
<1>4. ASSUME NEW i \in Invocations, ReadSlice(i) \/ StoreElement(i) \/ AssignSlice(i)
      PROVE  MemoryInv'
  BY <1>1, <1>4, ReadSliceMemory, StoreElementMemory, AssignSliceMemory
<1>5. ASSUME NEW i \in Invocations, NEW m \in unsent[i], Deliver(i, m)
      PROVE  MemoryInv'
  BY <1>1, <1>5, DeliverMemory
<1> QED
  BY <1>2, <1>3, <1>4, <1>5 DEF Next, Terminated, ReaderStep

LEMMA MemoryIsInvariant == Spec => []MemoryInv
BY MemoryInitially, MemoryStep, ControlIsInvariant, PTL DEF Spec

-----------------------------------------------------------------------------
(* What the director reads.                                                *)

Contents(h) == {arrays[h.array][k] : k \in 1..h.len}

LEMMA CollectedIsContents == MemoryInv => Collected = Contents(slice)
<1> SUFFICES ASSUME MemoryInv PROVE Collected = Contents(slice)
  OBVIOUS
<1> DEFINE a == arrays[slice.array]
           n == slice.len
           c == SubSeq(a, 1, n)
<1>1. a \in Seq(AllMatches) /\ n \in 0..Len(a)
  BY DEF MemoryInv, MemoryOK, Fits, Headers
<1>2. Len(c) = n /\ DOMAIN c = 1..n /\ \A k \in 1..n : c[k] = a[k]
  BY <1>1
<1>3. ToSet(c) = {a[k] : k \in 1..n}
  BY <1>2 DEF ToSet
<1> QED
  BY <1>3 DEF Collected, Contents

\* The readers of Run append to a shared slice without a lock; still the
\* director finds only matches that om-core sent, each once, for any number
\* of invocations and in any interleaving.
THEOREM CollectedWereDelivered == Spec => []CollectedAreDelivered
<1>1. MemoryInv => CollectedAreDelivered
  <2> SUFFICES ASSUME MemoryInv PROVE CollectedAreDelivered
    OBVIOUS
  <2> DEFINE a == arrays[slice.array]
             n == slice.len
             f == [k \in 1..n |-> a[k]]
  <2>1. a \in Seq(AllMatches) /\ n \in 0..Len(a) /\ n \in Nat /\ slice.array \in Arrays
    BY DEF MemoryInv, MemoryOK, Fits, Headers
  <2>2. Collected = {a[k] : k \in 1..n}
    BY CollectedIsContents DEF Contents
  <2>3. \A k \in 1..n : a[k] \in delivered
    BY <2>1 DEF MemoryInv, ArraysOK
  <2>4. \A j, k \in 1..n : a[j] = a[k] => j = k
    BY <2>1 DEF MemoryInv, ArraysOK
  <2>5. f \in Bijection(1..n, Collected)
    BY <2>2, <2>4 DEF Bijection, Injection, Surjection, IsInjective
  <2>6. Cardinality(Collected) = n
    BY <2>1, <2>5, FS_CountingElements DEF ExistsBijection
  <2> QED
    BY <2>2, <2>3, <2>6 DEF CollectedAreDelivered
<1> QED
  BY <1>1, MemoryIsInvariant, PTL

\* The WaitGroup's counter never goes below zero, which would panic, nor
\* above the number of requests, and the shared slice always fits its array.
THEOREM FanInTypeCorrect == Spec => []TypeOK
<1>1. ASSUME ControlInv
      PROVE  wg \in 0..Cardinality(Invocations)
  <2>1. IsFiniteSet(Invocations) /\ Cardinality(Invocations) \in Nat
    BY FanInAssumption, FS_CardinalityType
  <2>2. Started \cap Discarded = {}
    BY <1>1 DEF ControlInv, OneByOne, Started, Discarded
  <2>3. /\ IsFiniteSet(Started \cup Discarded)
        /\ Cardinality(Started \cup Discarded) = Cardinality(Started) + Cardinality(Discarded)
    <3>1. /\ IsFiniteSet(Started \cup Discarded)
          /\ Cardinality(Started \cup Discarded) =
                Cardinality(Started) + Cardinality(Discarded) - Cardinality(Started \cap Discarded)
      BY StartedFinite, DiscardedFinite, FS_Union
    <3>2. Cardinality(Started \cap Discarded) = 0
      BY <2>2, FS_EmptySet
    <3> QED
      BY <3>1, <3>2, StartedFinite, DiscardedFinite
  <2>4. CASE director.at = "send"
    <3>1. PICK i \in Invocations : i \in director.left
      BY <1>1, <2>4 DEF ControlInv, ControlOK, OneByOne
    <3>2. /\ IsFiniteSet(Invocations \ {i})
          /\ Cardinality(Invocations \ {i}) = Cardinality(Invocations) - 1
      BY <2>1, FS_RemoveElement
    <3>3. Started \cup Discarded \subseteq Invocations \ {i}
      BY <1>1, <3>1 DEF Started, Discarded, ControlInv, OneByOne
    <3>4. Cardinality(Started \cup Discarded) <= Cardinality(Invocations) - 1
      BY <3>2, <3>3, FS_Subset
    <3> QED
      BY <1>1, <2>1, <2>3, <2>4, <3>4, StartedFinite, DiscardedFinite DEF ControlInv, CountsReaders
  <2>5. CASE director.at # "send"
    <3>1. Cardinality(Started \cup Discarded) <= Cardinality(Invocations)
      BY <2>1, FS_Subset DEF Started, Discarded
    <3> QED
      BY <1>1, <2>1, <2>3, <2>5, <3>1, StartedFinite, DiscardedFinite DEF ControlInv, CountsReaders
  <2> QED
    BY <2>4, <2>5
<1>2. MemoryInv /\ ControlInv => TypeOK
  <2> SUFFICES ASSUME MemoryInv, ControlInv PROVE TypeOK
    OBVIOUS
  <2>1. /\ slice.array \in AllMatches \cup {None} /\ slice.len \in 0..slice.cap
        /\ slice.len <= Len(arrays[slice.array])
    BY DEF MemoryInv, MemoryOK, Headers, Fits, Arrays
  <2> QED
    BY <1>1, <2>1 DEF ControlInv, ControlOK, TypeOK
<1> QED
  BY <1>2, MemoryIsInvariant, ControlIsInvariant, PTL

-----------------------------------------------------------------------------
(* Readers that take turns.                                                *)

AtAppend(i) == reader[i] \in {"store", "assign"}
Held == {holds[i] : i \in {j \in Invocations : InHand(j)}}

\* As long as no two appends overlapped, the one reader that appends works
\* on the current slice, and only matches in hand are missing from it.
TakingTurns ==
    ~overlapped =>
        /\ \A i, j \in Invocations : AtAppend(i) /\ AtAppend(j) => i = j
        /\ \A i \in Invocations : reader[i] = "store" => local[i] = slice
        /\ \A i \in Invocations :
              reader[i] = "assign" => Contents(local[i]) = Contents(slice) \cup {holds[i]}
        /\ delivered = Contents(slice) \cup Held

TurnsInv == MemoryInv /\ TakingTurns

LEMMA TurnsInitially == Init => TakingTurns
<1> SUFFICES ASSUME Init PROVE TakingTurns
  OBVIOUS
<1>1. Contents(slice) = {} /\ Held = {}
  BY DEF Init, Contents, Empty, Held, InHand
<1> QED
  BY <1>1 DEF Init, TakingTurns, AtAppend

\* Steps that neither append nor take a match in hand.
LEMMA TurnsUntouched ==
    ASSUME TakingTurns, UNCHANGED <<holds, memory, delivered, overlapped>>,
           \A i \in Invocations :
              \/ reader'[i] = reader[i]
              \/ reader[i] \in {"idle", "receive"} /\ reader'[i] \in {"receive", "done"}
    PROVE  TakingTurns'
<1>1. \A i \in Invocations : /\ InHand(i)' <=> InHand(i)
                             /\ AtAppend(i)' <=> AtAppend(i)
                             /\ reader'[i] = "store" <=> reader[i] = "store"
                             /\ reader'[i] = "assign" <=> reader[i] = "assign"
  BY DEF InHand, AtAppend
<1>2. Held' = Held
  BY <1>1 DEF Held
<1>3. slice' = slice /\ local' = local /\ arrays' = arrays
  BY DEF memory
<1>4. Contents(slice)' = Contents(slice)
      /\ \A i \in Invocations : Contents(local[i])' = Contents(local[i])
  BY <1>3 DEF Contents
<1>5. UNCHANGED <<holds, delivered, overlapped>>
  OBVIOUS
<1> SUFFICES ASSUME ~overlapped
             PROVE  TakingTurns'
  BY <1>5 DEF TakingTurns
<1>6. /\ \A i, j \in Invocations : AtAppend(i)' /\ AtAppend(j)' => i = j
      /\ \A i \in Invocations : reader'[i] = "store" => local'[i] = slice'
  BY <1>1, <1>3 DEF TakingTurns
<1>7. ASSUME NEW i \in Invocations, reader'[i] = "assign"
      PROVE  Contents(local[i])' = Contents(slice)' \cup {holds'[i]}
  BY <1>1, <1>4, <1>5, <1>7 DEF TakingTurns
<1>8. delivered' = Contents(slice)' \cup Held'
  BY <1>2, <1>4, <1>5 DEF TakingTurns
<1> QED
  BY <1>6, <1>7, <1>8 DEF TakingTurns

LEMMA DeliverTurns ==
    ASSUME TurnsInv, NEW i \in Invocations, NEW m \in unsent[i], Deliver(i, m)
    PROVE  TakingTurns'
<1>1. /\ holds' = [holds EXCEPT ![i] = m] /\ holds \in [Invocations -> Arrays]
      /\ reader[i] = "receive" /\ reader' = [reader EXCEPT ![i] = "read"]
      /\ reader \in [Invocations -> {"idle", "receive", "read", "store", "assign", "done"}]
      /\ delivered' = delivered \cup {m} /\ UNCHANGED <<slice, local, arrays, overlapped>>
  BY DEF Deliver, TurnsInv, MemoryInv, ControlOK, HandsOK, memory
<1>2. /\ InHand(i)' /\ ~InHand(i) /\ holds'[i] = m
      /\ \A j \in Invocations : j # i => (InHand(j)' <=> InHand(j)) /\ holds'[j] = holds[j]
      /\ \A j \in Invocations : /\ AtAppend(j)' <=> AtAppend(j)
                                /\ reader'[j] = "store" <=> reader[j] = "store"
                                /\ reader'[j] = "assign" <=> reader[j] = "assign"
                                /\ reader[j] = "assign" => j # i
  BY <1>1 DEF InHand, AtAppend
<1>3. Held' = Held \cup {m}
  BY <1>2 DEF Held
<1> SUFFICES ASSUME ~overlapped
             PROVE  TakingTurns'
  BY <1>1 DEF TakingTurns
<1>4. /\ \A j, k \in Invocations : AtAppend(j) /\ AtAppend(k) => j = k
      /\ \A j \in Invocations : reader[j] = "store" => local[j] = slice
      /\ \A j \in Invocations :
            reader[j] = "assign" => Contents(local[j]) = Contents(slice) \cup {holds[j]}
      /\ delivered = Contents(slice) \cup Held
  BY DEF TurnsInv, TakingTurns
<1>5. Contents(slice)' = Contents(slice)
      /\ \A j \in Invocations : Contents(local[j])' = Contents(local[j])
  BY <1>1 DEF Contents
<1>6. delivered' = Contents(slice)' \cup Held'
  BY <1>1, <1>3, <1>4, <1>5
<1>7. ASSUME NEW j \in Invocations, reader'[j] = "assign"
      PROVE  Contents(local[j])' = Contents(slice)' \cup {holds'[j]}
  BY <1>2, <1>4, <1>5, <1>7
<1>8. ASSUME NEW j \in Invocations, reader'[j] = "store"
      PROVE  local'[j] = slice'
  BY <1>1, <1>2, <1>4, <1>8
<1>9. ASSUME NEW j \in Invocations, NEW k \in Invocations, AtAppend(j)', AtAppend(k)'
      PROVE  j = k
  BY <1>2, <1>4, <1>9
<1> QED
  BY <1>6, <1>7, <1>8, <1>9 DEF TakingTurns

LEMMA ReadSliceTurns ==
    ASSUME TurnsInv, NEW i \in Invocations, ReadSlice(i)
    PROVE  TakingTurns'
<1>1. /\ local' = [local EXCEPT ![i] = slice] /\ local \in [Invocations -> Headers]
      /\ reader[i] = "read" /\ reader' = [reader EXCEPT ![i] = "store"]
      /\ reader \in [Invocations -> {"idle", "receive", "read", "store", "assign", "done"}]
      /\ overlapped' = (overlapped \/ Appending # {})
      /\ UNCHANGED <<holds, slice, arrays, delivered>>
  BY DEF ReadSlice, TurnsInv, MemoryInv, MemoryOK, ControlOK
<1> SUFFICES ASSUME ~overlapped'
             PROVE  TakingTurns'
  BY DEF TakingTurns
<1>2. ~overlapped /\ \A j \in Invocations : ~AtAppend(j)
  BY <1>1 DEF Appending, AtAppend
<1>3. /\ reader'[i] = "store" /\ local'[i] = slice
      /\ \A j \in Invocations : j # i => reader'[j] = reader[j] /\ ~AtAppend(j)'
      /\ \A j \in Invocations : InHand(j)' <=> InHand(j)
  BY <1>1, <1>2 DEF InHand, AtAppend
<1>4. Held' = Held
  BY <1>1, <1>3 DEF Held
<1>5. delivered' = Contents(slice)' \cup Held'
  BY <1>1, <1>2, <1>4 DEF TurnsInv, TakingTurns, Contents
<1>6. \A j \in Invocations : AtAppend(j)' => j = i
  BY <1>3
<1>7. \A j \in Invocations : /\ reader'[j] # "assign"
                             /\ reader'[j] = "store" => local'[j] = slice'
  BY <1>1, <1>3, <1>6 DEF AtAppend
<1> QED
  BY <1>5, <1>6, <1>7 DEF TakingTurns

LEMMA AssignSliceTurns ==
    ASSUME TurnsInv, NEW i \in Invocations, AssignSlice(i)
    PROVE  TakingTurns'
<1>1. /\ slice' = local[i]
      /\ reader[i] = "assign" /\ reader' = [reader EXCEPT ![i] = "receive"]
      /\ reader \in [Invocations -> {"idle", "receive", "read", "store", "assign", "done"}]
      /\ holds' = [holds EXCEPT ![i] = None] /\ holds \in [Invocations -> Arrays]
      /\ UNCHANGED <<local, arrays, delivered, overlapped>>
  BY DEF AssignSlice, TurnsInv, MemoryInv, ControlOK, HandsOK
<1> SUFFICES ASSUME ~overlapped
             PROVE  TakingTurns'
  BY <1>1 DEF TakingTurns
<1>2. /\ ~InHand(i)' /\ InHand(i) /\ ~AtAppend(i)' /\ AtAppend(i)
      /\ \A j \in Invocations : j # i =>
            (InHand(j)' <=> InHand(j)) /\ holds'[j] = holds[j] /\ reader'[j] = reader[j]
            /\ ~AtAppend(j) /\ ~AtAppend(j)'
  BY <1>1 DEF InHand, AtAppend, TurnsInv, TakingTurns
<1>3. Held = Held' \cup {holds[i]}
  BY <1>2 DEF Held
<1>4. Contents(slice)' = Contents(slice) \cup {holds[i]}
  <2>1. Contents(slice)' = Contents(local[i])
    BY <1>1 DEF Contents
  <2> QED
    BY <1>1, <2>1 DEF TurnsInv, TakingTurns
<1>5. delivered' = Contents(slice)' \cup Held'
  BY <1>1, <1>3, <1>4 DEF TurnsInv, TakingTurns
<1>6. \A j \in Invocations : reader'[j] \notin {"store", "assign"}
  BY <1>2 DEF AtAppend
<1> QED
  BY <1>2, <1>5, <1>6 DEF TakingTurns

\* The store of a reader whose turn it is leaves the slice's contents alone.
LEMMA StoreElementTurns ==
    ASSUME TurnsInv, NEW i \in Invocations, StoreElement(i)
    PROVE  TakingTurns'
<1> DEFINE n == local[i].len
           m == holds[i]
           a == arrays[local[i].array]
<1>1. PICK t \in Arrays, b \in Seq(AllMatches), cap \in Nat :
        /\ arrays' = [arrays EXCEPT ![t] = b]
        /\ local' = [local EXCEPT ![i] = [array |-> t, len |-> n + 1, cap |-> cap]]
        /\ Written(a, n, m, b)
        /\ \/ t = local[i].array
           \/ t = m
  BY StoreWrites DEF TurnsInv
<1>2. /\ reader[i] = "store" /\ reader' = [reader EXCEPT ![i] = "assign"]
      /\ reader \in [Invocations -> {"idle", "receive", "read", "store", "assign", "done"}]
      /\ UNCHANGED <<holds, slice, delivered, overlapped>>
  BY DEF StoreElement, TurnsInv, MemoryInv, ControlOK
<1> SUFFICES ASSUME ~overlapped
             PROVE  TakingTurns'
  BY <1>2 DEF TakingTurns
<1>3. local[i] = slice /\ slice.array # m
  BY <1>2 DEF TurnsInv, TakingTurns, MemoryInv, UnwrittenFresh, Unwritten
<1>4. /\ arrays \in [Arrays -> Seq(AllMatches)] /\ local \in [Invocations -> Headers]
      /\ n \in Nat /\ slice.len = n /\ slice.array \in Arrays
  BY <1>3 DEF TurnsInv, MemoryInv, MemoryOK, Headers
<1>5. /\ arrays'[t] = b /\ local'[i] = [array |-> t, len |-> n + 1, cap |-> cap]
      /\ t # slice.array => arrays'[slice.array] = a
  BY <1>1, <1>3, <1>4
<1>6. \A k \in 1..n : b[k] = a[k]
  BY <1>1, <1>4 DEF Written
<1>7. b[n + 1] = m
  BY <1>1, <1>4 DEF Written
<1>8. Contents(slice)' = {a[k] : k \in 1..n} /\ Contents(slice) = {a[k] : k \in 1..n}
  <2>1. \A k \in 1..n : arrays'[slice.array][k] = a[k]
    BY <1>1, <1>3, <1>5, <1>6
  <2> QED
    BY <1>2, <1>3, <1>4, <2>1 DEF Contents
<1>9. Contents(local[i])' = {a[k] : k \in 1..n} \cup {m}
  <2>1. Contents(local[i])' = {b[k] : k \in 1..(n + 1)}
    BY <1>5 DEF Contents
  <2>2. 1..(n + 1) = 1..n \cup {n + 1}
    BY <1>4
  <2> QED
    BY <1>6, <1>7, <2>1, <2>2
<1>10. /\ \A j \in Invocations : InHand(j)' <=> InHand(j)
       /\ \A j \in Invocations : AtAppend(j)' <=> AtAppend(j)
       /\ \A j \in Invocations : AtAppend(j) => j = i
       /\ reader'[i] = "assign"
  BY <1>2 DEF InHand, AtAppend, TurnsInv, TakingTurns
<1>11. Held' = Held
  BY <1>2, <1>10 DEF Held
<1>12. \A j \in Invocations : reader'[j] # "store" /\ (reader'[j] = "assign" => j = i)
  BY <1>10 DEF AtAppend
<1>13. delivered' = Contents(slice)' \cup Held'
  BY <1>2, <1>8, <1>11 DEF TurnsInv, TakingTurns
<1>14. Contents(local[i])' = Contents(slice)' \cup {holds'[i]}
  BY <1>2, <1>8, <1>9
<1> QED
  BY <1>10, <1>12, <1>13, <1>14 DEF TakingTurns

LEMMA TurnsStep ==
    ASSUME TurnsInv, ControlInv, [Next]_vars
    PROVE  TurnsInv'
<1>1. MemoryInv' /\ ControlOK
  BY MemoryStep DEF TurnsInv, MemoryInv
<1>2. ASSUME DirectorStep \/ UNCHANGED vars \/ \E i \in Invocations : CloseChannel(i) \/ ReaderDone(i)
      PROVE  TakingTurns'
  <2>1. UNCHANGED <<holds, memory, delivered, overlapped>>
    BY <1>2 DEF DirectorStep, AddToWaitGroup, WaitForReaders, DiscardRequest, HandOver,
                Invoke, vars,
                CloseChannel, ReaderDone
  <2>2. \A i \in Invocations :
              \/ reader'[i] = reader[i]
              \/ reader[i] \in {"idle", "receive"} /\ reader'[i] \in {"receive", "done"}
    BY <1>1, <1>2 DEF DirectorStep, AddToWaitGroup, WaitForReaders, DiscardRequest, HandOver,
                Invoke, vars,
                CloseChannel, ReaderDone, ControlOK, ControlInv, OneByOne
  <2> QED
    BY <2>1, <2>2, TurnsUntouched DEF TurnsInv
<1>3. ASSUME NEW i \in Invocations, ReadSlice(i) \/ StoreElement(i) \/ AssignSlice(i)
      PROVE  TakingTurns'
  BY <1>3, ReadSliceTurns, StoreElementTurns, AssignSliceTurns
<1>4. ASSUME NEW i \in Invocations, NEW m \in unsent[i], Deliver(i, m)
      PROVE  TakingTurns'
  BY <1>4, DeliverTurns
<1> QED
  BY <1>1, <1>2, <1>3, <1>4 DEF Next, Terminated, ReaderStep, TurnsInv

\* The data race in Run is the only way to lose a match: with a lock around
\* the append every delivered match would be among proposedMatches.
THEOREM OnlyOverlapLosesMatches == Spec => []LostOnlyByOverlap
<1>1. Init => TurnsInv
  BY MemoryInitially, TurnsInitially DEF TurnsInv
<1>2. TurnsInv /\ ControlInv => LostOnlyByOverlap
  <2> SUFFICES ASSUME TurnsInv, ControlInv, director.at = "collected", ~overlapped
               PROVE  Collected = delivered
    BY DEF LostOnlyByOverlap
  <2>1. Held = {}
    BY DEF ControlInv, OneByOne, Started, Held, InHand
  <2> QED
    BY <2>1, CollectedIsContents DEF TurnsInv, TakingTurns
<1> QED
  BY <1>1, <1>2, TurnsStep, ControlIsInvariant, PTL DEF Spec

=================================================================================
