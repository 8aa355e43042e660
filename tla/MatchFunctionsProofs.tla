-------------------------- MODULE MatchFunctionsProofs --------------------------
(***************************************************************************)
(* What holds of the matchmaking functions for every number of runs, every *)
(* set of profiles and every split of the tickets into chunks: a run       *)
(* matches all the tickets of its request, each once, and its matches are  *)
(* what its profile asks for unless another run's profile contradicts it.  *)
(***************************************************************************)
EXTENDS MatchFunctions, TLAPS, FiniteSetTheorems, SequenceTheorems

-----------------------------------------------------------------------------
(* The inductive invariant.  All its parts but the types and ParamsInv are *)
(* about the variables of one run: no other run writes them.               *)

AnyTicket == UNION {AllTickets(r) : r \in Runs}
Filling == {"fill", "judge", "backfill", "send"}
Making == {"rosters"} \cup Filling
Steps == Params \cup {"request", "debug", "loop", "done", "failed", "panicked"} \cup Making

Types ==
    /\ request \in [Runs -> {"receiving", "whole", "none"}]
    /\ tickets \in [Runs -> Seq(AnyTicket)]
    /\ profile \in [Runs -> AllProfiles]
    /\ desired \in [Params -> Nat]
    /\ at \in [Runs -> Steps]
    /\ rosters \in [Runs -> Seq(Seq(AnyTicket))]
    /\ tixCount \in [Runs -> Nat]
    /\ DOMAIN unreceived = Runs
    /\ DOMAIN capacity = Runs /\ DOMAIN sent = Runs /\ DOMAIN dropped = Runs

\* Where a run can be, what it has read by then, and what it still has.
ControlInv(r) ==
    /\ unreceived[r] \subseteq Chunks[r]
    /\ ToSet(tickets[r]) \subseteq AllTickets(r)
    /\ request[r] = "receiving" =>
          /\ at[r] = "request" /\ unreceived[r] # {}
          /\ ToSet(tickets[r]) = UNION {ToSet(c) : c \in Chunks[r] \ unreceived[r]}
    /\ request[r] = "none" => tickets[r] = <<>>
    /\ IF r \in DebugRuns THEN at[r] \in {"request", "debug", "done", "panicked"}
                          ELSE at[r] # "debug"
    /\ at[r] \in Making => request[r] = "whole" /\ profile[r] # NoExtensions
    /\ at[r] \in {"rosters", "fill"} => tickets[r] # <<>>
    /\ at[r] \notin Filling \cup {"panicked"} => rosters[r] = <<>> /\ tixCount[r] = 0
    /\ at[r] # "send" => capacity[r] = 0

SentTickets(r) == UNION {MatchTickets(m.rosters) : m \in sent[r]}

\* Stronger than TicketsUsedOnce: the match being made is apart from every
\* match that was sent even if its rosters are the same, as long as they
\* are empty.
OnceInv(r) ==
    /\ IsInjective(tickets[r])
    /\ at[r] \in {"request"} \cup Params => sent[r] = {} /\ dropped[r] = {}
    /\ PlacedOnce(rosters[r])
    /\ \A m \in sent[r] : PlacedOnce(m.rosters)
    /\ \A m, n \in sent[r] :
          m.rosters # n.rosters => MatchTickets(m.rosters) \cap MatchTickets(n.rosters) = {}
    /\ MatchTickets(rosters[r]) \cap (SentTickets(r) \cup dropped[r] \cup ToSet(tickets[r])) = {}
    /\ SentTickets(r) \cap (dropped[r] \cup ToSet(tickets[r])) = {}
    /\ dropped[r] \cap ToSet(tickets[r]) = {}
    /\ request[r] = "whole" =>
          MatchTickets(rosters[r]) \cup SentTickets(r) \cup dropped[r] \cup ToSet(tickets[r])
              = AllTickets(r)

\* The steps before which a run has not written a parameter.
Unwritten == [num |-> {"request", "num"}, len |-> {"request", "num", "len"},
              min |-> {"request", "num", "len", "min"}]

\* What a run has written stays: who writes it again writes the same.
ParamsInv(r) ==
    \A p \in Params :
        Agreed(r, p) /\ request[r] = "whole" /\ at[r] \notin Unwritten[p]
            => desired[p] = profile[r][p]

\* `n` tickets went round the rosters `q` times, and on to roster `rem`.
Rotated(s, n, q, rem) ==
    /\ n = q * Len(s) + rem
    /\ \A i \in DOMAIN s : Len(s[i]) = IF i <= rem THEN q + 1 ELSE q

\* The rosters after `n` tickets, in the middle of a match.
PartlyFilled(s, n, num, len) ==
    \E q \in 0..(len - 1), rem \in 0..(num - 1) : Rotated(s, n, q, rem)

\* The rosters of a match as its profile asks for them.
Shaped(s, num, len, min) ==
    LET lowest == Lowest(s)
    IN  /\ Len(s) = num
        /\ lowest \in Nat /\ lowest <= len
        /\ \A i \in DOMAIN s : Len(s[i]) \in lowest..(lowest + 1) /\ Len(s[i]) <= len
        /\ lowest >= min \/ lowest = len

ShapeInv(r) ==
    /\ Agreed(r, "num") /\ at[r] \in Filling => Len(rosters[r]) = profile[r].num
    /\ AllAgreed(r) /\ at[r] = "done" => Len(tickets[r]) <= profile[r].min * profile[r].num
    /\ Configured(r) =>
          LET p == profile[r]
          IN  /\ at[r] = "rosters" => Len(tickets[r]) > p.min * p.num
              /\ at[r] = "fill" =>
                    /\ tixCount[r] + Len(tickets[r]) > p.min * p.num
                    /\ PartlyFilled(rosters[r], tixCount[r], p.num, p.len)
              /\ at[r] \in {"judge", "backfill", "send"} => Shaped(rosters[r], p.num, p.len, p.min)
              /\ at[r] = "backfill" => Lowest(rosters[r]) < p.len
              /\ at[r] = "send" => capacity[r] = p.len - Lowest(rosters[r])
              /\ \A m \in sent[r] : /\ Shaped(m.rosters, p.num, p.len, p.min)
                                   /\ m.capacity = p.len - Lowest(m.rosters)

FifoInv == \A r \in FifoRuns : OnceInv(r) /\ ParamsInv(r) /\ ShapeInv(r)
ControlHolds == \A r \in Runs : ControlInv(r)
-----------------------------------------------------------------------------
(* Sequences of tickets.                                                   *)

LEMMA ToSetConcat ==
    ASSUME NEW T, NEW a \in Seq(T), NEW b \in Seq(T)
    PROVE  ToSet(a \o b) = ToSet(a) \cup ToSet(b)
<1>1. /\ a \o b \in Seq(T) /\ Len(a \o b) = Len(a) + Len(b)
      /\ \A i \in 1..(Len(a) + Len(b)) : (a \o b)[i] = IF i <= Len(a) THEN a[i] ELSE b[i - Len(a)]
  OBVIOUS
<1>2. DOMAIN a = 1..Len(a) /\ DOMAIN b = 1..Len(b) /\ DOMAIN (a \o b) = 1..(Len(a) + Len(b))
  BY <1>1
<1>3. ToSet(a \o b) \subseteq ToSet(a) \cup ToSet(b)
  BY <1>1, <1>2 DEF ToSet
<1>4. ToSet(a) \subseteq ToSet(a \o b)
  BY <1>1, <1>2 DEF ToSet
<1>5. ASSUME NEW j \in 1..Len(b)
      PROVE  b[j] \in ToSet(a \o b)
  <2>1. Len(a) + j \in 1..(Len(a) + Len(b)) /\ (a \o b)[Len(a) + j] = b[j]
    BY <1>1
  <2> QED
    BY <1>2, <2>1 DEF ToSet
<1> QED
  BY <1>2, <1>3, <1>4, <1>5 DEF ToSet

LEMMA InjectiveConcat ==
    ASSUME NEW T, NEW a \in Seq(T), NEW b \in Seq(T), IsInjective(a), IsInjective(b),
           ToSet(a) \cap ToSet(b) = {}
    PROVE  IsInjective(a \o b)
<1>1. /\ a \o b \in Seq(T) /\ Len(a \o b) = Len(a) + Len(b)
      /\ \A i \in 1..(Len(a) + Len(b)) : (a \o b)[i] = IF i <= Len(a) THEN a[i] ELSE b[i - Len(a)]
  OBVIOUS
<1>2. \A i \in 1..Len(a), j \in 1..Len(b) : a[i] # b[j]
  BY DEF ToSet
<1>3. /\ \A i, j \in 1..Len(a) : a[i] = a[j] => i = j
      /\ \A i, j \in 1..Len(b) : b[i] = b[j] => i = j
  BY DEF IsInjective
<1>4. ASSUME NEW i \in 1..(Len(a) + Len(b)), NEW j \in 1..(Len(a) + Len(b)),
             (a \o b)[i] = (a \o b)[j]
      PROVE  i = j
  <2>1. \A k \in 1..(Len(a) + Len(b)) :
          \/ k \in 1..Len(a) /\ (a \o b)[k] = a[k]
          \/ k - Len(a) \in 1..Len(b) /\ (a \o b)[k] = b[k - Len(a)]
    BY <1>1
  <2>2. CASE i \in 1..Len(a) /\ j \in 1..Len(a)
    BY <1>1, <1>3, <1>4, <2>2
  <2>3. CASE i - Len(a) \in 1..Len(b) /\ j - Len(a) \in 1..Len(b)
    <3>1. (a \o b)[i] = b[i - Len(a)] /\ (a \o b)[j] = b[j - Len(a)]
      BY <1>1, <2>3
    <3>2. i - Len(a) = j - Len(a)
      BY <1>3, <1>4, <2>3, <3>1
    <3> QED
      BY <3>2
  <2> QED
    BY <1>2, <1>4, <2>1, <2>2, <2>3
<1> QED
  BY <1>1, <1>4 DEF IsInjective

\* The ticket at the head of the pool is taken.
LEMMA TakenTicket ==
    ASSUME NEW T, NEW a \in Seq(T), a # <<>>
    PROVE  /\ Tail(a) \in Seq(T) /\ Len(Tail(a)) = Len(a) - 1 /\ Head(a) \in T
           /\ ToSet(a) = {Head(a)} \cup ToSet(Tail(a))
           /\ IsInjective(a) => IsInjective(Tail(a)) /\ Head(a) \notin ToSet(Tail(a))
<1>1. /\ Tail(a) \in Seq(T) /\ Len(Tail(a)) = Len(a) - 1 /\ Head(a) = a[1] /\ Head(a) \in T
      /\ \A i \in 1..(Len(a) - 1) : Tail(a)[i] = a[i + 1]
      /\ Len(a) \in Nat /\ Len(a) >= 1
  OBVIOUS
<1>2. DOMAIN a = 1..Len(a) /\ DOMAIN Tail(a) = 1..(Len(a) - 1)
  BY <1>1
<1>3. ToSet(Tail(a)) \subseteq ToSet(a) /\ Head(a) \in ToSet(a)
  BY <1>1, <1>2 DEF ToSet
<1>4. ASSUME NEW i \in 1..Len(a), i # 1 PROVE a[i] \in ToSet(Tail(a))
  <2>1. i - 1 \in 1..(Len(a) - 1) /\ Tail(a)[i - 1] = a[i]
    BY <1>1, <1>4
  <2> QED
    BY <1>2, <2>1 DEF ToSet
<1>5. ASSUME IsInjective(a) PROVE IsInjective(Tail(a)) /\ Head(a) \notin ToSet(Tail(a))
  BY <1>1, <1>2, <1>5 DEF IsInjective, ToSet
<1> QED
  BY <1>1, <1>2, <1>3, <1>4, <1>5 DEF ToSet

-----------------------------------------------------------------------------
(* The rosters of a match.                                                 *)

\* Place, for any rosters and ticket.
With(s, i, t) == [s EXCEPT ![i] = Append(@, t)]

LEMMA WithTicket ==
    ASSUME NEW T, NEW s \in Seq(Seq(T)), NEW i \in DOMAIN s, NEW t \in T
    PROVE  /\ With(s, i, t) \in Seq(Seq(T)) /\ Len(With(s, i, t)) = Len(s)
           /\ \A j \in DOMAIN s : With(s, i, t)[j] = IF j = i THEN Append(s[i], t) ELSE s[j]
           /\ \A j \in DOMAIN s :
                 Len(With(s, i, t)[j]) = IF j = i THEN Len(s[i]) + 1 ELSE Len(s[j])
<1>1. DOMAIN s = 1..Len(s) /\ Len(s) \in Nat /\ \A j \in DOMAIN s : s[j] \in Seq(T)
  OBVIOUS
<1>2. Append(s[i], t) \in Seq(T) /\ Len(Append(s[i], t)) = Len(s[i]) + 1
  BY <1>1
<1>3. With(s, i, t) = [s EXCEPT ![i] = Append(s[i], t)]
  BY DEF With
<1> QED
  BY <1>1, <1>2, <1>3, ExceptSeq

LEMMA WithTickets ==
    ASSUME NEW T, NEW s \in Seq(Seq(T)), NEW i \in DOMAIN s, NEW t \in T
    PROVE  MatchTickets(With(s, i, t)) = MatchTickets(s) \cup {t}
<1> DEFINE w == With(s, i, t)
<1>1. /\ DOMAIN w = DOMAIN s /\ w[i] = Append(s[i], t)
      /\ \A j \in DOMAIN s : j # i => w[j] = s[j]
  BY WithTicket DEF With
<1> HIDE DEF w
<1>2. ToSet(w[i]) = ToSet(s[i]) \cup {t}
  <2>1. s[i] \in Seq(T) /\ Len(s[i]) \in Nat /\ DOMAIN s[i] = 1..Len(s[i])
    OBVIOUS
  <2>2. /\ DOMAIN w[i] = 1..(Len(s[i]) + 1) /\ w[i][Len(s[i]) + 1] = t
        /\ \A k \in DOMAIN s[i] : w[i][k] = s[i][k]
    BY <1>1, <2>1
  <2>3. DOMAIN w[i] = DOMAIN s[i] \cup {Len(s[i]) + 1}
    BY <2>1, <2>2
  <2>4. \A k \in DOMAIN w[i] : w[i][k] \in ToSet(s[i]) \cup {t}
    BY <2>2, <2>3 DEF ToSet
  <2>5. \A k \in DOMAIN s[i] : s[i][k] \in ToSet(w[i])
    BY <2>2, <2>3 DEF ToSet
  <2>6. t \in ToSet(w[i])
    BY <2>2, <2>3 DEF ToSet
  <2> QED
    BY <2>4, <2>5, <2>6 DEF ToSet
<1>3. \A j \in DOMAIN s : ToSet(w[j]) = ToSet(s[j]) \/ (j = i /\ ToSet(w[j]) = ToSet(s[j]) \cup {t})
  BY <1>1, <1>2
<1>4. MatchTickets(w) \subseteq MatchTickets(s) \cup {t}
  BY <1>1, <1>3 DEF MatchTickets
<1>5. MatchTickets(s) \cup {t} \subseteq MatchTickets(w)
  BY <1>1, <1>2, <1>3 DEF MatchTickets
<1> QED
  BY <1>4, <1>5 DEF w

LEMMA WithPlacedOnce ==
    ASSUME NEW T, NEW s \in Seq(Seq(T)), NEW i \in DOMAIN s, NEW t \in T,
           PlacedOnce(s), t \notin MatchTickets(s)
    PROVE  PlacedOnce(With(s, i, t))
<1> DEFINE w == With(s, i, t)
<1>1. /\ DOMAIN w = DOMAIN s /\ w[i] = Append(s[i], t)
      /\ \A j \in DOMAIN s : j # i => w[j] = s[j]
  BY WithTicket DEF With
<1>2. s[i] \in Seq(T) /\ Len(s[i]) \in Nat /\ DOMAIN s[i] = 1..Len(s[i])
  OBVIOUS
<1>3. /\ DOMAIN w[i] = 1..(Len(s[i]) + 1) /\ w[i][Len(s[i]) + 1] = t
      /\ \A k \in DOMAIN s[i] : w[i][k] = s[i][k]
  BY <1>1, <1>2
<1>4. \A j \in DOMAIN s : \A k \in DOMAIN s[j] : s[j][k] # t
  BY DEF MatchTickets, ToSet
<1> HIDE DEF w
<1>5. ASSUME NEW j \in DOMAIN w, NEW k \in DOMAIN w[j]
      PROVE  \/ k \in DOMAIN s[j] /\ w[j][k] = s[j][k] /\ w[j][k] # t
             \/ j = i /\ k = Len(s[i]) + 1 /\ w[j][k] = t
  <2>1. CASE j = i
    <3>1. k \in DOMAIN s[i] \/ k = Len(s[i]) + 1
      BY <1>2, <1>3, <2>1
    <3> QED
      BY <1>3, <1>4, <2>1, <3>1
  <2>2. CASE j # i
    BY <1>1, <1>4, <2>2
  <2> QED
    BY <2>1, <2>2
<1>6. ASSUME NEW j \in DOMAIN w, NEW l \in DOMAIN w,
             NEW k \in DOMAIN w[j], NEW n \in DOMAIN w[l], w[j][k] = w[l][n]
      PROVE  j = l /\ k = n
  <2>1. j \in DOMAIN s /\ l \in DOMAIN s
    BY <1>1
  <2> QED
    BY <1>5, <1>6, <2>1 DEF PlacedOnce
<1> QED
  BY <1>6 DEF PlacedOnce, w

LEMMA EmptyRosters ==
    ASSUME NEW T, NEW n \in Nat
    PROVE  LET s == [i \in 1..n |-> <<>>]
           IN  /\ s \in Seq(Seq(T)) /\ Len(s) = n /\ \A i \in DOMAIN s : Len(s[i]) = 0
               /\ MatchTickets(s) = {} /\ PlacedOnce(s)
<1> DEFINE s == [i \in 1..n |-> <<>>]
<1>1. s \in [1..n -> Seq(T)]
  OBVIOUS
<1>2. s \in Seq(Seq(T)) /\ Len(s) = n /\ DOMAIN s = 1..n /\ \A i \in 1..n : s[i] = <<>>
  BY <1>1
<1> HIDE DEF s
<1>3. MatchTickets(s) = {} /\ PlacedOnce(s)
  BY <1>2 DEF MatchTickets, PlacedOnce, ToSet
<1> QED
  BY <1>2, <1>3 DEF s

LEMMA NoRosters == MatchTickets(<<>>) = {} /\ PlacedOnce(<<>>)
BY DEF MatchTickets, PlacedOnce
-----------------------------------------------------------------------------
(* Filling the rosters in turn.                                            *)

LEMMA TimesMonotonic ==
    ASSUME NEW a \in Nat, NEW b \in Nat, NEW c \in Nat, a <= b
    PROVE  a * c \in Nat /\ b * c \in Nat /\ a * c <= b * c
<1>1. PICK d \in Nat : b = a + d
  BY b - a \in Nat, b = a + (b - a)
<1>2. a * c \in Nat /\ d * c \in Nat /\ (a + d) * c = a * c + d * c
  OBVIOUS
<1> QED
  BY <1>1, <1>2

LEMMA DivMod ==
    ASSUME NEW num \in Nat \ {0}, NEW q \in Nat, NEW rem \in 0..(num - 1)
    PROVE  (q * num + rem) % num = rem
<1> DEFINE n == q * num + rem
           d == n \div num
           m == n % num
<1>1. q * num \in Nat /\ n \in Nat
  OBVIOUS
<1> HIDE DEF n
<1>2. d \in Nat /\ m \in 0..(num - 1) /\ n = d * num + m
  BY <1>1
<1>3. n = q * num + rem
  BY DEF n
<1> HIDE DEF d, m
<1>4. ASSUME NEW x \in Nat, NEW y \in Nat, NEW u \in 0..(num - 1), NEW v \in 0..(num - 1),
             x * num + u = y * num + v
      PROVE  ~(x + 1 <= y)
  <2>1. ASSUME x + 1 <= y PROVE FALSE
    <3>1. (x + 1) * num <= y * num /\ y * num \in Nat
      BY <2>1, TimesMonotonic
    <3>2. (x + 1) * num = x * num + num /\ x * num \in Nat
      OBVIOUS
    <3> QED
      BY <1>4, <3>1, <3>2
  <2> QED
    BY <2>1
<1>5. d = q
  BY <1>2, <1>3, <1>4
<1>6. m = rem
  BY <1>1, <1>2, <1>3, <1>5
<1> QED
  BY <1>6 DEF m, n

LEMMA LowestIs ==
    ASSUME NEW T, NEW s \in Seq(Seq(T)), NEW n \in Nat,
           \A i \in DOMAIN s : n <= Len(s[i]), NEW j \in DOMAIN s, Len(s[j]) = n
    PROVE  Lowest(s) = n
<1>1. \A i \in DOMAIN s : Len(s[i]) \in Nat
  OBVIOUS
<1> DEFINE lens == {Len(s[i]) : i \in DOMAIN s}
<1>2. n \in lens
  OBVIOUS
<1>3. \A k \in lens : (\A i \in DOMAIN s : k <= Len(s[i])) => k = n
  BY <1>1
<1> QED
  BY <1>2, <1>3 DEF Lowest

\* The emptiest roster is one that the rotation has still to come to.
LEMMA LowestRotated ==
    ASSUME NEW T, NEW s \in Seq(Seq(T)), NEW n \in Nat, NEW q \in Nat,
           NEW rem \in 0..(Len(s) - 1), Rotated(s, n, q, rem)
    PROVE  Lowest(s) = q
<1>1. Len(s) \in Nat /\ DOMAIN s = 1..Len(s) /\ rem \in Nat /\ rem + 1 \in DOMAIN s
  OBVIOUS
<1>2. \A i \in DOMAIN s : i \in Nat /\ Len(s[i]) = IF i <= rem THEN q + 1 ELSE q
  BY <1>1 DEF Rotated
<1>3. Len(s[rem + 1]) = q /\ \A i \in DOMAIN s : q <= Len(s[i])
  <2>1. ~(rem + 1 <= rem)
    BY <1>1
  <2> QED
    BY <1>1, <1>2, <2>1
<1> QED
  BY <1>1, <1>3, LowestIs

\* One ticket more goes to the roster whose turn it is, and the rotation
\* goes on or starts anew.
LEMMA RotateOnce ==
    ASSUME NEW T, NEW s \in Seq(Seq(T)), NEW n \in Nat, NEW q \in Nat,
           NEW rem \in 0..(Len(s) - 1), Rotated(s, n, q, rem), NEW t \in T
    PROVE  LET turn == (n % Len(s)) + 1
               more == With(s, turn, t)
           IN  /\ turn \in DOMAIN s /\ turn = rem + 1
               /\ more \in Seq(Seq(T)) /\ Len(more) = Len(s)
               /\ IF turn < Len(s) THEN Rotated(more, n + 1, q, rem + 1)
                                   ELSE Rotated(more, n + 1, q + 1, 0)
<1>1. /\ Len(s) \in Nat \ {0} /\ DOMAIN s = 1..Len(s)
      /\ \A j \in DOMAIN s : j \in Nat /\ 1 <= j /\ j <= Len(s)
  OBVIOUS
<1>2. n = q * Len(s) + rem /\ \A i \in DOMAIN s : Len(s[i]) = IF i <= rem THEN q + 1 ELSE q
  BY DEF Rotated
<1>3. n % Len(s) = rem
  BY <1>1, <1>2, DivMod
<1>4. PICK turn \in DOMAIN s : turn = rem + 1 /\ turn \in Nat /\ ~(turn <= rem)
  BY <1>1
<1>5. Len(s[turn]) = q
  BY <1>2, <1>4
<1>6. PICK more : more = With(s, turn, t)
  OBVIOUS
<1>7. /\ more \in Seq(Seq(T)) /\ Len(more) = Len(s)
      /\ \A j \in DOMAIN s : Len(more[j]) = IF j = turn THEN Len(s[turn]) + 1 ELSE Len(s[j])
  BY <1>6, WithTicket
<1>8. DOMAIN more = DOMAIN s
  BY <1>1, <1>7
<1>9. ASSUME NEW j \in DOMAIN s
      PROVE  Len(more[j]) = IF j <= rem + 1 THEN q + 1 ELSE q
  <2>1. j \in Nat /\ rem \in Nat
    BY <1>1
  <2>2. CASE j = turn
    <3>1. Len(more[j]) = Len(s[turn]) + 1
      BY <1>7, <2>2
    <3>2. j <= rem + 1
      BY <1>4, <2>1, <2>2
    <3> QED
      BY <1>5, <3>1, <3>2
  <2>3. CASE j # turn
    <3>1. j <= rem <=> j <= rem + 1
      BY <1>4, <2>1, <2>3
    <3> QED
      BY <1>2, <1>7, <2>3, <3>1
  <2> QED
    BY <2>2, <2>3
<1>10. q * Len(s) \in Nat /\ (q + 1) * Len(s) = q * Len(s) + Len(s)
  BY <1>1
<1>11. CASE turn < Len(s)
  <2>1. n + 1 = q * Len(s) + (rem + 1)
    BY <1>2, <1>10
  <2>2. Rotated(more, n + 1, q, rem + 1)
    BY <1>7, <1>8, <1>9, <2>1 DEF Rotated
  <2> QED
    BY <1>3, <1>4, <1>6, <1>7, <1>11, <2>2
<1>12. CASE turn = Len(s)
  <2>1. n + 1 = (q + 1) * Len(s) + 0
    BY <1>1, <1>2, <1>4, <1>10, <1>12
  <2>2. \A j \in DOMAIN s : Len(more[j]) = q + 1 /\ ~(j <= 0)
    BY <1>1, <1>4, <1>9, <1>12
  <2>3. Rotated(more, n + 1, q + 1, 0)
    BY <1>7, <1>8, <2>1, <2>2 DEF Rotated
  <2> QED
    BY <1>1, <1>3, <1>4, <1>6, <1>7, <1>12, <2>3
<1>13. turn < Len(s) \/ turn = Len(s)
  BY <1>1
<1> QED
  BY <1>11, <1>12, <1>13

\* More tickets than all rosters need at least: once round for each of them.
LEMMA EnoughRounds ==
    ASSUME NEW q \in Nat, NEW num \in Nat \ {0}, NEW min \in Nat, NEW rem \in 0..(num - 1),
           q * num + rem > min * num
    PROVE  q >= min
<1>1. SUFFICES ASSUME q + 1 <= min PROVE FALSE
  OBVIOUS
<1>2. (q + 1) * num <= min * num /\ (q + 1) * num = q * num + num /\ q * num \in Nat
  BY <1>1, TimesMonotonic
<1> QED
  BY <1>2
-----------------------------------------------------------------------------
(* What one run leaves alone, and the types.                               *)

Apart(q) ==
    /\ unreceived'[q] = unreceived[q] /\ request'[q] = request[q] /\ tickets'[q] = tickets[q]
    /\ at'[q] = at[q] /\ rosters'[q] = rosters[q] /\ tixCount'[q] = tixCount[q]
    /\ capacity'[q] = capacity[q] /\ sent'[q] = sent[q] /\ dropped'[q] = dropped[q]

LEMMA OthersApart ==
    ASSUME Types, NEW r \in Runs, RunStep(r)
    PROVE  /\ profile' = profile
           /\ \A q \in Runs \ {r} : Apart(q)
<1> USE DEF Types
<1>1. CASE Receive(r)
  BY <1>1 DEF Receive, StreamBreaks, ReceiveChunk, Apart, matchVars
<1>2. CASE Begin(r)
  BY <1>2 DEF Begin, Go, Apart, matchVars, requestVars
<1>3. CASE Debug(r)
  BY <1>3 DEF Debug, Go, Apart, requestVars
<1>4. CASE SetParam(r)
  BY <1>4 DEF SetParam, Go, Apart, matchVars, requestVars
<1>5. CASE StartMatch(r)
  BY <1>5 DEF StartMatch, Go, Apart, matchVars, requestVars
<1>6. CASE MakeRosters(r)
  BY <1>6 DEF MakeRosters, Go, Apart, requestVars
<1>7. CASE Fill(r)
  BY <1>7 DEF Fill, Place, TakeTicket, RepeatOrEnd, Go, Apart
<1>8. CASE Judge(r)
  BY <1>8 DEF Judge, Go, Apart, matchVars, requestVars
<1>9. CASE AttachBackfill(r)
  BY <1>9 DEF AttachBackfill, Go, Apart, requestVars
<1>10. CASE SkipMatch(r)
  BY <1>10 DEF SkipMatch, Drop, Leave, Go, Apart, requestVars
<1>11. CASE SendMatch(r)
  BY <1>11 DEF SendMatch, Leave, Go, Apart, requestVars
<1>12. CASE SendFails(r)
  BY <1>12 DEF SendFails, Drop, Leave, Go, Apart, requestVars
<1> QED
  BY <1>1, <1>2, <1>3, <1>4, <1>5, <1>6, <1>7, <1>8, <1>9, <1>10, <1>11, <1>12 DEF RunStep

LEMMA ChunkTickets ==
    ASSUME NEW r \in Runs, NEW c \in Chunks[r]
    PROVE  /\ c \in Seq(AllTickets(r)) /\ c \in Seq(AnyTicket)
           /\ ToSet(c) \subseteq AllTickets(r) /\ AllTickets(r) \subseteq AnyTicket
<1>1. ToSet(c) \subseteq AllTickets(r) /\ AllTickets(r) \subseteq AnyTicket
  BY DEF AllTickets, AnyTicket
<1>2. c \in Seq(ToSet(c))
  BY ChunksAssumption
<1> QED
  BY <1>1, <1>2

\* Fill, when the rosters have the one whose turn it is.
Filled(r, i) ==
    /\ at[r] = "fill" /\ i = Turn(r) /\ desired.num # 0 /\ i \in DOMAIN rosters[r]
    /\ rosters' = [rosters EXCEPT ![r] = With(rosters[r], i, Head(tickets[r]))]
    /\ tickets' = [tickets EXCEPT ![r] = Tail(tickets[r])]
    /\ RepeatOrEnd(r)
    /\ UNCHANGED <<unreceived, request, profile, desired, capacity, sent, dropped>>

FillPanics(r) ==
    /\ at[r] = "fill" /\ ~HasTurn(r)
    /\ Go(r, "panicked")
    /\ UNCHANGED <<requestVars, profile, desired, matchVars>>

LEMMA FillSplit ==
    ASSUME Types, ControlHolds, NEW r \in Runs, Fill(r)
    PROVE  \/ FillPanics(r)
           \/ /\ Filled(r, Turn(r))
              /\ tickets[r] \in Seq(AnyTicket) /\ tickets[r] # <<>>
              /\ rosters[r] \in Seq(Seq(AnyTicket)) /\ Head(tickets[r]) \in AnyTicket
<1>1. /\ tickets[r] \in Seq(AnyTicket) /\ tickets[r] # <<>>
      /\ rosters[r] \in Seq(Seq(AnyTicket)) /\ Head(tickets[r]) \in AnyTicket
  BY TakenTicket DEF Types, ControlHolds, ControlInv, Fill
<1>2. CASE ~HasTurn(r)
  BY <1>2 DEF Fill, FillPanics, requestVars, matchVars
<1>3. CASE HasTurn(r)
  <2>1. Place(r, Turn(r)) <=>
          rosters' = [rosters EXCEPT ![r] = With(rosters[r], Turn(r), Head(tickets[r]))]
    BY DEF Place, With
  <2>2. TakeTicket(r) <=> tickets' = [tickets EXCEPT ![r] = Tail(tickets[r])]
    BY DEF TakeTicket
  <2> QED
    BY <1>1, <1>3, <2>1, <2>2 DEF Fill, Filled, HasTurn
<1> QED
  BY <1>2, <1>3

LEMMA TypesStep ==
    ASSUME Types, ControlHolds, NEW r \in Runs, RunStep(r)
    PROVE  Types'
<1> USE DEF Types
<1>1. CASE Receive(r)
  <2>1. CASE StreamBreaks(r)
    <3>1. <<>> \in Seq(AnyTicket)
      OBVIOUS
    <3> QED
      BY <1>1, <2>1, <3>1 DEF Receive, StreamBreaks, matchVars
  <2>2. ASSUME NEW c \in unreceived[r], ReceiveChunk(r, c) PROVE Types'
    <3>1. c \in Seq(AnyTicket) /\ tickets[r] \in Seq(AnyTicket)
      BY <2>2, ChunkTickets DEF ControlHolds, ControlInv
    <3>2. tickets[r] \o c \in Seq(AnyTicket)
      BY <3>1
    <3>3. /\ request' \in [Runs -> {"receiving", "whole", "none"}]
          /\ tickets' \in [Runs -> Seq(AnyTicket)]
          /\ DOMAIN unreceived' = Runs
      BY <2>2, <3>2 DEF ReceiveChunk
    <3> QED
      BY <1>1, <3>3 DEF Receive, matchVars
  <2> QED
    BY <1>1, <2>1, <2>2 DEF Receive
<1>2. CASE Begin(r)
  BY <1>2 DEF Begin, Go, matchVars, requestVars, Steps, Params
<1>3. CASE Debug(r)
  BY <1>3 DEF Debug, Go, requestVars, Steps
<1>4. CASE SetParam(r)
  <2>1. at[r] \in Params /\ After[at[r]] \in Steps
    BY <1>4 DEF SetParam, After, Params, Steps, Making
  <2>2. Extension(r, at[r]) # Unset => Extension(r, at[r]) \in Nat
    BY <2>1, MatchFunctionsAssumption DEF Extension
  <2>3. desired' \in [Params -> Nat]
    BY <1>4, <2>1, <2>2 DEF SetParam
  <2> QED
    BY <1>4, <2>1, <2>3 DEF SetParam, Go, matchVars, requestVars
<1>5. CASE StartMatch(r)
  <2>1. at' \in [Runs -> Steps]
    BY <1>5 DEF StartMatch, Go, Steps, Making
  <2> QED
    BY <1>5, <2>1 DEF StartMatch, matchVars, requestVars
<1>6. CASE MakeRosters(r)
  <2>1. desired.num \in Nat
    BY DEF Params
  <2>2. [i \in 1..desired.num |-> <<>>] \in Seq(Seq(AnyTicket))
    BY <2>1, EmptyRosters
  <2>3. rosters' \in [Runs -> Seq(Seq(AnyTicket))] /\ tixCount' \in [Runs -> Nat] /\ at' \in [Runs -> Steps]
    BY <1>6, <2>2 DEF MakeRosters, Go, Steps, Making, Filling
  <2> QED
    BY <1>6, <2>3 DEF MakeRosters, requestVars
<1>7. CASE Fill(r)
  <2>1. CASE FillPanics(r)
    BY <2>1 DEF FillPanics, Go, Steps, requestVars, matchVars
  <2>2. CASE ~FillPanics(r)
    <3>1. /\ Filled(r, Turn(r)) /\ Turn(r) \in DOMAIN rosters[r]
          /\ tickets[r] \in Seq(AnyTicket) /\ tickets[r] # <<>>
          /\ rosters[r] \in Seq(Seq(AnyTicket)) /\ Head(tickets[r]) \in AnyTicket
      BY <1>7, <2>2, FillSplit DEF Filled
    <3>2. With(rosters[r], Turn(r), Head(tickets[r])) \in Seq(Seq(AnyTicket))
      BY <3>1, WithTicket
    <3>3. Tail(tickets[r]) \in Seq(AnyTicket)
      BY <3>1
    <3>4. tixCount' \in [Runs -> Nat] /\ at' \in [Runs -> Steps]
      BY <3>1 DEF Filled, RepeatOrEnd, Go, Steps, Making, Filling
    <3>5. rosters' \in [Runs -> Seq(Seq(AnyTicket))] /\ tickets' \in [Runs -> Seq(AnyTicket)]
      BY <3>1, <3>2, <3>3 DEF Filled
    <3> QED
      BY <3>1, <3>4, <3>5 DEF Filled
  <2> QED
    BY <2>1, <2>2
<1>8. CASE Judge(r)
  BY <1>8 DEF Judge, Go, matchVars, requestVars, Steps, Making, Filling
<1>9. CASE AttachBackfill(r)
  BY <1>9 DEF AttachBackfill, Go, requestVars, Steps, Making, Filling
<1> DEFINE Left == Leave(r) /\ at' \in [Runs -> Steps] /\ UNCHANGED <<requestVars, profile, desired>>
<1>10. Left => /\ rosters' \in [Runs -> Seq(Seq(AnyTicket))] /\ tixCount' \in [Runs -> Nat]
               /\ DOMAIN capacity' = Runs
  BY DEF Leave
<1>11. CASE SkipMatch(r)
  <2>1. Left /\ DOMAIN dropped' = Runs /\ sent' = sent
    BY <1>11 DEF SkipMatch, Go, Drop, Steps
  <2> QED
    BY <1>10, <2>1 DEF requestVars
<1>12. CASE SendMatch(r)
  <2>1. Left /\ DOMAIN sent' = Runs /\ dropped' = dropped
    BY <1>12 DEF SendMatch, Go, Steps
  <2> QED
    BY <1>10, <2>1 DEF requestVars
<1>13. CASE SendFails(r)
  <2>1. Left /\ DOMAIN dropped' = Runs /\ sent' = sent
    BY <1>13 DEF SendFails, Go, Drop, Steps
  <2> QED
    BY <1>10, <2>1 DEF requestVars
<1> QED
  BY <1>1, <1>2, <1>3, <1>4, <1>5, <1>6, <1>7, <1>8, <1>9, <1>11, <1>12, <1>13 DEF RunStep
-----------------------------------------------------------------------------
(* Control: where a run is, and what it still has.                         *)

\* The count tells the last chunk, in whatever order they arrive.
LEMMA LastChunk ==
    ASSUME NEW r \in Runs, NEW c \in unreceived[r], unreceived[r] \subseteq Chunks[r]
    PROVE  ChunkNumber(r) = Cardinality(Chunks[r]) <=> unreceived[r] \ {c} = {}
<1> DEFINE before == Chunks[r] \ unreceived[r]
           now == Chunks[r] \ (unreceived[r] \ {c})
<1>1. IsFiniteSet(Chunks[r])
  BY ChunksAssumption
<1>2. now = before \cup {c} /\ c \notin before /\ now \subseteq Chunks[r]
  OBVIOUS
<1>3. IsFiniteSet(before) /\ Cardinality(now) = Cardinality(before) + 1
  BY <1>1, <1>2, FS_Subset, FS_AddElement
<1>4. Cardinality(now) = Cardinality(Chunks[r]) <=> now = Chunks[r]
  BY <1>1, <1>2, FS_Subset
<1>5. now = Chunks[r] <=> unreceived[r] \ {c} = {}
  OBVIOUS
<1> QED
  BY <1>3, <1>4, <1>5 DEF ChunkNumber

\* What the chunks received bring along.
LEMMA ReceivedTickets ==
    ASSUME Types, NEW r \in Runs, ControlInv(r), NEW c \in unreceived[r], ReceiveChunk(r, c)
    PROVE  /\ unreceived'[r] = unreceived[r] \ {c} /\ tickets'[r] = tickets[r] \o c
           /\ tickets[r] \in Seq(AnyTicket) /\ c \in Seq(AnyTicket) /\ c \in Chunks[r]
           /\ ToSet(tickets'[r]) = ToSet(tickets[r]) \cup ToSet(c)
           /\ ToSet(tickets'[r]) = UNION {ToSet(e) : e \in Chunks[r] \ unreceived'[r]}
           /\ request'[r] = IF unreceived'[r] = {} THEN "whole" ELSE "receiving"
<1>1. /\ unreceived'[r] = unreceived[r] \ {c} /\ tickets'[r] = tickets[r] \o c
      /\ request[r] = "receiving"
      /\ request'[r] = IF ChunkNumber(r) = Cardinality(Chunks[r]) THEN "whole" ELSE "receiving"
  BY DEF ReceiveChunk, Types
<1>2. /\ c \in Chunks[r] /\ unreceived[r] \subseteq Chunks[r]
      /\ ToSet(tickets[r]) = UNION {ToSet(e) : e \in Chunks[r] \ unreceived[r]}
  BY <1>1 DEF ControlInv
<1>3. tickets[r] \in Seq(AnyTicket) /\ c \in Seq(AnyTicket)
  BY <1>2, ChunkTickets DEF Types
<1>4. ToSet(tickets'[r]) = ToSet(tickets[r]) \cup ToSet(c)
  BY <1>1, <1>3, ToSetConcat
<1>5. Chunks[r] \ unreceived'[r] = (Chunks[r] \ unreceived[r]) \cup {c}
  BY <1>1, <1>2
<1>6. ToSet(tickets'[r]) = UNION {ToSet(e) : e \in Chunks[r] \ unreceived'[r]}
  BY <1>2, <1>4, <1>5
<1> QED
  BY <1>1, <1>2, <1>3, <1>4, <1>6, LastChunk

LEMMA EmptyTickets == ToSet(<<>>) = {} /\ IsInjective(<<>>)
BY DEF ToSet, IsInjective

\* A step after the request is complete leaves the tickets or takes one.
LEMMA ControlOwnStep ==
    ASSUME Types, ControlHolds, NEW r \in Runs, RunStep(r)
    PROVE  ControlInv(r)'
<1>1. profile' = profile
  BY OthersApart
<1>2. ControlInv(r)
  BY DEF ControlHolds
<1>3. CASE Receive(r)
  <2>1. at' = at /\ rosters' = rosters /\ tixCount' = tixCount /\ capacity' = capacity /\ at[r] = "request"
    BY <1>3 DEF Receive, matchVars
  <2>2. CASE StreamBreaks(r)
    <3>1. request'[r] = "none" /\ tickets'[r] = <<>> /\ unreceived'[r] = unreceived[r]
      BY <2>2 DEF StreamBreaks, Types
    <3> QED
      BY <1>1, <1>2, <2>1, <3>1, EmptyTickets DEF ControlInv, Making, Filling
  <2>3. ASSUME NEW c \in unreceived[r], ReceiveChunk(r, c) PROVE ControlInv(r)'
    <3>1. /\ unreceived'[r] = unreceived[r] \ {c}
          /\ ToSet(tickets'[r]) = ToSet(tickets[r]) \cup ToSet(c) /\ c \in Chunks[r]
          /\ ToSet(tickets'[r]) = UNION {ToSet(e) : e \in Chunks[r] \ unreceived'[r]}
          /\ request'[r] = IF unreceived'[r] = {} THEN "whole" ELSE "receiving"
      BY <1>2, <2>3, ReceivedTickets
    <3>2. ToSet(tickets'[r]) \subseteq AllTickets(r)
      BY <1>2, <3>1, ChunkTickets DEF ControlInv
    <3> QED
      BY <1>1, <1>2, <2>1, <3>1, <3>2 DEF ControlInv, Making, Filling
  <2> QED
    BY <1>3, <2>2, <2>3 DEF Receive
<1>4. CASE Begin(r)
  <2>1. /\ at'[r] = IF r \in DebugRuns THEN "debug" ELSE "num"
        /\ at[r] = "request" /\ request[r] # "receiving" /\ UNCHANGED <<requestVars, matchVars>>
    BY <1>4 DEF Begin, Go, Types
  <2> QED
    BY <1>1, <1>2, <2>1 DEF ControlInv, requestVars, matchVars, Making, Filling
<1>5. CASE Debug(r)
  <2>1. /\ at'[r] \in {"panicked", "done"} /\ at[r] = "debug"
        /\ UNCHANGED <<requestVars, rosters, tixCount, capacity>>
    BY <1>5 DEF Debug, Go, Types
  <2> QED
    BY <1>1, <1>2, <2>1 DEF ControlInv, requestVars, Making, Filling
<1>6. CASE SetParam(r)
  <2>1. at'[r] \in {"len", "min", "loop"} /\ at[r] \in Params /\ UNCHANGED <<requestVars, matchVars>>
    BY <1>6 DEF SetParam, Go, Types, After, Params
  <2> QED
    BY <1>1, <1>2, <2>1 DEF ControlInv, requestVars, matchVars, Making, Filling, Params
<1>7. CASE StartMatch(r)
  <2>1. /\ at'[r] \in {"panicked", "rosters", "done"} /\ at[r] = "loop"
        /\ at'[r] = "rosters" => profile[r] # NoExtensions
        /\ at'[r] = "rosters" => tickets[r] # <<>>
        /\ UNCHANGED <<requestVars, matchVars>>
    <3>1. CASE Len(tickets[r]) > desired.min * desired.num
      <4>1. desired.min * desired.num \in Nat
        BY DEF Types, Params
      <4>2. tickets[r] # <<>>
        BY <1>7, <3>1, <4>1
      <4> QED
        BY <1>7, <3>1, <4>2 DEF StartMatch, Go, Types
    <3>2. CASE ~(Len(tickets[r]) > desired.min * desired.num)
      BY <1>7, <3>2 DEF StartMatch, Go, Types
    <3> QED
      BY <3>1, <3>2
  <2>2. request[r] # "none" \/ at'[r] # "rosters"
    BY <1>2, <2>1 DEF ControlInv
  <2> QED
    BY <1>1, <1>2, <2>1, <2>2 DEF ControlInv, requestVars, matchVars, Making, Filling, Types
<1>8. CASE MakeRosters(r)
  <2>1. /\ at'[r] = "fill" /\ at[r] = "rosters" /\ capacity'[r] = 0
        /\ UNCHANGED requestVars
    BY <1>8 DEF MakeRosters, Go, Types
  <2> QED
    BY <1>1, <1>2, <2>1 DEF ControlInv, requestVars, Making, Filling
<1>9. CASE Fill(r)
  <2>1. CASE FillPanics(r)
    <3>1. at'[r] = "panicked" /\ at[r] = "fill" /\ UNCHANGED <<requestVars, matchVars>>
      BY <2>1 DEF FillPanics, Go, Types
    <3> QED
      BY <1>1, <1>2, <3>1 DEF ControlInv, requestVars, matchVars, Making, Filling
  <2>2. CASE ~FillPanics(r)
    <3>1. /\ Filled(r, Turn(r)) /\ tickets[r] \in Seq(AnyTicket) /\ tickets[r] # <<>>
      BY <1>9, <2>2, FillSplit
    <3>2. /\ at[r] = "fill" /\ tickets'[r] = Tail(tickets[r]) /\ capacity' = capacity
          /\ at'[r] = "judge" \/ (at'[r] = "fill" /\ tickets'[r] # <<>>)
          /\ UNCHANGED <<request, unreceived>>
      BY <3>1 DEF Filled, RepeatOrEnd, Go, Types
    <3>3. ToSet(tickets'[r]) \subseteq ToSet(tickets[r])
      BY <3>1, <3>2, TakenTicket
    <3> QED
      BY <1>1, <1>2, <3>2, <3>3 DEF ControlInv, Making, Filling
  <2> QED
    BY <2>1, <2>2
<1>10. CASE Judge(r)
  <2>1. at'[r] \in {"backfill", "send"} /\ at[r] = "judge" /\ UNCHANGED <<requestVars, matchVars>>
    BY <1>10 DEF Judge, Go, Types
  <2> QED
    BY <1>1, <1>2, <2>1 DEF ControlInv, requestVars, matchVars, Making, Filling
<1>11. CASE AttachBackfill(r)
  <2>1. /\ at'[r] = "send" /\ at[r] = "backfill" /\ UNCHANGED <<requestVars, rosters, tixCount>>
    BY <1>11 DEF AttachBackfill, Go, Types
  <2> QED
    BY <1>1, <1>2, <2>1 DEF ControlInv, requestVars, Making, Filling
<1>12. ASSUME Leave(r), at[r] \in Filling, at'[r] \in {"loop", "failed"}, UNCHANGED requestVars
       PROVE  ControlInv(r)'
  <2>1. rosters'[r] = <<>> /\ tixCount'[r] = 0 /\ capacity'[r] = 0
    BY <1>12 DEF Leave, Types
  <2> QED
    BY <1>1, <1>2, <1>12, <2>1 DEF ControlInv, requestVars, Making, Filling
<1>13. CASE SkipMatch(r) \/ SendMatch(r) \/ SendFails(r)
  <2>1. /\ Leave(r) /\ at[r] \in Filling /\ UNCHANGED requestVars
        /\ Go(r, "loop") \/ Go(r, "failed")
    BY <1>13 DEF SkipMatch, SendMatch, SendFails, Filling
  <2>2. at'[r] \in {"loop", "failed"}
    BY <2>1 DEF Go, Types
  <2> QED
    BY <1>12, <2>1, <2>2
<1> QED
  BY <1>3, <1>4, <1>5, <1>6, <1>7, <1>8, <1>9, <1>10, <1>11, <1>13 DEF RunStep

LEMMA ControlStep ==
    ASSUME Types, ControlHolds, NEW r \in Runs, RunStep(r)
    PROVE  ControlHolds'
<1>1. ASSUME NEW q \in Runs \ {r} PROVE ControlInv(q)'
  <2>1. Apart(q) /\ profile' = profile /\ ControlInv(q)
    BY OthersApart DEF ControlHolds
  <2> QED
    BY <2>1 DEF ControlInv, Apart
<1> QED
  BY <1>1, ControlOwnStep DEF ControlHolds
-----------------------------------------------------------------------------
(* Every ticket is used once.                                              *)

\* The step takes nothing out of the run's pool, its match or what it made.
LEMMA OnceUntouched ==
    ASSUME NEW r \in Runs, OnceInv(r),
           UNCHANGED <<request[r], tickets[r], rosters[r], sent[r], dropped[r]>>,
           at'[r] \in {"request"} \cup Params => at[r] \in {"request"} \cup Params
    PROVE  OnceInv(r)'
BY DEF OnceInv, SentTickets

LEMMA OnceReceive ==
    ASSUME Types, NEW r \in FifoRuns, ControlInv(r), OnceInv(r), Receive(r)
    PROVE  OnceInv(r)'
<1>1. /\ r \in Runs /\ at[r] = "request" /\ at' = at
      /\ rosters' = rosters /\ sent' = sent /\ dropped' = dropped
  BY DEF Receive, matchVars, FifoRuns
<1>2. rosters[r] = <<>> /\ sent[r] = {} /\ dropped[r] = {} /\ SentTickets(r) = {}
  BY <1>1 DEF ControlInv, OnceInv, SentTickets, Filling
<1>3. MatchTickets(rosters[r]) = {} /\ PlacedOnce(rosters[r])
  BY <1>2, NoRosters
<1>4. SentTickets(r)' = {}
  BY <1>1, <1>2 DEF SentTickets
<1>5. CASE StreamBreaks(r)
  <2>1. request'[r] = "none" /\ tickets'[r] = <<>>
    BY <1>1, <1>5 DEF StreamBreaks, Types
  <2> QED
    BY <1>1, <1>2, <1>3, <1>4, <2>1, EmptyTickets DEF OnceInv
<1>6. ASSUME NEW c \in unreceived[r], ReceiveChunk(r, c) PROVE OnceInv(r)'
  <2>1. /\ tickets'[r] = tickets[r] \o c /\ c \in Chunks[r]
        /\ tickets[r] \in Seq(AnyTicket) /\ c \in Seq(AnyTicket)
        /\ ToSet(tickets'[r]) = UNION {ToSet(e) : e \in Chunks[r] \ unreceived'[r]}
        /\ request'[r] = IF unreceived'[r] = {} THEN "whole" ELSE "receiving"
    BY <1>1, <1>6, ReceivedTickets
  <2>2. ToSet(tickets[r]) = UNION {ToSet(e) : e \in Chunks[r] \ unreceived[r]}
    BY <1>6 DEF ReceiveChunk, ControlInv
  <2>3. ToSet(tickets[r]) \cap ToSet(c) = {} /\ IsInjective(c)
    <3>1. IsInjective(c) /\ \A e \in Chunks[r] : e # c => ToSet(e) \cap ToSet(c) = {}
      BY <2>1, TicketsSentOnce
    <3>2. \A e \in Chunks[r] \ unreceived[r] : ToSet(e) \cap ToSet(c) = {}
      BY <1>6, <3>1
    <3> QED
      BY <2>2, <3>1, <3>2
  <2>4. IsInjective(tickets[r])
    BY DEF OnceInv
  <2>5. IsInjective(tickets'[r])
    BY <2>1, <2>3, <2>4, InjectiveConcat
  <2>6. request'[r] = "whole" => ToSet(tickets'[r]) = AllTickets(r)
    BY <2>1 DEF AllTickets
  <2> QED
    BY <1>1, <1>2, <1>3, <1>4, <2>5, <2>6 DEF OnceInv
<1> QED
  BY <1>5, <1>6 DEF Receive

LEMMA OnceFill ==
    ASSUME Types, ControlHolds, NEW r \in FifoRuns, OnceInv(r), Fill(r)
    PROVE  OnceInv(r)'
<1>1. r \in Runs /\ at[r] = "fill"
  BY DEF FifoRuns, Fill
<1>2. CASE FillPanics(r)
  <2>1. UNCHANGED <<request[r], tickets[r], rosters[r], sent[r], dropped[r]>> /\ at'[r] = "panicked"
    BY <1>1, <1>2 DEF FillPanics, Go, Types, requestVars, matchVars
  <2> QED
    BY <1>1, <2>1, OnceUntouched DEF Params
<1>3. CASE ~FillPanics(r)
  <2> DEFINE i == Turn(r)
             t == Head(tickets[r])
             s == rosters[r]
  <2>1. /\ Filled(r, i) /\ tickets[r] \in Seq(AnyTicket) /\ tickets[r] # <<>>
        /\ s \in Seq(Seq(AnyTicket)) /\ t \in AnyTicket
    BY <1>1, <1>3, FillSplit
  <2>2. i \in DOMAIN s /\ rosters'[r] = With(s, i, t) /\ tickets'[r] = Tail(tickets[r])
    BY <1>1, <2>1 DEF Filled, Types
  <2>3. at'[r] \in {"fill", "judge"} /\ request' = request /\ sent' = sent /\ dropped' = dropped
    BY <1>1, <2>1 DEF Filled, RepeatOrEnd, Go, Types
  <2> HIDE DEF i, t
  <2>4. /\ ToSet(tickets[r]) = {t} \cup ToSet(tickets'[r])
        /\ t \notin ToSet(tickets'[r]) /\ IsInjective(tickets'[r])
    BY <2>1, <2>2, TakenTicket DEF OnceInv, t
  <2>5. MatchTickets(rosters'[r]) = MatchTickets(rosters[r]) \cup {t}
    BY <2>1, <2>2, WithTickets
  <2>6. t \notin MatchTickets(rosters[r]) /\ PlacedOnce(rosters[r])
    BY <2>4 DEF OnceInv
  <2>7. PlacedOnce(rosters'[r])
    BY <2>1, <2>2, <2>6, WithPlacedOnce
  <2>8. SentTickets(r)' = SentTickets(r)
    BY <2>3 DEF SentTickets
  <2> QED
    BY <2>3, <2>4, <2>5, <2>7, <2>8 DEF OnceInv, Params
<1> QED
  BY <1>2, <1>3

\* The match is gone: sent, or with its tickets among the dropped ones.
LEMMA OnceLeave ==
    ASSUME NEW r \in Runs, OnceInv(r),
           rosters'[r] = <<>>, at'[r] \in {"loop", "failed"},
           UNCHANGED <<request[r], tickets[r]>>,
           \/ sent'[r] = sent[r] /\ dropped'[r] = dropped[r] \cup MatchTickets(rosters[r])
           \/ /\ sent'[r] = sent[r] \cup {[rosters |-> rosters[r], capacity |-> capacity[r]]}
              /\ dropped'[r] = dropped[r]
    PROVE  OnceInv(r)'
<1> DEFINE made == MatchTickets(rosters[r])
           new == [rosters |-> rosters[r], capacity |-> capacity[r]]
<1>1. MatchTickets(rosters'[r]) = {} /\ PlacedOnce(rosters'[r])
  BY NoRosters
<1>2. CASE sent'[r] = sent[r] /\ dropped'[r] = dropped[r] \cup made
  <2>1. SentTickets(r)' = SentTickets(r)
    BY <1>2 DEF SentTickets
  <2> QED
    BY <1>1, <1>2, <2>1 DEF OnceInv, Params
<1>3. CASE sent'[r] = sent[r] \cup {new} /\ dropped'[r] = dropped[r]
  <2>1. new.rosters = rosters[r]
    OBVIOUS
  <2> HIDE DEF new
  <2>2. SentTickets(r)' = SentTickets(r) \cup made
    BY <1>3, <2>1 DEF SentTickets
  <2>3. \A m \in sent[r] : MatchTickets(m.rosters) \subseteq SentTickets(r)
    BY DEF SentTickets
  <2>4. made \cap SentTickets(r) = {}
    BY DEF OnceInv
  <2>5. \A m, n \in sent'[r] :
           m.rosters # n.rosters => MatchTickets(m.rosters) \cap MatchTickets(n.rosters) = {}
    <3>1. \A m \in sent[r] : MatchTickets(m.rosters) \cap MatchTickets(new.rosters) = {}
      BY <2>1, <2>3, <2>4
    <3>2. \A m, n \in sent[r] :
             m.rosters # n.rosters => MatchTickets(m.rosters) \cap MatchTickets(n.rosters) = {}
      BY DEF OnceInv
    <3> QED
      BY <1>3, <3>1, <3>2
  <2>6. \A m \in sent'[r] : PlacedOnce(m.rosters)
    BY <1>3, <2>1 DEF OnceInv
  <2> QED
    BY <1>1, <1>3, <2>2, <2>5, <2>6 DEF OnceInv, Params
<1> QED
  BY <1>2, <1>3

LEMMA OnceStep ==
    ASSUME Types, ControlHolds, NEW r \in FifoRuns, OnceInv(r), RunStep(r)
    PROVE  OnceInv(r)'
<1>1. r \in Runs /\ r \notin DebugRuns /\ ControlInv(r)
  BY DEF FifoRuns, ControlHolds
<1>2. CASE Begin(r) \/ SetParam(r) \/ StartMatch(r) \/ Judge(r) \/ AttachBackfill(r)
  <2>1. UNCHANGED <<request, tickets, rosters, sent, dropped>>
    BY <1>2 DEF Begin, SetParam, StartMatch, Judge, AttachBackfill, requestVars, matchVars
  <2>2. at'[r] \in {"request"} \cup Params => at[r] \in {"request"} \cup Params
    BY <1>1, <1>2 DEF Begin, SetParam, StartMatch, Judge, AttachBackfill, Go, Types, Params
  <2> QED
    BY <1>1, <2>1, <2>2, OnceUntouched
<1>3. CASE MakeRosters(r)
  <2>1. /\ rosters'[r] = [i \in 1..desired.num |-> <<>>] /\ desired.num \in Nat
        /\ at[r] = "rosters" /\ at'[r] = "fill" /\ UNCHANGED <<request, tickets, sent, dropped>>
    BY <1>1, <1>3 DEF MakeRosters, Go, Types, Params, requestVars
  <2>2. MatchTickets(rosters'[r]) = {} /\ PlacedOnce(rosters'[r])
    BY <2>1, EmptyRosters
  <2>3. rosters[r] = <<>>
    BY <1>1, <2>1 DEF ControlInv, Filling
  <2>4. MatchTickets(rosters[r]) = {} /\ SentTickets(r)' = SentTickets(r)
    BY <2>1, <2>3, NoRosters DEF SentTickets
  <2> QED
    BY <2>1, <2>2, <2>4 DEF OnceInv, Params
<1>4. CASE SkipMatch(r) \/ SendFails(r)
  <2>1. /\ rosters'[r] = <<>> /\ at'[r] \in {"loop", "failed"} /\ UNCHANGED <<request, tickets, sent>>
        /\ dropped'[r] = dropped[r] \cup MatchTickets(rosters[r])
    BY <1>1, <1>4 DEF SkipMatch, SendFails, Leave, Drop, Go, Types, requestVars
  <2> QED
    BY <1>1, <2>1, OnceLeave
<1>5. CASE SendMatch(r)
  <2>1. /\ rosters'[r] = <<>> /\ at'[r] \in {"loop", "failed"} /\ UNCHANGED <<request, tickets, dropped>>
        /\ sent'[r] = sent[r] \cup {[rosters |-> rosters[r], capacity |-> capacity[r]]}
    BY <1>1, <1>5 DEF SendMatch, Leave, Go, Types, requestVars
  <2> QED
    BY <1>1, <2>1, OnceLeave
<1>6. ~Debug(r)
  BY <1>1 DEF Debug, ControlInv
<1> QED
  BY <1>1, <1>2, <1>3, <1>4, <1>5, <1>6, OnceReceive, OnceFill DEF RunStep
-----------------------------------------------------------------------------
(* The shared parameters.                                                  *)

LEMMA AgreedParam ==
    ASSUME Types, NEW r \in FifoRuns, NEW p \in Params, Agreed(r, p)
    PROVE  profile[r][p] \in Nat /\ profile[r] # NoExtensions /\ profile[r][p] # Unset
BY MatchFunctionsAssumption DEF Types, Agreed, FifoRuns

\* What a step writes to a parameter is what the profiles agreed on.
LEMMA WrittenValue ==
    ASSUME Types, ControlHolds, NEW r \in FifoRuns, NEW q \in Runs, NEW p \in Params,
           Agreed(r, p), RunStep(q), desired'[p] # desired[p]
    PROVE  desired'[p] = profile[r][p]
<1>1. SetParam(q)
  BY DEF RunStep, Receive, Begin, Debug, StartMatch, MakeRosters, Fill, Judge, AttachBackfill,
         SkipMatch, SendMatch, SendFails
<1>2. at[q] \in Params /\ q \in FifoRuns
  BY <1>1 DEF SetParam, ControlHolds, ControlInv, FifoRuns, Params
<1>3. /\ at[q] = p /\ Extension(q, p) # Unset /\ desired'[p] = Extension(q, p)
  BY <1>1, <1>2 DEF SetParam, Types
<1>4. profile[q] # NoExtensions /\ desired'[p] = profile[q][p] /\ profile[q][p] # Unset
  BY <1>3 DEF Extension
<1> QED
  BY <1>2, <1>4 DEF Agreed

LEMMA ParamsStep ==
    ASSUME Types, ControlHolds, NEW r \in FifoRuns, NEW q \in Runs, ParamsInv(r), RunStep(q)
    PROVE  ParamsInv(r)'
<1>1. profile' = profile /\ r \in Runs
  BY OthersApart DEF FifoRuns
<1>2. SUFFICES ASSUME NEW p \in Params, Agreed(r, p),
                      request'[r] = "whole", at'[r] \notin Unwritten[p]
               PROVE  desired'[p] = profile[r][p]
  BY <1>1 DEF ParamsInv, Agreed
<1>3. CASE request[r] = "whole" /\ at[r] \notin Unwritten[p]
  <2>1. desired[p] = profile[r][p]
    BY <1>2, <1>3 DEF ParamsInv
  <2> QED
    BY <1>2, <2>1, WrittenValue
<1>4. CASE ~(request[r] = "whole" /\ at[r] \notin Unwritten[p])
  <2>1. q = r
    BY <1>1, <1>2, <1>4, OthersApart DEF Apart
  <2>2. ControlInv(r)
    BY <1>1 DEF ControlHolds
  <2>3. SetParam(r) \/ (at'[r] \in {"request", "num"} \/
                        (request'[r] = request[r] /\ at[r] \notin Params \cup {"request"}))
    BY <1>1, <2>1 DEF RunStep, Receive, Begin, Debug, StartMatch, MakeRosters, Fill, Judge,
         AttachBackfill, SkipMatch, SendMatch, SendFails, Go, Types, requestVars, Params,
         FifoRuns
  <2>4. Unwritten[p] \subseteq Params \cup {"request"} /\ {"request", "num"} \subseteq Unwritten[p]
    BY DEF Unwritten, Params
  <2>5. SetParam(r) /\ request'[r] = request[r]
    BY <1>2, <1>4, <2>3, <2>4 DEF SetParam, requestVars
  <2>6. at[r] \in Unwritten[p] /\ at[r] \in Params /\ at'[r] = After[at[r]]
    BY <1>1, <1>2, <1>4, <2>5 DEF SetParam, Go, Types
  <2>7. at[r] = p
    BY <1>2, <2>6 DEF Unwritten, After, Params
  <2>8. Extension(r, p) = profile[r][p] /\ profile[r][p] # Unset
    BY <1>2, <2>5 DEF Extension, Agreed
  <2> QED
    BY <2>5, <2>7, <2>8 DEF SetParam, Types
<1> QED
  BY <1>3, <1>4

\* After the parameters a run finds in them what its profile says.
LEMMA AgreedDesired ==
    ASSUME Types, NEW r \in FifoRuns, ParamsInv(r), ControlInv(r),
           at[r] \in Making \/ (at[r] = "loop" /\ request[r] = "whole"),
           NEW p \in Params, Agreed(r, p)
    PROVE  desired[p] = profile[r][p] /\ desired[p] \in Nat
<1>1. request[r] = "whole" /\ at[r] \notin Unwritten[p]
  BY DEF ControlInv, Unwritten, Params, Making, Filling
<1> QED
  BY <1>1, AgreedParam DEF ParamsInv

\* A run that panicked had no extensions, other runs' rosters, or none.
LEMMA PanicStep ==
    ASSUME Types, ControlHolds, NEW r \in Runs, RunStep(r), at'[r] = "panicked",
           r \in FifoRuns => ParamsInv(r) /\ ShapeInv(r)
    PROVE  \/ profile[r] = NoExtensions
           \/ r \in DebugRuns /\ request[r] = "none" /\ request'[r] = "none"
           \/ r \in FifoRuns /\ (~Agreed(r, "num") \/ profile[r].num = 0)
<1>1. at[r] # "panicked" /\ ControlInv(r)
  BY DEF RunStep, Alive, ControlHolds
<1>2. Debug(r) \/ StartMatch(r) \/ Fill(r)
  BY <1>1 DEF RunStep, Receive, Begin, SetParam, MakeRosters, Judge, AttachBackfill,
       SkipMatch, SendMatch, SendFails, Go, Types, After, Params
<1>3. CASE Debug(r)
  BY <1>1, <1>3 DEF Debug, Go, Types, ControlInv, FifoRuns, requestVars
<1>4. CASE StartMatch(r)
  BY <1>4 DEF StartMatch, Go, Types
<1>5. CASE Fill(r)
  <2>1. r \in FifoRuns /\ at[r] = "fill"
    BY <1>1, <1>5 DEF Fill, ControlInv, FifoRuns
  <2>2. ~HasTurn(r)
    BY <1>1, <1>5, <2>1 DEF Fill, RepeatOrEnd, Go, Types
  <2>3. SUFFICES ASSUME Agreed(r, "num"), profile[r].num # 0 PROVE FALSE
    BY <2>1
  <2>4. Len(rosters[r]) = desired.num /\ desired.num \in Nat \ {0}
    BY <1>1, <2>1, <2>3, AgreedDesired DEF ShapeInv, Filling, Making, Params
  <2>5. Turn(r) \in 1..desired.num
    <3>1. PICK n \in Nat, num \in Nat \ {0} : n = tixCount[r] /\ num = desired.num
      BY <2>4 DEF Types
    <3>2. (n % num) + 1 \in 1..num
      OBVIOUS
    <3> QED
      BY <3>1, <3>2 DEF Turn
  <2>6. DOMAIN rosters[r] = 1..Len(rosters[r])
    BY DEF Types
  <2> QED
    BY <2>2, <2>4, <2>5, <2>6 DEF HasTurn
<1> QED
  BY <1>2, <1>3, <1>4, <1>5
-----------------------------------------------------------------------------
(* Every match has the shape its profile asks for.                         *)

\* One ticket more, and the match is full, can go on, or ends with what
\* every roster needs at least.
LEMMA OneMore ==
    ASSUME NEW T, NEW s \in Seq(Seq(T)), NEW n \in Nat, NEW t \in T,
           NEW len \in Nat \ {0}, NEW min \in Nat, PartlyFilled(s, n, Len(s), len)
    PROVE  LET more == With(s, (n % Len(s)) + 1, t)
               full == Lowest(more) >= len
           IN  /\ Len(more) = Len(s)
               /\ full => Shaped(more, Len(s), len, min)
               /\ ~full => PartlyFilled(more, n + 1, Len(s), len)
               /\ ~full /\ n + 1 > min * Len(s) => Shaped(more, Len(s), len, min)
<1>1. PICK q \in 0..(len - 1), rem \in 0..(Len(s) - 1) : Rotated(s, n, q, rem)
  BY DEF PartlyFilled
<1>2. PICK turn : turn = (n % Len(s)) + 1
  OBVIOUS
<1>3. PICK more : more = With(s, turn, t)
  OBVIOUS
<1>4. q \in Nat /\ rem \in Nat /\ q + 1 <= len /\ rem + 1 <= Len(s)
  BY <1>1
<1>5. /\ turn \in DOMAIN s /\ turn = rem + 1
      /\ more \in Seq(Seq(T)) /\ Len(more) = Len(s)
      /\ IF turn < Len(s) THEN Rotated(more, n + 1, q, rem + 1)
                          ELSE Rotated(more, n + 1, q + 1, 0)
  BY <1>1, <1>2, <1>3, <1>4, RotateOnce
<1>6. /\ more \in Seq(Seq(T)) /\ Len(more) = Len(s)
      /\ DOMAIN more = 1..Len(s) /\ \A i \in DOMAIN more : i \in Nat /\ i >= 1
  BY <1>5
<1>7. CASE turn < Len(s)
  <2>1. Rotated(more, n + 1, q, rem + 1) /\ rem + 1 \in 0..(Len(s) - 1)
    BY <1>4, <1>5, <1>7
  <2> DEFINE onward == rem + 1
  <2>2. Lowest(more) = q /\ ~(Lowest(more) >= len)
    <3>1. onward \in 0..(Len(more) - 1) /\ n + 1 \in Nat /\ Rotated(more, n + 1, q, onward)
      BY <1>6, <2>1
    <3> HIDE DEF onward
    <3>2. Lowest(more) = q
      BY <1>4, <1>6, <3>1, LowestRotated
    <3> QED
      BY <1>4, <3>2
  <2>3. PartlyFilled(more, n + 1, Len(s), len)
    BY <1>1, <2>1 DEF PartlyFilled
  <2>4. ASSUME n + 1 > min * Len(s) PROVE Shaped(more, Len(s), len, min)
    <3>1. n + 1 = q * Len(s) + (rem + 1)
      BY <1>6, <2>1 DEF Rotated
    <3>2. q >= min
      <4>1. PICK next \in 0..(Len(s) - 1) : next = rem + 1
        BY <2>1
      <4>2. Len(s) \in Nat \ {0} /\ q * Len(s) + next > min * Len(s)
        BY <1>4, <2>4, <3>1, <4>1
      <4> QED
        BY <1>4, <4>2, EnoughRounds
    <3>3. \A i \in DOMAIN more : Len(more[i]) \in q..(q + 1) /\ Len(more[i]) <= len
      <4>1. \A i \in DOMAIN more : Len(more[i]) \in {q, q + 1}
        BY <2>1 DEF Rotated
      <4> QED
        BY <1>4, <4>1
    <3>4. q <= len
      BY <1>4
    <3> QED
      BY <1>4, <1>6, <2>2, <3>2, <3>3, <3>4 DEF Shaped
  <2> QED
    BY <1>2, <1>3, <1>6, <2>2, <2>3, <2>4
<1>8. CASE turn = Len(s)
  <2>1. Rotated(more, n + 1, q + 1, 0) /\ 0 \in 0..(Len(s) - 1)
    BY <1>4, <1>5, <1>8
  <2>2. Lowest(more) = q + 1
    BY <1>4, <1>6, <2>1, LowestRotated
  <2>3. \A i \in DOMAIN more : Len(more[i]) = q + 1
    BY <1>6, <2>1 DEF Rotated
  <2>4. ASSUME q + 1 >= min \/ q + 1 = len PROVE Shaped(more, Len(s), len, min)
    BY <1>4, <1>6, <2>2, <2>3, <2>4 DEF Shaped
  <2>5. ASSUME n + 1 > min * Len(s) PROVE Shaped(more, Len(s), len, min)
    <3>1. n + 1 = (q + 1) * Len(s) + 0
      BY <1>6, <2>1 DEF Rotated
    <3>2. PICK round \in Nat : round = q + 1
      BY <1>4
    <3>3. round >= min
      BY <2>1, <2>5, <3>1, <3>2, EnoughRounds
    <3> QED
      BY <2>4, <3>2, <3>3
  <2>6. Lowest(more) >= len => Shaped(more, Len(s), len, min)
    BY <1>4, <2>2, <2>4
  <2>7. ~(Lowest(more) >= len) => PartlyFilled(more, n + 1, Len(s), len)
    <3>1. ~(Lowest(more) >= len) => q + 1 \in 0..(len - 1)
      BY <1>4, <2>2
    <3> QED
      BY <2>1, <3>1 DEF PartlyFilled
  <2> QED
    BY <1>2, <1>3, <1>6, <2>5, <2>6, <2>7
<1>9. turn < Len(s) \/ turn = Len(s)
  BY <1>4, <1>5
<1> QED
  BY <1>7, <1>8, <1>9

\* The parameters, and the profile that agrees with them.
LEMMA AllAgreedDesired ==
    ASSUME Types, NEW r \in FifoRuns, ParamsInv(r), ControlInv(r), AllAgreed(r),
           at[r] \in Making \/ (at[r] = "loop" /\ request[r] = "whole")
    PROVE  /\ desired.num = profile[r].num /\ desired.len = profile[r].len
           /\ desired.min = profile[r].min
BY AgreedDesired DEF AllAgreed, Params

LEMMA ShapeFill ==
    ASSUME Types, ControlHolds, NEW r \in FifoRuns, ParamsInv(r), ShapeInv(r), Fill(r)
    PROVE  ShapeInv(r)'
<1>1. r \in Runs /\ at[r] = "fill" /\ ControlInv(r)
  BY DEF FifoRuns, Fill, ControlHolds
<1>2. profile' = profile
  BY DEF Fill
<1>3. CASE FillPanics(r)
  BY <1>1, <1>2, <1>3 DEF FillPanics, Go, Types, ShapeInv, Filling, matchVars, Agreed, AllAgreed,
     Configured
<1>4. CASE ~FillPanics(r)
  <2> DEFINE i == Turn(r)
             t == Head(tickets[r])
             s == rosters[r]
             n == tixCount[r]
             p == profile[r]
             full == Lowest(rosters'[r]) >= desired.len
  <2>1. /\ Filled(r, i) /\ tickets[r] \in Seq(AnyTicket) /\ tickets[r] # <<>>
        /\ s \in Seq(Seq(AnyTicket)) /\ t \in AnyTicket /\ n \in Nat
    BY <1>1, <1>4, FillSplit DEF Types
  <2>2. /\ i \in DOMAIN s /\ rosters'[r] = With(s, i, t)
        /\ tickets'[r] = Tail(tickets[r]) /\ Len(tickets'[r]) = Len(tickets[r]) - 1
        /\ UNCHANGED <<capacity, sent>>
    BY <1>1, <2>1, TakenTicket DEF Filled, Types
  <2>3. /\ tixCount'[r] = IF full THEN n ELSE n + 1
        /\ at'[r] = IF full \/ tickets'[r] = <<>> THEN "judge" ELSE "fill"
    BY <1>1, <2>1 DEF Filled, RepeatOrEnd, Go, Types
  <2>4. Len(rosters'[r]) = Len(s)
    <3> HIDE DEF i, t, s
    <3> QED
      BY <2>1, <2>2, WithTicket
  <2>5. Agreed(r, "num") => Len(rosters'[r]) = p.num
    BY <1>1, <2>4 DEF ShapeInv, Filling
  <2>6. ASSUME Configured(r)
        PROVE  /\ ~full => tixCount'[r] + Len(tickets'[r]) > p.min * p.num
               /\ ~full => PartlyFilled(rosters'[r], tixCount'[r], p.num, p.len)
               /\ at'[r] = "judge" => Shaped(rosters'[r], p.num, p.len, p.min)
    <3>1. p.num \in Nat \ {0} /\ p.len \in Nat \ {0} /\ p.min \in Nat
      BY <2>6, AgreedParam DEF Configured, AllAgreed, Params
    <3>2. desired.num = p.num /\ desired.len = p.len
      BY <1>1, <2>6, AllAgreedDesired DEF Making, Filling, Configured
    <3>3. n + Len(tickets[r]) > p.min * p.num /\ PartlyFilled(s, n, p.num, p.len)
      BY <1>1, <2>6 DEF ShapeInv
    <3>4. Len(s) = p.num
      BY <2>4, <2>5, <2>6 DEF Configured, AllAgreed, Params
    <3>5. i = (n % p.num) + 1
      BY <3>2 DEF Turn
    <3> HIDE DEF i, t, s, n, p
    <3>6. /\ full => Shaped(rosters'[r], p.num, p.len, p.min)
          /\ ~full => PartlyFilled(rosters'[r], n + 1, p.num, p.len)
          /\ ~full /\ n + 1 > p.min * p.num => Shaped(rosters'[r], p.num, p.len, p.min)
      <4>1. PICK num \in Nat \ {0}, len \in Nat \ {0}, min \in Nat :
               num = p.num /\ len = p.len /\ min = p.min
        BY <3>1
      <4>2. PICK more : more = With(s, (n % num) + 1, t)
        OBVIOUS
      <4>3. Len(s) = num /\ PartlyFilled(s, n, num, len)
        BY <3>3, <3>4, <4>1
      <4>4. /\ Lowest(more) >= len => Shaped(more, num, len, min)
            /\ ~(Lowest(more) >= len) => PartlyFilled(more, n + 1, num, len)
            /\ ~(Lowest(more) >= len) /\ n + 1 > min * num => Shaped(more, num, len, min)
        BY <2>1, <4>2, <4>3, OneMore
      <4>5. rosters'[r] = more
        BY <2>2, <3>5, <4>1, <4>2
      <4> QED
        BY <3>2, <4>1, <4>4, <4>5
    <3>7. PICK left \in Nat : left = Len(tickets'[r]) /\ Len(tickets[r]) = left + 1
      <4>1. PICK pool \in Seq(AnyTicket) : pool = tickets[r] /\ pool # <<>>
        BY <2>1
      <4>2. Len(pool) \in Nat /\ Len(pool) - 1 \in Nat
        BY <4>1
      <4>3. Len(tickets'[r]) = Len(pool) - 1
        BY <2>2, <4>1
      <4> QED
        BY <4>1, <4>2, <4>3
    <3>8. PICK least \in Nat : least = p.min * p.num
      BY <3>1
    <3>9. n \in Nat /\ n + (left + 1) > least
      BY <2>1, <3>3, <3>7, <3>8
    <3>10. (n + 1) + left > least /\ (left = 0 => n + 1 > least)
      BY <3>9
    <3>11. tickets'[r] = <<>> => left = 0
      BY <3>7
    <3> QED
      BY <2>3, <3>6, <3>7, <3>8, <3>10, <3>11 DEF s, t, i
  <2>7. at'[r] = "fill" => ~full
    BY <2>3
  <2> HIDE DEF full
  <2>8. /\ at'[r] \in {"judge", "fill"} /\ profile'[r] = p
        /\ Agreed(r, "num")' <=> Agreed(r, "num")
        /\ Configured(r)' <=> Configured(r)
    BY <1>2, <2>3 DEF Agreed, AllAgreed, Configured
  <2>9. Configured(r) => \A m \in sent'[r] : Shaped(m.rosters, p.num, p.len, p.min) /\ m.capacity = p.len - Lowest(m.rosters)
    BY <2>2 DEF ShapeInv
  <2> QED
    BY <2>5, <2>6, <2>7, <2>8, <2>9 DEF ShapeInv
<1> QED
  BY <1>3, <1>4
\* The match, what was sent and the tickets stay, and the step is one that
\* the shape says nothing more of.
LEMMA ShapeUntouched ==
    ASSUME NEW r \in FifoRuns, ShapeInv(r), profile' = profile,
           UNCHANGED <<rosters[r], sent[r]>>,
           at'[r] \in Filling => at[r] \in Filling,
           at'[r] \in {"judge", "backfill", "send"} => at[r] \in {"judge", "backfill", "send"},
           AllAgreed(r) /\ at'[r] = "done" => Len(tickets'[r]) <= profile[r].min * profile[r].num,
           Configured(r) =>
              LET p == profile[r]
              IN  /\ at'[r] = "rosters" => Len(tickets'[r]) > p.min * p.num
                  /\ at'[r] = "backfill" => Lowest(rosters[r]) < p.len
                  /\ at'[r] = "send" => capacity'[r] = p.len - Lowest(rosters[r]),
           at'[r] # "fill"
    PROVE  ShapeInv(r)'
<1>1. /\ Agreed(r, "num")' <=> Agreed(r, "num")
      /\ AllAgreed(r)' <=> AllAgreed(r)
      /\ Configured(r)' <=> Configured(r)
  BY DEF Agreed, AllAgreed, Configured
<1> QED
  BY <1>1 DEF ShapeInv

LEMMA ShapeLeave ==
    ASSUME Types, NEW r \in FifoRuns, ShapeInv(r), profile' = profile,
           at[r] \in {"send", "backfill"}, at'[r] \in {"loop", "failed"},
           \/ sent'[r] = sent[r]
           \/ /\ sent'[r] = sent[r] \cup {[rosters |-> rosters[r], capacity |-> capacity[r]]}
              /\ at[r] = "send"
    PROVE  ShapeInv(r)'
<1> DEFINE new == [rosters |-> rosters[r], capacity |-> capacity[r]]
           p == profile[r]
           Right(m) == Shaped(m.rosters, p.num, p.len, p.min) /\ m.capacity = p.len - Lowest(m.rosters)
<1>1. /\ Agreed(r, "num")' <=> Agreed(r, "num")
      /\ AllAgreed(r)' <=> AllAgreed(r)
      /\ Configured(r)' <=> Configured(r)
  BY DEF Agreed, AllAgreed, Configured
<1>2. Configured(r) => \A m \in sent[r] : Right(m)
  BY DEF ShapeInv
<1>3. Configured(r) /\ at[r] = "send" => Right(new)
  BY DEF ShapeInv
<1> HIDE DEF new
<1>4. Configured(r) => \A m \in sent'[r] : Right(m)
  BY <1>2, <1>3 DEF new
<1> QED
  BY <1>1, <1>4 DEF ShapeInv, Filling

LEMMA ShapeStep ==
    ASSUME Types, ControlHolds, NEW r \in FifoRuns, ParamsInv(r), ShapeInv(r), RunStep(r)
    PROVE  ShapeInv(r)'
<1> DEFINE p == profile[r]
<1>1. r \in Runs /\ ControlInv(r) /\ r \notin DebugRuns /\ profile' = profile
  BY OthersApart DEF FifoRuns, ControlHolds
<1>2. CASE Receive(r) \/ Begin(r) \/ SetParam(r)
  <2>1. /\ UNCHANGED <<rosters, sent>>
        /\ at'[r] \in {"request", "loop"} \cup Params
    BY <1>1, <1>2 DEF Receive, Begin, SetParam, Go, After, Types, matchVars, Params
  <2> QED
    BY <1>1, <2>1, ShapeUntouched DEF Filling, Params
<1>3. CASE StartMatch(r)
  <2>1. /\ UNCHANGED <<requestVars, matchVars>> /\ at[r] = "loop"
        /\ at'[r] \in {"panicked", "rosters", "done"}
        /\ at'[r] = "rosters" => Len(tickets[r]) > desired.min * desired.num
        /\ at'[r] = "done" => ~(Len(tickets[r]) > desired.min * desired.num)
    BY <1>1, <1>3 DEF StartMatch, Go, Types
  <2>2. ASSUME AllAgreed(r)
        PROVE  /\ at'[r] = "rosters" => Len(tickets[r]) > p.min * p.num
               /\ at'[r] = "done" => Len(tickets[r]) <= p.min * p.num
    <3>1. p.num \in Nat /\ p.min \in Nat
      BY <2>2, AgreedParam DEF AllAgreed, Params
    <3>2. PICK least \in Nat : least = p.min * p.num
      BY <3>1
    <3>3. Len(tickets[r]) \in Nat
      BY <1>1 DEF Types
    <3>4. CASE request[r] = "whole"
      <4>1. desired.num = p.num /\ desired.min = p.min
        BY <1>1, <2>1, <2>2, <3>4, AllAgreedDesired
      <4> QED
        BY <2>1, <3>2, <3>3, <4>1
    <3>5. CASE request[r] # "whole"
      <4>1. tickets[r] = <<>> /\ Len(tickets[r]) = 0
        BY <1>1, <2>1, <3>5 DEF ControlInv, Types
      <4>2. at'[r] # "rosters"
        <5>1. PICK most \in Nat : most = desired.min * desired.num
          BY DEF Types, Params
        <5> QED
          BY <2>1, <4>1, <5>1
      <4> QED
        BY <3>2, <4>1, <4>2
    <3> QED
      BY <3>4, <3>5
  <2> QED
    BY <1>1, <2>1, <2>2, ShapeUntouched DEF Filling, requestVars, matchVars, Configured
<1>4. CASE MakeRosters(r)
  <2> DEFINE s == rosters'[r]
  <2>1. /\ s = [i \in 1..desired.num |-> <<>>] /\ tixCount'[r] = 0 /\ desired.num \in Nat
        /\ UNCHANGED <<tickets, sent>> /\ at[r] = "rosters" /\ at'[r] = "fill"
    BY <1>1, <1>4 DEF MakeRosters, Go, Types, Params, requestVars
  <2>2. Len(s) = desired.num /\ \A i \in DOMAIN s : Len(s[i]) = 0
    BY <2>1, EmptyRosters
  <2> HIDE DEF s
  <2>3. Agreed(r, "num") => Len(s) = p.num
    BY <1>1, <2>1, <2>2, AgreedDesired DEF Making, Params
  <2>4. ASSUME Configured(r)
        PROVE  /\ tixCount'[r] + Len(tickets'[r]) > p.min * p.num
               /\ PartlyFilled(s, tixCount'[r], p.num, p.len)
    <3>1. p.num \in Nat \ {0} /\ p.len \in Nat \ {0} /\ p.min \in Nat
      BY <2>4, AgreedParam DEF Configured, AllAgreed, Params
    <3>2. Len(tickets[r]) > p.min * p.num /\ Len(tickets[r]) \in Nat
      BY <1>1, <2>1, <2>4 DEF ShapeInv, Types
    <3>3. 0 \in 0..(p.len - 1) /\ 0 \in 0..(p.num - 1)
      BY <3>1
    <3>4. Rotated(s, 0, 0, 0)
      <4>1. \A i \in DOMAIN s : i \in Nat /\ i >= 1
        BY <2>1 DEF s
      <4>2. 0 = 0 * Len(s) + 0
        BY <2>1, <2>2
      <4> QED
        BY <2>2, <4>1, <4>2 DEF Rotated
    <3>5. PartlyFilled(s, 0, p.num, p.len)
      BY <3>3, <3>4 DEF PartlyFilled
    <3> QED
      BY <2>1, <3>2, <3>5
  <2>5. /\ Agreed(r, "num")' <=> Agreed(r, "num")
        /\ Configured(r)' <=> Configured(r)
    BY <1>1 DEF Agreed, AllAgreed, Configured
  <2> QED
    BY <1>1, <2>1, <2>3, <2>4, <2>5 DEF ShapeInv, s
<1>5. CASE Judge(r)
  <2>1. /\ at[r] = "judge" /\ UNCHANGED matchVars
        /\ at'[r] = IF Lowest(rosters[r]) < desired.len THEN "backfill" ELSE "send"
    BY <1>1, <1>5 DEF Judge, Go, Types
  <2>2. ASSUME Configured(r)
        PROVE  /\ at'[r] = "backfill" => Lowest(rosters[r]) < p.len
               /\ at'[r] = "send" => capacity'[r] = p.len - Lowest(rosters[r])
    <3>1. desired.len = p.len /\ p.len \in Nat
      BY <1>1, <2>1, <2>2, AllAgreedDesired, AgreedParam
         DEF Making, Filling, Configured, AllAgreed, Params
    <3>2. Lowest(rosters[r]) \in Nat /\ Lowest(rosters[r]) <= p.len
      BY <2>1, <2>2 DEF ShapeInv, Shaped
    <3>3. capacity'[r] = 0
      BY <1>1, <2>1 DEF ControlInv, matchVars
    <3> QED
      BY <2>1, <3>1, <3>2, <3>3
  <2> QED
    BY <1>1, <2>1, <2>2, ShapeUntouched DEF Filling, matchVars
<1>6. CASE AttachBackfill(r)
  <2>1. /\ at[r] = "backfill" /\ at'[r] = "send" /\ UNCHANGED <<rosters, sent>>
        /\ capacity'[r] = desired.len - Lowest(rosters[r])
    BY <1>1, <1>6 DEF AttachBackfill, Go, Types
  <2>2. Configured(r) => capacity'[r] = p.len - Lowest(rosters[r])
    BY <1>1, <2>1, AllAgreedDesired DEF Making, Filling, Configured
  <2> QED
    BY <1>1, <2>1, <2>2, ShapeUntouched DEF Filling
<1>7. CASE SkipMatch(r) \/ SendFails(r)
  <2>1. sent' = sent /\ at[r] \in {"send", "backfill"} /\ at'[r] \in {"loop", "failed"}
    BY <1>1, <1>7 DEF SkipMatch, SendFails, Go, Types
  <2> QED
    BY <1>1, <2>1, ShapeLeave
<1>8. CASE SendMatch(r)
  <2>1. /\ sent'[r] = sent[r] \cup {[rosters |-> rosters[r], capacity |-> capacity[r]]}
        /\ at[r] = "send" /\ at'[r] = "loop"
    BY <1>1, <1>8 DEF SendMatch, Go, Types
  <2> QED
    BY <1>1, <2>1, ShapeLeave
<1>9. ~Debug(r)
  BY <1>1 DEF Debug, ControlInv
<1> QED
  BY <1>2, <1>3, <1>4, <1>5, <1>6, <1>7, <1>8, <1>9, ShapeFill DEF RunStep
-----------------------------------------------------------------------------
(* The theorems.                                                           *)

FunctionsInv == Types /\ ControlHolds /\ FifoInv /\ PanicCauses

LEMMA FunctionsInit == Init => FunctionsInv
<1> SUFFICES ASSUME Init PROVE FunctionsInv
  OBVIOUS
<1>1. /\ unreceived = Chunks /\ request = [r \in Runs |-> "receiving"]
      /\ tickets = [r \in Runs |-> <<>>] /\ profile \in [Runs -> AllProfiles]
      /\ at = [r \in Runs |-> "request"] /\ rosters = [r \in Runs |-> <<>>]
      /\ tixCount = [r \in Runs |-> 0] /\ capacity = [r \in Runs |-> 0]
      /\ sent = [r \in Runs |-> {}] /\ dropped = [r \in Runs |-> {}]
      /\ desired = Default
  BY DEF Init, RequestInit
<1>2. Types
  <2>1. <<>> \in Seq(AnyTicket) /\ <<>> \in Seq(Seq(AnyTicket))
    OBVIOUS
  <2>2. Default \in [Params -> Nat]
    BY DEF Default, Params
  <2> QED
    BY <1>1, <2>1, <2>2, ChunksAssumption DEF Types, Steps
<1>3. ControlHolds
  <2>1. ASSUME NEW r \in Runs PROVE ControlInv(r)
    <3>1. UNION {ToSet(c) : c \in Chunks[r] \ unreceived[r]} = {} /\ unreceived[r] # {}
      BY <1>1, ChunksAssumption
    <3> QED
      BY <1>1, <3>1, EmptyTickets DEF ControlInv, Making, Filling
  <2> QED
    BY <2>1 DEF ControlHolds
<1>4. FifoInv
  <2>1. ASSUME NEW r \in FifoRuns PROVE OnceInv(r) /\ ParamsInv(r) /\ ShapeInv(r)
    <3>1. /\ at[r] = "request" /\ request[r] = "receiving" /\ tickets[r] = <<>>
          /\ rosters[r] = <<>> /\ sent[r] = {} /\ dropped[r] = {}
      BY <1>1 DEF FifoRuns
    <3>2. OnceInv(r)
      BY <3>1, EmptyTickets, NoRosters DEF OnceInv, SentTickets
    <3>3. ParamsInv(r) /\ ShapeInv(r)
      BY <3>1 DEF ParamsInv, ShapeInv, Filling
    <3> QED
      BY <3>2, <3>3
  <2> QED
    BY <2>1 DEF FifoInv
<1>5. PanicCauses
  BY <1>1 DEF PanicCauses
<1> QED
  BY <1>2, <1>3, <1>4, <1>5 DEF FunctionsInv

LEMMA FifoStep ==
    ASSUME Types, ControlHolds, FifoInv, NEW q \in Runs, RunStep(q)
    PROVE  FifoInv'
<1> SUFFICES ASSUME NEW r \in FifoRuns
             PROVE  OnceInv(r)' /\ ParamsInv(r)' /\ ShapeInv(r)'
  BY DEF FifoInv
<1>1. OnceInv(r) /\ ParamsInv(r) /\ ShapeInv(r) /\ r \in Runs
  BY DEF FifoInv, FifoRuns
<1>2. ParamsInv(r)'
  BY <1>1, ParamsStep
<1>3. CASE q = r
  BY <1>1, <1>2, <1>3, OnceStep, ShapeStep
<1>4. CASE q # r
  <2>1. profile' = profile /\ Apart(r)
    BY <1>1, <1>4, OthersApart
  <2>2. OnceInv(r)'
    BY <1>1, <2>1, OnceUntouched DEF Apart
  <2>3. /\ Agreed(r, "num")' <=> Agreed(r, "num")
        /\ AllAgreed(r)' <=> AllAgreed(r)
        /\ Configured(r)' <=> Configured(r)
    BY <2>1 DEF Agreed, AllAgreed, Configured
  <2>4. ShapeInv(r)'
    BY <1>1, <2>1, <2>3 DEF Apart, ShapeInv
  <2> QED
    BY <1>2, <2>2, <2>4
<1> QED
  BY <1>3, <1>4

LEMMA FunctionsStep == FunctionsInv /\ [Next]_vars => FunctionsInv'
<1> SUFFICES ASSUME FunctionsInv, [Next]_vars PROVE FunctionsInv'
  OBVIOUS
<1>1. Types /\ ControlHolds /\ FifoInv /\ PanicCauses
  BY DEF FunctionsInv
<1>2. CASE UNCHANGED vars
  <2> USE <1>2 DEF vars, requestVars, matchVars
  <2>1. Types'
    BY <1>1 DEF Types
  <2>2. ControlHolds'
    BY <1>1 DEF ControlHolds, ControlInv
  <2>3. /\ \A r \in FifoRuns, p \in Params : Agreed(r, p)' <=> Agreed(r, p)
        /\ \A r \in FifoRuns : /\ AllAgreed(r)' <=> AllAgreed(r)
                               /\ Configured(r)' <=> Configured(r)
    BY DEF Agreed, AllAgreed, Configured
  <2>4. ASSUME NEW r \in FifoRuns PROVE OnceInv(r)' /\ ParamsInv(r)' /\ ShapeInv(r)'
    <3>1. OnceInv(r) /\ ParamsInv(r) /\ ShapeInv(r)
      BY <1>1 DEF FifoInv
    <3>2. OnceInv(r)'
      BY <3>1, OnceUntouched DEF FifoRuns
    <3>3. ParamsInv(r)'
      BY <2>3, <3>1 DEF ParamsInv
    <3>4. ShapeInv(r)'
      BY <2>3, <3>1 DEF ShapeInv, Params
    <3> QED
      BY <3>2, <3>3, <3>4
  <2>5. PanicCauses'
    BY <1>1, <2>3 DEF PanicCauses, Params
  <2> QED
    BY <2>1, <2>2, <2>4, <2>5 DEF FunctionsInv, FifoInv
<1>3. ASSUME NEW q \in Runs, RunStep(q) PROVE FunctionsInv'
  <2>1. Types' /\ ControlHolds' /\ FifoInv'
    BY <1>1, <1>3, TypesStep, ControlStep, FifoStep
  <2>2. profile' = profile /\ \A r \in Runs \ {q} : Apart(r)
    BY <1>1, <1>3, OthersApart
  <2>3. ASSUME NEW r \in Runs, at'[r] = "panicked"
        PROVE  \/ profile'[r] = NoExtensions
               \/ r \in DebugRuns /\ request'[r] = "none"
               \/ r \in FifoRuns /\ (~Agreed(r, "num")' \/ profile'[r].num = 0)
    <3>1. r = q
      BY <1>3, <2>2, <2>3 DEF RunStep, Alive, Apart
    <3>2. r \in FifoRuns => ParamsInv(r) /\ ShapeInv(r)
      BY <1>1 DEF FifoInv
    <3>3. Agreed(r, "num")' <=> Agreed(r, "num")
      BY <2>2 DEF Agreed
    <3> QED
      BY <1>1, <1>3, <2>2, <2>3, <3>1, <3>2, <3>3, PanicStep
  <2> QED
    BY <2>1, <2>3 DEF FunctionsInv, PanicCauses
<1> QED
  BY <1>2, <1>3 DEF Next, Terminated

LEMMA FunctionsInvariant == Spec => []FunctionsInv
<1>1. Init => FunctionsInv
  BY FunctionsInit
<1>2. FunctionsInv /\ [Next]_vars => FunctionsInv'
  BY FunctionsStep
<1> QED
  BY <1>1, <1>2, PTL DEF Spec

\* A function's variables have their types, and the loop of fifo.go 210
\* never takes a ticket out of an empty pool.
THEOREM FunctionTypes == Spec => []TypeOK
<1>1. FunctionsInv => TypeOK
  <2> SUFFICES ASSUME FunctionsInv PROVE TypeOK
    OBVIOUS
  <2>1. Types /\ ControlHolds
    BY DEF FunctionsInv
  <2>2. ASSUME NEW r \in Runs PROVE tickets[r] \in Seq(AllTickets(r))
    <3>1. tickets[r] \in Seq(AnyTicket) /\ ToSet(tickets[r]) \subseteq AllTickets(r)
      BY <2>1 DEF Types, ControlHolds, ControlInv
    <3>2. \A i \in 1..Len(tickets[r]) : tickets[r][i] \in AllTickets(r)
      BY <3>1 DEF ToSet
    <3> QED
      BY <3>1, <3>2
  <2>3. \A r \in Runs : at[r] = "fill" => tickets[r] # <<>>
    BY <2>1 DEF ControlHolds, ControlInv
  <2>4. Steps = Params \cup {"request", "debug", "loop", "rosters", "fill", "judge",
                             "backfill", "send", "done", "failed", "panicked"}
    BY DEF Steps, Making, Filling
  <2> QED
    BY <2>1, <2>2, <2>3, <2>4 DEF Types, TypeOK
<1> QED
  BY <1>1, FunctionsInvariant, PTL

\* GetChunkedRequest (server.go) hands a run all the tickets om-core sent
\* or none, for any number of chunks in any order.
THEOREM RequestsAreWholeOrNone == Spec => []WholeRequestOrNone
<1>1. FunctionsInv => WholeRequestOrNone
  <2> SUFFICES ASSUME FunctionsInv, NEW r \in FifoRuns, at[r] \in Params
               PROVE  ToSet(tickets[r]) = IF request[r] = "whole" THEN AllTickets(r) ELSE {}
    BY DEF WholeRequestOrNone
  <2>1. r \in Runs /\ Types /\ ControlInv(r) /\ OnceInv(r)
    BY DEF FunctionsInv, ControlHolds, FifoInv, FifoRuns
  <2>2. rosters[r] = <<>> /\ sent[r] = {} /\ dropped[r] = {} /\ SentTickets(r) = {}
    BY <2>1 DEF ControlInv, OnceInv, Filling, Params, SentTickets
  <2>3. CASE request[r] = "whole"
    BY <2>1, <2>2, <2>3, NoRosters DEF OnceInv
  <2>4. CASE request[r] = "none"
    BY <2>1, <2>4, EmptyTickets DEF ControlInv
  <2>5. request[r] # "receiving"
    BY <2>1 DEF ControlInv, Params
  <2> QED
    BY <2>1, <2>3, <2>4, <2>5 DEF Types
<1> QED
  BY <1>1, FunctionsInvariant, PTL

\* The FIFO function never puts a ticket into two matches or twice into one
\* and loses track of none, however the runs interleave.
THEOREM FifoUsesTicketsOnce == Spec => []TicketsUsedOnce
<1>1. FunctionsInv => TicketsUsedOnce
  <2> SUFFICES ASSUME FunctionsInv, NEW r \in FifoRuns, request[r] = "whole"
               PROVE  LET made == {m.rosters : m \in sent[r]} \cup {rosters[r]}
                          placed == UNION {MatchTickets(s) : s \in made}
                      IN  /\ \A s, u \in made : s # u => MatchTickets(s) \cap MatchTickets(u) = {}
                          /\ \A s \in made : PlacedOnce(s)
                          /\ placed \cup dropped[r] \cup ToSet(tickets[r]) = AllTickets(r)
                          /\ placed \cap ToSet(tickets[r]) = {}
                          /\ dropped[r] \cap (placed \cup ToSet(tickets[r])) = {}
    BY DEF TicketsUsedOnce
  <2> DEFINE made == {m.rosters : m \in sent[r]} \cup {rosters[r]}
             placed == UNION {MatchTickets(s) : s \in made}
  <2>1. OnceInv(r)
    BY DEF FunctionsInv, FifoInv
  <2>2. placed = SentTickets(r) \cup MatchTickets(rosters[r])
    BY DEF SentTickets
  <2>3. ASSUME NEW s \in made, NEW u \in made, s # u
        PROVE  MatchTickets(s) \cap MatchTickets(u) = {}
    <3>1. \A m \in sent[r] : MatchTickets(m.rosters) \subseteq SentTickets(r)
      BY DEF SentTickets
    <3>2. \A m \in sent[r] : MatchTickets(m.rosters) \cap MatchTickets(rosters[r]) = {}
      BY <2>1, <3>1 DEF OnceInv
    <3>3. \A m, n \in sent[r] :
             m.rosters # n.rosters => MatchTickets(m.rosters) \cap MatchTickets(n.rosters) = {}
      BY <2>1 DEF OnceInv
    <3> QED
      BY <2>3, <3>2, <3>3
  <2>4. \A s \in made : PlacedOnce(s)
    BY <2>1 DEF OnceInv
  <2> HIDE DEF made, placed
  <2>5. /\ placed \cup dropped[r] \cup ToSet(tickets[r]) = AllTickets(r)
        /\ placed \cap ToSet(tickets[r]) = {}
        /\ dropped[r] \cap (placed \cup ToSet(tickets[r])) = {}
    BY <2>1, <2>2 DEF OnceInv
  <2> QED
    BY <2>3, <2>4, <2>5 DEF made, placed
<1> QED
  BY <1>1, FunctionsInvariant, PTL

\* The process of the functions only panics for the reasons named: with
\* profiles that have extensions and agree on a number of rosters that is not
\* zero, the index of fifo.go 221 stays among the rosters of the match.
THEOREM FunctionsPanicForAReason == Spec => []PanicCauses
<1>1. FunctionsInv => PanicCauses
  BY DEF FunctionsInv
<1> QED
  BY <1>1, FunctionsInvariant, PTL

\* What fifo.go 153-331 streams is a match as the profile configures it,
\* unless another run's profile says something else.
THEOREM FifoMatchesAsConfigured == Spec => []MatchesAsConfigured
<1>1. FunctionsInv => MatchesAsConfigured
  BY DEF FunctionsInv, FifoInv, ShapeInv, Shaped, MatchesAsConfigured
<1> QED
  BY <1>1, FunctionsInvariant, PTL

\* The loop of fifo.go 153 ends only when too few tickets are left.
THEOREM FifoLeavesFew == Spec => []FewLeftOver
<1>1. FunctionsInv => FewLeftOver
  BY DEF FunctionsInv, FifoInv, ShapeInv, FewLeftOver
<1> QED
  BY <1>1, FunctionsInvariant, PTL
=================================================================================
