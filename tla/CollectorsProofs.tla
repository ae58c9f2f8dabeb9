--------------------------- MODULE CollectorsProofs ---------------------------
(***************************************************************************)
(* Proofs about the services beside the handlers, for every value of their *)
(* constants.  PositionLimits: no answer is older than one given before    *)
(* it, for any users and replies and any life of the cache, and what an    *)
(* answer calls healthy hides nothing of the replies.                      *)
(* HourlyLatency: a stored hour is exact and no hour is forgotten, for any *)
(* rows however late, processes and failures.                              *)
(* ContractMultipliers: a lookup of the past stays what it was, and a      *)
(* trade of a day without a change is valued with the exchange's           *)
(* multiplier, for any contracts, changes, failures and restarts.          *)
(***************************************************************************)
EXTENDS PositionLimits, HourlyLatency, ContractMultipliers, FiniteSetTheorems,
        SequenceTheorems, WellFoundedInduction, TLAPS

-----------------------------------------------------------------------------
(* Position limits.                                                        *)

(* A request that holds the lock and reads. *)
Reads(user) == reading[user] # None

(* Record and function shapes; a reading began at some reading of the      *)
(* clock.                                                                  *)
LimitShapes ==
    /\ clock \in Nat
    /\ DOMAIN reading = Users
    /\ DOMAIN answer = Users
    /\ \A user \in Users : Reads(user) =>
         /\ reading[user].begun \in Nat
         /\ reading[user] = [begun |-> reading[user].begun,
                             sources |-> reading[user].sources,
                             pending |-> reading[user].pending,
                             done |-> reading[user].done]

(* The lock: one request reads at a time. *)
OneReader ==
    \A user, other \in Users : Reads(user) /\ Reads(other) => user = other

(* bound is no younger than the clock or the reading under way. *)
Precedes(bound) ==
    /\ bound \in Nat
    /\ bound =< clock
    /\ \A user \in Users : Reads(user) => bound =< reading[user].begun

(* What was answered is no younger than what is cached, and both are no    *)
(* younger than what is being read.                                        *)
InOrder ==
    /\ \A user \in Users : Reads(user) => reading[user].begun =< clock
    /\ cache # None => Precedes(cache.begun)
    /\ \A user \in Users : answer[user] # None =>
         /\ Precedes(answer[user].overview.begun)
         /\ cache # None => answer[user].overview.begun =< cache.begun

LimitsInv == LimitShapes /\ OneReader /\ InOrder

(* At the start nobody reads and nothing was answered. *)
LEMMA LimitsStart == LimitsInit => LimitsInv
BY DEF LimitsInit, LimitsInv, LimitShapes, OneReader, InOrder, Reads

(* Time passes: what preceded the clock still does. *)
LEMMA LimitsTicks == LimitsInv /\ LimitsTick => LimitsInv'
BY DEF LimitsTick, LimitsInv, LimitShapes, OneReader, InOrder, Precedes, Reads

(* Asking touches neither a reading nor an answer. *)
LEMMA Asks == ASSUME NEW user \in Users, LimitsInv, Ask(user) PROVE LimitsInv'
BY DEF Ask, LimitsInv, LimitShapes, OneReader, InOrder, Precedes, Reads

(* An answer from the cache is as old as the cache. *)
LEMMA CacheAnswers ==
    ASSUME NEW user \in Users, LimitsInv, AnswerFromCache(user)
    PROVE  LimitsInv'
  <1>. USE DEF LimitsInv, Reads
  <1>1. /\ cache # None
        /\ UNCHANGED <<clock, reading, cache>>
        /\ answer' = [answer EXCEPT ![user] =
                        [overview |-> cache, given |-> clock]]
    BY DEF AnswerFromCache, IsYoung, Give
  <1>2. LimitShapes' /\ OneReader'
    BY <1>1 DEF LimitShapes, OneReader
  <1>3. \A other \in Users :
          answer'[other] = IF other = user
                           THEN [overview |-> cache, given |-> clock]
                           ELSE answer[other]
    BY <1>1 DEF LimitShapes
  <1>4. InOrder'
    BY <1>1, <1>3 DEF InOrder, Precedes
  <1>. QED  BY <1>2, <1>4

(* A reading begins now, alone. *)
LEMMA ReadingBegins ==
    ASSUME NEW user \in Users, LimitsInv, BeginReading(user)
    PROVE  LimitsInv'
  <1>. USE DEF LimitsInv, Reads
  <1>. DEFINE new == [begun |-> clock, sources |-> Visible[user],
                      pending |-> Visible[user], done |-> {}]
  <1>1. /\ \A other \in Users : reading[other] = None
        /\ reading' = [reading EXCEPT ![user] = new]
        /\ UNCHANGED <<clock, cache, answer>>
    BY DEF BeginReading, LockFree
  <1>2. \A other \in Users :
          reading'[other] = IF other = user THEN new ELSE None
    BY <1>1 DEF LimitShapes
  <1>3. LimitShapes'
    BY <1>1, <1>2 DEF LimitShapes
  <1>4. OneReader'
    BY <1>2 DEF OneReader
  <1>5. InOrder'
    BY <1>1, <1>2 DEF InOrder, Precedes, LimitShapes
  <1>. QED  BY <1>3, <1>4, <1>5

(* A reading goes on: it began when it began. *)
LEMMA ReadingGoesOn ==
    ASSUME NEW user \in Users, LimitsInv, ReadEnvironment(user)
    PROVE  LimitsInv'
  <1>. USE DEF LimitsInv, Reads
  <1>1. /\ reading[user] # None
        /\ UNCHANGED <<clock, cache, answer>>
    BY DEF ReadEnvironment
  <1>2. PICK pending, done :
          reading' = [reading EXCEPT ![user].pending = pending,
                                     ![user].done = done]
    BY DEF ReadEnvironment
  <1>. DEFINE next == [begun |-> reading[user].begun,
                       sources |-> reading[user].sources,
                       pending |-> pending, done |-> done]
  <1>3. \A other \in Users :
          reading'[other] = IF other = user THEN next ELSE reading[other]
    <2>1. \A other \in Users \ {user} : reading'[other] = reading[other]
      BY <1>2 DEF LimitShapes
    <2>2. reading'[user] = [[reading[user] EXCEPT !.pending = pending]
                                           EXCEPT !.done = done]
      BY <1>2 DEF LimitShapes
    <2>3. reading[user] = [begun |-> reading[user].begun,
                           sources |-> reading[user].sources,
                           pending |-> reading[user].pending,
                           done |-> reading[user].done]
      BY <1>1 DEF LimitShapes
    <2>4. reading'[user] = next
      BY <2>2, <2>3
    <2>. QED  BY <2>1, <2>4
  <1>4. LimitShapes'
    BY <1>1, <1>2, <1>3 DEF LimitShapes
  <1>5. OneReader'
    BY <1>1, <1>3 DEF OneReader
  <1>6. InOrder'
    BY <1>1, <1>3 DEF InOrder, Precedes
  <1>. QED  BY <1>4, <1>5, <1>6

(* The reading that ends becomes the cache and an answer, and no other is  *)
(* under way.                                                              *)
LEMMA ReadingEnds ==
    ASSUME NEW user \in Users, LimitsInv, EndReading(user)
    PROVE  LimitsInv'
  <1>. USE DEF LimitsInv, Reads
  <1>. DEFINE given == [overview |-> cache', given |-> clock]
  <1>1. /\ reading[user] # None
        /\ reading' = [reading EXCEPT ![user] = None]
        /\ answer' = [answer EXCEPT ![user] = given]
        /\ cache'.begun = reading[user].begun
        /\ clock' = clock
    BY DEF EndReading, Overview, Give
  <1>2. \A other \in Users : reading'[other] = None
    BY <1>1 DEF OneReader, LimitShapes
  <1>3. \A other \in Users :
          answer'[other] = IF other = user THEN given ELSE answer[other]
    BY <1>1 DEF LimitShapes
  <1>4. LimitShapes' /\ OneReader'
    BY <1>1, <1>2 DEF LimitShapes, OneReader
  <1>5. InOrder'
    BY <1>1, <1>2, <1>3 DEF InOrder, Precedes, LimitShapes
  <1>. QED  BY <1>4, <1>5

(* A client that hangs up takes its reading with it. *)
LEMMA HangsUp ==
    ASSUME NEW user \in Users, LimitsInv, HangUp(user)
    PROVE  LimitsInv'
  <1>. USE DEF LimitsInv, Reads
  <1>1. /\ reading' = [reading EXCEPT ![user] = None]
        /\ UNCHANGED <<clock, cache, answer>>
    BY DEF HangUp
  <1>2. \A other \in Users :
          reading'[other] = IF other = user THEN None ELSE reading[other]
    BY <1>1 DEF LimitShapes
  <1>. QED
    BY <1>1, <1>2 DEF LimitShapes, OneReader, InOrder, Precedes

(* Every step preserves the invariant. *)
LEMMA LimitsStep == LimitsInv /\ [LimitsNext]_limitVars => LimitsInv'
  <1>1. ASSUME LimitsInv, UNCHANGED limitVars  PROVE LimitsInv'
    BY <1>1 DEF limitVars, LimitsInv, LimitShapes, OneReader, InOrder, Precedes,
                Reads
  <1>. QED
    BY <1>1, LimitsTicks, Asks, CacheAnswers, ReadingBegins, ReadingGoesOn,
       ReadingEnds, HangsUp
    DEF LimitsNext

(* One step answers at most one user, from the cache or the reading that   *)
(* ends, and neither is older than any answer given before.                *)
LEMMA AnswerStep ==
    ASSUME LimitsInv, [LimitsNext]_limitVars,
           NEW user \in Users, NEW other \in Users,
           answer'[user] # answer[user], answer[other] # None
    PROVE  answer[other].overview.begun =< answer'[user].overview.begun
  <1>. USE DEF LimitsInv, Reads
  <1>1. CASE \E asker \in Users : AnswerFromCache(asker)
    BY <1>1 DEF AnswerFromCache, IsYoung, Give, LimitShapes, InOrder
  <1>2. CASE \E asker \in Users : EndReading(asker)
    <2>1. PICK asker \in Users : EndReading(asker)
      BY <1>2
    <2>2. /\ reading[asker] # None
          /\ answer' = [answer EXCEPT ![asker] =
                          [overview |-> Overview(reading[asker]),
                           given |-> clock]]
      BY <2>1 DEF EndReading, Give
    <2>3. answer'[user].overview.begun = reading[asker].begun
      BY <2>2 DEF LimitShapes, Overview
    <2>. QED  BY <2>2, <2>3 DEF InOrder, Precedes
  <1>3. answer' = answer
        \/ \E asker \in Users : AnswerFromCache(asker) \/ EndReading(asker)
    BY DEF LimitsNext, Ask, BeginReading, ReadEnvironment, HangUp, LimitsTick,
           limitVars
  <1>. QED  BY <1>1, <1>2, <1>3

(***************************************************************************)
(* The monitor keeps its lock over the whole reading                       *)
(* (FrPositionLimitMonitor::overview): whoever asks, no answer shows an    *)
(* older reading than an answer given before it.                           *)
(***************************************************************************)
THEOREM AnswersAreInOrder == LimitsSpec => AnswersNeverGoBack
  <1>1. LimitsInv /\ [LimitsNext]_limitVars =>
          [\A user, other \in Users :
             answer'[user] # answer[user] /\ answer[other] # None =>
               answer[other].overview.begun
                 =< answer'[user].overview.begun]_limitVars
    BY AnswerStep
  <1>. QED
    BY LimitsStart, LimitsStep, <1>1, PTL
    DEF LimitsSpec, AnswersNeverGoBack

-----------------------------------------------------------------------------
(* Contract multipliers.                                                   *)

(* Numbers: the least of a set, multiples, and days.                       *)

LEMMA LeastOf ==
    ASSUME NEW T, T \subseteq Nat, T # {}
    PROVE  \E x \in T : \A y \in T : x =< y
  <1>1. \E R : /\ IsWellFoundedOn(R, Nat)
               /\ \A x, y \in Nat : y < x => <<y, x>> \in R
    <2>1. \A x, y \in Nat : y < x => <<y, x>> \in OpToRel(<, Nat)
      BY DEF OpToRel
    <2>2. IsWellFoundedOn(OpToRel(<, Nat), Nat)
      BY NatLessThanWellFounded
    <2>. QED  BY <2>1, <2>2, Zenon
  <1>2. PICK R : /\ IsWellFoundedOn(R, Nat)
                 /\ \A x, y \in Nat : y < x => <<y, x>> \in R
    BY <1>1
  <1>3. PICK x \in T : \A y \in T : ~ (<<y, x>> \in R)
    BY <1>2, WFMin
  <1>4. ASSUME NEW y \in T
        PROVE  x =< y
    <2>1. ~(y < x)
      BY <1>2, <1>3
    <2>. QED  BY <2>1
  <1>. QED  BY <1>4

(* A set of numbers with a bound has a greatest one, and that is its Max.  *)
LEMMA GreatestOf ==
    ASSUME NEW T, T \subseteq Nat, T # {}, NEW bound \in Nat,
           \A x \in T : x =< bound
    PROVE  Max(T) \in T /\ \A y \in T : Max(T) >= y
  <1>. DEFINE Distances == {bound - x : x \in T}
  <1>1. Distances \subseteq Nat /\ Distances # {}
    <2>1. \A x \in T : bound - x \in Nat
      OBVIOUS
    <2>2. PICK x \in T : TRUE
      OBVIOUS
    <2>3. bound - x \in Distances
      BY <2>2
    <2>. QED  BY <2>1, <2>3
  <1>2. PICK d \in Distances : \A other \in Distances : d =< other
    BY <1>1, LeastOf
  <1>3. PICK x \in T : d = bound - x
    OBVIOUS
  <1>4. ASSUME NEW y \in T
        PROVE  x >= y
    <2>1. bound - y \in Distances
      OBVIOUS
    <2>2. d =< bound - y
      BY <1>2, <2>1
    <2>. QED  BY <1>3, <2>2
  <1>. QED  BY <1>4 DEF Max

LEMMA Scaled ==
    ASSUME NEW d \in Nat, NEW a \in Int, NEW b \in Int, a =< b
    PROVE  d * a =< d * b /\ d * a \in Int /\ d * b \in Int
  <1>1. d * (b - a) >= 0
    OBVIOUS
  <1>2. d * (b - a) = d * b - d * a
    OBVIOUS
  <1>. QED  BY <1>1, <1>2

LEMMA Quotients ==
    ASSUME NEW d \in Nat \ {0}, NEW p \in Nat, NEW q \in Nat,
           NEW r \in 0 .. d - 1, d * p =< d * q + r
    PROVE  p =< q
  <1>. SUFFICES ASSUME q + 1 =< p
                PROVE  FALSE
    OBVIOUS
  <1>1. d * (q + 1) =< d * p
    BY Scaled
  <1>2. d * (q + 1) = d * q + d
    OBVIOUS
  <1>. QED  BY <1>1, <1>2

(* A moment at which a day begins. *)
Midnight(d) == \E n \in Nat : d = DayLength * n

LEMMA Days ==
    ASSUME NEW t \in Nat
    PROVE  /\ DayStart(t) \in Nat /\ Midnight(DayStart(t))
           /\ DayStart(t) =< t /\ t < DayStart(t) + DayLength
           /\ \A d : Midnight(d) /\ d =< t => d =< DayStart(t)
  <1>0. DayLength \in Nat \ {0}
    BY MultiplierAssumption
  <1>1. /\ t = DayLength * (t \div DayLength) + (t % DayLength)
        /\ t \div DayLength \in Nat /\ t % DayLength \in 0 .. DayLength - 1
    BY <1>0
  <1>2. DayLength * (t \div DayLength) \in Nat
    BY <1>0, <1>1, Scaled
  <1>3. DayStart(t) = DayLength * (t \div DayLength)
    BY <1>0, <1>1, <1>2 DEF DayStart
  <1>4. ASSUME NEW d, Midnight(d), d =< t
        PROVE  d =< DayStart(t)
    <2>1. PICK n \in Nat : d = DayLength * n
      BY <1>4 DEF Midnight
    <2>2. n =< t \div DayLength
      BY <1>0, <1>1, <1>4, <2>1, Quotients
    <2>. QED  BY <1>0, <1>1, <1>3, <2>1, <2>2, Scaled
  <1>5. DayStart(t) =< t /\ t < DayStart(t) + DayLength
    BY <1>0, <1>1, <1>2, <1>3
  <1>. QED  BY <1>1, <1>2, <1>3, <1>4, <1>5 DEF Midnight

(* The start of the day that begins at d is d. *)
LEMMA DayOfMidnight ==
    ASSUME NEW d \in Nat, Midnight(d)
    PROVE  DayStart(d) = d
BY Days

-----------------------------------------------------------------------------
(* The invariant.                                                          *)

(* What the exchange listed at each moment; between two moments without a  *)
(* change it listed the same.                                              *)
Listings(listing) ==
    /\ DOMAIN listing = Exchange
    /\ \A e \in Exchange : DOMAIN listing[e] = Instruments
Unchanged(e, i, from, to) == \A t \in from .. to : <<e, i, t>> \notin changed
TruthInv ==
    /\ time \in Nat /\ DOMAIN truth = 0 .. time
    /\ truth[time] = listed /\ \A t \in 0 .. time : Listings(truth[t])
    /\ \A e \in Exchange, i \in Instruments, a, b \in 0 .. time :
         a =< b /\ Unchanged(e, i, a + 1, b) => truth[a][e][i] = truth[b][e][i]

(* What was read at a moment was listed then, unless it changed then.      *)
Truthful(e, i, at, m) == m = truth[at][e][i] \/ <<e, i, at>> \in changed

(* A cycle stores as of the day it began, what it read since.              *)
CycleInv ==
    cycle # None =>
      /\ cycle = [effectiveAt |-> cycle.effectiveAt, begun |-> cycle.begun,
                  next |-> cycle.next, contracts |-> cycle.contracts,
                  at |-> cycle.at]
      /\ cycle.begun \in 0 .. time /\ cycle.next \in Nat \ {0}
      /\ cycle.effectiveAt = DayStart(cycle.begun)
      /\ cycle.contracts # None =>
           /\ cycle.next =< Len(Exchanges)
           /\ cycle.at \in cycle.begun .. time
           /\ \A i \in Instruments :
                Truthful(Exchanges[cycle.next], i, cycle.at, cycle.contracts[i])

(* A row is of a midnight and was read later, truthfully. *)
RowOf(e, i, d) ==
    LET at == fetched[<<e, i, d>>]
    IN  /\ d \in Nat /\ Midnight(d) /\ at \in d .. time
        /\ Truthful(e, i, at, stored[<<e, i, d>>])
RowsInv ==
    /\ DOMAIN stored = DOMAIN fetched
    /\ \A e \in Exchange, i \in Instruments : \A d :
         <<e, i, d>> \in DOMAIN stored => RowOf(e, i, d)

MultiplierInv == TruthInv /\ CycleInv /\ RowsInv

-----------------------------------------------------------------------------
(* What is true stays true.                                                *)

(* A step that changes no listing and reads no clock. *)
LEMMA SameTruth ==
    ASSUME MultiplierInv, UNCHANGED <<time, listed, truth, stored, fetched, changed>>
    PROVE  /\ TruthInv' /\ RowsInv'
           /\ \A e, i, at, m : Truthful(e, i, at, m) => Truthful(e, i, at, m)'
BY DEF MultiplierInv, TruthInv, Unchanged, RowsInv, RowOf, Truthful

LEMMA Beginning ==
    ASSUME MultiplierInv, UNCHANGED <<time, listed, truth, stored, fetched, changed>>,
           cycle' = BeginAt(time)
    PROVE  MultiplierInv'
  <1>1. CycleInv'
    BY DEF MultiplierInv, TruthInv, CycleInv, BeginAt
  <1>. QED  BY <1>1, SameTruth DEF MultiplierInv

LEMMA Fetching ==
    ASSUME MultiplierInv, FetchContracts
    PROVE  MultiplierInv'
  <1>. DEFINE e == Exchanges[cycle.next]
              next == [effectiveAt |-> cycle.effectiveAt, begun |-> cycle.begun,
                       next |-> cycle.next, contracts |-> listed[e], at |-> time]
  <1>1. /\ cycle # None /\ cycle.next =< Len(Exchanges)
        /\ UNCHANGED <<time, listed, truth, stored, fetched, changed>>
    BY DEF FetchContracts
  <1>2. cycle' = next
    <2>1. cycle' = [cycle EXCEPT !.contracts = listed[e], !.at = time]
      BY DEF FetchContracts
    <2>2. cycle = [effectiveAt |-> cycle.effectiveAt, begun |-> cycle.begun,
                   next |-> cycle.next, contracts |-> cycle.contracts,
                   at |-> cycle.at]
      BY <1>1 DEF MultiplierInv, CycleInv
    <2>. QED  BY <2>1, <2>2
  <1>3. \A i \in Instruments : listed[e][i] = truth[time][e][i]
    BY DEF MultiplierInv, TruthInv
  <1>4. /\ cycle.next \in Nat \ {0} /\ cycle.begun \in 0 .. time
        /\ cycle.effectiveAt = DayStart(cycle.begun) /\ time \in Nat
    BY <1>1 DEF MultiplierInv, CycleInv, TruthInv
  <1>5. CycleInv'
    <2>. HIDE DEF next
    <2>1. /\ next.effectiveAt = cycle.effectiveAt /\ next.begun = cycle.begun
          /\ next.next = cycle.next /\ next.contracts = listed[e]
          /\ next.at = time
          /\ next = [effectiveAt |-> next.effectiveAt, begun |-> next.begun,
                     next |-> next.next, contracts |-> next.contracts,
                     at |-> next.at]
      BY DEF next
    <2>2. \A i \in Instruments :
            Truthful(Exchanges[cycle.next], i, cycle.at, cycle.contracts[i])'
      BY <1>1, <1>2, <1>3, <2>1 DEF Truthful
    <2>3. cycle'.begun =< cycle'.at /\ cycle'.at = time /\ time' = time
      BY <1>1, <1>2, <1>4, <2>1
    <2>. QED  BY <1>1, <1>2, <1>4, <2>1, <2>2, <2>3 DEF CycleInv
  <1>. QED  BY <1>1, <1>5, SameTruth DEF MultiplierInv

(* A cycle goes on to its next exchange. *)
LEMMA Going ==
    ASSUME CycleInv, time' = time, cycle # None,
           cycle' = [cycle EXCEPT !.contracts = None, !.next = @ + 1]
    PROVE  CycleInv'
  <1>. DEFINE next == [effectiveAt |-> cycle.effectiveAt, begun |-> cycle.begun,
                       next |-> cycle.next + 1, contracts |-> None,
                       at |-> cycle.at]
  <1>1. cycle = [effectiveAt |-> cycle.effectiveAt, begun |-> cycle.begun,
                 next |-> cycle.next, contracts |-> cycle.contracts,
                 at |-> cycle.at]
    BY DEF CycleInv
  <1>2. cycle' = next
    BY <1>1
  <1>. HIDE DEF next
  <1>3. /\ next.effectiveAt = cycle.effectiveAt /\ next.begun = cycle.begun
        /\ next.next = cycle.next + 1 /\ next.contracts = None
        /\ next = [effectiveAt |-> next.effectiveAt, begun |-> next.begun,
                   next |-> next.next, contracts |-> next.contracts,
                   at |-> next.at]
    BY DEF next
  <1>4. /\ cycle.begun \in 0 .. time /\ cycle.next + 1 \in Nat \ {0}
        /\ cycle.effectiveAt = DayStart(cycle.begun)
    BY DEF CycleInv
  <1>. QED  BY <1>2, <1>3, <1>4 DEF CycleInv

-----------------------------------------------------------------------------
(* The steps.                                                              *)

LEMMA Storing ==
    ASSUME MultiplierInv, StoreContracts
    PROVE  MultiplierInv'
  <1>. DEFINE e == Exchanges[cycle.next]
              keys == Rows(e, cycle.contracts, cycle.effectiveAt)
  <1>1. /\ cycle # None /\ cycle.contracts # None
        /\ UNCHANGED <<time, listed, truth, changed>>
        /\ cycle' = [cycle EXCEPT !.contracts = None, !.next = @ + 1]
    BY DEF StoreContracts
  <1>2. CycleInv'
    BY <1>1, Going DEF MultiplierInv
  <1>3. TruthInv'
    BY <1>1 DEF MultiplierInv, TruthInv, Unchanged
  <1>4. /\ stored' = [key \in keys \cup DOMAIN stored |->
                        IF key \in keys THEN cycle.contracts[key[2]]
                        ELSE stored[key]]
        /\ fetched' = [key \in keys \cup DOMAIN fetched |->
                        IF key \in keys THEN cycle.at ELSE fetched[key]]
    BY DEF StoreContracts
  <1>5. /\ cycle.begun \in 0 .. time /\ cycle.at \in cycle.begun .. time
        /\ cycle.effectiveAt = DayStart(cycle.begun) /\ time \in Nat
        /\ \A i \in Instruments : Truthful(e, i, cycle.at, cycle.contracts[i])
    BY <1>1 DEF MultiplierInv, CycleInv, TruthInv
  <1>6. RowsInv'
    <2>1. DOMAIN stored' = DOMAIN fetched'
      BY <1>4 DEF MultiplierInv, RowsInv
    <2>2. ASSUME NEW x \in Exchange, NEW i \in Instruments, NEW d,
                 <<x, i, d>> \in DOMAIN stored'
          PROVE  RowOf(x, i, d)'
      <3>1. CASE <<x, i, d>> \in keys
        <4>1. x = e /\ d = cycle.effectiveAt
          BY <3>1 DEF Rows
        <4>2. stored'[<<x, i, d>>] = cycle.contracts[i]
          BY <1>4, <3>1
        <4>3. fetched'[<<x, i, d>>] = cycle.at
          BY <1>4, <3>1
        <4>4. /\ d \in Nat /\ Midnight(d) /\ d =< cycle.begun
          BY <1>5, <4>1, Days
        <4>5. cycle.at \in d .. time'
          BY <1>1, <1>5, <4>4
        <4>6. Truthful(x, i, cycle.at, cycle.contracts[i])
          BY <1>5, <4>1
        <4>7. cycle.contracts[i] = truth'[cycle.at][x][i] \/ <<x, i, cycle.at>> \in changed'
          BY <1>1, <4>6 DEF Truthful
        <4>. QED  BY <4>2, <4>3, <4>4, <4>5, <4>7 DEF RowOf, Truthful
      <3>2. CASE <<x, i, d>> \notin keys
        <4>1. <<x, i, d>> \in DOMAIN stored /\ <<x, i, d>> \in DOMAIN fetched
          BY <1>4, <2>2, <3>2 DEF MultiplierInv, RowsInv
        <4>2. /\ stored'[<<x, i, d>>] = stored[<<x, i, d>>]
              /\ fetched'[<<x, i, d>>] = fetched[<<x, i, d>>]
          BY <1>4, <3>2, <4>1
        <4>3. RowOf(x, i, d)
          BY <4>1 DEF MultiplierInv, RowsInv
        <4>. QED  BY <1>1, <4>2, <4>3 DEF RowOf, Truthful
      <3>. QED  BY <3>1, <3>2
    <2>. QED  BY <2>1, <2>2 DEF RowsInv
  <1>. QED  BY <1>2, <1>3, <1>6 DEF MultiplierInv

(* A listing that changes now takes back nothing that was read before, and *)
(* what was read at this very moment counts as changed.                    *)
LEMMA Relisting ==
    ASSUME MultiplierInv, Relist
    PROVE  MultiplierInv'
  <1>1. /\ UNCHANGED <<time, stored, fetched, cycle>>
        /\ truth' = [truth EXCEPT ![time] = listed']
    BY DEF Relist
  <1>2. PICK e \in Exchange, i \in Instruments, m \in Multipliers \cup {None} :
          /\ listed' = [listed EXCEPT ![e][i] = m]
          /\ changed' = changed \cup {<<e, i, time>>}
    BY DEF Relist
  <1>3. /\ time \in Nat /\ DOMAIN truth = 0 .. time /\ truth[time] = listed
        /\ \A t \in 0 .. time : Listings(truth[t])
    BY DEF MultiplierInv, TruthInv
  <1>4. Listings(listed) /\ Listings(listed)'
    <2>1. Listings(listed)
      BY <1>3
    <2>2. listed'[e] = [listed[e] EXCEPT ![i] = m]
      BY <1>2, <2>1 DEF Listings
    <2>3. DOMAIN listed'[e] = Instruments
      BY <2>1, <2>2 DEF Listings
    <2>4. \A x \in Exchange : DOMAIN listed'[x] = Instruments
      BY <1>2, <2>1, <2>3 DEF Listings
    <2>. QED  BY <1>2, <2>1, <2>4 DEF Listings
  <1>5. /\ DOMAIN truth' = 0 .. time' /\ truth'[time'] = listed'
        /\ \A t \in 0 .. time : t # time => truth'[t] = truth[t]
    BY <1>1, <1>3
  <1>6. \A x \in Exchange, j \in Instruments :
          listed'[x][j] = listed[x][j] \/ <<x, j, time>> \in changed'
    BY <1>2, <1>4 DEF Listings
  <1>7. \A x \in Exchange, j \in Instruments : \A t \in 0 .. time :
          truth'[t][x][j] = truth[t][x][j] \/ (t = time /\ <<x, j, t>> \in changed')
    BY <1>1, <1>3, <1>5, <1>6
  <1>8. changed \subseteq changed'
    BY <1>2
  <1>9. \A x \in Exchange, j \in Instruments : \A at \in 0 .. time : \A n :
          Truthful(x, j, at, n) => Truthful(x, j, at, n)'
    BY <1>7, <1>8 DEF Truthful
  <1>10. TruthInv'
    <2>1. ASSUME NEW x \in Exchange, NEW j \in Instruments,
                 NEW a \in 0 .. time, NEW b \in 0 .. time,
                 a =< b, Unchanged(x, j, a + 1, b)'
          PROVE  truth'[a][x][j] = truth'[b][x][j]
      <3>1. Unchanged(x, j, a + 1, b)
        BY <1>8, <2>1 DEF Unchanged
      <3>2. truth[a][x][j] = truth[b][x][j]
        BY <2>1, <3>1 DEF MultiplierInv, TruthInv
      <3>3. CASE a = b
        BY <3>3
      <3>4. CASE a < b
        <4>1. a # time /\ <<x, j, b>> \notin changed'
          BY <1>3, <2>1, <3>4 DEF Unchanged
        <4>2. truth'[b][x][j] = truth[b][x][j]
          BY <1>7, <4>1
        <4>. QED  BY <1>5, <3>2, <4>1, <4>2
      <3>. QED  BY <1>3, <2>1, <3>3, <3>4
    <2>2. \A t \in 0 .. time : Listings(truth[t])'
      BY <1>1, <1>3, <1>4, <1>5 DEF Listings
    <2>. QED  BY <1>1, <1>3, <1>5, <2>1, <2>2 DEF TruthInv
  <1>11. CycleInv'
    <2>1. CASE cycle = None
      BY <1>1, <2>1 DEF CycleInv
    <2>2. CASE cycle # None /\ cycle.contracts = None
      BY <1>1, <2>2 DEF MultiplierInv, CycleInv
    <2>3. CASE cycle # None /\ cycle.contracts # None
      <3>1. /\ cycle.next \in 1 .. Len(Exchanges)
            /\ cycle.at \in 0 .. time
            /\ \A j \in Instruments :
                 Truthful(Exchanges[cycle.next], j, cycle.at, cycle.contracts[j])
        BY <1>3, <2>3, MultiplierAssumption DEF MultiplierInv, CycleInv
      <3>2. Exchanges[cycle.next] \in Exchange
        BY <3>1, MultiplierAssumption DEF Exchange, Range
      <3>3. \A j \in Instruments :
              Truthful(Exchanges[cycle.next], j, cycle.at, cycle.contracts[j])'
        BY <1>1, <1>9, <3>1, <3>2 DEF Truthful
      <3>. QED  BY <1>1, <2>3, <3>3 DEF MultiplierInv, CycleInv
    <2>. QED  BY <2>1, <2>2, <2>3
  <1>12. RowsInv'
    <2>1. ASSUME NEW x \in Exchange, NEW j \in Instruments, NEW d,
                 <<x, j, d>> \in DOMAIN stored
          PROVE  RowOf(x, j, d)'
      <3>1. RowOf(x, j, d)
        BY <2>1 DEF MultiplierInv, RowsInv
      <3>2. fetched[<<x, j, d>>] \in 0 .. time
        BY <1>3, <3>1 DEF RowOf
      <3>3. Truthful(x, j, fetched[<<x, j, d>>], stored[<<x, j, d>>])'
        BY <1>1, <1>9, <3>1, <3>2 DEF RowOf, Truthful
      <3>. QED  BY <1>1, <3>1, <3>3 DEF RowOf, Truthful
    <2>. QED  BY <1>1, <2>1 DEF MultiplierInv, RowsInv
  <1>. QED  BY <1>10, <1>11, <1>12 DEF MultiplierInv

(* A moment later the exchange lists what it listed. *)
LEMMA Ticking ==
    ASSUME MultiplierInv, MidnightTick
    PROVE  MultiplierInv'
  <1>1. /\ time' = time + 1 /\ UNCHANGED <<listed, stored, fetched, cycle, changed>>
        /\ truth' = [t \in 0 .. time' |-> IF t = time' THEN listed ELSE truth[t]]
    BY DEF MidnightTick
  <1>2. /\ time \in Nat /\ DOMAIN truth = 0 .. time /\ truth[time] = listed
        /\ \A t \in 0 .. time : Listings(truth[t])
    BY DEF MultiplierInv, TruthInv
  <1>3. /\ truth'[time'] = listed /\ \A t \in 0 .. time : truth'[t] = truth[t]
        /\ DOMAIN truth' = 0 .. time' /\ time' \in Nat
    BY <1>1, <1>2
  <1>4. \A x, j : \A at \in 0 .. time : \A n :
          Truthful(x, j, at, n) => Truthful(x, j, at, n)'
    BY <1>1, <1>3 DEF Truthful
  <1>5. TruthInv'
    <2>1. ASSUME NEW x \in Exchange, NEW j \in Instruments,
                 NEW a \in 0 .. time', NEW b \in 0 .. time',
                 a =< b, Unchanged(x, j, a + 1, b)'
          PROVE  truth'[a][x][j] = truth'[b][x][j]
      <3>1. CASE b =< time
        <4>1. Unchanged(x, j, a + 1, b) /\ a \in 0 .. time /\ b \in 0 .. time
          BY <1>1, <1>2, <2>1, <3>1 DEF Unchanged
        <4>2. truth[a][x][j] = truth[b][x][j]
          BY <2>1, <4>1 DEF MultiplierInv, TruthInv
        <4>. QED  BY <1>3, <4>1, <4>2
      <3>2. CASE a =< time /\ b = time'
        <4>1. Unchanged(x, j, a + 1, time) /\ a \in 0 .. time
          BY <1>1, <1>2, <2>1, <3>2 DEF Unchanged
        <4>2. truth[a][x][j] = truth[time][x][j]
          BY <1>2, <4>1 DEF MultiplierInv, TruthInv
        <4>. QED  BY <1>2, <1>3, <3>2, <4>1, <4>2
      <3>3. CASE a = b
        BY <3>3
      <3>. QED  BY <1>1, <1>2, <2>1, <3>1, <3>2, <3>3
    <2>2. \A t \in 0 .. time' : Listings(truth[t])'
      BY <1>1, <1>2, <1>3 DEF Listings
    <2>. QED  BY <1>1, <1>3, <2>1, <2>2 DEF TruthInv
  <1>6. CycleInv'
    <2>1. CASE cycle = None \/ cycle.contracts = None
      BY <1>1, <1>2, <2>1 DEF MultiplierInv, CycleInv
    <2>2. CASE cycle # None /\ cycle.contracts # None
      <3>1. /\ cycle.at \in 0 .. time
            /\ \A j \in Instruments :
                 Truthful(Exchanges[cycle.next], j, cycle.at, cycle.contracts[j])
        BY <1>2, <2>2 DEF MultiplierInv, CycleInv
      <3>2. \A j \in Instruments :
              Truthful(Exchanges[cycle.next], j, cycle.at, cycle.contracts[j])'
        BY <1>1, <1>4, <3>1 DEF Truthful
      <3>. QED  BY <1>1, <1>2, <2>2, <3>2 DEF MultiplierInv, CycleInv
    <2>. QED  BY <2>1, <2>2
  <1>7. RowsInv'
    <2>1. ASSUME NEW x \in Exchange, NEW j \in Instruments, NEW d,
                 <<x, j, d>> \in DOMAIN stored
          PROVE  RowOf(x, j, d)'
      <3>1. RowOf(x, j, d)
        BY <2>1 DEF MultiplierInv, RowsInv
      <3>2. fetched[<<x, j, d>>] \in 0 .. time
        BY <1>2, <3>1 DEF RowOf
      <3>3. Truthful(x, j, fetched[<<x, j, d>>], stored[<<x, j, d>>])'
        BY <1>1, <1>4, <3>1, <3>2 DEF RowOf, Truthful
      <3>. QED  BY <1>1, <1>2, <3>1, <3>3 DEF RowOf, Truthful
    <2>. QED  BY <1>1, <2>1 DEF MultiplierInv, RowsInv
  <1>. QED  BY <1>5, <1>6, <1>7 DEF MultiplierInv

LEMMA MultiplierStart ==
    ASSUME MultipliersInit
    PROVE  MultiplierInv
  <1>1. TruthInv
    BY DEF MultipliersInit, TruthInv, Listings
  <1>2. CycleInv
    BY DEF MultipliersInit, CycleInv, BeginAt
  <1>3. RowsInv
    BY DEF MultipliersInit, RowsInv
  <1>. QED  BY <1>1, <1>2, <1>3 DEF MultiplierInv

LEMMA MultiplierStep ==
    ASSUME MultiplierInv, [MultipliersNext]_multiplierVars
    PROVE  MultiplierInv'
  <1>1. CASE BeginCycle
    BY <1>1, Beginning DEF BeginCycle
  <1>2. CASE FetchContracts
    BY <1>2, Fetching
  <1>3. CASE StoreContracts
    BY <1>3, Storing
  <1>4. CASE RefreshFails
    <2>1. CycleInv'
      BY <1>4, Going DEF RefreshFails, AfterFailure, MultiplierInv
    <2>2. UNCHANGED <<time, listed, truth, stored, fetched, changed>>
      BY <1>4 DEF RefreshFails
    <2>. QED  BY <2>1, <2>2, SameTruth DEF MultiplierInv
  <1>5. CASE EndCycle
    <2>1. CycleInv'
      BY <1>5 DEF EndCycle, CycleInv
    <2>2. UNCHANGED <<time, listed, truth, stored, fetched, changed>>
      BY <1>5 DEF EndCycle
    <2>. QED  BY <2>1, <2>2, SameTruth DEF MultiplierInv
  <1>6. CASE RestartServer
    BY <1>6, Beginning DEF RestartServer
  <1>7. CASE Relist
    BY <1>7, Relisting
  <1>8. CASE MidnightTick
    BY <1>8, Ticking
  <1>9. CASE UNCHANGED multiplierVars
    <2>1. UNCHANGED <<time, listed, truth, stored, fetched, cycle, changed>>
      BY <1>9 DEF multiplierVars
    <2>2. TruthInv' /\ RowsInv'
      BY <2>1, SameTruth
    <2>3. CycleInv'
      BY <2>1 DEF MultiplierInv, CycleInv, Truthful
    <2>. QED  BY <2>2, <2>3 DEF MultiplierInv
  <1>. QED  BY <1>1, <1>2, <1>3, <1>4, <1>5, <1>6, <1>7, <1>8, <1>9
            DEF MultipliersNext

-----------------------------------------------------------------------------
(* What a lookup finds.                                                    *)

(* With a snapshot not after ts, the last of them counts. *)
LEMMA LastSnapshot ==
    ASSUME time \in Nat, NEW e, NEW i, NEW ts \in Int,
           \E at \in Effective(e, i) : at =< ts
    PROVE  LET last == SnapshotFor(Effective(e, i), ts)
           IN  /\ last \in Effective(e, i) /\ last =< ts
               /\ \A at \in Effective(e, i) : at =< ts => at =< last
               /\ MultiplierAt(e, i, ts) = stored[<<e, i, last>>]
  <1>. DEFINE past == {at \in Effective(e, i) : at =< ts}
  <1>1. past \subseteq Nat /\ past # {} /\ \A at \in past : at =< time
    BY DEF Effective
  <1>2. Max(past) \in past /\ \A at \in past : Max(past) >= at
    BY <1>1, GreatestOf
  <1>3. SnapshotFor(Effective(e, i), ts) = Max(past)
    BY <1>1 DEF SnapshotFor
  <1>4. Effective(e, i) # {}
    OBVIOUS
  <1>5. MultiplierAt(e, i, ts) = stored[<<e, i, Max(past)>>]
    BY <1>3, <1>4 DEF MultiplierAt
  <1>6. \A at \in past : at \in Int
    BY <1>1
  <1>. HIDE DEF past
  <1>7. Max(past) \in Effective(e, i) /\ Max(past) =< ts
    BY <1>2 DEF past
  <1>8. \A at \in Effective(e, i) : at =< ts => at =< Max(past)
    BY <1>1, <1>2 DEF past
  <1>. QED  BY <1>3, <1>5, <1>7, <1>8

LEMMA TrueMultipliers ==
    ASSUME MultiplierInv
    PROVE  MultiplierIsTrue
  <1>. SUFFICES ASSUME NEW e \in Exchange, NEW i \in Instruments,
                       NEW ts \in 0 .. time,
                       <<e, i, DayStart(ts)>> \in DOMAIN fetched,
                       fetched[<<e, i, DayStart(ts)>>] < NextMidnight(ts),
                       SteadyDay(e, i, DayStart(ts))
                PROVE  MultiplierAt(e, i, ts) = truth[ts][e][i]
    BY DEF MultiplierIsTrue
  <1>. DEFINE day == DayStart(ts)
              read == fetched[<<e, i, day>>]
              last == SnapshotFor(Effective(e, i), ts)
  <1>1. /\ time \in Nat /\ ts \in Nat /\ DayLength \in Nat \ {0}
        /\ <<e, i, day>> \in DOMAIN stored /\ RowOf(e, i, day)
    BY MultiplierAssumption DEF MultiplierInv, TruthInv, RowsInv
  <1>2. /\ day \in Nat /\ Midnight(day) /\ day =< ts /\ ts < day + DayLength
        /\ \A d : Midnight(d) /\ d =< ts => d =< day
    BY <1>1, Days
  <1>3. day \in Effective(e, i)
    BY <1>1, <1>2 DEF Effective
  <1>4. /\ last \in Effective(e, i) /\ last =< ts /\ day =< last
        /\ MultiplierAt(e, i, ts) = stored[<<e, i, last>>]
    BY <1>1, <1>2, <1>3, LastSnapshot
  <1>5. last = day
    <2>1. <<e, i, last>> \in DOMAIN stored /\ last \in Nat
      BY <1>4 DEF Effective
    <2>2. Midnight(last)
      BY <2>1 DEF MultiplierInv, RowsInv, RowOf
    <2>. QED  BY <1>2, <1>4, <2>1, <2>2
  <1>6. read \in day .. time /\ read < day + DayLength
    BY <1>1 DEF RowOf, NextMidnight
  <1>7. \A t \in day .. (day + DayLength) - 1 : <<e, i, t>> \notin changed
    BY <1>1, <1>2, DayOfMidnight DEF SteadyDay, NextMidnight
  <1>8. stored[<<e, i, day>>] = truth[read][e][i]
    BY <1>1, <1>2, <1>6, <1>7 DEF RowOf, Truthful
  <1>9. truth[read][e][i] = truth[ts][e][i]
    <2>1. CASE read =< ts
      <3>1. Unchanged(e, i, read + 1, ts)
        BY <1>1, <1>2, <1>6, <1>7 DEF Unchanged
      <3>. QED  BY <1>1, <1>2, <1>6, <2>1, <3>1 DEF MultiplierInv, TruthInv
    <2>2. CASE ts =< read
      <3>1. Unchanged(e, i, ts + 1, read)
        BY <1>1, <1>2, <1>6, <1>7 DEF Unchanged
      <3>. QED  BY <1>1, <1>2, <1>6, <2>2, <3>1 DEF MultiplierInv, TruthInv
    <2>. QED  BY <1>1, <1>2, <1>6, <2>1, <2>2
  <1>. QED  BY <1>4, <1>5, <1>8, <1>9

(* A trade of a day whose contracts were read that day, and did not change *)
(* during it, is valued with the multiplier the exchange had               *)
(* (multiplier_at, upsert_specs).                                          *)
THEOREM MultipliersAreTrue == MultipliersSpec => []MultiplierIsTrue
  <1>1. MultipliersInit => MultiplierInv
    BY MultiplierStart
  <1>2. MultiplierInv /\ [MultipliersNext]_multiplierVars => MultiplierInv'
    BY MultiplierStep
  <1>3. MultiplierInv => MultiplierIsTrue
    BY TrueMultipliers
  <1>. QED  BY <1>1, <1>2, <1>3, PTL DEF MultipliersSpec

(* No step adds, takes away or corrects a snapshot of the days before the  *)
(* cycle's own.                                                            *)
LEMMA PastSnapshots ==
    ASSUME MultiplierInv, MultipliersNext,
           NEW e \in Exchange, NEW i \in Instruments, NEW ts \in 0 .. time,
           cycle # None => ts < DayStart(cycle.begun)
    PROVE  LET past == {at \in Effective(e, i) : at =< ts}
           IN  /\ past' = past
               /\ \A at \in past : stored'[<<e, i, at>>] = stored[<<e, i, at>>]
  <1>. DEFINE past == {at \in Effective(e, i) : at =< ts}
  <1>0. time \in Nat
    BY DEF MultiplierInv, TruthInv
  <1>1. CASE StoreContracts
    <2>. DEFINE keys == Rows(Exchanges[cycle.next], cycle.contracts, cycle.effectiveAt)
    <2>1. /\ cycle # None /\ time' = time
          /\ stored' = [key \in keys \cup DOMAIN stored |->
                          IF key \in keys THEN cycle.contracts[key[2]]
                          ELSE stored[key]]
      BY <1>1 DEF StoreContracts
    <2>2. ts < cycle.effectiveAt
      BY <2>1 DEF MultiplierInv, CycleInv
    <2>3. \A at \in 0 .. time : at =< ts => <<e, i, at>> \notin keys
      <3>1. \A at : <<e, i, at>> \in keys => at = cycle.effectiveAt
        BY DEF Rows
      <3>2. cycle.effectiveAt \in Int
        BY <1>0, <2>1, Days DEF MultiplierInv, CycleInv
      <3>. QED  BY <1>0, <2>2, <3>1, <3>2
    <2>. HIDE DEF keys
    <2>4. \A at \in 0 .. time : at =< ts =>
            /\ <<e, i, at>> \in DOMAIN stored' <=> <<e, i, at>> \in DOMAIN stored
            /\ <<e, i, at>> \in DOMAIN stored =>
                 stored'[<<e, i, at>>] = stored[<<e, i, at>>]
      BY <2>1, <2>3
    <2>. QED  BY <2>1, <2>4 DEF Effective
  <1>2. CASE MidnightTick
    <2>1. time' = time + 1 /\ stored' = stored
      BY <1>2 DEF MidnightTick
    <2>. QED  BY <1>0, <2>1 DEF Effective
  <1>3. CASE UNCHANGED <<time, stored>>
    BY <1>3 DEF Effective
  <1>. QED  BY <1>1, <1>2, <1>3 DEF MultipliersNext, BeginCycle, FetchContracts,
            RefreshFails, EndCycle, RestartServer, Relist

LEMMA PastLookups ==
    ASSUME MultiplierInv, MultipliersNext,
           NEW e \in Exchange, NEW i \in Instruments, NEW ts \in 0 .. time,
           \E at \in Effective(e, i) : at =< ts,
           cycle # None => ts < DayStart(cycle.begun)
    PROVE  MultiplierAt(e, i, ts)' = MultiplierAt(e, i, ts)
  <1>. DEFINE past == {at \in Effective(e, i) : at =< ts}
              last == Max(past)
  <1>1. /\ past' = past
        /\ \A at \in past : stored'[<<e, i, at>>] = stored[<<e, i, at>>]
    BY PastSnapshots
  <1>2. past # {}
    OBVIOUS
  <1>3. SnapshotFor(Effective(e, i), ts) = last
    BY <1>2 DEF SnapshotFor
  <1>4. SnapshotFor(Effective(e, i)', ts) = last
    BY <1>1, <1>2 DEF SnapshotFor
  <1>5. last \in past
    <2>1. past \subseteq Nat /\ time \in Nat /\ \A at \in past : at =< time
      BY DEF Effective, MultiplierInv, TruthInv
    <2>. QED  BY <1>2, <2>1, GreatestOf
  <1>6. Effective(e, i) # {} /\ Effective(e, i)' # {}
    BY <1>1, <1>2
  <1>7. MultiplierAt(e, i, ts) = stored[<<e, i, last>>]
    BY <1>3, <1>6 DEF MultiplierAt
  <1>8. MultiplierAt(e, i, ts)' = stored'[<<e, i, last>>]
    BY <1>4, <1>6 DEF MultiplierAt
  <1>. QED  BY <1>1, <1>5, <1>7, <1>8

(* What a lookup gives for a time before the day a cycle began stays what  *)
(* it was (effective_at_ms, multiplier_at).                                *)
THEOREM PastLookupsStay == MultipliersSpec => PastMultipliersStay
  <1>1. MultipliersInit => MultiplierInv
    BY MultiplierStart
  <1>2. MultiplierInv /\ [MultipliersNext]_multiplierVars => MultiplierInv'
    BY MultiplierStep
  <1>3. MultiplierInv /\ [MultipliersNext]_multiplierVars =>
          [\A e \in Exchange, i \in Instruments, ts \in 0 .. time :
             /\ \E at \in Effective(e, i) : at =< ts
             /\ cycle # None => ts < DayStart(cycle.begun)
             => MultiplierAt(e, i, ts)' = MultiplierAt(e, i, ts)]_multiplierVars
    BY PastLookups
  <1>. QED  BY <1>1, <1>2, <1>3, PTL DEF MultipliersSpec, PastMultipliersStay

-----------------------------------------------------------------------------
(* Position limits again: what the rows show.                              *)

(* Induction: a set of numbers with 0 and every successor has them all.    *)
LEMMA NumberInduction ==
    ASSUME NEW S, 0 \in S, \A n \in Nat : n \in S => n + 1 \in S
    PROVE  \A n \in Nat : n \in S
  <1>. SUFFICES ASSUME Nat \ S # {}  PROVE FALSE
    OBVIOUS
  <1>1. PICK n \in Nat \ S : \A m \in Nat \ S : n =< m
    <2>. DEFINE T == Nat \ S
    <2>. HIDE DEF T
    <2>1. T \subseteq Nat /\ T # {}
      BY DEF T
    <2>2. \E x \in T : \A y \in T : x =< y
      BY <2>1, LeastOf
    <2>. QED  BY <2>2 DEF T
  <1>2. n # 0 /\ n - 1 \in Nat /\ n - 1 < n
    BY <1>1
  <1>3. n - 1 \in S
    BY <1>1, <1>2
  <1>. QED  BY <1>1, <1>2, <1>3

(* The sums of the first values, as a finite table. *)
SumsTo(g, values, n) ==
    /\ g \in [0 .. n -> Int]
    /\ \A k \in 0 .. n : g[k] = IF k = 0 THEN 0 ELSE g[k - 1] + values[k]

(* A total of integers is one; of zeros it is 0. *)
LEMMA TotalType ==
    ASSUME NEW n \in Nat, NEW values \in [1 .. n -> Int]
    PROVE  /\ Total(values) \in Int
           /\ (\A k \in 1 .. n : values[k] = 0) => Total(values) = 0
  <1>. DEFINE S == {m \in Nat : m =< n => \E g : SumsTo(g, values, m)}
  <1>1. 0 \in S
    <2>1. SumsTo([k \in 0 .. 0 |-> 0], values, 0)
      BY DEF SumsTo
    <2>. QED  BY <2>1
  <1>2. ASSUME NEW m \in Nat, m \in S
        PROVE  m + 1 \in S
    <2>. SUFFICES ASSUME m + 1 =< n
                  PROVE  \E g : SumsTo(g, values, m + 1)
      OBVIOUS
    <2>1. PICK g : SumsTo(g, values, m)
      BY <1>2
    <2>. DEFINE last == g[m] + values[m + 1]
                h == [k \in 0 .. m + 1 |-> IF k = m + 1 THEN last ELSE g[k]]
    <2>2. last \in Int
      BY <2>1 DEF SumsTo
    <2>3. h \in [0 .. m + 1 -> Int]
      BY <2>1, <2>2 DEF SumsTo
    <2>4. ASSUME NEW k \in 0 .. m + 1
          PROVE  h[k] = IF k = 0 THEN 0 ELSE h[k - 1] + values[k]
      <3>1. CASE k = m + 1
        BY <3>1
      <3>2. CASE k # m + 1
        <4>1. k \in 0 .. m /\ h[k] = g[k] /\ (k # 0 => h[k - 1] = g[k - 1])
          BY <3>2
        <4>. QED  BY <2>1, <4>1 DEF SumsTo
      <3>. QED  BY <3>1, <3>2
    <2>5. SumsTo(h, values, m + 1)
      BY <2>3, <2>4 DEF SumsTo
    <2>. QED  BY <2>5
  <1>. HIDE DEF S
  <1>3. \A m \in Nat : m \in S
    BY <1>1, <1>2, NumberInduction
  <1>4. PICK g : SumsTo(g, values, n)
    BY <1>3 DEF S
  <1>5. Len(values) = n
    <2>1. values \in Seq(Int) /\ DOMAIN values = 1 .. n
      OBVIOUS
    <2>. QED  BY <2>1
  <1>. DEFINE IsSum(f) == f = [k \in 0 .. n |-> IF k = 0 THEN 0
                                                ELSE f[k - 1] + values[k]]
              sum == CHOOSE f : IsSum(f)
  <1>6. IsSum(g)
    BY <1>4 DEF SumsTo
  <1>7. IsSum(sum)
    BY <1>6
  <1>8. Total(values) = sum[n]
    BY <1>5 DEF Total
  <1>. HIDE DEF sum
  <1>. DEFINE R == {k \in Nat : k =< n => sum[k] \in Int}
  <1>9. 0 \in R
    BY <1>7
  <1>10. ASSUME NEW k \in Nat, k \in R
         PROVE  k + 1 \in R
    BY <1>7, <1>10
  <1>. HIDE DEF R
  <1>11. \A k \in Nat : k \in R
    BY <1>9, <1>10, NumberInduction
  <1>12. sum[n] \in Int
    BY <1>11 DEF R
  <1>13. ASSUME \A k \in 1 .. n : values[k] = 0
         PROVE  sum[n] = 0
    <2>. DEFINE Z == {k \in Nat : k =< n => sum[k] = 0}
    <2>1. 0 \in Z
      BY <1>7
    <2>2. ASSUME NEW k \in Nat, k \in Z
          PROVE  k + 1 \in Z
      <3>. SUFFICES ASSUME k + 1 =< n
                    PROVE  sum[k + 1] = 0
        OBVIOUS
      <3>1. sum[k] = 0
        BY <2>2
      <3>2. values[k + 1] = 0
        BY <1>13
      <3>3. sum[k + 1] = sum[k] + values[k + 1]
        BY <1>7
      <3>. QED  BY <3>1, <3>2, <3>3
    <2>. HIDE DEF Z
    <2>3. \A k \in Nat : k \in Z
      BY <2>1, <2>2, NumberInduction
    <2>. QED  BY <2>3 DEF Z
  <1>. QED  BY <1>8, <1>12, <1>13

LEMMA TotalAtType ==
    ASSUME NEW n \in Nat, NEW table, DOMAIN table = 1 .. n,
           NEW positions, NEW field,
           \A k \in 1 .. n : k \in positions => table[k][field] \in Int
    PROVE  /\ TotalAt(table, positions, field) \in Int
           /\ n = 0 => TotalAt(table, positions, field) = 0
  <1>. DEFINE values == [k \in DOMAIN table |->
                           IF k \in positions THEN table[k][field] ELSE 0]
  <1>1. values \in [1 .. n -> Int]
    OBVIOUS
  <1>. HIDE DEF values
  <1>2. Total(values) \in Int /\ (n = 0 => Total(values) = 0)
    BY <1>1, TotalType
  <1>. QED  BY <1>2 DEF TotalAt, values

-----------------------------------------------------------------------------
(* What Sorted puts in order is the whole set, when each two elements have *)
(* an order.                                                               *)
Ranks(S, R, x) == Cardinality({y \in S : <<y, x>> \in R})

LEMMA RanksOnto ==
    ASSUME NEW S, IsFiniteSet(S), NEW R,
           \A x \in S : <<x, x>> \notin R,
           \A x, y, z \in S : <<x, y>> \in R /\ <<y, z>> \in R => <<x, z>> \in R,
           \A x, y \in S : x # y => <<x, y>> \in R \/ <<y, x>> \in R
    PROVE  /\ \A x \in S : Ranks(S, R, x) \in 0 .. Cardinality(S) - 1
           /\ \A x, y \in S : Ranks(S, R, x) = Ranks(S, R, y) => x = y
           /\ \A k \in 1 .. Cardinality(S) : \E x \in S : Ranks(S, R, x) = k - 1
  <1>. DEFINE n == Cardinality(S)
              ahead(x) == {y \in S : <<y, x>> \in R}
              rank == [x \in S |-> Ranks(S, R, x) + 1]
  <1>1. n \in Nat
    BY FS_CardinalityType
  <1>2. ASSUME NEW x \in S
        PROVE  /\ IsFiniteSet(ahead(x)) /\ Cardinality(ahead(x)) \in Nat
               /\ Cardinality(ahead(x)) < n
    <2>1. ahead(x) \in SUBSET S /\ x \notin ahead(x)
      OBVIOUS
    <2>2. IsFiniteSet(ahead(x)) /\ Cardinality(ahead(x)) =< n
          /\ (n = Cardinality(ahead(x)) => S = ahead(x))
      BY <2>1, FS_Subset
    <2>3. Cardinality(ahead(x)) \in Nat
      BY <2>2, FS_CardinalityType
    <2>. QED  BY <1>1, <2>1, <2>2, <2>3
  <1>3. ASSUME NEW x \in S, NEW y \in S, <<x, y>> \in R
        PROVE  Cardinality(ahead(x)) < Cardinality(ahead(y))
    <2>1. ahead(x) \in SUBSET ahead(y) /\ x \in ahead(y) /\ x \notin ahead(x)
      BY <1>3
    <2>2. Cardinality(ahead(x)) =< Cardinality(ahead(y))
          /\ (Cardinality(ahead(y)) = Cardinality(ahead(x))
                => ahead(y) = ahead(x))
      BY <1>2, <2>1, FS_Subset
    <2>3. ahead(y) # ahead(x)
      BY <2>1
    <2>4. Cardinality(ahead(x)) \in Nat /\ Cardinality(ahead(y)) \in Nat
      BY <1>2
    <2>. HIDE DEF ahead
    <2>. QED  BY <2>2, <2>3, <2>4
  <1>4. \A x \in S : Ranks(S, R, x) = Cardinality(ahead(x))
    BY DEF Ranks
  <1>. HIDE DEF ahead, n
  <1>5. \A x \in S : Ranks(S, R, x) \in 0 .. n - 1
    BY <1>1, <1>2, <1>4
  <1>6. ASSUME NEW x \in S, NEW y \in S, Ranks(S, R, x) = Ranks(S, R, y)
        PROVE  x = y
    <2>1. /\ Cardinality(ahead(x)) = Cardinality(ahead(y))
          /\ Cardinality(ahead(x)) \in Nat
      BY <1>2, <1>4, <1>6
    <2>2. <<x, y>> \notin R /\ <<y, x>> \notin R
      BY <1>3, <2>1
    <2>. QED  BY <2>2
  <1>7. rank \in Injection(S, 1 .. n)
    <2>1. rank \in [S -> 1 .. n]
      BY <1>1, <1>5
    <2>2. \A x, y \in S : rank[x] = rank[y] => x = y
      BY <1>2, <1>4, <1>6
    <2>. QED  BY <2>1, <2>2 DEF Injection, IsInjective
  <1>8. IsFiniteSet(1 .. n) /\ Cardinality(1 .. n) = n
    BY <1>1, FS_Interval
  <1>9. rank \in Surjection(S, 1 .. n)
    BY <1>7, <1>8, FS_Injection DEF n
  <1>10. ASSUME NEW k \in 1 .. n
         PROVE  \E x \in S : Ranks(S, R, x) = k - 1
    <2>1. PICK x \in S : rank[x] = k
      BY <1>9 DEF Surjection
    <2>2. Ranks(S, R, x) + 1 = k /\ Ranks(S, R, x) \in Nat
      BY <1>2, <1>4, <2>1
    <2>. QED  BY <1>1, <2>2
  <1>. QED  BY <1>5, <1>6, <1>10 DEF n

LEMMA SortedRows ==
    ASSUME NEW S, IsFiniteSet(S),
           \A x \in S : ~Before(x, x),
           \A x, y, z \in S : Before(x, y) /\ Before(y, z) => Before(x, z),
           \A x, y \in S : x # y => Before(x, y) \/ Before(y, x)
    PROVE  S \subseteq Range(Sorted(S, Before))
  <1>. DEFINE n == Cardinality(S)
              R == {p \in S \X S : Before(p[1], p[2])}
              rank(x) == Cardinality({y \in S : Before(y, x)})
              order == [k \in 1 .. n |-> CHOOSE x \in S : rank(x) = k - 1]
  <1>1. \A x, y \in S : <<x, y>> \in R <=> Before(x, y)
    OBVIOUS
  <1>2. \A x \in S : rank(x) = Ranks(S, R, x)
    <2>. SUFFICES ASSUME NEW x \in S
                  PROVE  rank(x) = Ranks(S, R, x)
      OBVIOUS
    <2>1. {y \in S : Before(y, x)} = {y \in S : <<y, x>> \in R}
      BY <1>1
    <2>. QED  BY <2>1 DEF Ranks
  <1>. HIDE DEF R
  <1>3. /\ \A x \in S : Ranks(S, R, x) \in 0 .. n - 1
        /\ \A x, y \in S : Ranks(S, R, x) = Ranks(S, R, y) => x = y
    BY <1>1, RanksOnto
  <1>4. Sorted(S, Before) = order
    BY DEF Sorted
  <1>. HIDE DEF rank
  <1>5. ASSUME NEW x \in S
        PROVE  \E k \in DOMAIN order : order[k] = x
    <2>. DEFINE k == rank(x) + 1
    <2>1. k \in 1 .. n /\ k - 1 = rank(x)
      BY <1>2, <1>3, FS_CardinalityType
    <2>2. order[k] \in S /\ rank(order[k]) = rank(x)
      BY <2>1
    <2>3. order[k] = x
      BY <1>2, <1>3, <2>2
    <2>. QED  BY <2>1, <2>3
  <1>. HIDE DEF order
  <1>. QED  BY <1>4, <1>5 DEF Range

LEMMA SortedReadings ==
    ASSUME NEW S, IsFiniteSet(S),
           \A x \in S : Place(x) \in Int,
           \A x, y \in S : x # y => Place(x) # Place(y),
           NEW k \in DOMAIN Sorted(S, InPlace)
    PROVE  Sorted(S, InPlace)[k] \in S
  <1>. DEFINE n == Cardinality(S)
              R == {p \in S \X S : InPlace(p[1], p[2])}
              rank(x) == Cardinality({y \in S : InPlace(y, x)})
              order == [j \in 1 .. n |-> CHOOSE x \in S : rank(x) = j - 1]
  <1>1. \A x, y \in S : <<x, y>> \in R <=> Place(x) < Place(y)
    BY DEF InPlace
  <1>2. \A x \in S : rank(x) = Ranks(S, R, x)
    <2>. SUFFICES ASSUME NEW x \in S
                  PROVE  rank(x) = Ranks(S, R, x)
      OBVIOUS
    <2>1. {y \in S : InPlace(y, x)} = {y \in S : <<y, x>> \in R}
      OBVIOUS
    <2>. QED  BY <2>1 DEF Ranks
  <1>. HIDE DEF R
  <1>3. \A j \in 1 .. n : \E x \in S : Ranks(S, R, x) = j - 1
    <2>1. \A x \in S : <<x, x>> \notin R
      BY <1>1
    <2>2. \A x, y, z \in S : <<x, y>> \in R /\ <<y, z>> \in R => <<x, z>> \in R
      BY <1>1
    <2>3. \A x, y \in S : x # y => <<x, y>> \in R \/ <<y, x>> \in R
      BY <1>1
    <2>. QED  BY <2>1, <2>2, <2>3, RanksOnto
  <1>4. Sorted(S, InPlace) = order
    BY DEF Sorted
  <1>. HIDE DEF rank
  <1>5. k \in 1 .. n
    BY <1>4
  <1>6. order[k] \in S
    BY <1>2, <1>3, <1>5
  <1>. QED  BY <1>4, <1>6

-----------------------------------------------------------------------------
(* Fractions in their order.                                               *)

LEMMA FractionsChain ==
    ASSUME NEW a \in Int, NEW b \in Int, NEW c \in Int,
           NEW p \in Positive, NEW q \in Positive, NEW r \in Positive,
           a * q >= b * p, b * r >= c * q
    PROVE  /\ a * r >= c * p
           /\ a * q > b * p \/ b * r > c * q => a * r > c * p
  <1>1. /\ p \in Nat /\ q \in Nat /\ r \in Nat /\ p >= 1 /\ q >= 1 /\ r >= 1
    BY DEF Positive
  <1>2. /\ a * q \in Int /\ b * p \in Int /\ b * r \in Int /\ c * q \in Int
        /\ a * r \in Int /\ c * p \in Int
    BY <1>1
  <1>. DEFINE x == a * q - b * p
              y == b * r - c * q
              z == a * r - c * p
  <1>3. x \in Nat /\ y \in Nat /\ z \in Int
    BY <1>2
  <1>4. q * z = r * x + p * y
    BY <1>1
  <1>. HIDE DEF x, y, z
  <1>5. /\ r * x \in Int /\ p * y \in Int
        /\ r * x >= x /\ p * y >= y
    BY <1>1, <1>3
  <1>6. q * z >= x + y
    BY <1>3, <1>4, <1>5
  <1>7. ASSUME z < 0
        PROVE  FALSE
    <2>1. q * z =< q * (-1)
      BY <1>1, <1>3, <1>7, Scaled
    <2>. QED  BY <1>1, <1>3, <1>6, <2>1
  <1>8. ASSUME z = 0
        PROVE  x = 0 /\ y = 0
    BY <1>1, <1>3, <1>6, <1>8
  <1>9. z >= 0 /\ (x > 0 \/ y > 0 => z > 0)
    BY <1>3, <1>7, <1>8
  <1>. QED  BY <1>2, <1>9 DEF x, y, z

(* A row as build_row makes it. *)
IsRow(row) ==
    /\ row.symbol \in Symbol /\ row.notional \in Int /\ row.near \in BOOLEAN
    /\ row.cap \in IfAny(Positive)

LEMMA PlaceType ==
    ASSUME NEW T, NEW seq \in Seq(T), NEW x \in Range(seq)
    PROVE  PlaceIn(seq, x) \in 1 .. Len(seq) /\ seq[PlaceIn(seq, x)] = x
  <1>. DEFINE places == {k \in DOMAIN seq : seq[k] = x}
  <1>1. places \subseteq Nat /\ places # {}
    BY DEF Range
  <1>2. \E k \in places : \A j \in places : k =< j
    BY <1>1, LeastOf
  <1>3. PlaceIn(seq, x) \in places
    BY <1>2 DEF PlaceIn, Min
  <1>. QED  BY <1>3

LEMMA RowNumbers ==
    ASSUME NEW row, IsRow(row)
    PROVE  /\ Used(row) \in Int /\ Whole(row) \in Positive
           /\ Abs(row.notional) \in Int
           /\ PlaceIn(Symbols, row.symbol) \in Int
  BY LimitsAssumption, PlaceType DEF IsRow, Used, Whole, Abs, Symbol, Positive, IfAny

LEMMA RowsOrdered ==
    /\ \A x : IsRow(x) => ~Before(x, x)
    /\ \A x, y, z : IsRow(x) /\ IsRow(y) /\ IsRow(z) /\ Before(x, y) /\ Before(y, z)
                      => Before(x, z)
    /\ \A x, y : IsRow(x) /\ IsRow(y) /\ x.symbol # y.symbol
                   => Before(x, y) \/ Before(y, x)
  <1>. DEFINE more(x, y) == Used(x) * Whole(y) > Used(y) * Whole(x)
              even(x, y) == Used(x) * Whole(y) = Used(y) * Whole(x)
              size(x) == Abs(x.notional)
              place(x) == PlaceIn(Symbols, x.symbol)
  <1>1. \A x, y : IsRow(x) /\ IsRow(y) =>
          Before(x, y) =
            IF x.near # y.near THEN x.near
            ELSE IF ~even(x, y) THEN more(x, y)
            ELSE IF size(x) # size(y) THEN size(x) > size(y)
            ELSE place(x) < place(y)
    BY DEF Before
  <1>2. \A x : IsRow(x) => x.near \in BOOLEAN /\ size(x) \in Int /\ place(x) \in Int
    BY RowNumbers DEF IsRow
  <1>3. \A x, y : IsRow(x) /\ IsRow(y) =>
          /\ more(x, y) \/ more(y, x) \/ even(x, y)
          /\ ~(more(x, y) /\ more(y, x))
          /\ (even(x, y) <=> ~more(x, y) /\ ~more(y, x))
          /\ (even(x, y) <=> even(y, x))
    <2>. SUFFICES ASSUME NEW x, NEW y, IsRow(x), IsRow(y)
                  PROVE  /\ more(x, y) \/ more(y, x) \/ even(x, y)
                         /\ ~(more(x, y) /\ more(y, x))
                         /\ (even(x, y) <=> ~more(x, y) /\ ~more(y, x))
                         /\ (even(x, y) <=> even(y, x))
      OBVIOUS
    <2>. DEFINE m == Used(x) * Whole(y)
                i == Used(y) * Whole(x)
    <2>1. m \in Int /\ i \in Int
      BY RowNumbers DEF Positive
    <2>. HIDE DEF m, i
    <2>2. /\ m > i \/ i > m \/ m = i
          /\ ~(m > i /\ i > m)
          /\ (m = i <=> ~(m > i) /\ ~(i > m))
          /\ (m = i <=> i = m)
      BY <2>1
    <2>. QED  BY <2>2, Zenon DEF m, i
  <1>4. \A x, y, z : IsRow(x) /\ IsRow(y) /\ IsRow(z) =>
          /\ ~more(y, x) /\ ~more(z, y) => ~more(z, x)
          /\ ~more(y, x) /\ ~more(z, y) /\ (more(x, y) \/ more(y, z)) => more(x, z)
    <2>. SUFFICES ASSUME NEW x, NEW y, NEW z, IsRow(x), IsRow(y), IsRow(z),
                         ~more(y, x), ~more(z, y)
                  PROVE  /\ ~more(z, x)
                         /\ more(x, y) \/ more(y, z) => more(x, z)
      OBVIOUS
    <2>1. /\ Used(x) \in Int /\ Used(y) \in Int /\ Used(z) \in Int
          /\ Whole(x) \in Positive /\ Whole(y) \in Positive /\ Whole(z) \in Positive
      BY RowNumbers
    <2>2. /\ Used(x) * Whole(y) \in Int /\ Used(y) * Whole(x) \in Int
          /\ Used(y) * Whole(z) \in Int /\ Used(z) * Whole(y) \in Int
          /\ Used(x) * Whole(z) \in Int /\ Used(z) * Whole(x) \in Int
      BY <2>1 DEF Positive
    <2>3. /\ Used(x) * Whole(y) >= Used(y) * Whole(x)
          /\ Used(y) * Whole(z) >= Used(z) * Whole(y)
      BY <2>2
    <2>4. /\ Used(x) * Whole(z) >= Used(z) * Whole(x)
          /\ more(x, y) \/ more(y, z) => more(x, z)
      BY <2>1, <2>3, FractionsChain
    <2>. QED  BY <2>2, <2>4
  <1>5. \A x, y : IsRow(x) /\ IsRow(y) /\ x.symbol # y.symbol => place(x) # place(y)
    <2>. SUFFICES ASSUME NEW x, NEW y, IsRow(x), IsRow(y), place(x) = place(y)
                  PROVE  x.symbol = y.symbol
      OBVIOUS
    <2>1. x.symbol \in Range(Symbols) /\ y.symbol \in Range(Symbols)
      BY DEF IsRow, Symbol
    <2>2. Symbols[place(x)] = x.symbol /\ Symbols[place(y)] = y.symbol
      BY <2>1, LimitsAssumption, PlaceType
    <2>. QED  BY <2>2
  <1>. HIDE DEF more, even, size, place
  <1>6. ASSUME NEW x, IsRow(x)
        PROVE  ~Before(x, x)
    <2>1. even(x, x) /\ ~more(x, x)
      BY <1>3, <1>6
    <2>2. size(x) \in Int /\ place(x) \in Int /\ ~(place(x) < place(x))
      BY <1>2, <1>6
    <2>3. Before(x, x) = (place(x) < place(x))
      BY <1>1, <1>6, <2>1
    <2>. QED  BY <2>2, <2>3
  <1>7. ASSUME NEW x, NEW y, NEW z, IsRow(x), IsRow(y), IsRow(z),
               Before(x, y), Before(y, z)
        PROVE  Before(x, z)
    BY <1>1, <1>2, <1>3, <1>4, <1>7
  <1>8. ASSUME NEW x, NEW y, IsRow(x), IsRow(y), x.symbol # y.symbol
        PROVE  Before(x, y) \/ Before(y, x)
    <2>1. CASE x.near # y.near
      BY <1>1, <1>2, <1>8, <2>1
    <2>2. CASE x.near = y.near /\ ~even(x, y)
      <3>1. (more(x, y) \/ more(y, x)) /\ ~even(y, x)
        BY <1>3, <1>8, <2>2
      <3>. QED  BY <1>1, <1>8, <2>2, <3>1
    <2>3. CASE x.near = y.near /\ even(x, y)
      <3>1. even(y, x)
        BY <1>3, <1>8, <2>3
      <3>2. place(x) < place(y) \/ place(y) < place(x)
        BY <1>2, <1>5, <1>8
      <3>3. size(x) = size(y) \/ size(x) > size(y) \/ size(y) > size(x)
        BY <1>2, <1>8
      <3>. QED  BY <1>1, <1>8, <2>3, <3>1, <3>2, <3>3
    <2>. QED  BY <2>1, <2>2, <2>3
  <1>. QED  BY <1>6, <1>7, <1>8

-----------------------------------------------------------------------------
(* The numbers of a reply.                                                 *)

LEMMA LeastType ==
    ASSUME NEW T, T \subseteq Positive
    PROVE  /\ Least(T) \in IfAny(Positive)
           /\ T # {} => Least(T) = Min(T) /\ Least(T) \in Positive
  <1>. SUFFICES ASSUME T # {}
                PROVE  Min(T) \in T
    BY DEF Least, IfAny
  <1>1. \E x \in T : \A y \in T : x =< y
    BY LeastOf DEF Positive
  <1>. QED  BY <1>1 DEF Min

(* A finite set of numbers has a bound, and so a greatest one. *)
HasBound(T) == \E bound \in Nat : \A x \in T : x =< bound

LEMMA Bounded ==
    ASSUME NEW T, T \subseteq Nat, IsFiniteSet(T)
    PROVE  HasBound(T)
  <1>. DEFINE Fits(m) == \A U \in SUBSET Nat :
                           IsFiniteSet(U) /\ Cardinality(U) = m => HasBound(U)
              S == {m \in Nat : Fits(m)}
  <1>1. Fits(0)
    BY FS_EmptySet DEF HasBound
  <1>2. ASSUME NEW m \in Nat, Fits(m)
        PROVE  Fits(m + 1)
    <2>. SUFFICES ASSUME NEW U \in SUBSET Nat, IsFiniteSet(U),
                         Cardinality(U) = m + 1
                  PROVE  HasBound(U)
      OBVIOUS
    <2>1. U # {}
      BY FS_EmptySet
    <2>2. PICK u \in U : TRUE
      BY <2>1
    <2>3. IsFiniteSet(U \ {u}) /\ Cardinality(U \ {u}) = Cardinality(U) - 1
      BY FS_RemoveElement
    <2>4. Cardinality(U \ {u}) = m /\ U \ {u} \in SUBSET Nat
      BY <2>3
    <2>5. HasBound(U \ {u})
      BY <1>2, <2>3, <2>4
    <2>6. PICK bound \in Nat : \A x \in U \ {u} : x =< bound
      BY <2>5 DEF HasBound
    <2>7. bound + u \in Nat /\ \A x \in U : x =< bound + u
      BY <2>6
    <2>. QED  BY <2>7 DEF HasBound
  <1>. HIDE DEF Fits
  <1>3. 0 \in S /\ \A m \in Nat : m \in S => m + 1 \in S
    BY <1>1, <1>2
  <1>. HIDE DEF S
  <1>4. \A m \in Nat : m \in S
    BY <1>3, NumberInduction
  <1>5. Cardinality(T) \in Nat /\ Fits(Cardinality(T))
    BY <1>4, FS_CardinalityType DEF S
  <1>. QED  BY <1>5 DEF Fits

LEMMA GreatestType ==
    ASSUME NEW T, T \subseteq Positive, IsFiniteSet(T), T # {}
    PROVE  Max(T) \in Positive /\ Max(T \cup {0}) = Max(T)
  <1>1. PICK bound \in Nat : \A x \in T : x =< bound
    BY Bounded DEF Positive, HasBound
  <1>2. Max(T) \in T /\ \A y \in T : Max(T) >= y
    BY <1>1, GreatestOf DEF Positive
  <1>3. Max(T \cup {0}) \in T \cup {0} /\ \A y \in T \cup {0} : Max(T \cup {0}) >= y
    <2>1. T \cup {0} \subseteq Nat /\ T \cup {0} # {}
          /\ \A x \in T \cup {0} : x =< bound
      BY <1>1 DEF Positive
    <2>. QED  BY <2>1, GreatestOf
  <1>4. Max(T) \in Nat /\ Max(T \cup {0}) \in Nat /\ Max(T) # 0
    <2>1. T \cup {0} \subseteq Nat /\ 0 \notin T /\ T \subseteq Nat
      BY DEF Positive
    <2>. QED  BY <1>2, <1>3, <2>1
  <1>5. Max(T \cup {0}) >= Max(T) /\ Max(T) >= Max(T \cup {0})
    BY <1>2, <1>3, <1>4
  <1>. QED  BY <1>2, <1>4, <1>5

LEMMA AtLeastZero ==
    ASSUME NEW a \in Int
    PROVE  Max({a, 0}) \in Nat
  <1>1. \E x \in {a, 0} : \A y \in {a, 0} : x >= y
    BY a >= 0 \/ a =< 0
  <1>2. Max({a, 0}) \in {a, 0} /\ \A y \in {a, 0} : Max({a, 0}) >= y
    BY <1>1 DEF Max
  <1>. QED  BY <1>2

LEMMA NoneIsNoNumber == None \notin Int /\ None \notin Positive
  BY LimitsAssumption DEF Positive

LEMMA RowsOf ==
    ASSUME NEW T, NEW table \in Seq(T)
    PROVE  /\ Len(table) \in Nat /\ DOMAIN table = 1 .. Len(table)
           /\ \A k \in DOMAIN table : table[k] \in T
           /\ table # <<>> <=> Len(table) # 0
  OBVIOUS

(* The positions of a reply. *)
LEMMA PositionsType ==
    ASSUME NEW reply, IsReply(reply), reply.positions # None, NEW s \in Symbol
    PROVE  /\ Len(reply.positions[s]) \in Nat
           /\ reply.positions[s] # <<>> <=> Len(reply.positions[s]) # 0
           /\ DOMAIN reply.positions[s] = 1 .. Len(reply.positions[s])
           /\ \A k \in DOMAIN reply.positions[s] :
                /\ reply.positions[s][k].notional \in IfAny(Int)
                /\ reply.positions[s][k].limit \in IfAny(Positive)
  <1>1. reply.positions[s]
          \in Seq([notional : IfAny(Int), limit : IfAny(Positive)])
    BY DEF IsReply
  <1>2. /\ Len(reply.positions[s]) \in Nat
        /\ reply.positions[s] # <<>> <=> Len(reply.positions[s]) # 0
        /\ DOMAIN reply.positions[s] = 1 .. Len(reply.positions[s])
        /\ \A k \in DOMAIN reply.positions[s] :
             reply.positions[s][k]
               \in [notional : IfAny(Int), limit : IfAny(Positive)]
    BY <1>1, RowsOf
  <1>. QED  BY <1>2

LEMMA NotionalType ==
    ASSUME NEW e, NEW reply, IsReply(reply), NEW s \in Symbol
    PROVE  ExchangeNotional(e, reply, s) \in IfAny(Int)
  <1>1. CASE Legs(e, reply, s) = {}
    BY <1>1 DEF ExchangeNotional, Valued, IfAny
  <1>2. CASE Legs(e, reply, s) # {}
    <2>1. reply.positions # None
      BY <1>2 DEF Legs
    <2>. DEFINE table == reply.positions[s]
                valued == Valued(e, reply, s)
    <2>2. /\ Len(table) \in Nat /\ DOMAIN table = 1 .. Len(table)
          /\ \A k \in DOMAIN table : k \in valued => table[k]["notional"] \in Int
      BY <2>1, PositionsType DEF Valued, IfAny
    <2>3. ExchangeNotional(e, reply, s)
            \in {None, TotalAt(table, valued, "notional")}
      BY DEF ExchangeNotional
    <2>. HIDE DEF table, valued
    <2>4. TotalAt(table, valued, "notional") \in Int
      BY <2>2, TotalAtType
    <2>. QED  BY <2>3, <2>4 DEF IfAny
  <1>. QED  BY <1>1, <1>2

LEMMA FuturesType ==
    ASSUME NEW reply, IsReply(reply), NEW s \in Symbol
    PROVE  ZeroIfNone(Snapshot(reply, s, "futures")) \in Int
  <1>. DEFINE table == reply.snapshot[s]
              with == {k \in DOMAIN table : table[k]["futures"] # None}
  <1>1. CASE reply.snapshot = None \/ with = {}
    BY <1>1 DEF Snapshot, ZeroIfNone
  <1>2. CASE reply.snapshot # None /\ with # {}
    <2>1. table \in Seq([open : IfAny(Int), futures : IfAny(Int)])
      BY <1>2 DEF IsReply
    <2>2. /\ Len(table) \in Nat /\ DOMAIN table = 1 .. Len(table)
          /\ \A k \in DOMAIN table :
               table[k] \in [open : IfAny(Int), futures : IfAny(Int)]
      BY <2>1, RowsOf
    <2>3. \A k \in DOMAIN table : k \in with => table[k]["futures"] \in Int
      BY <2>2 DEF IfAny
    <2>4. Snapshot(reply, s, "futures") = TotalAt(table, with, "futures")
      BY <1>2 DEF Snapshot
    <2>. HIDE DEF table, with
    <2>5. TotalAt(table, with, "futures") \in Int
      BY <2>2, <2>3, TotalAtType
    <2>. QED  BY <2>4, <2>5, NoneIsNoNumber DEF ZeroIfNone
  <1>. QED  BY <1>1, <1>2

LEMMA LimitType ==
    ASSUME NEW e, NEW reply, IsReply(reply), ~Failed(e, reply), NEW s \in Symbol
    PROVE  EffectiveLimit(e, reply, s) \in IfAny(Positive)
  <1>. DEFINE ofLegs == Known({reply.positions[s][k].limit : k \in Legs(e, reply, s)})
  <1>1. ofLegs \subseteq Positive
    <2>. SUFFICES ASSUME NEW k \in Legs(e, reply, s),
                         reply.positions[s][k].limit # None
                  PROVE  reply.positions[s][k].limit \in Positive
      BY DEF Known
    <2>1. reply.positions # None /\ k \in DOMAIN reply.positions[s]
      BY DEF Legs
    <2>. QED  BY <2>1, PositionsType DEF IfAny
  <1>. HIDE DEF ofLegs
  <1>2. CASE Venue[e] = "gate"
    <2>1. EffectiveLimit(e, reply, s) = Least(ofLegs)
      BY <1>2 DEF EffectiveLimit, ofLegs
    <2>. QED  BY <1>1, <2>1, LeastType
  <1>3. CASE Venue[e] # "gate"
    <2>. DEFINE own == IF reply.config[s] # None THEN {reply.config[s]} ELSE ofLegs
    <2>1. EffectiveLimit(e, reply, s) = Least(own \cup Bracket(e, reply, s))
      BY <1>3 DEF EffectiveLimit, ofLegs
    <2>2. reply.config[s] \in IfAny(Positive)
      BY <1>3 DEF Failed, IsReply
    <2>3. own \subseteq Positive
      BY <1>1, <2>2 DEF IfAny
    <2>4. Bracket(e, reply, s) \subseteq Positive
      <3>1. CASE Bracket(e, reply, s) = {}
        BY <3>1
      <3>2. CASE Bracket(e, reply, s) # {}
        <4>1. reply.brackets # None /\ reply.brackets[s] # {}
              /\ Bracket(e, reply, s) = {Max(reply.brackets[s])}
          BY <3>2 DEF Bracket
        <4>2. reply.brackets[s] \subseteq Positive /\ IsFiniteSet(reply.brackets[s])
          BY <4>1 DEF IsReply
        <4>3. Max(reply.brackets[s]) \in Positive
          BY <4>1, <4>2, GreatestType
        <4>. QED  BY <4>1, <4>3
      <3>. QED  BY <3>1, <3>2
    <2>. HIDE DEF own
    <2>. QED  BY <2>1, <2>3, <2>4, LeastType
  <1>. QED  BY <1>2, <1>3

LEMMA GuardType ==
    ASSUME NEW reply, IsReply(reply)
    PROVE  /\ Guard(reply).buy \in Nat /\ Guard(reply).sell \in Nat
           /\ Guard(reply).amount \in Positive
           /\ \A s \in DOMAIN Guard(reply).overrides :
                Guard(reply).overrides[s] \in Positive
  <1>1. CASE reply.guard = None
    BY <1>1, LimitsAssumption DEF Guard
  <1>2. CASE reply.guard # None
    <2>1. reply.guard.buy \in Int /\ reply.guard.sell \in Int
          /\ reply.guard.amount \in IfAny(Positive)
      BY <1>2 DEF IsReply
    <2>2. Max({reply.guard.buy, 0}) \in Nat /\ Max({reply.guard.sell, 0}) \in Nat
      BY <2>1, AtLeastZero
    <2>3. Guard(reply).buy \in Nat /\ Guard(reply).sell \in Nat
      BY <1>2, <2>2 DEF Guard
    <2>4. Guard(reply).amount \in Positive
      BY <1>2, <2>1, LimitsAssumption DEF Guard, IfAny
    <2>5. \A s \in DOMAIN Guard(reply).overrides :
            Guard(reply).overrides[s] \in Positive
      BY <1>2 DEF Guard, IsReply
    <2>. QED  BY <2>3, <2>4, <2>5
  <1>. QED  BY <1>1, <1>2

LEMMA CapType ==
    ASSUME NEW reply, IsReply(reply), NEW limit \in IfAny(Positive),
           NEW notional \in Int, NEW s
    PROVE  GuardCap(limit, notional, s, Guard(reply)) \in IfAny(Positive)
  <1>. DEFINE guard == Guard(reply)
              amount == IF s \in DOMAIN guard.overrides THEN guard.overrides[s]
                        ELSE guard.amount
              cap == limit - Pending(guard, notional) * amount
  <1>1. /\ guard.buy \in Nat /\ guard.sell \in Nat /\ guard.amount \in Positive
        /\ \A u \in DOMAIN guard.overrides : guard.overrides[u] \in Positive
    BY GuardType
  <1>2. amount \in Positive
    BY <1>1
  <1>. HIDE DEF guard, amount
  <1>3. Pending(guard, notional) \in Nat
    <2>1. \E x \in {guard.buy, guard.sell} : \A y \in {guard.buy, guard.sell} : x >= y
      BY <1>1
    <2>2. Max({guard.buy, guard.sell}) \in {guard.buy, guard.sell}
      BY <2>1 DEF Max
    <2>. QED  BY <1>1, <2>2 DEF Pending
  <1>4. limit # None => cap \in Int
    <2>1. Pending(guard, notional) * amount \in Int
      BY <1>2, <1>3 DEF Positive
    <2>2. limit # None => limit \in Int
      BY DEF Positive, IfAny
    <2>. QED  BY <2>1, <2>2
  <1>5. GuardCap(limit, notional, s, guard) =
          IF limit = None THEN None ELSE IF cap > 0 THEN cap ELSE None
    BY DEF GuardCap, amount
  <1>. HIDE DEF cap
  <1>6. GuardCap(limit, notional, s, guard) \in IfAny(Positive)
    BY <1>4, <1>5 DEF IfAny, Positive
  <1>. QED  BY <1>6 DEF guard

LEMMA RowType ==
    ASSUME NEW e, NEW reply, IsReply(reply), ~Failed(e, reply), NEW s \in Symbol
    PROVE  IsRow(Row(e, reply, s)) /\ Row(e, reply, s).symbol = s
  <1>. DEFINE exchange == ExchangeNotional(e, reply, s)
              notional == IF exchange # None THEN exchange
                          ELSE ZeroIfNone(Snapshot(reply, s, "futures"))
              cap == GuardCap(EffectiveLimit(e, reply, s), notional, s, Guard(reply))
              near == cap # None /\ 10 * Abs(notional) >= 9 * cap
  <1>1. notional \in Int
    BY NotionalType, FuturesType DEF IfAny
  <1>2. cap \in IfAny(Positive)
    BY <1>1, LimitType, CapType
  <1>3. near \in BOOLEAN
    OBVIOUS
  <1>4. Row(e, reply, s) =
          [symbol |-> s, notional |-> notional, cap |-> cap, near |-> near,
           status |-> IF near THEN "warning"
                      ELSE IF cap = None THEN "unavailable" ELSE "healthy"]
    BY DEF Row
  <1>. HIDE DEF notional, cap, near
  <1>. QED  BY <1>1, <1>2, <1>3, <1>4 DEF IsRow

-----------------------------------------------------------------------------
(* What an environment shows.                                              *)

LEMMA RowsShown ==
    ASSUME NEW e, NEW reply, IsReply(reply), ~Failed(e, reply)
    PROVE  LET table == {Row(e, reply, s) : s \in Displayed(e, reply)}
           IN table \subseteq Range(Sorted(table, Before))
  <1>. DEFINE shown == Displayed(e, reply)
              table == {Row(e, reply, s) : s \in shown}
              row == [s \in shown |-> Row(e, reply, s)]
  <1>1. shown \subseteq Symbol
    BY DEF Displayed
  <1>2. IsFiniteSet(shown)
    <2>1. Symbols \in Surjection(1 .. Len(Symbols), Symbol)
      <3>1. Symbols \in [1 .. Len(Symbols) -> Symbol]
        BY LimitsAssumption
      <3>2. \A s \in Symbol : \E k \in DOMAIN Symbols : Symbols[k] = s
        BY DEF Symbol, Range
      <3>. QED  BY <3>1, <3>2 DEF Surjection
    <2>2. IsFiniteSet(1 .. Len(Symbols))
      BY LimitsAssumption, FS_Interval
    <2>3. IsFiniteSet(Symbol)
      BY <2>1, <2>2, FS_Surjection
    <2>. HIDE DEF shown
    <2>. QED  BY <1>1, <2>3, FS_Subset
  <1>3. IsFiniteSet(table)
    <2>. HIDE DEF shown
    <2>1. row \in Surjection(shown, table)
      BY DEF Surjection
    <2>. HIDE DEF row, table
    <2>. QED  BY <1>2, <2>1, FS_Surjection
  <1>4. \A s \in shown : IsRow(Row(e, reply, s)) /\ Row(e, reply, s).symbol = s
    BY <1>1, RowType
  <1>. HIDE DEF shown
  <1>5. \A x \in table : IsRow(x)
    BY <1>4
  <1>6. \A x, y \in table : x # y => x.symbol # y.symbol
    BY <1>4
  <1>. HIDE DEF table
  <1>7. table \subseteq Range(Sorted(table, Before))
    <2>1. \A x \in table : ~Before(x, x)
      BY <1>5, RowsOrdered
    <2>2. \A x, y, z \in table : Before(x, y) /\ Before(y, z) => Before(x, z)
      BY <1>5, RowsOrdered
    <2>3. \A x, y \in table : x # y => Before(x, y) \/ Before(y, x)
      BY <1>5, <1>6, RowsOrdered
    <2>. QED  BY <1>3, <2>1, <2>2, <2>3, SortedRows
  <1>. QED  BY <1>7 DEF table, shown

(* The limit of a row is the one the exchange gives. *)
LEMMA LimitIsAllowed ==
    ASSUME NEW e, NEW reply, IsReply(reply), ~Failed(e, reply), NEW s \in Symbol,
           reply.positions # None, reply.positions[s] # <<>>,
           Venue[e] = "gate" => \A k \in DOMAIN reply.positions[s] :
                                  reply.positions[s][k].limit # None,
           Venue[e] # "gate" => reply.config[s] # None /\ reply.brackets # None
    PROVE  LET limits == IF Venue[e] = "gate"
                         THEN {reply.positions[s][k].limit :
                                 k \in DOMAIN reply.positions[s]}
                         ELSE {reply.config[s], Max(reply.brackets[s] \cup {0})}
           IN /\ EffectiveLimit(e, reply, s) = Min(limits \ {None, 0})
              /\ EffectiveLimit(e, reply, s) \in Positive
  <1>. DEFINE table == reply.positions[s]
  <1>1. CASE Venue[e] = "gate"
    <2>. DEFINE limits == {table[k].limit : k \in DOMAIN table}
    <2>1. Legs(e, reply, s) = DOMAIN table
      BY <1>1 DEF Legs
    <2>2. \A k \in DOMAIN table : table[k].limit \in Positive /\ table[k].limit # None
      BY <1>1, PositionsType DEF IfAny
    <2>3. Known(limits) = limits /\ limits \subseteq Positive
      BY <2>2 DEF Known
    <2>4. limits # {}
      <3>1. DOMAIN table # {}
        <4>1. /\ Len(table) \in Nat /\ Len(table) # 0
              /\ DOMAIN table = 1 .. Len(table)
          BY PositionsType
        <4>. HIDE DEF table
        <4>. QED  BY <4>1
      <3>. QED  BY <3>1
    <2>5. limits \ {None, 0} = limits
      BY <2>2 DEF Positive
    <2>6. EffectiveLimit(e, reply, s) = Least(limits)
      BY <1>1, <2>1, <2>3 DEF EffectiveLimit
    <2>. HIDE DEF limits
    <2>7. /\ EffectiveLimit(e, reply, s) = Min(limits \ {None, 0})
          /\ EffectiveLimit(e, reply, s) \in Positive
      BY <2>3, <2>4, <2>5, <2>6, LeastType
    <2>. QED  BY <1>1, <2>7 DEF limits
  <1>2. CASE Venue[e] # "gate"
    <2>. DEFINE brackets == reply.brackets[s]
                limits == {reply.config[s], Max(brackets \cup {0})}
                own == {reply.config[s]} \cup Bracket(e, reply, s)
    <2>1. reply.config[s] \in Positive
      BY <1>2 DEF Failed, IsReply, IfAny
    <2>2. EffectiveLimit(e, reply, s) = Least(own)
      BY <1>2 DEF EffectiveLimit
    <2>3. brackets \subseteq Positive /\ IsFiniteSet(brackets)
      BY <1>2 DEF IsReply
    <2>4. own \subseteq Positive /\ limits \ {None, 0} = own
      <3>1. CASE brackets = {}
        <4>1. Bracket(e, reply, s) = {}
          BY <3>1 DEF Bracket
        <4>2. Max(brackets \cup {0}) = 0
          BY <3>1 DEF Max
        <4>. QED  BY <2>1, <4>1, <4>2, NoneIsNoNumber DEF Positive
      <3>2. CASE brackets # {}
        <4>1. Bracket(e, reply, s) = {Max(brackets)}
          BY <1>2, <3>2 DEF Bracket
        <4>2. Max(brackets) \in Positive /\ Max(brackets \cup {0}) = Max(brackets)
          BY <2>3, <3>2, GreatestType
        <4>. QED  BY <2>1, <4>1, <4>2, NoneIsNoNumber DEF Positive
      <3>. QED  BY <3>1, <3>2
    <2>5. own # {}
      OBVIOUS
    <2>. HIDE DEF own
    <2>6. /\ EffectiveLimit(e, reply, s) = Min(limits \ {None, 0})
          /\ EffectiveLimit(e, reply, s) \in Positive
      BY <2>2, <2>4, <2>5, LeastType
    <2>. QED  BY <1>2, <2>6
  <1>. QED  BY <1>1, <1>2

(* What is held at the exchange is what the rows count. *)
LEMMA HeldIsCounted ==
    ASSUME NEW e, NEW reply, IsReply(reply), NEW s \in Symbol,
           reply.positions # None,
           Venue[e] = "gate" => \A k \in DOMAIN reply.positions[s] :
                                  reply.positions[s][k].limit # None,
           Held(reply, s) # 0
    PROVE  /\ Held(reply, s) \in Int /\ reply.positions[s] # <<>>
           /\ ExchangeNotional(e, reply, s) = Held(reply, s)
  <1>. DEFINE table == reply.positions[s]
              values == [k \in DOMAIN table |-> ZeroIfNone(table[k].notional)]
              valued == Valued(e, reply, s)
  <1>1. /\ Len(table) \in Nat /\ DOMAIN table = 1 .. Len(table)
        /\ \A k \in DOMAIN table : ZeroIfNone(table[k].notional) \in Int
    BY PositionsType DEF IfAny, ZeroIfNone
  <1>2. values \in [1 .. Len(table) -> Int]
    BY <1>1
  <1>3. Held(reply, s) = Total(values)
    BY DEF Held
  <1>4. Held(reply, s) \in Int /\ Len(table) # 0
    <2>. HIDE DEF values, table
    <2>. QED  BY <1>1, <1>2, <1>3, TotalType
  <1>5. valued = {k \in DOMAIN table : table[k].notional # None}
    BY DEF Legs, Valued
  <1>6. table # <<>>
    BY <1>4, PositionsType
  <1>7. TotalAt(table, valued, "notional") = Total(values)
    <2>1. \A k \in DOMAIN table :
            (IF k \in valued THEN table[k]["notional"] ELSE 0)
              = ZeroIfNone(table[k].notional)
      BY <1>5 DEF ZeroIfNone
    <2>. HIDE DEF valued
    <2>2. [k \in DOMAIN table |-> IF k \in valued THEN table[k]["notional"] ELSE 0]
            = values
      BY <2>1
    <2>. QED  BY <2>2 DEF TotalAt
  <1>8. valued # {}
    <2>1. SUFFICES ASSUME valued = {}
                   PROVE  Held(reply, s) = 0
      OBVIOUS
    <2>2. \A k \in DOMAIN table : ZeroIfNone(table[k].notional) = 0
      BY <1>5, <2>1 DEF ZeroIfNone
    <2>3. values = [k \in 1 .. Len(table) |-> 0]
      BY <1>1, <2>2
    <2>. HIDE DEF values, table
    <2>. QED  BY <1>1, <1>3, <2>3, TotalType
  <1>. QED  BY <1>3, <1>4, <1>6, <1>7, <1>8 DEF ExchangeNotional

LEMMA EnvironmentShows ==
    ASSUME NEW e \in Range(Environments), NEW reply, IsReply(reply)
    PROVE  HidesNothing(Environment(e, reply))
  <1>. DEFINE environment == Environment(e, reply)
              all == {Row(e, reply, s) : s \in Displayed(e, reply)}
              sorted == Sorted(all, Before)
  <1>1. CASE Failed(e, reply)
    BY <1>1 DEF Environment, HidesNothing
  <1>2. CASE ~Failed(e, reply)
    <2>1. environment = [slug |-> e, rows |-> sorted, reply |-> reply,
                         status |-> IF (\E k \in DOMAIN sorted : sorted[k].near)
                                       \/ Warned(e, reply)
                                    THEN "warning" ELSE "healthy"]
      BY <1>2 DEF Environment
    <2>2. all \subseteq Range(sorted)
      BY <1>2, RowsShown
    <2>. HIDE DEF sorted
    <2>. SUFFICES ASSUME environment.status = "healthy"
                  PROVE  HidesNothing(environment)
      BY DEF HidesNothing
    <2>3. ~Warned(e, reply) /\ \A k \in DOMAIN sorted : ~sorted[k].near
      BY <2>1
    <2>4. /\ environment.slug = e /\ environment.rows = sorted
          /\ environment.reply = reply
      BY <2>1
    <2>. HIDE DEF environment
    <2>5. Venue[e] \in {"binance", "gate"}
      BY LimitsAssumption
    <2>6. /\ reply.keys /\ reply.snapshot # None /\ reply.positions # None
          /\ reply.guard # None /\ reply.guard.overrides # None
          /\ Venue[e] = "binance" => reply.config # None /\ reply.brackets # None
      BY <1>2, <2>3, <2>5 DEF Failed, Warned
    <2>7. ASSUME NEW s \in Symbol, Held(reply, s) # 0,
                 IF Venue[e] = "gate"
                 THEN \A j \in DOMAIN reply.positions[s] :
                        reply.positions[s][j].limit # None
                 ELSE reply.config[s] # None
          PROVE  /\ \E row \in Range(sorted) :
                      row.symbol = s /\ row.notional = Held(reply, s)
                 /\ LET allowed == Allowed(e, reply, s, Held(reply, s))
                    IN allowed > 0 => 10 * Abs(Held(reply, s)) < 9 * allowed
      <3>. DEFINE held == Held(reply, s)
                  row == Row(e, reply, s)
      <3>1. /\ held \in Int /\ reply.positions[s] # <<>>
            /\ ExchangeNotional(e, reply, s) = held
        BY <2>6, <2>7, HeldIsCounted
      <3>2. held # None /\ Abs(held) \in Int /\ Abs(held) >= 1
        <4>. HIDE DEF held
        <4>1. held # 0
          BY <2>7 DEF held
        <4>. QED  BY <3>1, <4>1, NoneIsNoNumber DEF Abs
      <3>3. s \in Displayed(e, reply)
        BY <3>1, <3>2 DEF Displayed, ZeroIfNone
      <3>4. row \in Range(sorted)
        BY <2>2, <3>3
      <3>5. ~row.near
        BY <2>3, <3>4 DEF Range
      <3>. DEFINE cap == GuardCap(EffectiveLimit(e, reply, s), held, s, Guard(reply))
      <3>6. /\ row.symbol = s /\ row.notional = held
            /\ row.near = (cap # None /\ 10 * Abs(held) >= 9 * cap)
        BY <3>1, <3>2 DEF Row
      <3>. DEFINE allowed == Allowed(e, reply, s, held)
                  limit == EffectiveLimit(e, reply, s)
      <3>7. limit \in IfAny(Positive)
        BY <1>2, LimitType
      <3>8. ASSUME allowed > 0
            PROVE  allowed = cap /\ cap # None
        <4>. DEFINE side == IF held < 0 THEN reply.guard.buy ELSE reply.guard.sell
                    amount == IF s \in DOMAIN reply.guard.overrides
                              THEN reply.guard.overrides[s]
                              ELSE IF reply.guard.amount = None THEN DefaultAmount
                              ELSE reply.guard.amount
                    left == limit - Max({side, 0}) * amount
                    limits == IF Venue[e] = "gate"
                              THEN {reply.positions[s][k].limit :
                                      k \in DOMAIN reply.positions[s]}
                              ELSE {reply.config[s], Max(reply.brackets[s] \cup {0})}
        <4>1. limit \in Positive /\ allowed = left
          <5>1. limit = Min(limits \ {None, 0}) /\ limit \in Positive
            <6>1. Venue[e] = "gate" => \A k \in DOMAIN reply.positions[s] :
                                         reply.positions[s][k].limit # None
              BY <2>7
            <6>2. Venue[e] # "gate" => reply.config[s] # None /\ reply.brackets # None
              BY <2>5, <2>6, <2>7
            <6>. QED  BY <1>2, <2>6, <3>1, <6>1, <6>2, LimitIsAllowed
          <5>2. allowed = Min(limits \ {None, 0}) - Max({side, 0}) * amount
            BY DEF Allowed
          <5>. QED  BY <5>1, <5>2
        <4>2. Guard(reply) = [buy |-> Max({reply.guard.buy, 0}),
                              sell |-> Max({reply.guard.sell, 0}),
                              amount |-> IF reply.guard.amount = None
                                         THEN DefaultAmount ELSE reply.guard.amount,
                              overrides |-> reply.guard.overrides]
          BY <2>6 DEF Guard
        <4>. HIDE DEF held, limit
        <4>3. Pending(Guard(reply), held) = Max({side, 0})
          <5>1. held < 0 \/ held > 0
            BY <2>7, <3>1 DEF held
          <5>2. /\ Guard(reply).buy = Max({reply.guard.buy, 0})
                /\ Guard(reply).sell = Max({reply.guard.sell, 0})
            BY <4>2
          <5>3. CASE held < 0
            BY <5>2, <5>3 DEF Pending
          <5>4. CASE held > 0
            <6>1. ~(held < 0)
              BY <3>1, <5>4
            <6>. QED  BY <5>2, <5>4, <6>1 DEF Pending
          <5>. QED  BY <5>1, <5>3, <5>4
        <4>4. amount = IF s \in DOMAIN Guard(reply).overrides
                       THEN Guard(reply).overrides[s] ELSE Guard(reply).amount
          BY <4>2
        <4>5. amount \in Positive /\ Max({side, 0}) \in Nat
          <5>1. side \in Int
            BY <2>6 DEF IsReply
          <5>. HIDE DEF side
          <5>2. Max({side, 0}) \in Nat
            BY <5>1, AtLeastZero
          <5>. QED  BY <4>4, <5>2, GuardType
        <4>. HIDE DEF side, amount
        <4>6. left \in Int /\ limit # None
          BY <4>1, <4>5, NoneIsNoNumber DEF Positive
        <4>7. cap = IF left > 0 THEN left ELSE None
          BY <4>3, <4>4, <4>6 DEF GuardCap, limit
        <4>. QED  BY <3>8, <4>1, <4>6, <4>7, NoneIsNoNumber
      <3>9. cap \in IfAny(Positive)
        BY <3>1, <3>7, CapType
      <3>. HIDE DEF cap, allowed, held, row
      <3>10. ASSUME allowed > 0
             PROVE  10 * Abs(held) < 9 * allowed
        <4>1. cap \in Int /\ cap # None /\ allowed = cap
          BY <3>8, <3>9, <3>10 DEF IfAny, Positive
        <4>2. ~(10 * Abs(held) >= 9 * cap)
          BY <3>5, <3>6, <4>1
        <4>. QED  BY <3>2, <4>1, <4>2
      <3>. QED  BY <3>4, <3>6, <3>10 DEF held, allowed
    <2>. QED  BY <2>4, <2>6, <2>7 DEF HidesNothing
  <1>. QED  BY <1>1, <1>2

(* A reading: the environments it has are of different sources that are    *)
(* not pending any more, and hide nothing.                                 *)
ReadingShows(read) ==
    /\ read.pending \subseteq Range(Environments)
    /\ IsFiniteSet(read.done)
    /\ \A d \in read.done :
         /\ d.of \in Range(Environments) \ read.pending
         /\ HidesNothing(d.result)
    /\ \A d, other \in read.done : d # other => d.of # other.of

ShowsInv ==
    /\ scene \in DOMAIN Catalogue
    /\ \A user \in Users : Reads(user) => ReadingShows(reading[user])
    /\ HealthyHidesNothing

LEMMA ShowsStart == LimitsInit => ShowsInv
  BY DEF LimitsInit, ShowsInv, Reads, HealthyHidesNothing

(* A reading goes on: one more environment, or a task that panicked. *)
LEMMA OneMoreShows ==
    ASSUME NEW user \in Users, LimitShapes, ShowsInv, ReadEnvironment(user)
    PROVE  ShowsInv'
  <1>1. PICK e \in reading[user].pending :
        \E environment \in {Environment(e, reply) : reply \in Catalogue[scene][e]}
                             \cup {Unknown} :
          reading' = [reading EXCEPT
                       ![user].pending = @ \ {e},
                       ![user].done = @ \cup {[of |-> e, result |-> environment]}]
    BY DEF ReadEnvironment
  <1>2. PICK environment \in {Environment(e, reply) : reply \in Catalogue[scene][e]}
                               \cup {Unknown} :
          reading' = [reading EXCEPT
                       ![user].pending = @ \ {e},
                       ![user].done = @ \cup {[of |-> e, result |-> environment]}]
    BY <1>1
  <1>3. /\ Reads(user) /\ ReadingShows(reading[user])
        /\ UNCHANGED <<scene, cache>>
    BY DEF ReadEnvironment, Reads, ShowsInv
  <1>4. e \in Range(Environments)
    BY <1>1, <1>3 DEF ReadingShows
  <1>5. HidesNothing(environment)
    <2>1. CASE environment = Unknown
      BY <2>1 DEF Unknown, HidesNothing
    <2>2. ASSUME NEW reply \in Catalogue[scene][e],
                 environment = Environment(e, reply)
          PROVE  HidesNothing(environment)
      <3>1. IsReply(reply)
        BY <1>4, LimitsAssumption DEF ShowsInv
      <3>. QED  BY <1>4, <2>2, <3>1, EnvironmentShows
    <2>. QED  BY <1>2, <2>1, <2>2
  <1>. DEFINE old == reading[user]
              new == [of |-> e, result |-> environment]
  <1>6. /\ DOMAIN reading = Users
        /\ old = [begun |-> old.begun, sources |-> old.sources,
                  pending |-> old.pending, done |-> old.done]
    BY <1>3 DEF LimitShapes
  <1>7. /\ \A other \in Users : other # user => reading'[other] = reading[other]
        /\ reading'[user].pending = old.pending \ {e}
        /\ reading'[user].done = old.done \cup {new}
    <2>1. \A other \in Users : other # user => reading'[other] = reading[other]
      BY <1>2, <1>6
    <2>. DEFINE middle == [old EXCEPT !.pending = @ \ {e}]
    <2>2. reading'[user] = [middle EXCEPT !.done = @ \cup {new}]
      BY <1>2, <1>6
    <2>. HIDE DEF old, new
    <2>3. middle = [begun |-> old.begun, sources |-> old.sources,
                    pending |-> old.pending \ {e}, done |-> old.done]
      BY <1>6
    <2>. HIDE DEF middle
    <2>4. /\ reading'[user].pending = old.pending \ {e}
          /\ reading'[user].done = old.done \cup {new}
      BY <2>2, <2>3
    <2>. QED  BY <2>1, <2>4 DEF old, new
  <1>8. ReadingShows(reading[user])'
    <2>1. IsFiniteSet(old.done \cup {new})
      BY <1>3, FS_AddElement DEF ReadingShows
    <2>2. new.of = e /\ new.result = environment
      OBVIOUS
    <2>. HIDE DEF new
    <2>3. \A d \in old.done : d.of # e /\ d.of \in Range(Environments) \ old.pending
                              /\ HidesNothing(d.result)
      BY <1>1, <1>3 DEF ReadingShows
    <2>4. \A d, other \in old.done \cup {new} : d # other => d.of # other.of
      BY <1>3, <2>2, <2>3 DEF ReadingShows
    <2>5. \A d \in old.done \cup {new} :
            /\ d.of \in Range(Environments) \ (old.pending \ {e})
            /\ HidesNothing(d.result)
      BY <1>4, <1>5, <2>2, <2>3
    <2>6. old.pending \ {e} \subseteq Range(Environments)
      BY <1>3 DEF ReadingShows
    <2>. HIDE DEF old
    <2>7. ReadingShows([pending |-> old.pending \ {e}, done |-> old.done \cup {new}])
      BY <2>1, <2>4, <2>5, <2>6 DEF ReadingShows
    <2>. QED  BY <1>7, <2>7 DEF ReadingShows
  <1>. HIDE DEF old, new
  <1>9. \A other \in Users : Reads(other)' => ReadingShows(reading[other])'
    <2>. SUFFICES ASSUME NEW other \in Users, Reads(other)'
                  PROVE  ReadingShows(reading[other])'
      OBVIOUS
    <2>1. CASE other = user
      BY <1>8, <2>1
    <2>2. CASE other # user
      <3>1. reading'[other] = reading[other]
        BY <1>7, <2>2
      <3>. QED  BY <3>1 DEF Reads, ShowsInv, ReadingShows
    <2>. QED  BY <2>1, <2>2
  <1>. QED  BY <1>3, <1>9 DEF ShowsInv, HealthyHidesNothing

(* A reading that ends: every environment of the overview is one of its. *)
LEMMA OverviewShows ==
    ASSUME NEW read, ReadingShows(read)
    PROVE  \A k \in DOMAIN Overview(read).environments :
             HidesNothing(Overview(read).environments[k])
  <1>. DEFINE n == Len(Environments)
  <1>1. n \in Nat
    BY LimitsAssumption
  <1>2. \A d \in read.done :
          /\ PlaceIn(Environments, d.of) \in 1 .. n
          /\ Environments[PlaceIn(Environments, d.of)] = d.of
    BY LimitsAssumption, PlaceType DEF ReadingShows
  <1>. HIDE DEF n
  <1>3. \A d \in read.done :
          Place(d) = IF d.result = Unknown THEN PlaceIn(Environments, d.of) + n
                     ELSE PlaceIn(Environments, d.of)
    BY <1>1, <1>2 DEF Place, n
  <1>4. \A d \in read.done : Place(d) \in Int
    BY <1>1, <1>2, <1>3
  <1>5. \A d, other \in read.done : d # other => Place(d) # Place(other)
    <2>. SUFFICES ASSUME NEW d \in read.done, NEW other \in read.done, d # other
                  PROVE  Place(d) # Place(other)
      OBVIOUS
    <2>1. PlaceIn(Environments, d.of) # PlaceIn(Environments, other.of)
      BY <1>2 DEF ReadingShows
    <2>. QED  BY <1>1, <1>2, <1>3, <2>1
  <1>. DEFINE ordered == Sorted(read.done, InPlace)
  <1>6. \A k \in DOMAIN ordered : ordered[k] \in read.done
    BY <1>4, <1>5, SortedReadings DEF ReadingShows
  <1>7. Overview(read).environments = [k \in DOMAIN ordered |-> ordered[k].result]
    BY DEF Overview
  <1>. HIDE DEF ordered
  <1>8. ASSUME NEW k \in DOMAIN ordered
        PROVE  HidesNothing(ordered[k].result)
    BY <1>6 DEF ReadingShows
  <1>. QED  BY <1>7, <1>8

LEMMA ShowsStep ==
    LimitsInv /\ ShowsInv /\ [LimitsNext]_limitVars => ShowsInv'
  <1>. SUFFICES ASSUME LimitShapes, ShowsInv, [LimitsNext]_limitVars
                PROVE  ShowsInv'
    BY DEF LimitsInv
  <1>. USE DEF Reads
  <1>1. ASSUME NEW user \in Users, BeginReading(user)
        PROVE  ShowsInv'
    <2>. DEFINE new == [begun |-> clock, sources |-> Visible[user],
                        pending |-> Visible[user], done |-> {}]
    <2>1. /\ reading' = [reading EXCEPT ![user] = new]
          /\ UNCHANGED <<scene, cache>> /\ DOMAIN reading = Users
      BY <1>1 DEF BeginReading, LimitShapes
    <2>2. ReadingShows(new)
      BY LimitsAssumption, FS_EmptySet DEF ReadingShows
    <2>3. \A other \in Users : reading'[other] = IF other = user THEN new
                                                 ELSE reading[other]
      BY <2>1
    <2>. HIDE DEF new
    <2>4. \A other \in Users : Reads(other)' => ReadingShows(reading[other])'
      BY <2>2, <2>3 DEF ShowsInv, ReadingShows
    <2>. QED  BY <2>1, <2>4 DEF ShowsInv, HealthyHidesNothing
  <1>2. ASSUME NEW user \in Users, EndReading(user)
        PROVE  ShowsInv'
    <2>1. /\ Reads(user) /\ cache' = Overview(reading[user])
          /\ reading' = [reading EXCEPT ![user] = None]
          /\ scene' = scene /\ DOMAIN reading = Users
      BY <1>2 DEF EndReading, LimitShapes
    <2>2. ReadingShows(reading[user])
      BY <2>1 DEF ShowsInv
    <2>3. HealthyHidesNothing'
      BY <2>1, <2>2, OverviewShows DEF HealthyHidesNothing
    <2>4. \A other \in Users : Reads(other)' => reading'[other] = reading[other]
                                                /\ Reads(other)
      BY <2>1
    <2>. QED  BY <2>1, <2>3, <2>4 DEF ShowsInv, ReadingShows
  <1>3. ASSUME NEW user \in Users, HangUp(user)
        PROVE  ShowsInv'
    <2>1. /\ reading' = [reading EXCEPT ![user] = None]
          /\ UNCHANGED <<scene, cache>> /\ DOMAIN reading = Users
      BY <1>3 DEF HangUp, LimitShapes
    <2>2. \A other \in Users : Reads(other)' => reading'[other] = reading[other]
                                                /\ Reads(other)
      BY <2>1
    <2>. QED  BY <2>1, <2>2 DEF ShowsInv, ReadingShows, HealthyHidesNothing
  <1>4. ASSUME UNCHANGED <<scene, reading, cache>>
        PROVE  ShowsInv'
    BY <1>4 DEF ShowsInv, ReadingShows, HealthyHidesNothing
  <1>5. \/ \E user \in Users : \/ BeginReading(user) \/ ReadEnvironment(user)
                               \/ EndReading(user) \/ HangUp(user)
        \/ UNCHANGED <<scene, reading, cache>>
    BY DEF LimitsNext, Ask, AnswerFromCache, LimitsTick, limitVars
  <1>. QED  BY <1>1, <1>2, <1>3, <1>4, <1>5, OneMoreShows

(***************************************************************************)
(* What the monitor calls healthy hides nothing: whatever the endpoints    *)
(* answer or fail to, every position has its row, and none of 90 % of what *)
(* the exchange and the guard leave it or more goes without a warning      *)
(* (fetch_environment, build_row).                                         *)
(***************************************************************************)
THEOREM HealthyIsShown == LimitsSpec => []HealthyHidesNothing
  <1>1. ShowsInv => HealthyHidesNothing
    BY DEF ShowsInv
  <1>. QED
    BY LimitsStart, LimitsStep, ShowsStart, ShowsStep, <1>1, PTL DEF LimitsSpec

-----------------------------------------------------------------------------
(* Hourly latencies: order statistics.                                     *)

UpTo(f, v) == {x \in DOMAIN f : f[x] =< v}
Under(f, v) == {x \in DOMAIN f : f[x] < v}

IsKth(f, k, v) ==
    v \in Range(f) /\ Cardinality(Under(f, v)) < k /\ k =< Cardinality(UpTo(f, v))

LEMMA Counted ==
    ASSUME NEW S, IsFiniteSet(S), NEW f \in [S -> Nat], NEW v
    PROVE  /\ IsFiniteSet(UpTo(f, v)) /\ IsFiniteSet(Under(f, v))
           /\ Cardinality(UpTo(f, v)) \in Nat /\ Cardinality(Under(f, v)) \in Nat
           /\ UpTo(f, v) \subseteq S /\ Under(f, v) \subseteq S
  <1>1. UpTo(f, v) \in SUBSET S /\ Under(f, v) \in SUBSET S
    BY DEF UpTo, Under
  <1>2. IsFiniteSet(UpTo(f, v)) /\ IsFiniteSet(Under(f, v))
    BY <1>1, FS_Subset
  <1>. QED  BY <1>1, <1>2, FS_CardinalityType

LEMMA KthExists ==
    ASSUME NEW S, IsFiniteSet(S), NEW f \in [S -> Nat],
           NEW k \in 1 .. Cardinality(S)
    PROVE  IsKth(f, k, Kth(f, k))
  <1>. DEFINE enough == {v \in Range(f) : k =< Cardinality(UpTo(f, v))}
  <1>1. Range(f) \subseteq Nat /\ IsFiniteSet(Range(f)) /\ Range(f) # {}
    <2>1. f \in Surjection(S, Range(f))
      BY DEF Surjection, Range
    <2>2. IsFiniteSet(Range(f))
      BY <2>1, FS_Surjection
    <2>3. S # {}
      BY FS_EmptySet
    <2>. QED  BY <2>2, <2>3 DEF Range
  <1>2. enough # {}
    <2>1. PICK bound \in Nat : \A x \in Range(f) : x =< bound
      BY <1>1, Bounded DEF HasBound
    <2>2. Max(Range(f)) \in Range(f) /\ \A y \in Range(f) : Max(Range(f)) >= y
      BY <1>1, <2>1, GreatestOf
    <2>3. UpTo(f, Max(Range(f))) = S
      <3>1. \A x \in S : f[x] \in Range(f)
        BY DEF Range
      <3>2. \A x \in S : f[x] =< Max(Range(f))
        BY <1>1, <2>2, <3>1
      <3>. QED  BY <3>2 DEF UpTo
    <2>4. k =< Cardinality(S)
      OBVIOUS
    <2>. QED  BY <2>2, <2>3, <2>4
  <1>3. PICK v \in enough : \A other \in enough : v =< other
    <2>1. enough \subseteq Nat
      BY <1>1
    <2>. HIDE DEF enough
    <2>. QED  BY <1>2, <2>1, LeastOf
  <1>4. v \in Nat /\ v \in Range(f) /\ k =< Cardinality(UpTo(f, v))
    BY <1>1, <1>3
  <1>5. ASSUME ~(Cardinality(Under(f, v)) < k)
        PROVE  FALSE
    <2>. DEFINE lower == {f[x] : x \in Under(f, v)}
    <2>1. Under(f, v) # {}
      BY <1>5, FS_EmptySet
    <2>2. lower \subseteq Nat /\ lower # {} /\ \A w \in lower : w =< v /\ w < v
      BY <1>4, <2>1 DEF Under
    <2>3. Max(lower) \in lower /\ \A w \in lower : Max(lower) >= w
      <3>. HIDE DEF lower
      <3>. QED  BY <1>4, <2>2, GreatestOf
    <2>4. Max(lower) \in Nat /\ Max(lower) < v
      BY <2>2, <2>3
    <2>5. UpTo(f, Max(lower)) = Under(f, v)
      <3>. DEFINE m == Max(lower)
      <3>1. \A x \in S : f[x] < v => f[x] =< m
        BY <2>2, <2>3 DEF Under
      <3>2. m \in Nat /\ m < v
        BY <2>4
      <3>. HIDE DEF m
      <3>3. \A x \in S : f[x] =< m => f[x] < v
        BY <1>4, <3>2
      <3>4. UpTo(f, m) = Under(f, v)
        BY <3>1, <3>3 DEF UpTo, Under
      <3>. QED  BY <3>4 DEF m
    <2>6. Cardinality(Under(f, v)) \in Nat
      BY Counted
    <2>7. Max(lower) \in Range(f)
      BY <2>3 DEF Under, Range
    <2>8. Max(lower) \in enough
      BY <1>5, <2>5, <2>6, <2>7
    <2>9. v =< Max(lower)
      BY <1>3, <2>8
    <2>. QED  BY <1>4, <2>4, <2>9
  <1>6. IsKth(f, k, v)
    BY <1>4, <1>5 DEF IsKth
  <1>7. Kth(f, k) = CHOOSE w : IsKth(f, k, w)
    BY DEF Kth, IsKth, UpTo, Under
  <1>. QED  BY <1>6, <1>7

LEMMA KthGrows ==
    ASSUME NEW S, IsFiniteSet(S), NEW f \in [S -> Nat],
           NEW j \in Nat, NEW k \in Nat, j =< k, NEW u, NEW v,
           IsKth(f, j, u), IsKth(f, k, v)
    PROVE  u \in Nat /\ v \in Nat /\ u =< v
  <1>1. u \in Nat /\ v \in Nat
    BY DEF IsKth, Range
  <1>2. ASSUME v < u
        PROVE  FALSE
    <2>1. UpTo(f, v) \in SUBSET Under(f, u)
      BY <1>1, <1>2 DEF UpTo, Under
    <2>2. Cardinality(UpTo(f, v)) =< Cardinality(Under(f, u))
      BY <2>1, Counted, FS_Subset
    <2>3. Cardinality(UpTo(f, v)) \in Nat /\ Cardinality(Under(f, u)) \in Nat
      BY Counted
    <2>. QED  BY <2>2, <2>3 DEF IsKth
  <1>. QED  BY <1>1, <1>2

(* Between two neighbours a and b, w tenths of the way. *)
Between(f, q, p, l, w, a, b) ==
    /\ l \in Nat /\ w \in 0 .. 9 /\ a \in Nat /\ b \in Nat /\ a =< b
    /\ q * (Cardinality(DOMAIN f) - 1) = 10 * l + w
    /\ l + 1 =< Cardinality(DOMAIN f)
    /\ IsKth(f, l + 1, a)
    /\ IF w = 0 THEN b = a
       ELSE IsKth(f, l + 2, b) /\ l + 2 =< Cardinality(DOMAIN f)
    /\ p = 10 * a + w * (b - a)
    /\ p \in Nat /\ 10 * a =< p /\ p =< 10 * b

LEMMA PercentileBetween ==
    ASSUME NEW S, IsFiniteSet(S), S # {}, NEW f \in [S -> Nat], NEW q \in {5, 9}
    PROVE  \E l, w, a, b : Between(f, q, Percentile(f, q), l, w, a, b)
  <1>. DEFINE n == Cardinality(S)
              rank == q * (n - 1)
              l == rank \div 10
              w == rank % 10
              a == Kth(f, l + 1)
              b == IF w = 0 THEN a ELSE Kth(f, l + 2)
              p == Percentile(f, q)
  <1>1. n \in Nat /\ n >= 1 /\ DOMAIN f = S
    BY FS_EmptySet, FS_CardinalityType
  <1>2. rank \in Nat /\ rank = IF q = 5 THEN 5 * (n - 1) ELSE 9 * (n - 1)
    BY <1>1
  <1>3. p = IF w = 0 THEN 10 * Kth(f, l + 1)
            ELSE Kth(f, l + 1) * (10 - w) + Kth(f, l + 2) * w
    BY <1>1 DEF Percentile
  <1>. HIDE DEF p
  <1>. HIDE DEF rank
  <1>4. l \in Nat /\ w \in 0 .. 9 /\ rank = 10 * l + w
    BY <1>2
  <1>. HIDE DEF l, w, n
  <1>5. l + 1 \in 1 .. n /\ (w # 0 => l + 2 \in 1 .. n)
    BY <1>1, <1>2, <1>4
  <1>6. IsKth(f, l + 1, a) /\ (w # 0 => IsKth(f, l + 2, b))
    BY <1>5, KthExists DEF n
  <1>7. a \in Nat /\ b \in Nat /\ a =< b
    <2>1. a \in Nat
      BY <1>6 DEF IsKth, Range
    <2>2. CASE w = 0
      BY <2>1, <2>2
    <2>3. CASE w # 0
      <3>. HIDE DEF a, b
      <3>. QED  BY <1>4, <1>6, <2>3, KthGrows
    <2>. QED  BY <2>2, <2>3
  <1>8. p = 10 * a + w * (b - a)
    <2>1. CASE w = 0
      BY <1>3, <1>7, <2>1
    <2>2. CASE w # 0
      <3>1. p = a * (10 - w) + b * w
        BY <1>3, <2>2
      <3>. HIDE DEF a, b
      <3>. QED  BY <1>4, <1>7, <3>1
    <2>. QED  BY <2>1, <2>2
  <1>. HIDE DEF a
  <1>9. w = 0 => b = a
    OBVIOUS
  <1>. HIDE DEF b
  <1>10. p \in Nat /\ 10 * a =< p /\ p =< 10 * b
    <2>. DEFINE d == b - a
    <2>1. d \in Nat /\ b = a + d
      BY <1>7
    <2>. HIDE DEF d
    <2>2. w * d \in Nat /\ w * d =< 10 * d
      <3>1. w \in Nat /\ 10 - w \in Nat
        BY <1>4
      <3>2. w * d >= 0 /\ (10 - w) * d >= 0 /\ w * d \in Int /\ (10 - w) * d \in Int
        BY <2>1, <3>1
      <3>3. (10 - w) * d = 10 * d - w * d
        BY <2>1, <3>1
      <3>. QED  BY <2>1, <3>2, <3>3
    <2>3. p = 10 * a + w * d
      BY <1>8 DEF d
    <2>. QED  BY <1>7, <2>1, <2>2, <2>3
  <1>11. q * (Cardinality(DOMAIN f) - 1) = 10 * l + w
    BY <1>1, <1>4 DEF rank, n
  <1>12. Between(f, q, p, l, w, a, b)
    BY <1>1, <1>4, <1>5, <1>6, <1>7, <1>8, <1>9, <1>10, <1>11 DEF Between, n
  <1>. QED  BY <1>12 DEF p

LEMMA PercentileCovers ==
    ASSUME NEW S, IsFiniteSet(S), S # {}, NEW f \in [S -> Nat], NEW q \in {5, 9}
    PROVE  LET n == Cardinality(S)
               p == Percentile(f, q)
           IN /\ \E x \in S : 10 * f[x] =< p
              /\ \E x \in S : 10 * f[x] >= p
              /\ Cardinality({x \in S : 10 * f[x] < p}) * 10 =< q * (n - 1) + 9
              /\ Cardinality({x \in S : 10 * f[x] > p}) * 10 =< (10 - q) * (n - 1) + 9
  <1>. DEFINE n == Cardinality(S)
              p == Percentile(f, q)
              below == {x \in S : 10 * f[x] < p}
              above == {x \in S : 10 * f[x] > p}
  <1>. HIDE DEF p
  <1>1. PICK l, w, a, b : Between(f, q, p, l, w, a, b)
    BY PercentileBetween DEF p
  <1>2. n \in Nat /\ DOMAIN f = S
    BY FS_CardinalityType
  <1>3. /\ l \in Nat /\ w \in 0 .. 9 /\ a \in Nat /\ b \in Nat
        /\ p \in Nat /\ 10 * a =< p /\ p =< 10 * b
        /\ q * (n - 1) = 10 * l + w /\ IsKth(f, l + 1, a)
        /\ IF w = 0 THEN IsKth(f, l + 1, b) ELSE IsKth(f, l + 2, b)
    BY <1>1, <1>2 DEF Between
  <1>4. \E x \in S : 10 * f[x] =< p
    <2>1. PICK x \in S : f[x] = a
      BY <1>2, <1>3 DEF IsKth, Range
    <2>. QED  BY <1>3, <2>1
  <1>5. \E x \in S : 10 * f[x] >= p
    <2>1. PICK x \in S : f[x] = b
      BY <1>2, <1>3 DEF IsKth, Range
    <2>. QED  BY <1>3, <2>1
  <1>6. Cardinality(below) * 10 =< q * (n - 1) + 9
    <2>1. below \in SUBSET Under(f, b)
      BY <1>2, <1>3 DEF Under
    <2>. HIDE DEF below
    <2>2. Cardinality(below) =< Cardinality(Under(f, b)) /\ IsFiniteSet(below)
      BY <2>1, Counted, FS_Subset
    <2>3. Cardinality(below) \in Nat /\ Cardinality(Under(f, b)) \in Nat
      BY <2>2, Counted, FS_CardinalityType
    <2>4. Cardinality(Under(f, b)) < IF w = 0 THEN l + 1 ELSE l + 2
      BY <1>3 DEF IsKth
    <2>5. Cardinality(below) * 10 =< 10 * l + w + 9
      BY <1>3, <2>2, <2>3, <2>4
    <2>. HIDE DEF n
    <2>. QED  BY <1>3, <2>5
  <1>7. Cardinality(above) * 10 =< (10 - q) * (n - 1) + 9
    <2>1. above \in SUBSET (S \ UpTo(f, a))
      BY <1>2, <1>3 DEF UpTo
    <2>. HIDE DEF above
    <2>2. /\ IsFiniteSet(S \ UpTo(f, a))
          /\ Cardinality(S \ UpTo(f, a)) = n - Cardinality(UpTo(f, a))
      <3>1. S \cap UpTo(f, a) = UpTo(f, a)
        BY Counted
      <3>. QED  BY <3>1, FS_Difference
    <2>3. Cardinality(above) =< Cardinality(S \ UpTo(f, a)) /\ IsFiniteSet(above)
      BY <2>1, <2>2, FS_Subset
    <2>4. Cardinality(above) \in Nat /\ Cardinality(UpTo(f, a)) \in Nat
      BY <2>3, Counted, FS_CardinalityType
    <2>5. l + 1 =< Cardinality(UpTo(f, a))
      BY <1>3 DEF IsKth
    <2>. HIDE DEF n
    <2>6. Cardinality(above) =< n - (l + 1)
      BY <1>2, <1>3, <2>2, <2>3, <2>4, <2>5
    <2>7. (10 - q) * (n - 1) = 10 * (n - 1) - (10 * l + w)
      BY <1>2, <1>3
    <2>. QED  BY <1>2, <1>3, <2>4, <2>6, <2>7
  <1>. QED  BY <1>4, <1>5, <1>6, <1>7 DEF p, n, below, above

LEMMA PercentilesGrow ==
    ASSUME NEW S, IsFiniteSet(S), S # {}, NEW f \in [S -> Nat]
    PROVE  Percentile(f, 5) =< Percentile(f, 9)
  <1>. DEFINE n == Cardinality(S)
              low == Percentile(f, 5)
              high == Percentile(f, 9)
  <1>. HIDE DEF low, high
  <1>1. PICK l, w, a, b : Between(f, 5, low, l, w, a, b)
    BY PercentileBetween DEF low
  <1>2. PICK m, u, c, d : Between(f, 9, high, m, u, c, d)
    BY PercentileBetween DEF high
  <1>3. n \in Nat /\ n >= 1 /\ DOMAIN f = S
    BY FS_EmptySet, FS_CardinalityType
  <1>4. /\ l \in Nat /\ w \in 0 .. 9 /\ m \in Nat /\ u \in 0 .. 9
        /\ 5 * (n - 1) = 10 * l + w /\ 9 * (n - 1) = 10 * m + u
    BY <1>1, <1>2, <1>3 DEF Between
  <1>. HIDE DEF n
  <1>5. l < m \/ (l = m /\ w =< u)
    BY <1>3, <1>4
  <1>6. /\ a \in Nat /\ b \in Nat /\ c \in Nat /\ d \in Nat /\ a =< b /\ c =< d
        /\ low \in Nat /\ high \in Nat /\ low =< 10 * b /\ 10 * c =< high
        /\ low = 10 * a + w * (b - a) /\ high = 10 * c + u * (d - c)
        /\ IsKth(f, l + 1, a) /\ IsKth(f, m + 1, c)
        /\ IF w = 0 THEN b = a ELSE IsKth(f, l + 2, b)
        /\ IF u = 0 THEN d = c ELSE IsKth(f, m + 2, d)
    BY <1>1, <1>2 DEF Between
  <1>7. CASE l < m
    <2>1. b =< c
      <3>1. CASE w = 0
        <4>1. l + 1 =< m + 1 /\ l + 1 \in Nat /\ m + 1 \in Nat
          BY <1>4, <1>7
        <4>2. IsKth(f, l + 1, a) /\ IsKth(f, m + 1, c) /\ b = a
          BY <1>6, <3>1
        <4>. QED  BY <4>1, <4>2, KthGrows
      <3>2. CASE w # 0
        <4>1. l + 2 =< m + 1 /\ l + 2 \in Nat /\ m + 1 \in Nat
          BY <1>4, <1>7
        <4>. QED  BY <1>6, <3>2, <4>1, KthGrows
      <3>. QED  BY <3>1, <3>2
    <2>. QED  BY <1>6, <2>1 DEF low, high
  <1>8. CASE l = m /\ w =< u
    <2>1. l + 1 \in Nat /\ l + 2 \in Nat
      BY <1>4
    <2>2. a = c
      <3>1. IsKth(f, l + 1, a) /\ IsKth(f, l + 1, c) /\ l + 1 =< l + 1
        BY <1>6, <1>8, <2>1
      <3>2. a =< c /\ c =< a
        BY <2>1, <3>1, KthGrows
      <3>. QED  BY <1>6, <3>2
    <2>3. CASE w = 0
      <3>1. low = 10 * a
        BY <1>6, <2>3
      <3>. QED  BY <1>6, <2>2, <3>1 DEF low, high
    <2>4. CASE w # 0
      <3>1. u # 0
        BY <1>4, <1>8, <2>4
      <3>2. b = d
        <4>1. IsKth(f, l + 2, b) /\ IsKth(f, l + 2, d) /\ l + 2 =< l + 2
          BY <1>6, <1>8, <2>1, <2>4, <3>1
        <4>2. b =< d /\ d =< b
          BY <2>1, <4>1, KthGrows
        <4>. QED  BY <1>6, <4>2
      <3>. DEFINE e == b - a
      <3>3. e \in Nat
        BY <1>6
      <3>4. low = 10 * a + w * e /\ high = 10 * a + u * e
        BY <1>6, <2>2, <3>2
      <3>. HIDE DEF e
      <3>5. e * w =< e * u /\ e * w \in Int /\ e * u \in Int
        BY <1>4, <1>8, <3>3, Scaled
      <3>6. e * w = w * e /\ e * u = u * e
        BY <1>4, <3>3
      <3>7. low =< high
        BY <1>6, <3>4, <3>5, <3>6
      <3>. QED  BY <3>7 DEF low, high
    <2>. QED  BY <2>3, <2>4
  <1>. QED  BY <1>5, <1>7, <1>8

-----------------------------------------------------------------------------
(* Hourly latencies: full hours.                                           *)

LEMMA Division ==
    ASSUME NEW h \in Nat \ {0}, NEW t \in Int
    PROVE  /\ t \div h \in Int /\ t % h \in 0 .. h - 1
           /\ t = h * (t \div h) + (t % h)
  OBVIOUS

LEMMA Remainder ==
    ASSUME NEW h \in Nat \ {0}, NEW q \in Int, NEW r \in 0 .. h - 1
    PROVE  (h * q + r) % h = r
  <1>. DEFINE t == h * q + r
              p == t \div h
              s == t % h
  <1>1. h * q \in Int /\ t \in Int
    OBVIOUS
  <1>2. p \in Int /\ s \in 0 .. h - 1 /\ t = h * p + s
    <2>. HIDE DEF t
    <2>. QED  BY <1>1, Division
  <1>3. h * p + s = h * q + r
    BY <1>2
  <1>. HIDE DEF p, s, t
  <1>4. h * p \in Int /\ h * (p + 1) = h * p + h /\ h * (q + 1) = h * q + h
        /\ h * (q + 1) \in Int /\ h * (p + 1) \in Int
    BY <1>2
  <1>5. CASE p < q
    <2>1. h * (p + 1) =< h * q
      BY <1>2, <1>5, Scaled
    <2>. QED  BY <1>1, <1>2, <1>3, <1>4, <2>1
  <1>6. CASE q < p
    <2>1. h * (q + 1) =< h * p
      BY <1>2, <1>6, Scaled
    <2>. QED  BY <1>1, <1>2, <1>3, <1>4, <2>1
  <1>7. CASE p = q
    BY <1>1, <1>2, <1>3, <1>7 DEF s, t
  <1>. QED  BY <1>2, <1>5, <1>6, <1>7

(* t is a full hour. *)
IsFull(t) == t \in Int /\ t % Hour = 0

LEMMA FullIsMultiple ==
    ASSUME NEW t \in Int
    PROVE  IsFull(t) <=> \E q \in Int : t = Hour * q
  <1>1. Hour \in Nat \ {0}
    BY LatencyAssumption
  <1>2. ASSUME IsFull(t)
        PROVE  t = Hour * (t \div Hour) /\ t \div Hour \in Int
    BY <1>1, <1>2, Division DEF IsFull
  <1>3. ASSUME NEW q \in Int, t = Hour * q
        PROVE  IsFull(t)
    <2>1. (Hour * q + 0) % Hour = 0 /\ Hour * q + 0 = Hour * q
      BY <1>1, Remainder
    <2>. QED  BY <1>3, <2>1 DEF IsFull
  <1>. QED  BY <1>2, <1>3

(* Full hours are closed under adding and subtracting. *)
LEMMA FullHours ==
    ASSUME NEW t, NEW u, IsFull(t), IsFull(u)
    PROVE  IsFull(t + u) /\ IsFull(t - u) /\ IsFull(Hour) /\ IsFull(0)
           /\ (t < u => t + Hour =< u)
  <1>1. Hour \in Nat \ {0} /\ t \in Int /\ u \in Int
    BY LatencyAssumption DEF IsFull
  <1>2. PICK p \in Int : t = Hour * p
    BY <1>1, FullIsMultiple
  <1>3. PICK q \in Int : u = Hour * q
    BY <1>1, FullIsMultiple
  <1>4. t + u = Hour * (p + q) /\ t - u = Hour * (p - q) /\ Hour = Hour * 1
        /\ 0 = Hour * 0
    BY <1>1, <1>2, <1>3
  <1>5. IsFull(t + u) /\ IsFull(t - u)
    <2>1. t + u \in Int /\ t - u \in Int /\ p + q \in Int /\ p - q \in Int
      BY <1>1
    <2>. QED  BY <1>4, <2>1, FullIsMultiple
  <1>6. IsFull(Hour) /\ IsFull(0)
    BY <1>1, <1>4, FullIsMultiple
  <1>7. ASSUME t < u
        PROVE  t + Hour =< u
    <2>1. p < q
      <3>. SUFFICES ASSUME q =< p  PROVE FALSE
        OBVIOUS
      <3>1. Hour * q =< Hour * p
        BY <1>1, Scaled
      <3>. QED  BY <1>1, <1>2, <1>3, <1>7, <3>1
    <2>2. Hour * (p + 1) =< Hour * q
      BY <1>1, <2>1, Scaled
    <2>3. Hour * (p + 1) = Hour * p + Hour
      BY <1>1
    <2>. QED  BY <1>2, <1>3, <2>2, <2>3
  <1>. QED  BY <1>5, <1>6, <1>7

LEMMA Floors ==
    ASSUME NEW t \in Nat
    PROVE  /\ FloorHour(t) \in Nat /\ IsFull(FloorHour(t))
           /\ FloorHour(t) =< t /\ t < FloorHour(t) + Hour
           /\ IsFull(t) => FloorHour(t) = t
  <1>1. Hour \in Nat \ {0}
    BY LatencyAssumption
  <1>2. /\ t \div Hour \in Int /\ t % Hour \in 0 .. Hour - 1
        /\ t = Hour * (t \div Hour) + (t % Hour)
    BY <1>1, Division
  <1>3. FloorHour(t) = Hour * (t \div Hour) /\ FloorHour(t) = t - (t % Hour)
    BY <1>1, <1>2 DEF FloorHour
  <1>4. IsFull(FloorHour(t))
    BY <1>1, <1>2, <1>3, FullIsMultiple
  <1>5. FloorHour(t) =< t /\ t < FloorHour(t) + Hour /\ FloorHour(t) \in Int
    BY <1>1, <1>2, <1>3
  <1>6. FloorHour(t) >= 0
    <2>. SUFFICES ASSUME FloorHour(t) < 0  PROVE FALSE
      BY <1>5
    <2>1. FloorHour(t) + Hour =< 0
      BY <1>1, <1>4, FullHours
    <2>. QED  BY <1>1, <1>5, <2>1
  <1>. QED  BY <1>1, <1>3, <1>4, <1>5, <1>6 DEF IsFull

-----------------------------------------------------------------------------
(* Hourly latencies: the columns of a point.                               *)

Columns == {"margin", "futures", "spotTrigger", "futuresTrigger"}

Counting(D, column) == {row \in D : Counts(row, column)}
Normal(D, column) ==
    {row \in Counting(D, column) : Sample(row, column) >= 0
                                   /\ Sample(row, column) =< NormalMax}

(* A column's value is about all its rows. *)
ColumnFits(v, D, column) ==
    /\ v.count = Cardinality(Counting(D, column))
    /\ v.normal = Cardinality(Normal(D, column))
    /\ IF Normal(D, column) = {} THEN v.p50 = None
       ELSE /\ Covers(Normal(D, column), column, v.p50, 5)
            /\ Covers(Normal(D, column), column, v.p90, 9)
            /\ v.p50 =< v.p90

LEMMA SampleType ==
    ASSUME NEW row, row.shape \in Shapes, NEW column \in Columns
    PROVE  Sample(row, column) \in Int
  BY LatencyAssumption DEF Sample

LEMMA QuantilesFit ==
    ASSUME NEW D, IsFiniteSet(D), \A row \in D : row.shape \in Shapes,
           NEW column \in Columns
    PROVE  ColumnFits(Quantiles([row \in Counting(D, column) |-> Sample(row, column)]),
                      D, column)
  <1>. DEFINE latency == [row \in Counting(D, column) |-> Sample(row, column)]
              S == Normal(D, column)
              f == [row \in S |-> Sample(row, column)]
              v == Quantiles(latency)
  <1>. SUFFICES ColumnFits(v, D, column)
    OBVIOUS
  <1>1. DOMAIN latency = Counting(D, column)
    OBVIOUS
  <1>2. \A row \in Counting(D, column) :
          latency[row] = Sample(row, column) /\ Sample(row, column) \in Int
    BY SampleType DEF Counting
  <1>3. S = {row \in DOMAIN latency : 0 =< latency[row] /\ latency[row] =< NormalMax}
    BY <1>2, LatencyAssumption DEF Normal
  <1>4. f = [row \in {row \in DOMAIN latency :
                        0 =< latency[row] /\ latency[row] =< NormalMax} |-> latency[row]]
    <2>1. \A row \in S : latency[row] = Sample(row, column)
      BY <1>2 DEF Normal
    <2>. HIDE DEF latency
    <2>. QED  BY <1>3, <2>1
  <1>5. /\ v.count = Cardinality(Counting(D, column))
        /\ v.normal = Cardinality(S)
        /\ v.p50 = Percentile(f, 5) /\ v.p90 = Percentile(f, 9)
    <2>. HIDE DEF latency, f
    <2>. QED  BY <1>1, <1>3, <1>4 DEF Quantiles
  <1>6. f \in [S -> Nat] /\ IsFiniteSet(S)
    <2>1. \A row \in S : Sample(row, column) \in Nat
      BY <1>2 DEF Normal
    <2>2. S \in SUBSET D
      BY DEF Normal, Counting
    <2>. QED  BY <2>1, <2>2, FS_Subset
  <1>7. \A row \in S : f[row] = Sample(row, column)
    OBVIOUS
  <1>8. DOMAIN f = S
    OBVIOUS
  <1>. HIDE DEF f, v, latency, S
  <1>9. CASE S = {}
    BY <1>5, <1>8, <1>9 DEF ColumnFits, Percentile, S
  <1>10. CASE S # {}
    <2>1. ASSUME NEW q \in {5, 9}
          PROVE  Covers(S, column, Percentile(f, q), q)
      <3>. DEFINE p == Percentile(f, q)
      <3>1. {row \in S : 10 * f[row] < p} = {row \in S : 10 * Sample(row, column) < p}
            /\ {row \in S : 10 * f[row] > p} = {row \in S : 10 * Sample(row, column) > p}
        <4>. HIDE DEF p
        <4>. QED  BY <1>7
      <3>2. /\ \E x \in S : 10 * f[x] =< p
            /\ \E x \in S : 10 * f[x] >= p
            /\ Cardinality({x \in S : 10 * f[x] < p}) * 10
                 =< q * (Cardinality(S) - 1) + 9
            /\ Cardinality({x \in S : 10 * f[x] > p}) * 10
                 =< (10 - q) * (Cardinality(S) - 1) + 9
        BY <1>6, <1>10, PercentileCovers
      <3>3. /\ \E row \in S : 10 * Sample(row, column) =< p
            /\ \E row \in S : 10 * Sample(row, column) >= p
        <4>. HIDE DEF p
        <4>. QED  BY <1>7, <3>2
      <3>. HIDE DEF p
      <3>4. Covers(S, column, p, q)
        BY <3>1, <3>2, <3>3 DEF Covers
      <3>. QED  BY <3>4 DEF p
    <2>2. Percentile(f, 5) =< Percentile(f, 9)
      BY <1>6, <1>10, PercentilesGrow
    <2>3. Covers(S, column, v.p50, 5) /\ Covers(S, column, v.p90, 9) /\ v.p50 =< v.p90
      BY <1>5, <2>1, <2>2
    <2>. QED  BY <1>5, <1>10, <2>3 DEF ColumnFits, S
  <1>. QED  BY <1>9, <1>10

(* Rows that all are of the window's hour. *)
InHour(D, window) == \A row \in D : window =< row.ts /\ row.ts < window + Hour

LEMMA ColumnsFit ==
    ASSUME NEW D, IsFiniteSet(D), \A row \in D : row.shape \in Shapes,
           NEW window, InHour(D, window), NEW column \in Columns
    PROVE  ColumnFits(Compute(D, window)[column], D, column)
  <1>1. {row \in D : window =< row.ts /\ row.ts < window + Hour} = D
    BY DEF InHour
  <1>2. Compute(D, window) =
          [margin |-> Quantiles(OwnLatency(NewCreate(D, "margin"))),
           futures |-> Quantiles(OwnLatency(NewCreate(D, "futures"))),
           spotTrigger |-> Quantiles(SpotLatency(Triggered(D, "spot"))),
           futuresTrigger |-> Quantiles(FuturesLatency(Triggered(D, "futures")))]
    BY <1>1 DEF Compute
  <1>. DEFINE latency(c) == [row \in Counting(D, c) |-> Sample(row, c)]
  <1>3. NewCreate(D, "margin") = Counting(D, "margin")
        /\ NewCreate(D, "futures") = Counting(D, "futures")
    BY DEF NewCreate, Counting, Counts
  <1>4. ASSUME NEW row \in D
        PROVE  /\ row.shape.open \in Int /\ row.shape.hedge \in Int
               /\ row.shape.signal \in Int
    BY LatencyAssumption
  <1>5. Triggered(D, "spot") = Counting(D, "spotTrigger")
        /\ Triggered(D, "futures") = Counting(D, "futuresTrigger")
    BY <1>4 DEF Triggered, Counting, Counts
  <1>6. OwnLatency(NewCreate(D, "margin")) = latency("margin")
        /\ OwnLatency(NewCreate(D, "futures")) = latency("futures")
    BY <1>3 DEF OwnLatency, Sample
  <1>7. SpotLatency(Triggered(D, "spot")) = latency("spotTrigger")
        /\ FuturesLatency(Triggered(D, "futures")) = latency("futuresTrigger")
    BY <1>5 DEF SpotLatency, FuturesLatency, Sample
  <1>8. Compute(D, window)[column] = Quantiles(latency(column))
    <2>. HIDE DEF latency
    <2>. QED  BY <1>2, <1>6, <1>7 DEF Columns
  <1>. QED  BY <1>8, QuantilesFit

-----------------------------------------------------------------------------
(* Hourly latencies: the invariant.                                        *)

(* Of the rows held: those of a task's strategy from its window's start to *)
(* end, and those of its hour that came by t.                              *)
RowsUpTo(held, task, end) ==
    {row \in held : row.strategy = task[1] /\ task[2] =< row.ts /\ row.ts < end}

RowsBy(held, task, t) == {row \in RowsUpTo(held, task, task[2] + Hour) : row.arrived =< t}

ServiceRows ==
    /\ tick \in Nat \ {0}
    /\ rows \in SUBSET OrderRow /\ IsFiniteSet(rows)
    /\ \A row \in rows : row.arrived =< tick

(* The tasks' hours were over at t. *)
HoursOver(tasks, t) ==
    \A k \in 1 .. Len(tasks) : IsFull(tasks[k][2]) /\ tasks[k][2] + Hour =< t

(* What a process has read: up to its cursor nothing that was there when   *)
(* it began is missing, and nothing else was read.                         *)
HasRead(process, held) ==
    LET task == process.tasks[1]
    IN /\ process.cursor \in Nat
       /\ task[2] =< process.cursor /\ process.cursor =< task[2] + Hour
       /\ process.downloaded \subseteq RowsUpTo(held, task, process.cursor)
       /\ \A row \in RowsUpTo(held, task, process.cursor) :
            row.arrived < process.computedAt => row \in process.downloaded

ProcessFits(process, now, held) ==
    /\ process \in Process
    /\ process.computedAt =< now
    /\ HoursOver(process.tasks, process.computedAt)
    /\ process.tasks # <<>> => HasRead(process, held)

ProcessesFit ==
    /\ DOMAIN run = Processes
    /\ \A p \in Processes : run[p] # None => ProcessFits(run[p], tick, rows)

(* A stored point is computed from all rows there before its process began *)
(* and from none that came after it was stored.                            *)
PointFits(task, point, now, held) ==
    /\ IsFull(task[2]) /\ point.computedAt \in Nat /\ point.storedAt \in Nat
    /\ task[2] + Hour =< point.computedAt
    /\ point.computedAt =< point.storedAt /\ point.storedAt =< now
    /\ \E D \in SUBSET held :
         /\ RowsBy(held, task, point.computedAt - 1) \subseteq D
         /\ D \subseteq RowsBy(held, task, point.storedAt)
         /\ point.value = Compute(D, task[2])

PointsFit == \A task \in DOMAIN points : PointFits(task, points[task], tick, rows)

(* The loop sleeps until a full hour that is not past, at most the next. *)
LoopFits ==
    /\ loop = None <=> run["loop"] # None
    /\ loop # None => IsFull(loop) /\ tick =< loop /\ loop =< NextHour(tick)

Kept(k, window) ==
    \/ window \in skipped
    \/ <<Strategies[k], window>> \in DOMAIN points
    \/ run["loop"] # None /\ <<Strategies[k], window>> \in Range(run["loop"].tasks)
    \/ loop = window + Hour /\ loop =< tick

HoursKept ==
    \A window \in Nat : IsFull(window) /\ window + Hour =< tick =>
      \A k \in DOMAIN Strategies : Kept(k, window)

LatencyInv ==
    ServiceRows /\ ProcessesFit /\ PointsFit /\ LoopFits /\ HoursKept

-----------------------------------------------------------------------------
(* It makes the stored hours exact.                                        *)

LEMMA PointIsExact ==
    ASSUME ServiceRows, NEW task, NEW point, PointFits(task, point, tick, rows),
           NEW column \in Columns
    PROVE  LET before == Of(task, point.computedAt - 1)
               after == Of(task, point.storedAt)
               count == point.value[column].count
           IN /\ Cardinality(Counting(before, column)) =< count
              /\ count =< Cardinality(Counting(after, column))
              /\ Counting(before, column) = Counting(after, column) =>
                   ColumnFits(point.value[column], before, column)
  <1>. DEFINE before == Of(task, point.computedAt - 1)
              after == Of(task, point.storedAt)
  <1>1. PICK D \in SUBSET rows : /\ before \subseteq D /\ D \subseteq after
                                 /\ point.value = Compute(D, task[2])
    BY DEF PointFits, RowsBy, RowsUpTo, Of
  <1>2. before \in SUBSET rows /\ after \in SUBSET rows /\ InHour(D, task[2])
    BY <1>1 DEF Of, InHour
  <1>3. \A row \in rows : row.shape \in Shapes
    BY DEF ServiceRows, OrderRow
  <1>4. IsFiniteSet(D)
    BY <1>1, FS_Subset DEF ServiceRows
  <1>5. ColumnFits(point.value[column], D, column)
    BY <1>1, <1>2, <1>3, <1>4, ColumnsFit
  <1>. DEFINE least == Counting(before, column)
              mine == Counting(D, column)
              most == Counting(after, column)
  <1>6. least \in SUBSET mine /\ mine \in SUBSET most /\ most \in SUBSET rows
    BY <1>1, <1>2 DEF Counting
  <1>7. IsFiniteSet(mine) /\ IsFiniteSet(most)
    BY <1>6, FS_Subset DEF ServiceRows
  <1>8. Cardinality(least) =< Cardinality(mine) /\ Cardinality(mine) =< Cardinality(most)
    <2>. HIDE DEF least, mine, most
    <2>. QED  BY <1>6, <1>7, FS_Subset
  <1>9. ASSUME least = most
        PROVE  ColumnFits(point.value[column], before, column)
    <2>1. least = mine
      BY <1>6, <1>9
    <2>2. Normal(before, column) = Normal(D, column)
      BY <2>1 DEF Normal
    <2>. QED  BY <1>5, <2>1, <2>2 DEF ColumnFits
  <1>. QED  BY <1>5, <1>8, <1>9 DEF ColumnFits

LEMMA PointsAreExact ==
    ASSUME ServiceRows, PointsFit
    PROVE  StoredHoursAreExact
  <1>. SUFFICES ASSUME NEW task \in DOMAIN points
                PROVE  LET point == points[task]
                           before == Of(task, point.computedAt - 1)
                           after == Of(task, point.storedAt)
                       IN /\ task[2] % Hour = 0 /\ task[2] + Hour =< point.computedAt
                          /\ \A column \in Columns :
                               LET count == point.value[column].count
                                   least == Counting(before, column)
                                   most == Counting(after, column)
                               IN /\ Cardinality(least) =< count
                                  /\ count =< Cardinality(most)
                                  /\ least = most =>
                                       ColumnFits(point.value[column], before, column)
    <2>. HIDE DEF PointsFit
    <2>. QED  BY Zenon DEF StoredHoursAreExact, Columns, Counting, Normal, ColumnFits
  <1>1. PointFits(task, points[task], tick, rows)
    BY DEF PointsFit
  <1>. QED  BY <1>1, PointIsExact DEF PointFits, IsFull

LEMMA HoursAreKept ==
    ASSUME LatencyInv
    PROVE  NoHourForgotten
  <1>. SUFFICES ASSUME NEW window \in 0 .. tick, window % Hour = 0,
                       window + Hour =< tick, NEW k \in DOMAIN Strategies
                PROVE  \/ window \in skipped
                       \/ <<Strategies[k], window>> \in DOMAIN points
                       \/ run["loop"] # None
                            /\ <<Strategies[k], window>> \in Range(run["loop"].tasks)
                       \/ loop # None /\ loop =< tick
    BY DEF NoHourForgotten
  <1>1. window \in Nat /\ IsFull(window) /\ tick \in Nat
    BY DEF IsFull, LatencyInv, ServiceRows
  <1>2. Kept(k, window)
    BY <1>1 DEF LatencyInv, HoursKept
  <1>3. loop = window + Hour => loop # None
    BY <1>1, LatencyAssumption
  <1>. QED  BY <1>2, <1>3 DEF Kept

-----------------------------------------------------------------------------
(* Hourly latencies: processes that begin.                                 *)

LEMMA PlannedHours ==
    ASSUME NEW t \in Nat, NEW range \in Seq(Nat)
    PROVE  /\ Planned(t, range) \in Seq(Nat)
           /\ \A k \in 1 .. Len(Planned(t, range)) :
                IsFull(Planned(t, range)[k]) /\ Planned(t, range)[k] + Hour =< t
  <1>. DEFINE last == FloorHour(t)
              from == IF range = <<>> THEN last - Hour ELSE range[1]
              asked == IF Len(range) < 2 THEN from + Hour ELSE range[2]
              end == SoonerOf(asked, last)
              count == (end - from) \div Hour
              windows == [k \in 1 .. count |-> from + (k - 1) * Hour]
              refused == last = 0 \/ from % Hour # 0 \/ asked % Hour # 0 \/ end =< from
  <1>1. Planned(t, range) = IF refused THEN <<>> ELSE windows
    BY DEF Planned
  <1>2. Hour \in Nat \ {0} /\ last \in Nat /\ IsFull(last) /\ last =< t
    BY Floors, LatencyAssumption
  <1>3. from \in Int /\ asked \in Int /\ (range # <<>> => from \in Nat)
    <2>1. range # <<>> => range[1] \in Nat
      OBVIOUS
    <2>2. ~(Len(range) < 2) => range[2] \in Nat
      OBVIOUS
    <2>. QED  BY <1>2, <2>1, <2>2
  <1>4. CASE refused
    <2>1. Planned(t, range) = <<>>
      BY <1>1, <1>4
    <2>. QED  BY <2>1
  <1>5. CASE ~refused
    <2>. HIDE DEF from, asked, last
    <2>1. IsFull(from) /\ IsFull(asked) /\ last # 0 /\ ~(end =< from)
      BY <1>3, <1>5 DEF IsFull
    <2>2. IsFull(end) /\ end =< last /\ end \in Int /\ from < end
      BY <1>2, <1>3, <2>1 DEF SoonerOf
    <2>3. from \in Nat
      <3>1. CASE range # <<>>
        BY <1>3, <3>1
      <3>2. CASE range = <<>>
        <4>1. from = last - Hour
          BY <3>2 DEF from
        <4>2. IsFull(0)
          BY <2>1, FullHours
        <4>3. 0 < last
          BY <1>2, <2>1
        <4>4. 0 + Hour =< last
          BY <1>2, <4>2, <4>3, FullHours
        <4>. QED  BY <1>2, <4>1, <4>4
      <3>. QED  BY <3>1, <3>2
    <2>. HIDE DEF end
    <2>4. /\ count \in Int /\ end - from = Hour * count + ((end - from) % Hour)
          /\ (end - from) % Hour \in 0 .. Hour - 1
      <3>1. end - from \in Int
        BY <1>3, <2>2
      <3>. QED  BY <1>2, <3>1, Division
    <2>5. IsFull(end - from)
      BY <2>1, <2>2, FullHours
    <2>6. end - from = Hour * count
      BY <1>2, <2>4, <2>5 DEF IsFull
    <2>. HIDE DEF count
    <2>7. count \in Nat
      <3>. SUFFICES ASSUME count < 0  PROVE FALSE
        BY <2>4
      <3>1. Hour * count =< Hour * 0
        BY <1>2, <2>4, Scaled
      <3>. QED  BY <1>2, <1>3, <2>2, <2>6, <3>1
    <2>8. ASSUME NEW k \in 1 .. count
          PROVE  LET window == from + (k - 1) * Hour
                 IN window \in Nat /\ IsFull(window) /\ window + Hour =< t
      <3>. DEFINE gone == (k - 1) * Hour
      <3>1. k - 1 \in Nat /\ k \in Int /\ k =< count
        BY <2>7
      <3>2. gone = Hour * (k - 1) /\ gone \in Nat /\ Hour * k = gone + Hour
        <4>1. Hour * 0 =< Hour * (k - 1) /\ Hour * (k - 1) \in Int
          BY <1>2, <3>1, Scaled
        <4>. QED  BY <1>2, <3>1, <4>1
      <3>3. IsFull(gone)
        BY <3>1, <3>2, FullIsMultiple
      <3>4. Hour * k =< Hour * count /\ Hour * count \in Int
        BY <1>2, <2>7, <3>1, Scaled
      <3>. HIDE DEF gone
      <3>5. from + gone \in Nat /\ IsFull(from + gone)
        BY <2>1, <2>3, <3>2, <3>3, FullHours
      <3>6. (from + gone) + Hour =< t
        BY <1>2, <1>3, <2>2, <2>6, <3>2, <3>4
      <3>. QED  BY <3>5, <3>6 DEF gone
    <2>. DEFINE hours == [k \in 1 .. count |-> from + (k - 1) * Hour]
    <2>9. hours \in Seq(Nat) /\ Len(hours) = count
      <3>1. \A k \in 1 .. count : from + (k - 1) * Hour \in Nat
        BY <2>8
      <3>. QED  BY <2>7, <3>1, IsASeq
    <2>10. Planned(t, range) = hours
      BY <1>1, <1>5 DEF count
    <2>. QED  BY <2>8, <2>9, <2>10
  <1>. QED  BY <1>4, <1>5

LEMMA LastHourPlanned ==
    ASSUME NEW t \in Nat \ {0}, IsFull(t)
    PROVE  /\ t - Hour \in Nat
           /\ Planned(t, <<>>) = [k \in 1 .. 1 |-> (t - Hour) + (k - 1) * Hour]
  <1>1. Hour \in Nat \ {0} /\ FloorHour(t) = t
    BY Floors, LatencyAssumption
  <1>2. IsFull(0) /\ IsFull(Hour) /\ IsFull(t - Hour)
    <2>1. IsFull(Hour) /\ IsFull(0)
      BY FullHours
    <2>. QED  BY <2>1, FullHours
  <1>3. 0 + Hour =< t
    BY <1>1, <1>2, FullHours
  <1>4. (t - Hour) + Hour = t /\ SoonerOf(t, t) = t /\ t - (t - Hour) = Hour
        /\ ~(t =< t - Hour) /\ Len(<<>>) < 2
    BY <1>1 DEF SoonerOf
  <1>5. Hour \div Hour = 1
    <2>. DEFINE q == Hour \div Hour
    <2>1. q \in Int /\ Hour = Hour * q + (Hour % Hour)
      BY <1>1, Division
    <2>2. Hour % Hour = 0
      BY <1>2 DEF IsFull
    <2>3. q \in Int /\ Hour = Hour * q
      BY <1>1, <2>1, <2>2
    <2>. HIDE DEF q
    <2>4. CASE q < 1
      <3>1. Hour * q =< Hour * 0
        BY <1>1, <2>3, <2>4, Scaled
      <3>. QED  BY <1>1, <2>3, <3>1
    <2>5. CASE q > 1
      <3>1. Hour * 2 =< Hour * q
        BY <1>1, <2>3, <2>5, Scaled
      <3>. QED  BY <1>1, <2>3, <3>1
    <2>. QED  BY <2>3, <2>4, <2>5 DEF q
  <1>6. (t - Hour) % Hour = 0 /\ t % Hour = 0
    BY <1>2 DEF IsFull
  <1>. QED  BY <1>1, <1>3, <1>4, <1>5, <1>6 DEF Planned

LEMMA TasksOfHours ==
    ASSUME NEW windows \in Seq(Nat)
    PROVE  /\ Tasks(windows) \in Seq(Range(Strategies) \X Nat)
           /\ \A k \in 1 .. Len(Tasks(windows)) :
                \E j \in 1 .. Len(windows) : Tasks(windows)[k][2] = windows[j]
  <1>. DEFINE n == Len(Strategies)
              m == Len(windows)
              tasks == Tasks(windows)
  <1>1. n \in Nat /\ m \in Nat /\ Strategies \in [1 .. n -> Range(Strategies)]
        /\ windows \in [1 .. m -> Nat]
    BY LatencyAssumption
  <1>2. n * m \in Nat
    <2>1. n * 0 =< n * m /\ n * m \in Int /\ n * 0 = 0
      BY <1>1, Scaled
    <2>. QED  BY <2>1
  <1>. HIDE DEF n, m
  <1>3. ASSUME NEW k \in 1 .. n * m
        PROVE  /\ ((k - 1) \div m) + 1 \in 1 .. n
               /\ ((k - 1) % m) + 1 \in 1 .. m
    <2>. DEFINE q == (k - 1) \div m
                r == (k - 1) % m
    <2>1. m # 0
      BY <1>1
    <2>. DEFINE size == n * m
    <2>. HIDE DEF size
    <2>0. k \in 1 .. size /\ size \in Nat
      BY <1>2 DEF size
    <2>2. q \in Int /\ r \in 0 .. m - 1 /\ k - 1 = m * q + r /\ k - 1 \in Nat
      <3>1. k - 1 \in Nat /\ m \in Nat \ {0}
        BY <1>1, <2>0, <2>1
      <3>2. k - 1 \in Int
        BY <3>1
      <3>. QED  BY <3>1, <3>2, Division
    <2>6. k - 1 < size
      BY <2>0
    <2>. HIDE DEF q, r
    <2>3. q >= 0
      <3>. SUFFICES ASSUME q < 0  PROVE FALSE
        BY <2>2
      <3>. DEFINE below == m * q
      <3>1. m * (q + 1) =< 0 /\ m * (q + 1) = below + m /\ below \in Int
        <4>1. m * (q + 1) =< m * 0
          BY <1>1, <2>2, Scaled
        <4>. QED  BY <1>1, <2>2, <4>1
      <3>2. k - 1 = below + r
        BY <2>2
      <3>. HIDE DEF below
      <3>3. k - 1 =< below + m - 1 /\ below + m =< 0
        BY <1>1, <2>2, <3>1, <3>2
      <3>. QED  BY <1>1, <2>0, <3>1, <3>3
    <2>4. q < n
      <3>. SUFFICES ASSUME n =< q  PROVE FALSE
        BY <1>1, <2>2
      <3>1. m * n =< m * q /\ m * n = size /\ m * q \in Int
        BY <1>1, <2>2, Scaled DEF size
      <3>. QED  BY <2>0, <2>2, <2>6, <3>1
    <2>5. q + 1 \in 1 .. n /\ r + 1 \in 1 .. m
      BY <1>1, <2>1, <2>2, <2>3, <2>4
    <2>. QED  BY <2>5 DEF q, r
  <1>4. tasks = [k \in 1 .. n * m |-> <<Strategies[((k - 1) \div m) + 1],
                                        windows[((k - 1) % m) + 1]>>]
    BY DEF Tasks, n, m
  <1>5. ASSUME NEW k \in 1 .. n * m
        PROVE  /\ tasks[k] \in Range(Strategies) \X Nat
               /\ \E j \in 1 .. m : tasks[k][2] = windows[j]
    <2>. DEFINE i == ((k - 1) \div m) + 1
                j == ((k - 1) % m) + 1
    <2>1. i \in 1 .. n /\ j \in 1 .. m
      BY <1>3
    <2>2. tasks[k] = <<Strategies[i], windows[j]>>
      BY <1>4
    <2>. HIDE DEF i, j, tasks
    <2>3. Strategies[i] \in Range(Strategies) /\ windows[j] \in Nat
      BY <1>1, <2>1
    <2>4. tasks[k][2] = windows[j] /\ tasks[k] \in Range(Strategies) \X Nat
      BY <2>2, <2>3
    <2>. QED  BY <2>1, <2>4
  <1>6. tasks \in [1 .. n * m -> Range(Strategies) \X Nat]
    <2>1. DOMAIN tasks = 1 .. n * m /\ tasks = [k \in 1 .. n * m |-> tasks[k]]
      BY <1>4
    <2>. HIDE DEF tasks
    <2>. QED  BY <1>5, <2>1
  <1>. HIDE DEF tasks
  <1>7. tasks \in Seq(Range(Strategies) \X Nat) /\ Len(tasks) = n * m
    BY <1>2, <1>6
  <1>8. tasks \in Seq(Range(Strategies) \X Nat)
        /\ \A k \in 1 .. Len(tasks) : \E j \in 1 .. Len(windows) :
             tasks[k][2] = windows[j]
    BY <1>5, <1>7 DEF m
  <1>. QED  BY <1>8 DEF tasks

(* A process before its first task, or between two. *)
Waiting(t, tasks) ==
    [computedAt |-> t, tasks |-> tasks, downloaded |-> {},
     cursor |-> IF tasks = <<>> THEN None ELSE tasks[1][2]]

LEMMA BeforeFits ==
    ASSUME ServiceRows, NEW t \in Nat, t =< tick,
           NEW tasks \in Seq(Range(Strategies) \X Nat), HoursOver(tasks, t)
    PROVE  Waiting(t, tasks) # None /\ ProcessFits(Waiting(t, tasks), tick, rows)
  <1>. DEFINE process == Waiting(t, tasks)
  <1>1. process = [computedAt |-> t, tasks |-> tasks, downloaded |-> {},
                   cursor |-> IF tasks = <<>> THEN None ELSE tasks[1][2]]
    BY DEF Waiting
  <1>. HIDE DEF process
  <1>2. tasks # <<>> => tasks[1] \in Range(Strategies) \X Nat /\ tasks[1][2] \in Nat
    OBVIOUS
  <1>3. process \in Process
    BY <1>1, <1>2 DEF Process
  <1>4. process # None
    BY <1>3, LatencyAssumption
  <1>5. process.tasks # <<>> => HasRead(process, rows)
    <2>. SUFFICES ASSUME tasks # <<>>
                  PROVE  HasRead(process, rows)
      BY <1>1
    <2>. DEFINE task == tasks[1]
    <2>1. process.cursor = task[2] /\ process.downloaded = {} /\ process.tasks[1] = task
      BY <1>1
    <2>2. task[2] \in Nat /\ Hour \in Nat
      BY <1>2, LatencyAssumption
    <2>3. RowsUpTo(rows, task, task[2]) = {}
      BY <2>2 DEF RowsUpTo, ServiceRows, OrderRow
    <2>. HIDE DEF task
    <2>. QED  BY <2>1, <2>2, <2>3 DEF HasRead
  <1>6. process.computedAt =< tick /\ HoursOver(process.tasks, process.computedAt)
    BY <1>1
  <1>7. process # None /\ ProcessFits(process, tick, rows)
    BY <1>3, <1>4, <1>5, <1>6 DEF ProcessFits
  <1>. QED  BY <1>7 DEF process

LEMMA StartedFits ==
    ASSUME ServiceRows, NEW range \in Seq(Nat)
    PROVE  Started(range) # None /\ ProcessFits(Started(range), tick, rows)
  <1>. DEFINE windows == Planned(tick, range)
              tasks == Tasks(windows)
  <1>1. tick \in Nat /\ tick =< tick
    BY DEF ServiceRows
  <1>2. /\ windows \in Seq(Nat)
        /\ \A k \in 1 .. Len(windows) : IsFull(windows[k]) /\ windows[k] + Hour =< tick
    BY <1>1, PlannedHours
  <1>3. /\ tasks \in Seq(Range(Strategies) \X Nat)
        /\ \A k \in 1 .. Len(tasks) : \E j \in 1 .. Len(windows) :
             tasks[k][2] = windows[j]
    BY <1>2, TasksOfHours
  <1>4. HoursOver(tasks, tick)
    BY <1>2, <1>3 DEF HoursOver
  <1>5. Started(range) = Waiting(tick, tasks)
    BY DEF Started, Waiting
  <1>. QED  BY <1>1, <1>3, <1>4, <1>5, BeforeFits

-----------------------------------------------------------------------------
(* Hourly latencies: every step keeps the invariant.                       *)

(* Time goes on and rows come: what fitted fits. *)
LEMMA Onward ==
    ASSUME ServiceRows, NEW now \in Nat, tick =< now, NEW held, rows \subseteq held,
           \A row \in held \ rows : row.arrived \in Nat /\ tick =< row.arrived
    PROVE  /\ \A process : ProcessFits(process, tick, rows)
                             => ProcessFits(process, now, held)
           /\ \A task, point : PointFits(task, point, tick, rows)
                                 => PointFits(task, point, now, held)
  <1>1. tick \in Nat /\ \A row \in rows : row.arrived \in Nat
    BY DEF ServiceRows, OrderRow
  <1>2. ASSUME NEW process, ProcessFits(process, tick, rows)
        PROVE  ProcessFits(process, now, held)
    <2>. DEFINE task == process.tasks[1]
    <2>1. process.computedAt \in Nat /\ process.computedAt =< tick
      BY <1>2 DEF ProcessFits, Process
    <2>2. ASSUME process.tasks # <<>>
          PROVE  HasRead(process, held)
      <3>1. HasRead(process, rows)
        BY <1>2, <2>2 DEF ProcessFits
      <3>2. RowsUpTo(rows, task, process.cursor) \subseteq RowsUpTo(held, task, process.cursor)
        BY DEF RowsUpTo
      <3>3. ASSUME NEW row \in RowsUpTo(held, task, process.cursor),
                   row.arrived < process.computedAt
            PROVE  row \in RowsUpTo(rows, task, process.cursor)
        <4>1. row \in rows
          BY <1>1, <2>1, <3>3 DEF RowsUpTo
        <4>. QED  BY <3>3, <4>1 DEF RowsUpTo
      <3>. HIDE DEF task
      <3>4. /\ process.cursor \in Nat
            /\ task[2] =< process.cursor /\ process.cursor =< task[2] + Hour
            /\ process.downloaded \subseteq RowsUpTo(rows, task, process.cursor)
            /\ \A row \in RowsUpTo(rows, task, process.cursor) :
                 row.arrived < process.computedAt => row \in process.downloaded
        BY <3>1 DEF HasRead, task
      <3>5. \A row \in RowsUpTo(held, task, process.cursor) :
              row.arrived < process.computedAt => row \in process.downloaded
        BY <3>3, <3>4
      <3>6. process.downloaded \subseteq RowsUpTo(held, task, process.cursor)
        BY <3>2, <3>4
      <3>. QED  BY <3>4, <3>5, <3>6 DEF HasRead, task
    <2>. QED  BY <1>1, <1>2, <2>1, <2>2 DEF ProcessFits
  <1>3. ASSUME NEW task, NEW point, PointFits(task, point, tick, rows)
        PROVE  PointFits(task, point, now, held)
    <2>1. /\ point.computedAt \in Nat /\ point.storedAt \in Nat
          /\ point.computedAt =< point.storedAt /\ point.storedAt =< tick
      BY <1>3 DEF PointFits
    <2>2. PICK D \in SUBSET rows :
            /\ RowsBy(rows, task, point.computedAt - 1) \subseteq D
            /\ D \subseteq RowsBy(rows, task, point.storedAt)
            /\ point.value = Compute(D, task[2])
      BY <1>3 DEF PointFits
    <2>3. RowsBy(held, task, point.computedAt - 1)
            = RowsBy(rows, task, point.computedAt - 1)
      <3>1. ASSUME NEW row \in held, row.arrived =< point.computedAt - 1
            PROVE  row \in rows
        BY <1>1, <2>1, <3>1
      <3>. QED  BY <3>1 DEF RowsBy, RowsUpTo
    <2>4. RowsBy(rows, task, point.storedAt) \subseteq RowsBy(held, task, point.storedAt)
      BY DEF RowsBy, RowsUpTo
    <2>5. D \in SUBSET held
      OBVIOUS
    <2>6. /\ RowsBy(held, task, point.computedAt - 1) \subseteq D
          /\ D \subseteq RowsBy(held, task, point.storedAt)
      BY <2>2, <2>3, <2>4
    <2>7. \E E \in SUBSET held :
            /\ RowsBy(held, task, point.computedAt - 1) \subseteq E
            /\ E \subseteq RowsBy(held, task, point.storedAt)
            /\ point.value = Compute(E, task[2])
      BY <2>2, <2>5, <2>6
    <2>8. point.storedAt =< now
      BY <1>1, <2>1
    <2>. QED  BY <1>3, <2>7, <2>8 DEF PointFits
  <1>. QED  BY <1>2, <1>3

LEMMA LatencyStart == LatencyInit => LatencyInv
  <1>. SUFFICES ASSUME LatencyInit
                PROVE  LatencyInv
    OBVIOUS
  <1>1. /\ tick = 1 /\ rows = {} /\ points = <<>> /\ loop = NextHour(1)
        /\ run = [p \in Processes |-> None] /\ Hour \in Nat \ {0, 1} /\ None \notin Int
    BY LatencyAssumption DEF LatencyInit
  <1>2. ServiceRows
    BY <1>1, FS_EmptySet DEF ServiceRows
  <1>3. ProcessesFit /\ run["loop"] = None
    BY <1>1 DEF ProcessesFit, Processes
  <1>4. PointsFit
    <2>1. DOMAIN points = {}
      BY <1>1
    <2>. QED  BY <2>1 DEF PointsFit
  <1>5. IsFull(loop) /\ 1 =< loop /\ loop = NextHour(tick) /\ loop \in Int
    <2>1. IsFull(FloorHour(1)) /\ 1 < FloorHour(1) + Hour /\ FloorHour(1) \in Nat
      BY Floors
    <2>2. IsFull(Hour)
      BY <2>1, FullHours
    <2>3. IsFull(FloorHour(1) + Hour)
      BY <2>1, <2>2, FullHours
    <2>. QED  BY <1>1, <2>1, <2>3 DEF NextHour
  <1>6. LoopFits
    BY <1>1, <1>3, <1>5 DEF LoopFits
  <1>7. HoursKept
    BY <1>1 DEF HoursKept
  <1>. QED  BY <1>2, <1>3, <1>4, <1>6, <1>7 DEF LatencyInv

LEMMA NextHours ==
    ASSUME NEW t \in Nat
    PROVE  /\ IsFull(NextHour(t)) /\ t < NextHour(t) /\ NextHour(t) \in Nat
           /\ NextHour(t) =< NextHour(t + 1)
           /\ NextHour(t) # None
  <1>1. /\ FloorHour(t) \in Nat /\ IsFull(FloorHour(t)) /\ FloorHour(t) =< t
        /\ t < FloorHour(t) + Hour
        /\ FloorHour(t + 1) \in Nat /\ IsFull(FloorHour(t + 1))
        /\ t + 1 < FloorHour(t + 1) + Hour
    BY Floors
  <1>2. Hour \in Nat /\ IsFull(Hour) /\ None \notin Int
    BY <1>1, FullHours, LatencyAssumption
  <1>3. FloorHour(t) =< FloorHour(t + 1)
    <2>. SUFFICES ASSUME FloorHour(t + 1) < FloorHour(t)  PROVE FALSE
      BY <1>1
    <2>1. FloorHour(t + 1) + Hour =< FloorHour(t)
      BY <1>1, FullHours
    <2>. QED  BY <1>1, <1>2, <2>1
  <1>4. IsFull(FloorHour(t) + Hour)
    BY <1>1, <1>2, FullHours
  <1>. QED  BY <1>1, <1>2, <1>3, <1>4 DEF NextHour

LEMMA TimePasses == LatencyInv /\ LatencyTick => LatencyInv'
  <1>. SUFFICES ASSUME LatencyInv, LatencyTick
                PROVE  LatencyInv'
    OBVIOUS
  <1>. USE DEF LatencyInv
  <1>1. /\ tick \in Nat /\ tick' = tick + 1 /\ (loop # None => tick < loop)
        /\ UNCHANGED <<rows, points, loop, run>>
        /\ skipped' = IF tick' % Hour = 0 /\ run["loop"] # None
                      THEN skipped \cup {tick' - Hour} ELSE skipped
    BY DEF LatencyTick, ServiceRows
  <1>2. ServiceRows'
    BY <1>1 DEF ServiceRows, OrderRow
  <1>3. /\ \A process : ProcessFits(process, tick, rows)
                          => ProcessFits(process, tick', rows')
        /\ \A task, point : PointFits(task, point, tick, rows)
                              => PointFits(task, point, tick', rows')
    <2>1. /\ tick' \in Nat /\ tick =< tick' /\ rows \subseteq rows'
          /\ \A row \in rows' \ rows : row.arrived \in Nat /\ tick =< row.arrived
      BY <1>1
    <2>. QED  BY <2>1, Onward
  <1>4. ProcessesFit'
    BY <1>1, <1>3 DEF ProcessesFit
  <1>5. PointsFit'
    BY <1>1, <1>3 DEF PointsFit
  <1>6. LoopFits'
    <2>1. loop # None => IsFull(loop) /\ tick + 1 =< loop /\ loop =< NextHour(tick + 1)
      BY <1>1, NextHours DEF LoopFits, IsFull
    <2>. QED  BY <1>1, <2>1 DEF LoopFits
  <1>7. HoursKept'
    <2>. SUFFICES ASSUME NEW window \in Nat, IsFull(window), window + Hour =< tick',
                         NEW k \in DOMAIN Strategies
                  PROVE  Kept(k, window)'
      BY DEF HoursKept, IsFull
    <2>1. Hour \in Nat /\ None \notin Int
      BY LatencyAssumption
    <2>2. CASE window + Hour =< tick
      <3>1. Kept(k, window)
        BY <2>2 DEF HoursKept
      <3>2. ~(loop = window + Hour)
        BY <1>1, <2>1, <2>2
      <3>. QED  BY <1>1, <3>1, <3>2 DEF Kept
    <2>3. CASE window + Hour = tick + 1
      <3>1. IsFull(tick + 1)
        <4>1. IsFull(Hour)
          BY FullHours
        <4>2. IsFull(window + Hour)
          BY <4>1, FullHours
        <4>. QED  BY <2>3, <4>2
      <3>2. CASE run["loop"] # None
        <4>1. window \in skipped'
          BY <1>1, <2>1, <2>3, <3>1, <3>2 DEF IsFull
        <4>. QED  BY <4>1 DEF Kept
      <3>3. CASE run["loop"] = None
        <4>1. IsFull(loop) /\ loop # None /\ tick < loop /\ loop =< NextHour(tick)
          BY <1>1, <3>3 DEF LoopFits
        <4>2. NextHour(tick) =< tick + 1
          <5>1. FloorHour(tick) \in Nat /\ IsFull(FloorHour(tick)) /\ FloorHour(tick) =< tick
            BY <1>1, Floors
          <5>2. FloorHour(tick) < tick + 1
            BY <1>1, <5>1
          <5>. QED  BY <3>1, <5>1, <5>2, FullHours DEF NextHour
        <4>3. loop = tick + 1
          BY <1>1, <4>1, <4>2, NextHours DEF IsFull
        <4>. QED  BY <1>1, <2>3, <4>3 DEF Kept
      <3>. QED  BY <3>2, <3>3
    <2>. QED  BY <1>1, <2>1, <2>2, <2>3
  <1>. QED  BY <1>2, <1>4, <1>5, <1>6, <1>7

LEMMA Arrivals == LatencyInv /\ Arrive => LatencyInv'
  <1>. SUFFICES ASSUME LatencyInv, Arrive
                PROVE  LatencyInv'
    OBVIOUS
  <1>. USE DEF LatencyInv
  <1>1. PICK k \in DOMAIN Strategies, shape \in Shapes, ts \in Nat, id \in Nat :
          rows' = rows \cup {[strategy |-> Strategies[k], ts |-> ts, arrived |-> tick,
                              shape |-> shape, id |-> id]}
    <2>1. PICK k \in DOMAIN Strategies, shape \in Shapes,
               ts \in {tick - delay : delay \in Delays} \cap Nat :
            LET twins == {row \in rows : row.strategy = Strategies[k] /\ row.ts = ts
                                        /\ row.arrived = tick /\ row.shape = shape}
                row == [strategy |-> Strategies[k], ts |-> ts, arrived |-> tick,
                        shape |-> shape, id |-> Cardinality(twins)]
            IN rows' = rows \cup {row}
      BY DEF Arrive
    <2>. DEFINE twins == {row \in rows : row.strategy = Strategies[k] /\ row.ts = ts
                                        /\ row.arrived = tick /\ row.shape = shape}
    <2>2. twins \in SUBSET rows
      OBVIOUS
    <2>3. Cardinality(twins) \in Nat
      BY <2>2, FS_Subset, FS_CardinalityType DEF ServiceRows
    <2>. QED  BY <2>1, <2>3
  <1>. DEFINE row == [strategy |-> Strategies[k], ts |-> ts, arrived |-> tick,
                      shape |-> shape, id |-> id]
  <1>2. /\ tick \in Nat /\ row.arrived = tick /\ row \in OrderRow
        /\ rows' = rows \cup {row}
        /\ UNCHANGED <<tick, points, loop, run, troubles, skipped>>
    <2>1. Strategies[k] \in Range(Strategies)
      BY DEF Range
    <2>. QED  BY <1>1, <2>1 DEF Arrive, OrderRow, ServiceRows
  <1>. HIDE DEF row
  <1>3. ServiceRows'
    <2>1. IsFiniteSet(rows')
      BY <1>2, FS_AddElement DEF ServiceRows
    <2>. QED  BY <1>2, <2>1 DEF ServiceRows
  <1>4. /\ \A process : ProcessFits(process, tick, rows)
                          => ProcessFits(process, tick', rows')
        /\ \A task, point : PointFits(task, point, tick, rows)
                              => PointFits(task, point, tick', rows')
    <2>1. /\ tick' \in Nat /\ tick =< tick' /\ rows \subseteq rows'
          /\ \A new \in rows' \ rows : new.arrived \in Nat /\ tick =< new.arrived
      BY <1>2
    <2>. QED  BY <2>1, Onward
  <1>5. ProcessesFit'
    BY <1>2, <1>4 DEF ProcessesFit
  <1>6. PointsFit'
    BY <1>2, <1>4 DEF PointsFit
  <1>7. LoopFits'
    BY <1>2 DEF LoopFits
  <1>8. HoursKept'
    BY <1>2 DEF HoursKept, Kept
  <1>. QED  BY <1>3, <1>5, <1>6, <1>7, <1>8

(* The loop's process is asked for the hour that ended. *)
LEMMA LastHourInTasks ==
    ASSUME IsFull(tick), tick \in Nat \ {0}, NEW k \in DOMAIN Strategies
    PROVE  <<Strategies[k], tick - Hour>> \in Range(Started(<<>>).tasks)
  <1>. DEFINE windows == [j \in 1 .. 1 |-> (tick - Hour) + (j - 1) * Hour]
              n == Len(Strategies)
              tasks == Tasks(windows)
  <1>1. Planned(tick, <<>>) = windows /\ tick - Hour \in Nat /\ Hour \in Nat
    BY LastHourPlanned, LatencyAssumption
  <1>2. windows \in Seq(Nat) /\ Len(windows) = 1 /\ windows[1] = tick - Hour
    <2>1. windows[1] = (tick - Hour) + (1 - 1) * Hour /\ (1 - 1) * Hour = 0
      BY <1>1
    <2>2. \A j \in 1 .. 1 : (tick - Hour) + (j - 1) * Hour \in Nat
      BY <1>1
    <2>. QED  BY <1>1, <2>1, <2>2, IsASeq
  <1>. HIDE DEF windows
  <1>3. n \in Nat /\ k \in 1 .. n
    BY LatencyAssumption
  <1>4. tasks = [j \in 1 .. n * 1 |-> <<Strategies[((j - 1) \div 1) + 1],
                                        windows[((j - 1) % 1) + 1]>>]
    BY <1>2 DEF Tasks
  <1>. HIDE DEF tasks
  <1>5. k \in DOMAIN tasks
    BY <1>3, <1>4
  <1>6. tasks[k] = <<Strategies[k], windows[1]>>
    <2>1. ((k - 1) \div 1) + 1 = k /\ ((k - 1) % 1) + 1 = 1 /\ k \in 1 .. n * 1
      BY <1>3
    <2>. QED  BY <1>4, <2>1
  <1>7. Started(<<>>).tasks = tasks
    BY <1>1 DEF Started, tasks
  <1>. QED  BY <1>2, <1>5, <1>6, <1>7 DEF Range

LEMMA Wakes == LatencyInv /\ Wake => LatencyInv'
  <1>. SUFFICES ASSUME LatencyInv, Wake
                PROVE  LatencyInv'
    OBVIOUS
  <1>. USE DEF LatencyInv
  <1>. DEFINE process == Started(<<>>)
  <1>1. /\ loop # None /\ tick >= loop /\ loop' = None
        /\ run' = [run EXCEPT !["loop"] = process]
        /\ UNCHANGED <<tick, rows, points, troubles, skipped>>
    BY DEF Wake
  <1>2. process # None /\ ProcessFits(process, tick, rows)
    <2>1. <<>> \in Seq(Nat)
      OBVIOUS
    <2>. QED  BY <2>1, StartedFits
  <1>3. tick \in Nat \ {0} /\ IsFull(tick) /\ loop = tick /\ run["loop"] = None
    <2>1. IsFull(loop) /\ tick =< loop /\ tick \in Nat \ {0}
      BY <1>1 DEF LoopFits, ServiceRows
    <2>2. loop = tick
      BY <1>1, <2>1 DEF IsFull
    <2>. QED  BY <1>1, <2>1, <2>2 DEF LoopFits
  <1>. HIDE DEF process
  <1>4. \A p \in Processes : run'[p] = IF p = "loop" THEN process ELSE run[p]
    BY <1>1 DEF ProcessesFit
  <1>5. DOMAIN run' = Processes /\ "loop" \in Processes
    BY <1>1 DEF ProcessesFit, Processes
  <1>6. ServiceRows'
    BY <1>1 DEF ServiceRows
  <1>7. ProcessesFit'
    BY <1>1, <1>2, <1>4, <1>5 DEF ProcessesFit
  <1>8. PointsFit'
    BY <1>1 DEF PointsFit
  <1>9. LoopFits'
    BY <1>1, <1>2, <1>4, <1>5 DEF LoopFits
  <1>10. HoursKept'
    <2>. SUFFICES ASSUME NEW window \in Nat, IsFull(window), window + Hour =< tick,
                         NEW k \in DOMAIN Strategies
                  PROVE  Kept(k, window)'
      BY <1>1 DEF HoursKept, IsFull
    <2>1. Kept(k, window)
      BY DEF HoursKept
    <2>2. CASE loop = window + Hour
      <3>1. window = tick - Hour /\ Hour \in Nat
        BY <1>3, <2>2, LatencyAssumption
      <3>2. <<Strategies[k], window>> \in Range(process.tasks)
        BY <3>1, <1>3, LastHourInTasks DEF process
      <3>. QED  BY <1>2, <1>4, <1>5, <3>2 DEF Kept
    <2>3. CASE loop # window + Hour
      BY <1>1, <1>3, <2>1, <2>3 DEF Kept
    <2>. QED  BY <2>2, <2>3
  <1>. QED  BY <1>6, <1>7, <1>8, <1>9, <1>10

LEMMA Operates == LatencyInv /\ Operate => LatencyInv'
  <1>. SUFFICES ASSUME LatencyInv, Operate
                PROVE  LatencyInv'
    OBVIOUS
  <1>. USE DEF LatencyInv
  <1>1. PICK range \in Ranges : run' = [run EXCEPT !["operator"] = Started(range)]
    BY DEF Operate
  <1>2. UNCHANGED <<tick, rows, points, loop, skipped>>
    BY DEF Operate
  <1>. DEFINE process == Started(range)
  <1>3. process # None /\ ProcessFits(process, tick, rows)
    <2>1. range \in Seq(Nat)
      BY LatencyAssumption
    <2>. QED  BY <2>1, StartedFits
  <1>. HIDE DEF process
  <1>4. /\ DOMAIN run' = Processes /\ run'["loop"] = run["loop"]
        /\ \A p \in Processes : run'[p] = IF p = "operator" THEN process ELSE run[p]
    BY <1>1 DEF ProcessesFit, Processes, process
  <1>5. ServiceRows' /\ PointsFit'
    BY <1>2 DEF ServiceRows, PointsFit
  <1>6. ProcessesFit'
    BY <1>2, <1>3, <1>4 DEF ProcessesFit
  <1>7. LoopFits' /\ HoursKept'
    BY <1>2, <1>4 DEF LoopFits, HoursKept, Kept
  <1>. QED  BY <1>5, <1>6, <1>7

(* The rows read grow by a chunk. *)
LEMMA Downloads ==
    ASSUME LatencyInv, NEW p \in Processes, Download(p)
    PROVE  LatencyInv'
  <1>. USE DEF LatencyInv
  <1>. DEFINE process == run[p]
              task == process.tasks[1]
              end == SoonerOf(process.cursor + Chunk, task[2] + Hour)
              chunk == {row \in rows : row.strategy = task[1]
                                       /\ process.cursor =< row.ts /\ row.ts < end}
              new == [process EXCEPT !.downloaded = @ \cup chunk, !.cursor = end]
  <1>1. /\ process # None /\ process.tasks # <<>> /\ process.cursor < task[2] + Hour
        /\ run' = [run EXCEPT ![p] = new]
        /\ UNCHANGED <<tick, rows, points, loop, troubles, skipped>>
    BY DEF Download, Task, WindowEnd
  <1>2. ProcessFits(process, tick, rows) /\ HasRead(process, rows)
    BY <1>1 DEF ProcessesFit, ProcessFits
  <1>3. process \in Process /\ task \in Range(Strategies) \X Nat /\ task[2] \in Nat
        /\ Hour \in Nat \ {0} /\ Chunk \in Nat \ {0}
    <2>1. process \in Process /\ process.tasks \in Seq(Range(Strategies) \X Nat)
      BY <1>2 DEF ProcessFits, Process
    <2>. QED  BY <1>1, <2>1, LatencyAssumption
  <1>4. /\ new.computedAt = process.computedAt /\ new.tasks = process.tasks
        /\ new.downloaded = process.downloaded \cup chunk /\ new.cursor = end
        /\ DOMAIN new = {"computedAt", "tasks", "downloaded", "cursor"}
    BY <1>3 DEF Process
  <1>5. /\ process.cursor \in Nat
        /\ task[2] =< process.cursor /\ process.cursor =< task[2] + Hour
        /\ process.downloaded \subseteq RowsUpTo(rows, task, process.cursor)
        /\ \A row \in RowsUpTo(rows, task, process.cursor) :
             row.arrived < process.computedAt => row \in process.downloaded
    BY <1>2 DEF HasRead
  <1>. HIDE DEF task
  <1>6. end \in Nat /\ process.cursor =< end /\ end =< task[2] + Hour
    BY <1>1, <1>3, <1>5 DEF SoonerOf
  <1>7. chunk \in SUBSET OrderRow /\ process.downloaded \in SUBSET OrderRow
    BY <1>3 DEF ServiceRows, Process
  <1>. HIDE DEF end
  <1>8. RowsUpTo(rows, task, end) = RowsUpTo(rows, task, process.cursor) \cup chunk
    <2>1. \A row \in rows : row.ts \in Nat
      BY DEF ServiceRows, OrderRow
    <2>. QED  BY <1>3, <1>5, <1>6, <2>1 DEF RowsUpTo
  <1>9. /\ new.downloaded \subseteq RowsUpTo(rows, task, new.cursor)
        /\ \A row \in RowsUpTo(rows, task, new.cursor) :
             row.arrived < new.computedAt => row \in new.downloaded
    <2>. HIDE DEF chunk, new
    <2>. QED  BY <1>4, <1>5, <1>8
  <1>10. new \in Process
    <2>. HIDE DEF chunk
    <2>. QED  BY <1>3, <1>6, <1>7 DEF Process
  <1>. HIDE DEF new, chunk
  <1>11. HasRead(new, rows)
    <2>1. task[2] =< end
      BY <1>3, <1>5, <1>6
    <2>. QED  BY <1>4, <1>6, <1>9, <2>1 DEF HasRead, task
  <1>12. ProcessFits(new, tick, rows)
    BY <1>2, <1>4, <1>10, <1>11 DEF ProcessFits
  <1>13. new # None
    BY <1>10, LatencyAssumption
  <1>14. /\ DOMAIN run' = Processes
         /\ \A q \in Processes : run'[q] = IF q = p THEN new ELSE run[q]
    BY <1>1 DEF ProcessesFit
  <1>15. ServiceRows' /\ PointsFit'
    BY <1>1 DEF ServiceRows, PointsFit
  <1>16. ProcessesFit'
    <2>. HIDE DEF process
    <2>. QED  BY <1>1, <1>12, <1>14 DEF ProcessesFit
  <1>17. /\ run'["loop"] # None <=> run["loop"] # None
         /\ run["loop"] # None => run'["loop"].tasks = run["loop"].tasks
    <2>1. "loop" \in Processes
      BY DEF Processes
    <2>. QED  BY <1>1, <1>4, <1>13, <1>14, <2>1
  <1>18. LoopFits' /\ HoursKept'
    BY <1>1, <1>17 DEF LoopFits, HoursKept, Kept
  <1>. QED  BY <1>15, <1>16, <1>18

(* A point is stored and the process goes to its next task. *)
LEMMA StoresPoint ==
    ASSUME LatencyInv, NEW p \in Processes, Store(p)
    PROVE  LatencyInv'
  <1>. USE DEF LatencyInv
  <1>. DEFINE process == run[p]
              task == process.tasks[1]
              rest == Tail(process.tasks)
              point == [computedAt |-> process.computedAt, storedAt |-> tick,
                        value |-> Compute(process.downloaded, task[2])]
              new == Waiting(process.computedAt, rest)
  <1>1. /\ process # None /\ process.tasks # <<>>
        /\ process.cursor >= task[2] + Hour
        /\ points' = [other \in DOMAIN points \cup {task} |->
                        IF other = task THEN point ELSE points[other]]
        /\ run' = [run EXCEPT ![p].tasks = rest, ![p].downloaded = {},
                     ![p].cursor = IF rest = <<>> THEN None ELSE rest[1][2]]
        /\ UNCHANGED <<tick, rows, loop, troubles, skipped>>
    BY DEF Store, Task, WindowEnd
  <1>2. ProcessFits(process, tick, rows) /\ HasRead(process, rows)
    BY <1>1 DEF ProcessesFit, ProcessFits
  <1>3. /\ process \in Process /\ process.computedAt \in Nat
        /\ process.computedAt =< tick /\ tick \in Nat
        /\ process.tasks \in Seq(Range(Strategies) \X Nat)
        /\ process.tasks # <<>> /\ HoursOver(process.tasks, process.computedAt)
    BY <1>1, <1>2 DEF ProcessFits, Process, ServiceRows
  <1>4. /\ task \in Range(Strategies) \X Nat /\ task[2] \in Nat
        /\ IsFull(task[2]) /\ task[2] + Hour =< process.computedAt
    BY <1>3 DEF HoursOver
  <1>5. /\ rest \in Seq(Range(Strategies) \X Nat)
        /\ Len(rest) = Len(process.tasks) - 1
        /\ \A k \in 1 .. Len(rest) : rest[k] = process.tasks[k + 1]
    BY <1>3, HeadTailProperties
  <1>6. HoursOver(rest, process.computedAt)
    <2>1. Len(process.tasks) \in Nat
      BY <1>3
    <2>2. \A k \in 1 .. Len(rest) : k + 1 \in 1 .. Len(process.tasks)
      BY <1>5, <2>1
    <2>. HIDE DEF rest, process
    <2>. QED  BY <1>3, <1>5, <2>2 DEF HoursOver
  <1>7. new # None /\ ProcessFits(new, tick, rows)
    <2>. HIDE DEF rest, process
    <2>. QED  BY <1>3, <1>5, <1>6, BeforeFits
  <1>8. /\ DOMAIN run' = Processes
        /\ \A q \in Processes : run'[q] = IF q = p THEN new ELSE run[q]
    <2>1. [process EXCEPT !.tasks = rest, !.downloaded = {},
             !.cursor = IF rest = <<>> THEN None ELSE rest[1][2]] = new
      <3>1. process = [computedAt |-> process.computedAt, tasks |-> process.tasks,
                       downloaded |-> process.downloaded, cursor |-> process.cursor]
        <4>. HIDE DEF process
        <4>. QED  BY <1>3 DEF Process
      <3>. DEFINE next == IF rest = <<>> THEN None ELSE rest[1][2]
                  moved == [process EXCEPT !.tasks = rest, !.downloaded = {},
                                           !.cursor = next]
      <3>. HIDE DEF rest, process, next
      <3>2. /\ DOMAIN moved = {"computedAt", "tasks", "downloaded", "cursor"}
            /\ moved.computedAt = process.computedAt /\ moved.tasks = rest
            /\ moved.downloaded = {} /\ moved.cursor = next
        BY <3>1
      <3>3. moved = [f \in {"computedAt", "tasks", "downloaded", "cursor"} |-> moved[f]]
        BY <3>2
      <3>. HIDE DEF moved
      <3>4. moved = [computedAt |-> process.computedAt, tasks |-> rest,
                     downloaded |-> {}, cursor |-> next]
        BY <3>2, <3>3
      <3>. QED  BY <3>4 DEF Waiting, moved, next
    <2>2. run' = [run EXCEPT ![p] =
                    [process EXCEPT !.tasks = rest, !.downloaded = {},
                       !.cursor = IF rest = <<>> THEN None ELSE rest[1][2]]]
      BY <1>1 DEF ProcessesFit
    <2>. HIDE DEF new, rest
    <2>. QED  BY <2>1, <2>2 DEF ProcessesFit
  <1>9. PointFits(task, point, tick, rows)
    <2>. DEFINE D == process.downloaded
    <2>1. /\ process.cursor = task[2] + Hour
          /\ D \subseteq RowsUpTo(rows, task, task[2] + Hour)
          /\ \A row \in RowsUpTo(rows, task, task[2] + Hour) :
               row.arrived < process.computedAt => row \in D
      <3>1. Hour \in Nat
        BY LatencyAssumption
      <3>. HIDE DEF process
      <3>2. /\ process.cursor \in Nat /\ process.cursor =< task[2] + Hour
            /\ D \subseteq RowsUpTo(rows, task, process.cursor)
            /\ \A row \in RowsUpTo(rows, task, process.cursor) :
                 row.arrived < process.computedAt => row \in D
        BY <1>2 DEF HasRead
      <3>. HIDE DEF task, D
      <3>3. process.cursor = task[2] + Hour
        BY <1>1, <1>4, <3>1, <3>2
      <3>. QED  BY <3>2, <3>3
    <2>2. \A row \in rows : row.arrived \in Nat /\ row.arrived =< tick
      BY DEF ServiceRows, OrderRow
    <2>. HIDE DEF process, task
    <2>3. /\ D \in SUBSET rows
          /\ RowsBy(rows, task, process.computedAt - 1) \subseteq D
          /\ D \subseteq RowsBy(rows, task, tick)
      BY <1>3, <2>1, <2>2 DEF RowsBy, RowsUpTo
    <2>4. /\ point.computedAt = process.computedAt /\ point.storedAt = tick
          /\ point.value = Compute(D, task[2])
      OBVIOUS
    <2>. HIDE DEF point, D
    <2>. QED  BY <1>3, <1>4, <2>3, <2>4 DEF PointFits
  <1>. HIDE DEF process, task, rest, point, new
  <1>10. ServiceRows'
    BY <1>1 DEF ServiceRows
  <1>11. ProcessesFit'
    BY <1>1, <1>7, <1>8 DEF ProcessesFit
  <1>12. PointsFit'
    BY <1>1, <1>9 DEF PointsFit
  <1>13. LoopFits'
    <2>1. "loop" \in Processes
      BY DEF Processes
    <2>. QED  BY <1>1, <1>7, <1>8, <2>1 DEF LoopFits, process
  <1>14. HoursKept'
    <2>. SUFFICES ASSUME NEW window \in Nat, IsFull(window), window + Hour =< tick,
                         NEW k \in DOMAIN Strategies
                  PROVE  Kept(k, window)'
      BY <1>1 DEF HoursKept, IsFull
    <2>. DEFINE it == <<Strategies[k], window>>
    <2>1. Kept(k, window)
      BY DEF HoursKept
    <2>2. CASE it = task
      BY <1>1, <2>2 DEF Kept
    <2>3. CASE it # task
      <3>1. it \in DOMAIN points => it \in DOMAIN points'
        BY <1>1
      <3>2. "loop" \in Processes
        BY DEF Processes
      <3>3. ASSUME it \in Range(process.tasks)
            PROVE  it \in Range(new.tasks)
        <4>1. PICK j \in DOMAIN process.tasks : it = process.tasks[j]
          BY <3>3 DEF Range
        <4>2. Len(process.tasks) \in Nat /\ DOMAIN process.tasks = 1 .. Len(process.tasks)
          BY <1>3
        <4>3. j # 1
          BY <2>3, <4>1 DEF task
        <4>4. j - 1 \in 1 .. Len(rest) /\ (j - 1) + 1 = j
          BY <1>5, <4>2, <4>3
        <4>5. rest[j - 1] = it /\ j - 1 \in DOMAIN rest
          <5>1. rest[j - 1] = process.tasks[(j - 1) + 1]
            BY <1>5, <4>4
          <5>2. DOMAIN rest = 1 .. Len(rest)
            BY <1>5
          <5>. QED  BY <4>1, <4>4, <5>1, <5>2
        <4>6. new.tasks = rest
          BY DEF new, Waiting
        <4>. QED  BY <4>5, <4>6 DEF Range
      <3>. HIDE DEF it
      <3>4. run["loop"] # None /\ it \in Range(run["loop"].tasks)
              => run'["loop"] # None /\ it \in Range(run'["loop"].tasks)
        BY <1>7, <1>8, <3>2, <3>3 DEF process
      <3>. QED  BY <1>1, <2>1, <3>1, <3>4 DEF Kept, it
    <2>. QED  BY <2>2, <2>3
  <1>. QED  BY <1>10, <1>11, <1>12, <1>13, <1>14

(* A process that leaves: the loop sleeps until the next hour again. *)
LEMMA Leaves ==
    ASSUME LatencyInv, NEW p \in Processes, run[p] # None,
           run' = [run EXCEPT ![p] = None], loop' = Back(p),
           UNCHANGED <<tick, rows, points>>, skipped \subseteq skipped',
           p = "loop" => \A k \in DOMAIN run[p].tasks : run[p].tasks[k][2] \in skipped'
    PROVE  LatencyInv'
  <1>. USE DEF LatencyInv
  <1>1. /\ DOMAIN run' = Processes
        /\ \A q \in Processes : run'[q] = IF q = p THEN None ELSE run[q]
    BY DEF ProcessesFit
  <1>2. ServiceRows' /\ PointsFit'
    BY DEF ServiceRows, PointsFit
  <1>3. ProcessesFit'
    BY <1>1 DEF ProcessesFit
  <1>4. "loop" \in Processes /\ tick \in Nat /\ Hour \in Nat /\ None \notin Int
    BY LatencyAssumption DEF Processes, ServiceRows
  <1>5. LoopFits'
    <2>1. CASE p = "loop"
      <3>1. loop' = NextHour(tick) /\ run'["loop"] = None
        BY <1>1, <1>4, <2>1 DEF Back
      <3>2. /\ IsFull(NextHour(tick)) /\ tick < NextHour(tick) /\ NextHour(tick) \in Nat
            /\ NextHour(tick) # None
        BY <1>4, NextHours
      <3>3. tick =< NextHour(tick) /\ NextHour(tick) =< NextHour(tick)
        BY <1>4, <3>2
      <3>4. NextHour(tick)' = NextHour(tick)
        BY DEF NextHour, FloorHour
      <3>. QED  BY <3>1, <3>2, <3>3, <3>4 DEF LoopFits
    <2>2. CASE p # "loop"
      <3>1. loop' = loop /\ run'["loop"] = run["loop"]
        BY <1>1, <1>4, <2>2 DEF Back
      <3>. QED  BY <3>1 DEF LoopFits
    <2>. QED  BY <2>1, <2>2
  <1>6. HoursKept'
    <2>. SUFFICES ASSUME NEW window \in Nat, IsFull(window), window + Hour =< tick,
                         NEW k \in DOMAIN Strategies
                  PROVE  Kept(k, window)'
      BY DEF HoursKept, IsFull
    <2>1. Kept(k, window)
      BY DEF HoursKept
    <2>2. CASE p = "loop"
      <3>1. loop = None
        BY <2>2 DEF LoopFits
      <3>2. ~(loop = window + Hour)
        BY <1>4, <3>1
      <3>3. ASSUME <<Strategies[k], window>> \in Range(run["loop"].tasks)
            PROVE  window \in skipped'
        <4>1. PICK j \in DOMAIN run["loop"].tasks :
                run["loop"].tasks[j] = <<Strategies[k], window>>
          BY <3>3 DEF Range
        <4>. QED  BY <2>2, <4>1
      <3>. QED  BY <2>1, <3>2, <3>3 DEF Kept
    <2>3. CASE p # "loop"
      <3>1. loop' = loop /\ run'["loop"] = run["loop"]
        BY <1>1, <1>4, <2>3 DEF Back
      <3>. QED  BY <2>1, <3>1 DEF Kept
    <2>. QED  BY <2>2, <2>3
  <1>. QED  BY <1>2, <1>3, <1>5, <1>6

LEMMA Ends ==
    ASSUME LatencyInv, NEW p \in Processes, End(p)
    PROVE  LatencyInv'
  <1>1. /\ run[p] # None /\ run[p].tasks = <<>>
        /\ run' = [run EXCEPT ![p] = None] /\ loop' = Back(p)
        /\ UNCHANGED <<tick, rows, points, skipped>>
    BY DEF End
  <1>2. \A k \in DOMAIN run[p].tasks : run[p].tasks[k][2] \in skipped'
    BY <1>1
  <1>. QED  BY <1>1, <1>2, Leaves

LEMMA Fails ==
    ASSUME LatencyInv, NEW p \in Processes, Fail(p)
    PROVE  LatencyInv'
  <1>1. /\ run[p] # None
        /\ run' = [run EXCEPT ![p] = None] /\ loop' = Back(p)
        /\ UNCHANGED <<tick, rows, points>>
        /\ skipped' = IF p = "loop" THEN skipped \cup {run[p].tasks[k][2] :
                                                       k \in DOMAIN run[p].tasks}
                      ELSE skipped
    BY DEF Fail
  <1>2. p = "loop" => \A k \in DOMAIN run[p].tasks : run[p].tasks[k][2] \in skipped'
    BY <1>1
  <1>. QED  BY <1>1, <1>2, Leaves

LEMMA LatencyStep == LatencyInv /\ [LatencyNext]_latencyVars => LatencyInv'
  <1>. SUFFICES ASSUME LatencyInv, [LatencyNext]_latencyVars
                PROVE  LatencyInv'
    OBVIOUS
  <1>1. CASE Wake
    BY <1>1, Wakes
  <1>2. CASE Operate
    BY <1>2, Operates
  <1>3. CASE LatencyTick
    BY <1>3, TimePasses
  <1>4. CASE Arrive
    BY <1>4, Arrivals
  <1>5. ASSUME NEW p \in Processes, Download(p) \/ Store(p) \/ End(p) \/ Fail(p)
        PROVE  LatencyInv'
    BY <1>5, Downloads, StoresPoint, Ends, Fails
  <1>6. CASE UNCHANGED latencyVars
    BY <1>6 DEF latencyVars, LatencyInv, ServiceRows, ProcessesFit, PointsFit,
                LoopFits, HoursKept, Kept, NextHour, FloorHour
  <1>. QED  BY <1>1, <1>2, <1>3, <1>4, <1>5, <1>6 DEF LatencyNext

(* The hourly points are exact and none is missing, for any strategies,    *)
(* rows however late, ranges and failures: a stored hour was over before   *)
(* its process began, counts every row the service had then and none it    *)
(* did not have yet, with quantiles where the samples put them, and an     *)
(* hour that ended is stored, being computed, or its run failed or could   *)
(* not start (src/src/bin/sync_intra_hourly_latency.rs,                    *)
(* run_hourly_latency_loop).                                               *)
THEOREM HourlyPointsAreTrue == LatencySpec => []HourlyPointsAreExact
  <1>1. LatencyInv => HourlyPointsAreExact
    BY PointsAreExact, HoursAreKept DEF LatencyInv, HourlyPointsAreExact
  <1>. QED  BY LatencyStart, LatencyStep, <1>1, PTL DEF LatencySpec
=============================================================================
