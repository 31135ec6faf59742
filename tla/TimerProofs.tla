---------------------------- MODULE TimerProofs ----------------------------
(***************************************************************************)
(* Proofs about HardTimer: for every set of timers, every length of the    *)
(* tick counter and all times below half of it, the flag of a timer and    *)
(* the list agree, and the list under the wrapping tick implements the     *)
(* countdown.                                                              *)
(***************************************************************************)
EXTENDS HardTimer, SequenceTheorems, WellFoundedInduction, TLAPS

Ticks == 0 .. TickMod - 1

TypeOK == /\ rt_tick \in Ticks
          /\ list \in Seq(Timers)
          /\ inited \subseteq Timers /\ active \subseteq Timers /\ periodic \subseteq Timers
          /\ init_tick \in [Timers -> Times]
          /\ timeout \in [Timers -> Ticks]
          /\ pc \in {"run", "check", "call"}
          /\ cur \in Timers \cup {None} /\ temp \in BOOLEAN
          /\ ops \in Nat
          /\ order \subseteq Timers \X Timers
          /\ madeOneShot \subseteq Timers

Left(t) == Minus(timeout[t], rt_tick)

(* A timer is on the local list only while its function runs; then it is   *)
(* still an object, is not on the kernel's list, and goes on if active     *)
(* unless its function made it a one-shot.                                 *)
Local == /\ pc = "call" <=> cur # None
         /\ madeOneShot \subseteq inited
         /\ temp => /\ cur \in inited /\ cur \notin Range(list)
                    /\ cur \in active => cur \in periodic \cup madeOneShot

(* A running timer has less than half a round left, and outside the        *)
(* interrupt at least a tick.                                              *)
Ahead == \A t \in Range(list) : /\ Left(t) < Half
                                /\ pc = "run" => Left(t) > 0

(* The list holds every timer once, by the ticks left and then by start.   *)
SortedBy(q, ticks, before) ==
    \A i, j \in DOMAIN q : i < j =>
        \/ ticks[q[i]] < ticks[q[j]]
        \/ ticks[q[i]] = ticks[q[j]] /\ <<q[i], q[j]>> \in before

LeftOf == [t \in Timers |-> Left(t)]
Sorted == IsInjective(list) /\ SortedBy(list, LeftOf, order)

(* The history is an order of the running timers.                          *)
Ordered == \A t, u \in Timers : <<t, u>> \in order =>
             {t, u} \subseteq Range(list) /\ <<u, t>> \notin order

Listing == Ahead /\ Sorted /\ Ordered

IInv == TypeOK /\ FlagMeansListed /\ Local /\ Listing

----------------------------------------------------------------------------
(* A number within a round is its own remainder, one that is less than a   *)
(* round below or above it gets it.                                        *)
LEMMA Mod ==
  ASSUME NEW a \in Int, -TickMod =< a, a < 2 * TickMod
  PROVE  a % TickMod = IF a < 0 THEN a + TickMod
                       ELSE IF a < TickMod THEN a ELSE a - TickMod
<1> DEFINE q == a \div TickMod
           r == a % TickMod
<1>1. q \in Int /\ r \in 0 .. TickMod - 1 /\ a = TickMod * q + r
  BY TickAssumption
<1> HIDE DEF q, r
<1>2. QED
  BY <1>1, TickAssumption DEF r

LEMMA HalfIs == Half \in Nat /\ 2 * Half =< TickMod - 1
  BY TickAssumption DEF Half

(* The distance between two ticks, once around the counter.                *)
LEMMA MinusIs ==
  ASSUME NEW a \in Ticks, NEW b \in Ticks
  PROVE  /\ Minus(a, b) \in Ticks
         /\ Minus(a, b) = IF b =< a THEN a - b ELSE (a - b) + TickMod
<1>1. a - b \in Int /\ -TickMod =< a - b /\ a - b < 2 * TickMod /\ a - b < TickMod
  BY TickAssumption DEF Ticks
<1>2. (a - b) % TickMod = IF a - b < 0 THEN (a - b) + TickMod
                          ELSE IF a - b < TickMod THEN a - b ELSE (a - b) - TickMod
  BY <1>1, Mod
<1>3. QED
  BY <1>1, <1>2, TickAssumption DEF Minus, Ticks

(* A timer that is started has its time left, wherever the counter is.     *)
LEMMA StartGivesTime ==
  ASSUME NEW now \in Ticks, NEW n \in Times
  PROVE  LET at == (now + n) % TickMod IN
           at \in Ticks /\ Minus(at, now) = n /\ 0 < n /\ n < Half
<1> DEFINE at == (now + n) % TickMod
<1>1. n \in Int /\ 0 < n /\ n < Half /\ Half < TickMod
  BY HardTimerAssumption, HalfIs, TickAssumption
<1>2. at = IF now + n < TickMod THEN now + n ELSE (now + n) - TickMod
  BY <1>1, Mod, TickAssumption, HalfIs DEF Ticks
<1> HIDE DEF at
<1>3. at \in Ticks
  BY <1>1, <1>2, TickAssumption, HalfIs DEF Ticks
<1>4. Minus(at, now) = IF now =< at THEN at - now ELSE (at - now) + TickMod
  BY <1>3, MinusIs
<1>5. Minus(at, now) = n
  BY <1>1, <1>2, <1>4, TickAssumption, HalfIs DEF Ticks
<1>6. QED
  BY <1>1, <1>3, <1>5 DEF at

(* A tick takes one off what a timer has left.                             *)
LEMMA TickTakesOne ==
  ASSUME NEW now \in Ticks, NEW a \in Ticks
  PROVE  LET next == (now + 1) % TickMod IN
           /\ next \in Ticks
           /\ 0 < Minus(a, now) => Minus(a, next) = Minus(a, now) - 1
<1> DEFINE next == (now + 1) % TickMod
<1>1. next = IF now + 1 < TickMod THEN now + 1 ELSE (now + 1) - TickMod
  BY Mod, TickAssumption DEF Ticks
<1> HIDE DEF next
<1>2. next \in Ticks
  BY <1>1, TickAssumption DEF Ticks
<1>3. /\ Minus(a, now) = IF now =< a THEN a - now ELSE (a - now) + TickMod
      /\ Minus(a, next) = IF next =< a THEN a - next ELSE (a - next) + TickMod
  BY <1>2, MinusIs
<1>4. 0 < Minus(a, now) => Minus(a, next) = Minus(a, now) - 1
  BY <1>1, <1>3, TickAssumption DEF Ticks
<1>5. QED
  BY <1>2, <1>4 DEF next

(* The comparison of timer.c, of timers with less than half a round left.  *)
LEMMA LaterMeansMoreLeft ==
  ASSUME NEW now \in Ticks, NEW u \in Ticks, NEW v \in Ticks,
         Minus(u, now) < Half, Minus(v, now) < Half
  PROVE  Later(u, v) <=> Minus(v, now) < Minus(u, now)
<1>1. /\ Minus(u, now) = IF now =< u THEN u - now ELSE (u - now) + TickMod
      /\ Minus(v, now) = IF now =< v THEN v - now ELSE (v - now) + TickMod
      /\ Minus(u, v) = IF v =< u THEN u - v ELSE (u - v) + TickMod
  BY MinusIs
<1>2. QED
  BY <1>1, HalfIs, TickAssumption DEF Later, Ticks

(* The test of rt_timer_check finds the timers with nothing left.          *)
LEMMA DueMeansNoneLeft ==
  ASSUME NEW now \in Ticks, NEW a \in Ticks, Minus(a, now) < Half
  PROVE  Due(now, a) <=> Minus(a, now) = 0
<1>1. /\ Minus(a, now) = IF now =< a THEN a - now ELSE (a - now) + TickMod
      /\ Minus(now, a) = IF a =< now THEN now - a ELSE (now - a) + TickMod
  BY MinusIs
<1>2. QED
  BY <1>1, HalfIs, TickAssumption DEF Due, Ticks

----------------------------------------------------------------------------
(* Lists.                                                                  *)

(* A set of positions that is not empty has a first one, which Min gives.  *)
LEMMA MinIsLeast ==
  ASSUME NEW S \in SUBSET Nat, S # {}
  PROVE  Min(S) \in S /\ \A m \in S : Min(S) =< m
<1> DEFINE R == OpToRel(<, Nat)
<1>1. IsWellFoundedOn(R, Nat)
  BY NatLessThanWellFounded, Zenon
<1>2. \A m, n \in Nat : m < n => <<m, n>> \in R
  BY DEF OpToRel
<1> HIDE DEF R
<1>3. PICK n \in S : \A m \in S : ~(<<m, n>> \in R)
  BY <1>1, WFMin
<1>4. \A m \in S : ~(m < n)
  BY <1>2, <1>3, Zenon
<1>5. \E x \in S : \A m \in S : x =< m
  BY <1>4
<1>6. QED
  BY <1>5 DEF Min

(* The front and the rest of a list.                                       *)
LEMMA SubSeqIs ==
  ASSUME NEW T, NEW q \in Seq(T), NEW n \in 1 .. Len(q) + 1
  PROVE  /\ SubSeq(q, 1, n - 1) \in Seq(T) /\ Len(SubSeq(q, 1, n - 1)) = n - 1
         /\ \A m \in 1 .. n - 1 : SubSeq(q, 1, n - 1)[m] = q[m]
         /\ SubSeq(q, n, Len(q)) \in Seq(T)
         /\ Len(SubSeq(q, n, Len(q))) = Len(q) + 1 - n
         /\ \A m \in 1 .. Len(q) + 1 - n : SubSeq(q, n, Len(q))[m] = q[n - 1 + m]
<1> DEFINE a == SubSeq(q, 1, n - 1)
           b == SubSeq(q, n, Len(q))
<1>1. /\ Len(q) \in Nat /\ n \in Nat /\ DOMAIN q = 1 .. Len(q)
      /\ \A m \in 1 .. Len(q) : q[m] \in T
  OBVIOUS
<1>2. /\ a \in Seq(T) /\ Len(a) = n - 1
      /\ \A m \in 1 .. n - 1 : a[m] = q[m]
  <2>1. \A m \in 1 .. n - 1 : q[m] \in T
    BY <1>1
  <2>2. /\ a \in Seq(T)
        /\ Len(a) = IF 1 <= n - 1 THEN (n - 1) - 1 + 1 ELSE 0
        /\ \A m \in 1 .. (n - 1) - 1 + 1 : a[m] = q[1 + m - 1]
    <3>1. 1 \in Int /\ n - 1 \in Int
      BY <1>1
    <3>2. QED
      BY <2>1, <3>1, SubSeqProperties
  <2> HIDE DEF a
  <2>3. QED
    BY <1>1, <2>2
<1>3. /\ b \in Seq(T) /\ Len(b) = Len(q) + 1 - n
      /\ \A m \in 1 .. Len(q) + 1 - n : b[m] = q[n - 1 + m]
  <2>1. \A m \in n .. Len(q) : q[m] \in T
    BY <1>1
  <2>2. /\ b \in Seq(T)
        /\ Len(b) = IF n <= Len(q) THEN Len(q) - n + 1 ELSE 0
        /\ \A m \in 1 .. Len(q) - n + 1 : b[m] = q[n + m - 1]
    <3>1. n \in Int /\ Len(q) \in Int
      BY <1>1
    <3>2. QED
      BY <2>1, <3>1, SubSeqProperties
  <2> HIDE DEF b
  <2>3. Len(b) = Len(q) + 1 - n
    BY <1>1, <2>2
  <2>4. ASSUME NEW m \in 1 .. Len(q) + 1 - n  PROVE b[m] = q[n - 1 + m]
    <3>1. m \in 1 .. Len(q) - n + 1 /\ n + m - 1 = n - 1 + m
      BY <1>1
    <3>2. b[m] = q[n + m - 1]
      BY <2>2, <3>1
    <3>3. QED
      BY <3>1, <3>2
  <2>5. QED
    BY <2>2, <2>3, <2>4
<1>4. QED
  BY <1>2, <1>3

(* Two lists, one behind the other.                                        *)
LEMMA ConcatIs ==
  ASSUME NEW T, NEW a \in Seq(T), NEW b \in Seq(T)
  PROVE  /\ a \o b \in Seq(T) /\ Len(a \o b) = Len(a) + Len(b)
         /\ \A m \in 1 .. Len(a) + Len(b) :
              (a \o b)[m] = IF m <= Len(a) THEN a[m] ELSE b[m - Len(a)]
  BY ConcatProperties

(* What is left of a list when an element is taken out.                    *)
LEMMA RemoveAtIs ==
  ASSUME NEW T, NEW q \in Seq(T), NEW n \in DOMAIN q
  PROVE  /\ RemoveAt(q, n) \in Seq(T)
         /\ DOMAIN RemoveAt(q, n) = 1 .. Len(q) - 1
         /\ \A m \in 1 .. Len(q) - 1 :
              RemoveAt(q, n)[m] = IF m < n THEN q[m] ELSE q[m + 1]
<1> DEFINE a == SubSeq(q, 1, n - 1)
           b == SubSeq(q, n + 1, Len(q))
           r == RemoveAt(q, n)
<1>1. Len(q) \in Nat /\ n \in 1 .. Len(q)
  OBVIOUS
<1>2. /\ a \in Seq(T) /\ Len(a) = n - 1
      /\ \A m \in 1 .. n - 1 : a[m] = q[m]
  BY <1>1, SubSeqIs
<1>3. /\ b \in Seq(T) /\ Len(b) = Len(q) - n
      /\ \A m \in 1 .. Len(q) - n : b[m] = q[n + m]
  <2> DEFINE k == n + 1
  <2>1. k \in 1 .. Len(q) + 1
    BY <1>1
  <2>2. /\ SubSeq(q, k, Len(q)) \in Seq(T)
        /\ Len(SubSeq(q, k, Len(q))) = Len(q) + 1 - k
        /\ \A m \in 1 .. Len(q) + 1 - k : SubSeq(q, k, Len(q))[m] = q[k - 1 + m]
    <3> HIDE DEF k
    <3>1. QED  BY <2>1, SubSeqIs
  <2>3. Len(q) + 1 - k = Len(q) - n /\ \A m \in Int : k - 1 + m = n + m
    BY <1>1
  <2>4. b = SubSeq(q, k, Len(q))
    OBVIOUS
  <2> HIDE DEF b, k
  <2>5. /\ b \in Seq(T) /\ Len(b) = Len(q) - n
        /\ \A m \in 1 .. Len(q) - n : b[m] = q[k - 1 + m]
    BY <2>2, <2>3, <2>4
  <2>6. ASSUME NEW m \in 1 .. Len(q) - n  PROVE b[m] = q[n + m]
    <3>1. k - 1 + m = n + m
      BY <2>3
    <3>2. b[m] = q[k - 1 + m]
      BY <2>5
    <3>3. QED  BY <3>1, <3>2
  <2>7. QED
    BY <2>5, <2>6
<1>4. r = a \o b
  BY DEF RemoveAt
<1> HIDE DEF a, b, r
<1>5. /\ r \in Seq(T) /\ Len(r) = Len(a) + Len(b)
      /\ \A m \in 1 .. Len(a) + Len(b) :
           r[m] = IF m <= Len(a) THEN a[m] ELSE b[m - Len(a)]
  BY <1>2, <1>3, <1>4, ConcatIs
<1>6. Len(a) + Len(b) = Len(q) - 1
  BY <1>1, <1>2, <1>3
<1>7. DOMAIN r = 1 .. Len(q) - 1
  BY <1>5, <1>6, LenProperties
<1>8. ASSUME NEW m \in 1 .. Len(q) - 1  PROVE r[m] = IF m < n THEN q[m] ELSE q[m + 1]
  <2>1. r[m] = IF m <= Len(a) THEN a[m] ELSE b[m - Len(a)]
    BY <1>5, <1>6
  <2>2. CASE m < n
    BY <1>1, <1>2, <2>1, <2>2
  <2>3. CASE ~(m < n)
    <3>1. m - Len(a) \in 1 .. Len(q) - n /\ n + (m - Len(a)) = m + 1 /\ ~(m <= Len(a))
      BY <1>1, <1>2, <2>3
    <3>2. QED
      BY <1>3, <2>1, <2>3, <3>1
  <2>4. QED  BY <2>2, <2>3
<1>9. QED
  BY <1>5, <1>7, <1>8 DEF r

(* A list with an element put in.                                          *)
LEMMA InsertAtIs ==
  ASSUME NEW T, NEW q \in Seq(T), NEW n \in 1 .. Len(q) + 1, NEW t \in T
  PROVE  /\ InsertAt(q, n, t) \in Seq(T)
         /\ DOMAIN InsertAt(q, n, t) = 1 .. Len(q) + 1
         /\ \A m \in 1 .. Len(q) + 1 :
              InsertAt(q, n, t)[m] = IF m < n THEN q[m] ELSE IF m = n THEN t ELSE q[m - 1]
<1> DEFINE a == SubSeq(q, 1, n - 1)
           b == SubSeq(q, n, Len(q))
           e == <<t>>
           c == a \o e
           r == InsertAt(q, n, t)
<1>1. Len(q) \in Nat /\ n \in Nat
  OBVIOUS
<1>2. /\ a \in Seq(T) /\ Len(a) = n - 1
      /\ \A m \in 1 .. n - 1 : a[m] = q[m]
      /\ b \in Seq(T) /\ Len(b) = Len(q) + 1 - n
      /\ \A m \in 1 .. Len(q) + 1 - n : b[m] = q[n - 1 + m]
  BY SubSeqIs
<1>3. e \in Seq(T) /\ Len(e) = 1 /\ e[1] = t
  OBVIOUS
<1>4. r = c \o b
  BY DEF InsertAt
<1> HIDE DEF a, b, e
<1>5. /\ c \in Seq(T) /\ Len(c) = Len(a) + Len(e)
      /\ \A m \in 1 .. Len(a) + Len(e) :
           c[m] = IF m <= Len(a) THEN a[m] ELSE e[m - Len(a)]
  BY <1>2, <1>3, ConcatIs
<1> HIDE DEF c, r
<1>6. Len(c) = n /\ c[n] = t /\ \A m \in 1 .. n - 1 : c[m] = q[m]
  BY <1>1, <1>2, <1>3, <1>5
<1>7. /\ r \in Seq(T) /\ Len(r) = Len(c) + Len(b)
      /\ \A m \in 1 .. Len(c) + Len(b) :
           r[m] = IF m <= Len(c) THEN c[m] ELSE b[m - Len(c)]
  <2>1. c \in Seq(T) /\ b \in Seq(T)
    BY <1>2, <1>5
  <2>2. /\ c \o b \in Seq(T) /\ Len(c \o b) = Len(c) + Len(b)
        /\ \A m \in 1 .. Len(c) + Len(b) :
             (c \o b)[m] = IF m <= Len(c) THEN c[m] ELSE b[m - Len(c)]
    BY <2>1, ConcatIs
  <2>3. QED
    BY <1>4, <2>2, Zenon
<1>8. Len(c) + Len(b) = Len(q) + 1
  BY <1>1, <1>2, <1>6
<1>9. DOMAIN r = 1 .. Len(q) + 1
  BY <1>7, <1>8, LenProperties
<1>10. ASSUME NEW m \in 1 .. Len(q) + 1
       PROVE  r[m] = IF m < n THEN q[m] ELSE IF m = n THEN t ELSE q[m - 1]
  <2>1. r[m] = IF m <= Len(c) THEN c[m] ELSE b[m - Len(c)]
    BY <1>7, <1>8
  <2>2. CASE m =< n
    BY <1>1, <1>6, <2>1, <2>2
  <2>3. CASE n < m
    <3>1. m - n \in 1 .. Len(q) + 1 - n /\ n - 1 + (m - n) = m - 1
      BY <1>1, <2>3
    <3>2. r[m] = b[m - n]
      BY <1>1, <1>6, <2>1, <2>3
    <3>3. QED
      BY <1>1, <1>2, <2>3, <3>1, <3>2
  <2>4. QED  BY <1>1, <2>2, <2>3
<1>11. QED
  BY <1>7, <1>9, <1>10 DEF r

\* What follows what in r follows it in q.
KeepsOrder(r, q) ==
    \A i, j \in DOMAIN r : i < j =>
        \E m, n \in DOMAIN q : m < n /\ r[i] = q[m] /\ r[j] = q[n]

(* What _timer_remove leaves of a list: all but the timer, in order.       *)
LEMMA WithoutIs ==
  ASSUME NEW q \in Seq(Timers), NEW t \in Timers, IsInjective(q)
  PROVE  /\ Without(q, t) \in Seq(Timers)
         /\ IsInjective(Without(q, t))
         /\ Range(Without(q, t)) = Range(q) \ {t}
         /\ KeepsOrder(Without(q, t), q)
<1>1. CASE t \notin Range(q)
  <2>1. Without(q, t) = q
    BY <1>1 DEF Without
  <2>2. KeepsOrder(q, q)
    BY DEF KeepsOrder
  <2>3. QED
    BY <1>1, <2>1, <2>2
<1>2. CASE t \in Range(q)
  <2> DEFINE n == CHOOSE n \in DOMAIN q : q[n] = t
             r == RemoveAt(q, n)
             at(m) == IF m < n THEN m ELSE m + 1
  <2>1. n \in DOMAIN q /\ q[n] = t
    BY <1>2 DEF Range
  <2>2. Without(q, t) = r
    BY <1>2 DEF Without
  <2> HIDE DEF n
  <2>3. /\ r \in Seq(Timers) /\ DOMAIN r = 1 .. Len(q) - 1
        /\ \A m \in 1 .. Len(q) - 1 : r[m] = IF m < n THEN q[m] ELSE q[m + 1]
    BY <2>1, RemoveAtIs
  <2> HIDE DEF r
  <2>4. DOMAIN q = 1 .. Len(q) /\ Len(q) \in Nat /\ n \in Nat
    BY <2>1
  <2>5. \A m \in DOMAIN r : at(m) \in DOMAIN q /\ r[m] = q[at(m)] /\ at(m) # n
    BY <2>1, <2>3, <2>4
  <2>6. \A i, j \in DOMAIN r : (i < j => at(i) < at(j)) /\ (at(i) = at(j) => i = j)
    BY <2>3, <2>4
  <2> HIDE DEF at
  <2>7. IsInjective(r)
    BY <2>5, <2>6 DEF IsInjective
  <2>8. KeepsOrder(r, q)
    BY <2>5, <2>6 DEF KeepsOrder
  <2>9. Range(r) \subseteq Range(q) \ {t}
    BY <2>1, <2>5 DEF IsInjective, Range
  <2>10. Range(q) \ {t} \subseteq Range(r)
    <3>1. SUFFICES ASSUME NEW m \in DOMAIN q, m # n
                   PROVE  \E j \in DOMAIN r : r[j] = q[m]
      BY <2>1 DEF Range
    <3>2. CASE m < n
      BY <2>1, <2>3, <2>4, <3>2
    <3>3. CASE m > n
      <4>1. m - 1 \in 1 .. Len(q) - 1 /\ ~(m - 1 < n) /\ (m - 1) + 1 = m
        BY <2>1, <2>4, <3>3
      <4>2. QED
        BY <2>3, <4>1
    <3>4. QED  BY <2>1, <2>4, <3>1, <3>2, <3>3
  <2>11. QED
    BY <1>2, <2>2, <2>3, <2>7, <2>8, <2>9, <2>10
<1>3. QED  BY <1>1, <1>2

(* Taking the first timer off the list.                                    *)
LEMMA TailIs ==
  ASSUME NEW q \in Seq(Timers), q # <<>>, IsInjective(q)
  PROVE  /\ 1 \in DOMAIN q /\ Head(q) = q[1] /\ Head(q) \in Range(q)
         /\ Tail(q) \in Seq(Timers)
         /\ IsInjective(Tail(q))
         /\ Range(Tail(q)) = Range(q) \ {Head(q)}
         /\ KeepsOrder(Tail(q), q)
<1> DEFINE r == Tail(q)
<1>1. /\ r \in Seq(Timers) /\ DOMAIN r = 1 .. Len(q) - 1
      /\ \A m \in 1 .. Len(q) - 1 : r[m] = q[m + 1]
      /\ DOMAIN q = 1 .. Len(q) /\ Len(q) \in Nat /\ 1 \in DOMAIN q /\ Head(q) = q[1]
  OBVIOUS
<1> HIDE DEF r
<1>2. \A m \in DOMAIN r : m + 1 \in DOMAIN q /\ r[m] = q[m + 1] /\ m + 1 # 1 /\ m \in Int
  BY <1>1
<1>3. IsInjective(r)
  BY <1>2 DEF IsInjective
<1>4. KeepsOrder(r, q)
  <2>1. SUFFICES ASSUME NEW i \in DOMAIN r, NEW j \in DOMAIN r, i < j
                 PROVE  \E m, n \in DOMAIN q : m < n /\ r[i] = q[m] /\ r[j] = q[n]
    BY DEF KeepsOrder
  <2>2. i + 1 < j + 1
    BY <1>2, <2>1
  <2>3. QED
    BY <1>2, <2>2
<1>5. Range(r) \subseteq Range(q) \ {q[1]}
  BY <1>1, <1>2 DEF IsInjective, Range
<1>6. Range(q) \ {q[1]} \subseteq Range(r)
  <2>1. SUFFICES ASSUME NEW m \in DOMAIN q, m # 1
                 PROVE  \E j \in DOMAIN r : r[j] = q[m]
    BY DEF Range
  <2>2. m - 1 \in 1 .. Len(q) - 1 /\ (m - 1) + 1 = m
    BY <1>1, <2>1
  <2>3. QED
    BY <1>1, <2>2
<1>7. q[1] \in Range(q)
  BY <1>1 DEF Range
<1>8. QED
  BY <1>1, <1>3, <1>4, <1>5, <1>6, <1>7 DEF r

\* r is q with t put in at n.
PutIn(r, q, n, t) ==
    /\ DOMAIN r = 1 .. Len(q) + 1
    /\ \A m \in 1 .. Len(q) + 1 : r[m] = IF m < n THEN q[m] ELSE IF m = n THEN t ELSE q[m - 1]

(* What the loop of _timer_start does to a list that does not hold the     *)
(* timer: it comes behind all timers that are not later, and there is a    *)
(* later one at the place or it is the end.                                *)
LEMMA InsertIs ==
  ASSUME NEW q \in Seq(Timers), NEW t \in Timers, NEW at
  PROVE  /\ Insert(q, t, at) \in Seq(Timers)
         /\ \E n \in 1 .. Len(q) + 1 :
               /\ PutIn(Insert(q, t, at), q, n, t)
               /\ \A m \in 1 .. n - 1 : ~Later(at[q[m]], at[t])
               /\ n =< Len(q) => Later(at[q[n]], at[t])
<1> DEFINE after == {i \in DOMAIN q : Later(at[q[i]], at[t])}
           r == Insert(q, t, at)
<1>1. DOMAIN q = 1 .. Len(q) /\ Len(q) \in Nat
  OBVIOUS
<1>2. CASE after = {}
  <2>1. r = Append(q, t)
    BY <1>2 DEF Insert
  <2>2. /\ Append(q, t) \in Seq(Timers) /\ DOMAIN Append(q, t) = 1 .. Len(q) + 1
        /\ \A m \in 1 .. Len(q) : Append(q, t)[m] = q[m]
        /\ Append(q, t)[Len(q) + 1] = t
    OBVIOUS
  <2> HIDE DEF r
  <2>3. r \in Seq(Timers) /\ PutIn(r, q, Len(q) + 1, t)
    BY <1>1, <2>1, <2>2 DEF PutIn
  <2>4. \A m \in 1 .. (Len(q) + 1) - 1 : ~Later(at[q[m]], at[t])
    BY <1>1, <1>2
  <2>5. Len(q) + 1 \in 1 .. Len(q) + 1 /\ ~(Len(q) + 1 =< Len(q))
    BY <1>1
  <2>6. QED
    BY <2>3, <2>4, <2>5 DEF r
<1>3. CASE after # {}
  <2> DEFINE n == Min(after)
  <2>1. n \in after /\ \A m \in after : n =< m
    <3>1. after \in SUBSET Nat
      BY <1>1
    <3> HIDE DEF after
    <3>2. QED  BY <1>3, <3>1, MinIsLeast
  <2>2. r = InsertAt(q, n, t)
    BY <1>3 DEF Insert
  <2> HIDE DEF n, r
  <2>3. n \in 1 .. Len(q) + 1 /\ n =< Len(q) /\ Later(at[q[n]], at[t])
    BY <1>1, <2>1
  <2>4. /\ InsertAt(q, n, t) \in Seq(Timers)
        /\ DOMAIN InsertAt(q, n, t) = 1 .. Len(q) + 1
        /\ \A m \in 1 .. Len(q) + 1 :
             InsertAt(q, n, t)[m] = IF m < n THEN q[m] ELSE IF m = n THEN t ELSE q[m - 1]
    BY <2>3, InsertAtIs
  <2>5. r \in Seq(Timers) /\ PutIn(r, q, n, t)
    BY <2>2, <2>4 DEF PutIn
  <2>6. \A m \in 1 .. n - 1 : ~Later(at[q[m]], at[t])
    BY <1>1, <2>1, <2>3
  <2>7. QED
    BY <2>3, <2>5, <2>6 DEF r
<1>4. QED  BY <1>2, <1>3

(* Part of a sorted list is sorted, also by numbers in the same order.     *)
LEMMA SortedPart ==
  ASSUME NEW q \in Seq(Timers), NEW r \in Seq(Timers), KeepsOrder(r, q),
         NEW K, NEW L, NEW o, NEW p, SortedBy(q, K, o),
         \A t, u \in Range(r) : /\ K[t] < K[u] => L[t] < L[u]
                                /\ K[t] = K[u] => L[t] = L[u]
                                /\ <<t, u>> \in o => <<t, u>> \in p
  PROVE  SortedBy(r, L, p)
<1>1. SUFFICES ASSUME NEW i \in DOMAIN r, NEW j \in DOMAIN r, i < j
               PROVE  \/ L[r[i]] < L[r[j]]
                      \/ L[r[i]] = L[r[j]] /\ <<r[i], r[j]>> \in p
  BY DEF SortedBy
<1>2. PICK m \in DOMAIN q, n \in DOMAIN q : m < n /\ r[i] = q[m] /\ r[j] = q[n]
  BY <1>1 DEF KeepsOrder
<1>3. \/ K[r[i]] < K[r[j]]
      \/ K[r[i]] = K[r[j]] /\ <<r[i], r[j]>> \in o
  BY <1>2 DEF SortedBy
<1>4. r[i] \in Range(r) /\ r[j] \in Range(r)
  BY DEF Range
<1>5. QED
  BY <1>3, <1>4

(* Where the elements that were there are now.                             *)
LEMMA PutInAt ==
  ASSUME NEW q \in Seq(Timers), NEW r \in Seq(Timers), NEW t \in Timers,
         NEW n \in 1 .. Len(q) + 1, PutIn(r, q, n, t),
         NEW i \in DOMAIN r, NEW j \in DOMAIN r, i # n, j # n, i < j
  PROVE  \E m, k \in DOMAIN q : m < k /\ r[i] = q[m] /\ r[j] = q[k]
<1> DEFINE at(m) == IF m < n THEN m ELSE m - 1
<1>1. DOMAIN q = 1 .. Len(q) /\ Len(q) \in Nat /\ n \in Nat
  OBVIOUS
<1>2. \A m \in DOMAIN r : m # n => at(m) \in DOMAIN q /\ r[m] = q[at(m)]
  BY <1>1 DEF PutIn
<1>3. at(i) < at(j)
  BY <1>1 DEF PutIn
<1> HIDE DEF at
<1>4. QED  BY <1>2, <1>3

(* A timer that was started last, put in behind those that have no more    *)
(* left than it has.                                                       *)
LEMMA SortedPutIn ==
  ASSUME NEW q \in Seq(Timers), NEW r \in Seq(Timers), NEW t \in Timers,
         NEW n \in 1 .. Len(q) + 1, PutIn(r, q, n, t),
         NEW L \in [Timers -> Int], NEW p, SortedBy(q, L, p),
         \A m \in 1 .. n - 1 : L[q[m]] =< L[t],
         n =< Len(q) => L[t] < L[q[n]],
         \A u \in Range(q) : <<u, t>> \in p
  PROVE  SortedBy(r, L, p)
<1>1. SUFFICES ASSUME NEW i \in DOMAIN r, NEW j \in DOMAIN r, i < j
               PROVE  \/ L[r[i]] < L[r[j]]
                      \/ L[r[i]] = L[r[j]] /\ <<r[i], r[j]>> \in p
  BY DEF SortedBy
<1>2. /\ DOMAIN q = 1 .. Len(q) /\ Len(q) \in Nat /\ n \in Nat
      /\ i \in 1 .. Len(q) + 1 /\ j \in 1 .. Len(q) + 1
      /\ \A m \in DOMAIN q : q[m] \in Timers /\ L[q[m]] \in Int /\ q[m] \in Range(q)
      /\ L[t] \in Int
  BY DEF PutIn, Range
<1>3. /\ r[i] = IF i < n THEN q[i] ELSE IF i = n THEN t ELSE q[i - 1]
      /\ r[j] = IF j < n THEN q[j] ELSE IF j = n THEN t ELSE q[j - 1]
  BY <1>2 DEF PutIn
<1>4. \A m \in DOMAIN q : \A k \in DOMAIN q : m < k =>
          \/ L[q[m]] < L[q[k]]
          \/ L[q[m]] = L[q[k]] /\ <<q[m], q[k]>> \in p
  BY DEF SortedBy
<1>5. CASE i # n /\ j # n
  <2>1. PICK m \in DOMAIN q, k \in DOMAIN q : m < k /\ r[i] = q[m] /\ r[j] = q[k]
    BY <1>1, <1>5, PutInAt
  <2>2. QED  BY <1>4, <2>1
<1>6. CASE i < n /\ j = n
  <2>1. i \in DOMAIN q /\ r[i] = q[i] /\ r[j] = t /\ i \in 1 .. n - 1
    BY <1>2, <1>3, <1>6
  <2>2. L[q[i]] =< L[t] /\ <<q[i], t>> \in p
    BY <1>2, <2>1
  <2>3. QED  BY <1>2, <2>1, <2>2
<1>7. CASE i = n /\ n < j
  <2>1. /\ n \in DOMAIN q /\ j - 1 \in DOMAIN q /\ n =< j - 1
        /\ r[i] = t /\ r[j] = q[j - 1]
    BY <1>1, <1>2, <1>3, <1>7
  <2>2. L[t] < L[q[n]]
    BY <1>2, <2>1
  <2>3. L[q[n]] =< L[q[j - 1]]
    <3>1. CASE n = j - 1
      BY <1>2, <2>1, <3>1
    <3>2. CASE n < j - 1
      <4>1. L[q[n]] < L[q[j - 1]] \/ L[q[n]] = L[q[j - 1]]
        BY <1>4, <2>1, <3>2
      <4>2. QED  BY <1>2, <2>1, <4>1
    <3>3. QED  BY <1>2, <2>1, <3>1, <3>2
  <2>4. L[t] < L[q[j - 1]]
    BY <1>2, <2>1, <2>2, <2>3
  <2>5. QED  BY <2>1, <2>4
<1>8. QED
  BY <1>1, <1>2, <1>5, <1>6, <1>7

(* The list holds the timers it held and the new one, each once.           *)
LEMMA PutInHolds ==
  ASSUME NEW q \in Seq(Timers), NEW r \in Seq(Timers), NEW t \in Timers,
         NEW n \in 1 .. Len(q) + 1, PutIn(r, q, n, t),
         IsInjective(q), t \notin Range(q)
  PROVE  IsInjective(r) /\ Range(r) = Range(q) \cup {t}
<1> DEFINE at(m) == IF m < n THEN m ELSE m - 1
<1>1. DOMAIN q = 1 .. Len(q) /\ Len(q) \in Nat /\ n \in DOMAIN r /\ n \in Nat
  BY DEF PutIn
<1>2. r[n] = t
  BY <1>1 DEF PutIn
<1>3. \A m \in DOMAIN r : m # n => at(m) \in DOMAIN q /\ r[m] = q[at(m)]
  BY <1>1 DEF PutIn
<1>4. \A i, j \in DOMAIN r : i # n /\ j # n /\ at(i) = at(j) => i = j
  BY <1>1 DEF PutIn
<1>5. \A m \in DOMAIN q : \E j \in DOMAIN r : r[j] = q[m]
  <2>1. TAKE m \in DOMAIN q
  <2>2. CASE m < n
    BY <1>1, <2>2 DEF PutIn
  <2>3. CASE ~(m < n)
    <3>1. m + 1 \in DOMAIN r /\ ~(m + 1 < n) /\ m + 1 # n /\ (m + 1) - 1 = m
      BY <1>1, <2>3 DEF PutIn
    <3>2. QED
      BY <1>1, <3>1 DEF PutIn
  <2>4. QED  BY <2>2, <2>3
<1> HIDE DEF at
<1>6. IsInjective(r)
  <2>1. SUFFICES ASSUME NEW i \in DOMAIN r, NEW j \in DOMAIN r, r[i] = r[j]
                 PROVE  i = j
    BY DEF IsInjective
  <2>2. CASE i # n /\ j # n
    BY <1>3, <1>4, <2>1, <2>2 DEF IsInjective
  <2>3. CASE i = n \/ j = n
    BY <1>2, <1>3, <2>1, <2>3 DEF Range
  <2>4. QED  BY <2>2, <2>3
<1>7. Range(r) \subseteq Range(q) \cup {t}
  BY <1>2, <1>3 DEF Range
<1>8. Range(q) \cup {t} \subseteq Range(r)
  BY <1>1, <1>2, <1>5 DEF Range
<1>9. QED  BY <1>6, <1>7, <1>8

----------------------------------------------------------------------------
(* What the functions of timer.c do to the list.                           *)

LEMMA LeftType ==
  ASSUME TypeOK
  PROVE  LeftOf \in [Timers -> Ticks] /\ LeftOf \in [Timers -> Int]
         /\ \A t \in Timers : LeftOf[t] = Left(t) /\ Left(t) \in Int /\ 0 =< Left(t)
<1>1. \A t \in Timers : Left(t) \in Ticks
  BY MinusIs DEF TypeOK, Left
<1>2. QED
  BY <1>1, TickAssumption DEF LeftOf, Ticks

(* A timer that was listed is not, and nothing else changes.               *)
LEMMA RemoveKeeps ==
  ASSUME TypeOK, Listing, NEW t \in Timers,
         UNCHANGED <<rt_tick, timeout>>, pc' = "run" => pc = "run",
         list' \in Seq(Timers), IsInjective(list'),
         Range(list') = Range(list) \ {t}, KeepsOrder(list', list),
         order' = Forget(t)
  PROVE  /\ order' \subseteq Timers \X Timers
         /\ Listing'
         /\ \A u \in Timers : Left(u)' = Left(u)
<1>1. \A u \in Timers : Left(u)' = Left(u)
  BY DEF Left
<1>2. LeftOf' = LeftOf
  BY <1>1 DEF LeftOf
<1>3. /\ order' \subseteq order
      /\ \A u, v \in Timers : <<u, v>> \in order' <=> <<u, v>> \in order /\ u # t /\ v # t
  BY DEF Forget
<1>4. \A u \in Range(list') : u \in Range(list) /\ u # t /\ u \in Timers
  BY DEF Range
<1>5. Ahead'
  BY <1>1, <1>4 DEF Listing, Ahead
<1>6. Ordered'
  BY <1>3 DEF Listing, Ordered
<1>7. SortedBy(list', LeftOf', order')
  <2> DEFINE K == LeftOf
             p == order'
             r == list'
  <2>1. K \in [Timers -> Int] /\ SortedBy(list, K, order) /\ list \in Seq(Timers)
    BY LeftType DEF Listing, Sorted, TypeOK
  <2>3. \A u, v \in Range(r) : <<u, v>> \in order => <<u, v>> \in p
    BY <1>3, <1>4
  <2>4. r \in Seq(Timers) /\ KeepsOrder(r, list)
    OBVIOUS
  <2> HIDE DEF K, p, r
  <2>5. SortedBy(r, K, p)
    BY <2>1, <2>3, <2>4, SortedPart
  <2>6. QED
    BY <1>2, <2>5 DEF K, p, r
<1>8. QED
  BY <1>1, <1>3, <1>5, <1>6, <1>7 DEF Listing, Sorted, TypeOK

(* rt_timer_start, and the end of a periodic timer's function.             *)
LEMMA BeginKeeps ==
  ASSUME TypeOK, Listing, NEW t \in Timers, Begin(t),
         UNCHANGED <<rt_tick, init_tick>>, pc' = "run" => pc = "run"
  PROVE  /\ list' \in Seq(Timers) /\ Range(list') = Range(list) \cup {t}
         /\ timeout' \in [Timers -> Ticks]
         /\ order' \subseteq Timers \X Timers
         /\ Listing'
         /\ \A u \in Timers : Left(u)' = IF u = t THEN init_tick[t] ELSE Left(u)
<1> DEFINE q == Without(list, t)
           r == list'
           L == LeftOf'
           p == order'
<1>1. list \in Seq(Timers) /\ IsInjective(list) /\ rt_tick \in Ticks /\ init_tick[t] \in Times
  BY DEF TypeOK, Listing, Sorted
<1>2. /\ q \in Seq(Timers) /\ IsInjective(q)
      /\ Range(q) = Range(list) \ {t} /\ KeepsOrder(q, list)
  BY <1>1, WithoutIs
<1>3. /\ (rt_tick + init_tick[t]) % TickMod \in Ticks
      /\ Minus((rt_tick + init_tick[t]) % TickMod, rt_tick) = init_tick[t]
      /\ 0 < init_tick[t] /\ init_tick[t] < Half
  BY <1>1, StartGivesTime
<1>4. /\ timeout' \in [Timers -> Ticks]
      /\ \A u \in Timers : timeout'[u] = IF u = t THEN (rt_tick + init_tick[t]) % TickMod
                                         ELSE timeout[u]
  BY <1>3 DEF TypeOK, Begin
<1>5. \A u \in Timers : Left(u)' = IF u = t THEN init_tick[t] ELSE Left(u)
  BY <1>3, <1>4 DEF Left
<1>6. r = Insert(q, t, timeout') /\ p = Forget(t) \cup (Range(list) \ {t}) \X {t}
  BY DEF Begin
<1>7. \A u \in Range(q) : u \in Timers /\ u # t /\ u \in Range(list)
  BY <1>2 DEF Range
<1>8. /\ \A u \in Timers : Left(u)' \in Int /\ L[u] = Left(u)'
      /\ L \in [Timers -> Int]
  <2>1. \A u \in Timers : Left(u)' \in Ticks
    BY <1>1, <1>4, MinusIs DEF Left
  <2>2. QED
    BY <2>1, TickAssumption DEF LeftOf, Ticks
<1> HIDE DEF q, r, L, p
<1>9. r \in Seq(Timers)
  BY <1>2, <1>6, InsertIs
<1>10. PICK n \in 1 .. Len(q) + 1 :
               /\ PutIn(r, q, n, t)
               /\ \A m \in 1 .. n - 1 : ~Later(timeout'[q[m]], timeout'[t])
               /\ n =< Len(q) => Later(timeout'[q[n]], timeout'[t])
  <2> DEFINE at == timeout'
  <2>1. r = Insert(q, t, at)
    BY <1>6
  <2> HIDE DEF at
  <2>2. \E n \in 1 .. Len(q) + 1 :
               /\ PutIn(r, q, n, t)
               /\ \A m \in 1 .. n - 1 : ~Later(at[q[m]], at[t])
               /\ n =< Len(q) => Later(at[q[n]], at[t])
    BY <1>2, <2>1, InsertIs
  <2>3. QED  BY <2>2 DEF at
<1>11. IsInjective(r) /\ Range(r) = Range(list) \cup {t}
  <2>1. t \notin Range(q)
    BY <1>2
  <2>2. IsInjective(r) /\ Range(r) = Range(q) \cup {t}
    BY <1>2, <1>9, <1>10, <2>1, PutInHolds
  <2>3. QED  BY <1>2, <2>2
<1>12. \A u \in Range(q) \cup {t} :
            Left(u)' < Half /\ 0 =< Left(u)' /\ (pc' = "run" => 0 < Left(u)')
  <2>1. Left(t)' < Half /\ 0 < Left(t)' /\ 0 =< Left(t)'
    BY <1>3, <1>5, <1>8
  <2>2. \A u \in Range(q) : Left(u)' = Left(u)
    BY <1>5, <1>7
  <2>3. \A u \in Range(q) : Left(u) < Half /\ 0 =< Left(u) /\ (pc = "run" => 0 < Left(u))
    BY <1>7, LeftType DEF Listing, Ahead
  <2>4. QED  BY <2>1, <2>2, <2>3
<1>13. \A u \in Range(q) : Later(timeout'[u], timeout'[t]) <=> L[t] < L[u]
  <2>1. TAKE u \in Range(q)
  <2>2. /\ timeout'[u] \in Ticks /\ timeout'[t] \in Ticks /\ u \in Timers
        /\ Minus(timeout'[u], rt_tick) = L[u] /\ Minus(timeout'[t], rt_tick) = L[t]
        /\ L[u] < Half /\ L[t] < Half
    BY <1>4, <1>7, <1>8, <1>12 DEF Left
  <2>3. QED
    BY <1>1, <2>2, LaterMeansMoreLeft
<1>14. SortedBy(q, L, p)
  <2> DEFINE K == LeftOf
  <2>1. K \in [Timers -> Int] /\ SortedBy(list, K, order)
    BY LeftType DEF Listing, Sorted
  <2>2. \A u \in Range(q) : L[u] = K[u]
    BY <1>5, <1>7, <1>8, LeftType
  <2>3. \A u, v \in Range(q) : <<u, v>> \in order => <<u, v>> \in p
    BY <1>6, <1>7 DEF Forget
  <2> HIDE DEF K
  <2>4. \A u, v \in Range(q) : /\ K[u] < K[v] => L[u] < L[v]
                               /\ K[u] = K[v] => L[u] = L[v]
                               /\ <<u, v>> \in order => <<u, v>> \in p
    BY <2>2, <2>3
  <2>5. QED
    BY <1>1, <1>2, <2>1, <2>4, SortedPart
<1>15. SortedBy(r, L, p)
  <2>1. DOMAIN q = 1 .. Len(q) /\ Len(q) \in Nat /\ n \in Nat
    BY <1>2
  <2>2. \A m \in DOMAIN q : q[m] \in Range(q) /\ q[m] \in Timers /\ L[q[m]] \in Int /\ L[t] \in Int
    BY <1>2, <1>7, <1>8 DEF Range
  <2>3. \A m \in 1 .. n - 1 : L[q[m]] =< L[t]
    <3>1. TAKE m \in 1 .. n - 1
    <3>2. m \in DOMAIN q
      BY <2>1
    <3>3. ~(L[t] < L[q[m]])
      BY <1>10, <1>13, <2>2, <3>2
    <3>4. QED  BY <2>2, <3>2, <3>3
  <2>4. n =< Len(q) => L[t] < L[q[n]]
    BY <1>10, <1>13, <2>1, <2>2
  <2>5. \A u \in Range(q) : <<u, t>> \in p
    BY <1>6, <1>7
  <2>6. QED
    BY <1>2, <1>8, <1>9, <1>10, <1>14, <2>3, <2>4, <2>5, SortedPutIn
<1>16. /\ p \subseteq Timers \X Timers
       /\ \A u, v \in Timers : <<u, v>> \in p <=>
             \/ <<u, v>> \in order /\ u # t /\ v # t
             \/ u \in Range(list) /\ u # t /\ v = t
  BY <1>1, <1>6 DEF TypeOK, Forget, Range
<1>17. Ordered'
  BY <1>11, <1>16 DEF Listing, Ordered, r, p
<1>18. Ahead'
  BY <1>2, <1>11, <1>12 DEF Ahead, r
<1>19. Sorted'
  BY <1>11, <1>15 DEF Sorted, r, L, p
<1>20. QED
  BY <1>4, <1>5, <1>9, <1>11, <1>16, <1>17, <1>18, <1>19 DEF Listing, r, p

----------------------------------------------------------------------------
(* The invariant holds at boot and every step keeps it.                    *)

LEMMA Initial == Init => IInv
<1> SUFFICES ASSUME Init  PROVE IInv
  OBVIOUS
<1>1. list \in Seq(Timers) /\ DOMAIN list = {} /\ Range(list) = {} /\ IsInjective(list)
  BY DEF Init, Range, IsInjective
<1>2. TypeOK
  <2>1. timeout \in [Timers -> Ticks] /\ rt_tick \in Ticks
    BY TickAssumption DEF Init, Ticks
  <2>2. order \subseteq Timers \X Timers
    BY DEF Init
  <2>3. QED
    BY <1>1, <2>1, <2>2 DEF Init, TypeOK
<1>3. FlagMeansListed /\ Local
  BY <1>1, HardTimerAssumption DEF Init, FlagMeansListed, Local
<1>4. Listing
  BY <1>1 DEF Init, Listing, Ahead, Sorted, SortedBy, Ordered
<1>5. QED
  BY <1>2, <1>3, <1>4 DEF IInv

(* _timer_remove in a call from outside or from a timer's function.        *)
LEMMA RemoveStep ==
  ASSUME IInv, NEW t \in Timers, _timer_remove(t), active' = active \ {t},
         inited' \in {inited, inited \ {t}},
         UNCHANGED <<check, periodic, init_tick, timeout>>, ops' \in Nat
  PROVE  IInv' /\ Range(list') = Range(list) \ {t} /\ \A u \in Timers : Left(u)' = Left(u)
<1>1. TypeOK /\ FlagMeansListed /\ Local /\ Listing
  BY DEF IInv
<1>2. list \in Seq(Timers) /\ IsInjective(list)
  BY <1>1 DEF TypeOK, Listing, Sorted
<1>3. /\ list' \in Seq(Timers) /\ IsInjective(list')
      /\ Range(list') = Range(list) \ {t} /\ KeepsOrder(list', list)
  BY <1>2, WithoutIs DEF _timer_remove
<1>4. /\ order' = Forget(t) /\ temp' = (temp /\ t # cur)
      /\ madeOneShot' = madeOneShot \ {t} /\ UNCHANGED <<rt_tick, pc, cur>>
  BY DEF _timer_remove, check
<1>5. order' \subseteq Timers \X Timers /\ Listing' /\ \A u \in Timers : Left(u)' = Left(u)
  BY <1>1, <1>3, <1>4, RemoveKeeps
<1>6. TypeOK'
  BY <1>1, <1>3, <1>4, <1>5 DEF TypeOK
<1>7. FlagMeansListed'
  BY <1>1, <1>3, <1>4 DEF FlagMeansListed
<1>8. Local'
  BY <1>1, <1>3, <1>4 DEF Local
<1>9. QED
  BY <1>3, <1>5, <1>6, <1>7, <1>8 DEF IInv

(* Steps that leave the list, the flags and the counter alone.             *)
LEMMA AsideStep ==
  ASSUME IInv, NEW t \in Timers,
         UNCHANGED <<list, temp, order, rt_tick, pc, cur, active>>, ops' \in Nat,
         inited' \in {inited, inited \cup {t}},
         periodic' \subseteq Timers, init_tick' \in [Timers -> Times],
         timeout' = timeout \/ (t \notin Range(list) /\ timeout' = [timeout EXCEPT ![t] = 0]),
         madeOneShot \subseteq madeOneShot', madeOneShot' \subseteq inited,
         temp /\ cur \in active => cur \in periodic' \cup madeOneShot'
  PROVE  IInv' /\ \A u \in Range(list) : Left(u)' = Left(u)
<1>1. TypeOK /\ FlagMeansListed /\ Local /\ Listing
  BY DEF IInv
<1>2. list' = list /\ temp' = temp /\ order' = order
  OBVIOUS
<1>3. TypeOK'
  BY <1>1, <1>2, TickAssumption DEF TypeOK, Ticks
<1>4. FlagMeansListed' /\ Local'
  BY <1>1, <1>2 DEF FlagMeansListed, Local
<1>5. \A u \in Range(list) : Left(u)' = Left(u) /\ u \in Timers
  BY <1>1 DEF Left, TypeOK, Range
<1>6. Ahead' /\ Ordered'
  BY <1>1, <1>2, <1>5 DEF Listing, Ahead, Ordered
<1>7. \A m \in DOMAIN list : LeftOf'[list[m]] = LeftOf[list[m]]
  BY <1>5 DEF LeftOf, Range
<1>8. SortedBy(list, LeftOf', order)
  BY <1>1, <1>7 DEF Listing, Sorted, SortedBy
<1>9. Listing'
  BY <1>1, <1>2, <1>6, <1>8 DEF Listing, Sorted
<1>10. QED
  BY <1>3, <1>4, <1>5, <1>9 DEF IInv

(* A running timer has a flag and is an object of the kernel.              *)
LEMMA ListedIsInited ==
  ASSUME IInv  PROVE Range(list) \subseteq active \cap inited /\ active \subseteq inited
  BY DEF IInv, FlagMeansListed, Local

(* What a thread, an interrupt or a timer's function may call.             *)
LEMMA UseKeeps ==
  ASSUME IInv, NEW t \in Timers, Use(t), UNCHANGED check, ops' \in Nat
  PROVE  IInv'
<1>0. TypeOK /\ FlagMeansListed /\ Local /\ Listing /\ UNCHANGED <<rt_tick, pc, cur>>
  BY DEF IInv, check
<1>1. CASE rt_timer_start(t)
  <2>1. Begin(t) /\ UNCHANGED <<inited, periodic, init_tick>> /\ t \in inited
    BY <1>1 DEF rt_timer_start
  <2>2. /\ active' = active \cup {t} /\ temp' = (temp /\ t # cur)
        /\ madeOneShot' = madeOneShot \ {t}
    BY <2>1 DEF Begin
  <2>3. /\ list' \in Seq(Timers) /\ Range(list') = Range(list) \cup {t}
        /\ timeout' \in [Timers -> Ticks] /\ order' \subseteq Timers \X Timers /\ Listing'
    BY <1>0, <2>1, BeginKeeps
  <2>4. TypeOK'
    BY <1>0, <2>1, <2>2, <2>3 DEF TypeOK
  <2>5. FlagMeansListed' /\ Local'
    BY <1>0, <2>1, <2>2, <2>3 DEF FlagMeansListed, Local
  <2>6. QED
    BY <2>3, <2>4, <2>5 DEF IInv
<1>2. CASE rt_timer_stop(t)
  BY <1>2, RemoveStep DEF rt_timer_stop
<1>3. CASE rt_timer_detach(t)
  BY <1>3, RemoveStep DEF rt_timer_detach
<1>4. CASE rt_timer_init(t)
  <2>1. /\ t \notin inited /\ t \notin Range(list) /\ active' = active
        /\ (temp => cur \in inited)
    BY <1>0, <1>4, ListedIsInited DEF rt_timer_init, Local
  <2>2. /\ periodic' \subseteq Timers /\ init_tick' \in [Timers -> Times]
        /\ (temp /\ cur \in active => cur \in periodic' \cup madeOneShot')
        /\ madeOneShot' = madeOneShot /\ madeOneShot \subseteq inited
    BY <1>0, <1>4, <2>1 DEF rt_timer_init, TypeOK, Local, lists
  <2>3. QED
    BY <1>0, <1>4, <2>1, <2>2, AsideStep DEF rt_timer_init, lists
<1>5. CASE SetTime(t)
  <2>1. init_tick' \in [Timers -> Times]
    BY <1>0, <1>5 DEF SetTime, TypeOK
  <2>2. QED
    BY <1>0, <1>5, <2>1, AsideStep DEF SetTime, TypeOK, Local, lists
<1>6. CASE SetPeriodic(t)
  BY <1>0, <1>6, AsideStep DEF SetPeriodic, TypeOK, Local, lists
<1>7. CASE SetOneShot(t)
  <2>1. /\ t \in inited /\ periodic' = periodic \ {t}
        /\ madeOneShot' = IF temp /\ t = cur THEN madeOneShot \cup ({t} \cap periodic)
                          ELSE madeOneShot
        /\ UNCHANGED <<list, temp, order, inited, active, init_tick, timeout>>
    BY <1>7 DEF SetOneShot
  <2>2. madeOneShot \subseteq madeOneShot' /\ madeOneShot' \subseteq inited
    BY <1>0, <2>1 DEF Local
  <2>3. temp /\ cur \in active => cur \in periodic' \cup madeOneShot'
    BY <1>0, <2>1 DEF Local
  <2>4. QED
    BY <1>0, <2>1, <2>2, <2>3, AsideStep DEF TypeOK
<1>8. QED
  BY <1>1, <1>2, <1>3, <1>4, <1>5, <1>6, <1>7 DEF Use

(* The tick takes one off what every running timer has left.               *)
LEMMA TickKeeps ==
  ASSUME IInv, rt_tick_increase
  PROVE  IInv' /\ \A u \in Range(list) : Left(u)' = Left(u) - 1
<1>1. TypeOK /\ FlagMeansListed /\ Local /\ Listing
  BY DEF IInv
<1>2. /\ UNCHANGED <<list, temp, order, inited, active, periodic, init_tick, timeout, cur, ops>>
      /\ pc = "run" /\ pc' = "check" /\ rt_tick' = (rt_tick + 1) % TickMod
  BY DEF rt_tick_increase, lists
<1>0. madeOneShot' = madeOneShot
  BY DEF rt_tick_increase, lists
<1>3. rt_tick' \in Ticks
  BY <1>1, <1>2, TickTakesOne DEF TypeOK
<1>4. \A u \in Range(list) : u \in Timers /\ Left(u)' = Left(u) - 1
  <2>1. TAKE u \in Range(list)
  <2>2. u \in Timers /\ timeout[u] \in Ticks /\ rt_tick \in Ticks /\ 0 < Left(u)
    BY <1>1, <1>2, LeftType DEF Listing, Ahead, TypeOK, Range
  <2>3. Minus(timeout[u], (rt_tick + 1) % TickMod) = Minus(timeout[u], rt_tick) - 1
    BY <2>2, TickTakesOne DEF Left
  <2>4. QED
    BY <1>2, <2>2, <2>3 DEF Left
<1>5. TypeOK'
  BY <1>0, <1>1, <1>2, <1>3 DEF TypeOK
<1>6. FlagMeansListed' /\ Local'
  BY <1>0, <1>1, <1>2 DEF FlagMeansListed, Local
<1>7. Ordered' /\ Ahead'
  BY <1>1, <1>2, <1>4, LeftType, HalfIs DEF Listing, Ahead, Ordered
<1>8. SortedBy(list, LeftOf', order)
  <2> DEFINE K == LeftOf
             L == LeftOf'
  <2>1. \A u \in Range(list) : L[u] = K[u] - 1 /\ K[u] \in Int
    BY <1>1, <1>4, LeftType DEF LeftOf
  <2>2. list \in Seq(Timers) /\ SortedBy(list, K, order) /\ KeepsOrder(list, list)
    BY <1>1 DEF TypeOK, Listing, Sorted, KeepsOrder
  <2> HIDE DEF K, L
  <2>3. \A u, v \in Range(list) : /\ K[u] < K[v] => L[u] < L[v]
                                  /\ K[u] = K[v] => L[u] = L[v]
    BY <2>1
  <2>4. SortedBy(list, L, order)
    BY <2>2, <2>3, SortedPart
  <2>5. QED  BY <2>4 DEF L
<1>9. Listing'
  BY <1>1, <1>2, <1>7, <1>8 DEF Listing, Sorted
<1>10. QED
  BY <1>4, <1>5, <1>6, <1>9 DEF IInv

(* The timer at the head of the list has no more left than any other; of   *)
(* those that have as much it was started first.                           *)
LEMMA HeadIsFirst ==
  ASSUME IInv, list # <<>>
  PROVE  /\ Head(list) \in Range(list)
         /\ \A u \in Range(list) : u = Head(list) \/ Left(Head(list)) =< Left(u)
         /\ \A u \in Range(list) : u # Head(list) /\ Left(u) = Left(Head(list)) =>
                                     <<u, Head(list)>> \notin order
<1>1. TypeOK /\ Listing /\ list \in Seq(Timers) /\ IsInjective(list)
  BY DEF IInv, TypeOK, Listing, Sorted
<1>2. 1 \in DOMAIN list /\ Head(list) = list[1] /\ Head(list) \in Range(list)
  BY <1>1, TailIs
<1>3. ASSUME NEW u \in Range(list), u # Head(list)
      PROVE  /\ Left(Head(list)) =< Left(u)
             /\ Left(u) = Left(Head(list)) => <<u, Head(list)>> \notin order
  <2>1. PICK n \in DOMAIN list : u = list[n]
    BY DEF Range
  <2>2. 1 < n
    BY <1>1, <1>2, <1>3, <2>1
  <2>3. /\ u \in Timers /\ Head(list) \in Timers
        /\ LeftOf[u] = Left(u) /\ LeftOf[Head(list)] = Left(Head(list))
        /\ Left(u) \in Int /\ Left(Head(list)) \in Int
    BY <1>1, <1>2, <2>1, LeftType
  <2>4. \/ Left(Head(list)) < Left(u)
        \/ Left(Head(list)) = Left(u) /\ <<Head(list), u>> \in order
    BY <1>1, <1>2, <2>1, <2>2, <2>3 DEF Listing, Sorted, SortedBy
  <2>5. QED
    BY <1>1, <2>3, <2>4 DEF Listing, Ordered
<1>4. QED
  BY <1>2, <1>3

(* rt_timer_check finds exactly whether a timer has nothing left.          *)
LEMMA DueIsExact ==
  ASSUME IInv
  PROVE  /\ IsDue => list # <<>> /\ Left(Head(list)) = 0
         /\ ~IsDue => \A u \in Range(list) : 0 < Left(u)
<1>1. CASE list = <<>>
  BY <1>1 DEF IsDue, Range
<1>2. CASE list # <<>>
  <2> DEFINE h == Head(list)
  <2>1. h \in Range(list) /\ \A u \in Range(list) : u = h \/ Left(h) =< Left(u)
    BY <1>2, HeadIsFirst
  <2>2. TypeOK /\ Listing /\ \A u \in Range(list) : u \in Timers /\ Left(u) \in Int /\ 0 =< Left(u)
    BY LeftType DEF IInv, TypeOK, Range
  <2>3. rt_tick \in Ticks /\ timeout[h] \in Ticks /\ Minus(timeout[h], rt_tick) < Half
    BY <2>1, <2>2 DEF TypeOK, Listing, Ahead, Left
  <2>4. Due(rt_tick, timeout[h]) <=> Left(h) = 0
    BY <2>3, DueMeansNoneLeft DEF Left
  <2> HIDE DEF h
  <2>5. IsDue <=> Left(h) = 0
    BY <1>2, <2>4 DEF IsDue, h
  <2>6. Left(h) # 0 => \A u \in Range(list) : 0 < Left(u)
    BY <2>1, <2>2
  <2>7. QED
    BY <1>2, <2>5, <2>6 DEF h
<1>3. QED  BY <1>1, <1>2

(* The first timer is moved to the local list.                             *)
LEMMA ExpireKeeps ==
  ASSUME IInv, Expire
  PROVE  /\ IInv' /\ Range(list') = Range(list) \ {cur'}
         /\ \A u \in Timers : Left(u)' = Left(u)
<1> DEFINE h == Head(list)
<1>1. TypeOK /\ FlagMeansListed /\ Local /\ Listing /\ list # <<>>
  BY DueIsExact DEF IInv, Expire
<1>2. list \in Seq(Timers) /\ IsInjective(list)
  BY <1>1 DEF TypeOK, Listing, Sorted
<1>3. /\ h \in Range(list) /\ Tail(list) \in Seq(Timers) /\ IsInjective(Tail(list))
      /\ Range(Tail(list)) = Range(list) \ {h} /\ KeepsOrder(Tail(list), list)
  BY <1>1, <1>2, TailIs
<1>4. h \in Timers
  BY <1>2, <1>3 DEF Range
<1> HIDE DEF h
<1>5. /\ cur' = h /\ temp' = TRUE /\ list' = Tail(list) /\ order' = Forget(h)
      /\ pc = "check" /\ pc' = "call" /\ ops' = 0
      /\ active' = IF h \in periodic THEN active ELSE active \ {h}
      /\ UNCHANGED <<rt_tick, inited, periodic, init_tick, timeout, madeOneShot>>
  BY DEF Expire, h
<1>6. /\ list' \in Seq(Timers) /\ IsInjective(list')
      /\ Range(list') = Range(list) \ {h} /\ KeepsOrder(list', list)
  BY <1>3, <1>5
<1>7. order' \subseteq Timers \X Timers /\ Listing' /\ \A u \in Timers : Left(u)' = Left(u)
  BY <1>1, <1>4, <1>5, <1>6, RemoveKeeps
<1>8. TypeOK'
  BY <1>1, <1>4, <1>5, <1>6, <1>7 DEF TypeOK
<1>9. FlagMeansListed' /\ Local'
  <2>1. ~temp /\ h \in active /\ h \in inited
    BY <1>1, <1>3, <1>5, HardTimerAssumption DEF FlagMeansListed, Local, TypeOK
  <2>2. QED
    BY <1>1, <1>3, <1>4, <1>5, <1>6, <2>1, HardTimerAssumption DEF FlagMeansListed, Local
<1>10. QED
  BY <1>5, <1>6, <1>7, <1>8, <1>9 DEF IInv

(* A timer's function returns.                                             *)
LEMMA ReturnKeeps == ASSUME IInv, Return  PROVE IInv'
<1>1. TypeOK /\ FlagMeansListed /\ Local /\ Listing
  BY DEF IInv
<1>2. /\ pc = "call" /\ pc' = "check" /\ cur' = None /\ ops' = 0
      /\ UNCHANGED <<rt_tick, inited, periodic, init_tick>>
      /\ cur \in Timers
  BY <1>1 DEF Return, Local, TypeOK
<1>3. CASE temp /\ cur \in periodic \cap active
  <2>1. Begin(cur)
    BY <1>3 DEF Return
  <2>2. /\ active' = active \cup {cur} /\ temp' = FALSE
        /\ madeOneShot' = madeOneShot \ {cur}
    BY <2>1 DEF Begin
  <2>3. /\ list' \in Seq(Timers) /\ Range(list') = Range(list) \cup {cur}
        /\ timeout' \in [Timers -> Ticks] /\ order' \subseteq Timers \X Timers /\ Listing'
    BY <1>1, <1>2, <2>1, BeginKeeps
  <2>4. TypeOK'
    BY <1>1, <1>2, <2>2, <2>3 DEF TypeOK
  <2>5. FlagMeansListed' /\ Local'
    BY <1>1, <1>2, <1>3, <2>2, <2>3 DEF FlagMeansListed, Local
  <2>6. QED
    BY <2>3, <2>4, <2>5 DEF IInv
<1>4. CASE ~(temp /\ cur \in periodic \cap active)
  <2>1. temp' = FALSE /\ UNCHANGED <<list, order, madeOneShot, active, timeout>>
    BY <1>4 DEF Return
  <2>2. TypeOK'
    BY <1>1, <1>2, <2>1 DEF TypeOK
  <2>3. FlagMeansListed' /\ Local'
    BY <1>1, <1>2, <1>4, <2>1 DEF FlagMeansListed, Local
  <2>4. LeftOf' = LeftOf /\ \A u \in Timers : Left(u)' = Left(u)
    BY <1>2, <2>1 DEF LeftOf, Left
  <2>5. \A u \in Range(list) : u \in Timers
    BY <1>1 DEF TypeOK, Range
  <2>6. Listing'
    BY <1>1, <1>2, <2>1, <2>4, <2>5 DEF Listing, Ahead, Sorted, Ordered
  <2>7. QED
    BY <2>2, <2>3, <2>6 DEF IInv
<1>5. QED  BY <1>3, <1>4

(* The interrupt ends: no timer is left that is due.                       *)
LEMMA LeaveKeeps == ASSUME IInv, Leave  PROVE IInv'
<1>1. TypeOK /\ FlagMeansListed /\ Local /\ Listing
  BY DEF IInv
<1>2. /\ UNCHANGED <<rt_tick, list, temp, order, madeOneShot, inited, active, periodic,
                     init_tick, timeout, cur, ops>>
      /\ pc = "check" /\ pc' = "run" /\ ~IsDue
  BY DEF Leave, lists
<1>3. \A u \in Range(list) : 0 < Left(u)
  BY <1>2, DueIsExact
<1>4. TypeOK' /\ FlagMeansListed' /\ Local'
  BY <1>1, <1>2 DEF TypeOK, FlagMeansListed, Local
<1>5. LeftOf' = LeftOf /\ \A u \in Timers : Left(u)' = Left(u)
  BY <1>2 DEF LeftOf, Left
<1>6. \A u \in Range(list) : u \in Timers
  BY <1>1 DEF TypeOK, Range
<1>7. Listing'
  BY <1>1, <1>2, <1>3, <1>5, <1>6 DEF Listing, Ahead, Sorted, Ordered
<1>8. QED
  BY <1>4, <1>7 DEF IInv

(* Every step keeps the invariant.                                         *)
LEMMA Inductive == IInv /\ [Next]_vars => IInv'
<1> SUFFICES ASSUME IInv, [Next]_vars  PROVE IInv'
  OBVIOUS
<1>0. TypeOK
  BY DEF IInv
<1>1. CASE User
  BY <1>0, <1>1, UseKeeps DEF User, TypeOK, check
<1>2. CASE Callback
  BY <1>0, <1>2, UseKeeps DEF Callback, TypeOK, check
<1>3. CASE rt_tick_increase
  BY <1>3, TickKeeps
<1>4. CASE rt_timer_check
  BY <1>4, ExpireKeeps, ReturnKeeps, LeaveKeeps DEF rt_timer_check
<1>5. CASE UNCHANGED vars
  <2>1. TypeOK' /\ FlagMeansListed' /\ Local'
    BY <1>5 DEF vars, IInv, TypeOK, FlagMeansListed, Local
  <2>2. LeftOf' = LeftOf /\ \A u \in Timers : Left(u)' = Left(u)
    BY <1>5 DEF vars, LeftOf, Left
  <2>3. \A u \in Range(list) : u \in Timers
    BY <1>0 DEF TypeOK, Range
  <2>4. Listing'
    BY <1>5, <2>2, <2>3 DEF vars, IInv, Listing, Ahead, Sorted, Ordered
  <2>5. QED
    BY <2>1, <2>4 DEF IInv
<1>6. QED
  BY <1>1, <1>2, <1>3, <1>4, <1>5 DEF Next

LEMMA Always == Spec => []IInv
  BY Initial, Inductive, PTL DEF Spec

(* The variables of timer.c keep their types; no timeout is off the        *)
(* counter.                                                                *)
THEOREM TimerTypeCorrect == Spec => []TypeOK
<1>1. IInv => TypeOK
  BY DEF IInv
<1>2. QED  BY <1>1, Always, PTL

(* The flag of a timer and the list agree, whatever timers' functions do   *)
(* to their own timers and to others, but for the mark that a timer keeps  *)
(* when its own function makes it a one-shot.                              *)
THEOREM TimerFlagMeansListed == Spec => []FlagMeansListed
<1>1. IInv => FlagMeansListed
  BY DEF IInv
<1>2. QED  BY <1>1, Always, PTL

----------------------------------------------------------------------------
(* The countdown: what a running timer has left, and Off for the others.   *)

Bar == [t \in Timers |-> IF t \in Range(list) THEN Minus(timeout[t], rt_tick) ELSE Off]

(* The started timers of the countdown are the ones on the list.           *)
LEMMA BarIs ==
  ASSUME TypeOK
  PROVE  /\ \A t \in Timers : Bar[t] = IF t \in Range(list) THEN Left(t) ELSE Off
         /\ Range(list) \subseteq Timers
         /\ Ideal!Started = Range(list)
         /\ \A t \in Timers : Ideal!Without(t) = Forget(t)
         /\ \A t \in Timers : Ideal!Last(t) = (Range(list) \ {t}) \X {t}
<1>1. \A t \in Timers : Bar[t] = IF t \in Range(list) THEN Left(t) ELSE Off
  BY DEF Bar, Left
<1>2. Range(list) \subseteq Timers
  BY DEF TypeOK, Range
<1>3. \A t \in Timers : Left(t) # Off
  BY LeftType, HardTimerAssumption
<1>4. Ideal!Started = {t \in Timers : Bar[t] # Off}
  BY DEF Ideal!Started, Bar
<1>5. Ideal!Started = Range(list)
  BY <1>1, <1>2, <1>3, <1>4
<1>6. QED
  BY <1>1, <1>2, <1>5 DEF Ideal!Without, Forget, Ideal!Last

(* Nothing that the countdown sees.                                        *)
LEMMA SameBar ==
  ASSUME TypeOK, list' = list, \A u \in Range(list) : Left(u)' = Left(u)
  PROVE  Bar' = Bar
<1>1. \A u \in Timers : (IF u \in Range(list') THEN Minus(timeout'[u], rt_tick') ELSE Off)
                      = (IF u \in Range(list) THEN Minus(timeout[u], rt_tick) ELSE Off)
  BY DEF Left
<1>2. QED
  BY <1>1 DEF Bar

(* Begin is a start, and the end of a periodic timer's function.           *)
LEMMA BarBegin ==
  ASSUME IInv, NEW t \in Timers, Begin(t),
         UNCHANGED <<rt_tick, init_tick>>, pc' = "run" => pc = "run"
  PROVE  /\ Bar' = [Bar EXCEPT ![t] = init_tick[t]]
         /\ order' = Ideal!Without(t) \cup Ideal!Last(t)
<1>1. TypeOK /\ Listing
  BY DEF IInv
<1>2. /\ Range(list') = Range(list) \cup {t}
      /\ \A u \in Timers : Left(u)' = IF u = t THEN init_tick[t] ELSE Left(u)
  BY <1>1, BeginKeeps
<1>3. \A u \in Timers : (IF u \in Range(list') THEN Minus(timeout'[u], rt_tick') ELSE Off)
                      = IF u = t THEN init_tick[t] ELSE Bar[u]
  BY <1>1, <1>2, BarIs DEF Left
<1>4. Bar' = [u \in Timers |-> IF u = t THEN init_tick[t] ELSE Bar[u]]
  BY <1>3 DEF Bar
<1>5. Bar = [u \in Timers |-> Bar[u]]
  BY DEF Bar
<1>6. Bar' = [Bar EXCEPT ![t] = init_tick[t]]
  <2> DEFINE B == Bar
             C == Bar'
  <2>1. B = [u \in Timers |-> B[u]] /\ C = [u \in Timers |-> IF u = t THEN init_tick[t] ELSE B[u]]
    BY <1>4, <1>5
  <2> HIDE DEF B, C
  <2>2. C = [B EXCEPT ![t] = init_tick[t]]
    BY <2>1
  <2>3. QED  BY <2>2 DEF B, C
<1>7. QED
  BY <1>1, <1>6, BarIs DEF Begin

(* A timer leaves the list.                                                *)
LEMMA BarRemove ==
  ASSUME TypeOK, NEW t \in Timers, Range(list') = Range(list) \ {t},
         \A u \in Timers : Left(u)' = Left(u)
  PROVE  Bar' = [Bar EXCEPT ![t] = Off]
<1>1. \A u \in Timers : (IF u \in Range(list') THEN Minus(timeout'[u], rt_tick') ELSE Off)
                      = IF u = t THEN Off ELSE Bar[u]
  BY BarIs DEF Left
<1> DEFINE B == Bar
           C == Bar'
<1>2. B = [u \in Timers |-> B[u]] /\ C = [u \in Timers |-> IF u = t THEN Off ELSE B[u]]
  BY <1>1 DEF Bar
<1> HIDE DEF B, C
<1>3. C = [B EXCEPT ![t] = Off]
  BY <1>2
<1>4. QED  BY <1>3 DEF B, C

(* A call is a start, a stop or a change of the time, or nothing.          *)
LEMMA UseImplements ==
  ASSUME IInv, NEW t \in Timers, Use(t), UNCHANGED check, ops' \in Nat
  PROVE  [Ideal!Next]_(Ideal!vars)
<1>0. TypeOK /\ FlagMeansListed /\ Local /\ Listing /\ UNCHANGED <<rt_tick, pc, cur>>
  BY DEF IInv, check
<1>1. CASE rt_timer_start(t)
  <2>1. Bar' = [Bar EXCEPT ![t] = init_tick[t]] /\ order' = Ideal!Without(t) \cup Ideal!Last(t)
    BY <1>0, <1>1, BarBegin DEF rt_timer_start
  <2>2. Ideal!Start(t)
    BY <1>0, <1>1, <2>1 DEF rt_timer_start, Ideal!Start, Bar
  <2>3. QED  BY <2>2 DEF Ideal!Next
<1>2. CASE rt_timer_stop(t) \/ rt_timer_detach(t)
  <2>1. /\ _timer_remove(t) /\ active' = active \ {t} /\ inited' \in {inited, inited \ {t}}
        /\ UNCHANGED <<periodic, init_tick, timeout>>
    BY <1>2 DEF rt_timer_stop, rt_timer_detach
  <2>2. Range(list') = Range(list) \ {t} /\ \A u \in Timers : Left(u)' = Left(u)
    BY <2>1, RemoveStep DEF check
  <2>3. Bar' = [Bar EXCEPT ![t] = Off]
    BY <1>0, <2>2, BarRemove
  <2>4. order' = Ideal!Without(t)
    BY <1>0, <2>1, BarIs DEF _timer_remove
  <2>5. Ideal!Stop(t)
    BY <1>0, <2>1, <2>3, <2>4 DEF Ideal!Stop, Bar
  <2>6. QED  BY <2>5 DEF Ideal!Next
<1>3. CASE rt_timer_init(t)
  <2>1. t \notin Range(list) /\ list' = list /\ order' = order
    BY <1>3, ListedIsInited DEF rt_timer_init, lists
  <2>2. \A u \in Range(list) : Left(u)' = Left(u)
    BY <1>0, <1>3, <2>1, BarIs DEF rt_timer_init, Left, TypeOK
  <2>3. Bar' = Bar
    BY <1>0, <2>1, <2>2, SameBar
  <2>4. Ideal!SetTime(t)
    BY <1>0, <1>3, <2>1, <2>3 DEF rt_timer_init, Ideal!SetTime, Bar
  <2>5. QED  BY <2>4 DEF Ideal!Next
<1>4. CASE SetTime(t)
  <2>1. list' = list /\ order' = order /\ \A u \in Range(list) : Left(u)' = Left(u)
    BY <1>0, <1>4 DEF SetTime, lists, Left
  <2>2. Bar' = Bar
    BY <1>0, <2>1, SameBar
  <2>3. Ideal!SetTime(t)
    BY <1>0, <1>4, <2>1, <2>2 DEF SetTime, Ideal!SetTime, Bar
  <2>4. QED  BY <2>3 DEF Ideal!Next
<1>5. CASE SetPeriodic(t) \/ SetOneShot(t)
  <2>1. /\ list' = list /\ order' = order /\ init_tick' = init_tick
        /\ \A u \in Range(list) : Left(u)' = Left(u)
    BY <1>0, <1>5 DEF SetPeriodic, SetOneShot, lists, Left
  <2>2. Bar' = Bar
    BY <1>0, <2>1, SameBar
  <2>3. QED
    BY <1>0, <2>1, <2>2 DEF Ideal!vars, Bar
<1>6. QED
  BY <1>1, <1>2, <1>3, <1>4, <1>5 DEF Use

(* The tick interrupt's count.                                             *)
LEMMA TickImplements == ASSUME IInv, rt_tick_increase  PROVE Ideal!Tick
<1>1. TypeOK /\ Local /\ Listing /\ pc = "run" /\ cur = None
  BY HardTimerAssumption DEF IInv, Local, rt_tick_increase
<1>2. UNCHANGED <<list, order, init_tick, cur>>
  BY DEF rt_tick_increase, lists
<1>3. \A u \in Range(list) : Left(u)' = Left(u) - 1 /\ 0 < Left(u)
  BY <1>1, TickKeeps, BarIs, LeftType DEF Listing, Ahead
<1>4. \A u \in Ideal!Started : Bar[u] > 0
  BY <1>1, <1>3, BarIs, LeftType
<1>5. \A u \in Timers : (IF u \in Range(list') THEN Minus(timeout'[u], rt_tick') ELSE Off)
                      = IF Bar[u] = Off THEN Off ELSE Bar[u] - 1
  BY <1>1, <1>2, <1>3, BarIs, LeftType, HardTimerAssumption DEF Left
<1>6. Bar' = [u \in Timers |-> IF Bar[u] = Off THEN Off ELSE Bar[u] - 1]
  BY <1>5 DEF Bar
<1>7. QED
  BY <1>1, <1>2, <1>4, <1>6 DEF Ideal!Tick, Bar

(* The timer that is called has nothing left, and was started before all   *)
(* others that have nothing left.                                          *)
LEMMA ExpireImplements == ASSUME IInv, Expire  PROVE Ideal!Next
<1> DEFINE h == Head(list)
<1>1. TypeOK /\ Local /\ list # <<>> /\ Left(h) = 0 /\ pc = "check" /\ cur = None
  BY DueIsExact DEF IInv, Local, Expire
<1>2. /\ h \in Range(list)
      /\ \A u \in Range(list) : u # h /\ Left(u) = Left(h) => <<u, h>> \notin order
  BY <1>1, HeadIsFirst
<1>3. cur' = h /\ order' = Forget(h) /\ init_tick' = init_tick
  BY DEF Expire
<1>4. h \in Timers /\ Ideal!Started = Range(list)
  BY <1>1, <1>2, BarIs
<1> HIDE DEF h
<1>5. Range(list') = Range(list) \ {h} /\ \A u \in Timers : Left(u)' = Left(u)
  BY <1>3, ExpireKeeps
<1>6. Bar' = [Bar EXCEPT ![h] = Off]
  BY <1>1, <1>4, <1>5, BarRemove
<1>7. Bar[h] = 0 /\ ~\E u \in Ideal!Started \ {h} : Bar[u] = 0 /\ <<u, h>> \in order
  BY <1>1, <1>2, <1>4, BarIs
<1>8. order' = Ideal!Without(h)
  BY <1>1, <1>3, <1>4, BarIs
<1>9. PICK t \in Timers : t = h
  BY <1>4
<1>10. Ideal!Call(t)
  BY <1>1, <1>3, <1>6, <1>7, <1>8, <1>9 DEF Ideal!Call, Bar
<1>11. QED
  BY <1>10 DEF Ideal!Next

(* The end of a timer's function.                                          *)
LEMMA ReturnImplements == ASSUME IInv, Return  PROVE Ideal!Return
<1>1. TypeOK /\ Local /\ Listing
  BY DEF IInv
<1>2. /\ pc = "call" /\ pc' = "check" /\ cur' = None
      /\ UNCHANGED <<rt_tick, init_tick>> /\ cur \in Timers /\ cur # None
  BY <1>1 DEF Return, Local, TypeOK
<1>3. CASE temp /\ cur \in periodic \cap active
  <2>1. Begin(cur) /\ cur \notin Range(list)
    BY <1>1, <1>3 DEF Return, Local
  <2>2. /\ Bar' = [Bar EXCEPT ![cur] = init_tick[cur]]
        /\ order' = Ideal!Without(cur) \cup Ideal!Last(cur)
    BY <1>2, <2>1, BarBegin
  <2>3. Ideal!Without(cur) = order
    <3>1. \A p \in order : cur # p[1] /\ cur # p[2]
      <4>1. TAKE p \in order
      <4>2. p[1] \in Timers /\ p[2] \in Timers /\ <<p[1], p[2]>> \in order
        BY <1>1 DEF TypeOK
      <4>3. p[1] \in Range(list) /\ p[2] \in Range(list)
        BY <1>1, <4>2 DEF Listing, Ordered
      <4>4. QED  BY <2>1, <4>3
    <3>2. QED
      BY <3>1 DEF Ideal!Without
  <2>4. Bar[cur] = Off
    BY <1>1, <1>2, <2>1, BarIs
  <2>5. QED
    BY <1>2, <2>2, <2>3, <2>4 DEF Ideal!Return, Bar
<1>4. CASE ~(temp /\ cur \in periodic \cap active)
  <2>1. UNCHANGED <<list, order, timeout>>
    BY <1>4 DEF Return
  <2>2. \A u \in Range(list) : Left(u)' = Left(u)
    BY <1>2, <2>1 DEF Left
  <2>3. Bar' = Bar
    BY <1>1, <2>1, <2>2, SameBar
  <2>4. QED
    BY <1>2, <2>1, <2>3 DEF Ideal!Return, Bar
<1>5. QED  BY <1>3, <1>4

(* Every step of the kernel is a step of the countdown or none.            *)
LEMMA StepImplements == IInv /\ [Next]_vars => [Ideal!Next]_(Ideal!vars)
<1> SUFFICES ASSUME IInv, [Next]_vars  PROVE [Ideal!Next]_(Ideal!vars)
  OBVIOUS
<1>0. TypeOK
  BY DEF IInv
<1>1. CASE User
  <2>1. PICK t \in Timers : Use(t) /\ UNCHANGED check /\ ops' = ops
    BY <1>1 DEF User
  <2>2. QED  BY <1>0, <2>1, UseImplements DEF TypeOK
<1>2. CASE Callback
  <2>1. PICK t \in Timers : Use(t) /\ UNCHANGED check /\ ops' = ops + 1
    BY <1>2 DEF Callback
  <2>2. QED  BY <1>0, <2>1, UseImplements DEF TypeOK
<1>3. CASE rt_tick_increase
  BY <1>3, TickImplements DEF Ideal!Next
<1>4. CASE Expire
  BY <1>4, ExpireImplements
<1>5. CASE Return
  BY <1>5, ReturnImplements DEF Ideal!Next
<1>6. CASE Leave \/ UNCHANGED vars
  BY <1>6 DEF Leave, lists, vars, Ideal!vars
<1>7. QED
  BY <1>1, <1>2, <1>3, <1>4, <1>5, <1>6 DEF Next, rt_timer_check

(* No timer runs at boot.                                                  *)
LEMMA InitialImplements == Init => Ideal!Init
<1> SUFFICES ASSUME Init  PROVE Ideal!Init
  OBVIOUS
<1>1. Range(list) = {}
  BY DEF Init, Range
<1>2. QED
  BY <1>1 DEF Init, Ideal!Init

(* The kernel's timers implement the countdown, for every set of timers,   *)
(* every length of the counter and all times below half of it: a timer is  *)
(* called at its tick, none is passed over, and those that are due         *)
(* together are called in the order of their starts.                       *)
THEOREM TimerImplementsCountdown == Spec => ImplementsCountdown
  BY Always, StepImplements, InitialImplements, PTL DEF Spec, ImplementsCountdown, Ideal!Spec
=============================================================================
