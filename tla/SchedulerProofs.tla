-------------------------- MODULE SchedulerProofs --------------------------
(***************************************************************************)
(* Proofs about Scheduler: for every set of threads, any priorities, slice *)
(* and depth of locking, the bits, the lists and the threads' states agree *)
(* about who is ready, the most urgent thread runs unless rt_schedule was  *)
(* not called since another was resumed or moved, and only a suspended     *)
(* thread's timer runs.                                                    *)
(***************************************************************************)
EXTENDS Scheduler, SequenceTheorems, WellFoundedInduction, TLAPS

Stats == {"init", "suspend", "ready", "running", "close"}

Kernel == [cur : Threads, ready : [Prios -> Seq(Threads)], group : SUBSET Prios,
           stat : [Threads -> Stats], yield : [Threads -> BOOLEAN],
           prio : [Threads -> Prios], nest : 0 .. MaxNest]

TypeOK == /\ k \in Kernel
          /\ remaining \in [Threads -> 1 .. Slice]
          /\ wait \in [Threads -> Nat \cup {Off}]
          /\ pc \in [Threads -> {"code", "schedule", "resume"}]
          /\ target \in [Threads -> Threads \cup {None}]
          /\ defunct \subseteq Threads
          /\ isr \in BOOLEAN /\ moved \subseteq Threads

\* The lists hold the threads R, each once and by its priority, and a
\* priority's bit says whether its list holds any.
Lists(ready, group, prio, R) ==
    /\ group = {p \in Prios : ready[p] # <<>>}
    /\ \A p \in Prios : /\ IsInjective(ready[p])
                        /\ Range(ready[p]) = {t \in R : prio[t] = p}

Unlinked(ready, t) == [p \in Prios |-> Without(t)[ready[p]]]
NotEmpty(ready) == {p \in Prios : ready[p] # <<>>}

Ready(s) == {t \in Threads : s.stat[t] = "ready"}

\* What ReadyAgrees says of a kernel; the current thread is not listed.
Agrees(s) == /\ Lists(s.ready, s.group, s.prio, Ready(s))
             /\ \A t \in Threads : s.stat[t] = "running" => t = s.cur
             /\ s.stat[s.cur] # "ready"

OutrankedIn(s) == s.stat[s.cur] = "running" /\ s.nest = 0 /\ \E p \in s.group : p < s.prio[s.cur]

\* A thread that is to be buried is closed: it is in no list.
DefunctClosed == \A t \in defunct : k.stat[t] = "close"
TargetKnown == \A t \in Threads : pc[t] = "resume" => target[t] \in Threads
\* Timers that are due are those the interrupt is working on.
NoneDue == ~isr => \A t \in Threads : wait[t] # 0

IInv == /\ TypeOK /\ Agrees(k) /\ HighestRuns /\ TimerMeansSuspended
        /\ DefunctClosed /\ TargetKnown /\ NoneDue

----------------------------------------------------------------------------
(* A set of priorities that is not empty has a most urgent one, which Min  *)
(* chooses.                                                                *)
LEMMA MinIsLeast ==
  ASSUME NEW S \in SUBSET Nat, S # {}
  PROVE  Min(S) \in S /\ \A m \in S : Min(S) =< m
<1> DEFINE R == OpToRel(<, Nat)
<1>1. IsWellFoundedOn(R, Nat)
  BY NatLessThanWellFounded, Zenon
<1>2. \A m, n \in Nat : m < n => <<m, n>> \in R
  BY DEF OpToRel
<1> HIDE DEF R
<1>3. PICK n \in S : \A m \in S : ~(<<m, n>> \in R)
  BY <1>1, WFMin
<1>4. \A m \in S : ~(m < n)
  BY <1>2, <1>3, Zenon
<1>5. \E x \in S : \A m \in S : x =< m
  BY <1>4
<1>6. QED
  BY <1>5 DEF Min

(* A thread that is not listed is put at the end of its list.              *)
LEMMA AppendIs ==
  ASSUME NEW q \in Seq(Threads), NEW t \in Threads,
         IsInjective(q), t \notin Range(q)
  PROVE  /\ Append(q, t) \in Seq(Threads) /\ Append(q, t) # <<>>
         /\ IsInjective(Append(q, t))
         /\ Range(Append(q, t)) = Range(q) \cup {t}
<1> DEFINE a == Append(q, t)
<1>1. /\ a \in Seq(Threads) /\ DOMAIN a = 1 .. Len(q) + 1 /\ Len(q) \in Nat
      /\ \A n \in 1 .. Len(q) : a[n] = q[n]
      /\ a[Len(q) + 1] = t /\ DOMAIN q = 1 .. Len(q) /\ a # <<>>
  OBVIOUS
<1> HIDE DEF a
<1>2. IsInjective(a)
  BY <1>1 DEF IsInjective, Range
<1>3. Range(a) = Range(q) \cup {t}
  BY <1>1 DEF Range
<1>4. QED
  BY <1>1, <1>2, <1>3 DEF a

(* What rt_list_remove leaves of a list: all but the thread, in order.     *)
LEMMA RemoveAtIs ==
  ASSUME NEW q \in Seq(Threads), NEW n \in DOMAIN q
  PROVE  /\ RemoveAt(q, n) \in Seq(Threads)
         /\ DOMAIN RemoveAt(q, n) = 1 .. Len(q) - 1
         /\ \A m \in 1 .. Len(q) - 1 :
              RemoveAt(q, n)[m] = IF m < n THEN q[m] ELSE q[m + 1]
<1> DEFINE a == SubSeq(q, 1, n - 1)
           b == SubSeq(q, n + 1, Len(q))
<1>1. /\ Len(q) \in Nat /\ n \in 1 .. Len(q) /\ DOMAIN q = 1 .. Len(q)
      /\ \A m \in 1 .. Len(q) : q[m] \in Threads
  OBVIOUS
<1>2. /\ a \in Seq(Threads) /\ Len(a) = n - 1
      /\ \A m \in 1 .. n - 1 : a[m] = q[m]
  <2>1. \A m \in 1 .. n - 1 : q[m] \in Threads
    BY <1>1
  <2>2. /\ a \in Seq(Threads)
        /\ Len(a) = IF 1 <= n - 1 THEN (n - 1) - 1 + 1 ELSE 0
        /\ \A m \in 1 .. (n - 1) - 1 + 1 : a[m] = q[1 + m - 1]
    <3>1. 1 \in Int /\ n - 1 \in Int
      BY <1>1
    <3>2. QED
      BY <2>1, <3>1, SubSeqProperties
  <2> HIDE DEF a
  <2>3. QED
    BY <1>1, <2>2
<1>3. /\ b \in Seq(Threads) /\ Len(b) = Len(q) - n
      /\ \A m \in 1 .. Len(q) - n : b[m] = q[m + n]
  <2>1. \A m \in n + 1 .. Len(q) : q[m] \in Threads
    BY <1>1
  <2>2. /\ b \in Seq(Threads)
        /\ Len(b) = IF n + 1 <= Len(q) THEN Len(q) - (n + 1) + 1 ELSE 0
        /\ \A m \in 1 .. Len(q) - (n + 1) + 1 : b[m] = q[(n + 1) + m - 1]
    <3>1. n + 1 \in Int /\ Len(q) \in Int
      BY <1>1
    <3>2. QED
      BY <2>1, <3>1, SubSeqProperties
  <2> HIDE DEF b
  <2>3. Len(b) = Len(q) - n
    BY <1>1, <2>2
  <2>4. ASSUME NEW m \in 1 .. Len(q) - n  PROVE b[m] = q[m + n]
    <3>1. m \in 1 .. Len(q) - (n + 1) + 1 /\ (n + 1) + m - 1 = m + n
      BY <1>1
    <3>2. b[m] = q[(n + 1) + m - 1]
      BY <2>2, <3>1
    <3>3. QED
      BY <3>1, <3>2
  <2>5. QED
    BY <2>2, <2>3, <2>4
<1> HIDE DEF a, b
<1>4. /\ a \o b \in Seq(Threads) /\ Len(a \o b) = Len(a) + Len(b)
      /\ \A m \in 1 .. Len(a) + Len(b) :
           (a \o b)[m] = IF m <= Len(a) THEN a[m] ELSE b[m - Len(a)]
  BY <1>2, <1>3, ConcatProperties
<1>5. RemoveAt(q, n) = a \o b
  BY DEF RemoveAt, a, b
<1> DEFINE r == RemoveAt(q, n)
<1> HIDE DEF r
<1>6. r \in Seq(Threads) /\ DOMAIN r = 1 .. Len(q) - 1
  <2>1. r \in Seq(Threads) /\ Len(r) = Len(a) + Len(b)
    BY <1>4, <1>5 DEF r
  <2>2. Len(a) + Len(b) = Len(q) - 1
    BY <1>1, <1>2, <1>3
  <2>3. QED
    BY <2>1, <2>2, LenProperties
<1>7. ASSUME NEW m \in 1 .. Len(q) - 1  PROVE r[m] = IF m < n THEN q[m] ELSE q[m + 1]
  <2>1. m \in 1 .. Len(a) + Len(b) /\ r[m] = IF m <= Len(a) THEN a[m] ELSE b[m - Len(a)]
    BY <1>1, <1>2, <1>3, <1>4, <1>5 DEF r
  <2>2. CASE m < n
    BY <1>1, <1>2, <2>1, <2>2
  <2>3. CASE ~(m < n)
    <3>1. m - Len(a) \in 1 .. Len(q) - n /\ (m - Len(a)) + n = m + 1 /\ ~(m <= Len(a))
      BY <1>1, <1>2, <2>3
    <3>2. QED
      BY <1>3, <2>1, <2>3, <3>1
  <2>4. QED  BY <2>2, <2>3
<1>8. QED
  BY <1>6, <1>7 DEF r

LEMMA WithoutIs ==
  ASSUME NEW q \in Seq(Threads), NEW t \in Threads, IsInjective(q)
  PROVE  /\ Without(t)[q] \in Seq(Threads)
         /\ IsInjective(Without(t)[q])
         /\ Range(Without(t)[q]) = Range(q) \ {t}
         /\ t \notin Range(q) => Without(t)[q] = q
<1>1. CASE t \notin Range(q)
  <2>1. Without(t)[q] = q
    BY <1>1 DEF Without, Range
  <2>2. QED
    BY <1>1, <2>1
<1>2. CASE t \in Range(q)
  <2> DEFINE n == CHOOSE n \in DOMAIN q : q[n] = t
             r == RemoveAt(q, n)
  <2>1. n \in DOMAIN q /\ q[n] = t
    BY <1>2 DEF Range
  <2>2. Without(t)[q] = r
    <3>1. \E m \in DOMAIN q : q[m] = t
      BY <1>2 DEF Range
    <3>2. QED
      BY <3>1 DEF Without
  <2> HIDE DEF n
  <2>3. /\ r \in Seq(Threads) /\ DOMAIN r = 1 .. Len(q) - 1
        /\ \A m \in 1 .. Len(q) - 1 : r[m] = IF m < n THEN q[m] ELSE q[m + 1]
    BY <2>1, RemoveAtIs
  <2> HIDE DEF r
  <2>4. DOMAIN q = 1 .. Len(q) /\ Len(q) \in Nat /\ n \in Nat
    BY <2>1
  <2>5. IsInjective(r)
    <3>1. SUFFICES ASSUME NEW i \in 1 .. Len(q) - 1, NEW j \in 1 .. Len(q) - 1, r[i] = r[j]
                   PROVE  i = j
      BY <2>3 DEF IsInjective
    <3> DEFINE at(m) == IF m < n THEN m ELSE m + 1
    <3>2. at(i) \in DOMAIN q /\ at(j) \in DOMAIN q /\ r[i] = q[at(i)] /\ r[j] = q[at(j)]
      BY <2>3, <2>4
    <3>3. at(i) = at(j)
      BY <3>1, <3>2 DEF IsInjective
    <3>4. QED
      BY <2>4, <3>3
  <2>6. Range(r) \subseteq Range(q) \ {t}
    BY <2>1, <2>3, <2>4 DEF IsInjective, Range
  <2>7. Range(q) \ {t} \subseteq Range(r)
    <3>1. SUFFICES ASSUME NEW m \in DOMAIN q, m # n
                   PROVE  \E j \in DOMAIN r : r[j] = q[m]
      BY <2>1 DEF Range
    <3>2. CASE m < n
      BY <2>1, <2>3, <2>4, <3>2
    <3>3. CASE m > n
      <4>1. m - 1 \in 1 .. Len(q) - 1 /\ ~(m - 1 < n) /\ (m - 1) + 1 = m
        BY <2>1, <2>4, <3>3
      <4>2. QED
        BY <2>3, <4>1
    <3>4. QED  BY <2>1, <2>4, <3>1, <3>2, <3>3
  <2>8. QED
    BY <1>2, <2>2, <2>3, <2>5, <2>6, <2>7
<1>3. QED  BY <1>1, <1>2

----------------------------------------------------------------------------
(* The lists as a whole.                                                   *)

(* A thread that is in no list is appended to its own, and the bit is set. *)
LEMMA ListsAppend ==
  ASSUME NEW ready \in [Prios -> Seq(Threads)], NEW group, NEW prio \in [Threads -> Prios],
         NEW R \in SUBSET Threads, Lists(ready, group, prio, R),
         NEW t \in Threads, t \notin R
  PROVE  LET added == [ready EXCEPT ![prio[t]] = Append(@, t)] IN
         /\ added \in [Prios -> Seq(Threads)]
         /\ Lists(added, group \cup {prio[t]}, prio, R \cup {t})
<1> DEFINE added == [ready EXCEPT ![prio[t]] = Append(@, t)]
<1>1. prio[t] \in Prios /\ ready[prio[t]] \in Seq(Threads) /\ IsInjective(ready[prio[t]])
  BY DEF Lists
<1>2. t \notin Range(ready[prio[t]])
  BY <1>1 DEF Lists
<1>3. /\ Append(ready[prio[t]], t) \in Seq(Threads)
      /\ Append(ready[prio[t]], t) # <<>>
      /\ IsInjective(Append(ready[prio[t]], t))
      /\ Range(Append(ready[prio[t]], t)) = Range(ready[prio[t]]) \cup {t}
  BY <1>1, <1>2, AppendIs
<1>4. /\ added[prio[t]] = Append(ready[prio[t]], t)
      /\ \A p \in Prios : p # prio[t] => added[p] = ready[p]
  BY <1>1
<1>5. added \in [Prios -> Seq(Threads)]
  BY <1>1, <1>3
<1> HIDE DEF added
<1>6. group \cup {prio[t]} = {p \in Prios : added[p] # <<>>}
  BY <1>1, <1>3, <1>4 DEF Lists
<1>7. ASSUME NEW p \in Prios
      PROVE  /\ IsInjective(added[p])
             /\ Range(added[p]) = {u \in R \cup {t} : prio[u] = p}
  <2>1. CASE p = prio[t]
    BY <1>3, <1>4, <2>1 DEF Lists
  <2>2. CASE p # prio[t]
    BY <1>4, <2>2 DEF Lists
  <2>3. QED  BY <2>1, <2>2
<1>8. Lists(added, group \cup {prio[t]}, prio, R \cup {t})
  BY <1>6, <1>7 DEF Lists
<1>9. QED
  BY <1>5, <1>8 DEF added

(* A list without elements is the empty sequence.                          *)
LEMMA EmptyRange ==
  ASSUME NEW q \in Seq(Threads)
  PROVE  q = <<>> <=> Range(q) = {}
<1>1. CASE q = <<>>
  BY <1>1 DEF Range
<1>2. CASE q # <<>>
  <2>1. 1 \in DOMAIN q
    BY <1>2
  <2>2. QED  BY <1>2, <2>1 DEF Range
<1>3. QED  BY <1>1, <1>2

(* Taking a thread off its list, and clearing the bit with the last one.   *)
LEMMA ListsRemove ==
  ASSUME NEW ready \in [Prios -> Seq(Threads)], NEW group, NEW prio \in [Threads -> Prios],
         NEW R \in SUBSET Threads, Lists(ready, group, prio, R),
         NEW t \in Threads
  PROVE  LET rest == Without(t)[ready[prio[t]]]
             left == [ready EXCEPT ![prio[t]] = rest]
         IN  /\ left \in [Prios -> Seq(Threads)]
             /\ Lists(left, IF rest = <<>> THEN group \ {prio[t]} ELSE group, prio, R \ {t})
<1> DEFINE rest == Without(t)[ready[prio[t]]]
           left == [ready EXCEPT ![prio[t]] = rest]
           bits == IF rest = <<>> THEN group \ {prio[t]} ELSE group
<1>1. prio[t] \in Prios /\ ready[prio[t]] \in Seq(Threads) /\ IsInjective(ready[prio[t]])
  BY DEF Lists
<1>2. /\ rest \in Seq(Threads) /\ IsInjective(rest)
      /\ Range(rest) = Range(ready[prio[t]]) \ {t}
  BY <1>1, WithoutIs
<1> HIDE DEF rest
<1>3. /\ left[prio[t]] = rest
      /\ \A p \in Prios : p # prio[t] => left[p] = ready[p]
  BY <1>1
<1>4. left \in [Prios -> Seq(Threads)]
  BY <1>1, <1>2
<1>5. ready[prio[t]] = <<>> => rest = <<>>
  BY <1>1, <1>2, EmptyRange
<1> HIDE DEF left
<1>6. bits = {p \in Prios : left[p] # <<>>}
  BY <1>1, <1>3, <1>5 DEF Lists
<1> HIDE DEF bits
<1>7. ASSUME NEW p \in Prios
      PROVE  /\ IsInjective(left[p])
             /\ Range(left[p]) = {u \in R \ {t} : prio[u] = p}
  <2>1. CASE p = prio[t]
    BY <1>2, <1>3, <2>1 DEF Lists
  <2>2. CASE p # prio[t]
    BY <1>3, <2>2 DEF Lists
  <2>3. QED  BY <2>1, <2>2
<1>8. Lists(left, bits, prio, R \ {t})
  BY <1>6, <1>7 DEF Lists
<1>9. QED
  BY <1>4, <1>8 DEF rest, left, bits

(* The priority of a thread that is in no list may change.                 *)
LEMMA ListsPrio ==
  ASSUME NEW ready, NEW group, NEW prio \in [Threads -> Prios],
         NEW R \in SUBSET Threads, Lists(ready, group, prio, R),
         NEW t \in Threads, t \notin R, NEW p \in Prios
  PROVE  Lists(ready, group, [prio EXCEPT ![t] = p], R)
<1>1. \A u \in R : [prio EXCEPT ![t] = p][u] = prio[u]
  OBVIOUS
<1>2. \A q \in Prios : {u \in R : [prio EXCEPT ![t] = p][u] = q} = {u \in R : prio[u] = q}
  BY <1>1
<1>3. QED
  BY <1>2 DEF Lists

(* Taking a thread off whatever list it is in.                             *)
LEMMA ListsUnlink ==
  ASSUME NEW ready \in [Prios -> Seq(Threads)], NEW group, NEW prio \in [Threads -> Prios],
         NEW R \in SUBSET Threads, Lists(ready, group, prio, R),
         NEW t \in Threads
  PROVE  LET left == Unlinked(ready, t) IN
         /\ left \in [Prios -> Seq(Threads)]
         /\ Lists(left, NotEmpty(left), prio, R \ {t})
         /\ \A p \in Prios : p # prio[t] => left[p] = ready[p]
         /\ t \notin R => left = ready
<1> DEFINE left == Unlinked(ready, t)
<1>1. ASSUME NEW p \in Prios
      PROVE  /\ left[p] \in Seq(Threads) /\ IsInjective(left[p])
             /\ Range(left[p]) = Range(ready[p]) \ {t}
             /\ t \notin Range(ready[p]) => left[p] = ready[p]
  <2>1. ready[p] \in Seq(Threads) /\ IsInjective(ready[p])
    BY DEF Lists
  <2>2. left[p] = Without(t)[ready[p]]
    BY DEF Unlinked
  <2> HIDE DEF left
  <2>3. QED
    BY <2>1, <2>2, WithoutIs
<1>2. left \in [Prios -> Seq(Threads)]
  BY <1>1 DEF Unlinked
<1> HIDE DEF left
<1>3. ASSUME NEW p \in Prios, p # prio[t] \/ t \notin R
      PROVE  left[p] = ready[p]
  <2>1. t \notin Range(ready[p])
    BY <1>3 DEF Lists
  <2>2. QED  BY <1>1, <2>1
<1>4. \A p \in Prios : Range(left[p]) = {u \in R \ {t} : prio[u] = p}
  BY <1>1 DEF Lists
<1>5. t \notin R => left = ready
  BY <1>2, <1>3
<1>6. Lists(left, NotEmpty(left), prio, R \ {t})
  BY <1>1, <1>4 DEF Lists, NotEmpty
<1>7. QED
  BY <1>2, <1>3, <1>5, <1>6 DEF left

----------------------------------------------------------------------------
(* The kernel's functions on records that agree.                           *)

LEMMA KernelFields ==
  ASSUME NEW s \in Kernel
  PROVE  /\ s.cur \in Threads /\ s.ready \in [Prios -> Seq(Threads)]
         /\ s.group \in SUBSET Prios /\ s.stat \in [Threads -> Stats]
         /\ s.yield \in [Threads -> BOOLEAN]
         /\ s.prio \in [Threads -> Prios] /\ s.nest \in 0 .. MaxNest
BY DEF Kernel

LEMMA InsertIs ==
  ASSUME NEW s \in Kernel, NEW t \in Threads,
         NEW R \in SUBSET Threads, Lists(s.ready, s.group, s.prio, R),
         t \notin R
  PROVE  LET r == rt_schedule_insert_thread(s, t) IN
         /\ r \in Kernel
         /\ r.cur = s.cur /\ r.prio = s.prio /\ r.nest = s.nest
         /\ t = s.cur => /\ r.stat = [s.stat EXCEPT ![t] = "running"]
                         /\ Lists(r.ready, r.group, r.prio, R)
         /\ t # s.cur => /\ r.stat = [s.stat EXCEPT ![t] = "ready"]
                         /\ Lists(r.ready, r.group, r.prio, R \cup {t})
                         /\ r.group = s.group \cup {s.prio[t]}
<1> DEFINE r == rt_schedule_insert_thread(s, t)
<1>1. CASE t = s.cur
  <2>1. r = [s EXCEPT !.stat = [s.stat EXCEPT ![t] = "running"]]
    BY <1>1 DEF rt_schedule_insert_thread
  <2> HIDE DEF r
  <2>2. [s.stat EXCEPT ![t] = "running"] \in [Threads -> Stats]
    BY KernelFields DEF Stats
  <2>3. /\ r \in Kernel /\ r.cur = s.cur /\ r.prio = s.prio /\ r.nest = s.nest
        /\ r.stat = [s.stat EXCEPT ![t] = "running"]
        /\ r.ready = s.ready /\ r.group = s.group
    BY <2>1, <2>2 DEF Kernel
  <2>4. QED
    BY <1>1, <2>3 DEF r
<1>2. CASE t # s.cur
  <2> DEFINE added == [s.ready EXCEPT ![s.prio[t]] = Append(@, t)]
             stat == [s.stat EXCEPT ![t] = "ready"]
             bits == s.group \cup {s.prio[t]}
  <2>1. r = [s EXCEPT !.stat = stat, !.ready = added, !.group = bits]
    BY <1>2, KernelFields DEF rt_schedule_insert_thread, Kernel
  <2> HIDE DEF r
  <2>2. stat \in [Threads -> Stats] /\ bits \in SUBSET Prios
    BY KernelFields DEF Stats
  <2>3. added \in [Prios -> Seq(Threads)] /\ Lists(added, bits, s.prio, R \cup {t})
    BY KernelFields, ListsAppend
  <2> HIDE DEF added, stat, bits
  <2>4. /\ r \in Kernel /\ r.cur = s.cur /\ r.prio = s.prio /\ r.nest = s.nest
        /\ r.stat = stat /\ r.ready = added /\ r.group = bits
    BY <2>1, <2>2, <2>3 DEF Kernel
  <2>5. QED
    BY <1>2, <2>3, <2>4 DEF r, stat, bits
<1>3. QED  BY <1>1, <1>2

LEMMA RemoveIs ==
  ASSUME NEW s \in Kernel, NEW t \in Threads,
         NEW R \in SUBSET Threads, Lists(s.ready, s.group, s.prio, R)
  PROVE  LET r == rt_schedule_remove_thread(s, t) IN
         /\ r \in Kernel
         /\ r.cur = s.cur /\ r.prio = s.prio /\ r.nest = s.nest /\ r.stat = s.stat
         /\ Lists(r.ready, r.group, r.prio, R \ {t})
         /\ r.group \subseteq s.group
<1> DEFINE r == rt_schedule_remove_thread(s, t)
           rest == Without(t)[s.ready[s.prio[t]]]
           left == [s.ready EXCEPT ![s.prio[t]] = rest]
           bits == IF rest = <<>> THEN s.group \ {s.prio[t]} ELSE s.group
<1>1. r = [s EXCEPT !.ready = left, !.group = bits]
  BY KernelFields DEF rt_schedule_remove_thread, Kernel
<1>2. left \in [Prios -> Seq(Threads)] /\ Lists(left, bits, s.prio, R \ {t})
  BY KernelFields, ListsRemove
<1>3. bits \in SUBSET Prios /\ bits \subseteq s.group
  BY KernelFields
<1> HIDE DEF r, left, bits
<1>4. /\ r \in Kernel /\ r.cur = s.cur /\ r.prio = s.prio /\ r.nest = s.nest /\ r.stat = s.stat
      /\ r.ready = left /\ r.group = bits
  BY <1>1, <1>2, <1>3 DEF Kernel
<1>5. QED
  BY <1>2, <1>3, <1>4 DEF r

(* Waking a thread, whatever list it is in: rt_list_remove and the insert  *)
(* that _thread_timeout, rt_thread_resume and the interrupts share.        *)
LEMMA WakeIs ==
  ASSUME NEW s \in Kernel, Agrees(s), NEW t \in Threads
  PROVE  LET r == rt_schedule_insert_thread(Unlink(s, t), t) IN
         /\ r \in Kernel /\ Agrees(r)
         /\ r.cur = s.cur /\ r.nest = s.nest
         /\ \A u \in Threads \ {t} : r.stat[u] = s.stat[u]
<1> DEFINE u == Unlink(s, t)
           left == Unlinked(s.ready, t)
           r == rt_schedule_insert_thread(u, t)
<1>1. /\ s.cur \in Threads /\ s.ready \in [Prios -> Seq(Threads)] /\ s.prio \in [Threads -> Prios]
      /\ s.stat \in [Threads -> Stats] /\ s.group \in SUBSET Prios
  BY KernelFields
<1>2. Ready(s) \in SUBSET Threads /\ Lists(s.ready, s.group, s.prio, Ready(s))
  BY DEF Agrees, Ready
<1>3. /\ left \in [Prios -> Seq(Threads)]
      /\ Lists(left, NotEmpty(left), s.prio, Ready(s) \ {t})
      /\ \A p \in Prios : p # s.prio[t] => left[p] = s.ready[p]
      /\ t \notin Ready(s) => left = s.ready
  <2> DEFINE R == Ready(s)
             bits == s.group
             lists == s.ready
             prio == s.prio
  <2>1. /\ R \in SUBSET Threads /\ Lists(lists, bits, prio, R)
        /\ lists \in [Prios -> Seq(Threads)] /\ prio \in [Threads -> Prios]
    BY <1>1, <1>2
  <2> HIDE DEF R, bits, lists, prio
  <2> DEFINE off == Unlinked(lists, t)
  <2>2. /\ off \in [Prios -> Seq(Threads)]
        /\ Lists(off, NotEmpty(off), prio, R \ {t})
        /\ \A p \in Prios : p # prio[t] => off[p] = lists[p]
        /\ t \notin R => off = lists
    BY <2>1, ListsUnlink
  <2>3. QED
    BY <2>2 DEF R, bits, lists, prio
<1>4. u = [s EXCEPT !.ready = left]
  BY DEF Unlink, Unlinked
<1> HIDE DEF left, u
<1>5. /\ u \in Kernel /\ u.ready = left /\ u.cur = s.cur /\ u.group = s.group
      /\ u.stat = s.stat /\ u.prio = s.prio /\ u.nest = s.nest
  BY <1>3, <1>4 DEF Kernel
<1>6. CASE t = s.cur
  <2>1. t \notin Ready(s)
    BY <1>6 DEF Agrees, Ready
  <2>2. /\ r \in Kernel /\ r.cur = s.cur /\ r.prio = s.prio /\ r.nest = s.nest
        /\ r.stat = [s.stat EXCEPT ![t] = "running"]
        /\ Lists(r.ready, r.group, r.prio, Ready(s))
    <3>1. Lists(u.ready, u.group, u.prio, Ready(s)) /\ t = u.cur
      BY <1>2, <1>3, <1>5, <1>6, <2>1
    <3>2. /\ r \in Kernel /\ r.cur = u.cur /\ r.prio = u.prio /\ r.nest = u.nest
          /\ r.stat = [u.stat EXCEPT ![t] = "running"]
          /\ Lists(r.ready, r.group, r.prio, Ready(s))
      BY <1>2, <1>5, <2>1, <3>1, InsertIs, Zenon
    <3> HIDE DEF r
    <3>3. QED
      BY <1>5, <3>2
  <2> HIDE DEF r
  <2>3. Ready(r) = Ready(s)
    BY <1>1, <2>1, <2>2 DEF Ready
  <2>4. Agrees(r)
    BY <1>1, <1>6, <2>2, <2>3 DEF Agrees
  <2>5. QED
    BY <1>1, <2>2, <2>4 DEF r, u
<1>7. CASE t # s.cur
  <2> DEFINE v == [u EXCEPT !.group = NotEmpty(left)]
             w == rt_schedule_insert_thread(v, t)
  <2>1. /\ v \in Kernel /\ v.ready = left /\ v.cur = s.cur
        /\ v.group = NotEmpty(left)
        /\ v.stat = s.stat /\ v.prio = s.prio /\ v.nest = s.nest
    BY <1>3, <1>5 DEF Kernel, NotEmpty
  <2>2. /\ w \in Kernel /\ w.cur = s.cur /\ w.prio = s.prio /\ w.nest = s.nest
        /\ w.stat = [s.stat EXCEPT ![t] = "ready"]
        /\ Lists(w.ready, w.group, w.prio, (Ready(s) \ {t}) \cup {t})
        /\ w.group = v.group \cup {s.prio[t]}
    <3>1. Ready(s) \ {t} \in SUBSET Threads /\ t \notin Ready(s) \ {t}
      BY <1>2
    <3> HIDE DEF v
    <3>2. Lists(v.ready, v.group, v.prio, Ready(s) \ {t}) /\ t # v.cur
      BY <1>3, <1>7, <2>1
    <3>3. /\ w \in Kernel /\ w.cur = v.cur /\ w.prio = v.prio /\ w.nest = v.nest
          /\ w.stat = [v.stat EXCEPT ![t] = "ready"]
          /\ Lists(w.ready, w.group, w.prio, (Ready(s) \ {t}) \cup {t})
          /\ w.group = v.group \cup {v.prio[t]}
      BY <2>1, <3>1, <3>2, InsertIs, Zenon
    <3> HIDE DEF w
    <3>4. QED
      BY <2>1, <3>3
  <2>3. v.group \cup {s.prio[t]} = u.group \cup {s.prio[t]}
    <3>1. \A p \in Prios : p # s.prio[t] => (p \in s.group <=> left[p] # <<>>)
      BY <1>2, <1>3 DEF Lists, NotEmpty
    <3> HIDE DEF v
    <3>2. QED
      BY <1>1, <1>5, <2>1, <3>1 DEF NotEmpty
  <2>4. r = w
    BY <1>5, <1>7, <2>3 DEF rt_schedule_insert_thread, Kernel
  <2> HIDE DEF r, v, w
  <2>5. Ready(r) = (Ready(s) \ {t}) \cup {t}
    BY <1>1, <2>2, <2>4 DEF Ready
  <2>6. Agrees(r)
    BY <1>1, <1>7, <2>2, <2>4, <2>5 DEF Agrees
  <2>7. QED
    BY <1>1, <2>2, <2>4, <2>6 DEF r, u
<1>8. QED  BY <1>6, <1>7

(* The current thread stops running: rt_thread_suspend and _thread_exit.   *)
LEMMA LeaveIs ==
  ASSUME NEW s \in Kernel, Agrees(s), NEW x \in Stats, x # "ready"
  PROVE  LET r == [rt_schedule_remove_thread(s, s.cur) EXCEPT !.stat[s.cur] = x] IN
         /\ r \in Kernel /\ Agrees(r)
         /\ r.cur = s.cur /\ r.nest = s.nest
         /\ r.stat = [s.stat EXCEPT ![s.cur] = x]
<1> DEFINE u == rt_schedule_remove_thread(s, s.cur)
           r == [u EXCEPT !.stat[s.cur] = x]
<1>1. s.cur \in Threads /\ s.stat \in [Threads -> Stats]
  BY KernelFields
<1>2. /\ Ready(s) \in SUBSET Threads /\ Lists(s.ready, s.group, s.prio, Ready(s))
      /\ Ready(s) \ {s.cur} = Ready(s)
  BY DEF Agrees, Ready
<1>3. /\ u \in Kernel /\ u.cur = s.cur /\ u.prio = s.prio /\ u.nest = s.nest /\ u.stat = s.stat
      /\ Lists(u.ready, u.group, u.prio, Ready(s) \ {s.cur})
  BY <1>1, <1>2, RemoveIs, Zenon
<1> HIDE DEF u
<1>4. /\ r \in Kernel /\ r.cur = s.cur /\ r.prio = s.prio /\ r.nest = s.nest
      /\ r.stat = [s.stat EXCEPT ![s.cur] = x]
      /\ r.ready = u.ready /\ r.group = u.group
  BY <1>1, <1>3 DEF Kernel
<1> HIDE DEF r
<1>5. Ready(r) = Ready(s)
  BY <1>1, <1>2, <1>4 DEF Ready
<1>6. Agrees(r)
  BY <1>1, <1>2, <1>3, <1>4, <1>5 DEF Agrees
<1>7. QED
  BY <1>4, <1>6 DEF r, u

(* The rest of RT_THREAD_CTRL_CHANGE_PRIORITY, for a thread that is ready: *)
(* off its list, the new priority, and into the list of that.              *)
LEMMA RequeueIs ==
  ASSUME NEW s \in Kernel, Agrees(s), NEW t \in Threads, s.stat[t] = "ready", NEW p \in Prios
  PROVE  LET r == rt_schedule_insert_thread(
                    [rt_schedule_remove_thread(s, t) EXCEPT !.prio[t] = p], t)
         IN  r \in Kernel /\ Agrees(r) /\ r.cur = s.cur /\ r.stat = s.stat
<1> DEFINE u == rt_schedule_remove_thread(s, t)
           v == [u EXCEPT !.prio[t] = p]
           r == rt_schedule_insert_thread(v, t)
           R == Ready(s) \ {t}
<1>1. /\ s.cur \in Threads /\ s.stat \in [Threads -> Stats] /\ t # s.cur
      /\ R \in SUBSET Threads /\ t \notin R
  BY KernelFields DEF Agrees, Ready
<1>2. Ready(s) \in SUBSET Threads /\ Lists(s.ready, s.group, s.prio, Ready(s))
  BY DEF Agrees, Ready
<1>3. /\ u \in Kernel /\ u.cur = s.cur /\ u.prio = s.prio /\ u.nest = s.nest /\ u.stat = s.stat
      /\ Lists(u.ready, u.group, u.prio, R)
  BY <1>2, RemoveIs, Zenon
<1> HIDE DEF u, R
<1>4. u.prio \in [Threads -> Prios]
  BY <1>3, KernelFields
<1>5. Lists(u.ready, u.group, [u.prio EXCEPT ![t] = p], R)
  BY <1>1, <1>3, <1>4, ListsPrio
<1>6. /\ v \in Kernel /\ v.cur = s.cur /\ v.stat = s.stat
      /\ v.ready = u.ready /\ v.group = u.group /\ v.prio = [u.prio EXCEPT ![t] = p]
  BY <1>3, <1>4 DEF Kernel
<1> HIDE DEF v
<1>7. Lists(v.ready, v.group, v.prio, R) /\ t # v.cur
  BY <1>1, <1>5, <1>6
<1>8. /\ r \in Kernel /\ r.cur = v.cur
      /\ r.stat = [v.stat EXCEPT ![t] = "ready"]
      /\ Lists(r.ready, r.group, r.prio, R \cup {t})
  BY <1>1, <1>6, <1>7, InsertIs, Zenon
<1> HIDE DEF r
<1>9. r.stat = s.stat /\ Ready(r) = R \cup {t}
  BY <1>1, <1>6, <1>8 DEF Ready, R
<1>10. Agrees(r)
  BY <1>6, <1>8, <1>9 DEF Agrees
<1>11. QED
  BY <1>6, <1>8, <1>9, <1>10 DEF r, v, u

(* A thread that is in no list gets another state and another priority.    *)
LEMMA SetIs ==
  ASSUME NEW s \in Kernel, Agrees(s), NEW t \in Threads, s.stat[t] # "ready",
         NEW x \in Stats \ {"ready"}, x = "running" => t = s.cur, NEW p \in Prios,
         NEW r \in Kernel, r.ready = s.ready, r.group = s.group, r.cur = s.cur,
         r.stat = [s.stat EXCEPT ![t] = x], r.prio = [s.prio EXCEPT ![t] = p]
  PROVE  Agrees(r)
<1>1. s.stat \in [Threads -> Stats] /\ s.cur \in Threads /\ s.prio \in [Threads -> Prios]
  BY KernelFields
<1>2. Ready(r) = Ready(s) /\ t \notin Ready(s) /\ Ready(s) \in SUBSET Threads
  BY <1>1 DEF Ready
<1>3. Lists(s.ready, s.group, [s.prio EXCEPT ![t] = p], Ready(s))
  <2>1. Lists(s.ready, s.group, s.prio, Ready(s))
    BY DEF Agrees
  <2>2. QED
    BY <1>1, <1>2, <2>1, ListsPrio
<1>4. QED
  BY <1>1, <1>2, <1>3 DEF Agrees

(* rt_thread_startup: the thread is suspended and then resumed.            *)
LEMMA StartupIs ==
  ASSUME NEW s \in Kernel, Agrees(s), NEW t \in Threads, s.stat[t] = "init", t # s.cur
  PROVE  LET r == rt_schedule_insert_thread([s EXCEPT !.stat[t] = "suspend"], t) IN
         /\ r \in Kernel /\ Agrees(r)
         /\ r.cur = s.cur /\ r.nest = s.nest
         /\ r.stat = [s.stat EXCEPT ![t] = "ready"]
<1> DEFINE u == [s EXCEPT !.stat[t] = "suspend"]
           r == rt_schedule_insert_thread(u, t)
<1>1. /\ s.stat \in [Threads -> Stats] /\ s.cur \in Threads
      /\ t \notin Ready(s) /\ Ready(s) \in SUBSET Threads
      /\ Lists(s.ready, s.group, s.prio, Ready(s))
  BY KernelFields DEF Agrees, Ready
<1>2. /\ u \in Kernel /\ u.cur = s.cur /\ u.prio = s.prio /\ u.nest = s.nest
      /\ u.stat = [s.stat EXCEPT ![t] = "suspend"]
      /\ u.ready = s.ready /\ u.group = s.group
  BY <1>1 DEF Kernel, Stats
<1> HIDE DEF u
<1>3. Lists(u.ready, u.group, u.prio, Ready(s)) /\ t # u.cur
  BY <1>1, <1>2
<1>4. /\ r \in Kernel /\ r.cur = u.cur /\ r.nest = u.nest
      /\ r.stat = [u.stat EXCEPT ![t] = "ready"]
      /\ Lists(r.ready, r.group, r.prio, Ready(s) \cup {t})
  BY <1>1, <1>2, <1>3, InsertIs, Zenon
<1> HIDE DEF r
<1>5. r.stat = [s.stat EXCEPT ![t] = "ready"]
  BY <1>1, <1>2, <1>4
<1>6. Ready(r) = Ready(s) \cup {t}
  BY <1>1, <1>5 DEF Ready
<1>7. Agrees(r)
  BY <1>1, <1>2, <1>4, <1>5, <1>6 DEF Agrees
<1>8. QED
  BY <1>2, <1>4, <1>5, <1>7 DEF r, u

(* The first thread of the most urgent priority whose bit is set.          *)
LEMMA FirstIs ==
  ASSUME NEW ready \in [Prios -> Seq(Threads)], NEW group \in SUBSET Prios, NEW prio,
         NEW R \in SUBSET Threads, Lists(ready, group, prio, R), group # {}
  PROVE  /\ Min(group) \in Prios /\ \A p \in group : Min(group) =< p
         /\ Head(ready[Min(group)]) \in R
         /\ prio[Head(ready[Min(group)])] = Min(group)
<1> DEFINE m == Min(group)
<1>1. group \in SUBSET Nat
  BY SchedulerAssumption
<1>2. m \in group /\ \A p \in group : m =< p
  BY <1>1, MinIsLeast
<1> HIDE DEF m
<1>3. m \in Prios /\ ready[m] \in Seq(Threads) /\ ready[m] # <<>>
  BY <1>2 DEF Lists
<1>4. Head(ready[m]) \in Range(ready[m])
  <2>1. 1 \in DOMAIN ready[m] /\ Head(ready[m]) = ready[m][1]
    BY <1>3
  <2>2. QED  BY <2>1 DEF Range
<1>5. Head(ready[m]) \in R /\ prio[Head(ready[m])] = m
  BY <1>3, <1>4 DEF Lists
<1>6. QED
  BY <1>2, <1>3, <1>5 DEF m

(* The switch to a thread that is ready: the thread that ran goes back to  *)
(* its list, unless it has stopped running.                                *)
LEMMA SwitchIs ==
  ASSUME NEW s \in Kernel, Agrees(s), NEW to \in Ready(s)
  PROVE  LET r == SwitchTo(s, to) IN
         /\ r \in Kernel /\ Agrees(r)
         /\ r.cur = to /\ r.prio = s.prio /\ r.nest = s.nest /\ r.stat[to] = "running"
         /\ \A p \in r.group : p \in s.group \/ (s.stat[s.cur] = "running" /\ p = s.prio[s.cur])
         /\ \A t \in Threads : s.stat[t] \notin {"running", "ready"} => r.stat[t] = s.stat[t]
<1> DEFINE from == s.cur
           left == [s EXCEPT !.cur = to]
           back == IF s.stat[from] = "running" THEN rt_schedule_insert_thread(left, from) ELSE left
           off  == rt_schedule_remove_thread(back, to)
           r    == [off EXCEPT !.stat[to] = "running"]
           R    == IF s.stat[from] = "running" THEN Ready(s) \cup {from} ELSE Ready(s)
<1>1. /\ s.stat \in [Threads -> Stats] /\ from \in Threads /\ to \in Threads
      /\ from \notin Ready(s) /\ from # to /\ Ready(s) \in SUBSET Threads
      /\ s.stat[to] = "ready" /\ R \in SUBSET Threads
      /\ Lists(s.ready, s.group, s.prio, Ready(s))
  BY KernelFields DEF Agrees, Ready
<1>2. /\ left \in Kernel /\ left.cur = to /\ left.prio = s.prio /\ left.nest = s.nest
      /\ left.stat = s.stat /\ left.ready = s.ready /\ left.group = s.group
  BY <1>1 DEF Kernel
<1> HIDE DEF left
<1>3. /\ back \in Kernel /\ back.cur = to /\ back.prio = s.prio /\ back.nest = s.nest
      /\ Lists(back.ready, back.group, back.prio, R)
      /\ s.stat[from] = "running" => back.stat = [s.stat EXCEPT ![from] = "ready"]
      /\ s.stat[from] # "running" => back.stat = s.stat
      /\ \A p \in back.group : p \in s.group \/ (s.stat[from] = "running" /\ p = s.prio[from])
  <2>1. CASE s.stat[from] = "running"
    <3> DEFINE b == rt_schedule_insert_thread(left, from)
    <3>1. Lists(left.ready, left.group, left.prio, Ready(s)) /\ from # left.cur
      BY <1>1, <1>2
    <3>2. /\ b \in Kernel /\ b.cur = left.cur /\ b.prio = left.prio /\ b.nest = left.nest
          /\ b.stat = [left.stat EXCEPT ![from] = "ready"]
          /\ Lists(b.ready, b.group, b.prio, Ready(s) \cup {from})
          /\ b.group = left.group \cup {left.prio[from]}
      <4>1. from \in Threads /\ from \notin Ready(s) /\ Ready(s) \in SUBSET Threads
        BY <1>1
      <4> HIDE DEF from
      <4>2. QED
        BY <4>1, <1>2, <3>1, InsertIs, Zenon
    <3> HIDE DEF b
    <3>3. back = b /\ R = Ready(s) \cup {from}
      BY <2>1 DEF b
    <3> HIDE DEF back, R
    <3>4. /\ back \in Kernel /\ back.cur = to /\ back.prio = s.prio /\ back.nest = s.nest
          /\ Lists(back.ready, back.group, back.prio, R)
      BY <1>2, <3>2, <3>3
    <3>5. back.stat = [s.stat EXCEPT ![from] = "ready"]
      BY <1>2, <3>2, <3>3
    <3>6. \A p \in back.group : p \in s.group \/ p = s.prio[from]
      BY <1>2, <3>2, <3>3
    <3>7. QED
      BY <2>1, <3>4, <3>5, <3>6
  <2>2. CASE s.stat[from] # "running"
    <3>1. back = left /\ R = Ready(s)
      BY <2>2
    <3> HIDE DEF back, R
    <3>2. /\ back \in Kernel /\ back.cur = to /\ back.prio = s.prio /\ back.nest = s.nest
          /\ Lists(back.ready, back.group, back.prio, R)
      BY <1>1, <1>2, <3>1
    <3>3. back.stat = s.stat /\ back.group = s.group
      BY <1>2, <3>1
    <3>4. QED
      BY <2>2, <3>2, <3>3
  <2>3. QED  BY <2>1, <2>2
<1> HIDE DEF back
<1>4. /\ off \in Kernel /\ off.cur = back.cur /\ off.prio = back.prio /\ off.nest = back.nest
      /\ off.stat = back.stat
      /\ Lists(off.ready, off.group, off.prio, R \ {to})
      /\ off.group \subseteq back.group
  <2>1. to \in Threads /\ R \in SUBSET Threads
    BY <1>1
  <2> HIDE DEF R
  <2>2. QED
    BY <2>1, <1>3, RemoveIs, Zenon
<1> HIDE DEF off
<1>5. /\ r \in Kernel /\ r.cur = to /\ r.prio = s.prio /\ r.nest = s.nest
      /\ r.stat = [back.stat EXCEPT ![to] = "running"]
      /\ r.ready = off.ready /\ r.group = off.group
  BY <1>1, <1>3, <1>4 DEF Kernel, Stats
<1>6. r = SwitchTo(s, to)
  BY DEF SwitchTo, off, back, left
<1> HIDE DEF r
<1>7. \A t \in Threads : r.stat[t] = IF t = to THEN "running"
                                      ELSE IF t = from /\ s.stat[from] = "running" THEN "ready"
                                      ELSE s.stat[t]
  BY <1>1, <1>3, <1>5
<1>8. Ready(r) = R \ {to}
  BY <1>1, <1>7 DEF Ready
<1>9. Agrees(r)
  <2>1. Lists(r.ready, r.group, r.prio, Ready(r))
    BY <1>3, <1>4, <1>5, <1>8
  <2>2. \A t \in Threads : r.stat[t] = "running" => t = to
    BY <1>1, <1>7 DEF Agrees
  <2>3. r.stat[to] = "running"
    BY <1>1, <1>7
  <2>4. QED
    BY <1>5, <2>1, <2>2, <2>3 DEF Agrees
<1>10. \A t \in Threads : s.stat[t] \notin {"running", "ready"} => r.stat[t] = s.stat[t]
  BY <1>1, <1>7
<1>11. \A p \in r.group : p \in s.group \/ (s.stat[s.cur] = "running" /\ p = s.prio[s.cur])
  BY <1>3, <1>4, <1>5
<1>12. QED
  BY <1>1, <1>5, <1>6, <1>7, <1>9, <1>10, <1>11

(* rt_schedule keeps the books, leaves alone the threads that neither run  *)
(* nor are ready, and puts the most urgent thread in front.                *)
LEMMA ScheduleIs ==
  ASSUME NEW s \in Kernel, Agrees(s)
  PROVE  LET r == rt_schedule(s) IN
         /\ r \in Kernel /\ Agrees(r) /\ ~OutrankedIn(r)
         /\ \A t \in Threads : s.stat[t] \notin {"running", "ready"} => r.stat[t] = s.stat[t]
<1> DEFINE u == [s EXCEPT !.yield[s.cur] = @ /\ s.stat[s.cur] # "running"]
           r == rt_schedule(s)
<1>1. CASE s.nest # 0 \/ s.group = {}
  <2>1. r = s
    BY <1>1 DEF rt_schedule
  <2>2. QED
    BY <1>1, <2>1 DEF OutrankedIn
<1>2. CASE ~(s.nest # 0 \/ s.group = {})
  <2>1. /\ s.stat \in [Threads -> Stats] /\ s.cur \in Threads /\ s.prio \in [Threads -> Prios]
        /\ s.ready \in [Prios -> Seq(Threads)] /\ s.group \in SUBSET Prios
        /\ s.yield \in [Threads -> BOOLEAN]
    BY KernelFields
  <2>2. /\ Ready(s) \in SUBSET Threads /\ Lists(s.ready, s.group, s.prio, Ready(s))
        /\ s.cur \notin Ready(s)
    BY DEF Agrees, Ready
  <2>3. /\ u \in Kernel /\ u.cur = s.cur /\ u.prio = s.prio /\ u.nest = s.nest
        /\ u.stat = s.stat /\ u.ready = s.ready /\ u.group = s.group
    BY <2>1 DEF Kernel
  <2>4. r = IF Keeps(s) THEN rt_schedule_remove_thread(u, u.cur)
            ELSE SwitchTo(u, Head(s.ready[Min(s.group)]))
    BY <1>2 DEF rt_schedule
  <2> HIDE DEF u, r
  <2>5. Agrees(u) /\ Ready(u) = Ready(s)
    BY <2>3 DEF Agrees, Ready
  <2> DEFINE m == Min(s.group)
             to == Head(s.ready[m])
  <2>6. m \in Prios /\ (\A p \in s.group : m =< p) /\ to \in Ready(s) /\ s.prio[to] = m
    <3> DEFINE R == Ready(s)
               bits == s.group
               lists == s.ready
               prio == s.prio
    <3>1. /\ R \in SUBSET Threads /\ Lists(lists, bits, prio, R) /\ bits # {}
          /\ lists \in [Prios -> Seq(Threads)] /\ bits \in SUBSET Prios
      BY <1>2, <2>1, <2>2
    <3> HIDE DEF R, bits, lists, prio
    <3>2. /\ Min(bits) \in Prios /\ \A p \in bits : Min(bits) =< p
          /\ Head(lists[Min(bits)]) \in R
          /\ prio[Head(lists[Min(bits)])] = Min(bits)
      BY <3>1, FirstIs
    <3>3. QED
      BY <3>2 DEF R, bits, lists, prio
  <2>7. m \in Nat /\ s.group \subseteq Nat /\ s.prio[s.cur] \in Nat
    BY <2>1, <2>6, SchedulerAssumption
  <2> HIDE DEF m
  <2>8. CASE Keeps(s)
    <3>1. r = rt_schedule_remove_thread(u, u.cur)
      BY <2>4, <2>8
    <3>2. u.cur \in Threads /\ Lists(u.ready, u.group, u.prio, Ready(s))
      BY <2>1, <2>2, <2>3
    <3>3. /\ r \in Kernel /\ r.cur = u.cur /\ r.prio = u.prio /\ r.nest = u.nest /\ r.stat = u.stat
          /\ Lists(r.ready, r.group, r.prio, Ready(s) \ {u.cur})
          /\ r.group \subseteq u.group
      BY <2>2, <2>3, <3>1, <3>2, RemoveIs, Zenon
    <3>4. Ready(r) = Ready(s) \ {u.cur}
      BY <2>2, <2>3, <3>3 DEF Ready
    <3>5. Agrees(r)
      BY <2>3, <2>5, <3>3, <3>4 DEF Agrees
    <3>6. s.prio[s.cur] =< m
      BY <2>7, <2>8 DEF Keeps, m
    <3>7. ~OutrankedIn(r)
      BY <2>3, <2>6, <2>7, <3>3, <3>6 DEF OutrankedIn
    <3>8. QED
      BY <2>3, <3>3, <3>5, <3>7 DEF r
  <2>9. CASE ~Keeps(s)
    <3>1. r = SwitchTo(u, to)
      BY <2>4, <2>9 DEF m
    <3>2. to \in Ready(u)
      BY <2>5, <2>6
    <3> HIDE DEF to
    <3>3. /\ r \in Kernel /\ Agrees(r)
          /\ r.cur = to /\ r.prio = u.prio /\ r.nest = u.nest /\ r.stat[to] = "running"
          /\ \A p \in r.group : p \in u.group \/ (u.stat[u.cur] = "running" /\ p = u.prio[u.cur])
          /\ \A t \in Threads : u.stat[t] \notin {"running", "ready"} => r.stat[t] = u.stat[t]
      BY <2>3, <2>5, <3>1, <3>2, SwitchIs, Zenon
    <3>4. s.stat[s.cur] = "running" => m =< s.prio[s.cur]
      BY <2>7, <2>9 DEF Keeps, m
    <3>5. \A p \in r.group : m =< p
      BY <2>3, <2>6, <3>3, <3>4
    <3>6. ~OutrankedIn(r)
      <4>1. r.prio[r.cur] = m
        BY <2>3, <2>6, <3>3
      <4>2. \A p \in r.group : p \in Nat
        BY <2>3, <2>7, <3>3
      <4>3. QED
        BY <2>7, <3>5, <4>1, <4>2 DEF OutrankedIn
    <3>7. QED
      BY <2>3, <3>3, <3>6 DEF r
  <2>10. QED  BY <2>8, <2>9
<1>3. QED  BY <1>1, <1>2

(* The bit that ends a turn is no part of the books.                       *)
LEMMA YieldIs ==
  ASSUME NEW s \in Kernel, Agrees(s)
  PROVE  LET r == [s EXCEPT !.yield[s.cur] = TRUE] IN
         r \in Kernel /\ Agrees(r) /\ r.stat = s.stat
<1> DEFINE r == [s EXCEPT !.yield[s.cur] = TRUE]
<1>1. /\ r \in Kernel /\ r.cur = s.cur /\ r.stat = s.stat /\ r.prio = s.prio
      /\ r.ready = s.ready /\ r.group = s.group
  BY DEF Kernel
<1> HIDE DEF r
<1>2. Agrees(r)
  BY <1>1 DEF Agrees, Ready
<1>3. QED
  BY <1>1, <1>2 DEF r

----------------------------------------------------------------------------
(* The invariant.                                                          *)

(* rt_system_scheduler_start runs the most urgent thread.                  *)
LEMMA StartIs ==
  Init => k \in Kernel /\ Agrees(k) /\ ~OutrankedIn(k) /\ \A t \in Threads : k.stat[t] # "close"
<1> SUFFICES ASSUME Init
             PROVE  k \in Kernel /\ Agrees(k) /\ ~OutrankedIn(k)
                    /\ \A t \in Threads : k.stat[t] # "close"
  OBVIOUS
<1> DEFINE bits == NotEmpty(Order)
           m == Min(bits)
           to == Head(Order[m])
           u == [Started EXCEPT !.cur = to]
           v == rt_schedule_remove_thread(u, to)
<1>1. /\ Order \in [Prios -> Seq(Threads)] /\ Prio \in [Threads -> Prios] /\ Idle \in Threads
      /\ Prios \subseteq Nat /\ bits \in SUBSET Prios /\ MaxNest \in Nat
  BY SchedulerAssumption DEF NotEmpty
<1>2. Lists(Order, bits, Prio, Threads)
  BY SchedulerAssumption DEF Lists, NotEmpty
<1>3. bits # {}
  <2>1. Idle \in Range(Order[Prio[Idle]])
    BY <1>1, <1>2 DEF Lists
  <2>2. Order[Prio[Idle]] # <<>>
    BY <1>1, <2>1, EmptyRange
  <2>3. QED
    BY <1>1, <2>2 DEF NotEmpty
<1>4. m \in Prios /\ (\A p \in bits : m =< p) /\ to \in Threads /\ Prio[to] = m
  <2> HIDE DEF bits
  <2>1. QED
    BY <1>1, <1>2, <1>3, FirstIs
<1>5. k = [v EXCEPT !.stat[to] = "running"]
  BY DEF Init, rt_system_scheduler_start, Started, NotEmpty
<1> HIDE DEF to, m
<1>6. /\ u \in Kernel /\ u.cur = to /\ u.ready = Order /\ u.group = bits
      /\ u.stat = [t \in Threads |-> "ready"] /\ u.prio = Prio /\ u.nest = 0
  <2> DEFINE stat == [t \in Threads |-> "ready"]
             yield == [t \in Threads |-> FALSE]
  <2>1. stat \in [Threads -> Stats] /\ yield \in [Threads -> BOOLEAN] /\ 0 \in 0 .. MaxNest
    BY <1>1 DEF Stats
  <2>2. Started = [cur |-> None, ready |-> Order, group |-> bits, stat |-> stat,
                   yield |-> yield, prio |-> Prio, nest |-> 0]
    BY DEF Started, NotEmpty
  <2> HIDE DEF stat, yield, bits
  <2>3. u = [cur |-> to, ready |-> Order, group |-> bits, stat |-> stat,
             yield |-> yield, prio |-> Prio, nest |-> 0]
    BY <2>2
  <2> HIDE DEF u
  <2>4. u \in Kernel
    BY <1>1, <1>4, <2>1, <2>3 DEF Kernel
  <2>5. QED
    BY <2>3, <2>4 DEF stat
<1> HIDE DEF u, bits
<1>7. /\ v \in Kernel /\ v.cur = u.cur /\ v.prio = u.prio /\ v.stat = u.stat
      /\ Lists(v.ready, v.group, v.prio, Threads \ {to})
      /\ v.group \subseteq u.group
  <2>1. Lists(u.ready, u.group, u.prio, Threads) /\ Threads \in SUBSET Threads
    BY <1>2, <1>6
  <2>2. QED
    BY <1>4, <1>6, <2>1, RemoveIs, Zenon
<1> HIDE DEF v
<1>8. /\ k \in Kernel /\ k.cur = to /\ k.prio = Prio /\ k.ready = v.ready /\ k.group = v.group
      /\ k.stat = [[t \in Threads |-> "ready"] EXCEPT ![to] = "running"]
  BY <1>4, <1>5, <1>6, <1>7 DEF Kernel, Stats
<1>9. \A t \in Threads : k.stat[t] = IF t = to THEN "running" ELSE "ready"
  BY <1>4, <1>8
<1>10. Ready(k) = Threads \ {to}
  BY <1>9 DEF Ready
<1>11. Agrees(k)
  <2>1. Lists(k.ready, k.group, k.prio, Ready(k))
    BY <1>6, <1>7, <1>8, <1>10
  <2>2. QED
    BY <1>4, <1>8, <1>9, <2>1 DEF Agrees
<1>12. ~OutrankedIn(k)
  <2>1. k.prio[k.cur] = m /\ m \in Nat
    BY <1>1, <1>4, <1>8
  <2>2. \A p \in k.group : p \in Nat /\ m =< p
    BY <1>1, <1>4, <1>6, <1>7, <1>8
  <2>3. QED
    BY <2>1, <2>2 DEF OutrankedIn
<1>13. QED
  BY <1>8, <1>9, <1>11, <1>12

(* With the books in order, a bit below the priority of the running thread *)
(* is what a thread that outranks it shows by.                             *)
LEMMA NoneOutranks ==
  ASSUME NEW s \in Kernel, Agrees(s), ~OutrankedIn(s),
         s.stat[s.cur] = "running", s.nest = 0
  PROVE  \A t \in Threads : ~(s.stat[t] = "ready" /\ s.prio[t] < s.prio[s.cur])
<1> SUFFICES ASSUME NEW t \in Threads, s.stat[t] = "ready"
             PROVE  ~(s.prio[t] < s.prio[s.cur])
  OBVIOUS
<1>1. s.prio[t] \in Prios /\ s.ready \in [Prios -> Seq(Threads)]
  BY KernelFields
<1>2. t \in Range(s.ready[s.prio[t]])
  BY <1>1 DEF Agrees, Lists, Ready
<1>3. s.ready[s.prio[t]] # <<>>
  BY <1>2 DEF Range
<1>4. s.prio[t] \in s.group
  BY <1>1, <1>3 DEF Agrees, Lists
<1>5. QED
  BY <1>4 DEF OutrankedIn

LEMMA InitIInv == Init => IInv
<1> SUFFICES ASSUME Init PROVE IInv
  OBVIOUS
<1>1. /\ k \in Kernel /\ Agrees(k) /\ ~OutrankedIn(k)
  BY StartIs
<1>2. TypeOK
  <2>1. remaining \in [Threads -> 1 .. Slice]
    BY SchedulerAssumption DEF Init
  <2>2. /\ wait \in [Threads -> Nat \cup {Off}]
        /\ pc \in [Threads -> {"code", "schedule", "resume"}]
        /\ target \in [Threads -> Threads \cup {None}]
        /\ defunct \subseteq Threads
    BY DEF Init
  <2>3. isr \in BOOLEAN /\ moved \subseteq Threads
    BY DEF Init
  <2>4. QED
    BY <1>1, <2>1, <2>2, <2>3 DEF TypeOK
<1>3. HighestRuns
  BY <1>1, NoneOutranks, Zenon DEF HighestRuns, Outranks
<1>4. TimerMeansSuspended /\ DefunctClosed /\ TargetKnown /\ NoneDue
  BY SchedulerAssumption DEF Init, TimerMeansSuspended, DefunctClosed, TargetKnown, NoneDue
<1>5. QED
  BY <1>1, <1>2, <1>3, <1>4 DEF IInv

(* What an action finds.                                                   *)
LEMMA Facts ==
  ASSUME IInv
  PROVE  /\ k \in Kernel /\ Agrees(k) /\ Me \in Threads /\ k.cur = Me
         /\ k.stat \in [Threads -> Stats] /\ k.prio \in [Threads -> Prios]
         /\ remaining \in [Threads -> 1 .. Slice]
         /\ wait \in [Threads -> Nat \cup {Off}]
         /\ pc \in [Threads -> {"code", "schedule", "resume"}]
         /\ target \in [Threads -> Threads \cup {None}]
         /\ defunct \subseteq Threads
<1>1. k \in Kernel /\ Agrees(k)
  BY DEF IInv, TypeOK
<1>2. QED
  BY <1>1, KernelFields DEF IInv, TypeOK, Me

(* An action that ends in rt_schedule leaves the most urgent thread        *)
(* running.                                                                *)
LEMMA EndsInSchedule ==
  ASSUME NEW s \in Kernel, Agrees(s), k' = rt_schedule(s)
  PROVE  /\ k' \in Kernel /\ Agrees(k') /\ HighestRuns'
         /\ \A t \in Threads : s.stat[t] \notin {"running", "ready"} => k'.stat[t] = s.stat[t]
<1>1. /\ k' \in Kernel /\ Agrees(k') /\ ~OutrankedIn(k')
      /\ \A t \in Threads : s.stat[t] \notin {"running", "ready"} => k'.stat[t] = s.stat[t]
  BY ScheduleIs, Zenon
<1>2. HighestRuns'
  <2> DEFINE r == k'
  <2>1. r \in Kernel /\ Agrees(r) /\ ~OutrankedIn(r)
    BY <1>1
  <2> HIDE DEF r
  <2>2. r.stat[r.cur] = "running" /\ r.nest = 0 =>
          \A t \in Threads : ~(r.stat[t] = "ready" /\ r.prio[t] < r.prio[r.cur])
    BY <2>1, NoneOutranks, Zenon
  <2>3. QED
    BY <2>2 DEF r, HighestRuns, Outranks
<1>3. QED
  BY <1>1, <1>2

(* A device's interrupt, and a timer that is due, wake a thread.           *)
LEMMA WakeStep ==
  ASSUME IInv, NEW t \in Threads,
         k' = rt_schedule(rt_schedule_insert_thread(Unlink(k, t), t)),
         t \notin defunct, wait' = [wait EXCEPT ![t] = Off],
         Scheduled, UNCHANGED <<remaining, pc, target, defunct, isr>>
  PROVE  IInv'
<1> DEFINE s == rt_schedule_insert_thread(Unlink(k, t), t)
<1>1. s \in Kernel /\ Agrees(s) /\ \A u \in Threads \ {t} : s.stat[u] = k.stat[u]
  BY Facts, WakeIs, Zenon
<1>2. k' = rt_schedule(s)
  OBVIOUS
<1> HIDE DEF s
<1>3. /\ k' \in Kernel /\ Agrees(k') /\ HighestRuns'
      /\ \A u \in Threads : s.stat[u] \notin {"running", "ready"} => k'.stat[u] = s.stat[u]
  BY <1>1, <1>2, EndsInSchedule, Zenon
<1>4. TypeOK'
  <2>1. wait' \in [Threads -> Nat \cup {Off}]
    BY Facts
  <2>2. moved' \subseteq Threads
    BY DEF Scheduled, IInv, TypeOK
  <2>3. QED
    BY <1>3, <2>1, <2>2 DEF IInv, TypeOK
<1>5. \A u \in Threads \ {t} : k.stat[u] \in {"suspend", "close"} => k'.stat[u] = k.stat[u]
  BY <1>1, <1>3
<1>6. TimerMeansSuspended'
  BY <1>5, Facts DEF IInv, TimerMeansSuspended
<1>7. DefunctClosed'
  BY <1>5, Facts DEF IInv, DefunctClosed
<1>8. TargetKnown'
  BY DEF IInv, TargetKnown
<1>9. NoneDue'
  BY Facts, SchedulerAssumption DEF IInv, NoneDue
<1>10. QED
  BY <1>3, <1>4, <1>6, <1>7, <1>8, <1>9 DEF IInv

(* Calls of rt_schedule by the running thread, and by the tick at the end  *)
(* of its slice.                                                           *)
LEMMA ScheduleStep ==
  ASSUME IInv, NEW s \in Kernel, Agrees(s), s.stat = k.stat, k' = rt_schedule(s),
         Scheduled, UNCHANGED <<wait, target, defunct>>,
         remaining' \in [Threads -> 1 .. Slice], isr' = isr,
         pc' \in [Threads -> {"code", "schedule", "resume"}],
         \A t \in Threads : pc'[t] = "resume" => pc[t] = "resume"
  PROVE  IInv'
<1>1. /\ k' \in Kernel /\ Agrees(k') /\ HighestRuns'
      /\ \A t \in Threads : s.stat[t] \notin {"running", "ready"} => k'.stat[t] = s.stat[t]
  BY EndsInSchedule, Zenon
<1>2. \A t \in Threads : k.stat[t] \in {"suspend", "close"} => k'.stat[t] = k.stat[t]
  BY <1>1
<1>3. TypeOK'
  <2>1. moved' \subseteq Threads
    BY DEF Scheduled, IInv, TypeOK
  <2>2. QED
    BY <1>1, <2>1 DEF IInv, TypeOK
<1>4. TimerMeansSuspended' /\ DefunctClosed'
  BY <1>2, Facts DEF IInv, TimerMeansSuspended, DefunctClosed
<1>5. TargetKnown' /\ NoneDue'
  BY DEF IInv, TargetKnown, NoneDue
<1>6. QED
  BY <1>1, <1>3, <1>4, <1>5 DEF IInv

(* The current thread stops running, to wait or for good.                  *)
LEMMA LeaveStep ==
  ASSUME IInv, NEW x \in {"suspend", "close"}, ~isr, Code,
         k' = [rt_schedule_remove_thread(k, Me) EXCEPT !.stat[Me] = x],
         NEW w \in (Nat \ {0}) \cup {Off}, wait' = [wait EXCEPT ![Me] = w],
         x = "close" => w = Off,
         defunct' = IF x = "close" THEN defunct \cup {Me} ELSE defunct,
         pc' = [pc EXCEPT ![Me] = "schedule"],
         UNCHANGED <<remaining, target, isr, moved>>
  PROVE  IInv'
<1>1. k.cur = Me /\ Me \in Threads /\ k.stat \in [Threads -> Stats] /\ k \in Kernel /\ Agrees(k)
  BY Facts
<1>2. x \in Stats /\ x # "ready" /\ x # "running"
  BY DEF Stats
<1>3. k' = [rt_schedule_remove_thread(k, k.cur) EXCEPT !.stat[k.cur] = x]
  BY <1>1
<1>4. /\ k' \in Kernel /\ Agrees(k') /\ k'.cur = k.cur /\ k'.nest = k.nest
      /\ k'.stat = [k.stat EXCEPT ![k.cur] = x]
  <2> DEFINE r == [rt_schedule_remove_thread(k, k.cur) EXCEPT !.stat[k.cur] = x]
  <2>1. /\ r \in Kernel /\ Agrees(r) /\ r.cur = k.cur /\ r.nest = k.nest
        /\ r.stat = [k.stat EXCEPT ![k.cur] = x]
    BY <1>1, <1>2, LeaveIs, Zenon
  <2>2. k' = r
    BY <1>3
  <2> HIDE DEF r
  <2>3. QED
    BY <2>1, <2>2
<1>5. HighestRuns'
  BY <1>1, <1>2, <1>4 DEF HighestRuns
<1>6. TypeOK'
  <2>1. /\ wait' \in [Threads -> Nat \cup {Off}]
        /\ pc' \in [Threads -> {"code", "schedule", "resume"}]
        /\ defunct' \subseteq Threads
    BY <1>1, Facts
  <2>2. QED
    BY <1>4, <2>1 DEF IInv, TypeOK
<1>7. TimerMeansSuspended'
  BY <1>1, <1>4, Facts DEF IInv, TimerMeansSuspended
<1>8. DefunctClosed'
  <2>1. k.stat[Me] = "running"
    BY DEF Code
  <2>2. Me \notin defunct
    BY <2>1 DEF IInv, DefunctClosed
  <2>3. QED
    <3>1. \A t \in defunct : t \in Threads /\ k.stat[t] = "close" /\ t # Me
      BY <2>2, Facts DEF IInv, DefunctClosed
    <3>2. \A t \in defunct : k'.stat[t] = "close"
      BY <1>1, <1>4, <3>1
    <3>3. x = "close" => k'.stat[Me] = "close"
      BY <1>1, <1>4
    <3>4. QED
      BY <3>2, <3>3 DEF DefunctClosed
<1>9. TargetKnown'
  BY <1>1, Facts DEF IInv, TargetKnown
<1>10. NoneDue'
  BY <1>1, Facts, SchedulerAssumption DEF IInv, NoneDue
<1>11. QED
  BY <1>4, <1>5, <1>6, <1>7, <1>8, <1>9, <1>10 DEF IInv

(* The running thread makes another ready.                                 *)
LEMMA ReadyStep ==
  ASSUME IInv, NEW t \in Threads, ~isr, k' \in Kernel, Agrees(k'), k'.cur = k.cur,
         \A u \in Threads \ {t} : k'.stat[u] = k.stat[u],
         wait' \in [Threads -> Nat \cup {Off}], wait'[t] = Off,
         \A u \in Threads \ {t} : wait'[u] = wait[u],
         defunct' \subseteq defunct \ {t},
         NEW x \in {"code", "schedule"}, pc' = [pc EXCEPT ![Me] = x],
         target' \in [Threads -> Threads \cup {None}],
         \A u \in Threads \ {Me} : target'[u] = target[u],
         moved' \subseteq Threads, HighestRuns', UNCHANGED <<remaining, isr>>
  PROVE  IInv'
<1>2. TypeOK'
  <2>1. pc' \in [Threads -> {"code", "schedule", "resume"}] /\ defunct' \subseteq Threads
    BY Facts
  <2>2. QED
    BY <2>1 DEF IInv, TypeOK
<1>3. TimerMeansSuspended' /\ DefunctClosed'
  BY Facts DEF IInv, TimerMeansSuspended, DefunctClosed
<1>4. TargetKnown'
  BY Facts DEF IInv, TargetKnown
<1>5. NoneDue'
  BY SchedulerAssumption DEF IInv, NoneDue
<1>6. QED
  BY <1>2, <1>3, <1>4, <1>5 DEF IInv

(* A thread resumes another, and rt_schedule is not called.                *)
LEMMA ResumeStep ==
  ASSUME IInv, NEW t \in Threads, ~isr, Resumed(t),
         k.stat[Me] = "running", pc[Me] # "schedule",
         defunct' \subseteq defunct \ {t},
         pc' = [pc EXCEPT ![Me] = "code"],
         target' \in [Threads -> Threads \cup {None}],
         \A u \in Threads \ {Me} : target'[u] = target[u],
         moved' = moved \cup {t}, UNCHANGED <<remaining, isr>>
  PROVE  IInv'
<1>1. k' = rt_schedule_insert_thread(Unlink(k, t), t) /\ wait' = [wait EXCEPT ![t] = Off]
  BY DEF Resumed
<1>2. /\ k' \in Kernel /\ Agrees(k') /\ k'.cur = k.cur
      /\ \A u \in Threads \ {t} : k'.stat[u] = k.stat[u]
  BY <1>1, Facts, WakeIs, Zenon
<1>3. /\ wait' \in [Threads -> Nat \cup {Off}] /\ wait'[t] = Off
      /\ \A u \in Threads \ {t} : wait'[u] = wait[u]
  BY <1>1, Facts
<1>4. k'.nest = k.nest /\ k'.prio = k.prio
  BY <1>1, Facts DEF Kernel, rt_schedule_insert_thread, Unlink
<1>5. HighestRuns'
  <2>1. SUFFICES ASSUME k.nest = 0, NEW u \in Threads, Outranks(u)'
                 PROVE  u \in moved' \/ k.cur \in moved'
    BY <1>2, <1>4 DEF HighestRuns
  <2>2. CASE u = t
    BY <2>2
  <2>3. CASE u # t
    <3>1. Outranks(u)
      BY <1>2, <1>4, <2>1, <2>3 DEF Outranks
    <3>2. u \in moved \/ k.cur \in moved
      BY <2>1, <3>1, Facts DEF IInv, HighestRuns
    <3>3. QED  BY <3>2
  <2>4. QED  BY <2>2, <2>3
<1>6. moved' \subseteq Threads
  BY DEF IInv, TypeOK
<1>7. QED
  BY <1>2, <1>3, <1>5, <1>6, ReadyStep

(* The actions, one by one.                                                *)
LEMMA StepThread ==
  ASSUME IInv, \/ rt_thread_yield \/ rt_thread_suspend \/ _thread_exit
               \/ \E n \in Sleeps : rt_thread_sleep(n)
  PROVE  IInv'
<1>1. CASE rt_thread_yield
  <2> DEFINE s == [k EXCEPT !.yield[k.cur] = TRUE]
  <2>1. s \in Kernel /\ Agrees(s) /\ s.stat = k.stat
    BY Facts, YieldIs, Zenon
  <2>2. k' = rt_schedule(s)
    BY <1>1 DEF rt_thread_yield, Me
  <2> HIDE DEF s
  <2>3. Scheduled /\ UNCHANGED <<wait, pc, target, defunct, isr>>
    BY <1>1 DEF rt_thread_yield
  <2>4. remaining' \in [Threads -> 1 .. Slice]
    BY <1>1, Facts, SchedulerAssumption DEF rt_thread_yield
  <2>5. QED
    BY <2>1, <2>2, <2>3, <2>4, Facts, ScheduleStep
<1>2. CASE rt_thread_suspend
  <2>1. /\ Code /\ ~isr /\ wait' = [wait EXCEPT ![Me] = Off]
        /\ k' = [rt_schedule_remove_thread(k, Me) EXCEPT !.stat[Me] = "suspend"]
        /\ pc' = [pc EXCEPT ![Me] = "schedule"]
        /\ UNCHANGED <<remaining, target, defunct, isr, moved>>
    BY <1>2 DEF rt_thread_suspend, Suspended, Code, Me
  <2>2. QED
    BY <2>1, LeaveStep
<1>3. CASE _thread_exit
  <2>1. /\ Code /\ ~isr /\ wait' = [wait EXCEPT ![Me] = Off]
        /\ k' = [rt_schedule_remove_thread(k, Me) EXCEPT !.stat[Me] = "close"]
        /\ pc' = [pc EXCEPT ![Me] = "schedule"] /\ defunct' = defunct \cup {Me}
        /\ UNCHANGED <<remaining, target, isr, moved>>
    BY <1>3 DEF _thread_exit, Code
  <2>2. QED
    BY <2>1, LeaveStep
<1>4. ASSUME NEW n \in Sleeps, rt_thread_sleep(n)  PROVE IInv'
  <2>1. /\ Code /\ ~isr /\ wait' = [wait EXCEPT ![Me] = n]
        /\ k' = [rt_schedule_remove_thread(k, Me) EXCEPT !.stat[Me] = "suspend"]
        /\ pc' = [pc EXCEPT ![Me] = "schedule"]
        /\ UNCHANGED <<remaining, target, defunct, isr, moved>>
    BY <1>4 DEF rt_thread_sleep, Suspended, Code, Me
  <2>2. n \in Nat \ {0}
    BY SchedulerAssumption
  <2>3. QED
    BY <2>1, <2>2, LeaveStep
<1>5. QED
  BY <1>1, <1>2, <1>3, <1>4

LEMMA StepResume ==
  ASSUME IInv, NEW t \in Threads,
         rt_thread_resume(t) \/ ResumeTest(t) \/ rt_thread_startup(t)
  PROVE  IInv'
<1>1. CASE rt_thread_resume(t)
  <2>1. /\ ~isr /\ k.stat[t] = "suspend" /\ Resumed(t)
        /\ k.stat[Me] = "running" /\ pc[Me] = "code"
        /\ moved' = moved \cup {t}
        /\ UNCHANGED <<remaining, pc, target, defunct, isr>>
    BY <1>1 DEF rt_thread_resume, Code
  <2>2. t \notin defunct /\ pc' = [pc EXCEPT ![Me] = "code"]
    BY <2>1, Facts DEF IInv, DefunctClosed
  <2>3. QED
    BY <2>1, <2>2, Facts, ResumeStep
<1>2. CASE ResumeTest(t)
  <2>1. /\ ~isr /\ pc[Me] = "code" /\ pc' = [pc EXCEPT ![Me] = "resume"]
        /\ target' = [target EXCEPT ![Me] = t]
        /\ UNCHANGED <<k, remaining, wait, defunct, isr, moved>>
    BY <1>2 DEF ResumeTest, Code
  <2>2. TypeOK'
    <3>1. /\ pc' \in [Threads -> {"code", "schedule", "resume"}]
          /\ target' \in [Threads -> Threads \cup {None}]
      BY <2>1, Facts
    <3>2. QED
      BY <2>1, <3>1 DEF IInv, TypeOK
  <2>3. HighestRuns'
    BY <2>1, Facts DEF IInv, HighestRuns, Outranks, Me
  <2>4. TargetKnown'
    BY <2>1, Facts DEF IInv, TargetKnown
  <2>5. Agrees(k') /\ TimerMeansSuspended' /\ DefunctClosed' /\ NoneDue'
    BY <2>1 DEF IInv, TimerMeansSuspended, DefunctClosed, NoneDue
  <2>6. QED
    BY <2>2, <2>3, <2>4, <2>5 DEF IInv
<1>3. CASE rt_thread_startup(t)
  <2> DEFINE r == rt_schedule_insert_thread([k EXCEPT !.stat[t] = "suspend"], t)
  <2>1. /\ ~isr /\ k.stat[t] = "init" /\ k.stat[Me] = "running" /\ k' = r
        /\ pc' = [pc EXCEPT ![Me] = "schedule"]
        /\ UNCHANGED <<remaining, wait, target, defunct, isr, moved>>
    BY <1>3 DEF rt_thread_startup, Code
  <2>2. t # k.cur
    BY <2>1 DEF Me
  <2>3. /\ r \in Kernel /\ Agrees(r) /\ r.cur = k.cur
        /\ r.stat = [k.stat EXCEPT ![t] = "ready"]
    BY <2>1, <2>2, Facts, StartupIs, Zenon
  <2> HIDE DEF r
  <2>4. k' \in Kernel /\ Agrees(k') /\ k'.cur = k.cur
        /\ \A u \in Threads \ {t} : k'.stat[u] = k.stat[u]
    BY <2>1, <2>3, Facts
  <2>5. wait[t] = Off /\ t \notin defunct
    BY <2>1 DEF IInv, TimerMeansSuspended, DefunctClosed
  <2>6. HighestRuns' /\ moved' \subseteq Threads
    BY <2>1, <2>4, Facts DEF IInv, TypeOK, HighestRuns
  <2>7. QED
    BY <2>1, <2>4, <2>5, <2>6, Facts, ReadyStep
<1>4. QED
  BY <1>1, <1>2, <1>3

LEMMA StepCode == ASSUME IInv, CodeSchedules  PROVE IInv'
<1>1. /\ ~isr /\ k' = rt_schedule(k) /\ Scheduled
      /\ UNCHANGED <<remaining, wait, pc, target, defunct, isr>>
  BY DEF CodeSchedules, Code
<1>2. QED
  BY <1>1, Facts, ScheduleStep

LEMMA StepPending ==
  ASSUME IInv, Pending
  PROVE  IInv'
<1>1. CASE CallSchedule
  <2>1. /\ ~isr /\ k' = rt_schedule(k) /\ Scheduled /\ pc' = [pc EXCEPT ![Me] = "code"]
        /\ UNCHANGED <<remaining, wait, target, defunct, isr>>
    BY <1>1 DEF CallSchedule
  <2>2. /\ pc' \in [Threads -> {"code", "schedule", "resume"}]
        /\ \A t \in Threads : pc'[t] = "resume" => pc[t] = "resume"
    BY <2>1, Facts
  <2>3. QED
    BY <2>1, <2>2, Facts, ScheduleStep
<1>2. CASE ResumeDo
  <2>1. /\ ~isr /\ pc[Me] = "resume" /\ k.stat[Me] = "running" /\ Resumed(target[Me])
        /\ pc' = [pc EXCEPT ![Me] = "code"]
        /\ moved' = moved \cup {target[Me]}
        /\ target' = [target EXCEPT ![Me] = None]
        /\ defunct' = defunct \ {target[Me]}
        /\ UNCHANGED <<remaining, isr>>
    BY <1>2 DEF ResumeDo
  <2>2. target[Me] \in Threads
    BY <2>1, Facts DEF IInv, TargetKnown
  <2>3. /\ target' \in [Threads -> Threads \cup {None}]
        /\ \A u \in Threads \ {Me} : target'[u] = target[u]
    BY <2>1, Facts
  <2>4. QED
    BY <2>1, <2>2, <2>3, ResumeStep
<1>3. QED
  BY <1>1, <1>2 DEF Pending

LEMMA StepPriority ==
  ASSUME IInv, NEW t \in Threads, NEW p \in NewPrios, SetPriority(t, p)
  PROVE  IInv'
<1>1. /\ moved' = IF k.stat[t] \in {"ready", "running"} THEN moved \cup {t} ELSE moved
      /\ UNCHANGED <<remaining, wait, pc, target, defunct, isr>>
      /\ p \in Prios /\ Code
  BY SchedulerAssumption DEF SetPriority
<1>2. /\ k' \in Kernel /\ Agrees(k') /\ k'.cur = k.cur /\ k'.stat = k.stat
      /\ k'.nest = k.nest /\ \A u \in Threads \ {t} : k'.prio[u] = k.prio[u]
  <2>1. CASE k.stat[t] = "ready"
    <3> DEFINE r == rt_schedule_insert_thread(
                      [rt_schedule_remove_thread(k, t) EXCEPT !.prio[t] = p], t)
    <3>1. r \in Kernel /\ Agrees(r) /\ r.cur = k.cur /\ r.stat = k.stat
      BY <1>1, <2>1, Facts, RequeueIs, Zenon
    <3>2. k' = r
      BY <2>1 DEF SetPriority
    <3>4. r.nest = k.nest /\ r.prio = [k.prio EXCEPT ![t] = p]
      BY Facts DEF Kernel, rt_schedule_insert_thread, rt_schedule_remove_thread
    <3> HIDE DEF r
    <3>3. QED  BY <3>1, <3>2, <3>4, Facts
  <2>2. CASE k.stat[t] # "ready"
    <3>1. k' = [k EXCEPT !.prio[t] = p]
      BY <2>2 DEF SetPriority
    <3>2. /\ k' \in Kernel /\ k'.ready = k.ready /\ k'.group = k.group /\ k'.cur = k.cur
          /\ k'.stat = k.stat /\ k'.prio = [k.prio EXCEPT ![t] = p] /\ k'.nest = k.nest
      BY <1>1, <3>1, Facts DEF Kernel
    <3>3. /\ k'.stat = [k.stat EXCEPT ![t] = k.stat[t]] /\ k.stat[t] \in Stats \ {"ready"}
          /\ k.stat[t] = "running" => t = k.cur
      BY <2>2, <3>2, Facts DEF Agrees
    <3>4. Agrees(k')
      BY <1>1, <2>2, <3>2, <3>3, Facts, SetIs
    <3>5. QED  BY <3>2, <3>4, Facts
  <2>3. QED  BY <2>1, <2>2
<1>3. TypeOK'
  BY <1>1, <1>2 DEF IInv, TypeOK
<1>4. HighestRuns'
  <2>1. SUFFICES ASSUME k.nest = 0, NEW u \in Threads, Outranks(u)', pc[k.cur] # "schedule"
                 PROVE  u \in moved' \/ k.cur \in moved'
    BY <1>1, <1>2 DEF HighestRuns
  <2>2. k.stat[k.cur] = "running" /\ k.stat[u] = "ready"
    BY <1>1, <1>2, <2>1, Facts DEF Code, Outranks
  <2>3. CASE t \in {u, k.cur}
    BY <1>1, <2>2, <2>3
  <2>4. CASE t \notin {u, k.cur}
    <3>1. Outranks(u)
      BY <1>2, <2>1, <2>4, Facts DEF Outranks
    <3>2. QED
      BY <1>1, <2>1, <2>2, <3>1 DEF IInv, HighestRuns
  <2>5. QED  BY <2>3, <2>4
<1>5. TimerMeansSuspended' /\ DefunctClosed' /\ TargetKnown' /\ NoneDue'
  BY <1>1, <1>2 DEF IInv, TimerMeansSuspended, DefunctClosed, TargetKnown, NoneDue
<1>6. QED
  BY <1>2, <1>3, <1>4, <1>5 DEF IInv

LEMMA StepLock ==
  ASSUME IInv, rt_enter_critical \/ rt_exit_critical
  PROVE  IInv'
<1> USE SchedulerAssumption
<1>1. \E n \in 0 .. MaxNest : k' = [k EXCEPT !.nest = n]
  <2>1. k.nest \in 0 .. MaxNest
    BY Facts, KernelFields
  <2>2. CASE rt_enter_critical
    <3>1. k.nest + 1 \in 0 .. MaxNest /\ k' = [k EXCEPT !.nest = k.nest + 1]
      BY <2>1, <2>2 DEF rt_enter_critical
    <3>2. QED  BY <3>1
  <2>3. CASE rt_exit_critical
    <3>1. k.nest - 1 \in 0 .. MaxNest /\ k' = [k EXCEPT !.nest = k.nest - 1]
      BY <2>1, <2>3 DEF rt_exit_critical
    <3>2. QED  BY <3>1
  <2>4. QED  BY <2>2, <2>3
<1>2. /\ k' \in Kernel /\ k'.cur = k.cur /\ k'.stat = k.stat /\ k'.prio = k.prio
      /\ k'.ready = k.ready /\ k'.group = k.group
  BY <1>1, Facts DEF Kernel
<1>3. Agrees(k')
  BY <1>2, Facts DEF Agrees, Ready
<1>4. /\ UNCHANGED <<remaining, wait, target, defunct, isr, moved>>
      /\ pc' = pc \/ pc' = [pc EXCEPT ![Me] = "schedule"]
  BY DEF rt_enter_critical, rt_exit_critical
<1>5. k'.nest # 0 \/ pc' = [pc EXCEPT ![Me] = "schedule"]
  <2>1. k.nest \in 0 .. MaxNest
    BY Facts, KernelFields
  <2>2. CASE rt_enter_critical
    BY <2>1, <2>2, Facts DEF rt_enter_critical, Kernel
  <2>3. CASE rt_exit_critical
    BY <2>3 DEF rt_exit_critical
  <2>4. QED  BY <2>2, <2>3
<1>6. /\ pc' \in [Threads -> {"code", "schedule", "resume"}]
      /\ \A t \in Threads : pc'[t] = "resume" => pc[t] = "resume"
  BY <1>4, Facts
<1>7. TypeOK'
  BY <1>2, <1>4, <1>6 DEF IInv, TypeOK
<1>8. HighestRuns'
  <2>1. k'.nest # 0 \/ pc'[k'.cur] = "schedule"
    BY <1>2, <1>5, Facts
  <2>2. QED
    BY <2>1 DEF HighestRuns
<1>9. TimerMeansSuspended' /\ DefunctClosed' /\ TargetKnown' /\ NoneDue'
  BY <1>2, <1>4, <1>6 DEF IInv, TimerMeansSuspended, DefunctClosed, TargetKnown, NoneDue
<1>10. QED
  BY <1>2, <1>3, <1>7, <1>8, <1>9 DEF IInv

(* The idle thread buries a thread: it was in no list, and is not the one  *)
(* that runs.                                                              *)
LEMMA StepDefunct ==
  ASSUME IInv, NEW t \in Threads, rt_defunct_execute(t)
  PROVE  IInv'
<1>1. /\ ~isr /\ k.stat[Me] = "running" /\ t \in defunct /\ defunct' = defunct \ {t}
      /\ k' = [k EXCEPT !.stat[t] = "init", !.yield[t] = FALSE, !.prio[t] = Prio[t]]
      /\ pc' = [pc EXCEPT ![t] = "code"]
      /\ target' = [target EXCEPT ![t] = None]
      /\ remaining' = [remaining EXCEPT ![t] = Slice]
      /\ UNCHANGED <<wait, isr, moved>>
  BY DEF rt_defunct_execute, Code
<1>2. k.stat[t] = "close" /\ t # k.cur /\ wait[t] = Off
  BY <1>1, Facts DEF IInv, DefunctClosed, TimerMeansSuspended, Me
<1>3. Prio[t] \in Prios /\ "init" \in Stats \ {"ready"} /\ Slice \in 1 .. Slice
  BY SchedulerAssumption DEF Stats
<1>4. /\ k' \in Kernel /\ k'.ready = k.ready /\ k'.group = k.group /\ k'.cur = k.cur
      /\ k'.nest = k.nest /\ k'.stat = [k.stat EXCEPT ![t] = "init"]
      /\ k'.prio = [k.prio EXCEPT ![t] = Prio[t]]
  BY <1>1, <1>3, Facts DEF Kernel
<1>5. Agrees(k')
  BY <1>2, <1>3, <1>4, Facts, SetIs
<1>6. TypeOK'
  <2>1. /\ pc' \in [Threads -> {"code", "schedule", "resume"}]
        /\ target' \in [Threads -> Threads \cup {None}]
        /\ remaining' \in [Threads -> 1 .. Slice]
        /\ defunct' \subseteq Threads
    BY <1>1, <1>3, Facts
  <2>2. QED
    BY <1>1, <1>4, <2>1 DEF IInv, TypeOK
<1>7. HighestRuns'
  <2>1. \A u \in Threads : Outranks(u)' => Outranks(u)
    BY <1>2, <1>4, Facts DEF Outranks
  <2>2. pc'[k.cur] = pc[k.cur] /\ k'.cur = k.cur /\ k'.nest = k.nest /\ moved' = moved
    BY <1>1, <1>2, <1>4, Facts
  <2>3. k.stat[k.cur] = "running"
    BY <1>1 DEF Me
  <2>4. QED
    BY <2>1, <2>2, <2>3 DEF IInv, HighestRuns
<1>8. TimerMeansSuspended'
  BY <1>1, <1>2, <1>4, Facts DEF IInv, TimerMeansSuspended
<1>9. DefunctClosed'
  BY <1>1, <1>4, Facts DEF IInv, DefunctClosed
<1>10. TargetKnown' /\ NoneDue'
  BY <1>1, Facts DEF IInv, TargetKnown, NoneDue
<1>11. QED
  BY <1>4, <1>5, <1>6, <1>7, <1>8, <1>9, <1>10 DEF IInv

LEMMA StepTick ==
  ASSUME IInv, rt_tick_increase \/ TickEnd
  PROVE  IInv'
<1>1. CASE rt_tick_increase
  <2>1. /\ ~isr /\ isr' = TRUE /\ UNCHANGED <<pc, target, defunct>>
        /\ wait' = [t \in Threads |-> IF wait[t] = Off THEN Off ELSE wait[t] - 1]
    BY <1>1 DEF rt_tick_increase
  <2>2. wait' \in [Threads -> Nat \cup {Off}] /\ \A t \in Threads : wait'[t] # Off => wait[t] # Off
    <3>1. \A t \in Threads : wait[t] # 0 /\ wait[t] \in Nat \cup {Off}
      BY <2>1, Facts DEF IInv, NoneDue
    <3>2. \A t \in Threads : wait[t] # Off => wait[t] - 1 \in Nat
      BY <3>1
    <3>3. QED
      BY <2>1, <3>2
  <2>3. remaining' \in [Threads -> 1 .. Slice]
    <3>1. Slice \in Nat \ {0} /\ remaining[Me] \in 1 .. Slice
      BY Facts, SchedulerAssumption
    <3>2. \/ remaining' = [remaining EXCEPT ![Me] = Slice]
          \/ remaining[Me] # 1 /\ remaining' = [remaining EXCEPT ![Me] = remaining[Me] - 1]
      BY <1>1 DEF rt_tick_increase
    <3>3. Slice \in 1 .. Slice /\ (remaining[Me] # 1 => remaining[Me] - 1 \in 1 .. Slice)
      BY <3>1
    <3>4. QED
      BY <3>2, <3>3, Facts
  <2>4. /\ k' \in Kernel /\ Agrees(k') /\ HighestRuns' /\ moved' \subseteq Threads
        /\ \A t \in Threads : k.stat[t] \in {"suspend", "close"} => k'.stat[t] = k.stat[t]
    <3>1. CASE remaining[Me] = 1
      <4> DEFINE s == [k EXCEPT !.yield[k.cur] = TRUE]
      <4>1. s \in Kernel /\ Agrees(s) /\ s.stat = k.stat
        BY Facts, YieldIs, Zenon
      <4>2. k' = rt_schedule(s)
        BY <1>1, <3>1 DEF rt_tick_increase, Expired
      <4> HIDE DEF s
      <4>3. /\ k' \in Kernel /\ Agrees(k') /\ HighestRuns'
            /\ \A t \in Threads : s.stat[t] \notin {"running", "ready"} => k'.stat[t] = s.stat[t]
        BY <4>1, <4>2, EndsInSchedule, Zenon
      <4>4. moved' \subseteq Threads
        BY <1>1, <3>1 DEF rt_tick_increase, Scheduled, IInv, TypeOK
      <4>5. QED
        BY <4>1, <4>3, <4>4
    <3>2. CASE remaining[Me] # 1
      <4>1. k' = k /\ moved' = moved /\ pc' = pc
        BY <1>1, <3>2 DEF rt_tick_increase
      <4>2. HighestRuns' /\ moved' \subseteq Threads
        BY <4>1 DEF IInv, TypeOK, HighestRuns, Outranks
      <4>3. QED
        BY <4>1, <4>2, Facts
    <3>3. QED  BY <3>1, <3>2
  <2>5. TypeOK'
    BY <2>1, <2>2, <2>3, <2>4 DEF IInv, TypeOK
  <2>6. TimerMeansSuspended' /\ DefunctClosed'
    BY <2>1, <2>2, <2>4, Facts DEF IInv, TimerMeansSuspended, DefunctClosed
  <2>7. TargetKnown' /\ NoneDue'
    BY <2>1 DEF IInv, TargetKnown, NoneDue
  <2>8. QED
    BY <2>4, <2>5, <2>6, <2>7 DEF IInv
<1>2. CASE TickEnd
  <2>1. /\ isr' = FALSE /\ (\A t \in Threads : wait[t] # 0)
        /\ UNCHANGED <<k, remaining, wait, pc, target, defunct, moved>>
    BY <1>2 DEF TickEnd
  <2>2. TypeOK' /\ HighestRuns'
    BY <2>1 DEF IInv, TypeOK, HighestRuns, Outranks
  <2>3. Agrees(k') /\ TimerMeansSuspended' /\ DefunctClosed' /\ TargetKnown' /\ NoneDue'
    BY <2>1 DEF IInv, TimerMeansSuspended, DefunctClosed, TargetKnown, NoneDue
  <2>4. QED
    BY <2>2, <2>3 DEF IInv
<1>3. QED
  BY <1>1, <1>2

LEMMA StepWake ==
  ASSUME IInv, NEW t \in Threads, _thread_timeout(t) \/ DeviceResume(t)
  PROVE  IInv'
<1>1. /\ k' = rt_schedule(rt_schedule_insert_thread(Unlink(k, t), t)) /\ Scheduled
      /\ wait' = [wait EXCEPT ![t] = Off]
      /\ UNCHANGED <<remaining, pc, target, defunct, isr>>
  BY DEF _thread_timeout, DeviceResume
<1>2. k.stat[t] = "suspend"
  <2>1. CASE _thread_timeout(t)
    BY <2>1, SchedulerAssumption DEF _thread_timeout, IInv, TimerMeansSuspended
  <2>2. CASE DeviceResume(t)
    BY <2>2 DEF DeviceResume
  <2>3. QED  BY <2>1, <2>2
<1>3. t \notin defunct
  BY <1>2 DEF IInv, DefunctClosed
<1>4. QED
  BY <1>1, <1>3, WakeStep

LEMMA NextIInv == IInv /\ [Next]_vars => IInv'
<1> SUFFICES ASSUME IInv, [Next]_vars PROVE IInv'
  OBVIOUS
<1>1. CASE rt_thread_yield \/ rt_thread_suspend \/ _thread_exit
           \/ \E n \in Sleeps : rt_thread_sleep(n)
  BY <1>1, StepThread
<1>2. CASE \E t \in Threads : rt_thread_resume(t) \/ ResumeTest(t) \/ rt_thread_startup(t)
  BY <1>2, StepResume
<1>3. CASE \E t \in Threads, p \in NewPrios : SetPriority(t, p)
  BY <1>3, StepPriority
<1>4. CASE \E t \in Threads : rt_defunct_execute(t)
  BY <1>4, StepDefunct
<1>5. CASE rt_enter_critical \/ rt_exit_critical
  BY <1>5, StepLock
<1>6. CASE Pending
  BY <1>6, StepPending
<1>7. CASE rt_tick_increase \/ TickEnd
  BY <1>7, StepTick
<1>8. CASE \E t \in Threads : _thread_timeout(t) \/ DeviceResume(t)
  BY <1>8, StepWake
<1>9. CASE UNCHANGED vars
  BY <1>9 DEF vars, IInv, TypeOK, Agrees, Ready, Lists, HighestRuns, Outranks, TimerMeansSuspended,
              DefunctClosed, TargetKnown, NoneDue
<1>10. CASE CodeSchedules
  BY <1>10, StepCode
<1>11. QED
  BY <1>1, <1>2, <1>3, <1>4, <1>5, <1>6, <1>7, <1>8, <1>9, <1>10 DEF Next, Interrupt

LEMMA AlwaysIInv == Spec => []IInv
BY InitIInv, NextIInv, PTL DEF Spec

----------------------------------------------------------------------------
(* Every function of the scheduler keeps its record and the threads'       *)
(* states, timers, slices and pending calls of their types; the lock is    *)
(* never released more often than taken, and a slice never runs below 1.   *)
THEOREM SchedulerTypeCorrect == Spec => []TypeOK
<1>1. IInv => TypeOK
  BY DEF IInv
<1>2. QED
  BY <1>1, AlwaysIInv, PTL

(* rt_schedule_insert_thread, rt_schedule_remove_thread and the bare       *)
(* rt_list_remove of thread.c together keep the bitmap, the lists and the  *)
(* states in step, also when rt_thread_resume acts on a state that has     *)
(* changed since its test.                                                 *)
THEOREM SchedulerReadyAgrees == Spec => []ReadyAgrees
<1>1. IInv => ReadyAgrees
  <2>1. SUFFICES ASSUME IInv PROVE ReadyAgrees
    OBVIOUS
  <2>2. /\ Lists(k.ready, k.group, k.prio, Ready(k))
        /\ \A t \in Threads : k.stat[t] = "running" => t = k.cur
    BY <2>1 DEF IInv, Agrees
  <2>3. \A p \in Prios : {t \in Ready(k) : k.prio[t] = p} =
                         {t \in Threads : k.stat[t] = "ready" /\ k.prio[t] = p}
    BY DEF Ready
  <2>4. QED
    BY <2>2, <2>3 DEF ReadyAgrees, Lists
<1>2. QED
  BY <1>1, AlwaysIInv, PTL

(* A thread runs although a more urgent one is ready only while the        *)
(* scheduler is locked, while rt_schedule is the next call of the thread,  *)
(* and if one of the two was given its priority, or the other was resumed  *)
(* by a thread, since rt_schedule last ran.                                *)
THEOREM SchedulerHighestRuns == Spec => []HighestRuns
<1>1. IInv => HighestRuns
  BY DEF IInv
<1>2. QED
  BY <1>1, AlwaysIInv, PTL

(* The assertion of _thread_timeout: a timer that expires belongs to a     *)
(* thread that is suspended.                                               *)
THEOREM SchedulerTimerMeansSuspended == Spec => []TimerMeansSuspended
<1>1. IInv => TimerMeansSuspended
  BY DEF IInv
<1>2. QED
  BY <1>1, AlwaysIInv, PTL

============================================================================
