---------------------------- MODULE Sx126xProofs ----------------------------
(***************************************************************************)
(* What the steps and calls of the driver do to the chip and to the        *)
(* watchdog timer, from any state of either, with one transaction stalled  *)
(* or none.  Programs are of any length: an execution is taken apart by    *)
(* Composition, which is by induction over the steps of the second part.   *)
(***************************************************************************)
EXTENDS Sx126x, SequenceTheorems, FiniteSetTheorems, WellFoundedInduction, TLAPS

\* Induction over the natural numbers, for a set rather than a predicate.
LEMMA Induction ==
  ASSUME NEW S, 0 \in S, \A n \in Nat : n \in S => n + 1 \in S
  PROVE  Nat \subseteq S
<1> DEFINE R == OpToRel(<, Nat)
           T == Nat \ S
<1> SUFFICES ASSUME T # {} PROVE FALSE
  OBVIOUS
<1>1. IsWellFoundedOn(R, Nat)
  BY NatLessThanWellFounded, Zenon
<1>2. \A i, j \in Nat : i < j => <<i, j>> \in R
  BY SMT DEF OpToRel
<1>3. T \subseteq Nat
  OBVIOUS
<1>4. PICK n \in T : \A m \in T : <<m, n>> \notin R
  <2> HIDE DEF R, T
  <2> QED
    BY <1>1, <1>3, WFMin
<1>5. n - 1 \in Nat /\ n - 1 < n /\ (n - 1) + 1 = n
  OBVIOUS
<1>6. n - 1 \in S
  <2> HIDE DEF R
  <2> QED
    BY <1>2, <1>4, <1>5
<1>7. QED
  BY <1>5, <1>6

-----------------------------------------------------------------------------
(* Executions.                                                             *)

\* The states of an execution: run[i] is the machine after i steps.
Trace(run, p, d) ==
  run = [i \in 0..Len(p) |-> IF i = 0 THEN d ELSE Do(run[i - 1], p[i])]

\* A program is a sequence, of whatever steps.
IsProgram(p) == \E S : p \in Seq(S)

\* Every execution has its states (the recursive definition in Execute is met).
LEMMA TraceExists ==
  ASSUME NEW p, NEW d, Len(p) \in Nat
  PROVE  \E run : Trace(run, p, d)
<1> DEFINE F(run, k) == [i \in 0..k |-> IF i = 0 THEN d ELSE Do(run[i - 1], p[i])]
           S == {k \in Nat : \E run : run = F(run, k)}
<1>1. 0 \in S
  <2> DEFINE r == [i \in 0..0 |-> d]
  <2>1. r = F(r, 0)
    OBVIOUS
  <2>2. QED
    BY <2>1
<1>2. ASSUME NEW k \in Nat, k \in S
      PROVE  k + 1 \in S
  <2>1. PICK run : run = F(run, k)
    BY <1>2
  <2> DEFINE r == [i \in 0..(k + 1) |-> IF i = k + 1 THEN Do(run[k], p[k + 1]) ELSE run[i]]
  <2>2. ASSUME NEW i \in 0..(k + 1)
        PROVE  r[i] = IF i = 0 THEN d ELSE Do(r[i - 1], p[i])
    <3>1. CASE i = k + 1
      BY <3>1
    <3>2. CASE i # k + 1
      <4>1. i \in 0..k /\ (i # 0 => i - 1 \in 0..k)
        BY <3>2
      <4>2. run[i] = IF i = 0 THEN d ELSE Do(run[i - 1], p[i])
        BY <2>1, <4>1, Zenon
      <4>3. QED
        BY <3>2, <4>1, <4>2
    <3>3. QED
      BY <3>1, <3>2
  <2>3. r = F(r, k + 1)
    <3> DEFINE g == F(r, k + 1)
    <3>1. \A i \in 0..(k + 1) : r[i] = g[i]
      BY <2>2
    <3>2. QED
      BY <3>1
  <2>4. QED
    <3> HIDE DEF r
    <3>1. \E q : q = F(q, k + 1)
      BY <2>3, Zenon
    <3>2. k + 1 \in Nat
      OBVIOUS
    <3> HIDE DEF F
    <3> QED
      BY <3>1, <3>2
<1>3. Nat \subseteq S
  <2> HIDE DEF S
  <2> QED
    BY <1>1, <1>2, Induction
<1>4. Len(p) \in S
  <2> HIDE DEF S
  <2> QED
    BY <1>3
<1>5. QED
  BY <1>4 DEF Trace

\* The states of an execution, one after the other.
LEMMA TraceSteps ==
  ASSUME NEW p, NEW d, NEW run, Trace(run, p, d), Len(p) \in Nat
  PROVE  run[0] = d /\ \A i \in 1..Len(p) : run[i] = Do(run[i - 1], p[i])
<1>1. \A i \in 0..Len(p) : run[i] = IF i = 0 THEN d ELSE Do(run[i - 1], p[i])
  BY Zenon DEF Trace
<1>2. QED
  BY <1>1

\* Any part of it is what Steps() makes of its first state.
LEMMA StepsOnTrace ==
  ASSUME NEW p, NEW d, NEW run, Trace(run, p, d), Len(p) \in Nat,
         NEW i \in Nat, NEW j \in Nat, i <= j, j <= Len(p)
  PROVE  Steps(p, run[i], i, j) = run[j]
<1> DEFINE F(r) == [k \in i..j |-> IF k = i THEN run[i] ELSE Do(r[k - 1], p[k])]
           g == [k \in i..j |-> run[k]]
           C == CHOOSE r : r = F(r)
<1>1. g = F(g)
  <2>1. ASSUME NEW k \in i..j
        PROVE  g[k] = IF k = i THEN run[i] ELSE Do(g[k - 1], p[k])
    <3>1. CASE k = i
      BY <3>1
    <3>2. CASE k # i
      <4>1. k \in 1..Len(p) /\ k - 1 \in i..j
        BY <3>2
      <4>2. run[k] = Do(run[k - 1], p[k])
        BY <4>1, TraceSteps
      <4>3. QED
        BY <3>2, <4>1, <4>2
    <3>3. QED
      BY <3>1, <3>2
  <2> DEFINE h == F(g)
  <2>2. \A k \in i..j : g[k] = h[k]
    BY <2>1
  <2>3. QED
    BY <2>2
<1>2. C = F(C)
  <2>1. \E r : r = F(r)
    BY <1>1, Zenon
  <2> HIDE DEF F
  <2>2. QED
    BY <2>1
<1> HIDE DEF C
<1>3. \A k \in i..j : C[k] = IF k = i THEN run[i] ELSE Do(C[k - 1], p[k])
  BY <1>2, Zenon
<1> DEFINE S == {n \in Nat : i + n <= j => C[i + n] = run[i + n]}
<1>4. 0 \in S
  BY <1>3
<1>5. ASSUME NEW n \in Nat, n \in S
      PROVE  n + 1 \in S
  <2> SUFFICES ASSUME i + (n + 1) <= j
               PROVE  C[i + (n + 1)] = run[i + (n + 1)]
    OBVIOUS
  <2>1. PICK k \in Nat : k = i + (n + 1)
    OBVIOUS
  <2>2. /\ k \in i..j /\ k \in 1..Len(p) /\ k # i /\ k - 1 = i + n
        /\ C[i + n] = run[i + n]
    BY <1>5, <2>1
  <2>3. C[k] = Do(C[k - 1], p[k])
    BY <1>3, <2>2
  <2>4. run[k] = Do(run[k - 1], p[k])
    BY <2>2, TraceSteps
  <2>5. QED
    BY <2>1, <2>2, <2>3, <2>4
<1>6. Nat \subseteq S
  <2> HIDE DEF S
  <2> QED
    BY <1>4, <1>5, Induction
<1>7. C[j] = run[j]
  <2>1. j - i \in Nat /\ i + (j - i) = j
    OBVIOUS
  <2>2. j - i \in S
    <3> HIDE DEF S
    <3> QED
      BY <1>6, <2>1
  <2>3. QED
    BY <2>1, <2>2
<1>8. QED
  BY <1>7 DEF Steps, C

\* Once the watchdog timer has expired, nothing happens any more.
LEMMA StaysHalted ==
  ASSUME NEW p, NEW d, NEW run, Trace(run, p, d), Len(p) \in Nat,
         NEW i \in Nat, NEW j \in Nat, i <= j, j <= Len(p), run[i].dog.expired
  PROVE  run[j] = run[i]
<1> DEFINE S == {n \in Nat : i + n <= j => run[i + n] = run[i]}
<1>1. 0 \in S
  OBVIOUS
<1>2. ASSUME NEW n \in Nat, n \in S
      PROVE  n + 1 \in S
  <2> SUFFICES ASSUME i + (n + 1) <= j
               PROVE  run[i + (n + 1)] = run[i]
    OBVIOUS
  <2>1. PICK k \in Nat : k = i + (n + 1)
    OBVIOUS
  <2>2. k \in 1..Len(p) /\ k - 1 = i + n /\ run[i + n] = run[i]
    BY <1>2, <2>1
  <2>3. run[k] = Do(run[k - 1], p[k])
    BY <2>2, TraceSteps
  <2>4. Do(run[i], p[k]) = run[i]
    BY DEF Do
  <2>5. QED
    BY <2>1, <2>2, <2>3, <2>4
<1>3. Nat \subseteq S
  <2> HIDE DEF S
  <2> QED
    BY <1>1, <1>2, Induction
<1>4. j - i \in Nat /\ i + (j - i) = j
  OBVIOUS
<1>5. j - i \in S
  <2> HIDE DEF S
  <2> QED
    BY <1>3, <1>4
<1>6. QED
  BY <1>4, <1>5

\* A program ends in the last of its states.
LEMMA ExecuteTrace ==
  ASSUME NEW p, NEW d, Len(p) \in Nat
  PROVE  \E run : Trace(run, p, d) /\ Execute(p, d) = run[Len(p)]
<1>1. PICK run : Trace(run, p, d)
  BY TraceExists
<1> DEFINE c == Len(p) \div 10
           Stretch(s, b) == IF s.dog.expired THEN s ELSE Steps(p, s, 10 * b - 10, 10 * b)
           F(r) == [b \in 0..c |-> IF b = 0 THEN d ELSE Stretch(r[b - 1], b)]
           g == [b \in 0..c |-> run[10 * b]]
           C == CHOOSE r : r = F(r)
<1>2. c \in Nat /\ 10 * c <= Len(p)
  OBVIOUS
<1> HIDE DEF c
<1>3. ASSUME NEW b \in 0..c, b # 0
      PROVE  Stretch(run[10 * (b - 1)], b) = run[10 * b]
  <2>1. PICK i \in Nat : i = 10 * (b - 1)
    BY <1>2, <1>3
  <2>2. PICK j \in Nat : j = 10 * b
    BY <1>2
  <2>3. i = 10 * b - 10 /\ i <= j /\ j <= Len(p)
    BY <1>2, <2>1, <2>2
  <2>4. CASE run[i].dog.expired
    BY <1>1, <2>1, <2>2, <2>3, <2>4, StaysHalted
  <2>5. CASE ~run[i].dog.expired
    <3>1. Steps(p, run[i], i, j) = run[j]
      BY <1>1, <2>3, StepsOnTrace
    <3>2. QED
      BY <2>1, <2>2, <2>3, <2>5, <3>1
  <2>6. QED
    BY <2>4, <2>5
<1>4. run[0] = d
  BY <1>1, TraceSteps
<1> HIDE DEF Stretch
<1>5. g = F(g)
  <2>1. ASSUME NEW b \in 0..c
        PROVE  g[b] = IF b = 0 THEN d ELSE Stretch(g[b - 1], b)
    <3>1. CASE b = 0
      BY <1>4, <3>1
    <3>2. CASE b # 0
      <4>1. b - 1 \in 0..c
        BY <1>2, <3>2
      <4>2. QED
        BY <1>3, <3>2, <4>1
    <3>3. QED
      BY <3>1, <3>2
  <2> DEFINE h == F(g)
  <2>2. \A b \in 0..c : g[b] = h[b]
    BY <2>1
  <2>3. QED
    BY <2>2
<1>6. C = F(C)
  <2>1. \E r : r = F(r)
    BY <1>5, Zenon
  <2> HIDE DEF F
  <2>2. QED
    BY <2>1
<1> HIDE DEF C
<1>7. \A b \in 0..c : C[b] = IF b = 0 THEN d ELSE Stretch(C[b - 1], b)
  BY <1>6, Zenon
<1> DEFINE S == {b \in Nat : b <= c => C[b] = run[10 * b]}
<1>8. 0 \in S
  BY <1>2, <1>4, <1>7
<1>9. ASSUME NEW b \in Nat, b \in S
      PROVE  b + 1 \in S
  <2> SUFFICES ASSUME b + 1 <= c
               PROVE  C[b + 1] = run[10 * (b + 1)]
    OBVIOUS
  <2>1. PICK k \in Nat : k = b + 1
    OBVIOUS
  <2>2. k \in 0..c /\ k # 0 /\ k - 1 = b /\ C[b] = run[10 * b]
    BY <1>2, <1>9, <2>1
  <2>3. C[k] = Stretch(C[k - 1], k)
    BY <1>7, <2>2
  <2>4. Stretch(run[10 * (k - 1)], k) = run[10 * k]
    BY <1>3, <2>2
  <2>5. QED
    BY <2>1, <2>2, <2>3, <2>4
<1>10. Nat \subseteq S
  <2> HIDE DEF S
  <2> QED
    BY <1>8, <1>9, Induction
<1>11. C[c] = run[10 * c]
  <2>1. c \in S
    <3> HIDE DEF S
    <3> QED
      BY <1>2, <1>10
  <2>2. QED
    BY <1>2, <2>1
<1>12. Execute(p, d) = Steps(p, C[c], 10 * c, Len(p))
  BY DEF Execute, C, c, Stretch
<1>13. Steps(p, run[10 * c], 10 * c, Len(p)) = run[Len(p)]
  <2>1. PICK i \in Nat : i = 10 * c
    BY <1>2
  <2>2. QED
    BY <1>1, <1>2, <2>1, StepsOnTrace
<1>14. QED
  BY <1>1, <1>11, <1>12, <1>13

\* The steps of two programs, one after the other.
LEMMA Concatenation ==
  ASSUME NEW p, NEW q, IsProgram(p), IsProgram(q)
  PROVE  /\ IsProgram(p \o q)
         /\ Len(p \o q) = Len(p) + Len(q)
         /\ \A i \in 1..Len(p) : (p \o q)[i] = p[i]
         /\ \A i \in 1..Len(q) : (p \o q)[Len(p) + i] = q[i]
         /\ Len(p) \in Nat /\ Len(q) \in Nat
<1>1. PICK S : p \in Seq(S)
  BY DEF IsProgram
<1>2. PICK T : q \in Seq(T)
  BY DEF IsProgram
<1>3. p \in Seq(S \cup T) /\ q \in Seq(S \cup T)
  BY <1>1, <1>2, SeqMonotonic
<1>4. p \o q \in Seq(S \cup T)
  BY <1>3
<1>5. QED
  BY <1>3, <1>4, ConcatProperties DEF IsProgram

\* A program that is two, one after the other.
LEMMA Composition ==
  ASSUME NEW p, NEW q, NEW d, IsProgram(p), IsProgram(q)
  PROVE  IsProgram(p \o q) /\ Execute(p \o q, d) = Execute(q, Execute(p, d))
<1>1. /\ Len(p) \in Nat /\ Len(q) \in Nat
      /\ IsProgram(p \o q)
      /\ Len(p \o q) = Len(p) + Len(q)
      /\ \A i \in 1..Len(p) : (p \o q)[i] = p[i]
      /\ \A i \in 1..Len(q) : (p \o q)[Len(p) + i] = q[i]
  BY Concatenation
<1> DEFINE pq == p \o q
           m == Len(p)
           n == Len(q)
<1>2. PICK all : Trace(all, pq, d) /\ Execute(pq, d) = all[Len(pq)]
  <2>1. Len(pq) \in Nat
    BY <1>1
  <2> HIDE DEF pq
  <2>2. QED
    BY <2>1, ExecuteTrace
<1>3. PICK first : Trace(first, p, d) /\ Execute(p, d) = first[m]
  BY <1>1, ExecuteTrace
<1>4. PICK then : Trace(then, q, first[m]) /\ Execute(q, first[m]) = then[n]
  BY <1>1, ExecuteTrace
<1> HIDE DEF pq, m, n
<1>5. /\ all[0] = d /\ first[0] = d /\ then[0] = first[m]
      /\ \A i \in 1..(m + n) : all[i] = Do(all[i - 1], pq[i])
      /\ \A i \in 1..m : first[i] = Do(first[i - 1], p[i])
      /\ \A i \in 1..n : then[i] = Do(then[i - 1], q[i])
  <2>1. m \in Nat /\ n \in Nat /\ Len(pq) = m + n
    BY <1>1 DEF pq, m, n
  <2>2. /\ all = [i \in 0..(m + n) |-> IF i = 0 THEN d ELSE Do(all[i - 1], pq[i])]
        /\ first = [i \in 0..m |-> IF i = 0 THEN d ELSE Do(first[i - 1], p[i])]
        /\ then = [i \in 0..n |-> IF i = 0 THEN first[m] ELSE Do(then[i - 1], q[i])]
    BY <1>2, <1>3, <1>4, <2>1 DEF Trace, m, n
  <2>3. \A i \in 0..(m + n) : all[i] = IF i = 0 THEN d ELSE Do(all[i - 1], pq[i])
    BY <2>2, Zenon
  <2>4. \A i \in 0..m : first[i] = IF i = 0 THEN d ELSE Do(first[i - 1], p[i])
    BY <2>2, Zenon
  <2>5. \A i \in 0..n : then[i] = IF i = 0 THEN first[m] ELSE Do(then[i - 1], q[i])
    BY <2>2, Zenon
  <2>6. QED
    BY <2>1, <2>3, <2>4, <2>5
<1>6. \A i \in Nat : i <= m => all[i] = first[i]
  <2> DEFINE S == {i \in Nat : i <= m => all[i] = first[i]}
  <2>1. 0 \in S
    BY <1>5
  <2>2. ASSUME NEW i \in Nat, i \in S PROVE i + 1 \in S
    BY <1>1, <1>5, <2>2 DEF pq, m, n
  <2>3. Nat \subseteq S
    <3> HIDE DEF S
    <3> QED
      BY <2>1, <2>2, Induction
  <2>4. QED
    BY <2>3
<1>7. \A i \in Nat : i <= n => all[m + i] = then[i]
  <2> DEFINE S == {i \in Nat : i <= n => all[m + i] = then[i]}
  <2>1. 0 \in S
    BY <1>1, <1>5, <1>6 DEF m
  <2>2. ASSUME NEW i \in Nat, i \in S PROVE i + 1 \in S
    <3>1. SUFFICES ASSUME i + 1 <= n
                   PROVE  all[m + (i + 1)] = then[i + 1]
      OBVIOUS
    <3>2. m \in Nat /\ n \in Nat
      BY <1>1 DEF m, n
    <3>3. /\ i + 1 \in 1..n /\ (i + 1) - 1 = i /\ all[m + i] = then[i]
          /\ m + (i + 1) \in 1..(m + n) /\ (m + (i + 1)) - 1 = m + i
      BY <2>2, <3>1, <3>2
    <3>4. all[m + (i + 1)] = Do(all[m + i], pq[m + (i + 1)])
      BY <1>5, <3>3
    <3>5. then[i + 1] = Do(then[i], q[i + 1])
      BY <1>5, <3>3
    <3>6. pq[m + (i + 1)] = q[i + 1]
      BY <1>1, <3>3 DEF pq, m, n
    <3>7. QED
      BY <3>3, <3>4, <3>5, <3>6
  <2>3. Nat \subseteq S
    <3> HIDE DEF S
    <3> QED
      BY <2>1, <2>2, Induction
  <2>4. QED
    BY <2>3
<1>8. QED
  BY <1>1, <1>2, <1>3, <1>4, <1>7 DEF pq, m, n

\* A program of one step.
LEMMA OneStep ==
  ASSUME NEW x, NEW d
  PROVE  IsProgram(<<x>>) /\ Execute(<<x>>, d) = Do(d, x)
<1> DEFINE p == <<x>>
<1>1. Len(p) = 1 /\ p[1] = x
  OBVIOUS
<1>2. PICK run : Trace(run, p, d) /\ Execute(p, d) = run[1]
  <2> HIDE DEF p
  <2> QED
    BY <1>1, ExecuteTrace
<1>3. <<x>> \in Seq({x})
  OBVIOUS
<1>4. run = [i \in 0..1 |-> IF i = 0 THEN d ELSE Do(run[i - 1], p[i])]
  BY <1>1, <1>2 DEF Trace
<1>5. \A i \in 0..1 : run[i] = IF i = 0 THEN d ELSE Do(run[i - 1], p[i])
  BY <1>4, Zenon
<1>6. run[0] = d /\ run[1] = Do(run[0], p[1])
  BY <1>5
<1>7. IsProgram(p)
  BY <1>3, Zenon DEF IsProgram
<1> HIDE DEF p
<1>8. Execute(p, d) = Do(d, x)
  BY <1>1, <1>2, <1>6
<1>9. QED
  BY <1>7, <1>8 DEF p

-----------------------------------------------------------------------------
(* What an execution can meet, and how its parts compose.                  *)

\* The modes of the chip, and the registers that are sets of bits.
Modes == {"STDBY", "SLEEP", "TX", "RX"}
Registers == {"iqPolarity", "txModulation", "txClamp"}

\* A chip as the driver knows it.
ChipOK(c) ==
  /\ DOMAIN c = DOMAIN ResetChip
  /\ c.mode \in Modes
  /\ \A r \in Registers : c[r] \subseteq 0..7
  /\ IsFiniteSet(c.retained) /\ Cardinality(c.retained) <= MAX_NB_REG_IN_RETENTION

\* The watchdog timer.
Dogs == [on : BOOLEAN, ms : Nat, stalls : Nat, expired : BOOLEAN]

\* The state of an execution.
Machine(d) ==
  /\ DOMAIN d = {"chip", "cut", "buf", "skip", "n", "at", "dog"}
  /\ ChipOK(d.chip) /\ d.buf \subseteq 0..7
  /\ d.cut \in BOOLEAN /\ d.skip \in BOOLEAN
  /\ d.n \in Nat /\ d.at \in Nat
  /\ d.dog \in Dogs

\* The transaction that stalls lies between d and e.
Hit(d, e) == d.n < d.at /\ d.at <= e.n

\* The timer after a wait for BUSY that was in vain.
Late(dog) == [Pass(dog, BUSY_TIMEOUT_MS) EXCEPT !.stalls = @ + 1]

\* No pause, no watchdog.
Silent(d, e) ==
  /\ Machine(e) /\ e.at = d.at /\ d.n <= e.n
  /\ d.dog.expired => e = d
  /\ Hit(d, e) => e.dog = Late(d.dog)
  /\ ~Hit(d, e) => e.dog = d.dog

\* Nor a reset.
Bus(d, e) == Silent(d, e) /\ (e.cut <=> d.cut \/ Hit(d, e))

\* A stall in two parts of an execution is one in either, and never in both.
LEMMA HitTransitive ==
  ASSUME NEW d, NEW e, NEW f, Machine(d), Silent(d, e), Silent(e, f)
  PROVE  /\ Hit(d, f) <=> Hit(d, e) \/ Hit(e, f)
         /\ ~(Hit(d, e) /\ Hit(e, f))
  BY DEF Silent, Machine, Hit

\* Parts that neither pause nor touch the timer compose.
LEMMA SilentTransitive ==
  ASSUME NEW d, NEW e, NEW f, Machine(d), Silent(d, e), Silent(e, f)
  PROVE  Silent(d, f)
<1>1. /\ Hit(d, f) <=> Hit(d, e) \/ Hit(e, f)
      /\ ~(Hit(d, e) /\ Hit(e, f))
  BY HitTransitive
<1>2. d.n <= f.n
  BY DEF Silent, Machine
<1>3. QED
  BY <1>1, <1>2, Zenon DEF Silent

\* So do those that do not reset the chip either.
LEMMA BusTransitive ==
  ASSUME NEW d, NEW e, NEW f, Machine(d), Bus(d, e), Bus(e, f)
  PROVE  Bus(d, f)
<1>1. Hit(d, f) <=> Hit(d, e) \/ Hit(e, f)
  BY HitTransitive DEF Bus
<1>2. Silent(d, f)
  BY SilentTransitive DEF Bus
<1>3. QED
  BY <1>1, <1>2, Zenon DEF Bus

\* What the passing of time does to the timer.
LEMMA PassDog ==
  ASSUME NEW dog \in Dogs, NEW ms \in Nat
  PROVE  /\ Pass(dog, ms) \in Dogs
         /\ Pass(dog, ms).on = dog.on
         /\ Pass(dog, ms).stalls = dog.stalls
         /\ dog.on => /\ Pass(dog, ms).ms = dog.ms + ms
                      /\ Pass(dog, ms).expired <=> dog.expired \/ dog.ms + ms > WDT_PERIOD_MS
         /\ ~dog.on => Pass(dog, ms) = dog
<1>1. CASE ~dog.on
  BY <1>1 DEF Pass, Dogs
<1>2. CASE dog.on
  <2> DEFINE x == dog.expired \/ dog.ms + ms > WDT_PERIOD_MS
  <2>1. Pass(dog, ms) = [dog EXCEPT !.ms = dog.ms + ms, !.expired = x]
    BY <1>2 DEF Pass
  <2>2. x \in BOOLEAN
    BY Zenon
  <2>3. x <=> dog.expired \/ dog.ms + ms > WDT_PERIOD_MS
    OBVIOUS
  <2> HIDE DEF x
  <2> DEFINE p == Pass(dog, ms)
  <2>4. p = [on |-> dog.on, ms |-> dog.ms + ms, stalls |-> dog.stalls, expired |-> x]
    BY <2>1 DEF Dogs
  <2>5. dog.ms + ms \in Nat /\ dog.on \in BOOLEAN /\ dog.stalls \in Nat
    BY DEF Dogs
  <2> HIDE DEF p
  <2>6. /\ p \in Dogs /\ p.on = dog.on /\ p.stalls = dog.stalls
        /\ p.ms = dog.ms + ms /\ p.expired = x
    BY <2>2, <2>4, <2>5, Zenon DEF Dogs
  <2>7. p.expired <=> dog.expired \/ dog.ms + ms > WDT_PERIOD_MS
    BY <2>3, <2>6, Zenon
  <2>8. QED
    BY <1>2, <2>6, <2>7, Zenon DEF p
<1>3. QED
  BY <1>1, <1>2 DEF Dogs

\* What a stall does to it.
LEMMA LateDog ==
  ASSUME NEW dog \in Dogs
  PROVE  /\ Late(dog) \in Dogs
         /\ Late(dog).on = dog.on
         /\ Late(dog).stalls = dog.stalls + 1
         /\ Late(dog).ms = Pass(dog, BUSY_TIMEOUT_MS).ms
         /\ Late(dog).expired = Pass(dog, BUSY_TIMEOUT_MS).expired
<1> DEFINE p == Pass(dog, BUSY_TIMEOUT_MS)
<1>1. p \in Dogs /\ p.on = dog.on /\ p.stalls = dog.stalls
  BY PassDog, DriverAssumption
<1> HIDE DEF p
<1>2. Late(dog) = [p EXCEPT !.stalls = @ + 1]
  BY DEF Late, p
<1>3. QED
  BY <1>1, <1>2 DEF Dogs, p

\* A transaction that is made.
LEMMA TransactionStep ==
  ASSUME NEW d, NEW x, NEW e, Machine(d), e = Do(d, x),
         x.op \in Transactions \ {"reset"},
         NEW t, t = Transact(d, x), Machine(t),
         t.at = d.at, t.n = d.n + 1, t.dog = d.dog, t.cut = d.cut, t.skip = d.skip
  PROVE  /\ Bus(d, e)
         /\ d.dog.expired \/ d.skip \/ Hit(d, e) \/ e = t
<1>1. CASE d.dog.expired \/ d.skip
  <2>1. e = d
    BY <1>1 DEF Do, InCall
  <2>2. QED
    BY <1>1, <2>1 DEF Bus, Silent, Machine, Hit
<1>2. CASE ~d.dog.expired /\ ~d.skip /\ d.n + 1 = d.at
  <2>1. e = Stalled(d, x)
    BY <1>2 DEF Do, Step, Transactions
  <2>2. e = [d EXCEPT !.dog = Late(d.dog), !.n = @ + 1, !.cut = TRUE, !.skip = TRUE]
    BY <2>1 DEF Stalled, Late
  <2>3. Late(d.dog) \in Dogs
    BY LateDog DEF Machine
  <2>4. /\ DOMAIN e = {"chip", "cut", "buf", "skip", "n", "at", "dog"}
        /\ e.dog = Late(d.dog) /\ e.n = d.n + 1 /\ e.cut = TRUE /\ e.skip = TRUE
        /\ e.chip = d.chip /\ e.buf = d.buf /\ e.at = d.at
    BY <2>2 DEF Machine
  <2>5. Hit(d, e)
    BY <1>2, <2>4 DEF Machine, Hit
  <2>6. Machine(e)
    BY <2>3, <2>4 DEF Machine
  <2>7. d.n <= e.n
    BY <2>4 DEF Machine
  <2>8. QED
    BY <1>2, <2>4, <2>5, <2>6, <2>7, Zenon DEF Bus, Silent
<1>3. CASE ~d.dog.expired /\ ~d.skip /\ d.n + 1 # d.at
  <2>1. e = t
    BY <1>3 DEF Do, Step, Transactions
  <2>2. ~Hit(d, e) /\ d.n <= e.n
    BY <1>3, <2>1 DEF Hit, Machine
  <2>3. QED
    BY <1>3, <2>1, <2>2, Zenon DEF Bus, Silent
<1>4. QED
  BY <1>1, <1>2, <1>3

-----------------------------------------------------------------------------
(* Calls of the driver.                                                    *)

\* Programs of two, three and four steps.
LEMMA TwoSteps ==
  ASSUME NEW x, NEW y, NEW d
  PROVE  /\ IsProgram(<<x, y>>)
         /\ Execute(<<x, y>>, d) = Do(Do(d, x), y)
<1> DEFINE p == <<x, y>>
<1>1. Len(p) = 2 /\ p[1] = x /\ p[2] = y
  OBVIOUS
<1>2. <<x, y>> \in Seq({x, y})
  OBVIOUS
<1>3. IsProgram(p)
  BY <1>2, Zenon DEF IsProgram
<1> HIDE DEF p
<1>4. Len(p) \in Nat
  BY <1>1
<1>5. PICK run : Trace(run, p, d) /\ Execute(p, d) = run[Len(p)]
  BY <1>4, ExecuteTrace
<1>6. run = [i \in 0..2 |-> IF i = 0 THEN d ELSE Do(run[i - 1], p[i])]
  BY <1>1, <1>5 DEF Trace
<1>7. \A i \in 0..2 : run[i] = IF i = 0 THEN d ELSE Do(run[i - 1], p[i])
  BY <1>6, Zenon
<1>8. run[0] = d /\ run[1] = Do(run[0], p[1]) /\ run[2] = Do(run[1], p[2])
  BY <1>7
<1>9. Execute(p, d) = Do(Do(d, x), y)
  BY <1>1, <1>5, <1>8
<1>10. QED
  BY <1>3, <1>9 DEF p

\* A program of three steps.
LEMMA ThreeSteps ==
  ASSUME NEW x, NEW y, NEW z, NEW d
  PROVE  /\ IsProgram(<<x, y, z>>)
         /\ Execute(<<x, y, z>>, d) = Do(Do(Do(d, x), y), z)
<1> DEFINE p == <<x, y, z>>
<1>1. Len(p) = 3 /\ p[1] = x /\ p[2] = y /\ p[3] = z
  OBVIOUS
<1>2. <<x, y, z>> \in Seq({x, y, z})
  OBVIOUS
<1>3. IsProgram(p)
  BY <1>2, Zenon DEF IsProgram
<1> HIDE DEF p
<1>4. Len(p) \in Nat
  BY <1>1
<1>5. PICK run : Trace(run, p, d) /\ Execute(p, d) = run[Len(p)]
  BY <1>4, ExecuteTrace
<1>6. run = [i \in 0..3 |-> IF i = 0 THEN d ELSE Do(run[i - 1], p[i])]
  BY <1>1, <1>5 DEF Trace
<1>7. \A i \in 0..3 : run[i] = IF i = 0 THEN d ELSE Do(run[i - 1], p[i])
  BY <1>6, Zenon
<1>8. /\ run[0] = d /\ run[1] = Do(run[0], p[1]) /\ run[2] = Do(run[1], p[2])
      /\ run[3] = Do(run[2], p[3])
  BY <1>7
<1>9. Execute(p, d) = Do(Do(Do(d, x), y), z)
  BY <1>1, <1>5, <1>8
<1>10. QED
  BY <1>3, <1>9 DEF p

\* A program of four steps.
LEMMA FourSteps ==
  ASSUME NEW w, NEW x, NEW y, NEW z, NEW d
  PROVE  /\ IsProgram(<<w, x, y, z>>)
         /\ Execute(<<w, x, y, z>>, d) = Do(Do(Do(Do(d, w), x), y), z)
<1> DEFINE p == <<w, x, y, z>>
<1>1. Len(p) = 4 /\ p[1] = w /\ p[2] = x /\ p[3] = y /\ p[4] = z
  OBVIOUS
<1>2. <<w, x, y, z>> \in Seq({w, x, y, z})
  OBVIOUS
<1>3. IsProgram(p)
  BY <1>2, Zenon DEF IsProgram
<1> HIDE DEF p
<1>4. Len(p) \in Nat
  BY <1>1
<1>5. PICK run : Trace(run, p, d) /\ Execute(p, d) = run[Len(p)]
  BY <1>4, ExecuteTrace
<1>6. run = [i \in 0..4 |-> IF i = 0 THEN d ELSE Do(run[i - 1], p[i])]
  BY <1>1, <1>5 DEF Trace
<1>7. \A i \in 0..4 : run[i] = IF i = 0 THEN d ELSE Do(run[i - 1], p[i])
  BY <1>6, Zenon
<1>8. /\ run[0] = d /\ run[1] = Do(run[0], p[1]) /\ run[2] = Do(run[1], p[2])
      /\ run[3] = Do(run[2], p[3]) /\ run[4] = Do(run[3], p[4])
  BY <1>7
<1>9. Execute(p, d) = Do(Do(Do(Do(d, w), x), y), z)
  BY <1>1, <1>5, <1>8
<1>10. QED
  BY <1>3, <1>9 DEF p

\* The start of a call.
Started(d) == Do(d, [op |-> "call"])

\* A call is its start and its steps.
LEMMA CallSteps ==
  ASSUME NEW p, NEW d, IsProgram(p)
  PROVE  IsProgram(Call(p)) /\ Execute(Call(p), d) = Execute(p, Started(d))
  BY OneStep, Composition DEF Call, Started

\* The start of a call clears the error of the call before, and changes nothing else.
LEMMA StartedCall ==
  ASSUME NEW d, Machine(d), NEW e, e = Started(d)
  PROVE  /\ Bus(d, e) /\ ~Hit(d, e)
         /\ e.chip = d.chip /\ e.buf = d.buf
         /\ d.dog.expired \/ ~e.skip
<1>1. CASE d.dog.expired
  <2>1. e = d
    BY <1>1 DEF Started, Do
  <2>2. QED
    BY <1>1, <2>1 DEF Bus, Silent, Machine, Hit
<1>2. CASE ~d.dog.expired
  <2> DEFINE x == [op |-> "call"]
  <2>1. x.op = "call" /\ x.op \notin InCall
    BY DEF InCall, Transactions
  <2> HIDE DEF x
  <2>2. e = Step(d, x)
    BY <1>2, <2>1 DEF Started, Do, x
  <2>3. e = [d EXCEPT !.skip = FALSE]
    BY <2>1, <2>2 DEF Step, Transactions
  <2>4. /\ e.chip = d.chip /\ e.buf = d.buf /\ e.skip = FALSE /\ e.cut = d.cut
        /\ e.n = d.n /\ e.at = d.at /\ e.dog = d.dog
        /\ DOMAIN e = {"chip", "cut", "buf", "skip", "n", "at", "dog"}
    BY <2>3 DEF Machine
  <2>5. ~Hit(d, e) /\ d.n <= e.n
    BY <2>4 DEF Machine, Hit
  <2>6. Machine(e)
    BY <2>4 DEF Machine
  <2>7. QED
    BY <1>2, <2>6, <2>4, <2>5, Zenon DEF Bus, Silent
<1>3. QED
  BY <1>1, <1>2

-----------------------------------------------------------------------------
(* Steps.                                                                  *)

\* The transactions between d and e are not made, or not all of them.
Lost(d, e) == d.dog.expired \/ d.skip \/ Hit(d, e)

\* The chip e is c with the fields f overwritten.
Changed(c, e, f) ==
  /\ DOMAIN e = DOMAIN c
  /\ \A r \in DOMAIN c : e[r] = IF r \in DOMAIN f THEN f[r] ELSE c[r]

\* Set() overwrites the fields it is given.
LEMMA OverwriteChanges ==
  ASSUME NEW c, NEW f
  PROVE  Changed(c, Overwrite(c, f), f)
  BY DEF Changed, Overwrite

\* Fields that Set() may be given: no register of bits, no retention list.
Fields(f) ==
  /\ DOMAIN f \cap (Registers \cup {"retained"}) = {}
  /\ "mode" \in DOMAIN f => f["mode"] \in Modes

\* A chip with fields overwritten is still one the driver knows.
LEMMA ChangedChip ==
  ASSUME NEW c, ChipOK(c), NEW f, Fields(f), NEW e, Changed(c, e, f)
  PROVE  ChipOK(e)
<1>1. /\ "mode" \in DOMAIN c /\ "retained" \in DOMAIN c
      /\ \A r \in Registers : r \in DOMAIN c
  BY DEF ChipOK, ResetChip, Registers
<1>2. \A r \in Registers : e[r] = c[r]
  BY <1>1 DEF Fields, Changed
<1>3. e.retained = c.retained
  BY <1>1 DEF Fields, Changed
<1>4. e.mode \in Modes
  BY <1>1 DEF Fields, Changed, ChipOK
<1>5. QED
  BY <1>2, <1>3, <1>4 DEF Changed, ChipOK

\* A Set() that is not lost overwrites the fields.
LEMMA SetStep ==
  ASSUME NEW d, Machine(d), NEW f, Fields(f), NEW e, e = Do(d, Set(f))
  PROVE  /\ Bus(d, e)
         /\ \/ Lost(d, e)
            \/ Changed(d.chip, e.chip, f) /\ e.buf = d.buf /\ ~e.skip
<1> DEFINE t == Transact(d, Set(f))
           o == Overwrite(d.chip, f)
<1>1. ChipOK(o) /\ Changed(d.chip, o, f)
  BY OverwriteChanges, ChangedChip DEF Machine
<1>2. t = [d EXCEPT !.n = @ + 1, !.chip = o]
  BY DEF Transact, Set
<1> HIDE DEF o, t
<1>3. /\ t.chip = o /\ t.buf = d.buf /\ t.skip = d.skip /\ t.cut = d.cut
      /\ t.n = d.n + 1 /\ t.at = d.at /\ t.dog = d.dog
      /\ DOMAIN t = {"chip", "cut", "buf", "skip", "n", "at", "dog"}
  BY <1>2 DEF Machine
<1>4. Machine(t)
  BY <1>1, <1>3 DEF Machine
<1>5. Set(f).op \in Transactions \ {"reset"}
  BY DEF Set, Transactions
<1>6. Bus(d, e) /\ (d.dog.expired \/ d.skip \/ Hit(d, e) \/ e = t)
  BY <1>3, <1>4, <1>5, TransactionStep DEF t
<1>7. QED
  BY <1>1, <1>3, <1>6 DEF Lost

\* A Read() that is not lost fetches the register.
LEMMA ReadStep ==
  ASSUME NEW d, Machine(d), NEW r \in Registers, NEW e, e = Do(d, Read(r))
  PROVE  /\ Bus(d, e)
         /\ \/ Lost(d, e)
            \/ e.chip = d.chip /\ e.buf = d.chip[r] /\ ~e.skip
<1> DEFINE t == Transact(d, Read(r))
<1>1. t = [d EXCEPT !.n = @ + 1, !.buf = d.chip[r]]
  BY DEF Transact, Read
<1> HIDE DEF t
<1>2. /\ t.chip = d.chip /\ t.buf = d.chip[r] /\ t.skip = d.skip /\ t.cut = d.cut
      /\ t.n = d.n + 1 /\ t.at = d.at /\ t.dog = d.dog
      /\ DOMAIN t = {"chip", "cut", "buf", "skip", "n", "at", "dog"}
  BY <1>1 DEF Machine
<1>3. Machine(t)
  BY <1>2 DEF Machine, ChipOK
<1>4. Read(r).op \in Transactions \ {"reset"}
  BY DEF Read, Transactions
<1>5. Bus(d, e) /\ (d.dog.expired \/ d.skip \/ Hit(d, e) \/ e = t)
  BY <1>2, <1>3, <1>4, TransactionStep DEF t
<1>6. QED
  BY <1>2, <1>5 DEF Lost

\* f is a record with a register for its only field.
LEMMA WriteStep ==
  ASSUME NEW d, Machine(d), NEW r \in Registers, NEW e, e = Do(d, Write(r))
  PROVE  /\ Bus(d, e)
         /\ \/ Lost(d, e)
            \/ /\ e.chip[r] = d.buf /\ e.buf = d.buf /\ ~e.skip
               /\ DOMAIN e.chip = DOMAIN d.chip
               /\ \A s \in DOMAIN d.chip : s # r => e.chip[s] = d.chip[s]
<1> DEFINE t == Transact(d, Write(r))
           c == [d.chip EXCEPT ![r] = d.buf]
<1>1. t = [d EXCEPT !.n = @ + 1, !.chip = c]
  BY DEF Transact, Write, Machine
<1>2. /\ DOMAIN c = DOMAIN d.chip
      /\ c[r] = d.buf
      /\ \A s \in DOMAIN d.chip : s # r => c[s] = d.chip[s]
  BY DEF Machine, ChipOK, Registers, ResetChip
<1> HIDE DEF t, c
<1>3. /\ t.chip = c /\ t.buf = d.buf /\ t.skip = d.skip /\ t.cut = d.cut
      /\ t.n = d.n + 1 /\ t.at = d.at /\ t.dog = d.dog
      /\ DOMAIN t = {"chip", "cut", "buf", "skip", "n", "at", "dog"}
  BY <1>1 DEF Machine
<1>4. ChipOK(c)
  <2>1. /\ {"mode", "retained"} \subseteq DOMAIN d.chip /\ Registers \subseteq DOMAIN d.chip
        /\ "mode" # r /\ "retained" # r
    BY DEF Machine, ChipOK, Registers, ResetChip
  <2>2. c.mode = d.chip.mode /\ c.retained = d.chip.retained
    BY <1>2, <2>1
  <2>3. \A s \in Registers : c[s] \subseteq 0..7
    BY <1>2, <2>1 DEF Machine, ChipOK
  <2>4. QED
    BY <1>2, <2>2, <2>3 DEF Machine, ChipOK
<1>5. Machine(t)
  BY <1>3, <1>4 DEF Machine
<1>6. Write(r).op \in Transactions \ {"reset"}
  BY DEF Write, Transactions
<1>7. Bus(d, e) /\ (d.dog.expired \/ d.skip \/ Hit(d, e) \/ e = t)
  BY <1>3, <1>5, <1>6, TransactionStep DEF t
<1>8. QED
  BY <1>2, <1>3, <1>7 DEF Lost

\* A step that is not a transaction, within a call.
LEMMA ByteStep ==
  ASSUME NEW d, Machine(d), NEW x, x.op \in {"local", "modify"},
         NEW b, b \subseteq 0..7, Step(d, x) = [d EXCEPT !.buf = b],
         NEW e, e = Do(d, x)
  PROVE  /\ Bus(d, e)
         /\ \/ Lost(d, e)
            \/ e.chip = d.chip /\ e.buf = b /\ ~e.skip
<1>1. CASE d.dog.expired \/ d.skip
  <2>1. e = d
    BY <1>1 DEF Do, InCall
  <2>2. QED
    BY <1>1, <2>1 DEF Bus, Silent, Machine, Hit, Lost
<1>2. CASE ~d.dog.expired /\ ~d.skip
  <2>1. e = Step(d, x)
    BY <1>2 DEF Do
  <2>2. e = [d EXCEPT !.buf = b]
    BY <2>1
  <2>3. /\ e.chip = d.chip /\ e.buf = b /\ e.skip = d.skip /\ e.cut = d.cut
        /\ e.n = d.n /\ e.at = d.at /\ e.dog = d.dog
        /\ DOMAIN e = {"chip", "cut", "buf", "skip", "n", "at", "dog"}
    BY <2>2 DEF Machine
  <2>4. ~Hit(d, e) /\ d.n <= e.n
    BY <2>3 DEF Machine, Hit
  <2>5. Machine(e)
    BY <2>3 DEF Machine
  <2>6. QED
    BY <1>2, <2>3, <2>4, <2>5, Zenon DEF Bus, Silent
<1>3. QED
  BY <1>1, <1>2

\* Arithmetic on the byte that has been read.
LEMMA ModifyStep ==
  ASSUME NEW d, Machine(d), NEW off, NEW on \in SUBSET (0..7), NEW e, e = Do(d, Modify(off, on))
  PROVE  /\ Bus(d, e)
         /\ \/ Lost(d, e)
            \/ e.chip = d.chip /\ e.buf = (d.buf \ off) \cup on /\ ~e.skip
<1> DEFINE x == Modify(off, on)
           b == (d.buf \ off) \cup on
<1>1. x.op = "modify" /\ x.off = off /\ x.on = on
  BY DEF Modify
<1>2. b \subseteq 0..7
  BY DEF Machine
<1> HIDE DEF x, b
<1>3. Step(d, x) = [d EXCEPT !.buf = b]
  BY <1>1 DEF Step, Transactions, b
<1>4. e = Do(d, x)
  BY DEF x
<1>5. /\ Bus(d, e)
      /\ \/ Lost(d, e)
         \/ e.chip = d.chip /\ e.buf = b /\ ~e.skip
  BY <1>1, <1>2, <1>3, <1>4, ByteStep
<1>6. QED
  BY <1>5 DEF b

\* The local variable of the IQ workaround.
LEMMA LocalStep ==
  ASSUME NEW d, Machine(d), NEW e, e = Do(d, [op |-> "local"])
  PROVE  /\ Bus(d, e)
         /\ \/ Lost(d, e)
            \/ e.chip = d.chip /\ ~e.skip
<1> DEFINE x == [op |-> "local"]
           b == {}
<1>1. x.op = "local" /\ b \subseteq 0..7 /\ b = {}
  OBVIOUS
<1>2. e = Do(d, x)
  OBVIOUS
<1> HIDE DEF x, b
<1>3. Step(d, x) = [d EXCEPT !.buf = b]
  BY <1>1 DEF Step, Transactions
<1>4. QED
  BY <1>3, <1>1, <1>2, ByteStep

\* A transaction of which nothing is kept.
LEMMA ExchangeStep ==
  ASSUME NEW d, Machine(d), NEW e, e = Do(d, Exchange)
  PROVE  /\ Bus(d, e)
         /\ \/ Lost(d, e)
            \/ e.chip = d.chip /\ ~e.skip
<1> DEFINE t == Transact(d, Exchange)
<1>1. t = [d EXCEPT !.n = @ + 1]
  BY DEF Transact, Exchange
<1> HIDE DEF t
<1>2. /\ t.chip = d.chip /\ t.buf = d.buf /\ t.skip = d.skip /\ t.cut = d.cut
      /\ t.n = d.n + 1 /\ t.at = d.at /\ t.dog = d.dog
      /\ DOMAIN t = {"chip", "cut", "buf", "skip", "n", "at", "dog"}
  BY <1>1 DEF Machine
<1>3. Machine(t)
  BY <1>2 DEF Machine
<1>4. Exchange.op \in Transactions \ {"reset"}
  BY DEF Exchange, Transactions
<1>5. Bus(d, e) /\ (d.dog.expired \/ d.skip \/ Hit(d, e) \/ e = t)
  BY <1>2, <1>3, <1>4, TransactionStep DEF t
<1>6. QED
  BY <1>2, <1>5 DEF Lost

\* A step that overwrites one field that is not among those of Fields.
LEMMA CalStep ==
  ASSUME NEW d, Machine(d), NEW e, e = Do(d, [op |-> "cal"])
  PROVE  /\ Bus(d, e)
         /\ \/ Lost(d, e)
            \/ Changed(d.chip, e.chip, [calibrated |-> d.chip.tcxo]) /\ ~e.skip
<1> DEFINE x == [op |-> "cal"]
           t == Transact(d, x)
           f == [calibrated |-> d.chip.tcxo]
           c == [d.chip EXCEPT !.calibrated = d.chip.tcxo]
<1>1. t = [d EXCEPT !.n = @ + 1, !.chip = c]
  <2>1. t = [d EXCEPT !.n = @ + 1, !.chip.calibrated = d.chip.tcxo]
    BY DEF Transact
  <2>2. QED
    BY <2>1 DEF Machine
<1>2. Changed(d.chip, c, f)
  BY DEF Machine, ChipOK, ResetChip, Changed
<1>3. Fields(f)
  BY DEF Fields, Registers
<1>4. x.op \in Transactions \ {"reset"} /\ e = Do(d, x)
  BY DEF Transactions
<1> HIDE DEF x, t, c, f
<1>5. ChipOK(c)
  BY <1>2, <1>3, ChangedChip DEF Machine
<1>6. /\ t.chip = c /\ t.buf = d.buf /\ t.skip = d.skip /\ t.cut = d.cut
      /\ t.n = d.n + 1 /\ t.at = d.at /\ t.dog = d.dog
      /\ DOMAIN t = {"chip", "cut", "buf", "skip", "n", "at", "dog"}
  BY <1>1 DEF Machine
<1>7. Machine(t)
  BY <1>5, <1>6 DEF Machine
<1>8. Bus(d, e) /\ (d.dog.expired \/ d.skip \/ Hit(d, e) \/ e = t)
  BY <1>4, <1>6, <1>7, TransactionStep DEF t
<1>9. QED
  BY <1>2, <1>6, <1>8 DEF Lost, f

\* The retention list never has more entries than the chip has room for.
LEMMA RetainedList ==
  ASSUME NEW list, NEW regs, IsFiniteSet(list), IsFiniteSet(regs),
         Cardinality(list) <= MAX_NB_REG_IN_RETENTION
  PROVE  /\ IsFiniteSet(Retained(list, regs))
         /\ Cardinality(Retained(list, regs)) <= MAX_NB_REG_IN_RETENTION
<1>1. IsFiniteSet(list \cup regs)
  BY FS_Union
<1>2. Cardinality(list \cup regs) \in Nat
  BY <1>1, FS_CardinalityType
<1>3. QED
  BY <1>1, <1>2 DEF Retained, MAX_NB_REG_IN_RETENTION

\* Registers are added to the retention list.
LEMMA RetainStep ==
  ASSUME NEW d, Machine(d), NEW regs, IsFiniteSet(regs),
         NEW e, e = Do(d, [op |-> "retain", regs |-> regs])
  PROVE  /\ Bus(d, e)
         /\ \/ Lost(d, e)
            \/ /\ Changed(d.chip, e.chip, [retained |-> Retained(d.chip.retained, regs)])
               /\ ~e.skip
<1> DEFINE x == [op |-> "retain", regs |-> regs]
           t == Transact(d, x)
           l == Retained(d.chip.retained, regs)
           f == [retained |-> l]
           c == [d.chip EXCEPT !.retained = l]
<1>1. t = [d EXCEPT !.n = @ + 1, !.chip = c]
  <2>1. t = [d EXCEPT !.n = @ + 1, !.chip.retained = l]
    BY DEF Transact
  <2>2. QED
    BY <2>1 DEF Machine
<1>2. IsFiniteSet(l) /\ Cardinality(l) <= MAX_NB_REG_IN_RETENTION
  BY RetainedList DEF Machine, ChipOK
<1>3. x.op \in Transactions \ {"reset"} /\ e = Do(d, x)
  BY DEF Transactions
<1> HIDE DEF x, t, l
<1>4. Changed(d.chip, c, f)
  BY DEF Machine, ChipOK, ResetChip, Changed
<1>5. c.retained = l /\ DOMAIN c = DOMAIN d.chip
      /\ \A r \in Registers \cup {"mode"} : c[r] = d.chip[r]
  BY DEF Machine, ChipOK, ResetChip, Registers
<1> HIDE DEF c, f
<1>6. ChipOK(c)
  BY <1>2, <1>5 DEF Machine, ChipOK
<1>7. /\ t.chip = c /\ t.buf = d.buf /\ t.skip = d.skip /\ t.cut = d.cut
      /\ t.n = d.n + 1 /\ t.at = d.at /\ t.dog = d.dog
      /\ DOMAIN t = {"chip", "cut", "buf", "skip", "n", "at", "dog"}
  BY <1>1 DEF Machine
<1>8. Machine(t)
  BY <1>6, <1>7 DEF Machine
<1>9. Bus(d, e) /\ (d.dog.expired \/ d.skip \/ Hit(d, e) \/ e = t)
  BY <1>3, <1>7, <1>8, TransactionStep DEF t
<1>10. QED
  BY <1>4, <1>7, <1>9 DEF Lost, f, l

\* One field.
Sole(r, v) == [s \in {r} |-> v]

\* Nothing is lost on the way if nothing is lost in all.
LEMMA NothingLost ==
  ASSUME NEW d, NEW e, NEW f, Machine(d), Bus(d, e), Bus(e, f), ~Lost(d, f)
  PROVE  /\ ~Lost(d, e)
         /\ ~e.skip => ~Lost(e, f)
<1>1. ~Hit(d, e) /\ ~Hit(e, f)
  BY HitTransitive DEF Bus, Lost
<1>2. e.dog = d.dog
  BY <1>1 DEF Bus, Silent
<1>3. QED
  BY <1>1, <1>2 DEF Lost

\* A register is read, modified and written back.
LEMMA ReadModifyWrite ==
  ASSUME NEW d, Machine(d), NEW r \in Registers, NEW off, NEW on \in SUBSET (0..7),
         NEW e, e = Do(Do(Do(d, Read(r)), Modify(off, on)), Write(r))
  PROVE  /\ Bus(d, e)
         /\ \/ Lost(d, e)
            \/ Changed(d.chip, e.chip, Sole(r, (d.chip[r] \ off) \cup on)) /\ ~e.skip
<1> DEFINE a == Do(d, Read(r))
           b == Do(a, Modify(off, on))
<1>1. e = Do(b, Write(r))
  OBVIOUS
<1> HIDE DEF a, b
<1>2. /\ Bus(d, a)
      /\ \/ Lost(d, a)
         \/ a.chip = d.chip /\ a.buf = d.chip[r] /\ ~a.skip
  BY ReadStep DEF a
<1>3. /\ Bus(a, b)
      /\ \/ Lost(a, b)
         \/ b.chip = a.chip /\ b.buf = (a.buf \ off) \cup on /\ ~b.skip
  <2>1. Machine(a)
    BY <1>2 DEF Bus, Silent
  <2>2. QED
    BY <2>1, ModifyStep DEF b
<1>4. /\ Bus(b, e)
      /\ \/ Lost(b, e)
         \/ /\ e.chip[r] = b.buf /\ e.buf = b.buf /\ ~e.skip
            /\ DOMAIN e.chip = DOMAIN b.chip
            /\ \A s \in DOMAIN b.chip : s # r => e.chip[s] = b.chip[s]
  <2>1. Machine(b)
    BY <1>3 DEF Bus, Silent
  <2>2. QED
    BY <1>1, <2>1, WriteStep
<1>5. Bus(d, b) /\ Bus(d, e)
  BY <1>2, <1>3, <1>4, BusTransitive
<1>6. ASSUME ~Lost(d, e)
      PROVE  Changed(d.chip, e.chip, Sole(r, (d.chip[r] \ off) \cup on)) /\ ~e.skip
  <2>1. ~Lost(d, b) /\ (~b.skip => ~Lost(b, e))
    BY <1>4, <1>5, <1>6, NothingLost
  <2>2. ~Lost(d, a) /\ (~a.skip => ~Lost(a, b))
    BY <1>2, <1>3, <2>1, NothingLost
  <2>3. e.chip[r] = (d.chip[r] \ off) \cup on /\ ~e.skip
    BY <1>2, <1>3, <1>4, <2>1, <2>2
  <2>4. DOMAIN e.chip = DOMAIN d.chip /\ \A s \in DOMAIN d.chip : s # r => e.chip[s] = d.chip[s]
    BY <1>2, <1>3, <1>4, <2>1, <2>2
  <2>5. QED
    BY <2>3, <2>4 DEF Changed, Sole
<1>7. QED
  BY <1>5, <1>6

-----------------------------------------------------------------------------
(* Whole calls.                                                            *)

\* The call or program from d to e is not carried out, or not all of it.
Failed(d, e) == d.dog.expired \/ Hit(d, e)

\* From what the steps of a call do to what the call does.
LEMMA CallBus ==
  ASSUME NEW p, IsProgram(p), NEW d, Machine(d), NEW e, e = Execute(Call(p), d)
  PROVE  /\ IsProgram(Call(p))
         /\ \E s : /\ e = Execute(p, s) /\ Machine(s) /\ Bus(d, s)
                   /\ s.chip = d.chip /\ s.buf = d.buf /\ s.dog = d.dog
                   /\ d.dog.expired \/ ~s.skip
                   /\ Bus(s, e) => /\ Bus(d, e)
                                   /\ ~Failed(d, e) => ~Lost(s, e)
<1> DEFINE s == Started(d)
<1>1. IsProgram(Call(p)) /\ e = Execute(p, s)
  BY CallSteps
<1>2. /\ Bus(d, s) /\ ~Hit(d, s)
      /\ s.chip = d.chip /\ s.buf = d.buf
      /\ d.dog.expired \/ ~s.skip
  BY StartedCall
<1> HIDE DEF s
<1>3. Machine(s)
  BY <1>2 DEF Bus, Silent
<1>4. s.dog = d.dog
  BY <1>2 DEF Bus, Silent
<1>5. ASSUME Bus(s, e)
      PROVE  /\ Bus(d, e)
             /\ ~Failed(d, e) => ~Lost(s, e)
  <2>1. Bus(d, e)
    BY <1>2, <1>5, BusTransitive
  <2>2. Hit(d, e) <=> Hit(d, s) \/ Hit(s, e)
    BY <1>2, <1>5, HitTransitive DEF Bus
  <2>3. QED
    BY <1>2, <1>4, <2>1, <2>2 DEF Failed, Lost
<1>6. QED
  BY <1>1, <1>2, <1>3, <1>4, <1>5

\* A call of the driver that only sends a command.
LEMMA CommandCall ==
  ASSUME NEW f, Fields(f), NEW d, Machine(d), NEW e, e = Execute(Command(f), d)
  PROVE  /\ IsProgram(Command(f)) /\ Bus(d, e)
         /\ Failed(d, e) \/ Changed(d.chip, e.chip, f)
<1>1. IsProgram(<<Set(f)>>)
  BY OneStep
<1>2. PICK s : /\ e = Execute(<<Set(f)>>, s) /\ Machine(s) /\ s.chip = d.chip
               /\ Bus(s, e) => /\ Bus(d, e)
                               /\ ~Failed(d, e) => ~Lost(s, e)
  BY <1>1, CallBus DEF Command
<1>3. e = Do(s, Set(f))
  BY <1>2, OneStep
<1>4. /\ Bus(s, e)
      /\ \/ Lost(s, e)
         \/ Changed(s.chip, e.chip, f) /\ e.buf = s.buf /\ ~e.skip
  BY <1>2, <1>3, SetStep
<1>5. IsProgram(Command(f))
  BY <1>1, CallBus DEF Command
<1>6. QED
  BY <1>2, <1>4, <1>5

\* A query leaves the chip alone.
LEMMA QueryCall ==
  ASSUME NEW d, Machine(d), NEW e, e = Execute(Query, d)
  PROVE  /\ IsProgram(Query) /\ Bus(d, e)
         /\ Failed(d, e) \/ e.chip = d.chip
<1>1. IsProgram(<<Exchange>>)
  BY OneStep
<1>2. PICK s : /\ e = Execute(<<Exchange>>, s) /\ Machine(s) /\ s.chip = d.chip
               /\ Bus(s, e) => /\ Bus(d, e)
                               /\ ~Failed(d, e) => ~Lost(s, e)
  BY <1>1, CallBus DEF Query
<1>3. e = Do(s, Exchange)
  BY <1>2, OneStep
<1>4. /\ Bus(s, e)
      /\ \/ Lost(s, e)
         \/ e.chip = s.chip /\ ~e.skip
  BY <1>2, <1>3, ExchangeStep
<1>5. IsProgram(Query)
  BY <1>1, CallBus DEF Query
<1>6. QED
  BY <1>2, <1>4, <1>5

\* sx126x_cal().
LEMMA CalCall ==
  ASSUME NEW d, Machine(d), NEW e, e = Execute(cal, d)
  PROVE  /\ IsProgram(cal) /\ Bus(d, e)
         /\ Failed(d, e) \/ Changed(d.chip, e.chip, [calibrated |-> d.chip.tcxo])
<1> DEFINE x == [op |-> "cal"]
<1>1. IsProgram(<<x>>)
  BY OneStep
<1>2. PICK s : /\ e = Execute(<<x>>, s) /\ Machine(s) /\ s.chip = d.chip
               /\ Bus(s, e) => /\ Bus(d, e)
                               /\ ~Failed(d, e) => ~Lost(s, e)
  BY <1>1, CallBus DEF cal
<1>3. e = Do(s, x)
  BY <1>2, OneStep
<1>4. /\ Bus(s, e)
      /\ \/ Lost(s, e)
         \/ Changed(s.chip, e.chip, [calibrated |-> s.chip.tcxo]) /\ ~e.skip
  BY <1>2, <1>3, CalStep
<1>5. IsProgram(cal)
  BY <1>1, CallBus DEF cal
<1>6. QED
  BY <1>2, <1>4, <1>5

\* sx126x_add_registers_to_retention_list().
LEMMA RetentionCall ==
  ASSUME NEW regs, IsFiniteSet(regs), NEW d, Machine(d),
         NEW e, e = Execute(add_registers_to_retention_list(regs), d)
  PROVE  /\ IsProgram(add_registers_to_retention_list(regs)) /\ Bus(d, e)
         /\ \/ Failed(d, e)
            \/ Changed(d.chip, e.chip, [retained |-> Retained(d.chip.retained, regs)])
<1> DEFINE x == [op |-> "retain", regs |-> regs]
           p == <<Exchange, x>>
<1>1. IsProgram(p)
  BY TwoSteps
<1>2. PICK s : /\ e = Execute(p, s) /\ Machine(s) /\ s.chip = d.chip
               /\ Bus(s, e) => /\ Bus(d, e)
                               /\ ~Failed(d, e) => ~Lost(s, e)
  BY <1>1, CallBus DEF add_registers_to_retention_list
<1> DEFINE a == Do(s, Exchange)
<1>3. e = Do(a, x)
  BY <1>2, TwoSteps
<1> HIDE DEF a
<1>4. /\ Bus(s, a)
      /\ \/ Lost(s, a)
         \/ a.chip = s.chip /\ ~a.skip
  BY <1>2, ExchangeStep DEF a
<1>5. /\ Bus(a, e)
      /\ \/ Lost(a, e)
         \/ Changed(a.chip, e.chip, [retained |-> Retained(a.chip.retained, regs)]) /\ ~e.skip
  <2>1. Machine(a)
    BY <1>4 DEF Bus, Silent
  <2>2. QED
    BY <1>3, <2>1, RetainStep
<1>6. Bus(s, e)
  BY <1>2, <1>4, <1>5, BusTransitive
<1>7. ~Lost(s, e) => ~Lost(s, a) /\ (~a.skip => ~Lost(a, e))
  BY <1>2, <1>4, <1>5, NothingLost
<1>8. IsProgram(add_registers_to_retention_list(regs))
  BY <1>1, CallBus DEF add_registers_to_retention_list
<1>9. QED
  BY <1>2, <1>4, <1>5, <1>6, <1>7, <1>8

\* An execution that does not fail has no part that does.
LEMMA NothingFailed ==
  ASSUME NEW d, NEW e, NEW f, Machine(d), Silent(d, e), Silent(e, f), ~Failed(d, f)
  PROVE  ~Failed(d, e) /\ ~Failed(e, f)
<1>1. ~Hit(d, e) /\ ~Hit(e, f)
  BY HitTransitive DEF Failed
<1>2. e.dog = d.dog
  BY <1>1 DEF Silent
<1>3. QED
  BY <1>1, <1>2 DEF Failed

\* sx126x_set_lora_mod_params(), with the workaround of datasheet 15.1.
LEMMA ModulationCall ==
  ASSUME NEW m, m.bw # "BW_500",
         NEW d, Machine(d), NEW e, e = Execute(set_lora_mod_params(m), d)
  PROVE  /\ IsProgram(set_lora_mod_params(m)) /\ Bus(d, e)
         /\ \/ Failed(d, e)
            \/ Changed(d.chip, e.chip,
                       [mod |-> m, txModulation |-> d.chip.txModulation \cup {2}])
<1> DEFINE f == [mod |-> m]
           r == "txModulation"
           w == <<Read(r), Modify({}, {2}), Write(r)>>
           p == <<Set(f)>> \o w
<1>1. set_lora_mod_params(m) = Call(p)
  BY DEF set_lora_mod_params, tx_modulation_workaround
<1>2. IsProgram(<<Set(f)>>) /\ IsProgram(w)
  BY OneStep, ThreeSteps
<1>3. IsProgram(p)
  BY <1>2, Composition
<1>4. PICK s : /\ e = Execute(p, s) /\ Machine(s) /\ s.chip = d.chip
               /\ Bus(s, e) => /\ Bus(d, e)
                               /\ ~Failed(d, e) => ~Lost(s, e)
  BY <1>1, <1>3, CallBus
<1> DEFINE a == Do(s, Set(f))
<1>5. e = Do(Do(Do(a, Read(r)), Modify({}, {2})), Write(r))
  <2>1. e = Execute(w, Execute(<<Set(f)>>, s))
    BY <1>2, <1>4, Composition
  <2>2. QED
    BY <2>1, OneStep, ThreeSteps
<1> HIDE DEF a
<1>6. Fields(f)
  BY DEF Fields, Registers
<1>7. /\ Bus(s, a)
      /\ \/ Lost(s, a)
         \/ Changed(s.chip, a.chip, f) /\ a.buf = s.buf /\ ~a.skip
  BY <1>4, <1>6, SetStep DEF a
<1>8. /\ Bus(a, e)
      /\ \/ Lost(a, e)
         \/ Changed(a.chip, e.chip, Sole(r, (a.chip[r] \ {}) \cup {2})) /\ ~e.skip
  <2>1. Machine(a) /\ r \in Registers /\ {2} \in SUBSET (0..7)
    BY <1>7 DEF Bus, Silent, Registers
  <2>2. QED
    BY <1>5, <2>1, ReadModifyWrite
<1>9. Bus(s, e)
  BY <1>4, <1>7, <1>8, BusTransitive
<1>10. ASSUME ~Failed(d, e)
       PROVE  Changed(d.chip, e.chip, [mod |-> m, txModulation |-> d.chip[r] \cup {2}])
  <2>1. ~Lost(s, a) /\ (~a.skip => ~Lost(a, e))
    BY <1>4, <1>7, <1>8, <1>9, <1>10, NothingLost
  <2>2. Changed(d.chip, a.chip, f)
    BY <1>4, <1>7, <2>1
  <2>3. Changed(a.chip, e.chip, Sole(r, a.chip[r] \cup {2}))
    BY <1>7, <1>8, <2>1
  <2>4. r \in DOMAIN d.chip
    BY DEF Machine, ChipOK, ResetChip
  <2>5. a.chip[r] = d.chip[r]
    BY <2>2, <2>4 DEF Changed
  <2>6. QED
    BY <2>2, <2>3, <2>4, <2>5 DEF Changed, Sole
<1>11. IsProgram(set_lora_mod_params(m))
  BY <1>1, <1>3, CallBus
<1>12. QED
  BY <1>4, <1>9, <1>10, <1>11

\* Set the fields f, and the bits `on` of the register r.
LEMMA SetAndModify ==
  ASSUME NEW f, Fields(f), NEW r \in Registers, NEW on \in SUBSET (0..7),
         NEW p, p = Call(<<Set(f), Read(r), Modify({}, on), Write(r)>>),
         NEW d, Machine(d), NEW e, e = Execute(p, d)
  PROVE  /\ IsProgram(p) /\ Bus(d, e)
         /\ \/ Failed(d, e)
            \/ \E c : /\ Changed(d.chip, c, f)
                      /\ Changed(c, e.chip, Sole(r, d.chip[r] \cup on))
<1> DEFINE q == <<Set(f), Read(r), Modify({}, on), Write(r)>>
<1>1. IsProgram(q)
  BY FourSteps
<1>2. PICK s : /\ e = Execute(q, s) /\ Machine(s) /\ s.chip = d.chip
               /\ Bus(s, e) => /\ Bus(d, e)
                               /\ ~Failed(d, e) => ~Lost(s, e)
  BY <1>1, CallBus
<1> DEFINE a == Do(s, Set(f))
<1>3. e = Do(Do(Do(a, Read(r)), Modify({}, on)), Write(r))
  BY <1>2, FourSteps
<1> HIDE DEF a
<1>4. /\ Bus(s, a)
      /\ \/ Lost(s, a)
         \/ Changed(s.chip, a.chip, f) /\ a.buf = s.buf /\ ~a.skip
  BY <1>2, SetStep DEF a
<1>5. /\ Bus(a, e)
      /\ \/ Lost(a, e)
         \/ Changed(a.chip, e.chip, Sole(r, (a.chip[r] \ {}) \cup on)) /\ ~e.skip
  <2>1. Machine(a)
    BY <1>4 DEF Bus, Silent
  <2>2. QED
    BY <1>3, <2>1, ReadModifyWrite
<1>6. Bus(s, e)
  BY <1>2, <1>4, <1>5, BusTransitive
<1>7. ASSUME ~Failed(d, e)
      PROVE  /\ Changed(d.chip, a.chip, f)
             /\ Changed(a.chip, e.chip, Sole(r, d.chip[r] \cup on))
  <2>1. ~Lost(s, a) /\ (~a.skip => ~Lost(a, e))
    BY <1>2, <1>4, <1>5, <1>6, <1>7, NothingLost
  <2>2. Changed(d.chip, a.chip, f)
    BY <1>2, <1>4, <2>1
  <2>3. Changed(a.chip, e.chip, Sole(r, a.chip[r] \cup on))
    BY <1>4, <1>5, <2>1
  <2>4. r \in DOMAIN d.chip /\ r \notin DOMAIN f
    BY DEF Machine, ChipOK, ResetChip, Registers, Fields
  <2>5. a.chip[r] = d.chip[r]
    BY <2>2, <2>4 DEF Changed
  <2>6. QED
    BY <2>2, <2>3, <2>5
<1>8. IsProgram(p)
  BY <1>1, CallBus
<1>9. QED
  BY <1>2, <1>6, <1>7, <1>8

\* sx126x_cfg_tx_clamp(): datasheet 15.2.
LEMMA ClampCall ==
  ASSUME NEW d, Machine(d), NEW e, e = Execute(cfg_tx_clamp, d)
  PROVE  /\ IsProgram(cfg_tx_clamp) /\ Bus(d, e)
         /\ \/ Failed(d, e)
            \/ Changed(d.chip, e.chip, Sole("txClamp", d.chip.txClamp \cup {1, 2, 3, 4}))
<1> DEFINE r == "txClamp"
           q == <<Read(r), Modify({}, {1, 2, 3, 4}), Write(r)>>
<1>1. IsProgram(q)
  BY ThreeSteps
<1>2. PICK s : /\ e = Execute(q, s) /\ Machine(s) /\ s.chip = d.chip
               /\ Bus(s, e) => /\ Bus(d, e)
                               /\ ~Failed(d, e) => ~Lost(s, e)
  BY <1>1, CallBus DEF cfg_tx_clamp
<1>3. e = Do(Do(Do(s, Read(r)), Modify({}, {1, 2, 3, 4})), Write(r))
  BY <1>2, ThreeSteps
<1>4. /\ Bus(s, e)
      /\ \/ Lost(s, e)
         \/ Changed(s.chip, e.chip, Sole(r, (s.chip[r] \ {}) \cup {1, 2, 3, 4})) /\ ~e.skip
  <2>1. r \in Registers /\ {1, 2, 3, 4} \in SUBSET (0..7)
    BY DEF Registers
  <2>2. QED
    BY <1>2, <1>3, <2>1, ReadModifyWrite
<1>5. (s.chip[r] \ {}) \cup {1, 2, 3, 4} = s.chip[r] \cup {1, 2, 3, 4}
  OBVIOUS
<1>6. IsProgram(cfg_tx_clamp)
  BY <1>1, CallBus DEF cfg_tx_clamp
<1>7. QED
  BY <1>2, <1>4, <1>5, <1>6

\* sx126x_set_lora_pkt_params(), with the workaround of datasheet 15.4.
LEMMA PacketCall ==
  ASSUME NEW pkt, NEW d, Machine(d), NEW e, e = Execute(set_lora_pkt_params(pkt), d)
  PROVE  /\ IsProgram(set_lora_pkt_params(pkt)) /\ Bus(d, e)
         /\ \/ Failed(d, e)
            \/ Changed(d.chip, e.chip, [pkt |-> pkt, iqPolarity |-> d.chip.iqPolarity \cup {2}])
<1> DEFINE f == [pkt |-> pkt]
           r == "iqPolarity"
<1>1. Fields(f) /\ r \in Registers /\ {2} \in SUBSET (0..7)
  BY DEF Fields, Registers
<1>2. set_lora_pkt_params(pkt) = Call(<<Set(f), Read(r), Modify({}, {2}), Write(r)>>)
  BY DEF set_lora_pkt_params
<1>3. /\ IsProgram(set_lora_pkt_params(pkt)) /\ Bus(d, e)
      /\ \/ Failed(d, e)
         \/ \E c : /\ Changed(d.chip, c, f)
                   /\ Changed(c, e.chip, Sole(r, d.chip[r] \cup {2}))
  BY <1>1, <1>2, SetAndModify
<1>4. ASSUME NEW c, Changed(d.chip, c, f), Changed(c, e.chip, Sole(r, d.chip[r] \cup {2}))
      PROVE  Changed(d.chip, e.chip, [pkt |-> pkt, iqPolarity |-> d.chip.iqPolarity \cup {2}])
  BY <1>4 DEF Changed, Sole
<1>5. QED
  BY <1>3, <1>4

\* sx126x_stop_rtc() leaves the settings alone.
LEMMA StopRtcCall ==
  ASSUME NEW d, Machine(d), NEW e, e = Execute(stop_rtc, d)
  PROVE  /\ IsProgram(stop_rtc) /\ Bus(d, e)
         /\ Failed(d, e) \/ e.chip = d.chip
<1> DEFINE p == <<Exchange, Exchange, Exchange>>
<1>1. IsProgram(p)
  BY ThreeSteps
<1>2. PICK s : /\ e = Execute(p, s) /\ Machine(s) /\ s.chip = d.chip
               /\ Bus(s, e) => /\ Bus(d, e)
                               /\ ~Failed(d, e) => ~Lost(s, e)
  BY <1>1, CallBus DEF stop_rtc
<1> DEFINE a == Do(s, Exchange)
           b == Do(a, Exchange)
<1>3. e = Do(b, Exchange)
  BY <1>2, ThreeSteps
<1>4. Bus(s, a) /\ (Lost(s, a) \/ (a.chip = s.chip /\ ~a.skip)) /\ Machine(a)
  BY <1>2, ExchangeStep DEF Bus, Silent
<1> HIDE DEF a
<1>5. Bus(a, b) /\ (Lost(a, b) \/ (b.chip = a.chip /\ ~b.skip)) /\ Machine(b)
  BY <1>4, ExchangeStep DEF Bus, Silent
<1> HIDE DEF b
<1>6. Bus(b, e) /\ (Lost(b, e) \/ (e.chip = b.chip /\ ~e.skip))
  BY <1>3, <1>5, ExchangeStep
<1>7. Bus(s, b) /\ Bus(s, e)
  BY <1>2, <1>4, <1>5, <1>6, BusTransitive
<1>8. ~Lost(s, e) => ~Lost(s, b) /\ (~b.skip => ~Lost(b, e))
  BY <1>2, <1>5, <1>6, <1>7, NothingLost
<1>9. ~Lost(s, b) => ~Lost(s, a) /\ (~a.skip => ~Lost(a, b))
  BY <1>2, <1>4, <1>5, <1>7, NothingLost
<1>10. IsProgram(stop_rtc)
  BY <1>1, CallBus DEF stop_rtc
<1>11. QED
  BY <1>2, <1>4, <1>5, <1>6, <1>7, <1>8, <1>9, <1>10

\* sx126x_set_tx() and set_rx(), with a timeout that the chip can hold.
LEMMA TimedCall ==
  ASSUME NEW mode \in Modes, NEW ms \in Nat, ms <= MAX_TIMEOUT_IN_MS,
         NEW d, Machine(d), NEW e, e = Execute(Timed(mode, ms), d)
  PROVE  /\ IsProgram(Timed(mode, ms)) /\ Bus(d, e)
         /\ \/ Failed(d, e)
            \/ Changed(d.chip, e.chip, [mode |-> mode, timer |-> 64 * ms])
<1> DEFINE f == [mode |-> mode, timer |-> 64 * ms]
<1>1. Timed(mode, ms) = Command(f)
  <2>1. ~(ms > MAX_TIMEOUT_IN_MS)
    BY DEF MAX_TIMEOUT_IN_MS, MAX_TIMEOUT_IN_RTC_STEP
  <2>2. QED
    BY <2>1 DEF Timed, convert_timeout_in_ms_to_rtc_step
<1>2. Fields(f)
  BY DEF Fields, Registers
<1> HIDE DEF f
<1>3. QED
  BY <1>1, <1>2, CommandCall DEF f

\* What the chip holds after a reset is in order.
LEMMA ResetChipOK == ChipOK(ResetChip)
  BY FS_EmptySet DEF ChipOK, ResetChip, Registers, Modes, MAX_NB_REG_IN_RETENTION

\* The reset takes effect even if BUSY stays high after it.
LEMMA ResetStep ==
  ASSUME NEW d, Machine(d), NEW x, x.op = "reset", NEW e, e = Do(d, x)
  PROVE  /\ Silent(d, e)
         /\ ~d.dog.expired /\ ~d.skip => e.chip = ResetChip /\ ~e.cut
<1>1. CASE d.dog.expired \/ d.skip
  <2>1. e = d
    BY <1>1 DEF Do, InCall, Transactions
  <2>2. QED
    BY <1>1, <2>1 DEF Silent, Machine, Hit
<1>2. CASE ~d.dog.expired /\ ~d.skip /\ d.n + 1 = d.at
  <2>1. e = Step(d, x)
    BY <1>2 DEF Do
  <2>2. e = Stalled(d, x)
    BY <1>2, <2>1 DEF Step, Transactions
  <2>3. e = [d EXCEPT !.dog = Late(d.dog), !.n = @ + 1, !.chip = ResetChip, !.cut = FALSE]
    BY <2>2 DEF Stalled, Late
  <2>4. Late(d.dog) \in Dogs
    BY LateDog DEF Machine
  <2>5. /\ DOMAIN e = {"chip", "cut", "buf", "skip", "n", "at", "dog"}
        /\ e.dog = Late(d.dog) /\ e.n = d.n + 1 /\ e.cut = FALSE /\ e.skip = d.skip
        /\ e.chip = ResetChip /\ e.buf = d.buf /\ e.at = d.at
    BY <2>3 DEF Machine
  <2>6. Hit(d, e) /\ d.n <= e.n
    BY <1>2, <2>5 DEF Machine, Hit
  <2>7. ChipOK(e.chip) /\ e.cut \in BOOLEAN
    BY <2>5, ResetChipOK, Zenon
  <2>8. Machine(e)
    BY <2>7, <2>4, <2>5 DEF Machine
  <2>9. QED
    BY <1>2, <2>5, <2>6, <2>8, Zenon DEF Silent
<1>3. CASE ~d.dog.expired /\ ~d.skip /\ d.n + 1 # d.at
  <2>1. e = Step(d, x)
    BY <1>3 DEF Do
  <2>2. e = Transact(d, x)
    BY <1>3, <2>1 DEF Step, Transactions
  <2>3. e = [d EXCEPT !.n = @ + 1, !.chip = ResetChip, !.cut = FALSE]
    BY <2>2 DEF Transact
  <2>4. /\ DOMAIN e = {"chip", "cut", "buf", "skip", "n", "at", "dog"}
        /\ e.dog = d.dog /\ e.n = d.n + 1 /\ e.cut = FALSE /\ e.skip = d.skip
        /\ e.chip = ResetChip /\ e.buf = d.buf /\ e.at = d.at
    BY <2>3 DEF Machine
  <2>5. ~Hit(d, e) /\ d.n <= e.n
    BY <1>3, <2>4 DEF Machine, Hit
  <2>6. ChipOK(e.chip) /\ e.cut \in BOOLEAN
    BY <2>4, ResetChipOK, Zenon
  <2>7. Machine(e)
    BY <2>6, <2>4 DEF Machine
  <2>8. QED
    BY <1>3, <2>4, <2>5, <2>7, Zenon DEF Silent
<1>4. QED
  BY <1>1, <1>2, <1>3

\* sx126x_reset(), after which the chip holds its reset values, stalled or not.
LEMMA ResetCall ==
  ASSUME NEW d, Machine(d), NEW e, e = Execute(reset, d)
  PROVE  /\ IsProgram(reset) /\ Silent(d, e)
         /\ ~d.dog.expired => e.chip = ResetChip /\ ~e.cut
<1> DEFINE x == [op |-> "reset"]
<1>1. IsProgram(<<x>>)
  BY OneStep
<1>2. PICK s : /\ e = Execute(<<x>>, s) /\ Machine(s) /\ s.dog = d.dog
               /\ Bus(d, s) /\ (d.dog.expired \/ ~s.skip)
  BY <1>1, CallBus DEF reset
<1>3. e = Do(s, x) /\ x.op = "reset"
  BY <1>2, OneStep
<1>4. IsProgram(reset)
  BY <1>1, CallBus DEF reset
<1> HIDE DEF x
<1>5. Silent(s, e) /\ (~s.dog.expired /\ ~s.skip => e.chip = ResetChip /\ ~e.cut)
  BY <1>2, <1>3, ResetStep
<1>6. QED
  BY <1>2, <1>4, <1>5, SilentTransitive DEF Bus

\* The chip is left alone.
Idle(d, e) ==
  /\ Machine(e) /\ e.chip = d.chip /\ e.n = d.n /\ e.at = d.at
  /\ e.cut <=> d.cut
  /\ d.dog.expired => e = d

\* Pauses and operations on the timer leave the chip alone.
LEMMA IdleStep ==
  ASSUME NEW d, Machine(d), NEW x, x.op \notin InCall, NEW g \in Dogs,
         Step(d, x) = [d EXCEPT !.dog = g], NEW e, e = Execute(<<x>>, d)
  PROVE  /\ IsProgram(<<x>>) /\ Idle(d, e)
         /\ ~d.dog.expired => e.dog = g
<1>1. IsProgram(<<x>>) /\ e = Do(d, x)
  BY OneStep
<1>2. CASE d.dog.expired
  <2>1. e = d
    BY <1>1, <1>2 DEF Do
  <2>2. QED
    BY <1>1, <1>2, <2>1 DEF Idle
<1>3. CASE ~d.dog.expired
  <2>1. e = [d EXCEPT !.dog = g]
    BY <1>1, <1>3 DEF Do
  <2>2. /\ e.chip = d.chip /\ e.buf = d.buf /\ e.skip = d.skip /\ e.cut = d.cut
        /\ e.n = d.n /\ e.at = d.at /\ e.dog = g
        /\ DOMAIN e = {"chip", "cut", "buf", "skip", "n", "at", "dog"}
    BY <2>1 DEF Machine
  <2>3. Machine(e)
    BY <2>2 DEF Machine
  <2>4. QED
    BY <1>1, <1>3, <2>2, <2>3 DEF Idle
<1>4. QED
  BY <1>2, <1>3

\* A pause.
LEMMA WaitCall ==
  ASSUME NEW ms \in Nat, NEW d, Machine(d), NEW e, e = Execute(Wait(ms), d)
  PROVE  /\ IsProgram(Wait(ms)) /\ Idle(d, e)
         /\ ~d.dog.expired => e.dog = Pass(d.dog, ms)
<1> DEFINE x == [op |-> "wait", ms |-> ms]
           g == Pass(d.dog, ms)
<1>1. x.op = "wait" /\ x.ms = ms /\ Wait(ms) = <<x>>
  BY DEF Wait
<1> HIDE DEF x
<1>2. x.op \notin InCall
  BY <1>1 DEF InCall, Transactions
<1>3. Step(d, x) = [d EXCEPT !.dog = g]
  BY <1>1 DEF Step, Transactions
<1>4. g \in Dogs
  BY PassDog DEF Machine
<1> HIDE DEF g
<1>5. IsProgram(<<x>>) /\ Idle(d, e) /\ (~d.dog.expired => e.dog = g)
  BY <1>1, <1>2, <1>3, <1>4, IdleStep
<1>6. QED
  BY <1>1, <1>5 DEF g

-----------------------------------------------------------------------------
(* Pauses and the watchdog timer.                                          *)

\* The timer starts afresh: it runs if b holds.
Afresh(dog, b) == [dog EXCEPT !.on = b, !.ms = 0, !.stalls = 0]

\* The timer, started afresh.
LEMMA AfreshDog ==
  ASSUME NEW dog \in Dogs, NEW b \in BOOLEAN
  PROVE  /\ Afresh(dog, b) \in Dogs
         /\ Afresh(dog, b).on = b
         /\ Afresh(dog, b).ms = 0 /\ Afresh(dog, b).stalls = 0
         /\ Afresh(dog, b).expired = dog.expired
  BY DEF Afresh, Dogs

\* watchdogReset().
LEMMA PetCall ==
  ASSUME NEW d, Machine(d), NEW e, e = Execute(watchdogReset, d)
  PROVE  /\ IsProgram(watchdogReset) /\ Idle(d, e)
         /\ ~d.dog.expired => e.dog = Afresh(d.dog, d.dog.on)
<1> DEFINE x == [op |-> "pet"]
           g == Afresh(d.dog, d.dog.on)
<1>1. x.op = "pet" /\ watchdogReset = <<x>>
  BY DEF watchdogReset
<1> HIDE DEF x
<1>2. x.op \notin InCall
  BY <1>1 DEF InCall, Transactions
<1>3. d.dog \in Dogs /\ d.dog.on \in BOOLEAN
  BY DEF Machine, Dogs
<1>4. Step(d, x) = [d EXCEPT !.dog = g]
  <2>1. Step(d, x) = [d EXCEPT !.dog.ms = 0, !.dog.stalls = 0]
    BY <1>1 DEF Step, Transactions
  <2>2. g = [d.dog EXCEPT !.ms = 0, !.stalls = 0]
    BY <1>3 DEF Afresh, Dogs
  <2>3. QED
    BY <2>1, <2>2 DEF Machine
<1>5. g \in Dogs
  BY <1>3, AfreshDog
<1> HIDE DEF g
<1>6. QED
  BY <1>1, <1>2, <1>4, <1>5, IdleStep DEF g

\* watchdogInit().
LEMMA DogOnCall ==
  ASSUME NEW d, Machine(d), NEW e, e = Execute(watchdogInit, d)
  PROVE  /\ IsProgram(watchdogInit) /\ Idle(d, e)
         /\ ~d.dog.expired => e.dog = Afresh(d.dog, TRUE)
<1> DEFINE x == [op |-> "dogOn"]
           g == Afresh(d.dog, TRUE)
<1>1. x.op = "dogOn" /\ watchdogInit = <<x>>
  BY DEF watchdogInit
<1> HIDE DEF x
<1>2. x.op \notin InCall
  BY <1>1 DEF InCall, Transactions
<1>3. Step(d, x) = [d EXCEPT !.dog = g]
  <2>1. Step(d, x) = [d EXCEPT !.dog.on = TRUE, !.dog.ms = 0, !.dog.stalls = 0]
    BY <1>1 DEF Step, Transactions
  <2>2. QED
    BY <2>1 DEF Machine, Afresh
<1>4. g \in Dogs
  BY AfreshDog DEF Machine
<1> HIDE DEF g
<1>5. IsProgram(<<x>>) /\ Idle(d, e) /\ (~d.dog.expired => e.dog = g)
  BY <1>1, <1>2, <1>3, <1>4, IdleStep
<1>6. QED
  BY <1>1, <1>5 DEF g

\* watchdogDisable().
LEMMA DogOffCall ==
  ASSUME NEW d, Machine(d), NEW e, e = Execute(watchdogDisable, d)
  PROVE  /\ IsProgram(watchdogDisable) /\ Idle(d, e)
         /\ ~d.dog.expired => e.dog = Afresh(d.dog, FALSE)
<1> DEFINE x == [op |-> "dogOff"]
           g == Afresh(d.dog, FALSE)
<1>1. x.op = "dogOff" /\ watchdogDisable = <<x>>
  BY DEF watchdogDisable
<1> HIDE DEF x
<1>2. x.op \notin InCall
  BY <1>1 DEF InCall, Transactions
<1>3. Step(d, x) = [d EXCEPT !.dog = g]
  <2>1. Step(d, x) = [d EXCEPT !.dog.on = FALSE, !.dog.ms = 0, !.dog.stalls = 0]
    BY <1>1 DEF Step, Transactions
  <2>2. QED
    BY <2>1 DEF Machine, Afresh
<1>4. g \in Dogs
  BY AfreshDog DEF Machine
<1> HIDE DEF g
<1>5. IsProgram(<<x>>) /\ Idle(d, e) /\ (~d.dog.expired => e.dog = g)
  BY <1>1, <1>2, <1>3, <1>4, IdleStep
<1>6. QED
  BY <1>1, <1>5 DEF g

-----------------------------------------------------------------------------
(* The watchdog timer.                                                     *)

-----------------------------------------------------------------------------
(* Bounds on the watchdog timer.                                           *)

\* Any of it: a stall counts once.
Flows(d, e) ==
  /\ Machine(e) /\ e.at = d.at /\ d.n <= e.n
  /\ d.dog.expired => e = d
  /\ e.dog.stalls <= d.dog.stalls + IF Hit(d, e) THEN 1 ELSE 0

\* Parts that only use the bus are executions.
LEMMA SilentFlows ==
  ASSUME NEW d, NEW e, Machine(d), Silent(d, e)
  PROVE  Flows(d, e)
  BY LateDog DEF Flows, Silent, Machine, Dogs

\* Executions compose.
LEMMA FlowsTransitive ==
  ASSUME NEW d, NEW e, NEW f, Machine(d), Flows(d, e), Flows(e, f)
  PROVE  Flows(d, f)
<1>1. d.n <= f.n /\ f.at = d.at
  BY DEF Flows, Machine
<1>2. f.dog.stalls <= d.dog.stalls + IF Hit(d, f) THEN 1 ELSE 0
  BY DEF Flows, Machine, Hit, Dogs
<1>3. QED
  BY <1>1, <1>2 DEF Flows

\* The timer has counted at most b ms besides one stall, and has not expired; of more
\* stalls nothing is said.
Kept(dog, b) ==
  /\ dog.on
  /\ dog.stalls = 0 => dog.ms <= b /\ ~dog.expired
  /\ dog.stalls = 1 => dog.ms <= b + BUSY_TIMEOUT_MS /\ ~dog.expired

\* The same with no stall.
Spared(dog, b) == dog.on /\ (dog.stalls = 0 => dog.ms <= b /\ ~dog.expired)

\* It was reset b ms ago, without a stall since.
Rested(dog, b) == dog.on /\ ~dog.expired /\ dog.stalls = 0 /\ dog.ms = b

\* The same as long as it has not expired, which takes a stall.
Strict(dog, b) ==
  /\ dog.on
  /\ dog.expired => dog.stalls > 0
  /\ ~dog.expired => dog.stalls = 0 /\ dog.ms = b

\* The timer does not run.
Off(dog) == ~dog.on /\ ~dog.expired

\* What the bus does to these bounds: a stall is within the allowance of Kept.
LEMMA SilentDog ==
  ASSUME NEW d, NEW e, Machine(d), Silent(d, e), NEW b \in Nat
  PROVE  /\ Kept(d.dog, b) /\ b + BUSY_TIMEOUT_MS <= WDT_PERIOD_MS => Kept(e.dog, b)
         /\ Spared(d.dog, b) => Spared(e.dog, b)
         /\ Strict(d.dog, b) /\ b + BUSY_TIMEOUT_MS > WDT_PERIOD_MS => Strict(e.dog, b)
         /\ Off(d.dog) => Off(e.dog)
<1>1. CASE ~Hit(d, e)
  BY <1>1 DEF Silent
<1>2. CASE Hit(d, e) /\ ~d.dog.expired
  <2> DEFINE l == Late(d.dog)
             p == Pass(d.dog, BUSY_TIMEOUT_MS)
  <2>1. d.dog \in Dogs /\ BUSY_TIMEOUT_MS \in Nat /\ e.dog = l
    BY <1>2, DriverAssumption DEF Silent, Machine
  <2>2. /\ l.on = d.dog.on /\ l.stalls = d.dog.stalls + 1
        /\ l.ms = p.ms /\ l.expired = p.expired
    BY <2>1, LateDog
  <2>3. /\ d.dog.on => /\ p.ms = d.dog.ms + BUSY_TIMEOUT_MS
                       /\ p.expired <=> d.dog.expired \/ d.dog.ms + BUSY_TIMEOUT_MS > WDT_PERIOD_MS
        /\ ~d.dog.on => p = d.dog
    BY <2>1, PassDog
  <2> HIDE DEF l, p
  <2>4. /\ e.dog.on <=> d.dog.on
        /\ e.dog.stalls = d.dog.stalls + 1
        /\ d.dog.on => /\ e.dog.ms = d.dog.ms + BUSY_TIMEOUT_MS
                       /\ e.dog.expired <=> d.dog.ms + BUSY_TIMEOUT_MS > WDT_PERIOD_MS
        /\ ~d.dog.on => ~e.dog.expired
    BY <1>2, <2>1, <2>2, <2>3
  <2>5. d.dog.stalls \in Nat /\ d.dog.ms \in Nat
    BY DEF Machine, Dogs
  <2>6. QED
    BY <1>2, <2>4, <2>5, DriverAssumption DEF Kept, Spared, Strict, Rested, Off
<1>3. CASE d.dog.expired
  BY <1>3 DEF Silent
<1>4. QED
  BY <1>1, <1>2, <1>3

\* Pauses and operations on the timer do not stall.
LEMMA IdleFlows ==
  ASSUME NEW d, NEW e, Machine(d), Idle(d, e), NEW g, g.stalls <= d.dog.stalls,
         ~d.dog.expired => e.dog = g
  PROVE  Flows(d, e) /\ ~Hit(d, e)
<1>1. e.dog.stalls <= d.dog.stalls
  BY DEF Idle, Machine, Dogs
<1>2. QED
  BY <1>1 DEF Flows, Idle, Machine, Hit, Dogs

\* A pause moves the bounds by its length.
LEMMA WaitDog ==
  ASSUME NEW ms \in Nat, NEW d, Machine(d), NEW e, e = Execute(Wait(ms), d), NEW b \in Nat
  PROVE  /\ Flows(d, e) /\ ~Hit(d, e)
         /\ Kept(d.dog, b) /\ b + ms + BUSY_TIMEOUT_MS <= WDT_PERIOD_MS => Kept(e.dog, b + ms)
         /\ Spared(d.dog, b) /\ b + ms <= WDT_PERIOD_MS => Spared(e.dog, b + ms)
         /\ Rested(d.dog, b) /\ b + ms <= WDT_PERIOD_MS => Rested(e.dog, b + ms)
         /\ Strict(d.dog, b) /\ b + ms <= WDT_PERIOD_MS => Strict(e.dog, b + ms)
         /\ Off(d.dog) => Off(e.dog)
<1>1. Idle(d, e) /\ (~d.dog.expired => e.dog = Pass(d.dog, ms))
  BY WaitCall
<1>2. /\ Pass(d.dog, ms).on = d.dog.on /\ Pass(d.dog, ms).stalls = d.dog.stalls
      /\ d.dog.on => /\ Pass(d.dog, ms).ms = d.dog.ms + ms
                     /\ Pass(d.dog, ms).expired
                          <=> d.dog.expired \/ d.dog.ms + ms > WDT_PERIOD_MS
      /\ ~d.dog.on => Pass(d.dog, ms) = d.dog
  BY PassDog DEF Machine
<1>3. d.dog.stalls \in Nat /\ d.dog.ms \in Nat
  BY DEF Machine, Dogs
<1>4. Flows(d, e) /\ ~Hit(d, e)
  BY <1>1, <1>2, <1>3, IdleFlows
<1>5. CASE d.dog.expired
  <2>1. e = d
    BY <1>1, <1>5 DEF Idle
  <2>2. QED
    BY <1>3, <1>4, <1>5, <2>1, DriverAssumption DEF Kept, Spared, Strict, Rested, Off
<1>6. CASE ~d.dog.expired
  <2> DEFINE g == e.dog
  <2>1. /\ g.on = d.dog.on /\ g.stalls = d.dog.stalls
        /\ d.dog.on => g.ms = d.dog.ms + ms /\ (g.expired <=> d.dog.ms + ms > WDT_PERIOD_MS)
        /\ ~d.dog.on => g = d.dog
    BY <1>1, <1>2, <1>6
  <2> HIDE DEF g
  <2>2. /\ Kept(d.dog, b) /\ b + ms + BUSY_TIMEOUT_MS <= WDT_PERIOD_MS => Kept(g, b + ms)
        /\ Spared(d.dog, b) /\ b + ms <= WDT_PERIOD_MS => Spared(g, b + ms)
        /\ Rested(d.dog, b) /\ b + ms <= WDT_PERIOD_MS => Rested(g, b + ms)
        /\ Strict(d.dog, b) /\ b + ms <= WDT_PERIOD_MS => Strict(g, b + ms)
        /\ Off(d.dog) => Off(g)
    BY <1>3, <1>6, <2>1, DriverAssumption DEF Kept, Spared, Strict, Rested, Off
  <2>3. QED
    BY <1>4, <2>2 DEF g
<1>7. QED
  BY <1>5, <1>6

\* watchdogReset() sets them to 0.
LEMMA PetDog ==
  ASSUME NEW d, Machine(d), NEW e, e = Execute(watchdogReset, d)
  PROVE  /\ Flows(d, e) /\ ~Hit(d, e)
         /\ d.dog.on /\ ~d.dog.expired => Rested(e.dog, 0)
         /\ Off(d.dog) => Off(e.dog)
<1>1. Idle(d, e) /\ (~d.dog.expired => e.dog = Afresh(d.dog, d.dog.on))
  BY PetCall
<1>2. d.dog \in Dogs /\ d.dog.on \in BOOLEAN /\ d.dog.stalls \in Nat
  BY DEF Machine, Dogs
<1> DEFINE g == Afresh(d.dog, d.dog.on)
<1>3. /\ g.on <=> d.dog.on
      /\ g.ms = 0 /\ g.stalls = 0
      /\ g.expired <=> d.dog.expired
  BY <1>2, AfreshDog
<1> HIDE DEF g
<1>4. Flows(d, e) /\ ~Hit(d, e)
  BY <1>1, <1>2, <1>3, IdleFlows DEF g
<1>5. QED
  BY <1>1, <1>3, <1>4 DEF Rested, Off, g

\* watchdogInit() starts the timer at 0.
LEMMA DogOnDog ==
  ASSUME NEW d, Machine(d), NEW e, e = Execute(watchdogInit, d)
  PROVE  /\ Flows(d, e) /\ ~Hit(d, e)
         /\ ~d.dog.expired => Rested(e.dog, 0)
<1>1. Idle(d, e) /\ (~d.dog.expired => e.dog = Afresh(d.dog, TRUE))
  BY DogOnCall
<1>2. d.dog \in Dogs /\ d.dog.stalls \in Nat
  BY DEF Machine, Dogs
<1> DEFINE g == Afresh(d.dog, TRUE)
<1>3. /\ g.on
      /\ g.ms = 0 /\ g.stalls = 0
      /\ g.expired <=> d.dog.expired
  BY <1>2, AfreshDog
<1>4. ~d.dog.expired => e.dog = g
  BY <1>1
<1> HIDE DEF g
<1>5. Flows(d, e) /\ ~Hit(d, e)
  BY <1>1, <1>4, <1>2, <1>3, IdleFlows
<1>6. QED
  BY <1>1, <1>3, <1>5 DEF Rested, g

\* watchdogDisable() turns it off.
LEMMA DogOffDog ==
  ASSUME NEW d, Machine(d), NEW e, e = Execute(watchdogDisable, d)
  PROVE  /\ Flows(d, e) /\ ~Hit(d, e)
         /\ ~d.dog.expired => Off(e.dog)
<1>1. Idle(d, e) /\ (~d.dog.expired => e.dog = Afresh(d.dog, FALSE))
  BY DogOffCall
<1>2. d.dog \in Dogs /\ d.dog.stalls \in Nat
  BY DEF Machine, Dogs
<1> DEFINE g == Afresh(d.dog, FALSE)
<1>3. /\ ~g.on
      /\ g.ms = 0 /\ g.stalls = 0
      /\ g.expired <=> d.dog.expired
  BY <1>2, AfreshDog
<1>4. ~d.dog.expired => e.dog = g
  BY <1>1
<1> HIDE DEF g
<1>5. Flows(d, e) /\ ~Hit(d, e)
  BY <1>1, <1>4, <1>2, <1>3, IdleFlows
<1>6. QED
  BY <1>1, <1>3, <1>5 DEF Off, g

\* A timer that was reset is within every bound from there.
LEMMA RestedDog ==
  ASSUME NEW dog \in Dogs, NEW b \in Nat, Rested(dog, b)
  PROVE  Kept(dog, b) /\ Spared(dog, b) /\ Strict(dog, b)
  BY DEF Rested, Kept, Spared, Strict, Dogs
=============================================================================
