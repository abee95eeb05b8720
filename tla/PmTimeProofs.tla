---------------------------- MODULE PmTimeProofs ----------------------------
(***************************************************************************)
(* Proofs about PmTime for every clock rate, every ascending table of leap *)
(* seconds and every width of time_t.                                      *)
(***************************************************************************)
EXTENDS PmTime, WellFoundedInduction, FiniteSetTheorems, TLAPS

-----------------------------------------------------------------------------
(* Division. *)

\* Quotient and remainder.
LEMMA Division ==
  ASSUME NEW x \in Int, NEW m \in Nat \ {0}
  PROVE  x \div m \in Int /\ x % m \in 0 .. m-1 /\ x = m * (x \div m) + (x % m)
  OBVIOUS

\* They are the only ones.
LEMMA DivisionUnique ==
  ASSUME NEW x \in Int, NEW m \in Nat \ {0}, NEW q \in Int, NEW r \in 0 .. m-1,
         x = m * q + r
  PROVE  x \div m = q /\ x % m = r
  OBVIOUS

\* Whole turns do not change a remainder.
LEMMA Turns ==
  ASSUME NEW x \in Int, NEW k \in Int, NEW m \in Nat \ {0}
  PROVE  (x + m * k) % m = x % m
<1> DEFINE q == x \div m
           r == x % m
<1>1. q \in Int /\ r \in 0 .. m-1 /\ x = m * q + r
  BY Division
<1> HIDE DEF q, r
<1>2. x + m * k = m * (q + k) + r
  BY <1>1
<1>3. (x + m * k) % m = r
  BY <1>1, <1>2, DivisionUnique
<1> QED BY <1>3 DEF r

\* One tick later it is the same second and a tick later in it, or the first
\* tick of the next second.
LEMMA NextTick ==
  ASSUME NEW u \in Nat, NEW m \in Nat \ {0}
  PROVE  \/ (u+1) \div m = u \div m /\ (u+1) % m = (u % m) + 1
         \/ (u+1) \div m = (u \div m) + 1 /\ (u+1) % m = 0
<1> DEFINE q == u \div m
           r == u % m
<1>1. q \in Int /\ r \in 0 .. m-1 /\ u = m * q + r
  BY Division
<1> HIDE DEF q, r
<1>2. CASE r = m-1
  <2>1. u+1 = m * (q+1) + 0
    BY <1>1, <1>2
  <2>2. (u+1) \div m = q+1 /\ (u+1) % m = 0
    BY <1>1, <2>1, DivisionUnique
  <2> QED BY <2>2 DEF q
<1>3. CASE r # m-1
  <2>1. u+1 = m * q + (r+1) /\ r+1 \in 0 .. m-1
    BY <1>1, <1>3
  <2>2. (u+1) \div m = q /\ (u+1) % m = r+1
    BY <1>1, <2>1, DivisionUnique
  <2> QED BY <2>2 DEF q, r
<1> QED BY <1>2, <1>3

\* A quotient does not fall when the dividend grows.
LEMMA DivMonotone ==
  ASSUME NEW a \in Nat, NEW b \in Nat, NEW m \in Nat \ {0}, a <= b
  PROVE  a \div m <= b \div m
<1> DEFINE p == a \div m
           q == b \div m
<1>1. p \in Int /\ q \in Int /\ m * p <= a /\ b < m * q + m
  BY Division
<1> HIDE DEF p, q
<1>2. m * p < m * q + m
  BY <1>1
<1>3. CASE p >= q+1
  <2>1. m * p >= m * (q+1)
    BY <1>1, <1>3
  <2> QED BY <1>1, <1>2, <2>1
<1>4. p < q+1
  BY <1>1, <1>3
<1> QED BY <1>1, <1>4 DEF p, q

-----------------------------------------------------------------------------
(* The clock. *)

\* time_t holds what it can hold, and what it holds is right modulo its range.
LEMMA WrapInRange ==
  ASSUME NEW x \in Int
  PROVE  /\ Wrap(x) \in -Half .. Half-1
         /\ x \in -Half .. Half-1 => Wrap(x) = x
<1> DEFINE m == 2 * Half
           y == x + Half
<1>1. Half \in Nat \ {0} /\ m \in Nat \ {0} /\ y \in Int
  BY PmTimeAssumption
<1>2. m = 2 * Half /\ y = x + Half /\ Wrap(x) = (y % m) - Half
  BY DEF Wrap
<1> HIDE DEF m, y
<1>3. y % m \in 0 .. m-1
  BY <1>1, Division
<1>4. ASSUME x \in -Half .. Half-1 PROVE y % m = y
  <2>1. y = m * 0 + y /\ y \in 0 .. m-1 /\ 0 \in Int
    BY <1>1, <1>2, <1>4
  <2> QED BY <1>1, <2>1, DivisionUnique
<1> QED BY <1>1, <1>2, <1>3, <1>4

\* Overflow may be postponed to the end of a sum.
LEMMA WrapAdds ==
  ASSUME NEW x \in Int, NEW y \in Int
  PROVE  Wrap(Wrap(x) + y) = Wrap(x + y)
<1> DEFINE m == 2 * Half
           k == (x + Half) \div m
<1>1. m \in Nat \ {0}
  BY PmTimeAssumption
<1>2. k \in Int /\ x + Half = m * k + ((x + Half) % m)
  <2>1. x + Half \in Int
    BY PmTimeAssumption
  <2> HIDE DEF m
  <2> QED BY <1>1, <2>1, Division
<1>3. Wrap(x) = x + m * (-k)
  <2> DEFINE r == (x + Half) % m
  <2>1. Half \in Nat /\ r \in 0 .. m-1 /\ x + Half = m * k + r
    <3>1. x + Half \in Int /\ Half \in Nat
      BY PmTimeAssumption
    <3> HIDE DEF m
    <3> QED BY <1>1, <1>2, <3>1, Division
  <2>2. Wrap(x) = r - Half
    BY DEF Wrap
  <2> HIDE DEF k, m, r
  <2> QED BY <1>1, <1>2, <2>1, <2>2
<1>4. (((x + y) + Half) + m * (-k)) % m = ((x + y) + Half) % m
  <2>1. -k \in Int /\ (x + y) + Half \in Int
    BY <1>2, PmTimeAssumption
  <2> HIDE DEF k, m
  <2> QED BY <1>1, <2>1, Turns
<1>5. (Wrap(x) + y) + Half = ((x + y) + Half) + m * (-k)
  <2> HIDE DEF m, k
  <2> QED BY <1>1, <1>2, <1>3, PmTimeAssumption
<1> QED BY <1>4, <1>5 DEF Wrap

\* A second has some microseconds.
LEMMA MillionIsPositive == Million \in Nat \ {0} /\ 0 \in 0 .. Million-1
<1>1. Million \in Nat \ {0}
  BY SMT DEF Million
<1> QED BY <1>1

\* Growing one factor of a product of natural numbers.
LEMMA Products ==
  ASSUME NEW a \in Nat, NEW b \in Nat, NEW m \in Nat, a <= b
  PROVE  a * m \in Nat /\ b * m \in Nat /\ a * m <= b * m
<1>1. PICK d \in Nat : b = a + d
  BY b - a \in Nat /\ b = a + (b - a)
<1>2. a * m \in Nat /\ d * m \in Nat
  OBVIOUS
<1>3. b * m = a * m + d * m
  BY <1>1
<1> QED BY <1>2, <1>3

\* Without overflow: less than a million, and growing.
LEMMA Fraction ==
  ASSUME NEW a \in 0 .. system_hz - 1
  PROVE  /\ (a * Million) \div system_hz \in 0 .. Million-1
         /\ \A b \in 0 .. system_hz - 1 : a <= b =>
              (a * Million) \div system_hz <= (b * Million) \div system_hz
<1> DEFINE q == (a * Million) \div system_hz
           r == (a * Million) % system_hz
<1>0. system_hz \in Nat \ {0} /\ Million \in Nat \ {0} /\ a \in Nat /\ a < system_hz
  BY PmTimeAssumption, MillionIsPositive
<1>1. a * Million \in Nat
  BY <1>0, Products
<1>2. q \in Int /\ r \in Nat /\ a * Million = system_hz * q + r
  <2> DEFINE y == a * Million
  <2>1. y \in Int
    BY <1>1
  <2> HIDE DEF y
  <2>2. y \div system_hz \in Int /\ y % system_hz \in 0 .. system_hz - 1
        /\ y = system_hz * (y \div system_hz) + (y % system_hz)
    BY <1>0, <2>1, Division
  <2>3. y % system_hz \in Nat
    BY <1>0, <2>2
  <2> QED BY <2>2, <2>3 DEF y
<1>3. 0 <= q
  <2>1. 0 \div system_hz = 0
    BY <1>0
  <2>2. 0 \div system_hz <= (a * Million) \div system_hz
    BY <1>0, <1>1, DivMonotone
  <2> QED BY <2>1, <2>2
<1>4. q < Million
  <2>1. CASE q >= Million
    <3> HIDE DEF q, r
    <3>1. Million * system_hz <= q * system_hz
      BY <1>0, <1>2, <2>1, Products
    <3>2. a * Million + Million <= system_hz * Million
      <4>1. (a+1) * Million <= system_hz * Million
        BY <1>0, Products
      <4> QED BY <1>0, <4>1
    <3>3. q * system_hz = system_hz * q /\ q * system_hz \in Int
      BY <1>0, <1>2
    <3>4. Million * system_hz = system_hz * Million /\ Million * system_hz \in Int
      BY <1>0
    <3> QED BY <1>0, <1>1, <1>2, <3>1, <3>2, <3>3, <3>4
  <2> HIDE DEF q
  <2> QED BY <1>0, <1>2, <2>1
<1>5. ASSUME NEW b \in 0 .. system_hz - 1, a <= b
      PROVE  (a * Million) \div system_hz <= (b * Million) \div system_hz
  <2>1. b \in Nat
    BY <1>0
  <2>2. a * Million \in Nat /\ b * Million \in Nat /\ a * Million <= b * Million
    BY <1>0, <1>5, <2>1, Products
  <2> QED BY <1>0, <2>2, DivMonotone
<1>6. q \in 0 .. Million-1
  <2> HIDE DEF q
  <2> QED BY <1>0, <1>2, <1>3, <1>4
<1> QED BY <1>5, <1>6

\* The microseconds of a second: less than a million also when the product
\* overflows, and growing if it does not.
LEMMA Microseconds ==
  ASSUME NEW a \in 0 .. system_hz - 1
  PROVE  /\ Micros(a) \in 0 .. Million-1
         /\ ProductFits => \A b \in 0 .. system_hz - 1 : a <= b => Micros(a) <= Micros(b)
<1>0. system_hz \in Nat \ {0} /\ Word \in Nat \ {0} /\ Million \in Nat \ {0}
  BY PmTimeAssumption, MillionIsPositive
<1>1. a \in Nat /\ a * Million \in Nat
  BY <1>0, Products
<1> DEFINE y == a * Million
<1>2. y \in Nat /\ y \div system_hz \in 0 .. Million-1
  BY <1>1, Fraction
<1>3. y % Word \in Nat /\ y % Word <= y
  <2> HIDE DEF y
  <2>1. y % Word \in 0 .. Word-1 /\ y \div Word \in Int /\ y = Word * (y \div Word) + (y % Word)
    BY <1>0, <1>2, Division
  <2>2. 0 \div Word = 0 /\ 0 \div Word <= y \div Word
    BY <1>0, <1>2, DivMonotone
  <2> DEFINE q == y \div Word
             r == y % Word
  <2>3. q \in Nat /\ r \in Nat /\ y = Word * q + r
    BY <1>0, <2>1, <2>2
  <2> HIDE DEF q, r
  <2>4. Word * q \in Nat
    BY <1>0, <2>3
  <2>5. r <= y
    BY <1>2, <2>3, <2>4
  <2> QED BY <2>3, <2>5 DEF r
<1>4. Micros(a) \in 0 .. Million-1
  <2> DEFINE r == y % Word
  <2> HIDE DEF y
  <2>1. r \in Nat /\ r <= y
    BY <1>3
  <2>2. Micros(a) = r \div system_hz
    BY DEF Micros, y
  <2> HIDE DEF r
  <2>3. r \div system_hz \in Int /\ 0 \div system_hz = 0
    BY <1>0, <2>1, Division
  <2>4. 0 \div system_hz <= r \div system_hz /\ r \div system_hz <= y \div system_hz
    BY <1>0, <1>2, <2>1, DivMonotone
  <2> QED BY <1>0, <1>2, <2>2, <2>3, <2>4
<1>5. ASSUME ProductFits, NEW c \in 0 .. system_hz - 1
      PROVE  Micros(c) = (c * Million) \div system_hz
  <2>1. c \in Nat /\ system_hz - 1 \in Nat /\ c <= system_hz - 1
    BY <1>0
  <2>2. c * Million \in Nat /\ c * Million <= (system_hz - 1) * Million
        /\ (system_hz - 1) * Million \in Nat
    BY <1>0, <2>1, Products
  <2> DEFINE z == c * Million
             w == (system_hz - 1) * Million
  <2>3. z \in Nat /\ w \in Nat /\ z <= w /\ w < Word
    BY <1>5, <2>2 DEF ProductFits
  <2> HIDE DEF z, w
  <2>4. z \in 0 .. Word-1 /\ 0 \in Int /\ z = Word * 0 + z
    BY <1>0, <2>3
  <2>5. z % Word = z
    BY <1>0, <2>3, <2>4, DivisionUnique
  <2> QED BY <2>5 DEF Micros, z
<1> QED BY <1>4, <1>5, Fraction

\* A set of natural numbers has a least one.
LEMMA Least ==
  ASSUME NEW T \in SUBSET Nat, T # {}
  PROVE  \E n \in T : \A m \in T : n <= m
<1> DEFINE R == OpToRel(<, Nat)
<1>1. IsWellFoundedOn(R, Nat)
  BY NatLessThanWellFounded
<1>2. PICK n \in T : \A m \in T : ~(<<m, n>> \in R)
  <2> HIDE DEF R
  <2> QED BY <1>1, WFMin
<1>3. \A m \in T : ~(m < n)
  BY <1>2 DEF OpToRel
<1> HIDE DEF R
<1> QED BY <1>3

\* The loop over the table stops somewhere.
LEMMA LeapsStops ==
  ASSUME NEW t \in Int
  PROVE  /\ Leaps(t) \in 0 .. Len(leapsecond_reference)
         /\ \A k \in 1 .. Leaps(t) : t > leapsecond_reference[k]
         /\ Leaps(t) < Len(leapsecond_reference) =>
              ~(t > leapsecond_reference[Leaps(t) + 1])
<1> DEFINE n == Len(leapsecond_reference)
           Stop(i) == /\ \A k \in 1 .. i : t > leapsecond_reference[k]
                      /\ i < n => ~(t > leapsecond_reference[i+1])
           Ahead == {i \in 1 .. n : ~(t > leapsecond_reference[i])}
<1>1. n \in Nat
  BY PmTimeAssumption
<1>2. \E i \in 0 .. n : Stop(i)
  <2>1. CASE Ahead = {}
    <3>1. Stop(n)
      BY <1>1, <2>1
    <3> QED BY <1>1, <3>1
  <2>2. CASE Ahead # {}
    <3>1. Ahead \in SUBSET Nat
      BY <1>1
    <3>2. PICK f \in Ahead : \A m \in Ahead : f <= m
      <4> HIDE DEF Ahead
      <4> QED BY <2>2, <3>1, Least
    <3>3. f \in 1 .. n /\ ~(t > leapsecond_reference[f])
      OBVIOUS
    <3>4. \A k \in 1 .. f-1 : t > leapsecond_reference[k]
      BY <1>1, <3>2, <3>3
    <3>5. f-1 \in 0 .. n /\ Stop(f-1)
      BY <1>1, <3>3, <3>4
    <3> QED BY <3>5
  <2> QED BY <2>1, <2>2
<1>3. Leaps(t) = CHOOSE i \in 0 .. n : Stop(i)
  BY DEF Leaps
<1>4. Leaps(t) \in 0 .. n /\ Stop(Leaps(t))
  <2> HIDE DEF Stop
  <2> QED BY <1>2, <1>3
<1> QED BY <1>4

\* A later second is behind at least as many leap seconds.
LEMMA LeapsMonotone ==
  ASSUME NEW s \in Int, NEW t \in Int, s <= t
  PROVE  Leaps(s) <= Leaps(t)
<1> DEFINE n == Len(leapsecond_reference)
           i == Leaps(s)
           j == Leaps(t)
<1>1. n \in Nat /\ \A k \in 1 .. n : leapsecond_reference[k] \in Int
  BY PmTimeAssumption
<1>2. i \in 0 .. n /\ \A k \in 1 .. i : s > leapsecond_reference[k]
  BY LeapsStops
<1>3. j \in 0 .. n /\ (j < n => ~(t > leapsecond_reference[j+1]))
  BY LeapsStops
<1> HIDE DEF i, j, n
<1>4. CASE j < i
  <2>1. j+1 \in 1 .. i /\ j+1 \in 1 .. n /\ j < n
    BY <1>1, <1>2, <1>3, <1>4
  <2>2. s > leapsecond_reference[j+1] /\ ~(t > leapsecond_reference[j+1])
    BY <1>2, <1>3, <2>1
  <2> QED BY <1>1, <2>1, <2>2
<1>5. i <= j
  BY <1>1, <1>2, <1>3, <1>4
<1> QED BY <1>5 DEF i, j

\* Where the loop stops is the number of entries before t.
LEMMA LeapsCounts ==
  ASSUME NEW t \in Int
  PROVE  Leaps(t) = Cardinality({k \in 1 .. Len(leapsecond_reference) :
                                   leapsecond_reference[k] < t})
<1> DEFINE n == Len(leapsecond_reference)
           i == Leaps(t)
           Past == {k \in 1 .. n : leapsecond_reference[k] < t}
<1>1. n \in Nat /\ \A k \in 1 .. n : leapsecond_reference[k] \in Int
  BY PmTimeAssumption
<1>2. /\ i \in 0 .. n
      /\ \A k \in 1 .. i : t > leapsecond_reference[k]
      /\ i < n => ~(t > leapsecond_reference[i+1])
  BY LeapsStops
<1> HIDE DEF i
<1>3. ASSUME NEW k \in 1 .. n, k > i PROVE ~(leapsecond_reference[k] < t)
  <2>1. i+1 \in 1 .. n /\ i < n
    BY <1>1, <1>2, <1>3
  <2>2. CASE k = i+1
    BY <1>1, <1>2, <2>1, <2>2
  <2>3. CASE k # i+1
    <3>1. i+1 < k
      BY <1>1, <1>2, <1>3, <2>3
    <3>2. leapsecond_reference[i+1] < leapsecond_reference[k]
      BY <2>1, <3>1, PmTimeAssumption
    <3> QED BY <1>1, <1>2, <2>1, <3>2
  <2> QED BY <2>2, <2>3
<1>4. Past = 1 .. i
  BY <1>1, <1>2, <1>3
<1>5. Cardinality(1 .. i) = i
  BY <1>1, <1>2, FS_Interval
<1> QED BY <1>4, <1>5 DEF i

-----------------------------------------------------------------------------
(* Types. *)

\* What the kernel and the process manager compute with are integers.
LEMMA ClockTypes ==
  ASSUME uptime \in Nat, boottime \in -Half .. Half-1
  PROVE  /\ Seconds \in Nat
         /\ boottime + Seconds \in Int
         /\ Now \in -Half .. Half-1
         /\ microseconds \in 0 .. Million-1
         /\ Utc(Now) \in -Half .. Half-1
<1>0. system_hz \in Nat \ {0} /\ Half \in Nat \ {0}
  BY PmTimeAssumption
<1>1. Seconds \in Nat
  <2>1. 0 \div system_hz = 0
    BY <1>0
  <2>2. uptime \div system_hz \in Int
    BY <1>0, Division
  <2>3. 0 \div system_hz <= uptime \div system_hz
    BY <1>0, DivMonotone
  <2> QED BY <2>1, <2>2, <2>3 DEF Seconds
<1>2. boottime + Seconds \in Int
  BY <1>0, <1>1
<1>3. Now \in -Half .. Half-1
  BY <1>2, WrapInRange DEF Now
<1>4. microseconds \in 0 .. Million-1
  <2>1. uptime % system_hz \in 0 .. system_hz - 1
    BY <1>0, Division
  <2> QED BY <2>1, Microseconds DEF microseconds
<1>5. Utc(Now) \in -Half .. Half-1
  <2>1. Now \in Int /\ Leaps(Now) \in Int
    BY <1>0, <1>3, LeapsStops, PmTimeAssumption
  <2>2. Now + Leaps(Now) + 10 \in Int
    BY <2>1
  <2> QED BY <2>2, WrapInRange DEF Utc
<1> QED BY <1>1, <1>2, <1>3, <1>4, <1>5

\* An answer keeps the types.
LEMMA AnswerTypes ==
  ASSUME TypeOK, NEW c \in Calls, NEW time \in Int, NEW utime \in 0 .. Million-1,
         Answer(c, time, utime)
  PROVE  TypeOK'
<1>1. reply'.call \in Calls /\ reply'.utime \in 0 .. Million-1
  BY DEF Answer
<1>2. seen' \in Int \X Int
  BY DEF Answer, TypeOK
<1> QED BY <1>1, <1>2 DEF Answer, TypeOK

\* Setting the clock keeps the types.
LEMMA StimeTypes ==
  ASSUME TypeOK, NEW c \in Calls, NEW t \in Times, do_stime(c, t)
  PROVE  TypeOK'
<1>1. Seconds \in Nat
  BY ClockTypes DEF TypeOK
<1>2. t \in -Half .. Half-1 /\ t \in Int
  BY PmTimeAssumption
<1>3. Wrap(t - Seconds) \in -Half .. Half-1
  BY <1>1, <1>2, WrapInRange
<1>4. set' \in [time : -Half .. Half-1, second : Nat]
  BY <1>1, <1>2 DEF do_stime
<1> QED BY <1>3, <1>4 DEF do_stime, TypeOK

\* A step keeps the types.
LEMMA StepTypes == TypeOK /\ [Next]_vars => TypeOK'
<1> SUFFICES ASSUME TypeOK, [Next]_vars PROVE TypeOK'
  OBVIOUS
<1>0. /\ Now \in Int /\ Utc(Now) \in Int /\ uptime \in Int
      /\ microseconds \in 0 .. Million-1 /\ 0 \in 0 .. Million-1
  BY ClockTypes, PmTimeAssumption, MillionIsPositive DEF TypeOK
<1>1. CASE tick
  BY <1>1 DEF tick, TypeOK
<1>2. ASSUME NEW c \in Calls, do_time(c) PROVE TypeOK'
  BY <1>0, <1>2, AnswerTypes DEF do_time
<1>3. ASSUME NEW c \in Calls, do_utctime(c) PROVE TypeOK'
  BY <1>0, <1>3, AnswerTypes DEF do_utctime
<1>4. ASSUME NEW c \in Calls, do_times(c) PROVE TypeOK'
  BY <1>0, <1>4, AnswerTypes DEF do_times
<1>5. ASSUME NEW c \in Calls, do_stimeForbidden(c) PROVE TypeOK'
  <2>1. reply'.call \in Calls /\ reply'.utime \in 0 .. Million-1
    BY <1>0, <1>5 DEF do_stimeForbidden
  <2> QED BY <1>5, <2>1 DEF do_stimeForbidden, TypeOK
<1>6. ASSUME NEW c \in Calls, NEW t \in Times, do_stime(c, t) PROVE TypeOK'
  BY <1>6, StimeTypes
<1>7. CASE sys_stime
  <2>1. reply'.call \in Calls /\ reply'.utime \in 0 .. Million-1
    BY <1>0, <1>7 DEF sys_stime, SetBoottime, Calls
  <2>2. seen' \in Int \X Int
    BY <1>7 DEF sys_stime, SetBoottime, NoAnswer
  <2> QED BY <1>7, <2>1, <2>2 DEF sys_stime, SetBoottime, TypeOK
<1>8. CASE UNCHANGED vars
  BY <1>8 DEF vars, TypeOK
<1> QED BY <1>1, <1>2, <1>3, <1>4, <1>5, <1>6, <1>7, <1>8 DEF Next

\* The times of the kernel and of the process manager stay within time_t, and
\* the microseconds of every reply (time.c:33 and 67) below a million, for every
\* clock rate and every width of time_t.
THEOREM TypeCorrect == Spec => []TypeOK
<1>1. Init => TypeOK
  <2> SUFFICES ASSUME Init PROVE TypeOK
    OBVIOUS
  <2>1. boottime \in -Half .. Half-1 /\ 0 \in -Half .. Half-1
    BY PmTimeAssumption DEF Init
  <2>2. reply.call \in Calls /\ reply.utime \in 0 .. Million-1
    BY MillionIsPositive DEF Init, Calls
  <2>3. seen \in Int \X Int /\ set \in [time : -Half .. Half-1, second : Nat]
    BY <2>1 DEF Init, NoAnswer
  <2> QED BY <2>1, <2>2, <2>3 DEF Init, TypeOK
<1> QED BY <1>1, StepTypes, PTL DEF Spec

-----------------------------------------------------------------------------
(* Setting the clock. *)

\* While do_stime() is between its calls its local boottime, and at all other
\* times the boottime of the kernel, is the set time less the uptime then.
BootInv ==
  /\ pc = "idle" => boottime = Wrap(set.time - set.second)
  /\ pc = "stime" => newboot = Wrap(set.time - set.second)

\* Once do_stime() (time.c:76-96) has returned the clock shows what it was set
\* to, and goes on from there, however many ticks came between its two calls
\* to the kernel, also where time_t overflows.
THEOREM SetTimeTakes == Spec => []StimeTakes
<1>1. Init => BootInv
  <2> SUFFICES ASSUME Init PROVE BootInv
    OBVIOUS
  <2>1. boottime \in -Half .. Half-1 /\ boottime \in Int /\ boottime - 0 = boottime
    BY PmTimeAssumption DEF Init
  <2>2. Wrap(boottime - 0) = boottime
    BY <2>1, WrapInRange
  <2> QED BY <2>2 DEF Init, BootInv
<1>2. TypeOK /\ BootInv /\ [Next]_vars => BootInv'
  <2> SUFFICES ASSUME TypeOK, BootInv, [Next]_vars PROVE BootInv'
    OBVIOUS
  <2>1. CASE UNCHANGED <<boottime, pc, newboot, set>>
    BY <2>1 DEF BootInv
  <2>2. ASSUME NEW c \in Calls, NEW t \in Times, do_stime(c, t) PROVE BootInv'
    BY <2>2 DEF do_stime, BootInv
  <2>3. CASE sys_stime
    BY <2>3 DEF sys_stime, SetBoottime, BootInv
  <2> QED BY <2>1, <2>2, <2>3
          DEF Next, vars, tick, do_time, do_utctime, do_times, do_stimeForbidden, Answer
<1>3. TypeOK /\ BootInv => StimeTakes
  <2> SUFFICES ASSUME TypeOK, BootInv, pc = "idle"
               PROVE  Now = Wrap(set.time + (Seconds - set.second))
    BY DEF StimeTakes
  <2>1. Seconds \in Int /\ set.time \in Int /\ set.second \in Int
    BY ClockTypes, PmTimeAssumption DEF TypeOK
  <2>2. set.time - set.second \in Int
        /\ (set.time - set.second) + Seconds = set.time + (Seconds - set.second)
    BY <2>1
  <2>3. Now = Wrap(Wrap(set.time - set.second) + Seconds)
    BY DEF Now, BootInv
  <2> QED BY <2>1, <2>2, <2>3, WrapAdds
<1> QED BY <1>1, <1>2, <1>3, TypeCorrect, PTL DEF Spec

-----------------------------------------------------------------------------
(* Leap seconds. *)

\* utctime() (time.c:53-66, utctime.c:5) is ahead of the clock by ten seconds
\* and one for every entry of the table that is in the past, for every
\* ascending table.
THEOREM CountsLeaps == Spec => []UtcCountsLeaps
<1>1. Init => UtcCountsLeaps
  BY DEF Init, UtcCountsLeaps, STIME, UTCTIME
<1>2. TypeOK /\ UtcCountsLeaps /\ [Next]_vars => UtcCountsLeaps'
  <2> SUFFICES ASSUME TypeOK, UtcCountsLeaps, [Next]_vars PROVE UtcCountsLeaps'
    OBVIOUS
  <2>1. CASE UNCHANGED reply
    BY <2>1 DEF UtcCountsLeaps, utctime
  <2>2. CASE reply'.call # UTCTIME
    BY <2>2 DEF UtcCountsLeaps
  <2>3. ASSUME NEW c \in Calls, do_utctime(c) PROVE UtcCountsLeaps'
    <3> DEFINE Past(t) == {k \in 1 .. Len(leapsecond_reference) :
                             leapsecond_reference[k] < t}
    <3>1. reply'.status = 0 /\ reply'.time = Utc(Now) /\ reply'.now = Now
      BY <2>3 DEF do_utctime, Answer, OK
    <3>2. utctime' = Utc(Now)
      BY <3>1 DEF utctime
    <3>3. Now \in Int
      BY ClockTypes, PmTimeAssumption DEF TypeOK
    <3>4. Leaps(Now) = Cardinality(Past(Now)) /\ Leaps(Now) \in Int
      BY <3>3, LeapsCounts, LeapsStops, PmTimeAssumption
    <3> HIDE DEF Past
    <3>5. Now + Leaps(Now) + 10 = Now + 10 + Cardinality(Past(Now))
      BY <3>3, <3>4
    <3>6. utctime' = Wrap(reply'.now + 10 + Cardinality(Past(reply'.now)))
      BY <3>1, <3>2, <3>5 DEF Utc
    <3> QED BY <3>6 DEF UtcCountsLeaps, Past
  <2>4. ASSUME NEW c \in Calls, do_time(c) \/ do_times(c) \/ do_stimeForbidden(c)
        PROVE  reply'.call # UTCTIME
    BY <2>4 DEF do_time, do_times, do_stimeForbidden, Answer, Serves, call_vec,
                Calls, TIME, STIME, TIMES, UTCTIME, GETTIMEOFDAY
  <2>5. CASE sys_stime
    BY <2>5, <2>2 DEF sys_stime, SetBoottime, STIME, UTCTIME
  <2> QED BY <2>1, <2>2, <2>3, <2>4, <2>5 DEF Next, vars, tick, do_stime
<1> QED BY <1>1, <1>2, TypeCorrect, PTL DEF Spec

-----------------------------------------------------------------------------
(* The clock does not run backwards. *)

\* What the watched call would answer now.
Current ==
  << IF watched = UTCTIME THEN Utc(Now) ELSE IF watched = TIMES THEN uptime ELSE Now,
     IF watched = TIMES THEN 0 ELSE microseconds >>

\* The last answer is not after what would be the answer now.
SeenInv == seen # NoAnswer /\ InRange => NotBefore(Current, seen)

\* Comparing answers.
LEMMA NotBeforeOrders ==
  ASSUME NEW a \in Int \X Int, NEW b \in Int \X Int, NEW c \in Int \X Int
  PROVE  NotBefore(a, a) /\ (NotBefore(a, b) /\ NotBefore(b, c) => NotBefore(a, c))
<1>1. a[1] \in Int /\ a[2] \in Int /\ b[1] \in Int /\ b[2] \in Int
      /\ c[1] \in Int /\ c[2] \in Int
  OBVIOUS
<1> QED BY <1>1 DEF NotBefore

\* Seconds are counted from zero.
LEMMA SecondsType == TypeOK => Seconds \in Nat
  BY ClockTypes DEF TypeOK

\* An answer is a pair of integers.
LEMMA CurrentType == TypeOK => Current \in Int \X Int
<1> SUFFICES ASSUME TypeOK PROVE Current \in Int \X Int
  OBVIOUS
<1>1. Utc(Now) \in Int /\ Now \in Int /\ uptime \in Int
  BY ClockTypes, PmTimeAssumption DEF TypeOK
<1>2. microseconds \in Int
  BY ClockTypes, MillionIsPositive DEF TypeOK
<1> QED BY <1>1, <1>2 DEF Current

\* Far from the end of time_t nothing overflows.
LEMMA NoOverflow ==
  ASSUME TypeOK, InRange
  PROVE  /\ Now = boottime + Seconds
         /\ Utc(Now) = Now + Leaps(Now) + 10
<1>1. Half \in Nat \ {0} /\ Len(leapsecond_reference) \in Nat /\ boottime \in Int
      /\ boottime >= -Half
  BY PmTimeAssumption DEF TypeOK
<1>2. Seconds \in Nat
  BY ClockTypes DEF TypeOK
<1>3. boottime + Seconds \in -Half .. Half-1 /\ boottime + Seconds \in Int
  BY <1>1, <1>2 DEF InRange
<1>4. Now = boottime + Seconds
  BY <1>3, WrapInRange DEF Now
<1>5. Leaps(Now) \in Nat /\ Leaps(Now) <= Len(leapsecond_reference)
  BY <1>1, <1>3, <1>4, LeapsStops
<1>6. Now + Leaps(Now) + 10 \in -Half .. Half-1 /\ Now + Leaps(Now) + 10 \in Int
  BY <1>1, <1>2, <1>3, <1>4, <1>5 DEF InRange
<1>7. Utc(Now) = Now + Leaps(Now) + 10
  BY <1>6, WrapInRange DEF Utc
<1> QED BY <1>4, <1>7

\* A tick moves every answer forward.
LEMMA TickForward ==
  ASSUME TypeOK, TypeOK', tick, InRange'
  PROVE  InRange /\ NotBefore(Current', Current)
<1> DEFINE h == system_hz
<1>0. h \in Nat \ {0} /\ Len(leapsecond_reference) \in Nat /\ uptime \in Nat
      /\ uptime' = uptime + 1 /\ boottime' = boottime /\ watched' = watched
      /\ boottime \in Int
  BY PmTimeAssumption DEF TypeOK, tick
<1>1. Seconds \in Nat /\ Seconds' \in Nat
  <2>1. Seconds \in Nat
    BY ClockTypes DEF TypeOK
  <2>2. (TypeOK => Seconds \in Nat)'
    BY SecondsType, PTL
  <2> QED BY <2>1, <2>2
<1>2. \/ Seconds' = Seconds /\ uptime' % h = (uptime % h) + 1
      \/ Seconds' = Seconds + 1 /\ uptime' % h = 0
  BY <1>0, NextTick DEF Seconds
<1>3. InRange
  BY <1>0, <1>1, <1>2, PmTimeAssumption DEF InRange
<1>4. Now = boottime + Seconds /\ Utc(Now) = Now + Leaps(Now) + 10
  BY <1>3, NoOverflow
<1>5. Now' = boottime + Seconds' /\ Utc(Now)' = Now' + Leaps(Now') + 10
  <2>1. (TypeOK /\ InRange => Now = boottime + Seconds /\ Utc(Now) = Now + Leaps(Now) + 10)'
    BY NoOverflow, PTL
  <2> QED BY <2>1, <1>0
<1>6. uptime % h \in 0 .. h-1 /\ uptime' % h \in 0 .. h-1
  <2> DEFINE v == uptime'
  <2>1. uptime \in Int /\ v \in Int
    BY <1>0
  <2> HIDE DEF v
  <2>2. uptime % h \in 0 .. h-1 /\ v % h \in 0 .. h-1
    BY <1>0, <2>1, Division
  <2> QED BY <2>2 DEF v
<1>7. microseconds \in Int /\ microseconds' \in Int
  <2>1. ASSUME NEW a \in 0 .. h-1 PROVE Micros(a) \in Int
    BY Microseconds, MillionIsPositive
  <2> QED BY <1>6, <2>1 DEF microseconds
<1>8. Seconds' = Seconds => microseconds' >= microseconds
  <2> SUFFICES ASSUME Seconds' = Seconds PROVE microseconds <= microseconds'
    BY <1>7
  <2>1. uptime % h <= uptime' % h
    <3>1. ~(Seconds' = Seconds + 1)
      BY <1>1
    <3> QED BY <1>2, <1>6, <3>1
  <2> QED BY <1>3, <1>6, <2>1, Microseconds DEF microseconds, InRange
<1>9. Now \in Int /\ Now' \in Int /\ Now <= Now'
      /\ (Seconds' = Seconds => Now' = Now) /\ (Seconds' # Seconds => Now < Now')
  <2>1. Seconds' = Seconds \/ Seconds' = Seconds + 1
    BY <1>2
  <2>2. boottime \in Int
    BY <1>0
  <2>3. Now = boottime + Seconds /\ Now' = boottime + Seconds'
    BY <1>4, <1>5
  <2>4. \A b \in Int, s, t \in Nat : t = s \/ t = s+1 =>
          /\ b + s \in Int /\ b + t \in Int /\ b + s <= b + t
          /\ (t = s => b + t = b + s) /\ (t # s => b + s < b + t)
    OBVIOUS
  <2> QED BY <1>1, <2>1, <2>2, <2>3, <2>4
<1>10. Leaps(Now) \in Int /\ Leaps(Now') \in Int /\ Leaps(Now) <= Leaps(Now')
  <2> DEFINE s == Now
             t == Now'
  <2>1. s \in Int /\ t \in Int /\ s <= t
    BY <1>9
  <2> HIDE DEF s, t
  <2>2. Leaps(s) \in Int /\ Leaps(t) \in Int
    BY <2>1, <1>0, LeapsStops
  <2>3. Leaps(s) <= Leaps(t)
    BY <2>1, LeapsMonotone
  <2> QED BY <2>2, <2>3 DEF s, t
<1>11. CASE watched = UTCTIME
  <2>1. Current = <<Utc(Now), microseconds>> /\ Current' = <<Utc(Now)', microseconds'>>
    BY <1>0, <1>11 DEF Current, UTCTIME, TIMES
  <2>2. Utc(Now) \in Int /\ Utc(Now)' \in Int
        /\ (Seconds' = Seconds => Utc(Now)' = Utc(Now))
        /\ (Seconds' # Seconds => Utc(Now) < Utc(Now)')
    BY <1>4, <1>5, <1>9, <1>10
  <2>3. NotBefore(<<Utc(Now)', microseconds'>>, <<Utc(Now), microseconds>>)
    BY <1>7, <1>8, <2>2 DEF NotBefore
  <2> QED BY <1>3, <2>1, <2>3
<1>12. CASE watched = TIMES
  <2>1. Current = <<uptime, 0>> /\ Current' = <<uptime', 0>>
    BY <1>0, <1>12 DEF Current, UTCTIME, TIMES
  <2> QED BY <1>0, <1>3, <2>1 DEF NotBefore
<1>13. CASE watched # UTCTIME /\ watched # TIMES
  <2>1. Current = <<Now, microseconds>> /\ Current' = <<Now', microseconds'>>
    BY <1>0, <1>13 DEF Current
  <2>2. NotBefore(<<Now', microseconds'>>, <<Now, microseconds>>)
    BY <1>7, <1>8, <1>9 DEF NotBefore
  <2> QED BY <1>3, <2>1, <2>2
<1> QED BY <1>11, <1>12, <1>13

\* An answer to the watched call is what Current says.
LEMMA AnswerIsCurrent ==
  ASSUME NEW c \in Calls, do_time(c) \/ do_utctime(c) \/ do_times(c)
  PROVE  /\ seen' = seen \/ seen' = Current
         /\ UNCHANGED <<uptime, boottime, watched>>
<1>1. CASE do_time(c)
  <2>1. c \in {TIME, GETTIMEOFDAY} /\ c # UTCTIME /\ c # TIMES
    BY <1>1 DEF do_time, Serves, call_vec, Calls, TIME, STIME, TIMES, UTCTIME, GETTIMEOFDAY
  <2>2. seen' = seen \/ (c = watched /\ seen' = <<Now, microseconds>>)
    BY <1>1 DEF do_time, Answer
  <2> QED BY <1>1, <2>1, <2>2 DEF Current, do_time, Answer
<1>2. CASE do_utctime(c)
  <2>1. c = UTCTIME /\ c # TIMES
    BY <1>2 DEF do_utctime, Serves, call_vec, Calls, TIME, STIME, TIMES, UTCTIME, GETTIMEOFDAY
  <2>2. seen' = seen \/ (c = watched /\ seen' = <<Utc(Now), microseconds>>)
    BY <1>2 DEF do_utctime, Answer
  <2> QED BY <1>2, <2>1, <2>2 DEF Current, do_utctime, Answer
<1>3. CASE do_times(c)
  <2>1. c # UTCTIME /\ c = TIMES
    BY <1>3 DEF do_times, Serves, call_vec, Calls, TIME, STIME, TIMES, UTCTIME, GETTIMEOFDAY
  <2>2. seen' = seen \/ (c = watched /\ seen' = <<uptime, 0>>)
    BY <1>3 DEF do_times, Answer
  <2> QED BY <1>3, <2>1, <2>2 DEF Current, do_times, Answer
<1> QED BY <1>1, <1>2, <1>3

\* Only the uptime, the boottime and the watched call matter.
LEMMA CurrentUnchanged ==
  ASSUME UNCHANGED <<uptime, boottime, watched>>
  PROVE  Current' = Current /\ InRange' = InRange
  BY DEF Current, InRange, Now, Utc, Seconds, microseconds

\* How a step changes the last answer.
LEMMA SeenSteps ==
  ASSUME [Next]_vars
  PROVE  \/ tick
         \/ UNCHANGED <<uptime, boottime, watched>> /\ (seen' = seen \/ seen' = Current)
         \/ seen' = NoAnswer
<1>1. ASSUME NEW c \in Calls, do_time(c) \/ do_utctime(c) \/ do_times(c)
      PROVE  UNCHANGED <<uptime, boottime, watched>> /\ (seen' = seen \/ seen' = Current)
  BY <1>1, AnswerIsCurrent
<1> QED BY <1>1 DEF Next, vars, do_stimeForbidden, do_stime, sys_stime, SetBoottime

\* The last answer stays behind the clock.
LEMMA SeenStep == TypeOK /\ TypeOK' /\ SeenInv /\ [Next]_vars => SeenInv'
<1> SUFFICES ASSUME TypeOK, TypeOK', SeenInv, [Next]_vars, seen' # NoAnswer, InRange'
             PROVE  NotBefore(Current', seen')
  BY DEF SeenInv
<1>1. Current \in Int \X Int /\ seen \in Int \X Int
  BY CurrentType DEF TypeOK
<1>2. Current' \in Int \X Int
  <2>1. (TypeOK => Current \in Int \X Int)'
    BY CurrentType, PTL
  <2> QED BY <2>1
<1>3. CASE tick
  <2>1. InRange /\ NotBefore(Current', Current) /\ seen' = seen
    BY <1>3, TickForward DEF tick
  <2>2. NotBefore(Current, seen)
    BY <2>1 DEF SeenInv
  <2>3. NotBefore(Current', seen)
    BY <1>1, <1>2, <2>1, <2>2, NotBeforeOrders
  <2> QED BY <2>1, <2>3
<1>4. CASE UNCHANGED <<uptime, boottime, watched>> /\ (seen' = seen \/ seen' = Current)
  <2>1. Current' = Current /\ InRange
    BY <1>4, CurrentUnchanged
  <2>2. CASE seen' = seen
    BY <2>1, <2>2 DEF SeenInv
  <2>3. CASE seen' = Current
    BY <1>1, <2>1, <2>3, NotBeforeOrders
  <2> QED BY <1>4, <2>2, <2>3
<1> QED BY <1>3, <1>4, SeenSteps

\* Two answers to the same call (time.c:16-70 and 98-117) never go back in
\* time unless the clock is set between them: for every clock rate and every
\* table, as long as neither time_t nor the product of time.c:33 overflows.
THEOREM TimeIsMonotone == Spec => NeverBackwards
<1>1. Init => SeenInv
  BY DEF Init, SeenInv
<1>2. TypeOK /\ SeenInv /\ [Next]_vars =>
        [InRange' /\ seen # NoAnswer /\ seen' # NoAnswer => NotBefore(seen', seen)]_vars
  <2> SUFFICES ASSUME TypeOK, SeenInv, [Next]_vars,
                      InRange', seen # NoAnswer, seen' # NoAnswer
               PROVE  NotBefore(seen', seen)
    OBVIOUS
  <2>1. seen \in Int \X Int
    BY DEF TypeOK
  <2>2. CASE seen' = seen
    BY <2>1, <2>2, NotBeforeOrders
  <2>3. CASE UNCHANGED <<uptime, boottime, watched>> /\ seen' = Current
    BY <2>3, CurrentUnchanged DEF SeenInv
  <2> QED BY <2>2, <2>3, SeenSteps DEF tick
<1> QED BY <1>1, <1>2, SeenStep, TypeCorrect, PTL DEF Spec, NeverBackwards
=============================================================================
