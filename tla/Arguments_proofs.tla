----------------------------- MODULE Arguments_proofs ---------------------------
(***************************************************************************)
(* Proofs about the readers of the command line's words.                   *)
(*                                                                         *)
(* HostUptime, for every time of boot, every reading of the wall clock and *)
(* every width: the invariant says how the result was made of what was     *)
(* read; the rest is arithmetic on seconds and microseconds.               *)
(*                                                                         *)
(* TrapPdu, for every command line and every width of the integers: what   *)
(* was parsed so far is a prefix of what the words say (PduInv).           *)
(*                                                                         *)
(* AgentText, for every AGENT, set of ports and answer of the resolver:    *)
(* what is looked up is a way to read the text (AgentInv).                 *)
(*                                                                         *)
(* EngineIdText, for every text over any characters: what is kept of it    *)
(* are its digits, in their order (Ranked), and what is decoded of those   *)
(* is a part of the octets they stand for (HexInv).                        *)
(***************************************************************************)
EXTENDS Arguments, SequenceTheorems, FiniteSetTheorems, NaturalsInduction, TLAPS

Computed ==
    /\ pc = "clock" => platform = "macos" /\ boottime \in Timeval
    /\ pc = "done" /\ platform = "macos" =>
           /\ boottime \in Timeval /\ now \in Timeval
           /\ result = centiseconds(elapsed(boottime, now))

Inv == TypeOK /\ Computed /\ NeverAhead

(* A second has microseconds whenever a reading has been taken. *)
LEMMA Reading ==
    ASSUME NEW t \in Timeval
    PROVE  t.sec \in Int /\ t.usec \in 0 .. SECOND - 1 /\ SECOND \in Nat \ {0}
<1>1. t.sec \in Int /\ t.usec \in 0 .. SECOND - 1
  BY UptimeAssumption DEF Timeval
<1> QED BY <1>1, UptimeAssumption, SMT

LEMMA Between ==
    ASSUME NEW n \in Nat
    PROVE  Capped(n) \in 0 .. U32_MAX /\ (n <= U32_MAX => Capped(n) = n)
           /\ (n > U32_MAX => Capped(n) = U32_MAX)
BY UptimeAssumption, SMT DEF Capped, Lower

(* The borrow keeps the difference and makes the microseconds those of a
   second. *)
LEMMA Borrow ==
    ASSUME NEW b \in Timeval, NEW n \in Timeval
    PROVE  LET e == elapsed(b, n)
           IN  /\ e.sec \in Int /\ e.usec \in 0 .. SECOND - 1
               /\ e.sec * SECOND + e.usec = Micros(n) - Micros(b)
<1> DEFINE bs == b.sec
           bu == b.usec
           ns == n.sec
           nu == n.usec
<1>1. bs \in Int /\ ns \in Int /\ bu \in 0 .. SECOND - 1 /\ nu \in 0 .. SECOND - 1
      /\ SECOND \in Nat \ {0}
  BY Reading
<1>2. Micros(n) - Micros(b) = (ns * SECOND + nu) - (bs * SECOND + bu)
  BY DEF Micros
<1> HIDE DEF bs, bu, ns, nu
<1>3. (ns - bs) * SECOND = ns * SECOND - bs * SECOND
      /\ ((ns - bs) - 1) * SECOND = ns * SECOND - bs * SECOND - SECOND
      /\ ns * SECOND \in Int /\ bs * SECOND \in Int
  BY <1>1, SMT
<1>4. elapsed(b, n) = IF nu - bu < 0 THEN [sec |-> (ns - bs) - 1, usec |-> (nu - bu) + SECOND]
                                     ELSE [sec |-> ns - bs, usec |-> nu - bu]
  BY DEF elapsed, bs, bu, ns, nu
<1>5. CASE nu - bu < 0
  <2>1. elapsed(b, n).sec = (ns - bs) - 1 /\ elapsed(b, n).usec = (nu - bu) + SECOND
    BY <1>4, <1>5
  <2> QED BY <1>1, <1>2, <1>3, <1>5, <2>1, SMT
<1>6. CASE ~(nu - bu < 0)
  <2>1. elapsed(b, n).sec = ns - bs /\ elapsed(b, n).usec = nu - bu
    BY <1>4, <1>6
  <2> QED BY <1>1, <1>2, <1>3, <1>6, <2>1, SMT
<1> QED BY <1>5, <1>6

(* A difference is negative exactly when its seconds are, borrow included. *)
LEMMA Sign ==
    ASSUME NEW s \in Int, NEW u \in 0 .. SECOND - 1, SECOND \in Nat \ {0}
    PROVE  s * SECOND \in Int /\ (s < 0 <=> s * SECOND + u < 0)
<1>1. CASE s < 0
  <2>1. (s + 1) * SECOND <= 0 /\ (s + 1) * SECOND = s * SECOND + SECOND /\ s * SECOND \in Int
    BY <1>1, SMT
  <2> QED BY <1>1, <2>1, SMT
<1>2. CASE s >= 0
  <2>1. s * SECOND >= 0 /\ s * SECOND \in Int
    BY <1>2, SMT
  <2> QED BY <1>2, <2>1, SMT
<1> QED BY <1>1, <1>2, SMT

LEMMA Hundredths ==
    ASSUME NEW d \in Nat, NEW c \in Nat \ {0}
    PROVE  d \div c \in Nat /\ (d \div c) * c <= d /\ d < ((d \div c) + 1) * c
BY SMT

(* What the arithmetic of ReadClock comes to. *)
LEMMA Elapsed ==
    ASSUME NEW b \in Timeval, NEW n \in Timeval
    PROVE  LET r == centiseconds(elapsed(b, n))
               d == Micros(n) - Micros(b)
           IN  /\ d \in Int /\ r \in 0 .. U32_MAX
               /\ d < 0 => r = 0
               /\ d >= 0 /\ d \div CENTI > U32_MAX => r = U32_MAX
               /\ d >= 0 /\ d \div CENTI <= U32_MAX =>
                      r * CENTI <= d /\ d < (r + 1) * CENTI
<1> DEFINE e == elapsed(b, n)
           s == e.sec
           u == e.usec
           d == Micros(n) - Micros(b)
           r == centiseconds(e)
<1>1. s \in Int /\ u \in 0 .. SECOND - 1 /\ s * SECOND + u = d
  BY Borrow
<1>2. SECOND \in Nat \ {0}
  BY Reading
<1>3. r = IF s < 0 THEN 0 ELSE Capped((s * SECOND + u) \div CENTI)
  BY DEF centiseconds
<1> HIDE DEF e, s, u, d, r
<1>4. s * SECOND \in Int /\ (s < 0 <=> s * SECOND + u < 0)
  BY <1>1, <1>2, Sign
<1>5. d \in Int /\ (s < 0 <=> d < 0)
  BY <1>1, <1>2, <1>4, SMT
<1>6. CASE d < 0
  <2>1. r = 0 /\ ~(d >= 0)
    BY <1>3, <1>5, <1>6, SMT
  <2> QED BY <1>5, <1>6, <2>1, UptimeAssumption, SMT DEF e, d, r
<1>7. CASE d >= 0
  <2> DEFINE q == d \div CENTI
  <2>1. d \in Nat /\ r = Capped(q)
    BY <1>1, <1>3, <1>5, <1>7, SMT
  <2>2. q \in Nat /\ q * CENTI <= d /\ d < (q + 1) * CENTI
    BY <2>1, UptimeAssumption, Hundredths
  <2> HIDE DEF q
  <2>3. r \in 0 .. U32_MAX /\ (q <= U32_MAX => r = q) /\ (q > U32_MAX => r = U32_MAX)
    BY <2>1, <2>2, Between
  <2>4. q <= U32_MAX => r * CENTI <= d /\ d < (r + 1) * CENTI
    BY <2>2, <2>3
  <2>5. ~(d < 0)
    BY <1>5, <1>7, SMT
  <2> QED BY <1>5, <2>3, <2>4, <2>5 DEF e, d, r, q
<1> QED BY <1>5, <1>6, <1>7, SMT

(* Products of integers are ordered as their first factors are. *)
LEMMA Multiplied ==
    ASSUME NEW a \in Int, NEW b \in Int, NEW c \in Nat \ {0}
    PROVE  /\ a * c \in Int /\ b * c \in Int
           /\ a <= b => a * c <= b * c
           /\ a * c < b * c => a < b
<1>1. a <= b => a * c <= b * c
  <2>1. (b - a) * c = b * c - a * c
    BY SMT
  <2>2. b - a >= 0 => (b - a) * c >= 0
    BY SMT
  <2> QED BY <2>1, <2>2, SMT
<1>2. b <= a => b * c <= a * c
  <2>1. (a - b) * c = a * c - b * c
    BY SMT
  <2>2. a - b >= 0 => (a - b) * c >= 0
    BY SMT
  <2> QED BY <2>1, <2>2, SMT
<1> QED BY <1>1, <1>2, SMT

(* Rounding to the nearest integer is off by half of one at most. *)
LEMMA Rounded ==
    ASSUME NEW num \in Nat, NEW den \in Nat \ {0}
    PROVE  /\ Nearest(num, den) \in Nat
           /\ 2 * (Nearest(num, den) * den) - 2 * num \in -den .. den
<1> DEFINE down == num \div den
           part == down * den
           rest == num - part
<1>1. down \in Nat /\ part <= num /\ num < (down + 1) * den /\ part \in Nat
  BY Hundredths, SMT
<1>2. (down + 1) * den = part + den
  BY <1>1, SMT
<1>3. \/ Nearest(num, den) = down /\ 2 * rest <= den
      \/ Nearest(num, den) = down + 1 /\ 2 * rest >= den
  <2>1. rest \in Int /\ 2 * rest \in Int
    BY <1>1, SMT
  <2> QED BY <2>1, SMT DEF Nearest
<1> HIDE DEF down, part
<1>4. CASE Nearest(num, den) = down /\ 2 * rest <= den
  <2>1. Nearest(num, den) * den = part
    BY <1>4 DEF part
  <2> QED BY <1>1, <1>4, <2>1, SMT
<1>5. CASE Nearest(num, den) = down + 1 /\ 2 * rest >= den
  <2>1. Nearest(num, den) * den = part + den
    BY <1>2, <1>5
  <2> QED BY <1>1, <1>2, <1>5, <2>1, SMT
<1> QED BY <1>3, <1>4, <1>5

(* What a float is of what it was made from. *)
LEMMA FloatIs ==
    ASSUME NEW num \in Nat, NEW den \in Nat \ {0}, NEW f \in Float(num, den)
    PROVE  /\ f.mant \in Nat /\ f.scale \in Nat \ {0}
           /\ HALF * den <= num * f.scale
           /\ 2 * (f.mant * den) - 2 * (num * f.scale) \in -den .. den
<1>1. PICK s \in Scales : /\ num * s \in HALF * den .. 2 * HALF * den - 1
                          /\ f = [mant |-> Nearest(num * s, den), scale |-> s]
  BY DEF Float, FloatOf
<1>2. s \in Nat \ {0} /\ f.scale = s /\ f.mant = Nearest(num * s, den)
  BY <1>1, FloatAssumption
<1>3. num * s \in Nat /\ HALF * den \in Nat
  BY <1>2, FloatAssumption, SMT
<1>4. HALF * den <= num * s
  BY <1>1, <1>3, SMT
<1> QED BY <1>2, <1>3, <1>4, Rounded

(* The product of a rounded quotient, rounded again, is less than a hundredth of
   a second off, as long as the mantissa has room for the hundredths: the cast
   then loses one of them at most. *)
LEMMA TwiceRounded ==
    ASSUME NEW n \in Nat \ {0}, n < HALF,
           NEW secs \in Float(n, 100), NEW prod \in Float(secs.mant * 100, secs.scale)
    PROVE  prod.mant \div prod.scale \in {n - 1, n}
<1> DEFINE k == secs.mant
           a == secs.scale
           j == prod.mant
           b == prod.scale
           x == (k * 100) * b
           p == a * b
           t == n * p
           q == j \div b
<1>1. /\ k \in Nat /\ a \in Nat \ {0} /\ HALF * 100 <= n * a
      /\ 2 * (k * 100) - 2 * (n * a) \in -100 .. 100
  <2>1. n \in Nat /\ 100 \in Nat \ {0}
    BY SMT
  <2> QED BY <2>1, FloatIs, Zenon
<1>2. /\ j \in Nat /\ b \in Nat \ {0}
      /\ 2 * (j * a) - 2 * x \in -a .. a
  <2>1. k * 100 \in Nat
    BY <1>1, SMT
  <2> QED BY <1>1, <2>1, FloatIs, Zenon
<1> HIDE DEF k, a, j, b
<1>3. x \in Nat /\ p \in Nat /\ t \in Nat /\ j * a \in Nat /\ n * a \in Nat
  BY <1>1, <1>2, SMT
<1>4. a > 100
  <2>1. a * n <= 100 * n \/ a > 100
    BY <1>1, Multiplied
  <2> QED BY <1>1, <2>1, FloatAssumption, SMT
<1>5. 101 * b <= p
  BY <1>1, <1>2, <1>4, Multiplied, SMT
<1>6. a <= p
  <2>1. 1 * a <= b * a
    BY <1>1, <1>2, Multiplied, SMT
  <2> QED BY <1>1, <1>2, <2>1, SMT
<1>7. (n * a) * b = t
  BY <1>1, <1>2, SMT
<1>8. 2 * x <= 2 * t + 100 * b /\ 2 * t <= 2 * x + 100 * b
  <2>1. (k * 100) * b <= (n * a + 50) * b
    BY <1>1, <1>2, <1>3, Multiplied, SMT
  <2>2. (n * a) * b <= (k * 100 + 50) * b
    BY <1>1, <1>2, <1>3, Multiplied, SMT
  <2>3. (n * a + 50) * b = t + 50 * b /\ (k * 100 + 50) * b = x + 50 * b
    BY <1>1, <1>2, <1>3, <1>7, SMT
  <2> HIDE DEF x, t
  <2>4. x <= t + 50 * b
    BY <2>1, <2>3 DEF x
  <2>5. t <= x + 50 * b
    BY <1>7, <2>2, <2>3
  <2> QED BY <1>2, <1>3, <2>4, <2>5, SMT
<1>9. ((n + 1) * b) * a = t + p /\ ((n - 1) * b) * a = t - p
  BY <1>1, <1>2, SMT
<1>10. j * a < ((n + 1) * b) * a /\ ((n - 1) * b) * a < j * a
  <2> HIDE DEF x, t, p
  <2> QED BY <1>1, <1>2, <1>3, <1>5, <1>6, <1>8, <1>9, SMT
<1>11. (n + 1) * b \in Int /\ (n - 1) * b \in Int
  BY <1>2, SMT
<1>12. j < (n + 1) * b /\ (n - 1) * b < j
  BY <1>1, <1>2, <1>10, <1>11, Multiplied
<1>13. q \in Nat /\ q * b <= j /\ j < (q + 1) * b
  BY <1>2, Hundredths
<1> HIDE DEF q
<1>14. q * b < (n + 1) * b /\ (n - 1) * b < (q + 1) * b
  BY <1>2, <1>11, <1>12, <1>13, SMT
<1>15. q < n + 1 /\ n - 1 < q + 1
  BY <1>2, <1>13, <1>14, Multiplied, SMT
<1>16. q \in {n - 1, n}
  BY <1>13, <1>15, SMT
<1> QED BY <1>16 DEF q, j, b

(* The cap of the Linux branch. *)
LEMMA Truncated ==
    ASSUME NEW centi \in Nat, NEW n \in Nat, n \in {centi, centi - 1}
    PROVE  /\ Capped(n) \in 0 .. U32_MAX
           /\ Capped(n) \in {Capped(centi), Capped(centi) - 1}
BY UptimeAssumption, SMT DEF Capped, Lower
-------------------------------------------------------------------------------
LEMMA Initially == Init => Inv
BY UptimeAssumption, SMT DEF Init, Inv, TypeOK, Computed, NeverAhead

LEMMA Inductive == Inv /\ [Next]_vars => Inv'
<1> SUFFICES ASSUME Inv, [Next]_vars PROVE Inv'
  OBVIOUS
<1> USE DEF Inv
<1>1. CASE Pass
  BY <1>1 DEF Pass, TypeOK, Computed, NeverAhead, local
<1>2. CASE Fail
  BY <1>2 DEF Fail, TypeOK, Computed, NeverAhead, env
<1>3. CASE ReadProc
  <2>1. up \in Nat /\ up < HALF
    BY FloatAssumption DEF TypeOK
  <2>2. PICK n \in Nat : n \in {up, up - 1} /\ result' = Capped(n)
    <3>1. CASE up = 0
      <4>1. Capped(0) = 0
        BY UptimeAssumption, SMT DEF Capped, Lower
      <4> QED BY <1>3, <3>1, <4>1 DEF ReadProc
    <3>2. CASE up # 0
      <4>1. PICK secs \in Float(up, 100) : \E prod \in Float(secs.mant * 100, secs.scale) :
                result' = Capped(prod.mant \div prod.scale)
        BY <1>3, <3>2 DEF ReadProc
      <4>2. PICK prod \in Float(secs.mant * 100, secs.scale) :
                result' = Capped(prod.mant \div prod.scale)
        BY <4>1
      <4>3. prod.mant \div prod.scale \in {up - 1, up}
        BY <2>1, <3>2, TwiceRounded
      <4>4. up - 1 \in Nat
        BY <2>1, <3>2, SMT
      <4> QED BY <2>1, <4>2, <4>3, <4>4
    <3> QED BY <3>1, <3>2
  <2>3. Capped(n) \in 0 .. U32_MAX /\ Capped(n) \in {Capped(up), Capped(up) - 1}
    BY <2>1, <2>2, Truncated
  <2>4. pc' = "done" /\ platform = "linux" /\ UNCHANGED <<platform, env, boottime, now>>
    BY <1>3 DEF ReadProc
  <2> QED BY <2>2, <2>3, <2>4 DEF TypeOK, Computed, NeverAhead, env
<1>4. CASE ReadBoottime
  BY <1>4 DEF ReadBoottime, TypeOK, Computed, NeverAhead, env
<1>5. CASE ReadClock
  <2>1. /\ pc = "clock" /\ pc' = "done" /\ now' = wall
        /\ result' = centiseconds(elapsed(boottime, wall))
        /\ UNCHANGED <<platform, env, boottime>>
    BY <1>5 DEF ReadClock
  <2>2. platform = "macos" /\ boottime \in Timeval /\ wall \in Timeval
    BY <2>1 DEF Computed, TypeOK
  <2>3. result' \in 0 .. U32_MAX
    BY <2>1, <2>2, Elapsed
  <2> QED BY <2>1, <2>2, <2>3 DEF TypeOK, Computed, NeverAhead, env
<1>6. CASE NoUptime
  <2>1. 0 \in 0 .. U32_MAX
    BY UptimeAssumption, SMT
  <2> QED BY <1>6, <2>1 DEF NoUptime, TypeOK, Computed, NeverAhead, env
<1>7. CASE UNCHANGED vars
  BY <1>7 DEF vars, env, local, TypeOK, Computed, NeverAhead
<1> QED BY <1>1, <1>2, <1>3, <1>4, <1>5, <1>6, <1>7 DEF Next

LEMMA Invariance == Spec => []Inv
<1> QED BY Initially, Inductive, PTL DEF Spec

(* The arithmetic of the two readings in every state of the invariant. *)
LEMMA ElapsedIsExact == Inv => ElapsedExact
<1> SUFFICES ASSUME Inv, pc = "done", platform = "macos"
             PROVE  LET d == Micros(now) - Micros(boottime)
                    IN  CASE d < 0                             -> result = 0
                          [] d >= 0 /\ d \div CENTI > U32_MAX  -> result = U32_MAX
                          [] d >= 0 /\ d \div CENTI <= U32_MAX ->
                                 result * CENTI <= d /\ d < (result + 1) * CENTI
  BY DEF ElapsedExact
<1> DEFINE d == Micros(now) - Micros(boottime)
           over == d \div CENTI > U32_MAX
           under == d \div CENTI <= U32_MAX
<1>1. boottime \in Timeval /\ now \in Timeval
      /\ result = centiseconds(elapsed(boottime, now))
  BY DEF Inv, Computed
<1>2. /\ d \in Int
      /\ d < 0 => result = 0
      /\ d >= 0 /\ over => result = U32_MAX
      /\ d >= 0 /\ under => result * CENTI <= d /\ d < (result + 1) * CENTI
  BY <1>1, Elapsed
<1>3. d >= 0 => over \/ under
  <2>1. ASSUME d >= 0 PROVE d \div CENTI \in Nat
    BY <1>2, <2>1, UptimeAssumption, Hundredths, SMT
  <2> QED BY <2>1, UptimeAssumption, SMT
<1> HIDE DEF d, over, under
<1>4. d < 0 \/ d >= 0
  BY <1>2, SMT
<1>5. (CASE d < 0 -> result = 0
         [] d >= 0 /\ over -> result = U32_MAX
         [] d >= 0 /\ under -> result * CENTI <= d /\ d < (result + 1) * CENTI)
  BY <1>2, <1>3, <1>4, Zenon
<1> QED BY <1>5 DEF d, over, under

(* helpers.rs:62-79, 20-21: on macOS the sysUpTime is the time between the two
   readings, exactly, whatever the clock was set to; on Linux it is never ahead
   of the host. *)
THEOREM UptimeIsExact == Spec => []UptimeExact
<1>1. Inv => UptimeExact
  BY ElapsedIsExact DEF UptimeExact, Inv
<1> QED BY Invariance, <1>1, PTL

(* helpers.rs:6-80: every sysUpTime fits the wire field. *)
THEOREM TypeCorrect == Spec => []TypeOK
<1>1. Inv => TypeOK
  BY DEF Inv
<1> QED BY Invariance, <1>1, PTL
-------------------------------------------------------------------------------
(* Numbers and sequences. *)

LEMMA NumbersOrdered ==
    \E R : /\ IsWellFoundedOn(R, Nat)
           /\ \A x, y \in Nat : <<x, y>> \in R <=> x < y
<1> DEFINE R == OpToRel(<, Nat)
<1>1. IsWellFoundedOn(R, Nat)
  BY NatLessThanWellFounded
<1>2. \A x, y \in Nat : <<x, y>> \in R <=> x < y
  BY DEF OpToRel
<1> HIDE DEF R
<1> QED BY <1>1, <1>2

LEMMA LeastNumber ==
    ASSUME NEW T, T \subseteq Nat, T # {}
    PROVE  \E m \in T : \A k \in T : m <= k
<1>1. PICK R : /\ IsWellFoundedOn(R, Nat)
               /\ \A x, y \in Nat : <<x, y>> \in R <=> x < y
  BY NumbersOrdered
<1>2. IsWellFoundedOn(R, Nat)
  BY <1>1
<1>3. PICK m \in T : \A y \in T : ~ (<<y, m>> \in R)
  BY <1>2, WFMin, Zenon
<1>4. ASSUME NEW k \in T PROVE m <= k
  <2>1. ~ (k < m)
    BY <1>1, <1>3
  <2> QED BY <2>1
<1> QED BY <1>4

LEMMA MaxOf ==
    ASSUME NEW n \in Nat, NEW T, T \subseteq 0 .. n, T # {}
    PROVE  Pdu!Max(T) \in T /\ \A k \in T : k <= Pdu!Max(T)
<1> DEFINE U == {k \in 0 .. n : n - k \in T}
<1>1. U \subseteq Nat /\ U # {}
  <2>1. PICK k \in T : TRUE
    OBVIOUS
  <2>2. n - k \in 0 .. n /\ n - (n - k) = k
    BY <2>1
  <2>3. n - k \in U
    BY <2>1, <2>2
  <2>4. U \subseteq Nat
    OBVIOUS
  <2> HIDE DEF U
  <2> QED BY <2>3, <2>4
<1>2. PICK u \in U : \A k \in U : u <= k
  BY <1>1, LeastNumber
<1>3. ASSUME NEW k \in T PROVE n - u >= k
  <2>1. n - k \in 0 .. n /\ n - (n - k) = k
    OBVIOUS
  <2>2. u <= n - k
    BY <1>2, <2>1
  <2> QED BY <1>2, <2>2
<1>4. \E x \in T : \A y \in T : x >= y
  BY <1>2, <1>3
<1>5. Pdu!Max(T) \in T /\ \A y \in T : Pdu!Max(T) >= y
  BY <1>4, Zenon DEF Pdu!Max
<1> DEFINE top == Pdu!Max(T)
<1>6. top \in T /\ \A y \in T : top >= y
  BY <1>5
<1> HIDE DEF top
<1>7. top \in T /\ \A y \in T : y <= top
  BY <1>6
<1> QED BY <1>7 DEF top

(* A sequence of whatever it holds. *)
Sequential(s) == s \in Seq({s[k] : k \in DOMAIN s})

LEMMA SequentialOf ==
    ASSUME NEW S, NEW s \in Seq(S)
    PROVE  Sequential(s) /\ Len(s) \in Nat /\ DOMAIN s = 1 .. Len(s)
<1>1. Len(s) \in Nat /\ DOMAIN s = 1 .. Len(s) /\ s \in [1 .. Len(s) -> S]
  BY LenProperties
<1> DEFINE T == {s[k] : k \in DOMAIN s}
<1>2. s \in [1 .. Len(s) -> T]
  BY <1>1
<1> HIDE DEF T
<1>3. s \in Seq(T)
  BY <1>1, <1>2
<1> QED BY <1>1, <1>3 DEF Sequential, T

LEMMA Appended ==
    ASSUME NEW s, Sequential(s), NEW x
    PROVE  /\ Sequential(Append(s, x)) /\ Len(s) \in Nat
           /\ Len(Append(s, x)) = Len(s) + 1
           /\ \A k \in 1 .. Len(s) : Append(s, x)[k] = s[k]
           /\ Append(s, x)[Len(s) + 1] = x
<1> DEFINE T == {s[k] : k \in DOMAIN s} \cup {x}
<1>1. s \in Seq(T) /\ x \in T
  BY SeqMonotonic DEF Sequential
<1> HIDE DEF T
<1>2. /\ Append(s, x) \in Seq(T) /\ Len(s) \in Nat
      /\ Len(Append(s, x)) = Len(s) + 1
      /\ \A k \in 1 .. Len(s) : Append(s, x)[k] = s[k]
      /\ Append(s, x)[Len(s) + 1] = x
  BY <1>1, AppendProperties, LenProperties
<1> QED BY <1>2, SequentialOf

LEMMA Concatenated ==
    ASSUME NEW s, Sequential(s), NEW t, Sequential(t)
    PROVE  /\ Sequential(s \o t) /\ Len(s) \in Nat /\ Len(t) \in Nat
           /\ Len(s \o t) = Len(s) + Len(t)
           /\ \A k \in 1 .. Len(s) : (s \o t)[k] = s[k]
           /\ \A k \in 1 .. Len(t) : (s \o t)[Len(s) + k] = t[k]
<1> DEFINE T == {s[k] : k \in DOMAIN s} \cup {t[k] : k \in DOMAIN t}
<1>1. s \in Seq(T) /\ t \in Seq(T)
  BY SeqMonotonic DEF Sequential
<1> HIDE DEF T
<1>2. Len(s) \in Nat /\ Len(t) \in Nat
  BY <1>1, LenProperties
<1>3. /\ s \o t \in Seq(T) /\ Len(s \o t) = Len(s) + Len(t)
      /\ \A k \in 1 .. Len(s) + Len(t) : (s \o t)[k] =
             IF k <= Len(s) THEN s[k] ELSE t[k - Len(s)]
  BY <1>1, ConcatProperties
<1> DEFINE c == s \o t
           n == Len(s)
<1> HIDE DEF c, n
<1>4. \A k \in 1 .. n : c[k] = s[k]
  BY <1>2, <1>3 DEF c, n
<1>5. ASSUME NEW k \in 1 .. Len(t) PROVE c[n + k] = t[k]
  <2>1. n + k \in 1 .. n + Len(t) /\ ~(n + k <= n) /\ (n + k) - n = k
    BY <1>2 DEF n
  <2>2. c[n + k] = IF n + k <= n THEN s[n + k] ELSE t[(n + k) - n]
    BY <1>3, <2>1 DEF c, n
  <2> QED BY <2>1, <2>2
<1> QED BY <1>2, <1>3, <1>4, <1>5, SequentialOf DEF c, n

LEMMA Cut ==
    ASSUME NEW s, Sequential(s), NEW a \in Nat, a >= 1, a <= Len(s) + 1
    PROVE  /\ Sequential(SubSeq(s, a, Len(s)))
           /\ Len(SubSeq(s, a, Len(s))) = Len(s) - a + 1
           /\ \A k \in 1 .. Len(s) - a + 1 : SubSeq(s, a, Len(s))[k] = s[a + k - 1]
<1> DEFINE T == {s[k] : k \in DOMAIN s}
           n == Len(s)
<1>1. n \in Nat /\ s \in Seq(T)
  BY LenProperties DEF Sequential
<1>2. \A k \in a .. n : s[k] \in T
  <2>1. DOMAIN s = 1 .. n
    BY <1>1, LenProperties
  <2> QED BY <1>1, <2>1
<1> HIDE DEF T, n
<1>3. /\ SubSeq(s, a, n) \in Seq(T)
      /\ Len(SubSeq(s, a, n)) = (IF a <= n THEN n - a + 1 ELSE 0)
      /\ \A k \in 1 .. n - a + 1 : SubSeq(s, a, n)[k] = s[a + k - 1]
  BY <1>1, <1>2, SubSeqProperties
<1>4. Len(SubSeq(s, a, n)) = n - a + 1
  BY <1>1, <1>3 DEF n
<1> QED BY <1>3, <1>4, SequentialOf DEF n

(* What the parsers of varbind.rs answer, and what is read back of it. *)

LEMMA TrimmedText ==
    ASSUME NEW s \in Seq(Int), s # << >>
    PROVE  Sequential(Pdu!Trimmed(s)) /\ Len(Pdu!Trimmed(s)) \in Nat
<1> DEFINE stop(k) == s[k] # Pdu!EMPTY \/ k = Len(s)
           T == {k \in 1 .. Len(s) : stop(k)}
<1>1. Len(s) \in Nat \ {0} /\ DOMAIN s = 1 .. Len(s)
  BY EmptySeq, LenProperties
<1>2. Len(s) \in T /\ T \subseteq Nat
  BY <1>1
<1>3. PICK m \in T : \A k \in T : m <= k
  BY <1>2, LeastNumber
<1>4. ASSUME NEW j \in 1 .. m - 1 PROVE s[j] = Pdu!EMPTY
  <2>1. m \in 1 .. Len(s)
    BY <1>3
  <2>2. j \in 1 .. Len(s) /\ j \notin T
    <3> HIDE DEF T
    <3> QED BY <1>1, <1>3, <2>1
  <2> QED BY <2>2
<1>5. \E k \in DOMAIN s : stop(k) /\ \A j \in 1 .. k - 1 : s[j] = Pdu!EMPTY
  BY <1>1, <1>3, <1>4
<1> DEFINE c == CHOOSE k \in DOMAIN s : stop(k) /\ \A j \in 1 .. k - 1 : s[j] = Pdu!EMPTY
<1>6. c \in 1 .. Len(s)
  BY <1>1, <1>5
<1>7. Pdu!Trimmed(s) = SubSeq(s, c, Len(s))
  BY DEF Pdu!Trimmed
<1> HIDE DEF c
<1>8. /\ Sequential(SubSeq(s, c, Len(s)))
      /\ Len(SubSeq(s, c, Len(s))) = Len(s) - c + 1
  <2>1. Sequential(s)
    BY SequentialOf
  <2> DEFINE n == Len(s)
  <2>2. n \in Nat /\ c \in 1 .. n
    BY <1>1, <1>6
  <2> HIDE DEF n
  <2>3. c \in Nat /\ c >= 1 /\ c <= n + 1
    BY <2>2
  <2> QED BY <2>1, <2>3, Cut DEF n
<1>9. Len(s) - c + 1 \in Nat
  <2> DEFINE n == Len(s)
  <2>1. n \in Nat /\ c \in 1 .. n
    BY <1>1, <1>6
  <2> HIDE DEF n
  <2>2. n - c + 1 \in Nat
    BY <2>1
  <2> QED BY <2>2 DEF n
<1> QED BY <1>7, <1>8, <1>9

(* X.690 gives an OID back exactly when its second arc is below 40 or its first
   is 2. *)
LEMMA OidRead ==
    ASSUME NEW a, Sequential(a), Len(a) >= 2, a[1] \in Nat, a[2] \in Nat
    PROVE  (Pdu!ReadOid(Pdu!BerOid(a)) = a) <=> (a[1] <= 2 /\ (a[1] < 2 => a[2] < 40))
<1> DEFINE b == 40 * a[1] + a[2]
           rest == SubSeq(a, 3, Len(a))
           ber == <<b>> \o rest
           first == IF b >= 80 THEN 2 ELSE b \div 40
           pair == <<first, b - 40 * first>>
           back == pair \o rest
<1>1. b \in Nat /\ Len(a) \in Nat
  BY SequentialOf DEF Sequential
<1>2. /\ Sequential(rest) /\ Len(rest) = Len(a) - 2
      /\ \A k \in 1 .. Len(a) - 2 : rest[k] = a[k + 2]
  <2>1. /\ Sequential(rest) /\ Len(rest) = Len(a) - 3 + 1
        /\ \A k \in 1 .. Len(a) - 3 + 1 : rest[k] = a[3 + k - 1]
    <3>1. 3 \in Nat /\ 3 >= 1 /\ 3 <= Len(a) + 1
      BY <1>1
    <3> QED BY <3>1, Cut
  <2> HIDE DEF rest
  <2> QED BY <1>1, <2>1
<1> HIDE DEF b, rest
<1>3. Sequential(<<b>>) /\ Len(<<b>>) = 1 /\ <<b>>[1] = b
  <2>1. <<b>> \in Seq(Nat) /\ Len(<<b>>) = 1 /\ <<b>>[1] = b
    BY <1>1
  <2> QED BY <2>1, SequentialOf
<1>4. Sequential(ber) /\ Len(ber) = 1 + Len(rest) /\ ber[1] = b
      /\ \A k \in 1 .. Len(rest) : ber[1 + k] = rest[k]
  BY <1>2, <1>3, Concatenated
<1> HIDE DEF ber
<1>5. Tail(ber) = rest
  <2> DEFINE S == {ber[k] : k \in DOMAIN ber} \cup {rest[k] : k \in DOMAIN rest}
  <2>1. ber \in Seq(S) /\ rest \in Seq(S)
    BY <1>2, <1>4, SeqMonotonic DEF Sequential
  <2> HIDE DEF S
  <2>2. Len(rest) \in Nat /\ ber # << >>
    BY <1>4, <2>1, EmptySeq, LenProperties
  <2>3. /\ Tail(ber) \in Seq(S) /\ Len(Tail(ber)) = Len(rest)
        /\ \A k \in 1 .. Len(rest) : Tail(ber)[k] = rest[k]
    BY <1>4, <2>1, <2>2, HeadTailProperties
  <2> QED BY <2>1, <2>3, SeqEqual
<1>6. Pdu!ReadOid(Pdu!BerOid(a)) = back
  <2>1. Pdu!BerOid(a) = ber
    BY DEF Pdu!BerOid, ber, b, rest
  <2>2. Pdu!ReadOid(ber) = back
    BY <1>4, <1>5 DEF Pdu!ReadOid
  <2> QED BY <2>1, <2>2
<1>7. first \in Nat /\ b - 40 * first \in Int
      /\ ((first = a[1] /\ b - 40 * first = a[2])
            <=> (a[1] <= 2 /\ (a[1] < 2 => a[2] < 40)))
  <2> DEFINE x == a[1]
             y == a[2]
             f == first
  <2>1. /\ x \in Nat /\ y \in Nat /\ b = 40 * x + y
        /\ f = IF b >= 80 THEN 2 ELSE b \div 40
    BY DEF b
  <2> HIDE DEF x, y, f
  <2>2. f \in Nat /\ b - 40 * f \in Int
        /\ ((f = x /\ b - 40 * f = y) <=> (x <= 2 /\ (x < 2 => y < 40)))
    <3>1. CASE b >= 80
      BY <2>1, <3>1
    <3>2. CASE b < 80
      <4>1. f \in {0, 1} /\ b - 40 * f \in 0 .. 39
        BY <2>1, <3>2, SMT
      <4> QED BY <2>1, <3>2, <4>1
    <3> QED BY <2>1, <3>1, <3>2
  <2> QED BY <2>2 DEF x, y, f
<1> HIDE DEF first
<1> DEFINE second == b - 40 * first
<1> HIDE DEF second
<1>8. pair = <<first, second>> /\ second \in Int
  BY <1>7 DEF second
<1> HIDE DEF pair
<1>9. Sequential(pair) /\ Len(pair) = 2 /\ pair[1] = first /\ pair[2] = second
  <2>1. pair \in Seq(Int) /\ Len(pair) = 2
    BY <1>7, <1>8
  <2> QED BY <1>8, <2>1, SequentialOf
<1>10. /\ Sequential(back) /\ Len(back) = Len(a)
       /\ back[1] = first /\ back[2] = second
       /\ \A k \in 1 .. Len(a) - 2 : back[2 + k] = a[2 + k]
  <2>1. /\ Sequential(back) /\ Len(back) = 2 + Len(rest)
        /\ \A k \in 1 .. 2 : back[k] = pair[k]
        /\ \A k \in 1 .. Len(rest) : back[2 + k] = rest[k]
    <3>1. /\ Sequential(back) /\ Len(back) = Len(pair) + Len(rest)
          /\ \A k \in 1 .. Len(pair) : back[k] = pair[k]
          /\ \A k \in 1 .. Len(rest) : back[Len(pair) + k] = rest[k]
      <4>1. Sequential(pair) /\ Sequential(rest)
        BY <1>2, <1>9
      <4> QED BY <4>1, Concatenated
    <3> QED BY <1>9, <3>1
  <2> HIDE DEF back
  <2> QED BY <1>1, <1>2, <1>9, <2>1
<1> HIDE DEF back
<1>11. back = a <=> (first = a[1] /\ second = a[2])
  <2>1. ASSUME first = a[1], second = a[2] PROVE back = a
    <3> DEFINE S == {back[k] : k \in DOMAIN back} \cup {a[k] : k \in DOMAIN a}
    <3>1. back \in Seq(S) /\ a \in Seq(S)
      BY <1>10, SeqMonotonic DEF Sequential
    <3> HIDE DEF S
    <3>2. ASSUME NEW k \in 1 .. Len(back) PROVE back[k] = a[k]
      <4>1. k = 1 \/ k = 2 \/ (k - 2 \in 1 .. Len(a) - 2 /\ 2 + (k - 2) = k)
        BY <1>1, <1>10, <3>2
      <4> QED BY <1>10, <2>1, <4>1
    <3> QED BY <1>10, <3>1, <3>2, SeqEqual
  <2> QED BY <1>10, <2>1
<1> QED BY <1>6, <1>7, <1>11 DEF second

LEMMA Naturals == U32 \subseteq Nat
BY PduAssumption

LEMMA OidParsed ==
    ASSUME NEW raw, Argument(raw)
    PROVE  /\ (Pdu!parse_oid(raw.oid) # Pdu!Err) <=> Pdu!GoodOid(raw)
           /\ Pdu!parse_oid(raw.oid) # Pdu!Err =>
                  /\ Pdu!parse_oid(raw.oid)[1] = Pdu!Trimmed(raw.oid)
                  /\ Pdu!ReadOid(Pdu!BerOid(Pdu!Trimmed(raw.oid))) = Pdu!Trimmed(raw.oid)
<1> DEFINE arcs == Pdu!Trimmed(raw.oid)
           well == \A k \in DOMAIN arcs : arcs[k] \in U32
           carried == arcs[1] <= 2 /\ (arcs[1] < 2 => arcs[2] < 40)
<1>1. Sequential(arcs) /\ Len(arcs) \in Nat /\ DOMAIN arcs = 1 .. Len(arcs)
  <2>1. raw.oid \in Seq(Int) /\ raw.oid # << >>
    BY DEF Argument
  <2>2. Sequential(arcs) /\ Len(arcs) \in Nat
    BY <2>1, TrimmedText
  <2>3. DOMAIN arcs = 1 .. Len(arcs)
    BY <2>2, SequentialOf DEF Sequential
  <2> QED BY <2>2, <2>3
<1>2. Pdu!parse_oid(raw.oid)
          = IF well /\ Len(arcs) >= 2 /\ carried THEN <<arcs>> ELSE << >>
  BY DEF Pdu!parse_oid, Pdu!Ok, Pdu!Err
<1>3. Pdu!GoodOid(raw)
          <=> (Len(arcs) >= 2 /\ well /\ Pdu!ReadOid(Pdu!BerOid(arcs)) = arcs)
  BY DEF Pdu!GoodOid
<1> HIDE DEF arcs
<1>4. ASSUME well, Len(arcs) >= 2
      PROVE  (Pdu!ReadOid(Pdu!BerOid(arcs)) = arcs) <=> carried
  <2>1. arcs[1] \in Nat /\ arcs[2] \in Nat
    <3>1. 1 \in DOMAIN arcs /\ 2 \in DOMAIN arcs
      BY <1>1, <1>4
    <3> QED BY <1>4, <3>1, Naturals
  <2> QED BY <1>1, <1>4, <2>1, OidRead
<1> HIDE DEF well, carried
<1>5. <<arcs>> # << >> /\ <<arcs>>[1] = arcs
  OBVIOUS
<1> QED BY <1>2, <1>3, <1>4, <1>5 DEF Pdu!Err, arcs

LEMMA Octaves ==
    ASSUME NEW p \in Nat
    PROVE  p \div 8 \in Nat /\ p % 8 \in 0 .. 7 /\ p = 8 * (p \div 8) + (p % 8)
BY SMT

(* The octets of a BITS value give back the positions, and the last of them has
   one. *)
LEMMA BitsRead ==
    ASSUME NEW S, S \subseteq U32, S # {}, Pdu!Max(S) <= MAX_BIT_POSITION
    PROVE  LET b == Pdu!Packed(S, [p \in 0 .. 7 |-> 7 - p])
           IN  Pdu!ReadBits(b) = S /\ Pdu!Last(b) # {}
<1> DEFINE top == Pdu!Max(S)
           n == top \div 8 + 1
           b == Pdu!Packed(S, [p \in 0 .. 7 |-> 7 - p])
<1>1. top \in S /\ \A p \in S : p <= top
  <2>1. PICK u \in Nat : U32 = 0 .. u
    BY PduAssumption
  <2> QED BY <2>1, MaxOf
<1>2. top \in Nat /\ S \subseteq Nat
  BY <1>1, Naturals
<1>3. b = [k \in 1 .. n |->
              {[p \in 0 .. 7 |-> 7 - p][q % 8] : q \in {q \in S : q \div 8 = k - 1}}]
  BY DEF Pdu!Packed
<1> HIDE DEF b, top
<1>4. n \in Nat \ {0}
  BY <1>2, Octaves
<1>5. ASSUME NEW k \in 1 .. n, NEW i \in 0 .. 7
      PROVE  7 - i \in b[k] <=> \E q \in S : q \div 8 = k - 1 /\ q % 8 = i
  <2>1. \A q \in S : q % 8 \in 0 .. 7
    BY <1>2, Octaves
  <2>2. b[k] = {[p \in 0 .. 7 |-> 7 - p][q % 8] : q \in {q \in S : q \div 8 = k - 1}}
    BY <1>3
  <2>3. b[k] = {7 - (q % 8) : q \in {q \in S : q \div 8 = k - 1}}
    BY <2>1, <2>2
  <2>4. \A q \in S : 7 - (q % 8) = 7 - i <=> q % 8 = i
    BY <2>1
  <2> QED BY <2>3, <2>4
<1>6. Len(b) = n
  <2> DEFINE T == {b[k] : k \in 1 .. n}
  <2>1. b \in [1 .. n -> T]
    BY <1>3
  <2> HIDE DEF T
  <2> HIDE DEF n
  <2>2. b \in Seq(T)
    BY <1>4, <2>1
  <2> QED BY <1>4, <2>1, <2>2
<1>7. ASSUME NEW p \in S PROVE p \in 0 .. 8 * n - 1 /\ 7 - (p % 8) \in b[p \div 8 + 1]
  <2>1. p \in Nat /\ p <= top
    BY <1>1, <1>2
  <2>2. /\ p \div 8 \in Nat /\ p % 8 \in 0 .. 7 /\ p = 8 * (p \div 8) + (p % 8)
        /\ top \div 8 \in Nat /\ top % 8 \in 0 .. 7 /\ top = 8 * (top \div 8) + (top % 8)
    BY <1>2, <2>1, Octaves
  <2>3. p \div 8 <= top \div 8
    BY <1>2, <2>1, <2>2, SMT
  <2>4. p \div 8 + 1 \in 1 .. n /\ (p \div 8 + 1) - 1 = p \div 8
    BY <2>2, <2>3
  <2>5. p \in 0 .. 8 * n - 1
    BY <2>1, <2>2, <2>3
  <2> QED BY <1>5, <2>2, <2>4, <2>5
<1>8. ASSUME NEW p \in 0 .. 8 * n - 1, 7 - (p % 8) \in b[p \div 8 + 1] PROVE p \in S
  <2>1. p \in Nat /\ p < 8 * n
    BY <1>4, <1>8
  <2>2. p \div 8 \in Nat /\ p % 8 \in 0 .. 7 /\ p = 8 * (p \div 8) + (p % 8)
    BY <2>1, Octaves
  <2>3. p \div 8 + 1 \in 1 .. n /\ (p \div 8 + 1) - 1 = p \div 8
    BY <1>4, <2>1, <2>2
  <2>4. PICK q \in S : q \div 8 = p \div 8 /\ q % 8 = p % 8
    BY <1>5, <1>8, <2>2, <2>3
  <2>5. q = 8 * (q \div 8) + (q % 8)
    BY <1>2, Octaves
  <2>6. p = q
    BY <2>2, <2>4, <2>5
  <2> QED BY <2>6
<1>9. Pdu!ReadBits(b) = S
  <2>1. Pdu!ReadBits(b) = {p \in 0 .. 8 * n - 1 : 7 - (p % 8) \in b[p \div 8 + 1]}
    BY <1>6 DEF Pdu!ReadBits
  <2> HIDE DEF n
  <2> QED BY <1>7, <1>8, <2>1
<1>10. Pdu!Last(b) # {}
  <2>1. 7 - (top % 8) \in b[n]
    BY <1>1, <1>7
  <2> QED BY <1>6, <2>1 DEF Pdu!Last
<1> QED BY <1>9, <1>10 DEF b

GivesBack(octets, S) ==
    Pdu!ReadBits(octets) = S /\ (octets = << >> \/ Pdu!Last(octets) # {})

LEMMA BitsParsed ==
    ASSUME NEW S, S \subseteq U32, NEW v, v = Pdu!parse_bits(S)
    PROVE  /\ v # << >> <=> S \subseteq 0 .. MAX_BIT_POSITION
           /\ v # << >> => GivesBack(v[1], S)
<1>1. CASE S = {}
  <2>1. v = <<<< >>>>
    BY <1>1 DEF Pdu!parse_bits, Pdu!Ok
  <2>2. v # << >> /\ v[1] = << >>
    BY <2>1
  <2>3. Pdu!ReadBits(<< >>) = {}
    <3>1. Len(<< >>) = 0
      BY EmptySeq
    <3> QED BY <3>1 DEF Pdu!ReadBits
  <2> QED BY <1>1, <2>2, <2>3 DEF GivesBack
<1>2. CASE S # {}
  <2> DEFINE top == Pdu!Max(S)
             b == Pdu!Packed(S, [p \in 0 .. 7 |-> 7 - p])
  <2>1. top \in S /\ (\A p \in S : p <= top) /\ top \in Nat /\ S \subseteq Nat
    <3>1. PICK u \in Nat : U32 = 0 .. u
      BY PduAssumption
    <3>2. top \in S /\ \A p \in S : p <= top
      BY <1>2, <3>1, MaxOf
    <3> HIDE DEF top
    <3> QED BY <3>2, Naturals
  <2>2. MAX_BIT_POSITION \in Nat
    BY PduAssumption, Naturals
  <2>3. S \subseteq 0 .. MAX_BIT_POSITION <=> top <= MAX_BIT_POSITION
    <3> HIDE DEF top
    <3> QED BY <2>1, <2>2
  <2>4. CASE top <= MAX_BIT_POSITION
    <3>1. ~(top > MAX_BIT_POSITION)
      BY <2>1, <2>2, <2>4
    <3>2. v = <<b>>
      BY <1>2, <2>4, <3>1 DEF Pdu!parse_bits, Pdu!Ok
    <3>3. Pdu!ReadBits(b) = S /\ Pdu!Last(b) # {}
      BY <1>2, <2>4, BitsRead
    <3> HIDE DEF b, top
    <3> QED BY <2>3, <2>4, <3>2, <3>3 DEF GivesBack
  <2>5. CASE ~(top <= MAX_BIT_POSITION)
    <3>1. top > MAX_BIT_POSITION
      <4> HIDE DEF top
      <4> QED BY <2>1, <2>2, <2>5
    <3>2. v = << >>
      BY <1>2, <2>5, <3>1 DEF Pdu!parse_bits, Pdu!Err
    <3> QED BY <2>3, <2>5, <3>2
  <2> QED BY <2>4, <2>5
<1> QED BY <1>1, <1>2

(* The letter and the text of a value: it is taken exactly when it is one, and it
   reads as it was typed. *)
LEMMA ValueParsed ==
    ASSUME NEW raw, Argument(raw), NEW letter, NEW oid,
           NEW v, v = Pdu!parse_typed_value(letter, raw)
    PROVE  /\ v # << >> <=> Pdu!GoodValue(letter, raw)
           /\ v # << >> =>
                  /\ Pdu!ReadsAs(Pdu!Binding(oid, v[1]).value, letter, raw)
                  /\ v[1][1] \in Pdu!SmiV2Only <=> letter \in {"b", "U"}
<1> DEFINE value == Pdu!Binding(oid, v[1]).value
           read == Pdu!ReadsAs(value, letter, raw)
           capped == v[1][1] \in Pdu!SmiV2Only <=> letter \in {"b", "U"}
<1>1. /\ Optional(raw.num) /\ Optional(raw.addr) /\ Optional(raw.hex) /\ Optional(raw.bits)
      /\ \A r : Optional(r) <=> (r = << >> \/ r = <<r[1]>>)
  BY DEF Argument, Optional
<1>2. CASE letter = "i"
  <2>1. v = Pdu!Number("Integer", raw.num, I32)
    BY <1>2 DEF Pdu!parse_typed_value
  <2>2. Pdu!GoodValue(letter, raw) <=> (raw.num # << >> /\ raw.num[1] \in I32)
    BY <1>2 DEF Pdu!GoodValue, Pdu!Within, Pdu!Err
  <2>3. v # << >> <=> (raw.num # << >> /\ raw.num[1] \in I32)
    BY <2>1 DEF Pdu!Number, Pdu!Ok, Pdu!Err
  <2>4. ASSUME v # << >> PROVE read /\ capped
    <3>1. v[1] = <<"Integer", raw.num[1]>> /\ raw.num = <<raw.num[1]>>
      BY <1>1, <2>1, <2>3, <2>4 DEF Pdu!Number, Pdu!Ok, Pdu!Err
    <3>2. value = raw.num[1]
      BY <3>1 DEF Pdu!Binding
    <3> QED BY <1>2, <3>1, <3>2 DEF Pdu!ReadsAs, Pdu!SmiV2Only
  <2> QED BY <2>2, <2>3, <2>4
<1>3. CASE letter = "u"
  <2>1. v = Pdu!Number("Unsigned32", raw.num, U32)
    BY <1>3 DEF Pdu!parse_typed_value
  <2>2. Pdu!GoodValue(letter, raw) <=> (raw.num # << >> /\ raw.num[1] \in U32)
    BY <1>3 DEF Pdu!GoodValue, Pdu!Within, Pdu!Err
  <2>3. v # << >> <=> (raw.num # << >> /\ raw.num[1] \in U32)
    BY <2>1 DEF Pdu!Number, Pdu!Ok, Pdu!Err
  <2>4. ASSUME v # << >> PROVE read /\ capped
    <3>1. v[1] = <<"Unsigned32", raw.num[1]>> /\ raw.num = <<raw.num[1]>>
      BY <1>1, <2>1, <2>3, <2>4 DEF Pdu!Number, Pdu!Ok, Pdu!Err
    <3>2. value = raw.num[1]
      BY <3>1 DEF Pdu!Binding
    <3> QED BY <1>3, <3>1, <3>2 DEF Pdu!ReadsAs, Pdu!SmiV2Only
  <2> QED BY <2>2, <2>3, <2>4
<1>4. CASE letter = "t"
  <2>1. v = Pdu!Number("TimeTicks", raw.num, U32)
    BY <1>4 DEF Pdu!parse_typed_value
  <2>2. Pdu!GoodValue(letter, raw) <=> (raw.num # << >> /\ raw.num[1] \in U32)
    BY <1>4 DEF Pdu!GoodValue, Pdu!Within, Pdu!Err
  <2>3. v # << >> <=> (raw.num # << >> /\ raw.num[1] \in U32)
    BY <2>1 DEF Pdu!Number, Pdu!Ok, Pdu!Err
  <2>4. ASSUME v # << >> PROVE read /\ capped
    <3>1. v[1] = <<"TimeTicks", raw.num[1]>> /\ raw.num = <<raw.num[1]>>
      BY <1>1, <2>1, <2>3, <2>4 DEF Pdu!Number, Pdu!Ok, Pdu!Err
    <3>2. value = raw.num[1]
      BY <3>1 DEF Pdu!Binding
    <3> QED BY <1>4, <3>1, <3>2 DEF Pdu!ReadsAs, Pdu!SmiV2Only
  <2> QED BY <2>2, <2>3, <2>4
<1>5. CASE letter = "U"
  <2>1. v = Pdu!Number("Counter64", raw.num, U64)
    BY <1>5 DEF Pdu!parse_typed_value
  <2>2. Pdu!GoodValue(letter, raw) <=> (raw.num # << >> /\ raw.num[1] \in U64)
    BY <1>5 DEF Pdu!GoodValue, Pdu!Within, Pdu!Err
  <2>3. v # << >> <=> (raw.num # << >> /\ raw.num[1] \in U64)
    BY <2>1 DEF Pdu!Number, Pdu!Ok, Pdu!Err
  <2>4. ASSUME v # << >> PROVE read /\ capped
    <3>1. v[1] = <<"Counter64", raw.num[1]>> /\ raw.num = <<raw.num[1]>>
      BY <1>1, <2>1, <2>3, <2>4 DEF Pdu!Number, Pdu!Ok, Pdu!Err
    <3>2. value = raw.num[1]
      BY <3>1 DEF Pdu!Binding
    <3> QED BY <1>5, <3>1, <3>2 DEF Pdu!ReadsAs, Pdu!SmiV2Only
  <2> QED BY <2>2, <2>3, <2>4
<1>6. CASE letter = "a"
  <2>1. v = Pdu!Typed("IpAddress", raw.addr)
    BY <1>6 DEF Pdu!parse_typed_value
  <2>2. Pdu!GoodValue(letter, raw) <=> raw.addr # << >>
    BY <1>6 DEF Pdu!GoodValue, Pdu!Err
  <2>3. v # << >> <=> raw.addr # << >>
    BY <2>1 DEF Pdu!Typed, Pdu!Ok, Pdu!Err
  <2>4. ASSUME v # << >> PROVE read /\ capped
    <3>1. v[1] = <<"IpAddress", raw.addr[1]>> /\ raw.addr = <<raw.addr[1]>>
      BY <1>1, <2>1, <2>3, <2>4 DEF Pdu!Typed, Pdu!Ok, Pdu!Err
    <3>2. value = raw.addr[1]
      BY <3>1 DEF Pdu!Binding
    <3> QED BY <1>6, <3>1, <3>2 DEF Pdu!ReadsAs, Pdu!SmiV2Only
  <2> QED BY <2>2, <2>3, <2>4
<1>7. CASE letter = "x"
  <2>1. v = Pdu!Typed("OctetString", raw.hex)
    BY <1>7 DEF Pdu!parse_typed_value
  <2>2. Pdu!GoodValue(letter, raw) <=> raw.hex # << >>
    BY <1>7 DEF Pdu!GoodValue, Pdu!Err
  <2>3. v # << >> <=> raw.hex # << >>
    BY <2>1 DEF Pdu!Typed, Pdu!Ok, Pdu!Err
  <2>4. ASSUME v # << >> PROVE read /\ capped
    <3>1. v[1] = <<"OctetString", raw.hex[1]>> /\ raw.hex = <<raw.hex[1]>>
      BY <1>1, <2>1, <2>3, <2>4 DEF Pdu!Typed, Pdu!Ok, Pdu!Err
    <3>2. value = raw.hex[1]
      BY <3>1 DEF Pdu!Binding
    <3> QED BY <1>7, <3>1, <3>2 DEF Pdu!ReadsAs, Pdu!SmiV2Only
  <2> QED BY <2>2, <2>3, <2>4
<1>8. CASE letter = "o"
  <2>1. v = Pdu!Typed("ObjectId", Pdu!parse_oid(raw.oid))
    BY <1>8 DEF Pdu!parse_typed_value
  <2>2. Pdu!GoodValue(letter, raw) <=> Pdu!GoodOid(raw)
    BY <1>8 DEF Pdu!GoodValue
  <2>3. v # << >> <=> Pdu!parse_oid(raw.oid) # << >>
    BY <2>1 DEF Pdu!Typed, Pdu!Ok, Pdu!Err
  <2>4. ASSUME v # << >> PROVE read /\ capped
    <3>1. v[1] = <<"ObjectId", Pdu!parse_oid(raw.oid)[1]>>
      BY <2>1, <2>3, <2>4 DEF Pdu!Typed, Pdu!Ok, Pdu!Err
    <3>2. value = Pdu!BerOid(Pdu!parse_oid(raw.oid)[1])
      BY <3>1 DEF Pdu!Binding
    <3>3. Pdu!ReadOid(value) = Pdu!Trimmed(raw.oid)
      BY <2>3, <2>4, <3>2, OidParsed DEF Pdu!Err
    <3> QED BY <1>8, <3>1, <3>3 DEF Pdu!ReadsAs, Pdu!SmiV2Only
  <2> QED BY <2>2, <2>3, <2>4, OidParsed DEF Pdu!Err
<1>9. CASE letter = "b"
  <2> DEFINE w == Pdu!parse_bits(raw.bits[1])
             given == raw.bits # << >> /\ raw.bits[1] \subseteq U32
  <2>1. v = IF given THEN Pdu!Typed("Bits", w) ELSE << >>
    BY <1>9 DEF Pdu!parse_typed_value, Pdu!Err
  <2>2. Pdu!GoodValue(letter, raw)
            <=> (raw.bits # << >> /\ raw.bits[1] \subseteq 0 .. MAX_BIT_POSITION)
    BY <1>9 DEF Pdu!GoodValue, Pdu!Err
  <2>3. 0 .. MAX_BIT_POSITION \subseteq U32
    <3>1. PICK u \in Nat : U32 = 0 .. u
      BY PduAssumption
    <3>2. MAX_BIT_POSITION \in 0 .. u
      BY <3>1, PduAssumption
    <3> QED BY <3>1, <3>2
  <2>4. given => /\ w # << >> <=> raw.bits[1] \subseteq 0 .. MAX_BIT_POSITION
                 /\ w # << >> => GivesBack(w[1], raw.bits[1])
    BY BitsParsed
  <2> HIDE DEF w
  <2>5. v # << >> <=> (given /\ w # << >>)
    BY <2>1 DEF Pdu!Typed, Pdu!Ok, Pdu!Err
  <2>6. ASSUME v # << >> PROVE read /\ capped
    <3>1. v[1] = <<"Bits", w[1]>>
      BY <2>1, <2>5, <2>6 DEF Pdu!Typed, Pdu!Ok, Pdu!Err
    <3>2. value = w[1]
      BY <3>1 DEF Pdu!Binding
    <3>3. read
      <4> HIDE DEF value
      <4>1. Pdu!ReadsAs(value, letter, raw) <=> GivesBack(value, raw.bits[1])
        BY <1>9 DEF Pdu!ReadsAs, GivesBack
      <4> QED BY <2>4, <2>5, <2>6, <3>2, <4>1
    <3> QED BY <1>9, <3>1, <3>3 DEF Pdu!SmiV2Only
  <2>7. v # << >> <=> Pdu!GoodValue(letter, raw)
    BY <2>2, <2>3, <2>4, <2>5
  <2> QED BY <2>6, <2>7
<1>10. CASE letter = "s"
  <2>1. v = <<<<"OctetString", raw.text>>>>
    BY <1>10 DEF Pdu!parse_typed_value, Pdu!Ok
  <2>2. value = raw.text /\ v # << >> /\ v[1][1] = "OctetString"
    BY <2>1 DEF Pdu!Binding
  <2> QED BY <1>10, <2>2 DEF Pdu!ReadsAs, Pdu!SmiV2Only, Pdu!GoodValue
<1>11. CASE letter = "n"
  <2>1. v = <<<<"Null">>>>
    BY <1>11 DEF Pdu!parse_typed_value, Pdu!Ok
  <2>2. value = << >> /\ v # << >> /\ v[1][1] = "Null"
    BY <2>1 DEF Pdu!Binding
  <2> QED BY <1>11, <2>2 DEF Pdu!ReadsAs, Pdu!SmiV2Only, Pdu!GoodValue
<1>12. CASE letter \notin {"i", "u", "t", "U", "a", "o", "s", "x", "n", "b"}
  <2>1. v = << >>
    BY <1>12 DEF Pdu!parse_typed_value, Pdu!Err
  <2> QED BY <1>12, <2>1 DEF Pdu!GoodValue
<1> QED BY <1>2, <1>3, <1>4, <1>5, <1>6, <1>7, <1>8, <1>9, <1>10, <1>11, <1>12

-------------------------------------------------------------------------------
(* TrapPdu: the invariant.  The arguments are parsed in their order and nothing of
   them is lost or moved: the k-th var-bind is what the parsers make of the k-th
   triplet, and the k-th binding is made of the k-th of ToBuild. *)

PduControl ==
    /\ cmd \in Commands
    /\ pdu_pc \in {"head", "count", "triplets", "reserved", "build", "end"}
    /\ outcome \in {"none", "Ok", "Usage", "Encode", "Other"}
    /\ pdu_pc = "end" <=> outcome # "none"
    /\ Sequential(head) /\ Sequential(varbinds) /\ Sequential(bindings)

(* No triplet is looked at before the last of the positional arguments is read. *)
PduHead ==
    /\ Len(head) <= Len(Pdu!Fields)
    /\ pdu_pc = "head" \/ outcome = "Other" => Len(head) < Len(Pdu!Fields)
    /\ pdu_pc \notin {"head", "end"} \/ outcome \in {"Ok", "Encode"} =>
           Len(head) = Len(Pdu!Fields)
    /\ Len(head) = Len(Pdu!Fields) => Len(cmd.args) >= Len(Pdu!Fields)

OidAt(k)   == Pdu!parse_oid(Pdu!Trailing[3 * k - 2].oid)
ValueAt(k) == Pdu!parse_typed_value(Pdu!Trailing[3 * k - 1].letter, Pdu!Trailing[3 * k])
Parsed(k)  == OidAt(k) # << >> /\ ValueAt(k) # << >>

AllParsed ==
    \A k \in 1 .. Len(varbinds) : Parsed(k) /\ varbinds[k] = <<OidAt(k)[1], ValueAt(k)[1]>>

PduParsed ==
    /\ AllParsed
    /\ pdu_pc \in {"head", "count"} => varbinds = << >>
    /\ pdu_pc = "triplets" =>
           Len(Pdu!Trailing) % 3 = 0 /\ 3 * Len(varbinds) < Len(Pdu!Trailing)
    /\ pdu_pc \in {"reserved", "build"} \/ outcome \in {"Ok", "Encode"} =>
           3 * Len(varbinds) = Len(Pdu!Trailing)

ReservedOids == {Pdu!SYS_UPTIME_OID, Pdu!SNMP_TRAP_OID_OID}

NoneReserved == \A k \in 1 .. Len(varbinds) : varbinds[k][1] \notin ReservedOids

PduFree ==
    (pdu_pc = "build" \/ outcome \in {"Ok", "Encode"}) /\ cmd.version # "v1" => NoneReserved

Built(k) ==
    /\ bindings[k] = Pdu!Binding(Pdu!ToBuild[k][1], Pdu!ToBuild[k][2])
    /\ cmd.version = "v1" => Pdu!ToBuild[k][2][1] \notin Pdu!SmiV2Only

AllBuilt == \A k \in 1 .. Len(bindings) : Built(k)

PduBuilt ==
    /\ AllBuilt
    /\ pdu_pc \in {"head", "count", "triplets", "reserved"} => bindings = << >>
    /\ outcome = "Ok" => Len(bindings) = Len(Pdu!ToBuild)
    /\ outcome = "Encode" =>
           /\ cmd.version = "v1"
           /\ \E k \in 1 .. Len(varbinds) : varbinds[k][2][1] \in Pdu!SmiV2Only

PduVerdict ==
    outcome = "Usage" /\ Len(head) = Len(Pdu!Fields) =>
        ~Pdu!GoodTrailing \/ (cmd.version # "v1" /\ Pdu!Duplicates)

PduInv == PduControl /\ PduHead /\ PduParsed /\ PduFree /\ PduBuilt /\ PduVerdict

LEMMA FieldsRead == Len(Pdu!Fields) \in {2, 5}
BY DEF Pdu!Fields, Pdu!Positionals

LEMMA Lengths ==
    ASSUME NEW s, Sequential(s)
    PROVE  Len(s) \in Nat /\ DOMAIN s = 1 .. Len(s)
BY SequentialOf DEF Sequential

LEMMA Trail ==
    ASSUME cmd \in Commands, Len(cmd.args) >= Len(Pdu!Fields)
    PROVE  /\ Sequential(Pdu!Trailing) /\ Len(Pdu!Trailing) \in Nat
           /\ \A k \in 1 .. Len(Pdu!Trailing) : Argument(Pdu!Trailing[k])
<1> DEFINE a == cmd.args
           f == Len(Pdu!Fields)
           n == Len(a)
<1>1. Sequential(a) /\ \A k \in DOMAIN a : Argument(a[k])
  BY PduAssumption DEF Sequential
<1>2. n \in Nat /\ DOMAIN a = 1 .. n /\ f \in {2, 5} /\ n >= f
  BY <1>1, Lengths, FieldsRead
<1>3. Pdu!Trailing = SubSeq(a, f + 1, Len(a))
  BY DEF Pdu!Trailing
<1> HIDE DEF a, f
<1>4. /\ Sequential(SubSeq(a, f + 1, Len(a)))
      /\ Len(SubSeq(a, f + 1, Len(a))) = n - (f + 1) + 1
      /\ \A k \in 1 .. n - (f + 1) + 1 :
             SubSeq(a, f + 1, Len(a))[k] = a[(f + 1) + k - 1]
  <2>1. f + 1 \in Nat /\ f + 1 >= 1 /\ f + 1 <= Len(a) + 1
    BY <1>2
  <2> QED BY <1>1, <2>1, Cut
<1> HIDE DEF n
<1> DEFINE t == Pdu!Trailing
<1>5. Sequential(t) /\ Len(t) = n - f /\ \A k \in 1 .. n - f : t[k] = a[f + k]
  <2>1. \A k \in 1 .. n - f : (f + 1) + k - 1 = f + k
    BY <1>2
  <2>2. n - (f + 1) + 1 = n - f
    BY <1>2
  <2> QED BY <1>3, <1>4, <2>1, <2>2
<1> HIDE DEF t
<1>6. ASSUME NEW k \in 1 .. Len(t) PROVE Argument(t[k])
  <2>1. k \in 1 .. n - f /\ f + k \in 1 .. n
    BY <1>2, <1>5
  <2> QED BY <1>1, <1>2, <1>5, <2>1
<1>7. Len(t) \in Nat
  BY <1>2, <1>5
<1> QED BY <1>5, <1>6, <1>7 DEF t

(* What a step leaves alone when it leaves the variables alone. *)
LEMMA CommandKept ==
    ASSUME UNCHANGED cmd
    PROVE  /\ Pdu!Fields' = Pdu!Fields /\ Pdu!Trailing' = Pdu!Trailing
           /\ Pdu!GoodTrailing' <=> Pdu!GoodTrailing
           /\ Pdu!Duplicates' <=> Pdu!Duplicates
BY DEF Pdu!Fields, Pdu!Trailing, Pdu!GoodTrailing, Pdu!GoodTriplet, Pdu!Duplicates, Pdu!TypedOid

LEMMA ParsedKept ==
    ASSUME UNCHANGED cmd, NEW k
    PROVE  OidAt(k)' = OidAt(k) /\ ValueAt(k)' = ValueAt(k) /\ (Parsed(k)' <=> Parsed(k))
BY CommandKept DEF OidAt, ValueAt, Parsed

LEMMA VarbindsKept ==
    ASSUME UNCHANGED <<cmd, varbinds>>
    PROVE  (AllParsed' <=> AllParsed) /\ (NoneReserved' <=> NoneReserved)
BY ParsedKept DEF AllParsed, NoneReserved, ReservedOids

LEMMA ToBuildKept ==
    ASSUME UNCHANGED <<cmd, head, varbinds>>
    PROVE  Pdu!ToBuild' = Pdu!ToBuild
BY DEF Pdu!ToBuild, Pdu!Value, Pdu!Fields

LEMMA BuiltKept ==
    ASSUME UNCHANGED <<cmd, head, varbinds, bindings>>
    PROVE  AllBuilt' <=> AllBuilt
BY ToBuildKept DEF AllBuilt, Built

LEMMA PduInitially == Pdu!Init => PduInv
<1> SUFFICES ASSUME Pdu!Init PROVE PduInv
  OBVIOUS
<1>1. cmd \in Commands /\ pdu_pc = "head" /\ outcome = "none"
      /\ head = << >> /\ varbinds = << >> /\ bindings = << >>
  BY DEF Pdu!Init
<1>2. Sequential(<< >>) /\ Len(<< >>) = 0
  BY EmptySeq, SequentialOf
<1>3. PduControl
  BY <1>1, <1>2 DEF PduControl
<1>4. PduHead
  BY <1>1, <1>2, FieldsRead DEF PduHead
<1>5. PduParsed /\ PduFree
  BY <1>1, <1>2 DEF PduParsed, AllParsed, PduFree
<1>6. PduBuilt /\ PduVerdict
  BY <1>1, <1>2 DEF PduBuilt, AllBuilt, PduVerdict
<1> QED BY <1>3, <1>4, <1>5, <1>6 DEF PduInv

LEMMA TooFewKeeps == PduInv /\ Pdu!TooFew => PduInv'
<1> SUFFICES ASSUME PduInv, Pdu!TooFew PROVE PduInv'
  OBVIOUS
<1>1. /\ pdu_pc = "head" /\ pdu_pc' = "end" /\ outcome' = "Usage"
      /\ UNCHANGED <<cmd, head, varbinds, bindings>>
  BY DEF Pdu!TooFew, Pdu!Return
<1>2. Len(head) < Len(Pdu!Fields) /\ Len(head) \in Nat
  BY <1>1, Lengths DEF PduInv, PduControl, PduHead
<1>3. Pdu!Fields' = Pdu!Fields
  BY <1>1, CommandKept
<1>4. PduControl'
  BY <1>1 DEF PduInv, PduControl, Sequential
<1>5. PduHead' /\ PduVerdict'
  BY <1>1, <1>2, <1>3, FieldsRead DEF PduHead, PduVerdict
<1>6. PduParsed' /\ PduFree'
  BY <1>1, VarbindsKept DEF PduInv, PduParsed, PduFree
<1>7. PduBuilt'
  BY <1>1, BuiltKept DEF PduInv, PduBuilt
<1> QED BY <1>4, <1>5, <1>6, <1>7 DEF PduInv

LEMMA PositionalKeeps == PduInv /\ Pdu!Positional => PduInv'
<1> SUFFICES ASSUME PduInv, Pdu!Positional PROVE PduInv'
  OBVIOUS
<1> DEFINE n == Len(head)
           f == Len(Pdu!Fields)
<1>1. /\ pdu_pc = "head" /\ Len(cmd.args) >= f /\ UNCHANGED <<cmd, varbinds, bindings>>
      /\ \/ /\ \E value : head' = Append(head, value)
            /\ pdu_pc' = (IF n + 1 = f THEN "count" ELSE "head") /\ outcome' = outcome
         \/ pdu_pc' = "end" /\ outcome' \in {"Usage", "Other"} /\ head' = head
  BY DEF Pdu!Positional, Pdu!Return
<1>2. n < f /\ n \in Nat /\ f \in {2, 5} /\ outcome = "none"
  BY <1>1, Lengths, FieldsRead DEF PduInv, PduControl, PduHead
<1>3. varbinds = << >> /\ bindings = << >> /\ Len(<< >>) = 0 /\ Sequential(<< >>)
  BY <1>1, EmptySeq, SequentialOf DEF PduInv, PduParsed, PduBuilt
<1>4. Pdu!Fields' = Pdu!Fields
  BY <1>1, CommandKept
<1>5. PduParsed' /\ PduFree' /\ PduBuilt'
  <2>1. AllParsed' /\ NoneReserved' /\ AllBuilt'
    BY <1>1, <1>3 DEF AllParsed, NoneReserved, AllBuilt
  <2>2. pdu_pc' \in {"count", "head", "end"} /\ outcome' \notin {"Ok", "Encode"}
    BY <1>1, <1>2
  <2> QED BY <1>1, <1>3, <2>1, <2>2 DEF PduParsed, PduFree, PduBuilt
<1>6. CASE \E value : head' = Append(head, value)
           /\ pdu_pc' = (IF n + 1 = f THEN "count" ELSE "head") /\ outcome' = outcome
  <2>1. Sequential(head') /\ Len(head') = n + 1
    BY <1>6, Appended DEF PduInv, PduControl
  <2>2. PduControl'
    BY <1>1, <1>2, <1>3, <1>6, <2>1 DEF PduInv, PduControl
  <2>3. PduHead' /\ PduVerdict'
    BY <1>1, <1>2, <1>4, <1>6, <2>1 DEF PduHead, PduVerdict
  <2> QED BY <1>5, <2>2, <2>3 DEF PduInv
<1>7. CASE pdu_pc' = "end" /\ outcome' \in {"Usage", "Other"} /\ head' = head
  <2>1. PduControl'
    BY <1>1, <1>3, <1>7 DEF PduInv, PduControl
  <2>2. PduHead' /\ PduVerdict'
    BY <1>1, <1>2, <1>4, <1>7 DEF PduHead, PduVerdict
  <2> QED BY <1>5, <2>1, <2>2 DEF PduInv
<1> QED BY <1>1, <1>6, <1>7

(* The positional arguments are all there when the triplets are looked at. *)
LEMMA Complete ==
    ASSUME PduInv, pdu_pc \in {"count", "triplets", "reserved", "build"}
    PROVE  /\ Len(head) = Len(Pdu!Fields) /\ Len(head) \in Nat
           /\ Sequential(Pdu!Trailing) /\ Len(Pdu!Trailing) \in Nat
           /\ \A k \in 1 .. Len(Pdu!Trailing) : Argument(Pdu!Trailing[k])
<1>1. Len(head) = Len(Pdu!Fields) /\ Len(cmd.args) >= Len(Pdu!Fields) /\ cmd \in Commands
  BY DEF PduInv, PduControl, PduHead
<1>2. Len(head) \in Nat
  BY <1>1, FieldsRead
<1> QED BY <1>1, <1>2, Trail

(* What holds after a step that neither reads nor builds anything. *)
LEMMA Stays ==
    ASSUME PduInv, pdu_pc \in {"count", "triplets", "reserved", "build"},
           UNCHANGED <<cmd, head, varbinds>>, outcome' # "Other", pdu_pc' # "head",
           Sequential(bindings'), pdu_pc' = "end" <=> outcome' # "none",
           pdu_pc' \in {"count", "triplets", "reserved", "build", "end"},
           outcome' \in {"none", "Ok", "Usage", "Encode", "Other"}
    PROVE  PduControl' /\ PduHead' /\ AllParsed'
<1>1. PduControl'
  BY DEF PduInv, PduControl, Sequential
<1>2. PduHead'
  BY Complete, CommandKept DEF PduInv, PduHead
<1> QED BY <1>1, <1>2, VarbindsKept DEF PduInv, PduParsed

LEMMA CountKeeps == PduInv /\ Pdu!Count => PduInv'
<1> SUFFICES ASSUME PduInv, Pdu!Count PROVE PduInv'
  OBVIOUS
<1> DEFINE t == Len(Pdu!Trailing)
<1>1. /\ pdu_pc = "count" /\ UNCHANGED <<cmd, head, varbinds, bindings>>
      /\ IF t % 3 # 0 THEN pdu_pc' = "end" /\ outcome' = "Usage"
         ELSE /\ pdu_pc' = (IF Pdu!Trailing = << >> THEN "reserved" ELSE "triplets")
              /\ outcome' = outcome
  BY DEF Pdu!Count, Pdu!Return
<1>2. outcome = "none" /\ varbinds = << >> /\ bindings = << >> /\ Len(<< >>) = 0
      /\ Sequential(<< >>)
  BY <1>1, EmptySeq, SequentialOf DEF PduInv, PduControl, PduParsed, PduBuilt
<1>3. /\ Pdu!Trailing' = Pdu!Trailing /\ (Pdu!GoodTrailing' <=> Pdu!GoodTrailing)
  BY <1>1, CommandKept
<1>4. t \in Nat /\ (Pdu!Trailing = << >> <=> t = 0)
  <2>1. Sequential(Pdu!Trailing) /\ t \in Nat
    BY <1>1, Complete
  <2> QED BY <2>1, EmptySeq DEF Sequential
<1>5. PduControl' /\ PduHead' /\ AllParsed'
  BY <1>1, <1>2, Stays
<1>6. PduParsed'
  <2>1. Len(varbinds') = 0 /\ (pdu_pc' = "triplets" => t % 3 = 0 /\ t # 0)
        /\ (pdu_pc' = "reserved" => t = 0) /\ pdu_pc' \in {"reserved", "triplets", "end"}
        /\ outcome' \notin {"Ok", "Encode"}
    BY <1>1, <1>2, <1>4
  <2> HIDE DEF t
  <2>2. Len(Pdu!Trailing') = t
    BY <1>3 DEF t
  <2> QED BY <1>1, <1>2, <1>4, <1>5, <2>1, <2>2 DEF PduParsed
<1>7. PduBuilt' /\ PduFree'
  <2>1. AllBuilt'
    BY <1>1, BuiltKept DEF PduInv, PduBuilt
  <2> QED BY <1>1, <1>2, <2>1 DEF PduBuilt, PduFree
<1>8. PduVerdict'
  BY <1>1, <1>2, <1>3 DEF PduVerdict, Pdu!GoodTrailing
<1> QED BY <1>5, <1>6, <1>7, <1>8 DEF PduInv

LEMMA Thirds ==
    ASSUME NEW t \in Nat
    PROVE  /\ t \div 3 \in Nat
           /\ \A k \in Nat : k <= t \div 3 <=> 3 * k <= t
           /\ t % 3 = 0 <=> t = 3 * (t \div 3)
           /\ \A k \in Nat : t = 3 * k => t % 3 = 0 /\ t \div 3 = k
BY SMT

(* A triplet parses exactly when it is a good one, and then says what it says. *)
LEMMA TripletParsed ==
    ASSUME Len(Pdu!Trailing) \in Nat,
           \A j \in 1 .. Len(Pdu!Trailing) : Argument(Pdu!Trailing[j]),
           NEW k \in 1 .. Len(Pdu!Trailing) \div 3
    PROVE  /\ Parsed(k) <=> Pdu!GoodTriplet(k)
           /\ Parsed(k) =>
                  /\ OidAt(k)[1] = Pdu!TypedOid(k)
                  /\ Pdu!ReadOid(Pdu!BerOid(OidAt(k)[1])) = OidAt(k)[1]
                  /\ Pdu!ReadsAs(Pdu!Binding(OidAt(k)[1], ValueAt(k)[1]).value,
                                 Pdu!Trailing[3 * k - 1].letter, Pdu!Trailing[3 * k])
                  /\ ValueAt(k)[1][1] \in Pdu!SmiV2Only
                         <=> Pdu!Trailing[3 * k - 1].letter \in {"b", "U"}
<1> DEFINE t == Len(Pdu!Trailing)
           name == Pdu!Trailing[3 * k - 2]
           letter == Pdu!Trailing[3 * k - 1].letter
           raw == Pdu!Trailing[3 * k]
<1>1. 3 * k - 2 \in 1 .. t /\ 3 * k \in 1 .. t
  <2>1. t \in Nat
    OBVIOUS
  <2>2. k \in Nat /\ k >= 1 /\ k <= t \div 3
    BY <2>1, Thirds
  <2> HIDE DEF t
  <2>3. 3 * k <= t
    BY <2>1, <2>2, Thirds
  <2> QED BY <2>1, <2>2, <2>3
<1>2. Argument(name) /\ Argument(raw)
  BY <1>1
<1>3. /\ OidAt(k) = Pdu!parse_oid(name.oid) /\ ValueAt(k) = Pdu!parse_typed_value(letter, raw)
      /\ Pdu!GoodTriplet(k) <=> (Pdu!GoodOid(name) /\ Pdu!GoodValue(letter, raw))
      /\ Pdu!TypedOid(k) = Pdu!Trimmed(name.oid)
  BY DEF OidAt, ValueAt, Pdu!GoodTriplet, Pdu!TypedOid
<1> HIDE DEF name, letter, raw
<1>4. /\ OidAt(k) # << >> <=> Pdu!GoodOid(name)
      /\ OidAt(k) # << >> => /\ OidAt(k)[1] = Pdu!TypedOid(k)
                             /\ Pdu!ReadOid(Pdu!BerOid(OidAt(k)[1])) = OidAt(k)[1]
  BY <1>2, <1>3, OidParsed DEF Pdu!Err
<1>5. /\ ValueAt(k) # << >> <=> Pdu!GoodValue(letter, raw)
      /\ ValueAt(k) # << >> =>
             /\ Pdu!ReadsAs(Pdu!Binding(OidAt(k)[1], ValueAt(k)[1]).value, letter, raw)
             /\ ValueAt(k)[1][1] \in Pdu!SmiV2Only <=> letter \in {"b", "U"}
  BY <1>2, <1>3, ValueParsed
<1> QED BY <1>3, <1>4, <1>5 DEF Parsed, letter, raw

LEMMA TripletKeeps == PduInv /\ Pdu!Triplet => PduInv'
<1> SUFFICES ASSUME PduInv, Pdu!Triplet PROVE PduInv'
  OBVIOUS
<1> DEFINE t == Len(Pdu!Trailing)
           v == Len(varbinds)
           k == v + 1
<1>1. pdu_pc = "triplets" /\ UNCHANGED <<cmd, head, bindings>>
  BY DEF Pdu!Triplet
<1>2. /\ outcome = "none" /\ bindings = << >> /\ Sequential(varbinds) /\ v \in Nat
      /\ t % 3 = 0 /\ 3 * v < t /\ AllParsed /\ Sequential(bindings)
  BY <1>1, Lengths DEF PduInv, PduControl, PduParsed, PduBuilt
<1>3. /\ t \in Nat /\ \A j \in 1 .. t : Argument(Pdu!Trailing[j])
  BY <1>1, Complete
<1>4. /\ 3 * v + 1 = 3 * k - 2 /\ 3 * v + 2 = 3 * k - 1 /\ 3 * v + 3 = 3 * k
      /\ k \in 1 .. t \div 3
      /\ 3 * v + 6 > t => 3 * k = t
      /\ ~(3 * v + 6 > t) => 3 * k < t
  <2> HIDE DEF v, t
  <2>1. k \in Nat /\ k >= 1
    BY <1>2
  <2>2. t = 3 * (t \div 3) /\ t \div 3 \in Nat
    BY <1>2, <1>3, Thirds
  <2> DEFINE q == t \div 3
  <2>3. q \in Nat /\ t = 3 * q
    BY <2>2
  <2> HIDE DEF q
  <2>4. k <= q
    BY <1>2, <1>3, <2>3
  <2> QED BY <1>2, <1>3, <2>1, <2>3, <2>4 DEF q
<1>5. IF OidAt(k) = << >> \/ ValueAt(k) = << >>
      THEN pdu_pc' = "end" /\ outcome' = "Usage" /\ varbinds' = varbinds
      ELSE /\ varbinds' = Append(varbinds, <<OidAt(k)[1], ValueAt(k)[1]>>)
           /\ pdu_pc' = (IF 3 * v + 6 > t THEN "reserved" ELSE "triplets")
           /\ outcome' = outcome
  <2> HIDE DEF k
  <2> QED BY <1>4 DEF Pdu!Triplet, Pdu!Return, Pdu!Err, OidAt, ValueAt
<1>6. Pdu!Trailing' = Pdu!Trailing /\ (Pdu!GoodTrailing' <=> Pdu!GoodTrailing)
      /\ Pdu!Fields' = Pdu!Fields
  BY <1>1, CommandKept
<1>7. PduBuilt'
  <2>1. AllBuilt'
    BY <1>1, <1>2, EmptySeq DEF AllBuilt
  <2>2. bindings' = << >> /\ outcome' \notin {"Ok", "Encode"}
    BY <1>1, <1>2, <1>5
  <2> QED BY <2>1, <2>2 DEF PduBuilt
<1>8. CASE OidAt(k) = << >> \/ ValueAt(k) = << >>
  <2>1. pdu_pc' = "end" /\ outcome' = "Usage" /\ varbinds' = varbinds
    BY <1>5, <1>8
  <2>2. PduControl' /\ PduHead' /\ AllParsed'
    BY <1>1, <1>2, <2>1, Stays
  <2>3. PduParsed' /\ PduFree'
    BY <2>1, <2>2 DEF PduParsed, PduFree
  <2>4. PduVerdict'
    <3>1. ~Pdu!GoodTriplet(k)
      <4> HIDE DEF k
      <4> QED BY <1>3, <1>4, <1>8, TripletParsed DEF Parsed
    <3> HIDE DEF k, t
    <3>2. ~Pdu!GoodTrailing
      BY <1>4, <3>1 DEF Pdu!GoodTrailing, t
    <3> QED BY <1>6, <3>2 DEF PduVerdict
  <2> QED BY <1>7, <2>2, <2>3, <2>4 DEF PduInv
<1>9. CASE ~(OidAt(k) = << >> \/ ValueAt(k) = << >>)
  <2> DEFINE new == <<OidAt(k)[1], ValueAt(k)[1]>>
  <2>1. /\ varbinds' = Append(varbinds, new) /\ outcome' = "none"
        /\ pdu_pc' = (IF 3 * v + 6 > t THEN "reserved" ELSE "triplets")
    BY <1>2, <1>5, <1>9
  <2>2. /\ Sequential(varbinds') /\ Len(varbinds') = k /\ varbinds'[k] = new
        /\ \A j \in 1 .. v : varbinds'[j] = varbinds[j]
    <3> HIDE DEF new
    <3> QED BY <1>2, <2>1, Appended
  <2>3. PduControl'
    BY <1>1, <1>2, <2>1, <2>2 DEF PduInv, PduControl
  <2>4. PduHead' /\ PduVerdict'
    BY <1>1, <1>6, <2>1, Complete DEF PduInv, PduHead, PduVerdict
  <2>5. AllParsed'
    <3> SUFFICES ASSUME NEW j \in 1 .. Len(varbinds')
                 PROVE  Parsed(j)' /\ varbinds'[j] = <<OidAt(j)[1], ValueAt(j)[1]>>'
      BY DEF AllParsed
    <3>1. OidAt(j)' = OidAt(j) /\ ValueAt(j)' = ValueAt(j) /\ (Parsed(j)' <=> Parsed(j))
      BY <1>1, ParsedKept
    <3>2. CASE j = k
      BY <1>9, <2>2, <3>1, <3>2 DEF Parsed
    <3>3. CASE j # k
      <4>1. j \in 1 .. v
        BY <1>2, <2>2, <3>3
      <4> QED BY <1>2, <2>2, <3>1, <4>1 DEF AllParsed
    <3> QED BY <3>2, <3>3
  <2>6. PduParsed'
    <3>1. /\ pdu_pc' = "triplets" => t % 3 = 0 /\ 3 * k < t
          /\ pdu_pc' = "reserved" => 3 * k = t
          /\ pdu_pc' \in {"triplets", "reserved"}
      BY <1>2, <1>4, <2>1
    <3> HIDE DEF t, k
    <3>2. Len(Pdu!Trailing') = t
      BY <1>6 DEF t
    <3> QED BY <2>1, <2>2, <2>5, <3>1, <3>2 DEF PduParsed
  <2>7. PduFree'
    BY <2>1 DEF PduFree
  <2> QED BY <1>7, <2>3, <2>4, <2>6, <2>7 DEF PduInv
<1> QED BY <1>8, <1>9

LEMMA ReservedKeeps == PduInv /\ Pdu!Reserved => PduInv'
<1> SUFFICES ASSUME PduInv, Pdu!Reserved PROVE PduInv'
  OBVIOUS
<1> DEFINE t == Len(Pdu!Trailing)
           v == Len(varbinds)
<1>1. /\ pdu_pc = "reserved" /\ UNCHANGED <<cmd, head, varbinds, bindings>>
      /\ IF cmd.version # "v1" /\ \E k \in DOMAIN varbinds : varbinds[k][1] \in ReservedOids
         THEN pdu_pc' = "end" /\ outcome' = "Usage"
         ELSE pdu_pc' = "build" /\ outcome' = outcome
  BY DEF Pdu!Reserved, Pdu!Return, ReservedOids
<1>2. /\ outcome = "none" /\ bindings = << >> /\ v \in Nat /\ DOMAIN varbinds = 1 .. v
      /\ AllParsed /\ 3 * v = t /\ Sequential(bindings)
  BY <1>1, Lengths DEF PduInv, PduControl, PduParsed, PduBuilt
<1>3. t \in Nat /\ \A j \in 1 .. t : Argument(Pdu!Trailing[j])
  BY <1>1, Complete
<1>4. /\ Pdu!Trailing' = Pdu!Trailing /\ (Pdu!Duplicates' <=> Pdu!Duplicates)
      /\ (AllBuilt' <=> AllBuilt) /\ (NoneReserved' <=> NoneReserved)
  BY <1>1, CommandKept, BuiltKept, VarbindsKept
<1>5. PduControl' /\ PduHead' /\ AllParsed'
  BY <1>1, <1>2, Stays
<1>6. PduParsed'
  BY <1>1, <1>2, <1>4, <1>5 DEF PduParsed
<1>7. PduBuilt'
  BY <1>1, <1>2, <1>4 DEF PduInv, PduBuilt
<1>8. PduFree'
  BY <1>1, <1>2, <1>4 DEF PduFree, NoneReserved
<1>9. PduVerdict'
  <2>1. CASE outcome' = "Usage"
    <3>1. PICK k \in 1 .. v : varbinds[k][1] \in ReservedOids
      BY <1>1, <1>2, <2>1
    <3>2. k \in 1 .. t \div 3
      <4> HIDE DEF t
      <4> QED BY <1>2, <1>3, Thirds
    <3>3. Pdu!TypedOid(k) \in ReservedOids
      BY <1>2, <1>3, <3>1, <3>2, TripletParsed DEF AllParsed
    <3> HIDE DEF t
    <3>4. Pdu!Duplicates
      BY <3>2, <3>3 DEF Pdu!Duplicates, ReservedOids, t
    <3> QED BY <1>1, <1>2, <1>4, <2>1, <3>4 DEF PduVerdict
  <2> QED BY <2>1 DEF PduVerdict
<1> QED BY <1>5, <1>6, <1>7, <1>8, <1>9 DEF PduInv

(* ToBuild is the var-binds, after the two that v2c and v3 begin with. *)
LEMMA ToBuildIs ==
    ASSUME Sequential(varbinds)
    PROVE  /\ Sequential(Pdu!ToBuild) /\ Len(Pdu!ToBuild) \in Nat
           /\ cmd.version = "v1" => Pdu!ToBuild = varbinds
           /\ cmd.version # "v1" =>
                  /\ Len(Pdu!ToBuild) = 2 + Len(varbinds)
                  /\ Pdu!ToBuild[1][1] = Pdu!SYS_UPTIME_OID
                  /\ Pdu!ToBuild[2][1] = Pdu!SNMP_TRAP_OID_OID
                  /\ \A k \in 1 .. Len(varbinds) : Pdu!ToBuild[2 + k] = varbinds[k]
<1>1. CASE cmd.version = "v1"
  <2>1. Pdu!ToBuild = varbinds
    BY <1>1 DEF Pdu!ToBuild
  <2> QED BY <1>1, <2>1, Lengths
<1>2. CASE cmd.version # "v1"
  <2> DEFINE a == <<Pdu!SYS_UPTIME_OID, <<"TimeTicks", Pdu!Value("uptime")>>>>
             b == <<Pdu!SNMP_TRAP_OID_OID, <<"ObjectId", Pdu!Value("trap_oid")>>>>
             first == <<a, b>>
  <2>1. Pdu!ToBuild = first \o varbinds
    BY <1>2 DEF Pdu!ToBuild
  <2>2. a[1] = Pdu!SYS_UPTIME_OID /\ b[1] = Pdu!SNMP_TRAP_OID_OID
    OBVIOUS
  <2> HIDE DEF a, b
  <2>3. first \in Seq({a, b}) /\ Len(first) = 2 /\ first[1] = a /\ first[2] = b
    OBVIOUS
  <2>4. Sequential(first)
    BY <2>3, SequentialOf
  <2> HIDE DEF first
  <2>5. /\ Sequential(first \o varbinds) /\ Len(varbinds) \in Nat
        /\ Len(first \o varbinds) = Len(first) + Len(varbinds)
        /\ \A k \in 1 .. Len(first) : (first \o varbinds)[k] = first[k]
        /\ \A k \in 1 .. Len(varbinds) : (first \o varbinds)[Len(first) + k] = varbinds[k]
    <3> DEFINE rest == varbinds
    <3>1. Sequential(rest)
      OBVIOUS
    <3> HIDE DEF rest
    <3>2. /\ Sequential(first \o rest) /\ Len(rest) \in Nat
          /\ Len(first \o rest) = Len(first) + Len(rest)
          /\ \A k \in 1 .. Len(first) : (first \o rest)[k] = first[k]
          /\ \A k \in 1 .. Len(rest) : (first \o rest)[Len(first) + k] = rest[k]
      BY <2>4, <3>1, Concatenated
    <3> QED BY <3>2 DEF rest
  <2> QED BY <1>2, <2>1, <2>2, <2>3, <2>5
<1> QED BY <1>1, <1>2

LEMMA BuildKeeps == PduInv /\ Pdu!Build => PduInv'
<1> SUFFICES ASSUME PduInv, Pdu!Build PROVE PduInv'
  OBVIOUS
<1> DEFINE n == Len(bindings)
           b == Pdu!ToBuild[n + 1]
<1>1. /\ pdu_pc = "build" /\ n < Len(Pdu!ToBuild) /\ UNCHANGED <<cmd, head, varbinds>>
      /\ IF cmd.version = "v1" /\ b[2][1] \in Pdu!SmiV2Only
         THEN pdu_pc' = "end" /\ outcome' = "Encode" /\ bindings' = bindings
         ELSE /\ bindings' = Append(bindings, Pdu!Binding(b[1], b[2]))
              /\ pdu_pc' = pdu_pc /\ outcome' = outcome
  BY DEF Pdu!Build, Pdu!Return
<1>2. /\ outcome = "none" /\ Sequential(bindings) /\ Sequential(varbinds) /\ n \in Nat
      /\ 3 * Len(varbinds) = Len(Pdu!Trailing) /\ AllBuilt
      /\ cmd.version # "v1" => NoneReserved
  BY <1>1, Lengths DEF PduInv, PduControl, PduParsed, PduBuilt, PduFree
<1>3. Sequential(bindings')
  <2> DEFINE new == Pdu!Binding(b[1], b[2])
  <2>1. bindings' = bindings \/ bindings' = Append(bindings, new)
    BY <1>1
  <2> HIDE DEF new
  <2>2. Sequential(Append(bindings, new))
    BY <1>2, Appended
  <2> QED BY <1>2, <2>1, <2>2
<1>4. PduControl' /\ PduHead' /\ AllParsed'
  BY <1>1, <1>2, <1>3, Stays
<1>5. Pdu!Trailing' = Pdu!Trailing /\ (NoneReserved' <=> NoneReserved)
      /\ Pdu!ToBuild' = Pdu!ToBuild
  BY <1>1, CommandKept, VarbindsKept, ToBuildKept
<1>6. PduParsed' /\ PduFree' /\ PduVerdict'
  BY <1>1, <1>2, <1>4, <1>5 DEF PduParsed, PduFree, PduVerdict
<1>7. PduBuilt'
  <2>1. CASE cmd.version = "v1" /\ b[2][1] \in Pdu!SmiV2Only
    <3>1. bindings' = bindings /\ pdu_pc' = "end" /\ outcome' = "Encode"
      BY <1>1, <2>1
    <3>2. AllBuilt'
      BY <1>1, <1>2, <3>1, BuiltKept
    <3>3. Pdu!ToBuild = varbinds /\ n + 1 \in 1 .. Len(varbinds)
      <4>1. Pdu!ToBuild = varbinds /\ Len(varbinds) \in Nat
        BY <1>2, <2>1, ToBuildIs, Lengths
      <4> QED BY <1>1, <1>2, <4>1
    <3>4. \E k \in 1 .. Len(varbinds) : varbinds[k][2][1] \in Pdu!SmiV2Only
      <4> HIDE DEF n
      <4> QED BY <2>1, <3>3
    <3>5. Pdu!SmiV2Only' = Pdu!SmiV2Only
      BY DEF Pdu!SmiV2Only
    <3> QED BY <1>1, <2>1, <3>1, <3>2, <3>4, <3>5 DEF PduBuilt
  <2>2. CASE ~(cmd.version = "v1" /\ b[2][1] \in Pdu!SmiV2Only)
    <3> DEFINE new == Pdu!Binding(b[1], b[2])
    <3>1. bindings' = Append(bindings, new) /\ pdu_pc' = "build" /\ outcome' = "none"
      BY <1>1, <1>2, <2>2
    <3>2. /\ Len(bindings') = n + 1 /\ bindings'[n + 1] = new
          /\ \A k \in 1 .. n : bindings'[k] = bindings[k]
      <4> HIDE DEF new
      <4> QED BY <1>2, <3>1, Appended
    <3>3. AllBuilt'
      <4> SUFFICES ASSUME NEW k \in 1 .. Len(bindings') PROVE Built(k)'
        BY DEF AllBuilt
      <4>1. Built(k)' <=>
                /\ bindings'[k] = Pdu!Binding(Pdu!ToBuild[k][1], Pdu!ToBuild[k][2])
                /\ cmd.version = "v1" => Pdu!ToBuild[k][2][1] \notin Pdu!SmiV2Only
        BY <1>1, <1>5 DEF Built
      <4>2. CASE k = n + 1
        BY <2>2, <3>2, <4>1, <4>2
      <4>3. CASE k # n + 1
        <5>1. k \in 1 .. n
          BY <1>2, <3>2, <4>3
        <5> QED BY <1>2, <3>2, <4>1, <5>1 DEF AllBuilt, Built
      <4> QED BY <4>2, <4>3
    <3> QED BY <3>1, <3>3 DEF PduBuilt
  <2> QED BY <2>1, <2>2
<1> QED BY <1>4, <1>6, <1>7 DEF PduInv

LEMMA EncodedKeeps == PduInv /\ Pdu!Encoded => PduInv'
<1> SUFFICES ASSUME PduInv, Pdu!Encoded PROVE PduInv'
  OBVIOUS
<1>1. /\ pdu_pc = "build" /\ Len(bindings) = Len(Pdu!ToBuild) /\ pdu_pc' = "end"
      /\ outcome' = "Ok" /\ UNCHANGED <<cmd, head, varbinds, bindings>>
  BY DEF Pdu!Encoded, Pdu!Return
<1>2. Pdu!Trailing' = Pdu!Trailing /\ Pdu!ToBuild' = Pdu!ToBuild
      /\ (NoneReserved' <=> NoneReserved) /\ (AllBuilt' <=> AllBuilt)
  BY <1>1, CommandKept, ToBuildKept, VarbindsKept, BuiltKept
<1>3. PduControl' /\ PduHead' /\ AllParsed'
  BY <1>1, Stays DEF PduInv, PduControl
<1>4. PduParsed' /\ PduFree' /\ PduVerdict'
  BY <1>1, <1>2, <1>3 DEF PduInv, PduParsed, PduFree, PduVerdict
<1>5. PduBuilt'
  BY <1>1, <1>2 DEF PduInv, PduBuilt
<1> QED BY <1>3, <1>4, <1>5 DEF PduInv

LEMMA PduStutters == PduInv /\ UNCHANGED pdu_vars => PduInv'
<1> SUFFICES ASSUME PduInv, UNCHANGED pdu_vars PROVE PduInv'
  OBVIOUS
<1>1. UNCHANGED <<cmd, head, varbinds, bindings>> /\ pdu_pc' = pdu_pc /\ outcome' = outcome
  BY DEF pdu_vars
<1>2. /\ Pdu!Fields' = Pdu!Fields /\ Pdu!Trailing' = Pdu!Trailing
      /\ Pdu!ToBuild' = Pdu!ToBuild /\ (NoneReserved' <=> NoneReserved)
      /\ (AllBuilt' <=> AllBuilt) /\ (AllParsed' <=> AllParsed)
      /\ (Pdu!GoodTrailing' <=> Pdu!GoodTrailing) /\ (Pdu!Duplicates' <=> Pdu!Duplicates)
  BY <1>1, CommandKept, ToBuildKept, VarbindsKept, BuiltKept
<1>3. Pdu!SmiV2Only' = Pdu!SmiV2Only
  BY DEF Pdu!SmiV2Only
<1>4. PduControl' /\ PduHead' /\ PduFree' /\ PduVerdict'
  BY <1>1, <1>2 DEF PduInv, PduControl, PduHead, PduFree, PduVerdict, Sequential
<1>5. PduParsed' /\ PduBuilt'
  BY <1>1, <1>2, <1>3 DEF PduInv, PduParsed, PduBuilt
<1> QED BY <1>4, <1>5 DEF PduInv

(* A call of one of the other readers starts with the command line at its end. *)
PduOrNone == PduInv \/ NoTrap

LEMMA PduInvariance == ASpec => []PduOrNone
<1>1. AInit => PduOrNone
  BY PduInitially DEF AInit, PduOrNone
<1>2. PduOrNone /\ [ANext]_<<pdu_vars, hex_vars, agent_vars, vars>> => PduOrNone'
  <2> SUFFICES ASSUME PduOrNone, [ANext]_<<pdu_vars, hex_vars, agent_vars, vars>>
               PROVE  PduOrNone'
    OBVIOUS
  <2>1. Pdu!Next \/ UNCHANGED pdu_vars
    BY DEF ANext
  <2>2. CASE NoTrap
    <3>1. ~Pdu!Next
      BY <2>2 DEF NoTrap, Pdu!Next, Pdu!TooFew, Pdu!Positional, Pdu!Count, Pdu!Triplet,
                  Pdu!Reserved, Pdu!Build, Pdu!Encoded
    <3> QED BY <2>1, <2>2, <3>1 DEF NoTrap, PduOrNone, pdu_vars
  <2>3. CASE PduInv /\ UNCHANGED pdu_vars
    BY <2>3, PduStutters DEF PduOrNone
  <2>4. CASE PduInv /\ Pdu!Next
    <3>1. Pdu!TooFew \/ Pdu!Positional \/ Pdu!Count \/ Pdu!Triplet \/ Pdu!Reserved
          \/ Pdu!Build \/ Pdu!Encoded
      BY <2>4 DEF Pdu!Next
    <3> QED BY <2>4, <3>1, TooFewKeeps, PositionalKeeps, CountKeeps, TripletKeeps,
               ReservedKeeps, BuildKeeps, EncodedKeeps DEF PduOrNone
  <2> QED BY <2>1, <2>2, <2>3, <2>4 DEF PduOrNone
<1> QED BY <1>1, <1>2, PTL DEF ASpec

(* Every triplet of a trap, and of one that SNMPv1 could not carry, was parsed. *)
LEMMA AllGood ==
    ASSUME PduInv, outcome \in {"Ok", "Encode"}
    PROVE  /\ Len(varbinds) \in Nat /\ Len(Pdu!Trailing) \div 3 = Len(varbinds)
           /\ Pdu!GoodTrailing /\ AllParsed
           /\ Len(Pdu!Trailing) \in Nat
           /\ \A j \in 1 .. Len(Pdu!Trailing) : Argument(Pdu!Trailing[j])
<1> DEFINE t == Len(Pdu!Trailing)
           v == Len(varbinds)
<1>1. v \in Nat /\ 3 * v = t /\ AllParsed
  BY Lengths DEF PduInv, PduControl, PduParsed
<1>2. t \in Nat /\ \A j \in 1 .. t : Argument(Pdu!Trailing[j])
  BY Trail DEF PduInv, PduControl, PduHead
<1>3. t % 3 = 0 /\ t \div 3 = v
  <2> HIDE DEF t, v
  <2> QED BY <1>1, <1>2, Thirds
<1>4. ASSUME NEW k \in 1 .. t \div 3 PROVE Pdu!GoodTriplet(k)
  BY <1>1, <1>2, <1>3, TripletParsed DEF AllParsed
<1> HIDE DEF v
<1>5. Pdu!GoodTrailing
  BY <1>3, <1>4 DEF Pdu!GoodTrailing
<1> QED BY <1>1, <1>2, <1>3, <1>5 DEF v

LEMMA Decided == PduInv => TripletsDecide
<1> SUFFICES ASSUME PduInv, pdu_pc = "end", Len(head) = Len(Pdu!Fields)
             PROVE  /\ (outcome = "Usage")
                           = (~Pdu!GoodTrailing \/ (cmd.version # "v1" /\ Pdu!Duplicates))
                    /\ (outcome = "Encode")
                           = (/\ Pdu!GoodTrailing /\ cmd.version = "v1"
                              /\ \E k \in 1 .. Len(Pdu!Trailing) \div 3 :
                                     Pdu!Trailing[3 * k - 1].letter \in {"b", "U"})
  BY DEF TripletsDecide, Pdu!TripletsDecide
<1> DEFINE limited == \E k \in 1 .. Len(Pdu!Trailing) \div 3 :
                          Pdu!Trailing[3 * k - 1].letter \in {"b", "U"}
<1>1. outcome \in {"Ok", "Usage", "Encode"}
  BY FieldsRead DEF PduInv, PduControl, PduHead
<1>2. CASE outcome = "Usage"
  <2>1. ~Pdu!GoodTrailing \/ (cmd.version # "v1" /\ Pdu!Duplicates)
    BY <1>2 DEF PduInv, PduVerdict
  <2> HIDE DEF limited
  <2> QED BY <1>2, <2>1 DEF limited
<1>3. CASE outcome \in {"Ok", "Encode"}
  <2> DEFINE v == Len(varbinds)
  <2>1. /\ v \in Nat /\ Len(Pdu!Trailing) \div 3 = v /\ Pdu!GoodTrailing /\ AllParsed
        /\ Len(Pdu!Trailing) \in Nat
        /\ \A j \in 1 .. Len(Pdu!Trailing) : Argument(Pdu!Trailing[j])
    BY <1>3, AllGood
  <2>2. ASSUME NEW k \in 1 .. v
        PROVE  /\ varbinds[k][1] = Pdu!TypedOid(k)
               /\ varbinds[k][2][1] \in Pdu!SmiV2Only
                     <=> Pdu!Trailing[3 * k - 1].letter \in {"b", "U"}
    <3>1. k \in 1 .. Len(Pdu!Trailing) \div 3
      BY <2>1
    <3>2. Parsed(k) /\ varbinds[k] = <<OidAt(k)[1], ValueAt(k)[1]>>
      BY <2>1 DEF AllParsed
    <3>3. /\ OidAt(k)[1] = Pdu!TypedOid(k)
          /\ ValueAt(k)[1][1] \in Pdu!SmiV2Only
                <=> Pdu!Trailing[3 * k - 1].letter \in {"b", "U"}
      BY <2>1, <3>1, <3>2, TripletParsed
    <3> QED BY <3>2, <3>3
  <2>3. ~(cmd.version # "v1" /\ Pdu!Duplicates)
    <3> SUFFICES ASSUME cmd.version # "v1", Pdu!Duplicates PROVE FALSE
      OBVIOUS
    <3>1. PICK k \in 1 .. v : Pdu!TypedOid(k) \in ReservedOids
      BY <2>1 DEF Pdu!Duplicates, ReservedOids
    <3>2. varbinds[k][1] \notin ReservedOids
      BY <1>3 DEF PduInv, PduFree, NoneReserved
    <3> QED BY <2>2, <3>1, <3>2
  <2>4. limited <=> \E k \in 1 .. v : varbinds[k][2][1] \in Pdu!SmiV2Only
    BY <2>1, <2>2
  <2>5. CASE outcome = "Encode"
    <3>1. cmd.version = "v1" /\ limited
      <4> HIDE DEF limited
      <4> QED BY <2>4, <2>5 DEF PduInv, PduBuilt
    <3> HIDE DEF limited
    <3> QED BY <2>1, <2>3, <2>5, <3>1 DEF limited
  <2>6. CASE outcome = "Ok"
    <3>1. ASSUME cmd.version = "v1" PROVE ~limited
      <4>1. Len(bindings) = v /\ Pdu!ToBuild = varbinds
        BY <2>6, <3>1, ToBuildIs DEF PduInv, PduControl, PduBuilt
      <4>2. \A k \in 1 .. v : varbinds[k][2][1] \notin Pdu!SmiV2Only
        BY <3>1, <4>1 DEF PduInv, PduBuilt, AllBuilt, Built
      <4> HIDE DEF limited
      <4> QED BY <2>4, <4>2
    <3> HIDE DEF limited
    <3> QED BY <2>1, <2>3, <2>6, <3>1 DEF limited
  <2> QED BY <1>3, <2>5, <2>6
<1> QED BY <1>1, <1>2, <1>3

(* lib.rs:53-129, varbind.rs:97-100: whatever the widths of the integers and the
   command lines, the triplets and nothing else decide between a trap, a usage
   error and a value that SNMPv1 cannot have. *)
THEOREM TripletsDecided == ASpec => []TripletsDecide
<1>1. NoTrap => TripletsDecide
  <2>1. NoTrap => Len(head) = 0 /\ Len(Pdu!Fields) # 0
    BY FieldsRead, EmptySeq DEF NoTrap
  <2> QED BY <2>1 DEF TripletsDecide, Pdu!TripletsDecide
<1>2. PduOrNone => TripletsDecide
  BY <1>1, Decided DEF PduOrNone
<1> QED BY <1>2, PduInvariance, PTL

LEMMA NameOf ==
    ASSUME NEW oid, NEW v
    PROVE  Pdu!Binding(oid, v).name = Pdu!BerOid(oid)
BY DEF Pdu!Binding

(* The two OIDs a v2c and v3 trap begins with come back, and are two. *)
LEMMA AutoOids ==
    /\ Pdu!ReadOid(Pdu!BerOid(Pdu!SYS_UPTIME_OID)) = Pdu!SYS_UPTIME_OID
    /\ Pdu!ReadOid(Pdu!BerOid(Pdu!SNMP_TRAP_OID_OID)) = Pdu!SNMP_TRAP_OID_OID
    /\ Pdu!SYS_UPTIME_OID # Pdu!SNMP_TRAP_OID_OID
<1>1. /\ Pdu!SYS_UPTIME_OID \in Seq(Nat) /\ Len(Pdu!SYS_UPTIME_OID) = 9
      /\ Pdu!SYS_UPTIME_OID[1] = 1 /\ Pdu!SYS_UPTIME_OID[2] = 3
  BY DEF Pdu!SYS_UPTIME_OID
<1>2. /\ Pdu!SNMP_TRAP_OID_OID \in Seq(Nat) /\ Len(Pdu!SNMP_TRAP_OID_OID) = 11
      /\ Pdu!SNMP_TRAP_OID_OID[1] = 1 /\ Pdu!SNMP_TRAP_OID_OID[2] = 3
  BY DEF Pdu!SNMP_TRAP_OID_OID
<1>3. Sequential(Pdu!SYS_UPTIME_OID) /\ Sequential(Pdu!SNMP_TRAP_OID_OID)
  BY <1>1, <1>2, SequentialOf
<1>4. Pdu!ReadOid(Pdu!BerOid(Pdu!SYS_UPTIME_OID)) = Pdu!SYS_UPTIME_OID
  BY <1>1, <1>3, OidRead
<1>5. Pdu!ReadOid(Pdu!BerOid(Pdu!SNMP_TRAP_OID_OID)) = Pdu!SNMP_TRAP_OID_OID
  BY <1>2, <1>3, OidRead
<1>6. Pdu!SYS_UPTIME_OID # Pdu!SNMP_TRAP_OID_OID
  <2> SUFFICES ASSUME Pdu!SYS_UPTIME_OID = Pdu!SNMP_TRAP_OID_OID PROVE FALSE
    OBVIOUS
  <2>1. Len(Pdu!SYS_UPTIME_OID) = Len(Pdu!SNMP_TRAP_OID_OID)
    OBVIOUS
  <2>2. 9 = 11
    BY <1>1, <1>2, <2>1
  <2> QED BY <2>2
<1> QED BY <1>4, <1>5, <1>6

(* A binding of the k-th triplet reads as the k-th triplet. *)
LEMMA TripletRead ==
    ASSUME PduInv, outcome = "Ok", NEW k \in 1 .. Len(varbinds), NEW given,
           given = Pdu!Binding(varbinds[k][1], varbinds[k][2])
    PROVE  /\ Pdu!ReadOid(given.name) = Pdu!TypedOid(k)
           /\ Pdu!ReadOid(given.name) = varbinds[k][1]
           /\ Pdu!ReadsAs(given.value, Pdu!Trailing[3 * k - 1].letter, Pdu!Trailing[3 * k])
<1>1. /\ Len(Pdu!Trailing) \div 3 = Len(varbinds) /\ AllParsed /\ Len(Pdu!Trailing) \in Nat
      /\ \A j \in 1 .. Len(Pdu!Trailing) : Argument(Pdu!Trailing[j])
  BY AllGood
<1>2. k \in 1 .. Len(Pdu!Trailing) \div 3
  BY <1>1
<1>3. Parsed(k) /\ varbinds[k] = <<OidAt(k)[1], ValueAt(k)[1]>>
  BY <1>1 DEF AllParsed
<1>4. /\ OidAt(k)[1] = Pdu!TypedOid(k)
      /\ Pdu!ReadOid(Pdu!BerOid(OidAt(k)[1])) = OidAt(k)[1]
      /\ Pdu!ReadsAs(Pdu!Binding(OidAt(k)[1], ValueAt(k)[1]).value,
                     Pdu!Trailing[3 * k - 1].letter, Pdu!Trailing[3 * k])
  BY <1>1, <1>2, <1>3, TripletParsed
<1>5. varbinds[k][1] = OidAt(k)[1] /\ varbinds[k][2] = ValueAt(k)[1]
  BY <1>3
<1>6. given.name = Pdu!BerOid(OidAt(k)[1])
  BY <1>5, NameOf
<1> QED BY <1>4, <1>5, <1>6

LEMMA AsTyped == PduInv => ReadAsTyped
<1> SUFFICES ASSUME PduInv, outcome = "Ok"
             PROVE  /\ Len(Pdu!Given) = Len(Pdu!Trailing) \div 3
                    /\ \A k \in DOMAIN Pdu!Given :
                           /\ Pdu!ReadOid(Pdu!Given[k].name) = Pdu!TypedOid(k)
                           /\ Pdu!ReadsAs(Pdu!Given[k].value, Pdu!Trailing[3 * k - 1].letter,
                                          Pdu!Trailing[3 * k])
                    /\ Pdu!AutoVarbindsOnce
  BY DEF ReadAsTyped, Pdu!ReadAsTyped, Pdu!TripletsRead, Pdu!AutoVarbindsOnce
<1> DEFINE v == Len(varbinds)
           n == Len(bindings)
<1>1. /\ v \in Nat /\ Len(Pdu!Trailing) \div 3 = v /\ Sequential(varbinds)
      /\ Sequential(bindings) /\ n \in Nat /\ DOMAIN bindings = 1 .. n
      /\ n = Len(Pdu!ToBuild) /\ (cmd.version # "v1" => NoneReserved)
  BY AllGood, Lengths DEF PduInv, PduControl, PduFree, PduBuilt
<1>2. \A k \in 1 .. n : bindings[k] = Pdu!Binding(Pdu!ToBuild[k][1], Pdu!ToBuild[k][2])
  BY DEF PduInv, PduBuilt, AllBuilt, Built
<1>3. /\ Len(Pdu!Given) = v /\ DOMAIN Pdu!Given = 1 .. v
      /\ \A k \in 1 .. v : Pdu!Given[k] = Pdu!Binding(varbinds[k][1], varbinds[k][2])
  <2>1. CASE cmd.version = "v1"
    <3>1. Pdu!Given = bindings /\ Pdu!ToBuild = varbinds
      BY <1>1, <2>1, ToBuildIs DEF Pdu!Given
    <3> QED BY <1>1, <1>2, <3>1
  <2>2. CASE cmd.version # "v1"
    <3>1. /\ n = 2 + v /\ \A k \in 1 .. v : Pdu!ToBuild[2 + k] = varbinds[k]
      BY <1>1, <2>2, ToBuildIs
    <3> DEFINE g == Pdu!Given
               b == bindings
    <3>2. g = SubSeq(b, 3, Len(b))
      BY <2>2 DEF Pdu!Given
    <3>3. Sequential(b) /\ 3 \in Nat /\ 3 >= 1 /\ 3 <= Len(b) + 1
      BY <1>1, <3>1
    <3> HIDE DEF b
    <3>4. /\ Sequential(SubSeq(b, 3, Len(b))) /\ Len(SubSeq(b, 3, Len(b))) = Len(b) - 3 + 1
          /\ \A k \in 1 .. Len(b) - 3 + 1 : SubSeq(b, 3, Len(b))[k] = b[3 + k - 1]
      BY <3>3, Cut
    <3> HIDE DEF g
    <3>5. Len(b) = 2 + v
      BY <3>1 DEF b
    <3>6. Sequential(g) /\ Len(g) = v /\ \A k \in 1 .. v : g[k] = b[2 + k]
      <4> HIDE DEF v
      <4>1. Len(b) - 3 + 1 = v /\ \A k \in 1 .. v : 3 + k - 1 = 2 + k
        BY <1>1, <3>5
      <4> QED BY <3>2, <3>4, <4>1
    <3>7. ASSUME NEW k \in 1 .. v PROVE g[k] = Pdu!Binding(varbinds[k][1], varbinds[k][2])
      <4>1. 2 + k \in 1 .. n
        BY <1>1, <3>1
      <4>2. g[k] = bindings[2 + k]
        BY <3>6 DEF b
      <4> QED BY <1>2, <3>1, <4>1, <4>2
    <3>8. DOMAIN g = 1 .. v
      BY <3>6, Lengths
    <3> QED BY <3>6, <3>7, <3>8 DEF g
  <2> QED BY <2>1, <2>2
<1>4. ASSUME NEW k \in DOMAIN Pdu!Given
      PROVE  /\ Pdu!ReadOid(Pdu!Given[k].name) = Pdu!TypedOid(k)
             /\ Pdu!ReadsAs(Pdu!Given[k].value, Pdu!Trailing[3 * k - 1].letter,
                            Pdu!Trailing[3 * k])
  BY <1>3, TripletRead
<1>5. Pdu!AutoVarbindsOnce
  <2> SUFFICES ASSUME cmd.version # "v1", NEW k \in 1 .. n
               PROVE  /\ (Pdu!ReadOid(bindings[k].name) = Pdu!SYS_UPTIME_OID) = (k = 1)
                      /\ (Pdu!ReadOid(bindings[k].name) = Pdu!SNMP_TRAP_OID_OID) = (k = 2)
    BY <1>1 DEF Pdu!AutoVarbindsOnce
  <2>1. /\ n = 2 + v /\ Pdu!ToBuild[1][1] = Pdu!SYS_UPTIME_OID
        /\ Pdu!ToBuild[2][1] = Pdu!SNMP_TRAP_OID_OID
        /\ \A j \in 1 .. v : Pdu!ToBuild[2 + j] = varbinds[j]
    BY <1>1, ToBuildIs
  <2> DEFINE oid == Pdu!ReadOid(bindings[k].name)
  <2>2. oid = Pdu!ReadOid(Pdu!BerOid(Pdu!ToBuild[k][1]))
    BY <1>2, NameOf
  <2> HIDE DEF oid
  <2>3. CASE k = 1
    <3>1. oid = Pdu!SYS_UPTIME_OID
      BY <2>1, <2>2, <2>3, AutoOids
    <3> QED BY <2>3, <3>1, AutoOids DEF oid
  <2>4. CASE k = 2
    <3>1. oid = Pdu!SNMP_TRAP_OID_OID
      BY <2>1, <2>2, <2>4, AutoOids
    <3> QED BY <2>4, <3>1, AutoOids DEF oid
  <2>5. CASE k \notin {1, 2}
    <3>1. PICK j \in 1 .. v : k = 2 + j
      <4>1. k - 2 \in 1 .. v /\ k = 2 + (k - 2)
        BY <1>1, <2>1, <2>5
      <4> QED BY <4>1
    <3>2. bindings[k] = Pdu!Binding(varbinds[j][1], varbinds[j][2])
      BY <1>2, <2>1, <3>1
    <3>3. oid = varbinds[j][1]
      BY <3>2, TripletRead DEF oid
    <3>4. oid \notin ReservedOids
      BY <1>1, <3>3 DEF NoneReserved
    <3> QED BY <2>5, <3>4 DEF ReservedOids, oid
  <2> QED BY <2>3, <2>4, <2>5
<1> QED BY <1>1, <1>3, <1>4, <1>5

(* varbind.rs:27-76, 158-187, pdu.rs:38-51, 85-176: what a receiver reads of a trap
   is what was typed, of every triplet and in their order, and sysUpTime.0 and
   snmpTrapOID.0 are where they belong and nowhere else. *)
THEOREM TrapReadAsTyped == ASpec => []ReadAsTyped
<1>1. NoTrap => ReadAsTyped
  <2>1. NoTrap => outcome # "Ok"
    BY DEF NoTrap
  <2> QED BY <2>1 DEF ReadAsTyped, Pdu!ReadAsTyped, Pdu!TripletsRead, Pdu!AutoVarbindsOnce
<1>2. PduOrNone => ReadAsTyped
  BY <1>1, AsTyped DEF PduOrNone
<1> QED BY <1>2, PduInvariance, PTL

-------------------------------------------------------------------------------
(* AgentText.  What is left of the text without udp: is a host and what a port adds
   to it, exactly when there is a way to read the text. *)

LEMMA SameSequence ==
    ASSUME NEW s, Sequential(s), NEW t, Sequential(t), Len(s) = Len(t),
           \A k \in 1 .. Len(s) : s[k] = t[k]
    PROVE  s = t
<1> DEFINE T == {s[k] : k \in DOMAIN s} \cup {t[k] : k \in DOMAIN t}
<1>1. s \in Seq(T) /\ t \in Seq(T)
  BY SeqMonotonic DEF Sequential
<1> HIDE DEF T
<1> QED BY <1>1, SeqEqual

LEMMA Associative ==
    ASSUME NEW s, Sequential(s), NEW t, Sequential(t), NEW u, Sequential(u)
    PROVE  (s \o t) \o u = s \o (t \o u)
<1> DEFINE T == {s[k] : k \in DOMAIN s} \cup {t[k] : k \in DOMAIN t} \cup {u[k] : k \in DOMAIN u}
<1>1. s \in Seq(T) /\ t \in Seq(T) /\ u \in Seq(T)
  BY SeqMonotonic DEF Sequential
<1> HIDE DEF T
<1> QED BY <1>1, ConcatAssociative

LEMMA WithNothing ==
    ASSUME NEW s, Sequential(s)
    PROVE  s \o << >> = s
BY ConcatEmptySeq DEF Sequential

LEMMA Slice ==
    ASSUME NEW s, Sequential(s), NEW a \in Nat, NEW b \in Nat, a >= 1, a <= b, b <= Len(s)
    PROVE  /\ Sequential(SubSeq(s, a, b)) /\ Len(SubSeq(s, a, b)) = b - a + 1
           /\ \A k \in 1 .. b - a + 1 : SubSeq(s, a, b)[k] = s[a + k - 1]
<1> DEFINE T == {s[k] : k \in DOMAIN s}
<1>1. Len(s) \in Nat /\ DOMAIN s = 1 .. Len(s)
  BY Lengths
<1>2. \A k \in a .. b : s[k] \in T
  BY <1>1
<1> HIDE DEF T
<1>3. /\ SubSeq(s, a, b) \in Seq(T) /\ Len(SubSeq(s, a, b)) = (IF a <= b THEN b - a + 1 ELSE 0)
      /\ \A k \in 1 .. b - a + 1 : SubSeq(s, a, b)[k] = s[a + k - 1]
  BY <1>2, SubSeqProperties
<1> QED BY <1>3, SequentialOf

Udp == <<"udp", ":">>

(* What a port adds to a host. *)
Added(port) == IF port = AgentArg!DEFAULT_TRAP_PORT THEN << >> ELSE <<":", port>>

IsHost(h) == Sequential(h) /\ AgentArg!IsName(h) /\ h[1] # "["

AnyPort == Ports \cup {AgentArg!DEFAULT_TRAP_PORT}

LEMMA UdpIs == Sequential(Udp) /\ Len(Udp) = 2 /\ Udp[1] = "udp" /\ Udp[2] = ":"
<1>1. Udp \in Seq({"udp", ":"}) /\ Len(Udp) = 2 /\ Udp[1] = "udp" /\ Udp[2] = ":"
  BY DEF Udp
<1> QED BY <1>1, SequentialOf

LEMMA AddedIs ==
    ASSUME NEW port
    PROVE  /\ Sequential(Added(port))
           /\ port = AgentArg!DEFAULT_TRAP_PORT => Added(port) = << >> /\ Len(Added(port)) = 0
           /\ port # AgentArg!DEFAULT_TRAP_PORT =>
                  /\ Added(port) = <<":", port>> /\ Len(Added(port)) = 2
                  /\ Added(port)[1] = ":" /\ Added(port)[2] = port
<1>1. CASE port = AgentArg!DEFAULT_TRAP_PORT
  <2>1. Added(port) = << >>
    BY <1>1 DEF Added
  <2> QED BY <1>1, <2>1, EmptySeq, SequentialOf
<1>2. CASE port # AgentArg!DEFAULT_TRAP_PORT
  <2>1. Added(port) = <<":", port>>
    BY <1>2 DEF Added
  <2>2. <<":", port>> \in Seq({":", port}) /\ Len(<<":", port>>) = 2
    OBVIOUS
  <2>3. Sequential(<<":", port>>)
    BY <2>2, SequentialOf
  <2> QED BY <1>2, <2>1, <2>2, <2>3
<1> QED BY <1>1, <1>2

LEMMA FormsAre ==
    ASSUME NEW h, NEW port
    PROVE  AgentArg!Forms(h, port) = {h \o Added(port), (Udp \o h) \o Added(port)}
BY DEF AgentArg!Forms, Added, Udp

(* strip_prefix takes udp: and nothing else. *)
LEMMA StrippedIs ==
    ASSUME Sequential(agent)
    PROVE  /\ Sequential(AgentArg!stripped)
           /\ agent = AgentArg!stripped \/ agent = Udp \o AgentArg!stripped
           /\ ~(Len(agent) >= 2 /\ agent[1] = "udp" /\ agent[2] = ":") => agent = AgentArg!stripped
           /\ (Len(agent) >= 2 /\ agent[1] = "udp" /\ agent[2] = ":") =>
                  /\ AgentArg!stripped = SubSeq(agent, 3, Len(agent))
                  /\ Len(AgentArg!stripped) = Len(agent) - 2
                  /\ \A k \in 1 .. Len(agent) - 2 : AgentArg!stripped[k] = agent[k + 2]
<1> DEFINE a == agent
           n == Len(a)
           prefixed == n >= 2 /\ a[1] = "udp" /\ a[2] = ":"
<1>1. Sequential(a) /\ n \in Nat /\ DOMAIN a = 1 .. n
  BY Lengths
<1> HIDE DEF a
<1>2. AgentArg!IsPrefix(Udp, a) <=> prefixed
  <2>1. AgentArg!IsPrefix(Udp, a) <=> (2 <= n /\ SubSeq(Udp, 1, 2) = SubSeq(a, 1, 2))
    BY UdpIs DEF AgentArg!IsPrefix
  <2>2. ASSUME n >= 2 PROVE (SubSeq(Udp, 1, 2) = SubSeq(a, 1, 2)) <=> (a[1] = "udp" /\ a[2] = ":")
    <3> DEFINE x == SubSeq(Udp, 1, 2)
               y == SubSeq(a, 1, 2)
    <3>1. 1 \in Nat /\ 2 \in Nat /\ 1 >= 1 /\ 1 <= 2 /\ 2 <= Len(Udp) /\ 2 <= Len(a)
      BY <1>1, <2>2, UdpIs
    <3>2. Sequential(x) /\ Len(x) = 2 - 1 + 1 /\ \A k \in 1 .. 2 - 1 + 1 : x[k] = Udp[1 + k - 1]
      BY <3>1, UdpIs, Slice
    <3>3. Sequential(y) /\ Len(y) = 2 - 1 + 1 /\ \A k \in 1 .. 2 - 1 + 1 : y[k] = a[1 + k - 1]
      BY <1>1, <3>1, Slice
    <3> HIDE DEF x, y
    <3>4. Len(x) = 2 /\ Len(y) = 2 /\ x[1] = "udp" /\ x[2] = ":" /\ y[1] = a[1] /\ y[2] = a[2]
      BY <3>2, <3>3, UdpIs
    <3>5. ASSUME a[1] = "udp", a[2] = ":" PROVE x = y
      <4>1. \A k \in 1 .. Len(x) : x[k] = y[k]
        <5>1. \A k \in 1 .. Len(x) : k = 1 \/ k = 2
          BY <3>4
        <5> QED BY <3>4, <3>5, <5>1
      <4> QED BY <3>2, <3>3, <3>4, <4>1, SameSequence
    <3>6. (x = y) <=> (a[1] = "udp" /\ a[2] = ":")
      BY <3>4, <3>5
    <3> QED BY <3>6 DEF x, y
  <2> HIDE DEF n
  <2> QED BY <1>1, <2>1, <2>2
<1>3. AgentArg!stripped = IF prefixed THEN SubSeq(a, 3, n) ELSE a
  BY <1>2 DEF AgentArg!stripped, Udp, a
<1> DEFINE r == SubSeq(a, 3, Len(a))
<1>4. ASSUME prefixed
      PROVE  /\ Sequential(r) /\ Len(r) = n - 2 /\ \A k \in 1 .. n - 2 : r[k] = a[k + 2]
             /\ a = Udp \o r
  <2>1. 3 \in Nat /\ 3 >= 1 /\ 3 <= Len(a) + 1
    BY <1>1, <1>4
  <2>2. /\ Sequential(r) /\ Len(r) = Len(a) - 3 + 1
        /\ \A k \in 1 .. Len(a) - 3 + 1 : r[k] = a[3 + k - 1]
    BY <1>1, <2>1, Cut
  <2> HIDE DEF r
  <2>3. Len(a) - 3 + 1 = n - 2 /\ \A k \in 1 .. n - 2 : 3 + k - 1 = k + 2
    BY <1>1
  <2>4. Sequential(r) /\ Len(r) = n - 2 /\ \A k \in 1 .. n - 2 : r[k] = a[k + 2]
    BY <2>2, <2>3
  <2> DEFINE c == Udp \o r
  <2>5. /\ Sequential(c) /\ Len(c) = 2 + Len(r)
        /\ \A k \in 1 .. 2 : c[k] = Udp[k]
        /\ \A k \in 1 .. Len(r) : c[2 + k] = r[k]
    <3>1. /\ Sequential(c) /\ Len(c) = Len(Udp) + Len(r)
          /\ \A k \in 1 .. Len(Udp) : c[k] = Udp[k]
          /\ \A k \in 1 .. Len(r) : c[Len(Udp) + k] = r[k]
      <4>1. Sequential(Udp) /\ Sequential(r)
        BY <2>4, UdpIs
      <4> QED BY ONLY <4>1, Concatenated
    <3> QED BY <3>1, UdpIs
  <2> HIDE DEF c
  <2>6. Len(c) = n
    <3> HIDE DEF n
    <3> QED BY <1>1, <2>4, <2>5
  <2>7. ASSUME NEW k \in 1 .. Len(a) PROVE a[k] = c[k]
    <3>1. k = 1 \/ k = 2 \/ (k - 2 \in 1 .. n - 2 /\ 2 + (k - 2) = k /\ (k - 2) + 2 = k)
      BY <1>1, <2>7
    <3>2. CASE k \in {1, 2}
      BY <1>4, <2>5, <3>2, UdpIs
    <3>3. CASE k - 2 \in 1 .. n - 2 /\ 2 + (k - 2) = k /\ (k - 2) + 2 = k
      BY <2>4, <2>5, <3>3
    <3> QED BY <3>1, <3>2, <3>3
  <2>8. a = c
    BY <1>1, <2>5, <2>6, <2>7, SameSequence
  <2> QED BY <2>4, <2>8 DEF c
<1> HIDE DEF r
<1>5. CASE prefixed
  BY <1>3, <1>4, <1>5 DEF a, r
<1>6. CASE ~prefixed
  BY <1>1, <1>3, <1>6 DEF a
<1> QED BY <1>5, <1>6

LEMMA PortsAre ==
    ASSUME NEW port \in Ports
    PROVE  port # ":" /\ port # "[" /\ port # AgentArg!DEFAULT_TRAP_PORT
BY AgentAssumption

LEMMA HostIs ==
    ASSUME NEW h, IsHost(h)
    PROVE  /\ Sequential(h) /\ Len(h) \in Nat /\ Len(h) >= 1 /\ DOMAIN h = 1 .. Len(h)
           /\ h[1] # "[" /\ \A k \in 1 .. Len(h) : h[k] # ":"
<1>1. Sequential(h) /\ Len(h) \in Nat /\ DOMAIN h = 1 .. Len(h) /\ h # << >>
  BY Lengths DEF IsHost, AgentArg!IsName
<1>2. Len(h) # 0
  BY <1>1, EmptySeq DEF Sequential
<1>3. \A k \in DOMAIN h : h[k] # ":"
  BY DEF IsHost, AgentArg!IsName, AgentArg!Colons
<1> QED BY <1>1, <1>2, <1>3 DEF IsHost

(* The parts of a text made of a host and a port. *)
JoinedOf(s, h, t) ==
    /\ Sequential(s) /\ Len(s) = Len(h) + Len(t)
    /\ \A k \in 1 .. Len(h) : s[k] = h[k]
    /\ \A k \in 1 .. Len(t) : s[Len(h) + k] = t[k]

PartsOf(s, h, port) ==
    /\ Sequential(s) /\ Len(s) = Len(h) + Len(Added(port))
    /\ \A k \in 1 .. Len(h) : s[k] = h[k]
    /\ \A k \in 1 .. Len(Added(port)) : s[Len(h) + k] = Added(port)[k]

LEMMA JoinedIs ==
    ASSUME NEW h, Sequential(h), NEW t, Sequential(t)
    PROVE  JoinedOf(h \o t, h, t)
<1>1. Sequential(h \o t) /\ Len(h \o t) = Len(h) + Len(t)
  BY Concatenated
<1>2. \A k \in 1 .. Len(h) : (h \o t)[k] = h[k]
  BY Concatenated
<1>3. \A k \in 1 .. Len(t) : (h \o t)[Len(h) + k] = t[k]
  BY Concatenated
<1> QED BY <1>1, <1>2, <1>3, Zenon DEF JoinedOf

LEMMA Parts ==
    ASSUME NEW h, IsHost(h), NEW port
    PROVE  PartsOf(h \o Added(port), h, port)
<1>1. Sequential(h) /\ Sequential(Added(port))
  BY HostIs, AddedIs
<1>2. JoinedOf(h \o Added(port), h, Added(port))
  BY <1>1, JoinedIs
<1> QED BY <1>2, Zenon DEF PartsOf, JoinedOf

(* What the code finds in such a text. *)
LEMMA PartsFound ==
    ASSUME NEW h, IsHost(h), NEW port \in AnyPort, NEW s, s = h \o Added(port)
    PROVE  /\ ~AgentArg!looks_like_ipv6(s)
           /\ AgentArg!Colons(s) = IF port = AgentArg!DEFAULT_TRAP_PORT THEN {} ELSE {Len(h) + 1}
<1>1. /\ Sequential(s) /\ Len(s) = Len(h) + Len(Added(port))
      /\ \A k \in 1 .. Len(h) : s[k] = h[k]
      /\ \A k \in 1 .. Len(Added(port)) : s[Len(h) + k] = Added(port)[k]
  <2>1. PartsOf(s, h, port)
    BY Parts
  <2> QED BY <2>1 DEF PartsOf
<1>2. /\ Len(h) \in Nat /\ Len(h) >= 1 /\ h[1] # "[" /\ \A k \in 1 .. Len(h) : h[k] # ":"
  BY HostIs
<1>3. DOMAIN s = 1 .. Len(s)
  BY <1>1, Lengths
<1>4. AgentArg!Colons(s) = IF port = AgentArg!DEFAULT_TRAP_PORT THEN {} ELSE {Len(h) + 1}
  <2>1. CASE port = AgentArg!DEFAULT_TRAP_PORT
    <3>1. Len(s) = Len(h)
      BY <1>1, <1>2, <2>1, AddedIs
    <3>2. \A k \in DOMAIN s : s[k] # ":"
      BY <1>1, <1>2, <1>3, <3>1
    <3> QED BY <2>1, <3>2 DEF AgentArg!Colons
  <2>2. CASE port # AgentArg!DEFAULT_TRAP_PORT
    <3>1. /\ port # ":" /\ Len(s) = Len(h) + 2
          /\ s[Len(h) + 1] = ":" /\ s[Len(h) + 2] = port
      <4>1. port # ":"
        BY <2>2, PortsAre DEF AnyPort
      <4>2. Len(Added(port)) = 2 /\ Added(port)[1] = ":" /\ Added(port)[2] = port
        BY <2>2, AddedIs
      <4> QED BY <1>1, <1>2, <4>1, <4>2
    <3> DEFINE m == Len(h)
    <3>2. /\ m \in Nat /\ DOMAIN s = 1 .. m + 2 /\ s[m + 1] = ":" /\ s[m + 2] # ":"
          /\ \A k \in 1 .. m : s[k] # ":"
      BY <1>1, <1>2, <1>3, <3>1
    <3> HIDE DEF m
    <3>3. \A k \in DOMAIN s : s[k] = ":" <=> k = m + 1
      <4> TAKE k \in DOMAIN s
      <4>1. k \in 1 .. m \/ k = m + 1 \/ k = m + 2
        BY <3>2
      <4>2. k \in 1 .. m => k # m + 1
        BY <3>2
      <4>3. m + 2 # m + 1
        BY <3>2
      <4> QED BY <3>2, <4>1, <4>2, <4>3
    <3>4. m + 1 \in DOMAIN s
      BY <3>2
    <3>5. AgentArg!Colons(s) = {m + 1}
      BY <3>3, <3>4 DEF AgentArg!Colons
    <3> QED BY <2>2, <3>5 DEF m
  <2> QED BY <2>1, <2>2
<1>5. ~(s # << >> /\ s[1] = "[")
  BY <1>1, <1>2
<1>6. ~ \E i, j \in AgentArg!Colons(s) : i # j
  BY <1>4
<1> QED BY <1>4, <1>5, <1>6 DEF AgentArg!looks_like_ipv6

(* A way to read what is left without udp: is a way to read the text. *)
LEMMA IsReading ==
    ASSUME Sequential(agent), NEW h, IsHost(h), NEW port \in AnyPort,
           AgentArg!stripped = h \o Added(port)
    PROVE  [host |-> h, port |-> port] \in AgentArg!Readings
<1> DEFINE s == AgentArg!stripped
           m == Len(h)
<1>1. /\ Sequential(s) /\ Len(s) = m + Len(Added(port)) /\ \A k \in 1 .. m : s[k] = h[k]
  <2>1. PartsOf(s, h, port)
    BY Parts
  <2> QED BY <2>1 DEF PartsOf
<1>2. Sequential(h) /\ m \in Nat /\ m >= 1 /\ Sequential(Added(port)) /\ Len(Added(port)) \in Nat
  BY HostIs, AddedIs, Lengths
<1>3. (Udp \o h) \o Added(port) = Udp \o s
  <2>1. Sequential(Udp)
    BY UdpIs
  <2> QED BY <1>2, <2>1, Associative
<1>4. agent \in AgentArg!Forms(h, port)
  BY <1>3, StrippedIs, FormsAre
<1>5. h \in AgentArg!Hosts
  <2>1. ASSUME NEW d \in {0, 2}, Len(agent) = d + Len(s),
               \A k \in 1 .. Len(s) : agent[d + k] = s[k]
        PROVE  h \in AgentArg!Hosts
    <3> DEFINE n == Len(agent)
               x == SubSeq(agent, d + 1, d + m)
    <3> HIDE DEF s, m
    <3>1. /\ d + 1 \in Nat /\ d + m \in Nat /\ d + 1 >= 1 /\ d + 1 <= d + m /\ d + m <= n
          /\ d + 1 \in 1 .. n /\ d + m \in 1 .. n /\ (d + m) - (d + 1) + 1 = m
          /\ \A k \in 1 .. m : (d + 1) + k - 1 = d + k /\ k \in 1 .. Len(s)
      BY <1>1, <1>2, <2>1
    <3>2. /\ Sequential(x) /\ Len(x) = (d + m) - (d + 1) + 1
          /\ \A k \in 1 .. (d + m) - (d + 1) + 1 : x[k] = agent[(d + 1) + k - 1]
      BY <3>1, Slice
    <3> HIDE DEF x
    <3>3. Len(x) = m /\ \A k \in 1 .. m : x[k] = h[k]
      BY <1>1, <2>1, <3>1, <3>2
    <3>4. x = h
      BY <1>2, <3>2, <3>3, SameSequence DEF m
    <3> QED BY <3>1, <3>4 DEF x, AgentArg!Hosts
  <2>2. CASE agent = s
    <3>1. Len(agent) = 0 + Len(s) /\ \A k \in 1 .. Len(s) : agent[0 + k] = s[k]
      <4>1. Len(s) \in Nat
        BY <1>1, Lengths
      <4> HIDE DEF s
      <4> QED BY <2>2, <4>1
    <3>2. 0 \in {0, 2}
      OBVIOUS
    <3> HIDE DEF s
    <3> QED BY <2>1, <3>1, <3>2
  <2>3. CASE agent = Udp \o s
    <3> HIDE DEF s
    <3>1. Sequential(Udp) /\ Sequential(s)
      BY <1>1, UdpIs
    <3>2. /\ Len(Udp \o s) = Len(Udp) + Len(s)
          /\ \A k \in 1 .. Len(s) : (Udp \o s)[Len(Udp) + k] = s[k]
      BY ONLY <3>1, Concatenated
    <3>3. Len(agent) = 2 + Len(s) /\ \A k \in 1 .. Len(s) : agent[2 + k] = s[k]
      BY <2>3, <3>2, UdpIs
    <3>4. 2 \in {0, 2}
      OBVIOUS
    <3> QED BY <2>1, <3>3, <3>4
  <2> QED BY <2>2, <2>3, StrippedIs
<1>6. AgentArg!IsName(h) /\ h[1] # "["
  BY DEF IsHost
<1> QED BY <1>4, <1>5, <1>6 DEF AgentArg!Readings, AnyPort

(* And if there is a way to read the text, there is one to read what is left. *)
LEMMA Readable ==
    ASSUME Sequential(agent), AgentArg!Readings # {}
    PROVE  \E h : \E port \in AnyPort : IsHost(h) /\ AgentArg!stripped = h \o Added(port)
<1> DEFINE s == AgentArg!stripped
           prefixed == Len(agent) >= 2 /\ agent[1] = "udp" /\ agent[2] = ":"
<1>1. PICK r \in AgentArg!Readings : TRUE
  OBVIOUS
<1> DEFINE h == r.host
           port == r.port
<1>2. /\ h \in AgentArg!Hosts /\ port \in AnyPort /\ AgentArg!IsName(h) /\ h[1] # "["
      /\ agent \in AgentArg!Forms(h, port)
  BY DEF AgentArg!Readings, AnyPort
<1> HIDE DEF h, port
<1>3. IsHost(h)
  <2>1. PICK i, j \in 1 .. Len(agent) : h = SubSeq(agent, i, j)
    BY <1>2 DEF AgentArg!Hosts
  <2> DEFINE n == Len(agent)
  <2>2. n \in Nat
    BY Lengths
  <2>3. i <= j
    <3> SUFFICES ASSUME ~(i <= j) PROVE FALSE
      OBVIOUS
    <3>1. i \in Int /\ j \in Int /\ j < i
      BY <2>2
    <3>2. h = << >>
      BY <2>1, <3>1, SubSeqEmpty
    <3> QED BY <1>2, <3>2 DEF AgentArg!IsName
  <2>4. i \in Nat /\ j \in Nat /\ i >= 1 /\ j <= n
    BY <2>2
  <2>5. Sequential(h)
    BY <2>1, <2>3, <2>4, Slice
  <2> QED BY <1>2, <2>5 DEF IsHost
<1>4. Sequential(h) /\ Sequential(Added(port)) /\ Sequential(Udp)
  BY <1>3, HostIs, AddedIs, UdpIs
<1> DEFINE t == h \o Added(port)
<1>5. /\ Sequential(t) /\ Len(t) = Len(h) + Len(Added(port)) /\ Len(t) \in Nat
      /\ \A k \in 1 .. Len(h) : t[k] = h[k]
      /\ \A k \in 1 .. Len(Added(port)) : t[Len(h) + k] = Added(port)[k]
  <2>1. PartsOf(t, h, port)
    BY <1>3, Parts
  <2> HIDE DEF t
  <2> QED BY <2>1, Lengths DEF PartsOf
<1>6. agent = t \/ agent = Udp \o t
  <2>1. (Udp \o h) \o Added(port) = Udp \o t
    BY <1>4, Associative
  <2> QED BY <1>2, <2>1, FormsAre
<1> HIDE DEF t, s
<1>7. CASE agent = Udp \o t
  <2>1. /\ Len(Udp \o t) = Len(Udp) + Len(t)
        /\ \A k \in 1 .. Len(Udp) : (Udp \o t)[k] = Udp[k]
        /\ \A k \in 1 .. Len(t) : (Udp \o t)[Len(Udp) + k] = t[k]
    <3>1. Sequential(Udp) /\ Sequential(t)
      BY <1>4, <1>5
    <3> QED BY <3>1, Concatenated
  <2>2. /\ Len(agent) = 2 + Len(t) /\ agent[1] = "udp" /\ agent[2] = ":"
        /\ \A k \in 1 .. Len(t) : agent[2 + k] = t[k]
    BY <1>7, <2>1, UdpIs
  <2>3. prefixed /\ Len(agent) - 2 = Len(t)
    BY <1>5, <2>2
  <2>4. /\ Sequential(s) /\ Len(s) = Len(agent) - 2
        /\ \A k \in 1 .. Len(agent) - 2 : s[k] = agent[k + 2]
    BY <2>3, StrippedIs DEF s
  <2>5. Len(s) = Len(t) /\ \A k \in 1 .. Len(t) : s[k] = agent[k + 2]
    BY <2>3, <2>4
  <2>6. \A k \in 1 .. Len(t) : k + 2 = 2 + k
    BY <1>5
  <2>7. \A k \in 1 .. Len(s) : s[k] = t[k]
    BY <2>2, <2>5, <2>6
  <2>8. s = t
    BY <1>5, <2>4, <2>5, <2>7, SameSequence
  <2> QED BY <1>2, <1>3, <2>8 DEF t, s
<1>8. CASE agent = t /\ ~prefixed
  <2>1. s = t
    BY <1>8, StrippedIs DEF s
  <2> QED BY <1>2, <1>3, <2>1 DEF t, s
<1>9. CASE agent = t /\ prefixed
  <2>1. Len(h) \in Nat /\ Len(h) >= 1 /\ \A k \in 1 .. Len(h) : h[k] # ":"
    BY <1>3, HostIs
  <2>2. Len(h) = 1
    <3>1. 2 \in 1 .. Len(h) => h[2] = ":"
      BY <1>5, <1>9
    <3> DEFINE m == Len(h)
    <3>2. m \in Nat /\ m >= 1 /\ 2 \notin 1 .. m
      BY <2>1, <3>1
    <3> HIDE DEF m
    <3>3. m = 1
      BY <3>2
    <3> QED BY <3>3 DEF m
  <2>3. port # AgentArg!DEFAULT_TRAP_PORT
    BY <1>5, <1>9, <2>2, AddedIs
  <2>4. port \in Ports /\ Len(t) = 3 /\ t[3] = port
    <3>1. Len(Added(port)) = 2 /\ Added(port)[2] = port
      BY <2>3, AddedIs
    <3>2. t[1 + 2] = port
      BY <1>5, <2>2, <3>1
    <3> QED BY <1>2, <1>5, <2>2, <2>3, <3>1, <3>2 DEF AnyPort
  <2>5. /\ Sequential(s) /\ Len(s) = Len(agent) - 2
        /\ \A k \in 1 .. Len(agent) - 2 : s[k] = agent[k + 2]
    BY <1>9, StrippedIs DEF s
  <2>6. Len(s) = 1 /\ s[1] = port
    <3>1. Len(agent) = 3 /\ agent[1 + 2] = port
      BY <1>9, <2>4
    <3>2. 1 \in 1 .. Len(agent) - 2
      BY <3>1
    <3>3. s[1] = agent[1 + 2]
      BY <2>5, <3>2
    <3> QED BY <2>5, <3>1, <3>3
  <2>7. IsHost(s)
    <3>1. DOMAIN s = 1 .. 1
      BY <2>5, <2>6, Lengths
    <3>2. s # << >>
      BY <2>6, EmptySeq
    <3>3. port # ":" /\ port # "["
      BY <2>4, PortsAre
    <3>4. AgentArg!Colons(s) = {}
      <4>1. \A k \in DOMAIN s : s[k] # ":"
        BY <2>6, <3>1, <3>3
      <4> QED BY <4>1 DEF AgentArg!Colons
    <3> QED BY <2>5, <2>6, <3>2, <3>3, <3>4 DEF IsHost, AgentArg!IsName
  <2>8. s = s \o Added(AgentArg!DEFAULT_TRAP_PORT)
    BY <2>5, AddedIs, WithNothing
  <2>9. AgentArg!DEFAULT_TRAP_PORT \in AnyPort
    BY DEF AnyPort
  <2> QED BY <2>7, <2>8, <2>9 DEF s
<1> QED BY <1>6, <1>7, <1>8, <1>9

LEMMA FirstOf ==
    ASSUME NEW T, T \subseteq Nat, T # {}
    PROVE  AgentArg!Min(T) \in T /\ \A k \in T : AgentArg!Min(T) <= k
<1>1. \E x \in T : \A y \in T : x <= y
  BY LeastNumber
<1> QED BY <1>1, Zenon DEF AgentArg!Min

LEMMA OnlyColon ==
    ASSUME NEW s, Sequential(s), AgentArg!HasPort(s)
    PROVE  \E k \in 2 .. Len(s) : /\ AgentArg!Max(AgentArg!Colons(s)) = k
                                 /\ AgentArg!Colons(s) = {k} /\ s[k] = ":"
<1> DEFINE k == AgentArg!Max(AgentArg!Colons(s))
           n == Len(s)
<1>1. AgentArg!Colons(s) # {} /\ k > 1 /\ \A i \in AgentArg!Colons(s) : i = k
  BY DEF AgentArg!HasPort
<1> HIDE DEF k
<1>2. AgentArg!Colons(s) = {k} /\ k \in DOMAIN s /\ s[k] = ":"
  BY <1>1 DEF AgentArg!Colons
<1>3. DOMAIN s = 1 .. n /\ n \in Nat
  BY Lengths
<1> HIDE DEF n
<1>4. k \in 2 .. n
  BY <1>1, <1>2, <1>3
<1> QED BY <1>2, <1>4 DEF k, n

(* A text split at its colon, with a port after it. *)
LEMMA SplitAtColon ==
    ASSUME NEW s, Sequential(s), ~AgentArg!looks_like_ipv6(s),
           NEW k \in 2 .. Len(s), AgentArg!Colons(s) = {k}, s[k] = ":",
           NEW p, p = SubSeq(s, k + 1, Len(s)), Len(p) = 1, p[1] \in Ports
    PROVE  IsHost(SubSeq(s, 1, k - 1)) /\ s = SubSeq(s, 1, k - 1) \o Added(p[1])
<1> DEFINE n == Len(s)
           m == k - 1
           h == SubSeq(s, 1, m)
<1>1. DOMAIN s = 1 .. n /\ n \in Nat /\ k \in 2 .. n
  BY Lengths
<1> HIDE DEF n
<1>2. m \in Nat /\ m >= 1 /\ k = m + 1 /\ m + 1 <= n
  BY <1>1
<1> HIDE DEF m, h
<1>3. n = m + 2 /\ s[m + 2] = p[1]
  <2>1. k + 1 \in Nat /\ k + 1 >= 1 /\ k + 1 <= n + 1
    BY <1>1, <1>2
  <2>2. Len(p) = n - (k + 1) + 1 /\ \A j \in 1 .. n - (k + 1) + 1 : p[j] = s[(k + 1) + j - 1]
    BY <2>1, Cut DEF n
  <2>3. n = m + 2 /\ n - (k + 1) + 1 = 1 /\ (k + 1) + 1 - 1 = m + 2
    BY <1>1, <1>2, <2>2
  <2>4. 1 \in 1 .. n - (k + 1) + 1
    BY <2>3
  <2>5. p[1] = s[(k + 1) + 1 - 1]
    BY <2>2, <2>4
  <2> QED BY <2>3, <2>5
<1>4. Sequential(h) /\ Len(h) = m /\ \A j \in 1 .. m : h[j] = s[j]
  <2>1. 1 \in Nat /\ 1 >= 1 /\ 1 <= m /\ m <= n
    BY <1>1, <1>2
  <2>2. Sequential(h) /\ Len(h) = m - 1 + 1 /\ \A j \in 1 .. m - 1 + 1 : h[j] = s[1 + j - 1]
    BY <1>2, <2>1, Slice DEF n, h
  <2>3. m - 1 + 1 = m /\ \A j \in 1 .. m : 1 + j - 1 = j
    BY <1>2
  <2> QED BY <2>2, <2>3
<1>5. IsHost(h)
  <2>1. DOMAIN h = 1 .. m /\ 1 \in 1 .. m
    BY <1>2, <1>4, Lengths
  <2>2. h # << >>
    BY <1>2, <1>4, EmptySeq
  <2>3. AgentArg!Colons(h) = {}
    <3>1. \A j \in 1 .. m : j \in 1 .. n /\ j # k
      BY <1>2, <1>3
    <3>2. ASSUME NEW j \in DOMAIN h PROVE h[j] # ":"
      <4>1. j \in DOMAIN s /\ j # k /\ h[j] = s[j]
        BY <1>1, <1>4, <2>1, <3>1
      <4> QED BY <4>1 DEF AgentArg!Colons
    <3> QED BY <3>2 DEF AgentArg!Colons
  <2>4. s # << >>
    BY <1>2, <1>3, EmptySeq DEF n
  <2>5. h[1] # "["
    BY <1>4, <2>1, <2>4 DEF AgentArg!looks_like_ipv6
  <2> QED BY <1>4, <2>2, <2>3, <2>5 DEF IsHost, AgentArg!IsName
<1>6. s = h \o Added(p[1])
  <2> DEFINE c == h \o Added(p[1])
  <2>1. PartsOf(c, h, p[1])
    BY <1>5, Parts
  <2> HIDE DEF c
  <2>2. Len(Added(p[1])) = 2 /\ Added(p[1])[1] = ":" /\ Added(p[1])[2] = p[1]
    BY PortsAre, AddedIs
  <2>3. Sequential(c) /\ Len(c) = n /\ \A j \in 1 .. m : c[j] = h[j]
    BY <1>3, <1>4, <2>1, <2>2 DEF PartsOf
  <2>4. c[m + 1] = ":" /\ c[m + 2] = p[1]
    <3>1. 1 \in 1 .. Len(Added(p[1])) /\ 2 \in 1 .. Len(Added(p[1]))
      BY <2>2
    <3> QED BY <1>4, <2>1, <2>2, <3>1 DEF PartsOf
  <2>5. ASSUME NEW j \in 1 .. n PROVE s[j] = c[j]
    <3>1. j \in 1 .. m \/ j = m + 1 \/ j = m + 2
      BY <1>2, <1>3, <2>5
    <3> QED BY <1>2, <1>3, <1>4, <2>3, <2>4, <3>1
  <2>6. s = c
    BY <2>3, <2>5, SameSequence DEF n
  <2> QED BY <2>6 DEF c
<1> QED BY <1>5, <1>6 DEF h, m

(* And a text of a host and a port is split so. *)
LEMMA SplitIsThere ==
    ASSUME NEW h, IsHost(h), NEW port \in AnyPort, NEW s, s = h \o Added(port),
           NEW k \in 2 .. Len(s), AgentArg!Colons(s) = {k},
           NEW p, p = SubSeq(s, k + 1, Len(s))
    PROVE  Len(p) = 1 /\ p[1] \in Ports
<1>1. PartsOf(s, h, port)
  BY Parts
<1>2. Sequential(s) /\ Len(h) \in Nat
  BY <1>1, HostIs DEF PartsOf
<1>3. k \in 2 .. Len(s) /\ AgentArg!Colons(s) = {k}
  OBVIOUS
<1>4. port # AgentArg!DEFAULT_TRAP_PORT /\ AgentArg!Colons(s) = {Len(h) + 1}
  BY <1>3, PartsFound
<1>5. k = Len(h) + 1 /\ port \in Ports
  BY <1>3, <1>4 DEF AnyPort
<1>6. Len(Added(port)) = 2 /\ Added(port)[2] = port
  BY <1>4, AddedIs
<1>7. Len(s) = Len(h) + 2 /\ s[Len(h) + 2] = port
  BY <1>1, <1>2, <1>6 DEF PartsOf
<1> DEFINE m == Len(h)
           n == Len(s)
<1>8. m \in Nat /\ k = m + 1 /\ n = m + 2 /\ s[m + 2] = port
  BY <1>2, <1>5, <1>7
<1>9. Len(p) = n - (k + 1) + 1 /\ \A j \in 1 .. n - (k + 1) + 1 : p[j] = s[(k + 1) + j - 1]
  <2>1. k + 1 \in Nat /\ k + 1 >= 1 /\ k + 1 <= Len(s) + 1
    BY <1>8
  <2> QED BY <1>2, <2>1, Cut
<1> HIDE DEF m, n
<1>10. n - (k + 1) + 1 = 1 /\ (k + 1) + 1 - 1 = m + 2
  BY <1>8
<1>11. Len(p) = 1 /\ p[1] = port
  <2>1. 1 \in 1 .. n - (k + 1) + 1
    BY <1>10
  <2>2. p[1] = s[(k + 1) + 1 - 1]
    BY <1>9, <2>1
  <2> QED BY <1>8, <1>9, <1>10, <2>2
<1> QED BY <1>5, <1>11

(* What is sought is a way to read the text as soon as it is a name at all, and it
   is a name when there is a way. *)
Sought ==
    /\ AgentArg!IsName(sought.host) => sought \in AgentArg!Readings
    /\ AgentArg!Readings # {} => AgentArg!IsName(sought.host)

AgentInv ==
    /\ Sequential(agent)
    /\ agent_pc \in {"parse", "lookup", "done", "usage"}
    /\ agent_pc \in {"parse", "lookup"} => addrs = << >>
    /\ agent_pc = "lookup" => Sought
    /\ DestinationAsRead

LEMMA ReadingsKept ==
    ASSUME UNCHANGED agent
    PROVE  AgentArg!Readings' = AgentArg!Readings
BY DEF AgentArg!Readings, AgentArg!Hosts

(* A refusal before the lookup is of a text that cannot be read. *)
LEMMA Refused ==
    ASSUME AgentInv, UNCHANGED <<agent, sought, addrs, dst>>, agent_pc' = "usage",
           addrs = << >>, AgentArg!Readings # {} => sought \in AgentArg!Readings
    PROVE  AgentInv'
<1>1. AgentArg!Readings' = AgentArg!Readings
  BY ReadingsKept
<1>2. \A k \in DOMAIN addrs : addrs[k] \in V6
  BY EmptySeq
<1>3. DestinationAsRead'
  BY <1>1, <1>2 DEF DestinationAsRead, AgentArg!DestinationAsRead
<1> QED BY <1>3 DEF AgentInv, Sequential

(* The lookup of what was found in the text. *)
LEMMA Sent ==
    ASSUME AgentInv, UNCHANGED <<agent, addrs, dst>>, agent_pc' = "lookup", addrs = << >>, Sought'
    PROVE  AgentInv'
<1>1. DestinationAsRead'
  BY DEF DestinationAsRead, AgentArg!DestinationAsRead
<1> QED BY <1>1 DEF AgentInv, Sequential

LEMMA RejectKeeps == AgentInv /\ AgentArg!RejectIpv6 => AgentInv'
<1> SUFFICES ASSUME AgentInv, AgentArg!RejectIpv6 PROVE AgentInv'
  OBVIOUS
<1>1. /\ agent_pc = "parse" /\ agent_pc' = "usage" /\ UNCHANGED <<agent, sought, addrs, dst>>
      /\ AgentArg!looks_like_ipv6(AgentArg!stripped)
  BY DEF AgentArg!RejectIpv6, AgentArg!Usage
<1>2. AgentArg!Readings = {}
  BY <1>1, Readable, PartsFound DEF AgentInv
<1> QED BY <1>1, <1>2, Refused DEF AgentInv

LEMMA WithPortKeeps == AgentInv /\ AgentArg!WithPort => AgentInv'
<1> SUFFICES ASSUME AgentInv, AgentArg!WithPort PROVE AgentInv'
  OBVIOUS
<1> DEFINE s == AgentArg!stripped
           q == AgentArg!Max(AgentArg!Colons(s))
           t == SubSeq(s, q + 1, Len(s))
           good == Len(t) = 1 /\ t[1] \in Ports
<1>1. /\ agent_pc = "parse" /\ ~AgentArg!looks_like_ipv6(s) /\ AgentArg!HasPort(s)
      /\ UNCHANGED <<agent, addrs, dst>> /\ addrs = << >>
      /\ \/ /\ good /\ sought' = [host |-> SubSeq(s, 1, q - 1), port |-> t[1]]
            /\ agent_pc' = "lookup"
         \/ ~good /\ agent_pc' = "usage" /\ UNCHANGED sought
  BY DEF AgentArg!WithPort, AgentArg!Seek, AgentArg!Usage, AgentInv
<1>2. Sequential(s) /\ Sequential(agent)
  BY StrippedIs DEF AgentInv
<1> HIDE DEF s
<1>3. PICK k \in 2 .. Len(s) : q = k /\ AgentArg!Colons(s) = {k} /\ s[k] = ":"
  BY <1>1, <1>2, OnlyColon
<1> DEFINE p == SubSeq(s, k + 1, Len(s))
<1>4. t = p
  BY <1>3
<1> HIDE DEF q, t, p
<1>5. CASE good /\ sought' = [host |-> SubSeq(s, 1, q - 1), port |-> t[1]] /\ agent_pc' = "lookup"
  <2> DEFINE h == SubSeq(s, 1, k - 1)
  <2>1. IsHost(h) /\ s = h \o Added(p[1])
    BY <1>1, <1>2, <1>3, <1>4, <1>5, SplitAtColon DEF p
  <2>2. sought' = [host |-> h, port |-> p[1]] /\ p[1] \in AnyPort
    BY <1>3, <1>4, <1>5 DEF AnyPort
  <2> HIDE DEF h
  <2>3. sought' \in AgentArg!Readings
    BY <1>2, <2>1, <2>2, IsReading DEF s
  <2>4. AgentArg!IsName(sought'.host)
    BY <2>1, <2>2 DEF IsHost
  <2>5. AgentArg!Readings' = AgentArg!Readings /\ AgentArg!IsName(sought.host)'
    BY <1>1, <2>4, ReadingsKept DEF AgentArg!IsName, AgentArg!Colons
  <2>6. Sought'
    BY <2>3, <2>5 DEF Sought
  <2> QED BY <1>1, <1>5, <2>6, Sent
<1>6. CASE ~good /\ agent_pc' = "usage" /\ UNCHANGED sought
  <2>1. ASSUME AgentArg!Readings # {} PROVE FALSE
    <3>1. PICK h : \E port \in AnyPort : IsHost(h) /\ s = h \o Added(port)
      BY <1>2, <2>1, Readable DEF s
    <3>2. PICK port \in AnyPort : IsHost(h) /\ s = h \o Added(port)
      BY <3>1
    <3>3. Len(p) = 1 /\ p[1] \in Ports
      BY <1>3, <3>2, SplitIsThere DEF p
    <3> QED BY <1>4, <1>6, <3>3
  <2> QED BY <1>1, <1>6, <2>1, Refused
<1> QED BY <1>1, <1>5, <1>6

LEMMA WithoutPortKeeps == AgentInv /\ AgentArg!WithoutPort => AgentInv'
<1> SUFFICES ASSUME AgentInv, AgentArg!WithoutPort PROVE AgentInv'
  OBVIOUS
<1> DEFINE s == AgentArg!stripped
<1>1. /\ agent_pc = "parse" /\ ~AgentArg!looks_like_ipv6(s) /\ ~AgentArg!HasPort(s)
      /\ UNCHANGED <<agent, addrs, dst>> /\ addrs = << >> /\ agent_pc' = "lookup"
      /\ sought' = [host |-> s, port |-> AgentArg!DEFAULT_TRAP_PORT]
  BY DEF AgentArg!WithoutPort, AgentArg!Seek, AgentInv
<1>2. Sequential(s) /\ Sequential(agent)
  BY StrippedIs DEF AgentInv
<1> HIDE DEF s
<1>3. AgentArg!IsName(s) => sought' \in AgentArg!Readings
  <2> SUFFICES ASSUME AgentArg!IsName(s) PROVE sought' \in AgentArg!Readings
    OBVIOUS
  <2>1. IsHost(s)
    BY <1>1, <1>2 DEF IsHost, AgentArg!IsName, AgentArg!looks_like_ipv6
  <2>2. s = s \o Added(AgentArg!DEFAULT_TRAP_PORT)
    BY <1>2, AddedIs, WithNothing
  <2>3. AgentArg!DEFAULT_TRAP_PORT \in AnyPort
    BY DEF AnyPort
  <2> QED BY <1>1, <1>2, <2>1, <2>2, <2>3, IsReading DEF s
<1>4. ASSUME AgentArg!Readings # {} PROVE AgentArg!IsName(s)
  <2>1. PICK h : \E port \in AnyPort : IsHost(h) /\ s = h \o Added(port)
    BY <1>2, <1>4, Readable DEF s
  <2>2. PICK port \in AnyPort : IsHost(h) /\ s = h \o Added(port)
    BY <2>1
  <2>3. port = AgentArg!DEFAULT_TRAP_PORT
    <3> SUFFICES ASSUME port # AgentArg!DEFAULT_TRAP_PORT PROVE FALSE
      OBVIOUS
    <3> DEFINE m == Len(h)
    <3>1. AgentArg!Colons(s) = {m + 1} /\ m \in Nat /\ m >= 1
      BY <2>2, PartsFound, HostIs
    <3> HIDE DEF m
    <3> DEFINE q == AgentArg!Max(AgentArg!Colons(s))
    <3>2. q = m + 1
      <4>1. \E x \in {m + 1} : \A y \in {m + 1} : x >= y
        BY <3>1
      <4>2. AgentArg!Max({m + 1}) \in {m + 1}
        BY <4>1, Zenon DEF AgentArg!Max
      <4> QED BY <3>1, <4>2
    <3> HIDE DEF q
    <3>3. q > 1 /\ AgentArg!Colons(s) # {} /\ \A i \in AgentArg!Colons(s) : i = q
      BY <3>1, <3>2
    <3> QED BY <1>1, <3>3 DEF AgentArg!HasPort, q
  <2>4. s = h
    <3>1. Sequential(h)
      BY <2>2 DEF IsHost
    <3> QED BY <2>2, <2>3, <3>1, AddedIs, WithNothing
  <2> QED BY <2>2, <2>4 DEF IsHost
<1>5. Sought'
  <2>1. sought'.host = s
    BY <1>1
  <2>2. AgentArg!Readings' = AgentArg!Readings
        /\ (AgentArg!IsName(sought.host)' <=> AgentArg!IsName(s))
    BY <1>1, <2>1, ReadingsKept DEF AgentArg!IsName, AgentArg!Colons
  <2> QED BY <1>3, <1>4, <2>2 DEF Sought
<1> QED BY <1>1, <1>5, Sent

LEMMA LookupFailsKeeps == AgentInv /\ AgentArg!LookupFails => AgentInv'
<1> SUFFICES ASSUME AgentInv, AgentArg!LookupFails PROVE AgentInv'
  OBVIOUS
<1>1. /\ agent_pc = "lookup" /\ agent_pc' = "usage" /\ UNCHANGED <<agent, sought, addrs, dst>>
  BY DEF AgentArg!LookupFails, AgentArg!Usage
<1>2. addrs = << >> /\ (AgentArg!Readings # {} => sought \in AgentArg!Readings)
  BY <1>1 DEF AgentInv, Sought
<1> QED BY <1>1, <1>2, Refused

LEMMA LookupKeeps == AgentInv /\ AgentArg!Lookup => AgentInv'
<1> SUFFICES ASSUME AgentInv, AgentArg!Lookup PROVE AgentInv'
  OBVIOUS
<1> DEFINE v4 == AgentArg!find_v4(addrs')
<1>1. /\ agent_pc = "lookup" /\ AgentArg!IsName(sought.host) /\ UNCHANGED <<agent, sought>>
      /\ addrs' \in AgentArg!BoundedSeq(V4 \cup V6, MAX_ADDRS)
      /\ \/ v4 = {} /\ agent_pc' = "usage"
         \/ /\ v4 # {} /\ agent_pc' = "done"
            /\ dst' = [ip |-> addrs'[AgentArg!Min(v4)], port |-> sought.port]
  BY DEF AgentArg!Lookup
<1>2. sought \in AgentArg!Readings
  BY <1>1 DEF AgentInv, Sought
<1>3. PICK m \in 0 .. MAX_ADDRS : addrs' \in [1 .. m -> V4 \cup V6]
  BY <1>1 DEF AgentArg!BoundedSeq, AgentArg!SeqOf
<1>4. m \in Nat /\ DOMAIN addrs' = 1 .. m /\ v4 = {i \in 1 .. m : addrs'[i] \in V4}
  BY <1>3, AgentAssumption DEF AgentArg!find_v4
<1> HIDE DEF v4
<1>5. AgentArg!Readings' = AgentArg!Readings
  BY <1>1, ReadingsKept
<1>6. CASE v4 = {} /\ agent_pc' = "usage"
  <2>1. \A i \in DOMAIN addrs' : addrs'[i] \in V6
    BY <1>3, <1>4, <1>6
  <2>2. DestinationAsRead'
    BY <1>1, <1>2, <1>5, <1>6, <2>1 DEF DestinationAsRead, AgentArg!DestinationAsRead
  <2> QED BY <1>1, <1>6, <2>2 DEF AgentInv, Sequential
<1>7. CASE v4 # {} /\ agent_pc' = "done"
           /\ dst' = [ip |-> addrs'[AgentArg!Min(v4)], port |-> sought.port]
  <2> DEFINE i == AgentArg!Min(v4)
  <2>1. i \in v4 /\ \A k \in v4 : i <= k
    <3>1. v4 \subseteq Nat
      BY <1>4
    <3> QED BY <1>7, <3>1, FirstOf
  <2> HIDE DEF i
  <2>2. ASSUME NEW j \in 1 .. i - 1 PROVE addrs'[j] \in V6
    <3>1. j \in 1 .. m /\ j \notin v4
      BY <1>4, <2>1
    <3> QED BY <1>3, <1>4, <3>1
  <2>3. dst'.port = sought'.port /\ dst'.ip = addrs'[i] /\ i \in DOMAIN addrs'
    BY <1>1, <1>4, <1>7, <2>1 DEF i
  <2>4. DestinationAsRead'
    BY <1>1, <1>2, <1>5, <1>7, <2>2, <2>3 DEF DestinationAsRead, AgentArg!DestinationAsRead
  <2> QED BY <1>1, <1>7, <2>4 DEF AgentInv, Sequential
<1> QED BY <1>1, <1>6, <1>7

LEMMA AgentInitially == AInit => AgentInv
<1>1. AgentArg!Init => AgentInv
  <2> SUFFICES ASSUME AgentArg!Init PROVE AgentInv
    OBVIOUS
  <2>1. agent \in AgentArg!BoundedSeq(Word, MAX_AGENT) /\ agent_pc = "parse" /\ addrs = << >>
    BY DEF AgentArg!Init
  <2>2. PICK m \in 0 .. MAX_AGENT : agent \in [1 .. m -> Word]
    BY <2>1 DEF AgentArg!BoundedSeq, AgentArg!SeqOf
  <2>3. m \in Nat
    BY AgentAssumption
  <2>4. agent \in Seq(Word)
    BY <2>2, <2>3
  <2> QED BY <2>1, <2>4, SequentialOf DEF AgentInv, DestinationAsRead, AgentArg!DestinationAsRead
<1>2. NoAgent => AgentInv
  <2> SUFFICES ASSUME NoAgent PROVE AgentInv
    OBVIOUS
  <2>1. agent = << >> /\ agent_pc = "usage" /\ Len(<< >>) = 0 /\ Sequential(<< >>)
    BY EmptySeq, SequentialOf DEF NoAgent
  <2>2. AgentArg!Hosts = {}
    BY <2>1 DEF AgentArg!Hosts
  <2>3. AgentArg!Readings = {}
    BY <2>2 DEF AgentArg!Readings
  <2> QED BY <2>1, <2>3 DEF AgentInv, DestinationAsRead, AgentArg!DestinationAsRead
<1> QED BY <1>1, <1>2 DEF AInit

(* cli.rs:359-390: whatever the words, the ports and what the resolver gives, the
   trap goes where a way to read the AGENT says, and a text that can be read is
   refused only after a lookup. *)
THEOREM DestinationRead == ASpec => []DestinationAsRead
<1>1. AgentInv /\ [ANext]_<<pdu_vars, hex_vars, agent_vars, vars>> => AgentInv'
  <2> SUFFICES ASSUME AgentInv, [ANext]_<<pdu_vars, hex_vars, agent_vars, vars>>
               PROVE  AgentInv'
    OBVIOUS
  <2>1. AgentArg!Next \/ UNCHANGED agent_vars
    BY DEF ANext
  <2>2. CASE UNCHANGED agent_vars
    <3>1. UNCHANGED <<agent, agent_pc, sought, addrs, dst>>
      BY <2>2 DEF agent_vars
    <3>2. AgentArg!Readings' = AgentArg!Readings
      BY <3>1, ReadingsKept
    <3>3. Sought' <=> Sought
      BY <3>1, <3>2 DEF Sought, AgentArg!IsName, AgentArg!Colons
    <3>4. DestinationAsRead' <=> DestinationAsRead
      BY <3>1, <3>2 DEF DestinationAsRead, AgentArg!DestinationAsRead
    <3> QED BY <3>1, <3>3, <3>4 DEF AgentInv, Sequential
  <2>3. CASE AgentArg!Next
    BY <2>3, RejectKeeps, WithPortKeeps, WithoutPortKeeps, LookupFailsKeeps, LookupKeeps
       DEF AgentArg!Next
  <2> QED BY <2>1, <2>2, <2>3
<1>2. AgentInv => DestinationAsRead
  BY DEF AgentInv
<1> QED BY <1>1, <1>2, AgentInitially, PTL DEF ASpec

-------------------------------------------------------------------------------
(* EngineIdText.  What stays of the text for -E and for x, and what a MAC address
   is read from. *)

HexBody  == HexText!strip_prefix(HexText!Trim(text))
Kept(p)  == HexText!Collect(HexBody, HexText!Separators(p))
MacParts == HexText!split(HexText!Trim(text))

AllHex(c) == \A k \in 1 .. Len(c) : HexText!IsHex(c[k])

(* Two digits to an octet. *)
Paired(c) == [k \in 1 .. Len(c) \div 2 |-> HexText!Octet(c[2 * k - 1], c[2 * k])]

(* What the digits that are kept must be. *)
HexReadable(p) ==
    LET c == Kept(p)
    IN  /\ AllHex(c) /\ Len(c) % 2 = 0
        /\ p = "user" => Len(c) \div 2 \in MIN_ENGINE_ID .. MAX_ENGINE_ID

(* What -E and x answer, and what is read of a MAC address. *)
HexVerdict(p) ==
    /\ HexText!Accepted(p) <=> HexReadable(p)
    /\ HexReadable(p) => answers[p] = HexText!Ok(Paired(Kept(p)))

MacVerdict ==
    answers["mac"] =
        IF HexText!IsMac(MacParts)
        THEN HexText!Ok([i \in DOMAIN MacParts |->
                            HexText!Octet(MacParts[i][1], MacParts[i][2])])
        ELSE HexText!NotMac

(* The digits that are decoded are the first of those kept. *)
Halfway(c, d, done, rest) ==
    /\ d \in Nat /\ Len(c) \in Nat /\ 2 * d <= Len(c) /\ Len(c) % 2 = 0
    /\ rest = SubSeq(c, 2 * d + 1, Len(c))
    /\ \A k \in 1 .. d : /\ HexText!IsHex(c[2 * k - 1]) /\ HexText!IsHex(c[2 * k])
                         /\ done[k] = HexText!Octet(c[2 * k - 1], c[2 * k])

(* The invariant: what was decoded is of the first of the octets kept, and every
   answer is what its octets, or its parts, say. *)
HexInv ==
    /\ text \in Seq(Char) /\ parser \in HexText!Parsers
    /\ answers = [p \in HexText!Parsers |-> answers[p]]
    /\ hex_pc \in {"check", "decode"} => parser \in {"user", "octets"} /\ Sequential(out)
    /\ hex_pc = "check" => cleaned = Kept(parser) /\ out = << >>
    /\ hex_pc = "decode" =>
           /\ Halfway(Kept(parser), Len(out), out, cleaned)
           /\ parser = "user" => Len(Kept(parser)) \div 2 <= MAX_ENGINE_ID
           /\ parser = "octets" => AllHex(Kept(parser))
    /\ \A p \in {"user", "octets"} : HexText!Answered(p) => HexVerdict(p)
    /\ HexText!Answered("mac") => MacVerdict

(* Induction over the numbers, for the set of those of which the thesis holds. *)
LEMMA SetInduction ==
    ASSUME NEW G, 0 \in G, \A n \in Nat : n \in G => n + 1 \in G
    PROVE  \A n \in Nat : n \in G
<1>1. PICK R : /\ IsWellFoundedOn(R, Nat)
               /\ \A x, y \in Nat : <<x, y>> \in R <=> x < y
  BY NumbersOrdered
<1>2. SUFFICES ASSUME Nat \ G # {} PROVE FALSE
  OBVIOUS
<1>3. PICK m \in Nat \ G : \A k \in Nat \ G : m <= k
  BY <1>2, LeastNumber
<1>4. m # 0 /\ m - 1 \in Nat /\ ~(m <= m - 1) /\ (m - 1) + 1 = m
  BY <1>3
<1>5. m - 1 \in G
  BY <1>3, <1>4
<1> QED BY <1>3, <1>4, <1>5

(* What the filter collects: the recursion holds, and gives sequences. *)
Collects(C, s, D, N) ==
    /\ C[0] = << >>
    /\ \A n \in 1 .. N : C[n] = IF s[n] \in D THEN C[n - 1] ELSE C[n - 1] \o HexText!Utf8(s[n])

LEMMA Utf8Is ==
    ASSUME NEW c
    PROVE  /\ Sequential(HexText!Utf8(c)) /\ Len(HexText!Utf8(c)) \in {1, 2}
           /\ c = "nbsp" => ~HexText!IsHex(HexText!Utf8(c)[1])
           /\ c # "nbsp" => /\ HexText!Utf8(c) = <<c>>
                            /\ Len(HexText!Utf8(c)) = 1 /\ HexText!Utf8(c)[1] = c
<1>1. CASE c = "nbsp"
  <2>1. HexText!Utf8(c) = <<"c2", "a0">>
    BY <1>1 DEF HexText!Utf8
  <2>2. <<"c2", "a0">> \in Seq({"c2", "a0"}) /\ Len(<<"c2", "a0">>) = 2 /\ <<"c2", "a0">>[1] = "c2"
    OBVIOUS
  <2>3. ~HexText!IsHex("c2")
    BY DEF HexText!IsHex, HexText!decode_hex_nibble
  <2> QED BY <1>1, <2>1, <2>2, <2>3, SequentialOf
<1>2. CASE c # "nbsp"
  <2>1. HexText!Utf8(c) = <<c>>
    BY <1>2 DEF HexText!Utf8
  <2>2. <<c>> \in Seq({c}) /\ Len(<<c>>) = 1 /\ <<c>>[1] = c
    OBVIOUS
  <2> QED BY <1>2, <2>1, <2>2, SequentialOf
<1> QED BY <1>1, <1>2

CollectedTo(C, s, D, N) ==
    C = [n \in 0 .. N |->
            IF n = 0 THEN << >>
            ELSE IF s[n] \in D THEN C[n - 1] ELSE C[n - 1] \o HexText!Utf8(s[n])]

LEMMA CollectedExist ==
    ASSUME NEW s, NEW D, NEW K \in Nat
    PROVE  \E C : CollectedTo(C, s, D, K)
<1> DEFINE next(c, n) == IF s[n] \in D THEN c ELSE c \o HexText!Utf8(s[n])
           Rec(f, k) == f = [n \in 0 .. k |-> IF n = 0 THEN << >> ELSE next(f[n - 1], n)]
           G == {k \in Nat : \E f : Rec(f, k)}
<1> HIDE DEF next
<1>1. 0 \in G
  <2> DEFINE f == [n \in 0 .. 0 |-> << >>]
  <2>1. Rec(f, 0)
    OBVIOUS
  <2> QED BY <2>1
<1>2. ASSUME NEW k \in Nat, k \in G PROVE k + 1 \in G
  <2>1. PICK f : Rec(f, k)
    BY <1>2
  <2> DEFINE g == [n \in 0 .. k + 1 |-> IF n = k + 1 THEN next(f[k], k + 1) ELSE f[n]]
  <2>2. ASSUME NEW n \in 0 .. k + 1
        PROVE  g[n] = IF n = 0 THEN << >> ELSE next(g[n - 1], n)
    <3>1. CASE n = k + 1
      BY <3>1
    <3>2. CASE n \in 0 .. k
      BY <2>1, <3>2
    <3> QED BY <3>1, <3>2
  <2>3. Rec(g, k + 1)
    BY <2>2
  <2> HIDE DEF g, Rec
  <2> QED BY <2>3
<1> HIDE DEF Rec
<1>3. K \in G
  <2> HIDE DEF G
  <2> QED BY <1>1, <1>2, SetInduction
<1>4. \E f : Rec(f, K)
  BY <1>3
<1> QED BY <1>4 DEF next, Rec, CollectedTo

LEMMA CollectedRule ==
    ASSUME NEW s, NEW D, Len(s) \in Nat
    PROVE  Collects(HexText!collected(s, D), s, D, Len(s))
<1> DEFINE N == Len(s)
           C == HexText!collected(s, D)
<1>1. C = CHOOSE f : CollectedTo(f, s, D, N)
  BY Zenon DEF HexText!collected, CollectedTo
<1>2. N \in Nat
  OBVIOUS
<1> HIDE DEF N
<1>3. \E f : CollectedTo(f, s, D, N)
  BY <1>2, CollectedExist
<1>4. CollectedTo(C, s, D, N)
  BY <1>1, <1>3
<1> HIDE DEF C
<1>5. \A n \in 0 .. N : C[n] = IF n = 0 THEN << >>
                  ELSE IF s[n] \in D THEN C[n - 1] ELSE C[n - 1] \o HexText!Utf8(s[n])
  BY <1>4 DEF CollectedTo
<1>6. C[0] = << >>
  BY <1>2, <1>5
<1>7. ASSUME NEW n \in 1 .. N
      PROVE  C[n] = IF s[n] \in D THEN C[n - 1] ELSE C[n - 1] \o HexText!Utf8(s[n])
  <2>1. n \in 0 .. N /\ n # 0
    BY <1>2
  <2> QED BY <1>5, <2>1
<1> QED BY <1>6, <1>7 DEF Collects, C, N

(* The numbers of a set that are not beyond a given one: how many they are is its
   rank. *)
Upto(S, i) == {j \in S : j <= i}
Rank(S, i) == Cardinality(Upto(S, i))

(* What was collected of the characters at U, which are some of those of ink. *)
Ranked(c, U, t, ink) ==
    /\ Sequential(c) /\ Len(c) \in Nat /\ IsFiniteSet(U)
    /\ AllHex(c) <=> \A i \in U : HexText!IsHex(t[i])
    /\ AllHex(c) => Len(c) = Cardinality(U)
    /\ AllHex(c) => \A i \in U : Rank(ink, i) \in 1 .. Len(c) /\ c[Rank(ink, i)] = t[i]
    /\ AllHex(c) => \A m \in 1 .. Len(c) : \E i \in U : Rank(ink, i) = m

LEMMA NbspNotHex == ~HexText!IsHex("nbsp")
BY DEF HexText!IsHex, HexText!decode_hex_nibble

(* One character more. *)
LEMMA HexAppended ==
    ASSUME NEW c, Sequential(c), NEW ch
    PROVE  LET d == c \o HexText!Utf8(ch)
           IN  /\ Sequential(d) /\ Len(c) \in Nat /\ Len(d) \in Nat /\ Len(d) > Len(c)
               /\ AllHex(d) <=> AllHex(c) /\ HexText!IsHex(ch)
               /\ \A k \in 1 .. Len(c) : d[k] = c[k]
               /\ HexText!IsHex(ch) => Len(d) = Len(c) + 1 /\ d[Len(c) + 1] = ch
<1> DEFINE u == HexText!Utf8(ch)
           d == c \o u
           n == Len(c)
           m == Len(d)
<1>1. Sequential(u) /\ Len(u) \in {1, 2}
  BY Utf8Is
<1>2. /\ ch = "nbsp" => ~HexText!IsHex(u[1])
      /\ ch # "nbsp" => Len(u) = 1 /\ u[1] = ch
  BY Utf8Is
<1> HIDE DEF u
<1>3. /\ Sequential(d) /\ Len(c) \in Nat /\ Len(d) = Len(c) + Len(u)
      /\ \A k \in 1 .. Len(c) : d[k] = c[k]
      /\ \A k \in 1 .. Len(u) : d[Len(c) + k] = u[k]
  BY <1>1, Concatenated
<1> HIDE DEF d
<1>4. n \in Nat /\ m \in Nat /\ m > n /\ n + 1 <= m /\ d[n + 1] = u[1]
      /\ (Len(u) = 1 => m = n + 1)
  BY <1>1, <1>3
<1>5. \A k \in 1 .. n : d[k] = c[k]
  BY <1>3
<1> HIDE DEF n, m
<1>6. HexText!IsHex(ch) => m = n + 1 /\ d[n + 1] = ch
  BY <1>2, <1>4, NbspNotHex
<1>7. ASSUME AllHex(d) PROVE AllHex(c) /\ HexText!IsHex(ch)
  <2>1. \A k \in 1 .. m : HexText!IsHex(d[k])
    BY <1>7 DEF AllHex, m
  <2>2. HexText!IsHex(u[1])
    BY <1>4, <2>1
  <2>3. HexText!IsHex(ch)
    BY <1>2, <2>2
  <2>4. ASSUME NEW k \in 1 .. n PROVE HexText!IsHex(c[k])
    <3>1. k \in 1 .. m
      BY <1>4
    <3> QED BY <1>5, <2>1, <3>1
  <2> QED BY <2>3, <2>4 DEF AllHex, n
<1>8. ASSUME AllHex(c), HexText!IsHex(ch) PROVE AllHex(d)
  <2>1. \A k \in 1 .. n : HexText!IsHex(c[k])
    BY <1>8 DEF AllHex, n
  <2>2. ASSUME NEW k \in 1 .. m PROVE HexText!IsHex(d[k])
    <3>1. k \in 1 .. n \/ k = n + 1
      BY <1>4, <1>6, <1>8
    <3> QED BY <1>5, <1>6, <1>8, <2>1, <3>1
  <2> QED BY <2>2 DEF AllHex, m
<1> QED BY <1>3, <1>4, <1>5, <1>6, <1>7, <1>8 DEF d, n, m, u

LEMMA RankedMore ==
    ASSUME NEW c, NEW U, NEW t, NEW ink, Ranked(c, U, t, ink),
           NEW x, x \notin U, Upto(ink, x) = U \cup {x}
    PROVE  Ranked(c \o HexText!Utf8(t[x]), U \cup {x}, t, ink)
<1> DEFINE d == c \o HexText!Utf8(t[x])
           V == U \cup {x}
           n == Len(c)
           m == Len(d)
<1>1. Sequential(c) /\ IsFiniteSet(U) /\ (AllHex(c) <=> \A i \in U : HexText!IsHex(t[i]))
  BY DEF Ranked
<1>2. /\ Sequential(d) /\ n \in Nat /\ m \in Nat
      /\ (AllHex(d) <=> AllHex(c) /\ HexText!IsHex(t[x]))
      /\ \A k \in 1 .. n : d[k] = c[k]
      /\ (HexText!IsHex(t[x]) => m = n + 1 /\ d[n + 1] = t[x])
  BY <1>1, HexAppended
<1> HIDE DEF d
<1>3. IsFiniteSet(V) /\ Cardinality(V) = Cardinality(U) + 1
  BY <1>1, FS_AddElement
<1>4. AllHex(d) <=> \A i \in V : HexText!IsHex(t[i])
  BY <1>1, <1>2
<1>5. Rank(ink, x) = Cardinality(V)
  BY DEF Rank
<1> HIDE DEF V
<1>6. ASSUME AllHex(d)
      PROVE  /\ m = Cardinality(V)
             /\ \A i \in V : Rank(ink, i) \in 1 .. m /\ d[Rank(ink, i)] = t[i]
             /\ \A k \in 1 .. m : \E i \in V : Rank(ink, i) = k
  <2>1. AllHex(c) /\ m = n + 1 /\ d[n + 1] = t[x]
    BY <1>2, <1>6
  <2>2. /\ n = Cardinality(U)
        /\ \A i \in U : Rank(ink, i) \in 1 .. n /\ c[Rank(ink, i)] = t[i]
        /\ \A k \in 1 .. n : \E i \in U : Rank(ink, i) = k
    BY <2>1 DEF Ranked
  <2> HIDE DEF n, m
  <2>3. m = Cardinality(V) /\ Rank(ink, x) = m
    BY <1>3, <1>5, <2>1, <2>2
  <2>4. ASSUME NEW i \in V PROVE Rank(ink, i) \in 1 .. m /\ d[Rank(ink, i)] = t[i]
    <3>1. CASE i \in U
      <4>1. Rank(ink, i) \in 1 .. n /\ c[Rank(ink, i)] = t[i]
        BY <2>2, <3>1
      <4>2. Rank(ink, i) \in 1 .. m
        BY <1>2, <2>1, <4>1
      <4> QED BY <1>2, <4>1, <4>2
    <3>2. CASE i = x
      BY <1>2, <2>1, <2>3, <3>2
    <3> QED BY <3>1, <3>2 DEF V
  <2>5. ASSUME NEW k \in 1 .. m PROVE \E i \in V : Rank(ink, i) = k
    <3>1. CASE k = m
      BY <2>3, <3>1 DEF V
    <3>2. CASE k # m
      <4>1. k \in 1 .. n
        BY <1>2, <2>1, <3>2
      <4> QED BY <2>2, <4>1 DEF V
    <3> QED BY <3>1, <3>2
  <2> QED BY <2>3, <2>4, <2>5
<1> QED BY <1>2, <1>3, <1>4, <1>6 DEF Ranked, d, V, m

(* The characters of s are those of t after the o-th; ink is where those that stay
   are. *)
Inked(s, D, t, o, ink, N) ==
    /\ ink \subseteq o + 1 .. o + N
    /\ \A i \in 1 .. N : s[i] = t[o + i] /\ (s[i] \notin D <=> o + i \in ink)

LEMMA CollectedRanked ==
    ASSUME NEW C, NEW s, NEW D, NEW N \in Nat, Collects(C, s, D, N),
           NEW t, NEW o \in Nat, NEW ink, Inked(s, D, t, o, ink, N)
    PROVE  Ranked(C[N], ink, t, ink)
<1> DEFINE G == {n \in Nat : n <= N => Ranked(C[n], Upto(ink, o + n), t, ink)}
<1>1. Upto(ink, o + 0) = {} /\ Upto(ink, o + N) = ink
  <2>1. \A j \in ink : j \in Nat /\ o + 1 <= j /\ j <= o + N
    BY DEF Inked
  <2>2. \A j \in ink : ~(j <= o + 0)
    BY <2>1
  <2> QED BY <2>1, <2>2 DEF Upto
<1>2. 0 \in G
  <2>1. Ranked(<< >>, {}, t, ink)
    <3>1. Sequential(<< >>) /\ Len(<< >>) = 0
      BY EmptySeq, SequentialOf
    <3>2. IsFiniteSet({}) /\ Cardinality({}) = 0
      BY FS_EmptySet
    <3>3. AllHex(<< >>)
      BY <3>1 DEF AllHex
    <3> QED BY <3>1, <3>2, <3>3 DEF Ranked
  <2> QED BY <1>1, <2>1 DEF Collects
<1>3. ASSUME NEW n \in Nat, n \in G PROVE n + 1 \in G
  <2> SUFFICES ASSUME n + 1 <= N PROVE Ranked(C[n + 1], Upto(ink, o + (n + 1)), t, ink)
    OBVIOUS
  <2> DEFINE x == o + (n + 1)
             ch == s[n + 1]
  <2>1. Ranked(C[n], Upto(ink, o + n), t, ink) /\ n + 1 \in 1 .. N /\ (n + 1) - 1 = n
    BY <1>3
  <2>2. C[n + 1] = IF ch \in D THEN C[n] ELSE C[n] \o HexText!Utf8(ch)
    BY <2>1 DEF Collects
  <2>3. ch = t[x] /\ (ch \notin D <=> x \in ink)
    BY <2>1 DEF Inked
  <2>4. \A j \in ink : j \in Nat
    BY DEF Inked
  <2>5. x \in Nat /\ o + n \in Nat /\ \A j \in Nat : j <= x <=> j <= o + n \/ j = x
    OBVIOUS
  <2>6. ~(x <= o + n)
    OBVIOUS
  <2> HIDE DEF x, ch
  <2>7. CASE ch \in D
    <3>1. Upto(ink, x) = Upto(ink, o + n)
      BY <2>3, <2>4, <2>5, <2>7 DEF Upto
    <3> QED BY <2>1, <2>2, <2>7, <3>1 DEF x
  <2>8. CASE ch \notin D
    <3>1. Upto(ink, x) = Upto(ink, o + n) \cup {x}
      BY <2>3, <2>4, <2>5, <2>8 DEF Upto
    <3>2. x \notin Upto(ink, o + n)
      BY <2>6 DEF Upto
    <3>3. Ranked(C[n] \o HexText!Utf8(t[x]), Upto(ink, o + n) \cup {x}, t, ink)
      BY <2>1, <3>1, <3>2, RankedMore
    <3> QED BY <2>2, <2>3, <2>8, <3>1, <3>3 DEF x
  <2> QED BY <2>7, <2>8
<1>4. N \in G
  <2> HIDE DEF G
  <2> QED BY <1>2, <1>3, SetInduction
<1>5. Ranked(C[N], Upto(ink, o + N), t, ink)
  BY <1>4
<1> QED BY <1>1, <1>5

InkedText == {i \in DOMAIN text : text[i] \notin HexText!Whitespace}

LEMMA EndsOf ==
    ASSUME NEW n \in Nat, NEW T, T \subseteq 1 .. n, T # {}
    PROVE  /\ HexText!Min(T) \in T /\ \A k \in T : HexText!Min(T) <= k
           /\ HexText!Max(T) \in T /\ \A k \in T : k <= HexText!Max(T)
<1>1. T \subseteq Nat /\ T \subseteq 0 .. n
  OBVIOUS
<1>2. HexText!Min(T) = AgentArg!Min(T) /\ HexText!Max(T) = Pdu!Max(T)
  BY Zenon DEF HexText!Min, AgentArg!Min, HexText!Max, Pdu!Max
<1>3. AgentArg!Min(T) \in T /\ \A k \in T : AgentArg!Min(T) <= k
  BY <1>1, FirstOf
<1>4. Pdu!Max(T) \in T /\ \A k \in T : k <= Pdu!Max(T)
  BY <1>1, MaxOf
<1> QED BY <1>2, <1>3, <1>4

(* A text of nothing but white space has no digits. *)
LEMMA BlankText ==
    ASSUME text \in Seq(Char), InkedText = {}
    PROVE  /\ HexText!Trim(text) = << >> /\ HexBody = << >>
           /\ \A p : HexText!Ink(p) = {}
<1>1. HexText!Trim(text) = << >>
  BY DEF InkedText, HexText!Trim
<1>2. Len(<< >>) = 0
  OBVIOUS
<1>3. HexBody = << >>
  BY <1>1, <1>2 DEF HexBody, HexText!strip_prefix
<1>4. ASSUME NEW p, NEW i \in HexText!Ink(p) PROVE FALSE
  <2>1. /\ i \in DOMAIN text /\ text[i] \notin HexText!AsciiWhitespace
        /\ text[i] = "nbsp" => \E j \in InkedText : TRUE
    BY DEF HexText!Ink, InkedText
  <2>2. text[i] # "nbsp"
    BY <2>1
  <2>3. text[i] \notin HexText!Whitespace
    BY <2>1, <2>2 DEF HexText!AsciiWhitespace, HexText!Whitespace
  <2> QED BY <2>1, <2>3 DEF InkedText
<1>5. \A p : HexText!Ink(p) = {}
  BY <1>4
<1> QED BY <1>1, <1>3, <1>5

(* The prefix is the first two characters that are no white space. *)
LEMMA PrefixIs ==
    ASSUME NEW n \in Nat, DOMAIN text = 1 .. n, Len(text) = n, InkedText # {},
           NEW a \in InkedText, \A k \in InkedText : a <= k
    PROVE  HexText!Prefixed <=>
               /\ text[a] = "0" /\ a + 1 \in InkedText /\ text[a + 1] \in {"x", "X"}
<1>1. a \in 1 .. n
  BY DEF InkedText
<1>2. ASSUME HexText!Prefixed
      PROVE  text[a] = "0" /\ a + 1 \in InkedText /\ text[a + 1] \in {"x", "X"}
  <2>1. PICK i \in 1 .. n - 1 : /\ text[i] = "0" /\ text[i + 1] \in {"x", "X"}
                               /\ \A j \in 1 .. i - 1 : text[j] \in HexText!Whitespace
    BY <1>2 DEF HexText!Prefixed
  <2>2. i \in 1 .. n /\ i + 1 \in 1 .. n
    BY <2>1
  <2>3. i \in InkedText /\ i + 1 \in InkedText
    BY <2>1, <2>2 DEF InkedText, HexText!Whitespace
  <2>4. ~(a \in 1 .. i - 1)
    BY <2>1 DEF InkedText
  <2>5. a = i
    <3>1. a <= i
      BY <2>3
    <3> QED BY <1>1, <2>1, <2>4, <3>1
  <2> QED BY <2>1, <2>3, <2>5
<1>3. ASSUME text[a] = "0", a + 1 \in InkedText, text[a + 1] \in {"x", "X"}
      PROVE  HexText!Prefixed
  <2>1. a + 1 \in 1 .. n
    BY <1>3 DEF InkedText
  <2>2. a \in 1 .. n - 1
    BY <1>1, <2>1
  <2>3. ASSUME NEW j \in 1 .. a - 1 PROVE text[j] \in HexText!Whitespace
    <3>1. j \in 1 .. n /\ ~(a <= j)
      BY <1>1
    <3> QED BY <3>1 DEF InkedText
  <2> QED BY <1>3, <2>2, <2>3 DEF HexText!Prefixed
<1> QED BY <1>2, <1>3

(* What -E and x keep of the text, from the first to the last character that is
   no white space. *)
LEMMA InkIs ==
    ASSUME NEW n \in Nat, DOMAIN text = 1 .. n, InkedText # {},
           NEW a \in InkedText, \A k \in InkedText : a <= k,
           NEW b \in InkedText, \A k \in InkedText : k <= b,
           NEW p \in {"user", "octets"}
    PROVE  HexText!Ink(p) = {i \in a .. b : /\ text[i] \notin HexText!Separators(p)
                                            /\ HexText!Prefixed => i > a + 1}
<1> DEFINE K == {i \in a .. b : /\ text[i] \notin HexText!Separators(p)
                                /\ HexText!Prefixed => i > a + 1}
<1>0. a = HexText!Min(InkedText)
  <2>1. InkedText \subseteq 1 .. n
    BY DEF InkedText
  <2>2. HexText!Min(InkedText) \in InkedText
        /\ \A k \in InkedText : HexText!Min(InkedText) <= k
    BY <2>1, EndsOf
  <2> DEFINE z == HexText!Min(InkedText)
  <2> HIDE DEF z
  <2>3. a <= z /\ z <= a
    BY <2>2 DEF z
  <2>4. a \in 1 .. n /\ z \in 1 .. n
    BY <2>1, <2>2 DEF z
  <2>5. a = z
    BY <2>3, <2>4
  <2> QED BY <2>5 DEF z
<1>1. a \in 1 .. n /\ b \in 1 .. n /\ text[a] # "nbsp" /\ text[b] # "nbsp"
  BY DEF InkedText, HexText!Whitespace
<1>2. HexText!Ink(p) = {i \in 1 .. n :
            /\ text[i] # ":" /\ text[i] # " "
            /\ HexText!Prefixed => i > a + 1
            /\ text[i] = "nbsp" => p = "user" /\ \E j, k \in InkedText : j < i /\ i < k}
  BY <1>0 DEF HexText!Ink, InkedText, HexText!AsciiWhitespace
<1>3. HexText!Separators(p) = IF p = "user" THEN {":", " "} ELSE {":", " ", "nbsp"}
  BY DEF HexText!Separators, HexText!AsciiWhitespace, HexText!Whitespace
<1>4. ASSUME NEW i \in HexText!Ink(p) PROVE i \in K
  <2>1. /\ i \in 1 .. n /\ text[i] # ":" /\ text[i] # " "
        /\ HexText!Prefixed => i > a + 1
        /\ text[i] = "nbsp" => p = "user" /\ \E j, k \in InkedText : j < i /\ i < k
    BY <1>2
  <2>2. text[i] \notin HexText!Separators(p)
    BY <1>3, <2>1
  <2>3. i \in a .. b
    <3>1. CASE text[i] = "nbsp"
      <4>1. PICK j, k \in InkedText : j < i /\ i < k
        BY <2>1, <3>1
      <4>2. j \in 1 .. n /\ k \in 1 .. n
        BY DEF InkedText
      <4>3. a <= j /\ k <= b
        OBVIOUS
      <4>4. i \in 1 .. n
        BY <2>1
      <4> QED BY <1>1, <4>1, <4>2, <4>3, <4>4
    <3>2. CASE text[i] # "nbsp"
      <4>1. i \in InkedText
        BY <2>1, <3>2 DEF InkedText, HexText!Whitespace
      <4>2. a <= i /\ i <= b /\ i \in 1 .. n
        BY <2>1, <4>1
      <4> QED BY <1>1, <4>2
    <3> QED BY <3>1, <3>2
  <2> QED BY <2>1, <2>2, <2>3
<1>5. ASSUME NEW i \in K PROVE i \in HexText!Ink(p)
  <2>1. i \in a .. b /\ text[i] \notin HexText!Separators(p) /\ (HexText!Prefixed => i > a + 1)
    OBVIOUS
  <2>2. i \in 1 .. n /\ text[i] # ":" /\ text[i] # " " /\ (text[i] = "nbsp" => p = "user")
    <3>1. i \in 1 .. n
      BY <1>1, <2>1
    <3>2. text[i] # ":" /\ text[i] # " " /\ (text[i] = "nbsp" => p = "user")
      BY <1>3, <2>1
    <3> QED BY <3>1, <3>2
  <2>3. ASSUME text[i] = "nbsp" PROVE a < i /\ i < b
    BY <1>1, <2>1, <2>3
  <2> QED BY <1>2, <2>1, <2>2, <2>3
<1> QED BY <1>4, <1>5

(* The characters between the ends, less the prefix. *)
LEMMA BodyInked ==
    ASSUME text \in Seq(Char)
    PROVE  /\ Sequential(HexBody) /\ Len(HexBody) \in Nat
           /\ \E o \in Nat : \A p \in {"user", "octets"} :
                 Inked(HexBody, HexText!Separators(p), text, o, HexText!Ink(p), Len(HexBody))
<1> DEFINE n == Len(text)
           a == HexText!Min(InkedText)
           b == HexText!Max(InkedText)
           s == HexText!Trim(text)
           m == Len(s)
<1>1. n \in Nat /\ DOMAIN text = 1 .. n /\ Sequential(text)
  BY SequentialOf
<1>2. CASE InkedText = {}
  <2>1. HexBody = << >> /\ \A p : HexText!Ink(p) = {}
    BY <1>2, BlankText
  <2>2. Sequential(<< >>) /\ Len(<< >>) = 0
    BY EmptySeq, SequentialOf
  <2>3. \A p \in {"user", "octets"} : Inked(<< >>, HexText!Separators(p), text, 0, {}, 0)
    BY DEF Inked
  <2> QED BY <2>1, <2>2, <2>3
<1>3. CASE InkedText # {}
  <2>1. /\ a \in InkedText /\ \A k \in InkedText : a <= k
        /\ b \in InkedText /\ \A k \in InkedText : k <= b
    <3>1. InkedText \subseteq 1 .. n
      BY <1>1 DEF InkedText
    <3> QED BY <1>1, <1>3, <3>1, EndsOf
  <2>2. s = SubSeq(text, a, b)
    BY <1>3 DEF InkedText, HexText!Trim
  <2>3. HexBody = IF m >= 2 /\ s[1] = "0" /\ s[2] \in {"x", "X"} THEN SubSeq(s, 3, m) ELSE s
    BY DEF HexBody, HexText!strip_prefix
  <2> HIDE DEF a, b, s
  <2>4. a \in 1 .. n /\ b \in 1 .. n /\ a <= b
    BY <1>1, <2>1 DEF InkedText
  <2>5. /\ Sequential(s) /\ m = b - a + 1
        /\ \A k \in 1 .. b - a + 1 : s[k] = text[a + k - 1]
    <3>1. a \in Nat /\ b \in Nat /\ a >= 1 /\ a <= b /\ b <= n
      BY <1>1, <2>4
    <3> QED BY <1>1, <2>2, <3>1, Slice
  <2>6. HexText!Prefixed <=>
            text[a] = "0" /\ a + 1 \in InkedText /\ text[a + 1] \in {"x", "X"}
    BY <1>1, <1>3, <2>1, PrefixIs
  <2>7. \A p \in {"user", "octets"} :
            HexText!Ink(p) = {i \in a .. b : /\ text[i] \notin HexText!Separators(p)
                                             /\ HexText!Prefixed => i > a + 1}
    BY <1>1, <1>3, <2>1, InkIs
  <2> HIDE DEF n, m
  <2>8. m \in Nat /\ m >= 1 /\ s[1] = text[a] /\ (m >= 2 => s[2] = text[a + 1])
    <3>1. 1 \in 1 .. b - a + 1 /\ a + 1 - 1 = a /\ a + 2 - 1 = a + 1
      BY <1>1, <2>4
    <3>2. m \in Nat /\ m >= 1 /\ (m >= 2 => 2 \in 1 .. b - a + 1)
      BY <1>1, <2>4, <2>5
    <3> QED BY <2>5, <3>1, <3>2
  <2>9. HexText!Prefixed <=> m >= 2 /\ s[1] = "0" /\ s[2] \in {"x", "X"}
    <3>1. ASSUME HexText!Prefixed PROVE m >= 2
      <4>1. a + 1 <= b
        BY <2>1, <2>6, <3>1
      <4> QED BY <1>1, <2>4, <2>5, <4>1
    <3>2. ASSUME m >= 2, s[2] \in {"x", "X"} PROVE a + 1 \in InkedText
      <4>1. a + 1 \in 1 .. n
        BY <1>1, <2>4, <2>5, <3>2
      <4> QED BY <1>1, <2>8, <3>2, <4>1 DEF InkedText, HexText!Whitespace
    <3> QED BY <2>6, <2>8, <3>1, <3>2
  <2>10. CASE ~HexText!Prefixed
    <3>1. HexBody = s
      BY <2>3, <2>9, <2>10
    <3> DEFINE o == a - 1
    <3>2. o \in Nat /\ o + 1 = a /\ o + m = b
      BY <1>1, <2>4, <2>5
    <3>3. \A i \in 1 .. m : i \in 1 .. b - a + 1 /\ a + i - 1 = o + i /\ o + i \in a .. b
      BY <1>1, <2>4, <2>5
    <3> HIDE DEF o
    <3>4. ASSUME NEW p \in {"user", "octets"}
          PROVE  Inked(s, HexText!Separators(p), text, o, HexText!Ink(p), m)
      <4>1. HexText!Ink(p) = {i \in a .. b : text[i] \notin HexText!Separators(p)}
        BY <2>7, <2>10
      <4>2. HexText!Ink(p) \subseteq o + 1 .. o + m
        BY <3>2, <4>1
      <4>3. ASSUME NEW i \in 1 .. m
            PROVE  /\ s[i] = text[o + i]
                   /\ s[i] \notin HexText!Separators(p) <=> o + i \in HexText!Ink(p)
        <5>1. s[i] = text[o + i] /\ o + i \in a .. b
          BY <2>5, <3>3
        <5> QED BY <4>1, <5>1
      <4> QED BY <4>2, <4>3 DEF Inked
    <3> QED BY <2>5, <2>8, <3>1, <3>2, <3>4 DEF m
  <2>11. CASE HexText!Prefixed
    <3> DEFINE r == SubSeq(s, 3, m)
               o == a + 1
               l == m - 2
    <3>1. HexBody = r /\ m >= 2
      BY <2>3, <2>9, <2>11
    <3>2. /\ Sequential(r) /\ Len(r) = m - 3 + 1
          /\ \A k \in 1 .. m - 3 + 1 : r[k] = s[3 + k - 1]
      <4>1. 3 \in Nat /\ 3 >= 1 /\ 3 <= m + 1
        BY <2>8, <3>1
      <4> QED BY <2>5, <4>1, Cut DEF m
    <3> HIDE DEF r
    <3>3. l \in Nat /\ Len(r) = l /\ o \in Nat /\ o + l = b
      BY <1>1, <2>4, <2>5, <2>8, <3>1, <3>2
    <3>4. \A i \in 1 .. l : /\ i \in 1 .. m - 3 + 1 /\ 3 + i - 1 \in 1 .. b - a + 1
                            /\ a + (3 + i - 1) - 1 = o + i /\ o + i \in a .. b /\ o + i > a + 1
      BY <1>1, <2>4, <2>5, <2>8, <3>1
    <3>5. \A i \in a .. b : i > a + 1 => i \in o + 1 .. o + l
      BY <1>1, <2>4, <3>3
    <3> HIDE DEF o, l
    <3>6. ASSUME NEW p \in {"user", "octets"}
          PROVE  Inked(r, HexText!Separators(p), text, o, HexText!Ink(p), l)
      <4>1. HexText!Ink(p) = {i \in a .. b : /\ text[i] \notin HexText!Separators(p)
                                             /\ i > a + 1}
        BY <2>7, <2>11
      <4>2. HexText!Ink(p) \subseteq o + 1 .. o + l
        BY <3>5, <4>1
      <4>3. ASSUME NEW i \in 1 .. l
            PROVE  /\ r[i] = text[o + i]
                   /\ r[i] \notin HexText!Separators(p) <=> o + i \in HexText!Ink(p)
        <5>1. r[i] = s[3 + i - 1] /\ s[3 + i - 1] = text[a + (3 + i - 1) - 1]
          BY <2>5, <3>2, <3>4
        <5>2. r[i] = text[o + i] /\ o + i \in a .. b /\ o + i > a + 1
          BY <3>4, <5>1
        <5> QED BY <4>1, <5>2
      <4> QED BY <4>2, <4>3 DEF Inked
    <3> QED BY <3>1, <3>2, <3>3, <3>6
  <2> QED BY <2>10, <2>11
<1> QED BY <1>2, <1>3

LEMMA KeptRanked ==
    ASSUME text \in Seq(Char), NEW p \in {"user", "octets"}
    PROVE  Ranked(Kept(p), HexText!Ink(p), text, HexText!Ink(p))
<1> DEFINE s == HexBody
           D == HexText!Separators(p)
           N == Len(s)
           C == HexText!collected(s, D)
           ink == HexText!Ink(p)
<1>1. N \in Nat
  BY BodyInked
<1>2. PICK o \in Nat : Inked(s, D, text, o, ink, N)
  BY BodyInked
<1>3. Collects(C, s, D, N)
  BY <1>1, CollectedRule
<1>4. Kept(p) = C[N]
  BY DEF Kept, HexText!Collect
<1> HIDE DEF s, D, N, C, ink
<1>5. Ranked(C[N], ink, text, ink)
  BY <1>1, <1>2, <1>3, CollectedRanked
<1> QED BY <1>4, <1>5 DEF ink

LEMMA NibbleIs ==
    ASSUME NEW b, HexText!IsHex(b)
    PROVE  HexText!decode_hex_nibble[b] \in 0 .. 15
BY DEF HexText!IsHex, HexText!decode_hex_nibble

LEMMA OctetIs ==
    ASSUME NEW hi, NEW lo, HexText!IsHex(hi), HexText!IsHex(lo)
    PROVE  /\ HexText!Octet(hi, lo) \div 16 = HexText!decode_hex_nibble[hi]
           /\ HexText!Octet(hi, lo) % 16 = HexText!decode_hex_nibble[lo]
<1> DEFINE h == HexText!decode_hex_nibble[hi]
           l == HexText!decode_hex_nibble[lo]
<1>1. h \in 0 .. 15 /\ l \in 0 .. 15
  BY NibbleIs
<1>2. HexText!Octet(hi, lo) = 16 * h + l
  BY DEF HexText!Octet
<1> HIDE DEF h, l
<1>3. (16 * h + l) \div 16 = h /\ (16 * h + l) % 16 = l
  BY <1>1
<1> QED BY <1>2, <1>3 DEF h, l

LEMMA CountIs == \A S : HexText!Cardinality(S) = Cardinality(S)
BY Zenon DEF HexText!Cardinality, Cardinality

(* The k-th digit of the text is the k-th octet that was kept. *)
LEMMA DigitIs ==
    ASSUME text \in Seq(Char), NEW p \in {"user", "octets"}, AllHex(Kept(p)),
           NEW k \in 1 .. Len(Kept(p))
    PROVE  text[CHOOSE i \in HexText!Ink(p) :
                    HexText!Cardinality({j \in HexText!Ink(p) : j <= i}) = k] = Kept(p)[k]
<1> DEFINE ink == HexText!Ink(p)
           c == Kept(p)
           d == CHOOSE i \in ink : HexText!Cardinality({j \in ink : j <= i}) = k
<1>1. Ranked(c, ink, text, ink)
  BY KeptRanked
<1> HIDE DEF ink, c
<1>2. /\ \A i \in ink : c[Rank(ink, i)] = text[i]
      /\ \E i \in ink : Rank(ink, i) = k
  BY <1>1 DEF Ranked, c
<1>3. \A i : HexText!Cardinality({j \in ink : j <= i}) = Rank(ink, i)
  BY CountIs, Zenon DEF Rank, Upto
<1>4. d \in ink /\ Rank(ink, d) = k
  BY <1>2, <1>3
<1> HIDE DEF d
<1>5. text[d] = c[k]
  BY <1>2, <1>4
<1> QED BY <1>5, Zenon DEF ink, c, d

(* What DigitsDecide says of one parser. *)
DigitsOf(p) ==
    LET ink == HexText!Ink(p)
        n   == HexText!Cardinality(ink)
        Digit(k) == text[CHOOSE i \in ink : HexText!Cardinality({j \in ink : j <= i}) = k]
        good == /\ \A i \in ink : HexText!IsHex(text[i])
                /\ n % 2 = 0
                /\ p = "user" => n \div 2 \in MIN_ENGINE_ID .. MAX_ENGINE_ID
    IN  /\ HexText!Accepted(p) <=> good
        /\ good => \A k \in 1 .. n \div 2 :
              /\ answers[p].octets[k] \div 16 = HexText!decode_hex_nibble[Digit(2 * k - 1)]
              /\ answers[p].octets[k] % 16 = HexText!decode_hex_nibble[Digit(2 * k)]

LEMMA Digits ==
    ASSUME text \in Seq(Char), NEW p \in {"user", "octets"}, HexVerdict(p)
    PROVE  DigitsOf(p)
<1> DEFINE ink == HexText!Ink(p)
           n == HexText!Cardinality(ink)
           Digit(k) == text[CHOOSE i \in ink : HexText!Cardinality({j \in ink : j <= i}) = k]
           good == /\ \A i \in ink : HexText!IsHex(text[i])
                   /\ n % 2 = 0
                   /\ p = "user" => n \div 2 \in MIN_ENGINE_ID .. MAX_ENGINE_ID
           c == Kept(p)
           octets == answers[p].octets
<1>1. /\ AllHex(c) <=> \A i \in ink : HexText!IsHex(text[i])
      /\ AllHex(c) => Len(c) = n
      /\ Len(c) \in Nat
  BY KeptRanked, CountIs DEF Ranked
<1>2. \A k \in 1 .. Len(c) : AllHex(c) => Digit(k) = c[k]
  BY DigitIs
<1> HIDE DEF ink, n, Digit
<1>3. good <=> HexReadable(p)
  BY <1>1 DEF HexReadable
<1>4. HexText!Accepted(p) <=> good
  BY <1>3 DEF HexVerdict
<1>5. ASSUME good, NEW k \in 1 .. n \div 2
      PROVE  /\ octets[k] \div 16 = HexText!decode_hex_nibble[Digit(2 * k - 1)]
             /\ octets[k] % 16 = HexText!decode_hex_nibble[Digit(2 * k)]
  <2>1. AllHex(c) /\ Len(c) = n /\ answers[p] = HexText!Ok(Paired(c))
    BY <1>1, <1>3, <1>5 DEF HexVerdict
  <2> HIDE DEF c
  <2>2. octets = [i \in 1 .. n \div 2 |-> HexText!Octet(c[2 * i - 1], c[2 * i])]
    BY <2>1 DEF HexText!Ok, Paired
  <2> HIDE DEF octets
  <2>3. n \in Nat
    BY <1>1, <2>1
  <2>4. 2 * k - 1 \in 1 .. n /\ 2 * k \in 1 .. n
    BY <2>3
  <2>5. /\ Digit(2 * k - 1) = c[2 * k - 1] /\ Digit(2 * k) = c[2 * k]
        /\ HexText!IsHex(c[2 * k - 1]) /\ HexText!IsHex(c[2 * k])
    BY <1>2, <2>1, <2>4 DEF AllHex
  <2>6. octets[k] = HexText!Octet(c[2 * k - 1], c[2 * k])
    BY <2>2
  <2> QED BY <2>5, <2>6, OctetIs
<1> HIDE DEF good, octets, c
<1>6. /\ HexText!Accepted(p) <=> good
      /\ good => \A k \in 1 .. n \div 2 :
             /\ octets[k] \div 16 = HexText!decode_hex_nibble[Digit(2 * k - 1)]
             /\ octets[k] % 16 = HexText!decode_hex_nibble[Digit(2 * k)]
  BY <1>4, <1>5
<1> QED BY <1>6, Zenon DEF ink, n, Digit, good, octets, DigitsOf

LEMMA DigitsFollow == HexInv => DigitsDecide
<1> SUFFICES ASSUME HexInv PROVE DigitsDecide
  OBVIOUS
<1>1. text \in Seq(Char)
  BY DEF HexInv
<1>2. \A p \in {"user", "octets"} : HexText!Answered(p) => HexVerdict(p)
  BY DEF HexInv
<1>3. \A p \in {"user", "octets"} : HexText!Answered(p) => DigitsOf(p)
  BY <1>1, <1>2, Digits
<1> QED BY <1>3, Zenon DEF DigitsDecide, HexText!DigitsDecide, DigitsOf

(* A no-break space leaves an octet that is no digit: -E and x keep the same of
   a text that -E accepts. *)
LEMMA KeptAlike ==
    ASSUME text \in Seq(Char), AllHex(Kept("user"))
    PROVE  Kept("octets") = Kept("user")
<1> DEFINE s == HexBody
           N == Len(s)
           U == HexText!Separators("user")
           O == HexText!Separators("octets")
           C == HexText!collected(s, U)
           X == HexText!collected(s, O)
           G == {n \in Nat : n <= N => Sequential(C[n]) /\ (AllHex(C[n]) => X[n] = C[n])}
<1>1. N \in Nat
  BY BodyInked
<1>2. Collects(C, s, U, N) /\ Collects(X, s, O, N)
  BY <1>1, CollectedRule
<1>3. O = U \cup {"nbsp"}
  BY DEF HexText!Separators, HexText!AsciiWhitespace, HexText!Whitespace
<1>4. Kept("user") = C[N] /\ Kept("octets") = X[N]
  BY DEF Kept, HexText!Collect
<1> HIDE DEF s, N, U, O, C, X
<1>5. 0 \in G
  <2>1. Sequential(<< >>)
    BY EmptySeq, SequentialOf
  <2> QED BY <1>2, <2>1 DEF Collects
<1>6. ASSUME NEW n \in Nat, n \in G PROVE n + 1 \in G
  <2> SUFFICES ASSUME n + 1 <= N
               PROVE  Sequential(C[n + 1]) /\ (AllHex(C[n + 1]) => X[n + 1] = C[n + 1])
    OBVIOUS
  <2> DEFINE ch == s[n + 1]
  <2>1. n <= N /\ n + 1 \in 1 .. N /\ (n + 1) - 1 = n
    BY <1>1
  <2>2. Sequential(C[n]) /\ (AllHex(C[n]) => X[n] = C[n])
    BY <1>6, <2>1
  <2>3. /\ C[n + 1] = IF ch \in U THEN C[n] ELSE C[n] \o HexText!Utf8(ch)
        /\ X[n + 1] = IF ch \in O THEN X[n] ELSE X[n] \o HexText!Utf8(ch)
    BY <1>2, <2>1 DEF Collects
  <2> HIDE DEF ch
  <2>4. CASE ch \in U
    BY <1>3, <2>2, <2>3, <2>4
  <2>5. CASE ch \notin U
    <3> DEFINE d == C[n] \o HexText!Utf8(ch)
    <3>1. Sequential(d) /\ (AllHex(d) <=> AllHex(C[n]) /\ HexText!IsHex(ch))
      BY <2>2, HexAppended
    <3>2. C[n + 1] = d
      BY <2>3, <2>5
    <3>3. ASSUME AllHex(d) PROVE X[n + 1] = d
      <4>1. X[n] = C[n] /\ ch # "nbsp"
        BY <2>2, <3>1, <3>3, NbspNotHex
      <4>2. ch \notin O
        BY <1>3, <2>5, <4>1
      <4> QED BY <2>3, <4>1, <4>2
    <3> QED BY <3>1, <3>2, <3>3
  <2> QED BY <2>4, <2>5
<1>7. N \in G
  <2> HIDE DEF G
  <2> QED BY <1>1, <1>5, <1>6, SetInduction
<1> QED BY <1>1, <1>4, <1>7

(* What split leaves after each character: the recursion holds. *)
PartedTo(P, s, N) ==
    P = [n \in 0 .. N |->
            IF n = 0 THEN << << >> >>
            ELSE IF s[n] = ":" THEN Append(P[n - 1], << >>)
            ELSE [P[n - 1] EXCEPT ![Len(P[n - 1])] = @ \o HexText!Utf8(s[n])]]

Parting(P, s, N) ==
    /\ P[0] = << << >> >>
    /\ \A n \in 1 .. N :
          P[n] = IF s[n] = ":" THEN Append(P[n - 1], << >>)
                 ELSE [P[n - 1] EXCEPT ![Len(P[n - 1])] = @ \o HexText!Utf8(s[n])]

LEMMA PartedExist ==
    ASSUME NEW s, NEW K \in Nat
    PROVE  \E P : PartedTo(P, s, K)
<1> DEFINE next(p, n) == IF s[n] = ":" THEN Append(p, << >>)
                         ELSE [p EXCEPT ![Len(p)] = @ \o HexText!Utf8(s[n])]
           Rec(f, k) == f = [n \in 0 .. k |-> IF n = 0 THEN << << >> >> ELSE next(f[n - 1], n)]
           G == {k \in Nat : \E f : Rec(f, k)}
<1> HIDE DEF next
<1>1. 0 \in G
  <2> DEFINE f == [n \in 0 .. 0 |-> << << >> >>]
  <2>1. Rec(f, 0)
    OBVIOUS
  <2> QED BY <2>1
<1>2. ASSUME NEW k \in Nat, k \in G PROVE k + 1 \in G
  <2>1. PICK f : Rec(f, k)
    BY <1>2
  <2> DEFINE g == [n \in 0 .. k + 1 |-> IF n = k + 1 THEN next(f[k], k + 1) ELSE f[n]]
  <2>2. ASSUME NEW n \in 0 .. k + 1
        PROVE  g[n] = IF n = 0 THEN << << >> >> ELSE next(g[n - 1], n)
    <3>1. CASE n = k + 1
      BY <3>1
    <3>2. CASE n \in 0 .. k
      BY <2>1, <3>2
    <3> QED BY <3>1, <3>2
  <2>3. Rec(g, k + 1)
    BY <2>2
  <2> HIDE DEF g, Rec
  <2> QED BY <2>3
<1> HIDE DEF Rec
<1>3. K \in G
  <2> HIDE DEF G
  <2> QED BY <1>1, <1>2, SetInduction
<1>4. \E f : Rec(f, K)
  BY <1>3
<1> QED BY <1>4 DEF next, Rec, PartedTo

LEMMA PartedRule ==
    ASSUME NEW s, Len(s) \in Nat
    PROVE  Parting(HexText!parted(s), s, Len(s))
<1> DEFINE N == Len(s)
           P == HexText!parted(s)
<1>1. P = CHOOSE f : PartedTo(f, s, N)
  BY Zenon DEF HexText!parted, PartedTo
<1>2. N \in Nat
  OBVIOUS
<1> HIDE DEF N
<1>3. \E f : PartedTo(f, s, N)
  BY <1>2, PartedExist
<1>4. PartedTo(P, s, N)
  BY <1>1, <1>3
<1> HIDE DEF P
<1>5. \A n \in 0 .. N : P[n] = IF n = 0 THEN << << >> >>
          ELSE IF s[n] = ":" THEN Append(P[n - 1], << >>)
          ELSE [P[n - 1] EXCEPT ![Len(P[n - 1])] = @ \o HexText!Utf8(s[n])]
  BY <1>4 DEF PartedTo
<1>6. P[0] = << << >> >>
  <2>1. 0 \in 0 .. N
    BY <1>2
  <2> DEFINE later(n) == IF s[n] = ":" THEN Append(P[n - 1], << >>)
                         ELSE [P[n - 1] EXCEPT ![Len(P[n - 1])] = @ \o HexText!Utf8(s[n])]
  <2>2. \A n \in 0 .. N : P[n] = IF n = 0 THEN << << >> >> ELSE later(n)
    BY <1>5
  <2> HIDE DEF later
  <2> QED BY <2>1, <2>2
<1>7. ASSUME NEW n \in 1 .. N
      PROVE  P[n] = IF s[n] = ":" THEN Append(P[n - 1], << >>)
                    ELSE [P[n - 1] EXCEPT ![Len(P[n - 1])] = @ \o HexText!Utf8(s[n])]
  <2>1. n \in 0 .. N /\ n # 0
    BY <1>2
  <2> QED BY <1>5, <2>1
<1> QED BY <1>6, <1>7 DEF Parting, P, N

(* Parts that may still become those of a MAC address, and the octets of a text
   without their colons. *)
PartsAre(P) ==
    /\ Sequential(P) /\ Len(P) \in Nat /\ Len(P) >= 1
    /\ \A i \in 1 .. Len(P) : Sequential(P[i])

Promising(P) ==
    /\ \A i \in 1 .. Len(P) - 1 : Len(P[i]) = 2
    /\ Len(P[Len(P)]) <= 2
    /\ \A i \in 1 .. Len(P) : AllHex(P[i])

Joined(c, P) ==
    /\ Sequential(c)
    /\ Len(c) = 2 * (Len(P) - 1) + Len(P[Len(P)])
    /\ \A i \in 1 .. Len(P) : \A e \in 1 .. Len(P[i]) : c[2 * (i - 1) + e] = P[i][e]

LEMMA FirstPart ==
    PartsAre(<< << >> >>) /\ Joined(<< >>, << << >> >>)
<1> DEFINE P == << << >> >>
<1>1. P \in Seq({<< >>}) /\ Len(P) = 1 /\ P[1] = << >> /\ Len(<< >>) = 0
  OBVIOUS
<1>2. Sequential(P) /\ Sequential(<< >>)
  BY <1>1, EmptySeq, SequentialOf
<1> HIDE DEF P
<1>3. Len(P) \in Nat /\ Len(P) >= 1 /\ \A i \in 1 .. Len(P) : P[i] = << >>
  BY <1>1
<1>4. PartsAre(P)
  BY <1>2, <1>3 DEF PartsAre
<1>5. Joined(<< >>, P)
  BY <1>1, <1>2, <1>3 DEF Joined
<1> QED BY <1>4, <1>5 DEF P

LEMMA PartClosed ==
    ASSUME NEW P, PartsAre(P)
    PROVE  LET Q == Append(P, << >>)
           IN  /\ PartsAre(Q)
               /\ Promising(Q) => Promising(P)
               /\ \A c : Promising(Q) /\ Joined(c, P) => Joined(c, Q)
<1> DEFINE Q == Append(P, << >>)
           n == Len(P)
<1>1. /\ Sequential(P) /\ n \in Nat /\ n >= 1
      /\ \A i \in 1 .. n : Sequential(P[i])
  BY DEF PartsAre
<1>2. /\ Sequential(Q) /\ Len(Q) = n + 1
      /\ \A k \in 1 .. n : Q[k] = P[k]
      /\ Q[n + 1] = << >>
  BY <1>1, Appended
<1> HIDE DEF Q, n
<1>3. Sequential(<< >>) /\ Len(<< >>) = 0
  BY EmptySeq, SequentialOf
<1>4. \A i \in 1 .. n + 1 : i \in 1 .. n \/ i = n + 1
  BY <1>1
<1>5. PartsAre(Q)
  <2>1. \A i \in 1 .. n + 1 : Sequential(Q[i])
    BY <1>1, <1>2, <1>3, <1>4
  <2> QED BY <1>1, <1>2, <2>1 DEF PartsAre
<1>6. ASSUME Promising(Q)
      PROVE  Promising(P) /\ Len(P[n]) = 2
  <2>1. /\ \A i \in 1 .. n : Len(Q[i]) = 2
        /\ \A i \in 1 .. n + 1 : AllHex(Q[i])
    BY <1>1, <1>2, <1>6 DEF Promising
  <2>2. \A i \in 1 .. n : Len(P[i]) = 2 /\ AllHex(P[i])
    BY <1>1, <1>2, <2>1
  <2>3. n \in 1 .. n /\ \A i \in 1 .. n - 1 : i \in 1 .. n
    BY <1>1
  <2>4. Len(P[n]) = 2
    BY <2>2, <2>3
  <2>5. (\A i \in 1 .. n - 1 : Len(P[i]) = 2) /\ Len(P[n]) <= 2
        /\ \A i \in 1 .. n : AllHex(P[i])
    BY <2>2, <2>3, <2>4
  <2> QED BY <2>4, <2>5 DEF Promising, n
<1>7. ASSUME Promising(Q), NEW c, Joined(c, P) PROVE Joined(c, Q)
  <2>1. Len(P[n]) = 2 /\ Sequential(c) /\ Len(c) = 2 * (n - 1) + Len(P[n])
    BY <1>6, <1>7 DEF Joined, n
  <2>2. Len(c) = 2 * ((n + 1) - 1) + 0
    BY <1>1, <2>1
  <2>3. \A i \in 1 .. n : \A e \in 1 .. Len(P[i]) : c[2 * (i - 1) + e] = P[i][e]
    BY <1>7 DEF Joined, n
  <2>4. ASSUME NEW i \in 1 .. n + 1, NEW e \in 1 .. Len(Q[i])
        PROVE  c[2 * (i - 1) + e] = Q[i][e]
    <3>1. i # n + 1
      BY <1>2, <1>3
    <3>2. i \in 1 .. n /\ Q[i] = P[i]
      BY <1>2, <1>4, <3>1
    <3> QED BY <2>3, <3>2
  <2> QED BY <1>2, <1>3, <2>1, <2>2, <2>4 DEF Joined
<1> QED BY <1>5, <1>6, <1>7 DEF Q

LEMMA PartGrown ==
    ASSUME NEW P, PartsAre(P), NEW ch
    PROVE  LET Q == [P EXCEPT ![Len(P)] = @ \o HexText!Utf8(ch)]
           IN  /\ PartsAre(Q)
               /\ Promising(Q) => Promising(P) /\ HexText!IsHex(ch)
               /\ \A c : Promising(Q) /\ Joined(c, P) => Joined(c \o HexText!Utf8(ch), Q)
<1> DEFINE n == Len(P)
           u == HexText!Utf8(ch)
           p == P[n]
           q == p \o u
           l == Len(p)
           Q == [P EXCEPT ![n] = q]
<1>1. /\ Sequential(P) /\ n \in Nat /\ n >= 1
      /\ \A i \in 1 .. n : Sequential(P[i])
  BY DEF PartsAre
<1>2. n \in 1 .. n /\ Sequential(p)
  BY <1>1
<1>3. /\ Sequential(q) /\ l \in Nat /\ Len(q) \in Nat /\ Len(q) > l
      /\ (AllHex(q) <=> AllHex(p) /\ HexText!IsHex(ch))
      /\ \A k \in 1 .. l : q[k] = p[k]
      /\ (HexText!IsHex(ch) => Len(q) = l + 1 /\ q[l + 1] = ch)
  BY <1>2, HexAppended
<1>4. Q = [P EXCEPT ![Len(P)] = @ \o HexText!Utf8(ch)]
  BY <1>1
<1> HIDE DEF q
<1>5. /\ Sequential(Q) /\ Len(Q) = n /\ Q[n] = q
      /\ \A k \in 1 .. n : k # n => Q[k] = P[k]
  <2> DEFINE T == {P[k] : k \in DOMAIN P} \cup {q}
  <2>1. P \in Seq(T) /\ q \in T
    BY <1>1, SeqMonotonic DEF Sequential
  <2> HIDE DEF T
  <2>2. /\ Q \in Seq(T) /\ Len(Q) = n
        /\ \A k \in 1 .. n : Q[k] = IF k = n THEN q ELSE P[k]
    BY <1>2, <2>1, ExceptSeq
  <2> HIDE DEF Q
  <2> QED BY <1>2, <2>2, SequentialOf
<1> HIDE DEF Q, n, p, l
<1>6. PartsAre(Q)
  <2>1. \A i \in 1 .. n : Sequential(Q[i])
    BY <1>1, <1>3, <1>5
  <2> QED BY <1>1, <1>5, <2>1 DEF PartsAre
<1>7. ASSUME Promising(Q)
      PROVE  Promising(P) /\ HexText!IsHex(ch)
  <2>1. /\ \A i \in 1 .. n - 1 : Len(Q[i]) = 2
        /\ Len(q) <= 2
        /\ \A i \in 1 .. n : AllHex(Q[i])
    BY <1>5, <1>7 DEF Promising
  <2>2. AllHex(q)
    BY <1>2, <1>5, <2>1
  <2>3. AllHex(p) /\ HexText!IsHex(ch) /\ l <= 2
    BY <1>3, <2>1, <2>2
  <2>4. \A i \in 1 .. n - 1 : i \in 1 .. n /\ i # n
    BY <1>1
  <2>5. \A i \in 1 .. n - 1 : Len(P[i]) = 2
    BY <1>5, <2>1, <2>4
  <2>6. \A i \in 1 .. n : AllHex(P[i])
    BY <1>5, <2>1, <2>3 DEF p
  <2> QED BY <2>3, <2>5, <2>6 DEF Promising, n, p, l
<1>8. ASSUME Promising(Q), NEW c, Joined(c, P) PROVE Joined(c \o u, Q)
  <2> DEFINE d == c \o u
             m == Len(c)
  <2>1. Sequential(c) /\ m = 2 * (n - 1) + l
        /\ \A i \in 1 .. n : \A e \in 1 .. Len(P[i]) : c[2 * (i - 1) + e] = P[i][e]
    BY <1>8 DEF Joined, n, l, p
  <2>2. HexText!IsHex(ch)
    BY <1>7, <1>8
  <2>3. /\ Sequential(d) /\ m \in Nat
        /\ \A k \in 1 .. m : d[k] = c[k]
        /\ Len(d) = m + 1 /\ d[m + 1] = ch
    BY <2>1, <2>2, HexAppended
  <2> HIDE DEF d, m
  <2>4. Len(q) = l + 1 /\ q[l + 1] = ch
    BY <1>3, <2>2
  <2>5. Len(d) = 2 * (n - 1) + Len(q)
    BY <1>1, <1>3, <2>1, <2>3, <2>4
  <2>6. \A i \in 1 .. n - 1 : Len(P[i]) = 2
    BY <1>7, <1>8 DEF Promising, n
  <2>7. ASSUME NEW i \in 1 .. n, NEW e \in 1 .. Len(Q[i])
        PROVE  d[2 * (i - 1) + e] = Q[i][e]
    <3>1. CASE i # n
      <4>1. i \in 1 .. n - 1 /\ Q[i] = P[i] /\ Len(P[i]) = 2
        BY <1>1, <1>5, <2>6, <3>1
      <4>2. e \in 1 .. 2
        BY <4>1
      <4>3. 2 * (i - 1) + e \in 1 .. m
        BY <1>1, <1>3, <2>1, <2>3, <4>1, <4>2
      <4>4. c[2 * (i - 1) + e] = P[i][e]
        BY <2>1, <4>1
      <4> QED BY <2>3, <4>1, <4>3, <4>4
    <3>2. CASE i = n
      <4>1. e \in 1 .. l + 1 /\ Q[i] = q
        BY <1>5, <2>4, <3>2
      <4>2. CASE e = l + 1
        <5>1. 2 * (i - 1) + e = m + 1
          BY <1>1, <1>3, <2>1, <3>2, <4>2
        <5> QED BY <2>3, <2>4, <4>1, <4>2, <5>1
      <4>3. CASE e # l + 1
        <5>1. e \in 1 .. l
          BY <1>3, <4>1, <4>3
        <5>3. 2 * (i - 1) + e \in 1 .. m
          <6>1. 2 * (n - 1) \in Nat
            BY <1>1
          <6> QED BY <1>3, <2>1, <2>3, <3>2, <5>1, <6>1
        <5>2. c[2 * (i - 1) + e] = p[e]
          BY <2>1, <3>2, <5>1 DEF p, l
        <5> QED BY <1>3, <2>3, <4>1, <5>3, <5>1, <5>2
      <4> QED BY <4>2, <4>3
    <3> QED BY <3>1, <3>2
  <2> QED BY <1>5, <2>3, <2>5, <2>7 DEF Joined, d
<1> QED BY <1>4, <1>6, <1>7, <1>8 DEF u

LEMMA TrimIs ==
    ASSUME text \in Seq(Char)
    PROVE  Sequential(HexText!Trim(text)) /\ Len(HexText!Trim(text)) \in Nat
<1> DEFINE n == Len(text)
           a == HexText!Min(InkedText)
           b == HexText!Max(InkedText)
<1>1. n \in Nat /\ DOMAIN text = 1 .. n /\ Sequential(text)
  BY SequentialOf
<1>2. CASE InkedText = {}
  <2>1. HexText!Trim(text) = << >>
    BY <1>2, BlankText
  <2> QED BY <2>1, EmptySeq, SequentialOf
<1>3. CASE InkedText # {}
  <2>1. a \in InkedText /\ b \in InkedText /\ a <= b
    <3>1. InkedText \subseteq 1 .. n
      BY <1>1 DEF InkedText
    <3> QED BY <1>1, <1>3, <3>1, EndsOf
  <2>2. HexText!Trim(text) = SubSeq(text, a, b)
    BY <1>3 DEF InkedText, HexText!Trim
  <2> HIDE DEF a, b, n
  <2>3. a \in 1 .. n /\ b \in 1 .. n
    BY <1>1, <2>1 DEF InkedText
  <2>4. a \in Nat /\ b \in Nat /\ a >= 1 /\ a <= b /\ b <= n /\ b - a + 1 \in Nat
    BY <1>1, <2>1, <2>3
  <2>5. Sequential(SubSeq(text, a, b)) /\ Len(SubSeq(text, a, b)) = b - a + 1
    BY <1>1, <2>4, Slice DEF n
  <2> QED BY <2>2, <2>4, <2>5
<1> QED BY <1>2, <1>3

(* The parts of a text that may still be a MAC address hold its octets, of digits
   and colons only. *)
Parted(C, P, s, n) ==
    /\ PartsAre(P[n])
    /\ Promising(P[n]) => /\ Joined(C[n], P[n])
                          /\ \A m \in 1 .. n : s[m] = ":" \/ HexText!IsHex(s[m])

LEMMA PartedJoined ==
    ASSUME NEW s, NEW N \in Nat, NEW C, Collects(C, s, HexText!Separators("octets"), N),
           NEW P, Parting(P, s, N)
    PROVE  Parted(C, P, s, N)
<1> DEFINE G == {n \in Nat : n <= N => Parted(C, P, s, n)}
           O == HexText!Separators("octets")
<1>1. O = {":", " ", "nbsp"}
  BY DEF HexText!Separators, HexText!Whitespace
<1>2. \A b : HexText!IsHex(b) => b \notin O
  BY <1>1 DEF HexText!IsHex, HexText!decode_hex_nibble
<1>3. 0 \in G
  <2>1. C[0] = << >> /\ P[0] = << << >> >>
    BY DEF Collects, Parting
  <2> QED BY <2>1, FirstPart DEF Parted
<1>4. ASSUME NEW n \in Nat, n \in G PROVE n + 1 \in G
  <2> SUFFICES ASSUME n + 1 <= N PROVE Parted(C, P, s, n + 1)
    OBVIOUS
  <2> DEFINE ch == s[n + 1]
             p == P[n]
             q == P[n + 1]
             c == C[n]
             d == C[n + 1]
  <2>1. n <= N /\ n + 1 \in 1 .. N /\ (n + 1) - 1 = n
    OBVIOUS
  <2>2. \A m \in 1 .. n + 1 : m \in 1 .. n \/ m = n + 1
    OBVIOUS
  <2>3. Parted(C, P, s, n)
    BY <1>4, <2>1
  <2>4. /\ PartsAre(p)
        /\ Promising(p) => Joined(c, p)
        /\ Promising(p) => \A m \in 1 .. n : s[m] = ":" \/ HexText!IsHex(s[m])
    BY <2>3 DEF Parted
  <2>5. /\ d = IF ch \in O THEN c ELSE c \o HexText!Utf8(ch)
        /\ q = IF ch = ":" THEN Append(p, << >>)
               ELSE [p EXCEPT ![Len(p)] = @ \o HexText!Utf8(ch)]
    BY <2>1 DEF Collects, Parting
  <2> HIDE DEF p, q, c, d, O
  <2>6. CASE ch = ":"
    <3>1. d = c /\ q = Append(p, << >>)
      BY <1>1, <2>5, <2>6
    <3>2. /\ PartsAre(q)
          /\ Promising(q) => Promising(p)
          /\ \A x : Promising(q) /\ Joined(x, p) => Joined(x, q)
      BY <2>4, <3>1, PartClosed
    <3>3. Promising(q) => Joined(d, q)
      BY <2>4, <3>1, <3>2
    <3>4. Promising(q) => \A m \in 1 .. n + 1 : s[m] = ":" \/ HexText!IsHex(s[m])
      BY <2>2, <2>4, <2>6, <3>2
    <3> QED BY <3>2, <3>3, <3>4 DEF Parted, q, d
  <2>7. CASE ch # ":"
    <3>1. q = [p EXCEPT ![Len(p)] = @ \o HexText!Utf8(ch)]
      BY <2>5, <2>7
    <3>2. /\ PartsAre(q)
          /\ Promising(q) => Promising(p) /\ HexText!IsHex(ch)
          /\ \A x : Promising(q) /\ Joined(x, p) => Joined(x \o HexText!Utf8(ch), q)
      BY <2>4, <3>1, PartGrown
    <3>3. Promising(q) => Joined(d, q)
      <4> SUFFICES ASSUME Promising(q) PROVE Joined(d, q)
        OBVIOUS
      <4>1. d = c \o HexText!Utf8(ch)
        BY <1>2, <2>5, <3>2
      <4> QED BY <2>4, <3>2, <4>1
    <3>4. Promising(q) => \A m \in 1 .. n + 1 : s[m] = ":" \/ HexText!IsHex(s[m])
      BY <2>2, <2>4, <3>2
    <3> QED BY <3>2, <3>3, <3>4 DEF Parted, q, d
  <2> QED BY <2>6, <2>7
<1>5. N \in G
  <2> HIDE DEF G
  <2> QED BY <1>3, <1>4, SetInduction
<1> QED BY <1>5

LEMMA Halves ==
    ASSUME NEW n \in Nat, NEW k \in 1 .. 2 * n
    PROVE  \E i \in 1 .. n : \E e \in 1 .. 2 : k = 2 * (i - 1) + e
<1> DEFINE i == (k + 1) \div 2
           e == k - 2 * (i - 1)
<1>1. i \in 1 .. n /\ e \in 1 .. 2 /\ k = 2 * (i - 1) + e
  OBVIOUS
<1> HIDE DEF i, e
<1> QED BY <1>1

LEMMA MacJoined ==
    ASSUME NEW P, PartsAre(P), HexText!IsMac(P)
    PROVE  /\ Promising(P)
           /\ \A c : Joined(c, P) =>
                 /\ AllHex(c) /\ Len(c) % 2 = 0
                 /\ Paired(c) = [i \in DOMAIN P |-> HexText!Octet(P[i][1], P[i][2])]
<1> DEFINE n == Len(P)
<1>1. n \in Nat /\ n >= 1 /\ DOMAIN P = 1 .. n
  BY Lengths DEF PartsAre
<1>2. \A i \in 1 .. n : Len(P[i]) = 2 /\ HexText!IsHex(P[i][1]) /\ HexText!IsHex(P[i][2])
  BY <1>1 DEF HexText!IsMac
<1> HIDE DEF n
<1>3. Promising(P)
  <2>1. n \in 1 .. n /\ \A i \in 1 .. n - 1 : i \in 1 .. n
    BY <1>1
  <2>2. ASSUME NEW i \in 1 .. n PROVE AllHex(P[i])
    <3>1. \A k \in 1 .. 2 : k = 1 \/ k = 2
      OBVIOUS
    <3> QED BY <1>2, <3>1 DEF AllHex
  <2>3. Len(P[n]) = 2
    BY <1>2, <2>1
  <2>4. Len(P[n]) <= 2 /\ \A i \in 1 .. n - 1 : Len(P[i]) = 2
    BY <1>2, <2>1, <2>3
  <2> QED BY <2>2, <2>4 DEF Promising, n
<1>4. ASSUME NEW c, Joined(c, P)
      PROVE  /\ AllHex(c) /\ Len(c) % 2 = 0
             /\ Paired(c) = [i \in DOMAIN P |-> HexText!Octet(P[i][1], P[i][2])]
  <2> DEFINE m == Len(c)
  <2>1. /\ m = 2 * (n - 1) + Len(P[n])
        /\ \A i \in 1 .. n : \A e \in 1 .. Len(P[i]) : c[2 * (i - 1) + e] = P[i][e]
    BY <1>4 DEF Joined, n
  <2> HIDE DEF m
  <2>2. n \in 1 .. n
    BY <1>1
  <2>3. Len(P[n]) = 2
    BY <1>2, <2>2
  <2>4. m = 2 * n /\ m % 2 = 0 /\ m \div 2 = n
    BY <1>1, <2>1, <2>3
  <2>5. \A i \in 1 .. n : \A e \in 1 .. 2 : c[2 * (i - 1) + e] = P[i][e]
    BY <1>2, <2>1
  <2>6. ASSUME NEW k \in 1 .. m PROVE HexText!IsHex(c[k])
    <3>1. PICK i \in 1 .. n, e \in 1 .. 2 : k = 2 * (i - 1) + e
      BY <1>1, <2>4, Halves
    <3>2. c[k] = P[i][e]
      BY <2>5, <3>1
    <3>3. e = 1 \/ e = 2
      OBVIOUS
    <3> QED BY <1>2, <3>2, <3>3
  <2>7. ASSUME NEW i \in 1 .. n PROVE c[2 * i - 1] = P[i][1] /\ c[2 * i] = P[i][2]
    <3>1. 2 * (i - 1) + 1 = 2 * i - 1 /\ 2 * (i - 1) + 2 = 2 * i /\ 1 \in 1 .. 2 /\ 2 \in 1 .. 2
      OBVIOUS
    <3>2. c[2 * (i - 1) + 1] = P[i][1] /\ c[2 * (i - 1) + 2] = P[i][2]
      BY <2>5, <3>1
    <3> QED BY <3>1, <3>2
  <2>8. Paired(c) = [i \in 1 .. n |-> HexText!Octet(c[2 * i - 1], c[2 * i])]
    BY <2>4 DEF Paired, m
  <2>9. Paired(c) = [i \in DOMAIN P |-> HexText!Octet(P[i][1], P[i][2])]
    BY <1>1, <2>7, <2>8
  <2> QED BY <2>4, <2>6, <2>9 DEF AllHex, m
<1> QED BY <1>3, <1>4

(* What is read as a MAC address has no prefix, and x reads the same octets. *)
LEMMA MacAlike ==
    ASSUME text \in Seq(Char), HexText!IsMac(MacParts)
    PROVE  /\ HexReadable("octets")
           /\ Paired(Kept("octets")) =
                 [i \in DOMAIN MacParts |-> HexText!Octet(MacParts[i][1], MacParts[i][2])]
<1> DEFINE s == HexText!Trim(text)
           N == Len(s)
           O == HexText!Separators("octets")
           C == HexText!collected(s, O)
           P == HexText!parted(s)
           K == Kept("octets")
<1>1. Sequential(s) /\ N \in Nat
  BY TrimIs
<1>2. Collects(C, s, O, N) /\ Parting(P, s, N)
  BY <1>1, CollectedRule, PartedRule
<1>3. MacParts = P[N] /\ HexText!Collect(s, O) = C[N]
  BY DEF MacParts, HexText!split, HexText!Collect
<1>4. HexBody = IF N >= 2 /\ s[1] = "0" /\ s[2] \in {"x", "X"} THEN SubSeq(s, 3, N) ELSE s
  BY DEF HexBody, HexText!strip_prefix
<1>5. K = HexText!Collect(HexBody, O)
  BY DEF Kept
<1>6. Parted(C, P, s, N)
  <2> HIDE DEF N, s, C, P
  <2> QED BY <1>1, <1>2, PartedJoined
<1> HIDE DEF s, N, O, C, P, K
<1>7. PartsAre(P[N]) /\ Promising(P[N])
  BY <1>3, <1>6, MacJoined DEF Parted
<1>8. Joined(C[N], P[N]) /\ \A m \in 1 .. N : s[m] = ":" \/ HexText!IsHex(s[m])
  BY <1>6, <1>7 DEF Parted
<1>9. ~HexText!IsHex("x") /\ ~HexText!IsHex("X")
  BY DEF HexText!IsHex, HexText!decode_hex_nibble
<1>10. N >= 2 => s[2] \notin {"x", "X"}
  <2>1. N >= 2 => 2 \in 1 .. N
    BY <1>1
  <2> QED BY <1>8, <1>9, <2>1
<1>11. K = C[N]
  BY <1>3, <1>4, <1>5, <1>10
<1>12. /\ AllHex(K) /\ Len(K) % 2 = 0
       /\ Paired(K) = [i \in DOMAIN P[N] |-> HexText!Octet(P[N][i][1], P[N][i][2])]
  BY <1>3, <1>7, <1>8, <1>11, MacJoined
<1> QED BY <1>3, <1>12 DEF HexReadable, K

LEMMA OctetsFollow == HexInv => SameOctets
<1> SUFFICES ASSUME HexInv, HexText!Answered("octets")
             PROVE  \A p \in {"user", "mac"} :
                        HexText!Accepted(p) => answers["octets"] = answers[p]
  BY DEF SameOctets, HexText!SameOctets
<1>1. text \in Seq(Char) /\ HexVerdict("octets")
  BY DEF HexInv
<1>2. ASSUME HexText!Accepted("user") PROVE answers["octets"] = answers["user"]
  <2>1. HexText!Answered("user")
    BY <1>2 DEF HexText!Accepted, HexText!Answered, HexText!None
  <2>2. HexVerdict("user")
    BY <2>1 DEF HexInv
  <2>3. HexReadable("user") /\ answers["user"] = HexText!Ok(Paired(Kept("user")))
    BY <1>2, <2>2 DEF HexVerdict
  <2>4. Kept("octets") = Kept("user")
    BY <1>1, <2>3, KeptAlike DEF HexReadable
  <2>5. HexReadable("octets")
    BY <2>3, <2>4 DEF HexReadable
  <2> QED BY <1>1, <2>3, <2>4, <2>5 DEF HexVerdict
<1>3. ASSUME HexText!Accepted("mac") PROVE answers["octets"] = answers["mac"]
  <2>1. HexText!Answered("mac")
    BY <1>3 DEF HexText!Accepted, HexText!Answered, HexText!None
  <2>2. MacVerdict
    BY <2>1 DEF HexInv
  <2>3. HexText!IsMac(MacParts)
    BY <1>3, <2>2 DEF MacVerdict, HexText!Accepted, HexText!NotMac
  <2>4. /\ HexReadable("octets")
        /\ Paired(Kept("octets")) =
              [i \in DOMAIN MacParts |-> HexText!Octet(MacParts[i][1], MacParts[i][2])]
    BY <1>1, <2>3, MacAlike
  <2> QED BY <1>1, <2>2, <2>3, <2>4 DEF HexVerdict, MacVerdict
<1> QED BY <1>2, <1>3

LEMMA TextKept ==
    ASSUME text' = text
    PROVE  /\ \A p : Kept(p)' = Kept(p)
           /\ \A p : HexReadable(p)' <=> HexReadable(p)
           /\ MacParts' = MacParts
<1>1. \A p : Kept(p)' = Kept(p)
  BY DEF Kept, HexBody
<1>2. \A p : HexReadable(p)' <=> HexReadable(p)
  BY <1>1 DEF HexReadable, AllHex
<1>3. MacParts' = MacParts
  BY DEF MacParts
<1> QED BY <1>1, <1>2, <1>3

LEMMA KeptOfParser ==
    ASSUME text' = text, parser' = parser
    PROVE  Kept(parser)' = Kept(parser)
BY DEF Kept, HexBody

LEMMA VerdictsKept ==
    ASSUME text' = text, NEW p, answers'[p] = answers[p]
    PROVE  /\ HexVerdict(p)' <=> HexVerdict(p)
           /\ HexText!Answered(p)' <=> HexText!Answered(p)
           /\ p = "mac" => (MacVerdict' <=> MacVerdict)
<1>1. /\ Kept(p)' = Kept(p) /\ (HexReadable(p)' <=> HexReadable(p)) /\ MacParts' = MacParts
  BY TextKept
<1>2. HexVerdict(p)' <=> HexVerdict(p)
  BY <1>1 DEF HexVerdict, HexText!Accepted, Paired
<1>3. HexText!Answered(p)' <=> HexText!Answered(p)
  BY DEF HexText!Answered
<1>4. p = "mac" => (MacVerdict' <=> MacVerdict)
  BY <1>1 DEF MacVerdict
<1> QED BY <1>2, <1>3, <1>4

LEMMA HexReturned ==
    ASSUME HexInv, NEW r, HexText!Return(r), parser \in {"user", "octets"},
           r.kind = "ok" <=> HexReadable(parser),
           HexReadable(parser) => r = HexText!Ok(Paired(Kept(parser)))
    PROVE  HexInv'
<1>1. /\ answers' = [answers EXCEPT ![parser] = r] /\ hex_pc' = "end"
      /\ text' = text /\ parser' = parser
  BY DEF HexText!Return
<1>2. /\ text \in Seq(Char) /\ parser \in HexText!Parsers
      /\ answers = [p \in HexText!Parsers |-> answers[p]]
  BY DEF HexInv
<1>3. /\ answers' = [p \in HexText!Parsers |-> answers'[p]]
      /\ answers'[parser] = r
      /\ \A p \in HexText!Parsers : p # parser => answers'[p] = answers[p]
  BY <1>1, <1>2
<1>4. ASSUME NEW p \in {"user", "octets"}, HexText!Answered(p)' PROVE HexVerdict(p)'
  <2>1. CASE p = parser
    <3>1. /\ answers'[p] = r /\ Kept(p)' = Kept(p) /\ (HexReadable(p)' <=> HexReadable(p))
      BY <1>1, <1>3, <2>1, TextKept
    <3>2. /\ r.kind = "ok" <=> HexReadable(p)
          /\ HexReadable(p) => r = HexText!Ok(Paired(Kept(p)))
      BY <2>1
    <3> QED BY <3>1, <3>2 DEF HexVerdict, HexText!Accepted, Paired
  <2>2. CASE p # parser
    <3>1. answers'[p] = answers[p]
      BY <1>3, <2>2 DEF HexText!Parsers
    <3>2. (HexVerdict(p)' <=> HexVerdict(p)) /\ (HexText!Answered(p)' <=> HexText!Answered(p))
      BY <1>1, <3>1, VerdictsKept
    <3> QED BY <1>4, <3>2 DEF HexInv
  <2> QED BY <2>1, <2>2
<1>5. ASSUME HexText!Answered("mac")' PROVE MacVerdict'
  <2>1. answers'["mac"] = answers["mac"]
    BY <1>3 DEF HexText!Parsers
  <2>2. (MacVerdict' <=> MacVerdict) /\ (HexText!Answered("mac")' <=> HexText!Answered("mac"))
    BY <1>1, <2>1, VerdictsKept
  <2> QED BY <1>5, <2>2 DEF HexInv
<1> QED BY <1>1, <1>2, <1>3, <1>4, <1>5 DEF HexInv

(* A step that answers nothing keeps the verdicts. *)
Verdicts ==
    /\ \A p \in {"user", "octets"} : HexText!Answered(p) => HexVerdict(p)
    /\ HexText!Answered("mac") => MacVerdict

LEMMA VerdictsStay ==
    ASSUME HexInv, text' = text, answers' = answers
    PROVE  /\ Verdicts' /\ text' \in Seq(Char)
           /\ answers' = [p \in HexText!Parsers |-> answers'[p]]
<1>1. /\ text \in Seq(Char) /\ answers = [p \in HexText!Parsers |-> answers[p]] /\ Verdicts
  BY DEF HexInv, Verdicts
<1>2. ASSUME NEW p \in {"user", "octets"}, HexText!Answered(p)' PROVE HexVerdict(p)'
  <2>1. (HexVerdict(p)' <=> HexVerdict(p)) /\ (HexText!Answered(p)' <=> HexText!Answered(p))
    BY VerdictsKept
  <2> QED BY <1>1, <1>2, <2>1 DEF Verdicts
<1>3. ASSUME HexText!Answered("mac")' PROVE MacVerdict'
  <2>1. (MacVerdict' <=> MacVerdict) /\ (HexText!Answered("mac")' <=> HexText!Answered("mac"))
    BY VerdictsKept
  <2> QED BY <1>1, <1>3, <2>1 DEF Verdicts
<1> QED BY <1>1, <1>2, <1>3 DEF Verdicts

LEMMA CleanKeeps == HexInv /\ HexText!Clean => HexInv'
<1> SUFFICES ASSUME HexInv, HexText!Clean PROVE HexInv'
  OBVIOUS
<1>1. /\ parser \in {"user", "octets"} /\ hex_pc' = "check" /\ out' = << >>
      /\ cleaned' = Kept(parser)
      /\ text' = text /\ parser' = parser /\ answers' = answers
  BY DEF HexText!Clean, Kept, HexBody
<1>2. Kept(parser)' = Kept(parser)
  BY <1>1, KeptOfParser
<1>3. /\ Verdicts' /\ text' \in Seq(Char)
      /\ answers' = [p \in HexText!Parsers |-> answers'[p]]
  BY <1>1, VerdictsStay
<1>4. Sequential(out') /\ parser' \in HexText!Parsers
  BY <1>1, EmptySeq, SequentialOf DEF HexText!Parsers
<1> QED BY <1>1, <1>2, <1>3, <1>4 DEF HexInv, Verdicts, Sequential

LEMMA KeptSequential ==
    ASSUME HexInv, parser \in {"user", "octets"}
    PROVE  Sequential(Kept(parser)) /\ Len(Kept(parser)) \in Nat
BY KeptRanked DEF HexInv, Ranked

(* The checks before the first digit is decoded. *)
LEMMA ToDecode ==
    ASSUME HexInv, hex_pc = "check", HexText!Goto("decode"), Len(Kept(parser)) % 2 = 0,
           parser = "user" => Len(Kept(parser)) \div 2 <= MAX_ENGINE_ID,
           parser = "octets" => AllHex(Kept(parser))
    PROVE  HexInv'
<1> DEFINE c == Kept(parser)
<1>1. /\ hex_pc' = "decode" /\ cleaned' = cleaned /\ out' = out
      /\ text' = text /\ parser' = parser /\ answers' = answers
  BY DEF HexText!Goto
<1>2. /\ cleaned = c /\ out = << >> /\ parser \in {"user", "octets"} /\ Sequential(out)
      /\ parser \in HexText!Parsers
  BY DEF HexInv
<1>3. Kept(parser)' = Kept(parser)
  BY <1>1, KeptOfParser
<1>4. /\ Verdicts' /\ text' \in Seq(Char)
      /\ answers' = [p \in HexText!Parsers |-> answers'[p]]
  BY <1>1, VerdictsStay
<1>5. Sequential(c) /\ Len(c) \in Nat
  BY <1>2, KeptSequential
<1> HIDE DEF c
<1>6. SubSeq(c, 1, Len(c)) = c
  <2>1. /\ Sequential(SubSeq(c, 1, Len(c))) /\ Len(SubSeq(c, 1, Len(c))) = Len(c) - 1 + 1
        /\ \A k \in 1 .. Len(c) - 1 + 1 : SubSeq(c, 1, Len(c))[k] = c[1 + k - 1]
    <3>1. 1 \in Nat /\ 1 >= 1 /\ 1 <= Len(c) + 1
      BY <1>5
    <3> QED BY <1>5, <3>1, Cut
  <2> DEFINE x == SubSeq(c, 1, Len(c))
             n == Len(c)
  <2> HIDE DEF x
  <2>2. Sequential(x) /\ Len(x) = n
    <3>1. Len(x) = n - 1 + 1
      BY <2>1 DEF x
    <3> HIDE DEF n
    <3>2. n - 1 + 1 = n
      BY <1>5 DEF n
    <3> QED BY <2>1, <3>1, <3>2 DEF x
  <2>3. ASSUME NEW k \in 1 .. n PROVE x[k] = c[k]
    <3> HIDE DEF n
    <3>1. k \in 1 .. n - 1 + 1 /\ 1 + k - 1 = k
      BY <1>5 DEF n
    <3>2. x[k] = c[1 + k - 1]
      BY <2>1, <3>1 DEF x, n
    <3> QED BY <3>1, <3>2
  <2> HIDE DEF n
  <2>4. x = c
    BY <1>5, <2>2, <2>3, SameSequence DEF n
  <2> QED BY <2>4 DEF x
<1>7. Len(<< >>) = 0
  BY EmptySeq
<1>8. Halfway(c, Len(out'), out', cleaned')
  <2>1. Len(out') = 0 /\ cleaned' = SubSeq(c, 2 * 0 + 1, Len(c))
    BY <1>1, <1>2, <1>6, <1>7 DEF c
  <2>2. 0 \in Nat /\ 2 * 0 <= Len(c) /\ Len(c) % 2 = 0
    BY <1>5 DEF c
  <2> QED BY <1>5, <2>1, <2>2 DEF Halfway
<1>9. /\ parser' = "user" => Len(Kept(parser)') \div 2 <= MAX_ENGINE_ID
      /\ parser' = "octets" => AllHex(Kept(parser)')
  BY <1>1, <1>3
<1>10. Sequential(out') /\ parser' \in {"user", "octets"} /\ parser' \in HexText!Parsers
  BY <1>1, <1>2
<1>11. Halfway(Kept(parser)', Len(out'), out', cleaned')
  BY <1>3, <1>8 DEF c
<1> QED BY <1>1, <1>4, <1>9, <1>10, <1>11 DEF HexInv, Verdicts, Sequential, AllHex

LEMMA CheckLengthKeeps == HexInv /\ HexText!CheckLength => HexInv'
<1> SUFFICES ASSUME HexInv, HexText!CheckLength PROVE HexInv'
  OBVIOUS
<1> DEFINE c == Kept(parser)
           n == Len(c)
<1>1. hex_pc = "check" /\ parser = "user" /\ cleaned = c
  BY DEF HexText!CheckLength, HexInv
<1>2. n \in Nat
  BY <1>1, KeptSequential
<1>3. \/ n = 0 /\ HexText!Return(HexText!Empty)
      \/ n > 2 * MAX_ENGINE_ID /\ HexText!Return(HexText!TooLong(n \div 2))
      \/ n \in 1 .. 2 * MAX_ENGINE_ID /\ n % 2 # 0 /\ HexText!Return(HexText!OddLength(n))
      \/ n \in 1 .. 2 * MAX_ENGINE_ID /\ n % 2 = 0 /\ HexText!Goto("decode")
  BY <1>1 DEF HexText!CheckLength
<1>4. HexReadable(parser) => n % 2 = 0 /\ n \div 2 \in MIN_ENGINE_ID .. MAX_ENGINE_ID
  BY <1>1 DEF HexReadable
<1> HIDE DEF n
<1>5. CASE n = 0 /\ HexText!Return(HexText!Empty)
  <2>1. ~HexReadable(parser)
    BY <1>4, <1>5, HexAssumption
  <2>2. HexText!Empty.kind # "ok"
    BY DEF HexText!Empty
  <2> QED BY <1>1, <1>5, <2>1, <2>2, HexReturned
<1>6. CASE n > 2 * MAX_ENGINE_ID /\ HexText!Return(HexText!TooLong(n \div 2))
  <2>1. ~HexReadable(parser)
    BY <1>2, <1>4, <1>6, HexAssumption
  <2>2. HexText!TooLong(n \div 2).kind # "ok"
    BY DEF HexText!TooLong
  <2> QED BY <1>1, <1>6, <2>1, <2>2, HexReturned
<1>7. CASE n % 2 # 0 /\ HexText!Return(HexText!OddLength(n))
  <2>1. ~HexReadable(parser)
    BY <1>4, <1>7
  <2>2. HexText!OddLength(n).kind # "ok"
    BY DEF HexText!OddLength
  <2> QED BY <1>1, <1>7, <2>1, <2>2, HexReturned
<1>8. CASE n \in 1 .. 2 * MAX_ENGINE_ID /\ n % 2 = 0 /\ HexText!Goto("decode")
  <2>1. n \div 2 <= MAX_ENGINE_ID
    BY <1>8, HexAssumption
  <2> QED BY <1>1, <1>8, <2>1, ToDecode DEF n
<1> QED BY <1>3, <1>5, <1>6, <1>7, <1>8

LEMMA CheckDigitsKeeps == HexInv /\ HexText!CheckDigits => HexInv'
<1> SUFFICES ASSUME HexInv, HexText!CheckDigits PROVE HexInv'
  OBVIOUS
<1> DEFINE c == Kept(parser)
           bad == {i \in DOMAIN c : ~HexText!IsHex(c[i])}
           b == HexText!BadHex(c[HexText!Min(bad)])
<1>1. hex_pc = "check" /\ parser = "octets" /\ cleaned = c
  BY DEF HexText!CheckDigits, HexInv
<1>2. Sequential(c) /\ Len(c) \in Nat
  BY <1>1, KeptSequential
<1>3. \/ bad # {} /\ HexText!Return(b)
      \/ bad = {} /\ Len(c) % 2 # 0 /\ HexText!Return(HexText!OddLength(Len(c)))
      \/ bad = {} /\ Len(c) % 2 = 0 /\ HexText!Goto("decode")
  BY <1>1 DEF HexText!CheckDigits
<1>4. HexReadable(parser) => AllHex(c) /\ Len(c) % 2 = 0
  BY DEF HexReadable
<1>5. b.kind # "ok"
  BY DEF HexText!BadHex
<1> HIDE DEF b, c
<1>6. DOMAIN c = 1 .. Len(c)
  BY <1>2, Lengths
<1>7. AllHex(c) <=> bad = {}
  BY <1>6 DEF AllHex
<1> HIDE DEF bad
<1>8. CASE bad # {} /\ HexText!Return(b)
  BY <1>1, <1>4, <1>5, <1>7, <1>8, HexReturned
<1>9. CASE Len(c) % 2 # 0 /\ HexText!Return(HexText!OddLength(Len(c)))
  <2>1. HexText!OddLength(Len(c)).kind # "ok"
    BY DEF HexText!OddLength
  <2> QED BY <1>1, <1>4, <1>9, <2>1, HexReturned
<1>10. CASE bad = {} /\ Len(c) % 2 = 0 /\ HexText!Goto("decode")
  <2>1. parser # "user" /\ AllHex(Kept(parser)) /\ Len(Kept(parser)) % 2 = 0
    BY <1>1, <1>7, <1>10 DEF c
  <2> QED BY <1>1, <1>10, <2>1, ToDecode
<1> QED BY <1>3, <1>8, <1>9, <1>10

(* What is left is the rest of what was kept: its first two octets are the next. *)
LEMMA RestIs ==
    ASSUME NEW c, Sequential(c), NEW d \in Nat, 2 * d <= Len(c)
    PROVE  LET r == SubSeq(c, 2 * d + 1, Len(c))
           IN  /\ Sequential(r) /\ Len(r) = Len(c) - 2 * d
               /\ \A k \in 1 .. Len(c) - 2 * d : r[k] = c[2 * d + k]
<1> DEFINE n == Len(c)
           a == 2 * d + 1
           r == SubSeq(c, a, n)
<1>1. n \in Nat
  BY Lengths
<1> HIDE DEF n
<1>2. a \in Nat /\ a >= 1 /\ a <= n + 1 /\ n - a + 1 = n - 2 * d
  BY <1>1 DEF n
<1> HIDE DEF a
<1>3. /\ Sequential(r) /\ Len(r) = n - a + 1
      /\ \A k \in 1 .. n - a + 1 : r[k] = c[a + k - 1]
  BY <1>2, Cut DEF n
<1> HIDE DEF r
<1>4. ASSUME NEW k \in 1 .. n - 2 * d PROVE r[k] = c[2 * d + k]
  <2>1. a + k - 1 = 2 * d + k
    BY DEF a
  <2> QED BY <1>2, <1>3, <2>1
<1> QED BY <1>2, <1>3, <1>4 DEF a, r, n

LEMMA DecodePairKeeps == HexInv /\ HexText!DecodePair => HexInv'
<1> SUFFICES ASSUME HexInv, HexText!DecodePair PROVE HexInv'
  OBVIOUS
<1> DEFINE c == Kept(parser)
           d == Len(out)
           x == HexText!Octet(cleaned[1], cleaned[2])
<1>1. /\ hex_pc = "decode" /\ cleaned # << >>
      /\ HexText!IsHex(cleaned[1]) /\ HexText!IsHex(cleaned[2])
      /\ out' = Append(out, x)
      /\ cleaned' = SubSeq(cleaned, 3, Len(cleaned))
      /\ UNCHANGED <<text, parser, hex_pc, answers>>
  BY DEF HexText!DecodePair
<1>2. /\ Halfway(c, d, out, cleaned) /\ parser \in {"user", "octets"} /\ Sequential(out)
      /\ parser = "user" => Len(c) \div 2 <= MAX_ENGINE_ID
      /\ parser = "octets" => AllHex(c)
      /\ parser \in HexText!Parsers
  BY <1>1 DEF HexInv
<1>3. Sequential(c)
  BY <1>2, KeptSequential
<1>4. /\ Verdicts' /\ text' \in Seq(Char)
      /\ answers' = [p \in HexText!Parsers |-> answers'[p]]
  BY <1>1, VerdictsStay
<1>5. Kept(parser)' = c
  BY <1>1, KeptOfParser
<1>6. /\ Sequential(out') /\ d \in Nat /\ Len(out') = d + 1
      /\ \A k \in 1 .. d : out'[k] = out[k]
      /\ out'[d + 1] = x
  BY <1>1, <1>2, Appended
<1> HIDE DEF c, d, x
<1> DEFINE n == Len(c)
<1>7. /\ n \in Nat /\ 2 * d <= n /\ n % 2 = 0
      /\ cleaned = SubSeq(c, 2 * d + 1, n)
      /\ \A k \in 1 .. d : /\ HexText!IsHex(c[2 * k - 1]) /\ HexText!IsHex(c[2 * k])
                           /\ out[k] = HexText!Octet(c[2 * k - 1], c[2 * k])
  BY <1>2 DEF Halfway, d
<1>8. /\ Sequential(cleaned) /\ Len(cleaned) = n - 2 * d
      /\ \A k \in 1 .. n - 2 * d : cleaned[k] = c[2 * d + k]
  BY <1>3, <1>6, <1>7, RestIs
<1> HIDE DEF n
<1>9. Len(cleaned) # 0
  BY <1>1, <1>8, EmptySeq DEF Sequential
<1>10. /\ 2 * (d + 1) <= n /\ 1 \in 1 .. n - 2 * d /\ 2 \in 1 .. n - 2 * d
       /\ 2 * d + 1 = 2 * (d + 1) - 1 /\ 2 * d + 2 = 2 * (d + 1)
  <2>1. n - 2 * d # 0
    BY <1>8, <1>9
  <2> QED BY <1>6, <1>7, <2>1
<1>11. cleaned[1] = c[2 * (d + 1) - 1] /\ cleaned[2] = c[2 * (d + 1)]
  BY <1>8, <1>10
<1>12. cleaned' = SubSeq(c, 2 * (d + 1) + 1, n)
  <2> DEFINE l == n - 2 * d
             r == SubSeq(cleaned, 3, Len(cleaned))
             s == SubSeq(c, 2 * (d + 1) + 1, n)
             e == d + 1
  <2>1. l \in Nat /\ l >= 2 /\ Len(cleaned) = l /\ 2 * 1 <= l /\ l - 2 * 1 = n - 2 * e
    BY <1>6, <1>7, <1>8, <1>10
  <2>2. /\ Sequential(r) /\ Len(r) = Len(cleaned) - 2 * 1
        /\ \A k \in 1 .. Len(cleaned) - 2 * 1 : r[k] = cleaned[2 * 1 + k]
    <3>1. 1 \in Nat /\ 2 * 1 <= Len(cleaned) /\ 2 * 1 + 1 = 3
      BY <2>1
    <3> DEFINE z == 1
               w == SubSeq(cleaned, 2 * z + 1, Len(cleaned))
    <3>2. r = w
      BY <3>1
    <3> HIDE DEF z, r
    <3>3. z \in Nat /\ 2 * z <= Len(cleaned)
      BY <2>1 DEF z
    <3>4. /\ Sequential(w) /\ Len(w) = Len(cleaned) - 2 * z
          /\ \A k \in 1 .. Len(cleaned) - 2 * z : w[k] = cleaned[2 * z + k]
      BY <1>8, <3>3, RestIs
    <3> HIDE DEF w
    <3> QED BY <3>2, <3>4 DEF z
  <2>3. /\ Sequential(s) /\ Len(s) = n - 2 * e
        /\ \A k \in 1 .. n - 2 * e : s[k] = c[2 * e + k]
    <3>1. e \in Nat /\ 2 * e <= Len(c)
      BY <1>6, <1>10 DEF n
    <3> QED BY <1>3, <3>1, RestIs DEF n
  <2>4. Len(r) = Len(s)
    BY <2>1, <2>2, <2>3
  <2>5. ASSUME NEW k \in 1 .. n - 2 * e PROVE r[k] = s[k]
    <3>1. k \in 1 .. Len(cleaned) - 2 * 1 /\ 2 * 1 + k \in 1 .. n - 2 * d
          /\ 2 * d + (2 * 1 + k) = 2 * e + k
      BY <1>6, <1>7, <2>1
    <3>2. r[k] = cleaned[2 * 1 + k] /\ cleaned[2 * 1 + k] = c[2 * d + (2 * 1 + k)]
      BY <1>8, <2>2, <3>1
    <3> QED BY <2>3, <3>1, <3>2
  <2> HIDE DEF r, s, e
  <2>6. \A k \in 1 .. Len(r) : r[k] = s[k]
    BY <2>3, <2>4, <2>5
  <2>7. r = s
    BY <2>2, <2>3, <2>4, <2>6, SameSequence
  <2> QED BY <1>1, <2>7 DEF r, s
<1>13. Halfway(c, d + 1, out', cleaned')
  <2>1. ASSUME NEW k \in 1 .. d + 1
        PROVE  /\ HexText!IsHex(c[2 * k - 1]) /\ HexText!IsHex(c[2 * k])
               /\ out'[k] = HexText!Octet(c[2 * k - 1], c[2 * k])
    <3>1. CASE k = d + 1
      BY <1>1, <1>6, <1>11, <3>1 DEF x
    <3>2. CASE k # d + 1
      <4>1. k \in 1 .. d
        BY <1>6, <3>2
      <4> QED BY <1>6, <1>7, <4>1
    <3> QED BY <3>1, <3>2
  <2>2. d + 1 \in Nat
    BY <1>6
  <2> QED BY <1>7, <1>10, <1>12, <2>1, <2>2 DEF Halfway, n
<1>14. Halfway(Kept(parser)', Len(out'), out', cleaned')
  BY <1>5, <1>6, <1>13
<1>15. /\ parser' \in {"user", "octets"} /\ parser' \in HexText!Parsers
       /\ parser' = "user" => Len(Kept(parser)') \div 2 <= MAX_ENGINE_ID
       /\ parser' = "octets" => AllHex(Kept(parser)')
  BY <1>1, <1>2, <1>5
<1> QED BY <1>1, <1>4, <1>6, <1>14, <1>15 DEF HexInv, Verdicts, Sequential, AllHex

LEMMA DecodeBadKeeps == HexInv /\ HexText!DecodeBad => HexInv'
<1> SUFFICES ASSUME HexInv, HexText!DecodeBad PROVE HexInv'
  OBVIOUS
<1> DEFINE c == Kept(parser)
           d == Len(out)
           n == Len(c)
           b == HexText!BadHex(IF HexText!IsHex(cleaned[1]) THEN cleaned[2] ELSE cleaned[1])
<1>1. /\ hex_pc = "decode" /\ cleaned # << >>
      /\ ~(HexText!IsHex(cleaned[1]) /\ HexText!IsHex(cleaned[2]))
      /\ HexText!Return(b)
  BY DEF HexText!DecodeBad
<1>2. Halfway(c, d, out, cleaned) /\ parser \in {"user", "octets"}
  BY <1>1 DEF HexInv
<1>3. Sequential(c)
  BY <1>2, KeptSequential
<1>4. b.kind # "ok"
  BY DEF HexText!BadHex
<1>5. HexReadable(parser) => AllHex(c)
  BY DEF HexReadable
<1> HIDE DEF b, c, d
<1>6. /\ n \in Nat /\ d \in Nat /\ 2 * d <= n /\ n % 2 = 0
      /\ cleaned = SubSeq(c, 2 * d + 1, n)
  BY <1>2 DEF Halfway
<1>7. /\ Sequential(cleaned) /\ Len(cleaned) = n - 2 * d
      /\ \A k \in 1 .. n - 2 * d : cleaned[k] = c[2 * d + k]
  BY <1>3, <1>6, RestIs
<1> HIDE DEF n
<1>8. n - 2 * d # 0
  BY <1>1, <1>7, EmptySeq DEF Sequential
<1>9. /\ 1 \in 1 .. n - 2 * d /\ 2 \in 1 .. n - 2 * d
      /\ 2 * d + 1 \in 1 .. n /\ 2 * d + 2 \in 1 .. n
  BY <1>6, <1>8
<1>10. cleaned[1] = c[2 * d + 1] /\ cleaned[2] = c[2 * d + 2]
  BY <1>7, <1>9
<1>11. ~AllHex(c)
  BY <1>1, <1>9, <1>10 DEF AllHex, n
<1> QED BY <1>1, <1>2, <1>4, <1>5, <1>11, HexReturned

LEMMA CheckBoundsKeeps == HexInv /\ HexText!CheckBounds => HexInv'
<1> SUFFICES ASSUME HexInv, HexText!CheckBounds PROVE HexInv'
  OBVIOUS
<1> DEFINE c == Kept(parser)
           d == Len(out)
           n == Len(c)
<1>1. /\ hex_pc = "decode" /\ cleaned = << >>
      /\ \/ parser = "user" /\ d < MIN_ENGINE_ID /\ HexText!Return(HexText!TooShort(d))
         \/ parser = "user" /\ d >= MIN_ENGINE_ID /\ HexText!Return(HexText!Ok(out))
         \/ parser = "octets" /\ HexText!Return(HexText!Ok(out))
  BY DEF HexText!CheckBounds
<1>2. /\ Halfway(c, d, out, cleaned) /\ parser \in {"user", "octets"} /\ Sequential(out)
      /\ parser = "user" => n \div 2 <= MAX_ENGINE_ID
  BY <1>1 DEF HexInv
<1>3. Sequential(c)
  BY <1>2, KeptSequential
<1>4. HexReadable(parser) <=> /\ AllHex(c) /\ n % 2 = 0
                              /\ parser = "user" => n \div 2 \in MIN_ENGINE_ID .. MAX_ENGINE_ID
  BY DEF HexReadable
<1>5. Paired(c) = [k \in 1 .. n \div 2 |-> HexText!Octet(c[2 * k - 1], c[2 * k])]
  BY DEF Paired
<1> HIDE DEF c
<1>6. /\ n \in Nat /\ d \in Nat /\ 2 * d <= n /\ n % 2 = 0
      /\ cleaned = SubSeq(c, 2 * d + 1, n)
      /\ \A k \in 1 .. d : /\ HexText!IsHex(c[2 * k - 1]) /\ HexText!IsHex(c[2 * k])
                           /\ out[k] = HexText!Octet(c[2 * k - 1], c[2 * k])
  BY <1>2 DEF Halfway
<1>7. Len(cleaned) = n - 2 * d
  BY <1>3, <1>6, RestIs
<1>8. d \in Nat /\ DOMAIN out = 1 .. d
  BY <1>2, Lengths
<1>9. Len(cleaned) = 0
  BY <1>1, EmptySeq
<1> HIDE DEF n, d
<1>10. n = 2 * d /\ n \div 2 = d
  BY <1>6, <1>7, <1>9
<1>11. AllHex(c)
  <2>1. ASSUME NEW k \in 1 .. n PROVE HexText!IsHex(c[k])
    <3>1. PICK i \in 1 .. d, e \in 1 .. 2 : k = 2 * (i - 1) + e
      BY <1>6, <1>10, Halves
    <3>2. k = 2 * i - 1 \/ k = 2 * i
      BY <3>1
    <3> QED BY <1>6, <3>2
  <2> QED BY <2>1 DEF AllHex, n
<1>12. Paired(c) = out
  <2>1. Paired(c) = [k \in 1 .. d |-> HexText!Octet(c[2 * k - 1], c[2 * k])]
    BY <1>5, <1>10
  <2>2. out = [k \in 1 .. d |-> out[k]]
    <3>1. out = [k \in DOMAIN out |-> out[k]]
      BY <1>2 DEF Sequential
    <3> QED BY <1>8, <3>1
  <2> QED BY <1>6, <2>1, <2>2
<1>13. CASE parser = "user" /\ d < MIN_ENGINE_ID /\ HexText!Return(HexText!TooShort(d))
  <2>1. ~HexReadable(parser)
    BY <1>4, <1>6, <1>10, <1>13, HexAssumption
  <2>2. HexText!TooShort(d).kind # "ok"
    BY DEF HexText!TooShort
  <2> QED BY <1>2, <1>13, <2>1, <2>2, HexReturned
<1>14. CASE (parser = "user" => d >= MIN_ENGINE_ID) /\ HexText!Return(HexText!Ok(out))
  <2>1. HexReadable(parser)
    BY <1>2, <1>4, <1>6, <1>10, <1>11, <1>14, HexAssumption
  <2>2. HexText!Ok(out).kind = "ok" /\ HexText!Ok(out) = HexText!Ok(Paired(Kept(parser)))
    BY <1>12 DEF HexText!Ok, c
  <2> QED BY <1>2, <1>14, <2>1, <2>2, HexReturned
<1> QED BY <1>1, <1>13, <1>14

LEMMA ReadMacKeeps == HexInv /\ HexText!ReadMac => HexInv'
<1> SUFFICES ASSUME HexInv, HexText!ReadMac PROVE HexInv'
  OBVIOUS
<1> DEFINE r == IF HexText!IsMac(MacParts)
                THEN HexText!Ok([i \in DOMAIN MacParts |->
                                    HexText!Octet(MacParts[i][1], MacParts[i][2])])
                ELSE HexText!NotMac
<1>1. parser = "mac" /\ HexText!Return(r)
  BY DEF HexText!ReadMac, MacParts
<1>2. /\ answers' = [answers EXCEPT !["mac"] = r] /\ hex_pc' = "end"
      /\ text' = text /\ parser' = parser
  BY <1>1 DEF HexText!Return
<1>3. /\ text \in Seq(Char) /\ parser \in HexText!Parsers
      /\ answers = [p \in HexText!Parsers |-> answers[p]]
      /\ \A p \in {"user", "octets"} : HexText!Answered(p) => HexVerdict(p)
  BY DEF HexInv
<1>4. MacParts' = MacParts
  BY <1>2, TextKept
<1> HIDE DEF r
<1>5. /\ answers' = [p \in HexText!Parsers |-> answers'[p]]
      /\ answers'["mac"] = r
      /\ \A p \in {"user", "octets"} : answers'[p] = answers[p]
  BY <1>2, <1>3 DEF HexText!Parsers
<1>6. MacVerdict'
  BY <1>4, <1>5 DEF MacVerdict, r
<1>7. ASSUME NEW p \in {"user", "octets"}, HexText!Answered(p)' PROVE HexVerdict(p)'
  <2>1. (HexVerdict(p)' <=> HexVerdict(p)) /\ (HexText!Answered(p)' <=> HexText!Answered(p))
    BY <1>2, <1>5, VerdictsKept
  <2> QED BY <1>3, <1>7, <2>1
<1> QED BY <1>2, <1>3, <1>5, <1>6, <1>7 DEF HexInv

LEMMA AgainKeeps == HexInv /\ HexText!Again => HexInv'
<1> SUFFICES ASSUME HexInv, HexText!Again PROVE HexInv'
  OBVIOUS
<1>1. /\ parser' \in HexText!Parsers /\ hex_pc' = "clean"
      /\ text' = text /\ answers' = answers
  BY DEF HexText!Again, HexText!Parsers
<1>2. /\ Verdicts' /\ text' \in Seq(Char)
      /\ answers' = [p \in HexText!Parsers |-> answers'[p]]
  BY <1>1, VerdictsStay
<1> QED BY <1>1, <1>2 DEF HexInv, Verdicts

LEMMA HexStutters == HexInv /\ UNCHANGED hex_vars => HexInv'
<1> SUFFICES ASSUME HexInv, UNCHANGED hex_vars PROVE HexInv'
  OBVIOUS
<1>1. UNCHANGED <<text, parser, hex_pc, cleaned, out, answers>>
  BY DEF hex_vars
<1>2. /\ Verdicts' /\ text' \in Seq(Char)
      /\ answers' = [p \in HexText!Parsers |-> answers'[p]]
  BY <1>1, VerdictsStay
<1>3. Kept(parser)' = Kept(parser)
  BY <1>1, KeptOfParser
<1> QED BY <1>1, <1>2, <1>3 DEF HexInv, Verdicts, Sequential, AllHex

LEMMA HexInitially == AInit => HexInv
<1>1. HexText!Init => HexInv
  <2> SUFFICES ASSUME HexText!Init PROVE HexInv
    OBVIOUS
  <2>1. /\ text \in HexText!BoundedSeq(Char, MAX_HEX) /\ parser = "user" /\ hex_pc = "clean"
        /\ answers = [p \in HexText!Parsers |-> HexText!None]
    BY DEF HexText!Init
  <2>2. PICK m \in 0 .. MAX_HEX : text \in [1 .. m -> Char]
    BY <2>1 DEF HexText!BoundedSeq, HexText!SeqOf
  <2>3. text \in Seq(Char)
    BY <2>2, HexAssumption
  <2>4. \A p \in HexText!Parsers : ~HexText!Answered(p)
    BY <2>1 DEF HexText!Answered
  <2> QED BY <2>1, <2>3, <2>4 DEF HexInv, HexText!Parsers
<1>2. NoText => HexInv
  <2> SUFFICES ASSUME NoText PROVE HexInv
    OBVIOUS
  <2>1. /\ text = << >> /\ parser = "mac" /\ hex_pc = "end"
        /\ answers = [user |-> HexText!Empty, octets |-> HexText!Ok(<< >>), mac |-> HexText!NotMac]
    BY DEF NoText
  <2>2. text \in Seq(Char) /\ Len(text) = 0 /\ Sequential(<< >>)
    BY <2>1, EmptySeq, SequentialOf
  <2>3. InkedText = {}
    BY <2>1 DEF InkedText
  <2>4. HexText!Trim(text) = << >> /\ HexBody = << >>
    BY <2>2, <2>3, BlankText
  <2>5. \A D : HexText!Collect(<< >>, D) = << >>
    <3>1. Len(<< >>) = 0 /\ Len(<< >>) \in Nat
      OBVIOUS
    <3>2. ASSUME NEW D PROVE HexText!Collect(<< >>, D) = << >>
      <4>1. Collects(HexText!collected(<< >>, D), << >>, D, Len(<< >>))
        BY <3>1, CollectedRule
      <4> QED BY <3>1, <4>1 DEF HexText!Collect, Collects
    <3> QED BY <3>2
  <2>6. \A p : Kept(p) = << >>
    BY <2>4, <2>5 DEF Kept
  <2>7. Paired(<< >>) = << >>
    <3>1. Len(<< >>) \div 2 = 0
      OBVIOUS
    <3>2. Paired(<< >>) = [k \in 1 .. 0 |-> HexText!Octet(<< >>[2 * k - 1], << >>[2 * k])]
      BY <3>1 DEF Paired
    <3> QED BY <3>2
  <2>8. AllHex(<< >>) /\ Len(<< >>) % 2 = 0 /\ Len(<< >>) \div 2 = 0
    BY DEF AllHex
  <2>9. ~HexReadable("user") /\ HexReadable("octets")
    BY <2>6, <2>8, HexAssumption DEF HexReadable
  <2>10. HexVerdict("user")
    BY <2>1, <2>9 DEF HexVerdict, HexText!Accepted, HexText!Empty
  <2>11. HexVerdict("octets")
    BY <2>1, <2>6, <2>7, <2>9 DEF HexVerdict, HexText!Accepted, HexText!Ok
  <2>12. MacVerdict
    <3>1. Parting(HexText!parted(<< >>), << >>, 0)
      <4>1. Len(<< >>) = 0 /\ Len(<< >>) \in Nat
        OBVIOUS
      <4> QED BY <4>1, PartedRule
    <3>2. MacParts = << << >> >>
      <4>1. Len(<< >>) = 0
        OBVIOUS
      <4> QED BY <2>4, <3>1, <4>1 DEF MacParts, HexText!split, Parting
    <3>3. 1 \in DOMAIN << << >> >> /\ Len(<< << >> >>[1]) # 2
      OBVIOUS
    <3>4. ~HexText!IsMac(MacParts)
      BY <3>2, <3>3 DEF HexText!IsMac
    <3> QED BY <2>1, <3>4 DEF MacVerdict
  <2>13. answers = [p \in HexText!Parsers |-> answers[p]] /\ parser \in HexText!Parsers
    BY <2>1 DEF HexText!Parsers
  <2> QED BY <2>1, <2>2, <2>10, <2>11, <2>12, <2>13 DEF HexInv
<1> QED BY <1>1, <1>2 DEF AInit

LEMMA HexInvariance == ASpec => []HexInv
<1>1. HexInv /\ [ANext]_<<pdu_vars, hex_vars, agent_vars, vars>> => HexInv'
  <2> SUFFICES ASSUME HexInv, [ANext]_<<pdu_vars, hex_vars, agent_vars, vars>>
               PROVE  HexInv'
    OBVIOUS
  <2>1. HexText!Next \/ UNCHANGED hex_vars
    BY DEF ANext
  <2>2. CASE UNCHANGED hex_vars
    BY <2>2, HexStutters
  <2>3. CASE HexText!Next
    BY <2>3, CleanKeeps, CheckLengthKeeps, CheckDigitsKeeps, DecodePairKeeps,
       DecodeBadKeeps, CheckBoundsKeeps, ReadMacKeeps, AgainKeeps DEF HexText!Next
  <2> QED BY <2>1, <2>2, <2>3
<1> QED BY <1>1, HexInitially, PTL DEF ASpec

(* engine.rs:82-137, varbind.rs:115-153: whatever the characters and however long the
   text, -E and x accept it, and as which octets, by its digits and their number
   alone: prefix, margins and separators make no difference. *)
THEOREM DigitsDecided == ASpec => []DigitsDecide
BY HexInvariance, DigitsFollow, PTL

(* engine.rs:252-269: what -E accepts, and what is read as the MAC address of an
   interface, an x variable binding reads as the same octets. *)
THEOREM ReadersAgree == ASpec => []SameOctets
BY HexInvariance, OctetsFollow, PTL

================================================================================
