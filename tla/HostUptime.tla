------------------------------- MODULE HostUptime ------------------------------
(***************************************************************************)
(* host_uptime_centiseconds of src/helpers.rs: the sysUpTime of a trap     *)
(* whose uptime was left empty.  Linux reads the uptime from a file, as a  *)
(* decimal fraction, into a float; macOS reads the time of the boot and    *)
(* the wall clock, one after the other, and anybody may set the clock in   *)
(* between.                                                                *)
(*                                                                         *)
(* A second has SECOND microseconds and a hundredth of it CENTI.  A float  *)
(* is an integer mantissa over a power of two.                             *)
(***************************************************************************)
EXTENDS Integers

CONSTANTS
    SECOND, CENTI,  \* 1_000_000 and 10_000
    U32_MAX,        \* u32::MAX
    HALF,           \* the least mantissa of a float: 2^52 for an f64
    Scales,         \* the powers of two a mantissa may be divided by
    Seconds,        \* the values of tv_sec
    Uptimes,        \* the uptimes of the host, in hundredths of a second
    Platforms       \* the builds: "linux", "macos", "other"

Timeval == [sec : Seconds, usec : 0 .. SECOND - 1]

ASSUME UptimeAssumption ==
    /\ SECOND \in Nat /\ CENTI \in Nat \ {0}
    /\ U32_MAX \in Nat /\ Seconds \subseteq Int
    /\ Platforms \subseteq {"linux", "macos", "other"}

(* num / den to the nearest integer, a tie to the even one. *)
Nearest(num, den) ==
    LET down == num \div den
        rest == num - down * den
        more == 2 * rest > den \/ (2 * rest = den /\ down % 2 = 1)
    IN  IF more THEN down + 1 ELSE down

(* IEEE 754: the float nearest to num / den, both positive, with a mantissa of
   at least half; the set has at most one element. *)
FloatOf(half, num, den) ==
    {[mant |-> Nearest(num * s, den), scale |-> s] :
        s \in {t \in Scales : num * t \in half * den .. 2 * half * den - 1}}

(* Seeded fault: single precision, at this size a mantissa four bits shorter. *)
FloatSingle(num, den) == FloatOf(HALF \div 16, num, den)

Float(num, den) == FloatOf(HALF, num, den)

(* No host is up for 2^52 hundredths of a second, and the floats that are needed
   exist. *)
ASSUME FloatAssumption ==
    /\ HALF \in Nat /\ Scales \subseteq Nat \ {0}
    /\ Uptimes \subseteq 0 .. HALF - 1
    /\ \A n \in Uptimes \ {0} : \E secs \in FloatOf(HALF, n, 100) :
           FloatOf(HALF, secs.mant * 100, secs.scale) # {}

VARIABLES
    platform,   \* the build
    up,         \* the uptime of the host
    boot,       \* kern.boottime
    wall,       \* the wall clock
    boottime,   \* the local: the boottime that was read
    now,        \* the local: the wall clock that was read
    pc,         \* "start", "clock", "done", "error"
    result      \* what the caller gets

env   == <<up, boot, wall>>
local == <<boottime, now, pc, result>>
vars  == <<platform, env, local>>

Zero == [sec |-> 0, usec |-> 0]

Init ==
    /\ platform \in Platforms
    /\ up \in Uptimes /\ boot \in Timeval /\ wall \in Timeval
    /\ boottime = Zero /\ now = Zero /\ pc = "start" /\ result = 0

(* The host gets older; the wall clock goes wherever it is set. *)
Pass ==
    /\ pc = "clock"
    /\ up' \in Uptimes /\ up' >= up
    /\ wall' \in Timeval
    /\ UNCHANGED <<platform, boot, local>>

Fail == /\ pc \in {"start", "clock"} /\ platform \in {"linux", "macos"}
        /\ pc' = "error"
        /\ UNCHANGED <<platform, env, boottime, now, result>>

Lower(a, b) == IF a <= b THEN a ELSE b

(* .min(u32::MAX as u64) as u32 *)
Capped(n) == Lower(n, U32_MAX)

(* Linux: "12.34" becomes the float nearest to it, the product with 100.0 is
   rounded to a float again, and the cast cuts off what is not whole. *)
ReadProc ==
    /\ pc = "start" /\ platform = "linux"
    /\ IF up = 0 THEN result' = 0
       ELSE \E secs \in Float(up, 100) :
            \E product \in Float(secs.mant * 100, secs.scale) :
                result' = Capped(product.mant \div product.scale)
    /\ pc' = "done"
    /\ UNCHANGED <<platform, env, boottime, now>>

(* macOS: sysctl, gettimeofday and the arithmetic. *)
ReadBoottime ==
    /\ pc = "start" /\ platform = "macos"
    /\ boottime' = boot /\ pc' = "clock"
    /\ UNCHANGED <<platform, env, now, result>>

(* Seeded fault: a negative difference of the microseconds is kept. *)
elapsed_unborrowed(b, n) == [sec |-> n.sec - b.sec, usec |-> 0]

(* The borrow between seconds and microseconds. *)
elapsed(b, n) ==
    LET secs  == n.sec - b.sec
        usecs == n.usec - b.usec
    IN  IF usecs < 0 THEN [sec |-> secs - 1, usec |-> usecs + SECOND]
                     ELSE [sec |-> secs, usec |-> usecs]

centiseconds(e) ==
    IF e.sec < 0 THEN 0 ELSE Capped((e.sec * SECOND + e.usec) \div CENTI)

ReadClock ==
    /\ pc = "clock"
    /\ now' = wall
    /\ result' = centiseconds(elapsed(boottime, wall))
    /\ pc' = "done"
    /\ UNCHANGED <<platform, env, boottime>>

(* Any other Unix: zero. *)
NoUptime ==
    /\ pc = "start" /\ platform = "other"
    /\ result' = 0 /\ pc' = "done"
    /\ UNCHANGED <<platform, env, boottime, now>>

Next == Pass \/ Fail \/ ReadProc \/ ReadBoottime \/ ReadClock \/ NoUptime

Spec == Init /\ [][Next]_vars
-------------------------------------------------------------------------------
(* Properties. *)

(* helpers.rs:5-80: what the variables hold; the uptime is a u32 whatever the
   host says. *)
TypeOK ==
    /\ platform \in Platforms
    /\ up \in Uptimes /\ boot \in Timeval /\ wall \in Timeval
    /\ boottime \in Timeval \cup {Zero} /\ now \in Timeval \cup {Zero}
    /\ pc \in {"start", "clock", "done", "error"}
    /\ result \in 0 .. U32_MAX

Micros(t) == t.sec * SECOND + t.usec

(* The hundredths of a second between the two readings, rounded down and capped;
   zero when the clock was set to before the boot, by however little. *)
ElapsedExact ==
    pc = "done" /\ platform = "macos" =>
        LET d == Micros(now) - Micros(boottime)
        IN  CASE d < 0                                   -> result = 0
              [] d >= 0 /\ d \div CENTI > U32_MAX        -> result = U32_MAX
              [] d >= 0 /\ d \div CENTI <= U32_MAX       ->
                     result * CENTI <= d /\ d < (result + 1) * CENTI

(* Not an uptime the host has not reached, and at most a hundredth of a second
   behind it, although the product is rounded twice before it is cut. *)
NeverAhead ==
    pc = "done" /\ platform = "linux" =>
        result \in {Capped(up), Capped(up) - 1}

(* helpers.rs:62-79: on macOS the sysUpTime is the time between the two readings,
   exactly; helpers.rs:20-21: on Linux it is never ahead of the host. *)
UptimeExact == ElapsedExact /\ NeverAhead
================================================================================
