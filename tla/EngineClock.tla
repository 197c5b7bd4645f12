------------------------------ MODULE EngineClock ------------------------------
(***************************************************************************)
(* The snmpEngineBoots and snmpEngineTime of an SNMPv3 trap, and what a    *)
(* receiver that checks timeliness makes of them.                          *)
(*                                                                         *)
(* A process builds messages from several threads (the program itself from *)
(* one, a caller of the library from many).  Its clock,                    *)
(* process_uptime_seconds, counts from a OnceLock that the first call      *)
(* sets.  Boots are always 1.  The messages travel over UDP; the receiver  *)
(* is the non-authoritative engine of RFC 3414, section 3.2 (7b), which    *)
(* keeps a notion of the sender's clock.                                   *)
(***************************************************************************)
EXTENDS Naturals, FiniteSets

CONSTANTS
    Proc,       \* processes that share an authoritative engine-ID
    Thread,     \* the threads of each
    MaxNow,     \* bound on the wall clock, in seconds
    MaxNet,     \* bound on the messages in flight
    Window,     \* the receiver's window: 150 seconds in RFC 3414
    i32_max,    \* the largest Integer32
    Unset       \* a clock not started

ASSUME ClockAssumption == /\ {MaxNow, MaxNet, Window, i32_max} \subseteq Nat
                          /\ Unset \notin Nat

VARIABLES
    now,        \* the wall clock
    born,       \* when each process started, Unset before
    start,      \* the OnceLock START of each process
    pc,         \* "idle", "read", "built" for each thread
    seen,       \* the start a thread read, between get_or_init and elapsed
    built,      \* the message each thread built last
    net,        \* messages on their way
    peer,       \* the receiver's [boots, base]: its notion of the sender's
                \* clock is now - base; Unset until it has heard one
    refused     \* history: the last message it found outside the window

vars == <<now, born, start, pc, seen, built, net, peer, refused>>

ENGINE_BOOTS_PER_INVOCATION == 1

Least(a, b) == IF a <= b THEN a ELSE b

(* A message: its clock fields and, as history, where and when it was made. *)
Msg == [boots : {ENGINE_BOOTS_PER_INVOCATION}, time : 0 .. i32_max,
        proc : Proc, at : 0 .. MaxNow]

NoMsg == Unset

-------------------------------------------------------------------------------
Init ==
    /\ now = 0
    /\ born  = [p \in Proc |-> Unset]
    /\ start = [p \in Proc |-> Unset]
    /\ pc    = [p \in Proc |-> [t \in Thread |-> "idle"]]
    /\ seen  = [p \in Proc |-> [t \in Thread |-> Unset]]
    /\ built = [p \in Proc |-> [t \in Thread |-> NoMsg]]
    /\ net = {}
    /\ peer = Unset
    /\ refused = NoMsg

Tick == /\ now < MaxNow
        /\ now' = now + 1
        /\ UNCHANGED <<born, start, pc, seen, built, net, peer, refused>>

(* main() starts; argv, name resolution and the rest come before the build. *)
Launch(p) ==
    /\ born[p] = Unset
    /\ born' = [born EXCEPT ![p] = now]
    /\ UNCHANGED <<now, start, pc, seen, built, net, peer, refused>>

(* Seeded fault: every call starts the clock anew. *)
ReadStartResets(p, t) ==
    /\ born[p] # Unset /\ pc[p][t] \in {"idle", "built"}
    /\ start' = [start EXCEPT ![p] = now]
    /\ seen'  = [seen EXCEPT ![p][t] = now]
    /\ pc'    = [pc EXCEPT ![p][t] = "read"]
    /\ UNCHANGED <<now, born, built, net, peer, refused>>

(* START.get_or_init(Instant::now): the first call sets it, the others wait
   for that and read it. *)
ReadStart(p, t) ==
    /\ born[p] # Unset /\ pc[p][t] \in {"idle", "built"}
    /\ start' = IF start[p] = Unset THEN [start EXCEPT ![p] = now] ELSE start
    /\ seen'  = [seen EXCEPT ![p][t] = start'[p]]
    /\ pc'    = [pc EXCEPT ![p][t] = "read"]
    /\ UNCHANGED <<now, born, built, net, peer, refused>>

(* start.elapsed(), capped to the sign bit of the wire field. *)
engine_time(p, t) == Least(now - seen[p][t], i32_max)

(* build_v3_payload puts the clock in the message, and run() sends it. *)
BuildAndSend(p, t) ==
    /\ pc[p][t] = "read" /\ Cardinality(net) < MaxNet
    /\ LET m == [boots |-> ENGINE_BOOTS_PER_INVOCATION, time |-> engine_time(p, t),
                 proc |-> p, at |-> now]
       IN  /\ built' = [built EXCEPT ![p][t] = m]
           /\ net'   = net \cup {m}
    /\ pc' = [pc EXCEPT ![p][t] = "built"]
    /\ UNCHANGED <<now, born, start, seen, peer, refused>>

(* The receiver: a message of the same boots is outside the window when its
   time is more than Window behind the receiver's notion of the clock.  A time
   ahead of that notion moves it.  The message stays on the network, which may
   deliver it again. *)
Late(m) == peer # Unset /\ m.time + Window < now - peer

Receive(m) ==
    /\ m \in net
    /\ IF Late(m)
       THEN refused' = m /\ UNCHANGED peer
       ELSE /\ peer' = IF peer = Unset \/ m.time > now - peer
                       THEN now - m.time ELSE peer
            /\ UNCHANGED refused
    /\ UNCHANGED <<now, born, start, pc, seen, built, net>>

Lose(m) == /\ m \in net
           /\ net' = net \ {m}
           /\ UNCHANGED <<now, born, start, pc, seen, built, peer, refused>>

Next == \/ Tick
        \/ \E p \in Proc : Launch(p) \/ \E t \in Thread : ReadStart(p, t)
                                                       \/ BuildAndSend(p, t)
        \/ \E m \in net : Receive(m) \/ Lose(m)

Spec == Init /\ [][Next]_vars

-------------------------------------------------------------------------------
(* Properties. *)

Built == {built[p][t] : p \in Proc, t \in Thread} \ {NoMsg}

(* lib.rs:249-275: clocks, messages and receivers hold times a u32 field of the
   message can carry. *)
TypeOK ==
    /\ now \in 0 .. MaxNow
    /\ born \in [Proc -> 0 .. MaxNow \cup {Unset}]
    /\ start \in [Proc -> 0 .. MaxNow \cup {Unset}]
    /\ pc \in [Proc -> [Thread -> {"idle", "read", "built"}]]
    /\ seen \in [Proc -> [Thread -> 0 .. MaxNow \cup {Unset}]]
    /\ Built \subseteq Msg
    /\ net \subseteq Msg /\ refused \in Msg \cup {NoMsg}
    /\ peer \in 0 .. MaxNow \cup {Unset}

(* Within one process the engine time never goes back, whichever threads build
   the messages, and it is never ahead of the age of the process.
   (process_uptime_seconds: one START, set once.) *)
ClockMonotonic ==
    \A m, n \in Built \cup net :
        /\ m.proc = n.proc /\ m.at <= n.at => m.time <= n.time
        /\ m.time <= m.at - born[m.proc]

(* What README calls the remedy for strict receivers: a trap that is not late
   itself falls outside the window only when another process with the same
   engine-ID began to send earlier.  One long-lived process is never refused,
   until its clock reaches the cap. (ENGINE_BOOTS_PER_INVOCATION,
   process_uptime_seconds.) *)
RejectionNeedsOlderProcess ==
    [][refused' # refused =>
           LET m == refused'
           IN  now - m.at <= Window /\ m.time < i32_max =>
                   \E p \in Proc \ {m.proc} :
                       start[p] # Unset /\ start[p] < start[m.proc]]_vars

(* README.md:211 says of a v3 trap that it carries "engineTime = elapsed
   seconds since process start".  The clock starts at its first call, which is
   in the build of the first trap. (process_uptime_seconds.) *)
EngineTimeSinceProcessStart ==
    \A m \in Built : m.time = Least(m.at - born[m.proc], i32_max)
===============================================================================
