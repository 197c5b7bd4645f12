--------------------------- MODULE EngineClock_proofs --------------------------
(***************************************************************************)
(* Proofs about EngineClock, for every number of processes and threads and *)
(* every bound: the types, the monotonic engine time, and who alone can    *)
(* make a strict receiver refuse a fresh trap.                             *)
(*                                                                         *)
(* The invariant ties every message to the clock of its process, which is  *)
(* started once, and the receiver's notion of the clock to some process    *)
(* that began no later.                                                    *)
(***************************************************************************)
EXTENDS EngineClock, Integers, TLAPS

Times == 0 .. MaxNow \cup {Unset}

BuiltType == built \in [Proc -> [Thread -> Msg \cup {NoMsg}]]

(* A clock starts within the life of its process. *)
StartInv(p) ==
    /\ born[p] # Unset => born[p] <= now
    /\ start[p] # Unset => born[p] # Unset /\ born[p] <= start[p] /\ start[p] <= now

(* A thread between the two calls holds the start of its process. *)
ThreadInv(p, t) == pc[p][t] = "read" => start[p] # Unset /\ seen[p][t] = start[p]

Stamped(m) ==
    /\ start[m.proc] # Unset /\ start[m.proc] <= m.at /\ m.at <= now
    /\ m.time = Least(m.at - start[m.proc], i32_max)

PeerInv == peer # Unset => \E p \in Proc : start[p] # Unset /\ start[p] <= peer

Inv ==
    /\ TypeOK /\ BuiltType /\ PeerInv
    /\ \A p \in Proc : StartInv(p) /\ \A t \in Thread : ThreadInv(p, t)
    /\ \A m \in Built \cup net : Stamped(m)

-------------------------------------------------------------------------------
LEMMA LeastMonotone ==
    ASSUME NEW a \in Int, NEW b \in Int, NEW c \in Int, a <= b
    PROVE  Least(a, c) <= Least(b, c) /\ Least(a, c) <= a
BY SMT DEF Least

(* A message of the process keeps its stamp when no clock that was started
   changes and the time does not go back. *)
LEMMA StampKept ==
    ASSUME TypeOK, NEW m \in Msg, Stamped(m), now' \in Nat, now <= now',
           \A p \in Proc : start[p] # Unset => start'[p] = start[p]
    PROVE  Stamped(m)'
<1>1. m.proc \in Proc /\ m.at \in Nat /\ now \in Nat
  BY ClockAssumption, SMT DEF Msg, TypeOK
<1>2. start'[m.proc] = start[m.proc]
  BY <1>1 DEF Stamped
<1>3. m.at <= now'
  BY <1>1, SMT DEF Stamped
<1> QED BY <1>2, <1>3 DEF Stamped

LEMMA Initially == Init => Inv
<1> SUFFICES ASSUME Init PROVE Inv
  OBVIOUS
<1>1. BuiltType /\ Built = {}
  BY DEF Init, BuiltType, Built, NoMsg
<1>2. TypeOK
  BY <1>1, ClockAssumption, SMT DEF Init, TypeOK, NoMsg
<1>3. PeerInv /\ \A p \in Proc : StartInv(p) /\ \A t \in Thread : ThreadInv(p, t)
  BY DEF Init, PeerInv, StartInv, ThreadInv
<1>4. Built \cup net = {}
  BY <1>1 DEF Init
<1> QED BY <1>1, <1>2, <1>3, <1>4 DEF Inv
-------------------------------------------------------------------------------
(* One lemma per action. *)

LEMMA TickStep == Inv /\ Tick => Inv'
<1> SUFFICES ASSUME Inv, Tick PROVE Inv'
  OBVIOUS
<1>1. /\ now \in Nat /\ now' = now + 1 /\ now' \in 0 .. MaxNow
      /\ UNCHANGED <<born, start, pc, seen, built, net, peer, refused>>
  BY ClockAssumption, SMT DEF Inv, TypeOK, Tick
<1>2. Built' = Built
  BY <1>1 DEF Built
<1>3. TypeOK' /\ BuiltType' /\ PeerInv'
  BY <1>1, <1>2 DEF Inv, TypeOK, BuiltType, PeerInv
<1>4. ASSUME NEW p \in Proc PROVE StartInv(p)' /\ \A t \in Thread : ThreadInv(p, t)'
  <2>1. StartInv(p) /\ \A t \in Thread : ThreadInv(p, t)
    BY DEF Inv
  <2>2. born[p] \in Nat \cup {Unset} /\ start[p] \in Nat \cup {Unset}
    BY ClockAssumption, SMT DEF Inv, TypeOK
  <2> QED BY <1>1, <2>1, <2>2, SMT DEF StartInv, ThreadInv
<1>5. ASSUME NEW m \in (Built \cup net)' PROVE Stamped(m)'
  <2>1. m \in Msg /\ Stamped(m)
    BY <1>1, <1>2 DEF Inv, TypeOK
  <2> QED BY <1>1, <2>1, StampKept, SMT DEF Inv
<1> QED BY <1>3, <1>4, <1>5 DEF Inv

LEMMA LaunchStep == ASSUME NEW p \in Proc PROVE Inv /\ Launch(p) => Inv'
<1> SUFFICES ASSUME Inv, Launch(p) PROVE Inv'
  OBVIOUS
<1>1. /\ born[p] = Unset /\ born' = [born EXCEPT ![p] = now]
      /\ UNCHANGED <<now, start, pc, seen, built, net, peer, refused>>
  BY DEF Launch
<1>2. now \in Nat /\ born \in [Proc -> Times] /\ now \in Times
  BY ClockAssumption, SMT DEF Inv, TypeOK, Times
<1>3. Built' = Built /\ born' \in [Proc -> Times]
  BY <1>1, <1>2 DEF Built
<1>4. TypeOK' /\ BuiltType' /\ PeerInv'
  BY <1>1, <1>3 DEF Inv, TypeOK, BuiltType, PeerInv, Times
<1>5. ASSUME NEW q \in Proc PROVE StartInv(q)' /\ \A t \in Thread : ThreadInv(q, t)'
  <2>1. StartInv(q) /\ StartInv(p) /\ \A t \in Thread : ThreadInv(q, t)
    BY DEF Inv
  <2>2. born'[q] = IF q = p THEN now ELSE born[q]
    BY <1>1, <1>2
  <2>3. StartInv(q)'
    BY <1>1, <1>2, <2>1, <2>2, SMT DEF StartInv
  <2> QED BY <1>1, <2>1, <2>3 DEF ThreadInv
<1>6. ASSUME NEW m \in (Built \cup net)' PROVE Stamped(m)'
  BY <1>1, <1>3 DEF Inv, Stamped
<1> QED BY <1>4, <1>5, <1>6 DEF Inv

LEMMA ReadStep == ASSUME NEW p \in Proc, NEW t \in Thread PROVE Inv /\ ReadStart(p, t) => Inv'
<1> SUFFICES ASSUME Inv, ReadStart(p, t) PROVE Inv'
  OBVIOUS
<1>1. /\ born[p] # Unset
      /\ start' = IF start[p] = Unset THEN [start EXCEPT ![p] = now] ELSE start
      /\ seen' = [seen EXCEPT ![p][t] = start'[p]] /\ pc' = [pc EXCEPT ![p][t] = "read"]
      /\ UNCHANGED <<now, born, built, net, peer, refused>>
  BY DEF ReadStart
<1>2. /\ now \in Nat /\ now \in Times /\ start \in [Proc -> Times] /\ born \in [Proc -> Times]
      /\ seen \in [Proc -> [Thread -> Times]]
      /\ pc \in [Proc -> [Thread -> {"idle", "read", "built"}]]
      /\ now # Unset
  BY ClockAssumption, SMT DEF Inv, TypeOK, Times
<1>3. \A q \in Proc : start'[q] = IF q = p /\ start[p] = Unset THEN now ELSE start[q]
  BY <1>1, <1>2
<1>4. start' \in [Proc -> Times] /\ start'[p] \in Times
  BY <1>1, <1>2
<1>5. seen' \in [Proc -> [Thread -> Times]]
      /\ pc' \in [Proc -> [Thread -> {"idle", "read", "built"}]]
  BY <1>1, <1>2, <1>4
<1>6. Built' = Built
  BY <1>1 DEF Built
<1>7. TypeOK' /\ BuiltType'
  BY <1>1, <1>4, <1>5, <1>6 DEF Inv, TypeOK, BuiltType, Times
<1>8. PeerInv'
  BY <1>1, <1>3 DEF Inv, PeerInv
<1>9. ASSUME NEW q \in Proc PROVE StartInv(q)' /\ \A u \in Thread : ThreadInv(q, u)'
  <2>1. StartInv(q) /\ \A u \in Thread : ThreadInv(q, u)
    BY DEF Inv
  <2>2. born[q] \in Times
    BY <1>2
  <2>3. StartInv(q)'
    BY <1>1, <1>2, <1>3, <2>1, <2>2 DEF StartInv, Times
  <2>4. ASSUME NEW u \in Thread PROVE ThreadInv(q, u)'
    <3>1. CASE q = p /\ u = t
      <4>1. seen'[p][t] = start'[p] /\ start'[p] # Unset
        BY <1>1, <1>2, <1>3
      <4> QED BY <3>1, <4>1 DEF ThreadInv
    <3>2. CASE ~(q = p /\ u = t)
      <4>1. pc'[q][u] = pc[q][u] /\ seen'[q][u] = seen[q][u]
        BY <1>1, <1>2, <3>2
      <4> QED BY <1>3, <2>1, <4>1 DEF ThreadInv
    <3> QED BY <3>1, <3>2
  <2> QED BY <2>3, <2>4
<1>10. ASSUME NEW m \in (Built \cup net)' PROVE Stamped(m)'
  <2>1. m \in Msg /\ Stamped(m)
    BY <1>1, <1>6 DEF Inv, TypeOK
  <2>2. now' \in Nat /\ now <= now' /\ \A q \in Proc : start[q] # Unset => start'[q] = start[q]
    BY <1>1, <1>2, <1>3
  <2> QED BY <2>1, <2>2, StampKept DEF Inv
<1> QED BY <1>7, <1>8, <1>9, <1>10 DEF Inv

LEMMA BuildStep == ASSUME NEW p \in Proc, NEW t \in Thread PROVE Inv /\ BuildAndSend(p, t) => Inv'
<1> SUFFICES ASSUME Inv, BuildAndSend(p, t) PROVE Inv'
  OBVIOUS
<1> DEFINE m == [boots |-> ENGINE_BOOTS_PER_INVOCATION, time |-> engine_time(p, t),
                 proc |-> p, at |-> now]
<1>1. /\ pc[p][t] = "read" /\ built' = [built EXCEPT ![p][t] = m] /\ net' = net \cup {m}
      /\ pc' = [pc EXCEPT ![p][t] = "built"]
      /\ UNCHANGED <<now, born, start, seen, peer, refused>>
  BY DEF BuildAndSend
<1>2. start[p] # Unset /\ seen[p][t] = start[p] /\ start[p] <= now
  BY <1>1 DEF Inv, ThreadInv, StartInv
<1>3. start[p] \in 0 .. MaxNow /\ now \in 0 .. MaxNow
  BY <1>2 DEF Inv, TypeOK
<1>4. engine_time(p, t) = Least(now - start[p], i32_max)
  BY <1>2 DEF engine_time
<1>5. Least(now - start[p], i32_max) \in 0 .. i32_max
  BY <1>2, <1>3, ClockAssumption, SMT DEF Least
<1>6. m \in Msg
  BY <1>3, <1>4, <1>5, Zenon DEF Msg
<1>7. m.proc = p /\ m.at = now /\ m.time = Least(now - start[p], i32_max)
  BY <1>4
<1>8. Stamped(m)
  BY <1>2, <1>3, <1>7 DEF Stamped
<1> HIDE DEF m
<1>9. BuiltType'
  BY <1>1, <1>6 DEF Inv, BuiltType
<1>10. Built' \subseteq Built \cup {m}
  <2>1. \A q \in Proc, u \in Thread : built'[q][u] = m \/ built'[q][u] = built[q][u]
    BY <1>1 DEF Inv, BuiltType
  <2>2. SUFFICES ASSUME NEW x \in Built' PROVE x \in Built \cup {m}
    OBVIOUS
  <2>3. PICK q \in Proc, u \in Thread : x = built'[q][u] /\ x # NoMsg
    BY <2>2 DEF Built
  <2>4. CASE x = m
    BY <2>4
  <2>5. CASE x = built[q][u]
    BY <2>3, <2>5 DEF Built
  <2> QED BY <2>1, <2>3, <2>4, <2>5, Zenon
<1>11. TypeOK'
  <2>1. Built' \subseteq Msg /\ net' \subseteq Msg
    BY <1>1, <1>6, <1>10 DEF Inv, TypeOK
  <2>2. pc' \in [Proc -> [Thread -> {"idle", "read", "built"}]]
    BY <1>1 DEF Inv, TypeOK
  <2> QED BY <1>1, <2>1, <2>2 DEF Inv, TypeOK
<1>12. PeerInv'
  BY <1>1 DEF Inv, PeerInv
<1>13. ASSUME NEW q \in Proc PROVE StartInv(q)' /\ \A u \in Thread : ThreadInv(q, u)'
  <2>1. StartInv(q) /\ \A u \in Thread : ThreadInv(q, u)
    BY DEF Inv
  <2>2. \A u \in Thread : pc'[q][u] = "read" => pc[q][u] = "read"
    BY <1>1 DEF Inv, TypeOK
  <2> QED BY <1>1, <2>1, <2>2 DEF StartInv, ThreadInv
<1>14. ASSUME NEW n \in (Built \cup net)' PROVE Stamped(n)'
  <2>1. n \in Built \cup net \/ n = m
    BY <1>1, <1>10
  <2> QED BY <1>1, <1>8, <2>1 DEF Inv, Stamped
<1> QED BY <1>9, <1>11, <1>12, <1>13, <1>14 DEF Inv

(* A message received tells of a clock that began no later than what the
   receiver takes it to be. *)
LEMMA ReceiveStep == ASSUME NEW m \in net PROVE Inv /\ Receive(m) => Inv'
<1> SUFFICES ASSUME Inv, Receive(m) PROVE Inv'
  OBVIOUS
<1>1. /\ UNCHANGED <<now, born, start, pc, seen, built, net>>
      /\ \/ refused' = m /\ UNCHANGED peer
         \/ peer' \in {now - m.time, peer} /\ (peer' = peer \/ peer' = now - m.time)
            /\ UNCHANGED refused
  BY DEF Receive
<1>2. m \in Msg /\ Stamped(m)
  BY DEF Inv, TypeOK
<1>3. /\ m.proc \in Proc /\ m.at \in 0 .. MaxNow /\ m.time \in 0 .. i32_max
      /\ now \in 0 .. MaxNow /\ start[m.proc] \in 0 .. MaxNow
  BY <1>2 DEF Msg, Inv, TypeOK, Stamped
<1>4. m.time <= m.at - start[m.proc]
  BY <1>2, <1>3, ClockAssumption, SMT DEF Stamped, Least
<1>5. now - m.time \in 0 .. MaxNow /\ start[m.proc] <= now - m.time
  BY <1>2, <1>3, <1>4, ClockAssumption, SMT DEF Stamped
<1>6. Built' = Built
  BY <1>1 DEF Built
<1>7. TypeOK'
  BY <1>1, <1>2, <1>5, <1>6 DEF Inv, TypeOK
<1>8. PeerInv'
  <2>1. CASE peer' = peer
    BY <1>1, <2>1 DEF Inv, PeerInv
  <2>2. CASE peer' = now - m.time
    BY <1>1, <1>2, <1>3, <1>5, <2>2 DEF PeerInv, Stamped
  <2> QED BY <1>1, <2>1, <2>2
<1> QED BY <1>1, <1>6, <1>7, <1>8 DEF Inv, BuiltType, StartInv, ThreadInv, Stamped

LEMMA LoseStep == ASSUME NEW m \in net PROVE Inv /\ Lose(m) => Inv'
<1> SUFFICES ASSUME Inv, Lose(m) PROVE Inv'
  OBVIOUS
<1>1. net' \subseteq net /\ UNCHANGED <<now, born, start, pc, seen, built, peer, refused>>
  BY DEF Lose
<1>2. Built' = Built
  BY <1>1 DEF Built
<1> QED BY <1>1, <1>2 DEF Inv, TypeOK, BuiltType, PeerInv, StartInv, ThreadInv, Stamped

LEMMA Inductive == Inv /\ [Next]_vars => Inv'
<1> SUFFICES ASSUME Inv, [Next]_vars PROVE Inv'
  OBVIOUS
<1>1. CASE UNCHANGED vars
  BY <1>1 DEF vars, Inv, TypeOK, Built, BuiltType, PeerInv, StartInv, ThreadInv, Stamped
<1>2. CASE Next
  BY <1>2, TickStep, LaunchStep, ReadStep, BuildStep, ReceiveStep, LoseStep DEF Next
<1> QED BY <1>1, <1>2

LEMMA Invariance == Spec => []Inv
<1> QED BY Initially, Inductive, PTL DEF Spec
-------------------------------------------------------------------------------
(* lib.rs:249-275: every clock field fits its place in the
   message. *)
THEOREM TypeCorrect == Spec => []TypeOK
<1>1. Inv => TypeOK
  BY DEF Inv
<1> QED BY Invariance, <1>1, PTL

(* lib.rs:266-275: within a process the engine time does not go back, however
   many threads start the clock at once. *)
THEOREM Monotonic == Spec => []ClockMonotonic
<1>1. Inv => ClockMonotonic
  <2> SUFFICES ASSUME Inv, NEW m \in Built \cup net, NEW n \in Built \cup net
               PROVE  /\ m.proc = n.proc /\ m.at <= n.at => m.time <= n.time
                      /\ m.time <= m.at - born[m.proc]
    BY DEF ClockMonotonic
  <2>1. Stamped(m) /\ Stamped(n) /\ m \in Msg /\ n \in Msg
    BY DEF Inv, TypeOK
  <2>2. /\ m.proc \in Proc /\ m.at \in Nat /\ n.at \in Nat /\ i32_max \in Nat
        /\ start[m.proc] \in Nat
    BY <2>1, ClockAssumption, SMT DEF Msg, Inv, TypeOK, Stamped
  <2>3. born[m.proc] \in Nat /\ born[m.proc] <= start[m.proc]
    BY <2>1, <2>2, ClockAssumption, SMT DEF Inv, TypeOK, StartInv, Stamped
  <2>4. m.time = Least(m.at - start[m.proc], i32_max) /\ m.time <= m.at - start[m.proc]
    <3>1. m.time = Least(m.at - start[m.proc], i32_max)
      BY <2>1 DEF Stamped
    <3> QED BY <2>2, <3>1, SMT DEF Least
  <2>5. m.time <= m.at - born[m.proc]
    <3>1. m.time \in Int
      BY <2>1, ClockAssumption, SMT DEF Msg
    <3> QED BY <2>2, <2>3, <2>4, <3>1, SMT
  <2>6. ASSUME m.proc = n.proc, m.at <= n.at PROVE m.time <= n.time
    <3>1. n.time = Least(n.at - start[m.proc], i32_max)
      BY <2>1, <2>6 DEF Stamped
    <3>2. m.at - start[m.proc] <= n.at - start[m.proc]
      BY <2>2, <2>6, SMT
    <3> QED BY <2>2, <2>4, <3>1, <3>2, LeastMonotone, SMT
  <2> QED BY <2>5, <2>6
<1> QED BY Invariance, <1>1, PTL

(* lib.rs:253: with boots that never change, only a process that began to send
   earlier can have a fresh trap of another refused. *)
THEOREM OnlyOlderProcessRefuses == Spec => RejectionNeedsOlderProcess
<1> DEFINE Blamed == refused' # refused =>
             LET m == refused'
             IN  now - m.at <= Window /\ m.time < i32_max =>
                     \E p \in Proc \ {m.proc} :
                         start[p] # Unset /\ start[p] < start[m.proc]
<1>1. Inv /\ [Next]_vars => Blamed
  <2> SUFFICES ASSUME Inv, [Next]_vars, refused' # refused,
                      now - refused'.at <= Window, refused'.time < i32_max
               PROVE  \E p \in Proc \ {refused'.proc} :
                          start[p] # Unset /\ start[p] < start[refused'.proc]
    OBVIOUS
  <2>1. PICK m \in net : Late(m) /\ refused' = m
    BY DEF Next, vars, Tick, Launch, ReadStart, BuildAndSend, Receive, Lose
  <2>2. m \in Msg /\ Stamped(m)
    BY DEF Inv, TypeOK
  <2>3. /\ m.proc \in Proc /\ m.at \in Nat /\ m.time \in Nat /\ now \in Nat
        /\ start[m.proc] \in Nat /\ Window \in Nat /\ i32_max \in Nat
    BY <2>2, ClockAssumption, SMT DEF Msg, Inv, TypeOK, Stamped
  <2>4. m.time = m.at - start[m.proc]
    BY <2>1, <2>2, <2>3, SMT DEF Stamped, Least
  <2>5. peer # Unset /\ peer \in Nat /\ m.time + Window < now - peer
    BY <2>1, ClockAssumption, SMT DEF Late, Inv, TypeOK
  <2>6. peer < start[m.proc]
    BY <2>1, <2>3, <2>4, <2>5, SMT
  <2>7. PICK p \in Proc : start[p] # Unset /\ start[p] <= peer
    BY <2>5 DEF Inv, PeerInv
  <2>8. start[p] \in Nat
    BY <2>7, ClockAssumption, SMT DEF Inv, TypeOK
  <2>9. start[p] < start[m.proc]
    BY <2>3, <2>5, <2>6, <2>7, <2>8, SMT
  <2>10. p # m.proc
    BY <2>3, <2>9, SMT
  <2> QED BY <2>1, <2>7, <2>9, <2>10
<1> QED BY Invariance, <1>1, PTL DEF Spec, RejectionNeedsOlderProcess
================================================================================
