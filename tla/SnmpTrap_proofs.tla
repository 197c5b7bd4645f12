---------------------------- MODULE SnmpTrap_proofs ----------------------------
(***************************************************************************)
(* The whole run of the program, for every set of invocations, command     *)
(* lines, addresses and ports: what its exit status promises, which        *)
(* sockets it opens, and that its last part is a call of a transport.      *)
(***************************************************************************)
EXTENDS SnmpTrap, Transport_proofs

USE DEF call, vars

Whole == Inv /\ Verdicts /\ TrapInv

(* What the invariant says of one run, lookups apart. *)
Course(p) == CourseInv(p) /\ CheckInv(p) /\ AddrInv(p)

(* The runs other than p's are as they were. *)
Elsewhere(p) ==
    \A q \in Proc \ {p} :
        /\ stage'[q] = stage[q]           /\ err'[q] = err[q]
        /\ agent_addr'[q] = agent_addr[q] /\ from'[q] = from[q]
        /\ moved'[q] = moved[q]           /\ exit'[q] = exit[q]

(* A holder of a port is of one kind only. *)
LEMMA Holders ==
    /\ Probe \notin Proc /\ Probe # Free /\ Probe # Foreign
    /\ Free \notin Proc /\ Foreign \notin Proc /\ Free # Foreign
BY HolderAssumption, ProbeAssumption

(* What the types say of one run. *)
LEMMA RunOf ==
    ASSUME Whole, NEW p \in Proc
    PROVE  /\ stage[p] \in Early \cup Over \cup {"send"}
           /\ err[p] \in ErrorClass \cup {"none"}
           /\ agent_addr[p] \in Addr \cup {NoAddr}
           /\ probe[p] \in Port \cup {0} /\ 0 \notin Port
           /\ from[p] \in SUBSET (Addr \cup {NoAddr}) /\ moved[p] \in BOOLEAN
           /\ exit[p] \in {-1, 0, 1, 2, 101}
           /\ cli[p] \in Cli
           /\ Course(p) /\ ProbeInv(p)
BY CliAssumption, PortTypes DEF Whole, TrapInv, RunTypes, RunInv, Course

(* A run keeps its part of the invariant while others take steps. *)
LEMMA CourseFrame ==
    ASSUME NEW q \in Proc, Course(q),
           stage'[q] = stage[q], err'[q] = err[q], exit'[q] = exit[q],
           agent_addr'[q] = agent_addr[q], from'[q] = from[q], moved'[q] = moved[q],
           pc'[q] = pc[q], req'[q] = req[q], result'[q] = result[q],
           cli' = cli, route' = route
    PROVE  Course(q)'
<1>1. CourseInv(q)'
  BY DEF Course, CourseInv, Reportable, NothingWrong
<1>2. CheckInv(q)'
  BY DEF Course, CheckInv, Passed, Failing, Before, Checks
<1>3. AddrInv(q)'
  BY DEF Course, AddrInv, Resolved
<1>4. QED
  BY <1>1, <1>2, <1>3 DEF Course

(* No lookup begins or ends. *)
LEMMA ProbesKept ==
    ASSUME Whole, NEW p \in Proc, probe' = probe,
           \A q \in Proc : stage'[q] = "lookup" <=> stage[q] = "lookup",
           \A q \in Port : bound'[q] = Probe <=> bound[q] = Probe
    PROVE  /\ \A q \in Proc : ProbeInv(q)'
           /\ \A q \in Port : ProbeKnown(q)'
<1>1. ASSUME NEW q \in Proc PROVE ProbeInv(q)'
  BY RunOf DEF ProbeInv
<1>2. ASSUME NEW q \in Port PROVE ProbeKnown(q)'
  BY DEF ProbeKnown, Whole, TrapInv
<1>3. QED
  BY <1>1, <1>2

-------------------------------------------------------------------------------
(* Steps that leave the transports alone. *)

(* A step of p before or after its call of the transport. *)
LEMMA OwnStep ==
    ASSUME Whole, NEW p \in Proc, UNCHANGED <<vars, cli, probe, route>>,
           Elsewhere(p), RunTypes', Course(p)',
           stage[p] # "lookup", stage'[p] # "lookup"
    PROVE  Whole'
<1>1. Inv'
  BY StutterStep DEF Whole
<1>2. Verdicts'
  BY VerdictFrame DEF Whole, Verdicts
<1>3. ASSUME NEW q \in Proc PROVE Course(q)'
  <2>1. CASE q = p
    BY <2>1
  <2>2. CASE q # p
    BY <2>2, RunOf, CourseFrame DEF Elsewhere
  <2>3. QED
    BY <2>1, <2>2
<1>4. /\ \A q \in Proc : ProbeInv(q)'
      /\ \A q \in Port : ProbeKnown(q)'
  <2>1. \A q \in Proc : stage'[q] = "lookup" <=> stage[q] = "lookup"
    BY DEF Elsewhere
  <2>2. QED
    BY <2>1, ProbesKept
<1>5. QED
  BY <1>1, <1>2, <1>3, <1>4 DEF Whole, TrapInv, RunInv, Course

(* A run goes on to a stage whose checks it has passed. *)
LEMMA GotoStep ==
    ASSUME Whole, NEW p \in Proc, UNCHANGED <<vars, cli, probe, from, moved, route>>,
           stage[p] \in Early \ {"lookup"},
           NEW s \in (Early \cup {"send"}) \ {"lookup"}, Goto(p, s),
           NEW a \in Addr \cup {NoAddr}, agent_addr' = [agent_addr EXCEPT ![p] = a],
           CheckInv(p)', AddrInv(p)'
    PROVE  Whole'
<1>1. RunTypes /\ Course(p)
  BY RunOf DEF Whole, TrapInv
<1>2. /\ stage' = [stage EXCEPT ![p] = s] /\ UNCHANGED <<err, exit>>
      /\ s \notin Over
  BY DEF Goto, Early, Over
<1>3. RunTypes'
  BY <1>1, <1>2 DEF RunTypes
<1>4. Elsewhere(p)
  BY <1>1, <1>2 DEF RunTypes, Elsewhere
<1>5. stage'[p] = s
  BY <1>1, <1>2 DEF RunTypes
<1>6. CourseInv(p)'
  BY <1>1, <1>2, <1>5 DEF Course, CourseInv, Early, Over
<1>7. QED
  BY <1>3, <1>4, <1>5, <1>6, OwnStep DEF Course

(* A run ends before it called the transport. *)
LEMMA FailStep ==
    ASSUME Whole, NEW p \in Proc,
           UNCHANGED <<vars, cli, agent_addr, probe, from, moved, route>>,
           stage[p] \in Early \ {"lookup"},
           NEW e \in ErrorClass, Fail(p, e), ~NothingWrong(p)
    PROVE  Whole'
<1>1. RunTypes /\ Course(p)
  BY RunOf DEF Whole, TrapInv
<1>2. /\ stage' = [stage EXCEPT ![p] = "report"]
      /\ err' = [err EXCEPT ![p] = e] /\ UNCHANGED exit
  BY DEF Fail
<1>3. RunTypes'
  BY <1>1, <1>2 DEF RunTypes, Over
<1>4. Elsewhere(p)
  BY <1>1, <1>2 DEF RunTypes, Elsewhere
<1>5. stage'[p] = "report" /\ err'[p] = e
  BY <1>1, <1>2 DEF RunTypes
<1>6. CourseInv(p)'
  BY <1>1, <1>2, <1>5 DEF Course, CourseInv, Early, Reportable, NothingWrong
<1>7. CheckInv(p)'
  BY <1>1, <1>5 DEF Course, CheckInv, Passed, Failing, Before, Checks, Over, Early, CourseInv
<1>8. AddrInv(p)'
  BY <1>1, <1>5 DEF Course, CourseInv, AddrInv, Resolved
<1>9. QED
  BY <1>3, <1>4, <1>5, <1>6, <1>7, <1>8, OwnStep DEF Course

(* A run exits. *)
LEMMA ExitStep ==
    ASSUME Whole, NEW p \in Proc,
           UNCHANGED <<vars, cli, agent_addr, probe, from, moved, route>>,
           stage[p] \notin {"lookup", "exited"},
           NEW x \in {0, 1, 2, 101}, Exit(p, x),
           \/ x = 0 /\ (cli[p].help \/ (pc[p] = "done" /\ result[p] = "Ok"))
           \/ /\ x = IF cli[p].stderr = "broken" THEN 101 ELSE exit_code(err[p])
              /\ Reportable(p)
    PROVE  Whole'
<1>1. RunTypes /\ Course(p)
  BY RunOf DEF Whole, TrapInv
<1>2. /\ stage' = [stage EXCEPT ![p] = "exited"]
      /\ exit' = [exit EXCEPT ![p] = x] /\ UNCHANGED err
  BY DEF Exit
<1>3. RunTypes'
  BY <1>1, <1>2 DEF RunTypes, Over
<1>4. Elsewhere(p)
  BY <1>1, <1>2 DEF RunTypes, Elsewhere
<1>5. stage'[p] = "exited" /\ exit'[p] = x
  BY <1>1, <1>2 DEF RunTypes
<1>6. CourseInv(p)'
  BY <1>1, <1>2, <1>5 DEF Course, CourseInv, Early, Reportable, NothingWrong
<1>7. CheckInv(p)'
  BY <1>1, <1>5 DEF Course, CheckInv, Passed, Failing, Before, Checks, Over
<1>8. AddrInv(p)'
  BY <1>1, <1>5 DEF Course, AddrInv, Resolved
<1>9. QED
  BY <1>3, <1>4, <1>5, <1>6, <1>7, <1>8, OwnStep DEF Course

(* An address that is not touched. *)
LEMMA AddrKept ==
    ASSUME Whole, NEW p \in Proc, UNCHANGED agent_addr
    PROVE  /\ agent_addr[p] \in Addr \cup {NoAddr}
           /\ agent_addr' = [agent_addr EXCEPT ![p] = agent_addr[p]]
BY DEF Whole, TrapInv, RunTypes

(* A failed check is something wrong, and has a class. *)
LEMMA CheckFailed ==
    ASSUME NEW p \in Proc
    PROVE  /\ \A f : ClassOf(f) \in ErrorClass
           /\ \A c : FirstError(p, c) \in ErrorClass
           /\ \A c : Failing(p, c) # {} => ~NothingWrong(p)
           /\ \A f : f \in cli[p].faults => ~NothingWrong(p)
<1>1. \A f : ClassOf(f) \in ErrorClass
  BY DEF ClassOf, ErrorClass
<1>2. \A c : FirstError(p, c) \in ErrorClass
  BY <1>1 DEF FirstError
<1>3. QED
  BY <1>1, <1>2 DEF Failing, NothingWrong

LEMMA ParseArgvStep == ASSUME Whole, NEW p \in Proc, ParseArgv(p) PROVE Whole'
<1>1. /\ stage[p] = "argv" /\ stage[p] \in Early /\ Course(p)
      /\ UNCHANGED <<vars, cli, agent_addr, probe, from, moved, route>>
  BY RunOf DEF ParseArgv, Early
<1>2. CASE cli[p].help /\ Exit(p, 0)
  BY <1>1, <1>2, ExitStep
<1>3. CASE "argv" \in cli[p].faults /\ Fail(p, "Usage")
  BY <1>1, <1>3, FailStep, CheckFailed DEF ErrorClass
<1>4. CASE "argv" \notin cli[p].faults /\ Goto(p, "agent")
  <2>1. stage'[p] = "agent" /\ "agent" \in Early \ {"lookup"}
    BY <1>4 DEF Goto, Early, Whole, TrapInv, RunTypes
  <2>2. CheckInv(p)' /\ AddrInv(p)'
    BY <1>1, <1>4, <2>1
    DEF Course, CourseInv, CheckInv, AddrInv, Passed, Failing, Before, Checks, Resolved, Early
  <2>3. QED
    BY <1>1, <1>4, <2>1, <2>2, AddrKept, GotoStep
<1>5. QED
  BY <1>2, <1>3, <1>4 DEF ParseArgv

LEMMA ResolveAgentStep == ASSUME Whole, NEW p \in Proc, ResolveAgent(p) PROVE Whole'
<1>1. /\ stage[p] = "agent" /\ stage[p] \in Early /\ Course(p)
      /\ UNCHANGED <<vars, cli, agent_addr, probe, from, moved, route>>
  BY RunOf DEF ResolveAgent, Early
<1>2. CASE "agent" \in cli[p].faults
  BY <1>1, <1>2, FailStep, CheckFailed DEF ErrorClass, ResolveAgent
<1>3. CASE "agent" \notin cli[p].faults
  <2>1. Goto(p, "build") /\ stage'[p] = "build" /\ "build" \in Early \ {"lookup"}
    BY <1>3 DEF ResolveAgent, Goto, Early, Whole, TrapInv, RunTypes
  <2>2. CheckInv(p)' /\ AddrInv(p)'
    BY <1>1, <1>3, <2>1
    DEF Course, CourseInv, CheckInv, AddrInv, Passed, Failing, Before, Checks, Resolved, Early,
        Over
  <2>3. QED
    BY <1>1, <2>1, <2>2, AddrKept, GotoStep
<1>4. QED
  BY <1>2, <1>3

LEMMA BeginBuildStep == ASSUME Whole, NEW p \in Proc, BeginBuild(p) PROVE Whole'
<1>1. /\ stage[p] = "build" /\ stage[p] \in Early /\ Course(p)
      /\ UNCHANGED <<vars, cli, agent_addr, probe, from, moved, route>>
  BY RunOf DEF BeginBuild, Early
<1>2. CASE Failing(p, Before(p)) # {}
  BY <1>1, <1>2, FailStep, CheckFailed DEF BeginBuild
<1>3. CASE Failing(p, Before(p)) = {}
  <2> DEFINE s == IF cli[p].version = "v1" THEN "agent_addr" ELSE "checks"
  <2>1. Goto(p, s) /\ stage'[p] = s /\ s \in Early \ {"lookup"}
    BY <1>3 DEF BeginBuild, Goto, Early, Whole, TrapInv, RunTypes
  <2>2. CheckInv(p)' /\ AddrInv(p)'
    BY <1>1, <1>3, <2>1
    DEF Course, CourseInv, CheckInv, AddrInv, Passed, Failing, Before, Checks, Resolved, Early,
        Over
  <2>3. QED
    BY <1>1, <2>1, <2>2, AddrKept, GotoStep
<1>4. QED
  BY <1>2, <1>3

LEMMA GivenAgentAddrStep ==
    ASSUME Whole, NEW p \in Proc, GivenAgentAddr(p) PROVE Whole'
<1>1. /\ stage[p] = "agent_addr" /\ stage[p] \in Early /\ Course(p) /\ cli[p] \in Cli
      /\ UNCHANGED <<vars, cli, probe, from, moved, route>>
  BY RunOf DEF GivenAgentAddr, Early
<1>2. CASE Fail(p, "Usage") /\ UNCHANGED agent_addr /\ "agent_addr" \in cli[p].faults
  BY <1>1, <1>2, FailStep, CheckFailed DEF ErrorClass
<1>3. ASSUME NEW a \in Addr \cup {NoAddr}, Goto(p, "checks"),
             agent_addr' = [agent_addr EXCEPT ![p] = a],
             cli[p].positional = NoAddr => cli[p].src # NoAddr /\ a = cli[p].src
      PROVE  Whole'
  <2>1. /\ stage'[p] = "checks" /\ "checks" \in Early \ {"lookup"}
        /\ agent_addr'[p] = a
    BY <1>3 DEF Goto, Early, Whole, TrapInv, RunTypes
  <2>2. CheckInv(p)'
    BY <1>1, <2>1 DEF Course, CourseInv, CheckInv, Passed, Failing, Before, Checks, Early, Over
  <2>3. AddrInv(p)'
    BY <1>1, <1>3, <2>1 DEF Course, CourseInv, AddrInv, Resolved
  <2>4. QED
    BY <1>1, <1>3, <2>1, <2>2, <2>3, GotoStep
<1>4. QED
  BY <1>1, <1>2, <1>3 DEF GivenAgentAddr, Cli

LEMMA FinishBuildStep == ASSUME Whole, NEW p \in Proc, FinishBuild(p) PROVE Whole'
<1>1. /\ stage[p] = "checks" /\ stage[p] \in Early /\ Course(p)
      /\ UNCHANGED <<vars, cli, agent_addr, probe, from, moved, route>>
  BY RunOf DEF FinishBuild, Early
<1>2. CASE Failing(p, Checks(p)) # {}
  BY <1>1, <1>2, FailStep, CheckFailed DEF FinishBuild
<1>3. CASE Failing(p, Checks(p)) = {}
  <2> DEFINE s == IF cli[p].debug THEN "dump" ELSE "send"
  <2>1. Goto(p, s) /\ stage'[p] = s /\ s \in (Early \cup {"send"}) \ {"lookup"}
    BY <1>3 DEF FinishBuild, Goto, Early, Whole, TrapInv, RunTypes
  <2>2. CheckInv(p)'
    BY <1>1, <1>3, <2>1
    DEF Course, CourseInv, CheckInv, Passed, Failing, Before, Checks, Early, Over
  <2>3. AddrInv(p)'
    BY <1>1, <2>1 DEF Course, AddrInv, Resolved
  <2>4. QED
    BY <1>1, <2>1, <2>2, <2>3, AddrKept, GotoStep
<1>4. QED
  BY <1>2, <1>3

LEMMA DumpStep == ASSUME Whole, NEW p \in Proc, Dump(p) PROVE Whole'
<1>1. /\ stage[p] = "dump" /\ stage[p] \in Early /\ Course(p)
      /\ UNCHANGED <<vars, cli, agent_addr, probe, from, moved, route>>
  BY RunOf DEF Dump, Early
<1>2. Goto(p, "send") /\ stage'[p] = "send" /\ "send" \in (Early \cup {"send"}) \ {"lookup"}
  BY DEF Dump, Goto, Whole, TrapInv, RunTypes
<1>3. CheckInv(p)'
  BY <1>1, <1>2 DEF Course, CheckInv, Passed, Failing, Before, Checks, Over
<1>4. AddrInv(p)'
  BY <1>1, <1>2 DEF Course, AddrInv, Resolved
<1>5. QED
  BY <1>1, <1>2, <1>3, <1>4, AddrKept, GotoStep

LEMMA ReturnedStep == ASSUME Whole, NEW p \in Proc, Returned(p) PROVE Whole'
<1>1. /\ stage[p] = "send" /\ pc[p] = "done" /\ RunTypes /\ Course(p)
      /\ UNCHANGED <<vars, cli, agent_addr, probe, from, moved, route>>
  BY RunOf DEF Returned, Whole, TrapInv
<1>2. CASE result[p] = "Ok"
  BY <1>1, <1>2, ExitStep DEF Returned
<1>3. CASE result[p] # "Ok"
  <2> DEFINE e == result[p]
  <2>1. e \in ErrorClass
    BY <1>1, <1>3 DEF Whole, Inv, CallTypes, CallInv, PhaseInv, SetupErrors
  <2>2. /\ stage' = [stage EXCEPT ![p] = "report"]
        /\ err' = [err EXCEPT ![p] = e] /\ UNCHANGED exit
    BY <1>3 DEF Returned, Fail
  <2>3. RunTypes' /\ Elsewhere(p)
    BY <1>1, <2>1, <2>2 DEF RunTypes, Elsewhere, Over
  <2>4. stage'[p] = "report" /\ err'[p] = e
    BY <1>1, <2>2 DEF RunTypes
  <2>5. CourseInv(p)'
    BY <1>1, <1>3, <2>1, <2>2, <2>4 DEF Course, CourseInv, Reportable, Early
  <2>6. CheckInv(p)'
    BY <1>1, <2>4 DEF Course, CheckInv, Passed, Failing, Before, Checks, Over
  <2>7. AddrInv(p)'
    BY <1>1, <2>4 DEF Course, AddrInv, Resolved
  <2>8. QED
    BY <1>1, <2>3, <2>4, <2>5, <2>6, <2>7, OwnStep DEF Course
<1>4. QED
  BY <1>2, <1>3

LEMMA ReportStep == ASSUME Whole, NEW p \in Proc, Report(p) PROVE Whole'
<1>1. /\ stage[p] = "report" /\ Course(p)
      /\ UNCHANGED <<vars, cli, agent_addr, probe, from, moved, route>>
  BY RunOf DEF Report
<1>2. Reportable(p)
  BY <1>1 DEF Course, CourseInv
<1>3. exit_code(err[p]) \in {1, 2}
  BY DEF exit_code
<1>4. QED
  BY <1>1, <1>2, <1>3, ExitStep DEF Report

-------------------------------------------------------------------------------
(* Steps of an egress lookup: they change the port table only. *)

(* The transports see another holder of a port, or one holder less. *)
LEMMA LookupStep ==
    ASSUME Whole, NEW p \in Proc, UNCHANGED <<call, cli, from, route>>,
           NEW r \in Port, NEW h \in {Free, Probe}, bound' = [bound EXCEPT ![r] = h],
           Elsewhere(p), RunTypes', Course(p)',
           \A q \in Proc : ProbeInv(q)', \A q \in Port : ProbeKnown(q)'
    PROVE  Whole'
<1>1. Inv'
  BY PortStep, Holders DEF Whole
<1>2. Verdicts'
  BY VerdictFrame DEF Whole, Verdicts
<1>3. ASSUME NEW q \in Proc PROVE Course(q)'
  <2>1. CASE q = p
    BY <2>1
  <2>2. CASE q # p
    BY <2>2, RunOf, CourseFrame DEF Elsewhere
  <2>3. QED
    BY <2>1, <2>2
<1>4. QED
  BY <1>1, <1>2, <1>3 DEF Whole, TrapInv, RunInv, Course

LEMMA ProbeBindStep == ASSUME Whole, NEW p \in Proc, ProbeBind(p) PROVE Whole'
<1>1. /\ stage[p] = "agent_addr" /\ stage[p] \in Early
      /\ cli[p].positional = NoAddr /\ cli[p].src = NoAddr
      /\ UNCHANGED <<call, cli, agent_addr, from, moved, route>>
      /\ RunTypes /\ Course(p) /\ ProbeInv(p)
  BY RunOf DEF ProbeBind, Early, Whole, TrapInv
<1>2. CASE /\ \E e \in BindFailures(p, 0) : Fail(p, "Other")
           /\ UNCHANGED <<bound, probe>>
  <2>1. ~NothingWrong(p)
    BY <1>1 DEF NothingWrong, Course, CheckInv
  <2>2. QED
    BY <1>1, <1>2, <2>1, FailStep DEF ErrorClass
<1>3. ASSUME NEW r \in BindAnswers(p, 0), bound' = [bound EXCEPT ![r] = Probe],
             probe' = [probe EXCEPT ![p] = r], Goto(p, "lookup")
      PROVE  Whole'
  <2>1. r \in Port /\ r # 0 /\ bound[r] = Free
    BY PortAssumption, PortTypes DEF BindAnswers
  <2>2. /\ stage' = [stage EXCEPT ![p] = "lookup"] /\ UNCHANGED <<err, exit>>
        /\ stage'[p] = "lookup" /\ probe'[p] = r /\ bound'[r] = Probe
    BY <1>1, <1>3, <2>1 DEF Goto, RunTypes
  <2>3. RunTypes' /\ Elsewhere(p)
    BY <1>1, <1>3, <2>1, <2>2 DEF RunTypes, Elsewhere, Early
  <2>4. Course(p)'
    <3>1. CourseInv(p)'
      BY <1>1, <2>2 DEF Course, CourseInv, Early
    <3>2. CheckInv(p)'
      BY <1>1, <2>2
      DEF Course, CourseInv, CheckInv, Passed, Failing, Before, Checks, Early, Over
    <3>3. AddrInv(p)'
      BY <1>1, <2>2 DEF Course, CourseInv, AddrInv, Resolved
    <3>4. QED
      BY <3>1, <3>2, <3>3 DEF Course
  <2>5. ASSUME NEW q \in Proc PROVE ProbeInv(q)'
    <3>1. \A t \in Proc : ProbeInv(t) /\ probe[t] # r
      BY <2>1, RunOf, Holders DEF ProbeInv
    <3>2. CASE q = p
      BY <1>1, <1>3, <2>1, <2>2, <3>1, <3>2 DEF ProbeInv, RunTypes
    <3>3. CASE q # p
      <4>1. probe'[q] = probe[q] /\ stage'[q] = stage[q] /\ ProbeInv(q)
        BY <1>1, <1>3, <2>2, <3>1, <3>3 DEF RunTypes
      <4>2. probe[q] # 0 => bound'[probe[q]] = bound[probe[q]]
        BY <1>1, <1>3, <3>1 DEF RunTypes
      <4>3. \A t \in Proc \ {q} : probe'[t] \in {probe[t], r}
        BY <1>1, <1>3 DEF RunTypes
      <4>4. QED
        BY <3>1, <4>1, <4>2, <4>3 DEF ProbeInv
    <3>4. QED
      BY <3>2, <3>3
  <2>6. ASSUME NEW q \in Port PROVE ProbeKnown(q)'
    <3>1. CASE q = r
      BY <2>2, <3>1 DEF ProbeKnown
    <3>2. CASE q # r
      <4>1. ProbeKnown(q) /\ bound'[q] = bound[q]
        BY <1>1, <1>3, <3>2 DEF RunTypes, Whole, TrapInv
      <4>2. \A t \in Proc : probe[t] = q => probe'[t] = q
        BY <1>1, <1>3, PortTypes DEF ProbeInv, RunTypes
      <4>3. QED
        BY <4>1, <4>2 DEF ProbeKnown
    <3>3. QED
      BY <3>1, <3>2
  <2>7. QED
    BY <1>1, <1>3, <2>1, <2>3, <2>4, <2>5, <2>6, LookupStep
<1>4. QED
  BY <1>2, <1>3 DEF ProbeBind

LEMMA ProbeAnswerStep == ASSUME Whole, NEW p \in Proc, ProbeAnswer(p) PROVE Whole'
<1> DEFINE r == probe[p]
<1>1. /\ stage[p] = "lookup" /\ stage[p] \in Early
      /\ UNCHANGED <<call, cli, from, route>>
      /\ bound' = [bound EXCEPT ![r] = Free]
      /\ probe' = [probe EXCEPT ![p] = 0]
      /\ RunTypes /\ Course(p) /\ ProbeInv(p)
  BY RunOf DEF ProbeAnswer, Early, Whole, TrapInv
<1>2. r \in Port /\ r # 0 /\ bound[r] = Probe
  BY <1>1 DEF ProbeInv, RunTypes
<1>3. /\ cli[p].version = "v1" /\ cli[p].positional = NoAddr /\ cli[p].src = NoAddr
      /\ pc[p] = "idle"
  BY <1>1 DEF Course, CheckInv, CourseInv
<1>4. /\ RunTypes' /\ Elsewhere(p) /\ stage'[p] # "lookup" /\ Course(p)'
      /\ \A q \in Proc \ {p} : stage'[q] = stage[q]
  <2>1. CASE route = NoAddr
    <3>1. /\ stage' = [stage EXCEPT ![p] = "report"]
          /\ err' = [err EXCEPT ![p] = "Other"]
          /\ UNCHANGED <<exit, agent_addr, moved>>
      BY <2>1 DEF ProbeAnswer, Fail
    <3>2. stage'[p] = "report" /\ err'[p] = "Other"
      BY <1>1, <3>1 DEF RunTypes
    <3>3. RunTypes' /\ Elsewhere(p)
      BY <1>1, <1>2, <3>1, Holders DEF RunTypes, Elsewhere, Over, ErrorClass
    <3>4. CourseInv(p)'
      BY <1>1, <1>3, <3>1, <3>2
      DEF Course, CourseInv, Early, Reportable, NothingWrong, ErrorClass
    <3>5. CheckInv(p)'
      BY <1>1, <1>3, <3>2 DEF Course, CheckInv, Passed, Failing, Before, Checks, Over
    <3>6. AddrInv(p)'
      BY <1>1, <1>3, <3>2 DEF Course, AddrInv, Resolved
    <3>7. QED
      BY <3>1, <3>2, <3>3, <3>4, <3>5, <3>6 DEF Course, Elsewhere
  <2>2. CASE route # NoAddr
    <3>1. /\ stage' = [stage EXCEPT ![p] = "checks"] /\ UNCHANGED <<err, exit>>
          /\ agent_addr' = [agent_addr EXCEPT ![p] = route]
          /\ moved' = [moved EXCEPT ![p] = FALSE]
      BY <2>2 DEF ProbeAnswer, Goto
    <3>2. stage'[p] = "checks" /\ agent_addr'[p] = route
      BY <1>1, <3>1 DEF RunTypes
    <3>3. RunTypes' /\ Elsewhere(p)
      BY <1>1, <1>2, <3>1, Holders DEF RunTypes, Elsewhere, Early
    <3>4. CourseInv(p)'
      BY <1>1, <1>3, <3>1, <3>2 DEF Course, CourseInv, Early
    <3>5. CheckInv(p)'
      BY <1>1, <1>3, <3>2 DEF Course, CheckInv, Passed, Failing, Before, Checks, Over, Early
    <3>6. AddrInv(p)'
      BY <1>1, <1>3, <3>2 DEF Course, AddrInv, Resolved
    <3>7. QED
      BY <3>1, <3>2, <3>3, <3>4, <3>5, <3>6 DEF Course, Elsewhere
  <2>3. QED
    BY <2>1, <2>2
<1>5. /\ probe'[p] = 0 /\ bound'[r] = Free
      /\ \A q \in Proc \ {p} : probe'[q] = probe[q] /\ probe[q] # r /\ ProbeInv(q)
      /\ \A q \in Port \ {r} : bound'[q] = bound[q]
  BY <1>1, <1>2, RunOf DEF RunTypes, ProbeInv
<1>6. ASSUME NEW q \in Proc PROVE ProbeInv(q)'
  <2>1. CASE q = p
    BY <1>4, <1>5, <2>1 DEF ProbeInv
  <2>2. CASE q # p
    <3>1. probe[q] \in Port \cup {0}
      BY <1>1 DEF RunTypes
    <3>2. QED
      BY <1>4, <1>5, <2>2, <3>1 DEF ProbeInv
  <2>3. QED
    BY <2>1, <2>2
<1>7. ASSUME NEW q \in Port PROVE ProbeKnown(q)'
  <2>1. CASE q = r
    BY <1>5, <2>1, Holders DEF ProbeKnown
  <2>2. CASE q # r
    <3>1. ProbeKnown(q)
      BY DEF Whole, TrapInv
    <3>2. QED
      BY <1>5, <2>2, <3>1 DEF ProbeKnown
  <2>3. QED
    BY <2>1, <2>2
<1>8. QED
  BY <1>1, <1>2, <1>4, <1>6, <1>7, LookupStep

-------------------------------------------------------------------------------
(* Steps of the transports and of the environment. *)

(* What a step of p's transport does to the port table and to its place. *)
LEMMA MoveFacts ==
    ASSUME CallTypes, NEW p \in Proc, Call(p) \/ Step(p)
    PROVE  /\ req' = req /\ pc'[p] # "idle"
           /\ \/ bound' = bound
              \/ \E q \in Port : bound[q] = Free /\ bound' = [bound EXCEPT ![q] = p]
              \/ bound' = [q \in Port |-> IF bound[q] = p THEN Free ELSE bound[q]]
<1>1. req' = req
  BY DEF Call, Step, Run, Answer, RawUnsupported, RejectOversize, OpenRaw,
         SetHeaderIncluded, Bind, Attempt, SendOk, SendInterrupted, SendError,
         GiveUp, Close
<1>2. pc'[p] # "idle"
  BY DEF Call, Step, Run, Answer, RawUnsupported, RejectOversize, OpenRaw, ReturnError,
         SetHeaderIncluded, StartLoop, Bind, Attempt, SendOk, SendInterrupted, SendError,
         GiveUp, Close, CallTypes
<1>3. CASE Bind(p)
  <2>1. \A q \in BindAnswers(p, req[p].src_port) : q \in Port /\ bound[q] = Free
    <3>1. req[p].src_port \in Port \cup {0} /\ Ephemeral \subseteq Port
      BY RequestTypes, PortAssumption
    <3>2. QED
      BY <3>1 DEF BindAnswers
  <2>2. QED
    BY <1>1, <1>2, <1>3, <2>1 DEF Bind
<1>4. CASE ~Bind(p)
  BY <1>1, <1>2, <1>4
  DEF Call, Step, Run, Answer, RawUnsupported, RejectOversize, OpenRaw,
      SetHeaderIncluded, Attempt, SendOk, SendInterrupted, SendError, GiveUp, Close
<1>5. QED
  BY <1>3, <1>4

LEMMA TransmitStep == ASSUME Whole, NEW p \in Proc, Transmit(p) PROVE Whole'
<1>1. /\ stage[p] = "send" /\ (Call(p) \/ Step(p))
      /\ UNCHANGED <<stage, cli, err, agent_addr, probe, moved, exit, route>>
      /\ CallTypes /\ RunTypes /\ Course(p) /\ cli[p] \in Cli
  BY RunOf DEF Transmit, Whole, TrapInv, Inv
<1>2. Inv'
  BY <1>1, MoveStep DEF Whole
<1>3. VerdictInv(p)' /\ Others(p)
  BY <1>1, VerdictStep DEF Whole
<1>4. Verdicts'
  BY <1>3, VerdictFrame DEF Whole, Verdicts, Others, Same
<1>5. /\ req' = req /\ pc'[p] # "idle"
      /\ \/ bound' = bound
         \/ \E q \in Port : bound[q] = Free /\ bound' = [bound EXCEPT ![q] = p]
         \/ bound' = [q \in Port |-> IF bound[q] = p THEN Free ELSE bound[q]]
  BY <1>1, MoveFacts
<1>6. PICK x \in SUBSET (Addr \cup {NoAddr}) :
          /\ from' = [from EXCEPT ![p] = from[p] \cup x]
          /\ x \subseteq {IF req[p].raw THEN cli[p].src ELSE route}
  <2>1. CASE wire'[p] = wire[p]
    <3>1. from' = [from EXCEPT ![p] = from[p] \cup {}]
      BY <1>1, <2>1 DEF Transmit, RunTypes
    <3>2. {} \in SUBSET (Addr \cup {NoAddr})
          /\ {} \subseteq {IF req[p].raw THEN cli[p].src ELSE route}
      OBVIOUS
    <3>3. QED
      BY <3>1, <3>2
  <2>2. CASE wire'[p] # wire[p]
    <3>1. (IF req[p].raw THEN cli[p].src ELSE route) \in Addr \cup {NoAddr}
      BY <1>1 DEF RunTypes, Cli
    <3>2. QED
      BY <2>2, <3>1 DEF Transmit
  <2>3. QED
    BY <2>1, <2>2
<1>7. RunTypes'
  BY <1>1, <1>5, <1>6 DEF RunTypes
<1>8. from'[p] = from[p] \cup x /\ \A q \in Proc \ {p} : from'[q] = from[q]
  BY <1>1, <1>6 DEF RunTypes
<1>9. ASSUME NEW q \in Proc PROVE Course(q)'
  <2>1. CASE q # p
    BY <1>1, <1>3, <1>8, <2>1, RunOf, CourseFrame DEF Others, Same
  <2>2. CASE q = p
    <3>1. CourseInv(p)'
      BY <1>1 DEF Course, CourseInv, Early
    <3>2. CheckInv(p)'
      BY <1>1 DEF Course, CheckInv, Passed, Failing, Before, Checks, Over
    <3>3. AddrInv(p)'
      <4>1. /\ (req[p].raw <=> cli[p].src # NoAddr) /\ Resolved(p)
            /\ AddrInv(p)
        BY <1>1 DEF Course, AddrInv, Resolved
      <4>2. QED
        BY <1>1, <1>5, <1>6, <1>8, <4>1 DEF AddrInv, Resolved
    <3>4. QED
      BY <2>2, <3>1, <3>2, <3>3 DEF Course
  <2>3. QED
    BY <2>1, <2>2
<1>10. /\ \A q \in Proc : ProbeInv(q)'
       /\ \A q \in Port : ProbeKnown(q)'
  <2>1. \A q \in Port : bound'[q] = Probe <=> bound[q] = Probe
    BY <1>1, <1>5, Holders DEF RunTypes
  <2>2. QED
    BY <1>1, <2>1, ProbesKept
<1>11. QED
  BY <1>2, <1>4, <1>7, <1>9, <1>10 DEF Whole, TrapInv, RunInv, Course

LEMMA OtherProgramsStep == ASSUME Whole, OtherPrograms PROVE Whole'
<1>1. /\ ForeignPort /\ UNCHANGED <<call, own, route>> /\ RunTypes
  BY DEF OtherPrograms, ForeignPort, Whole, TrapInv
<1>2. Inv' /\ Verdicts'
  BY <1>1, ForeignPortStep, VerdictFrame DEF Whole, Verdicts
<1>3. RunTypes'
  BY <1>1 DEF RunTypes, own, ForeignPort
<1>4. \A q \in Proc : Course(q)'
  BY <1>1, RunOf, CourseFrame DEF own
<1>5. /\ \A q \in Proc : ProbeInv(q)'
      /\ \A q \in Port : ProbeKnown(q)'
  <2>1. \A q \in Port : bound'[q] = Probe <=> bound[q] = Probe
    BY <1>1, Holders DEF RunTypes, ForeignPort
  <2>2. CASE Proc = {}
    BY <1>1, <2>1, <2>2 DEF ProbeKnown, own, Whole, TrapInv
  <2>3. CASE Proc # {}
    BY <1>1, <2>1, <2>3, ProbesKept DEF own
  <2>4. QED
    BY <2>2, <2>3
<1>6. QED
  BY <1>2, <1>3, <1>4, <1>5 DEF Whole, TrapInv, RunInv, Course

LEMMA RerouteStep == ASSUME Whole, Reroute PROVE Whole'
<1>1. /\ route' \in Addr \cup {NoAddr}
      /\ moved' = [p \in Proc |-> TRUE]
      /\ UNCHANGED <<vars, stage, cli, err, agent_addr, probe, from, exit>>
      /\ RunTypes
  BY DEF Reroute, Whole, TrapInv
<1>2. Inv' /\ Verdicts'
  BY <1>1, StutterStep, VerdictFrame DEF Whole, Verdicts
<1>3. RunTypes'
  BY <1>1 DEF RunTypes
<1>4. ASSUME NEW q \in Proc PROVE Course(q)'
  <2>1. Course(q)
    BY RunOf
  <2>2. CourseInv(q)' /\ CheckInv(q)'
    BY <1>1, <2>1
    DEF Course, CourseInv, Reportable, NothingWrong, CheckInv, Passed, Failing, Before, Checks
  <2>3. AddrInv(q)'
    BY <1>1, <2>1 DEF Course, AddrInv, Resolved
  <2>4. QED
    BY <2>2, <2>3 DEF Course
<1>5. /\ \A q \in Proc : ProbeInv(q)'
      /\ \A q \in Port : ProbeKnown(q)'
  BY <1>1, RunOf DEF ProbeInv, ProbeKnown, Whole, TrapInv
<1>6. QED
  BY <1>2, <1>3, <1>4, <1>5 DEF Whole, TrapInv, RunInv, Course

-------------------------------------------------------------------------------
(* The invariant of a whole run. *)

LEMMA TrapInitInv == TrapInit => Whole
<1>1. SUFFICES ASSUME TrapInit PROVE Whole
  OBVIOUS
<1>2. Init
  BY <1>1 DEF TrapInit
<1>3. Inv /\ Verdicts
  BY <1>2, InitInv DEF Init, Verdicts, VerdictInv
<1>4. RunTypes
  <2>1. bound \in [Port -> {Free, Foreign}]
    BY <1>2 DEF Init
  <2>2. QED
    BY <1>1, <2>1 DEF TrapInit, RunTypes, Early
<1>5. ASSUME NEW p \in Proc PROVE RunInv(p)
  <2>1. /\ stage[p] = "argv" /\ pc[p] = "idle" /\ exit[p] = -1 /\ probe[p] = 0
        /\ from[p] = {} /\ (req[p].raw <=> cli[p].src # NoAddr)
        /\ \A r \in Proc : probe[r] = 0
    BY <1>1, <1>2 DEF TrapInit, Init
  <2>2. CourseInv(p)
    BY <2>1 DEF CourseInv
  <2>3. CheckInv(p) /\ AddrInv(p) /\ ProbeInv(p)
    BY <2>1 DEF CheckInv, AddrInv, Resolved, ProbeInv
  <2>4. QED
    BY <2>2, <2>3 DEF RunInv
<1>6. ASSUME NEW q \in Port PROVE ProbeKnown(q)
  BY <1>2, Holders DEF Init, ProbeKnown
<1>7. QED
  BY <1>3, <1>4, <1>5, <1>6 DEF Whole, TrapInv

LEMMA TrapNextInv == Whole /\ [TrapNext]_allVars => Whole'
<1>1. SUFFICES ASSUME Whole, [TrapNext]_allVars PROVE Whole'
  OBVIOUS
<1>2. ASSUME NEW p \in Proc, TrapStep(p) \/ Transmit(p) PROVE Whole'
  BY <1>1, <1>2, ParseArgvStep, ResolveAgentStep, BeginBuildStep, GivenAgentAddrStep,
     ProbeBindStep, ProbeAnswerStep, FinishBuildStep, DumpStep, ReturnedStep,
     ReportStep, TransmitStep
  DEF TrapStep
<1>3. CASE OtherPrograms \/ Reroute
  BY <1>1, <1>3, OtherProgramsStep, RerouteStep
<1>4. CASE UNCHANGED allVars
  <2>1. Inv' /\ Verdicts'
    BY <1>1, <1>4, StutterStep, VerdictFrame DEF Whole, Verdicts, allVars
  <2>2. RunTypes'
    BY <1>1, <1>4 DEF RunTypes, allVars, own, Whole, TrapInv
  <2>3. \A q \in Proc : Course(q)'
    BY <1>1, <1>4, RunOf, CourseFrame DEF allVars, own
  <2>4. /\ \A q \in Proc : ProbeInv(q)'
        /\ \A q \in Port : ProbeKnown(q)'
    BY <1>1, <1>4, RunOf DEF ProbeInv, ProbeKnown, Whole, TrapInv, allVars, own
  <2>5. QED
    BY <2>1, <2>2, <2>3, <2>4 DEF Whole, TrapInv, RunInv, Course
<1>5. QED
  BY <1>1, <1>2, <1>3, <1>4 DEF TrapNext

(* Every reachable state of every set of runs is coherent: the stage of a run
   tells which checks it passed, whether its transport was called, which port its
   lookup holds and what its agent address is. *)
LEMMA WholeInvariant == TrapSpec => []Whole
BY TrapInitInv, TrapNextInv, PTL DEF TrapSpec

THEOREM RunsCoherent == TrapSpec => []TrapInv
<1>1. Whole => TrapInv
  BY DEF Whole
<1>2. QED
  BY <1>1, WholeInvariant, PTL

(* The port of an egress lookup is given back before anything is sent. *)
THEOREM LookupsReturnPorts == TrapSpec => []LookupReleased
<1>1. Whole => LookupReleased
  BY DEF Whole, TrapInv, RunInv, ProbeInv, ProbeKnown, LookupReleased
<1>2. QED
  BY <1>1, WholeInvariant, PTL

(* Checks passed one list after the other are passed together. *)
LEMMA PassedBoth ==
    ASSUME NEW p \in Proc, NEW s \in Seq(Fault), NEW t \in Seq(Fault),
           Passed(p, s), Passed(p, t)
    PROVE  Passed(p, s \o t)
<1>1. /\ DOMAIN s = 1 .. Len(s) /\ DOMAIN t = 1 .. Len(t)
      /\ Len(s) \in Nat /\ Len(t) \in Nat
  BY LenProperties
<1>2. /\ s \o t \in Seq(Fault) /\ Len(s \o t) = Len(s) + Len(t)
      /\ \A i \in 1 .. Len(s) + Len(t) :
             (s \o t)[i] = IF i <= Len(s) THEN s[i] ELSE t[i - Len(s)]
  BY ConcatProperties
<1>3. DOMAIN (s \o t) = 1 .. Len(s) + Len(t)
  BY <1>2, LenProperties
<1>4. ASSUME NEW i \in DOMAIN (s \o t) PROVE (s \o t)[i] \notin cli[p].faults
  <2>1. i \in 1 .. Len(s) + Len(t)
    BY <1>3
  <2>2. CASE i <= Len(s)
    BY <1>1, <1>2, <2>1, <2>2 DEF Passed, Failing
  <2>3. CASE i > Len(s)
    <3>1. i - Len(s) \in DOMAIN t /\ (s \o t)[i] = t[i - Len(s)]
      BY <1>1, <1>2, <2>1, <2>3
    <3>2. QED
      BY <3>1 DEF Passed, Failing
  <2>4. QED
    BY <1>1, <2>1, <2>2, <2>3
<1>5. QED
  BY <1>4 DEF Passed, Failing

(* A run asks the kernel for an address only when none was given, and opens a
   socket to send with only when its whole command line is good. *)
THEOREM SocketsNeeded == TrapSpec => []SocketsOnlyWhenNeeded
<1>1. Whole => SocketsOnlyWhenNeeded
  <2>1. SUFFICES ASSUME Whole, NEW p \in Proc
        PROVE  /\ probe[p] # 0 =>
                      /\ cli[p].version = "v1"
                      /\ cli[p].positional = NoAddr /\ cli[p].src = NoAddr
                      /\ cli[p].faults \cap {"argv", "agent", "args"} = {}
               /\ sock[p] # "none" =>
                      /\ cli[p].faults \cap {"argv", "agent"} = {}
                      /\ Failing(p, Before(p) \o Checks(p)) = {}
    BY DEF SocketsOnlyWhenNeeded
  <2>2. CheckInv(p) /\ ProbeInv(p) /\ PhaseInv(p)
    BY <2>1, RunOf DEF Whole, Inv, CallInv, Course
  <2>3. ASSUME probe[p] # 0
        PROVE  /\ cli[p].version = "v1"
               /\ cli[p].positional = NoAddr /\ cli[p].src = NoAddr
               /\ cli[p].faults \cap {"argv", "agent", "args"} = {}
    <3>1. stage[p] = "lookup"
      BY <2>2, <2>3 DEF ProbeInv
    <3>2. /\ cli[p].version = "v1" /\ cli[p].positional = NoAddr /\ cli[p].src = NoAddr
          /\ "argv" \notin cli[p].faults /\ "agent" \notin cli[p].faults
          /\ Passed(p, Before(p))
      BY <2>2, <3>1 DEF CheckInv, Over
    <3>3. "args" \notin cli[p].faults
      BY <3>2 DEF Passed, Failing, Before
    <3>4. QED
      BY <3>2, <3>3
  <2>4. ASSUME sock[p] # "none"
        PROVE  /\ cli[p].faults \cap {"argv", "agent"} = {}
               /\ Failing(p, Before(p) \o Checks(p)) = {}
    <3>1. /\ cli[p].faults \cap {"argv", "agent"} = {}
          /\ Passed(p, Before(p)) /\ Passed(p, Checks(p))
      BY <2>2, <2>4 DEF PhaseInv, CheckInv
    <3>2. Before(p) \in Seq(Fault)
      <4>1. << >> \in Seq(Fault) /\ <<"args">> \in Seq(Fault)
        BY EmptySeq DEF Fault
      <4>2. QED
        BY <4>1 DEF Before
    <3>3. Checks(p) \in Seq(Fault)
      <4>1. CASE cli[p].version = "v1"
        BY <4>1 DEF Checks, Fault
      <4>2. CASE cli[p].version = "v2c"
        BY <4>2 DEF Checks, Fault
      <4>3. CASE cli[p].version \notin {"v1", "v2c"}
        <5>1. Checks(p) = <<"args", "uptime", "stat", "trap_kind", "varbinds",
                            "engine_id", "keys", "encode">>
          BY <4>3 DEF Checks
        <5>2. QED
          BY <5>1 DEF Fault
      <4>4. QED
        BY <4>1, <4>2, <4>3
    <3>4. QED
      BY <3>1, <3>2, <3>3, PassedBoth DEF Passed
  <2>5. QED
    BY <2>3, <2>4
<1>2. QED
  BY <1>1, WholeInvariant, PTL

(* A v1 trap that was given no AGENT-ADDR names the source of its datagrams. *)
THEOREM AgentAddrNamesSource == TrapSpec => []AgentAddrCoherent
<1>1. Whole => AgentAddrCoherent
  <2>1. SUFFICES ASSUME Whole, NEW p \in Proc,
                        cli[p].version = "v1", cli[p].positional = NoAddr,
                        cli[p].src # NoAddr \/ ~moved[p]
        PROVE  from[p] \subseteq {agent_addr[p]}
    BY DEF AgentAddrCoherent
  <2>2. AddrInv(p)
    BY <2>1, RunOf DEF Course
  <2>3. QED
    BY <2>1, <2>2 DEF AddrInv, Resolved
<1>2. QED
  BY <1>1, WholeInvariant, PTL

(* A run that returns a usage error of its transport has sent nothing. *)
LEMMA UsageSentNothing ==
    ASSUME Inv, NEW p \in Proc, pc[p] = "idle" \/ result[p] = "Usage"
    PROVE  wire[p] = << >>
<1>1. PhaseInv(p) /\ PortInv(p) /\ BudgetInv(p)
  BY DEF Inv, CallInv
<1>2. SendClass(p, last_err[p]) # "Usage"
  BY DEF SendClass, classify_raw_send, map_send_io
<1>3. src_port[p] = 0
  BY <1>1, <1>2 DEF PhaseInv, BudgetInv
<1>4. QED
  BY <1>1, <1>3 DEF PortInv

(* Status 0 is for a trap that left the host or for help, 2 for a command line
   of which nothing left it, and an error is never reported for nothing. *)
THEOREM ExitStatusPromise == TrapSpec => []ExitStatus
<1>1. Whole => ExitStatus
  <2>1. SUFFICES ASSUME Whole, NEW p \in Proc
        PROVE  /\ exit[p] = 0 => cli[p].help \/ (result[p] = "Ok" /\ wire[p] # << >>)
               /\ exit[p] = 2 => wire[p] = << >>
               /\ exit[p] = 101 => cli[p].stderr = "broken"
               /\ exit[p] \in {1, 2, 101} => result[p] # "Ok" /\ ~NothingWrong(p)
               /\ exit[p] \in {1, 2} => (exit[p] = 2 <=> err[p] = "Usage")
    BY DEF ExitStatus
  <2>2. /\ CourseInv(p) /\ exit[p] \in {-1, 0, 1, 2, 101}
        /\ Inv /\ PhaseInv(p) /\ BudgetInv(p)
    BY <2>1, RunOf DEF Whole, Inv, CallInv, Course
  <2>3. CASE exit[p] = -1
    BY <2>3
  <2>4. CASE exit[p] = 0
    <3>1. cli[p].help \/ result[p] = "Ok"
      BY <2>2, <2>4 DEF CourseInv, exit_code
    <3>2. QED
      BY <2>2, <2>4, <3>1 DEF BudgetInv
  <2>5. CASE exit[p] \in {1, 2, 101}
    <3>1. /\ exit[p] = IF cli[p].stderr = "broken" THEN 101 ELSE exit_code(err[p])
          /\ Reportable(p)
      BY <2>2, <2>5 DEF CourseInv
    <3>2. exit[p] # 101 => exit[p] = exit_code(err[p])
      BY <3>1
    <3>3. exit[p] = 101 => cli[p].stderr = "broken"
      BY <3>1 DEF exit_code
    <3>4. exit[p] \in {1, 2} => (exit[p] = 2 <=> err[p] = "Usage")
      BY <3>2 DEF exit_code
    <3>5. result[p] # "Ok" /\ ~NothingWrong(p)
      BY <2>2, <3>1 DEF Reportable, NothingWrong, PhaseInv, ErrorClass
    <3>6. exit[p] = 2 => wire[p] = << >>
      BY <2>2, <3>1, <3>4, UsageSentNothing DEF Reportable
    <3>7. QED
      BY <2>5, <3>3, <3>4, <3>5, <3>6
  <2>6. QED
    BY <2>2, <2>3, <2>4, <2>5
<1>2. QED
  BY <1>1, WholeInvariant, PTL

(* What is proved of the transports holds of the whole program, whoever else
   opens sockets: its egress lookups, other programs, other runs. *)
THEOREM TransportsSafe ==
    TrapSpec => [](/\ CopiesWithinBudget /\ CopiesIdentical /\ LengthsExact
                   /\ LastErrorDecides /\ PortsReleased
                   /\ CapabilityVerdict /\ MtuVerdict)
<1>1. Whole => /\ CopiesWithinBudget /\ CopiesIdentical /\ LengthsExact
               /\ LastErrorDecides /\ PortsReleased
               /\ CapabilityVerdict /\ MtuVerdict
  BY CopiesHold, IdenticalHold, LengthsHold, LastErrorHolds, PortsHold,
     CapabilityHolds, MtuHolds
  DEF Whole
<1>2. QED
  BY <1>1, WholeInvariant, PTL

(* A bind that fails blames the command line for nothing the run did itself. *)
LEMMA HeldByAnother ==
    ASSUME Whole, NEW p \in Proc, pc[p] = "bind", NEW r \in Port, bound[r] # Free
    PROVE  HeldElsewhere(p, r)
<1>1. bound[r] \in Proc \cup {Foreign, Probe} /\ HolderInv(r) /\ ProbeKnown(r)
  BY DEF Whole, TrapInv, RunTypes, Inv, CallInv
<1>2. CASE bound[r] \in Proc
  BY <1>2, <1>1 DEF HolderInv, HeldElsewhere, HeldByOther
<1>3. CASE bound[r] = Foreign
  BY <1>3 DEF HeldElsewhere, HeldByOther
<1>4. CASE bound[r] = Probe
  <2>1. PICK s \in Proc : probe[s] = r
    BY <1>1, <1>4 DEF ProbeKnown
  <2>2. r # 0 /\ stage[s] = "lookup"
    BY <2>1, RunOf DEF ProbeInv
  <2>3. s # p
    BY <2>2, RunOf DEF Course, CourseInv, Early
  <2>4. QED
    BY <1>4, <2>1, <2>2, <2>3 DEF HeldElsewhere
<1>5. QED
  BY <1>1, <1>2, <1>3, <1>4

(* Exit status 2 after a failed bind is the fault of the command line or of
   another holder, although every v1 run may take a port just before. *)
THEOREM LookupNeverInTheWay == TrapSpec => UsageBlamesOthers
<1>1. Whole /\ [TrapNext]_allVars =>
          [\A p \in Proc : result[p] = "none" /\ result'[p] = "Usage" =>
               \/ req[p].src_port \in 1 .. 1023
               \/ Pinned(p)  /\ HeldElsewhere(p, req[p].src_port)
               \/ ~Pinned(p) /\ \A q \in Ephemeral : HeldElsewhere(p, q)]_allVars
  <2>1. SUFFICES ASSUME Whole, TrapNext, NEW p \in Proc,
                        result[p] = "none", result'[p] = "Usage",
                        req[p].src_port \notin 1 .. 1023
        PROVE  \/ Pinned(p)  /\ HeldElsewhere(p, req[p].src_port)
               \/ ~Pinned(p) /\ \A q \in Ephemeral : HeldElsewhere(p, q)
    OBVIOUS
  <2>2. PICK q \in Proc : Call(q) \/ Step(q)
    BY <2>1
    DEF TrapNext, TrapStep, ParseArgv, ResolveAgent, BeginBuild, GivenAgentAddr, ProbeBind,
        ProbeAnswer, FinishBuild, Dump, Returned, Report, OtherPrograms, ForeignPort,
        Reroute, Transmit
  <2>3. /\ pc[p] = "bind" /\ BindAnswers(p, req[p].src_port) = {}
        /\ Pinned(p) => MayBind(p, req[p].src_port)
    BY <2>1, <2>2, UsageStep DEF Whole
  <2>4. CASE Pinned(p)
    BY <2>1, <2>3, <2>4, RequestTypes, HeldByAnother DEF Pinned, BindAnswers, Whole, Inv
  <2>5. CASE ~Pinned(p)
    <3>1. \A r \in Ephemeral : r \in Port /\ MayBind(p, r)
      BY PortAssumption DEF MayBind
    <3>2. QED
      BY <2>1, <2>3, <2>5, <3>1, HeldByAnother DEF Pinned, BindAnswers
  <2>6. QED
    BY <2>4, <2>5
<1>2. QED
  BY <1>1, WholeInvariant, PTL DEF TrapSpec, UsageBlamesOthers

-------------------------------------------------------------------------------
(* The program implements the transports: with the lookups' sockets counted as
   another program's, each of its steps is one of theirs, or none. *)

Hidden == [q \in Port |-> IF bound[q] = Probe THEN Foreign ELSE bound[q]]

LEMMA HiddenInit == TrapInit => Sockets!Init
<1>1. SUFFICES ASSUME TrapInit PROVE Sockets!Init
  OBVIOUS
<1>2. Init
  BY <1>1 DEF TrapInit
<1>3. Hidden \in [Port -> {Free, Foreign}]
  BY <1>2, Holders DEF Init, Hidden
<1>4. QED
  BY <1>2, <1>3 DEF Init, Hidden, Sockets!Init

(* The table is hidden the same way before and after a step that leaves it. *)
LEMMA HiddenKept == ASSUME UNCHANGED bound PROVE Hidden' = Hidden
BY DEF Hidden

(* A port changes hands in the table that the transports see. *)
LEMMA HiddenExcept ==
    ASSUME RunTypes, NEW r \in Port, NEW h, bound' = [bound EXCEPT ![r] = h]
    PROVE  Hidden' = [Hidden EXCEPT ![r] = IF h = Probe THEN Foreign ELSE h]
BY DEF RunTypes, Hidden

LEMMA HiddenFree == ASSUME NEW q \in Port PROVE Hidden[q] = Free <=> bound[q] = Free
BY Holders DEF Hidden

LEMMA HiddenCall == ASSUME NEW p \in Proc, Call(p) PROVE Sockets!Call(p)
BY HiddenKept DEF Call, Sockets!Call, Hidden

(* The steps of a call that have nothing to do with ports. *)
LEMMA HiddenRaw ==
    ASSUME NEW p \in Proc,
           \/ RawUnsupported(p) \/ RejectOversize(p) \/ OpenRaw(p) \/ SetHeaderIncluded(p)
    PROVE  Sockets!Run(p)
<1>1. CASE RawUnsupported(p)
  BY <1>1, HiddenKept DEF RawUnsupported, ReturnError, Hidden,
     Sockets!Run, Sockets!RawUnsupported, Sockets!ReturnError
<1>2. CASE RejectOversize(p)
  BY <1>2, HiddenKept DEF RejectOversize, ReturnError, Hidden, MAX_UDP_PAYLOAD, u16_max,
     Sockets!Run, Sockets!RejectOversize, Sockets!ReturnError, Sockets!MAX_UDP_PAYLOAD,
     Sockets!u16_max
<1>3. CASE OpenRaw(p)
  BY <1>3, HiddenKept DEF OpenRaw, ReturnError, OpenFailures, Hidden, MAX_UDP_PAYLOAD, u16_max,
     classify_raw_open, Denials,
     Sockets!Run, Sockets!OpenRaw, Sockets!ReturnError, Sockets!OpenFailures,
     Sockets!MAX_UDP_PAYLOAD, Sockets!u16_max, Sockets!classify_raw_open, Sockets!Denials
<1>4. CASE SetHeaderIncluded(p)
  <2>1. /\ pick_ephemeral_port = Sockets!pick_ephemeral_port
        /\ Pinned(p) <=> Sockets!Pinned(p)
        /\ \A port : StartLoop(p, port) <=> Sockets!StartLoop(p, port)
        /\ \A e : classify_raw_open(e) = Sockets!classify_raw_open(e)
    BY DEF pick_ephemeral_port, u16_max, Pinned, StartLoop, classify_raw_open, Denials,
       Sockets!pick_ephemeral_port, Sockets!u16_max, Sockets!Pinned, Sockets!StartLoop,
       Sockets!classify_raw_open, Sockets!Denials
  <2>2. Hidden' = Hidden
    BY <1>4, HiddenKept DEF SetHeaderIncluded
  <2>3. Sockets!SetHeaderIncluded(p)
    BY <1>4, <2>1, <2>2 DEF SetHeaderIncluded, Hidden, Sockets!SetHeaderIncluded
  <2>4. QED
    BY <2>3 DEF Sockets!Run
<1>5. QED
  BY <1>1, <1>2, <1>3, <1>4

LEMMA HiddenLoop ==
    ASSUME NEW p \in Proc, Attempt(p) \/ GiveUp(p)
    PROVE  Sockets!Run(p)
<1>1. CASE Attempt(p)
  BY <1>1, HiddenKept DEF Attempt, Hidden, Sockets!Run, Sockets!Attempt
<1>2. CASE GiveUp(p)
  BY <1>2, HiddenKept DEF GiveUp, SendClass, classify_raw_send, map_send_io,
     UnreachableKinds, Denials, Hidden,
     Sockets!Run, Sockets!GiveUp, Sockets!SendClass, Sockets!classify_raw_send,
     Sockets!map_send_io, Sockets!UnreachableKinds, Sockets!Denials
<1>3. QED
  BY <1>1, <1>2

LEMMA HiddenSending ==
    ASSUME NEW p \in Proc, Answer(p) \/ SendInterrupted(p)
    PROVE  Sockets!Answer(p) \/ Sockets!SendInterrupted(p)
<1>1. TooBig(p) <=> Sockets!TooBig(p)
  BY DEF TooBig, MAX_UDP_PAYLOAD, u16_max, Sockets!TooBig, Sockets!MAX_UDP_PAYLOAD,
     Sockets!u16_max
<1>2. datagram(p) = Sockets!datagram(p)
  BY DEF datagram, udp_len, total_length, u16_max, Sockets!datagram, Sockets!udp_len,
     Sockets!total_length, Sockets!u16_max
<1>3. Emit(p) <=> Sockets!Emit(p)
  BY <1>2 DEF Emit, Sockets!Emit
<1>4. CASE SendOk(p)
  BY <1>1, <1>3, <1>4, HiddenKept DEF SendOk, Hidden, Sockets!Answer, Sockets!SendOk
<1>5. CASE SendError(p)
  BY <1>1, <1>3, <1>5, HiddenKept DEF SendError, SendFailures, Hidden,
     Sockets!Answer, Sockets!SendError, Sockets!SendFailures
<1>6. CASE SendInterrupted(p)
  BY <1>6, HiddenKept DEF SendInterrupted, Hidden, Sockets!SendInterrupted
<1>7. QED
  BY <1>4, <1>5, <1>6 DEF Answer

(* The kernel answers a bind the same way, whoever the other holders are. *)
LEMMA HiddenBind ==
    ASSUME RunTypes, CallTypes, NEW p \in Proc, Bind(p)
    PROVE  Sockets!Bind(p)
<1> DEFINE port == req[p].src_port
<1>1. port \in Port \cup {0} /\ Ephemeral \subseteq Port
  BY RequestTypes, PortAssumption
<1>2. \A q : MayBind(p, q) <=> Sockets!MayBind(p, q)
  BY DEF MayBind, Sockets!MayBind
<1>3. BindAnswers(p, port) = Sockets!BindAnswers(p, port)
  BY <1>1, <1>2, HiddenFree DEF BindAnswers, Hidden, Sockets!BindAnswers
<1>4. BindFailures(p, port) = Sockets!BindFailures(p, port)
  BY <1>2, <1>3 DEF BindFailures, Sockets!BindFailures
<1>5. /\ pc[p] = "bind" /\ UNCHANGED <<req, last_err, wire, errs>>
  BY DEF Bind
<1>6. ASSUME NEW r \in BindAnswers(p, port), StartLoop(p, r),
             bound' = [bound EXCEPT ![r] = p], sock' = [sock EXCEPT ![p] = "udp"],
             UNCHANGED result
      PROVE  Sockets!Bind(p)
  <2>1. r \in Port
    BY <1>1 DEF BindAnswers
  <2>2. Hidden' = [Hidden EXCEPT ![r] = p]
    BY <1>6, <2>1, HiddenExcept, Holders
  <2>3. Sockets!StartLoop(p, r)
    BY <1>6 DEF StartLoop, Sockets!StartLoop
  <2>4. QED
    BY <1>3, <1>5, <1>6, <2>2, <2>3 DEF Hidden, Sockets!Bind
<1>7. ASSUME NEW e \in BindFailures(p, port), ReturnError(p, classify_bind_io(e, port)),
             UNCHANGED <<sock, src_port, budget, bound>>
      PROVE  Sockets!Bind(p)
  <2>1. Sockets!ReturnError(p, Sockets!classify_bind_io(e, port))
    BY <1>7 DEF ReturnError, classify_bind_io, Sockets!ReturnError, Sockets!classify_bind_io
  <2>2. Hidden' = Hidden
    BY <1>7, HiddenKept
  <2>3. QED
    BY <1>4, <1>5, <1>7, <2>1, <2>2 DEF Hidden, Sockets!Bind
<1>8. QED
  BY <1>6, <1>7 DEF Bind

LEMMA HiddenClose ==
    ASSUME RunTypes, NEW p \in Proc, Close(p)
    PROVE  Sockets!Close(p)
<1>1. bound' = [q \in Port |-> IF bound[q] = p THEN Free ELSE bound[q]]
  BY DEF Close
<1>2. Hidden' = [q \in Port |-> IF Hidden[q] = p THEN Free ELSE Hidden[q]]
  <2>1. ASSUME NEW q \in Port
        PROVE  Hidden'[q] = IF Hidden[q] = p THEN Free ELSE Hidden[q]
    BY <1>1, Holders DEF Hidden
  <2>2. Hidden' = [q \in Port |-> Hidden'[q]]
    BY DEF Hidden
  <2>3. QED
    BY <2>1, <2>2
<1>3. QED
  BY <1>2 DEF Close, Hidden, Sockets!Close

(* A port that another program, or a lookup, takes or gives back. *)
LEMMA HiddenForeign ==
    ASSUME RunTypes, UNCHANGED call, NEW r \in Port, NEW h \in {Free, Foreign, Probe},
           bound' = [bound EXCEPT ![r] = h],
           \/ bound[r] = Free /\ h # Free
           \/ bound[r] \in {Foreign, Probe} /\ h = Free
    PROVE  Sockets!ForeignPort
<1>1. Hidden' = [Hidden EXCEPT ![r] = IF h = Free THEN Free ELSE Foreign]
  BY HiddenExcept, Holders
<1>2. Hidden[r] = IF bound[r] = Free THEN Free ELSE Foreign
  BY Holders DEF Hidden
<1>3. \/ Hidden[r] = Free    /\ Hidden' = [Hidden EXCEPT ![r] = Foreign]
      \/ Hidden[r] = Foreign /\ Hidden' = [Hidden EXCEPT ![r] = Free]
  BY <1>1, <1>2, Holders
<1>4. UNCHANGED Sockets!call
  BY DEF Sockets!call
<1>5. QED
  BY <1>3, <1>4 DEF Hidden, Sockets!ForeignPort

LEMMA HiddenStep == Whole /\ [TrapNext]_allVars => [Sockets!Next]_(Sockets!vars)
<1>1. SUFFICES ASSUME Whole, [TrapNext]_allVars
               PROVE  Sockets!Next \/ UNCHANGED Sockets!vars
  OBVIOUS
<1>2. RunTypes /\ CallTypes
  BY <1>1 DEF Whole, TrapInv, Inv
<1>3. ASSUME UNCHANGED vars PROVE UNCHANGED Sockets!vars
  BY <1>3, HiddenKept DEF Sockets!vars, Sockets!call, Hidden
<1>4. ASSUME NEW p \in Proc, Transmit(p) PROVE Sockets!Next
  <2>1. Call(p) \/ Run(p) \/ Answer(p) \/ SendInterrupted(p)
    BY <1>4 DEF Transmit, Step
  <2>2. Sockets!Call(p) \/ Sockets!Run(p) \/ Sockets!Answer(p) \/ Sockets!SendInterrupted(p)
    BY <1>2, <2>1, HiddenCall, HiddenRaw, HiddenLoop, HiddenSending, HiddenBind, HiddenClose
    DEF Run, Sockets!Run
  <2>3. QED
    BY <2>2 DEF Sockets!Next, Sockets!Step
<1>5. ASSUME NEW p \in Proc, ProbeBind(p) PROVE Sockets!Next \/ UNCHANGED Sockets!vars
  <2>1. CASE UNCHANGED bound
    BY <1>3, <1>5, <2>1 DEF ProbeBind
  <2>2. CASE ~UNCHANGED bound
    <3>1. PICK r \in BindAnswers(p, 0) : bound' = [bound EXCEPT ![r] = Probe]
      BY <1>5, <2>2 DEF ProbeBind
    <3>2. r \in Port /\ bound[r] = Free
      BY PortAssumption DEF BindAnswers
    <3>3. UNCHANGED call
      BY <1>5 DEF ProbeBind
    <3>4. QED
      <4>1. Sockets!ForeignPort
        BY <1>2, <3>1, <3>2, <3>3, HiddenForeign, Holders
      <4>2. QED
        BY <4>1 DEF Sockets!Next
  <2>3. QED
    BY <2>1, <2>2
<1>6. ASSUME NEW p \in Proc, ProbeAnswer(p) PROVE Sockets!Next
  <2>1. ProbeInv(p) /\ probe[p] \in Port \cup {0}
    BY <1>1, RunOf
  <2>2. /\ probe[p] \in Port /\ bound[probe[p]] = Probe
        /\ bound' = [bound EXCEPT ![probe[p]] = Free]
        /\ UNCHANGED call
    BY <1>6, <2>1 DEF ProbeAnswer, ProbeInv
  <2>3. QED
    BY <1>2, <2>2, HiddenForeign DEF Sockets!Next
<1>7. CASE OtherPrograms
  <2>1. UNCHANGED call
    BY <1>7 DEF OtherPrograms, ForeignPort
  <2>2. PICK r \in Port, h \in {Free, Foreign} :
            /\ bound' = [bound EXCEPT ![r] = h]
            /\ \/ bound[r] = Free /\ h = Foreign
               \/ bound[r] = Foreign /\ h = Free
    <3>1. PICK r \in Port :
              \/ bound[r] = Free    /\ bound' = [bound EXCEPT ![r] = Foreign]
              \/ bound[r] = Foreign /\ bound' = [bound EXCEPT ![r] = Free]
      BY <1>7 DEF OtherPrograms, ForeignPort
    <3>2. QED
      BY <3>1
  <2>3. QED
    BY <1>2, <2>1, <2>2, HiddenForeign, Holders DEF Sockets!Next
<1>8. ASSUME NEW p \in Proc, TrapStep(p), ~ProbeBind(p), ~ProbeAnswer(p)
      PROVE  UNCHANGED vars
  BY <1>8
  DEF TrapStep, ParseArgv, ResolveAgent, BeginBuild, GivenAgentAddr, FinishBuild, Dump,
      Returned, Report
<1>9. CASE Reroute \/ UNCHANGED allVars
  BY <1>3, <1>9 DEF Reroute, allVars
<1>10. QED
  BY <1>1, <1>3, <1>4, <1>5, <1>6, <1>7, <1>8, <1>9 DEF TrapNext

(* The last part of a run is a call of a transport, and the rest of it is, to the
   transports, at most another program's socket: every property of Transport's
   specification is one of the whole program. *)
THEOREM RunsUseTransport == TrapSpec => ImplementsTransport
<1>1. QED
  BY HiddenInit, HiddenStep, WholeInvariant, PTL
  DEF TrapSpec, ImplementsTransport, Sockets!Spec

===============================================================================
