------------------------------- MODULE SnmpTrap -------------------------------
(***************************************************************************)
(* One run of the program, from its command line to its exit status        *)
(* (main.rs, run() in lib.rs), for several invocations at once on one      *)
(* host.  The last part of a run is a call of a transport: this module     *)
(* extends Transport, whose variables and actions it shares.               *)
(*                                                                         *)
(* The command line is abstracted to what decides the control flow: the    *)
(* version, where the addresses come from, and the set of checks it will   *)
(* fail.  req[p], of Transport, holds the arguments that reach the         *)
(* transport; its len is the length the encoded message will have.         *)
(***************************************************************************)
EXTENDS Transport

CONSTANTS
    Addr,           \* IPv4 addresses
    NoAddr,         \* an address not given, or no route
    CliChoices,     \* the command lines
    Probe           \* holds a port on behalf of an egress lookup

(* The checks a command line may fail, in no order: Checks below orders them.
   "stat" is the host uptime that cannot be read, the rest are the user's. *)
Fault == {"argv", "agent", "args", "agent_addr", "trap_kind", "uptime", "stat",
          "varbinds", "engine_id", "keys", "encode"}

(* positional is v1's AGENT-ADDR, src the argument of --src-addr. *)
Cli == [version : {"v1", "v2c", "v3"}, positional : Addr \cup {NoAddr},
        src : Addr \cup {NoAddr}, help : BOOLEAN, debug : BOOLEAN,
        stderr : {"open", "broken"}, faults : SUBSET Fault]

ASSUME AddrAssumption == NoAddr \notin Addr
ASSUME CliAssumption  == CliChoices \subseteq Cli
ASSUME ProbeAssumption == Probe \notin Proc \cup {Free, Foreign}

VARIABLES
    stage,      \* where the run of each invocation is
    cli,        \* its command line
    err,        \* the error of its run, "none" if none
    agent_addr, \* the agent address of its v1 PDU, NoAddr until resolved
    probe,      \* the port of its egress lookup, 0 when there is none
    from,       \* history: the source addresses of its datagrams
    route,      \* the source address the kernel routes from, NoAddr: no route
    moved,      \* history: whether the route changed since its lookup
    exit        \* its exit status, -1 while it runs

own     == <<stage, cli, err, agent_addr, probe, from, moved, exit>>
allVars == <<vars, own, route>>

-------------------------------------------------------------------------------
(* The order of the checks: each builder returns the error of the first one
   that fails.  v1 resolves its agent address between the two halves. *)

(* Seeded fault: the agent address is resolved first. *)
NothingBefore(p) == << >>

Before(p) == IF cli[p].version = "v1" THEN <<"args">> ELSE << >>

Checks(p) ==
    CASE cli[p].version = "v1"  -> <<"trap_kind", "uptime", "stat", "varbinds", "encode">>
      [] cli[p].version = "v2c" -> <<"args", "uptime", "stat", "trap_kind", "varbinds",
                                     "encode">>
      [] OTHER                  -> <<"args", "uptime", "stat", "trap_kind", "varbinds",
                                     "engine_id", "keys", "encode">>

ClassOf(fault) == CASE fault = "stat"   -> "Other"
                    [] fault = "encode" -> "Encode"
                    [] OTHER            -> "Usage"

Failing(p, checks) == {i \in DOMAIN checks : checks[i] \in cli[p].faults}

FirstError(p, checks) ==
    LET first == CHOOSE i \in Failing(p, checks) :
                     \A j \in Failing(p, checks) : i <= j
    IN  ClassOf(checks[first])

-------------------------------------------------------------------------------
TrapInit ==
    /\ Init
    /\ cli \in {c \in [Proc -> CliChoices] :
                   \A p \in Proc : req[p].raw <=> c[p].src # NoAddr}
    /\ stage      = [p \in Proc |-> "argv"]
    /\ err        = [p \in Proc |-> "none"]
    /\ agent_addr = [p \in Proc |-> NoAddr]
    /\ probe      = [p \in Proc |-> 0]
    /\ from       = [p \in Proc |-> {}]
    /\ moved      = [p \in Proc |-> FALSE]
    /\ exit       = [p \in Proc |-> -1]
    /\ route      \in Addr \cup {NoAddr}

Goto(p, s) == stage' = [stage EXCEPT ![p] = s] /\ UNCHANGED <<err, exit>>

(* A `?` on the way through run(). *)
Fail(p, e) ==
    /\ stage' = [stage EXCEPT ![p] = "report"]
    /\ err'   = [err EXCEPT ![p] = e]
    /\ UNCHANGED exit

Exit(p, status) ==
    /\ stage' = [stage EXCEPT ![p] = "exited"]
    /\ exit'  = [exit EXCEPT ![p] = status]
    /\ UNCHANGED err

(* Cli::parse_argv: help and version exit at once, and so does an argument that
   cannot be parsed, whichever the parser meets first. *)
ParseArgv(p) ==
    /\ stage[p] = "argv"
    /\ \/ cli[p].help /\ Exit(p, 0)
       \/ "argv" \in cli[p].faults /\ Fail(p, "Usage")
       \/ ~cli[p].help /\ "argv" \notin cli[p].faults /\ Goto(p, "agent")
    /\ UNCHANGED <<vars, cli, agent_addr, probe, from, moved, route>>

(* Cli::resolve_agent. *)
ResolveAgent(p) ==
    /\ stage[p] = "agent"
    /\ IF "agent" \in cli[p].faults THEN Fail(p, "Usage") ELSE Goto(p, "build")
    /\ UNCHANGED <<vars, cli, agent_addr, probe, from, moved, route>>

(* build_payload, and the part of build_v1_payload before the agent address. *)
BeginBuild(p) ==
    /\ stage[p] = "build"
    /\ IF Failing(p, Before(p)) # {}
       THEN Fail(p, FirstError(p, Before(p)))
       ELSE Goto(p, IF cli[p].version = "v1" THEN "agent_addr" ELSE "checks")
    /\ UNCHANGED <<vars, cli, agent_addr, probe, from, moved, route>>

(* Seeded fault: --src-addr is not looked at. *)
GivenAgentAddrFromRoute(p) ==
    /\ stage[p] = "agent_addr" /\ route # NoAddr
    /\ cli[p].positional = NoAddr /\ cli[p].src # NoAddr
    /\ Goto(p, "checks")
    /\ agent_addr' = [agent_addr EXCEPT ![p] = route]
    /\ UNCHANGED <<vars, cli, probe, from, moved, route>>

(* resolve_v1_agent_addr, without a lookup: the positional, else --src-addr. *)
GivenAgentAddr(p) ==
    /\ stage[p] = "agent_addr"
    /\ \/ /\ cli[p].positional # NoAddr
          /\ IF "agent_addr" \in cli[p].faults
             THEN Fail(p, "Usage") /\ UNCHANGED agent_addr
             ELSE /\ Goto(p, "checks")
                  /\ agent_addr' = [agent_addr EXCEPT ![p] = cli[p].positional]
       \/ /\ cli[p].positional = NoAddr /\ cli[p].src # NoAddr
          /\ Goto(p, "checks")
          /\ agent_addr' = [agent_addr EXCEPT ![p] = cli[p].src]
    /\ UNCHANGED <<vars, cli, probe, from, moved, route>>

(* Seeded fault: the lookup shares a port with whoever has it. *)
ProbeBindShares(p) ==
    /\ stage[p] = "agent_addr"
    /\ cli[p].positional = NoAddr /\ cli[p].src = NoAddr
    /\ \E q \in Ephemeral :
           /\ bound' = [bound EXCEPT ![q] = Probe]
           /\ probe' = [probe EXCEPT ![p] = q]
    /\ Goto(p, "lookup")
    /\ UNCHANGED <<call, cli, agent_addr, from, moved, route>>

(* egress_ipv4_for: its socket is bound to an ephemeral port. *)
ProbeBind(p) ==
    /\ stage[p] = "agent_addr"
    /\ cli[p].positional = NoAddr /\ cli[p].src = NoAddr
    /\ \/ \E q \in BindAnswers(p, 0) :
             /\ bound' = [bound EXCEPT ![q] = Probe]
             /\ probe' = [probe EXCEPT ![p] = q]
             /\ Goto(p, "lookup")
       \/ /\ \E e \in BindFailures(p, 0) : Fail(p, "Other")
          /\ UNCHANGED <<bound, probe>>
    /\ UNCHANGED <<call, cli, agent_addr, from, moved, route>>

(* Seeded fault: the error path keeps the socket. *)
ProbeAnswerLeaks(p) ==
    /\ stage[p] = "lookup" /\ route = NoAddr
    /\ Fail(p, "Other")
    /\ probe' = [probe EXCEPT ![p] = 0]
    /\ UNCHANGED <<call, bound, cli, agent_addr, from, moved, route>>

(* Seeded fault: the socket lives as long as the run. *)
ProbeAnswerKeeps(p) ==
    /\ stage[p] = "lookup" /\ route # NoAddr
    /\ Goto(p, "checks")
    /\ agent_addr' = [agent_addr EXCEPT ![p] = route]
    /\ moved'      = [moved EXCEPT ![p] = FALSE]
    /\ UNCHANGED <<call, bound, probe, cli, from, route>>

(* egress_ipv4_for: connect chooses the source address, which is read, and the
   socket is dropped.  An unreachable network is an io::Error, hence Other. *)
ProbeAnswer(p) ==
    /\ stage[p] = "lookup"
    /\ bound' = [bound EXCEPT ![probe[p]] = Free]
    /\ probe' = [probe EXCEPT ![p] = 0]
    /\ IF route = NoAddr
       THEN Fail(p, "Other") /\ UNCHANGED <<agent_addr, moved>>
       ELSE /\ Goto(p, "checks")
            /\ agent_addr' = [agent_addr EXCEPT ![p] = route]
            /\ moved'      = [moved EXCEPT ![p] = FALSE]
    /\ UNCHANGED <<call, cli, from, route>>

(* The rest of the builder and the encoder. *)
FinishBuild(p) ==
    /\ stage[p] = "checks"
    /\ IF Failing(p, Checks(p)) # {}
       THEN Fail(p, FirstError(p, Checks(p)))
       ELSE Goto(p, IF cli[p].debug THEN "dump" ELSE "send")
    /\ UNCHANGED <<vars, cli, agent_addr, probe, from, moved, route>>

(* Seeded fault: the result of the dump is not ignored. *)
DumpMustSucceed(p) ==
    /\ stage[p] = "dump"
    /\ IF cli[p].stderr = "broken" THEN Fail(p, "Other") ELSE Goto(p, "send")
    /\ UNCHANGED <<vars, cli, agent_addr, probe, from, moved, route>>

(* print_pre_send_dump, whose result is ignored: a stderr that takes it and
   one that does not lead to the same send. *)
Dump(p) ==
    /\ stage[p] = "dump"
    /\ Goto(p, "send")
    /\ UNCHANGED <<vars, cli, agent_addr, probe, from, moved, route>>

(* The call of the transport. *)
Transmit(p) ==
    /\ stage[p] = "send"
    /\ Call(p) \/ Step(p)
    /\ IF wire'[p] = wire[p] THEN UNCHANGED from
       ELSE /\ route # NoAddr
            /\ from' = [from EXCEPT ![p] =
                           @ \cup {IF req[p].raw THEN cli[p].src ELSE route}]
    /\ UNCHANGED <<stage, cli, err, agent_addr, probe, moved, exit, route>>

(* run() returns what the transport returned. *)
Returned(p) ==
    /\ stage[p] = "send" /\ pc[p] = "done"
    /\ IF result[p] = "Ok" THEN Exit(p, 0) ELSE Fail(p, result[p])
    /\ UNCHANGED <<vars, cli, agent_addr, probe, from, moved, route>>

(* report_to_stderr and the exit code.  eprintln! panics when stderr cannot be
   written, and a panicking main exits with 101. *)
Report(p) ==
    /\ stage[p] = "report"
    /\ Exit(p, IF cli[p].stderr = "broken" THEN 101 ELSE exit_code(err[p]))
    /\ UNCHANGED <<vars, cli, agent_addr, probe, from, moved, route>>

(* The environment: other programs' ports, and the routing table. *)
OtherPrograms == ForeignPort /\ UNCHANGED <<own, route>>

Reroute ==
    /\ route' \in (Addr \cup {NoAddr}) \ {route}
    /\ moved' = [p \in Proc |-> TRUE]
    /\ UNCHANGED <<vars, stage, cli, err, agent_addr, probe, from, exit>>

TrapStep(p) ==
    \/ ParseArgv(p) \/ ResolveAgent(p) \/ BeginBuild(p) \/ GivenAgentAddr(p)
    \/ ProbeBind(p) \/ ProbeAnswer(p) \/ FinishBuild(p) \/ Dump(p)
    \/ Returned(p) \/ Report(p)

TrapNext == (\E p \in Proc : TrapStep(p) \/ Transmit(p)) \/ OtherPrograms \/ Reroute

TrapSpec == TrapInit /\ [][TrapNext]_allVars

(* The process runs when it can.  A signal may interrupt any attempt to send but
   not every one of them: one that is made again and again is answered. *)
TrapFairness ==
    \A p \in Proc : /\ WF_allVars(TrapStep(p))
                    /\ WF_allVars(Transmit(p) /\ (Call(p) \/ Run(p)))
                    /\ SF_allVars(Transmit(p) /\ Answer(p))

FairTrapSpec == TrapSpec /\ TrapFairness

-------------------------------------------------------------------------------
(* Properties. *)

(* Seen from the transports, an egress lookup is another program's socket, and
   the rest of a run is invisible. *)
Sockets == INSTANCE Transport WITH
    bound <- [q \in Port |-> IF bound[q] = Probe THEN Foreign ELSE bound[q]]

(* Exit status 0 is a promise that the trap left the host, and 2 that nothing
   of it did; a stderr that cannot be written turns a reported error into 101,
   and never a success into a failure, not even with --debug.
   (main, run, report_to_stderr.) *)
NothingWrong(p) ==
    /\ cli[p].faults = {} /\ result[p] \in {"none", "Ok"}
    /\ cli[p].version = "v1" => {cli[p].positional, cli[p].src} # {NoAddr}

ExitStatus ==
    \A p \in Proc :
        /\ exit[p] = 0 => cli[p].help \/ (result[p] = "Ok" /\ wire[p] # << >>)
        /\ exit[p] = 2 => wire[p] = << >>
        /\ exit[p] = 101 => cli[p].stderr = "broken"
        /\ exit[p] \in {1, 2, 101} => result[p] # "Ok" /\ ~NothingWrong(p)
        /\ exit[p] \in {1, 2} => (exit[p] = 2 <=> err[p] = "Usage")

(* The port an egress lookup takes is given back before the trap is sent, so
   that an invocation never finds its own --src-port in use. (The drop at the
   end of egress_ipv4_for.) *)
LookupReleased ==
    /\ \A p \in Proc : stage[p] # "lookup" => probe[p] = 0
    /\ \A q \in Port : bound[q] = Probe => \E p \in Proc : probe[p] = q

(* Only a v1 trap that names no agent address, neither by position nor by
   --src-addr, asks the kernel for one: every other run opens the one socket it
   sends with, and none before its arguments are known to be good.
   (resolve_v1_agent_addr, run.) *)
SocketsOnlyWhenNeeded ==
    \A p \in Proc :
        /\ probe[p] # 0 => /\ cli[p].version = "v1"
                           /\ cli[p].positional = NoAddr /\ cli[p].src = NoAddr
                           /\ cli[p].faults \cap {"argv", "agent", "args"} = {}
        /\ sock[p] # "none" => /\ cli[p].faults \cap {"argv", "agent"} = {}
                               /\ Failing(p, Before(p) \o Checks(p)) = {}

(* A v1 trap without an AGENT-ADDR carries the address its datagrams come from:
   with --src-addr always, otherwise unless the route changed after the lookup.
   (resolve_v1_agent_addr, egress_ipv4_for.) *)
AgentAddrCoherent ==
    \A p \in Proc :
        cli[p].version = "v1" /\ cli[p].positional = NoAddr
            /\ (cli[p].src # NoAddr \/ ~moved[p])
        => from[p] \subseteq {agent_addr[p]}

(* A run that is told a port is in use is told so because of another: the port
   it pins, or every port the kernel might give it, is held at that moment by
   another program, by the socket of another run or by the lookup of another
   run, and never by the lookup it made itself, which takes a port of the same
   kind a moment before. (egress_ipv4_for before send, classify_bind_io.) *)
HeldElsewhere(p, q) ==
    \/ HeldByOther(p, q)
    \/ bound[q] = Probe /\ \E r \in Proc \ {p} : stage[r] = "lookup" /\ probe[r] = q

UsageBlamesOthers ==
    [][\A p \in Proc : result[p] = "none" /\ result'[p] = "Usage" =>
           \/ req[p].src_port \in 1 .. 1023
           \/ Pinned(p)  /\ HeldElsewhere(p, req[p].src_port)
           \/ ~Pinned(p) /\ \A q \in Ephemeral : HeldElsewhere(p, q)]_allVars

(* src/error.rs:23 says of Error::Routing that it is for "Routing/etc. -
   anything network-layer that is NOT a capability problem".  A v1 trap for a
   network without a route fails in its egress lookup, as an Error::Other.
   (egress_ipv4_for through From<io::Error>.) *)
UnreachableIsRouting ==
    [][\A p \in Proc : stage[p] = "lookup" /\ stage'[p] = "report" =>
           err'[p] = "Routing"]_allVars

(* Every invocation ends, with an exit status. *)
InvocationEnds == \A p \in Proc : <>(stage[p] = "exited")

(* Every property of Transport is one of the whole program. *)
ImplementsTransport == Sockets!Spec

(* The inductive invariant behind the safety properties above. *)

(* The stages in which the transport is still to be called, or never will. *)
Early == {"argv", "agent", "build", "agent_addr", "lookup", "checks", "dump"}

Over == {"report", "exited"}

(* lib.rs and main.rs: what a run holds, and who may hold a port. *)
RunTypes ==
    /\ stage \in [Proc -> Early \cup Over \cup {"send"}]
    /\ cli \in [Proc -> CliChoices]
    /\ err \in [Proc -> ErrorClass \cup {"none"}]
    /\ agent_addr \in [Proc -> Addr \cup {NoAddr}]
    /\ probe \in [Proc -> Port \cup {0}]
    /\ from \in [Proc -> SUBSET (Addr \cup {NoAddr})]
    /\ moved \in [Proc -> BOOLEAN]
    /\ exit \in [Proc -> {-1, 0, 1, 2, 101}]
    /\ route \in Addr \cup {NoAddr}
    /\ bound \in [Port -> Proc \cup {Free, Foreign, Probe}]

(* An error is the transport's verdict, or it came before the transport was
   called and something was wrong. *)
Reportable(p) ==
    /\ err[p] \in ErrorClass
    /\ \/ pc[p] = "idle" /\ ~NothingWrong(p)
       \/ pc[p] = "done" /\ err[p] = result[p] /\ result[p] # "Ok"

(* Where the run is tells whether the transport was called and how it ends. *)
CourseInv(p) ==
    /\ stage[p] \in Early => pc[p] = "idle"
    /\ exit[p] = -1 <=> stage[p] # "exited"
    /\ stage[p] = "report" => Reportable(p)
    /\ stage[p] = "exited" =>
           \/ exit[p] = 0 /\ (cli[p].help \/ (pc[p] = "done" /\ result[p] = "Ok"))
           \/ /\ exit[p] = IF cli[p].stderr = "broken" THEN 101 ELSE exit_code(err[p])
              /\ Reportable(p)

(* Where the run is tells which checks the command line has passed. *)
Passed(p, checks) == Failing(p, checks) = {}

CheckInv(p) ==
    /\ stage[p] \notin {"argv"} \cup Over => "argv" \notin cli[p].faults
    /\ stage[p] \notin {"argv", "agent"} \cup Over => "agent" \notin cli[p].faults
    /\ stage[p] \notin {"argv", "agent", "build"} \cup Over => Passed(p, Before(p))
    /\ stage[p] \in {"agent_addr", "lookup"} => cli[p].version = "v1"
    /\ stage[p] = "lookup" => cli[p].positional = NoAddr /\ cli[p].src = NoAddr
    /\ stage[p] \in {"dump", "send"} \/ pc[p] # "idle" =>
           /\ cli[p].faults \cap {"argv", "agent"} = {}
           /\ Passed(p, Before(p)) /\ Passed(p, Checks(p))

(* Once the agent address is resolved it is where the datagrams come from. *)
Resolved(p) == stage[p] \in {"checks", "dump", "send"} \/ pc[p] # "idle"

AddrInv(p) ==
    /\ req[p].raw <=> cli[p].src # NoAddr
    /\ pc[p] = "idle" => from[p] = {}
    /\ cli[p].version = "v1" /\ cli[p].positional = NoAddr /\ Resolved(p) =>
           /\ cli[p].src # NoAddr => agent_addr[p] = cli[p].src
           /\ cli[p].src = NoAddr /\ ~moved[p] => agent_addr[p] = route
           /\ cli[p].src # NoAddr \/ ~moved[p] => from[p] \subseteq {agent_addr[p]}

(* A lookup has a port of its own for as long as it lasts. *)
ProbeInv(p) ==
    /\ stage[p] = "lookup" => probe[p] # 0 /\ bound[probe[p]] = Probe
    /\ stage[p] # "lookup" => probe[p] = 0
    /\ \A r \in Proc \ {p} : probe[p] # 0 => probe[r] # probe[p]

RunInv(p) == CourseInv(p) /\ CheckInv(p) /\ AddrInv(p) /\ ProbeInv(p)

ProbeKnown(q) == bound[q] = Probe => \E p \in Proc : probe[p] = q

TrapInv == /\ RunTypes
           /\ \A p \in Proc : RunInv(p)
           /\ \A q \in Port : ProbeKnown(q)
===============================================================================
