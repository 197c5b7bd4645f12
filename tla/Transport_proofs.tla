--------------------------- MODULE Transport_proofs ---------------------------
(***************************************************************************)
(* The safety of the transports, for every set of invocations, ports,      *)
(* requests and kernel answers.                                            *)
(***************************************************************************)
EXTENDS Builds, SequenceTheorems, TLAPS

USE DEF call, vars

Inv == CallTypes /\ CallInv

(* What the invariant says of one invocation. *)
InvOf(p) == PhaseInv(p) /\ PortInv(p) /\ BudgetInv(p) /\ SizeInv(p)

(* The part of the state that is q's own is as it was. *)
Same(q) ==
    /\ pc'[q] = pc[q]             /\ req'[q] = req[q]
    /\ sock'[q] = sock[q]         /\ src_port'[q] = src_port[q]
    /\ budget'[q] = budget[q]     /\ last_err'[q] = last_err[q]
    /\ result'[q] = result[q]     /\ wire'[q] = wire[q]
    /\ errs'[q] = errs[q]

(* An invocation keeps its part of the invariant while others take steps. *)
LEMMA Frame ==
    ASSUME NEW q \in Proc, InvOf(q), Same(q)
    PROVE  InvOf(q)'
BY DEF InvOf, PhaseInv, PortInv, BudgetInv, SizeInv, Same, Pinned, datagram,
       Accepted, SendClass, TooBig

(* Ports are positive, and the bounds are numbers. *)
LEMMA PortTypes ==
    /\ u16_max \in Nat /\ u8_max \in Nat
    /\ \A q \in Port : q \in 1 .. u16_max /\ q # 0
<1>1. u16_max \in Nat /\ u8_max \in Nat
  BY DEF u16_max, u8_max
<1>2. QED
  BY <1>1, PortAssumption

(* Initially nothing is tried, sent or held. *)
LEMMA InitInv == Init => Inv
<1>1. SUFFICES ASSUME Init PROVE Inv
  OBVIOUS
<1>2. /\ << >> \in Seq(Packet) /\ << >> \in Seq(Errno)
      /\ Len(<< >>) = 0
      /\ DOMAIN << >> = {}
  <2>1. << >> \in Seq(Packet) /\ << >> \in Seq(Errno) /\ Len(<< >>) = 0
    BY EmptySeq
  <2>2. QED
    BY <2>1, LenProperties
<1>3. CallTypes
  <2>1. wire \in [Proc -> Seq(Packet)] /\ errs \in [Proc -> Seq(Errno)]
    BY <1>1, <1>2 DEF Init
  <2>2. bound = [q \in Port |-> bound[q]]
    BY <1>1 DEF Init
  <2>3. req \in [Proc -> Requests]
    BY <1>1 DEF Init
  <2>4. /\ pc = [p \in Proc |-> "idle"]   /\ sock = [p \in Proc |-> "none"]
        /\ src_port = [p \in Proc |-> 0]   /\ budget = [p \in Proc |-> 0]
        /\ last_err = [p \in Proc |-> "none"]  /\ result = [p \in Proc |-> "none"]
    BY <1>1 DEF Init
  <2>5. QED
    BY <2>1, <2>2, <2>3, <2>4, PortTypes DEF CallTypes
<1>4. CallInv
  <2>1. ASSUME NEW p \in Proc PROVE InvOf(p)
    <3>1. /\ pc[p] = "idle" /\ sock[p] = "none" /\ src_port[p] = 0
          /\ last_err[p] = "none" /\ result[p] = "none"
          /\ wire[p] = << >> /\ errs[p] = << >>
      BY <1>1 DEF Init
    <3>2. PhaseInv(p) /\ PortInv(p)
      BY <3>1, <1>2 DEF PhaseInv, PortInv
    <3>3. BudgetInv(p)
      BY <3>1, <1>2 DEF BudgetInv, Accepted
    <3>4. SizeInv(p)
      BY <3>1, <1>2 DEF SizeInv
    <3>5. QED
      BY <3>2, <3>3, <3>4 DEF InvOf
  <2>2. ASSUME NEW q \in Port PROVE HolderInv(q)
    BY <1>1, HolderAssumption DEF Init, HolderInv
  <2>3. QED
    BY <2>1, <2>2 DEF CallInv, InvOf
<1>5. QED
  BY <1>3, <1>4 DEF Inv

-------------------------------------------------------------------------------
(* One lemma per action.  Each shows the types, that the other invocations are
   left alone, and the four parts of the invariant of the one that moves. *)

Others(p) == \A q \in Proc \ {p} : Same(q)

(* A step of p that keeps hold of its ports keeps the port table right. *)
Holds(p) == sock[p] = "udp" /\ pc[p] \in {"loop", "sending", "close"}

LEMMA HolderFrame ==
    ASSUME Inv, NEW p \in Proc, Others(p), bound' = bound,
           Holds(p) => Holds(p)' /\ src_port'[p] = src_port[p]
    PROVE  \A q \in Port : HolderInv(q)'
<1>1. TAKE q \in Port
<1>2. HolderInv(q)
  BY DEF Inv, CallInv
<1>3. CASE bound[q] = p
  BY <1>2, <1>3 DEF HolderInv, Holds
<1>4. CASE bound[q] # p
  BY <1>2, <1>4 DEF HolderInv, Others, Same
<1>5. QED
  BY <1>3, <1>4

LEMMA Assemble ==
    ASSUME Inv, NEW p \in Proc, Others(p), CallTypes', InvOf(p)',
           \A q \in Port : HolderInv(q)'
    PROVE  Inv'
<1>1. ASSUME NEW q \in Proc PROVE InvOf(q)'
  <2>1. CASE q = p
    BY <2>1
  <2>2. CASE q # p
    <3>1. InvOf(q) /\ Same(q)
      BY <2>2 DEF Inv, CallInv, InvOf, Others
    <3>2. QED
      BY <3>1, Frame
  <2>3. QED
    BY <2>1, <2>2
<1>2. QED
  BY <1>1 DEF Inv, CallInv, InvOf

(* The call begins. *)
LEMMA CallStep == ASSUME Inv, NEW p \in Proc, Call(p) PROVE Inv'
<1>1. CallTypes /\ InvOf(p)
  BY DEF Inv, CallInv, InvOf
<1>2. CallTypes'
  BY <1>1 DEF CallTypes, Call
<1>3. Others(p)
  BY <1>1 DEF CallTypes, Call, Others, Same
<1>4. /\ pc'[p] = IF req[p].raw THEN "open" ELSE "bind"
      /\ pc[p] = "idle"
      /\ UNCHANGED <<req, sock, src_port, budget, last_err, result, wire, errs, bound>>
  BY <1>1 DEF CallTypes, Call
<1>5. InvOf(p)'
  BY <1>1, <1>4 DEF InvOf, PhaseInv, PortInv, BudgetInv, SizeInv, Pinned, datagram,
                    Accepted, SendClass, TooBig
<1>6. \A q \in Port : HolderInv(q)'
  BY <1>3, <1>4, HolderFrame DEF Holds
<1>7. QED
  BY <1>2, <1>3, <1>5, <1>6, Assemble

(* A verdict before any socket. *)
LEMMA RefusedStep ==
    ASSUME Inv, NEW p \in Proc, NEW e \in SetupErrors,
           pc[p] \in {"open", "bind"}, ReturnError(p, e),
           UNCHANGED <<req, sock, src_port, budget, last_err, wire, errs, bound>>
    PROVE  Inv'
<1>1. CallTypes /\ InvOf(p)
  BY DEF Inv, CallInv, InvOf
<1>2. CallTypes'
  BY <1>1 DEF CallTypes, ReturnError
<1>3. Others(p)
  BY <1>1 DEF CallTypes, ReturnError, Others, Same
<1>4. /\ pc'[p] = "done" /\ result'[p] = e
      /\ e \notin {"none", "Ok"}
      /\ result[p] = "none" /\ sock[p] = "none" /\ src_port[p] = 0
  BY <1>1 DEF CallTypes, ReturnError, InvOf, PhaseInv, SetupErrors, ErrorClass
<1>5. InvOf(p)'
  BY <1>1, <1>4 DEF InvOf, PhaseInv, PortInv, BudgetInv, SizeInv, Pinned, datagram,
                    Accepted, SendClass, TooBig
<1>6. \A q \in Port : HolderInv(q)'
  BY <1>1, <1>3, <1>4, HolderFrame DEF Holds
<1>7. QED
  BY <1>2, <1>3, <1>5, <1>6, Assemble

(* Every class the transports return is one of the setup errors. *)
LEMMA Classes ==
    /\ \A e : classify_raw_open(e) \in SetupErrors
    /\ \A e, n : classify_bind_io(e, n) \in SetupErrors
    /\ \A p, e : SendClass(p, e) \in SetupErrors
    /\ "Other" \in SetupErrors /\ "Unsupported" \in SetupErrors
BY DEF classify_raw_open, classify_bind_io, classify_raw_send, map_send_io,
       SendClass, SetupErrors, ErrorClass

(* Requests have the retries and the port of their types. *)
LEMMA RequestTypes ==
    ASSUME CallTypes, NEW p \in Proc
    PROVE  /\ req[p].retries \in 0 .. u8_max /\ req[p].len \in Nat
           /\ req[p].src_port \in Port \cup {0} /\ req[p].raw \in BOOLEAN
BY RequestAssumption, PortTypes DEF CallTypes, Request

LEMMA RawUnsupportedStep == ASSUME Inv, NEW p \in Proc, RawUnsupported(p) PROVE Inv'
BY Classes, RefusedStep DEF RawUnsupported

LEMMA RejectOversizeStep == ASSUME Inv, NEW p \in Proc, RejectOversize(p) PROVE Inv'
BY Classes, RefusedStep DEF RejectOversize

LEMMA OpenRawStep == ASSUME Inv, NEW p \in Proc, OpenRaw(p) PROVE Inv'
<1>1. CallTypes /\ InvOf(p)
  BY DEF Inv, CallInv, InvOf
<1>2. CASE \E e \in OpenFailures(p) :
               ReturnError(p, classify_raw_open(e)) /\ UNCHANGED sock
  <2>1. PICK e \in OpenFailures(p) :
                ReturnError(p, classify_raw_open(e)) /\ UNCHANGED sock
    BY <1>2
  <2>2. pc[p] = "open"
        /\ UNCHANGED <<req, sock, src_port, budget, last_err, wire, errs, bound>>
    BY <2>1 DEF OpenRaw
  <2>3. QED
    BY <2>1, <2>2, Classes, RefusedStep
<1>3. CASE /\ sock' = [sock EXCEPT ![p] = "raw"]
           /\ pc'   = [pc EXCEPT ![p] = "hdrincl"]
           /\ UNCHANGED result
  <2>0. /\ UNCHANGED <<req, src_port, budget, last_err, result, wire, errs, bound>>
        /\ pc[p] = "open" /\ req[p].len <= MAX_UDP_PAYLOAD
    BY <1>3 DEF OpenRaw
  <2>1. CallTypes'
    BY <1>1, <1>3, <2>0 DEF CallTypes
  <2>2. Others(p)
    BY <1>1, <1>3, <2>0 DEF CallTypes, Others, Same
  <2>3. /\ pc'[p] = "hdrincl" /\ sock'[p] = "raw"
        /\ result[p] = "none" /\ src_port[p] = 0 /\ sock[p] = "none"
    BY <1>1, <1>3, <2>0 DEF CallTypes, InvOf, PhaseInv
  <2>4. InvOf(p)'
    BY <1>1, <2>0, <2>3 DEF InvOf, PhaseInv, PortInv, BudgetInv, SizeInv, Pinned,
        datagram, Accepted, SendClass, TooBig
  <2>5. \A q \in Port : HolderInv(q)'
    BY <2>0, <2>2, <2>3, HolderFrame DEF Holds
  <2>6. QED
    BY <2>1, <2>2, <2>4, <2>5, Assemble
<1>4. QED
  BY <1>2, <1>3 DEF OpenRaw

(* The state of p once its loop has started. *)
LEMMA LoopStarted ==
    ASSUME NEW p \in Proc, CallTypes, InvOf(p), NEW port \in Port,
           pc[p] \in {"hdrincl", "bind"}, StartLoop(p, port),
           UNCHANGED <<req, last_err, result, wire, errs>>,
           Pinned(p) => port = req[p].src_port,
           req[p].raw => req[p].len <= MAX_UDP_PAYLOAD
    PROVE  InvOf(p)'
<1>0. port # 0
  BY PortTypes
<1>1. /\ pc'[p] = "loop" /\ src_port'[p] = port
      /\ budget'[p] = req[p].retries + 1
  BY DEF CallTypes, StartLoop
<1>2. /\ src_port[p] = 0 /\ errs[p] = << >> /\ wire[p] = << >>
      /\ result[p] = "none"
  BY DEF InvOf, PhaseInv, PortInv
<1>3. DOMAIN << >> = {} /\ Len(<< >>) = 0
  BY EmptySeq, LenProperties
<1>4. PhaseInv(p)' /\ PortInv(p)'
  <2>1. req[p].retries \in Nat
    BY RequestTypes, PortTypes
  <2>2. QED
    BY <1>0, <1>1, <1>2, <1>3, <2>1 DEF PhaseInv, PortInv, Pinned
<1>5. BudgetInv(p)'
  <2>1. req[p].retries \in Nat
    BY RequestTypes, PortTypes
  <2>2. /\ errs'[p] = << >> /\ wire'[p] = << >> /\ result'[p] = "none"
        /\ last_err'[p] = "none" /\ req'[p] = req[p]
    BY <1>2 DEF InvOf, BudgetInv
  <2>3. QED
    BY <1>1, <1>3, <2>1, <2>2 DEF BudgetInv, Accepted
<1>6. SizeInv(p)'
  BY <1>1, <1>2 DEF SizeInv, InvOf, TooBig
<1>7. QED
  BY <1>4, <1>5, <1>6 DEF InvOf

(* The types of the variables StartLoop changes. *)
LEMMA LoopTypes ==
    ASSUME NEW p \in Proc, CallTypes, NEW port \in Port, StartLoop(p, port)
    PROVE  /\ pc' \in [Proc -> {"idle", "open", "hdrincl", "bind", "loop", "sending",
                                "close", "done"}]
           /\ src_port' \in [Proc -> Port \cup {0}]
           /\ budget' \in [Proc -> 0 .. u8_max + 1]
<1>1. req[p].retries + 1 \in 0 .. u8_max + 1
  BY RequestTypes, PortTypes
<1>2. QED
  BY <1>1 DEF CallTypes, StartLoop

LEMMA SetHeaderIncludedStep ==
    ASSUME Inv, NEW p \in Proc, SetHeaderIncluded(p) PROVE Inv'
<1>1. CallTypes /\ InvOf(p)
  BY DEF Inv, CallInv, InvOf
<1>2. /\ UNCHANGED <<req, sock, last_err, wire, errs, bound>>
      /\ pc[p] = "hdrincl" /\ result[p] = "none" /\ src_port[p] = 0
      /\ req[p].len <= MAX_UDP_PAYLOAD
  BY <1>1 DEF SetHeaderIncluded, InvOf, PhaseInv, SizeInv
<1>3. CASE /\ \E port \in IF Pinned(p) THEN {req[p].src_port}
                          ELSE pick_ephemeral_port : StartLoop(p, port)
           /\ UNCHANGED result
  <2>1. PICK port \in Port : StartLoop(p, port) /\ (Pinned(p) => port = req[p].src_port)
    BY <1>1, <1>3, RequestTypes DEF pick_ephemeral_port, Pinned
  <2>2. CallTypes'
    BY <1>1, <1>2, <1>3, <2>1, LoopTypes DEF CallTypes
  <2>3. Others(p)
    BY <1>1, <1>2, <1>3, <2>1 DEF CallTypes, StartLoop, Others, Same
  <2>4. InvOf(p)'
    BY <1>1, <1>2, <1>3, <2>1, LoopStarted
  <2>5. \A q \in Port : HolderInv(q)'
    BY <1>2, <2>3, HolderFrame DEF Holds
  <2>6. QED
    BY <2>2, <2>3, <2>4, <2>5, Assemble
<1>4. CASE /\ \E e \in OpenErrno :
                  result' = [result EXCEPT ![p] = classify_raw_open(e)]
           /\ pc' = [pc EXCEPT ![p] = "close"]
           /\ UNCHANGED <<src_port, budget>>
  <2>1. PICK e \in SetupErrors : result' = [result EXCEPT ![p] = e]
    BY <1>4, Classes
  <2>2. CallTypes'
    BY <1>1, <1>2, <1>4, <2>1 DEF CallTypes
  <2>3. Others(p)
    BY <1>1, <1>2, <1>4, <2>1 DEF CallTypes, Others, Same
  <2>4. pc'[p] = "close" /\ result'[p] = e /\ e \notin {"none", "Ok"}
    BY <1>1, <1>4, <2>1 DEF CallTypes, SetupErrors, ErrorClass
  <2>5. InvOf(p)'
    BY <1>1, <1>2, <1>4, <2>4 DEF InvOf, PhaseInv, PortInv, BudgetInv, SizeInv,
        Pinned, datagram, Accepted, SendClass, TooBig
  <2>6. \A q \in Port : HolderInv(q)'
    BY <1>2, <2>3, HolderFrame DEF Holds
  <2>7. QED
    BY <2>2, <2>3, <2>5, <2>6, Assemble
<1>5. QED
  BY <1>3, <1>4 DEF SetHeaderIncluded

LEMMA BindStep == ASSUME Inv, NEW p \in Proc, Bind(p) PROVE Inv'
<1>1. CallTypes /\ InvOf(p)
  BY DEF Inv, CallInv, InvOf
<1>2. pc[p] = "bind" /\ UNCHANGED <<req, last_err, wire, errs>>
  BY DEF Bind
<1>3. CASE \E port \in BindAnswers(p, req[p].src_port) :
             /\ StartLoop(p, port)
             /\ bound' = [bound EXCEPT ![port] = p]
             /\ sock'  = [sock EXCEPT ![p] = "udp"]
             /\ UNCHANGED result
  <2>1. PICK port \in BindAnswers(p, req[p].src_port) :
             /\ StartLoop(p, port)
             /\ bound' = [bound EXCEPT ![port] = p]
             /\ sock'  = [sock EXCEPT ![p] = "udp"]
             /\ UNCHANGED result
    BY <1>3
  <2>2. /\ port \in Port /\ bound[port] = Free
        /\ Pinned(p) => port = req[p].src_port
    BY <1>1, RequestTypes, PortAssumption DEF BindAnswers, Pinned
  <2>3. CallTypes'
    BY <1>1, <1>2, <2>1, <2>2, LoopTypes DEF CallTypes
  <2>4. Others(p)
    BY <1>1, <1>2, <2>1 DEF CallTypes, StartLoop, Others, Same
  <2>5. ~req[p].raw
    BY <1>1, <1>2 DEF InvOf, SizeInv
  <2>6. InvOf(p)'
    BY <1>1, <1>2, <2>1, <2>2, <2>5, LoopStarted
  <2>7. /\ pc[p] = "bind" /\ sock[p] = "none"
        /\ pc'[p] = "loop" /\ sock'[p] = "udp" /\ src_port'[p] = port
    BY <1>1, <1>2, <2>1 DEF CallTypes, StartLoop, InvOf, PhaseInv
  <2>8. ASSUME NEW q \in Port PROVE HolderInv(q)'
    <3>1. CASE q = port
      BY <1>1, <2>1, <2>2, <2>7, <3>1 DEF CallTypes, HolderInv
    <3>2. CASE q # port
      <4>1. bound'[q] = bound[q] /\ HolderInv(q)
        BY <1>1, <2>1, <2>2, <3>2 DEF CallTypes, Inv, CallInv
      <4>2. QED
        BY <2>4, <2>7, <4>1 DEF HolderInv, Others, Same
    <3>3. QED
      BY <3>1, <3>2
  <2>9. QED
    BY <2>3, <2>4, <2>6, <2>8, Assemble
<1>4. CASE /\ \E e \in BindFailures(p, req[p].src_port) :
                  ReturnError(p, classify_bind_io(e, req[p].src_port))
           /\ UNCHANGED <<sock, src_port, budget, bound>>
  <2>1. PICK e \in SetupErrors : ReturnError(p, e)
    BY <1>4, Classes
  <2>2. QED
    BY <1>2, <1>4, <2>1, RefusedStep
<1>5. QED
  BY <1>3, <1>4 DEF Bind

LEMMA AttemptStep == ASSUME Inv, NEW p \in Proc, Attempt(p) PROVE Inv'
<1>1. CallTypes /\ InvOf(p)
  BY DEF Inv, CallInv, InvOf
<1>2. CallTypes' /\ Others(p)
  BY <1>1 DEF CallTypes, Attempt, Others, Same
<1>3. /\ pc[p] = "loop" /\ pc'[p] = "sending" /\ budget[p] > 0
      /\ UNCHANGED <<req, sock, src_port, budget, last_err, result, wire, errs, bound>>
  BY <1>1 DEF CallTypes, Attempt
<1>4. InvOf(p)'
  BY <1>1, <1>3 DEF InvOf, PhaseInv, PortInv, BudgetInv, SizeInv, Pinned, datagram,
                    Accepted, SendClass, TooBig
<1>5. \A q \in Port : HolderInv(q)'
  BY <1>2, <1>3, HolderFrame DEF Holds
<1>6. QED
  BY <1>2, <1>4, <1>5, Assemble

LEMMA SendInterruptedStep ==
    ASSUME Inv, NEW p \in Proc, SendInterrupted(p) PROVE Inv'
<1>1. CallTypes /\ InvOf(p)
  BY DEF Inv, CallInv, InvOf
<1>2. CallTypes' /\ Others(p)
  BY <1>1 DEF CallTypes, SendInterrupted, Others, Same
<1>3. /\ pc[p] = "sending" /\ pc'[p] = "loop"
      /\ UNCHANGED <<req, sock, src_port, budget, last_err, result, wire, errs, bound>>
  BY <1>1 DEF CallTypes, SendInterrupted
<1>4. InvOf(p)'
  BY <1>1, <1>3 DEF InvOf, PhaseInv, PortInv, BudgetInv, SizeInv, Pinned, datagram,
                    Accepted, SendClass, TooBig
<1>5. \A q \in Port : HolderInv(q)'
  BY <1>2, <1>3, HolderFrame DEF Holds
<1>6. QED
  BY <1>2, <1>4, <1>5, Assemble

(* The loop ends without a success: its budget is spent. *)
LEMMA GiveUpStep == ASSUME Inv, NEW p \in Proc, GiveUp(p) PROVE Inv'
<1>1. CallTypes /\ InvOf(p)
  BY DEF Inv, CallInv, InvOf
<1>2. /\ pc[p] = "loop" /\ budget[p] <= 0 /\ pc'[p] = "close"
      /\ result'[p] = SendClass(p, last_err[p])
      /\ UNCHANGED <<req, sock, src_port, budget, last_err, wire, errs, bound>>
  BY <1>1 DEF CallTypes, GiveUp
<1>3. SendClass(p, last_err[p]) \in SetupErrors
  BY Classes
<1>4. CallTypes' /\ Others(p)
  BY <1>1, <1>2, <1>3 DEF CallTypes, GiveUp, Others, Same
<1>5. /\ result'[p] \notin {"none", "Ok"} /\ result[p] = "none"
      /\ budget[p] = 0
  BY <1>1, <1>2, <1>3, PortTypes
  DEF CallTypes, SetupErrors, ErrorClass, InvOf, PhaseInv
<1>6. InvOf(p)'
  BY <1>1, <1>2, <1>5 DEF InvOf, PhaseInv, PortInv, BudgetInv, SizeInv, Pinned,
      datagram, Accepted, SendClass, TooBig
<1>7. \A q \in Port : HolderInv(q)'
  BY <1>2, <1>4, HolderFrame DEF Holds
<1>8. QED
  BY <1>4, <1>6, <1>7, Assemble

(* The socket goes, and with it the hold on its port. *)
LEMMA CloseStep == ASSUME Inv, NEW p \in Proc, Close(p) PROVE Inv'
<1>1. CallTypes /\ InvOf(p)
  BY DEF Inv, CallInv, InvOf
<1>2. CallTypes' /\ Others(p)
  BY <1>1 DEF CallTypes, Close, Others, Same
<1>3. /\ pc[p] = "close" /\ pc'[p] = "done" /\ sock'[p] = "none"
      /\ UNCHANGED <<req, src_port, budget, last_err, result, wire, errs>>
  BY <1>1 DEF CallTypes, Close
<1>4. InvOf(p)'
  BY <1>1, <1>3 DEF InvOf, PhaseInv, PortInv, BudgetInv, SizeInv, Pinned, datagram,
                    Accepted, SendClass, TooBig
<1>5. ASSUME NEW q \in Port PROVE HolderInv(q)'
  <2>1. HolderInv(q) /\ bound'[q] = IF bound[q] = p THEN Free ELSE bound[q]
    BY DEF Inv, CallInv, Close
  <2>2. QED
    BY <1>2, <2>1, HolderAssumption DEF HolderInv, Others, Same
<1>6. QED
  BY <1>2, <1>4, <1>5, Assemble

(* What is sent is a datagram of p, and it goes to the end of the wire. *)
LEMMA EmitStep ==
    ASSUME NEW p \in Proc, CallTypes, InvOf(p), Emit(p)
    PROVE  /\ wire' \in [Proc -> Seq(Packet)]
           /\ Len(wire'[p]) = Len(wire[p]) + 1
           /\ wire'[p] # << >>
           /\ \A i \in DOMAIN wire'[p] : wire'[p][i] = datagram(p)
           /\ \A q \in Proc \ {p} : wire'[q] = wire[q]
<1>1. datagram(p) \in Packet
  <2>1. src_port[p] \in 0 .. u16_max
    BY PortTypes DEF CallTypes
  <2>2. \A n \in Nat : n % (u16_max + 1) \in 0 .. u16_max
    BY PortTypes
  <2>3. udp_len(req[p].len) \in 0 .. u16_max
    BY <2>2, RequestTypes DEF udp_len
  <2>4. total_length(req[p].len) \in 0 .. u16_max
    BY <2>2, <2>3, PortTypes DEF total_length
  <2>5. QED
    BY <2>1, <2>3, <2>4 DEF datagram, Packet
<1>2. wire[p] \in Seq(Packet) /\ wire'[p] = Append(wire[p], datagram(p))
  BY DEF CallTypes, Emit
<1>3. /\ wire'[p] \in Seq(Packet) /\ wire'[p] # << >>
      /\ Len(wire'[p]) = Len(wire[p]) + 1
      /\ \A i \in 1 .. Len(wire[p]) : wire'[p][i] = wire[p][i]
      /\ wire'[p][Len(wire[p]) + 1] = datagram(p)
  BY <1>1, <1>2, AppendProperties
<1>4. \A i \in DOMAIN wire'[p] : wire'[p][i] = datagram(p)
  <2>1. /\ Len(wire[p]) \in Nat
        /\ DOMAIN wire[p] = 1 .. Len(wire[p])
        /\ DOMAIN wire'[p] = 1 .. Len(wire[p]) + 1
    BY <1>2, <1>3, LenProperties
  <2>2. QED
    BY <1>3, <2>1 DEF InvOf, PortInv
<1>5. QED
  BY <1>2, <1>3, <1>4 DEF CallTypes, Emit

LEMMA SendOkStep == ASSUME Inv, NEW p \in Proc, SendOk(p) PROVE Inv'
<1>1. CallTypes /\ InvOf(p)
  BY DEF Inv, CallInv, InvOf
<1>2. /\ pc[p] = "sending" /\ pc'[p] = "close" /\ result'[p] = "Ok"
      /\ ~TooBig(p) /\ Emit(p) /\ result[p] = "none" /\ src_port[p] # 0
      /\ UNCHANGED <<req, sock, src_port, budget, last_err, errs, bound>>
  BY <1>1 DEF CallTypes, SendOk, InvOf, PhaseInv
<1>3. CallTypes' /\ Others(p)
  BY <1>1, <1>2, EmitStep DEF CallTypes, SendOk, Others, Same
<1>4. Len(wire[p]) \in Nat /\ Len(errs[p]) \in Nat
  BY <1>1, LenProperties DEF CallTypes
<1>5. PhaseInv(p)'
  BY <1>1, <1>2 DEF InvOf, PhaseInv
<1>6. PortInv(p)' /\ SizeInv(p)'
  BY <1>1, <1>2, EmitStep DEF InvOf, PortInv, SizeInv, Pinned, datagram, TooBig
<1>7. BudgetInv(p)'
  <2>1. Len(wire[p]) <= Len(errs[p])
    BY <1>1, <1>2, <1>4 DEF InvOf, BudgetInv, Accepted
  <2>2. Len(wire'[p]) = Len(wire[p]) + 1 /\ wire'[p] # << >>
    BY <1>1, <1>2, EmitStep
  <2>3. Len(wire'[p]) <= Len(errs'[p]) + Accepted(p)'
    BY <1>2, <1>4, <2>1, <2>2 DEF Accepted
  <2>4. /\ budget'[p] = budget[p] /\ budget[p] > 0
        /\ errs'[p] = errs[p] /\ last_err'[p] = last_err[p]
        /\ src_port'[p] = src_port[p] /\ req'[p] = req[p]
        /\ result'[p] = "Ok"
    BY <1>1, <1>2 DEF InvOf, PhaseInv
  <2>5. BudgetInv(p)
    BY <1>1 DEF InvOf
  <2>6. QED
    BY <1>2, <2>2, <2>3, <2>4, <2>5 DEF BudgetInv
<1>8. \A q \in Port : HolderInv(q)'
  BY <1>2, <1>3, HolderFrame DEF Holds
<1>9. QED
  BY <1>3, <1>5, <1>6, <1>7, <1>8, Assemble DEF InvOf

LEMMA SendErrorStep == ASSUME Inv, NEW p \in Proc, SendError(p) PROVE Inv'
<1>1. CallTypes /\ InvOf(p)
  BY DEF Inv, CallInv, InvOf
<1>2. PICK e \in SendFailures(p) :
              /\ last_err' = [last_err EXCEPT ![p] = e]
              /\ errs'     = [errs EXCEPT ![p] = Append(@, e)]
  BY DEF SendError
<1>3. e \in Errno /\ e # "none" /\ (e = "EMSGSIZE" => TooBig(p))
  BY <1>2, ErrnoAssumption DEF SendFailures, Errno
<1>4. /\ pc[p] = "sending" /\ pc'[p] = "loop"
      /\ budget'[p] = budget[p] - 1 /\ last_err'[p] = e
      /\ result[p] = "none" /\ src_port[p] # 0
      /\ UNCHANGED <<req, sock, src_port, result, bound>>
  BY <1>1, <1>2 DEF CallTypes, SendError, InvOf, PhaseInv
<1>5. /\ errs[p] \in Seq(Errno) /\ errs'[p] = Append(errs[p], e)
      /\ Len(errs[p]) \in Nat /\ Len(wire[p]) \in Nat
  BY <1>1, <1>2, LenProperties DEF CallTypes
<1>6. /\ errs'[p] \in Seq(Errno) /\ errs'[p] # << >>
      /\ Len(errs'[p]) = Len(errs[p]) + 1
      /\ errs'[p][Len(errs'[p])] = e
  BY <1>3, <1>5, AppendProperties
<1>7. /\ wire' \in [Proc -> Seq(Packet)]
      /\ Len(wire'[p]) <= Len(wire[p]) + 1
      /\ wire'[p] # << >> => ~TooBig(p)
      /\ \A i \in DOMAIN wire'[p] : wire'[p][i] = datagram(p)
      /\ \A q \in Proc \ {p} : wire'[q] = wire[q]
  <2>1. CASE ~TooBig(p) /\ Emit(p)
    BY <1>1, <1>5, <2>1, EmitStep
  <2>2. CASE UNCHANGED wire
    BY <1>1, <1>5, <2>2 DEF CallTypes, InvOf, SizeInv, PortInv
  <2>3. QED
    BY <2>1, <2>2 DEF SendError
<1>8. budget' \in [Proc -> 0 .. u8_max + 1]
  BY <1>1, <1>4, PortTypes DEF CallTypes, SendError, InvOf, PhaseInv
<1>9. CallTypes'
  <2>1. /\ pc' \in [Proc -> {"idle", "open", "hdrincl", "bind", "loop", "sending",
                             "close", "done"}]
        /\ last_err' \in [Proc -> Errno \cup {"none"}]
    BY <1>1, <1>2, <1>3 DEF CallTypes, SendError
  <2>2. errs' \in [Proc -> Seq(Errno)]
    BY <1>1, <1>2, <1>3, <1>6 DEF CallTypes, SendError
  <2>3. /\ req' \in [Proc -> Requests] /\ sock' \in [Proc -> {"none", "raw", "udp"}]
        /\ src_port' \in [Proc -> Port \cup {0}]
        /\ result' \in [Proc -> {"none", "Ok"} \cup SetupErrors]
        /\ bound' = [q \in Port |-> bound'[q]]
    BY <1>1, <1>4 DEF CallTypes
  <2>4. QED
    BY <1>7, <1>8, <2>1, <2>2, <2>3 DEF CallTypes
<1>10. Others(p)
  BY <1>1, <1>2, <1>4, <1>7 DEF CallTypes, SendError, Others, Same
<1>11. PhaseInv(p)'
  BY <1>1, <1>4 DEF InvOf, PhaseInv
<1>12. PortInv(p)' /\ SizeInv(p)'
  BY <1>1, <1>3, <1>4, <1>7 DEF InvOf, PortInv, SizeInv, Pinned, datagram, TooBig
<1>13. BudgetInv(p)'
  <2>1. budget[p] \in Int /\ req[p].retries \in Int /\ Len(wire'[p]) \in Int
    BY <1>1, <1>7, RequestTypes, PortTypes, LenProperties DEF CallTypes
  <2>2. /\ budget[p] + Len(errs[p]) = req[p].retries + 1
        /\ Len(wire[p]) <= Len(errs[p])
    BY <1>1, <1>4, <1>5 DEF InvOf, BudgetInv, Accepted
  <2>3. /\ budget'[p] + Len(errs'[p]) = req'[p].retries + 1
        /\ Len(wire'[p]) <= Len(errs'[p])
    <3>1. /\ req'[p] = req[p] /\ budget'[p] = budget[p] - 1
          /\ Len(errs'[p]) = Len(errs[p]) + 1 /\ Len(errs[p]) \in Nat
          /\ Len(wire'[p]) <= Len(wire[p]) + 1 /\ Len(wire[p]) \in Nat
      BY <1>4, <1>5, <1>6, <1>7
    <3>2. Len(wire'[p]) <= Len(errs'[p])
      BY <2>1, <2>2, <3>1
    <3>3. (budget[p] - 1) + (Len(errs[p]) + 1) = req[p].retries + 1
      <4>1. \A b, n, r \in Int : b + n = r + 1 => (b - 1) + (n + 1) = r + 1
        OBVIOUS
      <4>2. Len(errs[p]) \in Int
        BY <3>1
      <4>3. QED
        BY <2>1, <2>2, <4>1, <4>2
    <3>4. QED
      BY <3>1, <3>2, <3>3
  <2>4. result'[p] = "none"
    BY <1>4
  <2>5. last_err'[p] = errs'[p][Len(errs'[p])] /\ errs'[p] # << >>
    BY <1>4, <1>6
  <2>6. Len(wire'[p]) <= Len(errs'[p]) + Accepted(p)'
    BY <1>5, <1>6, <2>1, <2>3, <2>4 DEF Accepted
  <2>7. QED
    BY <2>3, <2>4, <2>5, <2>6 DEF BudgetInv
<1>14. \A q \in Port : HolderInv(q)'
  BY <1>4, <1>10, HolderFrame DEF Holds
<1>15. QED
  BY <1>9, <1>10, <1>11, <1>12, <1>13, <1>14, Assemble DEF InvOf

(* A port that changes hands outside the transports. *)
LEMMA PortStep ==
    ASSUME Inv, UNCHANGED call, NEW r \in Port, NEW h, h \notin Proc,
           bound' = [bound EXCEPT ![r] = h]
    PROVE  Inv'
<1>1. CallTypes
  BY DEF Inv
<1>2. CallTypes'
  BY <1>1 DEF CallTypes
<1>3. ASSUME NEW p \in Proc PROVE InvOf(p)'
  <2>1. InvOf(p)
    BY DEF Inv, CallInv, InvOf
  <2>2. Same(p)
    BY DEF Same
  <2>3. QED
    BY <2>1, <2>2, Frame
<1>4. ASSUME NEW q \in Port PROVE HolderInv(q)'
  <2>1. bound'[q] = IF q = r THEN h ELSE bound[q]
    BY <1>1 DEF CallTypes
  <2>2. HolderInv(q)
    BY DEF Inv, CallInv
  <2>3. QED
    BY <2>1, <2>2 DEF HolderInv
<1>5. QED
  BY <1>2, <1>3, <1>4 DEF Inv, CallInv, InvOf

LEMMA ForeignPortStep == ASSUME Inv, ForeignPort PROVE Inv'
<1>1. UNCHANGED call
  BY DEF ForeignPort
<1>2. PICK r \in Port, h \in {Free, Foreign} : bound' = [bound EXCEPT ![r] = h]
  BY DEF ForeignPort
<1>3. QED
  BY <1>1, <1>2, PortStep, HolderAssumption

(* Nothing happens to the transports. *)
LEMMA StutterStep == ASSUME Inv, UNCHANGED vars PROVE Inv'
<1>1. CallTypes' /\ \A q \in Port : HolderInv(q)'
  BY DEF Inv, CallInv, CallTypes, HolderInv
<1>2. ASSUME NEW p \in Proc PROVE InvOf(p)'
  BY Frame DEF Inv, CallInv, InvOf, Same
<1>3. QED
  BY <1>1, <1>2 DEF Inv, CallInv, InvOf

(* A step of the transport of an invocation. *)
LEMMA MoveStep == ASSUME Inv, NEW p \in Proc, Call(p) \/ Step(p) PROVE Inv'
BY CallStep, RawUnsupportedStep, RejectOversizeStep, OpenRawStep,
   SetHeaderIncludedStep, BindStep, AttemptStep, SendOkStep,
   SendInterruptedStep, SendErrorStep, GiveUpStep, CloseStep
DEF Step, Run, Answer

-------------------------------------------------------------------------------
(* Every step keeps the invariant. *)
LEMMA NextInv == Inv /\ [Next]_vars => Inv'
BY MoveStep, ForeignPortStep, StutterStep DEF Next

(* Every reachable state satisfies the invariant of the call. *)
THEOREM Invariance == Spec => []Inv
<1>1. QED
  BY InitInv, NextInv, PTL DEF Spec

(* What an invocation holds in every phase of the call: its socket, its port,
   its budget and the lengths it checked. *)
THEOREM CallCoherent == Spec => []CallInv
<1>1. Inv => CallInv
  BY DEF Inv
<1>2. QED
  BY <1>1, Invariance, PTL

(* Who else may hold a port: another program. *)
LEMMA PortTable ==
    ASSUME bound \in [Port -> Proc \cup {Free, Foreign}], [Next]_vars
    PROVE  bound' \in [Port -> Proc \cup {Free, Foreign}]
<1>1. ASSUME NEW p \in Proc, Bind(p)
      PROVE  bound' \in [Port -> Proc \cup {Free, Foreign}]
  BY <1>1 DEF Bind
<1>2. ASSUME NEW p \in Proc, Close(p)
      PROVE  bound' \in [Port -> Proc \cup {Free, Foreign}]
  BY <1>2 DEF Close
<1>3. CASE ForeignPort
  BY <1>3 DEF ForeignPort
<1>4. ASSUME NEW p \in Proc, Call(p) \/ Step(p), ~ Bind(p), ~ Close(p)
      PROVE  UNCHANGED bound
  BY <1>4 DEF Call, Step, Run, Answer, RawUnsupported, RejectOversize, OpenRaw,
     SetHeaderIncluded, Attempt, SendOk, SendInterrupted, SendError, GiveUp
<1>5. QED
  BY <1>1, <1>2, <1>3, <1>4 DEF Next

(* Type correctness. *)
THEOREM TypeCorrect == Spec => []TypeOK
<1>1. Init => TypeOK
  BY InitInv DEF Init, Inv, TypeOK
<1>2. Inv /\ TypeOK /\ [Next]_vars => TypeOK'
  BY NextInv, PortTable DEF Inv, TypeOK
<1>3. QED
  BY <1>1, <1>2, Invariance, PTL DEF Spec

(* A coherent state has no copy too many. *)
LEMMA CopiesHold == Inv => CopiesWithinBudget
<1>1. SUFFICES ASSUME Inv, NEW p \in Proc
      PROVE  /\ Len(wire[p]) <= req[p].retries + 1
             /\ Len(wire[p]) <= Len(errs[p]) + Accepted(p)
             /\ result[p] = "Ok" => wire[p] # << >> /\ Len(errs[p]) <= req[p].retries
  BY DEF CopiesWithinBudget
<1>2. CallTypes /\ PhaseInv(p) /\ PortInv(p) /\ BudgetInv(p)
  BY <1>1 DEF Inv, CallInv
<1>3. /\ Len(wire[p]) \in Nat /\ Len(errs[p]) \in Nat
      /\ budget[p] \in Nat /\ req[p].retries \in Nat
  BY <1>2, LenProperties, RequestTypes, PortTypes DEF CallTypes
<1>4. CASE src_port[p] = 0
  <2>1. Len(wire[p]) = 0 /\ Len(errs[p]) = 0 /\ result[p] # "Ok"
    BY <1>2, <1>4, EmptySeq DEF PortInv
  <2>2. QED
    BY <1>3, <2>1 DEF Accepted
<1>5. CASE src_port[p] # 0
  <2>1. /\ budget[p] + Len(errs[p]) = req[p].retries + 1
        /\ Len(wire[p]) <= Len(errs[p]) + Accepted(p)
        /\ result[p] = "Ok" => wire[p] # << >> /\ budget[p] > 0
    BY <1>2, <1>5 DEF BudgetInv
  <2>2. CASE result[p] = "Ok"
    BY <1>3, <2>1, <2>2 DEF Accepted
  <2>3. CASE result[p] # "Ok"
    BY <1>3, <2>1, <2>3 DEF Accepted
  <2>4. QED
    BY <2>2, <2>3
<1>6. QED
  BY <1>4, <1>5

(* A trap leaves the host at most retries + 1 times, at most once per attempt,
   and at least once when the call returns Ok. *)
THEOREM DuplicatesBounded == Spec => []CopiesWithinBudget
BY CopiesHold, Invariance, PTL

(* In a coherent state a call that gave up has used its attempts. *)
LEMMA LastErrorHolds == Inv => LastErrorDecides
<1>1. SUFFICES ASSUME Inv, NEW p \in Proc,
                      result[p] \notin {"none", "Ok"}, src_port[p] # 0
      PROVE  /\ Len(errs[p]) = req[p].retries + 1
             /\ result[p] = SendClass(p, errs[p][Len(errs[p])])
  BY DEF LastErrorDecides
<1>2. CallTypes /\ BudgetInv(p)
  BY <1>1 DEF Inv, CallInv
<1>3. Len(errs[p]) \in Nat /\ req[p].retries \in Nat
  BY <1>2, LenProperties, RequestTypes, PortTypes DEF CallTypes
<1>4. /\ budget[p] + Len(errs[p]) = req[p].retries + 1 /\ budget[p] = 0
      /\ result[p] = SendClass(p, last_err[p])
  BY <1>1, <1>2 DEF BudgetInv
<1>5. Len(errs[p]) = req[p].retries + 1
  BY <1>3, <1>4
<1>6. errs[p] # << >>
  BY <1>3, <1>5, EmptySeq
<1>7. last_err[p] = errs[p][Len(errs[p])]
  BY <1>2, <1>6 DEF BudgetInv
<1>8. QED
  BY <1>4, <1>5, <1>7

(* The error of a call whose loop ran is the class of its last failure, after
   every attempt was used. *)
THEOREM LastErrorReported == Spec => []LastErrorDecides
BY LastErrorHolds, Invariance, PTL

(* In a coherent state every port held has its live socket. *)
LEMMA PortsHold == Inv => PortsReleased
BY DEF Inv, CallInv, PhaseInv, HolderInv, PortsReleased

(* No port outlives the call that bound it. *)
THEOREM NoPortLeaks == Spec => []PortsReleased
BY PortsHold, Invariance, PTL

(* In a coherent state every header has the lengths of its datagram. *)
LEMMA LengthsHold == Inv => LengthsExact
<1>1. SUFFICES ASSUME Inv, NEW p \in Proc, NEW i \in DOMAIN wire[p]
      PROVE  /\ wire[p][i].udp_len = req[p].len + 8
             /\ wire[p][i].total_length = req[p].len + 28
  BY DEF LengthsExact
<1>2. CallTypes /\ PhaseInv(p) /\ PortInv(p) /\ SizeInv(p)
  BY <1>1 DEF Inv, CallInv
<1>3. wire[p] # << >>
  BY <1>1, EmptySeq, LenProperties
<1>4. req[p].len \in Nat /\ req[p].raw \in BOOLEAN
  BY <1>2, RequestTypes
<1>5. req[p].len <= MAX_UDP_PAYLOAD
  BY <1>2, <1>3, <1>4 DEF PortInv, SizeInv, TooBig, MAX_UDP_PAYLOAD, u16_max
<1>6. udp_len(req[p].len) = req[p].len + 8
  BY <1>4, <1>5 DEF udp_len, MAX_UDP_PAYLOAD, u16_max
<1>7. total_length(req[p].len) = req[p].len + 28
  BY <1>4, <1>5, <1>6 DEF total_length, MAX_UDP_PAYLOAD, u16_max
<1>8. QED
  BY <1>2, <1>6, <1>7 DEF PortInv, datagram

(* The header lengths are exact for every payload length a call may have. *)
THEOREM HeaderLengths == Spec => []LengthsExact
BY LengthsHold, Invariance, PTL

(* In a coherent state all copies are the datagram of the call. *)
LEMMA IdenticalHold == Inv => CopiesIdentical
<1>1. SUFFICES ASSUME Inv, NEW p \in Proc, NEW i \in DOMAIN wire[p]
      PROVE  /\ wire[p][i].src_port = wire[p][1].src_port
             /\ Pinned(p) => wire[p][i].src_port = req[p].src_port
  BY DEF CopiesIdentical
<1>2. CallTypes /\ PortInv(p)
  BY <1>1 DEF Inv, CallInv
<1>3. 1 \in DOMAIN wire[p] /\ wire[p] # << >>
  <2>1. /\ DOMAIN wire[p] = 1 .. Len(wire[p]) /\ Len(wire[p]) \in Nat
    BY <1>2, LenProperties DEF CallTypes
  <2>2. i \in 1 .. Len(wire[p])
    BY <1>1, <2>1
  <2>3. QED
    BY <2>1, <2>2, EmptySeq
<1>4. wire[p][i] = datagram(p) /\ wire[p][1] = datagram(p)
  BY <1>1, <1>2, <1>3 DEF PortInv
<1>5. datagram(p).src_port = src_port[p]
  BY DEF datagram
<1>6. src_port[p] # 0
  BY <1>2, <1>3 DEF PortInv
<1>7. QED
  BY <1>2, <1>4, <1>5, <1>6 DEF PortInv

(* Every copy is the one datagram built before the loop. *)
THEOREM SameDatagram == Spec => []CopiesIdentical
BY IdenticalHold, Invariance, PTL

-------------------------------------------------------------------------------
(* The verdicts of the raw socket.  Whether the capability is there must be
   remembered from socket() to the end of the call, and so must the fact that
   no size was refused before a datagram was tried: an invariant of its own, on
   top of Inv. *)
Denied(p) ==
    /\ RawSupported
    /\ req[p].raw /\ req[p].len <= MAX_UDP_PAYLOAD
    /\ p \notin CapNetRaw

VerdictInv(p) ==
    /\ pc[p] \in {"hdrincl", "loop", "sending", "close"} /\ req[p].raw
           => RawSupported /\ p \in CapNetRaw
    /\ result[p] = "RawSocketDenied" <=> pc[p] = "done" /\ Denied(p)
    /\ src_port[p] = 0 => result[p] # "PayloadExceedsMtu"

Verdicts == \A p \in Proc : VerdictInv(p)

(* Which classes the functions of error.rs never answer. *)
LEMMA NeverAnswered ==
    /\ \A e \in OpenErrno : classify_raw_open(e) = "Other"
    /\ \A e \in Denials : classify_raw_open(e) = "RawSocketDenied"
    /\ \A e, n : classify_bind_io(e, n) \in {"Usage", "Other"}
    /\ \A p, e : SendClass(p, e) # "RawSocketDenied"
BY ErrnoAssumption
DEF classify_raw_open, classify_bind_io, classify_raw_send, map_send_io, SendClass

LEMMA VerdictFrame ==
    ASSUME NEW q \in Proc, VerdictInv(q), pc'[q] = pc[q], req'[q] = req[q],
           src_port'[q] = src_port[q], result'[q] = result[q]
    PROVE  VerdictInv(q)'
BY DEF VerdictInv, Denied

(* A call that is under way has no verdict to take back. *)
LEMMA UnderWay ==
    ASSUME Inv, NEW p \in Proc,
           pc[p] \in {"idle", "open", "hdrincl", "bind", "loop", "sending"}
    PROVE  result[p] = "none"
BY DEF Inv, CallInv, PhaseInv

LEMMA VerdictStep ==
    ASSUME Inv, Verdicts, NEW p \in Proc, Call(p) \/ Step(p)
    PROVE  VerdictInv(p)' /\ Others(p)
<1>0. CallTypes /\ PhaseInv(p) /\ SizeInv(p) /\ VerdictInv(p)
  BY DEF Inv, CallInv, Verdicts
<1>1. CASE Call(p)
  BY <1>0, <1>1 DEF Call, CallTypes, Others, Same, VerdictInv, Denied, PhaseInv
<1>2. CASE RawUnsupported(p)
  BY <1>0, <1>2 DEF RawUnsupported, ReturnError, CallTypes, Others, Same, VerdictInv, Denied
<1>3. CASE RejectOversize(p)
  <2>1. /\ req[p].len \in Nat /\ MAX_UDP_PAYLOAD \in Int
    BY <1>0, RequestTypes DEF MAX_UDP_PAYLOAD, u16_max
  <2>2. ~ Denied(p)'
    BY <1>3, <2>1 DEF RejectOversize, Denied
  <2>3. QED
    BY <1>0, <1>3, <2>2 DEF RejectOversize, ReturnError, CallTypes, Others, Same, VerdictInv
<1>4. CASE OpenRaw(p)
  <2>1. /\ UNCHANGED <<req, src_port, budget, last_err, wire, errs, bound>>
        /\ pc[p] = "open" /\ RawSupported /\ req[p].raw
        /\ req[p].len <= MAX_UDP_PAYLOAD
    BY <1>0, <1>4 DEF OpenRaw, SizeInv
  <2>2. CASE /\ p \in CapNetRaw
             /\ sock' = [sock EXCEPT ![p] = "raw"]
             /\ pc'   = [pc EXCEPT ![p] = "hdrincl"]
             /\ UNCHANGED result
    BY <1>0, <2>1, <2>2 DEF CallTypes, Others, Same, VerdictInv, Denied
  <2>3. CASE /\ \E e \in OpenFailures(p) : ReturnError(p, classify_raw_open(e))
             /\ UNCHANGED sock
    <3>1. PICK e \in OpenFailures(p) : ReturnError(p, classify_raw_open(e))
      BY <2>3
    <3>2. classify_raw_open(e) = IF p \in CapNetRaw THEN "Other" ELSE "RawSocketDenied"
      BY NeverAnswered DEF OpenFailures
    <3>3. /\ pc'[p] = "done"
          /\ result'[p] = IF p \in CapNetRaw THEN "Other" ELSE "RawSocketDenied"
      BY <1>0, <3>1, <3>2 DEF ReturnError, CallTypes
    <3>4. VerdictInv(p)'
      BY <2>1, <3>3 DEF VerdictInv, Denied
    <3>5. QED
      BY <1>0, <2>1, <2>3, <3>1, <3>4 DEF ReturnError, CallTypes, Others, Same
  <2>4. QED
    BY <1>4, <2>2, <2>3 DEF OpenRaw
<1>5. CASE SetHeaderIncluded(p)
  <2>1. /\ UNCHANGED <<req, sock, last_err, wire, errs, bound>>
        /\ pc[p] = "hdrincl" /\ req[p].raw /\ result[p] = "none"
        /\ RawSupported /\ p \in CapNetRaw
    BY <1>0, <1>5, UnderWay DEF SetHeaderIncluded, SizeInv, VerdictInv
  <2>2. CASE /\ \E port \in IF Pinned(p) THEN {req[p].src_port} ELSE pick_ephemeral_port :
                    StartLoop(p, port)
             /\ UNCHANGED result
    BY <1>0, <2>1, <2>2 DEF StartLoop, CallTypes, Others, Same, VerdictInv, Denied
  <2>3. CASE /\ \E e \in OpenErrno :
                    result' = [result EXCEPT ![p] = classify_raw_open(e)]
             /\ pc' = [pc EXCEPT ![p] = "close"]
             /\ UNCHANGED <<src_port, budget>>
    BY <1>0, <2>1, <2>3, NeverAnswered DEF CallTypes, Others, Same, VerdictInv, Denied
  <2>4. QED
    BY <1>5, <2>2, <2>3 DEF SetHeaderIncluded
<1>6. CASE Bind(p)
  <2>1. /\ UNCHANGED <<req, last_err, wire, errs>>
        /\ pc[p] = "bind" /\ ~req[p].raw /\ result[p] = "none"
    BY <1>0, <1>6, UnderWay DEF Bind, SizeInv
  <2>2. CASE \E port \in BindAnswers(p, req[p].src_port) :
                 /\ StartLoop(p, port)
                 /\ bound' = [bound EXCEPT ![port] = p]
                 /\ sock'  = [sock EXCEPT ![p] = "udp"]
                 /\ UNCHANGED result
    BY <1>0, <2>1, <2>2 DEF StartLoop, CallTypes, Others, Same, VerdictInv, Denied
  <2>3. CASE /\ \E e \in BindFailures(p, req[p].src_port) :
                    ReturnError(p, classify_bind_io(e, req[p].src_port))
             /\ UNCHANGED <<sock, src_port, budget, bound>>
    <3>1. PICK e \in {"Usage", "Other"} : ReturnError(p, e)
      BY <2>3, NeverAnswered
    <3>2. QED
      BY <1>0, <2>1, <2>3, <3>1 DEF ReturnError, CallTypes, Others, Same, VerdictInv, Denied
  <2>4. QED
    BY <1>6, <2>2, <2>3 DEF Bind
<1>7. CASE Attempt(p) \/ SendInterrupted(p)
  BY <1>0, <1>7, UnderWay
  DEF Attempt, SendInterrupted, CallTypes, Others, Same, VerdictInv, Denied
<1>8. CASE Answer(p)
  BY <1>0, <1>8, UnderWay
  DEF Answer, SendOk, SendError, Emit, CallTypes, Others, Same, VerdictInv, Denied, PhaseInv
<1>9. CASE GiveUp(p)
  <2>1. /\ pc'[p] = "close" /\ pc[p] = "loop" /\ src_port[p] # 0
        /\ result'[p] = SendClass(p, last_err[p])
        /\ UNCHANGED <<req, src_port>>
    BY <1>0, <1>9 DEF GiveUp, CallTypes, PhaseInv
  <2>2. VerdictInv(p)'
    BY <1>0, <2>1, NeverAnswered DEF VerdictInv, Denied
  <2>3. QED
    BY <1>0, <1>9, <2>2 DEF GiveUp, CallTypes, Others, Same
<1>10. CASE Close(p)
  BY <1>0, <1>10 DEF Close, CallTypes, Others, Same, VerdictInv, Denied
<1>11. QED
  BY <1>1, <1>2, <1>3, <1>4, <1>5, <1>6, <1>7, <1>8, <1>9, <1>10 DEF Step, Run

LEMMA VerdictsInvariant == Spec => []Verdicts
<1>1. Init => Verdicts
  BY DEF Init, Verdicts, VerdictInv
<1>2. Inv /\ Verdicts /\ [Next]_vars => Verdicts'
  <2>1. SUFFICES ASSUME Inv, Verdicts, [Next]_vars, NEW q \in Proc PROVE VerdictInv(q)'
    BY DEF Verdicts
  <2>2. VerdictInv(q)
    BY <2>1 DEF Verdicts
  <2>3. ASSUME NEW p \in Proc, Call(p) \/ Step(p) PROVE VerdictInv(q)'
    <3>1. VerdictInv(p)' /\ Others(p)
      BY <2>1, <2>3, VerdictStep
    <3>2. QED
      BY <2>2, <3>1, VerdictFrame DEF Others, Same
  <2>4. CASE ForeignPort \/ UNCHANGED vars
    BY <2>2, <2>4, VerdictFrame DEF ForeignPort
  <2>5. QED
    BY <2>1, <2>3, <2>4 DEF Next
<1>3. QED
  BY <1>1, <1>2, Invariance, PTL DEF Spec

(* The verdicts of a coherent state blame the capability when they should. *)
LEMMA CapabilityHolds == Verdicts => CapabilityVerdict
BY DEF Verdicts, VerdictInv, Denied, CapabilityVerdict

(* The setcap recipe is shown exactly when a spoofed send that could be made
   lacks the capability. *)
THEOREM CapabilityBlamed == Spec => []CapabilityVerdict
BY CapabilityHolds, VerdictsInvariant, PTL

(* The verdicts of a coherent state blame the MTU when they should. *)
LEMMA MtuHolds == Inv /\ Verdicts => MtuVerdict
<1>1. SUFFICES ASSUME Inv, Verdicts, NEW p \in Proc, result[p] = "PayloadExceedsMtu"
      PROVE  /\ req[p].raw /\ req[p].len + 28 > PathMtu[req[p].dst]
             /\ wire[p] = << >>
  BY DEF MtuVerdict
<1>2. /\ SizeInv(p) /\ BudgetInv(p) /\ src_port[p] # 0
  BY <1>1 DEF Inv, CallInv, Verdicts, VerdictInv
<1>3. SendClass(p, last_err[p]) = "PayloadExceedsMtu"
  BY <1>1, <1>2 DEF BudgetInv
<1>4. req[p].raw /\ last_err[p] = "EMSGSIZE"
  BY <1>3 DEF SendClass, classify_raw_send, map_send_io
<1>5. QED
  BY <1>2, <1>4 DEF SizeInv, TooBig

(* A payload blamed on the MTU was larger than the path, and stayed home. *)
THEOREM MtuBlamed == Spec => []MtuVerdict
BY MtuHolds, Invariance, VerdictsInvariant, PTL

(* Only bind returns a usage error, and of the user's own port, or of ports that
   are all taken. *)
LEMMA UsageStep ==
    ASSUME Inv, NEW p \in Proc, NEW q \in Proc, Call(q) \/ Step(q),
           result[p] = "none", result'[p] = "Usage"
    PROVE  /\ pc[p] = "bind"
           /\ \/ req[p].src_port \in 1 .. 1023
              \/ /\ BindAnswers(p, req[p].src_port) = {}
                 /\ Pinned(p) => MayBind(p, req[p].src_port)
<1>1. CallTypes
  BY DEF Inv
<1>2. CASE Bind(q) /\ q = p
  <2>1. PICK e \in BindFailures(p, req[p].src_port) :
            ReturnError(p, classify_bind_io(e, req[p].src_port))
    BY <1>2 DEF Bind
  <2>2. classify_bind_io(e, req[p].src_port) = "Usage"
    BY <1>1, <2>1 DEF ReturnError, CallTypes
  <2>3. req[p].src_port \in 1 .. 1023 \/ e = "EADDRINUSE"
    BY <2>2 DEF classify_bind_io
  <2>4. e = "EADDRINUSE" =>
            /\ BindAnswers(p, req[p].src_port) = {}
            /\ ~(req[p].src_port # 0 /\ ~MayBind(p, req[p].src_port))
    BY ErrnoAssumption DEF BindFailures
  <2>5. QED
    BY <1>2, <2>3, <2>4 DEF Bind, Pinned
<1>3. CASE ~(Bind(q) /\ q = p)
  <2>1. /\ \A e : classify_raw_open(e) # "Usage"
        /\ \A e : SendClass(q, e) # "Usage"
    BY DEF classify_raw_open, classify_raw_send, map_send_io, SendClass
  <2>2. \/ result' = result
        \/ \E c : c # "Usage" /\ result' = [result EXCEPT ![q] = c]
        \/ Bind(q)
    BY <2>1
    DEF Call, Step, Run, Answer, ReturnError, RawUnsupported, RejectOversize, OpenRaw,
        SetHeaderIncluded, Attempt, SendOk, SendInterrupted, SendError, GiveUp, Close
  <2>3. CASE Bind(q)
    <3>1. q # p
      BY <1>3, <2>3
    <3>2. result' = result \/ \E c : result' = [result EXCEPT ![q] = c]
      BY <2>3 DEF Bind, ReturnError
    <3>3. QED
      BY <1>1, <3>1, <3>2 DEF CallTypes
  <2>4. CASE \E c : c # "Usage" /\ result' = [result EXCEPT ![q] = c]
    BY <1>1, <2>4 DEF CallTypes
  <2>5. QED
    BY <2>2, <2>3, <2>4
<1>4. QED
  BY <1>2, <1>3

(* Exit code 2 after a send blames a port that is privileged or held by another
   at that very moment. *)
THEOREM UsageBlamed == Spec => UsageBlamesPort
<1>1. Inv /\ TypeOK /\ [Next]_vars =>
          [\A p \in Proc : result[p] = "none" /\ result'[p] = "Usage" =>
               \/ req[p].src_port \in 1 .. 1023
               \/ Pinned(p)  /\ HeldByOther(p, req[p].src_port)
               \/ ~Pinned(p) /\ \A q \in Ephemeral : HeldByOther(p, q)]_vars
  <2>1. SUFFICES ASSUME Inv, TypeOK, Next, NEW p \in Proc,
                        result[p] = "none", result'[p] = "Usage",
                        req[p].src_port \notin 1 .. 1023
        PROVE  \/ Pinned(p)  /\ HeldByOther(p, req[p].src_port)
               \/ ~Pinned(p) /\ \A q \in Ephemeral : HeldByOther(p, q)
    OBVIOUS
  <2>2. PICK q \in Proc : Call(q) \/ Step(q)
    BY <2>1 DEF Next, ForeignPort
  <2>3. /\ pc[p] = "bind" /\ BindAnswers(p, req[p].src_port) = {}
        /\ Pinned(p) => MayBind(p, req[p].src_port)
    BY <2>1, <2>2, UsageStep
  <2>4. ASSUME NEW r \in Port, bound[r] # Free PROVE HeldByOther(p, r)
    <3>1. bound[r] \in Proc \cup {Foreign} /\ HolderInv(r)
      BY <2>1, <2>4 DEF TypeOK, Inv, CallInv
    <3>2. QED
      BY <2>3, <3>1 DEF HolderInv, HeldByOther
  <2>5. CASE Pinned(p)
    BY <2>1, <2>3, <2>4, <2>5, RequestTypes DEF Pinned, BindAnswers, Inv
  <2>6. CASE ~Pinned(p)
    <3>1. \A r \in Ephemeral : r \in Port /\ MayBind(p, r)
      BY PortAssumption DEF MayBind
    <3>2. QED
      BY <2>3, <2>4, <2>6, <3>1 DEF Pinned, BindAnswers
  <2>7. QED
    BY <2>5, <2>6
<1>2. QED
  BY <1>1, Invariance, TypeCorrect, PTL DEF Spec, UsageBlamesPort

(* No step takes a verdict back or sends after it. *)
THEOREM VerdictKept == Spec => VerdictFinal
<1>1. Inv /\ [Next]_vars =>
          [\A p \in Proc : result[p] # "none" =>
               result'[p] = result[p] /\ wire'[p] = wire[p]]_vars
  <2>1. SUFFICES ASSUME Inv, Next, NEW q \in Proc, result[q] # "none"
        PROVE  result'[q] = result[q] /\ wire'[q] = wire[q]
    OBVIOUS
  <2>2. CallTypes /\ pc[q] \in {"close", "done"}
    BY <2>1 DEF Inv, CallInv, PhaseInv
  <2>3. CASE ForeignPort
    BY <2>3 DEF ForeignPort
  <2>4. ASSUME NEW p \in Proc, Call(p) \/ Step(p)
        PROVE  result'[q] = result[q] /\ wire'[q] = wire[q]
    BY <2>2, <2>4
    DEF CallTypes, Step, Run, Answer, Call, RawUnsupported, RejectOversize, OpenRaw,
        SetHeaderIncluded, Bind, Attempt, SendOk, SendInterrupted, SendError,
        GiveUp, Close, ReturnError, Emit
  <2>5. QED
    BY <2>1, <2>3, <2>4 DEF Next
<1>2. QED
  BY <1>1, Invariance, PTL DEF Spec, VerdictFinal

-------------------------------------------------------------------------------
(* The transports implement TrapSend. *)

(* A step of p leaves the abstract state of the others alone. *)
LEMMA AbstractFrame ==
    ASSUME NEW p \in Proc, Others(p)
    PROVE  \A q \in Proc \ {p} :
               /\ Status(q)' = Status(q)        /\ Allowed(q)' = Allowed(q)
               /\ Len(errs'[q]) = Len(errs[q])  /\ Len(wire'[q]) = Len(wire[q])
BY DEF Others, Same, Status, Failed, Allowed

(* What a step of p must do for each step of TrapSend to match it. *)
LEMMA Stutters ==
    ASSUME NEW p \in Proc, Others(p), Status(p)' = Status(p), Allowed(p)' = Allowed(p),
           Len(errs'[p]) = Len(errs[p]), Len(wire'[p]) = Len(wire[p])
    PROVE  UNCHANGED Abstract!vars
BY AbstractFrame DEF Abstract!vars

LEMMA Begins ==
    ASSUME NEW p \in Proc, Others(p), Status(p) = "idle", Status(p)' = "trying",
           Allowed(p)' \in 1 .. u8_max + 1,
           Len(errs'[p]) = Len(errs[p]), Len(wire'[p]) = Len(wire[p])
    PROVE  Abstract!Begin(p)
BY AbstractFrame DEF Abstract!Begin

LEMMA Refuses ==
    ASSUME NEW p \in Proc, Others(p), Status(p) = "trying", Status(p)' = "refused",
           Len(errs[p]) = 0, Allowed(p)' = Allowed(p),
           Len(errs'[p]) = Len(errs[p]), Len(wire'[p]) = Len(wire[p])
    PROVE  Abstract!Refuse(p)
BY AbstractFrame DEF Abstract!Refuse

LEMMA Accepts ==
    ASSUME NEW p \in Proc, Others(p), Status(p) = "trying", Status(p)' = "sent",
           Len(errs[p]) < Allowed(p), Allowed(p)' = Allowed(p),
           Len(errs'[p]) = Len(errs[p]), Len(wire'[p]) = Len(wire[p]) + 1
    PROVE  Abstract!Accepted(p)
BY AbstractFrame DEF Abstract!Accepted

LEMMA Rejects ==
    ASSUME NEW p \in Proc, Others(p), Status(p) = "trying", Status(p)' = "trying",
           Len(errs[p]) < Allowed(p), Allowed(p)' = Allowed(p),
           Len(errs'[p]) = Len(errs[p]) + 1,
           NEW n \in {0, 1}, Len(wire'[p]) = Len(wire[p]) + n
    PROVE  Abstract!Rejected(p)
BY AbstractFrame DEF Abstract!Rejected

LEMMA GivesUp ==
    ASSUME NEW p \in Proc, Others(p), Status(p) = "trying", Status(p)' = "gave up",
           Len(errs[p]) = Allowed(p), Allowed(p)' = Allowed(p),
           Len(errs'[p]) = Len(errs[p]), Len(wire'[p]) = Len(wire[p])
    PROVE  Abstract!GiveUp(p)
BY AbstractFrame DEF Abstract!GiveUp

(* Append adds one element. *)
LEMMA Longer ==
    ASSUME CallTypes, NEW p \in Proc
    PROVE  /\ \A x : Len(Append(wire[p], x)) = Len(wire[p]) + 1
           /\ \A x : Len(Append(errs[p], x)) = Len(errs[p]) + 1
           /\ Len(wire[p]) \in Nat /\ Len(errs[p]) \in Nat
BY DEF CallTypes

(* The abstract status, case by case, before and after a step. *)
LEMMA StatusCases ==
    ASSUME NEW p
    PROVE  /\ pc[p] = "idle" => Status(p) = "idle"
           /\ pc[p] # "idle" /\ result[p] = "none" => Status(p) = "trying"
           /\ pc[p] # "idle" /\ result[p] = "Ok" => Status(p) = "sent"
           /\ pc[p] # "idle" /\ result[p] \notin {"none", "Ok"} =>
                  Status(p) = IF src_port[p] = 0 THEN "refused" ELSE "gave up"
BY DEF Status, Failed

LEMMA StatusCasesNext ==
    ASSUME NEW p
    PROVE  /\ pc'[p] = "idle" => Status(p)' = "idle"
           /\ pc'[p] # "idle" /\ result'[p] = "none" => Status(p)' = "trying"
           /\ pc'[p] # "idle" /\ result'[p] = "Ok" => Status(p)' = "sent"
           /\ pc'[p] # "idle" /\ result'[p] \notin {"none", "Ok"} =>
                  Status(p)' = IF src_port'[p] = 0 THEN "refused" ELSE "gave up"
BY DEF Status, Failed

(* A step that only moves an invocation under way stutters. *)
LEMMA MovesStutter ==
    ASSUME NEW p \in Proc, Others(p), pc[p] # "idle", pc'[p] # "idle",
           UNCHANGED <<req, result, wire, errs>>,
           result[p] = "none" \/ src_port'[p] = src_port[p]
    PROVE  UNCHANGED Abstract!vars
<1>1. Status(p)' = Status(p)
  BY DEF Status, Failed
<1>2. Allowed(p)' = Allowed(p)
  BY DEF Allowed
<1>3. QED
  BY <1>1, <1>2, Stutters

(* A verdict before the first attempt is a refusal. *)
LEMMA RefusalMatches ==
    ASSUME Inv, NEW p \in Proc, Others(p), pc[p] \in {"open", "hdrincl", "bind"},
           pc'[p] \in {"close", "done"}, result'[p] \in SetupErrors,
           UNCHANGED <<req, src_port, wire, errs>>
    PROVE  Abstract!Refuse(p)
<1>1. src_port[p] = 0 /\ result[p] = "none" /\ errs[p] = << >>
  BY DEF Inv, CallInv, PhaseInv, PortInv
<1>2. result'[p] \notin {"none", "Ok"} /\ src_port'[p] = 0
  BY <1>1 DEF SetupErrors, ErrorClass
<1>3. Status(p) = "trying" /\ Status(p)' = "refused"
  BY <1>1, <1>2, StatusCases, StatusCasesNext
<1>4. Allowed(p)' = Allowed(p)
  BY DEF Allowed
<1>5. Len(errs[p]) = 0
  BY <1>1, EmptySeq
<1>6. QED
  BY <1>3, <1>4, <1>5, Refuses

(* While the loop runs, the budget is what is left of the limit. *)
LEMMA BudgetLeft ==
    ASSUME Inv, NEW p \in Proc, pc[p] \in {"loop", "sending"}
    PROVE  /\ Status(p) = "trying" /\ result[p] = "none" /\ src_port[p] # 0
           /\ budget[p] > 0 => Len(errs[p]) < Allowed(p)
           /\ budget[p] <= 0 => Len(errs[p]) = Allowed(p)
           /\ pc[p] = "sending" => budget[p] > 0
<1>1. CallTypes /\ PhaseInv(p) /\ BudgetInv(p)
  BY DEF Inv, CallInv
<1>2. /\ result[p] = "none" /\ src_port[p] # 0
      /\ pc[p] = "sending" => budget[p] > 0
  BY <1>1 DEF PhaseInv
<1>3. Status(p) = "trying"
  BY <1>2, StatusCases
<1>4. /\ budget[p] + Len(errs[p]) = req[p].retries + 1
      /\ Allowed(p) = req[p].retries + 1
  BY <1>1, <1>2 DEF BudgetInv, Allowed
<1>5. budget[p] \in Nat /\ Len(errs[p]) \in Nat /\ req[p].retries \in Nat
  BY <1>1, LenProperties, RequestTypes, PortTypes DEF CallTypes
<1>6. QED
  BY <1>2, <1>3, <1>4, <1>5

(* Every step of an invocation is a step of TrapSend or a stutter. *)
LEMMA StepMatches ==
    ASSUME Inv, NEW p \in Proc, Others(p), Call(p) \/ Step(p)
    PROVE  (\E q \in Proc : \/ Abstract!Begin(q) \/ Abstract!Refuse(q)
                            \/ Abstract!Accepted(q) \/ Abstract!Rejected(q)
                            \/ Abstract!GiveUp(q))
           \/ UNCHANGED Abstract!vars
<1>0. CallTypes /\ PhaseInv(p) /\ PortInv(p)
  BY DEF Inv, CallInv
<1>1. CASE Call(p)
  <2>1. /\ pc[p] = "idle" /\ pc'[p] \in {"open", "bind"} /\ result'[p] = "none"
        /\ UNCHANGED <<req, wire, errs>>
    BY <1>0, <1>1 DEF Call, CallTypes, PhaseInv
  <2>2. Status(p) = "idle" /\ Status(p)' = "trying"
    BY <2>1, StatusCases, StatusCasesNext
  <2>3. Allowed(p)' \in 1 .. u8_max + 1
    BY <1>0, <2>1, RequestTypes, PortTypes DEF Allowed
  <2>4. Abstract!Begin(p)
    BY <2>1, <2>2, <2>3, Begins
  <2>5. QED
    BY <2>4
<1>2. CASE RawUnsupported(p) \/ RejectOversize(p)
  <2>1. /\ pc[p] = "open" /\ pc'[p] = "done" /\ result'[p] \in SetupErrors
        /\ UNCHANGED <<req, src_port, wire, errs>>
    BY <1>0, <1>2, Classes DEF RawUnsupported, RejectOversize, ReturnError, CallTypes
  <2>2. Abstract!Refuse(p)
    BY <2>1, RefusalMatches
  <2>3. QED
    BY <2>2
<1>3. CASE OpenRaw(p)
  <2>1. /\ pc[p] = "open" /\ result[p] = "none"
        /\ UNCHANGED <<req, src_port, wire, errs>>
    BY <1>0, <1>3 DEF OpenRaw, PhaseInv
  <2>2. CASE pc' = [pc EXCEPT ![p] = "hdrincl"] /\ UNCHANGED result
    BY <1>0, <2>1, <2>2, MovesStutter DEF CallTypes
  <2>3. CASE \E e \in OpenFailures(p) : ReturnError(p, classify_raw_open(e))
    <3>1. pc'[p] = "done" /\ result'[p] \in SetupErrors
      BY <1>0, <2>3, Classes DEF ReturnError, CallTypes
    <3>2. Abstract!Refuse(p)
      BY <2>1, <3>1, RefusalMatches
    <3>3. QED
      BY <3>2
  <2>4. QED
    BY <1>3, <2>2, <2>3 DEF OpenRaw
<1>4. CASE SetHeaderIncluded(p)
  <2>1. /\ pc[p] = "hdrincl" /\ result[p] = "none" /\ UNCHANGED <<req, wire, errs>>
    BY <1>0, <1>4 DEF SetHeaderIncluded, PhaseInv
  <2>2. CASE /\ \E port \in IF Pinned(p) THEN {req[p].src_port} ELSE pick_ephemeral_port :
                    StartLoop(p, port)
             /\ UNCHANGED result
    <3>1. pc'[p] = "loop"
      BY <1>0, <2>2 DEF StartLoop, CallTypes
    <3>2. QED
      BY <2>1, <2>2, <3>1, MovesStutter
  <2>3. CASE /\ \E e \in OpenErrno :
                    result' = [result EXCEPT ![p] = classify_raw_open(e)]
             /\ pc' = [pc EXCEPT ![p] = "close"]
             /\ UNCHANGED <<src_port, budget>>
    <3>1. pc'[p] = "close" /\ result'[p] \in SetupErrors
      BY <1>0, <2>3, Classes DEF CallTypes
    <3>2. Abstract!Refuse(p)
      BY <2>1, <2>3, <3>1, RefusalMatches
    <3>3. QED
      BY <3>2
  <2>4. QED
    BY <1>4, <2>2, <2>3 DEF SetHeaderIncluded
<1>5. CASE Bind(p)
  <2>1. /\ pc[p] = "bind" /\ result[p] = "none" /\ UNCHANGED <<req, wire, errs>>
    BY <1>0, <1>5 DEF Bind, PhaseInv
  <2>2. CASE /\ \E port \in BindAnswers(p, req[p].src_port) : StartLoop(p, port)
             /\ UNCHANGED result
    <3>1. pc'[p] = "loop"
      BY <1>0, <2>2 DEF StartLoop, CallTypes
    <3>2. QED
      BY <2>1, <2>2, <3>1, MovesStutter
  <2>3. CASE /\ \E e \in BindFailures(p, req[p].src_port) :
                    ReturnError(p, classify_bind_io(e, req[p].src_port))
             /\ UNCHANGED src_port
    <3>1. pc'[p] = "done" /\ result'[p] \in SetupErrors
      BY <1>0, <2>3, Classes DEF ReturnError, CallTypes
    <3>2. Abstract!Refuse(p)
      BY <2>1, <2>3, <3>1, RefusalMatches
    <3>3. QED
      BY <3>2
  <2>4. QED
    BY <1>5, <2>2, <2>3 DEF Bind
<1>6. CASE Attempt(p) \/ SendInterrupted(p) \/ Close(p)
  <2>1. /\ pc[p] # "idle" /\ pc'[p] # "idle"
        /\ UNCHANGED <<req, result, src_port, wire, errs>>
    BY <1>0, <1>6 DEF Attempt, SendInterrupted, Close, CallTypes
  <2>2. QED
    BY <2>1, MovesStutter
<1>7. CASE SendOk(p)
  <2>1. /\ pc[p] = "sending" /\ pc'[p] = "close" /\ result'[p] = "Ok"
        /\ wire'[p] = Append(wire[p], datagram(p)) /\ UNCHANGED <<req, errs>>
    BY <1>0, <1>7 DEF SendOk, Emit, CallTypes
  <2>2. Status(p) = "trying" /\ Status(p)' = "sent" /\ Len(errs[p]) < Allowed(p)
    BY <2>1, BudgetLeft, StatusCasesNext
  <2>3. Allowed(p)' = Allowed(p)
    BY <2>1 DEF Allowed
  <2>4. Len(wire'[p]) = Len(wire[p]) + 1
    BY <1>0, <2>1, Longer
  <2>5. Abstract!Accepted(p)
    BY <2>1, <2>2, <2>3, <2>4, Accepts
  <2>6. QED
    BY <2>5
<1>8. CASE SendError(p)
  <2>1. PICK e \in SendFailures(p) : errs' = [errs EXCEPT ![p] = Append(@, e)]
    BY <1>8 DEF SendError
  <2>2. /\ pc[p] = "sending" /\ pc'[p] = "loop" /\ result'[p] = result[p]
        /\ errs'[p] = Append(errs[p], e) /\ UNCHANGED req
        /\ wire'[p] \in {wire[p], Append(wire[p], datagram(p))}
    BY <1>0, <1>8, <2>1 DEF SendError, Emit, CallTypes
  <2>3. Status(p) = "trying" /\ Status(p)' = "trying" /\ Len(errs[p]) < Allowed(p)
    BY <2>2, BudgetLeft, StatusCasesNext
  <2>4. Allowed(p)' = Allowed(p)
    BY <2>2 DEF Allowed
  <2>5. /\ Len(errs'[p]) = Len(errs[p]) + 1
        /\ \E n \in {0, 1} : Len(wire'[p]) = Len(wire[p]) + n
    BY <1>0, <2>2, Longer
  <2>6. Abstract!Rejected(p)
    BY <2>3, <2>4, <2>5, Rejects
  <2>7. QED
    BY <2>6
<1>9. CASE GiveUp(p)
  <2>1. /\ pc[p] = "loop" /\ budget[p] <= 0 /\ pc'[p] = "close"
        /\ result'[p] = SendClass(p, last_err[p])
        /\ UNCHANGED <<req, src_port, wire, errs>>
    BY <1>0, <1>9 DEF GiveUp, CallTypes
  <2>2. /\ Status(p) = "trying" /\ Len(errs[p]) = Allowed(p) /\ src_port'[p] # 0
    BY <2>1, BudgetLeft
  <2>3. result'[p] \notin {"none", "Ok"}
    BY <2>1, Classes DEF SetupErrors, ErrorClass
  <2>4. Status(p)' = "gave up"
    BY <2>1, <2>2, <2>3, StatusCasesNext
  <2>5. Allowed(p)' = Allowed(p)
    BY <2>1 DEF Allowed
  <2>6. Abstract!GiveUp(p)
    BY <2>1, <2>2, <2>4, <2>5, GivesUp
  <2>7. QED
    BY <2>6
<1>10. QED
  BY <1>1, <1>2, <1>3, <1>4, <1>5, <1>6, <1>7, <1>8, <1>9 DEF Step, Run, Answer

LEMMA InitMatches == Init => Abstract!Init
<1>1. SUFFICES ASSUME Init PROVE Abstract!Init
  OBVIOUS
<1>2. ASSUME NEW p \in Proc
      PROVE  /\ Status(p) = "idle" /\ Allowed(p) = 0
             /\ Len(errs[p]) = 0 /\ Len(wire[p]) = 0
  <2>1. pc[p] = "idle" /\ errs[p] = << >> /\ wire[p] = << >>
    BY <1>1 DEF Init
  <2>2. QED
    BY <2>1, EmptySeq, StatusCases DEF Allowed
<1>3. QED
  BY <1>2 DEF Abstract!Init

(* The retry loops, the sockets and the verdicts of both transports keep the
   promise of TrapSend: at most one copy per attempt, at most retries + 1
   failures, and a refusal only before the first attempt. *)
THEOREM Refinement == Spec => ImplementsTrapSend
<1>1. Inv /\ Verdicts /\ [Next]_vars => [Abstract!Next]_Abstract!vars
  <2>1. SUFFICES ASSUME Inv, Verdicts, [Next]_vars
        PROVE  Abstract!Next \/ UNCHANGED Abstract!vars
    OBVIOUS
  <2>2. ASSUME NEW p \in Proc, Call(p) \/ Step(p)
        PROVE  Abstract!Next \/ UNCHANGED Abstract!vars
    <3>1. Others(p)
      BY <2>1, <2>2, VerdictStep
    <3>2. QED
      BY <2>1, <2>2, <3>1, StepMatches DEF Abstract!Next
  <2>3. CASE ForeignPort \/ UNCHANGED vars
    <3>1. UNCHANGED <<pc, req, src_port, result, wire, errs>>
      BY <2>3 DEF ForeignPort, call, vars
    <3>2. \A q \in Proc : /\ Status(q)' = Status(q) /\ Allowed(q)' = Allowed(q)
                          /\ errs'[q] = errs[q] /\ wire'[q] = wire[q]
      BY <3>1 DEF Status, Failed, Allowed
    <3>3. QED
      BY <3>2 DEF Abstract!vars
  <2>4. QED
    BY <2>1, <2>2, <2>3 DEF Next
<1>2. QED
  BY <1>1, InitMatches, Invariance, VerdictsInvariant, PTL
  DEF Spec, ImplementsTrapSend, Abstract!Spec

-------------------------------------------------------------------------------
(* What is left to do in a call. *)

(* The steps a call with budget b, of one that allows r retries, may still take:
   two for each attempt, and those before and after the loop. *)
StepsLeft(place, b, r) ==
    CASE place = "idle"            -> 2 * r + 7
      [] place \in {"open", "bind"} -> 2 * r + 6
      [] place = "hdrincl"         -> 2 * r + 5
      [] place = "loop"            -> 2 * b + 2
      [] place = "sending"         -> 2 * b + 1
      [] place = "close"           -> 1
      [] place = "done"            -> 0

Left(p) == StepsLeft(pc[p], budget[p], req[p].retries)

(* raw.rs:161-179, unprivileged.rs:20-30: every step of a call brings it closer to
   its end, but EINTR, which gives back the attempt; nothing others do takes it
   further away.  InvocationEnds rests on this. *)
EveryStepCounts ==
    [][\A p \in Proc : Same(p) \/ SendInterrupted(p) \/ Left(p)' < Left(p)]_vars

StepsByPlace(b, r) ==
    /\ StepsLeft("idle", b, r) = 2 * r + 7
    /\ StepsLeft("open", b, r) = 2 * r + 6
    /\ StepsLeft("bind", b, r) = 2 * r + 6
    /\ StepsLeft("hdrincl", b, r) = 2 * r + 5
    /\ StepsLeft("loop", b, r) = 2 * b + 2
    /\ StepsLeft("sending", b, r) = 2 * b + 1
    /\ StepsLeft("close", b, r) = 1
    /\ StepsLeft("done", b, r) = 0

LEMMA PlacesDiffer == \A b, r : StepsByPlace(b, r)
BY DEF StepsLeft, StepsByPlace

(* A call never has fewer than no steps to take, and at most 2 * retries + 7. *)
LEMMA LeftBounded ==
    ASSUME Inv, NEW p \in Proc
    PROVE  Left(p) \in 0 .. 2 * req[p].retries + 7
<1> DEFINE r == req[p].retries
           b == budget[p]
<1>1. /\ CallTypes /\ PhaseInv(p) /\ BudgetInv(p)
  BY DEF Inv, CallInv
<1>2. r \in Nat /\ b \in Nat /\ Len(errs[p]) \in Nat
  BY <1>1, RequestTypes, PortTypes, LenProperties DEF CallTypes
<1>3. pc[p] \in {"loop", "sending"} => b <= r + 1
  BY <1>1, <1>2 DEF PhaseInv, BudgetInv
<1>4. pc[p] \in {"idle", "open", "hdrincl", "bind", "loop", "sending", "close", "done"}
  BY <1>1 DEF CallTypes
<1>5. Left(p) = StepsLeft(pc[p], b, r)
  BY DEF Left
<1> HIDE DEF r, b
<1>6. /\ StepsLeft("idle", b, r) = 2 * r + 7
      /\ StepsLeft("open", b, r) = 2 * r + 6
      /\ StepsLeft("bind", b, r) = 2 * r + 6
      /\ StepsLeft("hdrincl", b, r) = 2 * r + 5
      /\ StepsLeft("loop", b, r) = 2 * b + 2
      /\ StepsLeft("sending", b, r) = 2 * b + 1
      /\ StepsLeft("close", b, r) = 1
      /\ StepsLeft("done", b, r) = 0
  BY PlacesDiffer DEF StepsByPlace
<1>7. ASSUME pc[p] \in {"loop", "sending"} PROVE Left(p) \in 0 .. 2 * r + 7
  <2>1. Left(p) = 2 * b + 2 \/ Left(p) = 2 * b + 1
    BY <1>5, <1>6, <1>7
  <2>2. QED
    BY <1>2, <1>3, <1>7, <2>1
<1>8. ASSUME pc[p] \in {"idle", "open", "hdrincl", "bind", "close", "done"}
      PROVE  Left(p) \in 0 .. 2 * r + 7
  <2>1. Left(p) \in {2 * r + 7, 2 * r + 6, 2 * r + 5, 1, 0}
    BY <1>5, <1>6, <1>8
  <2>2. QED
    BY <1>2, <2>1
<1>9. Left(p) \in 0 .. 2 * r + 7
  BY <1>4, <1>7, <1>8
<1>10. QED
  BY <1>9 DEF r

(* A call goes from one place to another, with the request it had. *)
Goes(p, from, to, y) ==
    /\ pc[p] = from /\ pc'[p] = to
    /\ req'[p] = req[p] /\ budget'[p] = y

LEMMA LeftDrops ==
    ASSUME NEW p \in Proc, NEW from, NEW to, NEW y, Goes(p, from, to, y),
           StepsLeft(to, y, req[p].retries) < StepsLeft(from, budget[p], req[p].retries)
    PROVE  Left(p)' < Left(p)
BY DEF Left, Goes

(* The steps of one call. *)
LEMMA StepCounts ==
    ASSUME Inv, NEW p \in Proc, Call(p) \/ Run(p) \/ Answer(p)
    PROVE  Left(p)' < Left(p)
<1> DEFINE r == req[p].retries
           b == budget[p]
<1>1. /\ CallTypes /\ PhaseInv(p) /\ r \in Nat /\ b \in Nat
  BY RequestTypes, PortTypes DEF Inv, CallInv, CallTypes
<1>2. /\ StepsLeft("open", b, r) < StepsLeft("idle", b, r)
      /\ StepsLeft("bind", b, r) < StepsLeft("idle", b, r)
      /\ StepsLeft("hdrincl", b, r) < StepsLeft("open", b, r)
      /\ StepsLeft("done", b, r) < StepsLeft("open", b, r)
      /\ StepsLeft("close", b, r) < StepsLeft("hdrincl", b, r)
      /\ StepsLeft("done", b, r) < StepsLeft("bind", b, r)
      /\ StepsLeft("sending", b, r) < StepsLeft("loop", b, r)
      /\ StepsLeft("close", b, r) < StepsLeft("loop", b, r)
      /\ StepsLeft("done", b, r) < StepsLeft("close", b, r)
      /\ b > 0 => StepsLeft("close", b, r) < StepsLeft("sending", b, r)
  <2> HIDE DEF r, b
  <2>1. /\ StepsLeft("idle", b, r) = 2 * r + 7
        /\ StepsLeft("open", b, r) = 2 * r + 6
        /\ StepsLeft("bind", b, r) = 2 * r + 6
        /\ StepsLeft("hdrincl", b, r) = 2 * r + 5
        /\ StepsLeft("loop", b, r) = 2 * b + 2
        /\ StepsLeft("sending", b, r) = 2 * b + 1
        /\ StepsLeft("close", b, r) = 1
        /\ StepsLeft("done", b, r) = 0
    BY PlacesDiffer DEF StepsByPlace
  <2>2. QED
    BY <1>1, <2>1
<1>3. /\ StepsLeft("loop", r + 1, r) < StepsLeft("hdrincl", b, r)
      /\ StepsLeft("loop", r + 1, r) < StepsLeft("bind", b, r)
      /\ StepsLeft("loop", b - 1, r) < StepsLeft("sending", b, r)
  <2> HIDE DEF r, b
  <2>1. /\ StepsLeft("loop", r + 1, r) = 2 * (r + 1) + 2
        /\ StepsLeft("loop", b - 1, r) = 2 * (b - 1) + 2
        /\ StepsLeft("hdrincl", b, r) = 2 * r + 5
        /\ StepsLeft("bind", b, r) = 2 * r + 6
        /\ StepsLeft("sending", b, r) = 2 * b + 1
    BY PlacesDiffer DEF StepsByPlace
  <2>2. QED
    BY <1>1, <2>1
<1>4. CASE Call(p)
  <2>1. Goes(p, "idle", "open", b) \/ Goes(p, "idle", "bind", b)
    BY <1>1, <1>4 DEF Call, CallTypes, Goes
  <2>2. QED
    BY <1>2, <2>1, LeftDrops
<1>5. CASE RawUnsupported(p) \/ RejectOversize(p) \/ OpenRaw(p)
  <2>1. Goes(p, "open", "hdrincl", b) \/ Goes(p, "open", "done", b)
    BY <1>1, <1>5 DEF RawUnsupported, RejectOversize, OpenRaw, ReturnError, CallTypes, Goes
  <2>2. QED
    BY <1>2, <2>1, LeftDrops
<1>6. CASE SetHeaderIncluded(p)
  <2>1. Goes(p, "hdrincl", "loop", r + 1) \/ Goes(p, "hdrincl", "close", b)
    BY <1>1, <1>6 DEF SetHeaderIncluded, StartLoop, CallTypes, Goes
  <2>2. QED
    BY <1>2, <1>3, <2>1, LeftDrops
<1>7. CASE Bind(p)
  <2>1. Goes(p, "bind", "loop", r + 1) \/ Goes(p, "bind", "done", b)
    BY <1>1, <1>7 DEF Bind, StartLoop, ReturnError, CallTypes, Goes
  <2>2. QED
    BY <1>2, <1>3, <2>1, LeftDrops
<1>8. CASE Attempt(p)
  <2>1. Goes(p, "loop", "sending", b)
    BY <1>1, <1>8 DEF Attempt, CallTypes, Goes
  <2>2. QED
    BY <1>2, <2>1, LeftDrops
<1>9. CASE SendOk(p)
  <2>1. Goes(p, "sending", "close", b) /\ b > 0
    BY <1>1, <1>9 DEF SendOk, PhaseInv, CallTypes, Goes
  <2>2. QED
    BY <1>2, <2>1, LeftDrops
<1>10. CASE SendError(p)
  <2>1. Goes(p, "sending", "loop", b - 1)
    BY <1>1, <1>10 DEF SendError, CallTypes, Goes
  <2>2. QED
    BY <1>3, <2>1, LeftDrops
<1>11. CASE GiveUp(p)
  <2>1. Goes(p, "loop", "close", b)
    BY <1>1, <1>11 DEF GiveUp, CallTypes, Goes
  <2>2. QED
    BY <1>2, <2>1, LeftDrops
<1>12. CASE Close(p)
  <2>1. Goes(p, "close", "done", b)
    BY <1>1, <1>12 DEF Close, CallTypes, Goes
  <2>2. QED
    BY <1>2, <2>1, LeftDrops
<1>13. QED
  BY <1>4, <1>5, <1>6, <1>7, <1>8, <1>9, <1>10, <1>11, <1>12 DEF Run, Answer

(* Interruptions apart, no call takes more than 2 * retries + 7 steps. *)
THEOREM AttemptsRunOut ==
    Spec => [](\A p \in Proc : Left(p) \in 0 .. 2 * req[p].retries + 7) /\ EveryStepCounts
<1>1. Inv => \A p \in Proc : Left(p) \in 0 .. 2 * req[p].retries + 7
  BY LeftBounded
<1>2. Inv /\ Verdicts /\ [Next]_vars =>
          [\A p \in Proc : Same(p) \/ SendInterrupted(p) \/ Left(p)' < Left(p)]_vars
  <2>1. SUFFICES ASSUME Inv, Verdicts, Next, NEW p \in Proc,
                        ~Same(p), ~SendInterrupted(p)
                 PROVE  Left(p)' < Left(p)
    OBVIOUS
  <2>2. ~ForeignPort
    BY <2>1 DEF ForeignPort, Same
  <2>3. PICK q \in Proc : Call(q) \/ Step(q)
    BY <2>1, <2>2 DEF Next
  <2>4. Others(q)
    BY <2>1, <2>3, VerdictStep
  <2>5. q = p
    BY <2>1, <2>4 DEF Others
  <2>6. QED
    BY <2>1, <2>3, <2>5, StepCounts DEF Step
<1>3. QED
  BY <1>1, <1>2, Invariance, VerdictsInvariant, PTL DEF Spec, EveryStepCounts

-------------------------------------------------------------------------------
(* The build without raw sockets. *)

(* No verdict of its invocations is that of a missing capability. *)
NoDenial(res) ==
    /\ res = [p \in Proc |-> res[p]]
    /\ \A p \in Proc : res[p] # "RawSocketDenied"

(* It stays so when one more verdict is given. *)
LEMMA OneVerdict ==
    ASSUME NoDenial(result), NEW p \in Proc, NEW e, e # "RawSocketDenied",
           result' = [result EXCEPT ![p] = e]
    PROVE  NoDenial(result')
BY DEF NoDenial

(* No step of that build blames the capability: it never opens a raw socket. *)
LEMMA OtherStep ==
    ASSUME NoDenial(result), Other!Next
    PROVE  NoDenial(result')
<1>1. ASSUME UNCHANGED result PROVE NoDenial(result')
  BY <1>1 DEF NoDenial
<1>2. CASE Other!ForeignPort
  BY <1>1, <1>2 DEF Other!ForeignPort, Other!call
<1>3. ASSUME NEW p \in Proc, Other!Call(p) \/ Other!Step(p) PROVE NoDenial(result')
  <2>1. CASE Other!Call(p)
    BY <1>1, <2>1 DEF Other!Call
  <2>2. CASE Other!RawUnsupported(p)
    BY <2>2, OneVerdict DEF Other!RawUnsupported, Other!ReturnError
  <2>3. ~Other!RejectOversize(p) /\ ~Other!OpenRaw(p)
    BY DEF Other!RejectOversize, Other!OpenRaw
  <2>4. CASE Other!SetHeaderIncluded(p)
    <3>1. CASE UNCHANGED result
      BY <1>1, <3>1
    <3>2. ASSUME NEW e \in OpenErrno,
                 result' = [result EXCEPT ![p] = Other!classify_raw_open(e)]
          PROVE  NoDenial(result')
      <4>1. e \notin Denials
        BY ErrnoAssumption
      <4>2. Other!classify_raw_open(e) = "Other"
        BY <4>1 DEF Other!classify_raw_open, Other!Denials, Denials
      <4>3. QED
        BY <3>2, <4>2, OneVerdict
    <3>3. QED
      BY <2>4, <3>1, <3>2 DEF Other!SetHeaderIncluded
  <2>5. CASE Other!Bind(p)
    <3>1. CASE UNCHANGED result
      BY <1>1, <3>1
    <3>2. ASSUME NEW e, NEW port,
                 result' = [result EXCEPT ![p] = Other!classify_bind_io(e, port)]
          PROVE  NoDenial(result')
      <4>1. Other!classify_bind_io(e, port) # "RawSocketDenied"
        BY DEF Other!classify_bind_io
      <4>2. QED
        BY <3>2, <4>1, OneVerdict
    <3>3. QED
      BY <2>5, <3>1, <3>2 DEF Other!Bind, Other!ReturnError
  <2>6. CASE Other!Attempt(p) \/ Other!SendInterrupted(p) \/ Other!SendError(p) \/ Other!Close(p)
    BY <1>1, <2>6 DEF Other!Attempt, Other!SendInterrupted, Other!SendError, Other!Close
  <2>7. CASE Other!SendOk(p)
    BY <2>7, OneVerdict DEF Other!SendOk
  <2>8. CASE Other!GiveUp(p)
    <3>1. Other!SendClass(p, last_err[p]) # "RawSocketDenied"
      BY DEF Other!SendClass, Other!classify_raw_send, Other!map_send_io
    <3>2. QED
      BY <2>8, <3>1, OneVerdict DEF Other!GiveUp
  <2>9. QED
    BY <1>3, <2>1, <2>2, <2>3, <2>4, <2>5, <2>6, <2>7, <2>8
    DEF Other!Step, Other!Run, Other!Answer
<1>4. QED
  BY <1>2, <1>3 DEF Other!Next

(* Which build runs, and what the one without raw sockets never answers. *)
RawBuild   == build = "linux"
OtherBuild == build = "other" /\ NoDenial(result)

(* The setcap recipe is shown by the build with raw sockets, to a spoofed send
   that lacks the capability, and to nobody else. *)
THEOREM BuildBlamed == BuildSpec => []VerdictOfBuild
<1>1. BuildInit => Init /\ (RawBuild \/ OtherBuild)
  <2>1. SUFFICES ASSUME Init PROVE NoDenial(result)
    BY DEF BuildInit, RawBuild, OtherBuild
  <2>2. QED
    BY <2>1 DEF Init, NoDenial
<1>2. RawBuild /\ [BuildNext]_<<vars, build>> => RawBuild' /\ [Next]_vars
  BY DEF RawBuild, BuildNext
<1>3. OtherBuild /\ [BuildNext]_<<vars, build>> => OtherBuild'
  BY OtherStep DEF OtherBuild, BuildNext
<1>4. RawBuild /\ CapabilityVerdict => VerdictOfBuild
  BY DEF RawBuild, VerdictOfBuild
<1>5. OtherBuild => VerdictOfBuild
  BY DEF OtherBuild, NoDenial, VerdictOfBuild, Other!CapabilityVerdict
<1>6. QED
  BY <1>1, <1>2, <1>3, <1>4, <1>5, CapabilityBlamed, PTL DEF BuildSpec, Spec
===============================================================================
