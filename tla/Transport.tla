------------------------------- MODULE Transport -------------------------------
(***************************************************************************)
(* src/transport: how an encoded trap leaves the host.  Several            *)
(* invocations of the program run at once; each calls send_spoofed (a raw  *)
(* socket with its own IPv4 header) or send (an ordinary UDP socket) once. *)
(* They share the kernel's UDP port table, which other programs use too.   *)
(*                                                                         *)
(* A system call that can fail is an action whose answer is chosen by the  *)
(* kernel, from the answers the operators under "The kernel" allow.        *)
(***************************************************************************)
EXTENDS SnmpErrors, Integers, Sequences, FiniteSets

CONSTANTS
    Proc,           \* the concurrent invocations
    Port,           \* the UDP ports in play
    Ephemeral,      \* the ports the kernel may give to bind(port 0)
    Requests,       \* the calls an invocation may make
    CapNetRaw,      \* the invocations that may open a raw socket
    CapNetBind,     \* the invocations that may bind a port below 1024
    Agent,          \* the destinations
    PathMtu,        \* the MTU of the path to each
    OpenErrno,      \* why creating or setting up a socket may fail
    SendErrno,      \* why an attempt to send may fail, size apart
    RawSupported,   \* whether the build has the raw transport
    Free, Foreign   \* a port nobody holds, a port another program holds

(* u8::MAX and u16::MAX. *)
u8_max  == 255
u16_max == 65535

(* The arguments of a call.  src_port is 0 when the user pins none; of the
   payload only its length matters here. *)
Request == [raw : BOOLEAN, dst : Agent, src_port : Port \cup {0},
            retries : 0 .. u8_max, len : Nat]

ASSUME PortAssumption    == /\ Port \subseteq 1 .. u16_max
                            /\ Ephemeral \subseteq Port \cap 1024 .. u16_max
ASSUME RequestAssumption == Requests \subseteq Request
ASSUME MtuAssumption     == PathMtu \in [Agent -> Nat]
ASSUME HolderAssumption  == Free \notin Proc /\ Foreign \notin Proc /\ Free # Foreign
(* Denials of a socket are decided by the capability, size errors by the
   size, and EINTR has an action of its own. *)
ASSUME ErrnoAssumption   ==
    /\ OpenErrno \subseteq STRING \ (Denials \cup {"EADDRINUSE"})
    /\ SendErrno \subseteq STRING \ {"EMSGSIZE", "EINTR", "none"}
    /\ RawSupported \in BOOLEAN

VARIABLES
    pc,         \* where the call of each invocation is
    req,        \* its arguments
    sock,       \* its socket: "none", "raw" or "udp"
    src_port,   \* the UDP source port of its datagrams, 0 until chosen
    budget,     \* failed attempts it may still make
    last_err,   \* the errno of its last failed attempt, "none" for None
    result,     \* "none", "Ok" or the class of the error returned
    wire,       \* the datagrams of it that reached the network, in order
    errs,       \* history: the errno of each failed attempt
    bound       \* the kernel's port table: who holds each UDP port

call == <<pc, req, sock, src_port, budget, last_err, result, wire, errs>>
vars == <<call, bound>>

-------------------------------------------------------------------------------
(* The lengths the code writes in the headers: u16 arithmetic. *)

MAX_UDP_PAYLOAD == u16_max - 20 - 8

udp_len(len)      == (8 + len) % (u16_max + 1)
total_length(len) == (20 + udp_len(len)) % (u16_max + 1)

Packet == [src_port : 0 .. u16_max, udp_len : 0 .. u16_max,
           total_length : 0 .. u16_max]

datagram(p) == [src_port     |-> src_port[p],
                udp_len      |-> udp_len(req[p].len),
                total_length |-> total_length(req[p].len)]

(* pick_ephemeral_port draws from the IANA dynamic range, not from what the
   kernel has free. *)
pick_ephemeral_port == Port \cap 49152 .. u16_max

(* unwrap_or_else(pick_ephemeral_port) / unwrap_or(0). *)
Pinned(p) == req[p].src_port # 0

-------------------------------------------------------------------------------
(* The kernel. *)

(* The errnos socket(SOCK_RAW) may answer. *)
OpenFailures(p) == IF p \in CapNetRaw THEN OpenErrno ELSE Denials

MayBind(p, port) == port > 1023 \/ p \in CapNetBind

(* The ports bind(port) may give. *)
BindAnswers(p, port) ==
    {q \in (IF port = 0 THEN Ephemeral ELSE {port}) :
        bound[q] = Free /\ MayBind(p, q)}

(* The errnos it may answer: a privileged port is refused before a port in
   use is; resources may run out, or a policy may deny any port. *)
BindFailures(p, port) ==
    OpenErrno \cup {"EACCES"}
              \cup (CASE BindAnswers(p, port) # {}             -> {}
                      [] port # 0 /\ ~MayBind(p, port)         -> {}
                      [] OTHER                                 -> {"EADDRINUSE"})

(* A datagram with DF set must fit the path; any other is fragmented, so it
   must only fit a datagram.  One that does not fit is never sent. *)
TooBig(p) == IF req[p].raw THEN req[p].len + 28 > PathMtu[req[p].dst]
                           ELSE req[p].len > MAX_UDP_PAYLOAD

Errno == SendErrno \cup {"EMSGSIZE"}

(* One too large may fail for another reason first, at each attempt anew. *)
SendFailures(p) == SendErrno \cup (IF TooBig(p) THEN {"EMSGSIZE"} ELSE {})

-------------------------------------------------------------------------------
Init ==
    /\ pc       = [p \in Proc |-> "idle"]
    /\ req      \in [Proc -> Requests]
    /\ sock     = [p \in Proc |-> "none"]
    /\ src_port = [p \in Proc |-> 0]
    /\ budget   = [p \in Proc |-> 0]
    /\ last_err = [p \in Proc |-> "none"]
    /\ result   = [p \in Proc |-> "none"]
    /\ wire     = [p \in Proc |-> << >>]
    /\ errs     = [p \in Proc |-> << >>]
    /\ bound    \in [Port -> {Free, Foreign}]

(* The return of a call that never got its socket. *)
ReturnError(p, e) ==
    /\ result' = [result EXCEPT ![p] = e]
    /\ pc'     = [pc EXCEPT ![p] = "done"]

(* run(): the match on src_addr_v4(). *)
Call(p) ==
    /\ pc[p] = "idle"
    /\ pc' = [pc EXCEPT ![p] = IF req[p].raw THEN "open" ELSE "bind"]
    /\ UNCHANGED <<req, sock, src_port, budget, last_err, result, wire, errs, bound>>

(* Seeded fault: a platform without raw sockets is taken for a denial. *)
RawUnsupportedAsDenied(p) ==
    /\ pc[p] = "open" /\ ~RawSupported
    /\ ReturnError(p, "RawSocketDenied")
    /\ UNCHANGED <<req, sock, src_port, budget, last_err, wire, errs, bound>>

(* send_spoofed on a platform without raw IPv4 sockets. *)
RawUnsupported(p) ==
    /\ pc[p] = "open" /\ ~RawSupported
    /\ ReturnError(p, "Unsupported")
    /\ UNCHANGED <<req, sock, src_port, budget, last_err, wire, errs, bound>>

(* send_spoofed: the length check, before any system call. *)
RejectOversize(p) ==
    /\ pc[p] = "open" /\ RawSupported
    /\ req[p].len > MAX_UDP_PAYLOAD
    /\ ReturnError(p, "Other")
    /\ UNCHANGED <<req, sock, src_port, budget, last_err, wire, errs, bound>>

(* Seeded fault: the length is not checked first. *)
OpenRawAnySize(p) ==
    /\ pc[p] = "open" /\ p \in CapNetRaw
    /\ sock' = [sock EXCEPT ![p] = "raw"]
    /\ pc'   = [pc EXCEPT ![p] = "hdrincl"]
    /\ UNCHANGED <<req, src_port, budget, last_err, result, wire, errs, bound>>

(* send_spoofed: Socket::new. *)
OpenRaw(p) ==
    /\ pc[p] = "open" /\ RawSupported
    /\ req[p].len <= MAX_UDP_PAYLOAD
    /\ \/ /\ p \in CapNetRaw
          /\ sock' = [sock EXCEPT ![p] = "raw"]
          /\ pc'   = [pc EXCEPT ![p] = "hdrincl"]
          /\ UNCHANGED result
       \/ /\ \E e \in OpenFailures(p) : ReturnError(p, classify_raw_open(e))
          /\ UNCHANGED sock
    /\ UNCHANGED <<req, src_port, budget, last_err, wire, errs, bound>>

(* Seeded fault: one attempt too many. *)
StartLoopOffByOne(p, port) ==
    /\ src_port' = [src_port EXCEPT ![p] = port]
    /\ budget'   = [budget EXCEPT ![p] = req[p].retries + 2]
    /\ pc'       = [pc EXCEPT ![p] = "loop"]

(* Both transports: the loop starts with retries + 1 attempts. *)
StartLoop(p, port) ==
    /\ src_port' = [src_port EXCEPT ![p] = port]
    /\ budget'   = [budget EXCEPT ![p] = req[p].retries + 1]
    /\ pc'       = [pc EXCEPT ![p] = "loop"]

(* send_spoofed: set_header_included_v4, then the choice of the source port
   and the one UDP datagram every attempt sends. *)
SetHeaderIncluded(p) ==
    /\ pc[p] = "hdrincl"
    /\ \/ /\ \E port \in IF Pinned(p) THEN {req[p].src_port} ELSE pick_ephemeral_port :
                 StartLoop(p, port)
          /\ UNCHANGED result
       \/ /\ \E e \in OpenErrno :
                 result' = [result EXCEPT ![p] = classify_raw_open(e)]
          /\ pc' = [pc EXCEPT ![p] = "close"]
          /\ UNCHANGED <<src_port, budget>>
    /\ UNCHANGED <<req, sock, last_err, wire, errs, bound>>

(* send: UdpSocket::bind. *)
Bind(p) ==
    /\ pc[p] = "bind"
    /\ \/ \E port \in BindAnswers(p, req[p].src_port) :
             /\ StartLoop(p, port)
             /\ bound' = [bound EXCEPT ![port] = p]
             /\ sock'  = [sock EXCEPT ![p] = "udp"]
             /\ UNCHANGED result
       \/ /\ \E e \in BindFailures(p, req[p].src_port) :
                 ReturnError(p, classify_bind_io(e, req[p].src_port))
          /\ UNCHANGED <<sock, src_port, budget, bound>>
    /\ UNCHANGED <<req, last_err, wire, errs>>

(* Seeded fault: the loop test also lets a spent budget pass. *)
AttemptSpent(p) ==
    /\ pc[p] = "loop" /\ budget[p] >= 0
    /\ pc' = [pc EXCEPT ![p] = "sending"]
    /\ UNCHANGED <<req, sock, src_port, budget, last_err, result, wire, errs, bound>>

(* Seeded fault: the source port is drawn again for each attempt. *)
AttemptFromNewPort(p) ==
    /\ pc[p] = "loop" /\ budget[p] > 0
    /\ pc' = [pc EXCEPT ![p] = "sending"]
    /\ IF Pinned(p) THEN UNCHANGED src_port
       ELSE \E port \in pick_ephemeral_port : src_port' = [src_port EXCEPT ![p] = port]
    /\ UNCHANGED <<req, sock, budget, last_err, result, wire, errs, bound>>

(* The loop test, and send_to handed to the kernel. *)
Attempt(p) ==
    /\ pc[p] = "loop" /\ budget[p] > 0
    /\ pc' = [pc EXCEPT ![p] = "sending"]
    /\ UNCHANGED <<req, sock, src_port, budget, last_err, result, wire, errs, bound>>

Emit(p) == wire' = [wire EXCEPT ![p] = Append(@, datagram(p))]

(* send_to answers Ok: return at once. *)
SendOk(p) ==
    /\ pc[p] = "sending" /\ ~TooBig(p)
    /\ Emit(p)
    /\ result' = [result EXCEPT ![p] = "Ok"]
    /\ pc'     = [pc EXCEPT ![p] = "close"]
    /\ UNCHANGED <<req, sock, src_port, budget, last_err, errs, bound>>

(* send_to answers EINTR, before anything was sent: `continue`, and the
   budget stays as it is. *)
SendInterrupted(p) ==
    /\ pc[p] = "sending"
    /\ pc' = [pc EXCEPT ![p] = "loop"]
    /\ UNCHANGED <<req, sock, src_port, budget, last_err, result, wire, errs, bound>>

(* Seeded fault: the first error is kept, not the last. *)
SendErrorKeepsFirst(p) ==
    /\ pc[p] = "sending"
    /\ \E e \in SendFailures(p) :
           /\ last_err' = [last_err EXCEPT ![p] = IF @ = "none" THEN e ELSE @]
           /\ errs'     = [errs EXCEPT ![p] = Append(@, e)]
    /\ budget' = [budget EXCEPT ![p] = @ - 1]
    /\ pc'     = [pc EXCEPT ![p] = "loop"]
    /\ UNCHANGED <<req, sock, src_port, result, wire, bound>>

(* Seeded fault: a full send buffer is tried again like an interruption. *)
SendErrorRetriesFree(p) ==
    /\ pc[p] = "sending"
    /\ pc' = [pc EXCEPT ![p] = "loop"]
    /\ \E e \in SendFailures(p) :
           IF e = "ENOBUFS" THEN UNCHANGED <<last_err, errs, budget>>
           ELSE /\ last_err' = [last_err EXCEPT ![p] = e]
                /\ errs'     = [errs EXCEPT ![p] = Append(@, e)]
                /\ budget'   = [budget EXCEPT ![p] = @ - 1]
    /\ UNCHANGED <<req, sock, src_port, result, wire, bound>>

(* Seeded fault: a failed attempt does not count. *)
SendErrorUncounted(p) ==
    /\ pc[p] = "sending"
    /\ \E e \in SendFailures(p) :
           /\ last_err' = [last_err EXCEPT ![p] = e]
           /\ errs'     = [errs EXCEPT ![p] = Append(@, e)]
    /\ pc' = [pc EXCEPT ![p] = "loop"]
    /\ UNCHANGED <<req, sock, src_port, budget, result, wire, bound>>

(* send_to answers another error.  The datagram "actually got out" all the
   same, or it did not; one refused for its size did not. *)
SendError(p) ==
    /\ pc[p] = "sending"
    /\ \E e \in SendFailures(p) :
           /\ last_err' = [last_err EXCEPT ![p] = e]
           /\ errs'     = [errs EXCEPT ![p] = Append(@, e)]
    /\ \/ ~TooBig(p) /\ Emit(p)
       \/ UNCHANGED wire
    /\ budget' = [budget EXCEPT ![p] = @ - 1]
    /\ pc'     = [pc EXCEPT ![p] = "loop"]
    /\ UNCHANGED <<req, sock, src_port, result, bound>>

SendClass(p, errno) ==
    IF req[p].raw THEN classify_raw_send(errno) ELSE map_send_io(errno)

(* The loop test fails: the last error is classified. *)
GiveUp(p) ==
    /\ pc[p] = "loop" /\ budget[p] <= 0
    /\ result' = [result EXCEPT ![p] = SendClass(p, last_err[p])]
    /\ pc'     = [pc EXCEPT ![p] = "close"]
    /\ UNCHANGED <<req, sock, src_port, budget, last_err, wire, errs, bound>>

(* Seeded fault: the socket is forgotten, and its port stays taken. *)
CloseLeaks(p) ==
    /\ pc[p] = "close"
    /\ sock' = [sock EXCEPT ![p] = "none"]
    /\ pc'   = [pc EXCEPT ![p] = "done"]
    /\ UNCHANGED <<req, src_port, budget, last_err, result, wire, errs, bound>>

(* The socket is dropped on the way out, which frees its port. *)
Close(p) ==
    /\ pc[p] = "close"
    /\ sock'  = [sock EXCEPT ![p] = "none"]
    /\ bound' = [q \in Port |-> IF bound[q] = p THEN Free ELSE bound[q]]
    /\ pc'    = [pc EXCEPT ![p] = "done"]
    /\ UNCHANGED <<req, src_port, budget, last_err, result, wire, errs>>

(* Other programs bind and release ports at any time. *)
ForeignPort ==
    /\ \E q \in Port :
           \/ bound[q] = Free    /\ bound' = [bound EXCEPT ![q] = Foreign]
           \/ bound[q] = Foreign /\ bound' = [bound EXCEPT ![q] = Free]
    /\ UNCHANGED call

Answer(p) == SendOk(p) \/ SendError(p)

(* What an invocation does by itself once it is called. *)
Run(p) ==
    \/ RawUnsupported(p) \/ RejectOversize(p) \/ OpenRaw(p) \/ SetHeaderIncluded(p)
    \/ Bind(p) \/ Attempt(p) \/ GiveUp(p) \/ Close(p)

Step(p) == Run(p) \/ Answer(p) \/ SendInterrupted(p)

Next == (\E p \in Proc : Call(p) \/ Step(p)) \/ ForeignPort

Spec == Init /\ [][Next]_vars

-------------------------------------------------------------------------------
(* Properties. *)

SetupErrors == ErrorClass \ {"Encode"}

(* raw.rs:131-184, unprivileged.rs:8-34: what a call holds at each place of the
   function.  Whoever else has ports, the kernel's table is of them all. *)
CallTypes ==
    /\ pc \in [Proc -> {"idle", "open", "hdrincl", "bind", "loop", "sending",
                         "close", "done"}]
    /\ req \in [Proc -> Requests]
    /\ sock \in [Proc -> {"none", "raw", "udp"}]
    /\ src_port \in [Proc -> Port \cup {0}]
    /\ budget \in [Proc -> 0 .. u8_max + 1]
    /\ last_err \in [Proc -> Errno \cup {"none"}]
    /\ result \in [Proc -> {"none", "Ok"} \cup SetupErrors]
    /\ wire \in [Proc -> Seq(Packet)]
    /\ errs \in [Proc -> Seq(Errno)]
    /\ bound = [q \in Port |-> bound[q]]

TypeOK == CallTypes /\ bound \in [Port -> Proc \cup {Free, Foreign}]

Accepted(p) == IF result[p] = "Ok" THEN 1 ELSE 0

(* A trap is duplicated at most as often as --retries allows: an attempt puts
   at most one datagram on the wire, EINTR puts none, and a call that
   succeeded stopped at its first success. (send_spoofed, send: the loop.) *)
CopiesWithinBudget ==
    \A p \in Proc :
        /\ Len(wire[p]) <= req[p].retries + 1
        /\ Len(wire[p]) <= Len(errs[p]) + Accepted(p)
        /\ result[p] = "Ok" => /\ wire[p] # << >>
                               /\ Len(errs[p]) <= req[p].retries

(* Every copy is the same UDP datagram, from the port that was asked for, so a
   receiver can tell a retransmission from a second trap. (send_spoofed builds
   the datagram before the loop; send keeps its bound port.) *)
CopiesIdentical ==
    \A p \in Proc : \A i \in DOMAIN wire[p] :
        /\ wire[p][i].src_port = wire[p][1].src_port
        /\ Pinned(p) => wire[p][i].src_port = req[p].src_port

(* The lengths in the headers of every datagram are those of the datagram:
   their u16 arithmetic never wraps. (build_ipv4_header, build_udp_datagram
   and the check against MAX_UDP_PAYLOAD.) *)
LengthsExact ==
    \A p \in Proc : \A i \in DOMAIN wire[p] :
        /\ wire[p][i].udp_len = req[p].len + 8
        /\ wire[p][i].total_length = req[p].len + 28

(* The setcap recipe is shown when, and only when, a spoofed send lacks the
   capability; a denial of a later send is no reason to show it.
   (classify_raw_open against classify_raw_send.) *)
CapabilityVerdict ==
    \A p \in Proc : pc[p] = "done" =>
        (result[p] = "RawSocketDenied"
            <=> /\ RawSupported
                /\ req[p].raw /\ req[p].len <= MAX_UDP_PAYLOAD
                /\ p \notin CapNetRaw)

(* A payload is blamed on the MTU only when it is too large for the path, and
   then no part of it was sent. (classify_raw_send.) *)
MtuVerdict ==
    \A p \in Proc : result[p] = "PayloadExceedsMtu" =>
        /\ req[p].raw /\ req[p].len + 28 > PathMtu[req[p].dst]
        /\ wire[p] = << >>

(* An error of the network is returned only when every attempt allowed was made
   and failed, and it is the class of the last failure, not of an earlier one;
   the "failed without an OS error" of the code is never the answer.
   (send_spoofed, send: after the loop.) *)
LastErrorDecides ==
    \A p \in Proc : result[p] \notin {"none", "Ok"} /\ src_port[p] # 0 =>
        /\ Len(errs[p]) = req[p].retries + 1
        /\ result[p] = SendClass(p, errs[p][Len(errs[p])])

(* A port is held by at most the call that bound it, for as long as its socket
   lives: the invocations that come after find it free. (The drop of the
   UdpSocket.) *)
PortsReleased ==
    /\ \A q \in Port : bound[q] \in Proc =>
           /\ sock[bound[q]] = "udp" /\ src_port[bound[q]] = q
           /\ pc[bound[q]] \in {"loop", "sending", "close"}
    /\ \A p \in Proc : pc[p] = "done" => sock[p] = "none"

(* Exit code 2 blames the command line, and only bind may do so: the port is a
   privileged one, or another holder, itself still at work, has it at that
   very moment; without a pinned port, every ephemeral port is so held.
   (classify_bind_io.) *)
HeldByOther(p, q) ==
    \/ bound[q] = Foreign
    \/ bound[q] \in Proc \ {p} /\ pc[bound[q]] # "done"

UsageBlamesPort ==
    [][\A p \in Proc : result[p] = "none" /\ result'[p] = "Usage" =>
           \/ req[p].src_port \in 1 .. 1023
           \/ Pinned(p)  /\ HeldByOther(p, req[p].src_port)
           \/ ~Pinned(p) /\ \A q \in Ephemeral : HeldByOther(p, q)]_vars

(* The verdict is final, and nothing is sent after it. (send_to's Ok returns
   at once; the errors return.) *)
VerdictFinal ==
    [][\A p \in Proc : result[p] # "none" =>
           result'[p] = result[p] /\ wire'[p] = wire[p]]_vars

(* The inductive invariant behind the safety properties above. *)

(* Where the call is tells which socket it has and whether it has a verdict. *)
PhaseInv(p) ==
    /\ pc[p] \in {"idle", "open", "hdrincl", "bind"} => src_port[p] = 0
    /\ pc[p] \in {"loop", "sending"} => src_port[p] # 0
    /\ pc[p] \in {"close", "done"} <=> result[p] # "none"
    /\ pc[p] \in {"idle", "open", "bind", "done"} => sock[p] = "none"
    /\ pc[p] = "sending" => budget[p] > 0

(* The source port is chosen once, and nothing is tried before it is. *)
PortInv(p) ==
    /\ src_port[p] = 0 => errs[p] = << >> /\ wire[p] = << >> /\ result[p] # "Ok"
    /\ src_port[p] # 0 /\ Pinned(p) => src_port[p] = req[p].src_port
    /\ \A i \in DOMAIN wire[p] : wire[p][i] = datagram(p)

(* Budget spent and failures seen add up to what --retries allows. *)
BudgetInv(p) ==
    /\ src_port[p] # 0 => budget[p] + Len(errs[p]) = req[p].retries + 1
    /\ last_err[p] = IF errs[p] = << >> THEN "none" ELSE errs[p][Len(errs[p])]
    /\ Len(wire[p]) <= Len(errs[p]) + Accepted(p)
    /\ result[p] = "Ok" => wire[p] # << >> /\ budget[p] > 0
    /\ result[p] \notin {"none", "Ok"} /\ src_port[p] # 0 =>
           /\ budget[p] = 0
           /\ result[p] = SendClass(p, last_err[p])

(* What the size check and the kernel let through. *)
SizeInv(p) ==
    /\ pc[p] \in {"open", "hdrincl"} => req[p].raw
    /\ pc[p] = "bind" => ~req[p].raw
    /\ pc[p] = "hdrincl" => req[p].len <= MAX_UDP_PAYLOAD
    /\ req[p].raw /\ src_port[p] # 0 => req[p].len <= MAX_UDP_PAYLOAD
    /\ wire[p] # << >> => ~TooBig(p)
    /\ last_err[p] = "EMSGSIZE" => TooBig(p)

(* A port held by an invocation is the source port of its live UDP socket. *)
HolderInv(q) ==
    bound[q] \in Proc =>
        /\ sock[bound[q]] = "udp" /\ src_port[bound[q]] = q
        /\ pc[bound[q]] \in {"loop", "sending", "close"}

CallInv == /\ \A p \in Proc : PhaseInv(p) /\ PortInv(p) /\ BudgetInv(p) /\ SizeInv(p)
           /\ \A q \in Port : HolderInv(q)

(* The transports implement the promise of TrapSend. *)
Failed(p) == pc[p] # "idle" /\ result[p] \notin {"none", "Ok"}

Status(p) ==
    CASE pc[p] = "idle"                          -> "idle"
      [] pc[p] # "idle" /\ result[p] = "none"    -> "trying"
      [] pc[p] # "idle" /\ result[p] = "Ok"      -> "sent"
      [] Failed(p) /\ src_port[p] = 0            -> "refused"
      [] Failed(p) /\ src_port[p] # 0            -> "gave up"

Allowed(p) == IF pc[p] = "idle" THEN 0 ELSE req[p].retries + 1

Abstract == INSTANCE TrapSend WITH
    Limit  <- 1 .. u8_max + 1,
    status <- [p \in Proc |-> Status(p)],
    limit  <- [p \in Proc |-> Allowed(p)],
    failed <- [p \in Proc |-> Len(errs[p])],
    copies <- [p \in Proc |-> Len(wire[p])]

ImplementsTrapSend == Abstract!Spec
===============================================================================
