------------------------------- MODULE Checksum --------------------------------
(***************************************************************************)
(* src/transport/raw.rs: the two headers of a spoofed datagram and the     *)
(* Internet checksum in each.  The kernel adds neither to what a raw       *)
(* socket sends, so a wrong sum loses the trap at the receiver, silently.  *)
(*                                                                         *)
(* A byte has BASE values (256 in the code), so that TLC sees the carries  *)
(* and the wrap of the accumulator on short datagrams; the proofs are for  *)
(* every BASE.                                                             *)
(***************************************************************************)
EXTENDS Integers, Sequences

CONSTANTS
    BASE,           \* the values of a byte
    VERSION_IHL,    \* (4 << 4) | 5
    TTL,            \* 64
    UDP,            \* 17
    Requests        \* the packets to build

WORD == BASE * BASE

Byte == 0 .. BASE - 1
Word == 0 .. WORD - 1

Octets == {s \in Seq(Byte) : Len(s) = 4}

ASSUME BaseAssumption == /\ BASE \in Nat /\ BASE >= 2
                         /\ {VERSION_IHL, TTL, UDP} \subseteq Byte
(* send_spoofed has refused a payload larger than MAX_UDP_PAYLOAD. *)
ASSUME RequestsAssumption == \A r \in Requests :
    /\ r \in [header : {"ip", "udp"}, src : Octets, dst : Octets, src_port : Word,
              dst_port : Word, identification : Word, payload : Seq(Byte)]
    /\ Len(r.payload) <= WORD - 1 - 20 - 8

VARIABLES
    req,        \* the packet, and which of its headers is being built
    pc,         \* "add", "fold", "done"
    i, sum,     \* the locals of ip_checksum
    out,        \* the bytes written, << >> until the checksum is known
    exact,      \* history: the sum of what was added, in unbounded integers
    carries     \* history: how much was folded back into the low word

vars == <<req, pc, i, sum, out, exact, carries>>
-------------------------------------------------------------------------------
(* The layouts. *)

be_bytes(w) == <<w \div BASE, w % BASE>>

udp_len(r) == (8 + Len(r.payload)) % WORD

(* build_ipv4_header, with csum in its checksum field. *)
ipv4_header(r, csum) ==
    <<VERSION_IHL, 0>> \o be_bytes((20 + udp_len(r)) % WORD)
        \o be_bytes(r.identification)
        \o be_bytes(WORD \div 4)                \* DF
        \o <<TTL, UDP>> \o be_bytes(csum) \o r.src \o r.dst

(* What build_udp_datagram puts on the wire, and what it sums before it. *)
datagram(r, csum) ==
    be_bytes(r.src_port) \o be_bytes(r.dst_port) \o be_bytes(udp_len(r))
        \o be_bytes(csum) \o r.payload

pseudo_header(r, len) == r.src \o r.dst \o <<0, UDP>> \o be_bytes(len)

header(r, csum) == IF r.header = "ip" THEN ipv4_header(r, csum) ELSE datagram(r, csum)

(* Seeded fault: a datagram is summed without its pseudo-header. *)
data_without_pseudo(r) == header(r, 0)

(* The argument of ip_checksum: the checksum field is a placeholder. *)
data(r) == IF r.header = "ip" THEN ipv4_header(r, 0)
           ELSE pseudo_header(r, udp_len(r)) \o datagram(r, 0)

-------------------------------------------------------------------------------
Init ==
    /\ req \in Requests
    /\ pc = "add" /\ i = 0 /\ sum = 0
    /\ out = << >>
    /\ exact = 0 /\ carries = 0

(* u32: twice the width of a word. *)
wrapping_add(a, b) == (a + b) % (WORD * WORD)

(* Seeded fault: the accumulator is as narrow as a word. *)
AddNarrow(w) == sum' = (sum + w) % WORD /\ exact' = exact + w

Add(w) == sum' = wrapping_add(sum, w) /\ exact' = exact + w

WordAt(k) == BASE * data(req)[k + 1] + data(req)[k + 2]

(* while i + 1 < data.len() *)
AddWord ==
    /\ pc = "add" /\ i + 1 < Len(data(req))
    /\ Add(WordAt(i))
    /\ i' = i + 2
    /\ UNCHANGED <<req, pc, out, carries>>

(* if i < data.len(): the odd byte is the high half of a word. *)
AddLast ==
    /\ pc = "add" /\ i + 1 >= Len(data(req))
    /\ \/ i < Len(data(req)) /\ Add(BASE * data(req)[i + 1])
       \/ i = Len(data(req)) /\ UNCHANGED <<sum, exact>>
    /\ pc' = "fold"
    /\ UNCHANGED <<req, i, out, carries>>

(* Seeded fault: a word that is full counts as a carry. *)
CarryWhenFull(s) == s >= WORD - 1

(* (sum >> 16) != 0 *)
Carry(s) == s \div WORD # 0

Fold ==
    /\ pc = "fold" /\ Carry(sum)
    /\ sum' = (sum % WORD) + (sum \div WORD)
    /\ carries' = carries + (sum \div WORD)
    /\ UNCHANGED <<req, pc, i, out, exact>>

(* !(sum as u16) *)
complement == WORD - 1 - (sum % WORD)

(* Seeded fault: the zero of a UDP checksum is sent as it is. *)
csum_unmapped(r) == complement

(* RFC 768: a zero in the UDP field would say "no checksum". *)
csum(r) == IF r.header = "udp" /\ complement = 0 THEN WORD - 1 ELSE complement

Finish ==
    /\ pc = "fold" /\ ~Carry(sum)
    /\ out' = header(req, csum(req))
    /\ pc' = "done"
    /\ UNCHANGED <<req, i, sum, exact, carries>>

Next == AddWord \/ AddLast \/ Fold \/ Finish

Spec == Init /\ [][Next]_vars

(* A sequential function: it runs. *)
FairSpec == Spec /\ WF_vars(Next)
-------------------------------------------------------------------------------
(* Properties. *)

(* What the variables hold: ip_checksum stays within its message, its
   accumulator is a u32, and what is written is bytes (raw.rs:14-29). *)
TypeOK ==
    /\ req \in Requests
    /\ pc \in {"add", "fold", "done"}
    /\ i \in 0 .. Len(data(req))
    /\ sum \in 0 .. WORD * WORD - 1
    /\ exact \in Nat /\ carries \in Nat
    /\ out = << >> \/ out \in Seq(Byte)

(* The receiver's own sum, in integers: words of big-endian pairs, an odd
   byte padded with a zero. *)
ByteAt(s, k) == IF k <= Len(s) THEN s[k] ELSE 0

(* Its n-th word, and the sums of the first n words. *)
WordIn(s, n) == BASE * ByteAt(s, 2 * n - 1) + ByteAt(s, 2 * n)

Words(s) == (Len(s) + 1) \div 2

PartialSums(s) ==
    LET Sum[n \in 0 .. Words(s)] == IF n = 0 THEN 0 ELSE Sum[n - 1] + WordIn(s, n)
    IN  Sum

WordSum(s) == PartialSums(s)[Words(s)]

(* What it sums: it takes the addresses from the IP header and the length
   from the datagram it got. *)
Received == IF req.header = "ip" THEN out ELSE pseudo_header(req, Len(out)) \o out

(* raw.rs:14 "One's-complement Internet checksum (RFC 1071)": the receiver of
   either header finds minus zero, whatever the fields, the parity of the
   payload and the number of carries. *)
ReceiverAccepts ==
    pc = "done" => WordSum(Received) > 0 /\ WordSum(Received) % (WORD - 1) = 0

(* raw.rs:114 "a computed-zero checksum is transmitted as all-ones": the field
   of a datagram never says that it has no checksum. *)
NeverUnchecked ==
    pc = "done" /\ req.header = "udp" => out[7] # 0 \/ out[8] # 0

(* raw.rs:20 wrapping_add: no datagram the size check lets through makes the
   accumulator wrap, and no fold loses a carry. *)
NothingLost == exact = sum + carries * (WORD - 1)

(* The sum and its field make a multiple of WORD - 1: what the receiver's
   test comes down to, as the field takes the place of a zero word. *)
FieldCompletes ==
    pc = "done" => \E k \in 1 .. carries + 2 : exact + csum(req) = k * (WORD - 1)

(* The loop has added the words before i, and all of them when it ends. *)
Progress ==
    IF pc = "add"
    THEN \E m \in 0 .. Words(data(req)) :
             i = 2 * m /\ exact = PartialSums(data(req))[m]
    ELSE exact = WordSum(data(req))

(* raw.rs:25 `while (sum >> 16) != 0`: the folding ends. *)
FoldingEnds == <>(pc = "done")
================================================================================
