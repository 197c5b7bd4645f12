-------------------------------- MODULE TrapPdu --------------------------------
(***************************************************************************)
(* From the positional arguments to the variable bindings of a trap: the   *)
(* build_*_payload functions of src/lib.rs, src/varbind.rs and src/pdu.rs. *)
(* Arguments are parsed from left to right, and the first that is not      *)
(* well formed ends the run; what SNMPv1 cannot carry is found when the    *)
(* PDU is built, after all of them were parsed.                            *)
(*                                                                         *)
(* An argument is the readings its text has: a field is << >> where the    *)
(* text has no such reading.  An OID is what the dots separate, with EMPTY *)
(* for nothing and GARBAGE for what is no number.  Numbers are scaled.     *)
(***************************************************************************)
EXTENDS Integers, Sequences, FiniteSets, SequencesExt

CONSTANTS
    Commands,           \* the command lines: a version and its arguments
    I32, U32, U64,      \* the values of the integer types
    MAX_BIT_POSITION,   \* 65535, a U32
    HostUptimes         \* what the host's uptime may be, in U32

EMPTY   == -1
GARBAGE == -2

Ok(v) == <<v>>
Err   == << >>

VARIABLES
    cmd,        \* the command line
    pc,         \* "head", "count", "triplets", "reserved", "build", "end"
    head,       \* the positional arguments parsed so far
    varbinds,   \* the (OID, value) pairs parsed so far
    bindings,   \* the variable bindings built so far
    outcome     \* "none", "Ok" or the class of the error

vars == <<cmd, pc, head, varbinds, bindings, outcome>>
-------------------------------------------------------------------------------
(* varbind.rs. *)

SYS_UPTIME_OID            == <<1, 3, 6, 1, 2, 1, 1, 3, 0>>
SNMP_TRAP_OID_OID         == <<1, 3, 6, 1, 6, 3, 1, 1, 4, 1, 0>>
DEFAULT_V1_ENTERPRISE_OID == <<1, 3, 6, 1, 4, 1, 3, 1, 1>>

(* trim_start_matches('.'): at least one token is left. *)
Trimmed(text) ==
    LET k == CHOOSE k \in DOMAIN text :
                 /\ text[k] # EMPTY \/ k = Len(text)
                 /\ \A j \in 1 .. k - 1 : text[j] = EMPTY
    IN  SubSeq(text, k, Len(text))

(* Seeded fault: a second arc of 40 passes under a first arc of 0 or 1. *)
parse_oid_40(text) ==
    LET arcs == Trimmed(text)
    IN  IF /\ \A k \in DOMAIN arcs : arcs[k] \in U32
           /\ Len(arcs) >= 2
           /\ arcs[1] <= 2 /\ (arcs[1] < 2 => arcs[2] <= 40)
        THEN Ok(arcs) ELSE Err

parse_oid(text) ==
    LET arcs == Trimmed(text)
    IN  IF /\ \A k \in DOMAIN arcs : arcs[k] \in U32
           /\ Len(arcs) >= 2
           /\ arcs[1] <= 2 /\ (arcs[1] < 2 => arcs[2] < 40)
        THEN Ok(arcs) ELSE Err

(* A byte is the set of its bits, 7 the most significant; bit tells where each
   of eight positions goes. *)
Packed(positions, bit) ==
    [k \in 1 .. Max(positions) \div 8 + 1 |->
        {bit[p % 8] : p \in {p \in positions : p \div 8 = k - 1}}]

(* Seeded fault: bit 0 of a byte for the first position. *)
parse_bits_lsb(positions) ==
    CASE positions = {}                                            -> Ok(<< >>)
      [] positions # {} /\ Max(positions) > MAX_BIT_POSITION       -> Err
      [] positions # {} /\ Max(positions) <= MAX_BIT_POSITION      ->
             Ok(Packed(positions, [p \in 0 .. 7 |-> p]))

(* parse_bits; the positions are u32, and may be none. *)
parse_bits(positions) ==
    CASE positions = {}                                            -> Ok(<< >>)
      [] positions # {} /\ Max(positions) > MAX_BIT_POSITION       -> Err
      [] positions # {} /\ Max(positions) <= MAX_BIT_POSITION      ->
             Ok(Packed(positions, [p \in 0 .. 7 |-> 7 - p]))

Number(type, reading, range) ==
    IF reading # Err /\ reading[1] \in range THEN Ok(<<type, reading[1]>>) ELSE Err

Typed(type, reading) == IF reading = Err THEN Err ELSE Ok(<<type, reading[1]>>)

(* parse_typed_value; any other letter is an error too. *)
parse_typed_value(letter, raw) ==
    CASE letter = "i" -> Number("Integer", raw.num, I32)
      [] letter = "u" -> Number("Unsigned32", raw.num, U32)
      [] letter = "t" -> Number("TimeTicks", raw.num, U32)
      [] letter = "U" -> Number("Counter64", raw.num, U64)
      [] letter = "a" -> Typed("IpAddress", raw.addr)
      [] letter = "o" -> Typed("ObjectId", parse_oid(raw.oid))
      [] letter = "s" -> Ok(<<"OctetString", raw.text>>)
      [] letter = "x" -> Typed("OctetString", raw.hex)
      [] letter = "n" -> Ok(<<"Null">>)
      [] letter = "b" -> IF raw.bits # Err /\ raw.bits[1] \subseteq U32
                         THEN Typed("Bits", parse_bits(raw.bits[1])) ELSE Err
      [] OTHER        -> Err

-------------------------------------------------------------------------------
(* pdu.rs: the syntax of each value.  X.690 packs the first two arcs into one
   number. *)

BerOid(arcs) == <<40 * arcs[1] + arcs[2]>> \o SubSeq(arcs, 3, Len(arcs))

Syntax == [Integer |-> "INTEGER", Unsigned32 |-> "Gauge32", TimeTicks |-> "TimeTicks",
           IpAddress |-> "IpAddress", ObjectId |-> "OBJECT IDENTIFIER",
           OctetString |-> "OCTET STRING", Null |-> "NULL", Bits |-> "OCTET STRING",
           Counter64 |-> "Counter64"]

Binding(oid, v) ==
    [name   |-> BerOid(oid),
     syntax |-> Syntax[v[1]],
     value  |-> CASE v[1] = "Null"                   -> << >>
                  [] v[1] = "ObjectId"               -> BerOid(v[2])
                  [] v[1] \notin {"Null", "ObjectId"} -> v[2]]

SmiV2Only == {"Bits", "Counter64"}

-------------------------------------------------------------------------------
(* lib.rs. *)

(* The positional arguments before the triplets. *)
Positionals(version) ==
    IF version = "v1" THEN <<"enterprise", "agent", "generic", "specific", "uptime">>
    ELSE <<"uptime", "trap_oid">>

Empty(raw) == raw.text = << >>

Within(reading, range) ==
    IF reading # Err /\ reading[1] \in range THEN reading ELSE Err

(* An agent address or an uptime that is left empty is looked up on the host. *)
LookedUp(name, raw) == name \in {"agent", "uptime"} /\ Empty(raw)

(* What the parser of each, or the host, may answer; nothing is an error. *)
Answers(name, raw) ==
    CASE name = "enterprise" -> IF Empty(raw) THEN {DEFAULT_V1_ENTERPRISE_OID}
                                ELSE ToSet(parse_oid(raw.oid))
      [] name = "trap_oid"   -> ToSet(parse_oid(raw.oid))
      [] name = "agent"      -> IF Empty(raw) THEN {"host"} ELSE ToSet(raw.addr)
      [] name = "generic"    -> ToSet(Within(raw.num, I32 \cap 0 .. 6))
      [] name = "specific"   -> ToSet(Within(raw.num, I32 \cap Nat))
      [] name = "uptime"     -> IF Empty(raw) THEN HostUptimes
                                ELSE ToSet(Within(raw.num, U32))

Fields   == Positionals(cmd.version)
Trailing == SubSeq(cmd.args, Len(Fields) + 1, Len(cmd.args))
Value(name) == head[CHOOSE k \in DOMAIN Fields : Fields[k] = name]

Init ==
    /\ cmd \in Commands
    /\ pc = "head" /\ head = << >> /\ varbinds = << >> /\ bindings = << >>
    /\ outcome = "none"

Return(o) == pc' = "end" /\ outcome' = o

(* The minimum of arguments; v1 needs five, v2c and v3 two. *)
TooFew ==
    /\ pc = "head" /\ Len(cmd.args) < Len(Fields)
    /\ Return("Usage")
    /\ UNCHANGED <<cmd, head, varbinds, bindings>>

Positional ==
    /\ pc = "head" /\ Len(cmd.args) >= Len(Fields)
    /\ LET k    == Len(head) + 1
           name == Fields[k]
           raw  == cmd.args[k]
       IN  \/ /\ \E value \in Answers(name, raw) : head' = Append(head, value)
              /\ pc' = IF k = Len(Fields) THEN "count" ELSE "head"
              /\ UNCHANGED outcome
           \/ Answers(name, raw) = {} /\ Return("Usage") /\ UNCHANGED head
           \/ LookedUp(name, raw) /\ Return("Other") /\ UNCHANGED head
    /\ UNCHANGED <<cmd, varbinds, bindings>>

(* parse_trailing_varbinds: the triplets must come out even. *)
Count ==
    /\ pc = "count"
    /\ IF Len(Trailing) % 3 # 0 THEN Return("Usage")
       ELSE /\ pc' = IF Trailing = << >> THEN "reserved" ELSE "triplets"
            /\ UNCHANGED outcome
    /\ UNCHANGED <<cmd, head, varbinds, bindings>>

(* One triplet: the OID, the letter, then the value. *)
Triplet ==
    /\ pc = "triplets"
    /\ LET at  == 3 * Len(varbinds)
           oid == parse_oid(Trailing[at + 1].oid)
           val == parse_typed_value(Trailing[at + 2].letter, Trailing[at + 3])
       IN  IF oid = Err \/ val = Err
           THEN Return("Usage") /\ UNCHANGED varbinds
           ELSE /\ varbinds' = Append(varbinds, <<oid[1], val[1]>>)
                /\ pc' = IF at + 6 > Len(Trailing) THEN "reserved" ELSE "triplets"
                /\ UNCHANGED outcome
    /\ UNCHANGED <<cmd, head, bindings>>

(* Seeded fault: only the first of the trailing var-binds is compared. *)
ReservedFirst ==
    /\ pc = "reserved"
    /\ IF /\ cmd.version # "v1" /\ varbinds # << >>
          /\ varbinds[1][1] \in {SYS_UPTIME_OID, SNMP_TRAP_OID_OID}
       THEN Return("Usage")
       ELSE pc' = "build" /\ UNCHANGED outcome
    /\ UNCHANGED <<cmd, head, varbinds, bindings>>

(* v2c and v3: the two var-binds the PDU begins with may not be given again. *)
Reserved ==
    /\ pc = "reserved"
    /\ IF /\ cmd.version # "v1"
          /\ \E k \in DOMAIN varbinds :
                 varbinds[k][1] \in {SYS_UPTIME_OID, SNMP_TRAP_OID_OID}
       THEN Return("Usage")
       ELSE pc' = "build" /\ UNCHANGED outcome
    /\ UNCHANGED <<cmd, head, varbinds, bindings>>

(* The var-binds of the PDU, the two of v2c and v3 first. *)
ToBuild ==
    IF cmd.version = "v1" THEN varbinds
    ELSE <<<<SYS_UPTIME_OID, <<"TimeTicks", Value("uptime")>>>>,
           <<SNMP_TRAP_OID_OID, <<"ObjectId", Value("trap_oid")>>>>>> \o varbinds

(* make_v1_varbind, make_v2_varbind. *)
Build ==
    /\ pc = "build" /\ Len(bindings) < Len(ToBuild)
    /\ LET b == ToBuild[Len(bindings) + 1]
       IN  IF cmd.version = "v1" /\ b[2][1] \in SmiV2Only
           THEN Return("Encode") /\ UNCHANGED bindings
           ELSE /\ bindings' = Append(bindings, Binding(b[1], b[2]))
                /\ UNCHANGED <<pc, outcome>>
    /\ UNCHANGED <<cmd, head, varbinds>>

Encoded ==
    /\ pc = "build" /\ Len(bindings) = Len(ToBuild)
    /\ Return("Ok")
    /\ UNCHANGED <<cmd, head, varbinds, bindings>>

Next == TooFew \/ Positional \/ Count \/ Triplet \/ Reserved \/ Build \/ Encoded

Spec == Init /\ [][Next]_vars
-------------------------------------------------------------------------------
(* What a receiver reads. *)

(* X.690: a first number of 80 and more is an arc of 2. *)
ReadOid(ber) ==
    LET first == IF ber[1] >= 80 THEN 2 ELSE ber[1] \div 40
    IN  <<first, ber[1] - 40 * first>> \o Tail(ber)

(* RFC 2578 BITS: the first position is the most significant bit of the first
   byte, and no byte is there without a position in it or after it. *)
ReadBits(bytes) ==
    {p \in 0 .. 8 * Len(bytes) - 1 : 7 - (p % 8) \in bytes[p \div 8 + 1]}

-------------------------------------------------------------------------------
(* Properties. *)

(* The numbers of an argument that X.690 can carry and give back. *)
GoodOid(raw) ==
    LET arcs == Trimmed(raw.oid)
    IN  /\ Len(arcs) >= 2 /\ \A k \in DOMAIN arcs : arcs[k] \in U32
        /\ ReadOid(BerOid(arcs)) = arcs

GoodValue(letter, raw) ==
    /\ letter \in {"i", "u", "t", "U", "a", "o", "s", "x", "n", "b"}
    /\ CASE letter = "i"         -> Within(raw.num, I32) # Err
         [] letter \in {"u", "t"} -> Within(raw.num, U32) # Err
         [] letter = "U"         -> Within(raw.num, U64) # Err
         [] letter = "a"         -> raw.addr # Err
         [] letter = "o"         -> GoodOid(raw)
         [] letter = "x"         -> raw.hex # Err
         [] letter = "b"         -> /\ raw.bits # Err
                                    /\ raw.bits[1] \subseteq 0 .. MAX_BIT_POSITION
         [] letter \in {"s", "n"} -> TRUE

GoodTriplet(k) ==
    /\ GoodOid(Trailing[3 * k - 2])
    /\ GoodValue(Trailing[3 * k - 1].letter, Trailing[3 * k])

GoodTrailing ==
    /\ Len(Trailing) % 3 = 0
    /\ \A k \in 1 .. Len(Trailing) \div 3 : GoodTriplet(k)

(* The OIDs typed, wherever they stand, without their leading dots. *)
TypedOid(k) == Trimmed(Trailing[3 * k - 2].oid)

Duplicates ==
    \E k \in 1 .. Len(Trailing) \div 3 : TypedOid(k) \in {SYS_UPTIME_OID, SNMP_TRAP_OID_OID}

(* varbind.rs:97-100 "wire bytes that decode to a different OID than the user
   typed": a trap is built from the triplets exactly when each of them means
   something a receiver can read back, and the fault of the command line
   (status 2) is told before the limits of SNMPv1 (status 1), wherever either
   stands. *)
TripletsDecide ==
    pc = "end" /\ Len(head) = Len(Fields) =>
        /\ (outcome = "Usage") = (~GoodTrailing \/ (cmd.version # "v1" /\ Duplicates))
        /\ (outcome = "Encode") =
               /\ GoodTrailing /\ cmd.version = "v1"
               /\ \E k \in 1 .. Len(Trailing) \div 3 :
                      Trailing[3 * k - 1].letter \in {"b", "U"}

(* The bindings of a trap that came from the triplets. *)
Given == IF cmd.version = "v1" THEN bindings ELSE SubSeq(bindings, 3, Len(bindings))

(* The value means what was typed after the letter. *)
ReadsAs(value, letter, raw) ==
    CASE letter \in {"i", "u", "t", "U"} -> <<value>> = raw.num
      [] letter = "a"                    -> <<value>> = raw.addr
      [] letter = "x"                    -> <<value>> = raw.hex
      [] letter = "s"                    -> value = raw.text
      [] letter = "n"                    -> value = << >>
      [] letter = "o"                    -> ReadOid(value) = Trimmed(raw.oid)
      [] letter = "b"                    -> /\ ReadBits(value) = raw.bits[1]
                                            /\ value = << >> \/ Last(value) # {}

(* Every one of the triplets, in their order. *)
TripletsRead ==
    outcome = "Ok" =>
        /\ Len(Given) = Len(Trailing) \div 3
        /\ \A k \in DOMAIN Given :
               /\ ReadOid(Given[k].name) = TypedOid(k)
               /\ ReadsAs(Given[k].value, Trailing[3 * k - 1].letter, Trailing[3 * k])

(* However the OIDs of the triplets are written. *)
AutoVarbindsOnce ==
    outcome = "Ok" /\ cmd.version # "v1" =>
        \A k \in DOMAIN bindings :
            /\ (ReadOid(bindings[k].name) = SYS_UPTIME_OID) = (k = 1)
            /\ (ReadOid(bindings[k].name) = SNMP_TRAP_OID_OID) = (k = 2)

(* varbind.rs:27-76, 158-187, pdu.rs:85-176: the receiver reads the OIDs, the
   numbers and the bits that were typed; lib.rs:74-91, pdu.rs:38-51: before them
   a v2c or v3 trap has sysUpTime.0 and snmpTrapOID.0, which are nowhere else. *)
ReadAsTyped == TripletsRead /\ AutoVarbindsOnce
================================================================================
