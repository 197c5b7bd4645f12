------------------------------ MODULE MCArguments ------------------------------
(***************************************************************************)
(* Integers of eight and sixteen bits: OIDs on both sides of every limit,  *)
(* numbers at the ends of each type, BITS at the edges of a byte and at    *)
(* the cap, in every place of one and two triplets.                        *)
(*                                                                         *)
(* Engine-IDs and MAC addresses of two octets, and texts of one character  *)
(* more than a prefix and the longest engine-ID need.  An AGENT with one   *)
(* port and a word that is no port, and an answer of at most three         *)
(* addresses.                                                              *)
(***************************************************************************)
EXTENDS Arguments

MCSeconds == -1 .. 3
(* 7 and 14 hundredths come out one short, 15 do not. *)
MCUptimes == {0, 7, 14, 15, 20}
MCScales  == {2^k : k \in 0 .. 14}

MCChar == {"0", "F", "x", ":", " ", "nbsp"}
MCWord == {"udp", ":", "[", "1620", "host"}

MCI32 == -128 .. 127
MCU32 == 0 .. 255
MCU64 == 0 .. 65535

(* As in TrapPdu, which the command lines come before. *)
EMPTY   == -1
GARBAGE == -2

Words(bytes) == [text |-> bytes, letter |-> "", num |-> << >>, oid |-> <<GARBAGE>>,
                 addr |-> << >>, hex |-> << >>, bits |-> << >>]

Nothing    == [Words(<< >>) EXCEPT !.oid = <<EMPTY>>, !.hex = <<<< >>>>, !.bits = <<{}>>]
Letter(c)  == [Words(<<c>>) EXCEPT !.letter = c]
Oid(arcs)  == [Words(<<"oid">>) EXCEPT !.oid = arcs]
Decimal(n) == [Words(<<"number">>) EXCEPT !.num = <<n>>,
                   !.oid = <<IF n >= 0 THEN n ELSE GARBAGE>>,
                   !.bits = IF n >= 0 THEN <<{n}>> ELSE << >>]
Address    == [Words(<<"address">>) EXCEPT !.addr = <<"a.b.c.d">>, !.oid = <<192, 0, 2, 1>>]
Hex        == [Words(<<"hex">>) EXCEPT !.hex = <<<<10, 255>>>>]
Bits(set)  == [Words(<<"bits">>) EXCEPT !.bits = <<set>>]

Good    == Oid(<<1, 3, 6, 1>>)
Dotted  == Oid(<<EMPTY>> \o <<1, 3, 6, 1, 2, 1, 1, 3, 0>>)

Oids == {Good, Dotted, Oid(<<1, 3, 6, 1, 6, 3, 1, 1, 4, 1, 0>>), Oid(<<1, 39>>), Oid(<<1, 40>>),
         Oid(<<2, 255>>), Oid(<<2, 256, 1>>), Oid(<<3, 5>>), Oid(<<1>>), Oid(<<EMPTY, EMPTY>>),
         Oid(<<1, EMPTY, 3>>), Nothing}

Values ==
    ({"i", "u", "t", "U", "b"} \X {Decimal(n) : n \in {-129, -128, 127, 255, 256, 70000}})
    \cup ({"b"} \X {Bits(s) : s \in {{0}, {7, 8}, {0, 15, 16}, {3, 20}, {21}, {5, 300}}})
    \cup ({"b", "x", "s", "n", "i", "o"} \X {Nothing})
    \cup {<<"a", Address>>, <<"o", Address>>, <<"o", Oid(<<2, 47>>)>>, <<"o", Oid(<<0, 40>>)>>,
          <<"x", Hex>>, <<"x", Decimal(255)>>, <<"s", Hex>>, <<"z", Hex>>, <<"ii", Decimal(5)>>}

Triplets == {<<o, Letter(v[1]), v[2]>> : o \in Oids, v \in Values}

(* Enough of each for the second triplet. *)
Few == {<<o, Letter(v[1]), v[2]>> : o \in {Good, Dotted, Oid(<<1, 40>>)},
            v \in {<<"i", Decimal(5)>>, <<"U", Decimal(5)>>, <<"b", Bits({7, 8})>>,
                   <<"i", Decimal(300)>>}}

Heads(version) ==
    IF version = "v1"
    THEN {<<e, a, g, s, u>> : e \in {Nothing, Good, Oid(<<3, 5>>)}, a \in {Nothing, Address, Hex},
              g \in {Decimal(6), Decimal(7)}, s \in {Decimal(0), Decimal(-1)},
              u \in {Nothing, Decimal(255), Decimal(256)}}
    ELSE {<<u, o>> : u \in {Nothing, Decimal(255), Decimal(256)}, o \in {Good, Oid(<<3, 5>>)}}

Plain(version) ==
    IF version = "v1" THEN <<Good, Address, Decimal(6), Decimal(0), Decimal(255)>>
    ELSE <<Decimal(255), Good>>

MCCommands ==
    UNION {{[version |-> v, args |-> a] :
                a \in Heads(v)
                      \cup {SubSeq(h, 1, Len(h) - 1) : h \in Heads(v)}
                      \cup {Plain(v) \o <<Good>>, Plain(v) \o <<Good, Letter("i"), Decimal(5), Good>>}
                      \cup {Plain(v) \o t : t \in Triplets}
                      \cup {Plain(v) \o t \o u : t \in Few, u \in Few}} :
           v \in {"v1", "v2c", "v3"}}
================================================================================
