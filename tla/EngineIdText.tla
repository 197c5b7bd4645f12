------------------------------ MODULE EngineIdText -----------------------------
(***************************************************************************)
(* The three places that read octets from hexadecimal text: the engine-ID  *)
(* of -E (engine::parse_user_input), the value of an `x` variable binding  *)
(* (varbind::parse_hex_string) and the MAC address of an interface         *)
(* (engine::parse_mac_text).  Each was written by itself.                  *)
(*                                                                         *)
(* The same text is given to one after the other.  A character is one of   *)
(* Char; all are one octet in UTF-8 but the no-break space, "nbsp", whose  *)
(* octets are c2 and a0.                                                   *)
(***************************************************************************)
EXTENDS Naturals, FiniteSetsExt, SequencesExt

CONSTANTS
    Char,           \* the characters of the texts: those that decode_hex_nibble
                    \* reads, the prefix, separators, and others
    MAX_TEXT,       \* bound: the longest text
    MIN_ENGINE_ID,  \* 5
    MAX_ENGINE_ID,  \* 32
    MAC_OCTETS      \* 6

VARIABLES
    text,       \* what is read
    parser,     \* the parser that reads it: "user", "octets", "mac"
    pc,         \* "clean", "check", "decode", "end"
    cleaned,    \* the octets of the text that are left to decode
    out,        \* the octets decoded so far
    result      \* what each parser returned

vars == <<text, parser, pc, cleaned, out, result>>

Parsers == {"user", "octets", "mac"}

None            == [kind |-> "none"]
Ok(octets)      == [kind |-> "ok", octets |-> octets]
Empty           == [kind |-> "Empty"]
BadHex(b)       == [kind |-> "BadHex", ch |-> b]
OddLength(n)    == [kind |-> "OddLength", got |-> n]
TooShort(n)     == [kind |-> "TooShort", got |-> n, min |-> MIN_ENGINE_ID]
TooLong(n)      == [kind |-> "TooLong", got |-> n, max |-> MAX_ENGINE_ID]
NotMac          == [kind |-> "NotMac"]

AsciiWhitespace == {" "}
Whitespace      == {" ", "nbsp"}

(* decode_hex_nibble. *)
decode_hex_nibble ==
    [b \in {"0", "9", "a", "f", "A", "F"} |->
        CASE b = "0" -> 0 [] b = "9" -> 9
          [] b \in {"a", "A"} -> 10 [] b \in {"f", "F"} -> 15]

IsHex(b) == b \in DOMAIN decode_hex_nibble

(* str::trim. *)
Trim(s) ==
    LET ink == {i \in DOMAIN s : s[i] \notin Whitespace}
    IN  IF ink = {} THEN << >> ELSE SubSeq(s, Min(ink), Max(ink))

(* Seeded fault: every 0 and x at the front is taken for the prefix. *)
strip_prefix_greedy(s) ==
    LET rest == {i \in DOMAIN s : s[i] \notin {"0", "x", "X"}}
    IN  IF rest = {} THEN << >> ELSE SubSeq(s, Min(rest), Len(s))

(* strip_prefix("0x").or_else(strip_prefix("0X")).unwrap_or(whole) *)
strip_prefix(s) ==
    IF Len(s) >= 2 /\ s[1] = "0" /\ s[2] \in {"x", "X"}
    THEN SubSeq(s, 3, Len(s)) ELSE s

Utf8(c) == IF c = "nbsp" THEN <<"c2", "a0">> ELSE <<c>>

(* chars().filter(..).collect(), as octets: what it is after each character. *)
collected(s, dropped) ==
    LET c[n \in 0 .. Len(s)] ==
            IF n = 0 THEN << >>
            ELSE IF s[n] \in dropped THEN c[n - 1] ELSE c[n - 1] \o Utf8(s[n])
    IN  c

Collect(s, dropped) == collected(s, dropped)[Len(s)]

(* The filter of each parser: -E drops ASCII whitespace, x any whitespace. *)
Separators(p) == {":"} \cup IF p = "user" THEN AsciiWhitespace ELSE Whitespace

Init ==
    /\ text \in BoundedSeq(Char, MAX_TEXT)
    /\ parser = "user" /\ pc = "clean"
    /\ cleaned = << >> /\ out = << >>
    /\ result = [p \in Parsers |-> None]

Return(r) ==
    /\ result' = [result EXCEPT ![parser] = r]
    /\ pc' = "end"
    /\ UNCHANGED <<text, parser, cleaned, out>>

Goto(label) == pc' = label /\ UNCHANGED <<text, parser, cleaned, out, result>>
-------------------------------------------------------------------------------
(* parse_user_input and parse_hex_string. *)

Clean ==
    /\ pc = "clean" /\ parser \in {"user", "octets"}
    /\ cleaned' = Collect(strip_prefix(Trim(text)), Separators(parser))
    /\ out' = << >> /\ pc' = "check"
    /\ UNCHANGED <<text, parser, result>>

(* -E: what the length tells is checked before any digit is. *)
CheckLength ==
    /\ pc = "check" /\ parser = "user"
    /\ LET n == Len(cleaned)
       IN  \/ n = 0 /\ Return(Empty)
           \/ n > 2 * MAX_ENGINE_ID /\ Return(TooLong(n \div 2))
           \/ n \in 1 .. 2 * MAX_ENGINE_ID /\ n % 2 # 0 /\ Return(OddLength(n))
           \/ n \in 1 .. 2 * MAX_ENGINE_ID /\ n % 2 = 0 /\ Goto("decode")

(* x: the digits are checked first.  No text at all is no octets. *)
CheckDigits ==
    /\ pc = "check" /\ parser = "octets"
    /\ LET bad == {i \in DOMAIN cleaned : ~IsHex(cleaned[i])}
       IN  \/ bad # {} /\ Return(BadHex(cleaned[Min(bad)]))
           \/ bad = {} /\ Len(cleaned) % 2 # 0 /\ Return(OddLength(Len(cleaned)))
           \/ bad = {} /\ Len(cleaned) % 2 = 0 /\ Goto("decode")

(* (hi << 4) | lo *)
Octet(hi, lo) == 16 * decode_hex_nibble[hi] + decode_hex_nibble[lo]

DecodePair ==
    /\ pc = "decode" /\ cleaned # << >>
    /\ IsHex(cleaned[1]) /\ IsHex(cleaned[2])
    /\ out' = Append(out, Octet(cleaned[1], cleaned[2]))
    /\ cleaned' = SubSeq(cleaned, 3, Len(cleaned))
    /\ UNCHANGED <<text, parser, pc, result>>

(* The error names the first octet that is not a digit, as a char. *)
DecodeBad ==
    /\ pc = "decode" /\ cleaned # << >>
    /\ ~(IsHex(cleaned[1]) /\ IsHex(cleaned[2]))
    /\ Return(BadHex(IF IsHex(cleaned[1]) THEN cleaned[2] ELSE cleaned[1]))

(* The bounds of what was decoded: x has none, and the greatest of -E cannot be
   passed after CheckLength. *)
CheckBounds ==
    /\ pc = "decode" /\ cleaned = << >>
    /\ \/ parser = "user" /\ Len(out) < MIN_ENGINE_ID /\ Return(TooShort(Len(out)))
       \/ parser = "user" /\ Len(out) >= MIN_ENGINE_ID /\ Return(Ok(out))
       \/ parser = "octets" /\ Return(Ok(out))
-------------------------------------------------------------------------------
(* parse_mac_text, on the trimmed text of the address file. *)

(* str::split(':'), as octets: the parts after each character. *)
parted(s) ==
    LET parts[n \in 0 .. Len(s)] ==
            IF n = 0 THEN << << >> >>
            ELSE IF s[n] = ":" THEN Append(parts[n - 1], << >>)
            ELSE [parts[n - 1] EXCEPT ![Len(parts[n - 1])] = @ \o Utf8(s[n])]
    IN  parts

split(s) == parted(s)[Len(s)]

(* Seeded fault: every part is read, however long. *)
IsMac_any(parts) ==
    /\ Len(parts) = MAC_OCTETS
    /\ \A i \in DOMAIN parts :
          /\ Len(parts[i]) >= 2
          /\ IsHex(parts[i][1]) /\ IsHex(parts[i][2])

IsMac(parts) ==
    /\ Len(parts) = MAC_OCTETS
    /\ \A i \in DOMAIN parts :
          /\ Len(parts[i]) = 2
          /\ IsHex(parts[i][1]) /\ IsHex(parts[i][2])

ReadMac ==
    /\ pc = "clean" /\ parser = "mac"
    /\ LET parts == split(Trim(text))
       IN  Return(IF IsMac(parts)
                  THEN Ok([i \in DOMAIN parts |-> Octet(parts[i][1], parts[i][2])])
                  ELSE NotMac)

(* The next of the three reads the same text. *)
Again ==
    /\ pc = "end" /\ parser # "mac"
    /\ parser' = IF parser = "user" THEN "octets" ELSE "mac"
    /\ pc' = "clean" /\ cleaned' = << >> /\ out' = << >>
    /\ UNCHANGED <<text, result>>

Next ==
    \/ Clean \/ CheckLength \/ CheckDigits \/ DecodePair \/ DecodeBad \/ CheckBounds
    \/ ReadMac \/ Again

Spec == Init /\ [][Next]_vars
-------------------------------------------------------------------------------
(* Properties. *)

Accepted(p) == result[p].kind = "ok"
Answered(p) == result[p] # None

(* The characters of a text that are not its prefix, its margins or
   separators: stated by position, without the steps of the code. *)
Prefixed == \E i \in 1 .. Len(text) - 1 :
    /\ text[i] = "0" /\ text[i + 1] \in {"x", "X"}
    /\ \A j \in 1 .. i - 1 : text[j] \in Whitespace
Ink(p) ==
    LET inked == {i \in DOMAIN text : text[i] \notin Whitespace}
    IN  {i \in DOMAIN text :
            /\ text[i] # ":" /\ text[i] \notin AsciiWhitespace
            /\ Prefixed => i > Min(inked) + 1
            /\ text[i] = "nbsp" =>
                   p = "user" /\ \E j, k \in inked : j < i /\ i < k}

(* engine.rs:82-137, varbind.rs:115-153: whether a text is accepted, and as
   which octets, depends on nothing but its digits and their number. *)
DigitsDecide ==
    \A p \in {"user", "octets"} : Answered(p) =>
        LET ink == Ink(p)
            n   == Cardinality(ink)
            Digit(k) == text[CHOOSE i \in ink : Cardinality({j \in ink : j <= i}) = k]
            good == /\ \A i \in ink : IsHex(text[i])
                    /\ n % 2 = 0
                    /\ p = "user" => n \div 2 \in MIN_ENGINE_ID .. MAX_ENGINE_ID
        IN  /\ Accepted(p) <=> good
            /\ good => \A k \in 1 .. n \div 2 :
                  /\ result[p].octets[k] \div 16 = decode_hex_nibble[Digit(2 * k - 1)]
                  /\ result[p].octets[k] % 16 = decode_hex_nibble[Digit(2 * k)]

(* The three readers agree: what -E accepts, and what is read as a MAC address,
   is the same octets as the value of an x variable binding. *)
SameOctets ==
    Answered("octets") =>
        \A p \in {"user", "mac"} : Accepted(p) => result["octets"] = result[p]
================================================================================
