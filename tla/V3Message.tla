------------------------------- MODULE V3Message -------------------------------
(***************************************************************************)
(* src/v3.rs, with the primitives of src/usm.rs and build_v3_payload of    *)
(* src/lib.rs: from the engine-IDs to the bytes of an SNMPv3 trap, and     *)
(* what a receiver makes of them.  The message is encoded twice: with      *)
(* zeros for the tag, which is what is signed, and with the tag.           *)
(*                                                                         *)
(* An encoding is a tree of tags, lengths and contents: two trees are      *)
(* equal exactly when their bytes are.  Digests, HMAC tags and ciphertexts *)
(* are terms of what they are computed from.  Time passes between any two  *)
(* steps.  V3Setup has the failures of the set-up and its assertions.      *)
(***************************************************************************)
EXTENDS Usm, Sequences, SequencesExt

CONSTANTS
    Requests,       \* the command lines, past validation: a set of Request
    EngineIdLen,    \* the engine-IDs in play, and the octets of each
    HostEngineId,   \* what resolve() finds without -E: one of EngineId
    Times,          \* the seconds the process clock may show, 0 among them
    Salts,          \* what fresh_salt may draw
    None            \* an option that was not given, a value not yet known

EngineId == DOMAIN EngineIdLen

(* -E and -e are an engine-ID, absent, or no engine-ID at all; a name and a
   trap are their lengths in octets. *)
Request == [level : SecurityLevel, auth : AuthProtocol, priv : PrivProtocol,
            authoritative : EngineId \cup {None, "bad"},
            context : EngineId \cup {None, "bad"},
            user : Nat, context_name : Nat, trap : Nat]

VARIABLES
    pc,             \* the next step
    req,            \* the command line
    now,            \* the process clock
    m,              \* the V3TrapMessage, field by field
    scoped,         \* the encoded scoped_data
    unsigned,       \* bytes_with_placeholder
    wire,           \* what build_v3_trap_message returns, None before
    outcome         \* "none", "Usage" or "Ok"

vars == <<pc, req, now, m, scoped, unsigned, wire, outcome>>
-------------------------------------------------------------------------------
(* BER: a tag, the octets of the length, the contents. *)

LenOctets(n) == CASE n < 128 -> 1 [] n \in 128 .. 255 -> 2 [] n > 255 -> 3

Size(x) == 1 + LenOctets(x.len) + x.len

Leaf(tag, value, n) == [len |-> n, tag |-> tag, value |-> value]

Added(sizes) == FoldLeft(LAMBDA n, size : n + size, 0, sizes)

Total(items) == Added([i \in DOMAIN items |-> Size(items[i])])

Seqn(items) == Leaf("seq", items, Total(items))

(* A number that is not negative: its octets, and a bit for the sign. *)
IntOctets(n) == CASE n < 128 -> 1 [] n \in 128 .. 32767 -> 2
                  [] n \in 32768 .. 8388607 -> 3 [] n > 8388607 -> 4

Integer(n) == Leaf("int", <<"int", n>>, IntOctets(n))

Octets(value, n) == Leaf("oct", value, n)

(* An OCTET STRING that holds an encoding. *)
Wrapped(x) == Octets(<<x>>, Size(x))

Zeros(n) == Octets(<<"zeros">>, n)

-------------------------------------------------------------------------------
(* usm.rs. *)

(* password_to_key: the digest of the password and the engine-ID. *)
password_to_key(password, engine_id, proto) == <<"key", password, engine_id, proto>>

(* priv_key_from_password: the same digest, cut to the cipher's key. *)
priv_key_from_password(password, engine_id, auth, priv) ==
    <<"cut", password_to_key(password, engine_id, auth), key_len[priv]>>

make_aes_iv(boots, time, salt) == <<boots, time, salt>>

(* CFB keeps the length. *)
priv_encrypt(plaintext, key, iv, priv) ==
    Octets(<<"aes", priv, key, iv, plaintext>>, Size(plaintext))

(* auth_sign: the HMAC of the message, truncated. *)
auth_sign(message, key, auth) ==
    Octets(<<"hmac", auth, key, message>>, auth_param_len[auth])

-------------------------------------------------------------------------------
(* v3.rs. *)

MAX_ID   == 2147483647
BOOTS    == 1
MAX_SIZE == 65507

(* The three variants of V3Security: build_v3_security makes one of the level,
   and four matches, written apart, ask which it is. *)

(* Seeded fault: the reportable bit is set, as for a request. *)
flag_byte_reportable(v) == {"reportable"} \cup
    (CASE v.security = "NoAuthNoPriv" -> {}
       [] v.security = "AuthNoPriv"   -> {"auth"}
       [] v.security = "AuthPriv"     -> {"auth", "priv"})

(* The match for the flags. *)
flag_byte(v) ==
    CASE v.security = "NoAuthNoPriv" -> {}
      [] v.security = "AuthNoPriv"   -> {"auth"}
      [] v.security = "AuthPriv"     -> {"auth", "priv"}

(* Seeded fault: only the variant without a cipher has a key to sign with. *)
Signs_plain(v) == v.security = "AuthNoPriv"

(* auth(): whether there is a key to sign with. *)
Signs(v) ==
    CASE v.security = "NoAuthNoPriv" -> FALSE
      [] v.security = "AuthNoPriv"   -> TRUE
      [] v.security = "AuthPriv"     -> TRUE

(* The match for the scopedPDU and the privacy parameters: `_` is in the clear. *)
Encrypts(v) == v.security = "AuthPriv"

(* Seeded fault: no place is kept for the tag of an encrypted message. *)
auth_len_plain(r, v) == IF v.security = "AuthNoPriv" THEN auth_param_len[r.auth] ELSE 0

(* The match for the length of the zeros. *)
auth_len(r, v) ==
    CASE v.security = "NoAuthNoPriv" -> 0
      [] v.security = "AuthNoPriv"   -> auth_param_len[r.auth]
      [] v.security = "AuthPriv"     -> auth_param_len[r.auth]

(* build_scoped_pdu. *)
scoped_pdu(r, v) ==
    Seqn(<<Octets(<<"engine", v.context>>, EngineIdLen[v.context]),
           Octets(<<"name">>, r.context_name),
           Leaf("trap", <<"pdu", r.trap, v.request_id>>, r.trap)>>)

(* build_usm_params. *)
usm_params(r, v, tag) ==
    Seqn(<<Octets(<<"engine", v.authoritative>>, EngineIdLen[v.authoritative]),
           Integer(BOOTS), Integer(v.time),
           Octets(<<"user">>, r.user),
           tag,
           IF Encrypts(v) THEN Octets(<<"salt", v.salt>>, 8) ELSE Zeros(0)>>)

message(r, v, tag, data) ==
    Seqn(<<Integer(3),
           Seqn(<<Integer(v.msg_id), Integer(MAX_SIZE), Octets(<<"flags", flag_byte(v)>>, 1), Integer(3)>>),
           Wrapped(usm_params(r, v, tag)),
           data>>)

-------------------------------------------------------------------------------
Init ==
    /\ req \in Requests
    /\ pc = "ids" /\ now = 0
    /\ m = [authoritative |-> None, context |-> None, security |-> None,
            auth_key |-> None, priv_key |-> None, salt |-> None, time |-> None,
            msg_id |-> None, request_id |-> None]
    /\ scoped = None /\ unsigned = None /\ wire = None
    /\ outcome = "none"

Tick == /\ pc # "end"
        /\ \E t \in Times : t > now /\ now' = t
        /\ UNCHANGED <<pc, req, m, scoped, unsigned, wire, outcome>>

(* The two engine-IDs of build_v3_payload: -E is parsed before -e is. *)
ResolveIds ==
    /\ pc = "ids"
    /\ LET E == IF req.authoritative = None THEN HostEngineId ELSE req.authoritative
           e == IF req.context = None THEN E ELSE req.context
       IN  IF "bad" \in {E, e}
           THEN /\ pc' = "end" /\ outcome' = "Usage" /\ UNCHANGED m
           ELSE /\ m' = [m EXCEPT !.authoritative = E, !.context = e]
                /\ pc' = "secure" /\ UNCHANGED outcome
    /\ UNCHANGED <<req, now, scoped, unsigned, wire>>

(* build_v3_security with the localized keys of an engine, one arm for each
   level; a digest too short for the cipher is an error of the last. *)
SecureFor(engine_id) ==
    /\ pc = "secure"
    /\ \/ /\ req.level = "noAuthNoPriv"
          /\ m' = [m EXCEPT !.security = "NoAuthNoPriv"]
          /\ pc' = "assemble" /\ UNCHANGED outcome
       \/ /\ req.level = "authNoPriv"
          /\ m' = [m EXCEPT !.security = "AuthNoPriv",
                 !.auth_key = password_to_key("auth pass", engine_id, req.auth)]
          /\ pc' = "assemble" /\ UNCHANGED outcome
       \/ /\ req.level = "authPriv" /\ digest_len[req.auth] >= key_len[req.priv]
          /\ \E salt \in Salts : m' = [m EXCEPT !.security = "AuthPriv",
                 !.auth_key = password_to_key("auth pass", engine_id, req.auth),
                 !.priv_key = priv_key_from_password("priv pass", engine_id,
                                                     req.auth, req.priv),
                 !.salt     = salt]
          /\ pc' = "assemble" /\ UNCHANGED outcome
       \/ /\ req.level = "authPriv" /\ digest_len[req.auth] < key_len[req.priv]
          /\ pc' = "end" /\ outcome' = "Usage" /\ UNCHANGED m
    /\ UNCHANGED <<req, now, scoped, unsigned, wire>>

(* Seeded fault: the keys are localized to the engine of the context. *)
SecureForContext == SecureFor(m.context)

Secure == SecureFor(m.authoritative)

(* V3TrapMessage { .. }: the clock is read here, once.  The request-id and the
   message-id are drawn at random; one value of each is enough, no step looks
   at them. *)
Assemble ==
    /\ pc = "assemble"
    /\ m' = [m EXCEPT !.time = now, !.msg_id = MAX_ID, !.request_id = 77]
    /\ pc' = "scope"
    /\ UNCHANGED <<req, now, scoped, unsigned, wire, outcome>>

ScopeAt(time) ==
    /\ pc = "scope"
    /\ scoped' = IF Encrypts(m)
                 THEN priv_encrypt(scoped_pdu(req, m), m.priv_key,
                                   make_aes_iv(BOOTS, time, m.salt), req.priv)
                 ELSE scoped_pdu(req, m)
    /\ pc' = "encode"
    /\ UNCHANGED <<req, now, m, unsigned, wire, outcome>>

(* Seeded fault: the cipher reads the clock again. *)
ScopeLate == ScopeAt(now)

(* The scopedPDU, encrypted when the level says so. *)
Scope == ScopeAt(m.time)

(* The first encoding, with a tag of zeros. *)
Encode ==
    /\ pc = "encode"
    /\ unsigned' = message(req, m, Zeros(auth_len(req, m)), scoped)
    /\ pc' = "sign"
    /\ UNCHANGED <<req, now, m, scoped, wire, outcome>>

(* auth_sign over the first encoding, and the second with its tag. *)
Sign ==
    /\ pc = "sign"
    /\ wire' = IF Signs(m)
               THEN message(req, m, auth_sign(unsigned, m.auth_key, req.auth), scoped)
               ELSE unsigned
    /\ pc' = "end" /\ outcome' = "Ok"
    /\ UNCHANGED <<req, now, m, scoped, unsigned>>

Next == Tick \/ ResolveIds \/ Secure \/ Assemble \/ Scope \/ Encode \/ Sign

Spec == Init /\ [][Next]_vars
-------------------------------------------------------------------------------
(* The receiver: it knows the user, the protocols and the passwords, and takes
   all the rest from the message. *)

Field(x, i)  == x.value[i]
UsmParams(w) == Field(Field(w, 3), 1)
Engine(w)    == Field(UsmParams(w), 1).value[2]
Tag(w)       == Field(UsmParams(w), 5)
Salt(w)      == Field(UsmParams(w), 6)
Flags(w)     == Field(Field(w, 2), 3).value[2]

(* The lengths along the path from the message to the tag are those of what is
   there. *)
WellFormed(w) ==
    /\ w.len = Total(w.value)
    /\ Field(w, 3).len = Size(UsmParams(w))
    /\ UsmParams(w).len = Total(UsmParams(w).value)

(* The message with as many zeros as the tag has octets: no length changes. *)
Zeroed(w) == [w EXCEPT !.value[3].value[1].value[5].value = <<"zeros">>]

Verified(w) ==
    LET key == password_to_key("auth pass", Engine(w), req.auth)
    IN  Tag(w) = auth_sign(Zeroed(w), key, req.auth)

(* The scopedPDU it can read: in the clear, or decrypted with the IV and the
   key the message asks for. *)
Decrypted(w) ==
    LET u   == UsmParams(w).value
        key == priv_key_from_password("priv pass", Engine(w), req.auth, req.priv)
        iv  == make_aes_iv(u[2].value[2], u[3].value[2], u[6].value[2])
        c   == Field(w, 4).value
    IN  IF <<c[1], c[2], c[3], c[4]>> = <<"aes", req.priv, key, iv>> THEN c[5] ELSE None

Readable(w) == IF "priv" \in Flags(w) THEN Decrypted(w) ELSE Field(w, 4)

-------------------------------------------------------------------------------
(* Properties. *)

(* The second encoding is as long as the first: the tag fills the place of its
   zeros. *)
SpliceKeepsLength == Size(wire) = Size(unsigned)

(* v3.rs:15-20 "receiver's replace authParams with zeros and recompute gives the
   same input we hashed, and HMAC verifies": for every length of the fields
   before and after the tag, and for every pair of engine-IDs; v3.rs:176-183,
   195-199, the two assertions on the lengths. *)
ReceiverVerifies ==
    outcome = "Ok" /\ req.level # "noAuthNoPriv" =>
        SpliceKeepsLength /\ WellFormed(wire) /\ Verified(wire)

(* v3.rs:107-130, usm.rs:312-318: the engine-ID, the time and the salt in the
   message are those the scopedPDU was encrypted with, and it is the trap asked
   for, in the context asked for. *)
TrapRecovered ==
    outcome = "Ok" =>
        Readable(wire) = scoped_pdu(req, [m EXCEPT !.context =
            CASE req.context # None                                -> req.context
              [] req.context = None /\ req.authoritative # None    -> req.authoritative
              [] req.context = None /\ req.authoritative = None    -> HostEngineId])

(* v3.rs:22-27, 83-142: the four matches agree with each other and with the level
   that was asked for: the flags tell whether there is a tag, that it is one and
   not the zeros that kept its place, whether the scopedPDU is encrypted and
   whether the salt is with it; and a report is never waited for. *)
FlagsTell ==
    outcome = "Ok" =>
        /\ ("auth" \in Flags(wire)) = (req.level # "noAuthNoPriv")
        /\ ("auth" \in Flags(wire)) = (Tag(wire).len > 0)
        /\ ("auth" \in Flags(wire)) = (Tag(wire).value[1] = "hmac")
        /\ ("priv" \in Flags(wire)) = (req.level = "authPriv")
        /\ ("priv" \in Flags(wire)) = (Field(wire, 4).tag = "oct")
        /\ ("priv" \in Flags(wire)) = (Salt(wire).len > 0)
        /\ "reportable" \notin Flags(wire)
================================================================================
