-------------------------- MODULE KeyAndMessage_proofs -------------------------
(***************************************************************************)
(* Proofs about KeyStretch, for every passphrase, stream length, engine-ID *)
(* and protocol: the types, the stream that is hashed and the length of    *)
(* the key; and about V3Message, for every command line, salt and time:    *)
(* the tag, the trap and the flags.                                        *)
(*                                                                         *)
(* StreamExact speaks of the end of the loop.  It is inductive once it is  *)
(* said of every iteration, together with what makes the next one append   *)
(* at the right place: until the last, whole passphrases were written.     *)
(*                                                                         *)
(* The properties of the message speak of its bytes.  MessageInv says from *)
(* what each of its fields was made; that the lengths agree follows from   *)
(* the first encoding and the second having the same ones.                 *)
(***************************************************************************)
EXTENDS KeyAndMessage, SequenceTheorems, TLAPS

(* Every octet that was written is the right one. *)
Repeats == \A k \in 1 .. written : stream[k] = pw[((k - 1) % Len(pw)) + 1]

(* Until the stream is full it ends with a whole passphrase. *)
Whole == pc = "stretch" /\ written < TARGET => written % Len(pw) = 0

Lengths ==
    /\ pc \in {"stretch", "localize", "cut", "done"} => Len(pw) >= MIN_USM_PASSWORD_LEN
    /\ pc = "check" => written = 0
    /\ pc \in {"localize", "cut", "done"} => written = TARGET

Keys ==
    /\ pc = "cut" => key = [of |-> <<auth, stream, engine, stream>>, len |-> digest_len[auth]]
                     /\ priv \in PrivProtocol
    /\ KeyUsable

Inv == TypeOK /\ Lengths /\ (pc # "usage" => Repeats /\ Whole) /\ Keys

-------------------------------------------------------------------------------
(* Quotient and remainder are unique. *)
LEMMA Remainder ==
    ASSUME NEW n \in Nat \ {0}, NEW q1 \in Nat, NEW q2 \in Nat,
           NEW r1 \in 0 .. n - 1, NEW r2 \in 0 .. n - 1,
           n * q1 + r1 = n * q2 + r2
    PROVE  r1 = r2
<1>1. n * q1 \in Nat /\ n * q2 \in Nat
  BY SMT
<1>2. CASE q1 < q2
  <2>1. n * q2 = n * q1 + n + n * (q2 - q1 - 1) /\ n * (q2 - q1 - 1) \in Nat
    BY <1>2, SMT
  <2> QED BY <1>1, <2>1, SMT
<1>3. CASE q2 < q1
  <2>1. n * q1 = n * q2 + n + n * (q1 - q2 - 1) /\ n * (q1 - q2 - 1) \in Nat
    BY <1>3, SMT
  <2> QED BY <1>1, <2>1, SMT
<1>4. CASE q1 = q2
  BY <1>1, <1>4, SMT
<1> QED BY <1>2, <1>3, <1>4, SMT

LEMMA Divided ==
    ASSUME NEW n \in Nat \ {0}, NEW w \in Nat
    PROVE  w \div n \in Nat /\ w % n \in 0 .. n - 1 /\ w = n * (w \div n) + (w % n)
BY SMT

(* The place in the passphrase of an octet that follows whole passphrases. *)
LEMMA ModAppend ==
    ASSUME NEW n \in Nat \ {0}, NEW w \in Nat, w % n = 0, NEW j \in 0 .. n - 1
    PROVE  (w + j) % n = j
<1> DEFINE q1 == w \div n
           q2 == (w + j) \div n
           r2 == (w + j) % n
<1>1. q1 \in Nat /\ w = n * q1 + (w % n)
  BY Divided
<1>2. w + j \in Nat
  BY SMT
<1>3. q2 \in Nat /\ r2 \in 0 .. n - 1 /\ w + j = n * q2 + r2
  BY <1>2, Divided
<1>4. n * q1 \in Nat /\ n * q2 \in Nat
  BY <1>1, <1>3, SMT
<1> HIDE DEF q1, q2, r2
<1>5. n * q1 + j = n * q2 + r2
  BY <1>1, <1>3, <1>4, SMT
<1>6. j = r2
  BY <1>1, <1>3, <1>5, Remainder
<1> QED BY <1>6 DEF r2

LEMMA ModWhole ==
    ASSUME NEW n \in Nat \ {0}, NEW w \in Nat, w % n = 0
    PROVE  (w + n) % n = 0
<1> DEFINE q1 == w \div n
           q2 == (w + n) \div n
           r2 == (w + n) % n
<1>1. q1 \in Nat /\ w = n * q1 + (w % n)
  BY Divided
<1>2. w + n \in Nat
  BY SMT
<1>3. q2 \in Nat /\ r2 \in 0 .. n - 1 /\ w + n = n * q2 + r2
  BY <1>2, Divided
<1> HIDE DEF q1, q2, r2
<1>4. n * (q1 + 1) = n * q1 + n /\ q1 + 1 \in Nat
  BY <1>1, SMT
<1>5. n * q1 \in Nat /\ n * q2 \in Nat
  BY <1>1, <1>3, SMT
<1>6. n * (q1 + 1) + 0 = n * q2 + r2
  BY <1>1, <1>3, <1>4, <1>5, SMT
<1>7. 0 = r2
  BY <1>3, <1>4, <1>6, Remainder, SMT
<1> QED BY <1>7 DEF r2

(* What a chunk adds to the stream. *)
LEMMA Chunk ==
    ASSUME NEW s \in Seq(Nat), NEW p \in Seq(Nat), NEW t \in 0 .. Len(p)
    PROVE  /\ s \o SubSeq(p, 1, t) \in Seq(Nat)
           /\ Len(s \o SubSeq(p, 1, t)) = Len(s) + t
           /\ \A k \in 1 .. Len(s) : (s \o SubSeq(p, 1, t))[k] = s[k]
           /\ \A k \in 1 .. t : (s \o SubSeq(p, 1, t))[Len(s) + k] = p[k]
<1> DEFINE c == SubSeq(p, 1, t)
<1>1. c \in Seq(Nat) /\ Len(c) = t /\ \A k \in 1 .. t : c[k] = p[k]
  BY SubSeqProperties, SMT
<1> HIDE DEF c
<1>2. /\ s \o c \in Seq(Nat) /\ Len(s \o c) = Len(s) + Len(c)
      /\ \A k \in 1 .. Len(s) + Len(c) :
            (s \o c)[k] = IF k <= Len(s) THEN s[k] ELSE c[k - Len(s)]
  BY <1>1, ConcatProperties
<1>3. Len(s) \in Nat
  OBVIOUS
<1>4. \A k \in 1 .. Len(s) : (s \o c)[k] = s[k]
  BY <1>1, <1>2, <1>3, SMT
<1>5. ASSUME NEW k \in 1 .. t PROVE (s \o c)[Len(s) + k] = p[k]
  <2>1. Len(s) + k \in 1 .. Len(s) + Len(c) /\ ~(Len(s) + k <= Len(s)) /\ (Len(s) + k) - Len(s) = k
    BY <1>1, <1>3, SMT
  <2>2. (s \o c)[Len(s) + k] = c[(Len(s) + k) - Len(s)]
    BY <1>2, <2>1, Zenon
  <2> QED BY <1>1, <2>1, <2>2
<1> QED BY <1>1, <1>2, <1>4, <1>5 DEF c
-------------------------------------------------------------------------------
LEMMA Initially == Init => Inv
<1> SUFFICES ASSUME Init PROVE Inv
  OBVIOUS
<1>1. written = 0 /\ stream = << >> /\ pc = "check" /\ key = NoKey
  BY DEF Init
<1>2. TypeOK
  BY <1>1, StretchAssumption, SMT DEF Init, TypeOK
<1>3. Lengths /\ Keys
  BY <1>1 DEF Lengths, Keys, KeyUsable
<1>4. Repeats
  BY <1>1, SMT DEF Repeats
<1>5. Whole
  BY <1>1 DEF Whole
<1> QED BY <1>2, <1>3, <1>4, <1>5 DEF Inv

LEMMA Inductive == Inv /\ [Next]_vars => Inv'
<1> SUFFICES ASSUME Inv, [Next]_vars PROVE Inv'
  OBVIOUS
<1>1. pw \in Seq(Nat) /\ Len(pw) \in Nat /\ TARGET \in Nat
  BY StretchAssumption DEF Inv, TypeOK
<1>2. stream \in Seq(Nat) /\ Len(stream) = written /\ written \in Nat /\ written <= TARGET
  BY DEF Inv, TypeOK
<1>3. CASE CheckLength
  <2>1. pc = "check" /\ written = 0 /\ UNCHANGED <<args, stream, written, key>>
        /\ pc' \in {"stretch", "usage"} /\ (pc' = "stretch" => Len(pw) >= 8)
    BY <1>3 DEF CheckLength, Goto, long_enough, Inv, Lengths, MIN_USM_PASSWORD_LEN
  <2>2. TypeOK'
    BY <2>1 DEF Inv, TypeOK, args
  <2>3. Lengths'
    BY <2>1 DEF Lengths, args, MIN_USM_PASSWORD_LEN
  <2>4. Repeats'
    BY <2>1, SMT DEF Repeats, args
  <2>5. Whole'
    <3>1. pc' = "stretch" => 0 % Len(pw) = 0
      BY <1>1, <2>1, SMT
    <3> QED BY <2>1, <3>1 DEF Whole, args
  <2>6. Keys'
    BY <2>1 DEF Keys, KeyUsable
  <2> QED BY <2>2, <2>3, <2>4, <2>5, <2>6 DEF Inv
<1>4. CASE Update
  <2> DEFINE n == Len(pw)
             t == take
             gap == TARGET - written
  <2>1. /\ pc = "stretch" /\ written < TARGET /\ stream' = stream \o SubSeq(pw, 1, t)
        /\ written' = written + t /\ UNCHANGED <<args, pc, key>>
    BY <1>4 DEF Update
  <2>2. n >= 8
    BY <2>1 DEF Inv, Lengths, MIN_USM_PASSWORD_LEN
  <2>3. written % n = 0 /\ Repeats
    BY <2>1 DEF Inv, Whole
  <2>4. gap \in Nat \ {0} /\ t = IF gap <= n THEN gap ELSE n
    BY <1>1, <1>2, <2>1, SMT DEF take
  <2>5. UNCHANGED <<pw, engine, auth, priv, pc, key>>
    BY <2>1 DEF args
  <2> HIDE DEF n, t
  <2>6. n \in Nat /\ n = Len(pw)
    BY <1>1 DEF n
  <2>7. t \in 0 .. Len(pw) /\ t <= gap /\ (t = n \/ t = gap)
    BY <2>2, <2>4, <2>6, SMT
  <2>8. /\ stream' \in Seq(Nat) /\ Len(stream') = Len(stream) + t
        /\ \A k \in 1 .. Len(stream) : stream'[k] = stream[k]
        /\ \A k \in 1 .. t : stream'[Len(stream) + k] = pw[k]
    BY <1>1, <1>2, <2>1, <2>7, Chunk
  <2>9. TypeOK'
    <3>1. written' = Len(stream') /\ written' <= TARGET
      BY <1>1, <1>2, <2>1, <2>7, <2>8, SMT
    <3> QED BY <2>5, <2>8, <3>1 DEF Inv, TypeOK
  <2>10. Lengths'
    BY <2>1, <2>5 DEF Inv, Lengths
  <2>11. Repeats'
    <3>1. SUFFICES ASSUME NEW k \in 1 .. written + t
                   PROVE  stream'[k] = pw[((k - 1) % n) + 1]
      BY <2>1, <2>5, <2>6 DEF Repeats
    <3>2. CASE k <= written
      <4>1. k \in 1 .. written
        BY <1>2, <3>1, <3>2, SMT
      <4> QED BY <1>2, <2>3, <2>6, <2>8, <4>1 DEF Repeats
    <3>3. CASE ~(k <= written)
      <4> DEFINE j == k - written
      <4>1. /\ j \in 1 .. t /\ k = written + j /\ j - 1 \in 0 .. n - 1
            /\ k - 1 = written + (j - 1) /\ (j - 1) + 1 = j
        BY <1>2, <2>6, <2>7, <3>1, <3>3, SMT
      <4>2. n \in Nat \ {0}
        BY <2>2, <2>6, SMT
      <4> HIDE DEF j
      <4>3. (written + (j - 1)) % n = j - 1
        BY <1>2, <2>3, <4>1, <4>2, ModAppend
      <4>4. stream'[k] = pw[j]
        BY <1>2, <2>8, <4>1
      <4> QED BY <4>1, <4>3, <4>4
    <3> QED BY <3>2, <3>3
  <2>12. Whole'
    <3>1. SUFFICES ASSUME written + t < TARGET PROVE (written + t) % n = 0
      BY <2>1, <2>5, <2>6 DEF Whole
    <3>2. t = n
      BY <1>1, <1>2, <2>7, <3>1, SMT
    <3>3. n \in Nat \ {0}
      BY <2>2, <2>6, SMT
    <3> QED BY <1>2, <2>3, <3>2, <3>3, ModWhole
  <2>13. Keys'
    BY <2>1, <2>5 DEF Inv, Keys, KeyUsable
  <2> QED BY <2>9, <2>10, <2>11, <2>12, <2>13 DEF Inv
<1>5. CASE Finalize
  <2>1. pc = "stretch" /\ pc' = "localize" /\ ~(written < TARGET)
        /\ UNCHANGED <<args, stream, written, key>>
    BY <1>5 DEF Finalize, Goto
  <2>2. written = TARGET
    BY <1>1, <1>2, <2>1, SMT
  <2> QED BY <2>1, <2>2 DEF Inv, TypeOK, Lengths, Repeats, Whole, Keys, KeyUsable, args
<1>6. CASE Localize
  <2>1. /\ pc = "localize" /\ pc' = (IF priv = NoPriv THEN "done" ELSE "cut")
        /\ key' = [of |-> <<auth, stream, engine, stream>>, len |-> digest_len[auth]]
        /\ UNCHANGED <<args, stream, written>>
    BY <1>6 DEF Localize, Goto
  <2>2. TypeOK' /\ Lengths' /\ Repeats' /\ Whole'
    BY <2>1 DEF Inv, TypeOK, Lengths, Repeats, Whole, args
  <2>3. Keys'
    <3>1. digest_len[auth] \in Nat
      BY DEF Inv, TypeOK, AuthProtocol, digest_len
    <3>2. digest_len[auth] <= digest_len[auth]
      BY <3>1, SMT
    <3>3. auth \in AuthProtocol /\ priv \in PrivProtocol \cup {NoPriv}
          /\ Len(pw) >= MIN_USM_PASSWORD_LEN
      BY <2>1 DEF Inv, TypeOK, Lengths
    <3>4. key'.len = digest_len[auth]
      BY <2>1
    <3> QED BY <2>1, <3>2, <3>3, <3>4 DEF Keys, KeyUsable, args
  <2> QED BY <2>1, <2>2, <2>3 DEF Inv
<1>7. CASE CutKey
  <2>1. pc = "cut" /\ pc' \in {"usage", "done"} /\ UNCHANGED <<args, stream, written>>
    BY <1>7 DEF CutKey, Goto
  <2>2. TypeOK' /\ Lengths' /\ Repeats' /\ Whole'
    BY <2>1 DEF Inv, TypeOK, Lengths, Repeats, Whole, args
  <2>3. Keys'
    <3>1. CASE pc' = "usage"
      BY <3>1 DEF Keys, KeyUsable
    <3>2. CASE pc' = "done"
      <4>1. /\ ~(key.len < key_len[priv]) /\ key' = [key EXCEPT !.len = key_len[priv]]
        BY <1>7, <2>1, <3>2 DEF CutKey, Goto, too_short
      <4>2. key = [of |-> <<auth, stream, engine, stream>>, len |-> digest_len[auth]]
            /\ priv \in PrivProtocol /\ auth \in AuthProtocol
            /\ Len(pw) >= MIN_USM_PASSWORD_LEN
        BY <2>1 DEF Inv, TypeOK, Keys, Lengths
      <4>3. key'.len = key_len[priv] /\ key.len = digest_len[auth]
        BY <4>1, <4>2
      <4>4. digest_len[auth] \in Nat /\ key_len[priv] \in Nat
        BY <4>2 DEF AuthProtocol, PrivProtocol, digest_len, key_len
      <4>5. key_len[priv] <= digest_len[auth]
        BY <4>1, <4>3, <4>4, SMT
      <4>6. priv # NoPriv
        BY <4>2, StretchAssumption
      <4> QED BY <2>1, <3>2, <4>2, <4>3, <4>5, <4>6 DEF Keys, KeyUsable, args
    <3> QED BY <2>1, <3>1, <3>2
  <2> QED BY <2>1, <2>2, <2>3 DEF Inv
<1>8. CASE UNCHANGED vars
  BY <1>8 DEF vars, args, Inv, TypeOK, Lengths, Repeats, Whole, Keys, KeyUsable
<1> QED BY <1>3, <1>4, <1>5, <1>6, <1>7, <1>8 DEF Next

LEMMA Invariance == Spec => []Inv
<1> QED BY Initially, Inductive, PTL DEF Spec

(* usm.rs:335-344: the loop counts exactly what it hashes and never passes
   TARGET. *)
THEOREM TypeCorrect == Spec => []TypeOK
<1>1. Inv => TypeOK
  BY DEF Inv
<1> QED BY Invariance, <1>1, PTL

(* usm.rs:335-344: the hash is of the passphrase, repeated to TARGET octets. *)
THEOREM Stretched == Spec => []StreamExact
<1>1. Inv => StreamExact
  BY DEF Inv, TypeOK, Lengths, Repeats, StreamExact
<1> QED BY Invariance, <1>1, PTL

(* usm.rs:160-203: a key that is returned has the length of its protocol and
   comes from a passphrase of the least length. *)
THEOREM KeysUsable == Spec => []KeyUsable
<1>1. Inv => KeyUsable
  BY DEF Inv, Keys
<1> QED BY Invariance, <1>1, PTL

(* usm.rs:338-342: every chunk brings the loop closer to TARGET and never past it,
   the last one too, since no passphrase that gets here is empty: what
   Derived rests on. *)
THEOREM ChunksAdvance ==
    Spec => [][pc = "stretch" /\ pc' = "stretch" =>
                   written < written' /\ written' <= TARGET]_vars
<1>1. Inv /\ [Next]_vars => [pc = "stretch" /\ pc' = "stretch" =>
                                written < written' /\ written' <= TARGET]_vars
  <2>1. SUFFICES ASSUME Inv, Next, pc = "stretch", pc' = "stretch"
                 PROVE  written < written' /\ written' <= TARGET
    OBVIOUS
  <2>2. written < TARGET /\ written' = written + take
    BY <2>1 DEF Next, CheckLength, Update, Finalize, Localize, CutKey, Goto
  <2>3. Len(pw) \in Nat /\ Len(pw) >= 8
    BY <2>1, StretchAssumption DEF Inv, TypeOK, Lengths, MIN_USM_PASSWORD_LEN
  <2>4. TARGET \in Nat /\ written \in Nat
    BY <2>1, StretchAssumption DEF Inv, TypeOK
  <2>5. take = IF TARGET - written <= Len(pw) THEN TARGET - written ELSE Len(pw)
    BY DEF take
  <2>6. QED
    BY <2>2, <2>3, <2>4, <2>5, SMT
<1> QED BY <1>1, Invariance, PTL DEF Spec
-------------------------------------------------------------------------------
(* The message: what each step has made so far is what the receiver will make
   of the fields it reads, and no later step touches it. *)

Authoritative == IF req.authoritative = None THEN HostEngineId ELSE req.authoritative

Context == IF req.context = None THEN Authoritative ELSE req.context

Past(labels) == msg_pc \in labels \/ outcome = "Ok"

Fields == {"authoritative", "context", "security", "auth_key", "priv_key", "salt", "time", "msg_id",
           "request_id"}

Control ==
    /\ req \in Requests /\ DOMAIN m = Fields
    /\ msg_pc \in {"ids", "secure", "assemble", "scope", "encode", "sign", "end"}
    /\ outcome \in {"none", "Usage", "Ok"} /\ (outcome = "Ok" => msg_pc = "end")

Identified ==
    Past({"secure", "assemble", "scope", "encode", "sign"}) =>
        m.authoritative = Authoritative /\ m.context = Context

(* The variant is that of the level. *)
Variant ==
    \/ req.level = "noAuthNoPriv" /\ m.security = "NoAuthNoPriv"
    \/ req.level = "authNoPriv"   /\ m.security = "AuthNoPriv"
    \/ req.level = "authPriv"     /\ m.security = "AuthPriv"

(* The keys are those of the engine that the message names. *)
Secured ==
    Past({"assemble", "scope", "encode", "sign"}) =>
        /\ Variant
        /\ Message!Signs(m) =>
               m.auth_key = Message!password_to_key("auth pass", m.authoritative, req.auth)
        /\ Message!Encrypts(m) =>
               m.priv_key = Message!priv_key_from_password("priv pass", m.authoritative,
                                                           req.auth, req.priv)

Scoped ==
    IF Message!Encrypts(m)
    THEN Message!priv_encrypt(Message!scoped_pdu(req, m), m.priv_key,
                              Message!make_aes_iv(1, m.time, m.salt), req.priv)
    ELSE Message!scoped_pdu(req, m)

Unsigned == Message!message(req, m, Message!Zeros(Message!auth_len(req, m)), scoped)

Signed ==
    IF Message!Signs(m)
    THEN Message!message(req, m, Message!auth_sign(unsigned, m.auth_key, req.auth), scoped)
    ELSE unsigned

Built ==
    /\ Past({"encode", "sign"}) => scoped = Scoped
    /\ Past({"sign"}) => unsigned = Unsigned
    /\ outcome = "Ok" => wire = Signed

MessageInv == Control /\ Identified /\ Secured /\ Built

LEMMA MessageInit == Message!Init => MessageInv
<1> SUFFICES ASSUME Message!Init PROVE MessageInv
  OBVIOUS
<1>1. req \in Requests /\ msg_pc = "ids" /\ outcome = "none" /\ DOMAIN m = Fields
  BY DEF Message!Init, Fields
<1> QED BY <1>1 DEF MessageInv, Control, Identified, Secured, Built, Past

(* The steps. *)
LEMMA MessageResolve == ASSUME MessageInv, Message!ResolveIds PROVE MessageInv'
<1>1. /\ msg_pc = "ids" /\ req' = req /\ req \in Requests /\ DOMAIN m = Fields
      /\ \/ msg_pc' = "end" /\ outcome' = "Usage" /\ m' = m
         \/ /\ m' = [m EXCEPT !.authoritative = Authoritative, !.context = Context]
            /\ msg_pc' = "secure" /\ outcome' = outcome
  BY DEF Message!ResolveIds, MessageInv, Control, Authoritative, Context
<1>2. outcome # "Ok" /\ outcome \in {"none", "Usage", "Ok"}
  BY <1>1 DEF MessageInv, Control
<1>3. CASE msg_pc' = "end" /\ outcome' = "Usage" /\ m' = m
  BY <1>1, <1>3 DEF MessageInv, Control, Identified, Secured, Built, Past
<1>4. CASE /\ m' = [m EXCEPT !.authoritative = Authoritative, !.context = Context]
           /\ msg_pc' = "secure" /\ outcome' = outcome
  <2>1. DOMAIN m' = Fields /\ m'.authoritative = Authoritative /\ m'.context = Context
    BY <1>1, <1>4 DEF Fields
  <2>2. Authoritative' = Authoritative /\ Context' = Context
    BY <1>1 DEF Authoritative, Context
  <2>3. Identified'
    BY <2>1, <2>2 DEF Identified
  <2> QED BY <1>1, <1>2, <1>4, <2>1, <2>3 DEF MessageInv, Control, Secured, Built, Past
<1> QED BY <1>1, <1>3, <1>4

LEMMA MessageSecure == ASSUME MessageInv, Message!Secure PROVE MessageInv'
<1> DEFINE id == m.authoritative
           derived == Message!password_to_key("auth pass", id, req.auth)
           cut == Message!priv_key_from_password("priv pass", id, req.auth, req.priv)
<1>1. /\ msg_pc = "secure" /\ req' = req /\ req \in Requests /\ DOMAIN m = Fields
      /\ outcome # "Ok" /\ outcome \in {"none", "Usage", "Ok"}
      /\ m.authoritative = Authoritative /\ m.context = Context
  BY DEF Message!Secure, Message!SecureFor, MessageInv, Control, Identified, Past
<1>2. \/ msg_pc' = "end" /\ outcome' = "Usage" /\ m' = m
      \/ /\ msg_pc' = "assemble" /\ outcome' = outcome
         /\ \/ /\ req.level = "noAuthNoPriv"
               /\ m' = [m EXCEPT !.security = "NoAuthNoPriv"]
            \/ /\ req.level = "authNoPriv"
               /\ m' = [m EXCEPT !.security = "AuthNoPriv", !.auth_key = derived]
            \/ /\ req.level = "authPriv"
               /\ \E salt \in Salts : m' = [m EXCEPT !.security = "AuthPriv",
                      !.auth_key = derived, !.priv_key = cut, !.salt = salt]
  BY DEF Message!Secure, Message!SecureFor
<1> HIDE DEF derived, cut
<1>3. CASE msg_pc' = "end" /\ outcome' = "Usage" /\ m' = m
  BY <1>1, <1>3 DEF MessageInv, Control, Identified, Secured, Built, Past
<1>4. CASE msg_pc' = "assemble" /\ outcome' = outcome
  <2>1. DOMAIN m' = Fields /\ m'.authoritative = id /\ m'.context = m.context
    BY <1>1, <1>2, <1>4 DEF Fields
  <2>2. Authoritative' = Authoritative /\ Context' = Context
    BY <1>1 DEF Authoritative, Context
  <2>3. Identified'
    BY <1>1, <2>1, <2>2 DEF Identified
  <2>4. \/ req.level = "noAuthNoPriv" /\ m'.security = "NoAuthNoPriv"
        \/ req.level = "authNoPriv" /\ m'.security = "AuthNoPriv" /\ m'.auth_key = derived
        \/ /\ req.level = "authPriv" /\ m'.security = "AuthPriv"
           /\ m'.auth_key = derived /\ m'.priv_key = cut
    BY <1>1, <1>2, <1>4 DEF Fields
  <2>5. Variant'
    BY <1>1, <2>4 DEF Variant
  <2>6. /\ Message!Signs(m)' => m'.auth_key = derived
        /\ Message!Encrypts(m)' => m'.priv_key = cut
    BY <2>4 DEF Message!Signs, Message!Encrypts
  <2>7. Secured'
    BY <1>1, <2>1, <2>5, <2>6 DEF Secured, derived, cut
  <2> QED BY <1>1, <1>4, <2>1, <2>3, <2>7 DEF MessageInv, Control, Built, Past
<1> QED BY <1>2, <1>3, <1>4

LEMMA MessageAssemble == ASSUME MessageInv, Message!Assemble PROVE MessageInv'
<1>1. /\ msg_pc = "assemble" /\ req' = req /\ req \in Requests /\ DOMAIN m = Fields
      /\ outcome # "Ok" /\ outcome \in {"none", "Usage", "Ok"} /\ outcome' = outcome
      /\ msg_pc' = "scope"
      /\ m' = [m EXCEPT !.time = now, !.msg_id = Message!MAX_ID, !.request_id = 77]
  BY DEF Message!Assemble, MessageInv, Control
<1>2. /\ DOMAIN m' = Fields /\ m'.authoritative = m.authoritative
      /\ m'.context = m.context /\ m'.security = m.security
      /\ m'.auth_key = m.auth_key /\ m'.priv_key = m.priv_key
  BY <1>1 DEF Fields
<1>3. Identified'
  <2>1. m.authoritative = Authoritative /\ m.context = Context
    BY <1>1 DEF MessageInv, Identified, Past
  <2>2. Authoritative' = Authoritative /\ Context' = Context
    BY <1>1 DEF Authoritative, Context
  <2> QED BY <1>2, <2>1, <2>2 DEF Identified
<1>4. Secured'
  BY <1>1, <1>2 DEF MessageInv, Secured, Past, Variant, Message!Signs, Message!Encrypts
<1> QED BY <1>1, <1>2, <1>3, <1>4 DEF MessageInv, Control, Built, Past

(* The steps after the message has its fields. *)
LEMMA MessageRest ==
    ASSUME MessageInv, Message!Scope \/ Message!Encode \/ Message!Sign
    PROVE  MessageInv'
<1>1. req' = req /\ m' = m /\ req \in Requests /\ DOMAIN m = Fields
      /\ msg_pc \in {"scope", "encode", "sign"} /\ outcome # "Ok"
      /\ outcome \in {"none", "Usage", "Ok"}
  BY DEF Message!Scope, Message!ScopeAt, Message!Encode, Message!Sign, MessageInv, Control
<1>2. Identified'
  <2>1. m.authoritative = Authoritative /\ m.context = Context
    BY <1>1 DEF MessageInv, Identified, Past
  <2>2. Authoritative' = Authoritative /\ Context' = Context
    BY <1>1 DEF Authoritative, Context
  <2> QED BY <1>1, <2>1, <2>2 DEF Identified
<1>3. Secured'
  BY <1>1 DEF MessageInv, Secured, Past, Variant
<1>4. Scoped' = Scoped
  BY <1>1 DEF Scoped
<1>5. CASE Message!Scope
  <2>1. scoped' = Scoped /\ msg_pc' = "encode" /\ outcome' = outcome
    BY <1>5 DEF Message!Scope, Message!ScopeAt, Message!BOOTS, Scoped
  <2>2. Built'
    BY <1>1, <1>4, <2>1 DEF Built, Past
  <2> QED BY <1>1, <1>2, <1>3, <2>1, <2>2 DEF MessageInv, Control
<1>6. CASE Message!Encode
  <2>1. /\ unsigned' = Unsigned /\ msg_pc = "encode" /\ msg_pc' = "sign"
        /\ outcome' = outcome /\ scoped' = scoped
    BY <1>6 DEF Message!Encode, Unsigned
  <2>2. Unsigned' = Unsigned
    BY <1>1, <2>1 DEF Unsigned
  <2>3. scoped = Scoped
    BY <2>1 DEF MessageInv, Built, Past
  <2>4. Built'
    BY <1>1, <1>4, <2>1, <2>2, <2>3 DEF Built, Past
  <2> QED BY <1>1, <1>2, <1>3, <2>1, <2>4 DEF MessageInv, Control
<1>7. CASE Message!Sign
  <2>1. /\ wire' = Signed /\ msg_pc = "sign" /\ msg_pc' = "end"
        /\ outcome' = "Ok" /\ scoped' = scoped /\ unsigned' = unsigned
    BY <1>7 DEF Message!Sign, Signed
  <2>2. Unsigned' = Unsigned /\ Signed' = Signed
    BY <1>1, <2>1 DEF Unsigned, Signed
  <2>3. scoped = Scoped /\ unsigned = Unsigned
    BY <2>1 DEF MessageInv, Built, Past
  <2>4. Built'
    BY <1>4, <2>1, <2>2, <2>3 DEF Built
  <2> QED BY <1>1, <1>2, <1>3, <2>1, <2>4 DEF MessageInv, Control
<1> QED BY <1>5, <1>6, <1>7

LEMMA MessageStill ==
    ASSUME MessageInv, Message!Tick \/ UNCHANGED Message!vars
    PROVE  MessageInv'
<1>1. UNCHANGED <<msg_pc, req, m, scoped, unsigned, wire, outcome>>
  BY DEF Message!Tick, Message!vars
<1>2. UNCHANGED <<Authoritative, Context, Scoped, Unsigned, Signed>>
  BY <1>1 DEF Authoritative, Context, Scoped, Unsigned, Signed
<1> QED BY <1>1, <1>2 DEF MessageInv, Control, Identified, Secured, Variant, Built, Past

LEMMA MessageInvariance == Message!Spec => []MessageInv
<1>1. MessageInv /\ [Message!Next]_(Message!vars) => MessageInv'
  <2> SUFFICES ASSUME MessageInv, [Message!Next]_(Message!vars) PROVE MessageInv'
    OBVIOUS
  <2>1. CASE Message!ResolveIds
    BY <2>1, MessageResolve
  <2>2. CASE Message!Secure
    BY <2>2, MessageSecure
  <2>3. CASE Message!Assemble
    BY <2>3, MessageAssemble
  <2>4. CASE Message!Scope \/ Message!Encode \/ Message!Sign
    BY <2>4, MessageRest
  <2>5. CASE Message!Tick \/ UNCHANGED Message!vars
    BY <2>5, MessageStill
  <2> QED BY <2>1, <2>2, <2>3, <2>4, <2>5 DEF Message!Next
<1> QED BY <1>1, MessageInit, PTL DEF Message!Spec

(* What a receiver finds in a message. *)
LEMMA MessageParts ==
    ASSUME NEW r, NEW v, NEW tag, NEW body, NEW w, w = Message!message(r, v, tag, body)
    PROVE  /\ Message!UsmParams(w) = Message!usm_params(r, v, tag)
           /\ Message!Flags(w) = Message!flag_byte(v)
           /\ Message!Field(w, 4) = body
           /\ Message!WellFormed(w)
<1> DEFINE u == Message!usm_params(r, v, tag)
           g == Message!Seqn(<<Message!Integer(v.msg_id), Message!Integer(Message!MAX_SIZE),
                               Message!Octets(<<"flags", Message!flag_byte(v)>>, 1),
                               Message!Integer(3)>>)
           items == <<Message!Integer(3), g, Message!Wrapped(u), body>>
<1>1. w.value = items /\ w.len = Message!Total(items)
  BY DEF Message!message, Message!Seqn, Message!Leaf
<1>2. Message!Field(w, 4) = body /\ Message!Field(w, 3) = Message!Wrapped(u)
      /\ Message!Field(w, 2) = g
  BY <1>1 DEF Message!Field
<1>3. Message!UsmParams(w) = u
  BY <1>2 DEF Message!UsmParams, Message!Field, Message!Wrapped, Message!Octets, Message!Leaf
<1>4. Message!Flags(w) = Message!flag_byte(v)
  BY <1>2 DEF Message!Flags, Message!Field, Message!Seqn, Message!Octets, Message!Leaf
<1>5. Message!Field(w, 3).len = Message!Size(u)
  BY <1>2 DEF Message!Wrapped, Message!Octets, Message!Leaf
<1>6. u.len = Message!Total(u.value)
  BY DEF Message!usm_params, Message!Seqn, Message!Leaf
<1> QED BY <1>1, <1>2, <1>3, <1>4, <1>5, <1>6 DEF Message!WellFormed

LEMMA ParamsParts ==
    ASSUME NEW r, NEW v, NEW tag, NEW u, u = Message!usm_params(r, v, tag)
    PROVE  /\ u.value[1].value[2] = v.authoritative
           /\ u.value[2].value[2] = 1 /\ u.value[3].value[2] = v.time
           /\ u.value[5] = tag
           /\ Message!Encrypts(v) => u.value[6].value[2] = v.salt /\ u.value[6].len = 8
           /\ ~Message!Encrypts(v) => u.value[6].len = 0
<1>1. u.value = <<Message!Octets(<<"engine", v.authoritative>>, EngineIdLen[v.authoritative]),
                  Message!Integer(Message!BOOTS), Message!Integer(v.time),
                  Message!Octets(<<"user">>, r.user), tag,
                  IF Message!Encrypts(v) THEN Message!Octets(<<"salt", v.salt>>, 8)
                                         ELSE Message!Zeros(0)>>
  BY DEF Message!usm_params, Message!Seqn, Message!Leaf
<1> QED BY <1>1 DEF Message!Integer, Message!Octets, Message!Zeros, Message!Leaf, Message!BOOTS

(* Encodings as long as each other leave the lengths around them alone. *)
LEMMA SameTotal ==
    ASSUME NEW s, NEW t, DOMAIN s = DOMAIN t,
           \A i \in DOMAIN s : Message!Size(s[i]) = Message!Size(t[i])
    PROVE  Message!Total(s) = Message!Total(t)
<1>1. [i \in DOMAIN s |-> Message!Size(s[i])] = [i \in DOMAIN t |-> Message!Size(t[i])]
  OBVIOUS
<1> QED BY <1>1, Zenon DEF Message!Total

(* Two tags of one length leave the rest of the message, and its length, as they
   are: the one is in the place of the other. *)
LEMMA TagReplaced ==
    ASSUME NEW r, NEW v, NEW x, NEW n, NEW body, NEW w,
           w = Message!message(r, v, Message!Octets(x, n), body)
    PROVE  /\ Message!Zeroed(w) = Message!message(r, v, Message!Zeros(n), body)
           /\ Message!Size(w) = Message!Size(Message!message(r, v, Message!Zeros(n), body))
<1> DEFINE a == Message!Octets(<<"engine", v.authoritative>>, EngineIdLen[v.authoritative])
           b == Message!Integer(Message!BOOTS)
           c == Message!Integer(v.time)
           d == Message!Octets(<<"user">>, r.user)
           e == IF Message!Encrypts(v) THEN Message!Octets(<<"salt", v.salt>>, 8)
                                       ELSE Message!Zeros(0)
           t == Message!Octets(x, n)
           z == Message!Zeros(n)
           items == <<a, b, c, d, t, e>>
           zeroed == <<a, b, c, d, z, e>>
           u == Message!usm_params(r, v, t)
           y == Message!usm_params(r, v, z)
           f == Message!Integer(3)
           g == Message!Seqn(<<Message!Integer(v.msg_id), Message!Integer(Message!MAX_SIZE),
                               Message!Octets(<<"flags", Message!flag_byte(v)>>, 1),
                               Message!Integer(3)>>)
           all == <<f, g, Message!Wrapped(u), body>>
           every == <<f, g, Message!Wrapped(y), body>>
<1>1. u = Message!Seqn(items) /\ y = Message!Seqn(zeroed)
  BY DEF Message!usm_params
<1>2. w = Message!Seqn(all) /\ Message!message(r, v, z, body) = Message!Seqn(every)
  BY DEF Message!message
<1>3. t = [len |-> n, tag |-> "oct", value |-> x]
      /\ z = [len |-> n, tag |-> "oct", value |-> <<"zeros">>]
  BY DEF Message!Octets, Message!Zeros, Message!Leaf
<1>4. Message!Size(t) = Message!Size(z)
  BY <1>3 DEF Message!Size
<1> HIDE DEF a, b, c, d, e, t, z, f, g
<1>5. Message!Total(items) = Message!Total(zeroed)
  <2>1. DOMAIN items = 1 .. 6 /\ DOMAIN zeroed = 1 .. 6
    OBVIOUS
  <2>2. ASSUME NEW i \in 1 .. 6 PROVE Message!Size(items[i]) = Message!Size(zeroed[i])
    <3>1. i = 5 \/ items[i] = zeroed[i]
      OBVIOUS
    <3>2. items[5] = t /\ zeroed[5] = z
      OBVIOUS
    <3> HIDE DEF items, zeroed
    <3> QED BY <1>4, <3>1, <3>2
  <2> HIDE DEF items, zeroed
  <2> QED BY <2>1, <2>2, SameTotal
<1> DEFINE k == Message!Total(zeroed)
<1>6. u = [len |-> k, tag |-> "seq", value |-> items]
      /\ y = [len |-> k, tag |-> "seq", value |-> zeroed]
  BY <1>1, <1>5 DEF Message!Seqn, Message!Leaf
<1> HIDE DEF u, y, k
<1>7. Message!Size(u) = Message!Size(y)
  BY <1>6 DEF Message!Size
<1> DEFINE j == Message!Size(y)
           p == Message!Wrapped(u)
           q == Message!Wrapped(y)
<1>8. p = [len |-> j, tag |-> "oct", value |-> <<u>>]
      /\ q = [len |-> j, tag |-> "oct", value |-> <<y>>]
  BY <1>7 DEF Message!Wrapped, Message!Octets, Message!Leaf
<1>9. Message!Size(p) = Message!Size(q)
  BY <1>8 DEF Message!Size
<1> HIDE DEF p, q, j
<1>10. Message!Total(all) = Message!Total(every)
  <2>1. DOMAIN all = 1 .. 4 /\ DOMAIN every = 1 .. 4
    OBVIOUS
  <2>2. ASSUME NEW i \in 1 .. 4 PROVE Message!Size(all[i]) = Message!Size(every[i])
    <3>1. i = 3 \/ all[i] = every[i]
      BY DEF p, q
    <3>2. all[3] = p /\ every[3] = q
      BY DEF p, q
    <3> HIDE DEF all, every
    <3> QED BY <1>9, <3>1, <3>2
  <2> HIDE DEF all, every
  <2> QED BY <2>1, <2>2, SameTotal
<1> DEFINE l == Message!Total(every)
<1>11. w = [len |-> l, tag |-> "seq", value |-> <<f, g, p, body>>]
       /\ Message!message(r, v, z, body)
              = [len |-> l, tag |-> "seq", value |-> <<f, g, q, body>>]
  BY <1>2, <1>10 DEF Message!Seqn, Message!Leaf, p, q
<1> HIDE DEF l, all, every
<1>12. Message!Size(w) = Message!Size(Message!message(r, v, z, body))
  BY <1>11 DEF Message!Size
<1>13. Message!Zeroed(w) = Message!message(r, v, z, body)
  <2>1. [t EXCEPT !.value = <<"zeros">>] = z
    BY <1>3
  <2>2. [items EXCEPT ![5].value = <<"zeros">>] = zeroed
    BY <2>1
  <2> HIDE DEF items, zeroed
  <2>3. [u EXCEPT !.value[5].value = <<"zeros">>] = y
    BY <1>6, <2>2
  <2>4. [<<u>> EXCEPT ![1].value[5].value = <<"zeros">>] = <<y>>
    BY <2>3
  <2>5. [p EXCEPT !.value[1].value[5].value = <<"zeros">>] = q
    BY <1>8, <2>4
  <2>6. [<<f, g, p, body>> EXCEPT ![3].value[1].value[5].value = <<"zeros">>]
            = <<f, g, q, body>>
    BY <2>5
  <2>7. [w EXCEPT !.value[3].value[1].value[5].value = <<"zeros">>]
            = Message!message(r, v, z, body)
    BY <1>11, <2>6
  <2> QED BY <2>7 DEF Message!Zeroed
<1> QED BY <1>12, <1>13 DEF z

(* What each of the four matches answers, once there is a variant. *)
LEMMA FourMatches ==
    ASSUME Variant
    PROVE  /\ Message!Signs(m) <=> req.level # "noAuthNoPriv"
           /\ Message!Encrypts(m) <=> req.level = "authPriv"
           /\ Message!auth_len(req, m)
                  = IF Message!Signs(m) THEN Message!auth_param_len[req.auth] ELSE 0
           /\ ("auth" \in Message!flag_byte(m)) <=> Message!Signs(m)
           /\ ("priv" \in Message!flag_byte(m)) <=> Message!Encrypts(m)
           /\ "reportable" \notin Message!flag_byte(m)
BY DEF Variant, Message!Signs, Message!Encrypts, Message!auth_len, Message!flag_byte

(* What the message is made of, once it is made. *)
LEMMA MessageMade ==
    ASSUME MessageInv, outcome = "Ok"
    PROVE  /\ Variant
           /\ \E tag :
                  /\ wire = Message!message(req, m, tag, scoped)
                  /\ Message!Signs(m) =>
                         tag = Message!auth_sign(unsigned, m.auth_key, req.auth)
                  /\ ~Message!Signs(m) => tag = Message!Zeros(0)
<1>1. wire = Signed /\ unsigned = Unsigned /\ Variant
  BY DEF MessageInv, Secured, Built, Past
<1>2. CASE Message!Signs(m)
  BY <1>1, <1>2 DEF Signed
<1>3. CASE ~Message!Signs(m)
  <2>1. Message!auth_len(req, m) = 0
    BY <1>1, <1>3, FourMatches
  <2>2. wire = Message!message(req, m, Message!Zeros(0), scoped)
    BY <1>1, <1>3, <2>1 DEF Signed, Unsigned
  <2> QED BY <1>1, <1>3, <2>2
<1> QED BY <1>2, <1>3

(* v3.rs:15-20, 176-183, 195-199: a receiver that puts zeros for the tag and signs
   finds the tag, whatever the lengths around it and whichever engine-IDs were
   given; and both assertions on the lengths hold. *)
THEOREM TagVerifies == Message!Spec => []ReceiverVerifies
<1>1. MessageInv => ReceiverVerifies
  <2>1. SUFFICES ASSUME MessageInv, outcome = "Ok", req.level # "noAuthNoPriv"
        PROVE  /\ Message!Size(wire) = Message!Size(unsigned)
               /\ Message!WellFormed(wire) /\ Message!Verified(wire)
    BY DEF ReceiverVerifies, Message!ReceiverVerifies, Message!SpliceKeepsLength
  <2> DEFINE n == Message!auth_param_len[req.auth]
             x == <<"hmac", req.auth, m.auth_key, unsigned>>
             tag == Message!Octets(x, n)
  <2>0. Message!Signs(m) /\ Message!auth_len(req, m) = n
    BY <2>1, MessageMade, FourMatches
  <2>2. wire = Message!message(req, m, tag, scoped)
    BY <2>0, <2>1, MessageMade DEF Message!auth_sign
  <2>3. unsigned = Message!message(req, m, Message!Zeros(n), scoped)
    BY <2>0, <2>1 DEF MessageInv, Built, Past, Unsigned
  <2>4. tag = Message!auth_sign(unsigned, m.auth_key, req.auth)
    BY DEF Message!auth_sign
  <2> HIDE DEF n, x
  <2>5. Message!Zeroed(wire) = unsigned /\ Message!Size(wire) = Message!Size(unsigned)
    BY <2>2, <2>3, TagReplaced
  <2> HIDE DEF tag
  <2>6. Message!WellFormed(wire) /\ Message!UsmParams(wire) = Message!usm_params(req, m, tag)
    BY <2>2, MessageParts
  <2>7. Message!Engine(wire) = m.authoritative /\ Message!Tag(wire) = tag
    BY <2>6, ParamsParts DEF Message!Engine, Message!Tag, Message!Field
  <2>8. m.auth_key = Message!password_to_key("auth pass", m.authoritative, req.auth)
    BY <2>0, <2>1 DEF MessageInv, Secured, Past
  <2>9. Message!Verified(wire)
    BY <2>4, <2>5, <2>7, <2>8 DEF Message!Verified
  <2> QED BY <2>5, <2>6, <2>9
<1> QED BY <1>1, MessageInvariance, PTL

(* v3.rs:107-130, usm.rs:312-318: the receiver gets the trap that was asked for,
   in the context that was asked for, by the key, the time and the salt that the
   message itself names. *)
THEOREM TrapArrives == Message!Spec => []TrapRecovered
<1>1. MessageInv => TrapRecovered
  <2>1. SUFFICES ASSUME MessageInv, outcome = "Ok"
        PROVE  Message!Readable(wire) = Message!scoped_pdu(req, [m EXCEPT !.context =
                   CASE req.context # None                              -> req.context
                     [] req.context = None /\ req.authoritative # None  -> req.authoritative
                     [] req.context = None /\ req.authoritative = None  -> HostEngineId])
    BY DEF TrapRecovered, Message!TrapRecovered
  <2> DEFINE asked ==
                 CASE req.context # None                              -> req.context
                   [] req.context = None /\ req.authoritative # None  -> req.authoritative
                   [] req.context = None /\ req.authoritative = None  -> HostEngineId
             pdu == Message!scoped_pdu(req, m)
  <2>2. asked = m.context
    <3>1. m.context = Context
      BY <2>1 DEF MessageInv, Identified, Past
    <3>2. asked = Context
      BY DEF Context, Authoritative
    <3> QED BY <3>1, <3>2
  <2> HIDE DEF asked
  <2>3. Message!scoped_pdu(req, [m EXCEPT !.context = asked]) = pdu
    <3>1. DOMAIN m = Fields
      BY <2>1 DEF MessageInv, Control
    <3>2. [m EXCEPT !.context = asked].context = m.context
          /\ [m EXCEPT !.context = asked].request_id = m.request_id
      BY <2>2, <3>1 DEF Fields
    <3> QED BY <3>2 DEF Message!scoped_pdu
  <2>9. Variant
    BY <2>1, MessageMade
  <2>4. PICK tag : wire = Message!message(req, m, tag, scoped)
    BY <2>1, MessageMade
  <2>5. /\ Message!UsmParams(wire) = Message!usm_params(req, m, tag)
        /\ Message!Flags(wire) = Message!flag_byte(m) /\ Message!Field(wire, 4) = scoped
    BY <2>4, MessageParts
  <2>6. scoped = Scoped
    BY <2>1 DEF MessageInv, Built, Past
  <2>7. CASE ~Message!Encrypts(m)
    <3>1. scoped = pdu
      BY <2>6, <2>7 DEF Scoped
    <3> QED BY <2>3, <2>5, <2>7, <2>9, <3>1, FourMatches DEF Message!Readable, asked
  <2>8. CASE Message!Encrypts(m)
    <3> DEFINE iv == Message!make_aes_iv(1, m.time, m.salt)
               u  == Message!UsmParams(wire).value
    <3>1. scoped.value = <<"aes", req.priv, m.priv_key, iv, pdu>>
      BY <2>6, <2>8 DEF Scoped, Message!priv_encrypt, Message!Octets, Message!Leaf
    <3>2. /\ Message!Engine(wire) = m.authoritative /\ u[2].value[2] = 1
          /\ u[3].value[2] = m.time /\ u[6].value[2] = m.salt
      BY <2>5, <2>8, ParamsParts DEF Message!Engine, Message!Field
    <3>3. m.priv_key = Message!priv_key_from_password("priv pass", m.authoritative,
                                                      req.auth, req.priv)
      BY <2>1, <2>8 DEF MessageInv, Secured, Past
    <3>4. Message!make_aes_iv(u[2].value[2], u[3].value[2], u[6].value[2]) = iv
      BY <3>2
    <3> HIDE DEF iv, pdu
    <3> DEFINE c == scoped.value
    <3>5. c[1] = "aes" /\ c[2] = req.priv /\ c[3] = m.priv_key /\ c[4] = iv /\ c[5] = pdu
      BY <3>1
    <3>6. Message!Decrypted(wire)
            = IF <<c[1], c[2], c[3], c[4]>>
                        = <<"aes", req.priv,
                            Message!priv_key_from_password("priv pass", Message!Engine(wire),
                                                           req.auth, req.priv),
                            Message!make_aes_iv(u[2].value[2], u[3].value[2], u[6].value[2])>>
                  THEN c[5] ELSE None
      BY <2>5 DEF Message!Decrypted
    <3> HIDE DEF c, u
    <3>7. Message!Decrypted(wire) = pdu
      BY <3>2, <3>3, <3>4, <3>5, <3>6
    <3> QED BY <2>3, <2>5, <2>8, <2>9, <3>7, FourMatches DEF Message!Readable, asked
  <2> QED BY <2>7, <2>8
<1> QED BY <1>1, MessageInvariance, PTL

(* v3.rs:22-27, 83-142: the flags say of every message which level was asked for,
   whether it has a tag that was computed, whether its scopedPDU is encrypted and
   its salt is there, and never ask for a report. *)
THEOREM FlagsTrue == Message!Spec => []FlagsTell
<1>1. MessageInv => FlagsTell
  <2>1. SUFFICES ASSUME MessageInv, outcome = "Ok"
        PROVE  /\ ("auth" \in Message!Flags(wire)) <=> req.level # "noAuthNoPriv"
               /\ ("auth" \in Message!Flags(wire)) <=> (Message!Tag(wire).len > 0)
               /\ ("auth" \in Message!Flags(wire)) <=> (Message!Tag(wire).value[1] = "hmac")
               /\ ("priv" \in Message!Flags(wire)) <=> (req.level = "authPriv")
               /\ ("priv" \in Message!Flags(wire)) <=> (Message!Field(wire, 4).tag = "oct")
               /\ ("priv" \in Message!Flags(wire)) <=> (Message!Salt(wire).len > 0)
               /\ "reportable" \notin Message!Flags(wire)
    BY DEF FlagsTell, Message!FlagsTell
  <2>2. Variant
    BY <2>1, MessageMade
  <2>3. PICK tag : /\ wire = Message!message(req, m, tag, scoped)
                   /\ Message!Signs(m) =>
                          tag = Message!auth_sign(unsigned, m.auth_key, req.auth)
                   /\ ~Message!Signs(m) => tag = Message!Zeros(0)
    BY <2>1, MessageMade
  <2>4. /\ Message!UsmParams(wire) = Message!usm_params(req, m, tag)
        /\ Message!Flags(wire) = Message!flag_byte(m) /\ Message!Field(wire, 4) = scoped
    BY <2>3, MessageParts
  <2>5. Message!Tag(wire) = tag
    BY <2>4, ParamsParts DEF Message!Tag, Message!Field
  <2>6. (Message!Salt(wire).len > 0) <=> Message!Encrypts(m)
    <3>1. Message!Salt(wire) = Message!usm_params(req, m, tag).value[6]
      BY <2>4 DEF Message!Salt, Message!Field
    <3>2. /\ Message!Encrypts(m) => Message!Salt(wire).len = 8
          /\ ~Message!Encrypts(m) => Message!Salt(wire).len = 0
      BY <3>1, ParamsParts
    <3> QED BY <3>2
  <2>7. (tag.len > 0) <=> Message!Signs(m)
    <3>1. auth_param_len[req.auth] > 0
      <4>1. req.auth \in AuthProtocol
        <5>1. req \in Message!Request
          BY <2>1, MessageAssumption DEF MessageInv, Control
        <5> QED BY <5>1 DEF Message!Request, Message!AuthProtocol, AuthProtocol
      <4> QED BY <4>1 DEF AuthProtocol, auth_param_len
    <3>2. Message!Signs(m) => tag.len = auth_param_len[req.auth]
      BY <2>3 DEF Message!auth_sign, Message!Octets, Message!Leaf, Message!auth_param_len, auth_param_len
    <3>3. ~Message!Signs(m) => tag.len = 0
      BY <2>3 DEF Message!Zeros, Message!Octets, Message!Leaf
    <3> QED BY <3>1, <3>2, <3>3
  <2>8. (tag.value[1] = "hmac") <=> Message!Signs(m)
    <3>1. Message!Signs(m) => tag.value[1] = "hmac"
      BY <2>3 DEF Message!auth_sign, Message!Octets, Message!Leaf
    <3>2. ~Message!Signs(m) => tag.value[1] = "zeros"
      BY <2>3 DEF Message!Zeros, Message!Octets, Message!Leaf
    <3> QED BY <3>1, <3>2
  <2>9. (scoped.tag = "oct") <=> Message!Encrypts(m)
    <3>1. scoped = Scoped
      BY <2>1 DEF MessageInv, Built, Past
    <3>2. Message!Encrypts(m) => scoped.tag = "oct"
      BY <3>1 DEF Scoped, Message!priv_encrypt, Message!Octets, Message!Leaf
    <3>3. ~Message!Encrypts(m) => scoped.tag = "seq"
      BY <3>1 DEF Scoped, Message!scoped_pdu, Message!Seqn, Message!Leaf
    <3> QED BY <3>2, <3>3
  <2>10. /\ Message!Signs(m) <=> req.level # "noAuthNoPriv"
         /\ Message!Encrypts(m) <=> req.level = "authPriv"
         /\ ("auth" \in Message!Flags(wire)) <=> Message!Signs(m)
         /\ ("priv" \in Message!Flags(wire)) <=> Message!Encrypts(m)
         /\ "reportable" \notin Message!Flags(wire)
    BY <2>2, <2>4, FourMatches
  <2> QED BY <2>4, <2>5, <2>6, <2>7, <2>8, <2>9, <2>10
<1> QED BY <1>1, MessageInvariance, PTL

================================================================================
