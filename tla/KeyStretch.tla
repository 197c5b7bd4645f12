------------------------------- MODULE KeyStretch ------------------------------
(***************************************************************************)
(* password_to_key and priv_key_from_password of src/usm.rs: a passphrase  *)
(* is repeated to a stream of TARGET octets that is hashed without ever    *)
(* being held in memory, and the digest is localized to an engine and cut  *)
(* to the length of an AES key.                                            *)
(*                                                                         *)
(* A hash is the term of what went into it; stream is that of the loop.    *)
(***************************************************************************)
EXTENDS Usm, Sequences

CONSTANTS
    TARGET,         \* 1024 * 1024
    Passwords,      \* the passphrases, as octets
    EngineIds,      \* the engine-IDs a key is localized to
    NoPriv          \* a key that is not for a cipher

ASSUME StretchAssumption ==
    /\ TARGET \in Nat
    /\ \A pw \in Passwords : pw \in Seq(Nat)
    /\ NoPriv \notin PrivProtocol

VARIABLES
    pw,         \* the passphrase
    engine,     \* the engine-ID
    auth,       \* the authentication protocol, whose hash is used
    priv,       \* the cipher the key is for, or NoPriv
    pc,         \* "check", "stretch", "localize", "cut", "done", "usage"
    stream,     \* what was given to the hasher
    written,    \* its length, as the loop counts it
    key         \* the key: the term it is the hash of, and its length

args == <<pw, engine, auth, priv>>
vars == <<args, pc, stream, written, key>>

NoKey == [of |-> << >>, len |-> 0]

Init ==
    /\ pw \in Passwords /\ engine \in EngineIds
    /\ auth \in AuthProtocol /\ priv \in PrivProtocol \cup {NoPriv}
    /\ pc = "check" /\ stream = << >> /\ written = 0 /\ key = NoKey

Goto(label) == pc' = label

long_enough == Len(pw) >= MIN_USM_PASSWORD_LEN

CheckLength ==
    /\ pc = "check"
    /\ Goto(IF long_enough THEN "stretch" ELSE "usage")
    /\ UNCHANGED <<args, stream, written, key>>

(* Seeded fault: the last chunk is the whole passphrase, too. *)
take_whole == Len(pw)

(* Seeded fault: only whole passphrases are taken. *)
take_if_whole == IF TARGET - written >= Len(pw) THEN Len(pw) ELSE 0

(* (target - written).min(pw.len()) *)
take == IF TARGET - written <= Len(pw) THEN TARGET - written ELSE Len(pw)

Update ==
    /\ pc = "stretch" /\ written < TARGET
    /\ stream' = stream \o SubSeq(pw, 1, take)
    /\ written' = written + take
    /\ UNCHANGED <<args, pc, key>>

Finalize ==
    /\ pc = "stretch" /\ ~(written < TARGET)
    /\ Goto("localize")
    /\ UNCHANGED <<args, stream, written, key>>

(* hash(digest || engine_id || digest) *)
Localize ==
    /\ pc = "localize"
    /\ key' = [of  |-> <<auth, stream, engine, stream>>, len |-> digest_len[auth]]
    /\ Goto(IF priv = NoPriv THEN "done" ELSE "cut")
    /\ UNCHANGED <<args, stream, written>>

too_short == key.len < key_len[priv]

CutKey ==
    /\ pc = "cut"
    /\ \/ too_short /\ Goto("usage") /\ UNCHANGED key
       \/ ~too_short /\ Goto("done") /\ key' = [key EXCEPT !.len = key_len[priv]]
    /\ UNCHANGED <<args, stream, written>>

Next == CheckLength \/ Update \/ Finalize \/ Localize \/ CutKey

Spec == Init /\ [][Next]_vars

(* The call runs on one thread and waits for nobody. *)
FairSpec == Spec /\ WF_vars(Next)
-------------------------------------------------------------------------------
(* Properties. *)

(* What the variables hold; the loop counts what it gave to the hasher, and
   never gives it more than TARGET. *)
TypeOK ==
    /\ pw \in Passwords /\ engine \in EngineIds
    /\ auth \in AuthProtocol /\ priv \in PrivProtocol \cup {NoPriv}
    /\ pc \in {"check", "stretch", "localize", "cut", "done", "usage"}
    /\ stream \in Seq(Nat)
    /\ written = Len(stream) /\ written <= TARGET

(* usm.rs:335-344: what is hashed is the passphrase over and over, TARGET
   octets of it, the last copy cut where it passes the end; octet by octet as
   RFC 3414, A.2.1, writes it. *)
StreamExact ==
    pc \in {"localize", "cut", "done"} =>
        /\ Len(stream) = TARGET
        /\ \A k \in 1 .. TARGET : stream[k] = pw[((k - 1) % Len(pw)) + 1]

(* usm.rs:160-203: a key that is returned comes from a passphrase of the least
   length and has the length its protocol wants, none of it made up. *)
KeyUsable ==
    pc = "done" =>
        /\ Len(pw) >= MIN_USM_PASSWORD_LEN
        /\ key.len = IF priv = NoPriv THEN digest_len[auth] ELSE key_len[priv]
        /\ key.len <= digest_len[auth]

(* usm.rs:338-342: the loop comes to an end, with a key or a usage error. *)
Derived == <>(pc \in {"done", "usage"})
================================================================================
