-------------------------------- MODULE V3Setup --------------------------------
(***************************************************************************)
(* From a parsed command line to the keys of an SNMPv3 message: the        *)
(* validation of cli.rs, and the part of lib.rs, usm.rs and v3.rs that     *)
(* relies on it with expect(), slices and assertions.  A step that would   *)
(* panic is a step to the outcome "panic".                                 *)
(*                                                                         *)
(* A flag's value is None or what the code tells apart of it: the length   *)
(* of a password or a user name, whether a text is there.                  *)
(***************************************************************************)
EXTENDS Usm, Sequences

CONSTANTS None,         \* an option that was not given
          CliChoices    \* the command lines

(* struct Cli: what validate() and the v3 builder look at.  other_v3 is whether
   any of -e, -E and -n is given. *)
Cli == [version        : {"v1", "v2c", "v3"},
        community      : Nat,
        timeout        : Nat,
        src_port       : Nat \cup {None},
        src_addr       : {"v4", "v6", "bad", None},
        security_level : SecurityLevel \cup {None},
        user_name      : Nat \cup {None},
        auth_protocol  : AuthProtocol \cup {None},
        auth_password  : Nat \cup {None},
        priv_protocol  : PrivProtocol \cup {None},
        priv_password  : Nat \cup {None},
        other_v3       : BOOLEAN]

ASSUME ChoicesAssumption == CliChoices \subseteq Cli
ASSUME NoneAssumption ==
    None \notin Nat \cup SecurityLevel \cup AuthProtocol \cup PrivProtocol

VARIABLES
    cli,        \* the command line, updated by validate()
    phase,      \* the next step
    auth_key,   \* the length of the localized auth key, None before
    priv_key,   \* the length of the priv key, None before
    outcome     \* "none", "Usage", "panic", or "message"

vars == <<cli, phase, auth_key, priv_key, outcome>>

-------------------------------------------------------------------------------
(* Cli::validate, check by check.  Each is TRUE when the check rejects. *)

NoCommunity(c) == c.version # "v3" /\ c.community = 0
BadTransportFlags(c) ==
    c.timeout = 0 \/ c.src_port = 0 \/ c.src_addr \in {"v6", "bad"}

(* validate_v3_flag_scope. *)
V3FlagOutOfScope(c) ==
    /\ c.version # "v3"
    /\ \/ c.other_v3
       \/ \E f \in {"security_level", "user_name", "auth_protocol", "auth_password",
                    "priv_protocol", "priv_password"} : c[f] # None

(* The default of -l under -v 3. *)
Defaulted(c) ==
    IF c.version = "v3" /\ c.security_level = None
    THEN [c EXCEPT !.security_level = "noAuthNoPriv"] ELSE c

require_some(v)     == v # None

(* Seeded faults: only the length of what was given is looked at; only whether
   something was given is. *)
require_long(v)     == v # None => v >= MIN_USM_PASSWORD_LEN
require_any(v)      == v # None

require_password(v) == v # None /\ v >= MIN_USM_PASSWORD_LEN

(* validate_v3_required. *)
V3RequirementMissing(c) ==
    /\ c.version = "v3"
    /\ \/ c.user_name \in {None, 0}
       \/ /\ c.security_level \in {"authNoPriv", "authPriv"}
          /\ ~(require_some(c.auth_protocol) /\ require_password(c.auth_password))
       \/ /\ c.security_level = "authPriv"
          /\ ~(require_some(c.priv_protocol) /\ require_password(c.priv_password))

(* password_to_key: a localized key as long as the digest, or too short a
   password. *)
PasswordTooShort(n) == n < MIN_USM_PASSWORD_LEN

-------------------------------------------------------------------------------
Init == /\ cli \in CliChoices
        /\ phase = "validate"
        /\ auth_key = None /\ priv_key = None
        /\ outcome = "none"

End(o) == /\ phase' = "end" /\ outcome' = o

Go(next) == /\ phase' = next /\ UNCHANGED outcome

Validate ==
    /\ phase = "validate"
    /\ cli' = Defaulted(cli)
    /\ IF \/ NoCommunity(cli) \/ BadTransportFlags(cli) \/ V3FlagOutOfScope(cli)
          \/ V3RequirementMissing(Defaulted(cli))
       THEN End("Usage")
       ELSE Go(IF cli.version = "v3" THEN "security" ELSE "end")
    /\ UNCHANGED <<auth_key, priv_key>>

(* build_v3_payload, the expects on the level and the user, and the match of
   build_v3_security. *)
Security ==
    /\ phase = "security"
    /\ IF cli.security_level = None \/ cli.user_name = None
       THEN End("panic")
       ELSE Go(IF cli.security_level = "noAuthNoPriv" THEN "encode" ELSE "derive_auth")
    /\ UNCHANGED <<cli, auth_key, priv_key>>

(* auth_proto, derive_auth_key. *)
DeriveAuthKey ==
    /\ phase = "derive_auth"
    /\ IF cli.auth_protocol = None
       THEN End("Usage") /\ UNCHANGED auth_key
       ELSE IF cli.auth_password = None
       THEN End("panic") /\ UNCHANGED auth_key
       ELSE IF PasswordTooShort(cli.auth_password)
       THEN End("Usage") /\ UNCHANGED auth_key
       ELSE /\ auth_key' = digest_len[cli.auth_protocol]
            /\ Go(IF cli.security_level = "authPriv" THEN "derive_priv" ELSE "encode")
    /\ UNCHANGED <<cli, priv_key>>

(* Seeded fault: the key is not cut to the length of the cipher's. *)
DerivePrivKeyUncut ==
    /\ phase = "derive_priv"
    /\ cli.priv_protocol # None /\ cli.priv_password # None
    /\ digest_len[cli.auth_protocol] >= key_len[cli.priv_protocol]
    /\ priv_key' = digest_len[cli.auth_protocol]
    /\ Go("encode")
    /\ UNCHANGED <<cli, auth_key>>

(* priv_proto, priv_key_from_password: the digest must be as long as the key,
   which is its prefix. *)
DerivePrivKey ==
    /\ phase = "derive_priv"
    /\ IF cli.priv_protocol = None
       THEN End("Usage") /\ UNCHANGED priv_key
       ELSE IF cli.priv_password = None
       THEN End("panic") /\ UNCHANGED priv_key
       ELSE IF \/ PasswordTooShort(cli.priv_password)
               \/ digest_len[cli.auth_protocol] < key_len[cli.priv_protocol]
       THEN End("Usage") /\ UNCHANGED priv_key
       ELSE /\ priv_key' = key_len[cli.priv_protocol]
            /\ Go("encode")
    /\ UNCHANGED <<cli, auth_key>>

(* build_v3_trap_message: what auth_sign and priv_encrypt assert of their keys,
   and the truncation of the tag, a slice of the digest. *)
SignAsserts    == /\ auth_key = digest_len[cli.auth_protocol]
                  /\ auth_param_len[cli.auth_protocol] <= digest_len[cli.auth_protocol]
EncryptAsserts == priv_key >= key_len[cli.priv_protocol]

Encode ==
    /\ phase = "encode"
    /\ End(IF /\ cli.security_level # "noAuthNoPriv" => SignAsserts
              /\ cli.security_level = "authPriv"     => EncryptAsserts
           THEN "message" ELSE "panic")
    /\ UNCHANGED <<cli, auth_key, priv_key>>

Next == Validate \/ Security \/ DeriveAuthKey \/ DerivePrivKey \/ Encode

Spec == Init /\ [][Next]_vars

-------------------------------------------------------------------------------
(* Properties. *)

(* cli.rs:212-258, lib.rs:196-229: what the set-up holds in each phase. *)
TypeOK == /\ cli \in Cli
          /\ phase \in {"validate", "security", "derive_auth", "derive_priv", "encode", "end"}
          /\ auth_key \in Nat \cup {None}
          /\ priv_key \in Nat \cup {None}
          /\ outcome \in {"none", "Usage", "panic", "message"}

(* No command line that is accepted makes the builder panic: every expect() and
   every assertion on a key length downstream of validate() holds.
   (lib.rs: the four expects; usm.rs: auth_sign, priv_encrypt.) *)
NoPanic == outcome # "panic"

(* After validation only one thing is left to refuse, a digest too short for
   the cipher: the other refusals of the builder are dead code, and the user
   hears of them before anything is resolved or opened.
   (build_v3_security against validate_v3_required.) *)
OnlyShortDigestsRefusedLate ==
    [][phase \notin {"validate"} /\ outcome' = "Usage" /\ outcome = "none" =>
           /\ cli.security_level = "authPriv"
           /\ \/ cli.auth_protocol = "Sha1"   /\ cli.priv_protocol \in {"Aes192", "Aes256"}
              \/ cli.auth_protocol = "Sha224" /\ cli.priv_protocol = "Aes256"]_vars

(* A message is protected as its level says: authenticated with a key of the
   chosen protocol, encrypted with one of the cipher's length, and by nothing
   the level does not ask for. (build_v3_security.) *)
ProtectedAsAsked ==
    outcome = "message" =>
        /\ cli.version = "v3" /\ cli.user_name # None
        /\ IF cli.security_level = "noAuthNoPriv" THEN auth_key = None
           ELSE auth_key = digest_len[cli.auth_protocol]
        /\ IF cli.security_level = "authPriv"
           THEN priv_key = key_len[cli.priv_protocol] /\ priv_key <= auth_key
           ELSE priv_key = None

(* README.md:156 says of -A that it is "required when `-a` is set".  Under
   noAuthNoPriv it is not. (validate_v3_required.) *)
AuthPasswordWithProtocol ==
    outcome = "message" /\ cli.auth_protocol # None => cli.auth_password # None
===============================================================================
