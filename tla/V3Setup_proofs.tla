---------------------------- MODULE V3Setup_proofs ----------------------------
(***************************************************************************)
(* No command line that validate() accepts makes the SNMPv3 builder panic, *)
(* and the message is protected as asked: for every length of a password   *)
(* and a user name.                                                        *)
(***************************************************************************)
EXTENDS V3Setup, TLAPS

(* The keys that a level asks for, as far as they are derived. *)
AuthKeyReady == auth_key = digest_len[cli.auth_protocol]
PrivKeyReady == /\ priv_key = key_len[cli.priv_protocol]
                /\ digest_len[cli.auth_protocol] >= key_len[cli.priv_protocol]

(* A line past validation has what its level requires. *)
Accepted ==
    /\ cli.version = "v3" /\ cli.security_level \in SecurityLevel
    /\ cli.user_name # None
    /\ cli.security_level # "noAuthNoPriv" =>
           cli.auth_protocol # None /\ require_password(cli.auth_password)
    /\ cli.security_level = "authPriv" =>
           cli.priv_protocol # None /\ require_password(cli.priv_password)

(* Phase by phase, what the next expect or assertion needs. *)
PhaseInv ==
    /\ phase \in {"validate", "security", "derive_auth"} => auth_key = None
    /\ phase # "encode" /\ outcome # "message" /\ phase # "end" => priv_key = None
    /\ phase \notin {"validate", "end"} => Accepted
    /\ phase = "derive_auth" => cli.security_level # "noAuthNoPriv"
    /\ phase = "derive_priv" => cli.security_level = "authPriv" /\ AuthKeyReady
    /\ phase = "encode" \/ outcome = "message" =>
           /\ Accepted
           /\ IF cli.security_level = "noAuthNoPriv" THEN auth_key = None
              ELSE AuthKeyReady
           /\ IF cli.security_level = "authPriv" THEN PrivKeyReady
              ELSE priv_key = None
    /\ phase # "end" => outcome = "none"
    /\ outcome # "panic"

Inv == TypeOK /\ PhaseInv

(* The tables of lengths, and that a truncated tag is a part of the digest. *)
LEMMA Lengths ==
    /\ \A a \in AuthProtocol : /\ digest_len[a] \in Nat /\ auth_param_len[a] \in Nat
                               /\ auth_param_len[a] <= digest_len[a]
    /\ \A x \in PrivProtocol : key_len[x] \in Nat
BY DEF AuthProtocol, PrivProtocol, digest_len, auth_param_len, key_len

(* A default level keeps the command line well formed. *)
LEMMA DefaultedType == ASSUME NEW c \in Cli PROVE Defaulted(c) \in Cli
BY DEF Defaulted, Cli, SecurityLevel

(* The fields of a well-formed command line. *)
LEMMA FieldTypes ==
    ASSUME NEW c \in Cli
    PROVE  /\ c.auth_protocol # None => c.auth_protocol \in AuthProtocol
           /\ c.priv_protocol # None => c.priv_protocol \in PrivProtocol
           /\ c.security_level # None => c.security_level \in SecurityLevel
           /\ c.auth_password # None => c.auth_password \in Nat
           /\ c.priv_password # None => c.priv_password \in Nat
BY DEF Cli

LEMMA InitInv == Init => Inv
BY ChoicesAssumption DEF Init, Inv, TypeOK, PhaseInv

(* What validate() does not reject is Accepted once the level is defaulted. *)
LEMMA ValidateAccepts ==
    ASSUME NEW c \in Cli, c.version = "v3", ~V3RequirementMissing(Defaulted(c))
    PROVE  LET d == Defaulted(c)
           IN  /\ d.version = "v3" /\ d.security_level \in SecurityLevel
               /\ d.user_name # None
               /\ d.security_level # "noAuthNoPriv" =>
                      d.auth_protocol # None /\ require_password(d.auth_password)
               /\ d.security_level = "authPriv" =>
                      d.priv_protocol # None /\ require_password(d.priv_password)
<1> DEFINE d == Defaulted(c)
<1>1. d.version = "v3" /\ d.security_level \in SecurityLevel
  BY DEF Defaulted, Cli, SecurityLevel
<1>2. QED
  BY <1>1 DEF V3RequirementMissing, require_some, SecurityLevel

LEMMA ValidateInv == Inv /\ Validate => Inv'
<1> SUFFICES ASSUME Inv, Validate PROVE Inv'
  OBVIOUS
<1>1. cli \in Cli /\ cli' = Defaulted(cli) /\ cli' \in Cli
  BY DefaultedType DEF Inv, TypeOK, Validate
<1>2. auth_key' = None /\ priv_key' = None /\ outcome' \in {"none", "Usage"}
  BY DEF Inv, PhaseInv, Validate, End, Go
<1>3. phase' \in {"security", "end"} /\ (phase' = "security" => outcome' = "none")
  BY DEF Inv, PhaseInv, Validate, End, Go
<1>4. phase' = "security" => Accepted'
  <2>1. phase' = "security" => cli.version = "v3" /\ ~V3RequirementMissing(Defaulted(cli))
    BY DEF Validate, End, Go
  <2>2. QED
    BY <1>1, <2>1, ValidateAccepts DEF Accepted
<1>5. QED
  BY <1>1, <1>2, <1>3, <1>4 DEF Inv, TypeOK, PhaseInv

LEMMA SecurityInv == Inv /\ Security => Inv'
<1> SUFFICES ASSUME Inv, Security PROVE Inv'
  OBVIOUS
<1>1. Accepted /\ auth_key = None /\ priv_key = None /\ outcome = "none"
  BY DEF Inv, PhaseInv, Security
<1>2. cli.security_level # None
  BY <1>1, NoneAssumption DEF Accepted, SecurityLevel
<1>3. /\ phase' = IF cli.security_level = "noAuthNoPriv" THEN "encode" ELSE "derive_auth"
      /\ outcome' = "none" /\ UNCHANGED <<cli, auth_key, priv_key>>
  BY <1>1, <1>2 DEF Security, Go, Accepted
<1>4. Accepted'
  BY <1>1, <1>3 DEF Accepted
<1>5. QED
  BY <1>1, <1>3, <1>4 DEF Inv, TypeOK, PhaseInv, SecurityLevel, Accepted

LEMMA DeriveAuthKeyInv == Inv /\ DeriveAuthKey => Inv'
<1> SUFFICES ASSUME Inv, DeriveAuthKey PROVE Inv'
  OBVIOUS
<1>1. /\ Accepted /\ cli.security_level # "noAuthNoPriv"
      /\ auth_key = None /\ priv_key = None /\ outcome = "none" /\ cli \in Cli
  BY DEF Inv, PhaseInv, DeriveAuthKey, TypeOK
<1>2. cli.auth_protocol \in AuthProtocol /\ cli.auth_protocol # None
      /\ cli.auth_password # None
  BY <1>1, FieldTypes DEF Accepted, require_password
<1>3. UNCHANGED <<cli, priv_key>> /\ Accepted'
  BY <1>1 DEF DeriveAuthKey, Accepted
<1>4. CASE PasswordTooShort(cli.auth_password)
  <2>1. phase' = "end" /\ outcome' = "Usage" /\ auth_key' = None
    BY <1>1, <1>2, <1>4 DEF DeriveAuthKey, End
  <2>2. QED
    BY <1>1, <1>3, <2>1 DEF Inv, TypeOK, PhaseInv
<1>5. CASE ~PasswordTooShort(cli.auth_password)
  <2>1. /\ phase' = IF cli.security_level = "authPriv" THEN "derive_priv" ELSE "encode"
        /\ outcome' = "none" /\ auth_key' = digest_len[cli.auth_protocol]
    BY <1>1, <1>2, <1>5 DEF DeriveAuthKey, Go
  <2>2. auth_key' \in Nat /\ AuthKeyReady'
    BY <2>1, <1>2, <1>3, Lengths DEF AuthKeyReady
  <2>3. QED
    BY <1>1, <1>3, <2>1, <2>2 DEF Inv, TypeOK, PhaseInv
<1>6. QED
  BY <1>4, <1>5

LEMMA DerivePrivKeyInv == Inv /\ DerivePrivKey => Inv'
<1> SUFFICES ASSUME Inv, DerivePrivKey PROVE Inv'
  OBVIOUS
<1> DEFINE Refused == \/ PasswordTooShort(cli.priv_password)
                      \/ digest_len[cli.auth_protocol] < key_len[cli.priv_protocol]
<1>1. /\ Accepted /\ cli.security_level = "authPriv" /\ AuthKeyReady
      /\ priv_key = None /\ outcome = "none" /\ cli \in Cli
  BY DEF Inv, PhaseInv, DerivePrivKey, TypeOK
<1>2. /\ cli.auth_protocol \in AuthProtocol /\ cli.priv_protocol \in PrivProtocol
      /\ cli.priv_protocol # None /\ cli.priv_password # None
  BY <1>1, FieldTypes DEF Accepted, require_password
<1>3. UNCHANGED <<cli, auth_key>> /\ Accepted' /\ AuthKeyReady'
  BY <1>1 DEF DerivePrivKey, Accepted, AuthKeyReady
<1>4. CASE Refused
  <2>1. phase' = "end" /\ outcome' = "Usage" /\ priv_key' = None
    BY <1>1, <1>2, <1>4 DEF DerivePrivKey, End
  <2>2. QED
    BY <1>1, <1>3, <2>1 DEF Inv, TypeOK, PhaseInv
<1>5. CASE ~Refused
  <2>1. phase' = "encode" /\ outcome' = "none" /\ priv_key' = key_len[cli.priv_protocol]
    BY <1>1, <1>2, <1>5 DEF DerivePrivKey, Go
  <2>2. priv_key' \in Nat /\ PrivKeyReady'
    BY <2>1, <1>2, <1>3, <1>5, Lengths DEF PrivKeyReady
  <2>3. QED
    BY <1>1, <1>3, <2>1, <2>2 DEF Inv, TypeOK, PhaseInv
<1>6. QED
  BY <1>4, <1>5

(* The assertions of auth_sign and priv_encrypt hold. *)
LEMMA EncodeInv == Inv /\ Encode => Inv'
<1> SUFFICES ASSUME Inv, Encode PROVE Inv'
  OBVIOUS
<1>1. /\ Accepted /\ cli \in Cli
      /\ IF cli.security_level = "noAuthNoPriv" THEN auth_key = None ELSE AuthKeyReady
      /\ IF cli.security_level = "authPriv" THEN PrivKeyReady ELSE priv_key = None
  BY DEF Inv, PhaseInv, Encode, TypeOK
<1>2. cli.security_level # "noAuthNoPriv" => SignAsserts
  BY <1>1, FieldTypes, Lengths DEF SignAsserts, AuthKeyReady, Accepted
<1>3. cli.security_level = "authPriv" => EncryptAsserts
  BY <1>1, FieldTypes, Lengths DEF EncryptAsserts, PrivKeyReady, Accepted
<1>4. phase' = "end" /\ outcome' = "message" /\ UNCHANGED <<cli, auth_key, priv_key>>
  BY <1>2, <1>3 DEF Encode, End
<1>5. /\ Accepted'
      /\ (IF cli.security_level = "noAuthNoPriv" THEN auth_key = None ELSE AuthKeyReady)'
      /\ (IF cli.security_level = "authPriv" THEN PrivKeyReady ELSE priv_key = None)'
  BY <1>1, <1>4 DEF Accepted, AuthKeyReady, PrivKeyReady
<1>6. QED
  BY <1>4, <1>5 DEF Inv, TypeOK, PhaseInv

(* Every step keeps the invariant. *)
LEMMA StepInv == Inv /\ [Next]_vars => Inv'
<1>1. Inv /\ UNCHANGED vars => Inv'
  BY DEF Inv, TypeOK, PhaseInv, Accepted, AuthKeyReady, PrivKeyReady, vars
<1>2. QED
  BY <1>1, ValidateInv, SecurityInv, DeriveAuthKeyInv, DerivePrivKeyInv, EncodeInv DEF Next

LEMMA Invariance == Spec => []Inv
BY InitInv, StepInv, PTL DEF Spec

(* The set-up stays well typed, for every command line. *)
THEOREM TypeCorrect == Spec => []TypeOK
<1>1. Inv => TypeOK
  BY DEF Inv
<1>2. QED
  BY <1>1, Invariance, PTL

(* No command line panics: the expects of lib.rs and the assertions of auth_sign
   and priv_encrypt hold whatever validate() lets through. *)
THEOREM NeverPanics == Spec => []NoPanic
<1>1. Inv => NoPanic
  BY DEF Inv, PhaseInv, NoPanic
<1>2. QED
  BY <1>1, Invariance, PTL

(* build_v3_security derives the keys the level asks for, of the lengths the
   protocols ask for, and no others. *)
THEOREM LevelKept == Spec => []ProtectedAsAsked
<1>1. Inv => ProtectedAsAsked
  <2> SUFFICES ASSUME Inv, outcome = "message" PROVE ProtectedAsAsked
    BY DEF ProtectedAsAsked
  <2>1. /\ Accepted /\ cli \in Cli
        /\ IF cli.security_level = "noAuthNoPriv" THEN auth_key = None ELSE AuthKeyReady
        /\ IF cli.security_level = "authPriv" THEN PrivKeyReady ELSE priv_key = None
    BY DEF Inv, PhaseInv, TypeOK
  <2>2. cli.security_level = "authPriv" => priv_key <= auth_key
    BY <2>1, FieldTypes, Lengths DEF Accepted, AuthKeyReady, PrivKeyReady
  <2>3. QED
    BY <2>1, <2>2 DEF ProtectedAsAsked, Accepted, AuthKeyReady, PrivKeyReady
<1>2. QED
  BY <1>1, Invariance, PTL

(* The pairs whose digest is shorter than the key cut from it. *)
LEMMA ShortDigests ==
    ASSUME NEW a \in AuthProtocol, NEW x \in PrivProtocol, digest_len[a] < key_len[x]
    PROVE  \/ a = "Sha1"   /\ x \in {"Aes192", "Aes256"}
           \/ a = "Sha224" /\ x = "Aes256"
BY DEF AuthProtocol, PrivProtocol, digest_len, key_len

(* After validate() only the derivation of a privacy key refuses, and only for
   such a pair: build_v3_security has no other refusal left, whatever the
   passwords. *)
THEOREM RefusedEarly == Spec => OnlyShortDigestsRefusedLate
<1> DEFINE Late == phase \notin {"validate"} /\ outcome' = "Usage" /\ outcome = "none"
           Short == /\ cli.security_level = "authPriv"
                    /\ \/ cli.auth_protocol = "Sha1"   /\ cli.priv_protocol \in {"Aes192", "Aes256"}
                       \/ cli.auth_protocol = "Sha224" /\ cli.priv_protocol = "Aes256"
<1>1. Inv /\ Security => ~Late
  <2> SUFFICES ASSUME Inv, Security PROVE outcome' # "Usage" \/ outcome # "none"
    OBVIOUS
  <2>1. outcome = "none" => outcome' \in {"none", "panic"}
    BY DEF Security, End, Go
  <2>2. QED
    BY <2>1
<1>2. Inv /\ DeriveAuthKey => ~Late
  <2> SUFFICES ASSUME Inv, DeriveAuthKey PROVE outcome' # "Usage"
    OBVIOUS
  <2>1. /\ cli \in Cli /\ cli.auth_protocol # None /\ outcome = "none"
        /\ require_password(cli.auth_password)
    BY DEF Inv, PhaseInv, Accepted, TypeOK, DeriveAuthKey
  <2>2. cli.auth_password # None /\ ~PasswordTooShort(cli.auth_password)
    BY <2>1, FieldTypes DEF require_password, PasswordTooShort, MIN_USM_PASSWORD_LEN
  <2>3. QED
    BY <2>1, <2>2 DEF DeriveAuthKey, Go
<1>3. Inv /\ DerivePrivKey /\ Late => Short
  <2> SUFFICES ASSUME Inv, DerivePrivKey, outcome' = "Usage" PROVE Short
    OBVIOUS
  <2>1. /\ cli \in Cli /\ Accepted /\ outcome = "none"
        /\ cli.security_level = "authPriv"
    BY DEF Inv, PhaseInv, TypeOK, DerivePrivKey
  <2>2. /\ cli.auth_protocol # None /\ cli.priv_protocol # None
        /\ require_password(cli.priv_password)
    BY <2>1 DEF Accepted
  <2>3. cli.priv_password # None /\ ~PasswordTooShort(cli.priv_password)
    BY <2>1, <2>2, FieldTypes DEF require_password, PasswordTooShort, MIN_USM_PASSWORD_LEN
  <2>4. digest_len[cli.auth_protocol] < key_len[cli.priv_protocol]
    BY <2>1, <2>2, <2>3 DEF DerivePrivKey, Go
  <2>5. cli.auth_protocol \in AuthProtocol /\ cli.priv_protocol \in PrivProtocol
    BY <2>1, <2>2, FieldTypes
  <2>6. QED
    BY <2>1, <2>4, <2>5, ShortDigests
<1>4. Inv /\ Encode => ~Late
  BY DEF Encode, End
<1>5. Inv /\ [Next]_vars => (Late => Short)
  <2>1. Validate => ~Late
    BY DEF Validate
  <2>2. UNCHANGED vars => ~Late
    BY DEF vars
  <2>3. QED
    BY <1>1, <1>2, <1>3, <1>4, <2>1, <2>2 DEF Next
<1>6. Inv /\ [Next]_vars => [Late => Short]_vars
  BY <1>5
<1>7. QED
  BY <1>6, Invariance, PTL DEF Spec, OnlyShortDigestsRefusedLate
===============================================================================
