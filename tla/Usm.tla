---------------------------------- MODULE Usm ----------------------------------
(***************************************************************************)
(* The security levels of cli.rs and the protocols of usm.rs, with the     *)
(* lengths in octets the code gives them.                                  *)
(***************************************************************************)
EXTENDS Naturals

SecurityLevel == {"noAuthNoPriv", "authNoPriv", "authPriv"}
AuthProtocol  == {"Sha1", "Sha224", "Sha256", "Sha384", "Sha512"}
PrivProtocol  == {"Aes128", "Aes192", "Aes256"}

digest_len == [Sha1 |-> 20, Sha224 |-> 28, Sha256 |-> 32, Sha384 |-> 48, Sha512 |-> 64]
auth_param_len == [Sha1 |-> 12, Sha224 |-> 16, Sha256 |-> 24, Sha384 |-> 32, Sha512 |-> 48]
key_len == [Aes128 |-> 16, Aes192 |-> 24, Aes256 |-> 32]

MIN_USM_PASSWORD_LEN == 8
================================================================================
