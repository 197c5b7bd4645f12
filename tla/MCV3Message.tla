------------------------------ MODULE MCV3Message ------------------------------
(***************************************************************************)
(* The engine-IDs, names and traps have lengths that take those of the     *)
(* message and of its security parameters across every step of a BER       *)
(* length: 127 and 128, 255 and 256.  The stream of a passphrase has 20    *)
(* octets; passphrases divide it, do not, are as long or longer, and have  *)
(* octets all different, so that each out of its place is seen.            *)
(***************************************************************************)
EXTENDS KeyAndMessage

MCPasswords == {[i \in 1 .. n |-> i] : n \in {0, 7, 8, 9, 10, 19, 20, 21, 40}}

MCEngineIdLen == [short |-> 5, host |-> 11, long |-> 32]

MCTimes == {0, 127, 128}

Ids == {None, "short", "long", "bad"}

MCRequests ==
    {r \in [level : SecurityLevel, auth : AuthProtocol, priv : PrivProtocol,
            authoritative : Ids, context : Ids,
            user : {1, 32, 60, 180}, context_name : {0, 40}, trap : {50, 200}] :
        (* One of each pair that a level does not look at. *)
        /\ r.level = "noAuthNoPriv" => r.auth = "Sha1"
        /\ r.level # "authPriv" => r.priv = "Aes128"
        /\ "bad" \in {r.authoritative, r.context} => r.user = 1 /\ r.trap = 50}
================================================================================
