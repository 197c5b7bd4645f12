------------------------------- MODULE MCV3Setup -------------------------------
(***************************************************************************)
(* Every combination of the SNMPv3 security flags with password lengths    *)
(* around the limit, and the other flags one at a time.                    *)
(***************************************************************************)
EXTENDS V3Setup

Plain == [version |-> "v3", community |-> 6, timeout |-> 1, src_port |-> None,
          src_addr |-> None, security_level |-> None, user_name |-> 5,
          auth_protocol |-> None, auth_password |-> None, priv_protocol |-> None,
          priv_password |-> None, other_v3 |-> FALSE]

Length == {0, 7, 8, None}

MCChoices ==
    {[Plain EXCEPT !.security_level = l, !.user_name = u,
                   !.auth_protocol = a, !.auth_password = ap,
                   !.priv_protocol = x, !.priv_password = xp] :
        l \in SecurityLevel \cup {None}, u \in {0, 5, None},
        a \in AuthProtocol \cup {None}, ap \in Length,
        x \in PrivProtocol \cup {None}, xp \in Length}
    \cup
    {[Plain EXCEPT !.version = v, !.community = c, !.timeout = t, !.src_port = p,
                   !.src_addr = s, !.user_name = u, !.other_v3 = o] :
        v \in {"v1", "v2c", "v3"}, c \in {0, 6}, t \in {0, 1}, p \in {0, 162, None},
        s \in {"v4", "v6", "bad", None}, u \in {5, None}, o \in BOOLEAN}
===============================================================================
