------------------------------ MODULE MCSnmpTrap ------------------------------
(***************************************************************************)
(* Instances of SnmpTrap: one invocation with every kind of command line,  *)
(* and two that compete for ports.                                         *)
(***************************************************************************)
EXTENDS SnmpTrap

MCAddr  == {"eth", "wifi"}
MCAgent == {"lan"}
MCPort  == {5000, 50000}

MCEphemeral == {50000}
MCPathMtu   == [d \in Agent |-> 1500]

Arguments(raw, port, n, l) ==
    [raw |-> raw, dst |-> "lan", src_port |-> port, retries |-> n, len |-> l]

MCRequests == {Arguments(TRUE, 0, 1, 100), Arguments(TRUE, 0, 0, 1473),
               Arguments(FALSE, 0, 1, 100), Arguments(FALSE, 5000, 0, 100)}
MCFewRequests == {Arguments(TRUE, 0, 0, 100), Arguments(FALSE, 0, 0, 100),
                  Arguments(FALSE, 50000, 0, 100)}

Line(v, positional, src, faults) ==
    [version |-> v, positional |-> positional, src |-> src, help |-> FALSE,
     debug |-> FALSE, stderr |-> "open", faults |-> faults]

(* Each version, each origin of the agent address, and each check failing
   alone or beside a later one; help, the dump and a broken stderr. *)
Good == {Line("v1", a, s, {}) : a \in {NoAddr, "eth"}, s \in {NoAddr, "wifi"}}
            \cup {Line(v, NoAddr, s, {}) : v \in {"v2c", "v3"}, s \in {NoAddr, "wifi"}}

Bad == {[c EXCEPT !.faults = f] :
            c \in {Line("v1", NoAddr, NoAddr, {}), Line("v1", "eth", NoAddr, {}),
                   Line("v3", NoAddr, NoAddr, {})},
            f \in {{x} : x \in Fault} \cup {{"stat", "keys"}, {"agent_addr", "encode"}}}

MCChoices ==
    {[c EXCEPT !.debug = d, !.stderr = e] :
        c \in Good \cup Bad, d \in BOOLEAN, e \in {"open", "broken"}}
    \cup {[c EXCEPT !.help = TRUE] : c \in Good}

MCFewChoices == {Line("v1", NoAddr, NoAddr, {}), Line("v1", NoAddr, "wifi", {}),
                 Line("v2c", NoAddr, NoAddr, {})}
===============================================================================
