------------------------------ MODULE MCTransport ------------------------------
(***************************************************************************)
(* Two invocations on one host: "a" has the capability for raw sockets,    *)
(* "b" does not.  One agent is on the LAN, one behind loopback, whose MTU  *)
(* takes any datagram IPv4 can carry.                                      *)
(***************************************************************************)
EXTENDS Builds

MCPort      == {162, 5000, 50000, 50001}
MCEphemeral == {50000}
MCPathMtu   == [d \in Agent |-> IF d = "lan" THEN 1500 ELSE 65536]

Raw(d, port, n, l) ==
    [raw |-> TRUE,  dst |-> d, src_port |-> port, retries |-> n, len |-> l]
Udp(d, port, n, l) ==
    [raw |-> FALSE, dst |-> d, src_port |-> port, retries |-> n, len |-> l]

(* Both transports, a pinned and an ephemeral port; payloads that fit, that
   exceed an Ethernet path, and the two at the limit of a datagram. *)
MCRequests ==
    {Raw("lan", 0, 1, 1472), Raw("lan", 162, 1, 1473),
     Raw("lo", 0, 0, 65507), Raw("lo", 0, 0, 65508),
     Udp("lan", 0, 1, 100), Udp("lan", 5000, 1, 100), Udp("lan", 162, 0, 100),
     Udp("lo", 5000, 0, 65508)}
===============================================================================
