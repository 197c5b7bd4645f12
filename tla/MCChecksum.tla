------------------------------ MODULE MCChecksum -------------------------------
(* Checksum with bytes of three bits: every parity and carry of datagrams of
   up to five bytes of payload, between addresses that fill the sum or leave
   it empty. *)
EXTENDS Checksum, SequencesExt

Some == {0, 1, 7}

Packets(headers, ports, ids, payloads) ==
    [header : headers, src : {<<0, 0, 0, 0>>, <<1, 2, 7, 6>>}, dst : {<<7, 7, 7, 6>>},
     src_port : ports, dst_port : {2}, identification : ids, payload : payloads]

(* Every source port and identification once: the sum takes every value, the
   full word too. *)
MCRequests ==
    Packets({"ip"}, {1}, Word, {<<>>, <<7>>})
        \cup Packets({"udp"}, Word, {0}, {<<>>, <<1, 7, 6>>, <<7, 7, 7, 7, 7>>})
        \cup Packets({"udp"}, {1, 63}, {0}, SeqOf(Some, 3))
================================================================================
