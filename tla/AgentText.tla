------------------------------- MODULE AgentText -------------------------------
(***************************************************************************)
(* resolve_agent_string of src/cli.rs: from the AGENT argument to the      *)
(* socket address the trap goes to.                                        *)
(*                                                                         *)
(* The text is a sequence of words; ":" is one, and so is what stands      *)
(* between two colons or makes a part of it.                               *)
(***************************************************************************)
EXTENDS Naturals, SequencesExt

CONSTANTS
    Word,       \* the words: "udp", ":", "[", the ports and others
    Ports,      \* the words that are numbers up to 65535
    MAX_TEXT,   \* bound: the longest text
    V4, V6,     \* the addresses the resolver may give, of either family
    MAX_ADDRS   \* bound: the most addresses it gives

VARIABLES
    agent,      \* the argument
    pc,         \* "parse", "lookup", "done", "usage"
    sought,     \* the host and port given to to_socket_addrs
    answer,     \* history: what the resolver gave
    dst         \* the socket address: an IP address and a port

vars == <<agent, pc, sought, answer, dst>>

DEFAULT_TRAP_PORT == "default"
Nothing == [host |-> << >>, port |-> "none"]
NoDst   == [ip |-> "none", port |-> "none"]

Init ==
    /\ agent \in BoundedSeq(Word, MAX_TEXT)
    /\ pc = "parse" /\ sought = Nothing /\ answer = << >> /\ dst = NoDst

Usage == pc' = "usage" /\ UNCHANGED <<agent, sought, answer, dst>>

(* strip_prefix("udp:").unwrap_or(agent) *)
stripped ==
    IF IsPrefix(<<"udp", ":">>, agent) THEN SubSeq(agent, 3, Len(agent)) ELSE agent

Colons(s) == {i \in DOMAIN s : s[i] = ":"}

looks_like_ipv6(s) == \/ s # << >> /\ s[1] = "["
                      \/ \E i, j \in Colons(s) : i # j

Seek(host, port) ==
    /\ sought' = [host |-> host, port |-> port]
    /\ pc' = "lookup"
    /\ UNCHANGED <<agent, answer, dst>>

RejectIpv6 == pc = "parse" /\ looks_like_ipv6(stripped) /\ Usage

(* rsplit_once(':'), with a host before it that holds none. *)
HasPort(s) == Colons(s) # {} /\ LET k == Max(Colons(s))
                                IN  k > 1 /\ \A i \in Colons(s) : i = k

WithPort ==
    /\ pc = "parse" /\ ~looks_like_ipv6(stripped) /\ HasPort(stripped)
    /\ LET k == Max(Colons(stripped))
           p == SubSeq(stripped, k + 1, Len(stripped))
       IN  \/ Len(p) = 1 /\ p[1] \in Ports /\ Seek(SubSeq(stripped, 1, k - 1), p[1])
           \/ ~(Len(p) = 1 /\ p[1] \in Ports) /\ Usage

WithoutPort ==
    /\ pc = "parse" /\ ~looks_like_ipv6(stripped) /\ ~HasPort(stripped)
    /\ Seek(stripped, DEFAULT_TRAP_PORT)

(* to_socket_addrs: no name is empty or has a colon in it. *)
IsName(host) == host # << >> /\ Colons(host) = {}

LookupFails == pc = "lookup" /\ Usage

(* Seeded fault: the first address is looked at, not the first of IPv4. *)
find_first(addrs) == IF addrs # << >> /\ addrs[1] \in V4 THEN {1} ELSE {}

(* find_map: the places of the IPv4 addresses. *)
find_v4(addrs) == {i \in DOMAIN addrs : addrs[i] \in V4}

Lookup ==
    /\ pc = "lookup" /\ IsName(sought.host)
    /\ \E addrs \in BoundedSeq(V4 \cup V6, MAX_ADDRS) :
          /\ answer' = addrs
          /\ \/ find_v4(addrs) = {} /\ pc' = "usage" /\ UNCHANGED dst
             \/ /\ find_v4(addrs) # {} /\ pc' = "done"
                /\ dst' = [ip |-> addrs[Min(find_v4(addrs))], port |-> sought.port]
    /\ UNCHANGED <<agent, sought>>

Next == RejectIpv6 \/ WithPort \/ WithoutPort \/ LookupFails \/ Lookup

Spec == Init /\ [][Next]_vars
-------------------------------------------------------------------------------
(* Properties. *)

(* The hosts and ports a text can be written for: HOST, HOST:PORT, and either
   after udp:. *)
Forms(host, port) ==
    LET tail == IF port = DEFAULT_TRAP_PORT THEN << >> ELSE <<":", port>>
    IN  {host \o tail, <<"udp", ":">> \o host \o tail}
Hosts == {SubSeq(agent, i, j) : i, j \in 1 .. Len(agent)}
Readings == {r \in [host : Hosts, port : Ports \cup {DEFAULT_TRAP_PORT}] :
                /\ IsName(r.host) /\ r.host[1] # "["
                /\ agent \in Forms(r.host, r.port)}

(* cli.rs:359-390: the trap goes to the host and the port of a way to read the
   text, at the first IPv4 address of that host, whatever IPv6 addresses come
   before it; and a text that can be read is not refused before the lookup nor
   after one that gives such an address. *)
DestinationAsRead ==
    /\ pc = "done" =>
           /\ sought \in Readings /\ dst.port = sought.port
           /\ \E i \in DOMAIN answer : answer[i] = dst.ip /\ \A j \in 1 .. i - 1 : answer[j] \in V6
    /\ pc = "usage" /\ Readings # {} =>
           sought \in Readings /\ \A i \in DOMAIN answer : answer[i] \in V6
================================================================================
