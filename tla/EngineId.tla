------------------------------- MODULE EngineId -------------------------------
(***************************************************************************)
(* engine::resolve: the authoritative engine-ID of an SNMPv3 trap.  It is  *)
(* the user's, or made from --src-addr, or from the MAC address of the     *)
(* host's primary interface, or from the host name.                        *)
(*                                                                         *)
(* The interfaces are read from /sys/class/net: first their names, then,   *)
(* one file after the other, their addresses.  Interfaces come, go and     *)
(* change their address in between.  Several invocations resolve at once.  *)
(***************************************************************************)
EXTENDS Naturals, FiniteSets

CONSTANTS
    Proc,           \* the invocations
    Iface,          \* names of interfaces
    Excluded,       \* "lo" and the names with a virtual prefix
    Physical,       \* the names that begin with en, eth or wl
    Alphabet,       \* the place of each name in the order of strings
    Mac,            \* MAC addresses other than zero
    Zero,           \* 00:00:00:00:00:00
    Malformed,      \* an address that is not six pairs of hex digits
    Gone,           \* an interface that is not there
    SysClassNet     \* whether the host has /sys/class/net

ASSUME IfaceAssumption ==
    /\ Excluded \subseteq Iface /\ Physical \subseteq Iface
    /\ Alphabet \in [Iface -> Nat]
    /\ \A i, j \in Iface : Alphabet[i] = Alphabet[j] => i = j
ASSUME AddressAssumption ==
    /\ {Zero, Malformed, Gone} \cap Mac = {}
    /\ SysClassNet \in BOOLEAN

VARIABLES
    address,    \* what the address file of each interface holds, or Gone
    option,     \* what each command line gives: "user" (-E), "src_addr", "none"
    pc,         \* "start", "scan", "done"
    todo,       \* the candidates not yet read
    eid,        \* the engine-ID: its format and payload
    chosen,     \* history: the interface whose MAC it is, Gone if none
    steady,     \* history: the interfaces unchanged since the listing, with
                \* their addresses
    changed     \* history: the interfaces that ever changed

vars == <<address, option, pc, todo, eid, chosen, steady, changed>>

(* The formats of RFC 3411 and their payloads: 1 the --src-addr, 3 a MAC, 4 the
   host name.  0 is the user's, verbatim. *)
Unresolved == [format |-> "none", payload |-> Gone]
User       == [format |-> "user", payload |-> Gone]
Ipv4       == [format |-> "ipv4", payload |-> Gone]
Text       == [format |-> "text", payload |-> Gone]
FromMac(m) == [format |-> "mac",  payload |-> m]

EngineIds == {Unresolved, User, Ipv4, Text} \cup {FromMac(m) : m \in Mac}

(* is_virtual_interface and "lo". *)
Eligible == Iface \ Excluded

(* The comparator of sort_by: physical names first, then the order of names. *)
Precedes(i, j) ==
    \/ i \in Physical /\ j \notin Physical
    \/ (i \in Physical <=> j \in Physical) /\ Alphabet[i] < Alphabet[j]

-------------------------------------------------------------------------------
Init ==
    /\ address \in [Iface -> Mac \cup {Zero, Malformed, Gone}]
    /\ option  \in [Proc -> {"user", "src_addr", "none"}]
    /\ pc      = [p \in Proc |-> "start"]
    /\ todo    = [p \in Proc |-> {}]
    /\ eid     = [p \in Proc |-> Unresolved]
    /\ steady  = [p \in Proc |-> {}]
    /\ chosen  = [p \in Proc |-> Gone]
    /\ changed = {}

Done(p, e) == /\ eid' = [eid EXCEPT ![p] = e]
              /\ pc'  = [pc EXCEPT ![p] = "done"]

(* resolve: -E, else --src-addr. *)
Given(p) ==
    /\ pc[p] = "start" /\ option[p] # "none"
    /\ Done(p, IF option[p] = "user" THEN User ELSE Ipv4)
    /\ UNCHANGED <<address, option, todo, chosen, steady, changed>>

(* Seeded fault: virtual interfaces are candidates too. *)
ReadDirUnfiltered(p) ==
    /\ pc[p] = "start" /\ option[p] = "none"
    /\ pc' = [pc EXCEPT ![p] = "scan"]
    /\ LET listed == {i \in Iface : SysClassNet /\ address[i] # Gone}
       IN  /\ todo'   = [todo EXCEPT ![p] = listed]
           /\ steady' = [steady EXCEPT ![p] = {<<i, address[i]>> : i \in listed}]
    /\ UNCHANGED <<address, option, eid, chosen, changed>>

(* host_mac_linux: read_dir, the filter and the sort.  Where there is no such
   directory there is no candidate. *)
ReadDir(p) ==
    /\ pc[p] = "start" /\ option[p] = "none"
    /\ pc' = [pc EXCEPT ![p] = "scan"]
    /\ LET listed == {i \in Eligible : SysClassNet /\ address[i] # Gone}
       IN  /\ todo'   = [todo EXCEPT ![p] = listed]
           /\ steady' = [steady EXCEPT ![p] = {<<i, address[i]>> : i \in listed}]
    /\ UNCHANGED <<address, option, eid, chosen, changed>>

(* Seeded fault: the candidates are not sorted. *)
InAnyOrder(p, i) == i \in todo[p]

(* The candidate the loop comes to next. *)
First(p, i) == i \in todo[p] /\ \A j \in todo[p] \ {i} : Precedes(i, j)

(* Seeded fault: a bad address is read again. *)
ReadAddressAgain(p) ==
    /\ pc[p] = "scan"
    /\ \E i \in Iface :
           /\ First(p, i) /\ address[i] \in Mac
           /\ todo' = [todo EXCEPT ![p] = @ \ {i}]
           /\ Done(p, FromMac(address[i]))
           /\ chosen' = [chosen EXCEPT ![p] = i]
    /\ UNCHANGED <<address, option, steady, changed>>

(* The loop reads one address: an unreadable, malformed or zero one is passed
   over. *)
ReadAddress(p) ==
    /\ pc[p] = "scan"
    /\ \E i \in Iface :
           /\ First(p, i)
           /\ todo' = [todo EXCEPT ![p] = @ \ {i}]
           /\ IF address[i] \in Mac
              THEN /\ Done(p, FromMac(address[i]))
                   /\ chosen' = [chosen EXCEPT ![p] = i]
              ELSE UNCHANGED <<eid, pc, chosen>>
    /\ UNCHANGED <<address, option, steady, changed>>

(* resolve: no MAC, so the host name, or "snmptrap-rs" when it has none. *)
FallBack(p) ==
    /\ pc[p] = "scan" /\ todo[p] = {}
    /\ Done(p, Text)
    /\ UNCHANGED <<address, option, todo, chosen, steady, changed>>

(* An interface appears, disappears or changes its address. *)
Hotplug ==
    /\ \E i \in Iface : \E a \in (Mac \cup {Zero, Malformed, Gone}) \ {address[i]} :
           /\ address' = [address EXCEPT ![i] = a]
           /\ changed' = changed \cup {i}
           /\ steady'  = [p \in Proc |->
                             IF pc[p] = "done" THEN steady[p]
                             ELSE {s \in steady[p] : s[1] # i}]
    /\ UNCHANGED <<option, pc, todo, eid, chosen>>

Resolve(p) == Given(p) \/ ReadDir(p) \/ ReadAddress(p) \/ FallBack(p)

Next == (\E p \in Proc : Resolve(p)) \/ Hotplug

Spec == Init /\ [][Next]_vars

(* The process runs. *)
FairSpec == Spec /\ \A p \in Proc : WF_vars(Resolve(p))

-------------------------------------------------------------------------------
(* Properties. *)

(* engine.rs:275-306: a search holds candidates it listed, and ends with an
   engine-ID of one of the formats. *)
TypeOK ==
    /\ address \in [Iface -> Mac \cup {Zero, Malformed, Gone}]
    /\ option \in [Proc -> {"user", "src_addr", "none"}]
    /\ pc \in [Proc -> {"start", "scan", "done"}]
    /\ todo \in [Proc -> SUBSET Eligible]
    /\ eid \in [Proc -> EngineIds]
    /\ chosen \in [Proc -> Eligible \cup {Gone}]
    /\ steady \in [Proc -> SUBSET (Eligible \X (Mac \cup {Zero, Malformed}))]
    /\ changed \in SUBSET Iface

(* Whatever the interfaces do during the search, the MAC is that of an
   interface at least as good as every usable one that stayed put; and the
   host name is used only when none did. (host_mac_linux.) *)
PrimaryInterface ==
    \A p \in Proc : pc[p] = "done" /\ option[p] = "none" =>
        \A s \in steady[p] : s[2] \in Mac =>
            /\ eid[p] # Text
            /\ s[1] = chosen[p] => eid[p] = FromMac(s[2])
            /\ s[1] # chosen[p] => Precedes(chosen[p], s[1])

(* Invocations with the same options have the same engine-ID as long as only
   containers, tunnels and the like come and go: receivers know the host by it.
   (VIRTUAL_INTERFACE_PREFIXES, the sort in host_mac_linux.) *)
StableEngineId ==
    changed \subseteq Excluded =>
        \A p, q \in Proc :
            pc[p] = "done" /\ pc[q] = "done" /\ option[p] = option[q] => eid[p] = eid[q]

(* The search ends, however the interfaces flap. (host_mac_linux's loop.) *)
Resolves == \A p \in Proc : <>(pc[p] = "done")
===============================================================================
