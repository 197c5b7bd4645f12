---------------------------- MODULE EngineId_proofs ----------------------------
(***************************************************************************)
(* Proofs about EngineId, for every set of interfaces and invocations: the *)
(* types, the primary interface, the stable engine-ID, and that a search   *)
(* always has a next step.                                                 *)
(*                                                                         *)
(* The invariants say what a search under way still owes: SearchInv, of    *)
(* every interface that has not changed since the listing, that it is      *)
(* still to be read or was rightly passed over; StableInv, as long as only *)
(* excluded interfaces changed, that every usable one is still to be read, *)
(* so that the one found is the best there is.                             *)
(***************************************************************************)
EXTENDS EngineId, WellFoundedInduction, TLAPS

SearchInv(p) ==
    /\ pc[p] = "start" => steady[p] = {}
    /\ pc[p] # "start" => steady[p] \in SUBSET (Eligible \X (Mac \cup {Zero, Malformed}))
    /\ pc[p] # "done" => \A s \in steady[p] : address[s[1]] = s[2]
    /\ pc[p] = "scan" => /\ option[p] = "none"
                         /\ \A s \in steady[p] : s[2] \in Mac => s[1] \in todo[p]

(* The interfaces host_mac_linux would take, if it finds the directory. *)
Usable == {i \in Eligible : SysClassNet /\ address[i] \in Mac}

Best(i) == i \in Usable /\ \A j \in Usable \ {i} : Precedes(i, j)

StableInv(p) ==
    changed \subseteq Excluded =>
        /\ pc[p] = "scan" => Usable \subseteq todo[p]
                             /\ (todo[p] # {} => SysClassNet)
        /\ pc[p] = "done" =>
             /\ option[p] = "user"     => eid[p] = User
             /\ option[p] = "src_addr" => eid[p] = Ipv4
             /\ option[p] = "none"     =>
                    \/ \E i \in Usable : Best(i) /\ eid[p] = FromMac(address[i])
                    \/ Usable = {} /\ eid[p] = Text

IInv == TypeOK /\ PrimaryInterface /\ \A p \in Proc : SearchInv(p) /\ StableInv(p)

-------------------------------------------------------------------------------
(* The sort leaves one first candidate. *)
LEMMA OrderStrict ==
    ASSUME NEW i \in Iface, NEW j \in Iface, i # j
    PROVE  ~(Precedes(i, j) /\ Precedes(j, i))
<1>1. Alphabet[i] \in Nat /\ Alphabet[j] \in Nat
  BY IfaceAssumption
<1> QED BY <1>1, SMT DEF Precedes

LEMMA BestUnique ==
    ASSUME NEW i \in Iface, NEW j \in Iface, Best(i), Best(j)
    PROVE  i = j
BY OrderStrict DEF Best

LEMMA FormatsDiffer ==
    ASSUME NEW m
    PROVE  /\ FromMac(m).format = "mac" /\ FromMac(m).payload = m
           /\ FromMac(m) # Text /\ FromMac(m) # User /\ FromMac(m) # Ipv4
<1>1. FromMac(m).format = "mac" /\ FromMac(m).payload = m
  BY DEF FromMac
<1>2. Text.format = "text" /\ User.format = "user" /\ Ipv4.format = "ipv4"
  BY DEF Text, User, Ipv4
<1> QED BY <1>1, <1>2

LEMMA Initially == Init => IInv
<1> SUFFICES ASSUME Init PROVE IInv
  OBVIOUS
<1>1. TypeOK
  BY DEF Init, TypeOK, EngineIds
<1> QED BY <1>1 DEF Init, IInv, PrimaryInterface, SearchInv, StableInv

-------------------------------------------------------------------------------
(* An invocation that is not p is not disturbed by a step of p. *)
LEMMA Undisturbed ==
    ASSUME IInv, NEW p \in Proc, NEW q \in Proc, q # p,
           UNCHANGED <<address, option, changed>>,
           pc'[q] = pc[q], todo'[q] = todo[q], eid'[q] = eid[q],
           chosen'[q] = chosen[q], steady'[q] = steady[q]
    PROVE  SearchInv(q)' /\ StableInv(q)'
<1>1. SearchInv(q) /\ StableInv(q)
  BY DEF IInv
<1>2. Usable' = Usable /\ \A i : Best(i)' <=> Best(i)
  BY DEF Usable, Best, Precedes
<1> QED BY <1>1, <1>2 DEF SearchInv, StableInv

LEMMA GivenStep == ASSUME NEW p \in Proc PROVE IInv /\ Given(p) => IInv'
<1> SUFFICES ASSUME IInv, Given(p) PROVE IInv'
  OBVIOUS
<1>1. /\ pc[p] = "start" /\ option[p] # "none"
      /\ eid' = [eid EXCEPT ![p] = IF option[p] = "user" THEN User ELSE Ipv4]
      /\ pc' = [pc EXCEPT ![p] = "done"]
      /\ UNCHANGED <<address, option, todo, chosen, steady, changed>>
  BY DEF Given, Done
<1>2. TypeOK
  BY DEF IInv
<1>3. TypeOK'
  BY <1>1, <1>2 DEF TypeOK, EngineIds
<1>4. ASSUME NEW q \in Proc, q # p PROVE pc'[q] = pc[q] /\ eid'[q] = eid[q]
  BY <1>1, <1>2, <1>4 DEF TypeOK
<1>5. pc'[p] = "done" /\ eid'[p] = IF option[p] = "user" THEN User ELSE Ipv4
  BY <1>1, <1>2 DEF TypeOK
<1>6. PrimaryInterface'
  BY <1>1, <1>4, <1>5 DEF PrimaryInterface, IInv, Precedes
<1>7. SearchInv(p)' /\ StableInv(p)'
  <2>1. steady[p] = {} /\ option[p] \in {"user", "src_addr"}
    BY <1>1, <1>2 DEF IInv, SearchInv, TypeOK
  <2>2. SearchInv(p)'
    BY <1>1, <1>5, <2>1 DEF SearchInv
  <2>3. CASE option[p] = "user"
    <3>1. eid'[p] = User /\ option'[p] = "user" /\ pc'[p] = "done"
      BY <1>1, <1>5, <2>3
    <3>2. option'[p] # "src_addr" /\ option'[p] # "none" /\ pc'[p] # "scan"
      BY <3>1
    <3> QED BY <2>2, <3>1, <3>2, Zenon DEF StableInv
  <2>4. CASE option[p] = "src_addr"
    <3>1. eid'[p] = Ipv4 /\ option'[p] = "src_addr" /\ pc'[p] = "done"
      BY <1>1, <1>5, <2>4
    <3>2. option'[p] # "user" /\ option'[p] # "none" /\ pc'[p] # "scan"
      BY <3>1
    <3> QED BY <2>2, <3>1, <3>2, Zenon DEF StableInv
  <2> QED BY <2>1, <2>2, <2>3, <2>4
<1>8. ASSUME NEW q \in Proc, q # p PROVE SearchInv(q)' /\ StableInv(q)'
  BY <1>1, <1>4, <1>8, Undisturbed
<1> QED BY <1>3, <1>6, <1>7, <1>8 DEF IInv

LEMMA ReadDirStep == ASSUME NEW p \in Proc PROVE IInv /\ ReadDir(p) => IInv'
<1> SUFFICES ASSUME IInv, ReadDir(p) PROVE IInv'
  OBVIOUS
<1> DEFINE listed == {i \in Eligible : SysClassNet /\ address[i] # Gone}
           found  == {<<i, address[i]>> : i \in listed}
<1>1. /\ pc[p] = "start" /\ option[p] = "none"
      /\ pc' = [pc EXCEPT ![p] = "scan"]
      /\ todo' = [todo EXCEPT ![p] = listed] /\ steady' = [steady EXCEPT ![p] = found]
      /\ UNCHANGED <<address, option, eid, chosen, changed>>
  BY DEF ReadDir
<1>2. TypeOK
  BY DEF IInv
<1>3. /\ listed \subseteq Eligible
      /\ \A s \in found : /\ s \in Eligible \X (Mac \cup {Zero, Malformed})
                          /\ address[s[1]] = s[2] /\ s[1] \in listed
  BY <1>2 DEF TypeOK, Eligible
<1>4. Usable \subseteq listed
  BY AddressAssumption DEF Usable
<1>5. listed # {} => SysClassNet
  OBVIOUS
<1> HIDE DEF listed, found
<1>6. TypeOK'
  <2>1. found \in SUBSET (Eligible \X (Mac \cup {Zero, Malformed}))
    BY <1>3
  <2> QED BY <1>1, <1>2, <1>3, <2>1 DEF TypeOK
<1>7. ASSUME NEW q \in Proc, q # p
      PROVE  pc'[q] = pc[q] /\ todo'[q] = todo[q] /\ steady'[q] = steady[q]
  BY <1>1, <1>2, <1>7 DEF TypeOK
<1>8. pc'[p] = "scan" /\ todo'[p] = listed /\ steady'[p] = found
  BY <1>1, <1>2 DEF TypeOK
<1>9. PrimaryInterface'
  BY <1>1, <1>7, <1>8 DEF PrimaryInterface, IInv, Precedes
<1>10. SearchInv(p)'
  BY <1>1, <1>3, <1>8 DEF SearchInv
<1>11. StableInv(p)'
  <2>1. Usable' = Usable
    BY <1>1 DEF Usable
  <2> QED BY <1>1, <1>4, <1>5, <1>8, <2>1 DEF StableInv
<1>12. ASSUME NEW q \in Proc, q # p PROVE SearchInv(q)' /\ StableInv(q)'
  BY <1>1, <1>7, <1>12, Undisturbed
<1> QED BY <1>6, <1>9, <1>10, <1>11, <1>12 DEF IInv

LEMMA ReadAddressStep == ASSUME NEW p \in Proc PROVE IInv /\ ReadAddress(p) => IInv'
<1> SUFFICES ASSUME IInv, ReadAddress(p) PROVE IInv'
  OBVIOUS
<1>1. PICK i \in Iface :
        /\ pc[p] = "scan" /\ First(p, i) /\ todo' = [todo EXCEPT ![p] = @ \ {i}]
        /\ IF address[i] \in Mac
           THEN Done(p, FromMac(address[i])) /\ chosen' = [chosen EXCEPT ![p] = i]
           ELSE UNCHANGED <<eid, pc, chosen>>
        /\ UNCHANGED <<address, option, steady, changed>>
  BY DEF ReadAddress
<1>2. TypeOK
  BY DEF IInv
<1>3. i \in todo[p] /\ i \in Eligible /\ \A j \in todo[p] \ {i} : Precedes(i, j)
  BY <1>1, <1>2 DEF First, TypeOK
<1>4. todo'[p] = todo[p] \ {i} /\ \A q \in Proc \ {p} : todo'[q] = todo[q]
  BY <1>1, <1>2 DEF TypeOK
<1>5. option[p] = "none" /\ (\A s \in steady[p] : s[2] \in Mac => s[1] \in todo[p])
      /\ (\A s \in steady[p] : address[s[1]] = s[2])
      /\ steady[p] \in SUBSET (Eligible \X (Mac \cup {Zero, Malformed}))
  BY <1>1 DEF IInv, SearchInv
<1>6. Usable' = Usable /\ \A j : Best(j)' <=> Best(j)
  BY <1>1 DEF Usable, Best, Precedes
<1>7. CASE address[i] \in Mac
  <2>1. eid' = [eid EXCEPT ![p] = FromMac(address[i])] /\ pc' = [pc EXCEPT ![p] = "done"]
        /\ chosen' = [chosen EXCEPT ![p] = i]
    BY <1>1, <1>7 DEF Done
  <2>2. eid'[p] = FromMac(address[i]) /\ pc'[p] = "done" /\ chosen'[p] = i
    BY <1>2, <2>1 DEF TypeOK
  <2>3. \A q \in Proc \ {p} : eid'[q] = eid[q] /\ pc'[q] = pc[q] /\ chosen'[q] = chosen[q]
    BY <1>2, <2>1 DEF TypeOK
  <2>4. TypeOK'
    <3>1. FromMac(address[i]) \in EngineIds
      BY <1>7 DEF EngineIds
    <3> QED BY <1>1, <1>2, <1>3, <2>1, <3>1 DEF TypeOK
  <2>5. PrimaryInterface'
    <3>1. SUFFICES ASSUME NEW q \in Proc, pc'[q] = "done", option'[q] = "none",
                          NEW s \in steady'[q], s[2] \in Mac
                   PROVE  /\ eid'[q] # Text
                          /\ s[1] = chosen'[q] => eid'[q] = FromMac(s[2])
                          /\ s[1] # chosen'[q] => Precedes(chosen'[q], s[1])
      BY DEF PrimaryInterface, Precedes
    <3>2. CASE q = p
      <4>1. s[1] \in todo[p] /\ address[s[1]] = s[2]
        BY <1>1, <1>5, <3>1, <3>2
      <4> QED BY <1>3, <2>2, <3>2, <4>1, FormatsDiffer
    <3>3. CASE q # p
      BY <1>1, <2>3, <3>1, <3>3 DEF IInv, PrimaryInterface
    <3> QED BY <3>2, <3>3
  <2>6. SearchInv(p)'
    BY <1>1, <1>5, <2>2 DEF SearchInv
  <2>7. StableInv(p)'
    <3>1. SUFFICES ASSUME changed \subseteq Excluded PROVE Best(i) /\ i \in Usable
      BY <1>1, <1>5, <1>6, <2>2 DEF StableInv
    <3>2. Usable \subseteq todo[p] /\ SysClassNet
      BY <1>1, <1>3, <3>1 DEF IInv, StableInv
    <3>3. i \in Usable
      BY <1>3, <1>7, <3>2 DEF Usable
    <3> QED BY <1>3, <3>2, <3>3 DEF Best
  <2>8. ASSUME NEW q \in Proc, q # p PROVE SearchInv(q)' /\ StableInv(q)'
    BY <1>1, <1>4, <2>3, <2>8, Undisturbed
  <2> QED BY <2>4, <2>5, <2>6, <2>7, <2>8 DEF IInv
<1>8. CASE address[i] \notin Mac
  <2>1. UNCHANGED <<eid, pc, chosen>>
    BY <1>1, <1>8
  <2>2. TypeOK'
    <3>1. todo' \in [Proc -> SUBSET Eligible]
      BY <1>1, <1>2 DEF TypeOK
    <3> QED BY <1>1, <1>2, <2>1, <3>1 DEF TypeOK
  <2>3. PrimaryInterface'
    BY <1>1, <2>1 DEF IInv, PrimaryInterface, Precedes
  <2>4. SearchInv(p)'
    <3>1. \A s \in steady[p] : s[2] \in Mac => s[1] \in todo'[p]
      BY <1>4, <1>5, <1>8
    <3> QED BY <1>1, <1>5, <2>1, <3>1 DEF SearchInv
  <2>5. StableInv(p)'
    <3>1. i \notin Usable
      BY <1>8 DEF Usable
    <3>2. StableInv(p)
      BY DEF IInv
    <3> QED BY <1>1, <1>4, <1>6, <2>1, <3>1, <3>2 DEF StableInv
  <2>6. ASSUME NEW q \in Proc, q # p PROVE SearchInv(q)' /\ StableInv(q)'
    BY <1>1, <1>4, <2>1, <2>6, Undisturbed
  <2> QED BY <2>2, <2>3, <2>4, <2>5, <2>6 DEF IInv
<1> QED BY <1>7, <1>8

LEMMA FallBackStep == ASSUME NEW p \in Proc PROVE IInv /\ FallBack(p) => IInv'
<1> SUFFICES ASSUME IInv, FallBack(p) PROVE IInv'
  OBVIOUS
<1>1. /\ pc[p] = "scan" /\ todo[p] = {}
      /\ eid' = [eid EXCEPT ![p] = Text] /\ pc' = [pc EXCEPT ![p] = "done"]
      /\ UNCHANGED <<address, option, todo, chosen, steady, changed>>
  BY DEF FallBack, Done
<1>2. TypeOK
  BY DEF IInv
<1>3. TypeOK'
  BY <1>1, <1>2 DEF TypeOK, EngineIds
<1>4. eid'[p] = Text /\ pc'[p] = "done"
  BY <1>1, <1>2 DEF TypeOK
<1>5. \A q \in Proc \ {p} : eid'[q] = eid[q] /\ pc'[q] = pc[q]
  BY <1>1, <1>2 DEF TypeOK
<1>6. SearchInv(p) /\ StableInv(p)
  BY DEF IInv
<1>7. \A s \in steady[p] : s[2] \notin Mac
  BY <1>1, <1>6 DEF SearchInv
<1>8. PrimaryInterface'
  BY <1>1, <1>4, <1>5, <1>7 DEF PrimaryInterface, IInv, Precedes
<1>9. SearchInv(p)'
  BY <1>1, <1>4, <1>6 DEF SearchInv
<1>10. StableInv(p)'
  <2>1. Usable' = Usable /\ option[p] = "none"
    BY <1>1, <1>6 DEF Usable, SearchInv
  <2>2. changed \subseteq Excluded => Usable = {}
    BY <1>1, <1>6 DEF StableInv
  <2> QED BY <1>1, <1>4, <2>1, <2>2 DEF StableInv
<1>11. ASSUME NEW q \in Proc, q # p PROVE SearchInv(q)' /\ StableInv(q)'
  BY <1>1, <1>5, <1>11, Undisturbed
<1> QED BY <1>3, <1>8, <1>9, <1>10, <1>11 DEF IInv

LEMMA HotplugStep == IInv /\ Hotplug => IInv'
<1> SUFFICES ASSUME IInv, Hotplug PROVE IInv'
  OBVIOUS
<1>1. PICK i \in Iface, a \in (Mac \cup {Zero, Malformed, Gone}) :
        /\ address' = [address EXCEPT ![i] = a] /\ changed' = changed \cup {i}
        /\ steady' = [p \in Proc |-> IF pc[p] = "done" THEN steady[p]
                                     ELSE {s \in steady[p] : s[1] # i}]
        /\ UNCHANGED <<option, pc, todo, eid, chosen>>
  BY DEF Hotplug
<1>2. TypeOK
  BY DEF IInv
<1>3. \A j \in Iface : j # i => address'[j] = address[j]
  BY <1>1, <1>2 DEF TypeOK
<1>4. \A p \in Proc : steady'[p] \subseteq steady[p] /\ (pc[p] = "done" => steady'[p] = steady[p])
  BY <1>1
<1>5. TypeOK'
  <2>1. address' \in [Iface -> Mac \cup {Zero, Malformed, Gone}]
    BY <1>1, <1>2 DEF TypeOK
  <2>2. steady' \in [Proc -> SUBSET (Eligible \X (Mac \cup {Zero, Malformed}))]
    BY <1>1, <1>2 DEF TypeOK
  <2>3. changed' \in SUBSET Iface
    BY <1>1, <1>2 DEF TypeOK
  <2> QED BY <1>1, <1>2, <2>1, <2>2, <2>3 DEF TypeOK
<1>6. PrimaryInterface'
  BY <1>1, <1>4 DEF IInv, PrimaryInterface, Precedes
<1>7. ASSUME NEW p \in Proc PROVE SearchInv(p)'
  <2>1. SearchInv(p) /\ steady[p] \in SUBSET (Eligible \X (Mac \cup {Zero, Malformed}))
    BY <1>2 DEF IInv, TypeOK
  <2>2. steady'[p] \in SUBSET (Eligible \X (Mac \cup {Zero, Malformed}))
    BY <1>4, <2>1
  <2>3. ASSUME pc[p] # "done", NEW s \in steady'[p] PROVE address'[s[1]] = s[2]
    <3>1. s \in steady[p] /\ s[1] # i
      BY <1>1, <2>3
    <3>2. s[1] \in Iface /\ address[s[1]] = s[2]
      BY <2>1, <2>3, <3>1 DEF SearchInv, Eligible
    <3> QED BY <1>3, <3>1, <3>2
  <2> QED BY <1>1, <1>4, <2>1, <2>2, <2>3 DEF SearchInv
<1>8. ASSUME NEW p \in Proc PROVE StableInv(p)'
  <2>1. SUFFICES ASSUME changed' \subseteq Excluded PROVE StableInv(p)'
    BY DEF StableInv
  <2>2. changed \subseteq Excluded /\ i \in Excluded
    BY <1>1, <2>1
  <2>3. \A j \in Eligible : address'[j] = address[j]
    BY <1>3, <2>2 DEF Eligible
  <2>4. Usable' = Usable /\ \A j : Best(j)' <=> Best(j)
    BY <2>3 DEF Usable, Best, Precedes
  <2>5. \A j \in Usable : address'[j] = address[j]
    BY <2>3 DEF Usable
  <2>6. StableInv(p)
    BY DEF IInv
  <2> QED BY <1>1, <2>2, <2>4, <2>5, <2>6 DEF StableInv
<1> QED BY <1>5, <1>6, <1>7, <1>8 DEF IInv

LEMMA Inductive == IInv /\ [Next]_vars => IInv'
<1> SUFFICES ASSUME IInv, [Next]_vars PROVE IInv'
  OBVIOUS
<1>1. CASE UNCHANGED vars
  BY <1>1 DEF vars, IInv, TypeOK, PrimaryInterface, SearchInv, StableInv, Usable, Best, Precedes
<1>2. CASE Next
  BY <1>2, GivenStep, ReadDirStep, ReadAddressStep, FallBackStep, HotplugStep DEF Next, Resolve
<1> QED BY <1>1, <1>2

LEMMA Invariance == Spec => []IInv
<1> QED BY Initially, Inductive, PTL DEF Spec
-------------------------------------------------------------------------------
(* engine.rs:206-238: the search only ever holds names and addresses it was
   given. *)
THEOREM TypeCorrect == Spec => []TypeOK
<1>1. IInv => TypeOK
  BY DEF IInv
<1> QED BY Invariance, <1>1, PTL

(* engine.rs:206-238: whatever the interfaces do during the search, it finds
   one at least as good as every usable one that stayed. *)
THEOREM FindsPrimary == Spec => []PrimaryInterface
<1>1. IInv => PrimaryInterface
  BY DEF IInv
<1> QED BY Invariance, <1>1, PTL

(* engine.rs:28-37: while only virtual interfaces come and go, every invocation
   with the same options has the same engine-ID. *)
THEOREM Stable == Spec => []StableEngineId
<1>1. IInv => StableEngineId
  <2> SUFFICES ASSUME IInv, changed \subseteq Excluded, NEW p \in Proc, NEW q \in Proc,
                      pc[p] = "done", pc[q] = "done", option[p] = option[q]
               PROVE  eid[p] = eid[q]
    BY DEF StableEngineId
  <2>1. StableInv(p) /\ StableInv(q) /\ option[p] \in {"user", "src_addr", "none"}
    BY DEF IInv, TypeOK
  <2>2. CASE option[p] \in {"user", "src_addr"}
    BY <2>1, <2>2 DEF StableInv
  <2>3. CASE option[p] = "none"
    <3>1. CASE Usable = {}
      BY <2>1, <2>3, <3>1 DEF StableInv
    <3>2. CASE Usable # {}
      <4>1. PICK i \in Usable : Best(i) /\ eid[p] = FromMac(address[i])
        BY <2>1, <2>3, <3>2 DEF StableInv
      <4>2. PICK j \in Usable : Best(j) /\ eid[q] = FromMac(address[j])
        BY <2>1, <2>3, <3>2 DEF StableInv
      <4>3. i = j
        BY <4>1, <4>2, BestUnique DEF Usable, Eligible
      <4> QED BY <4>1, <4>2, <4>3
    <3> QED BY <3>1, <3>2
  <2> QED BY <2>1, <2>2, <2>3
<1> QED BY Invariance, <1>1, PTL
-------------------------------------------------------------------------------
(* Names in the order of strings have a first one. *)
LEMMA LeastName ==
    ASSUME NEW S, S \subseteq Iface, S # {}
    PROVE  \E i \in S : \A j \in S \ {i} : Alphabet[i] < Alphabet[j]
<1> DEFINE T == {Alphabet[i] : i \in S}
           R == OpToRel(<, Nat)
<1>1. T \subseteq Nat /\ T # {}
  BY IfaceAssumption
<1>2. IsWellFoundedOn(R, Nat)
  BY NatLessThanWellFounded
<1>3. \A x, y \in Nat : <<x, y>> \in R <=> x < y
  BY DEF OpToRel
<1> HIDE DEF R, T
<1>4. PICK m \in T : \A y \in T : ~ (<<y, m>> \in R)
  BY <1>1, <1>2, WFMin, Zenon
<1>5. PICK i \in S : Alphabet[i] = m
  BY DEF T
<1>6. ASSUME NEW j \in S \ {i} PROVE Alphabet[i] < Alphabet[j]
  <2>1. Alphabet[j] \in T /\ Alphabet[i] \in Nat /\ Alphabet[j] \in Nat
    BY IfaceAssumption DEF T
  <2>2. ~ (Alphabet[j] < Alphabet[i])
    BY <1>3, <1>4, <1>5, <2>1
  <2>3. Alphabet[i] # Alphabet[j]
    BY IfaceAssumption
  <2> QED BY <2>1, <2>2, <2>3
<1> QED BY <1>6

(* engine.rs:217-236: the sort always has a first candidate, so that the loop reads
   another address or there is none left: a search is never stuck, which Resolves
   rests on. *)
NextCandidate ==
    \A p \in Proc : pc[p] = "scan" => todo[p] = {} \/ \E i \in Iface : First(p, i)

(* And it reads no address twice: whatever happens to the interfaces, what is left
   of the list only becomes less. *)
ReadOnce == [][\A p \in Proc : pc[p] = "scan" => todo'[p] \subseteq todo[p]]_vars

THEOREM NeverStuck == Spec => []NextCandidate /\ ReadOnce
<1>1. TypeOK => NextCandidate
  <2>1. SUFFICES ASSUME TypeOK, NEW p \in Proc, todo[p] # {}
                 PROVE  \E i \in Iface : First(p, i)
    BY DEF NextCandidate
  <2>2. todo[p] \subseteq Iface
    BY <2>1 DEF TypeOK, Eligible
  <2>3. CASE todo[p] \cap Physical = {}
    <3>1. PICK i \in todo[p] : \A j \in todo[p] \ {i} : Alphabet[i] < Alphabet[j]
      BY <2>1, <2>2, LeastName
    <3>2. First(p, i)
      BY <2>3, <3>1 DEF First, Precedes
    <3> QED BY <2>2, <3>2
  <2>4. CASE todo[p] \cap Physical # {}
    <3>1. PICK i \in todo[p] \cap Physical :
              \A j \in (todo[p] \cap Physical) \ {i} : Alphabet[i] < Alphabet[j]
      <4>1. todo[p] \cap Physical \subseteq Iface
        BY <2>2
      <4> QED BY <2>4, <4>1, LeastName
    <3>2. First(p, i)
      BY <3>1 DEF First, Precedes
    <3> QED BY <2>2, <3>2
  <2> QED BY <2>3, <2>4
<1>2. TypeOK /\ [Next]_vars =>
          [\A p \in Proc : pc[p] = "scan" => todo'[p] \subseteq todo[p]]_vars
  <2>1. SUFFICES ASSUME TypeOK, Next, NEW p \in Proc, pc[p] = "scan"
                 PROVE  todo'[p] \subseteq todo[p]
    OBVIOUS
  <2>2. todo \in [Proc -> SUBSET Eligible]
    BY <2>1 DEF TypeOK
  <2> QED BY <2>1, <2>2 DEF Next, Resolve, Given, ReadDir, ReadAddress, FallBack, Hotplug
<1>3. QED
  BY <1>1, <1>2, TypeCorrect, PTL DEF Spec, ReadOnce
================================================================================
