---------------------------- MODULE Checksum_proofs ----------------------------
(***************************************************************************)
(* Checksum for every width of a byte and every packet the size check lets *)
(* through.  The invariant says how much the accumulator may hold, so that *)
(* wrapping_add is an exact addition, and that folding changes it by a     *)
(* multiple of WORD - 1 only, which is what makes the receiver's sum zero. *)
(***************************************************************************)
EXTENDS Checksum, SequenceTheorems, WellFoundedInduction, TLAPS

(* Division by a word, and what a fold takes away. *)
LEMMA Division ==
    ASSUME NEW s \in Nat, NEW w \in Nat, w >= 2
    PROVE  /\ s \div w \in Nat /\ s % w \in 0 .. w - 1
           /\ s = w * (s \div w) + (s % w)
  BY SMT

LEMMA SmallModulus ==
    ASSUME NEW s \in Nat, NEW w \in Nat, w >= 2, s < w
    PROVE  s % w = s /\ s \div w = 0
<1> DEFINE q == s \div w
           r == s % w
<1>1. q \in Nat /\ r \in 0 .. w - 1 /\ s = w * q + r
  BY Division
<1> HIDE DEF q, r
<1>2. q = 0
  <2>1. SUFFICES ASSUME q >= 1 PROVE FALSE
    BY <1>1, SMT
  <2>2. w * q >= w
    BY <2>1, <1>1, SMT
  <2> QED BY <1>1, <2>2, SMT
<1>3. w * q = 0
  BY <1>2, SMT
<1> QED BY <1>1, <1>2, <1>3, SMT DEF q, r

(* What a concatenation is, element by element. *)
LEMMA Joined ==
    ASSUME NEW S, NEW s \in Seq(S), NEW t \in Seq(S)
    PROVE  /\ s \o t \in Seq(S) /\ Len(s \o t) = Len(s) + Len(t)
           /\ \A k \in 1 .. Len(s) : (s \o t)[k] = s[k]
BY ConcatProperties, SMT

LEMMA JoinedRight ==
    ASSUME NEW s \in Seq(Byte), NEW t \in Seq(Byte), NEW k \in 1 .. Len(t)
    PROVE  (s \o t)[Len(s) + k] = t[k]
BY ConcatProperties, SMT

LEMMA Pair ==
    ASSUME NEW S, NEW a \in S, NEW b \in S
    PROVE  <<a, b>> \in Seq(S) /\ Len(<<a, b>>) = 2
OBVIOUS

LEMMA FoldExact ==
    ASSUME NEW s \in Nat, NEW w \in Nat, w >= 2, NEW k \in Nat
    PROVE  s + k * (w - 1)
             = ((s % w) + (s \div w)) + (k + (s \div w)) * (w - 1)
<1> DEFINE q == s \div w
           r == s % w
<1>1. q \in Nat /\ r \in Nat /\ s = w * q + r
  BY Division
<1> HIDE DEF q, r
<1>2. (k + q) * (w - 1) = k * (w - 1) + (w * q - q)
  BY <1>1, SMT
<1>3. w * q \in Nat /\ k * (w - 1) \in Nat
  BY <1>1, SMT
<1> QED BY <1>1, <1>2, <1>3, SMT DEF q, r

Bytes(s, n) == s \in Seq(Byte) /\ Len(s) = n

LEMMA JoinedBytes ==
    ASSUME NEW s, NEW t, NEW m \in Nat, NEW n \in Nat, Bytes(s, m), Bytes(t, n)
    PROVE  Bytes(s \o t, m + n)
BY Joined, Zenon DEF Bytes

LEMMA JoinedThrice ==
    ASSUME NEW a, NEW b, NEW c, NEW k, NEW m, NEW n,
           Bytes(a, k), Bytes(b, m), Bytes(c, n)
    PROVE  (a \o b) \o c = a \o (b \o c)
<1>1. a \in Seq(Byte) /\ b \in Seq(Byte) /\ c \in Seq(Byte)
  BY DEF Bytes
<1> QED BY <1>1, ConcatAssociative

(* The third pair of a header that starts with six bytes. *)
LEMMA FieldAt ==
    ASSUME NEW h \in Seq(Byte), NEW c \in Seq(Byte), NEW p \in Seq(Byte),
           Len(h) = 6, Len(c) = 2
    PROVE  (h \o c \o p)[7] = c[1] /\ (h \o c \o p)[8] = c[2]
<1>1. /\ h \in Seq(Byte) /\ Len(h) = 6 /\ c \in Seq(Byte) /\ Len(c) = 2
      /\ p \in Seq(Byte)
  BY DEF Bytes
<1>2. 1 \in 1 .. Len(c) /\ 2 \in 1 .. Len(c) /\ Len(h) + 1 = 7 /\ Len(h) + 2 = 8
  BY <1>1, SMT
<1>3. (h \o c)[7] = c[1] /\ (h \o c)[8] = c[2]
  <2>1. (h \o c)[Len(h) + 1] = c[1]
    BY <1>1, <1>2, JoinedRight, Zenon
  <2>2. (h \o c)[Len(h) + 2] = c[2]
    BY <1>1, <1>2, JoinedRight, Zenon
  <2> QED BY <2>1, <2>2, <1>2
<1>4. h \o c \in Seq(Byte) /\ Len(h \o c) = 8
  <2>1. h \o c \in Seq(Byte) /\ Len(h \o c) = Len(h) + Len(c)
    BY <1>1, Joined
  <2> QED BY <2>1, <1>1, SMT
<1>5. \A k \in 1 .. Len(h \o c) : (h \o c \o p)[k] = (h \o c)[k]
  BY <1>1, <1>4, Joined, Zenon
<1>6. 7 \in 1 .. Len(h \o c) /\ 8 \in 1 .. Len(h \o c)
  BY <1>4, SMT
<1> QED BY <1>3, <1>5, <1>6, Zenon

(* A big-endian word is zero only when both of its bytes are, and its bytes give
   it back. *)
LEMMA BigEndian ==
    ASSUME NEW w \in Word
    PROVE  /\ be_bytes(w) \in Seq(Byte) /\ Len(be_bytes(w)) = 2
           /\ w # 0 => be_bytes(w)[1] # 0 \/ be_bytes(w)[2] # 0
           /\ BASE * be_bytes(w)[1] + be_bytes(w)[2] = w
<1>1. BASE \in Nat /\ BASE >= 2 /\ w \in Nat /\ w < BASE * BASE
  BY BaseAssumption, SMT DEF Word, WORD
<1>2. w \div BASE \in Nat /\ w % BASE \in 0 .. BASE - 1
      /\ w = BASE * (w \div BASE) + (w % BASE)
  BY <1>1, Division
<1> DEFINE q == w \div BASE
           r == w % BASE
<1>3. q < BASE
  <2> HIDE DEF q, r
  <2>1. SUFFICES ASSUME q >= BASE PROVE FALSE
    BY <1>1, <1>2, SMT DEF q
  <2>2. BASE * q >= BASE * BASE
    BY <2>1, <1>1, <1>2, SMT DEF q
  <2> QED BY <2>2, <1>1, <1>2, SMT DEF q, r
<1>4. q \in Byte /\ r \in Byte
  BY <1>1, <1>2, <1>3, SMT DEF Byte
<1>5. w # 0 => q # 0 \/ r # 0
  BY <1>1, <1>2, SMT
<1> HIDE DEF q, r
<1>6. be_bytes(w) = <<q, r>>
  BY DEF be_bytes, q, r
<1>7. BASE * q + r = w
  BY <1>2 DEF q, r
<1> QED BY <1>4, <1>5, <1>6, <1>7, SMT

LEMMA WordBase == /\ WORD \in Nat /\ WORD >= 4
                  /\ 0 \in Byte /\ Byte \subseteq Nat
                  /\ \A b, c \in Byte : BASE * b + c \in Word /\ BASE * b \in Word
<1>1. BASE \in Nat /\ BASE >= 2
  BY BaseAssumption
<1>2. WORD \in Nat /\ WORD >= 4
  BY <1>1, SMT DEF WORD
<1>3. ASSUME NEW b \in Byte, NEW c \in Byte
      PROVE  BASE * b + c \in Word /\ BASE * b \in Word
  <2>1. b \in Nat /\ b <= BASE - 1 /\ c \in Nat /\ c <= BASE - 1
    BY <1>1, <1>3, SMT DEF Byte
  <2>2. BASE * b \in Nat /\ BASE * b <= BASE * (BASE - 1)
    BY <1>1, <2>1, SMT
  <2>3. BASE * (BASE - 1) = BASE * BASE - BASE
    BY <1>1, SMT
  <2> QED BY <1>1, <2>1, <2>2, <2>3, SMT DEF Word, WORD
<1> QED BY <1>1, <1>2, <1>3, SMT DEF Byte

(* The bytes that are summed: fewer than a word can count. *)
LEMMA Data ==
    ASSUME NEW r \in Requests, NEW w \in Word
    PROVE  /\ ipv4_header(r, w) \in Seq(Byte) /\ datagram(r, w) \in Seq(Byte)
           /\ data(r) \in Seq(Byte) /\ Len(data(r)) <= WORD
           /\ datagram(r, w)[7] = be_bytes(w)[1] /\ datagram(r, w)[8] = be_bytes(w)[2]
           /\ Len(datagram(r, w)) = udp_len(r)
           /\ \E h, t \in Seq(Byte) :
                  /\ Len(h) = 10
                  /\ \A v \in Word : ipv4_header(r, v) = h \o be_bytes(v) \o t
           /\ \E h, t \in Seq(Byte) :
                  /\ Len(h) = 18
                  /\ \A v \in Word : pseudo_header(r, udp_len(r)) \o datagram(r, v)
                                        = h \o be_bytes(v) \o t
<1>1. /\ r.src \in Seq(Byte) /\ Len(r.src) = 4 /\ r.dst \in Seq(Byte) /\ Len(r.dst) = 4
      /\ r.src_port \in Word /\ r.dst_port \in Word /\ r.identification \in Word
      /\ r.payload \in Seq(Byte) /\ Len(r.payload) <= WORD - 1 - 20 - 8
  BY RequestsAssumption DEF Octets
<1>2. /\ VERSION_IHL \in Byte /\ TTL \in Byte /\ UDP \in Byte /\ 0 \in Byte
      /\ 0 \in Word /\ WORD \in Nat /\ WORD >= 4
  BY BaseAssumption, WordBase, SMT DEF Word
<1> DEFINE n == Len(r.payload)
<1>3. /\ n \in Nat /\ n + 28 < WORD
      /\ Bytes(r.src, 4) /\ Bytes(r.dst, 4) /\ Bytes(r.payload, n)
  BY <1>1, <1>2, SMT DEF Bytes
<1>4. udp_len(r) = 8 + n /\ udp_len(r) \in Word
  <2>0. udp_len(r) = (8 + n) % WORD
    BY DEF udp_len
  <2> HIDE DEF n
  <2>1. 8 + n \in Nat /\ 8 + n < WORD
    BY <1>2, <1>3, SMT
  <2>2. (8 + n) % WORD = 8 + n
    BY <2>1, <1>2, SmallModulus, SMT
  <2> QED BY <2>0, <2>1, <2>2, <1>2, SMT DEF Word
<1>5. (20 + udp_len(r)) % WORD \in Word /\ WORD \div 4 \in Word
  <2>1. \A a \in Nat : a % WORD \in 0 .. WORD - 1
    BY <1>2, Division, SMT
  <2>2. 20 + udp_len(r) \in Nat
    BY <1>3, <1>4, SMT
  <2>3. WORD \div 4 \in Nat /\ WORD \div 4 < WORD
    BY <1>2, SMT
  <2> QED BY <2>1, <2>2, <2>3, <1>2, SMT DEF Word
<1> DEFINE L == be_bytes((20 + udp_len(r)) % WORD)
           I == be_bytes(r.identification)
           D == be_bytes(WORD \div 4)
           S == be_bytes(r.src_port)
           T == be_bytes(r.dst_port)
           U == be_bytes(udp_len(r))
<1>6. /\ Bytes(L, 2) /\ Bytes(I, 2)
      /\ Bytes(D, 2)
      /\ Bytes(S, 2) /\ Bytes(T, 2)
      /\ Bytes(U, 2)
  BY <1>1, <1>4, <1>5, BigEndian, Zenon DEF Bytes
<1> HIDE DEF L, I, D, S, T, U, n
<1>7. ASSUME NEW v \in Word
      PROVE  /\ ipv4_header(r, v) \in Seq(Byte) /\ Len(ipv4_header(r, v)) = 20
             /\ datagram(r, v) \in Seq(Byte) /\ Len(datagram(r, v)) = 8 + n
             /\ datagram(r, v)[7] = be_bytes(v)[1] /\ datagram(r, v)[8] = be_bytes(v)[2]
  <2> DEFINE C == be_bytes(v)
  <2>1. Bytes(C, 2)
    BY <1>7, BigEndian DEF Bytes
  <2> HIDE DEF C
  <2>2. ipv4_header(r, v) = <<VERSION_IHL, 0>> \o L \o I \o D \o <<TTL, UDP>> \o C
                                \o r.src \o r.dst
    BY DEF ipv4_header, L, I, D, C
  <2>3. datagram(r, v) = S \o T \o U \o C \o r.payload
    BY DEF datagram, S, T, U, C
  <2>4. Bytes(ipv4_header(r, v), 20)
    <3>1. Bytes(<<VERSION_IHL, 0>>, 2) /\ Bytes(<<TTL, UDP>>, 2)
      BY <1>2, Pair DEF Bytes
    <3>2. Bytes(<<VERSION_IHL, 0>> \o L, 4)
      BY <3>1, <1>6, JoinedBytes, SMT
    <3>3. Bytes(<<VERSION_IHL, 0>> \o L \o I, 6)
      BY <3>2, <1>6, JoinedBytes, SMT
    <3>4. Bytes(<<VERSION_IHL, 0>> \o L \o I \o D, 8)
      BY <3>3, <1>6, JoinedBytes, SMT
    <3>5. Bytes(<<VERSION_IHL, 0>> \o L \o I \o D \o <<TTL, UDP>>, 10)
      BY <3>4, <3>1, JoinedBytes, SMT
    <3>6. Bytes(<<VERSION_IHL, 0>> \o L \o I \o D \o <<TTL, UDP>> \o C, 12)
      BY <3>5, <2>1, JoinedBytes, SMT
    <3>7. Bytes(<<VERSION_IHL, 0>> \o L \o I \o D \o <<TTL, UDP>> \o C \o r.src, 16)
      BY <3>6, <1>3, JoinedBytes, SMT
    <3>8. Bytes(<<VERSION_IHL, 0>> \o L \o I \o D \o <<TTL, UDP>> \o C \o r.src
                    \o r.dst, 20)
      BY <3>7, <1>3, JoinedBytes, SMT
    <3> QED BY <3>8, <2>2
  <2>5. Bytes(S \o T \o U, 6)
    <3>1. Bytes(S \o T, 4)
      BY <1>6, JoinedBytes, SMT
    <3> QED BY <3>1, <1>6, JoinedBytes, SMT
  <2>6. Bytes(S \o T \o U \o C, 8)
    BY <2>5, <2>1, JoinedBytes, SMT
  <2>7. Bytes(datagram(r, v), 8 + n)
    BY <2>3, <2>6, <1>3, JoinedBytes, SMT
  <2>8. datagram(r, v)[7] = C[1] /\ datagram(r, v)[8] = C[2]
    <3> DEFINE H == S \o T \o U
               R == r.payload
               E == datagram(r, v)
    <3>1. /\ H \in Seq(Byte) /\ C \in Seq(Byte) /\ R \in Seq(Byte)
          /\ Len(H) = 6 /\ Len(C) = 2 /\ E = H \o C \o R
      BY <2>3, <2>5, <2>1, <1>1 DEF Bytes
    <3> HIDE DEF H, R, E
    <3>2. (H \o C \o R)[7] = C[1] /\ (H \o C \o R)[8] = C[2]
      BY <3>1, FieldAt, Zenon
    <3>3. E[7] = C[1] /\ E[8] = C[2]
      BY <3>1, <3>2, Zenon
    <3> QED BY <3>3 DEF E
  <2> QED BY <2>4, <2>7, <2>8 DEF C, Bytes
<1>8. Bytes(pseudo_header(r, udp_len(r)), 12)
  <2>1. pseudo_header(r, udp_len(r)) = r.src \o r.dst \o <<0, UDP>> \o U
    BY DEF pseudo_header, U
  <2>2. Bytes(r.src \o r.dst, 8)
    BY <1>3, JoinedBytes, SMT
  <2>3. Bytes(<<0, UDP>>, 2)
    BY <1>2, Pair DEF Bytes
  <2>4. Bytes(r.src \o r.dst \o <<0, UDP>>, 10)
    BY <2>2, <2>3, JoinedBytes, SMT
  <2> QED BY <2>1, <2>4, <1>6, JoinedBytes, SMT
<1>9. data(r) \in Seq(Byte) /\ Len(data(r)) <= WORD
  <2>1. 20 + n <= WORD
    BY <1>1, <1>2, <1>3, SMT DEF n
  <2>2. CASE r.header = "ip"
    <3>1. data(r) = ipv4_header(r, 0)
      BY <2>2 DEF data
    <3>2. Bytes(ipv4_header(r, 0), 20)
      BY <1>2, <1>7 DEF Bytes
    <3>3. data(r) \in Seq(Byte) /\ Len(data(r)) = 20
      BY <3>1, <3>2 DEF Bytes
    <3> QED BY <3>3, <2>1, <1>2, <1>3, SMT
  <2>3. CASE r.header # "ip"
    <3>1. data(r) = pseudo_header(r, udp_len(r)) \o datagram(r, 0)
      BY <2>3 DEF data
    <3>2. Bytes(datagram(r, 0), 8 + n)
      BY <1>2, <1>7 DEF Bytes
    <3>3. Bytes(data(r), 12 + (8 + n))
      BY <3>1, <3>2, <1>3, <1>8, JoinedBytes, SMT
    <3> QED BY <3>3, <2>1, <1>2, <1>3, SMT DEF Bytes
  <2> QED BY <2>2, <2>3
<1>10. \E h, t \in Seq(Byte) :
           /\ Len(h) = 10
           /\ \A v \in Word : ipv4_header(r, v) = h \o be_bytes(v) \o t
  <2> DEFINE h == <<VERSION_IHL, 0>> \o L \o I \o D \o <<TTL, UDP>>
             t == r.src \o r.dst
  <2>1. Bytes(<<VERSION_IHL, 0>>, 2) /\ Bytes(<<TTL, UDP>>, 2)
    BY <1>2, Pair DEF Bytes
  <2>2. Bytes(<<VERSION_IHL, 0>> \o L, 4)
    BY <2>1, <1>6, JoinedBytes, SMT
  <2>3. Bytes(<<VERSION_IHL, 0>> \o L \o I, 6)
    BY <2>2, <1>6, JoinedBytes, SMT
  <2>4. Bytes(<<VERSION_IHL, 0>> \o L \o I \o D, 8)
    BY <2>3, <1>6, JoinedBytes, SMT
  <2>5. Bytes(h, 10)
    BY <2>4, <2>1, JoinedBytes, SMT
  <2>6. Bytes(t, 8)
    BY <1>3, JoinedBytes, SMT
  <2>7. ASSUME NEW v \in Word PROVE ipv4_header(r, v) = h \o be_bytes(v) \o t
    <3> DEFINE C == be_bytes(v)
    <3>1. ipv4_header(r, v) = h \o C \o r.src \o r.dst
      BY DEF ipv4_header, L, I, D
    <3>2. Bytes(C, 2)
      BY BigEndian DEF Bytes
    <3> HIDE DEF C, h
    <3>3. Bytes(h \o C, 12)
      BY <2>5, <3>2, JoinedBytes, SMT
    <3> DEFINE X == r.src
               Y == r.dst
               Z == h \o C
    <3>4. Z \o X \o Y = Z \o (X \o Y)
      <4>1. Bytes(X, 4) /\ Bytes(Y, 4) /\ Bytes(Z, 12)
        BY <1>3, <3>3
      <4> HIDE DEF X, Y, Z
      <4> QED BY <4>1, JoinedThrice
    <3> QED BY <3>1, <3>4, Zenon DEF C
  <2> HIDE DEF h, t
  <2> QED BY <2>5, <2>6, <2>7 DEF Bytes
<1>11. \E h, t \in Seq(Byte) :
           /\ Len(h) = 18
           /\ \A v \in Word : pseudo_header(r, udp_len(r)) \o datagram(r, v)
                                 = h \o be_bytes(v) \o t
  <2> DEFINE P == pseudo_header(r, udp_len(r))
             H == S \o T \o U
             t == r.payload
  <2>1. Bytes(S \o T, 4)
    BY <1>6, JoinedBytes, SMT
  <2>2. Bytes(H, 6)
    BY <2>1, <1>6, JoinedBytes, SMT
  <2>3. Bytes(P, 12)
    BY <1>8
  <2> HIDE DEF P
  <2>4. Bytes(P \o H, 18)
    BY <2>2, <2>3, JoinedBytes, SMT
  <2>5. ASSUME NEW v \in Word
        PROVE  P \o datagram(r, v) = (P \o H) \o be_bytes(v) \o t
    <3> DEFINE C == be_bytes(v)
    <3>1. datagram(r, v) = H \o C \o t
      BY DEF datagram, S, T, U
    <3>2. Bytes(C, 2)
      BY BigEndian DEF Bytes
    <3> HIDE DEF C, H
    <3>3. Bytes(H \o C, 8)
      BY <2>2, <3>2, JoinedBytes, SMT
    <3>4. P \o (H \o C \o t) = (P \o (H \o C)) \o t
      <4>1. Bytes(t, n) /\ Bytes(H \o C, 8)
        BY <1>3, <3>3
      <4> HIDE DEF t
      <4> QED BY <4>1, <2>3, JoinedThrice
    <3>5. P \o (H \o C) = (P \o H) \o C
      BY <2>2, <2>3, <3>2, JoinedThrice
    <3> QED BY <3>1, <3>4, <3>5, Zenon DEF C
  <2> DEFINE h == P \o H
  <2>6. /\ h \in Seq(Byte) /\ Len(h) = 18 /\ t \in Seq(Byte)
        /\ \A v \in Word : P \o datagram(r, v) = h \o be_bytes(v) \o t
    BY <2>4, <2>5, <1>1 DEF Bytes
  <2> HIDE DEF h, t
  <2> QED BY <2>6 DEF P
<1>12. Len(datagram(r, w)) = udp_len(r)
  BY <1>4, <1>7
<1> QED BY <1>7, <1>9, <1>10, <1>11, <1>12
-------------------------------------------------------------------------------
(* While words are added, i bytes cannot have made more than i full words; the
   bytes are fewer than a word can count, so the sum stays below the wrap.  A
   fold takes (WORD - 1) times the carry away. *)
SumInv ==
    /\ NothingLost
    /\ exact <= WORD * (WORD - 1)
    /\ pc = "add" => exact <= i * (WORD - 1) /\ carries = 0
    /\ pc = "done" => ~Carry(sum) /\ out = header(req, csum(req))

Inv == TypeOK /\ SumInv

(* A sum that fits a word leaves the accumulator alone. *)
LEMMA NoWrap ==
    ASSUME NEW a \in Nat, a <= WORD * (WORD - 1)
    PROVE  a < WORD * WORD /\ a % (WORD * WORD) = a
<1>1. WORD \in Nat /\ WORD >= 4
  BY WordBase
<1>2. WORD * (WORD - 1) = WORD * WORD - WORD /\ WORD * WORD \in Nat
  BY <1>1, SMT
<1>3. a < WORD * WORD /\ WORD * WORD >= 2
  BY <1>1, <1>2, SMT
<1> QED BY <1>2, <1>3, SmallModulus, SMT

(* What adding one word to the sum of k bytes keeps. *)
LEMMA AddedWord ==
    ASSUME NEW w \in Word, NEW k \in Nat, NEW l \in Nat, l > k, l <= WORD,
           exact \in Nat, exact <= k * (WORD - 1), sum = exact, Add(w)
    PROVE  /\ exact' \in Nat /\ exact' <= l * (WORD - 1)
           /\ exact' <= WORD * (WORD - 1)
           /\ sum' = exact' /\ sum' \in 0 .. WORD * WORD - 1
<1>1. WORD \in Nat /\ WORD >= 4 /\ w \in Nat /\ w <= WORD - 1
  BY WordBase, SMT DEF Word
<1> DEFINE m == WORD - 1
<1>2. m \in Nat /\ k * m \in Nat /\ l * m \in Nat /\ WORD * m \in Nat
  BY <1>1, SMT
<1>3. k * m + m <= l * m /\ l * m <= WORD * m
  <2>1. k * m + m = (k + 1) * m
    BY <1>2, SMT
  <2>2. \A a, b, c \in Nat : a <= b => a * c <= b * c
    BY SMT
  <2> HIDE DEF m
  <2>3. k + 1 \in Nat /\ k + 1 <= l
    BY SMT
  <2> QED BY <2>1, <2>2, <2>3, <1>1, <1>2, SMT
<1>4. exact' = exact + w /\ exact' \in Nat /\ exact' <= l * m /\ exact' <= WORD * m
  BY <1>1, <1>2, <1>3, SMT DEF Add
<1>5. sum' = exact' % (WORD * WORD)
  BY <1>4, SMT DEF Add, wrapping_add
<1>6. exact' < WORD * WORD /\ sum' = exact'
  BY <1>4, <1>5, NoWrap
<1>7. WORD * WORD \in Nat
  BY <1>1, SMT
<1> QED BY <1>4, <1>6, <1>7, SMT

LEMMA InvInit == Init => Inv
<1> SUFFICES ASSUME Init PROVE Inv
  OBVIOUS
<1>1. WORD \in Nat /\ WORD >= 4
  BY WordBase
<1>2. WORD * WORD \in Nat /\ WORD * WORD > 0 /\ WORD * (WORD - 1) \in Nat
      /\ 0 * (WORD - 1) = 0
  BY <1>1, SMT
<1>3. Len(data(req)) \in Nat
  <2>1. data(req) \in Seq(Byte)
    BY WordBase, Data, SMT DEF Init, Word
  <2> QED BY <2>1
<1>4. TypeOK
  BY <1>2, <1>3, SMT DEF Init, TypeOK
<1>5. SumInv
  BY <1>2, SMT DEF Init, SumInv, NothingLost
<1> QED BY <1>4, <1>5 DEF Inv

LEMMA AddWordStep == ASSUME Inv, AddWord PROVE Inv'
<1> USE DEF Inv
<1>1. /\ req' = req /\ req \in Requests /\ pc = "add" /\ pc' = pc /\ out' = out
      /\ carries' = carries /\ carries = 0 /\ i' = i + 2
      /\ exact \in Nat /\ exact <= i * (WORD - 1) /\ Add(WordAt(i))
      /\ i + 1 < Len(data(req)) /\ i \in 0 .. Len(data(req))
      /\ out = << >> \/ out \in Seq(Byte)
  BY DEF AddWord, TypeOK, SumInv
<1>2. /\ WORD \in Nat /\ data(req) \in Seq(Byte) /\ Len(data(req)) <= WORD
      /\ Len(data(req)) \in Nat
  <2>1. 0 \in Word /\ WORD \in Nat
    BY WordBase, SMT DEF Word
  <2>2. data(req) \in Seq(Byte) /\ Len(data(req)) <= WORD
    BY <2>1, <1>1, Data
  <2> QED BY <2>1, <2>2
<1>3. WordAt(i) \in Word
  <2>1. i + 1 \in 1 .. Len(data(req)) /\ i + 2 \in 1 .. Len(data(req))
    BY <1>1, <1>2, SMT
  <2>2. data(req)[i + 1] \in Byte /\ data(req)[i + 2] \in Byte
    BY <2>1, <1>2, ElementOfSeq
  <2> QED BY <2>2, WordBase DEF WordAt
<1>4. i \in Nat /\ i + 2 \in Nat /\ i + 2 > i /\ i + 2 <= WORD
  BY <1>1, <1>2, SMT
<1>5. sum = exact
  BY <1>1, <1>2, SMT DEF SumInv, NothingLost, TypeOK
<1>6. /\ exact' \in Nat /\ exact' <= (i + 2) * (WORD - 1)
      /\ exact' <= WORD * (WORD - 1)
      /\ sum' = exact' /\ sum' \in 0 .. WORD * WORD - 1
  BY <1>1, <1>3, <1>4, <1>5, AddedWord
<1>7. TypeOK'
  BY <1>1, <1>2, <1>4, <1>6, SMT DEF TypeOK
<1>8. SumInv'
  <2>1. 0 * (WORD - 1) = 0
    BY <1>2, SMT
  <2>2. NothingLost'
    <3>1. carries' * (WORD - 1) = 0
      BY <2>1, <1>1, Zenon
    <3> QED BY <3>1, <1>6, SMT DEF NothingLost
  <2> QED BY <2>2, <1>1, <1>2, <1>6, SMT DEF SumInv
<1> QED BY <1>7, <1>8

LEMMA AddLastStep == ASSUME Inv, AddLast PROVE Inv'
<1> USE DEF Inv
<1>1. /\ req' = req /\ req \in Requests /\ pc = "add" /\ pc' = "fold" /\ out' = out
      /\ carries' = carries /\ carries = 0 /\ i' = i /\ i + 1 >= Len(data(req))
      /\ exact \in Nat /\ exact <= i * (WORD - 1) /\ exact <= WORD * (WORD - 1)
      /\ i \in 0 .. Len(data(req)) /\ sum \in 0 .. WORD * WORD - 1
      /\ out = << >> \/ out \in Seq(Byte)
  BY DEF AddLast, TypeOK, SumInv
<1>2. /\ WORD \in Nat /\ data(req) \in Seq(Byte) /\ Len(data(req)) <= WORD
      /\ Len(data(req)) \in Nat
  <2>1. 0 \in Word /\ WORD \in Nat
    BY WordBase, SMT DEF Word
  <2>2. data(req) \in Seq(Byte) /\ Len(data(req)) <= WORD
    BY <2>1, <1>1, Data
  <2> QED BY <2>1, <2>2
<1>3. carries * (WORD - 1) = 0
  <2>1. 0 * (WORD - 1) = 0
    BY <1>2, SMT
  <2> QED BY <2>1, <1>1, Zenon
<1>4. sum = exact
  BY <1>1, <1>3, SMT DEF SumInv, NothingLost
<1>5. /\ exact' \in Nat /\ exact' <= WORD * (WORD - 1)
      /\ sum' = exact' /\ sum' \in 0 .. WORD * WORD - 1
  <2>1. CASE i < Len(data(req)) /\ Add(BASE * data(req)[i + 1])
    <3>1. i + 1 \in 1 .. Len(data(req)) /\ i \in Nat /\ i + 1 > i /\ i + 1 <= WORD
          /\ i + 1 \in Nat
      BY <2>1, <1>1, <1>2, SMT
    <3>2. BASE * data(req)[i + 1] \in Word
      BY <3>1, <1>2, ElementOfSeq, WordBase
    <3> QED BY <2>1, <3>1, <3>2, <1>1, <1>4, AddedWord
  <2>2. CASE UNCHANGED <<sum, exact>>
    BY <2>2, <1>1, <1>4
  <2> QED BY <2>1, <2>2 DEF AddLast
<1>6. TypeOK'
  BY <1>1, <1>5, SMT DEF TypeOK
<1>7. SumInv'
  <2>1. carries' * (WORD - 1) = 0
    BY <1>1, <1>3, Zenon
  <2>2. NothingLost'
    BY <2>1, <1>5, SMT DEF NothingLost
  <2> QED BY <2>2, <1>1, <1>5 DEF SumInv
<1> QED BY <1>6, <1>7

LEMMA FoldStep == ASSUME Inv, Fold PROVE Inv'
<1> USE DEF Inv
<1> DEFINE q == sum \div WORD
           r == sum % WORD
<1>1. /\ req' = req /\ pc = "fold" /\ pc' = pc /\ i' = i /\ out' = out /\ exact' = exact
      /\ sum' = r + q /\ carries' = carries + q /\ carries \in Nat
      /\ sum \in 0 .. WORD * WORD - 1 /\ exact = sum + carries * (WORD - 1)
      /\ exact <= WORD * (WORD - 1)
  BY DEF Fold, TypeOK, SumInv, NothingLost
<1>2. /\ WORD \in Nat /\ WORD >= 4 /\ WORD * WORD \in Nat /\ sum \in Nat
      /\ sum < WORD * WORD
  <2>1. WORD \in Nat /\ WORD >= 4
    BY WordBase
  <2>2. WORD * WORD \in Nat
    BY <2>1, SMT
  <2> QED BY <2>1, <2>2, <1>1, SMT
<1>3. q \in Nat /\ r \in 0 .. WORD - 1 /\ sum = WORD * q + r
  BY <1>2, Division
<1>4. exact = (r + q) + (carries + q) * (WORD - 1)
  <2>1. WORD >= 2
    BY <1>2, SMT
  <2> QED BY <2>1, <1>1, <1>2, FoldExact, Zenon
<1> HIDE DEF q, r
<1>5. q <= WORD * q
  BY <1>2, <1>3, SMT
<1>6. sum' \in 0 .. WORD * WORD - 1
  BY <1>1, <1>2, <1>3, <1>5, SMT
<1>7. TypeOK'
  BY <1>1, <1>3, <1>6, SMT DEF TypeOK
<1>8. SumInv'
  <2>1. NothingLost'
    BY <1>1, <1>4 DEF NothingLost
  <2> QED BY <2>1, <1>1 DEF SumInv
<1> QED BY <1>7, <1>8

(* A sum without a carry is a word, and so is its complement. *)
LEMMA Complement ==
    ASSUME Inv, ~Carry(sum)
    PROVE  /\ sum \in Word /\ csum(req) \in Word
           /\ csum(req) = WORD - 1 - sum \/ (csum(req) = WORD - 1 /\ sum = WORD - 1)
           /\ req.header = "udp" => csum(req) # 0
<1>1. WORD \in Nat /\ WORD >= 4 /\ WORD * WORD \in Nat
  <2>1. WORD \in Nat /\ WORD >= 4
    BY WordBase
  <2> QED BY <2>1, SMT
<1>2. sum \in Nat
  BY <1>1, SMT DEF Inv, TypeOK
<1>3. sum \div WORD = 0 /\ sum % WORD \in 0 .. WORD - 1
      /\ sum = WORD * (sum \div WORD) + (sum % WORD)
  BY <1>1, <1>2, Division DEF Carry
<1>4. WORD * (sum \div WORD) = 0
  <2>1. WORD * 0 = 0
    BY <1>1, SMT
  <2> QED BY <2>1, <1>3, Zenon
<1> DEFINE r == sum % WORD
<1>5. sum = r /\ r \in 0 .. WORD - 1
  BY <1>3, <1>4, SMT
<1>6. complement = WORD - 1 - r
  BY DEF complement
<1> HIDE DEF r
<1>7. complement = WORD - 1 - sum /\ complement \in 0 .. WORD - 1
  BY <1>1, <1>5, <1>6, SMT
<1>8. \/ req.header = "udp" /\ complement = 0 /\ csum(req) = WORD - 1
      \/ ~(req.header = "udp" /\ complement = 0) /\ csum(req) = complement
  BY DEF csum
<1>9. CASE req.header = "udp" /\ complement = 0 /\ csum(req) = WORD - 1
  BY <1>9, <1>1, <1>5, <1>7, SMT DEF Word
<1>10. CASE ~(req.header = "udp" /\ complement = 0) /\ csum(req) = complement
  <2>1. req.header = "udp" => csum(req) # 0
    BY <1>10, Zenon
  <2>2. csum(req) = WORD - 1 - sum /\ csum(req) \in 0 .. WORD - 1
    BY <1>10, <1>7, Zenon
  <2>3. sum \in 0 .. WORD - 1
    BY <1>5, Zenon
  <2>4. Word = 0 .. WORD - 1
    BY DEF Word
  <2> QED BY <2>1, <2>2, <2>3, <2>4, Zenon
<1> QED BY <1>8, <1>9, <1>10

LEMMA FinishStep == ASSUME Inv, Finish PROVE Inv'
<1> USE DEF Inv
<1>1. /\ req' = req /\ pc' = "done" /\ i' = i /\ sum' = sum /\ exact' = exact
      /\ carries' = carries /\ ~Carry(sum) /\ out' = header(req, csum(req))
      /\ req \in Requests
  BY DEF Finish, TypeOK
<1>2. csum(req) \in Word
  BY <1>1, Complement
<1>3. out' \in Seq(Byte)
  BY <1>1, <1>2, Data DEF header
<1>4. TypeOK'
  BY <1>1, <1>3 DEF TypeOK
<1>5. csum(req)' = csum(req)
  BY <1>1 DEF csum, complement
<1>6. header(req, csum(req))' = header(req, csum(req))
  BY <1>1, <1>5
<1>7. SumInv'
  BY <1>1, <1>6 DEF SumInv, NothingLost
<1> QED BY <1>4, <1>7

LEMMA Invariance == Spec => []Inv
<1>1. Inv /\ [Next]_vars => Inv'
  <2> SUFFICES ASSUME Inv, [Next]_vars PROVE Inv'
    OBVIOUS
  <2>1. CASE AddWord
    BY <2>1, AddWordStep
  <2>2. CASE AddLast
    BY <2>2, AddLastStep
  <2>3. CASE Fold
    BY <2>3, FoldStep
  <2>4. CASE Finish
    BY <2>4, FinishStep
  <2>5. CASE UNCHANGED vars
    BY <2>5 DEF vars, Inv, TypeOK, SumInv, NothingLost, csum, complement
  <2> QED BY <2>1, <2>2, <2>3, <2>4, <2>5 DEF Next
<1> QED BY InvInit, <1>1, PTL DEF Spec

(* Every state of the two builders is well typed; in particular what is
   written is a sequence of bytes. *)
THEOREM TypeCorrect == Spec => []TypeOK
BY Invariance, PTL DEF Inv

(* raw.rs:20-26: no packet the size check lets through makes wrapping_add
   wrap, and folding takes multiples of WORD - 1 only. *)
THEOREM SumExact == Spec => []NothingLost
BY Invariance, PTL DEF Inv, SumInv

(* raw.rs:28, 113-116: sum and field add up to minus zero, the field that
   stands for a zero included. *)
THEOREM ReceiverSumIsZero == Spec => []FieldCompletes
<1>1. Inv => FieldCompletes
  <2> SUFFICES ASSUME Inv, pc = "done"
               PROVE  \E k \in 1 .. carries + 2 : exact + csum(req) = k * (WORD - 1)
    BY DEF FieldCompletes
  <2>1. /\ ~Carry(sum) /\ exact = sum + carries * (WORD - 1) /\ carries \in Nat
    BY DEF Inv, TypeOK, SumInv, NothingLost
  <2>2. /\ sum \in Word
        /\ csum(req) = WORD - 1 - sum \/ (csum(req) = WORD - 1 /\ sum = WORD - 1)
    BY <2>1, Complement
  <2> DEFINE m == WORD - 1
  <2>3. m \in Nat /\ sum \in Nat /\ carries * m \in Nat
    BY <2>1, <2>2, WordBase, SMT DEF Word
  <2>4. (carries + 1) * m = carries * m + m /\ (carries + 2) * m = carries * m + m + m
    BY <2>1, <2>3, SMT
  <2> HIDE DEF m
  <2>5. CASE csum(req) = WORD - 1 - sum
    <3>1. exact + csum(req) = (carries + 1) * m
      <4>1. exact = sum + carries * m /\ csum(req) = m - sum
        BY <2>1, <2>5 DEF m
      <4> QED BY <4>1, <2>3, <2>4, SMT
    <3>2. carries + 1 \in 1 .. carries + 2
      BY <2>1, SMT
    <3> QED BY <3>1, <3>2 DEF m
  <2>6. CASE csum(req) = WORD - 1 /\ sum = WORD - 1
    <3>1. exact + csum(req) = (carries + 2) * m
      <4>1. exact = m + carries * m /\ csum(req) = m
        BY <2>1, <2>6 DEF m
      <4> QED BY <4>1, <2>3, <2>4, SMT
    <3>2. carries + 2 \in 1 .. carries + 2
      BY <2>1, SMT
    <3> QED BY <3>1, <3>2 DEF m
  <2> QED BY <2>2, <2>5, <2>6
<1> QED BY Invariance, <1>1, PTL

(* raw.rs:114: the field of a datagram is never the zero that would tell the
   receiver not to check it. *)
THEOREM AlwaysChecked == Spec => []NeverUnchecked
<1>1. Inv => NeverUnchecked
  <2> SUFFICES ASSUME Inv, pc = "done", req.header = "udp"
               PROVE  out[7] # 0 \/ out[8] # 0
    BY DEF NeverUnchecked
  <2>1. ~Carry(sum) /\ out = datagram(req, csum(req)) /\ req \in Requests
    BY DEF Inv, TypeOK, SumInv, header
  <2>2. csum(req) \in Word /\ csum(req) # 0
    BY <2>1, Complement
  <2>3. out[7] = be_bytes(csum(req))[1] /\ out[8] = be_bytes(csum(req))[2]
    BY <2>1, <2>2, Data
  <2> QED BY <2>2, <2>3, BigEndian
<1> QED BY Invariance, <1>1, PTL
-------------------------------------------------------------------------------
(* The receiver's sum.  It is defined by recursion, so what it is for every
   packet is shown by induction, over sets of numbers. *)

(* The order of the numbers, as a well-founded relation. *)
LEMMA NumbersOrdered ==
    \E R : /\ IsWellFoundedOn(R, Nat)
           /\ \A x, y \in Nat : <<x, y>> \in R <=> x < y
<1> DEFINE R == OpToRel(<, Nat)
<1>1. IsWellFoundedOn(R, Nat)
  BY NatLessThanWellFounded
<1>2. \A x, y \in Nat : <<x, y>> \in R <=> x < y
  BY DEF OpToRel
<1> HIDE DEF R
<1> QED BY <1>1, <1>2

LEMMA LeastNumber ==
    ASSUME NEW T, T \subseteq Nat, T # {}
    PROVE  \E m \in T : \A k \in T : m <= k
<1>1. PICK R : /\ IsWellFoundedOn(R, Nat)
               /\ \A x, y \in Nat : <<x, y>> \in R <=> x < y
  BY NumbersOrdered
<1>2. IsWellFoundedOn(R, Nat)
  BY <1>1
<1>3. PICK m \in T : \A y \in T : ~ (<<y, m>> \in R)
  BY <1>2, WFMin, Zenon
<1>4. ASSUME NEW k \in T PROVE m <= k
  <2>1. ~ (k < m)
    BY <1>1, <1>3
  <2> QED BY <2>1
<1> QED BY <1>4

(* A set that holds zero and the successor of each of its numbers holds them all. *)
LEMMA SetInduction ==
    ASSUME NEW G, 0 \in G, \A n \in Nat : n \in G => n + 1 \in G
    PROVE  Nat \subseteq G
<1>1. SUFFICES ASSUME Nat \ G # {} PROVE FALSE
  OBVIOUS
<1>2. PICK m \in Nat \ G : \A k \in Nat \ G : m <= k
  BY <1>1, LeastNumber
<1>3. m - 1 \in Nat
  BY <1>2
<1>4. m - 1 \in G
  BY <1>2, <1>3
<1>5. (m - 1) + 1 \in G /\ (m - 1) + 1 = m
  BY <1>3, <1>4, <1>2
<1> QED BY <1>2, <1>5

(* The words of a sequence of bytes. *)
LEMMA WordsOf ==
    ASSUME NEW s \in Seq(Byte)
    PROVE  /\ Len(s) \in Nat /\ Words(s) \in Nat
           /\ 2 * Words(s) \in {Len(s), Len(s) + 1}
           /\ \A k \in Nat \ {0} : ByteAt(s, k) \in Byte
           /\ \A n \in Nat \ {0} : WordIn(s, n) \in Word /\ WordIn(s, n) \in Nat
<1>1. Len(s) \in Nat
  OBVIOUS
<1>2. Words(s) \in Nat /\ 2 * Words(s) \in {Len(s), Len(s) + 1}
  BY <1>1, SMT DEF Words
<1>3. ASSUME NEW k \in Nat \ {0} PROVE ByteAt(s, k) \in Byte
  <2>1. CASE k <= Len(s)
    <3>1. k \in 1 .. Len(s)
      BY <1>1, <2>1
    <3> QED BY <3>1, <2>1, ElementOfSeq DEF ByteAt
  <2>2. CASE ~(k <= Len(s))
    BY <2>2, WordBase DEF ByteAt
  <2> QED BY <2>1, <2>2
<1>4. ASSUME NEW n \in Nat \ {0} PROVE WordIn(s, n) \in Word
  <2>1. 2 * n - 1 \in Nat \ {0} /\ 2 * n \in Nat \ {0}
    OBVIOUS
  <2> QED BY <1>3, <2>1, WordBase DEF WordIn
<1>5. Word \subseteq Nat
  BY WordBase, SMT DEF Word
<1> QED BY <1>1, <1>2, <1>3, <1>4, <1>5

(* There is a function that satisfies the recursion, for every length. *)
LEMMA SumsExist ==
    ASSUME NEW s, NEW K \in Nat
    PROVE  \E f : f = [n \in 0 .. K |-> IF n = 0 THEN 0 ELSE f[n - 1] + WordIn(s, n)]
<1> DEFINE w(n) == WordIn(s, n)
           Sums(f, k) == f = [n \in 0 .. k |-> IF n = 0 THEN 0 ELSE f[n - 1] + w(n)]
           G == {k \in Nat : \E f : Sums(f, k)}
<1> HIDE DEF w
<1>1. 0 \in G
  <2> DEFINE f == [n \in 0 .. 0 |-> 0]
  <2>1. Sums(f, 0)
    OBVIOUS
  <2> QED BY <2>1
<1>2. ASSUME NEW k \in Nat, k \in G PROVE k + 1 \in G
  <2>1. PICK f : Sums(f, k)
    BY <1>2
  <2> DEFINE g == [n \in 0 .. k + 1 |-> IF n = k + 1 THEN f[k] + w(k + 1) ELSE f[n]]
  <2>2. ASSUME NEW n \in 0 .. k + 1
        PROVE  g[n] = IF n = 0 THEN 0 ELSE g[n - 1] + w(n)
    <3>1. CASE n = k + 1
      BY <3>1
    <3>2. CASE n \in 0 .. k
      BY <2>1, <3>2
    <3> QED BY <3>1, <3>2
  <2>3. Sums(g, k + 1)
    BY <2>2
  <2> HIDE DEF g, Sums
  <2> QED BY <2>3
<1>3. K \in G
  BY <1>1, <1>2, SetInduction
<1> QED BY <1>3 DEF w

(* The recursion holds of the receiver's partial sums, which are numbers. *)
LEMMA SumsRule ==
    ASSUME NEW s \in Seq(Byte)
    PROVE  /\ PartialSums(s)[0] = 0
           /\ \A n \in 1 .. Words(s) :
                  PartialSums(s)[n] = PartialSums(s)[n - 1] + WordIn(s, n)
           /\ \A n \in 0 .. Words(s) : PartialSums(s)[n] \in Nat
<1> DEFINE Sums(f) == f = [n \in 0 .. Words(s) |->
                              IF n = 0 THEN 0 ELSE f[n - 1] + WordIn(s, n)]
           P == PartialSums(s)
<1>1. Words(s) \in Nat
  BY WordsOf
<1>2. \E f : Sums(f)
  BY <1>1, SumsExist
<1>3. P = CHOOSE f : Sums(f)
  BY Zenon DEF PartialSums
<1> HIDE DEF Sums
<1>4. Sums(P)
  BY <1>2, <1>3
<1> HIDE DEF P
<1>5. \A n \in 0 .. Words(s) : P[n] = IF n = 0 THEN 0 ELSE P[n - 1] + WordIn(s, n)
  BY <1>4 DEF Sums
<1>6. /\ P[0] = 0
      /\ \A n \in 1 .. Words(s) : P[n] = P[n - 1] + WordIn(s, n)
  BY <1>1, <1>5
<1>7. \A n \in 0 .. Words(s) : P[n] \in Nat
  <2> DEFINE G == {n \in Nat : n <= Words(s) => P[n] \in Nat}
  <2>1. 0 \in G
    BY <1>6
  <2>2. ASSUME NEW n \in Nat, n \in G PROVE n + 1 \in G
    <3>1. SUFFICES ASSUME n + 1 <= Words(s) PROVE P[n + 1] \in Nat
      OBVIOUS
    <3>2. P[n] \in Nat /\ n + 1 \in 1 .. Words(s) /\ (n + 1) - 1 = n
      BY <1>1, <2>2, <3>1
    <3>3. P[n + 1] = P[n] + WordIn(s, n + 1)
      BY <1>6, <3>2
    <3>4. WordIn(s, n + 1) \in Nat
      BY WordsOf
    <3> QED BY <3>2, <3>3, <3>4
  <2>3. Nat \subseteq G
    BY <2>1, <2>2, SetInduction
  <2> QED BY <2>3, <1>1
<1> QED BY <1>6, <1>7 DEF P

(* Two sequences that differ in one word differ by that word in their sums. *)
LEMMA OneWordChanged ==
    ASSUME NEW s \in Seq(Byte), NEW t \in Seq(Byte), Len(s) = Len(t),
           NEW j \in 1 .. Words(s), NEW c \in Nat, WordIn(s, j) = 0, WordIn(t, j) = c,
           \A k \in 1 .. Len(s) : k \notin {2 * j - 1, 2 * j} => s[k] = t[k]
    PROVE  WordSum(t) = WordSum(s) + c
<1>1. /\ Words(t) = Words(s) /\ Words(s) \in Nat /\ Len(s) \in Nat
      /\ 2 * Words(s) \in {Len(s), Len(s) + 1}
  BY WordsOf DEF Words
<1>2. ASSUME NEW n \in 1 .. Words(s), n # j PROVE WordIn(s, n) = WordIn(t, n)
  <2>1. ASSUME NEW k \in {2 * n - 1, 2 * n} PROVE ByteAt(s, k) = ByteAt(t, k)
    <3>1. k \in Nat \ {0} /\ k \notin {2 * j - 1, 2 * j}
      BY <1>1, <1>2
    <3>2. CASE k <= Len(s)
      BY <1>1, <3>1, <3>2 DEF ByteAt
    <3>3. CASE ~(k <= Len(s))
      BY <3>3 DEF ByteAt
    <3> QED BY <3>2, <3>3
  <2> QED BY <2>1 DEF WordIn
<1> DEFINE P == PartialSums(s)
           Q == PartialSums(t)
           d(n) == IF n >= j THEN c ELSE 0
           G == {n \in Nat : n <= Words(s) => Q[n] = P[n] + d(n)}
<1>3. /\ P[0] = 0 /\ \A n \in 1 .. Words(s) : P[n] = P[n - 1] + WordIn(s, n)
      /\ Q[0] = 0 /\ \A n \in 1 .. Words(s) : Q[n] = Q[n - 1] + WordIn(t, n)
      /\ \A n \in 0 .. Words(s) : P[n] \in Nat /\ Q[n] \in Nat
  BY <1>1, SumsRule
<1> HIDE DEF P, Q
<1>4. 0 \in G
  <2>1. d(0) = 0
    BY <1>1
  <2>2. Q[0] = P[0] + d(0)
    BY <1>3, <2>1
  <2> HIDE DEF d
  <2> QED BY <2>2
<1>5. ASSUME NEW n \in Nat, n \in G PROVE n + 1 \in G
  <2>1. SUFFICES ASSUME n + 1 <= Words(s) PROVE Q[n + 1] = P[n + 1] + d(n + 1)
    OBVIOUS
  <2>2. /\ Q[n] = P[n] + d(n) /\ P[n] \in Nat /\ n + 1 \in 1 .. Words(s)
        /\ P[n + 1] = P[n] + WordIn(s, n + 1) /\ Q[n + 1] = Q[n] + WordIn(t, n + 1)
    <3>1. n + 1 \in 1 .. Words(s) /\ n \in 0 .. Words(s) /\ (n + 1) - 1 = n
      BY <1>1, <2>1
    <3> QED BY <1>1, <1>3, <1>5, <3>1
  <2>3. WordIn(s, n + 1) \in Nat /\ WordIn(t, n + 1) \in Nat
    BY WordsOf
  <2>4. CASE n + 1 = j
    BY <2>2, <2>3, <2>4
  <2>5. CASE n + 1 # j
    <3>1. d(n + 1) = d(n)
      BY <2>5
    <3>2. WordIn(s, n + 1) = WordIn(t, n + 1)
      BY <1>2, <2>2, <2>5
    <3>3. d(n) \in Nat
      OBVIOUS
    <3> HIDE DEF d
    <3> QED BY <2>2, <2>3, <3>1, <3>2, <3>3
  <2> QED BY <2>4, <2>5
<1>6. Words(s) \in G
  BY <1>1, <1>4, <1>5, SetInduction
<1>7. Q[Words(s)] = P[Words(s)] + c
  BY <1>1, <1>6
<1> QED BY <1>1, <1>7 DEF WordSum, P, Q

(* x is s, of length n, and then t. *)
Follows(x, s, n, t) ==
    /\ x \in Seq(Byte) /\ Len(x) = n + Len(t) /\ Len(t) \in Nat
    /\ \A k \in 1 .. n : x[k] = s[k]
    /\ \A k \in 1 .. Len(t) : x[n + k] = t[k]

LEMMA JoinedElements ==
    ASSUME NEW s \in Seq(Byte), NEW t \in Seq(Byte), NEW n \in Nat, Len(s) = n
    PROVE  Follows(s \o t, s, n, t)
<1>1. s \o t \in Seq(Byte) /\ Len(s \o t) = n + Len(t) /\ Len(t) \in Nat
  BY Joined, LenProperties
<1>2. \A k \in 1 .. n : (s \o t)[k] = s[k]
  BY Joined
<1>3. \A k \in 1 .. Len(t) : (s \o t)[n + k] = t[k]
  BY JoinedRight
<1> QED BY <1>1, <1>2, <1>3 DEF Follows

(* x has v for its word j, h before it and t after it. *)
HasField(x, h, v, t, j) ==
    /\ x \in Seq(Byte) /\ Len(x) = 2 * j + Len(t) /\ Len(t) \in Nat
    /\ j \in 1 .. Words(x) /\ WordIn(x, j) = v
    /\ \A k \in 1 .. 2 * j - 2 : x[k] = h[k]
    /\ \A k \in 1 .. Len(t) : x[2 * j + k] = t[k]

(* The word at the place of a field of two bytes is the field. *)
LEMMA FieldWord ==
    ASSUME NEW h \in Seq(Byte), NEW t \in Seq(Byte), NEW j \in Nat, j > 0,
           Len(h) = 2 * j - 2, NEW v \in Word
    PROVE  HasField(h \o be_bytes(v) \o t, h, v, t, j)
<1> DEFINE c == be_bytes(v)
           g == h \o c
           s == g \o t
           n == 2 * j - 2
           m == 2 * j
<1>1. c \in Seq(Byte) /\ Len(c) = 2 /\ BASE * c[1] + c[2] = v
  BY BigEndian
<1>2. n \in Nat /\ n + 2 = m /\ Len(h) = n /\ m \in Nat /\ n + 1 = m - 1
      /\ m = 2 * j /\ n = 2 * j - 2
  OBVIOUS
<1> HIDE DEF c, n, m
<1>3. Follows(g, h, n, c)
  BY <1>1, <1>2, JoinedElements
<1> HIDE DEF g
<1>4. /\ g \in Seq(Byte) /\ Len(g) = m
      /\ \A k \in 1 .. n : g[k] = h[k]
      /\ \A k \in 1 .. Len(c) : g[n + k] = c[k]
  BY <1>1, <1>2, <1>3 DEF Follows
<1>5. Follows(s, g, m, t)
  BY <1>2, <1>4, JoinedElements
<1> HIDE DEF s
<1>6. /\ s \in Seq(Byte) /\ Len(s) = m + Len(t) /\ Len(t) \in Nat
      /\ \A k \in 1 .. m : s[k] = g[k]
      /\ \A k \in 1 .. Len(t) : s[m + k] = t[k]
  BY <1>5 DEF Follows
<1>7. s[m - 1] = c[1] /\ s[m] = c[2]
  <2>1. g[n + 1] = c[1] /\ g[n + 2] = c[2]
    <3>1. 1 \in 1 .. Len(c) /\ 2 \in 1 .. Len(c)
      BY <1>1
    <3> QED BY <1>4, <3>1
  <2>2. n + 1 \in 1 .. m /\ n + 2 \in 1 .. m
    BY <1>2
  <2> QED BY <1>2, <1>6, <2>1, <2>2
<1>8. WordIn(s, j) = v
  <2>1. ByteAt(s, 2 * j - 1) = c[1] /\ ByteAt(s, 2 * j) = c[2]
    <3>1. 2 * j - 1 <= Len(s) /\ 2 * j <= Len(s)
      BY <1>2, <1>6
    <3> QED BY <1>2, <1>7, <3>1 DEF ByteAt
  <2> QED BY <1>1, <2>1 DEF WordIn
<1>9. j \in 1 .. Words(s)
  <2>1. Words(s) \in Nat /\ 2 * Words(s) \in {Len(s), Len(s) + 1}
    BY <1>6, WordsOf
  <2>2. Len(s) >= 2 * j /\ Len(s) \in Nat
    BY <1>2, <1>6
  <2> HIDE DEF s
  <2> QED BY <2>1, <2>2
<1>10. \A k \in 1 .. n : s[k] = h[k]
  BY <1>2, <1>4, <1>6
<1>11. HasField(s, h, v, t, j)
  BY <1>2, <1>6, <1>8, <1>9, <1>10 DEF HasField
<1> QED BY <1>11 DEF s, g, c

(* To write a field where there was a zero adds it to the sum. *)
LEMMA FieldAdds ==
    ASSUME NEW h \in Seq(Byte), NEW t \in Seq(Byte), NEW j \in Nat, j > 0,
           Len(h) = 2 * j - 2, NEW v \in Word
    PROVE  WordSum(h \o be_bytes(v) \o t) = WordSum(h \o be_bytes(0) \o t) + v
<1> DEFINE x == h \o be_bytes(0) \o t
           y == h \o be_bytes(v) \o t
<1>1. 0 \in Word /\ v \in Nat
  BY WordBase, SMT DEF Word
<1>2. HasField(x, h, 0, t, j) /\ HasField(y, h, v, t, j)
  BY <1>1, FieldWord
<1> HIDE DEF x, y
<1>3. /\ x \in Seq(Byte) /\ Len(x) = 2 * j + Len(t) /\ Len(t) \in Nat
      /\ j \in 1 .. Words(x) /\ WordIn(x, j) = 0
      /\ y \in Seq(Byte) /\ Len(x) = Len(y) /\ WordIn(y, j) = v
  BY <1>2 DEF HasField
<1>4. ASSUME NEW k \in 1 .. Len(x), k \notin {2 * j - 1, 2 * j} PROVE x[k] = y[k]
  <2>1. CASE k < 2 * j - 1
    <3>1. k \in 1 .. 2 * j - 2
      BY <1>3, <1>4, <2>1
    <3> QED BY <1>2, <3>1 DEF HasField
  <2>2. CASE k > 2 * j
    <3> DEFINE l == k - 2 * j
    <3>1. l \in 1 .. Len(t) /\ 2 * j + l = k
      BY <1>3, <1>4, <2>2
    <3> HIDE DEF l
    <3>2. x[2 * j + l] = t[l] /\ y[2 * j + l] = t[l]
      BY <1>2, <3>1 DEF HasField
    <3> QED BY <3>1, <3>2
  <2> QED BY <1>3, <1>4, <2>1, <2>2
<1>5. WordSum(y) = WordSum(x) + v
  BY <1>1, <1>3, <1>4, OneWordChanged
<1> QED BY <1>5 DEF x, y

(* The loop of ip_checksum adds the words of its argument, in their order. *)
LEMMA DataOf == ASSUME Inv PROVE data(req) \in Seq(Byte) /\ req \in Requests
<1>1. req \in Requests
  BY DEF Inv, TypeOK
<1>2. 0 \in Word
  BY WordBase, SMT DEF Word
<1> QED BY <1>1, <1>2, Data

LEMMA ProgressInit == Init => Progress
<1>1. SUFFICES ASSUME Init PROVE Progress
  OBVIOUS
<1>2. Inv
  BY <1>1, InvInit
<1>3. data(req) \in Seq(Byte)
  BY <1>2, DataOf
<1>4. PartialSums(data(req))[0] = 0 /\ 0 \in 0 .. Words(data(req))
  BY <1>3, SumsRule, WordsOf
<1>5. pc = "add" /\ i = 2 * 0 /\ exact = 0
  BY <1>1 DEF Init
<1> QED BY <1>4, <1>5 DEF Progress

LEMMA ProgressNext == Inv /\ Progress /\ [Next]_vars => Progress'
<1>1. SUFFICES ASSUME Inv, Progress, [Next]_vars PROVE Progress'
  OBVIOUS
<1> DEFINE d == data(req)
           P == PartialSums(d)
<1>2. d \in Seq(Byte)
  BY <1>1, DataOf
<1>3. Len(d) \in Nat /\ Words(d) \in Nat /\ 2 * Words(d) \in {Len(d), Len(d) + 1}
  BY <1>2, WordsOf
<1>4. \A n \in 1 .. Words(d) : P[n] = P[n - 1] + WordIn(d, n)
  BY <1>2, SumsRule
<1>5. CASE AddWord
  <2>1. PICK m \in 0 .. Words(d) : i = 2 * m /\ exact = P[m]
    BY <1>1, <1>5 DEF AddWord, Progress
  <2>2. /\ pc = "add" /\ pc' = pc /\ req' = req /\ i + 1 < Len(d)
        /\ exact' = exact + WordAt(i) /\ i' = i + 2
    BY <1>5 DEF AddWord, Add
  <2>3. m + 1 \in 1 .. Words(d) /\ (m + 1) - 1 = m /\ i' = 2 * (m + 1)
    BY <1>3, <2>1, <2>2
  <2>4. WordIn(d, m + 1) = WordAt(i)
    <3>1. /\ 2 * (m + 1) - 1 = i + 1 /\ 2 * (m + 1) = i + 2
          /\ i + 1 <= Len(d) /\ i + 2 <= Len(d)
      BY <1>3, <2>1, <2>2
    <3> QED BY <3>1 DEF WordIn, ByteAt, WordAt
  <2>5. exact' = P[m + 1]
    BY <1>4, <2>1, <2>2, <2>3, <2>4
  <2>6. d' = d
    BY <2>2
  <2> HIDE DEF d
  <2>7. m + 1 \in 0 .. Words(d') /\ i' = 2 * (m + 1) /\ exact' = PartialSums(d')[m + 1]
    BY <1>3, <2>3, <2>5, <2>6
  <2> QED BY <2>2, <2>7 DEF Progress, d
<1>6. CASE AddLast
  <2>1. PICK m \in 0 .. Words(d) : i = 2 * m /\ exact = P[m]
    BY <1>1, <1>6 DEF AddLast, Progress
  <2>2. /\ pc' = "fold" /\ req' = req /\ i + 1 >= Len(d)
        /\ \/ i < Len(d) /\ exact' = exact + BASE * d[i + 1]
           \/ i = Len(d) /\ exact' = exact
    BY <1>6 DEF AddLast, Add
  <2>3. exact' = P[Words(d)]
    <3>1. CASE i < Len(d) /\ exact' = exact + BASE * d[i + 1]
      <4>1. m + 1 = Words(d) /\ i + 1 = Len(d) /\ m + 1 \in 1 .. Words(d)
            /\ (m + 1) - 1 = m
        BY <1>3, <2>1, <2>2, <3>1
      <4>2. WordIn(d, m + 1) = BASE * d[i + 1]
        <5>1. /\ 2 * (m + 1) - 1 = i + 1 /\ 2 * (m + 1) = i + 2
              /\ i + 1 <= Len(d) /\ ~ (i + 2 <= Len(d))
          BY <1>3, <2>1, <4>1
        <5>2. ByteAt(d, 2 * (m + 1) - 1) = d[i + 1] /\ ByteAt(d, 2 * (m + 1)) = 0
          BY <5>1 DEF ByteAt
        <5>3. d[i + 1] \in Nat
          <6>1. i + 1 \in 1 .. Len(d)
            BY <1>3, <2>1, <4>1
          <6> QED BY <1>2, <6>1, ElementOfSeq, WordBase
        <5> QED BY <5>2, <5>3, BaseAssumption DEF WordIn
      <4> QED BY <1>4, <2>1, <3>1, <4>1, <4>2
    <3>2. CASE i = Len(d) /\ exact' = exact
      <4>1. m = Words(d)
        BY <1>3, <2>1, <3>2
      <4> QED BY <2>1, <3>2, <4>1
    <3> QED BY <2>2, <3>1, <3>2
  <2>4. d' = d
    BY <2>2
  <2> HIDE DEF d
  <2>5. exact' = WordSum(d')
    BY <2>3, <2>4 DEF WordSum
  <2> QED BY <2>2, <2>5 DEF Progress, d
<1>7. CASE Fold \/ Finish
  <2>1. pc # "add" /\ pc' # "add" /\ req' = req /\ exact' = exact
    BY <1>7 DEF Fold, Finish
  <2>2. exact = WordSum(d)
    BY <1>1, <2>1 DEF Progress
  <2>3. d' = d
    BY <2>1
  <2> HIDE DEF d
  <2>4. exact' = WordSum(d')
    BY <2>1, <2>2, <2>3
  <2> QED BY <2>1, <2>4 DEF Progress, d
<1>8. CASE UNCHANGED vars
  BY <1>1, <1>8 DEF vars, Progress
<1> QED BY <1>1, <1>5, <1>6, <1>7, <1>8 DEF Next

LEMMA ProgressInvariant == Spec => []Progress
BY ProgressInit, ProgressNext, Invariance, PTL DEF Spec

(* A positive multiple of a modulus is positive, and zero to the modulus. *)
LEMMA Multiple ==
    ASSUME NEW m \in Nat, m >= 2, NEW k \in Nat, k >= 1
    PROVE  k * m > 0 /\ (k * m) % m = 0
<1> DEFINE a == k * m
           q == a \div m
           r == a % m
<1>1. a \in Nat /\ a > 0
  BY SMT
<1>2. q \in Nat /\ r \in 0 .. m - 1 /\ a = m * q + r
  BY <1>1, Division
<1> HIDE DEF q, r
<1>3. r = m * (k - q)
  BY <1>2, SMT
<1>4. k - q = 0
  <2>1. k - q \in Int /\ m * (k - q) \in 0 .. m - 1
    BY <1>2, <1>3
  <2>2. CASE k - q >= 1
    <3>1. m * (k - q) >= m
      BY <2>1, <2>2, SMT
    <3> QED BY <2>1, <3>1
  <2>3. CASE k - q <= -1
    <3>1. m * (k - q) <= -m
      BY <2>1, <2>3, SMT
    <3> QED BY <2>1, <3>1
  <2> QED BY <2>1, <2>2, <2>3
<1>5. r = 0
  BY <1>3, <1>4, SMT
<1> QED BY <1>1, <1>5 DEF r, a

(* What the receiver sums is what was summed, with the field in its place. *)
LEMMA ReceivedSum ==
    ASSUME Inv, Progress, pc = "done"
    PROVE  WordSum(Received) = exact + csum(req)
<1>1. req \in Requests /\ ~Carry(sum) /\ out = header(req, csum(req))
  BY DEF Inv, TypeOK, SumInv
<1>2. csum(req) \in Word /\ 0 \in Word
  BY <1>1, Complement, WordBase, SMT DEF Word
<1>3. exact = WordSum(data(req))
  BY DEF Progress
<1> DEFINE c == csum(req)
<1> HIDE DEF c
<1>4. CASE req.header = "ip"
  <2>1. PICK h \in Seq(Byte), t \in Seq(Byte) :
            /\ Len(h) = 10
            /\ \A v \in Word : ipv4_header(req, v) = h \o be_bytes(v) \o t
    BY <1>1, <1>2, Data
  <2>2. Received = ipv4_header(req, c) /\ data(req) = ipv4_header(req, 0)
    BY <1>1, <1>4 DEF Received, header, data, c
  <2>3. WordSum(h \o be_bytes(c) \o t) = WordSum(h \o be_bytes(0) \o t) + c
    <3>1. Len(h) = 2 * 6 - 2 /\ 6 \in Nat /\ 6 > 0 /\ c \in Word
      BY <1>2, <2>1 DEF c
    <3> QED BY <3>1, FieldAdds
  <2>4. c \in Word
    BY <1>2 DEF c
  <2> QED BY <1>2, <1>3, <2>1, <2>2, <2>3, <2>4 DEF c
<1>5. CASE req.header # "ip"
  <2>1. PICK h \in Seq(Byte), t \in Seq(Byte) :
            /\ Len(h) = 18
            /\ \A v \in Word : pseudo_header(req, udp_len(req)) \o datagram(req, v)
                                  = h \o be_bytes(v) \o t
    BY <1>1, <1>2, Data
  <2>2. c \in Word
    BY <1>2 DEF c
  <2>3. Len(out) = udp_len(req) /\ out = datagram(req, c)
    BY <1>1, <1>5, <2>2, Data DEF header, c
  <2>4. /\ Received = pseudo_header(req, udp_len(req)) \o datagram(req, c)
        /\ data(req) = pseudo_header(req, udp_len(req)) \o datagram(req, 0)
    BY <1>5, <2>3 DEF Received, data
  <2>5. WordSum(h \o be_bytes(c) \o t) = WordSum(h \o be_bytes(0) \o t) + c
    <3>1. Len(h) = 2 * 10 - 2 /\ 10 \in Nat /\ 10 > 0
      BY <2>1
    <3> QED BY <2>2, <3>1, FieldAdds
  <2> QED BY <1>2, <1>3, <2>1, <2>2, <2>4, <2>5 DEF c
<1> QED BY <1>4, <1>5

(* raw.rs:14: the receiver of either header, for every packet the size check lets
   through, finds minus zero: neither sum loses the trap. *)
THEOREM ReceiverNeverDrops == Spec => []ReceiverAccepts
<1>1. Inv /\ Progress /\ FieldCompletes => ReceiverAccepts
  <2>1. SUFFICES ASSUME Inv, Progress, FieldCompletes, pc = "done"
        PROVE  WordSum(Received) > 0 /\ WordSum(Received) % (WORD - 1) = 0
    BY DEF ReceiverAccepts
  <2> DEFINE m == WORD - 1
  <2>2. PICK k \in 1 .. carries + 2 : exact + csum(req) = k * m
    BY <2>1 DEF FieldCompletes
  <2>3. WordSum(Received) = k * m
    BY <2>1, <2>2, ReceivedSum
  <2>4. k \in Nat /\ k >= 1 /\ m \in Nat /\ m >= 2
    BY <2>1, WordBase DEF Inv, TypeOK
  <2> HIDE DEF m
  <2>5. WordSum(Received) > 0 /\ WordSum(Received) % m = 0
    BY <2>3, <2>4, Multiple
  <2> QED BY <2>5 DEF m
<1> QED BY <1>1, Invariance, ProgressInvariant, ReceiverSumIsZero, PTL

-------------------------------------------------------------------------------
(* raw.rs:25-27: every fold makes the sum smaller, whatever its carry, so the loop
   cannot go on for ever: what FoldingEnds rests on. *)
THEOREM FoldsShrink == Spec => [][pc = "fold" /\ pc' = "fold" => sum' < sum]_vars
<1>1. Inv /\ [Next]_vars => [pc = "fold" /\ pc' = "fold" => sum' < sum]_vars
  <2>1. SUFFICES ASSUME Inv, Next, pc = "fold", pc' = "fold" PROVE sum' < sum
    OBVIOUS
  <2>2. Carry(sum) /\ sum' = (sum % WORD) + (sum \div WORD)
    BY <2>1 DEF Next, AddWord, AddLast, Fold, Finish
  <2>3. sum \in Nat /\ WORD \in Nat /\ WORD >= 2
    <3>1. WORD \in Nat /\ WORD >= 4
      BY WordBase
    <3>2. WORD * WORD - 1 \in Int
      BY <3>1, SMT
    <3> QED BY <2>1, <3>1, <3>2 DEF Inv, TypeOK
  <2> DEFINE q == sum \div WORD
             r == sum % WORD
  <2>4. /\ q \in Nat /\ r \in Nat /\ sum = WORD * q + r
        /\ q # 0 /\ sum' = r + q
    BY <2>2, <2>3, Division DEF Carry
  <2> HIDE DEF q, r
  <2>5. WORD * q = (WORD - 2) * q + 2 * q /\ (WORD - 2) * q \in Nat
    BY <2>3, <2>4, SMT
  <2> QED BY <2>4, <2>5, SMT
<1> QED BY <1>1, Invariance, PTL DEF Spec
================================================================================
