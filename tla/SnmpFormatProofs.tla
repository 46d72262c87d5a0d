-------------------------- MODULE SnmpFormatProofs --------------------------
(***************************************************************************)
(* Proofs that the SNMP value shaping (SnmpFormat) meets the RFC encodings *)
(* for every input: every capability mask and every management address.   *)
(***************************************************************************)
EXTENDS SnmpFormat, TLAPS

\* Powers of two the bit extraction uses.
LEMMA Pow2 ==
    /\ 2^0 = 1 /\ 2^1 = 2 /\ 2^2 = 4 /\ 2^3 = 8
    /\ 2^4 = 16 /\ 2^5 = 32 /\ 2^6 = 64 /\ 2^7 = 128
    /\ 2^8 = 256 /\ 2^9 = 512 /\ 2^10 = 1024 /\ 2^11 = 2048
    /\ 2^12 = 4096 /\ 2^13 = 8192 /\ 2^14 = 16384 /\ 2^15 = 32768
BY SMT

\* Bit n of the reversed byte is bit 7 - n of the byte.
LEMMA ReverseByteBits ==
    ASSUME NEW b \in Bytes, NEW n \in 0..7
    PROVE  BitOf(ReverseByte(b), 7 - n) = BitOf(b, n)
<1>. DEFINE B(i) == (b \div (2 ^ i)) % 2
<1>1. /\ B(0) \in {0, 1} /\ B(1) \in {0, 1} /\ B(2) \in {0, 1} /\ B(3) \in {0, 1}
      /\ B(4) \in {0, 1} /\ B(5) \in {0, 1} /\ B(6) \in {0, 1} /\ B(7) \in {0, 1}
  BY Pow2 DEF Bytes
<1>2. ReverseByte(b) = B(0) * 128 + B(1) * 64 + B(2) * 32 + B(3) * 16
                       + B(4) * 8 + B(5) * 4 + B(6) * 2 + B(7)
  BY DEF ReverseByte, BitOf
<1>3. CASE n = 0
  BY <1>1, <1>2, <1>3, Pow2 DEF BitOf
<1>4. CASE n = 1
  BY <1>1, <1>2, <1>4, Pow2 DEF BitOf
<1>5. CASE n = 2
  BY <1>1, <1>2, <1>5, Pow2 DEF BitOf
<1>6. CASE n = 3
  BY <1>1, <1>2, <1>6, Pow2 DEF BitOf
<1>7. CASE n = 4
  BY <1>1, <1>2, <1>7, Pow2 DEF BitOf
<1>8. CASE n = 5
  BY <1>1, <1>2, <1>8, Pow2 DEF BitOf
<1>9. CASE n = 6
  BY <1>1, <1>2, <1>9, Pow2 DEF BitOf
<1>10. CASE n = 7
  BY <1>1, <1>2, <1>10, Pow2 DEF BitOf
<1>. QED BY <1>3, <1>4, <1>5, <1>6, <1>7, <1>8, <1>9, <1>10

\* A reversed byte is a byte.
LEMMA ReverseByteType ==
    ASSUME NEW b \in Bytes
    PROVE  ReverseByte(b) \in Bytes
<1>. DEFINE B(i) == (b \div (2 ^ i)) % 2
<1>1. /\ B(0) \in {0, 1} /\ B(1) \in {0, 1} /\ B(2) \in {0, 1} /\ B(3) \in {0, 1}
      /\ B(4) \in {0, 1} /\ B(5) \in {0, 1} /\ B(6) \in {0, 1} /\ B(7) \in {0, 1}
  BY Pow2 DEF Bytes
<1>. QED BY <1>1 DEF ReverseByte, BitOf, Bytes

\* A byte is the sum of its bits, bit i weighing 2^i.
LEMMA ByteBits ==
    ASSUME NEW b \in Bytes
    PROVE  b =   BitOf(b, 0) + BitOf(b, 1) * 2 + BitOf(b, 2) * 4
               + BitOf(b, 3) * 8 + BitOf(b, 4) * 16 + BitOf(b, 5) * 32
               + BitOf(b, 6) * 64 + BitOf(b, 7) * 128
BY Pow2 DEF BitOf, Bytes

\* Reversing the bit order of a byte twice gives the byte back, so the
\* manager side of BITS decodes each octet with the same reversal.
LEMMA ReverseByteInvolution ==
    ASSUME NEW b \in Bytes
    PROVE  ReverseByte(ReverseByte(b)) = b
<1>. DEFINE r == ReverseByte(b)
<1>1. r \in Bytes
  BY ReverseByteType
<1>2. \A i \in 0..7 : BitOf(r, i) = BitOf(b, 7 - i)
  <2>. SUFFICES ASSUME NEW i \in 0..7 PROVE BitOf(r, i) = BitOf(b, 7 - i)
    OBVIOUS
  <2>1. 7 - i \in 0..7 /\ 7 - (7 - i) = i
    OBVIOUS
  <2>. QED BY <2>1, ReverseByteBits
<1>3. ReverseByte(r) =   BitOf(b, 7) * 128 + BitOf(b, 6) * 64 + BitOf(b, 5) * 32
                       + BitOf(b, 4) * 16 + BitOf(b, 3) * 8 + BitOf(b, 2) * 4
                       + BitOf(b, 1) * 2 + BitOf(b, 0)
  BY <1>2 DEF ReverseByte
<1>4. b =   BitOf(b, 0) + BitOf(b, 1) * 2 + BitOf(b, 2) * 4
           + BitOf(b, 3) * 8 + BitOf(b, 4) * 16 + BitOf(b, 5) * 32
           + BitOf(b, 6) * 64 + BitOf(b, 7) * 128
  BY ByteBits
<1>5. \A i \in 0..7 : BitOf(b, i) \in Nat
  BY Pow2 DEF BitOf, Bytes
<1>6. ReverseByte(r) = b
  BY <1>3, <1>4, <1>5
<1>. QED BY <1>6

\* A natural number is its high part times 256 plus its low byte.
LEMMA ByteSplit ==
    ASSUME NEW m \in Nat
    PROVE  /\ m = 256 * (m \div 256) + (m % 256)
           /\ m \div 256 \in Nat /\ (m % 256) \in 0..255
BY SMT

\* The low byte of a mask holds its bits 0..7, the high byte its bits
\* 8..15.
LEMMA ByteSplitBits ==
    ASSUME NEW m \in Masks, NEW n \in 0..7
    PROVE  /\ BitOf(m % 256, n) = BitOf(m, n)
           /\ BitOf(m \div 256, n) = BitOf(m, n + 8)
           /\ m % 256 \in Bytes /\ m \div 256 \in Bytes
<1>. DEFINE h == m \div 256
            l == m % 256
<1>0. m = 256 * h + l /\ h \in Nat /\ l \in 0..255
  BY ByteSplit DEF Masks
<1>1. /\ m = 256 * h + l /\ h \in Nat /\ l \in 0..255
      /\ h = m \div 256 /\ l = m % 256
  BY <1>0
<1>. HIDE DEF h, l
<1>2. h \in Bytes /\ l \in Bytes
  <2>1. m <= 65535
    BY DEF Masks
  <2>. QED BY <1>0, <2>1 DEF Bytes
<1>3. CASE n = 0
  <2>1. 2^n = 1 /\ 2^(n + 8) = 256
    BY <1>3, Pow2
  <2>2. m \div 1 = 256 * h + l \div 1
    BY <1>1, SMT
  <2>3. (256 * h + l \div 1) % 2 = (l \div 1) % 2
    BY <1>1, SMT
  <2>4. m \div 256 = h \div 1
    BY <1>1, SMT
  <2>. QED BY <1>1, <1>2, <2>1, <2>2, <2>3, <2>4 DEF BitOf
<1>4. CASE n = 1
  <2>1. 2^n = 2 /\ 2^(n + 8) = 512
    BY <1>4, Pow2
  <2>2. m \div 2 = 128 * h + l \div 2
    BY <1>1, SMT
  <2>3. (128 * h + l \div 2) % 2 = (l \div 2) % 2
    BY <1>1, SMT
  <2>4. m \div 512 = h \div 2
    BY <1>1, SMT
  <2>. QED BY <1>1, <1>2, <2>1, <2>2, <2>3, <2>4 DEF BitOf
<1>5. CASE n = 2
  <2>1. 2^n = 4 /\ 2^(n + 8) = 1024
    BY <1>5, Pow2
  <2>2. m \div 4 = 64 * h + l \div 4
    BY <1>1, SMT
  <2>3. (64 * h + l \div 4) % 2 = (l \div 4) % 2
    BY <1>1, SMT
  <2>4. m \div 1024 = h \div 4
    BY <1>1, SMT
  <2>. QED BY <1>1, <1>2, <2>1, <2>2, <2>3, <2>4 DEF BitOf
<1>6. CASE n = 3
  <2>1. 2^n = 8 /\ 2^(n + 8) = 2048
    BY <1>6, Pow2
  <2>2. m \div 8 = 32 * h + l \div 8
    BY <1>1, SMT
  <2>3. (32 * h + l \div 8) % 2 = (l \div 8) % 2
    BY <1>1, SMT
  <2>4. m \div 2048 = h \div 8
    BY <1>1, SMT
  <2>. QED BY <1>1, <1>2, <2>1, <2>2, <2>3, <2>4 DEF BitOf
<1>7. CASE n = 4
  <2>1. 2^n = 16 /\ 2^(n + 8) = 4096
    BY <1>7, Pow2
  <2>2. m \div 16 = 16 * h + l \div 16
    BY <1>1, SMT
  <2>3. (16 * h + l \div 16) % 2 = (l \div 16) % 2
    BY <1>1, SMT
  <2>4. m \div 4096 = h \div 16
    BY <1>1, SMT
  <2>. QED BY <1>1, <1>2, <2>1, <2>2, <2>3, <2>4 DEF BitOf
<1>8. CASE n = 5
  <2>1. 2^n = 32 /\ 2^(n + 8) = 8192
    BY <1>8, Pow2
  <2>2. m \div 32 = 8 * h + l \div 32
    BY <1>1, SMT
  <2>3. (8 * h + l \div 32) % 2 = (l \div 32) % 2
    BY <1>1, SMT
  <2>4. m \div 8192 = h \div 32
    BY <1>1, SMT
  <2>. QED BY <1>1, <1>2, <2>1, <2>2, <2>3, <2>4 DEF BitOf
<1>9. CASE n = 6
  <2>1. 2^n = 64 /\ 2^(n + 8) = 16384
    BY <1>9, Pow2
  <2>2. m \div 64 = 4 * h + l \div 64
    BY <1>1, SMT
  <2>3. (4 * h + l \div 64) % 2 = (l \div 64) % 2
    BY <1>1, SMT
  <2>4. m \div 16384 = h \div 64
    BY <1>1, SMT
  <2>. QED BY <1>1, <1>2, <2>1, <2>2, <2>3, <2>4 DEF BitOf
<1>10. CASE n = 7
  <2>1. 2^n = 128 /\ 2^(n + 8) = 32768
    BY <1>10, Pow2
  <2>2. m \div 128 = 2 * h + l \div 128
    BY <1>1, SMT
  <2>3. (2 * h + l \div 128) % 2 = (l \div 128) % 2
    BY <1>1, SMT
  <2>4. m \div 32768 = h \div 128
    BY <1>1, SMT
  <2>. QED BY <1>1, <1>2, <2>1, <2>2, <2>3, <2>4 DEF BitOf
<1>. QED BY <1>3, <1>4, <1>5, <1>6, <1>7, <1>8, <1>9, <1>10

\* The BITS octets of every capability mask are the RFC 1906 encoding of
\* it (pf_snmp_get_link_status, pf_snmp_get_peer_link_status): the unit
\* test's two masks are instances.
THEOREM BitsEncodingCorrect ==
    \A m \in Masks : IsBitsOf(EncodeBits(m), m)
<1>. SUFFICES ASSUME NEW m \in Masks
              PROVE  IsBitsOf(EncodeBits(m), m)
  OBVIOUS
<1>. DEFINE lo == m % 256
            hi == m \div 256
<1>1. lo \in Bytes /\ hi \in Bytes
  BY ByteSplitBits
<1>2. EncodeBits(m) = <<ReverseByte(lo), ReverseByte(hi)>>
      /\ ReverseByte(lo) \in Bytes /\ ReverseByte(hi) \in Bytes
  BY <1>1, ReverseByteType DEF EncodeBits
<1>3. ASSUME NEW n \in 0..15
      PROVE  BitOf(EncodeBits(m)[n \div 8 + 1], 7 - (n % 8)) = BitOf(m, n)
  <2>1. CASE n < 8
    <3>1. n \div 8 + 1 = 1 /\ n % 8 = n
      BY <2>1
    <3>2. BitOf(ReverseByte(lo), 7 - n) = BitOf(lo, n)
      BY <1>1, <2>1, ReverseByteBits
    <3>3. BitOf(lo, n) = BitOf(m, n)
      BY <2>1, ByteSplitBits
    <3>. QED BY <1>2, <3>1, <3>2, <3>3
  <2>2. CASE n >= 8
    <3>. DEFINE k == n - 8
    <3>1. k \in 0..7 /\ n \div 8 + 1 = 2 /\ n % 8 = k /\ n = k + 8
      BY <2>2
    <3>2. BitOf(ReverseByte(hi), 7 - k) = BitOf(hi, k)
      BY <1>1, <3>1, ReverseByteBits
    <3>3. BitOf(hi, k) = BitOf(m, k + 8)
      BY <3>1, ByteSplitBits
    <3>. QED BY <1>2, <3>1, <3>2, <3>3
  <2>. QED BY <2>1, <2>2
<1>. QED BY <1>2, <1>3 DEF IsBitsOf

\* A mask is its high byte times 256 plus its low byte.
LEMMA MaskSplit ==
    ASSUME NEW m \in Masks
    PROVE  m = 256 * (m \div 256) + (m % 256)
<1>1. m \in Nat
  BY DEF Masks
<1>. QED BY <1>1, ByteSplit

\* No two capability masks have the same BITS value: the manager reading
\* the auto-negotiation objects (pf_snmp_get_link_status,
\* pf_snmp_get_peer_link_status) recovers the mask the code was given.
THEOREM BitsEncodingInjective ==
    \A m1, m2 \in Masks : EncodeBits(m1) = EncodeBits(m2) => m1 = m2
<1>. SUFFICES ASSUME NEW m1 \in Masks, NEW m2 \in Masks,
                     EncodeBits(m1) = EncodeBits(m2)
              PROVE  m1 = m2
  OBVIOUS
<1>1. /\ m1 % 256 \in Bytes /\ m1 \div 256 \in Bytes
      /\ m2 % 256 \in Bytes /\ m2 \div 256 \in Bytes
  BY ByteSplitBits
<1>2. /\ ReverseByte(m1 % 256) = ReverseByte(m2 % 256)
      /\ ReverseByte(m1 \div 256) = ReverseByte(m2 \div 256)
  BY DEF EncodeBits
<1>3. m1 % 256 = m2 % 256 /\ m1 \div 256 = m2 \div 256
  BY <1>1, <1>2, ReverseByteInvolution
<1>5. /\ m1 = 256 * (m1 \div 256) + (m1 % 256)
      /\ m2 = 256 * (m2 \div 256) + (m2 % 256)
  BY MaskSplit
<1>. QED BY <1>3, <1>5

\* The OCTET STRING of every management address is its RFC 2578 encoding,
\* length octet first (pf_snmp_get_management_address and
\* pf_snmp_get_peer_management_address).
THEOREM OctetStringCorrect ==
    \A a \in Seq(Bytes) : IsOctetStringOf(OctetString(a), a)
BY DEF IsOctetStringOf, OctetString

=============================================================================
