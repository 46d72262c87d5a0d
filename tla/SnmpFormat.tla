----------------------------- MODULE SnmpFormat -----------------------------
(***************************************************************************)
(* The value shaping of the SNMP helpers over LLDP data (pf_snmp, its      *)
(* unit test src/unnamed/part_000): a boolean becomes a TruthValue         *)
(* (RFC 2579), the 16-bit auto-negotiation capability mask becomes a BITS  *)
(* pair of octets (RFC 1906), and a management address becomes an OCTET    *)
(* STRING with its length in front (RFC 2578 7.7 clause 3).  These are    *)
(* pure functions; the reference decoders at the end state the RFC        *)
(* encodings independently of how the code computes them.                  *)
(***************************************************************************)
EXTENDS Naturals, Sequences

Bytes == 0..255
Masks == 0..65535

\* Bit i of the number x.
BitOf(x, i) == (x \div (2 ^ i)) % 2

\* TruthValue: true(1), false(2).
TruthValue(b) == IF b THEN 1 ELSE 2

\* Mutant: the byte reversed as a whole nibble swap, not bit by bit.
ReverseByteNibbles(b) == (b % 16) * 16 + b \div 16

\* The bit order of one octet reversed: bit i becomes bit 7 - i.
ReverseByte(b) ==
      BitOf(b, 0) * 128 + BitOf(b, 1) * 64 + BitOf(b, 2) * 32
    + BitOf(b, 3) * 16  + BitOf(b, 4) * 8  + BitOf(b, 5) * 4
    + BitOf(b, 6) * 2   + BitOf(b, 7)

\* The capability mask as BITS: octet 1 is the low byte reversed, octet 2
\* the high byte reversed.
EncodeBits(m) == <<ReverseByte(m % 256), ReverseByte(m \div 256)>>

\* Mutant: the length octet counted in the length of the value.
OctetStringShort(a) == [value |-> <<Len(a)>> \o a, len |-> Len(a)]

\* The management address as an OCTET STRING: its length, then its bytes.
OctetString(a) == [value |-> <<Len(a)>> \o a, len |-> Len(a) + 1]

-----------------------------------------------------------------------------
(***************************************************************************)
(* Reference definitions, from the RFCs.                                   *)
(***************************************************************************)

\* RFC 2579 TruthValue: true(1), false(2), never 0.
IsTruthValueOf(v, b) == (b /\ v = 1) \/ (~b /\ v = 2)

\* RFC 1906 BITS: named bit n is in octet n \div 8, counted from the most
\* significant bit of that octet; capability n of the mask is named bit n.
IsBitsOf(v, m) ==
    /\ v \in Bytes \X Bytes
    /\ \A n \in 0..15 : BitOf(v[n \div 8 + 1], 7 - (n % 8)) = BitOf(m, n)

\* RFC 2578 7.7 clause 3: a variable-length OCTET STRING is its length
\* followed by its octets.
IsOctetStringOf(o, a) ==
    /\ o.len = Len(o.value)
    /\ o.len > 0
    /\ o.value[1] = o.len - 1
    /\ SubSeq(o.value, 2, o.len) = a

=============================================================================
