------------------------------ MODULE Encoding ------------------------------
(***************************************************************************)
(* PTP::Encoding (ptp/encode.cpp): Base64.  A byte is a number below 256,  *)
(* a character its value in the table of the code, below 64, or Pad ('='), *)
(* Newline, or Other for any character that has no value.                  *)
(***************************************************************************)
EXTENDS Naturals, Sequences

Pad == 64
Newline == 65
Other == 66

\* The size that EncodeBase64 returns, and allocates for.
EncodedSize(size, bpl) ==
    ((size + 2) \div 3) * 4 + IF size > bpl THEN (size - 1) \div bpl ELSE 0

\* The loop of EncodeBase64, which goes from the last byte to the first: `prev' is the
\* byte behind src[i], `bits' how many of its bits are still to be written and
\* `cnt' how many bytes the line has room for.  It puts characters in front of `d'.
RECURSIVE EncodeFrom(_, _, _, _, _, _, _)
EncodeFrom(src, i, prev, bits, cnt, bpl, d) ==
    IF i = 0 THEN (IF bits = 2 THEN <<prev \div 4>> ELSE <<>>) \o d
    ELSE LET x == src[i]
             now == (bits + 4) % 6
             line == IF cnt > 0 THEN <<>> ELSE <<Newline>>
             chars == CASE now = 0 -> <<prev \div 4>>
                        [] now = 2 -> <<(x % 4) * 16 + (prev \div 16)>>
                        [] now = 4 -> <<(x % 16) * 4 + (prev \div 64), prev % 64>>
         IN  EncodeFrom(src, i - 1, x, now, IF cnt > 0 THEN cnt - 1 ELSE bpl - 1, bpl,
                        chars \o line \o d)

EncodeBase64(src, bpl) ==
    LET size == Len(src)
        last == src[size]
        bits == (2 * size) % 6
        cnt == IF size % bpl = 0 THEN bpl ELSE size % bpl
        tail == CASE bits = 2 -> <<(last % 4) * 16, Pad, Pad>>
                  [] bits = 4 -> <<(last % 16) * 4, Pad>>
                  [] bits = 0 -> <<>>
    IN  IF size = 0 THEN <<>> ELSE EncodeFrom(src, size - 1, last, bits, cnt, bpl, tail)

\* The loop of DecodeBase64.  Characters without a value are skipped; the first of four
\* characters (bits = 6) gives no byte.
RECURSIVE DecodeFrom(_, _, _)
DecodeFrom(src, prev, bits) ==
    IF src = <<>> THEN <<>>
    ELSE LET val == Head(src)
             now == (bits + 6) % 8
             byte == (prev * 2 ^ (6 - now) + (val \div 2 ^ now)) % 256
         IN  IF val >= Pad THEN DecodeFrom(Tail(src), prev, bits)
             ELSE (IF now = 6 THEN <<>> ELSE <<byte>>) \o DecodeFrom(Tail(src), val, now)

DecodeBase64(src) == DecodeFrom(src, 0, 0)

----------------------------------------------------------------------------
(* What Base64 is: 24 bits as four characters, padded at the end. *)

Character(src, k) ==
    LET at == 3 * ((k - 1) \div 4)
        Bits(j) == IF at + j <= Len(src) THEN src[at + j] ELSE 0
        word == Bits(1) * 65536 + Bits(2) * 256 + Bits(3)
        used == (8 * (Len(src) - at) + 5) \div 6
    IN  IF (k - 1) % 4 >= used THEN Pad
        ELSE (word \div 64 ^ (3 - ((k - 1) % 4))) % 64

Base64(src) == [k \in 1..(((Len(src) + 2) \div 3) * 4) |-> Character(src, k)]

Lines(s) == SelectSeq(s, LAMBDA c : c # Newline)

\* EncodeBase64 gives the characters of Base64 in lines and writes as many as it said;
\* DecodeBase64 recovers the bytes, also among line ends and foreign characters.
EncodesRight(src, bpl) ==
    LET e == EncodeBase64(src, bpl)
    IN  /\ Lines(e) = Base64(src)
        /\ Len(e) = EncodedSize(Len(src), bpl)
        /\ DecodeBase64(e) = src
        /\ DecodeBase64(<<Other>> \o e) = src
=============================================================================
