---------------------------- MODULE LibraryProofs ----------------------------
(***************************************************************************)
(* The vendored libraries.  The unpacking of the font stays inside its     *)
(* buffers, for any table, of any length and with any bytes in it, and a   *)
(* font of any size.  The arithmetic on limbs, which all of mini-gmp is    *)
(* built on, is exact for limbs of any size.                               *)
(***************************************************************************)
EXTENDS Lzo, LimbWords, SequenceTheorems, WellFoundedInduction, TLAPS

LEMMA ByteType ==
    ASSUME table \in Seq(Bytes), NEW i \in Nat
    PROVE  Byte(i) \in Nat /\ Byte(i) \in Bytes
<1>1. CASE i < Len(table)
  <2>1. i + 1 \in 1..Len(table)
    BY <1>1
  <2>2. table[i + 1] \in Bytes
    BY <2>1, ElementOfSeq
  <2>3. Byte(i) = table[i + 1]
    BY <1>1 DEF Byte
  <2>4. Bytes \subseteq Nat
    BY DEF Bytes
  <2> QED
    BY <2>2, <2>3, <2>4
<1>2. CASE ~(i < Len(table))
  BY <1>2 DEF Byte, Bytes
<1> QED
  BY <1>1, <1>2

\* A set of naturals has a least element.
LEMMA MinimumExists ==
    ASSUME NEW S \in SUBSET Nat, S # {}
    PROVE  Minimum(S) \in S /\ \A y \in S : Minimum(S) <= y
<1> DEFINE less == OpToRel(<, Nat)
<1>1. PICK x \in S : \A y \in S : ~(<<y, x>> \in less)
  BY WFMin, NatLessThanWellFounded
<1>2. \A y \in S : x <= y
  <2> SUFFICES ASSUME NEW y \in S PROVE x <= y
    OBVIOUS
  <2>1. ~(y < x)
    BY <1>1 DEF OpToRel
  <2> QED
    BY <2>1
<1> QED
  BY <1>2 DEF Minimum

\* A length is read from bytes of the table, and so is what comes before the next.
LEMMA LengthInside ==
    ASSUME table \in Seq(Bytes), NEW i \in Nat, NEW bias \in Nat, LengthAt(i, bias) # NONE
    PROVE  LengthAt(i, bias).t \in Nat /\ LengthAt(i, bias).ip \in (i + 1)..Len(table)
<1> DEFINE ends == {k \in i..(Len(table) - 1) : Byte(k) # 0}
           z == Minimum(ends)
<1>1. ends # {}
  BY DEF LengthAt
<1>2. ends \in SUBSET Nat
  OBVIOUS
<1>3. z \in ends
  BY <1>1, <1>2, MinimumExists
<1>4. LengthAt(i, bias) = [t |-> (z - i) * 255 + bias + Byte(z), ip |-> z + 1]
  BY <1>1 DEF LengthAt
<1>5. Len(table) \in Nat /\ z \in i..(Len(table) - 1)
  BY <1>3, LenProperties
<1> HIDE DEF z
<1>6. z \in Nat
  BY <1>5
<1>7. Byte(z) \in Nat
  BY <1>6, ByteType
<1> QED
  BY <1>4, <1>5, <1>7

-----------------------------------------------------------------------------

\* Where a step of the decompressor can end: at a label, or with an error.
Wrote(label) ==
    /\ out' \in Seq(Bytes) /\ Len(out') <= sizeof /\ t' \in Nat
    /\ pc' = label /\ UNCHANGED res

Failed == 
    /\ pc' = "returned" /\ t' \in Nat /\ UNCHANGED out
    /\ res' \in {"INPUT_OVERRUN", "OUTPUT_OVERRUN", "LOOKBEHIND_OVERRUN"}

\* Literals come from the table and fit into the buffer, and three bytes are left.
LEMMA LiteralsInside ==
    ASSUME LzoTypeOK, Len(out) <= sizeof, NEW i \in 0..Len(table), NEW n \in Nat, NEW label,
           CopyLiterals(i, n, label)
    PROVE  \/ Wrote(label) /\ ip' = i + n /\ ip' + 3 <= Len(table)
           \/ Failed /\ ip' = i
<1> USE DEF LzoTypeOK, GoTo
<1>1. CASE ~NeedOp(n) /\ Return("OUTPUT_OVERRUN", i)
  BY <1>1 DEF Return, Failed
<1>2. CASE ~NeedIp(i, n + 3) /\ Return("INPUT_OVERRUN", i)
  BY <1>2 DEF Return, Failed
<1>3. CASE /\ NeedOp(n) /\ NeedIp(i, n + 3)
           /\ out' = out \o SubSeq(table, i + 1, i + n)
           /\ GoTo(label, i + n, 0) /\ UNCHANGED res
  <2>1. i + n + 3 <= Len(table) /\ Len(out) + n <= sizeof
    BY <1>3, LenProperties DEF NeedOp, NeedIp
  <2>2. SubSeq(table, i + 1, i + n) \in Seq(Bytes) /\ Len(SubSeq(table, i + 1, i + n)) = n
    BY <2>1, SubSeqProperties, LenProperties
  <2>3. out' \in Seq(Bytes) /\ Len(out') = Len(out) + n
    BY <1>3, <2>2, ConcatProperties
  <2> QED
    BY <1>3, <2>1, <2>3 DEF Wrote
<1> QED
  BY <1>1, <1>2, <1>3 DEF CopyLiterals

\* A match comes from what was written, and it fits into the buffer.
LEMMA MatchInside ==
    ASSUME LzoTypeOK, Len(out) <= sizeof, NEW i \in Nat, NEW off \in Nat \ {0}, NEW n \in Nat,
           CopyMatch(i, off, n)
    PROVE  ip' = i /\ (Wrote("match_done") \/ Failed)
<1> USE DEF LzoTypeOK, GoTo
<1> DEFINE from == Len(out) - off
           copy == [k \in 1..n |-> out[from + 1 + ((k - 1) % off)]]
<1>1. CASE \/ from < 0 /\ Return("LOOKBEHIND_OVERRUN", i)
           \/ from >= 0 /\ ~NeedOp(n) /\ Return("OUTPUT_OVERRUN", i)
  BY <1>1 DEF Return, Failed
<1>2. CASE /\ from >= 0 /\ NeedOp(n) /\ out' = out \o copy
           /\ GoTo("match_done", i, 0) /\ UNCHANGED res
  <2>1. \A k \in 1..n : out[from + 1 + ((k - 1) % off)] \in Bytes
    <3> SUFFICES ASSUME NEW k \in 1..n PROVE out[from + 1 + ((k - 1) % off)] \in Bytes
      OBVIOUS
    <3>1. (k - 1) % off \in 0..(off - 1)
      OBVIOUS
    <3>2. from + 1 + ((k - 1) % off) \in 1..Len(out)
      BY <1>2, <3>1, LenProperties
    <3> QED
      BY <3>2, ElementOfSeq
  <2>2. copy \in Seq(Bytes) /\ Len(copy) = n
    BY <2>1
  <2>3. out' \in Seq(Bytes) /\ Len(out') = Len(out) + n
    BY <1>2, <2>2, ConcatProperties
  <2> QED
    BY <1>2, <2>3, LenProperties DEF Wrote, NeedOp
<1> QED
  BY <1>1, <1>2 DEF CopyMatch

-----------------------------------------------------------------------------

\* Each step of the decompressor keeps UnpackInv.  It tests for three bytes when it
\* comes to a command, so that none of the next reads is past the end of the table.
LEMMA UnpackStep ==
    ASSUME UnpackInv, Unpack
    PROVE  UnpackInv'
<1> USE DEF UnpackInv, LzoTypeOK, Labels
<1>1. UNCHANGED <<text, table, cut, sizeof, font>>
  BY DEF Unpack
<1>2. Len(table) \in Nat /\ Len(out) \in Nat /\ Byte(ip) \in Bytes /\ Byte(ip) \in Nat
  BY ByteType, LenProperties
<1>3. pc \in Labels /\ res = "none" /\ font # "font"
  BY DEF Unpack, lzo1x_decompress_safe, Start, Literals, FirstLiteralRun, MatchM2, MatchM3, MatchM4,
         MatchM1, MatchDone, MatchNext, MatchCommand
<1>4. Failed /\ ip' \in 0..Len(table) => UnpackInv'
  BY <1>1, <1>2, <1>3 DEF Failed
<1>5. ASSUME NEW i \in 0..Len(table), NEW n \in Nat,
             \/ CopyLiterals(i, n, "first_literal_run")
             \/ CopyLiterals(i, n, "match_command")
      PROVE  UnpackInv'
  <2>1. PICK label \in {"first_literal_run", "match_command"} : CopyLiterals(i, n, label)
    BY <1>5
  <2>2. \/ Wrote(label) /\ ip' = i + n /\ ip' + 3 <= Len(table)
        \/ Failed /\ ip' = i
    BY <2>1, LiteralsInside
  <2>3. CASE Wrote(label) /\ ip' = i + n /\ ip' + 3 <= Len(table)
    <3>1. pc' \in {"first_literal_run", "match_command"} /\ ip' \in Nat
      BY <1>2, <2>3 DEF Wrote
    <3> QED
      BY <1>1, <1>2, <1>3, <2>3, <3>1 DEF Wrote
  <2> QED
    BY <1>2, <1>4, <2>2, <2>3
<1>6. ASSUME NEW i \in 2..Len(table), NEW off \in Nat \ {0}, NEW n \in Nat, CopyMatch(i, off, n)
      PROVE  UnpackInv'
  BY <1>1, <1>2, <1>3, <1>4, <1>6, MatchInside DEF Wrote
<1>7. ASSUME NEW i \in 0..Len(table), Return("INPUT_OVERRUN", i) PROVE UnpackInv'
  BY <1>4, <1>7 DEF Return, GoTo, Failed
<1>8. CASE Start
  <2>1. Byte(0) \in Nat
    BY ByteType
  <2>2. CASE ~NeedIp(0, 1) /\ Return("INPUT_OVERRUN", 0)
    BY <1>2, <1>7, <2>2
  <2>3. CASE GoTo("loop", 0, 0) /\ UNCHANGED <<out, res>>
    BY <1>1, <1>2, <1>3, <2>3 DEF GoTo
  <2>4. CASE Byte(0) > 17 /\ Byte(0) - 17 < 4 /\ GoTo("match_next", 1, Byte(0) - 17) /\ UNCHANGED <<out, res>>
    <3>1. Len(table) > 0
      BY <1>2, <2>4 DEF Byte
    <3>2. Byte(0) - 17 \in 1..3
      <4>1. Byte(0) > 17 /\ Byte(0) - 17 < 4
        BY <2>4
      <4> HIDE DEF UnpackInv, LzoTypeOK
      <4> QED
        BY <2>1, <4>1
    <3>3. pc' = "match_next" /\ ip' = 1 /\ t' \in 1..3 /\ UNCHANGED <<out, res>>
      BY <2>4, <3>2 DEF GoTo
    <3> QED
      BY <1>1, <1>2, <1>3, <3>1, <3>3
  <2>5. CASE Byte(0) - 17 >= 4 /\ CopyLiterals(1, Byte(0) - 17, "first_literal_run")
    <3>1. Len(table) > 0
      BY <1>2, <2>5 DEF Byte
    <3> QED
      BY <1>2, <1>5, <2>1, <2>5, <3>1
  <2> QED
    BY <1>8, <2>2, <2>3, <2>4, <2>5 DEF Start
<1>9. CASE Literals
  <2> DEFINE n == IF Byte(ip) = 0 THEN LengthAt(ip + 1, 15) ELSE [t |-> Byte(ip), ip |-> ip + 1]
  <2>1. n # NONE /\ NeedIp(ip, 3) => n.t \in Nat /\ n.ip \in 0..Len(table)
    BY <1>2, LengthInside DEF NeedIp
  <2>2. CASE ~NeedIp(ip, 3) /\ Return("INPUT_OVERRUN", ip)
    BY <1>2, <1>7, <2>2
  <2>3. CASE NeedIp(ip, 3) /\ GoTo("match", ip + 1, Byte(ip)) /\ UNCHANGED <<out, res>>
    BY <1>1, <1>2, <1>3, <2>3 DEF GoTo, NeedIp
  <2>4. CASE Return("INPUT_OVERRUN", Len(table))
    BY <1>2, <1>7, <2>4
  <2>5. CASE NeedIp(ip, 3) /\ n # NONE /\ CopyLiterals(n.ip, n.t + 3, "first_literal_run")
    <3>1. n.t + 3 \in Nat /\ n.ip \in 0..Len(table)
      BY <2>1, <2>5
    <3> HIDE DEF n
    <3> QED
      BY <1>5, <2>5, <3>1
  <2> QED
    BY <1>9, <2>2, <2>3, <2>4, <2>5 DEF Literals
<1>10. CASE FirstLiteralRun
  <2>1. pc = "first_literal_run" /\ ip + 3 <= Len(table)
    BY <1>10 DEF FirstLiteralRun
  <2>2. CASE GoTo("match", ip + 1, Byte(ip)) /\ UNCHANGED <<out, res>>
    BY <1>1, <1>2, <1>3, <2>1, <2>2 DEF GoTo
  <2>3. CASE CopyMatch(ip + 2, 1 + M2_MAX_OFFSET + Byte(ip) \div 4 + Byte(ip + 1) * 4, 3)
    <3> ip + 1 \in Nat
      OBVIOUS
    <3>1. Byte(ip + 1) \in Nat
      BY ByteType
    <3>2. 1 + M2_MAX_OFFSET + Byte(ip) \div 4 + Byte(ip + 1) * 4 \in Nat \ {0}
      BY <1>2, <3>1 DEF M2_MAX_OFFSET
    <3>3. ip + 2 \in 2..Len(table)
      BY <1>2, <2>1
    <3> QED
      BY <1>6, <2>3, <3>2, <3>3
  <2> QED
    BY <1>10, <2>2, <2>3 DEF FirstLiteralRun
<1>11. CASE MatchM2
  <2>1. pc = "match" /\ t >= 64 /\ ip + 1 \in 2..Len(table)
    BY <1>2, <1>11 DEF MatchM2
  <2>2. 1 + ((t \div 4) % 8) + Byte(ip) * 8 \in Nat \ {0} /\ (t \div 32) - 1 + 2 \in Nat
    BY <1>2, <2>1
  <2> QED
    BY <1>6, <1>11, <2>1, <2>2 DEF MatchM2
<1>12. ASSUME NEW field \in Nat, NEW bias \in Nat, pc = "match", ~Overrun(field, MatchLengthAt(field, bias))
       PROVE  /\ MatchLengthAt(field, bias).t + 2 \in Nat
              /\ MatchLengthAt(field, bias).ip + 2 \in 2..Len(table)
              /\ OffsetAt(MatchLengthAt(field, bias).ip) \in Nat
  <2> DEFINE n == MatchLengthAt(field, bias)
  <2>1. n.t \in Nat /\ n.ip \in Nat /\ n.ip + 2 <= Len(table)
    <3>1. CASE field = 0
      <4>1. n = LengthAt(ip, bias) /\ n # NONE /\ NeedIp(n.ip, 2)
        BY <1>12, <3>1 DEF MatchLengthAt, Overrun
      <4>2. n.t \in Nat /\ n.ip \in (ip + 1)..Len(table)
        BY <4>1, LengthInside
      <4> HIDE DEF n
      <4> QED
        BY <1>2, <4>1, <4>2 DEF NeedIp
    <3>2. CASE field # 0
      BY <1>2, <1>12, <3>2 DEF MatchLengthAt
    <3> QED
      BY <3>1, <3>2
  <2> HIDE DEF n
  <2>2. n.ip + 1 \in Nat
    BY <2>1
  <2>3. Byte(n.ip) \in Nat /\ Byte(n.ip + 1) \in Nat
    BY <2>1, <2>2, ByteType
  <2>4. OffsetAt(n.ip) \in Nat
    BY <2>3 DEF OffsetAt
  <2>5. n.t + 2 \in Nat
    BY <2>1
  <2>6. Len(table) \in Nat
    BY <1>2
  <2>7. n.ip + 2 \in 2..Len(table)
    <3> HIDE DEF UnpackInv, LzoTypeOK
    <3> QED
      BY <2>1, <2>6
  <2> QED
    BY <2>4, <2>5, <2>7 DEF n
<1>13. CASE MatchM3
  <2> DEFINE n == MatchLengthAt(t % 32, 31)
  <2>1. CASE Return("INPUT_OVERRUN", Len(table))
    BY <1>2, <1>7, <2>1
  <2>2. CASE ~Overrun(t % 32, n) /\ CopyMatch(n.ip + 2, 1 + OffsetAt(n.ip), n.t + 2)
    <3>1. pc = "match" /\ t % 32 \in Nat
      BY <1>13 DEF MatchM3
    <3>2. n.t + 2 \in Nat /\ n.ip + 2 \in 2..Len(table) /\ OffsetAt(n.ip) \in Nat
      BY <1>12, <2>2, <3>1
    <3> HIDE DEF n
    <3> QED
      BY <1>6, <2>2, <3>2
  <2> QED
    BY <1>13, <2>1, <2>2 DEF MatchM3
<1>14. CASE MatchM4
  <2> DEFINE n == MatchLengthAt(t % 8, 7)
             off == ((t \div 8) % 2) * 16384 + OffsetAt(n.ip)
  <2>1. CASE Return("INPUT_OVERRUN", Len(table))
    BY <1>2, <1>7, <2>1
  <2>2. CASE /\ ~Overrun(t % 8, n)
             /\ \/ off # 0 /\ CopyMatch(n.ip + 2, off + 16384, n.t + 2)
                \/ off = 0 /\ EofFound(n.ip + 2)
    <3>1. pc = "match" /\ t % 8 \in Nat
      BY <1>14 DEF MatchM4
    <3>2. n.t + 2 \in Nat /\ n.ip + 2 \in 2..Len(table) /\ OffsetAt(n.ip) \in Nat
      BY <1>12, <2>2, <3>1
    <3>3. off + 16384 \in Nat \ {0}
      <4>1. PICK k \in 0..1 : k = (t \div 8) % 2
        BY <1>1
      <4>2. PICK o \in Nat : o = OffsetAt(n.ip)
        BY <3>2
      <4>3. off = k * 16384 + o
        BY <4>1, <4>2
      <4> HIDE DEF off
      <4> QED
        BY <4>3
    <3> HIDE DEF n, off
    <3>4. CASE CopyMatch(n.ip + 2, off + 16384, n.t + 2)
      BY <1>6, <3>2, <3>3, <3>4
    <3>5. CASE EofFound(n.ip + 2)
      BY <1>1, <1>2, <1>3, <3>2, <3>5 DEF EofFound, Return, GoTo
    <3> QED
      BY <2>2, <3>4, <3>5
  <2> QED
    BY <1>14, <2>1, <2>2 DEF MatchM4
<1>15. CASE MatchM1
  <2>1. ip + 1 \in 2..Len(table)
    BY <1>2, <1>15 DEF MatchM1
  <2>2. 1 + t \div 4 + Byte(ip) * 4 \in Nat \ {0}
    BY <1>2
  <2> QED
    BY <1>6, <1>15, <2>1, <2>2 DEF MatchM1
<1>16. CASE MatchDone
  <2>1. Byte(ip - 2) \in Nat
    BY <1>16, ByteType DEF MatchDone
  <2> DEFINE n == Byte(ip - 2) % 4
  <2>2. n \in 0..3
    <3> HIDE DEF UnpackInv, LzoTypeOK
    <3> QED
      BY <2>1
  <2>3. pc = "match_done" /\ UNCHANGED <<out, res>> /\ GoTo(IF n = 0 THEN "loop" ELSE "match_next", ip, n)
    BY <1>16 DEF MatchDone
  <2> HIDE DEF n
  <2>4. pc' = IF n = 0 THEN "loop" ELSE "match_next"
    BY <2>3 DEF GoTo
  <2>5. t' = n /\ ip' = ip
    BY <2>3 DEF GoTo
  <2> QED
    BY <1>1, <1>2, <1>3, <2>2, <2>3, <2>4, <2>5
<1>17. CASE MatchNext
  BY <1>2, <1>5, <1>17 DEF MatchNext
<1>18. CASE MatchCommand
  BY <1>1, <1>2, <1>3, <1>18 DEF MatchCommand, GoTo
<1> QED
  BY <1>8, <1>9, <1>10, <1>11, <1>13, <1>14, <1>15, <1>16, <1>17, <1>18 DEF Unpack, lzo1x_decompress_safe

\* The table, whole, cut or too long, is one of bytes, and the buffer has a size.
LEMMA AllocStep ==
    ASSUME UnpackInv, AllocFont
    PROVE  UnpackInv'
<1> USE DEF UnpackInv, LzoTypeOK
<1>1. PICK e \in Tables, margin \in Margins :
           /\ text' = e.text /\ sizeof' = Len(e.text) + margin
           /\ table' = IF cut' < 0 THEN e.table \o Repeat(0, 0 - cut')
                       ELSE SubSeq(e.table, 1, Len(e.table) - cut')
  BY DEF AllocFont
<1>2. e.text \in Seq(Int) /\ e.table \in Seq(Bytes) /\ sizeof' \in Nat /\ cut' \in Int
  BY <1>1, LzoConstants DEF AllocFont
<1>3. table' \in Seq(Bytes)
  <2>1. CASE cut' < 0
    <3>1. Repeat(0, 0 - cut') \in Seq(Bytes)
      <4>1. \A n \in Nat : [i \in 1..n |-> 0] \in Seq(0..255)
        OBVIOUS
      <4>2. \A c \in Int : c < 0 => 0 - c \in Nat
        OBVIOUS
      <4>3. 0 - cut' \in Nat
        BY <1>2, <2>1, <4>2
      <4> QED
        BY <4>1, <4>3 DEF Repeat, Bytes
    <3> QED
      BY <1>1, <1>2, <2>1, <3>1, ConcatProperties
  <2>2. CASE cut' >= 0
    <3>1. \A i \in 1..(Len(e.table) - cut') : e.table[i] \in Bytes
      <4> SUFFICES ASSUME NEW i \in 1..(Len(e.table) - cut') PROVE e.table[i] \in Bytes
        OBVIOUS
      <4>1. i \in 1..Len(e.table)
        BY <1>2, <2>2, LenProperties
      <4> QED
        BY <1>2, <4>1, ElementOfSeq
    <3>2. SubSeq(e.table, 1, Len(e.table) - cut') \in Seq(Bytes)
      <4>1. Len(e.table) - cut' \in Int
        BY <1>2, LenProperties
      <4> QED
        BY <3>1, <4>1, SubSeqProperties
    <3> QED
      BY <1>1, <1>2, <2>2, <3>2
  <2> QED
    BY <1>2, <2>1, <2>2
<1>4. /\ ip = 0 /\ out = <<>> /\ t = 0 /\ res = "none" /\ font # "font"
      /\ UNCHANGED <<ip, out, t, res>>
      /\ pc' \in {"start", "end"} /\ font' \in {"buffer", font}
  BY DEF AllocFont
<1>5. Len(table') \in Nat /\ Len(out') = 0
  BY <1>3, <1>4, LenProperties
<1>6. LzoTypeOK'
  BY <1>1, <1>2, <1>3, <1>4 DEF Labels
<1> QED
  BY <1>2, <1>4, <1>5, <1>6 DEF Labels

\* Whatever the table is, in any length and with any bytes, lzo1x_decompress_safe reads
\* and writes only inside the buffers that it was given, and gfx_init_font keeps a font
\* only when the table was read, and the buffer written, to the end.
THEOREM UnpackSafety == LzoSpec => []UnpackSafe
<1>1. LzoInit => UnpackInv
  BY DEF LzoInit, UnpackInv, LzoTypeOK, Labels
<1>2. UnpackInv /\ [LzoNext]_lzoVars => UnpackInv'
  <2> SUFFICES ASSUME UnpackInv, [LzoNext]_lzoVars PROVE UnpackInv'
    OBVIOUS
  <2>1. CASE AllocFont
    BY <2>1, AllocStep
  <2>2. CASE Unpack
    BY <2>2, UnpackStep
  <2>3. CASE KeepFont
    BY <2>3 DEF KeepFont, UnpackInv, LzoTypeOK, Labels
  <2>4. CASE UNCHANGED lzoVars
    BY <2>4 DEF lzoVars, UnpackInv, LzoTypeOK
  <2> QED
    BY <2>1, <2>2, <2>3, <2>4 DEF LzoNext
<1>3. UnpackInv => UnpackSafe
  <2> SUFFICES ASSUME UnpackInv PROVE UnpackSafe
    OBVIOUS
  <2>1. Len(table) \in Nat /\ ip \in Nat
    BY LenProperties DEF UnpackInv, LzoTypeOK
  <2>2. Unchecked \subseteq 0..(Len(table) - 1)
    BY <2>1 DEF UnpackInv, Unchecked
  <2> QED
    BY <2>2 DEF UnpackInv, UnpackSafe
<1> QED
  BY <1>1, <1>2, <1>3, PTL DEF LzoSpec

------------------------------------------------------------------------------
(* mini-gmp on one, two and three limbs. *)

\* Integers.
LEMMA DivMod == ASSUME NEW x \in Int, NEW n \in Nat \ {0}
  PROVE x = (n * (x \div n)) + (x % n) /\ x % n \in 0..n-1 /\ x \div n \in Int
OBVIOUS

LEMMA DivModUnique == ASSUME NEW n \in Nat \ {0}, NEW q \in Int, NEW r \in 0..n-1
  PROVE (n*q + r) % n = r /\ (n*q+r) \div n = q
OBVIOUS

\* Limbs as numbers, and what wrapping does to a number.
LEMMA BaseNat == Base \in Nat \ {0} /\ Base >= 4 /\ HalfBase \in Nat /\ HalfBase >= 2 /\ Base = HalfBase * HalfBase
BY LimbSquare

LEMMA HighIsHalf == Base = 2 * HighBit /\ HighBit \in Nat /\ HighBit >= 2
<1> DEFINE k == HalfBase \div 2
<1>1. HalfBase = 2 * k /\ k \in Nat /\ k >= 1
  BY LimbSquare
<1> HIDE DEF k
<1>2. Base = 2 * (k * HalfBase) /\ k * HalfBase \in Nat /\ k * HalfBase >= 2
  BY <1>1, BaseNat
<1> QED
  BY <1>2 DEF HighBit

LEMMA TimesMono == ASSUME NEW h \in Nat, NEW a \in Int, NEW b \in Int, a <= b
  PROVE a*h <= b*h
OBVIOUS

LEMMA TimesCancel == ASSUME NEW n \in Nat \ {0}, NEW a \in Int, NEW b \in Int, a * n < b * n PROVE a < b
OBVIOUS

LEMMA WrapIn == ASSUME NEW x \in Int PROVE Wrap(x) \in 0..Base-1
<1>1. x % Base \in 0..Base-1
  BY BaseNat, DivMod
<1> QED BY <1>1 DEF Wrap

LEMMA WrapOf == ASSUME NEW q \in Int, NEW r \in 0..Base-1 PROVE Wrap(Base*q + r) = r
<1>1. (Base*q + r) % Base = r
  BY BaseNat, DivModUnique
<1> QED BY <1>1 DEF Wrap

LEMMA WrapIs == ASSUME NEW x \in (-Base)..2*Base-1
  PROVE Wrap(x) = IF x < 0 THEN x + Base ELSE IF x < Base THEN x ELSE x - Base
<1> USE BaseNat
<1>1. CASE x < 0
  <2>1. Wrap(Base * (-1) + (x + Base)) = x + Base
    <3>1. x + Base \in 0..Base-1 /\ -1 \in Int
      BY <1>1
    <3> QED BY <3>1, WrapOf
  <2>2. Base * (-1) + (x + Base) = x
    BY <1>1
  <2> QED BY <1>1, <2>1, <2>2
<1>2. CASE x \in 0..Base-1
  BY <1>2 DEF Wrap
<1>3. CASE x >= Base
  <2>1. Wrap(Base * 1 + (x - Base)) = x - Base
    <3>1. x - Base \in 0..Base-1 /\ 1 \in Int
      BY <1>3
    <3> QED BY <3>1, WrapOf
  <2>2. Base * 1 + (x - Base) = x
    BY <1>3
  <2> QED BY <1>3, <2>1, <2>2
<1> QED BY <1>1, <1>2, <1>3

Limb == 0..Base-1

\* A limb is two half limbs.
LEMMA HalvesOf == ASSUME NEW u \in Limb
  PROVE /\ u % HalfBase \in 0..HalfBase-1 /\ u \div HalfBase \in 0..HalfBase-1
        /\ u = (HalfBase * (u \div HalfBase)) + (u % HalfBase)
<1> DEFINE q == u \div HalfBase
           r == u % HalfBase
<1>1. u = HalfBase * q + r /\ r \in 0..HalfBase-1 /\ q \in Int /\ u \in Nat
  BY DivMod, BaseNat DEF Limb
<1> HIDE DEF q, r
<1>2. q * HalfBase < HalfBase * HalfBase
  BY <1>1, BaseNat DEF Limb
<1>3. q < HalfBase
  BY <1>1, <1>2, TimesCancel, BaseNat
<1>4. (-1) * HalfBase < q * HalfBase
  BY <1>1, BaseNat
<1>5. -1 < q
  BY <1>1, <1>4, TimesCancel, BaseNat
<1> QED BY <1>1, <1>3, <1>5, BaseNat DEF q, r

\* The product of two limbs is exact although it is made of products of half limbs and
\* a carry is recognised only by a sum that became smaller (gmp_umul_ppmm).
THEOREM ProductExact == ASSUME NEW u \in Limb, NEW v \in Limb
  PROVE /\ gmp_umul_ppmm(u, v)[1] \in Limb /\ gmp_umul_ppmm(u, v)[2] \in Limb
        /\ Base * gmp_umul_ppmm(u, v)[1] + gmp_umul_ppmm(u, v)[2] = u * v
<1> DEFINE H == HalfBase
           ul == u % H  uh == u \div H
           vl == v % H  vh == v \div H
           x0 == ul * vl
           c0 == x0 \div H
           x1 == Wrap(ul * vh + c0)
           x2 == uh * vl
           y  == Wrap(x1 + x2)
           up == IF y < x2 THEN 1 ELSE 0
           x3 == uh * vh + (IF y < x2 THEN H ELSE 0)
           w1 == x3 + y \div H
           w0 == (y % H) * H + (x0 % H)
<1>1. gmp_umul_ppmm(u, v) = <<Wrap(w1), Wrap(w0)>>
  BY DEF gmp_umul_ppmm
<1>2. /\ ul \in 0..H-1 /\ uh \in 0..H-1 /\ vl \in 0..H-1 /\ vh \in 0..H-1
      /\ u = H * uh + ul /\ v = H * vh + vl
  BY HalvesOf
<1>3. H \in Nat /\ H >= 2 /\ Base = H * H
  BY BaseNat
<1> HIDE DEF H, ul, uh, vl, vh
<1>4. ASSUME NEW a \in 0..H-1, NEW b \in 0..H-1
      PROVE a * b \in 0..(H-1)*(H-1)
  BY <1>3
<1>5. x0 \in 0..(H-1)*(H-1) /\ x2 \in 0..(H-1)*(H-1) /\ ul * vh \in 0..(H-1)*(H-1) /\ uh * vh \in 0..(H-1)*(H-1)
  BY <1>2, <1>4
<1>6. (H-1)*(H-1) = Base - 2*H + 1
  BY <1>3
<1> HIDE DEF x0, x2
<1>7. x0 \in Limb /\ x2 \in Limb
  BY <1>3, <1>5, <1>6 DEF Limb
<1>8. c0 \in 0..H-1 /\ x0 % H \in 0..H-1 /\ x0 = H * c0 + (x0 % H)
  BY <1>7, HalvesOf DEF H
<1> HIDE DEF c0
<1>9. x1 = ul * vh + c0
  BY <1>3, <1>5, <1>6, <1>8, WrapIs, BaseNat
<1>10. x1 \in Limb
  BY <1>3, <1>5, <1>6, <1>8, <1>9 DEF Limb
<1> HIDE DEF x1
<1>11. y = x1 + x2 - Base * up /\ y \in Limb
  BY <1>7, <1>10, WrapIs, BaseNat DEF Limb
<1>12. up \in {0, 1} /\ x3 = uh * vh + H * up
  BY <1>3
<1> HIDE DEF y, up, x3
<1>13. y = H * (y \div H) + (y % H) /\ y \div H \in 0..H-1 /\ y % H \in 0..H-1
  BY <1>11, HalvesOf DEF H
<1>14. w0 \in Limb
  <2> DEFINE b == y % H
             a == x0 % H
  <2>1. a \in 0..H-1 /\ b \in 0..H-1
    BY <1>8, <1>13
  <2> HIDE DEF a, b
  <2>2. b * H <= (H-1) * H
    BY <2>1, <1>3, TimesMono
  <2> QED
    BY <2>1, <2>2, <1>3 DEF Limb, a, b
<1>15. Base * w1 + w0 = u * v
  <2> DEFINE b == y % H
             a == x0 % H
             e == y \div H
             cross == ul * vh + uh * vl
  <2>1. a \in Int /\ b \in Int /\ e \in Int /\ cross \in Int /\ c0 \in Int /\ H \in Int /\ uh \in Int /\ vh \in Int /\ ul \in Int /\ vl \in Int /\ up \in Int
    BY <1>8, <1>12, <1>13, <1>2, <1>3
  <2>2. w1 = uh * vh + H * up + e /\ w0 = b * H + a
    BY <1>12
  <2>3. H * e + b = cross + c0 - (H * H) * up
    <3>1. H * e + b = y
      BY <1>13
    <3>2. y = cross + c0 - Base * up
      <4>1. y = x1 + x2 - Base * up
        BY <1>11
      <4>2. x1 + x2 = cross + c0
        <5>1. x2 = uh * vl
          BY DEF x2
        <5> QED BY <1>9, <5>1, <2>1
      <4> QED BY <4>1, <4>2, <2>1, <1>3, <1>7, <1>10 DEF Limb
    <3> QED BY <3>1, <3>2, <1>3
  <2>4. H * c0 + a = ul * vl
    BY <1>8 DEF x0
  <2> HIDE DEF a, b, e, w1, w0
  <2>5. Base * w1 + w0 = (H * H) * (uh * vh) + (H * H) * (H * up) + H * (H * e + b) + a
    BY <2>1, <2>2, <1>3
  <2>6. H * (H * e + b) = H * cross + H * c0 - H * ((H * H) * up)
    BY <2>1, <2>3
  <2>7. Base * w1 + w0 = (H * H) * (uh * vh) + H * cross + ul * vl
    BY <2>1, <2>5, <2>6, <2>4
  <2>8. u * v = (H * H) * (uh * vh) + H * cross + ul * vl
    BY <2>1, <1>2
  <2> QED BY <2>7, <2>8
<1>16. w1 \in Int
  BY <1>2, <1>3, <1>12, <1>13
<1> HIDE DEF w0, w1
<1>17. u * v <= (Base - 1) * (Base - 1) /\ u * v >= 0
  BY BaseNat DEF Limb
<1>18. w1 * Base < Base * Base /\ (-1) * Base < w1 * Base
  BY <1>14, <1>15, <1>16, <1>17, BaseNat DEF Limb
<1>19. w1 \in Limb
  BY <1>16, <1>18, TimesCancel, BaseNat DEF Limb
<1>20. Wrap(w1) = w1 /\ Wrap(w0) = w0
  BY <1>14, <1>19, WrapIs, BaseNat DEF Limb
<1> QED
  BY <1>1, <1>14, <1>15, <1>19, <1>20

\* The low limb of a product, which is all that some callers use.
LEMMA ProductLow == ASSUME NEW u \in Limb, NEW v \in Limb
  PROVE \E h \in Limb, l \in Limb : MulLow(u, v) = l /\ Base * h + l = u * v
BY ProductExact DEF MulLow

\* A sum of two pairs of limbs loses at most one carry.
LEMMA SumOfWords ==
    ASSUME NEW ah \in Limb, NEW al \in Limb, NEW bh \in Limb, NEW bl \in Limb
    PROVE  \E c \in {0, 1}, h \in Limb, l \in Limb :
             /\ gmp_add_ssaaaa(ah, al, bh, bl) = <<h, l>>
             /\ Base * h + l = Base * (ah + bh) + al + bl - Base * Base * c
<1> DEFINE x == Wrap(al + bl)
           low == IF x < al THEN 1 ELSE 0
           h == Wrap(ah + bh + low)
<1>1. x = al + bl - Base * low /\ x \in Limb /\ low \in {0, 1}
  BY WrapIs, BaseNat DEF Limb
<1>2. gmp_add_ssaaaa(ah, al, bh, bl) = <<h, x>>
  BY DEF gmp_add_ssaaaa, Bit
<1> HIDE DEF x, low
<1> DEFINE sum == ah + bh + low
<1>3. h = Wrap(sum) /\ sum \in 0..2*Base-1
  BY <1>1, BaseNat DEF Limb
<1>4. ah \in Int /\ al \in Int /\ bh \in Int /\ bl \in Int /\ x \in Int /\ low \in Int /\ Base \in Int /\ sum \in Int
  BY <1>1, BaseNat DEF Limb
<1>5. Base * sum = Base * (ah + bh) + Base * low
  BY <1>4
<1> HIDE DEF sum, h
<1>6. CASE sum < Base
  <2>1. h = sum
    BY <1>3, <1>4, <1>6, WrapIs, BaseNat
  <2>2. h \in Limb
    BY <1>3, <1>4, <1>6, <2>1 DEF Limb
  <2>3. Base * h + x = Base * (ah + bh) + al + bl - Base * Base * 0
    BY <1>1, <1>4, <1>5, <2>1
  <2> QED BY <1>1, <1>2, <2>2, <2>3
<1>7. CASE sum >= Base
  <2>1. h = sum - Base
    BY <1>3, <1>4, <1>7, WrapIs, BaseNat
  <2>2. h \in Limb
    BY <1>3, <1>4, <1>7, <2>1 DEF Limb
  <2>3. Base * h = Base * sum - Base * Base
    BY <1>4, <2>1
  <2>4. Base * h + x = Base * (ah + bh) + al + bl - Base * Base * 1
    BY <1>1, <1>4, <1>5, <2>3
  <2> QED BY <1>1, <1>2, <2>2, <2>4
<1> QED
  BY <1>4, <1>6, <1>7

\* A quotient fits in a limb if the divisor is above the high limb.
LEMMA QuotientInside ==
    ASSUME NEW d \in Limb \ {0}, NEW q \in Int, NEW r \in 0..d-1, NEW nh \in 0..d-1, NEW nl \in Limb,
           Base * nh + nl = d * q + r
    PROVE  q \in Limb
<1>1. d * q + r < d * Base
  <2>1. nh * Base <= (d - 1) * Base
    BY TimesMono, BaseNat DEF Limb
  <2>2. (d - 1) * Base = d * Base - Base
    BY BaseNat DEF Limb
  <2> QED BY <2>1, <2>2, BaseNat DEF Limb
<1>2. (-1) * d < q * d
  BY BaseNat DEF Limb
<1>3. q * d < Base * d
  BY <1>1, BaseNat DEF Limb
<1> QED
  BY <1>2, <1>3, TimesCancel, BaseNat DEF Limb

\* di is the inverse of the limb d: floor((B^2 - 1) / d) - B.
IsInverse(d, di) == (Base + di) * d < Base * Base /\ Base * Base <= (Base + di + 1) * d

\* Division by a limb with its inverse: the first quotient is right or one off, which
\* the comparison with the low limb of the product and the last one put right.
LEMMA QuotientByOne ==
    ASSUME NEW nh \in Limb, NEW nl \in Limb, NEW d \in Limb, NEW di \in Limb,
           d >= HighBit, nh < d, IsInverse(d, di)
    PROVE  LET qr == gmp_udiv_qrnnd_preinv(nh, nl, d, di)
           IN  /\ qr[1] \in Limb /\ qr[2] \in 0..d-1
               /\ Base * nh + nl = d * qr[1] + qr[2]
<1> DEFINE B == Base
           w == gmp_umul_ppmm(nh, di)
           s == gmp_add_ssaaaa(w[1], w[2], Wrap(nh + 1), nl)
           m == gmp_umul_ppmm(s[1], d)
           qr == gmp_udiv_qrnnd_preinv(nh, nl, d, di)
<1>1. B \in Nat \ {0} /\ B >= 4 /\ 2 * d >= B /\ d < B /\ d > 0
  BY BaseNat, HighIsHalf DEF Limb
<1>2. PICK w1 \in Limb, w2 \in Limb : w[1] = w1 /\ w[2] = w2 /\ B * w1 + w2 = nh * di
  BY ProductExact
<1>3. Wrap(nh + 1) = nh + 1 /\ nh + 1 \in Limb
  BY WrapIs, BaseNat DEF Limb
<1> HIDE DEF w
<1>4. PICK c \in {0, 1}, s1 \in Limb, s2 \in Limb :
        s = <<s1, s2>> /\ B * s1 + s2 = B * (w1 + (nh + 1)) + w2 + nl - B * B * c
  BY <1>2, <1>3, SumOfWords
<1> HIDE DEF s
<1>5. PICK m1 \in Limb, m2 \in Limb : m[1] = m1 /\ m[2] = m2 /\ B * m1 + m2 = s1 * d
  BY <1>4, ProductExact
<1> HIDE DEF m
<1> DEFINE Q == s1 + B * c
           R == B * nh + nl - d * Q
           k == B * B - (B + di) * d
           e == s2
           r0 == Wrap(nl - m2)
<1>6. nh \in Int /\ nl \in Int /\ d \in Int /\ di \in Int /\ B \in Int /\ c \in Int /\ Q \in Int /\ e \in 0..B-1 /\ R \in Int /\ w1 \in Int /\ w2 \in Int /\ s1 \in Int /\ m1 \in Int /\ m2 \in Int
  BY <1>1, <1>4 DEF Limb
<1>7. B * Q + e = nh * di + (nh + 1) * B + nl
  <2>1. B * Q = B * s1 + B * B * c
    BY <1>4, <1>1 DEF Limb
  <2>2. B * (w1 + (nh + 1)) = B * w1 + (nh + 1) * B
    BY <1>6
  <2> HIDE DEF Q
  <2> QED BY <2>1, <2>2, <1>2, <1>4, <1>6
<1>8. k \in 1..d
  BY <1>6 DEF IsInverse
<1> HIDE DEF e, k, B
<1> HIDE DEF Q
<1>9. B * R = nh * k + nl * (B - d) + d * (e - B)
  <2>1. d * (B * Q) = d * (nh * di + (nh + 1) * B + nl - e)
    BY <1>6, <1>7
  <2>2. d * (nh * di + (nh + 1) * B + nl - e) = d * (nh * di) + d * (nh * B) + d * B + d * nl - d * e
    BY <1>6
  <2>3. B * R = B * (B * nh) + B * nl - d * (B * Q)
    BY <1>6
  <2>4. nh * k = nh * (B * B) - nh * ((B + di) * d)
    BY <1>6 DEF k
  <2>5. nh * ((B + di) * d) = d * (nh * B) + d * (nh * di) /\ nh * (B * B) = B * (B * nh)
    BY <1>6
  <2>6. nl * (B - d) = B * nl - d * nl /\ d * (e - B) = d * e - d * B
    BY <1>6
  <2>7. nh * (B * B) \in Int /\ d * (nh * B) \in Int /\ d * (nh * di) \in Int /\ d * B \in Int /\ d * nl \in Int /\ d * e \in Int /\ B * nl \in Int
    BY <1>6
  <2> HIDE DEF R
  <2> QED BY <2>1, <2>2, <2>3, <2>4, <2>5, <2>6, <2>7
<1>10. B * nh + nl = d * Q + R
  BY <1>6
<1> HIDE DEF R
<1>11. nh \in 0..d-1 /\ nl \in 0..B-1
  BY <1>6 DEF Limb, B
<1>12. R > e - B /\ R >= -d
  <2>1. nh * k >= 0 /\ nl * (B - d) >= 0
    BY <1>1, <1>8, <1>11
  <2>2. R * B >= d * (e - B)
    BY <1>1, <1>6, <1>8, <1>9, <2>1
  <2>3. d * (e - B) > B * (e - B)
    BY <1>1, <1>6
  <2>4. (e - B) * B < R * B
    BY <1>1, <1>6, <2>2, <2>3
  <2>5. d * (e - B) >= (-d) * B
    BY <1>1, <1>6
  <2>6. (-d - 1) * B < R * B
    BY <1>1, <1>6, <2>2, <2>5
  <2> QED BY <1>1, <1>6, <2>4, <2>6, TimesCancel
<1>13. R < e \/ R < B - d
  <2>1. nh * k <= (d - 1) * d
    <3>1. nh * k <= (d - 1) * k
      BY <1>1, <1>8, <1>11, TimesMono
    <3>2. k * (d - 1) <= d * (d - 1)
      BY <1>1, <1>8, <1>11, TimesMono
    <3> QED BY <3>1, <3>2, <1>6, <1>8
  <2>2. nl * (B - d) <= (B - 1) * (B - d)
    BY <1>1, <1>6, <1>11, TimesMono
  <2>3. (d - 1) * d + (B - 1) * (B - d) - d * B = (B - d) * (B - d) - B
    BY <1>6
  <2>4. B * R < (B - d) * (B - d) + d * e
    BY <1>1, <1>6, <1>8, <1>9, <2>1, <2>2, <2>3
  <2>5. CASE e >= B - d
    <3>1. (B - d) * (B - d) <= e * (B - d)
      BY <1>1, <1>6, <2>5, TimesMono
    <3>2. R * B < e * B
      BY <1>1, <1>6, <2>4, <3>1
    <3> QED BY <1>1, <1>6, <3>2, TimesCancel
  <2>6. CASE e < B - d
    <3>1. e * d <= (B - d) * d
      BY <1>1, <1>6, <2>6, TimesMono
    <3>2. R * B < (B - d) * B
      BY <1>1, <1>6, <2>4, <3>1
    <3> QED BY <1>1, <1>6, <3>2, TimesCancel
  <2> QED BY <1>1, <1>6, <2>5, <2>6
<1>14. R \in -d..B-1
  BY <1>1, <1>6, <1>12, <1>13
<1>15. r0 = IF R < 0 THEN R + B ELSE R
  <2> DEFINE K == m1 - nh + d * c
  <2>1. nl - m2 = R + B * K
    <3>1. d * Q = s1 * d + d * (B * c)
      BY <1>4, <1>6 DEF Q, Limb, B
    <3>2. B * K = B * m1 - B * nh + B * (d * c)
      BY <1>5, <1>6 DEF Limb, B
    <3>3. d * (B * c) = B * (d * c)
      BY <1>6
    <3>4. nl - m2 = d * Q + R - B * nh - m2
      BY <1>5, <1>6, <1>10 DEF Limb
    <3>5. d * Q - m2 = B * m1 + d * (B * c)
      BY <1>4, <1>5, <1>6, <3>1 DEF Limb
    <3>6. nl - m2 = B * m1 + d * (B * c) + R - B * nh
      BY <1>6, <3>4, <3>5
    <3> QED BY <1>6, <3>2, <3>3, <3>6
  <2>2. K \in Int
    BY <1>5, <1>6 DEF Limb
  <2> HIDE DEF K
  <2>3. CASE R >= 0
    <3>1. Wrap(B * K + R) = R
      BY <1>14, <2>2, <2>3, WrapOf DEF B
    <3>2. nl - m2 = B * K + R
      BY <1>6, <2>1, <2>2
    <3> QED BY <1>6, <2>3, <3>1, <3>2
  <2>4. CASE R < 0
    <3>1. R + B \in 0..B-1
      BY <1>1, <1>6, <1>14, <2>4
    <3> K - 1 \in Int
      BY <2>2
    <3>2. Wrap(B * (K - 1) + (R + B)) = R + B
      BY <3>1, WrapOf DEF B
    <3>3. nl - m2 = B * (K - 1) + (R + B)
      BY <1>6, <2>1, <2>2
    <3> QED BY <2>4, <3>2, <3>3
  <2> QED BY <1>6, <2>3, <2>4
<1>16. qr = LET q == IF r0 > e THEN Wrap(s1 - 1) ELSE s1
                r == IF r0 > e THEN Wrap(r0 + d) ELSE r0
            IN  IF r >= d THEN <<Wrap(q + 1), r - d>> ELSE <<q, r>>
  BY <1>4, <1>5 DEF gmp_udiv_qrnnd_preinv, MulLow, e, s, w, m
<1> HIDE DEF r0
<1> SUFFICES qr[1] \in 0..B-1 /\ qr[2] \in 0..d-1 /\ B * nh + nl = d * qr[1] + qr[2]
  BY DEF B, Limb
<1> HIDE DEF qr
<1>17. s1 = Q - B * c /\ B * c \in {0, B} /\ s1 \in 0..B-1
  BY <1>1, <1>4, <1>6 DEF Q, Limb, B
<1>18. ASSUME NEW q \in Int, NEW r \in 0..d-1, B * nh + nl = d * q + r PROVE q \in 0..B-1
  <2>1. d \in Limb \ {0}
    BY <1>1
  <2> QED BY <1>11, <1>18, <2>1, QuotientInside DEF B, Limb
<1>19. ASSUME NEW x \in (-B)..2*B-1
       PROVE Wrap(x) = IF x < 0 THEN x + B ELSE IF x < B THEN x ELSE x - B
  BY <1>19, WrapIs DEF B
<1>20. CASE R < 0
  <2>1. r0 = R + B /\ r0 > e
    BY <1>6, <1>12, <1>15, <1>20
  <2>2. Wrap(r0 + d) = R + d /\ R + d \in 0..d-1
    BY <1>1, <1>6, <1>12, <1>14, <1>19, <1>20, <2>1
  <2>3. Q - 1 \in 0..B-1 /\ B * nh + nl = d * (Q - 1) + (R + d)
    <3>1. B * nh + nl = d * (Q - 1) + (R + d)
      BY <1>6, <1>10
    <3>2. Q - 1 \in Int
      BY <1>6
    <3> QED BY <1>18, <2>2, <3>1, <3>2
  <2>4. Wrap(s1 - 1) = Q - 1
    BY <1>1, <1>6, <1>17, <1>19, <2>3
  <2>5. qr = <<Q - 1, R + d>>
    BY <1>6, <1>16, <2>1, <2>2, <2>4
  <2> QED BY <2>2, <2>3, <2>5
<1>21. CASE R >= 0 /\ R < d
  <2>1. r0 = R /\ R \in 0..d-1
    BY <1>6, <1>15, <1>21
  <2>2. Q \in 0..B-1
    BY <1>6, <1>10, <1>18, <2>1
  <2>3. s1 = Q
    BY <1>1, <1>6, <1>17, <2>2
  <2>4. CASE R <= e
    <3>1. qr = <<Q, R>>
      BY <1>6, <1>16, <1>21, <2>1, <2>3, <2>4
    <3> QED BY <1>10, <2>1, <2>2, <3>1
  <2>5. CASE R > e
    <3>1. Wrap(R + d) = R + d /\ R + d >= d
      BY <1>1, <1>6, <1>13, <1>14, <1>19, <1>21, <2>5
    <3>2. Wrap(Wrap(Q - 1) + 1) = Q
      <4>1. Wrap(Q - 1) = IF Q = 0 THEN B - 1 ELSE Q - 1
        BY <1>1, <1>19, <2>2
      <4> QED BY <1>1, <1>19, <2>2, <4>1
    <3>3. qr = <<Q, R>>
      BY <1>6, <1>16, <2>1, <2>3, <2>5, <3>1, <3>2
    <3> QED BY <1>10, <2>1, <2>2, <3>3
  <2> QED BY <1>6, <2>4, <2>5
<1>22. CASE R >= d
  <2>1. r0 = R /\ R - d \in 0..d-1
    BY <1>1, <1>6, <1>14, <1>15, <1>22
  <2>2. ~(R > e)
    BY <1>1, <1>6, <1>13, <1>22
  <2>3. Q + 1 \in 0..B-1 /\ B * nh + nl = d * (Q + 1) + (R - d)
    <3>1. B * nh + nl = d * (Q + 1) + (R - d)
      BY <1>6, <1>10
    <3>2. Q + 1 \in Int
      BY <1>6
    <3> QED BY <1>18, <2>1, <3>1, <3>2
  <2>4. Wrap(s1 + 1) = Q + 1
    BY <1>1, <1>6, <1>17, <1>19, <2>3
  <2>5. qr = <<Q + 1, R - d>>
    BY <1>6, <1>16, <1>22, <2>1, <2>2, <2>4
  <2> QED BY <2>1, <2>3, <2>5
<1> QED
  BY <1>1, <1>6, <1>20, <1>21, <1>22

\* The same for a quotient of three digits by two, in any base.
LEMMA Estimate ==
    ASSUME NEW B \in Nat \ {0}, NEW d \in Nat, d < B, NEW e \in 0..B-1, NEW R \in Int,
           R * B >= d * (e - B), R * B < (B - d) * (B - d) + d * e
    PROVE  /\ R > e - B /\ R >= -d /\ R < B
           /\ R < e \/ R < B - d
<1>1. d * (e - B) >= B * (e - B) /\ (e < B => d * (e - B) > B * (e - B))
  OBVIOUS
<1>2. (e - B) * B < R * B
  BY <1>1
<1>3. d * (e - B) >= (-d) * B
  OBVIOUS
<1>4. (-d - 1) * B < R * B
  BY <1>3
<1>5. R > e - B /\ R >= -d
  BY <1>2, <1>4, TimesCancel
<1>6. CASE e >= B - d
  <2>1. (B - d) * (B - d) <= e * (B - d)
    BY <1>6, TimesMono
  <2>2. R * B < e * B
    BY <2>1
  <2>3. R < e
    BY <2>2, TimesCancel
  <2> QED BY <1>5, <2>3
<1>7. CASE e < B - d
  <2>1. e * d <= (B - d) * d
    BY <1>7, TimesMono
  <2>2. R * B < (B - d) * B
    BY <2>1
  <2>3. R < B - d
    BY <2>2, TimesCancel
  <2> QED BY <1>5, <2>3
<1> QED BY <1>6, <1>7


\* The high half of an inverse.
LEMMA HighHalf ==
    ASSUME NEW u \in Limb, u >= HighBit
    PROVE  LET high == InvertHigh(u)
           IN  /\ high[1] \in 0..HalfBase-1 /\ high[2] \in 0..u-1
               /\ (HalfBase + high[1]) * u + high[2] = HalfBase * Base - 1
<1> DEFINE H == HalfBase
           ul  == u % H
           uh  == u \div H
           nu == LimbMax - u
           qh0 == nu \div uh
           m0 == MulLow(qh0, uh)
           rho == nu % uh
           a0  == Wrap(Wrap(nu - m0) * H) + (H - 1)
           p0  == MulLow(qh0, ul)
           a1  == Wrap(a0 + u)
           one == a0 < p0
           two == one /\ a1 >= u /\ a1 < p0
           qh  == qh0 - Bit(one) - Bit(two)
           top == IF two THEN a1 + u ELSE IF one THEN a1 ELSE a0
           r1  == Wrap(top - p0)
<1>1. /\ H \in Nat /\ H >= 2 /\ Base = H * H /\ Base \in Nat /\ u \in 0..Base-1 /\ 2 * u >= Base
      /\ nu \in 0..Base-1 /\ nu = Base - 1 - u
  BY BaseNat, HighIsHalf DEF Limb, LimbMax
<1>2. ul \in 0..H-1 /\ uh \in 0..H-1 /\ u = H * uh + ul
  BY HalvesOf
<1> SUFFICES qh \in 0..H-1 /\ r1 \in 0..u-1 /\ (H + qh) * u + r1 = H * Base - 1
  <2>1. InvertHigh(u) = <<qh, r1>>
    BY DEF InvertHigh
  <2> HIDE DEF qh, r1
  <2> QED BY <2>1
<1> HIDE DEF H, ul, uh, nu
<1>3. 2 * uh >= H
  <2>1. PICK half \in Nat : H = 2 * half
    <3>1. HalfBase = 2 * (HalfBase \div 2) /\ HalfBase \div 2 \in Nat
      BY LimbSquare
    <3> QED BY <3>1 DEF H
  <2>2. CASE uh <= half - 1
    <3>1. (2 * uh) * H <= (H - 2) * H
      BY <1>1, <1>2, <2>1, <2>2, TimesMono
    <3>2. 2 * u = (2 * uh) * H + 2 * ul
      BY <1>1, <1>2
    <3>3. (H - 2) * H = Base - 2 * H
      BY <1>1
    <3> QED BY <1>1, <1>2, <3>1, <3>2, <3>3
  <2> QED BY <1>1, <1>2, <2>1, <2>2
<1>4. /\ nu = uh * qh0 + rho /\ rho \in 0..uh-1 /\ qh0 \in Int
  BY <1>1, <1>2, <1>3, DivMod
<1> HIDE DEF qh0, rho
<1>5. qh0 \in 0..H-1
  <2>1. (2 * uh) * qh0 <= 2 * nu
    BY <1>1, <1>2, <1>4
  <2>2. 2 * nu < H * H
    BY <1>1
  <2>3. CASE qh0 >= H
    <3>1. (2 * uh) * qh0 >= H * H
      <4>1. H * (2 * uh) <= qh0 * (2 * uh)
        BY <1>1, <1>2, <1>4, <2>3, TimesMono
      <4>2. H * H <= (2 * uh) * H
        BY <1>1, <1>2, <1>3, TimesMono
      <4> QED BY <1>1, <1>2, <1>4, <4>1, <4>2
    <3> QED BY <1>1, <1>2, <1>4, <2>1, <2>2, <3>1
  <2>4. CASE qh0 <= -1
    <3>1. qh0 * uh <= (-1) * uh
      BY <1>1, <1>2, <1>4, <2>4, TimesMono
    <3> QED BY <1>1, <1>2, <1>4, <3>1
  <2> QED BY <1>1, <1>4, <2>3, <2>4
<1>6. H - 1 \in Limb /\ H <= Base - 1 /\ \A x \in 0..H-1 : x \in Limb
  <2>1. 2 * H <= H * H
    BY <1>1, TimesMono
  <2> QED BY <1>1, <2>1 DEF Limb
<1>7. ASSUME NEW x \in 0..H-1, NEW y \in 0..H-1
      PROVE  MulLow(x, y) = x * y /\ x * y \in 0..(H-1)*(H-1)
  <2>1. x * y \in 0..(H-1)*(H-1)
    BY <1>1
  <2>2. (H-1)*(H-1) < Base
    BY <1>1
  <2>3. PICK h \in Limb, l \in Limb : MulLow(x, y) = l /\ Base * h + l = x * y
    BY <1>6, ProductLow
  <2>4. (Base * h + l) % Base = l
    <3>1. Base \in Nat \ {0} /\ h \in Int /\ l \in 0..Base-1
      BY BaseNat DEF Limb
    <3> QED BY <3>1, DivModUnique
  <2>5. (x * y) % Base = x * y
    BY <1>1, <2>1, <2>2
  <2> QED BY <2>1, <2>3, <2>4, <2>5
<1>8. m0 = qh0 * uh /\ p0 = qh0 * ul /\ p0 \in 0..(H-1)*(H-1)
  BY <1>2, <1>5, <1>7
<1>9. nu - m0 = rho
  BY <1>1, <1>2, <1>4, <1>8
<1> HIDE DEF m0, p0
<1>10. a0 = H * rho + H - 1 /\ H * rho \in Int
  <2>1. Wrap(nu - m0) = rho
    BY <1>1, <1>2, <1>4, <1>9, WrapIs
  <2>2. H * rho \in 0..Base-1
    <3>1. rho * H <= (H - 1) * H
      BY <1>1, <1>2, <1>4, TimesMono
    <3> QED BY <1>1, <1>2, <1>4, <3>1
  <2>3. Wrap(rho * H) = H * rho
    BY <1>1, <1>2, <1>4, <2>2, WrapIs
  <2> QED BY <1>1, <2>1, <2>2, <2>3
<1>11. a0 \in 0..u-1
  <2>1. rho * H <= (uh - 1) * H
    BY <1>1, <1>2, <1>4, TimesMono
  <2> QED BY <1>1, <1>2, <1>4, <1>10, <2>1
<1> HIDE DEF a0
<1>12. (H + qh0) * u = H * Base - 1 - a0 + p0
  <2>1. H * nu = H * (uh * qh0) + H * rho
    BY <1>1, <1>2, <1>4, <1>5
  <2>2. H * nu = H * Base - H - H * u
    BY <1>1
  <2>3. (H + qh0) * u = H * u + H * (uh * qh0) + qh0 * ul
    BY <1>1, <1>2, <1>5
  <2>4. H * nu \in Int /\ H * (uh * qh0) \in Int /\ qh0 * ul \in Int /\ H * u \in Int /\ H * Base \in Int
    BY <1>1, <1>2, <1>5
  <2> QED BY <1>1, <1>8, <1>10, <2>1, <2>2, <2>3, <2>4
<1>13. p0 < Base /\ p0 \in Nat /\ p0 < 2 * u
  <2>1. (H-1)*(H-1) < Base
    BY <1>1
  <2> QED BY <1>1, <1>8, <2>1
<1>14. ASSUME NEW j \in {0, 1, 2}, qh = qh0 - j, r1 = a0 + j * u - p0, r1 \in 0..u-1
       PROVE  qh \in 0..H-1 /\ r1 \in 0..u-1 /\ (H + qh) * u + r1 = H * Base - 1
  <2> DEFINE q == qh0 - j
             r == a0 + j * u - p0
  <2> HIDE DEF qh, r1
  <2>1. q \in Int /\ r \in 0..u-1 /\ q <= H - 1
    BY <1>1, <1>5, <1>14
  <2>2. (H + q) * u + r = H * Base - 1
    <3>1. (H + q) * u = (H + qh0) * u - j * u
      BY <1>1, <1>5
    <3>2. (H + qh0) * u \in Int /\ j * u \in Int /\ H * Base \in Int
      BY <1>1, <1>5
    <3> QED BY <1>11, <1>12, <1>13, <3>1, <3>2
  <2>3. q >= 0
    <3>1. (H + q) * u >= H * Base - u
      BY <1>1, <2>1, <2>2
    <3>2. CASE q <= -1
      <4>1. (H + q) * u <= (H - 1) * u
        BY <1>1, <2>1, <3>2, TimesMono
      <4>2. u * H <= (Base - 1) * H
        BY <1>1, TimesMono
      <4> QED BY <1>1, <2>1, <3>1, <4>1, <4>2
    <3> QED BY <2>1, <3>2
  <2> QED BY <1>1, <1>14, <2>1, <2>2, <2>3
<1>15. ASSUME NEW x \in (-Base)..2*Base-1
       PROVE Wrap(x) = IF x < 0 THEN x + Base ELSE IF x < Base THEN x ELSE x - Base
  BY <1>15, WrapIs
<1>16. CASE a0 >= p0
  <2>1. ~one /\ ~two
    BY <1>1, <1>11, <1>13, <1>16
  <2>2. qh = qh0 - 0
    BY <1>5, <2>1 DEF Bit
  <2>3. r1 = Wrap(a0 - p0)
    BY <2>1
  <2>4. r1 = a0 + 0 * u - p0 /\ r1 \in 0..u-1
    BY <1>1, <1>11, <1>13, <1>15, <1>16, <2>3
  <2> HIDE DEF qh, r1
  <2> QED BY <1>14, <2>2, <2>4
<1>17. CASE a0 < p0 /\ a0 + u >= Base
  <2>1. one /\ a1 = a0 + u - Base /\ ~two
    BY <1>1, <1>11, <1>13, <1>15, <1>17
  <2>2. qh = qh0 - 1
    BY <1>5, <2>1 DEF Bit
  <2>3. r1 = Wrap(a1 - p0)
    BY <2>1
  <2>4. r1 = a0 + 1 * u - p0 /\ r1 \in 0..u-1
    BY <1>1, <1>11, <1>13, <1>15, <1>17, <2>1, <2>3
  <2> HIDE DEF qh, r1
  <2> QED BY <1>14, <2>2, <2>4
<1>18. CASE a0 < p0 /\ a0 + u < Base
  <2>1. one /\ a1 = a0 + u /\ a1 >= u
    BY <1>1, <1>11, <1>13, <1>15, <1>18
  <2>2. CASE a0 + u >= p0
    <3>1. ~two
      BY <1>1, <1>11, <1>13, <2>1, <2>2
    <3>2. qh = qh0 - 1
      BY <1>5, <2>1, <3>1 DEF Bit
    <3>3. r1 = Wrap(a1 - p0)
      BY <2>1, <3>1
    <3>4. r1 = a0 + 1 * u - p0 /\ r1 \in 0..u-1
      BY <1>1, <1>11, <1>13, <1>15, <1>18, <2>1, <2>2, <3>3
    <3> HIDE DEF qh, r1
    <3> QED BY <1>14, <3>2, <3>4
  <2>3. CASE a0 + u < p0
    <3>1. two
      BY <2>1, <2>3
    <3>2. qh = qh0 - 2
      BY <1>5, <2>1, <3>1 DEF Bit
    <3>3. top = a1 + u
      BY <3>1
    <3> HIDE DEF top, one, two
    <3>4. r1 = a0 + 2 * u - p0 /\ r1 \in 0..u-1
      BY <1>1, <1>11, <1>13, <1>15, <1>18, <2>1, <2>3, <3>3
    <3> HIDE DEF qh, r1
    <3> QED BY <1>14, <3>2, <3>4
  <2> QED BY <1>1, <1>11, <1>13, <2>2, <2>3
<1> QED BY <1>1, <1>11, <1>13, <1>16, <1>17, <1>18

\* Three digits in base H divided by u, which has two, with the inverse v: ph is the
\* quotient less one, R the remainder that belongs to ph + 1, B the square of H.
ThreeByTwo(H, B, u, v, K, uh, ul, r1, rh, rl, u0, ph, pl, R) ==
    /\ H \in Nat \ {0} /\ B \in Nat /\ B = H * H /\ u \in 1..B-1 /\ v \in 0..H-1
    /\ K \in 1..u /\ (H + v) * u = H * B - K
    /\ uh \in 0..H-1 /\ ul \in 0..H-1 /\ u = H * uh + ul
    /\ r1 \in 0..u-1 /\ rh \in 0..H-1 /\ rl \in 0..H-1 /\ r1 = H * rh + rl
    /\ u0 \in 0..H-1 /\ ph \in Int /\ pl \in 0..H-1 /\ H * ph + pl = rh * (H + v) + rl
    /\ R \in Int /\ R = H * r1 + u0 - (ph + 1) * u

\* The remainder of the candidate quotient is off by at most two divisors, and pl
\* tells which.  Both the inverse and gmp_udiv_qr_3by2 rest on this.
LEMMA CandidateClose ==
    ASSUME NEW H, NEW B, NEW u, NEW v, NEW K, NEW uh, NEW ul, NEW r1, NEW rh, NEW rl, NEW u0, NEW ph, NEW pl, NEW R,
           ThreeByTwo(H, B, u, v, K, uh, ul, r1, rh, rl, u0, ph, pl, R)
    PROVE  /\ ph \in 0..H-1 /\ R > H * pl - B /\ R >= -u /\ R < B
           /\ R < H * pl \/ R < B - u
<1> USE DEF ThreeByTwo
<1> DEFINE T == H * pl
<1>1. T \in 0..B-1 /\ u <= B - 1 /\ u >= 1 /\ H >= 1
  <2>1. pl * H <= (H - 1) * H
    BY TimesMono
  <2> QED BY <2>1
<1>2. ph \in 0..H-1
  <2>1. H * (H * ph + pl) = r1 * (H + v) - rl * v
    <3>1. H * (rh * (H + v) + rl) = (H * rh + rl) * (H + v) - rl * v
      OBVIOUS
    <3> QED BY <3>1
  <2>2. r1 * (H + v) <= (u - 1) * (H + v)
    BY TimesMono
  <2>3. (u - 1) * (H + v) = H * B - K - (H + v)
    OBVIOUS
  <2>4. rl * v >= 0 /\ rl * v \in Int /\ r1 * (H + v) \in Int /\ H * B \in Int
    OBVIOUS
  <2>5. (H * ph + pl) * H < B * H
    BY <2>1, <2>2, <2>3, <2>4
  <2>6. H * ph + pl < B
    BY <2>5, TimesCancel
  <2>7. ph * H < H * H
    BY <2>6
  <2>8. ph < H
    BY <2>7, TimesCancel
  <2>9. rh * (H + v) >= 0
    OBVIOUS
  <2>10. (-1) * H < ph * H
    BY <2>9
  <2>11. -1 < ph
    BY <2>10, TimesCancel
  <2> QED BY <2>8, <2>11
<1>3. H * R = rl * (B - u) + rh * K + H * u0 + u * pl - H * u
  <2>1. H * ph = rh * (H + v) + rl - pl
    OBVIOUS
  <2>2. u * (rh * (H + v)) = rh * (H * B) - rh * K
    <3>1. u * (rh * (H + v)) = rh * ((H + v) * u)
      OBVIOUS
    <3>2. rh * (H * B - K) = rh * (H * B) - rh * K
      OBVIOUS
    <3> QED BY <3>1, <3>2
  <2>3. u * (H * ph) = u * (rh * (H + v)) + u * rl - u * pl
    <3>1. u * (rh * (H + v) + rl - pl) = u * (rh * (H + v)) + u * rl - u * pl
      OBVIOUS
    <3> QED BY <2>1, <3>1
  <2>4. H * R = H * (H * r1) + H * u0 - u * (H * ph) - H * u
    OBVIOUS
  <2>5. H * (H * r1) = rh * (H * B) + B * rl
    OBVIOUS
  <2>6. rl * (B - u) = B * rl - u * rl
    OBVIOUS
  <2>7. /\ u * (H * ph) \in Int /\ u * (rh * (H + v)) \in Int /\ u * rl \in Int /\ u * pl \in Int /\ H * u \in Int
        /\ rh * (H * B) \in Int /\ B * rl \in Int /\ rh * K \in Int /\ H * u0 \in Int /\ H * (H * r1) \in Int /\ H * R \in Int
    OBVIOUS
  <2> QED BY <2>2, <2>3, <2>4, <2>5, <2>6, <2>7
<1>4. /\ rl * (B - u) \in Int /\ rh * K \in Int /\ u * pl \in Int /\ H * u \in Int /\ H * R \in Int /\ H * u0 \in Int
      /\ u * T = H * (u * pl) /\ R * B = H * (H * R) /\ H * (H - 1) = B - H /\ H * u0 <= B - H
  <2>1. u0 * H <= (H - 1) * H
    BY TimesMono
  <2>2. u * T = H * (u * pl) /\ R * B = H * (H * R) /\ H * (H - 1) = B - H
    OBVIOUS
  <2> QED BY <2>1, <2>2
<1> HIDE DEF T
<1>5. R * B >= u * (T - B)
  <2>1. rl * (B - u) >= 0 /\ rh * K >= 0 /\ H * u0 >= 0
    BY <1>1
  <2>2. u * pl - H * u = u * (pl - H)
    OBVIOUS
  <2>3. H * R >= u * (pl - H)
    BY <1>3, <1>4, <2>1, <2>2
  <2>4. (u * (pl - H)) * H <= (H * R) * H
    BY <2>3, TimesMono
  <2>5. (u * (pl - H)) * H = u * (T - B) /\ (H * R) * H = R * B
    BY DEF T
  <2> QED BY <2>4, <2>5
<1>6. R * B < (B - u) * (B - u) + u * T
  <2>1. rh <= uh
    <3>1. CASE rh >= uh + 1
      <4>1. (uh + 1) * H <= rh * H
        BY <3>1, TimesMono
      <4> QED BY <4>1
    <3> QED BY <3>1
  <2>2. B * B \in Int /\ B * u \in Int /\ u * u \in Int /\ H * (u * pl) \in Int /\ (B - u) * (B - u) = B * B - 2 * (B * u) + u * u
    OBVIOUS
  <2>3. CASE rh <= uh - 1
    <3>1. rh * K <= (uh - 1) * u
      <4>1. rh * K <= (uh - 1) * K
        BY <2>3, TimesMono
      <4>2. K * (uh - 1) <= u * (uh - 1)
        BY <2>3, TimesMono
      <4> QED BY <4>1, <4>2
    <3>2. rl * (B - u) <= (H - 1) * (B - u)
      BY <1>1, TimesMono
    <3>3. H * R <= (H - 1) * (B - u) + (uh - 1) * u + (B - H) + u * pl - H * u
      BY <1>3, <1>4, <3>1, <3>2
    <3>4. (H - 1) * (B - u) + (uh - 1) * u + (B - H) - H * u = H * B - 2 * (H * u) + uh * u - H
      OBVIOUS
    <3>5. H * R <= H * B - 2 * (H * u) + uh * u - H + u * pl
      BY <1>4, <3>3, <3>4
    <3>6. (H * R) * H <= (H * B - 2 * (H * u) + uh * u - H + u * pl) * H
      BY <1>4, <3>5, TimesMono
    <3>7. (H * B - 2 * (H * u) + uh * u - H + u * pl) * H = B * B - 2 * (B * u) + (H * uh) * u - B + H * (u * pl)
      OBVIOUS
    <3>8. (H * uh) * u <= u * u
      BY TimesMono
    <3>9. (H * uh) * u \in Int
      OBVIOUS
    <3> QED BY <1>1, <1>4, <2>2, <3>6, <3>7, <3>8, <3>9
  <2>4. CASE rh = uh /\ H * u + u <= H * B
    <3>1. rl <= ul - 1 /\ ul >= 1
      BY <2>4
    <3>2. rl * (B - u) <= (ul - 1) * (B - u)
      BY <3>1, TimesMono
    <3>3. rh * K <= uh * u
      BY <2>4, TimesMono
    <3>4. H * R <= (ul - 1) * (B - u) + uh * u + (B - H) + u * pl - H * u
      BY <1>3, <1>4, <3>2, <3>3
    <3>5. (H * R) * H <= ((ul - 1) * (B - u) + uh * u + (B - H) + u * pl - H * u) * H
      BY <1>4, <3>4, TimesMono
    <3>6. ((ul - 1) * (B - u) + uh * u + (B - H) + u * pl - H * u) * H
          = ul * (H * B - H * u) + (H * uh) * u + H * u - B + H * (u * pl) - B * u
      OBVIOUS
    <3>7. (H * uh) * u = u * u - ul * u
      OBVIOUS
    <3>8. ul * (H * B - H * u) - ul * u <= H * (H * B - H * u - u)
      <4>1. ul * (H * B - H * u - u) <= H * (H * B - H * u - u)
        BY <2>4, TimesMono
      <4>2. ul * (H * B - H * u - u) = ul * (H * B - H * u) - ul * u
        OBVIOUS
      <4> QED BY <4>1, <4>2
    <3>9. H * (H * B - H * u - u) = B * B - B * u - H * u
      OBVIOUS
    <3>10. ul * (H * B - H * u) \in Int /\ ul * u \in Int /\ (H * uh) * u \in Int
      OBVIOUS
    <3> QED BY <1>1, <1>4, <2>2, <3>5, <3>6, <3>7, <3>8, <3>9, <3>10
  <2>5. CASE rh = uh /\ H * u + u > H * B
    <3>1. v = 0
      <4>1. (H + v) * u < (H + 1) * u
        BY <2>5
      <4>2. H + v < H + 1
        BY <4>1, TimesCancel
      <4> QED BY <4>2
    <3>2. uh = H - 1
      <4>1. (H * H - H) * (H + 1) < u * (H + 1)
        BY <2>5
      <4>2. H * H - H < u
        BY <4>1, TimesCancel
      <4>3. CASE uh <= H - 2
        <5>1. uh * H <= (H - 2) * H
          BY <4>3, TimesMono
        <5> QED BY <4>2, <5>1
      <4> QED BY <4>3
    <3>3. ph = H - 1
      <4>1. H * ph + pl = H * rh + rl
        BY <3>1
      <4>2. (H * ph + pl) \div H = ph /\ (H * rh + rl) \div H = rh
        BY DivModUnique
      <4> QED BY <2>5, <3>2, <4>1, <4>2
    <3>4. R <= -1
      <4>1. R = H * r1 + u0 - H * u
        BY <3>3
      <4>2. r1 * H <= (u - 1) * H
        BY TimesMono
      <4> QED BY <4>1, <4>2
    <3>5. R * B < 0
      BY <3>4
    <3>6. (B - u) * (B - u) >= 0 /\ u * T >= 0
      BY <1>1
    <3> QED BY <1>1, <3>5, <3>6
  <2> QED BY <2>1, <2>3, <2>4, <2>5
<1>7. R > T - B /\ R >= -u /\ R < B /\ (R < T \/ R < B - u)
  <2>1. B \in Nat \ {0} /\ u \in Nat /\ u < B /\ R \in Int
    BY <1>1
  <2> HIDE DEF ThreeByTwo
  <2> QED BY <1>1, <1>5, <1>6, <2>1, Estimate
<1> QED BY <1>2, <1>7 DEF T

LEMMA HalfIsLimb == \A x \in 0..HalfBase : x \in Limb
<1>1. 2 * HalfBase <= HalfBase * HalfBase
  BY BaseNat, TimesMono
<1> QED BY BaseNat, <1>1 DEF Limb

LEMMA SmallProduct == ASSUME NEW x \in 0..HalfBase-1, NEW y \in 0..HalfBase-1
      PROVE  MulLow(x, y) = x * y /\ x * y \in 0..(HalfBase-1)*(HalfBase-1)
<1>1. x * y \in 0..(HalfBase-1)*(HalfBase-1)
    BY BaseNat
<1>2. (HalfBase-1)*(HalfBase-1) < Base
    BY BaseNat
<1>3. PICK h \in Limb, l \in Limb : MulLow(x, y) = l /\ Base * h + l = x * y
    BY BaseNat, HalfIsLimb, ProductLow
<1>4. (Base * h + l) % Base = l
    <2>1. Base \in Nat \ {0} /\ h \in Int /\ l \in 0..Base-1
      BY BaseNat DEF Limb
    <2> QED BY <2>1, DivModUnique
<1>5. (x * y) % Base = x * y
    BY BaseNat, <1>1, <1>2
<1> QED BY <1>1, <1>3, <1>4, <1>5

\* The low half, which is a division of three half limbs by two.
LEMMA LowHalf ==
    ASSUME NEW u \in Limb, u >= HighBit, NEW qh \in 0..HalfBase-1, NEW r1 \in 0..u-1,
           (HalfBase + qh) * u + r1 = HalfBase * Base - 1
    PROVE  /\ InvertLow(u, qh, r1)[1] \in Limb /\ InvertLow(u, qh, r1)[2] \in 0..u-1
           /\ (Base + InvertLow(u, qh, r1)[1]) * u + InvertLow(u, qh, r1)[2] = Base * Base - 1
<1> DEFINE H == HalfBase
           B == Base
           uh == u \div H
           ul == u % H
           rh == r1 \div H
           rl == r1 % H
           p0 == MulLow(rh, qh)
           p == Wrap(p0 + r1)
           ph == p \div H
           pl == p % H
           ql == ph + 1
           m0 == MulLow(ql, u)
           T == Wrap(p * H)
           r2 == Wrap(rl * H + (H - 1) - m0)
           low == r2 >= T
           r3 == IF low THEN Wrap(r2 + u) ELSE r2
           m == Wrap(qh * H + ql - Bit(low))
           Q == H * qh + ql
           result == InvertLow(u, qh, r1)
<1>1. /\ H \in Nat \ {0} /\ H >= 2 /\ B = H * H /\ B \in Nat \ {0} /\ u \in 0..B-1 /\ 2 * u >= B
      /\ qh \in 0..H-1 /\ r1 \in 0..u-1 /\ r1 \in 0..B-1 /\ (H + qh) * u + r1 = H * B - 1
  BY BaseNat, HighIsHalf DEF Limb
<1>2. ul \in 0..H-1 /\ uh \in 0..H-1 /\ u = H * uh + ul
  BY HalvesOf
<1>3. rl \in 0..H-1 /\ rh \in 0..H-1 /\ r1 = H * rh + rl
  BY <1>1, HalvesOf DEF Limb
<1>4. result = IF r3 >= u THEN <<Wrap(m + 1), r3 - u>> ELSE <<m, r3>>
  BY DEF InvertLow
<1>5. p0 = rh * qh /\ rh * qh \in Nat
  <2>1. qh \in 0..HalfBase-1 /\ rh \in 0..HalfBase-1
    BY <1>3
  <2> HIDE DEF rh
  <2>2. MulLow(rh, qh) = rh * qh
    BY <2>1, SmallProduct
  <2> QED BY <1>1, <1>3, <2>2
<1> HIDE DEF uh, ul, rh, rl, p0
<1>6. PICK x \in Nat : x = rh * qh + r1
  BY <1>1, <1>5
<1> DEFINE xh == x \div H
           xl == x % H
<1>7. xl \in 0..H-1 /\ xh \in Int /\ x = H * xh + xl
  <2>1. x = (H * xh) + xl /\ xl \in 0..H-1 /\ xh \in Int
    BY <1>1, DivMod
  <2> HIDE DEF xh, xl
  <2> QED BY <2>1
<1> HIDE DEF xh, xl
<1>8. PICK R \in Int : R = H * r1 + (H - 1) - (xh + 1) * u
  BY <1>1, <1>7
<1>9. /\ xh \in 0..H-1 /\ R > H * xl - B /\ R >= -u /\ R < B
      /\ R < H * xl \/ R < B - u
  <2>1. PICK K \in 1..u : K = r1 + 1
    BY <1>1
  <2>2. (H + qh) * u = H * B - K
    BY <1>1, <2>1
  <2>3. rh * qh + r1 = rh * (H + qh) + rl
    BY <1>1, <1>3
  <2>4. H * xh + xl = rh * (H + qh) + rl
    BY <1>6, <1>7, <2>3
  <2>5. PICK u0 \in 0..H-1 : u0 = H - 1
    BY <1>1
  <2>6. u \in 1..B-1 /\ R = H * r1 + u0 - (xh + 1) * u
    BY <1>1, <1>8, <2>5
  <2>7. H \in Nat \ {0} /\ B \in Nat /\ B = H * H /\ qh \in 0..H-1 /\ r1 \in 0..u-1
    BY <1>1
  <2>8. uh \in 0..H-1 /\ ul \in 0..H-1 /\ u = H * uh + ul /\ rh \in 0..H-1 /\ rl \in 0..H-1 /\ r1 = H * rh + rl
    BY <1>2, <1>3
  <2> HIDE DEF H, B
  <2>9. ThreeByTwo(H, B, u, qh, K, uh, ul, r1, rh, rl, u0, xh, xl, R)
    BY <1>7, <2>2, <2>4, <2>6, <2>7, <2>8 DEF ThreeByTwo
  <2> QED BY <2>9, CandidateClose
<1>10. x \in 0..B-1 /\ p = x /\ ph = xh /\ pl = xl
  <2>1. x \in 0..B-1
    <3>1. xh * H <= (H - 1) * H
      BY <1>1, <1>9, TimesMono
    <3> QED BY <1>1, <1>6, <1>7, <3>1
  <2>2. p = x
    <3>1. Wrap(x) = x
      BY <1>1, <2>1, WrapIs DEF B
    <3> QED BY <1>5, <1>6, <3>1
  <2> QED BY <2>1, <2>2 DEF xh, xl
<1> HIDE DEF p, ph, pl
<1>11. T = H * xl /\ T \in 0..B-1
  <2>1. x * H = B * xh + H * xl
    BY <1>1, <1>7
  <2>2. xl * H <= (H - 1) * H
    BY <1>1, <1>7, TimesMono
  <2>3. H * xl \in 0..B-1
    BY <1>1, <1>7, <2>2
  <2> QED BY <1>9, <1>10, <2>1, <2>3, WrapOf DEF B
<1>12. ql = xh + 1 /\ ql \in 1..H /\ ql \in Limb
  BY <1>1, <1>9, <1>10, HalfIsLimb
<1>13. PICK h \in Limb : m0 \in Int /\ m0 = ql * u - B * h
  <2>1. PICK h \in Limb, l \in Limb : m0 = l /\ B * h + l = ql * u
    BY <1>12, ProductLow
  <2>2. h \in Int /\ l \in Int /\ B * h \in Int /\ ql * u \in Int
    BY <1>1, <1>12 DEF Limb
  <2> QED BY <2>1, <2>2
<1> HIDE DEF T, ql, m0
<1>14. Q \in 0..B
  <2>1. qh * H <= (H - 1) * H
    BY <1>1, TimesMono
  <2> QED BY <1>1, <1>12, <2>1
<1>15. (B + Q) * u + R = B * B - 1
  <2>1. H * ((H + qh) * u + r1) = H * (H * B - 1)
    BY <1>1
  <2>2. H * ((H + qh) * u + r1) = B * u + (H * qh) * u + H * r1
    BY <1>1
  <2>3. H * (H * B - 1) = B * B - H
    BY <1>1
  <2>4. (B + Q) * u = B * u + (H * qh) * u + ql * u
    BY <1>1, <1>12
  <2>5. B * u \in Int /\ (H * qh) * u \in Int /\ H * r1 \in Int /\ ql * u \in Int /\ B * B \in Int
    BY <1>1, <1>12
  <2>6. R = H * r1 + (H - 1) - ql * u
    BY <1>8, <1>12
  <2> HIDE DEF Q
  <2> QED BY <1>1, <2>1, <2>2, <2>3, <2>4, <2>5, <2>6
<1> HIDE DEF Q
<1>16. R > T - B /\ R >= -u /\ R < B /\ (R < T \/ R < B - u)
  BY <1>9, <1>11
<1>17. r2 = IF R < 0 THEN R + B ELSE R
  <2>1. rl * H + (H - 1) - m0 = R + B * (h - rh)
    <3>1. H * r1 = B * rh + rl * H
      BY <1>1, <1>3
    <3>2. B * (h - rh) = B * h - B * rh
      BY <1>1, <1>3, <1>13 DEF Limb
    <3>3. R = H * r1 + (H - 1) - ql * u
      BY <1>8, <1>12
    <3>4. B * rh \in Int /\ B * h \in Int /\ H * r1 \in Int /\ ql * u \in Int /\ rl * H \in Int
      BY <1>1, <1>3, <1>12, <1>13 DEF Limb
    <3> QED BY <1>1, <1>13, <1>14, <3>1, <3>2, <3>3, <3>4
  <2>2. PICK K \in Int : K = h - rh
    BY <1>1, <1>3, <1>13 DEF Limb
  <2>3. CASE R >= 0
    <3>1. Wrap(B * K + R) = R
      <4>1. R \in 0..B-1
        BY <1>1, <1>14, <1>16, <2>3
      <4> QED BY <2>2, <4>1, WrapOf DEF B
    <3>2. rl * H + (H - 1) - m0 = B * K + R
      BY <1>1, <1>14, <2>1, <2>2
    <3> QED BY <1>14, <2>3, <3>1, <3>2
  <2>4. CASE R < 0
    <3>1. R + B \in 0..B-1 /\ K - 1 \in Int
      BY <1>1, <1>14, <1>16, <2>2, <2>4
    <3>2. Wrap(B * (K - 1) + (R + B)) = R + B
      BY <3>1, WrapOf DEF B
    <3>3. rl * H + (H - 1) - m0 = B * (K - 1) + (R + B)
      BY <1>1, <1>14, <2>1, <2>2
    <3> QED BY <1>14, <2>4, <3>2, <3>3
  <2> QED BY <1>14, <2>3, <2>4
<1> HIDE DEF r2
<1> SUFFICES /\ result[1] \in 0..B-1 /\ result[2] \in 0..u-1
             /\ (B + result[1]) * u + result[2] = B * B - 1
  BY DEF Limb
<1> HIDE DEF result
<1>18. ASSUME NEW y \in Int, NEW r \in 0..u-1, (B + y) * u + r = B * B - 1 PROVE y \in 0..B-1
  <2>1. CASE y >= B
    <3>1. (2 * B) * u <= (B + y) * u
      BY <1>1, <2>1, TimesMono
    <3>2. B * B <= (2 * u) * B
      BY <1>1, TimesMono
    <3> QED BY <1>1, <1>18, <3>1, <3>2
  <2>2. CASE y <= -1
    <3>1. (B + y) * u <= (B - 1) * u
      BY <1>1, <2>2, TimesMono
    <3>2. u * B <= (B - 1) * B
      BY <1>1, TimesMono
    <3> QED BY <1>1, <1>18, <3>1, <3>2
  <2> QED BY <1>1, <2>1, <2>2
<1>19. ASSUME NEW y \in (-B)..2*B-1
       PROVE Wrap(y) = IF y < 0 THEN y + B ELSE IF y < B THEN y ELSE y - B
  BY <1>19, WrapIs DEF B
<1>20. qh * H + ql = Q /\ Q \in Int
  BY <1>1, <1>12 DEF Q
<1>24. (low => m = Wrap(Q - 1)) /\ (~low => m = Wrap(Q))
  <2> HIDE DEF low
  <2>1. qh * H + ql - 1 = Q - 1 /\ qh * H + ql - 0 = Q
    BY <1>1, <1>12, <1>20
  <2>2. ASSUME low PROVE m = Wrap(Q - 1)
    <3>1. m = Wrap(qh * H + ql - 1)
      BY <2>2 DEF Bit
    <3> QED BY <2>1, <3>1
  <2>3. ASSUME ~low PROVE m = Wrap(Q)
    <3>1. m = Wrap(qh * H + ql - 0)
      BY <2>3 DEF Bit
    <3> QED BY <2>1, <3>1
  <2> QED BY <2>2, <2>3
<1> HIDE DEF B, H, m
<1>21. CASE R < 0
  <2>1. r2 >= T /\ low
    BY <1>1, <1>11, <1>14, <1>16, <1>17, <1>21
  <2>2. r3 = R + u /\ R + u \in 0..u-1
    <3>1. Wrap(r2 + u) = R + u
      BY <1>1, <1>14, <1>16, <1>17, <1>19, <1>21
    <3> QED BY <1>1, <1>14, <1>16, <1>21, <2>1, <3>1
  <2>3. (B + (Q - 1)) * u + (R + u) = B * B - 1
    BY <1>1, <1>14, <1>15, <1>20
  <2>4. Q - 1 \in 0..B-1
    BY <1>18, <1>20, <2>2, <2>3
  <2>5. m = Q - 1
    BY <1>1, <1>19, <1>20, <1>24, <2>1, <2>4
  <2> HIDE DEF r3
  <2>6. result = <<Q - 1, R + u>>
    BY <1>1, <1>4, <1>14, <2>2, <2>5
  <2> QED BY <2>2, <2>3, <2>4, <2>6
<1>22. CASE R >= 0 /\ R < u
  <2>1. r2 = R /\ R \in 0..u-1 /\ Q \in 0..B-1
    <3>1. r2 = R /\ R \in 0..u-1
      BY <1>1, <1>14, <1>17, <1>22
    <3> QED BY <1>15, <1>18, <1>20, <3>1
  <2>2. CASE R < T
    <3>1. ~low /\ r3 = R
      BY <1>11, <1>14, <2>1, <2>2
    <3>2. m = Q
      BY <1>1, <1>19, <1>20, <1>24, <2>1, <3>1
    <3> HIDE DEF r3
    <3>3. result = <<Q, R>>
      BY <1>1, <1>4, <1>14, <2>1, <3>1, <3>2
    <3> QED BY <1>15, <2>1, <3>3
  <2>3. CASE R >= T
    <3>1. low /\ R + u < B
      BY <1>1, <1>11, <1>14, <1>16, <2>1, <2>3
    <3>2. r3 = R + u
      <4>1. Wrap(R + u) = R + u
        BY <1>1, <1>19, <2>1, <3>1
      <4> QED BY <2>1, <3>1, <4>1
    <3>3. m = IF Q = 0 THEN B - 1 ELSE Q - 1
      BY <1>1, <1>19, <1>20, <1>24, <2>1, <3>1
    <3> HIDE DEF r3
    <3>4. Wrap(m + 1) = Q
      BY <1>1, <1>19, <2>1, <3>3
    <3>5. result = <<Q, R>>
      BY <1>1, <1>4, <1>14, <2>1, <3>2, <3>4
    <3> QED BY <1>15, <2>1, <3>5
  <2> QED BY <1>11, <1>14, <2>2, <2>3
<1>23. CASE R >= u
  <2>1. r2 = R /\ R < T /\ R - u \in 0..u-1
    BY <1>1, <1>11, <1>14, <1>16, <1>17, <1>23
  <2>2. ~low /\ r3 = R
    BY <1>11, <1>14, <2>1
  <2>3. (B + (Q + 1)) * u + (R - u) = B * B - 1
    BY <1>1, <1>14, <1>15, <1>20
  <2>4. Q + 1 \in 0..B-1
    BY <1>18, <1>20, <2>1, <2>3
  <2>5. m = Q \/ m = Q + B
    <3>1. Q \in (-B)..2*B-1 /\ Q - 0 = Q /\ Q \in -1..B-2
      BY <1>1, <1>20, <2>4
    <3> QED BY <1>1, <1>19, <1>24, <2>2, <3>1
  <2> HIDE DEF r3
  <2>6. Wrap(m + 1) = Q + 1
    BY <1>1, <1>19, <1>20, <2>4, <2>5
  <2>7. result = <<Q + 1, R - u>>
    BY <1>1, <1>4, <1>14, <1>23, <2>2, <2>6
  <2> QED BY <2>1, <2>3, <2>4, <2>7
<1> QED BY <1>1, <1>14, <1>21, <1>22, <1>23

\* v is the inverse of two limbs: floor((B^3 - 1) / (B d1 + d0)) - B.
IsInverseOfTwo(d1, d0, v) ==
    /\ (Base + v) * (Base * d1 + d0) < Base * (Base * Base)
    /\ Base * (Base * Base) <= (Base + v + 1) * (Base * d1 + d0)

\* The inverse of a normalised limb is exact: one division of half size and at most five
\* corrections give floor((B^2 - 1) / u) - B and its remainder (mpn_invert_3by2, first part).
THEOREM InverseExact ==
    ASSUME NEW u \in Limb, u >= HighBit
    PROVE  /\ InvertLimb(u)[1] \in Limb /\ InvertLimb(u)[2] \in 0..u-1
           /\ (Base + InvertLimb(u)[1]) * u + InvertLimb(u)[2] = Base * Base - 1
<1>1. PICK qh \in 0..HalfBase-1, r \in 0..u-1 :
         InvertHigh(u)[1] = qh /\ InvertHigh(u)[2] = r /\ (HalfBase + qh) * u + r = HalfBase * Base - 1
  BY HighHalf
<1>2. InvertLimb(u) = InvertLow(u, qh, r)
  BY <1>1 DEF InvertLimb
<1> QED BY <1>1, <1>2, LowHalf

\* The inverse of a limb becomes that of two by at most two corrections before the
\* product with the second limb and two after it.  One case is left out by the code's
\* last comparison, and cannot occur as Base is a power of two.
LEMMA Adjusted ==
    ASSUME NEW u \in Limb, u >= HighBit, NEW u0 \in Limb, u0 # 0, NEW m \in Limb, NEW r \in 0..u-1,
           (Base + m) * u + r = Base * Base - 1
    PROVE  ForTwoLimbs(u, u0, m, r) \in Limb /\ IsInverseOfTwo(u, u0, ForTwoLimbs(u, u0, m, r))
<1> DEFINE B   == Base
           r0  == Wrap(LimbMax - r + u0)
           c1  == r0 < u0
           c2  == c1 /\ r0 >= u
           r1  == Wrap(r0 - (IF c1 THEN u ELSE 0) - (IF c2 THEN u ELSE 0))
           m1  == Wrap(m - Bit(c1) - Bit(c2))
           tt  == gmp_umul_ppmm(u0, m1)
           r2  == Wrap(r1 + tt[1])
           c3  == r2 < tt[1]
           c4  == c3 /\ (r2 > u \/ (r2 = u /\ tt[2] > u0))
           v   == Wrap(m1 - Bit(c3) - Bit(c4))
<1>1. ForTwoLimbs(u, u0, m, r) = v
  BY DEF ForTwoLimbs
<1>2. /\ B \in Nat \ {0} /\ B >= 4 /\ u \in 1..B-1 /\ 2 * u >= B /\ u0 \in 1..B-1 /\ m \in 0..B-1
      /\ r \in 0..u-1 /\ LimbMax = B - 1 /\ (B + m) * u + r = B * B - 1
  BY BaseNat, HighIsHalf DEF Limb, LimbMax
<1>3a. PICK C \in Nat : C = B * B
  BY <1>2
<1>3b. PICK D \in 1..C-1 : D = B * u + u0
  <2>1. u * B <= (B - 1) * B
    BY <1>2, TimesMono
  <2> QED BY <1>2, <1>3a, <2>1
<1>3. C \in Nat /\ C = B * B /\ D \in 1..C-1 /\ D = B * u + u0 /\ 2 * D >= C
  <2>1. B * B <= (2 * u) * B
    BY <1>2, TimesMono
  <2> QED BY <1>2, <1>3a, <1>3b, <2>1
<1>4. m >= 1
  <2>1. CASE m = 0
    <3>1. u * (B + 1) <= (B - 1) * (B + 1)
      BY <1>2, TimesMono
    <3> QED BY <1>2, <2>1, <3>1
  <2> QED BY <1>2, <2>1
<1>5. PICK j \in 0..2, a \in 0..u-1 : a = r - u0 + j * u /\ m1 = Wrap(m - j) /\ r1 = B - 1 - a
  <2>1. r0 = IF u0 > r THEN u0 - r - 1 ELSE B - 1 - r + u0
    BY <1>2, WrapIs
  <2> HIDE DEF r0
  <2>2. CASE u0 <= r
    <3>1. ~c1 /\ ~c2
      BY <1>2, <2>1, <2>2
    <3>2. r1 = B - 1 - (r - u0)
      BY <1>2, <2>1, <2>2, <3>1, WrapIs
    <3>3. m1 = Wrap(m - 0)
      BY <1>2, <3>1 DEF Bit
    <3> QED BY <1>2, <2>2, <3>2, <3>3
  <2>3. CASE u0 > r /\ u0 - r - 1 < u
    <3>1. c1 /\ ~c2
      BY <1>2, <2>1, <2>3
    <3>2. r1 = B - 1 - (r - u0 + u)
      BY <1>2, <2>1, <2>3, <3>1, WrapIs
    <3>3. m1 = Wrap(m - 1)
      BY <1>2, <3>1 DEF Bit
    <3> QED BY <1>2, <2>3, <3>2, <3>3
  <2>4. CASE u0 > r /\ u0 - r - 1 >= u
    <3>1. c1 /\ c2
      BY <1>2, <2>1, <2>4
    <3>2. r1 = B - 1 - (r - u0 + 2 * u)
      BY <1>2, <2>1, <2>4, <3>1, WrapIs
    <3>3. m1 = Wrap(m - 2)
      BY <1>2, <3>1 DEF Bit
    <3> QED BY <1>2, <2>4, <3>2, <3>3
  <2> QED BY <1>2, <2>2, <2>3, <2>4
<1> HIDE DEF r1, m1
<1>6. PICK x \in Int : x = m - j
  BY <1>2
<1>7. (B + x) * D = B * C - B - B * a + u0 * x
  <2>1. (B + m) * u = C - 1 - r
    BY <1>2, <1>3
  <2>2. B * ((B + m) * u) = B * C - B - B * r
    BY <1>2, <1>3, <2>1
  <2>3. (B + x) * D = B * ((B + m) * u) - j * (B * u) + B * u0 + u0 * x
    BY <1>2, <1>3, <1>6
  <2>4. B * a = B * r - B * u0 + j * (B * u)
    BY <1>2, <1>5
  <2>5. /\ B * ((B + m) * u) \in Int /\ j * (B * u) \in Int /\ B * u0 \in Int /\ u0 * x \in Int
        /\ B * a \in Int /\ B * r \in Int /\ B * C \in Int /\ (B + x) * D \in Int
    BY <1>2, <1>3, <1>5, <1>6
  <2> QED BY <1>2, <2>2, <2>3, <2>4, <2>5
<1>8. x \in 0..B-1 /\ m1 = x
  <2>1. CASE x = -1
    <3>1. D * (B - 1) <= (C - 1) * (B - 1)
      BY <1>2, <1>3, TimesMono
    <3>2. a * B <= (B - 2) * B
      BY <1>2, <1>5, TimesMono
    <3>3. (B - 1) * D = B * C - B - B * a - u0
      BY <1>2, <1>3, <1>5, <1>7, <2>1
    <3>4. (C - 1) * (B - 1) = B * C - C - B + 1 /\ (B - 2) * B = C - 2 * B
      BY <1>2, <1>3
    <3>5. B * C \in Int /\ B * a \in Int /\ (B - 1) * D \in Int
      BY <1>2, <1>3, <1>5
    <3> QED BY <1>2, <1>3, <3>1, <3>2, <3>3, <3>4, <3>5
  <2>2. x \in 0..B-1
    BY <1>2, <1>4, <1>6, <2>1
  <2> QED BY <1>2, <1>5, <1>6, <2>2, WrapIs
<1>9. PICK t1 \in Limb, t2 \in Limb : tt[1] = t1 /\ tt[2] = t2 /\ B * t1 + t2 = u0 * x
  <2>1. tt = gmp_umul_ppmm(u0, x) /\ x \in Limb
    BY <1>2, <1>8 DEF Limb
  <2>2. /\ gmp_umul_ppmm(u0, x)[1] \in Limb /\ gmp_umul_ppmm(u0, x)[2] \in Limb
        /\ Base * gmp_umul_ppmm(u0, x)[1] + gmp_umul_ppmm(u0, x)[2] = u0 * x
    BY <2>1, ProductExact
  <2> HIDE DEF tt
  <2> QED BY <2>1, <2>2
<1> HIDE DEF tt
<1>10. t1 \in 0..B-1 /\ t2 \in 0..B-1
  BY <1>9 DEF Limb
<1>11. (B + x) * D = B * C - B - B * a + B * t1 + t2
  <2>1. B * t1 \in Int /\ B * a \in Int /\ B * C \in Int /\ u0 * x \in Int
    BY <1>2, <1>3, <1>5, <1>8, <1>10
  <2> QED BY <1>2, <1>7, <1>9, <1>10, <2>1
<1>12. \A w \in Int : (B + w) * D < B * C /\ B * C <= (B + w + 1) * D /\ w >= -2 /\ w < B
                      => w \in Limb /\ Wrap(w) = w /\ IsInverseOfTwo(u, u0, w)
  <2>1. TAKE w \in Int
  <2>2. HAVE (B + w) * D < B * C /\ B * C <= (B + w + 1) * D /\ w >= -2 /\ w < B
  <2>3. w >= 0
    <3>1. D * (B + w + 1) <= (C - 1) * (B + w + 1)
      BY <1>2, <1>3, <2>2, TimesMono
    <3>2. (B + w + 1) \in Nat /\ (C - 1) * (B + w + 1) = (B + w + 1) * C - (B + w + 1)
      BY <1>2, <1>3, <2>2
    <3>3. B * C < (B + w + 1) * C
      BY <1>2, <1>3, <2>2, <3>1, <3>2
    <3>4. B < B + w + 1
      BY <1>2, <1>3, <3>3, TimesCancel
    <3> QED BY <1>2, <3>4
  <2>4. w \in Limb /\ Wrap(w) = w
    BY <1>2, <2>2, <2>3, WrapIs DEF Limb
  <2>5. IsInverseOfTwo(u, u0, w)
    BY <1>3, <2>2 DEF IsInverseOfTwo
  <2> QED BY <2>4, <2>5
<1>13. r2 = IF t1 <= a THEN B - 1 - a + t1 ELSE t1 - 1 - a
  BY <1>2, <1>5, <1>9, <1>10, WrapIs
<1> HIDE DEF r2
<1>14. CASE t1 <= a
  <2>1. ~c3 /\ ~c4
    BY <1>2, <1>5, <1>9, <1>10, <1>13, <1>14
  <2>2. v = Wrap(x)
    BY <1>2, <1>8, <2>1 DEF Bit
  <2> HIDE DEF v
  <2>3. t1 * B <= a * B /\ a * B <= (u - 1) * B
    BY <1>2, <1>5, <1>10, <1>14, TimesMono
  <2>4. (B + x + 1) * D = (B + x) * D + D
    BY <1>2, <1>3, <1>8
  <2>5. B * t1 \in Nat /\ B * a \in Int /\ B * C \in Int /\ B * u \in Int /\ (u - 1) * B = B * u - B
    BY <1>2, <1>3, <1>5, <1>10
  <2>6. (B + x) * D < B * C /\ B * C <= (B + x + 1) * D
    BY <1>2, <1>3, <1>10, <1>11, <2>3, <2>4, <2>5
  <2> QED BY <1>1, <1>2, <1>8, <1>12, <2>2, <2>6
<1>15. CASE t1 > a
  <2>1. PICK f \in 0..B-1 : f = t1 - 1 - a
    BY <1>2, <1>5, <1>10, <1>15
  <2>2. r2 = f /\ c3
    BY <1>2, <1>5, <1>9, <1>10, <1>13, <1>15, <2>1
  <2>3. (B + x) * D = B * C + B * f + t2
    <3>1. B * f = B * t1 - B - B * a
      BY <1>2, <1>5, <1>10, <2>1
    <3>2. B * f \in Int /\ B * t1 \in Int /\ B * a \in Int /\ B * C \in Int
      BY <1>2, <1>3, <1>5, <1>10, <2>1
    <3> QED BY <1>2, <1>10, <1>11, <3>1, <3>2
  <2>4. /\ B * f \in Nat /\ B * C \in Int /\ B * u \in Int /\ (B + x) * D \in Int
        /\ (B + x - 1) * D = (B + x) * D - D /\ (B + x - 2) * D = (B + x) * D - 2 * D
    BY <1>2, <1>3, <1>8, <2>1
  <2>5. CASE c4
    <3>1. f > u \/ (f = u /\ t2 > u0)
      BY <1>9, <2>2, <2>5
    <3>2. v = Wrap(x - 2)
      BY <1>2, <1>8, <2>2, <2>5 DEF Bit
    <3> HIDE DEF v
    <3>3. B * f + t2 >= D
      <4>1. CASE f > u
        <5>1. (u + 1) * B <= f * B
          BY <1>2, <2>1, <4>1, TimesMono
        <5> QED BY <1>2, <1>3, <1>10, <2>1, <2>4, <5>1
      <4>2. CASE f = u /\ t2 > u0
        BY <1>2, <1>3, <1>10, <4>2
      <4> QED BY <3>1, <4>1, <4>2
    <3>4. B * f + t2 < 2 * D
      <4>1. f * B <= (B - 2) * B
        BY <1>2, <1>5, <1>10, <2>1, TimesMono
      <4>2. (B - 2) * B = C - 2 * B
        BY <1>2, <1>3
      <4> QED BY <1>2, <1>3, <1>10, <2>4, <4>1, <4>2
    <3>5. PICK w \in Int : w = x - 2
      BY <1>8
    <3>6. (B + w) * D < B * C /\ B * C <= (B + w + 1) * D
      <4>1. B + w = B + x - 2 /\ B + w + 1 = B + x - 1
        BY <1>2, <1>8, <3>5
      <4> QED BY <1>3, <1>10, <2>3, <2>4, <3>3, <3>4, <4>1
    <3> QED BY <1>1, <1>2, <1>8, <1>12, <3>2, <3>5, <3>6
  <2>6. CASE ~c4
    <3>1. f < u \/ (f = u /\ t2 <= u0)
      BY <1>2, <1>9, <2>1, <2>2, <2>6
    <3>2. v = Wrap(x - 1)
      BY <1>2, <1>8, <2>2, <2>6 DEF Bit
    <3> HIDE DEF v
    <3>3. B * f + t2 # D
      <4>1. CASE B * f + t2 = D
        <5>1. (B + x - 1) * D = B * C
          BY <1>3, <1>10, <2>3, <2>4, <4>1
        <5>2. (D * (B + x - 1) + 0) % D = 0
          <6>1. B + x - 1 \in Int /\ 0 \in 0..D-1 /\ D \in Nat \ {0}
            BY <1>2, <1>3, <1>8
          <6> QED BY <6>1, DivModUnique
        <5>3. (B * C) % D = 0
          <6>1. D * (B + x - 1) + 0 = B * C
            BY <1>2, <1>3, <1>8, <5>1
          <6> QED BY <5>2, <6>1
        <5>4. D \in (B * HighBit + 1)..(B * B - 1)
          <6>1. HighBit * B <= u * B
            BY <1>2, HighIsHalf, TimesMono
          <6> QED BY <1>2, <1>3, <6>1, HighIsHalf
        <5> QED BY <1>3, <5>3, <5>4, LimbPower
      <4> QED BY <4>1
    <3>4. B * f + t2 < D
      <4>1. CASE f < u
        <5>1. (f + 1) * B <= u * B
          BY <1>2, <2>1, <4>1, TimesMono
        <5> QED BY <1>2, <1>3, <1>10, <2>1, <2>4, <5>1
      <4>2. CASE f = u /\ t2 <= u0
        BY <1>2, <1>3, <1>10, <3>3, <4>2
      <4> QED BY <3>1, <4>1, <4>2
    <3>5. PICK w \in Int : w = x - 1
      BY <1>8
    <3>6. (B + w) * D < B * C /\ B * C <= (B + w + 1) * D
      <4>1. B + w = B + x - 1 /\ B + w + 1 = B + x
        BY <1>2, <1>8, <3>5
      <4> QED BY <1>3, <1>10, <2>3, <2>4, <3>4, <4>1
    <3> QED BY <1>1, <1>2, <1>8, <1>12, <3>2, <3>5, <3>6
  <2> QED BY <2>5, <2>6
<1> QED BY <1>2, <1>5, <1>10, <1>14, <1>15

\* The inverse of two normalised limbs is exact (mpn_invert_3by2).
THEOREM InverseOfTwoExact ==
    ASSUME NEW u1 \in Limb, u1 >= HighBit, NEW u0 \in Limb
    PROVE  mpn_invert_3by2(u1, u0) \in Limb /\ IsInverseOfTwo(u1, u0, mpn_invert_3by2(u1, u0))
<1>1. PICK m \in Limb, r \in 0..u1-1 :
         InvertLimb(u1)[1] = m /\ InvertLimb(u1)[2] = r /\ (Base + m) * u1 + r = Base * Base - 1
  BY InverseExact
<1>2. CASE u0 = 0
  <2>1. mpn_invert_3by2(u1, u0) = m
    BY <1>1, <1>2 DEF mpn_invert_3by2
  <2>2. Base \in Nat /\ m \in Int /\ u1 \in Int /\ r >= 0 /\ r < u1 /\ r \in Int
    BY <1>1, BaseNat DEF Limb
  <2>3. PICK p \in Int : p = (Base + m) * u1
    BY <2>2
  <2>4. (Base + m) * (Base * u1 + u0) = Base * p /\ (Base + m + 1) * (Base * u1 + u0) = Base * (p + u1)
    BY <1>2, <2>2, <2>3
  <2>5. p * Base <= (Base * Base - 1) * Base /\ (Base * Base) * Base <= (p + u1) * Base
    BY <1>1, <2>2, <2>3, TimesMono
  <2>6. Base * (Base * Base) \in Int /\ (Base * Base - 1) * Base = Base * (Base * Base) - Base /\ Base > 0
    BY BaseNat
  <2>7. IsInverseOfTwo(u1, u0, m)
    BY <2>2, <2>3, <2>4, <2>5, <2>6 DEF IsInverseOfTwo
  <2> QED BY <2>1, <2>7
<1>3. CASE u0 # 0
  <2>1. mpn_invert_3by2(u1, u0) = ForTwoLimbs(u1, u0, m, r)
    BY <1>1, <1>3 DEF mpn_invert_3by2
  <2> QED BY <1>1, <1>3, <2>1, Adjusted
<1> QED BY <1>2, <1>3

\* Differences of two pairs of limbs, and their order.
LEMMA DifferenceOfWords ==
    ASSUME NEW ah \in Limb, NEW al \in Limb, NEW bh \in Limb, NEW bl \in Limb
    PROVE  \E c \in {0, 1}, h \in Limb, l \in Limb :
             /\ gmp_sub_ddmmss(ah, al, bh, bl) = <<h, l>>
             /\ Base * h + l = Base * ah + al - (Base * bh + bl) + Base * Base * c
<1> DEFINE x == Wrap(al - bl)
           low == IF al < bl THEN 1 ELSE 0
           h == Wrap(ah - bh - low)
           d == ah - bh - low
<1>1. x = al - bl + Base * low /\ x \in Limb /\ low \in {0, 1}
  BY WrapIs, BaseNat DEF Limb
<1>2. gmp_sub_ddmmss(ah, al, bh, bl) = <<h, x>>
  BY DEF gmp_sub_ddmmss, Bit
<1>3. h = Wrap(d) /\ d \in -Base..Base-1
  BY <1>1, BaseNat DEF Limb
<1> HIDE DEF x, low, h
<1>4. ah \in Int /\ al \in Int /\ bh \in Int /\ bl \in Int /\ x \in Int /\ low \in Int /\ Base \in Int /\ d \in Int
  BY <1>1, BaseNat DEF Limb
<1>5. Base * d = Base * ah - Base * bh - Base * low
  BY <1>4
<1> HIDE DEF d
<1>6. CASE d >= 0
  <2>1. h = d
    BY <1>3, <1>4, <1>6, WrapIs, BaseNat
  <2>2. h \in Limb
    BY <1>3, <1>4, <1>6, <2>1 DEF Limb
  <2>3. Base * h + x = Base * ah + al - (Base * bh + bl) + Base * Base * 0
    BY <1>1, <1>4, <1>5, <2>1
  <2> QED BY <1>1, <1>2, <2>2, <2>3
<1>7. CASE d < 0
  <2>1. h = d + Base
    BY <1>3, <1>4, <1>7, WrapIs, BaseNat
  <2>2. h \in Limb
    BY <1>3, <1>4, <1>7, <2>1 DEF Limb
  <2>3. Base * h = Base * d + Base * Base
    BY <1>4, <2>1
  <2>4. Base * h + x = Base * ah + al - (Base * bh + bl) + Base * Base * 1
    BY <1>1, <1>4, <1>5, <2>3
  <2> QED BY <1>1, <1>2, <2>2, <2>4
<1> QED
  BY <1>4, <1>6, <1>7

LEMMA WrapShifts == ASSUME NEW x \in Int PROVE \E k \in Int : Wrap(x) = x + Base * k
<1>1. x = (Base * (x \div Base)) + (x % Base) /\ x \div Base \in Int /\ x % Base \in 0..Base-1
  BY BaseNat, DivMod
<1>2. PICK k \in Int : k = x \div Base
  BY <1>1
<1>3. x = (Base * k) + Wrap(x) /\ Wrap(x) \in 0..Base-1
  BY <1>1, <1>2 DEF Wrap
<1>4. Wrap(x) = x + Base * (-k)
  BY <1>2, <1>3, BaseNat
<1> QED BY <1>4

LEMMA SameWord == ASSUME NEW n \in Nat \ {0}, NEW x \in 0..n-1, NEW y \in 0..n-1, NEW k \in Int, x = n * k + y
  PROVE x = y
<1>1. (n * k + y) % n = y /\ (n * 0 + x) % n = x
  BY DivModUnique
<1> QED BY <1>1

LEMMA WordValue == ASSUME NEW h \in Limb, NEW l \in Limb PROVE Base * h + l \in 0..Base*Base-1
<1>1. h \in 0..Base-1 /\ l \in 0..Base-1
  BY DEF Limb
<1>2. h * Base <= (Base - 1) * Base
  BY <1>1, BaseNat, TimesMono
<1> QED BY <1>1, <1>2, BaseNat

LEMMA WordOrder ==
    ASSUME NEW h \in Limb, NEW l \in Limb, NEW dh \in Limb, NEW dl \in Limb
    PROVE  (h > dh \/ (h = dh /\ l >= dl)) <=> Base * h + l >= Base * dh + dl
<1>1. h \in 0..Base-1 /\ l \in 0..Base-1 /\ dh \in 0..Base-1 /\ dl \in 0..Base-1 /\ Base \in Nat
  BY BaseNat DEF Limb
<1>2. CASE h > dh
  <2>1. (dh + 1) * Base <= h * Base
    BY <1>1, <1>2, TimesMono
  <2> QED BY <1>1, <1>2, <2>1
<1>3. CASE h < dh
  <2>1. (h + 1) * Base <= dh * Base
    BY <1>1, <1>3, TimesMono
  <2> QED BY <1>1, <1>3, <2>1
<1>4. CASE h = dh
  BY <1>1, <1>4
<1> QED BY <1>1, <1>2, <1>3, <1>4

LEMMA HighOrder ==
    ASSUME NEW h \in Limb, NEW l \in Limb, NEW s \in Limb
    PROVE  h >= s <=> Base * h + l >= Base * s
<1>1. 0 \in Limb /\ (l >= 0) /\ h \in Int /\ s \in Int /\ Base \in Int
  BY BaseNat DEF Limb
<1>2. (h > s \/ (h = s /\ l >= 0)) <=> Base * h + l >= Base * s + 0
  BY <1>1, WordOrder
<1> QED BY <1>1, <1>2

\* Division by two limbs.  R is the remainder for the candidate's successor, known only
\* modulo B^2; the comparison of its high limb says whether it is negative, or it does not matter.
LEMMA QuotientByTwo ==
    ASSUME NEW n2 \in Limb, NEW n1 \in Limb, NEW n0 \in Limb, NEW d1 \in Limb, NEW d0 \in Limb, NEW v \in Limb,
           d1 >= HighBit, Base * n2 + n1 < Base * d1 + d0, IsInverseOfTwo(d1, d0, v)
    PROVE  LET qr == gmp_udiv_qr_3by2(n2, n1, n0, d1, d0, v)
           IN  /\ qr[1] \in Limb /\ qr[2] \in Limb /\ qr[3] \in Limb
               /\ Base * qr[2] + qr[3] < Base * d1 + d0
               /\ Base * (Base * n2 + n1) + n0 = (Base * d1 + d0) * qr[1] + (Base * qr[2] + qr[3])
<1> DEFINE B == Base
           w  == gmp_umul_ppmm(n2, v)
           s  == gmp_add_ssaaaa(w[1], w[2], n2, n1)
           hi == Wrap(n1 - MulLow(d1, s[1]))
           a  == gmp_sub_ddmmss(hi, n0, d1, d0)
           m  == gmp_umul_ppmm(d0, s[1])
           b  == gmp_sub_ddmmss(a[1], a[2], m[1], m[2])
           high == b[1] >= s[2]
           q  == IF high THEN s[1] ELSE Wrap(s[1] + 1)
           r  == IF high THEN gmp_add_ssaaaa(b[1], b[2], d1, d0) ELSE b
           qr == gmp_udiv_qr_3by2(n2, n1, n0, d1, d0, v)
<1>1. qr = IF r[1] > d1 \/ (r[1] = d1 /\ r[2] >= d0)
           THEN QuotientAnd(Wrap(q + 1), gmp_sub_ddmmss(r[1], r[2], d1, d0))
           ELSE QuotientAnd(q, r)
  BY DEF gmp_udiv_qr_3by2
<1>2. /\ B \in Nat \ {0} /\ B >= 4 /\ n2 \in 0..B-1 /\ n1 \in 0..B-1 /\ n0 \in 0..B-1 /\ d1 \in 0..B-1 /\ d0 \in 0..B-1
      /\ v \in 0..B-1 /\ 2 * d1 >= B
  BY BaseNat, HighIsHalf DEF Limb
<1>3a. PICK C \in Nat : C = B * B
  BY <1>2
<1>3b. PICK D \in 1..C-1 : D = B * d1 + d0
  <2>1. d1 * B <= (B - 1) * B
    BY <1>2, TimesMono
  <2> QED BY <1>2, <1>3a, <2>1
<1>3c. PICK N \in 0..D-1 : N = B * n2 + n1
  BY <1>2, <1>3b
<1>3. C \in Nat /\ D \in 1..C-1 /\ N \in 0..D-1 /\ C = B * B /\ D = B * d1 + d0 /\ N = B * n2 + n1
  BY <1>3a, <1>3b, <1>3c
<1>4. (B + v) * D < B * C /\ B * C <= (B + v + 1) * D
  BY <1>3 DEF IsInverseOfTwo
<1>5. 2 * D >= C
  <2>1. B * B <= (2 * d1) * B
    BY <1>2, TimesMono
  <2> QED BY <1>2, <1>3, <2>1
<1>6. PICK t1 \in Limb, t2 \in Limb : w[1] = t1 /\ w[2] = t2 /\ B * t1 + t2 = n2 * v
  BY ProductExact
<1> HIDE DEF w
<1>7. PICK c \in {0, 1}, s1 \in Limb, s2 \in Limb :
        s = <<s1, s2>> /\ B * s1 + s2 = B * (t1 + n2) + t2 + n1 - B * B * c
  BY <1>6, SumOfWords
<1> HIDE DEF s
<1>8. PICK x \in Int : x = s1 + B * c
  BY <1>2, <1>7 DEF Limb
<1>9. PICK R \in Int : R = B * N + n0 - (x + 1) * D
  BY <1>2, <1>3
<1>10. /\ x \in 0..B-1 /\ R > B * s2 - C /\ R >= -D /\ R < C
       /\ R < B * s2 \/ R < C - D
  <2>1. PICK K \in 1..D : K = B * C - (B + v) * D
    BY <1>2, <1>3, <1>4
  <2>2. (B + v) * D = B * C - K
    BY <1>2, <1>3, <2>1
  <2>3. B * x + s2 = n2 * (B + v) + n1
    <3>1. t1 \in Int /\ t2 \in Int /\ s1 \in Int /\ s2 \in Int
      BY <1>2 DEF Limb
    <3>2. B * x = B * s1 + B * B * c
      BY <1>2, <1>8, <3>1
    <3>3. B * (t1 + n2) = B * t1 + B * n2
      BY <1>2, <3>1
    <3>4. n2 * (B + v) = B * n2 + n2 * v
      BY <1>2
    <3>5. B * x \in Int /\ B * s1 \in Int /\ B * B * c \in Int /\ B * t1 \in Int /\ B * n2 \in Int /\ n2 * v \in Int
      BY <1>2, <3>1
    <3> QED BY <1>2, <1>6, <1>7, <3>1, <3>2, <3>3, <3>4, <3>5
  <2>4. s2 \in 0..B-1
    BY <1>2 DEF Limb
  <2> HIDE DEF B
  <2>5. ThreeByTwo(B, C, D, v, K, d1, d0, N, n2, n1, n0, x, s2, R)
    BY <1>2, <1>3, <1>9, <2>2, <2>3, <2>4 DEF ThreeByTwo
  <2> QED BY <2>5, CandidateClose
<1>11. s1 = x
  BY <1>2, <1>7, <1>8, <1>10 DEF Limb
<1>12. PICK b1 \in Limb, b2 \in Limb, k \in Int :
         b = <<b1, b2>> /\ B * b1 + b2 = R + C * k
  <2>1. PICK h1 \in Limb, l1 \in Limb : MulLow(d1, s1) = l1 /\ B * h1 + l1 = d1 * s1
    BY ProductLow
  <2>2. PICK j \in Int : hi = n1 - l1 + B * j
    <3>1. n1 - l1 \in Int
      BY <1>2 DEF Limb
    <3> QED BY <1>7, <2>1, <3>1, WrapShifts
  <2>3. hi \in Limb
    <3>1. n1 - l1 \in Int
      BY <1>2 DEF Limb
    <3> QED BY <1>7, <2>1, <3>1, WrapIn DEF Limb
  <2> HIDE DEF hi
  <2>4. PICK c1 \in {0, 1}, a1 \in Limb, a2 \in Limb :
          a = <<a1, a2>> /\ B * a1 + a2 = B * hi + n0 - (B * d1 + d0) + B * B * c1
    BY <2>3, DifferenceOfWords
  <2> HIDE DEF a
  <2>5. PICK m1 \in Limb, m2 \in Limb : m[1] = m1 /\ m[2] = m2 /\ B * m1 + m2 = d0 * s1
    BY <1>7, ProductExact
  <2> HIDE DEF m
  <2>6. PICK c2 \in {0, 1}, b1 \in Limb, b2 \in Limb :
          b = <<b1, b2>> /\ B * b1 + b2 = B * a1 + a2 - (B * m1 + m2) + B * B * c2
    <3>1. a[1] = a1 /\ a[2] = a2
      BY <2>4
    <3> QED BY <2>5, <3>1, DifferenceOfWords
  <2>7. PICK k \in Int : k = h1 + j - n2 + c1 + c2
    BY <1>2 DEF Limb
  <2>8. B * b1 + b2 = R + C * k
    <3>1. /\ h1 \in Int /\ l1 \in Int /\ s1 \in Int /\ a1 \in Int /\ a2 \in Int /\ m1 \in Int /\ m2 \in Int
          /\ b1 \in Int /\ b2 \in Int /\ hi \in Int
      BY <1>2, <2>3 DEF Limb
    <3>2. B * hi = B * n1 - B * l1 + C * j
      BY <1>2, <1>3, <2>2, <3>1
    <3>3. B * l1 = B * (d1 * s1) - C * h1
      <4>1. B * (B * h1 + l1) = B * (d1 * s1)
        BY <2>1
      <4> QED BY <1>2, <1>3, <3>1, <4>1
    <3>4. R = C * n2 + B * n1 + n0 - (s1 * D + D)
      BY <1>2, <1>3, <1>9, <1>11
    <3>5. s1 * D = B * (d1 * s1) + d0 * s1
      BY <1>2, <1>3, <3>1
    <3>6. C * k = C * h1 + C * j - C * n2 + C * c1 + C * c2
      BY <1>2, <1>3, <2>7, <3>1
    <3>7. B * b1 + b2 = B * hi + n0 - D + C * c1 - d0 * s1 + C * c2
      BY <1>2, <1>3, <2>4, <2>5, <2>6, <3>1
    <3>8. /\ B * hi \in Int /\ B * n1 \in Int /\ B * l1 \in Int /\ C * j \in Int /\ B * (d1 * s1) \in Int /\ C * h1 \in Int
          /\ C * n2 \in Int /\ s1 * D \in Int /\ d0 * s1 \in Int /\ C * c1 \in Int /\ C * c2 \in Int /\ B * b1 \in Int
      BY <1>2, <1>3, <3>1
    <3> QED BY <1>2, <1>3, <3>1, <3>2, <3>3, <3>4, <3>5, <3>6, <3>7, <3>8
  <2> QED BY <2>6, <2>7, <2>8
<1> HIDE DEF b, hi, m, a
<1>13. PICK Y \in 0..C-1 : Y = B * b1 + b2 /\ (R >= 0 => Y = R) /\ (R < 0 => Y = R + C)
  <2>1. B * b1 + b2 \in 0..C-1
    BY <1>3, WordValue
  <2>2. CASE R >= 0
    <3>1. R \in 0..C-1
      BY <1>3, <1>10, <2>2
    <3> QED BY <1>3, <1>12, <2>1, <2>2, <3>1, SameWord
  <2>3. CASE R < 0
    <3>1. R + C \in 0..C-1
      BY <1>3, <1>10, <2>3
    <3>2. B * b1 + b2 = C * (k - 1) + (R + C)
      BY <1>3, <1>12
    <3> QED BY <1>3, <1>12, <2>1, <2>3, <3>1, <3>2, SameWord
  <2> QED BY <2>2, <2>3
<1>14. high <=> Y >= B * s2
  BY <1>7, <1>12, <1>13, HighOrder
<1>15. b[1] = b1 /\ b[2] = b2 /\ s[1] = x
  BY <1>7, <1>11, <1>12
<1>16. R >= 0 => x + 1 < B
  <2>1. CASE R >= 0
    <3>1. N * B <= (D - 1) * B
      BY <1>2, <1>3, TimesMono
    <3>2. B * N + n0 < B * D
      BY <1>2, <1>3, <3>1
    <3>3. (x + 1) * D < B * D
      BY <1>2, <1>3, <1>9, <2>1, <3>2
    <3> QED BY <1>2, <1>3, <3>3, TimesCancel
  <2> QED BY <2>1
<1>17. x + 1 < B => Wrap(x + 1) = x + 1
  BY <1>2, <1>10, WrapIs
<1>18. x \in Limb /\ B * N + n0 = D * (x + 1) + R
  BY <1>2, <1>3, <1>9, <1>10 DEF Limb
<1> HIDE DEF high
<1>19. CASE R < 0
  <2>1. high
    BY <1>2, <1>3, <1>10, <1>13, <1>14, <1>19 DEF Limb
  <2>2. q = x /\ r = gmp_add_ssaaaa(b1, b2, d1, d0)
    BY <1>15, <2>1
  <2> HIDE DEF q, r
  <2>3. PICK c1 \in {0, 1}, r1 \in Limb, r2 \in Limb :
          r = <<r1, r2>> /\ B * r1 + r2 = B * (b1 + d1) + b2 + d0 - B * B * c1
    <3>1. \E c1 \in {0, 1}, h \in Limb, l \in Limb :
            /\ gmp_add_ssaaaa(b1, b2, d1, d0) = <<h, l>>
            /\ Base * h + l = Base * (b1 + d1) + b2 + d0 - Base * Base * c1
      <4>1. b1 \in Limb /\ b2 \in Limb /\ d1 \in Limb /\ d0 \in Limb
        BY <1>12
      <4> QED BY <4>1, SumOfWords
    <3> QED BY <2>2, <3>1
  <2>4. B * r1 + r2 = C * (1 - c1) + (R + D)
    BY <1>2, <1>3, <1>13, <1>19, <2>3 DEF Limb
  <2>5. B * r1 + r2 \in 0..C-1 /\ R + D \in 0..C-1
    BY <1>3, <1>10, <1>19, WordValue
  <2>6. B * r1 + r2 = R + D
    BY <1>3, <2>4, <2>5, SameWord
  <2>7. ~(r[1] > d1 \/ (r[1] = d1 /\ r[2] >= d0))
    BY <1>2, <1>3, <1>19, <2>3, <2>6, WordOrder
  <2>8. qr = <<x, r1, r2>>
    BY <1>1, <2>2, <2>3, <2>7 DEF QuotientAnd
  <2>9. B * N + n0 = D * x + (B * r1 + r2)
    BY <1>2, <1>3, <1>10, <1>18, <2>6
  <2> QED BY <1>3, <1>18, <1>19, <2>3, <2>6, <2>8, <2>9
<1>20. CASE R >= 0 /\ R < D /\ high
  <2>1. R + D < C
    BY <1>2, <1>3, <1>10, <1>13, <1>14, <1>20 DEF Limb
  <2>2. q = x /\ r = gmp_add_ssaaaa(b1, b2, d1, d0)
    BY <1>15, <1>20
  <2> HIDE DEF q, r
  <2>3. PICK c1 \in {0, 1}, r1 \in Limb, r2 \in Limb :
          r = <<r1, r2>> /\ B * r1 + r2 = B * (b1 + d1) + b2 + d0 - B * B * c1
    <3>1. \E c1 \in {0, 1}, h \in Limb, l \in Limb :
            /\ gmp_add_ssaaaa(b1, b2, d1, d0) = <<h, l>>
            /\ Base * h + l = Base * (b1 + d1) + b2 + d0 - Base * Base * c1
      <4>1. b1 \in Limb /\ b2 \in Limb /\ d1 \in Limb /\ d0 \in Limb
        BY <1>12
      <4> QED BY <4>1, SumOfWords
    <3> QED BY <2>2, <3>1
  <2>4. B * r1 + r2 = C * (0 - c1) + (R + D)
    BY <1>2, <1>3, <1>13, <1>20, <2>3 DEF Limb
  <2>5. B * r1 + r2 \in 0..C-1 /\ R + D \in 0..C-1
    BY <1>3, <1>20, <2>1, WordValue
  <2>6. B * r1 + r2 = R + D
    BY <1>3, <2>4, <2>5, SameWord
  <2>7. r[1] > d1 \/ (r[1] = d1 /\ r[2] >= d0)
    BY <1>2, <1>3, <1>20, <2>3, <2>6, WordOrder
  <2>8. PICK c2 \in {0, 1}, e1 \in Limb, e2 \in Limb :
          /\ gmp_sub_ddmmss(r[1], r[2], d1, d0) = <<e1, e2>>
          /\ B * e1 + e2 = B * r1 + r2 - (B * d1 + d0) + B * B * c2
    BY <2>3, DifferenceOfWords
  <2>9. B * e1 + e2 = C * c2 + R
    BY <1>2, <1>3, <2>6, <2>8
  <2>10. B * e1 + e2 = R
    <3>1. B * e1 + e2 \in 0..C-1 /\ R \in 0..C-1
      BY <1>3, <1>20, WordValue
    <3> QED BY <1>3, <2>9, <3>1, SameWord
  <2>11. qr = <<x + 1, e1, e2>>
    BY <1>1, <1>16, <1>17, <1>20, <2>2, <2>7, <2>8 DEF QuotientAnd
  <2>12. x + 1 \in Limb
    BY <1>2, <1>10, <1>16, <1>20 DEF Limb
  <2> QED BY <1>3, <1>18, <1>20, <2>8, <2>10, <2>11, <2>12
<1>21. CASE R >= 0 /\ R < D /\ ~high
  <2>1. q = x + 1 /\ r = b
    BY <1>15, <1>16, <1>17, <1>21
  <2> HIDE DEF q, r
  <2>2. ~(r[1] > d1 \/ (r[1] = d1 /\ r[2] >= d0))
    BY <1>2, <1>3, <1>13, <1>15, <1>21, <2>1, WordOrder
  <2>3. qr = <<x + 1, b1, b2>>
    BY <1>1, <1>15, <2>1, <2>2 DEF QuotientAnd
  <2>4. x + 1 \in Limb
    BY <1>2, <1>10, <1>16, <1>21 DEF Limb
  <2> QED BY <1>3, <1>12, <1>13, <1>18, <1>21, <2>3, <2>4
<1>22. CASE R >= D
  <2>1. ~high
    BY <1>2, <1>3, <1>5, <1>10, <1>13, <1>14, <1>22 DEF Limb
  <2>2. q = x + 1 /\ r = b /\ R >= 0
    BY <1>3, <1>15, <1>16, <1>17, <1>22, <2>1
  <2> HIDE DEF q, r
  <2>3. r[1] > d1 \/ (r[1] = d1 /\ r[2] >= d0)
    BY <1>2, <1>3, <1>12, <1>13, <1>15, <1>22, <2>2, WordOrder
  <2>4. PICK c2 \in {0, 1}, e1 \in Limb, e2 \in Limb :
          /\ gmp_sub_ddmmss(r[1], r[2], d1, d0) = <<e1, e2>>
          /\ B * e1 + e2 = B * b1 + b2 - (B * d1 + d0) + B * B * c2
    BY <1>12, <1>15, <2>2, DifferenceOfWords
  <2>5. B * e1 + e2 = C * c2 + (R - D)
    BY <1>2, <1>3, <1>13, <2>2, <2>4
  <2>6. B * e1 + e2 = R - D
    <3>1. B * e1 + e2 \in 0..C-1 /\ R - D \in 0..C-1
      BY <1>3, <1>10, <1>22, WordValue
    <3> QED BY <1>3, <2>5, <3>1, SameWord
  <2>7. x + 2 < B
    <3>1. N * B <= (D - 1) * B
      BY <1>2, <1>3, TimesMono
    <3>2. B * N + n0 < B * D
      BY <1>2, <1>3, <3>1
    <3>3. (x + 2) * D <= B * N + n0
      BY <1>2, <1>3, <1>10, <1>18, <1>22
    <3>4. (x + 2) * D < B * D
      BY <1>2, <1>3, <1>10, <3>2, <3>3
    <3> QED BY <1>2, <1>3, <1>10, <3>4, TimesCancel
  <2>8. Wrap(q + 1) = x + 2 /\ x + 2 \in Limb
    BY <1>2, <1>10, <2>2, <2>7, WrapIs DEF Limb
  <2>9. qr = <<x + 2, e1, e2>>
    BY <1>1, <2>3, <2>4, <2>8 DEF QuotientAnd
  <2>10. R - D < D
    BY <1>3, <1>5, <1>10
  <2>11. B * N + n0 = D * (x + 2) + (R - D)
    BY <1>2, <1>3, <1>10, <1>18
  <2> QED BY <1>3, <2>4, <2>6, <2>8, <2>9, <2>10, <2>11
<1> QED BY <1>19, <1>20, <1>21, <1>22, <1>3

\* A division by a normalised limb gives the quotient and the remainder, with the inverse
\* that the code computes for it (mpn_div_qr_1_invert, gmp_udiv_qrnnd_preinv).
THEOREM DivisionByLimb ==
    ASSUME NEW nh \in Limb, NEW nl \in Limb, NEW d \in Limb, d >= HighBit, nh < d
    PROVE  LET qr == gmp_udiv_qrnnd_preinv(nh, nl, d, mpn_invert_3by2(d, 0))
           IN  qr[1] \in Limb /\ qr[2] \in 0..d-1 /\ Base * nh + nl = d * qr[1] + qr[2]
<1>1. PICK m \in Limb, r \in 0..d-1 :
         InvertLimb(d)[1] = m /\ InvertLimb(d)[2] = r /\ (Base + m) * d + r = Base * Base - 1
  BY InverseExact
<1>2. mpn_invert_3by2(d, 0) = m
  BY <1>1 DEF mpn_invert_3by2
<1>3. IsInverse(d, m)
  <2>1. Base \in Nat /\ m \in Int /\ d \in Int /\ r >= 0 /\ r < d /\ r \in Int
    BY <1>1, BaseNat DEF Limb
  <2>2. (Base + m + 1) * d = (Base + m) * d + d /\ (Base + m) * d \in Int /\ Base * Base \in Int
    BY <2>1
  <2> QED
    BY <1>1, <2>1, <2>2 DEF IsInverse
<1> QED
  BY <1>2, <1>3, QuotientByOne

\* A division of three limbs by two normalised ones gives the quotient and the remainder,
\* with the inverse that the code computes (mpn_div_qr_2_invert, gmp_udiv_qr_3by2): the
\* step of every division of long numbers.
THEOREM DivisionByTwoLimbs ==
    ASSUME NEW n2 \in Limb, NEW n1 \in Limb, NEW n0 \in Limb, NEW d1 \in Limb, NEW d0 \in Limb,
           d1 >= HighBit, Base * n2 + n1 < Base * d1 + d0
    PROVE  LET qr == gmp_udiv_qr_3by2(n2, n1, n0, d1, d0, mpn_invert_3by2(d1, d0))
           IN  /\ qr[1] \in Limb /\ qr[2] \in Limb /\ qr[3] \in Limb
               /\ Base * qr[2] + qr[3] < Base * d1 + d0
               /\ Base * (Base * n2 + n1) + n0 = (Base * d1 + d0) * qr[1] + (Base * qr[2] + qr[3])
<1>1. PICK v \in Limb : v = mpn_invert_3by2(d1, d0) /\ IsInverseOfTwo(d1, d0, v)
  BY InverseOfTwoExact
<1>2. LET qr == gmp_udiv_qr_3by2(n2, n1, n0, d1, d0, v)
      IN  /\ qr[1] \in Limb /\ qr[2] \in Limb /\ qr[3] \in Limb
          /\ Base * qr[2] + qr[3] < Base * d1 + d0
          /\ Base * (Base * n2 + n1) + n0 = (Base * d1 + d0) * qr[1] + (Base * qr[2] + qr[3])
  <2>1. v \in Limb /\ IsInverseOfTwo(d1, d0, v)
    BY <1>1
  <2> QED
    BY <2>1, QuotientByTwo
<1> QED
  BY <1>1, <1>2, Zenon
==============================================================================
