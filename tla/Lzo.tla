--------------------------------- MODULE Lzo ---------------------------------
(***************************************************************************)
(* The LZO1X decompressor of minilzo.c and gfx_init_font (gfx.c), which    *)
(* unpacks the font with it at the start of the menu.  Pointers are        *)
(* numbers of bytes from the start of their buffer.                        *)
(***************************************************************************)
EXTENDS Integers, Sequences

CONSTANTS
    Tables,         \* fonts (text) with the table that a compressor made of them
    Margins,        \* how much sizeof(*font) differs from the font's length
    Cuts            \* how many bytes the table misses at its end; negative: has too many

Bytes == 0..255

ASSUME LzoConstants ==
    /\ Margins \subseteq Int /\ Cuts \subseteq Int
    /\ \A e \in Tables :
          /\ e.text \in Seq(Int) /\ e.table \in Seq(Bytes)
          /\ \A margin \in Margins : Len(e.text) + margin \in Nat

VARIABLES
    text, table,    \* a font, and the table that stands for it
    cut,            \* how many bytes it misses
    sizeof,         \* sizeof(*font)
    pc,             \* label in lzo1x_decompress_safe, or where gfx_init_font is
    ip, out, t,     \* its variables; out is what was written up to op
    res,            \* what it returned
    font            \* the pointer: NULL, a buffer or the font

lzoVars == <<text, table, cut, sizeof, pc, ip, out, t, res, font>>

M2_MAX_OFFSET == 2048

Minimum(S) == CHOOSE x \in S : \A y \in S : x <= y
Repeat(b, n) == [i \in 1..n |-> b]

------------------------------------------------------------------------------
(* The decompressor, from label to label. *)

Byte(i) == IF i < Len(table) THEN table[i + 1] ELSE 0
NeedIp(i, n) == Len(table) - i >= n
NeedOp(n) == sizeof - Len(out) >= n

GoTo(label, i, n) == pc' = label /\ ip' = i /\ t' = n
Return(error, i) == GoTo("returned", i, 0) /\ res' = error /\ UNCHANGED out

\* A length from byte i on, and the position after it.  NONE: the table ends in it.
NONE == [t |-> 0, ip |-> -1]
LengthAt(i, bias) ==
    LET ends == {k \in i..(Len(table) - 1) : Byte(k) # 0}
        z == Minimum(ends)
    IN  IF ends = {} THEN NONE ELSE [t |-> (z - i) * 255 + bias + Byte(z), ip |-> z + 1]

\* A mutant: leaves no room for the command after the literals.
CopyLiterals_NoRest(i, n, label) ==
    \/ ~NeedOp(n) /\ Return("OUTPUT_OVERRUN", i)
    \/ NeedOp(n) /\ ~NeedIp(i, n) /\ Return("INPUT_OVERRUN", i)
    \/ /\ NeedOp(n) /\ NeedIp(i, n)
       /\ out' = out \o SubSeq(table, i + 1, i + n)
       /\ GoTo(label, i + n, 0) /\ UNCHANGED res

\* Copies n literals, if both buffers have room and 3 more bytes are left.
CopyLiterals(i, n, label) ==
    \/ ~NeedOp(n) /\ Return("OUTPUT_OVERRUN", i)
    \/ NeedOp(n) /\ ~NeedIp(i, n + 3) /\ Return("INPUT_OVERRUN", i)
    \/ /\ NeedOp(n) /\ NeedIp(i, n + 3)
       /\ out' = out \o SubSeq(table, i + 1, i + n)
       /\ GoTo(label, i + n, 0) /\ UNCHANGED res

\* Copies n bytes from off bytes before, which may be bytes it writes itself.
CopyMatch(i, off, n) ==
    LET from == Len(out) - off
    IN  \/ from < 0 /\ Return("LOOKBEHIND_OVERRUN", i)
        \/ from >= 0 /\ ~NeedOp(n) /\ Return("OUTPUT_OVERRUN", i)
        \/ /\ from >= 0 /\ NeedOp(n)
           /\ out' = out \o [k \in 1..n |-> out[from + 1 + ((k - 1) % off)]]
           /\ GoTo("match_done", i, 0) /\ UNCHANGED res

\* match_next reads the next command after its literals.
Start ==
    /\ pc = "start"
    /\ \/ ~NeedIp(0, 1) /\ Return("INPUT_OVERRUN", 0)
       \/ /\ NeedIp(0, 1) /\ Byte(0) <= 17
          /\ GoTo("loop", 0, 0) /\ UNCHANGED <<out, res>>
       \/ /\ Byte(0) > 17 /\ Byte(0) - 17 < 4
          /\ GoTo("match_next", 1, Byte(0) - 17) /\ UNCHANGED <<out, res>>
       \/ Byte(0) - 17 >= 4 /\ CopyLiterals(1, Byte(0) - 17, "first_literal_run")

Literals ==
    /\ pc = "loop"
    /\ LET n == IF Byte(ip) = 0 THEN LengthAt(ip + 1, 15) ELSE [t |-> Byte(ip), ip |-> ip + 1]
       IN  \/ ~NeedIp(ip, 3) /\ Return("INPUT_OVERRUN", ip)
           \/ /\ NeedIp(ip, 3) /\ Byte(ip) >= 16
              /\ GoTo("match", ip + 1, Byte(ip)) /\ UNCHANGED <<out, res>>
           \/ NeedIp(ip, 3) /\ n = NONE /\ Return("INPUT_OVERRUN", Len(table))
           \/ NeedIp(ip, 3) /\ Byte(ip) < 16 /\ n # NONE
                            /\ CopyLiterals(n.ip, n.t + 3, "first_literal_run")

\* A match of three bytes that can only follow literals.
FirstLiteralRun ==
    /\ pc = "first_literal_run"
    /\ \/ Byte(ip) >= 16 /\ GoTo("match", ip + 1, Byte(ip)) /\ UNCHANGED <<out, res>>
       \/ Byte(ip) < 16
          /\ CopyMatch(ip + 2, 1 + M2_MAX_OFFSET + Byte(ip) \div 4 + Byte(ip + 1) * 4, 3)

MatchM2 ==
    /\ pc = "match" /\ t >= 64
    /\ CopyMatch(ip + 1, 1 + ((t \div 4) % 8) + Byte(ip) * 8, (t \div 32) - 1 + 2)

\* The length of a match whose field may be 0, and the offset after it.
MatchLengthAt(field, bias) ==
    IF field = 0 THEN LengthAt(ip, bias) ELSE [t |-> field, ip |-> ip]
OffsetAt(i) == Byte(i) \div 4 + Byte(i + 1) * 64

\* A table that ends in a length or right after it; without one nothing is tested.
Overrun(field, n) == field = 0 /\ (n = NONE \/ ~NeedIp(n.ip, 2))

MatchM3 ==
    /\ pc = "match" /\ t \in 32..63
    /\ LET n == MatchLengthAt(t % 32, 31)
       IN  \/ Overrun(t % 32, n) /\ Return("INPUT_OVERRUN", Len(table))
           \/ ~Overrun(t % 32, n) /\ CopyMatch(n.ip + 2, 1 + OffsetAt(n.ip), n.t + 2)

\* eof_found: all of the table was read, or not all of it, or too much.
EofFound(i) ==
    Return(CASE i = Len(table) -> "OK"
             [] i < Len(table) -> "INPUT_NOT_CONSUMED"
             [] i > Len(table) -> "INPUT_OVERRUN", i)

\* An offset of 0 is the end mark.
MatchM4 ==
    /\ pc = "match" /\ t \in 16..31
    /\ LET n == MatchLengthAt(t % 8, 7)
           off == ((t \div 8) % 2) * 16384 + OffsetAt(n.ip)
       IN  \/ Overrun(t % 8, n) /\ Return("INPUT_OVERRUN", Len(table))
           \/ /\ ~Overrun(t % 8, n)
              /\ \/ off # 0 /\ CopyMatch(n.ip + 2, off + 16384, n.t + 2)
                 \/ off = 0 /\ EofFound(n.ip + 2)

MatchM1 ==
    /\ pc = "match" /\ t < 16
    /\ CopyMatch(ip + 1, 1 + t \div 4 + Byte(ip) * 4, 2)

\* A mutant: the byte that LZO1Z looks at.
MatchDone_Lzo1z ==
    /\ pc = "match_done" /\ UNCHANGED <<out, res>>
    /\ LET n == Byte(ip - 1) % 4
       IN  GoTo(IF n = 0 THEN "loop" ELSE "match_next", ip, n)

\* Up to three literals, whose number is in the low bits of the match.
MatchDone ==
    /\ pc = "match_done" /\ UNCHANGED <<out, res>>
    /\ LET n == Byte(ip - 2) % 4
       IN  GoTo(IF n = 0 THEN "loop" ELSE "match_next", ip, n)

MatchNext == pc = "match_next" /\ CopyLiterals(ip, t, "match_command")
MatchCommand ==
    pc = "match_command" /\ GoTo("match", ip + 1, Byte(ip)) /\ UNCHANGED <<out, res>>

lzo1x_decompress_safe ==
    \/ Start \/ Literals \/ FirstLiteralRun \/ MatchM2 \/ MatchM3 \/ MatchM4 \/ MatchM1
    \/ MatchDone \/ MatchNext \/ MatchCommand

------------------------------------------------------------------------------
(* gfx_init_font *)

LzoInit ==
    /\ text = <<>> /\ table = <<>> /\ cut = 0 /\ sizeof = 0 /\ out = <<>>
    /\ pc = "boot" /\ ip = 0 /\ t = 0 /\ res = "none" /\ font = "NULL"

\* The build has put the table of a font into the program.
AllocFont ==
    /\ pc = "boot" /\ cut' \in Cuts
    /\ \E e \in Tables, margin \in Margins :
           /\ text' = e.text /\ sizeof' = Len(e.text) + margin
           /\ table' = IF cut' < 0 THEN e.table \o Repeat(0, 0 - cut')
                       ELSE SubSeq(e.table, 1, Len(e.table) - cut')
    /\ \/ pc' = "start" /\ font' = "buffer"
       \/ pc' = "end" /\ font' = font
    /\ UNCHANGED <<ip, out, t, res>>

KeepFont ==
    /\ pc = "returned" /\ pc' = "end"
    /\ font' = IF res # "OK" \/ Len(out) # sizeof THEN "NULL" ELSE "font"
    /\ UNCHANGED <<text, table, cut, sizeof, ip, out, t, res>>

Unpack == lzo1x_decompress_safe /\ UNCHANGED <<text, table, cut, sizeof, font>>
LzoNext == AllocFont \/ Unpack \/ KeepFont
LzoSpec == LzoInit /\ [][LzoNext]_lzoVars

------------------------------------------------------------------------------
\* The bytes of the table that the code at pc reads before it tests for the next one.
Unchecked ==
    CASE pc = "first_literal_run" -> IF Byte(ip) >= 16 THEN {ip} ELSE {ip, ip + 1}
      [] pc = "match" -> IF t \in 16..63 /\ t % (IF t >= 32 THEN 32 ELSE 8) # 0 THEN {ip, ip + 1} ELSE {ip}
      [] pc = "match_done" -> {ip - 2}
      [] pc = "match_command" -> {ip}
      [] OTHER -> {}

\* Whatever the table holds, the decompressor reads and writes inside its buffers:
\* the tests that it makes now and then are enough for the bytes in between.  The
\* font is kept only when the table was read, and the buffer written, to the end.
UnpackSafe ==
    /\ ip <= Len(table) /\ Len(out) <= sizeof
    /\ Unchecked \subseteq 0..(Len(table) - 1)
    /\ font = "font" => ip = Len(table) /\ Len(out) = sizeof

Labels == {"start", "loop", "first_literal_run", "match", "match_done", "match_next", "match_command"}
LzoTypeOK ==
    /\ text \in Seq(Int) /\ table \in Seq(Bytes) /\ cut \in Int /\ sizeof \in Nat
    /\ pc \in Labels \cup {"boot", "returned", "end"}
    /\ ip \in Nat /\ out \in Seq(Bytes) /\ t \in Nat
    /\ res \in {"none", "OK", "INPUT_NOT_CONSUMED", "INPUT_OVERRUN", "OUTPUT_OVERRUN",
                "LOOKBEHIND_OVERRUN"}
    /\ font \in {"NULL", "buffer", "font"}

\* Why the tests are enough: three bytes are left after literals, two after the byte
\* that starts a match, and before the end of a match there are the two of its offset.
UnpackInv ==
    /\ LzoTypeOK
    /\ ip <= Len(table) /\ Len(out) <= sizeof
    /\ pc \in {"first_literal_run", "match_command"} => ip + 3 <= Len(table)
    /\ pc = "match" => ip + 2 <= Len(table) /\ ip >= 1
    /\ pc = "match_done" => ip >= 2
    /\ pc = "match_next" => t \in 1..3
    /\ pc = "boot" => ip = 0 /\ out = <<>> /\ t = 0
    /\ pc \in Labels \cup {"boot"} => res = "none" /\ font # "font"
    /\ pc = "returned" => font # "font"
    /\ res = "OK" => ip = Len(table)
    /\ font = "font" => ip = Len(table) /\ Len(out) = sizeof

\* Until it returns, the decompressor has written the start of the font and
\* nothing else, and it says OK exactly when the table is whole and the buffer
\* holds the font.  gfx_init_font keeps the buffer only when it then is full.
Damaged == text # <<>> /\ text[1] = -1     \* the table is that of no font
FontWhole ==
    /\ ~Damaged => out = SubSeq(text, 1, Len(out))
    /\ res # "none" /\ ~Damaged =>
           res = (CASE sizeof < Len(text) -> IF cut > 0 THEN res ELSE "OUTPUT_OVERRUN"
                    [] sizeof >= Len(text) /\ cut > 0 -> "INPUT_OVERRUN"
                    [] sizeof >= Len(text) /\ cut < 0 -> "INPUT_NOT_CONSUMED"
                    [] sizeof >= Len(text) /\ cut = 0 -> "OK")
    /\ pc = "end" =>
           font \in {"NULL"} \cup (IF Damaged \/ (out = text /\ sizeof = Len(text) /\ cut = 0)
                                  THEN {"font"} ELSE {})
    /\ pc = "end" /\ res = "OK" /\ ~Damaged => (font = "font" <=> sizeof = Len(text))
==============================================================================
