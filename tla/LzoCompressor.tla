---------------------------- MODULE LzoCompressor ----------------------------
(***************************************************************************)
(* The LZO1X compressor of minilzo.c, which made the table in font_bin.h   *)
(* of the font; the build leaves it out.  The hash is any function of the  *)
(* next four bytes.                                                        *)
(***************************************************************************)
EXTENDS Lzo

CONSTANTS
    DICT_SIZE,      \* 1 << D_BITS
    DINDEX(_)       \* the hash, into 0..(DICT_SIZE - 1)

M2_MAX_LEN == 8
M3_MAX_LEN == 33
M4_MAX_LEN == 9
M3_MAX_OFFSET == 16384
M3_MARKER == 32
M4_MARKER == 16

\* A length that does not fit in its field: a zero byte for every 255.
LongLength(n) == Repeat(0, (n - 1) \div 255) \o <<((n - 1) % 255) + 1>>

\* t literals from position ii of s.  A short run goes into the low bits of
\* the last match.
LiteralRun(op, s, ii, n) ==
    LET bytes == SubSeq(s, ii + 1, ii + n)
    IN  CASE n = 0 -> op
          [] n \in 1..3 -> [op EXCEPT ![Len(op) - 1] = @ + n] \o bytes
          [] n \in 4..18 -> Append(op, n - 3) \o bytes
          [] n > 18 -> Append(op, 0) \o LongLength(n - 18) \o bytes

\* A match of m_len bytes m_off before.
EncodeMatch(m_len, m_off) ==
    LET Where(o) == <<(o * 4) % 256, o \div 64>>
        near == m_off - 1
        far == m_off - 16384
    IN  CASE m_off <= M2_MAX_OFFSET /\ m_len <= M2_MAX_LEN ->
               <<(m_len - 1) * 32 + (near % 8) * 4, near \div 8>>
          [] m_off <= M3_MAX_OFFSET /\ (m_off > M2_MAX_OFFSET \/ m_len > M2_MAX_LEN) ->
               (IF m_len <= M3_MAX_LEN THEN <<M3_MARKER + m_len - 2>>
                ELSE <<M3_MARKER>> \o LongLength(m_len - M3_MAX_LEN)) \o Where(near)
          [] m_off > M3_MAX_OFFSET ->
               LET marker == M4_MARKER + (far \div 16384) * 8
               IN  (IF m_len <= M4_MAX_LEN THEN <<marker + m_len - 2>>
                    ELSE <<marker>> \o LongLength(m_len - M4_MAX_LEN)) \o Where(far % 16384)

Quad(s, i) == SubSeq(s, i + 1, i + 4)

\* Bytes are compared from the fifth on; the end is looked at every 8 bytes.
MatchLength(s, p, m, ip_end) ==
    Minimum({n \in 4..(ip_end + 12 - p) :
                \/ s[p + n + 1] # s[m + n + 1]
                \/ n >= 12 /\ (n - 4) % 8 = 0 /\ p + n >= ip_end})

\* The positions from c.ip on, until none is left in the block at c.in.
RECURSIVE CompressLoop(_, _, _)
CompressLoop(s, c, ip_end) ==
    LET dindex == DINDEX(Quad(s, c.ip))
        m_pos == c.in + c.dict[dindex]
        d == [c EXCEPT !.dict[dindex] = c.ip - c.in]
        m_len == MatchLength(s, c.ip, m_pos, ip_end)
        ii == c.ii - c.ti
        end == c.ip + m_len
    IN  IF c.ip >= ip_end THEN c
        ELSE IF Quad(s, m_pos) # Quad(s, c.ip)
        THEN CompressLoop(s, [d EXCEPT !.ip = @ + 1 + (@ - c.ii) \div 32], ip_end)
        ELSE CompressLoop(s, [d EXCEPT !.ip = end, !.ii = end, !.ti = 0,
                                  !.op = LiteralRun(@, s, ii, c.ip - ii)
                                             \o EncodeMatch(m_len, c.ip - m_pos)], ip_end)

\* One block of ll bytes at position in, with ti bytes left over from the
\* blocks before: the output, and how many bytes are left over now.
do_compress(s, op, in, ll, ti) ==
    LET first == in + (IF ti < 4 THEN 4 - ti ELSE 0)
        start == [in |-> in, ip |-> first + 1 + (first - in) \div 32, ii |-> in, ti |-> ti,
                  op |-> op, dict |-> [i \in 0..(DICT_SIZE - 1) |-> 0]]
        c == CompressLoop(s, start, in + ll - 20)
    IN  [op |-> c.op, rest |-> in + ll - (c.ii - c.ti)]

\* Blocks while they are worth it, the rest as literals, and the end mark.
RECURSIVE CompressBlocks(_, _, _, _, _)
CompressBlocks(s, op, n, left, block) ==
    LET l == Len(s) - n
        ll == IF l < block THEN l ELSE block
        c == do_compress(s, op, n, ll, left)
        rest == left + l
        last == IF op = <<>> /\ rest \in 1..238
                THEN <<17 + rest>> \o s
                ELSE LiteralRun(op, s, Len(s) - rest, rest)
    IN  IF l > 20 /\ left + ll >= 32
        THEN CompressBlocks(s, c.op, n + ll, c.rest, block)
        ELSE last \o <<M4_MARKER + 1, 0, 0>>

lzo1x_1_compress(s, block) == CompressBlocks(s, <<>>, 0, 0, block)
==============================================================================
