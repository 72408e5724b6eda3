---------------------------- MODULE MCLibraries ----------------------------
(***************************************************************************)
(* The calls of mini-gmp, on integers and on limbs of four bits, and the   *)
(* unpacking of fonts.  They share nothing, so a behaviour has one of them. *)
(***************************************************************************)
EXTENDS BigIntegers, Limbs, LzoCompressor

\* A word is a limb, and a short is half of it.
ASSUME WordsAreLimbs == WordBase = Base /\ ShortBase = HalfBase /\ ByteBase = 2^ByteBits

Init == BigInit /\ LzoInit
Next ==
    \/ pc = "boot" /\ BigNext /\ UNCHANGED lzoVars
    \/ calls = 0 /\ LzoNext /\ UNCHANGED bigVars
Spec == Init /\ [][Next]_<<bigVars, lzoVars>>

\* The limbs that stand for an integer, with no room for more.
Register(x) ==
    LET digits == IF x = 0 THEN <<>> ELSE DigitsOf(Magnitude(x), WordBase)
        n == Len(digits)
    IN  [alloc |-> n, size |-> SignOf(x) * n, d |-> [i \in 1..n |-> digits[n + 1 - i]]]

BigNum == INSTANCE BigNumbers WITH regs <- [i \in Reg |-> Register(val[i])]

\* Each call of mini-gmp does to the limbs what it says of the integers: its
\* results are the limbs of the sum, the product, the rounded quotient, the
\* greatest common divisor, the power and so on, with no zero limb on top, in
\* room that was made for them, whichever register takes the result.
ArithmeticSpec == BigNum!Spec

MCFirst == {0, 1, -1, 7, 16, 255, -256, 1729, 2730, 4095, -4096, 32768, 65520, 65535, -54321}
MCSecond == {0, 1, -5, 15, 16, 133, -240, 255, 2049, 2303, -4095, 3600}
MCTexts ==
    [neg : BOOLEAN, prefix : {"", "0", "0x", "0b"},
     digits : {<<>>, <<0>>, <<0, 1, 1>>, <<0, 7, 2, 9>>, <<0, 1, 2, 2, 1, 2, 0, 1>>,
               <<0, 15, 15, 0, 1>>, <<0, 0, 0>>}]
MCLongArgs == {-8, -1, 0, 3, 7}

\* n bytes without much in common, and fonts with matches near, far and farthest.
Noise(n) == [i \in 1..n |-> (i * i * 7 + i * 13) % 251]
Far(n) == Noise(40) \o Repeat(7, n) \o Noise(44)
MCFonts == {
    <<9>>, Noise(30), Repeat(5, 60), Repeat(5, 400), Noise(300) \o Noise(300),
    Noise(24) \o Noise(8) \o Noise(9) \o <<1, 2>> \o Noise(24) \o <<3>> \o Noise(40),
    Noise(10) \o Repeat(0, 30) \o Noise(14) \o Noise(50),
    Far(2100), Far(16500)}
MCEncoded == {
    \* A match of two bytes after a match and a literal.
    [text |-> <<65, 65, 65, 65, 66, 66, 66>>,
     table |-> <<18, 65, 65, 0, 66, 0, 0, 17, 0, 0>>],
    \* A match of three bytes far back after four literals.
    [text |-> Repeat(65, 2100) \o <<66, 67, 68, 69, 65, 65, 65>>,
     table |-> <<18, 65, 32>> \o Repeat(0, 8) \o <<26, 0, 0, 1, 66, 67, 68, 69, 0, 0, 17, 0, 0>>],
    \* The table of no font.
    [text |-> Repeat(-1, 9), table |-> <<18, 65, 33, 200, 0, 17, 0, 0>>]}
MCBlocks == {256, 49152}
MCTables == MCEncoded \cup {[text |-> s, table |-> lzo1x_1_compress(s, block)] :
                              s \in MCFonts, block \in MCBlocks}
MCMargins == {-1, 0, 2}
MCCuts == {-1, 0, 1, 2, 3, 4, 9}
MCDINDEX(q) == (q[1] + 3 * q[2] + q[3] + 5 * q[4]) % 32
============================================================================
