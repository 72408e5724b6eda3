----------------------------- MODULE BigIntegers -----------------------------
(***************************************************************************)
(* What the calls of mini-gmp promise: integers without limbs, sizes or    *)
(* allocation.  The first two calls load the operands u and v, and the     *)
(* following ones are any of the functions.  Their results go to r, s and  *)
(* t, or to u itself: an operand may be the result.  A call is recorded    *)
(* with its operation, its result t and its small argument k; what it      *)
(* answers, when it does, is ret.                                          *)
(***************************************************************************)
EXTENDS Integers, Sequences

CONSTANTS
    WordBase,       \* unsigned long wraps here
    ShortBase,      \* unsigned short wraps here
    ByteBase,       \* and a byte here
    MaxCalls,       \* bound on the calls, the two loads included
    First, Second,  \* integers to load into u and into v
    LimbArgs,       \* arguments of type unsigned long
    LongArgs,       \* arguments of type long
    BitArgs,        \* bit numbers and shift counts
    Bases, Texts    \* bases, and strings for mpz_set_str

VARIABLES
    val,        \* the numbers
    call, ret,  \* the last call, and what it returned
    calls       \* how many there were

bigVars == <<val, call, ret, calls>>

Reg == {"u", "v", "r", "s", "t"}
Modes == {"FLOOR", "CEIL", "TRUNC"}

Magnitude(x) == IF x < 0 THEN -x ELSE x
SignOf(x) == IF x > 0 THEN 1 ELSE IF x < 0 THEN -1 ELSE 0

FloorDiv(n, d) == IF d > 0 THEN n \div d ELSE (-n) \div (-d)
Quotient(n, d, mode) ==
    CASE mode = "FLOOR" -> FloorDiv(n, d)
      [] mode = "CEIL" -> -FloorDiv(-n, d)
      [] mode = "TRUNC" -> SignOf(n) * SignOf(d) * (Magnitude(n) \div Magnitude(d))
Remainder(n, d, mode) == n - d * Quotient(n, d, mode)

RECURSIVE GcdOf(_, _)
GcdOf(a, b) == IF b = 0 THEN a ELSE GcdOf(b, a % b)
Gcd(a, b) == GcdOf(Magnitude(a), Magnitude(b))
Lcm(a, b) == IF a = 0 \/ b = 0 THEN 0 ELSE Magnitude((a \div Gcd(a, b)) * b)

RECURSIVE PowerMod(_, _, _)
PowerMod(b, e, m) ==
    IF e = 0 THEN 1 % m
    ELSE LET h == PowerMod(b, e \div 2, m)
         IN  (((h * h) % m) * (IF e % 2 = 1 THEN b % m ELSE 1)) % m

\* The inverse of x modulo m, and the integer root.
Inverse(x, m) == CHOOSE y \in 0..(m - 1) : (y * (x % m)) % m = 1
Root(x, n) == IF n = 1 THEN x ELSE CHOOSE y \in 0..x : y^n <= x /\ (y + 1)^n > x

\* n (n - m) (n - 2m) ...
RECURSIVE Mfac(_, _)
Mfac(n, m) == IF n <= m THEN (IF n = 0 THEN 1 ELSE n) ELSE n * Mfac(n - m, m)

\* Bit i of the endless two's complement of x; Width bits tell all that is used.
Width == 24
BitOf(x, i) == (x \div 2^i) % 2
RECURSIVE FromBits(_, _, _)
FromBits(x, i, on) ==
    IF i = Width THEN (IF on[Width] THEN -(2^Width) ELSE 0)
    ELSE (IF on[i] THEN 2^i ELSE 0) + FromBits(x, i + 1, on)
Bitwise2(x, y, Op(_, _)) ==
    FromBits(x, 0, [i \in 0..Width |-> Op(BitOf(x, i) = 1, BitOf(y, i) = 1)])
OnBits(x) == {i \in 0..(Width - 1) : BitOf(x, i) = 1}
LowestOf(S) == IF S = {} THEN -1 ELSE CHOOSE i \in S : \A j \in S : i <= j
RECURSIVE Size(_)
Size(S) == IF S = {} THEN 0 ELSE 1 + Size(S \ {LowestOf(S)})

RECURSIVE DigitsOf(_, _)
DigitsOf(x, base) ==
    IF x < base THEN <<x>> ELSE Append(DigitsOf(x \div base, base), x % base)
RECURSIVE NumberOf(_, _)
NumberOf(s, base) ==
    IF s = <<>> THEN 0 ELSE NumberOf(SubSeq(s, 1, Len(s) - 1), base) * base + s[Len(s)]

------------------------------------------------------------------------------
u == val["u"]
v == val["v"]

Called(op, t, k) == call' = [op |-> op, t |-> t, k |-> k] /\ calls' = calls + 1

\* A function that stores x in t, one that only returns x, and one that does both.
Gives(op, t, k, x) == Called(op, t, k) /\ val' = [val EXCEPT ![t] = x] /\ ret' = 0
Answers(op, k, x) == Called(op, "r", k) /\ ret' = x /\ UNCHANGED val
Both(op, t, k, x, y) == Called(op, t, k) /\ val' = [val EXCEPT ![t] = x] /\ ret' = y

\* A function with the two results x and y.
Pair(op, k, x, y, z) ==
    Called(op, "r", k) /\ val' = [val EXCEPT !["r"] = x, !["s"] = y] /\ ret' = z

Ready == calls >= 2 /\ calls < MaxCalls
Alone == Ready /\ v = 0     \* a function of u only

Load ==
    /\ calls < 2
    /\ \E x \in IF calls = 0 THEN First ELSE Second :
           Gives("load", IF calls = 0 THEN "u" ELSE "v", x, x)

Sums ==
    Ready /\ \E t \in {"r", "u"} :
        \/ Gives("add", t, 0, u + v)
        \/ Gives("sub", t, 0, u - v)
        \/ Gives("mul", t, 0, u * v)
        \/ Gives("addmul", t, 0, val[t] + u * v)
        \/ Gives("submul", t, 0, val[t] - u * v)
        \/ Gives("neg", t, 0, -u)
        \/ Gives("abs", t, 0, Magnitude(u))
        \/ Gives("com", t, 0, -u - 1)

SumsWithLimb ==
    Alone /\ \E t \in {"r", "u"} :
        \/ \E k \in LimbArgs : \/ Gives("add_ui", t, k, u + k)
                               \/ Gives("sub_ui", t, k, u - k)
                               \/ Gives("ui_sub", t, k, k - u)
                               \/ Gives("addmul_ui", t, k, val[t] + u * k)
                               \/ Gives("submul_ui", t, k, val[t] - u * k)
        \/ \E k \in LongArgs : Gives("mul_si", t, k, u * k)
        \/ \E k \in BitArgs : Gives("mul_2exp", t, k, u * 2^k)

Divide ==
    /\ Ready /\ v # 0
    /\ \E mode \in Modes :
           LET rest == Remainder(u, v, mode)
           IN  Pair("div_qr", mode, Quotient(u, v, mode), rest, SignOf(Magnitude(rest)))

Modulo ==
    Ready /\ \/ v # 0 /\ \E t \in {"r", "u"} : Gives("mod", t, 0, u % Magnitude(v))
             \/ \E k \in LimbArgs :
                    Answers("congruent", k, IF k = 0 THEN u = v ELSE (u - v) % k = 0)

DivideShort ==
    Alone /\ \E mode \in Modes :
        \/ \E d \in LimbArgs \ {0} :
               LET rest == Remainder(u, d, mode)
               IN  Pair("div_qr_ui", [d |-> d, mode |-> mode], Quotient(u, d, mode), rest,
                        Magnitude(rest))
        \/ \E n \in BitArgs, t \in {"r", "u"} :
               LET k == [n |-> n, mode |-> mode] IN
               \/ Gives("div_q_2exp", t, k, Quotient(u, 2^n, mode))
               \/ Gives("div_r_2exp", t, k, Remainder(u, 2^n, mode))

Divisors ==
    \/ Ready /\ \E t \in {"r", "u"} :
           \/ Gives("gcd", t, 0, Gcd(u, v))
           \/ Gives("lcm", t, 0, Lcm(u, v))
           \/ LET ok == Gcd(u, v) = 1 /\ Magnitude(v) > 1 /\ u # 0
              IN  Both("invert", t, 0, IF ok THEN Inverse(u, Magnitude(v)) ELSE val[t], ok)
    \/ Alone /\ \E t \in {"r", "u"}, k \in LimbArgs :
           \/ Gives("lcm_ui", t, k, Lcm(u, k))
           \/ Both("gcd_ui", t, k, Gcd(u, k), IF k = 0 THEN 0 ELSE Gcd(u, k))

\* s and t are not unique, so the caller keeps g and whether they are as promised.
ExtendedGcd == Ready /\ Both("gcdext", "r", 0, Gcd(u, v), TRUE)

PowersModulo ==
    /\ Ready /\ v # 0
    /\ LET m == Magnitude(v) IN
       \/ \E k \in LimbArgs : Gives("powm_ui", "r", k, PowerMod(u, k, m))
       \/ \E k \in LimbArgs :
              LET e == k * WordBase + 1 IN Gives("powm", "u", e, PowerMod(u, e, m))
       \/ \E k \in LimbArgs \ {0} :
              /\ Gcd(u, v) = 1 /\ m > 1
              /\ Gives("powm", "r", -k, PowerMod(Inverse(u, m), k, m))

Powers ==
    Alone /\
        \/ Magnitude(u) < WordBase^2 /\ \E k \in 0..3 : Gives("pow_ui", "r", k, IF k = 0 THEN 1 ELSE u^k)
        \/ \E k \in 1..3 :
               LET x == SignOf(u) * Root(Magnitude(u), k)
               IN  (k = 2 => u >= 0) /\ Pair("rootrem", k, x, u - x^k, 0)
        \/ Answers("square", 0, u >= 0 /\ Root(Magnitude(u), 2)^2 = u)
        \/ \E n \in 0..7, m \in 0..3 :
               LET k == [n |-> n, m |-> m] IN
               \/ m > 0 /\ Gives("mfac", "r", k, Mfac(n, m))
               \/ Gives("bin", "r", k, IF m > n THEN 0
                                       ELSE Mfac(n, 1) \div (Mfac(m, 1) * Mfac(n - m, 1)))

Logic ==
    Ready /\ \E t \in {"r", "u"} :
        \/ Gives("and", t, 0, Bitwise2(u, v, LAMBDA x, y : x /\ y))
        \/ Gives("ior", t, 0, Bitwise2(u, v, LAMBDA x, y : x \/ y))
        \/ Gives("xor", t, 0, Bitwise2(u, v, LAMBDA x, y : x # y))

SingleBits ==
    Alone /\ \E k \in BitArgs :
        LET on == BitOf(u, k) = 1 IN
        \/ Gives("setbit", "u", k, IF on THEN u ELSE u + 2^k)
        \/ Gives("clrbit", "u", k, IF on THEN u - 2^k ELSE u)
        \/ Gives("combit", "u", k, IF on THEN u - 2^k ELSE u + 2^k)
        \/ Answers("tstbit", k, BitOf(u, k))
        \/ Answers("scan1", k, LowestOf({i \in OnBits(u) : i >= k}))
        \/ Answers("scan0", k, LowestOf({i \in k..(Width - 1) : BitOf(u, i) = 0}))

BitCounts ==
    Ready /\
        \/ Answers("popcount", 0, IF u < 0 THEN -1 ELSE Size(OnBits(u)))
        \/ Answers("hamdist", 0, IF (u < 0) # (v < 0) THEN -1
                                 ELSE Size({i \in 0..(Width - 1) : BitOf(u, i) # BitOf(v, i)}))

Tests ==
    Ready /\
        \/ Answers("cmp", 0, SignOf(u - v))
        \/ Answers("cmpabs", 0, SignOf(Magnitude(u) - Magnitude(v)))
        \/ \E k \in LongArgs : Answers("cmp_si", k, SignOf(u - k))
        \/ \E k \in 0..4 : Answers("limb", k, (Magnitude(u) \div WordBase^k) % WordBase)
        \/ Answers("fits", 0, [long |-> -(WordBase \div 2) <= u /\ u < WordBase \div 2,
                               ulong |-> 0 <= u /\ u < WordBase,
                               short |-> -(ShortBase \div 2) <= u /\ u < ShortBase \div 2,
                               ushort |-> 0 <= u /\ u < ShortBase])
        \* Where a long can hold the number.
        \/ -(WordBase \div 2) <= u /\ u < WordBase \div 2 /\ Answers("get_si", 0, u)

\* The base that mpz_set_str takes when it is given 0.
BaseOf(prefix) ==
    CASE prefix = "0x" -> 16 [] prefix = "0b" -> 2 [] prefix = "0" -> 8 [] prefix = "" -> 10

Conversions ==
    Alone /\
        \/ \E k \in Bases :
               LET digits == DigitsOf(Magnitude(u), k) IN
               \/ Answers("get_str", k, [neg |-> u < 0, digits |-> digits, fits |-> TRUE])
               \/ Answers("sizeinbase", k, Len(digits))
        \/ \E base \in Bases \cup {0}, sp \in Texts :
               LET real == IF base = 0 THEN BaseOf(sp.prefix) ELSE base
                   bad == sp.digits = <<>> \/ \E i \in DOMAIN sp.digits : sp.digits[i] >= real
                   x == NumberOf(sp.digits, real)
               IN  /\ base # 0 => sp.prefix \in {"", "0"}
                   /\ IF bad THEN Both("set_str", "u", [sp |-> sp, base |-> base], 0, -1)
                      ELSE Both("set_str", "u", [sp |-> sp, base |-> base],
                                IF sp.neg THEN -x ELSE x, 0)

\* Words of some bytes, the most significant word first if order is 1 and the
\* most significant byte of each first if endian is 1; Room bytes are there.
Room == 12
Exported(order, size, endian) ==
    LET bytes == IF u = 0 THEN <<>> ELSE DigitsOf(Magnitude(u), ByteBase)
        count == (Len(bytes) + size - 1) \div size
        \* byte i, counted from the least significant one
        byte(i) == IF i < Len(bytes) THEN bytes[Len(bytes) - i] ELSE 0
        turned(x, n, way) == IF way = 1 THEN n - 1 - x ELSE x
    IN  [count |-> count,
         buf |-> [j \in 1..Room |->
                    IF j > count * size THEN 0
                    ELSE byte(size * turned((j - 1) \div size, count, order)
                              + turned((j - 1) % size, size, endian))]]

Export ==
    Alone /\ \E size \in 1..3, order, endian \in {-1, 1} :
        Answers("export", [size |-> size, order |-> order, endian |-> endian],
                Exported(order, size, endian))

BigInit == val = [i \in Reg |-> 0] /\ call = [op |-> "none"] /\ ret = 0 /\ calls = 0

BigNext ==
    \/ Load \/ Sums \/ SumsWithLimb \/ Divide \/ Modulo \/ DivideShort
    \/ Divisors \/ ExtendedGcd \/ PowersModulo \/ Powers \/ Logic \/ SingleBits
    \/ BitCounts \/ Tests \/ Conversions \/ Export
==============================================================================
