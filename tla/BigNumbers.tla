----------------------------- MODULE BigNumbers -----------------------------
(***************************************************************************)
(* The calls of BigIntegers as mini-gmp carries them out, on registers of  *)
(* limbs.  The numbers come from bytes, as rsa2048_raw_encrypt brings them *)
(* (rsa.c), and every function of Mpz and MpzBits may follow.  The call is *)
(* given: an action says what the function makes of the registers.  Each   *)
(* register has room for the limbs that it uses and no more, so a function *)
(* that needs more of it has to make it.                                   *)
(***************************************************************************)
EXTENDS MpzBits

VARIABLES
    regs,       \* the numbers
    call, ret   \* the last call, and what it returned

Reg == {"u", "v", "r", "s", "t"}
u == regs["u"]
v == regs["v"]

\* The integer of a number.
RECURSIVE Digits(_)
Digits(d) == IF d = <<>> THEN 0 ELSE d[1] + Base * Digits(Tail(d))
Value(z) == IF z.size < 0 THEN -Digits(z.d) ELSE Digits(z.d)

\* The bytes of x, most significant first.
RECURSIVE Bytes(_)
Bytes(x) == IF x = 0 THEN <<>> ELSE Append(Bytes(x \div 2^ByteBits), x % 2^ByteBits)

\* x in a register: mpz_import in one word, as the code calls it, and mpz_neg.
Loaded(z, x) ==
    LET b == Bytes(Abs(x))
        y == mpz_import(z, 1, 1, Len(b), 1, b)
    IN  IF x < 0 THEN mpz_neg(y, y) ELSE y

Init == regs = [i \in Reg |-> mpz_init] /\ call = [op |-> "none"] /\ ret = 0

Tight(z) == [z EXCEPT !.alloc = Len(z.d)]
k == call'.k
r == regs[call'.t]

\* A function that stores z in its result, one that only returns x, and one
\* that does both.
Both(op, z, x) == call'.op = op /\ regs' = [regs EXCEPT ![call'.t] = Tight(z)] /\ ret' = x
Gives(op, z) == Both(op, z, 0)
Answers(op, x) == call'.op = op /\ ret' = x /\ UNCHANGED regs

\* A function with the two results q and rest.
Pair(op, q, rest, x) ==
    /\ call'.op = op
    /\ regs' = [regs EXCEPT !["r"] = Tight(q), !["s"] = Tight(rest)] /\ ret' = x

Load == Gives("load", Loaded(r, k))

Sums ==
    \/ Gives("add", mpz_add(r, u, v))
    \/ Gives("sub", mpz_sub(r, u, v))
    \/ Gives("mul", mpz_mul(r, u, v))
    \/ Gives("addmul", mpz_addmul(r, u, v))
    \/ Gives("submul", mpz_submul(r, u, v))
    \/ Gives("neg", mpz_neg(r, u))
    \/ Gives("abs", mpz_abs(r, u))
    \/ Gives("com", mpz_com(r, u))

SumsWithLimb ==
    \/ Gives("add_ui", mpz_add_ui(r, u, k))
    \/ Gives("sub_ui", mpz_sub_ui(r, u, k))
    \/ Gives("ui_sub", mpz_ui_sub(r, k, u))
    \/ Gives("addmul_ui", mpz_addmul_ui(r, u, k))
    \/ Gives("submul_ui", mpz_submul_ui(r, u, k))
    \/ Gives("mul_si", mpz_mul_si(r, u, k))
    \/ Gives("mul_2exp", mpz_mul_2exp(r, u, k))

\* mpz_cdiv_qr, mpz_fdiv_qr, mpz_tdiv_qr and those that drop a result.
Divide ==
    LET e == mpz_div_qr(regs["r"], regs["s"], u, v, k) IN Pair("div_qr", e.q, e.r, e.rest)

Modulo ==
    \/ Gives("mod", mpz_mod(r, u, v))
    \/ Answers("congruent", mpz_congruent_p(u, v, mpz_init_set_ui(k)))

\* The functions with a divisor of one limb or a power of two.
DivideShort ==
    \/ LET e == mpz_div_qr_ui(regs["r"], regs["s"], u, k.d, k.mode)
       IN  Pair("div_qr_ui", e.q, e.r, e.ret)
    \/ Gives("div_q_2exp", mpz_div_q_2exp(r, u, k.n, k.mode))
    \/ Gives("div_r_2exp", mpz_div_r_2exp(r, u, k.n, k.mode))

Divisors ==
    \/ Gives("gcd", mpz_gcd(r, u, v))
    \/ Gives("lcm", mpz_lcm(r, u, v))
    \/ LET e == mpz_invert(r, u, v) IN Both("invert", e.r, e.ok)
    \/ Gives("lcm_ui", mpz_lcm_ui(r, u, k))
    \/ LET e == mpz_gcd_ui(r, u, k) IN Both("gcd_ui", e.g, e.ret)

\* The factors are as the manual of GMP promises: g = u s + v t, with one of
\* them at most half of the other operand's part that g leaves.
BezoutFactors(e) ==
    LET g == Value(e.g)
        s == Value(e.s)
        t == Value(e.t)
    IN  /\ Value(u) * s + Value(v) * t = g
        /\ 2 * g * Abs(s) <= Abs(Value(v)) \/ 2 * g * Abs(t) <= Abs(Value(u))
ExtendedGcd ==
    LET e == mpz_gcdext(regs["r"], regs["s"], regs["t"], u, v)
    IN  Both("gcdext", e.g, BezoutFactors(e))

\* Powers modulo v with exponents of a limb, as the code calls it, of two limbs
\* and below zero.
PowersModulo ==
    \/ Gives("powm_ui", mpz_powm_ui(r, u, k, v))
    \/ Gives("powm", mpz_powm(r, u, Loaded(mpz_init, k), v))

Powers ==
    \/ Gives("pow_ui", mpz_pow_ui(u, k))
    \/ LET e == mpz_rootrem(regs["r"], regs["s"], u, k) IN Pair("rootrem", e.x, e.r, 0)
    \/ Answers("square", mpz_perfect_square_p(u))
    \/ Gives("mfac", mpz_mfac_uiui(r, k.n, k.m))
    \/ Gives("bin", mpz_bin_uiui(r, k.n, k.m))

Logic ==
    \/ Gives("and", mpz_and(r, u, v))
    \/ Gives("ior", mpz_ior(r, u, v))
    \/ Gives("xor", mpz_xor(r, u, v))

SingleBits ==
    \/ Gives("setbit", mpz_setbit(u, k))
    \/ Gives("clrbit", mpz_clrbit(u, k))
    \/ Gives("combit", mpz_combit(u, k))
    \/ Answers("tstbit", mpz_tstbit(u, k))
    \/ Answers("scan1", mpz_scan1(u, k))
    \/ Answers("scan0", mpz_scan0(u, k))

BitCounts ==
    \/ Answers("popcount", mpz_popcount(u))
    \/ Answers("hamdist", mpz_hamdist(u, v))

Tests ==
    \/ Answers("cmp", mpz_cmp(u, v))
    \/ Answers("cmpabs", mpz_cmpabs(u, v))
    \/ Answers("cmp_si", mpz_cmp_si(u, k))
    \/ Answers("limb", mpz_getlimbn(u, k))
    \/ Answers("get_si", mpz_get_si(u))
    \/ Answers("fits", [long |-> mpz_fits_slong_p(u), ulong |-> mpz_fits_ulong_p(u),
                        short |-> mpz_fits_sshort_p(u), ushort |-> mpz_fits_ushort_p(u)])

Conversions ==
    \/ Answers("get_str", mpz_get_str(k, u))
    \/ Answers("sizeinbase", mpz_sizeinbase(u, k))
    \/ LET e == mpz_set_str(u, k.sp, k.base) IN Both("set_str", e.r, e.ret)

\* Into a buffer that is longer than the number needs.
Export == Answers("export", mpz_export(Zeros(12), k.order, k.size, k.endian, u))

Next ==
    \/ Load \/ Sums \/ SumsWithLimb \/ Divide \/ Modulo \/ DivideShort
    \/ Divisors \/ ExtendedGcd \/ PowersModulo \/ Powers \/ Logic \/ SingleBits
    \/ BitCounts \/ Tests \/ Conversions \/ Export

Spec == Init /\ [][Next]_<<regs, call, ret>>
==============================================================================
