-------------------------------- MODULE Limbs --------------------------------
(***************************************************************************)
(* The limb level of mini-gmp (mini-gmp.c, the mpn functions), which the   *)
(* RSA encryption of the submission is built on.  A vector of limbs is a   *)
(* sequence, least significant limb first, so limb i of the C array is     *)
(* element i + 1.  A function that writes a vector and returns a carry is  *)
(* an operator that yields [p |-> vector, cy |-> carry].  Limbs wrap at    *)
(* 2^LimbBits as the C types do: a carry that the code loses is lost here. *)
(* Only TLC evaluates this module.                                         *)
(***************************************************************************)
EXTENDS LimbWords, Sequences, Bitwise

Largest(S) == CHOOSE x \in S : \A y \in S : y <= x
Least(S) == CHOOSE x \in S : \A y \in S : x <= y
Drop(s, n) == SubSeq(s, n + 1, Len(s))
Take(s, n) == SubSeq(s, 1, n)
Zeros(n) == [i \in 1..n |-> 0]

\* A pass over limbs 1..n from the least significant one, with a carry.
Ripple(n, c0, Step(_, _)) ==
    LET s[i \in 0..n] == IF i = 0 THEN <<0, c0>> ELSE Step(i, s[i - 1][2])
    IN  [p |-> [i \in 1..n |-> s[i][1]], cy |-> s[n][2]]

------------------------------------------------------------------------------
(* Leading and trailing zeros. *)

gmp_clz(x) == Least({c \in 0..(LimbBits - 1) : x * 2^c >= HighBit})
gmp_ctz(x) == Largest({c \in 0..(LimbBits - 1) : x % 2^c = 0})

------------------------------------------------------------------------------
(* Comparison, addition, multiplication and shifts of vectors. *)

mpn_cmp(ap, bp) ==
    IF ap = bp THEN 0
    ELSE LET i == Largest({j \in DOMAIN ap : ap[j] # bp[j]})
         IN  IF ap[i] > bp[i] THEN 1 ELSE -1

mpn_cmp4(ap, bp) ==
    IF Len(ap) # Len(bp) THEN (IF Len(ap) < Len(bp) THEN -1 ELSE 1)
                         ELSE mpn_cmp(ap, bp)

mpn_normalized_size(xp) == Largest({0} \cup {i \in DOMAIN xp : xp[i] # 0})
mpn_zero_p(xp) == mpn_normalized_size(xp) = 0

mpn_add_1(ap, b) ==
    Ripple(Len(ap), b, LAMBDA i, c : LET r == Wrap(ap[i] + c) IN <<r, Bit(r < c)>>)

mpn_add_n(ap, bp) ==
    Ripple(Len(bp), 0, LAMBDA i, c :
        LET x == Wrap(ap[i] + c)
            r == Wrap(x + bp[i])
        IN  <<r, Bit(x < c) + Bit(r < bp[i])>>)

mpn_add(ap, bp) ==
    LET low == mpn_add_n(Take(ap, Len(bp)), bp)
        high == mpn_add_1(Drop(ap, Len(bp)), low.cy)
    IN  IF Len(ap) > Len(bp) THEN [p |-> low.p \o high.p, cy |-> high.cy] ELSE low

mpn_sub_1(ap, b) ==
    Ripple(Len(ap), b, LAMBDA i, c : <<Wrap(ap[i] - c), Bit(ap[i] < c)>>)

mpn_sub_n(ap, bp) ==
    Ripple(Len(bp), 0, LAMBDA i, c :
        LET b == Wrap(bp[i] + c)
        IN  <<Wrap(ap[i] - b), Bit(b < c) + Bit(ap[i] < b)>>)

mpn_sub(ap, bp) ==
    LET low == mpn_sub_n(Take(ap, Len(bp)), bp)
        high == mpn_sub_1(Drop(ap, Len(bp)), low.cy)
    IN  IF Len(ap) > Len(bp) THEN [p |-> low.p \o high.p, cy |-> high.cy] ELSE low

\* One limb of a product with the carry of the limb below: <<low, carry>>.
MulStep(u, v, c) ==
    LET m == gmp_umul_ppmm(u, v)
        l == Wrap(m[2] + c)
    IN  <<l, Wrap(Bit(l < c) + m[1])>>

mpn_mul_1(up, vl) == Ripple(Len(up), 0, LAMBDA i, c : MulStep(up[i], vl, c))

mpn_addmul_1(rp, up, vl) ==
    Ripple(Len(up), 0, LAMBDA i, c :
        LET m == MulStep(up[i], vl, c)
            l == Wrap(rp[i] + m[1])
        IN  <<l, Wrap(m[2] + Bit(l < rp[i]))>>)

mpn_submul_1(rp, up, vl) ==
    Ripple(Len(up), 0, LAMBDA i, c :
        LET m == MulStep(up[i], vl, c)
            l == Wrap(rp[i] - m[1])
        IN  <<l, Wrap(m[2] + Bit(l > rp[i]))>>)

\* The first row is stored, the following ones are accumulated one limb up.
mpn_mul(up, vp) ==
    LET row[j \in 1..Len(vp)] ==
            IF j = 1
            THEN LET m == mpn_mul_1(up, vp[1]) IN Append(m.p, m.cy)
            ELSE LET r == row[j - 1]
                     m == mpn_addmul_1(Drop(r, j - 1), up, vp[j])
                 IN  Take(r, j - 1) \o Append(m.p, m.cy)
    IN  row[Len(vp)]

mpn_lshift(up, cnt) ==
    LET low(i) == IF i = 1 THEN 0 ELSE up[i - 1] \div 2^(LimbBits - cnt)
    IN  [p |-> [i \in DOMAIN up |-> (up[i] % 2^(LimbBits - cnt)) * 2^cnt + low(i)],
         cy |-> up[Len(up)] \div 2^(LimbBits - cnt)]

mpn_rshift(up, cnt) ==
    LET high(i) == IF i = Len(up) THEN 0 ELSE (up[i + 1] % 2^cnt) * 2^(LimbBits - cnt)
    IN  [p |-> [i \in DOMAIN up |-> up[i] \div 2^cnt + high(i)],
         cy |-> (up[1] % 2^cnt) * 2^(LimbBits - cnt)]

\* A shift by less than a limb; none at all when the count is 0.
LeftBy(up, cnt) == IF cnt = 0 THEN [p |-> up, cy |-> 0] ELSE mpn_lshift(up, cnt)

NoBit == -1     \* ~(mp_bitcnt_t) 0

\* The first bit of limb (number i), or of the limbs after it xor ux, that is set.
RECURSIVE mpn_common_scan(_, _, _, _, _)
mpn_common_scan(limb, i, up, un, ux) ==
    IF limb # 0 THEN i * LimbBits + gmp_ctz(limb)
    ELSE IF i + 1 = un THEN (IF ux = 0 THEN NoBit ELSE un * LimbBits)
    ELSE mpn_common_scan(ux ^^ up[i + 2], i + 1, up, un, ux)

\* The limb with the bits below a position masked out.
FromBit(limb, bit) == (limb \div 2^(bit % LimbBits)) * 2^(bit % LimbBits)

mpn_scan1(up, bit) ==
    LET i == bit \div LimbBits
    IN  mpn_common_scan(FromBit(up[i + 1], bit), i, up, i, 0)

mpn_com(up) == [i \in DOMAIN up |-> LimbMax - up[i]]

mpn_neg(up) ==
    LET z == Least({i \in DOMAIN up : up[i] # 0})
    IN  IF mpn_zero_p(up) THEN [p |-> up, cy |-> 0]
        ELSE [p |-> Zeros(z - 1) \o <<Base - up[z]>> \o mpn_com(Drop(up, z)), cy |-> 1]

------------------------------------------------------------------------------
(* Division of vectors by multiplication with an inverse. *)

\* struct gmp_div_inverse
mpn_div_qr_1_invert(d) ==
    LET shift == gmp_clz(d)
        d1 == d * 2^shift
    IN  [shift |-> shift, d1 |-> d1, d0 |-> 0, di |-> mpn_invert_3by2(d1, 0)]

mpn_div_qr_2_invert(e1, e0) ==
    LET shift == gmp_clz(e1)
        d == LeftBy(<<e0, e1>>, shift).p
    IN  [shift |-> shift, d1 |-> d[2], d0 |-> d[1], di |-> mpn_invert_3by2(d[2], d[1])]

mpn_div_qr_invert(dp) ==
    LET dn == Len(dp)
        shift == gmp_clz(dp[dn])
        d == LeftBy(Drop(dp, dn - 3), shift).p
    IN  CASE dn = 1 -> mpn_div_qr_1_invert(dp[1])
          [] dn = 2 -> mpn_div_qr_2_invert(dp[2], dp[1])
          [] dn > 2 -> [shift |-> shift, d1 |-> d[3], d0 |-> d[2],
                        di |-> mpn_invert_3by2(d[3], d[2])]

\* Vector by limb, from the top limb: [q |-> quotient, r |-> remainder].
mpn_div_qr_1_preinv(np, inv) ==
    LET nn == Len(np)
        n == LeftBy(np, inv.shift)
        s[i \in 1..(nn + 1)] ==
            IF i = nn + 1 THEN <<0, n.cy>>
            ELSE gmp_udiv_qrnnd_preinv(s[i + 1][2], n.p[i], inv.d1, inv.di)
    IN  [q |-> [i \in 1..nn |-> s[i][1]], r |-> <<s[1][2] \div 2^inv.shift>>]

mpn_div_qr_2_preinv(np, inv) ==
    LET nn == Len(np)
        n == LeftBy(np, inv.shift)
        s[i \in 1..(nn - 1)] ==
            LET up == IF i = nn - 1 THEN <<0, n.cy, n.p[nn]>> ELSE s[i + 1]
            IN  gmp_udiv_qr_3by2(up[2], up[3], n.p[i], inv.d1, inv.d0, inv.di)
        r == <<s[1][3], s[1][2]>>
    IN  [q |-> [i \in 1..(nn - 1) |-> s[i][1]],
         r |-> IF inv.shift = 0 THEN r ELSE mpn_rshift(r, inv.shift).p]

\* One limb of a quotient by three or more limbs, at offset i of st.np with
\* the limb st.n1 above it.
QuotientLimb(st, i, dp, dinv) ==
    LET dn == Len(dp)
        d1 == dp[dn]     d0 == dp[dn - 1]
        window == SubSeq(st.np, i + 1, i + dn)
        Patch(part) == Take(st.np, i) \o part \o Drop(st.np, i + Len(part))
        n0 == window[dn]
        whole == mpn_submul_1(window, dp, LimbMax).p
        t == gmp_udiv_qr_3by2(st.n1, n0, window[dn - 1], d1, d0, dinv)
        low == mpn_submul_1(Take(window, dn - 2), Take(dp, dn - 2), t[1])
        m0 == Wrap(t[3] - low.cy)
        borrow == Bit(t[3] < low.cy)
        m1 == Wrap(t[2] - borrow)
        part == Append(low.p, m0)
        back == mpn_add_n(part, Take(dp, dn - 1))
    IN  CASE st.n1 = d1 /\ n0 = d0 ->
               [np |-> Patch(whole), n1 |-> whole[dn], q |-> <<LimbMax>> \o st.q]
          [] ~(st.n1 = d1 /\ n0 = d0) /\ t[2] >= borrow ->
               [np |-> Patch(part), n1 |-> m1, q |-> <<t[1]>> \o st.q]
          [] ~(st.n1 = d1 /\ n0 = d0) /\ t[2] < borrow ->
               [np |-> Patch(back.p), n1 |-> Wrap(m1 + d1 + back.cy),
                q |-> <<Wrap(t[1] - 1)>> \o st.q]

mpn_div_qr_pi1(np, n1, dp, dinv) ==
    LET top == Len(np) - Len(dp)
        s[i \in 0..(top + 1)] == IF i = top + 1 THEN [np |-> np, n1 |-> n1, q |-> <<>>]
                                 ELSE QuotientLimb(s[i + 1], i, dp, dinv)
    IN  [q |-> s[0].q, r |-> Append(Take(s[0].np, Len(dp) - 1), s[0].n1)]

\* dp is normalised when it has three limbs or more.
mpn_div_qr_preinv(np, dp, inv) ==
    LET n == LeftBy(np, inv.shift)
        d == mpn_div_qr_pi1(n.p, n.cy, dp, inv.di)
    IN  CASE Len(dp) = 1 -> mpn_div_qr_1_preinv(np, inv)
          [] Len(dp) = 2 -> mpn_div_qr_2_preinv(np, inv)
          [] Len(dp) > 2 -> [d EXCEPT !.r = IF inv.shift = 0 THEN @
                                            ELSE mpn_rshift(@, inv.shift).p]

mpn_div_qr(np, dp) ==
    LET inv == mpn_div_qr_invert(dp)
        d == IF Len(dp) > 2 /\ inv.shift > 0 THEN mpn_lshift(dp, inv.shift).p ELSE dp
    IN  mpn_div_qr_preinv(np, d, inv)

------------------------------------------------------------------------------
(* Digits.  A string of digits is a sequence, most significant digit first. *)

mpn_base_power_of_two_p(b) ==
    IF \E k \in 1..8 : b = 2^k THEN CHOOSE k \in 1..8 : b = 2^k ELSE 0

\* The largest power of the base that fits in a limb, and its exponent.
mpn_get_base_info(b) ==
    LET e == Largest({k \in 1..LimbBits : b^(k - 1) <= LimbMax \div b}) IN [exp |-> e, bb |-> b^e]

mpn_limb_size_in_base_2(u) == LimbBits - gmp_clz(u)

\* The bits of a number of un limbs.
BitSize(up) == (Len(up) - 1) * LimbBits + mpn_limb_size_in_base_2(up[Len(up)])

mpn_get_str_bits(bits, up) ==
    LET sn == (BitSize(up) + bits - 1) \div bits
        digit(j) ==     \* digit j from the low end, of one limb or of two
            LET i == (j * bits) \div LimbBits
                shift == (j * bits) % LimbBits
                next == IF shift + bits > LimbBits /\ i + 2 <= Len(up)
                        THEN up[i + 2] * 2^(LimbBits - shift) ELSE 0
            IN  (up[i + 1] \div 2^shift + next) % 2^bits
    IN  [k \in 1..sn |-> digit(sn - k)]

\* The digits of a limb, least significant first; none for 0.
RECURSIVE mpn_limb_get_str(_, _)
mpn_limb_get_str(w, binv) ==
    LET d == gmp_udiv_qrnnd_preinv(w \div 2^(LimbBits - binv.shift),
                                   Wrap(w * 2^binv.shift), binv.d1, binv.di)
    IN  IF w = 0 THEN <<>>
        ELSE <<d[2] \div 2^binv.shift>> \o mpn_limb_get_str(d[1], binv)

\* Splits off limbs of info.exp digits each, padded with zeros, until one is left.
RECURSIVE LowDigits(_, _, _, _)
LowDigits(up, info, binv, bbinv) ==
    LET d == mpn_div_qr_1_preinv(up, bbinv)
        low == mpn_limb_get_str(d.r[1], binv)
        rest == IF d.q[Len(up)] = 0 THEN Take(d.q, Len(up) - 1) ELSE d.q
    IN  IF Len(up) = 1 THEN mpn_limb_get_str(up[1], binv)
        ELSE low \o Zeros(info.exp - Len(low)) \o LowDigits(rest, info, binv, bbinv)

mpn_get_str_other(base, info, up) ==
    LET s == LowDigits(up, info, mpn_div_qr_1_invert(base), mpn_div_qr_1_invert(info.bb))
    IN  [i \in DOMAIN s |-> s[Len(s) + 1 - i]]

mpn_get_str(base, up) ==
    LET bits == mpn_base_power_of_two_p(base)
    IN  IF bits > 0 THEN mpn_get_str_bits(bits, up)
        ELSE mpn_get_str_other(base, mpn_get_base_info(base), up)

\* Fills limbs with digits of so many bits from the low end; the vector that
\* is returned has the size that the code returns.
mpn_set_str_bits(sp, bits) ==
    LET sn == Len(sp)
        s[k \in 0..sn] ==
            IF k = 0 THEN [rp |-> <<>>, limb |-> 0, shift |-> 0]
            ELSE LET t == s[k - 1]
                     digit == sp[sn + 1 - k]
                     limb == Wrap(t.limb + digit * 2^t.shift)
                     over == t.shift + bits - LimbBits
                 IN  IF over >= 0
                     THEN [rp |-> Append(t.rp, limb), limb |-> digit \div 2^(bits - over),
                           shift |-> over]
                     ELSE [t EXCEPT !.limb = limb, !.shift = @ + bits]
    IN  IF s[sn].limb # 0 THEN Append(s[sn].rp, s[sn].limb)
        ELSE Take(s[sn].rp, mpn_normalized_size(s[sn].rp))

\* The value of a group of digits, one limb.
RECURSIVE DigitGroup(_, _)
DigitGroup(sp, b) ==
    IF Len(sp) = 1 THEN sp[1]
    ELSE Wrap(DigitGroup(Take(sp, Len(sp) - 1), b) * b + sp[Len(sp)])

\* Groups of info.exp digits; the first may be shorter.
RECURSIVE mpn_set_str_other(_, _, _)
mpn_set_str_other(sp, b, info) ==
    LET n == Len(sp)
        rp == mpn_set_str_other(Take(sp, n - info.exp), b, info)
        m == mpn_mul_1(rp, info.bb)
        a == mpn_add_1(m.p, DigitGroup(Drop(sp, n - info.exp), b))
        cy == Wrap(m.cy + a.cy)
    IN  IF n <= info.exp THEN <<DigitGroup(sp, b)>>
        ELSE IF cy > 0 THEN Append(a.p, cy) ELSE a.p

mpn_set_str(sp, base) ==
    LET bits == mpn_base_power_of_two_p(base)
    IN  CASE sp = <<>> -> <<>>
          [] sp # <<>> /\ bits > 0 -> mpn_set_str_bits(sp, bits)
          [] sp # <<>> /\ bits = 0 -> mpn_set_str_other(sp, base, mpn_get_base_info(base))
==============================================================================
