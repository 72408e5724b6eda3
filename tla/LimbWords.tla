------------------------------ MODULE LimbWords ------------------------------
(***************************************************************************)
(* The arithmetic of mini-gmp (mini-gmp.c) on one, two and three limbs:    *)
(* the macros for sums, differences, products and quotients, and the       *)
(* inverses that its divisions multiply with.  Two limbs are <<high, low>>. *)
(* Limbs wrap at 2^LimbBits as the C types do.                             *)
(***************************************************************************)
EXTENDS Integers

CONSTANTS
    ByteBits,      \* CHAR_BIT
    LimbBytes      \* sizeof(mp_limb_t)

LimbBits == ByteBits * LimbBytes

\* Half limbs are used.
ASSUME LimbAssumption ==
    ByteBits \in Nat \ {0} /\ LimbBytes \in Nat \ {0} /\ LimbBits % 2 = 0 /\ LimbBits >= 4

Base == 2^LimbBits
LimbMax == Base - 1
HighBit == Base \div 2
HalfBase == 2^(LimbBits \div 2)

\* What the proofs use of powers of two: Base is the square of an even number, and
\* no factor of its cube lies between half its square and its square.
ASSUME LimbSquare ==
    HalfBase \in Nat /\ HalfBase >= 2 /\ HalfBase % 2 = 0 /\ Base = HalfBase * HalfBase
ASSUME LimbPower ==
    \A d \in (Base * HighBit + 1)..(Base * Base - 1) : (Base * (Base * Base)) % d # 0

Wrap(x) == x % Base
Bit(b) == IF b THEN 1 ELSE 0

------------------------------------------------------------------------------
(* The macros. *)

\* Sums and differences of two limbs, as <<high, low>>.
gmp_add_ssaaaa(ah, al, bh, bl) ==
    LET x == Wrap(al + bl) IN <<Wrap(ah + bh + Bit(x < al)), x>>
gmp_sub_ddmmss(ah, al, bh, bl) ==
    <<Wrap(ah - bh - Bit(al < bl)), Wrap(al - bl)>>

\* The product of two limbs from products of half limbs.
gmp_umul_ppmm(u, v) ==
    LET ul == u % HalfBase       uh == u \div HalfBase
        vl == v % HalfBase       vh == v \div HalfBase
        x0 == ul * vl
        x1 == Wrap(ul * vh + x0 \div HalfBase)
        x2 == uh * vl
        y  == Wrap(x1 + x2)
        x3 == uh * vh + (IF y < x2 THEN HalfBase ELSE 0)
    IN  <<Wrap(x3 + y \div HalfBase), Wrap((y % HalfBase) * HalfBase + (x0 % HalfBase))>>

MulLow(u, v) == gmp_umul_ppmm(u, v)[2]

\* <<nh, nl>> by d with the inverse di: <<quotient, remainder>>.
gmp_udiv_qrnnd_preinv(nh, nl, d, di) ==
    LET t  == gmp_umul_ppmm(nh, di)
        s  == gmp_add_ssaaaa(t[1], t[2], Wrap(nh + 1), nl)
        r0 == Wrap(nl - MulLow(s[1], d))
        big == r0 > s[2]
        q  == IF big THEN Wrap(s[1] - 1) ELSE s[1]
        r  == IF big THEN Wrap(r0 + d) ELSE r0
    IN  IF r >= d THEN <<Wrap(q + 1), r - d>> ELSE <<q, r>>

QuotientAnd(q, r) == <<q, r[1], r[2]>>

\* A mutant: the last, unlikely adjustment is missing.
gmp_udiv_qr_3by2_NoLast(n2, n1, n0, d1, d0, dinv) ==
    LET t  == gmp_umul_ppmm(n2, dinv)
        s  == gmp_add_ssaaaa(t[1], t[2], n2, n1)
        a  == gmp_sub_ddmmss(Wrap(n1 - MulLow(d1, s[1])), n0, d1, d0)
        m  == gmp_umul_ppmm(d0, s[1])
        b  == gmp_sub_ddmmss(a[1], a[2], m[1], m[2])
    IN  IF b[1] >= s[2] THEN QuotientAnd(s[1], gmp_add_ssaaaa(b[1], b[2], d1, d0))
                        ELSE QuotientAnd(Wrap(s[1] + 1), b)

\* Three limbs by two: <<quotient, high and low limb of the remainder>>.
gmp_udiv_qr_3by2(n2, n1, n0, d1, d0, dinv) ==
    LET t  == gmp_umul_ppmm(n2, dinv)
        s  == gmp_add_ssaaaa(t[1], t[2], n2, n1)
        a  == gmp_sub_ddmmss(Wrap(n1 - MulLow(d1, s[1])), n0, d1, d0)
        m  == gmp_umul_ppmm(d0, s[1])
        b  == gmp_sub_ddmmss(a[1], a[2], m[1], m[2])
        high == b[1] >= s[2]
        q  == IF high THEN s[1] ELSE Wrap(s[1] + 1)
        r  == IF high THEN gmp_add_ssaaaa(b[1], b[2], d1, d0) ELSE b
    IN  IF r[1] > d1 \/ (r[1] = d1 /\ r[2] >= d0)
        THEN QuotientAnd(Wrap(q + 1), gmp_sub_ddmmss(r[1], r[2], d1, d0))
        ELSE QuotientAnd(q, r)

------------------------------------------------------------------------------
(* Inverses: what is to be multiplied with in order to divide. *)

\* The high half of the inverse of the limb u1, and the remainder.
InvertHigh(u1) ==
    LET ul  == u1 % HalfBase
        uh  == u1 \div HalfBase
        qh0 == (LimbMax - u1) \div uh
        a0  == Wrap(Wrap(LimbMax - u1 - MulLow(qh0, uh)) * HalfBase) + (HalfBase - 1)
        p0  == MulLow(qh0, ul)
        a1  == Wrap(a0 + u1)
        one == a0 < p0
        two == one /\ a1 >= u1 /\ a1 < p0
    IN  <<qh0 - Bit(one) - Bit(two),
          Wrap((IF two THEN a1 + u1 ELSE IF one THEN a1 ELSE a0) - p0)>>

\* The low half, by the same trick on half limbs: <<m, remainder>>.
InvertLow(u1, qh, r1) ==
    LET p   == Wrap(MulLow(r1 \div HalfBase, qh) + r1)
        ql  == p \div HalfBase + 1
        r2  == Wrap((r1 % HalfBase) * HalfBase + (HalfBase - 1) - MulLow(ql, u1))
        low == r2 >= Wrap(p * HalfBase)
        r3  == IF low THEN Wrap(r2 + u1) ELSE r2
        m   == Wrap(qh * HalfBase + ql - Bit(low))
    IN  IF r3 >= u1 THEN <<Wrap(m + 1), r3 - u1>> ELSE <<m, r3>>

InvertLimb(u1) == LET high == InvertHigh(u1) IN InvertLow(u1, high[1], high[2])

\* The adjustment of the inverse of u1 for a second limb.
ForTwoLimbs(u1, u0, m, r) ==
    LET r0  == Wrap(LimbMax - r + u0)
        c1  == r0 < u0
        c2  == c1 /\ r0 >= u1
        r1  == Wrap(r0 - (IF c1 THEN u1 ELSE 0) - (IF c2 THEN u1 ELSE 0))
        m1  == Wrap(m - Bit(c1) - Bit(c2))
        t   == gmp_umul_ppmm(u0, m1)
        r2  == Wrap(r1 + t[1])
        c3  == r2 < t[1]
        c4  == c3 /\ (r2 > u1 \/ (r2 = u1 /\ t[2] > u0))
    IN  Wrap(m1 - Bit(c3) - Bit(c4))

mpn_invert_3by2(u1, u0) ==
    LET i == InvertLimb(u1) IN IF u0 = 0 THEN i[1] ELSE ForTwoLimbs(u1, u0, i[1], i[2])
==============================================================================
