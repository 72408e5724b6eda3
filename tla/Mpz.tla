--------------------------------- MODULE Mpz ---------------------------------
(***************************************************************************)
(* The integers of mini-gmp (mini-gmp.c, the mpz functions up to powers    *)
(* and roots).  An mpz_t is a record: alloc limbs are allocated, |size| of *)
(* them are in use and are d, and the sign of size is the sign of the      *)
(* number.  An operator has the name and the parameters of its function,   *)
(* with the old value of the result first, and yields the new value of it: *)
(* how much is allocated depends on what was.  A null result is one that   *)
(* the caller drops.  Operands are values: what a function reads of one    *)
(* that is also its result is what it was before.  Freeing and the failure *)
(* of an allocation, which nothing checks, are left out, and so are the    *)
(* conversions of doubles.                                                 *)
(***************************************************************************)
EXTENDS Limbs

Abs(x) == IF x < 0 THEN -x ELSE x
Smaller(a, b) == IF a < b THEN a ELSE b
Sign(n, neg) == IF neg THEN -n ELSE n
Compare(a, b) == Bit(a > b) - Bit(a < b)        \* GMP_CMP

mpz_init == [alloc |-> 0, size |-> 0, d |-> <<>>]
mpz_init2(bits) == [mpz_init EXCEPT !.alloc = 1 + (bits - Bit(bits # 0)) \div LimbBits]

mpz_realloc(r, n) == [r EXCEPT !.alloc = Largest({n, 1})]
MPZ_REALLOC(r, n) == IF n > r.alloc THEN mpz_realloc(r, n) ELSE r

\* Makes room for n limbs, writes p and sets the size.  A write past the room
\* spoils the number: it then has limbs that are none.
Store(r, n, p, size) ==
    LET room == MPZ_REALLOC(r, n).alloc
    IN  [alloc |-> room, size |-> size,
         d |-> IF Len(p) <= room THEN Take(p, Abs(size)) ELSE [i \in 1..Abs(size) |-> Base]]

Zeroed(r) == [r EXCEPT !.size = 0, !.d = <<>>]
Signed(r, neg) == IF neg THEN [r EXCEPT !.size = -@] ELSE r

\* The low limbs of a number that is reduced in place.
Shrunk(r, p) ==
    LET n == mpn_normalized_size(p) IN [r EXCEPT !.size = n, !.d = Take(p, n)]

------------------------------------------------------------------------------
(* Assignment, tests and comparison. *)

mpz_set(r, x) == Store(r, Abs(x.size), x.d, x.size)
mpz_set_ui(r, x) == IF x > 0 THEN Store(r, 1, <<x>>, 1) ELSE Zeroed(r)
mpz_set_si(r, x) == IF x >= 0 THEN mpz_set_ui(r, x) ELSE Store(r, 1, <<-x>>, -1)
mpz_init_set(x) == mpz_set(mpz_init, x)
mpz_init_set_ui(x) == mpz_set_ui(mpz_init, x)

\* The limbs of the types of the Wii U's ARM: int and long have the size of a limb.
LONG_MAX == HighBit - 1
LONG_MIN == -HighBit
SHRT_MAX == HalfBase \div 2 - 1
SHRT_MIN == -(HalfBase \div 2)
USHRT_MAX == HalfBase - 1

mpz_get_ui(u) == IF u.size = 0 THEN 0 ELSE u.d[1]
mpz_get_si(u) ==
    LET r == mpz_get_ui(u)
    IN  IF u.size < 0 THEN -1 - (Wrap(r - 1) % HighBit) ELSE r % HighBit
mpz_getlimbn(u, n) == IF n >= 0 /\ n < Abs(u.size) THEN u.d[n + 1] ELSE 0

mpn_absfits_ulong_p(u) == Abs(u.size) <= 1
mpz_fits_ulong_p(u) == u.size >= 0 /\ mpn_absfits_ulong_p(u)

mpz_sgn(u) == Compare(u.size, 0)
mpz_cmpabs_ui(u, v) == IF mpn_absfits_ulong_p(u) THEN Compare(mpz_get_ui(u), v) ELSE 1
mpz_cmp_ui(u, v) == IF u.size < 0 THEN -1 ELSE mpz_cmpabs_ui(u, v)
mpz_cmp_si(u, v) ==
    CASE v >= 0 -> mpz_cmp_ui(u, v)
      [] v < 0 /\ u.size >= 0 -> 1
      [] v < 0 /\ u.size < 0 -> -mpz_cmpabs_ui(u, -v)
mpz_cmp(a, b) ==
    CASE a.size < b.size -> -1
      [] a.size > b.size -> 1
      [] a.size = b.size -> IF a.size >= 0 THEN mpn_cmp(a.d, b.d) ELSE mpn_cmp(b.d, a.d)
mpz_cmpabs(u, v) == mpn_cmp4(u.d, v.d)

mpz_fits_slong_p(u) == mpz_cmp_si(u, LONG_MAX) <= 0 /\ mpz_cmp_si(u, LONG_MIN) >= 0
mpz_fits_sshort_p(u) == mpz_cmp_si(u, SHRT_MAX) <= 0 /\ mpz_cmp_si(u, SHRT_MIN) >= 0
mpz_fits_ushort_p(u) == u.size >= 0 /\ mpz_cmpabs_ui(u, USHRT_MAX) <= 0

mpz_abs(r, u) == LET s == mpz_set(r, u) IN [s EXCEPT !.size = Abs(@)]
mpz_neg(r, u) == Signed(mpz_set(r, u), TRUE)

------------------------------------------------------------------------------
(* Addition, subtraction and multiplication. *)

mpz_abs_add(r, a, b) ==
    LET x == IF Len(a.d) < Len(b.d) THEN b ELSE a
        y == IF Len(a.d) < Len(b.d) THEN a ELSE b
        s == mpn_add(x.d, y.d)
        an == Len(x.d)
    IN  Store(r, an + 1, Append(s.p, s.cy), an + s.cy)

\* The size is negative when b is the larger one.
mpz_abs_sub(r, a, b) ==
    LET cmp == mpn_cmp4(a.d, b.d)
        p == IF cmp > 0 THEN mpn_sub(a.d, b.d).p ELSE mpn_sub(b.d, a.d).p
    IN  IF cmp = 0 THEN Zeroed(r)
        ELSE Store(r, Len(p), p, Sign(mpn_normalized_size(p), cmp < 0))

mpz_add(r, a, b) ==
    Signed(IF (a.size < 0) = (b.size < 0) THEN mpz_abs_add(r, a, b) ELSE mpz_abs_sub(r, a, b),
           a.size < 0)
mpz_sub(r, a, b) ==
    Signed(IF (a.size < 0) = (b.size < 0) THEN mpz_abs_sub(r, a, b) ELSE mpz_abs_add(r, a, b),
           a.size < 0)

mpz_add_ui(r, a, b) == mpz_add(r, a, mpz_init_set_ui(b))
mpz_ui_sub(r, a, b) == LET s == mpz_neg(r, b) IN mpz_add_ui(s, s, a)
mpz_sub_ui(r, a, b) == LET s == mpz_ui_sub(r, b, a) IN mpz_neg(s, s)

mpz_mul(r, u, v) ==
    LET un == Len(u.d)       vn == Len(v.d)
        p == IF un >= vn THEN mpn_mul(u.d, v.d) ELSE mpn_mul(v.d, u.d)
        rn == un + vn - Bit(p[un + vn] = 0)
    IN  IF un = 0 \/ vn = 0 THEN Zeroed(r)
        ELSE Store(mpz_init2((un + vn) * LimbBits), 0, p,
                   Sign(rn, (u.size < 0) # (v.size < 0)))

mpz_mul_ui(r, u, v) == mpz_mul(r, u, mpz_init_set_ui(v))
mpz_mul_si(r, u, v) ==
    LET s == mpz_mul_ui(r, u, -v) IN IF v < 0 THEN mpz_neg(s, s) ELSE mpz_mul_ui(r, u, v)

mpz_mul_2exp(r, u, bits) ==
    LET limbs == bits \div LimbBits
        shift == bits % LimbBits
        rn == Len(u.d) + limbs + Bit(shift > 0)
        s == LeftBy(u.d, shift)
        p == Zeros(limbs) \o (IF shift > 0 THEN Append(s.p, s.cy) ELSE u.d)
    IN  IF u.size = 0 THEN Zeroed(r)
        ELSE Store(r, rn, p, Sign(rn - Bit(shift > 0 /\ s.cy = 0), u.size < 0))

mpz_addmul_ui(r, u, v) == mpz_add(r, r, mpz_mul(mpz_init_set_ui(v), u, mpz_init_set_ui(v)))
mpz_submul_ui(r, u, v) == mpz_sub(r, r, mpz_mul(mpz_init_set_ui(v), u, mpz_init_set_ui(v)))
mpz_addmul(r, u, v) == mpz_add(r, r, mpz_mul(mpz_init, u, v))
mpz_submul(r, u, v) == mpz_sub(r, r, mpz_mul(mpz_init, u, v))

------------------------------------------------------------------------------
(* Division. *)

\* The truncated quotient when it has a limb, before it is rounded.
Truncated(n, d) ==
    LET e == mpn_div_qr(n.d, d.d)
        qn == Len(n.d) - Len(d.d) + 1
        rn == mpn_normalized_size(e.r)
    IN  [q |-> Store(mpz_init2(qn * LimbBits), 0, e.q,
                     Sign(qn - Bit(e.q[qn] = 0), (n.size < 0) # (d.size < 0))),
         r |-> Store(mpz_init_set(n), 0, e.r, Sign(rn, n.size < 0)),
         rest |-> Bit(rn # 0)]

\* rest is the value that the C function returns: 1 if there is a remainder.
mpz_div_qr(q, r, n, d, mode) ==
    LET opposite == (n.size < 0) # (d.size < 0)
        up == mode = "CEIL" /\ ~opposite
        down == mode = "FLOOR" /\ opposite
        t == Truncated(n, d)
    IN  CASE n.size = 0 -> [q |-> Zeroed(q), r |-> Zeroed(r), rest |-> 0]
          [] n.size # 0 /\ Len(n.d) < Len(d.d) ->
               [q |-> mpz_set_si(q, Bit(up) - Bit(down)),
                r |-> IF up THEN mpz_sub(r, n, d)
                      ELSE IF down THEN mpz_add(r, n, d) ELSE mpz_set(r, n),
                rest |-> 1]
          [] Len(n.d) >= Len(d.d) /\ n.size # 0 ->
               IF t.rest = 0 \/ ~(up \/ down) THEN t
               ELSE [q |-> IF up THEN mpz_add_ui(t.q, t.q, 1) ELSE mpz_sub_ui(t.q, t.q, 1),
                     r |-> IF up THEN mpz_sub(t.r, t.r, d) ELSE mpz_add(t.r, t.r, d),
                     rest |-> t.rest]

mpz_tdiv_q(q, n, d) == mpz_div_qr(q, mpz_init, n, d, "TRUNC").q
mpz_tdiv_r(r, n, d) == mpz_div_qr(mpz_init, r, n, d, "TRUNC").r
mpz_mod(r, n, d) ==
    mpz_div_qr(mpz_init, r, n, d, IF d.size >= 0 THEN "FLOOR" ELSE "CEIL").r

\* Whether rounding goes away from zero.
Away(u, mode) == mode = IF u.size > 0 THEN "CEIL" ELSE "FLOOR"

mpz_div_q_2exp(q, u, bit_index, mode) ==
    LET limb_cnt == bit_index \div LimbBits
        bits == bit_index % LimbBits
        qn == Len(u.d) - limb_cnt
        adjust == Away(u, mode) /\ \/ qn <= 0
                                   \/ ~mpn_zero_p(Take(u.d, limb_cnt))
                                   \/ u.d[limb_cnt + 1] % 2^bits # 0
        high == Drop(u.d, limb_cnt)
        p == IF bits # 0 THEN mpn_rshift(high, bits).p ELSE high
        t == IF qn <= 0 THEN Zeroed(q)
             ELSE Store(q, qn, p, qn - Bit(bits # 0 /\ p[qn] = 0))
        s == IF adjust THEN mpz_add_ui(t, t, 1) ELSE t
    IN  IF u.size = 0 THEN Zeroed(q) ELSE Signed(s, u.size < 0)

mpz_tdiv_q_2exp(q, u, cnt) == mpz_div_q_2exp(q, u, cnt, "TRUNC")

mpz_div_r_2exp(r, u, bit_index, mode) ==
    LET rn == (bit_index + LimbBits - 1) \div LimbBits
        un == Len(u.d)
        top == 2^(LimbBits - (rn * LimbBits - bit_index))   \* mask + 1
        Masked(p) == [p EXCEPT ![rn] = @ % top]
        ones == [i \in 1..(rn - un) |-> IF i = rn - un THEN top - 1 ELSE LimbMax]
        low == Masked(Take(u.d, rn))
        p == CASE rn > un /\ Away(u, mode) -> mpn_neg(u.d).p \o ones
               [] rn > un /\ ~Away(u, mode) -> u.d
               [] rn <= un /\ Away(u, mode) -> Masked(mpn_neg(low).p)
               [] rn <= un /\ ~Away(u, mode) -> low
    IN  IF u.size = 0 \/ bit_index = 0 THEN Zeroed(r)
        ELSE Store(r, rn, p, Sign(mpn_normalized_size(p), (u.size < 0) # Away(u, mode)))

mpz_divexact(q, n, d) == mpz_tdiv_q(q, n, d)
mpz_divisible_p(n, d) == mpz_div_qr(mpz_init, mpz_init, n, d, "TRUNC").rest = 0
mpz_congruent_p(a, b, m) ==
    IF mpz_sgn(m) = 0 THEN mpz_cmp(a, b) = 0
    ELSE mpz_divisible_p(mpz_sub(mpz_init, a, b), m)

\* The divisor is one limb; ret is the absolute value of the remainder.
mpz_div_qr_ui(q, r, n, d, mode) ==
    LET e == mpz_div_qr(q, mpz_init, n, mpz_init_set_ui(d), mode)
    IN  [q |-> e.q, r |-> e.r, ret |-> mpz_get_ui(e.r)]

------------------------------------------------------------------------------
(* Single bits, in the two's complement with endless sign bits. *)

mpz_tstbit(u, bit_index) ==
    LET i == bit_index \div LimbBits
        shift == bit_index % LimbBits
        bit == (u.d[i + 1] \div 2^shift) % 2
        below == u.d[i + 1] % 2^shift # 0 \/ ~mpn_zero_p(Take(u.d, i))
    IN  IF i >= Len(u.d) THEN Bit(u.size < 0)
        ELSE IF u.size < 0 /\ below THEN 1 - bit ELSE bit

mpz_abs_add_bit(u, bit_index) ==
    LET i == bit_index \div LimbBits
        bit == 2^(bit_index % LimbBits)
        dn == Len(u.d)
        s == mpn_add_1(Drop(u.d, i), bit)
        p == IF i >= dn THEN u.d \o Zeros(i - dn) \o <<bit>>
             ELSE Take(u.d, i) \o s.p \o (IF s.cy > 0 THEN <<s.cy>> ELSE <<>>)
    IN  Store(u, Len(p), p, Sign(Len(p), u.size < 0))

mpz_abs_sub_bit(u, bit_index) ==
    LET i == bit_index \div LimbBits
        p == Take(u.d, i) \o mpn_sub_1(Drop(u.d, i), 2^(bit_index % LimbBits)).p
    IN  Store(u, 0, p, Sign(mpn_normalized_size(p), u.size < 0))

mpz_setbit(u, bit_index) ==
    IF mpz_tstbit(u, bit_index) = 1 THEN u
    ELSE IF u.size >= 0 THEN mpz_abs_add_bit(u, bit_index) ELSE mpz_abs_sub_bit(u, bit_index)
mpz_clrbit(u, bit_index) ==
    IF mpz_tstbit(u, bit_index) = 0 THEN u
    ELSE IF u.size >= 0 THEN mpz_abs_sub_bit(u, bit_index) ELSE mpz_abs_add_bit(u, bit_index)
mpz_combit(u, bit_index) ==
    IF (mpz_tstbit(u, bit_index) = 1) # (u.size < 0) THEN mpz_abs_sub_bit(u, bit_index)
                                                     ELSE mpz_abs_add_bit(u, bit_index)

------------------------------------------------------------------------------
(* Greatest common divisors. *)

RECURSIVE Odd(_)
Odd(v) == IF v % 2 = 0 THEN Odd(v \div 2) ELSE v

RECURSIVE OddGcd(_, _)
OddGcd(u, v) ==
    IF u = v THEN u ELSE IF u > v THEN OddGcd(Odd(u - v), v) ELSE OddGcd(u, Odd(v - u))

mpn_gcd_11(u, v) ==
    CASE u = 0 -> v
      [] v = 0 -> u
      [] u # 0 /\ v # 0 -> OddGcd(Odd(u), Odd(v)) * 2^Smaller(gmp_ctz(u), gmp_ctz(v))

TrailingZeros(r) == mpn_scan1(r.d, 0)
mpz_make_odd(r) == mpz_tdiv_q_2exp(r, r, TrailingZeros(r))

RECURSIVE GcdLoop(_, _, _)
GcdLoop(g, x, y) ==
    LET o == mpz_make_odd(x)
        c == mpz_cmp(o, y)
        tu == IF c < 0 THEN y ELSE o
        tv == IF c < 0 THEN o ELSE y
        limb == mpn_gcd_11(mpz_get_ui(mpz_tdiv_r(tu, tu, tv)), tv.d[1])
    IN  CASE c = 0 -> o
          [] c # 0 /\ tv.size = 1 -> Store(g, 1, <<limb>>, Bit(limb # 0))
          [] c # 0 /\ tv.size # 1 -> GcdLoop(g, mpz_sub(tu, tu, tv), tv)

mpz_gcd(g, u, v) ==
    LET a == mpz_abs(mpz_init, u)
        b == mpz_abs(mpz_init, v)
        gz == Smaller(TrailingZeros(a), TrailingZeros(b))
        oa == mpz_make_odd(a)
        ob == mpz_make_odd(b)
        tu == IF oa.size < ob.size THEN ob ELSE oa
        tv == IF oa.size < ob.size THEN oa ELSE ob
        rest == mpz_tdiv_r(tu, tu, tv)
        odd == IF rest.size = 0 THEN tv ELSE GcdLoop(g, rest, tv)
    IN  CASE u.size = 0 -> mpz_abs(g, v)
          [] u.size # 0 /\ v.size = 0 -> mpz_abs(g, u)
          [] u.size # 0 /\ v.size # 0 -> mpz_mul_2exp(odd, odd, gz)

\* What the C function returns, and the number it may store.
mpz_gcd_ui(g, u, v) ==
    LET t == mpz_gcd(mpz_init_set_ui(v), u, mpz_init_set_ui(v))
    IN  [g |-> t, ret |-> IF v > 0 THEN mpz_get_ui(t) ELSE v]

\* The loop of the extended algorithm: u = t0 tu + t1 tv and v = s0 tu + s1 tv.
RECURSIVE GcdextLoop(_)
GcdextLoop(x) ==
    LET c == mpz_cmp(x.tu, x.tv)
        dv == mpz_sub(x.tv, x.tv, x.tu)
        du == mpz_sub(x.tu, x.tu, x.tv)
        kv == TrailingZeros(dv)
        ku == TrailingZeros(du)
    IN  CASE c = 0 -> x
          [] c < 0 -> GcdextLoop([x EXCEPT
                 !.tv = mpz_make_odd(dv), !.power = @ + kv,
                 !.t0 = mpz_add(@, @, x.t1), !.s0 = mpz_add(@, @, x.s1),
                 !.t1 = mpz_mul_2exp(@, @, kv), !.s1 = mpz_mul_2exp(@, @, kv)])
          [] c > 0 -> GcdextLoop([x EXCEPT
                 !.tu = mpz_make_odd(du), !.power = @ + ku,
                 !.t1 = mpz_add(@, x.t0, @), !.s1 = mpz_add(@, x.s0, @),
                 !.t0 = mpz_mul_2exp(@, @, ku), !.s0 = mpz_mul_2exp(@, @, ku)])

\* Takes the factors of two out of the cofactors.
RECURSIVE Halve(_, _, _, _, _)
Halve(s0, t0, s1, t1, power) ==
    LET odd == \E z \in {s0, t0} : z.size # 0 /\ z.d[1] % 2 = 1
        s == IF odd THEN mpz_sub(s0, s0, s1) ELSE s0
        t == IF odd THEN mpz_add(t0, t0, t1) ELSE t0
    IN  IF power = 0 THEN <<s0, t0>>
        ELSE Halve(mpz_tdiv_q_2exp(s, s, 1), mpz_tdiv_q_2exp(t, t, 1), s1, t1, power - 1)

\* The case of two numbers that are not zero and are in the order of their sizes.
Gcdext(u, v, tu0, tv0, uz, vz, gz) ==
    LET e == mpz_div_qr(mpz_init, tu0, tu0, tv0, "TRUNC")
        shift == IF e.r.size > 0 THEN TrailingZeros(e.r) ELSE 0
        start == [tu |-> IF e.r.size > 0 THEN mpz_make_odd(e.r) ELSE e.r, tv |-> tv0,
                  t0 |-> mpz_setbit(mpz_init, uz + shift), t1 |-> mpz_mul_2exp(e.q, e.q, uz),
                  s0 |-> mpz_init, s1 |-> mpz_setbit(mpz_init, vz), power |-> uz + vz + shift]
        x == IF e.r.size > 0 THEN GcdextLoop(start) ELSE start
        g == mpz_mul_2exp(x.tv, x.tv, gz)
        vg == mpz_divexact(x.s1, v, g)
        ug == mpz_divexact(x.t1, u, g)
        h == Halve(mpz_neg(x.s0, x.s0), x.t0, mpz_abs(vg, vg), mpz_abs(ug, ug), x.power)
        other == mpz_add(vg, h[1], mpz_abs(vg, vg))
        least == mpz_cmpabs(h[1], other) > 0
    IN  [g |-> g,
         s |-> Signed(IF least THEN other ELSE h[1], u.size < 0),
         t |-> Signed(IF least THEN mpz_sub(h[2], h[2], mpz_abs(ug, ug)) ELSE h[2],
                      v.size < 0)]

mpz_gcdext(g, s, t, u, v) ==
    LET a == mpz_abs(mpz_init, u)
        b == mpz_abs(mpz_init, v)
        ua == TrailingZeros(a)
        vb == TrailingZeros(b)
        gz == Smaller(ua, vb)
        oa == mpz_make_odd(a)
        ob == mpz_make_odd(b)
        swapped == Gcdext(v, u, ob, oa, vb - gz, ua - gz, gz)
    IN  CASE u.size = 0 ->
               [g |-> mpz_abs(g, v), s |-> Zeroed(s), t |-> mpz_set_si(t, mpz_sgn(v))]
          [] u.size # 0 /\ v.size = 0 ->
               [g |-> mpz_abs(g, u), s |-> mpz_set_si(s, mpz_sgn(u)), t |-> Zeroed(t)]
          [] u.size # 0 /\ v.size # 0 ->
               IF oa.size < ob.size
               THEN [g |-> swapped.g, s |-> swapped.t, t |-> swapped.s]
               ELSE Gcdext(u, v, oa, ob, ua - gz, vb - gz, gz)

mpz_lcm(r, u, v) ==
    LET g == mpz_gcd(mpz_init, u, v)
        m == mpz_mul(r, mpz_divexact(g, u, g), v)
    IN  IF u.size = 0 \/ v.size = 0 THEN Zeroed(r) ELSE mpz_abs(m, m)

mpz_lcm_ui(r, u, v) ==
    LET m == mpz_mul_ui(r, u, v \div mpz_gcd_ui(mpz_init, u, v).ret)
    IN  IF v = 0 \/ u.size = 0 THEN Zeroed(r) ELSE mpz_abs(m, m)

\* [ok |-> whether there is an inverse, r |-> the inverse or the old value]
mpz_invert(r, u, m) ==
    LET e == mpz_gcdext(mpz_init, mpz_init, mpz_init, u, m)
        tr == CASE e.s.size >= 0 -> e.s
                [] e.s.size < 0 /\ m.size >= 0 -> mpz_add(e.s, e.s, m)
                [] e.s.size < 0 /\ m.size < 0 -> mpz_sub(e.s, e.s, m)
    IN  IF u.size = 0 \/ mpz_cmpabs_ui(m, 1) <= 0 THEN [ok |-> FALSE, r |-> r]
        ELSE IF mpz_cmp_ui(e.g, 1) = 0 THEN [ok |-> TRUE, r |-> tr]
        ELSE [ok |-> FALSE, r |-> r]

------------------------------------------------------------------------------
(* Powers, roots and products. *)

mpz_pow_ui(b, e) ==
    LET tr[k \in 0..LimbBits] ==        \* after the first k bits of e
            IF k = 0 THEN mpz_init_set_ui(1)
            ELSE LET last == tr[k - 1]
                     sq == mpz_mul(last, last, last)
                 IN  IF (e \div 2^(LimbBits - k)) % 2 = 1 THEN mpz_mul(sq, sq, b) ELSE sq
    IN  tr[LimbBits]

\* The base of a power modulo the normalised mp: reduced when it is as long as
\* the modulus, and made positive, with the modulus itself for 0.
PowmBase(b, e, m, mp, inv) ==
    LET mn == Len(mp)
        a == mpz_abs(mpz_init, b)
        low == IF a.size >= mn THEN mpn_div_qr_preinv(a.d, mp, inv).r ELSE a.d
        whole == IF b.size < 0 THEN mpn_sub(mp, low).p ELSE low
        room == IF b.size < 0 THEN MPZ_REALLOC(a, mn) ELSE a
    IN  IF e.size < 0 THEN mpz_invert(mpz_init, b, m).r ELSE Shrunk(room, whole)

mpz_powm(r, b, e, m) ==
    LET mn == Len(m.d)
        inv0 == mpn_div_qr_invert(m.d)
        inv == [inv0 EXCEPT !.shift = 0]
        mp == LeftBy(m.d, inv0.shift).p
        base == PowmBase(b, e, m, mp, inv)
        n == Len(e.d) * LimbBits
        bit(k) == (e.d[(n - k) \div LimbBits + 1] \div 2^((n - k) % LimbBits)) % 2
        Reduced(x) == IF x.size > mn THEN Shrunk(x, mpn_div_qr_preinv(x.d, mp, inv).r) ELSE x
        tr[k \in 0..n] ==               \* after the first k bits of e
            IF k = 0 THEN mpz_init_set_ui(1)
            ELSE LET last == tr[k - 1]
                     sq == mpz_mul(last, last, last)
                 IN  Reduced(IF bit(k) = 1 THEN mpz_mul(sq, sq, base) ELSE sq)
    IN  IF e.size = 0 THEN mpz_set_ui(r, mpz_cmpabs_ui(m, 1))
        ELSE IF tr[n].size >= mn
        THEN Shrunk(tr[n], mpn_div_qr_preinv(tr[n].d, mp, inv0).r)
        ELSE tr[n]

mpz_powm_ui(r, b, elimb, m) == mpz_powm(r, b, mpz_init_set_ui(elimb), m)

\* Newton's iteration from above, until the absolute value does not shrink.
RECURSIVE RootLoop(_, _, _)
RootLoop(u, y, z) ==
    LET t2 == mpz_add(mpz_init, mpz_tdiv_q(mpz_init, y, u), u)
        q == mpz_tdiv_q(mpz_init, y, mpz_pow_ui(u, z - 1))
        tz == mpz_add(q, q, mpz_mul_ui(mpz_init, u, z - 1))
        t == IF z = 2 THEN mpz_tdiv_q_2exp(t2, t2, 1)
             ELSE mpz_div_qr_ui(tz, mpz_init, tz, z, "TRUNC").q
    IN  IF mpz_cmpabs(t, u) < 0 THEN RootLoop(t, y, z) ELSE u

mpz_rootrem(x, r, y, z) ==
    LET bc == (BitSize(y.d) - 1) \div z + 1
        u == RootLoop(Signed(mpz_setbit(mpz_init, bc), z # 2 /\ y.size < 0), y, z)
    IN  IF mpz_cmpabs_ui(y, 1) <= 0 THEN [x |-> mpz_set(x, y), r |-> Zeroed(r)]
        ELSE [x |-> u, r |-> mpz_sub(r, y, mpz_pow_ui(u, z))]

mpz_perfect_square_p(u) ==
    IF u.size <= 0 THEN u.size = 0 ELSE mpz_rootrem(mpz_init, mpz_init, u, 2).r.size = 0

RECURSIVE MfacLoop(_, _, _)
MfacLoop(x, n, m) == IF n > m + 1 THEN MfacLoop(mpz_mul_ui(x, x, n - m), n - m, m) ELSE x

mpz_mfac_uiui(x, n, m) ==
    LET one == mpz_set_ui(x, n + Bit(n = 0))
    IN  IF Wrap(m + 1) < 2 THEN one ELSE MfacLoop(one, n, m)

RECURSIVE FallingLoop(_, _, _)
FallingLoop(r, n, k) == IF k = 0 THEN r ELSE FallingLoop(mpz_mul_ui(r, r, n), n - 1, k - 1)

mpz_bin_uiui(r, n, k) ==
    LET less == IF k > n \div 2 THEN (IF k <= n THEN n - k ELSE 0) ELSE k
        t == mpz_mfac_uiui(mpz_init, less, 1)
        f == FallingLoop(mpz_set_ui(r, Bit(k <= n)), n, less)
    IN  mpz_divexact(f, f, t)
==============================================================================
