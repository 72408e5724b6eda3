------------------------------- MODULE MpzBits -------------------------------
(***************************************************************************)
(* The logical operations of mini-gmp on integers and their conversion to  *)
(* digits and to bytes (mini-gmp.c), as operators on the records of Mpz.   *)
(* A string is abstracted to its sign, the prefix that base 0 looks at and *)
(* the values of its digits.  A block of bytes is a sequence of them.      *)
(***************************************************************************)
EXTENDS Mpz

\* The low limbs of the two's complement of a number, or of the number whose
\* two's complement they are: inverted and incremented when neg.
TwosComplement(p, neg) ==
    Ripple(Len(p), Bit(neg), LAMBDA i, c :
        LET l == Wrap((IF neg THEN LimbMax - p[i] ELSE p[i]) + c)
        IN  <<l, Bit(l < c)>>)

\* Op on the limbs of u and v, where v has no more limbs than u: of v's sign
\* extension when they end.  A carry out of the result is one more limb.
Logical(r, u, v, neg, rn, Op(_, _)) ==
    LET up == TwosComplement(u.d, u.size < 0).p
        vp == TwosComplement(v.d, v.size < 0).p
        ext == IF v.size < 0 THEN LimbMax ELSE 0
        res == TwosComplement([i \in 1..rn |-> Op(up[i], IF i <= Len(v.d) THEN vp[i] ELSE ext)],
                              neg)
        p == IF res.cy > 0 THEN Append(res.p, res.cy) ELSE res.p
    IN  Store(r, rn + Bit(neg), p, Sign(mpn_normalized_size(p), neg))

Longer(u, v) == IF Len(u.d) < Len(v.d) THEN v ELSE u
Shorter(u, v) == IF Len(u.d) < Len(v.d) THEN u ELSE v

\* If the shorter input is positive, the higher limbs do not matter.
mpz_and(r, a, b) ==
    LET u == Longer(a, b)       v == Shorter(a, b)
    IN  IF v.size = 0 THEN Zeroed(r)
        ELSE Logical(r, u, v, u.size < 0 /\ v.size < 0,
                     IF v.size < 0 THEN Len(u.d) ELSE Len(v.d), LAMBDA x, y : x & y)

\* If the shorter input is negative, the higher limbs do not matter.
mpz_ior(r, a, b) ==
    LET u == Longer(a, b)       v == Shorter(a, b)
    IN  IF v.size = 0 THEN mpz_set(r, u)
        ELSE Logical(r, u, v, u.size < 0 \/ v.size < 0,
                     IF v.size < 0 THEN Len(v.d) ELSE Len(u.d), LAMBDA x, y : x | y)

mpz_xor(r, a, b) ==
    LET u == Longer(a, b)       v == Shorter(a, b)
    IN  IF v.size = 0 THEN mpz_set(r, u)
        ELSE Logical(r, u, v, (u.size < 0) # (v.size < 0), Len(u.d), LAMBDA x, y : x ^^ y)

mpz_com(r, u) == LET s == mpz_add_ui(r, u, 1) IN mpz_neg(s, s)

RECURSIVE gmp_popcount_limb(_)
gmp_popcount_limb(x) == IF x = 0 THEN 0 ELSE (x % 2) + gmp_popcount_limb(x \div 2)

RECURSIVE mpn_popcount(_)
mpn_popcount(p) == IF p = <<>> THEN 0 ELSE gmp_popcount_limb(p[1]) + mpn_popcount(Tail(p))

mpz_popcount(u) == IF u.size < 0 THEN NoBit ELSE mpn_popcount(u.d)

\* The bits that differ; for numbers of different signs there is no end of them.
mpz_hamdist(a, b) ==
    LET u == Longer(a, b)       v == Shorter(a, b)
        neg == a.size < 0
        up == TwosComplement(u.d, neg).p
        vp == TwosComplement(v.d, neg).p
        ext == IF neg THEN LimbMax ELSE 0
    IN  IF (a.size < 0) # (b.size < 0) THEN NoBit
        ELSE mpn_popcount([i \in DOMAIN up |-> up[i] ^^ (IF i <= Len(vp) THEN vp[i] ELSE ext)])

\* The first bit at starting_bit or above that is 1, for scan0 that is 0.
mpz_scan1(u, starting_bit) ==
    LET i == starting_bit \div LimbBits
        low == Bit(mpn_zero_p(Take(u.d, i)))
        neg == starting_bit # 0 /\ u.size < 0
        limb == IF neg THEN Wrap(LimbMax - u.d[i + 1] + low) ELSE u.d[i + 1]
    IN  IF i >= Len(u.d) THEN (IF u.size >= 0 THEN NoBit ELSE starting_bit)
        ELSE mpn_common_scan(FromBit(limb, starting_bit), i, u.d, Len(u.d),
                             IF neg /\ limb >= low THEN LimbMax ELSE 0)

mpz_scan0(u, starting_bit) ==
    LET i == starting_bit \div LimbBits
        limb == IF u.size >= 0 THEN LimbMax - u.d[i + 1]
                ELSE Wrap(u.d[i + 1] - Bit(mpn_zero_p(Take(u.d, i))))
    IN  IF i >= Len(u.d) THEN (IF u.size >= 0 THEN starting_bit ELSE NoBit)
        ELSE mpn_common_scan(FromBit(limb, starting_bit), i, u.d, Len(u.d),
                             IF u.size >= 0 THEN LimbMax ELSE 0)

------------------------------------------------------------------------------
(* Digits. *)

\* The number of digits, by division when the base is no small power of two.
RECURSIVE DigitCount(_, _)
DigitCount(p, inv) ==
    LET q == mpn_div_qr_1_preinv(p, inv).q
        n == Len(p) - Bit(q[Len(p)] = 0)
    IN  IF n = 0 THEN 1 ELSE 1 + DigitCount(Take(q, n), inv)

mpz_sizeinbase(u, base) ==
    LET k == mpn_base_power_of_two_p(base)
    IN  CASE u.size = 0 -> 1
          [] u.size # 0 /\ k \in 1..5 -> (BitSize(u.d) + k - 1) \div k
          [] u.size # 0 /\ k \notin 1..5 -> DigitCount(u.d, mpn_div_qr_1_invert(base))

\* fits: the string was not longer than the room that was made for it.
mpz_get_str(base, u) ==
    LET digits == IF u.size = 0 THEN <<0>> ELSE mpn_get_str(base, u.d)
    IN  [neg |-> u.size < 0, digits |-> digits,
         fits |-> Len(digits) <= mpz_sizeinbase(u, base)]

\* sp is [neg, prefix, digits]; a digit that the base does not have, or no
\* digit at all, makes the number 0 and the result -1.
mpz_set_str(r, sp, base0) ==
    LET base == CASE base0 # 0 -> base0
                  [] base0 = 0 /\ sp.prefix = "0x" -> 16
                  [] base0 = 0 /\ sp.prefix = "0b" -> 2
                  [] base0 = 0 /\ sp.prefix = "0" -> 8
                  [] base0 = 0 /\ sp.prefix = "" -> 10
        dn == Len(sp.digits)
        bits == mpn_base_power_of_two_p(base)
        exp == mpn_get_base_info(base).exp
        room == IF bits > 0 THEN (dn * bits + LimbBits - 1) \div LimbBits
                            ELSE (dn + exp - 1) \div exp
        p == mpn_set_str(sp.digits, base)
        rn == Len(p) - Bit(bits = 0 /\ p[Len(p)] = 0)
    IN  IF dn = 0 \/ \E i \in DOMAIN sp.digits : sp.digits[i] >= base
        THEN [r |-> Zeroed(r), ret |-> -1]
        ELSE [r |-> Store(r, room, p, Sign(rn, sp.neg)), ret |-> 0]

------------------------------------------------------------------------------
(* Bytes: count words of size bytes each. *)

ByteMax == 2^ByteBits - 1

\* The place of byte k, counted from the least significant one.  order is that
\* of the words and endian that of the bytes of a word: 1 for the most
\* significant first, -1 for the least significant one.
BytePlace(k, count, order, size, endian) ==
    LET start == (IF order = 1 THEN size * (count - 1) ELSE 0) + (IF endian = 1 THEN size - 1 ELSE 0)
        step == IF order # endian THEN -order * 2 * size ELSE 0
    IN  1 + start + (k \div size) * (step - endian * size) - endian * (k % size)

mpz_import(r, count, order, size, endian, src) ==
    LET n == count * size
        byte(k) == IF k < n THEN src[BytePlace(k, count, order, size, endian)] ELSE 0
        rn == (n + LimbBytes - 1) \div LimbBytes
        Limb(i) == LET l[j \in 0..LimbBytes] ==
                           IF j = 0 THEN 0
                           ELSE l[j - 1] + byte((i - 1) * LimbBytes + j - 1) * 2^((j - 1) * ByteBits)
                   IN  l[LimbBytes]
        p == [i \in 1..rn |-> Limb(i)]
    IN  Store(r, rn, p, mpn_normalized_size(p))

\* buf is what the buffer r holds before; it stays so when the number is 0.
mpz_export(buf, order, size, endian, u) ==
    LET un == Len(u.d)
        k == Least({j \in 1..LimbBytes : u.d[un] < 2^(j * ByteBits)})
        count == (k + (un - 1) * LimbBytes + size - 1) \div size
        byte(j) == LET i == j \div LimbBytes
                   IN  IF i < un THEN (u.d[i + 1] \div 2^((j % LimbBytes) * ByteBits)) % 2^ByteBits
                       ELSE 0
        place(j) == BytePlace(j, count, order, size, endian)
        image == [x \in 1..(count * size) |->
                     byte(CHOOSE j \in 0..(count * size - 1) : place(j) = x)]
    IN  IF un = 0 THEN [buf |-> buf, count |-> 0]
        ELSE [buf |-> image \o Drop(buf, Len(image)), count |-> count]
==============================================================================
