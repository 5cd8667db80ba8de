------------------------------ MODULE WideNumbers ------------------------------
(***************************************************************************)
(* The fixed-width integers of the JSON library.  Numbers of 64 bits are   *)
(* wider than the model checker's, so a natural number is the sequence of  *)
(* its bytes, least significant first and without leading zeros: zero is   *)
(* the empty sequence.  A signed number adds a sign.                       *)
(***************************************************************************)
EXTENDS Integers, Sequences, SequencesExt

Zeros(n) == [i \in 1 .. n |-> 0]

Trim(n) ==
    LET used == {i \in DOMAIN n : n[i] # 0}
    IN  IF used = {} THEN <<>> ELSE SubSeq(n, 1, Max(used))

(* A number of the model checker's: four bytes hold it.                    *)
OfNat(k) == Trim([i \in 1 .. 4 |-> (k \div 256 ^ (i - 1)) % 256])

(* k * n + d, for small k and d.                                           *)
TimesPlus(n, k, d) ==
    LET carry[i \in 0 .. Len(n)] == IF i = 0 THEN d ELSE (n[i] * k + carry[i - 1]) \div 256
    IN  Trim([i \in DOMAIN n |-> (n[i] * k + carry[i - 1]) % 256] \o OfNat(carry[Len(n)]))

(* The number as one the model checker can count with, if it is below 2^16.*)
Huge == 65536
ToNat(n) == IF Len(n) > 2 THEN Huge ELSE FoldRight(LAMBDA b, k : 256 * k + b, n, 0)

(* <<n \div k, n % k>>, for small k.                                       *)
DivRem(n, k) ==
    LET rem[i \in 1 .. Len(n) + 1] == IF i > Len(n) THEN 0 ELSE (rem[i + 1] * 256 + n[i]) % k
    IN  <<Trim([i \in DOMAIN n |-> (rem[i + 1] * 256 + n[i]) \div k]), rem[1]>>

AtMost(m, n) ==
    LET differ == {i \in DOMAIN m : m[i] # n[i]}
    IN  IF Len(m) # Len(n) THEN Len(m) < Len(n)
        ELSE differ # {} => m[Max(differ)] < n[Max(differ)]

(* m - n, for n at most m.                                                 *)
Minus(m, n) ==
    LET padded == n \o Zeros(Len(m) - Len(n))
        borrow[i \in 0 .. Len(m)] == IF i > 0 /\ m[i] - padded[i] - borrow[i - 1] < 0 THEN 1 ELSE 0
    IN  Trim([i \in DOMAIN m |-> (m[i] - padded[i] - borrow[i - 1]) % 256])

Pred(n) == Minus(n, <<1>>)
PowerOf2(bits) == Append(Zeros(bits \div 8), 2 ^ (bits % 8))

(* The largest number of w bytes, without and with a sign bit.             *)
MaxUnsigned(w) == [i \in 1 .. w |-> 255]
MaxSigned(w) == Append(MaxUnsigned(w - 1), 127)

Signed(neg, n) == [neg |-> neg /\ n # <<>>, abs |-> n]
Positive(n) == Signed(FALSE, n)

FitsSigned(x, w) == AtMost(x.abs, IF x.neg THEN PowerOf2(8 * w - 1) ELSE MaxSigned(w))
FitsUnsigned(x, w) == ~x.neg /\ AtMost(x.abs, MaxUnsigned(w))

(* The low w bytes of a number in two's complement, least significant first,*)
(* and the number such bytes stand for.                                    *)
ToBytes(x, w) ==
    SubSeq((IF x.neg THEN Minus(PowerOf2(8 * w), x.abs) ELSE x.abs) \o Zeros(w), 1, w)

SignedOf(bytes) ==
    IF Last(bytes) >= 128 THEN Signed(TRUE, Minus(PowerOf2(8 * Len(bytes)), Trim(bytes)))
    ELSE Positive(Trim(bytes))

UnsignedOf(bytes) == Positive(Trim(bytes))

(* The decimal digits of a number, and the number of such digits.          *)
DecimalDigits(n) ==
    LET steps[i \in 0 .. 3 * Len(n)] ==        \* <<what is left, the digits so far>>
            IF i = 0 THEN <<n, <<>> >>
            ELSE LET last == steps[i - 1]
                     d == DivRem(last[1], 10)
                 IN  IF last[1] = <<>> THEN last ELSE <<d[1], <<48 + d[2]>> \o last[2]>>
    IN  IF n = <<>> THEN <<48>> ELSE steps[3 * Len(n)][2]

OfDecimal(digits) ==
    LET read[i \in 0 .. Len(digits)] ==
            IF i = 0 THEN <<>> ELSE TimesPlus(read[i - 1], 10, digits[i] - 48)
    IN  read[Len(digits)]
=============================================================================
