------------------------------ MODULE Numerals ------------------------------
(***************************************************************************)
(* Numbers as text in src/src/avm.core/string.c: what AvmStringFromInt,    *)
(* AvmStringFromUint and AvmStringFromFloat2 produce, and what strtoll and *)
(* strtoull make of it. A text is a sequence of characters, and a          *)
(* character is a string of length one.                                    *)
(***************************************************************************)
EXTENDS Integers, Sequences, SequencesExt

CONSTANTS Width,         \* the number of bits of _long and ulong
          LongMinRepr,   \* the literal of that name in private/resources.h
          FractionBits,  \* the stored bits of the mantissa of a float, 23 in the code
          ExponentBits   \* the bits of its exponent, 8 in the code

(* 2^n. (The operator ^ is beyond the provers.)                            *)
Power2(n) ==
    LET power[i \in 0..n] == IF i = 0 THEN 1 ELSE 2 * power[i - 1]
    IN  power[n]

MaxUlong == Power2(Width) - 1           \* ULLONG_MAX
MaxLong == Power2(Width - 1) - 1        \* LLONG_MAX
MinLong == -Power2(Width - 1)           \* LLONG_MIN

NumericBase == {2, 8, 10, 16}           \* the constants of AvmNumericBase

(* Mutant: the characters behind 9 in ASCII.                               *)
DigitCharsAscii == <<"0", "1", "2", "3", "4", "5", "6", "7",
                     "8", "9", ":", ";", "<", "=", ">", "?">>

DigitChars == <<"0", "1", "2", "3", "4", "5", "6", "7",
                "8", "9", "A", "B", "C", "D", "E", "F">>

(* What the digits of cs are worth.                                        *)
DigitValues == [d \in ToSet(DigitChars) |-> (CHOOSE i \in 1..16 : DigitChars[i] = d) - 1]

Worth(cs, numericBase) ==
    LET worth[n \in 0..Len(cs)] ==
            IF n = 0 THEN 0 ELSE worth[n - 1] * numericBase + DigitValues[cs[n]]
    IN  worth[Len(cs)]

IsDigit(d, numericBase) ==
    d \in {DigitChars[i] : i \in 1..numericBase}

(* text is the numeral of value in this base.                              *)
Denotes(text, value, numericBase) ==
    LET digits == IF value < 0 THEN Tail(text) ELSE text
    IN  /\ text # <<>> /\ (value < 0 => text[1] = "-")
        /\ \A i \in DOMAIN digits : IsDigit(digits[i], numericBase)
        /\ Worth(digits, numericBase) = (IF value < 0 THEN -value ELSE value)
        /\ digits[1] = "0" => digits = <<"0">>

ASSUME NumeralsAssumption ==
    /\ Width \in Nat \ {0}
    /\ FractionBits \in Nat /\ FractionBits >= 3
    /\ ExponentBits \in Nat /\ ExponentBits >= 3
    /\ LongMinRepr \in Seq({"-"} \cup ToSet(DigitChars)) /\ Denotes(LongMinRepr, MinLong, 10)

-----------------------------------------------------------------------------
(* The loops that push the last digit first; they push nothing for 0.      *)
Digits(value, numericBase) ==
    LET pushed[n \in 0..value] ==
            IF n = 0 THEN <<>>
            ELSE <<DigitChars[(n % numericBase) + 1]>> \o pushed[n \div numericBase]
    IN  IF value = 0 THEN <<"0">> ELSE pushed[value]

(* Mutant: no sign.                                                        *)
FromIntUnsigned(value) ==
    IF value = MinLong THEN LongMinRepr
    ELSE Reverse(Digits(IF value < 0 THEN -value ELSE value, 10))

(* AvmStringFromInt. The least number has no positive counterpart, and is  *)
(* a literal.                                                              *)
FromInt(value) ==
    IF value = MinLong THEN LongMinRepr
    ELSE IF value < 0 THEN Reverse(Append(Digits(-value, 10), "-"))
    ELSE Reverse(Digits(value, 10))

(* Mutant: the digits stay in the order in which they were pushed.         *)
FromUintBackwards(value, numericBase) == Digits(value, numericBase)

(* AvmStringFromUint, for a base that it does not throw at.                *)
FromUint(value, numericBase) == Reverse(Digits(value, numericBase))

-----------------------------------------------------------------------------
(* AvmStringFromFloat2 reads the three fields of a float. Its exponent is  *)
(* an int8_t: the exponent of infinities and NaNs wraps around.            *)
Floats == [isNegative : BOOLEAN,
           exponent   : 0..(Power2(ExponentBits) - 1),
           mantissa   : 0..(Power2(FractionBits) - 1)]

Bias == Power2(ExponentBits - 1) - 1

(* Mutant: the bias is off by one.                                         *)
ExponentOffByOne(f) ==
    LET e == f.exponent - Bias - 1
    IN  IF e > Bias THEN e - Power2(ExponentBits) ELSE e

Exponent(f) ==
    LET e == f.exponent - Bias
    IN  IF e > Bias THEN e - Power2(ExponentBits) ELSE e

TooBig == FractionBits - 5      \* 18 in the code

Mantissa(f) == f.mantissa + Power2(FractionBits)

Eighths == << <<"0", "0", "0">>, <<"1", "2", "5">>, <<"2", "5", "0">>, <<"3", "7", "5">>,
              <<"5", "0", "0">>, <<"6", "2", "5">>, <<"7", "5", "0">>, <<"8", "7", "5">> >>

FromFloat2(f) ==
    LET e == Exponent(f)
    IN  IF e > TooBig THEN <<"i", "n", "f">>
        ELSE IF e < -3 THEN <<"0">>
        ELSE (IF f.isNegative THEN <<"-">> ELSE <<>>)
                \o FromInt(Mantissa(f) \div Power2(FractionBits - e))
                \o <<".">>
                \o Eighths[((Mantissa(f) \div Power2(FractionBits - 3 - e)) % 8) + 1]

-----------------------------------------------------------------------------
(* The longest prefix of cs that has only characters that satisfy Test.    *)
Span(cs, Test(_)) ==
    SubSeq(cs, 1, CHOOSE n \in 0..Len(cs) :
                        /\ \A i \in 1..n : Test(cs[i])
                        /\ n = Len(cs) \/ ~ Test(cs[n + 1]))

(***************************************************************************)
(* strtoll and strtoull on a terminated text: blanks, a sign, 0x if the    *)
(* base is 16, and as many digits as there are. What is too large becomes  *)
(* the largest number there is; a minus sign negates modulo 2^Width.       *)
(***************************************************************************)
AfterBlanks(cs) == SubSeq(cs, Len(Span(cs, LAMBDA d : d = " ")) + 1, Len(cs))

HasMinus(cs) == cs # <<>> /\ cs[1] = "-"

AfterSign(cs) == IF cs # <<>> /\ cs[1] \in {"-", "+"} THEN Tail(cs) ELSE cs

AfterPrefix(cs, numericBase) ==
    IF /\ numericBase = 16 /\ Len(cs) > 2
       /\ IsPrefix(<<"0", "x">>, cs) /\ IsDigit(cs[3], 16)
    THEN SubSeq(cs, 3, Len(cs)) ELSE cs

FromFirstDigit(cs, numericBase) == AfterPrefix(AfterSign(AfterBlanks(cs)), numericBase)

(* The number whose digits begin cs.                                       *)
Magnitude(cs, numericBase) ==
    Worth(Span(cs, LAMBDA d : IsDigit(d, numericBase)), numericBase)

(* What lies behind the number.                                            *)
AfterNumber(cs, numericBase) ==
    SubSeq(cs, Len(Span(cs, LAMBDA d : IsDigit(d, numericBase))) + 1, Len(cs))

Within(low, high, n) == IF n > high THEN high ELSE IF n < low THEN low ELSE n

Strtoll(cs, numericBase) ==
    Within(MinLong, MaxLong,
           (IF HasMinus(AfterBlanks(cs)) THEN -1 ELSE 1)
                * Magnitude(FromFirstDigit(cs, numericBase), numericBase))

NegatedIf(minus, n) == IF minus /\ n <= MaxUlong THEN (Power2(Width) - n) % Power2(Width) ELSE n

Strtoull(cs, numericBase) ==
    Within(0, MaxUlong,
           NegatedIf(HasMinus(AfterBlanks(cs)),
                     Magnitude(FromFirstDigit(cs, numericBase), numericBase)))
=============================================================================
