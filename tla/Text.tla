-------------------------------- MODULE Text --------------------------------
(***************************************************************************)
(* Texts as sequences of characters, and what the parsers of the project   *)
(* take from the C library to read them.                                   *)
(***************************************************************************)
EXTENDS Integers, Sequences, SequencesExt

Digits == <<"0", "1", "2", "3", "4", "5", "6", "7", "8", "9">>
DigitValue(c) == (CHOOSE i \in DOMAIN Digits : Digits[i] = c) - 1
IsDigit(c) == \E i \in DOMAIN Digits : Digits[i] = c

From(text, i) == SubSeq(text, i, Len(text))

SkipSpaces(text) ==
    LET other == {i \in DOMAIN text : text[i] # " "}
    IN  IF other = {} THEN <<>> ELSE From(text, Min(other))

\* strtol: the length and the value of the digits a text begins with
DigitCount(text) == CHOOSE n \in 0..Len(text) :
                        /\ \A i \in 1..n : IsDigit(text[i])
                        /\ n < Len(text) => ~IsDigit(text[n + 1])
Number(text) == LET value[n \in 0..Len(text)] ==
                        IF n = 0 THEN 0 ELSE 10 * value[n - 1] + DigitValue(text[n])
                IN  value[DigitCount(text)]

\* the place of a character from place i on, 0 if it is not there (strchr)
Find(text, c, i) == LET at == {j \in i..Len(text) : text[j] = c}
                    IN  IF at = {} THEN 0 ELSE Min(at)

\* what strtol reads of a text that starts with no space: how many characters,
\* none when there is no digit, and the value of the digits, negated by a minus
Strtol(text) ==
    LET sign == IF text # <<>> /\ text[1] \in {"-", "+"} THEN 1 ELSE 0
        digits == From(text, 1 + sign)
        n == DigitCount(digits)
    IN  [length |-> IF n = 0 THEN 0 ELSE sign + n,
         value |-> IF sign = 1 /\ text[1] = "-" THEN -Number(digits) ELSE Number(digits)]

\* %d of a number that is not negative
Decimal(n) == LET text[k \in 0..n] == IF k < 10 THEN <<Digits[k + 1]>>
                                      ELSE Append(text[k \div 10], Digits[(k % 10) + 1])
              IN  text[n]

=============================================================================
