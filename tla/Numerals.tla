------------------------------- MODULE Numerals -------------------------------
(***************************************************************************)
(* Numbers and their digits, as the programs read and write them.          *)
(***************************************************************************)
EXTENDS Integers, SequencesExt, FiniteSetsExt

Digit == 0 .. 9

\* The loop that is written out in char_to_int and parse_cmd_to_port and that
\* std::stoi stands for.
Number(s) == FoldLeft(LAMBDA n, d : 10 * n + d, 0, s)

\* The digits int_to_str puts in front of each other.
Numeral[n \in Nat] ==
  IF n < 10 THEN <<n>> ELSE Append(Numeral[n \div 10], n % 10)

-----------------------------------------------------------------------------
\* What a text of digits says, by the weight of its places.
Weight[k \in Nat] == IF k = 0 THEN 1 ELSE 10 * Weight[k - 1]

Value(s) == MapThenSumSet(LAMBDA i : s[i] * Weight[Len(s) - i], DOMAIN s)
=============================================================================
