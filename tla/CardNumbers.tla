---------------------------- MODULE CardNumbers ----------------------------
(* CardBrandService: the checksum that decides whether checkout accepts a     *)
(* card number, and the brand patterns. A number is what sanitize leaves of   *)
(* it, separators removed: digits, or something else.                         *)
EXTENDS Integers, Sequences, SequencesExt

CONSTANTS
  MinDigits, MaxDigits,   \* accepted lengths: 13 and 19
  NotADigit

Digits == 0..9

ASSUME CardAssumption ==
  /\ MinDigits \in Nat \ {0} /\ MaxDigits \in Nat /\ MinDigits <= MaxDigits
  /\ NotADigit \in Int \ Digits

(* One length too short and one too long, besides those that may pass.        *)
Numbers ==
  UNION {[1..n -> Digits \cup {NotADigit}] : n \in (MinDigits - 1)..(MaxDigits + 1)}

allDigits(s) == \A i \in DOMAIN s : s[i] \in Digits

isDigits(s) == Len(s) \in MinDigits..MaxDigits /\ allDigits(s)

doubledOnly(digit) == digit * 2                              \* seeded fault
doubled(digit) == IF digit * 2 > 9 THEN digit * 2 - 9 ELSE digit * 2

addDigitDoublingFirst(digit, loop) ==                        \* seeded fault
  [sum |-> loop.sum + (IF loop.shouldDouble THEN digit ELSE doubled(digit)),
   shouldDouble |-> ~loop.shouldDouble]

(* One round of the loop.                                                     *)
addDigit(digit, loop) ==
  [sum |-> loop.sum + (IF loop.shouldDouble THEN doubled(digit) ELSE digit),
   shouldDouble |-> ~loop.shouldDouble]

(* The loop runs from the last digit to the first.                            *)
isValidNumber(s) ==
  /\ isDigits(s)
  /\ FoldRight(addDigit, s, [sum |-> 0, shouldDouble |-> FALSE]).sum % 10 = 0

-----------------------------------------------------------------------------
(* The brand patterns, on the first four digits of a number of n digits.      *)

isVisa(s, n) == s[1] = 4 /\ n \in {13, 16, 19}

isMastercardTo2719(s, n) ==                                  \* seeded fault
  /\ n = 16
  /\ \/ s[1] = 5 /\ s[2] \in 1..5
     \/ s[1] = 2 /\ s[2] = 2 /\ s[3] = 2 /\ s[4] \in 1..9
     \/ s[1] = 2 /\ s[2] = 2 /\ s[3] \in 3..9
     \/ s[1] = 2 /\ s[2] \in 3..6
     \/ s[1] = 2 /\ s[2] = 7 /\ s[3] \in {0, 1}

isMastercard(s, n) ==
  /\ n = 16
  /\ \/ s[1] = 5 /\ s[2] \in 1..5
     \/ s[1] = 2 /\ s[2] = 2 /\ s[3] = 2 /\ s[4] \in 1..9
     \/ s[1] = 2 /\ s[2] = 2 /\ s[3] \in 3..9
     \/ s[1] = 2 /\ s[2] \in 3..6
     \/ s[1] = 2 /\ s[2] = 7 /\ s[3] \in {0, 1}
     \/ s[1] = 2 /\ s[2] = 7 /\ s[3] = 2 /\ s[4] = 0

detectBrand(s, n) ==
  CASE isVisa(s, n)       -> "VISA"
    [] isMastercard(s, n) -> "MASTERCARD"
    [] OTHER              -> "UNKNOWN"

-----------------------------------------------------------------------------
(* What the two are meant to compute.                                         *)

(* The checksum as its standard defines it: counted from the check digit,     *)
(* every second digit is doubled and the digits of the products are added.    *)
luhnWeight(s, i) ==
  IF (Len(s) - i) % 2 = 0 THEN s[i] ELSE (2 * s[i]) \div 10 + ((2 * s[i]) % 10)

isLuhn(s) ==
  /\ isDigits(s)
  /\ SumFunction([i \in DOMAIN s |-> luhnWeight(s, i)]) % 10 = 0

swapped(s, i) == [s EXCEPT ![i] = s[i + 1], ![i + 1] = s[i]]

prefix(s) == 1000 * s[1] + 100 * s[2] + 10 * s[3] + s[4]
=============================================================================
