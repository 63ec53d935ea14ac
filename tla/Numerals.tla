------------------------------ MODULE Numerals ------------------------------
(***************************************************************************)
(* How numbers are read: parse_ull of src/src/mainfun.c, parseUint32 of    *)
(* the LuCI page and the range() it declares for its other numbers.  A     *)
(* text is typed character by character; all of them look at every text    *)
(* there is.  Digits and the x of 0x stand for either case of theirs.      *)
(***************************************************************************)
EXTENDS Integers, Sequences, SequencesExt, FiniteSetsExt

CONSTANTS MaxText,  \* bound: the longest text
          UllMax,   \* ULLONG_MAX
          Uint32Max, \* of the marks
          Typed     \* bound: the characters that are typed

VARIABLE text

Digit == <<"0", "1", "2", "3", "4", "5", "6", "7", "8", "9", "a", "b", "c", "d", "e", "f">>
DigitOf == [c \in ToSet(Digit) |-> (CHOOSE i \in DOMAIN Digit : Digit[i] = c) - 1]
Space == {" "}
Sign  == {"+", "-"}
Char  == DOMAIN DigitOf \cup Space \cup Sign \cup {"x", "."}

Refused == -1

(* What fits in 32 bits fits in an unsigned long long.                      *)
ASSUME NumeralsAssumption == UllMax \in Nat /\ Uint32Max \in 0..UllMax
ASSUME TypedAssumption == Typed \subseteq Char

TextInit == text = <<>>
TextNext == Len(text) < MaxText /\ \E c \in Typed : text' = Append(text, c)
TextSpec == TextInit /\ [][TextNext]_text
-----------------------------------------------------------------------------
IsDigit(c, base) == c \in DOMAIN DigitOf /\ DigitOf[c] < base
ValueOf(s, base) == FoldLeft(LAMBDA v, c : v * base + DigitOf[c], 0, s)

(* The positions from i on where digits go on.                              *)
DigitsFrom(s, i, base) == {j \in i..Len(s) : \A k \in i..j : IsDigit(s[k], base)}

At(s, i, cs) == i <= Len(s) /\ s[i] \in cs

(* strtoull: space and a sign are skipped, and 0x if the base is 16 and a   *)
(* digit follows.  What comes after the digits is left over.                *)
FirstOther(s, cs) == CHOOSE i \in 1..(Len(s) + 1) : ~At(s, i, cs) /\ \A j \in 1..(i - 1) : At(s, j, cs)
Strtoull(s, base) ==
  LET unspaced == FirstOther(s, Space)
      unsigned == IF At(s, unspaced, Sign) THEN unspaced + 1 ELSE unspaced
      prefixed == /\ base = 16 /\ At(s, unsigned, {"0"}) /\ At(s, unsigned + 1, {"x"})
                  /\ unsigned + 2 <= Len(s) /\ IsDigit(s[unsigned + 2], 16)
      first    == IF prefixed THEN unsigned + 2 ELSE unsigned
      last     == first + Cardinality(DigitsFrom(s, first, base)) - 1
      value    == ValueOf(SubSeq(s, first, last), base)
      fits     == value <= UllMax
  IN  [value    |-> IF ~fits THEN UllMax
                    ELSE IF At(s, unspaced, {"-"}) THEN (UllMax + 1 - value) % (UllMax + 1) ELSE value,
       overflow |-> ~fits,
       end      |-> IF last < first THEN 0 ELSE last]

(* Mutant: a leading zero means octal, as with base 0. *)
BaseOctal(s) == IF At(s, 1, {"0"}) THEN IF At(s, 2, {"x"}) THEN 16 ELSE 8 ELSE 10
Base(s) == IF At(s, 1, {"0"}) /\ At(s, 2, {"x"}) THEN 16 ELSE 10

parse_ull(s) ==
  IF s = <<>> \/ s[1] \in Sign \cup Space THEN Refused
  ELSE LET r == Strtoull(s, Base(s)) IN
       IF r.overflow \/ r.end # Len(s) THEN Refused ELSE r.value
-----------------------------------------------------------------------------
Trim(s) ==
  LET kept == {i \in 1..Len(s) : s[i] \notin Space} IN
  IF kept = {} THEN <<>>
  ELSE SubSeq(s, CHOOSE i \in kept : \A j \in kept : i <= j, CHOOSE i \in kept : \A j \in kept : j <= i)

AllDigits(s, from, base) == from <= Len(s) /\ \A i \in from..Len(s) : IsDigit(s[i], base)
Hexadecimal(s) == At(s, 1, {"0"}) /\ At(s, 2, {"x"}) /\ AllDigits(s, 3, 16)

Pattern(s) == Hexadecimal(s) \/ AllDigits(s, 1, 10)

NumberOf(s) == IF Hexadecimal(s) THEN ValueOf(SubSeq(s, 3, Len(s)), 16) ELSE ValueOf(s, 10)

parseUint32(value) ==
  LET s == Trim(value) IN
  IF Pattern(s) /\ NumberOf(s) \in 1..Uint32Max THEN NumberOf(s) ELSE Refused

(* range(lo, hi) of LuCI: digits, a minus in front and a fraction behind     *)
(* them are taken, and what they say as a number is compared.               *)
Dot(s) == IF \E i \in 1..Len(s) : s[i] = "." THEN CHOOSE i \in 1..Len(s) : s[i] = "." ELSE Len(s) + 1
Whole(s) == SubSeq(s, IF At(s, 1, {"-"}) THEN 2 ELSE 1, Dot(s) - 1)
Decimal(s) == AllDigits(Whole(s), 1, 10) /\ (Dot(s) <= Len(s) => AllDigits(s, Dot(s) + 1, 10))
WholeOf(s) == ValueOf(Whole(s), 10)
HasFraction(s) == \E i \in (Dot(s) + 1)..Len(s) : s[i] # "0"
InRange(s, lo, hi) ==
  /\ Decimal(s)
  /\ WholeOf(s) \in lo..hi /\ (WholeOf(s) = hi => ~HasFraction(s))
  /\ At(s, 1, {"-"}) => WholeOf(s) = 0 /\ ~HasFraction(s)
(* What is more than zero to Number().                                      *)
Positive(s) == ~At(s, 1, {"-"}) /\ (WholeOf(s) > 0 \/ HasFraction(s))

(* The value of -m and -x.                                                  *)
MarkValue(s) == IF parse_ull(s) \in 1..Uint32Max THEN parse_ull(s) ELSE Refused
-----------------------------------------------------------------------------
(* parse_ull takes decimal numerals, with or without leading zeros, and     *)
(* hexadecimal ones with 0x, and nothing else; it returns their value and   *)
(* refuses what does not fit (mainfun.c:101-122).                           *)
ParserExact ==
  parse_ull(text) = IF Pattern(text) /\ NumberOf(text) <= UllMax THEN NumberOf(text) ELSE Refused

(* A mark the page lets through, and that has no space around it, the       *)
(* daemon takes for the same number (fakesip.js:114-126, mainfun.c:274-281).*)
PageWithinParser ==
  text = Trim(text) /\ parseUint32(text) # Refused => MarkValue(text) = parseUint32(text)

(* A mark is the same number to the page, where it passes it, and to the    *)
(* daemon, which takes numerals and nothing else (fakesip.js:114-126,       *)
(* mainfun.c:101-122).                                                      *)
SameNumbers == ParserExact /\ PageWithinParser
=============================================================================
