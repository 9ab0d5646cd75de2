------------------------------ MODULE VinDecoder ------------------------------
(***************************************************************************)
(* decode() of src/vin/decoder.py on VINs as they are entered: right, with *)
(* a character mistyped, with two neighbours exchanged, or with one left   *)
(* out.                                                                    *)
(*                                                                         *)
(* A VIN is a sequence of characters after strip() and upper(), so "a" and *)
(* "A" are one character here.  "-" stands for every character that has no *)
(* value.  Manufacturers and the split into WMI, VDS and VIS are left out. *)
(***************************************************************************)
EXTENDS Naturals, Sequences, SequencesExt

CONSTANT Vins  \* VINs of cars, whose check digit and year code are right

Digits  == <<"0", "1", "2", "3", "4", "5", "6", "7", "8", "9">>
Letters == <<"A", "B", "C", "D", "E", "F", "G", "H", "J", "K", "L", "M", "N", "P", "R", "S",
             "T", "U", "V", "W", "X", "Y", "Z">>
LetterValues == <<1, 2, 3, 4, 5, 6, 7, 8, 1, 2, 3, 4, 5, 7, 9, 2, 3, 4, 5, 6, 7, 8, 9>>
Disallowed == {"I", "O", "Q"}

Char == ToSet(Digits) \cup ToSet(Letters) \cup Disallowed \cup {"-"}
Transliterated == ToSet(Digits) \cup ToSet(Letters)

\* _TRANSLITERATION
Transliteration == [c \in Transliterated |->
  IF c \in ToSet(Digits) THEN (CHOOSE i \in DOMAIN Digits : Digits[i] = c) - 1
  ELSE LetterValues[CHOOSE i \in DOMAIN Letters : Letters[i] = c]]

Weights == <<8, 7, 6, 5, 4, 3, 2, 10, 0, 9, 8, 7, 6, 5, 4, 3, 2>>

\* _YEAR_CODES, in the order of the years 2001 to 2030.
YearCodes == <<"1", "2", "3", "4", "5", "6", "7", "8", "9", "A", "B", "C", "D", "E", "F", "G",
               "H", "J", "K", "L", "M", "N", "P", "R", "S", "T", "V", "W", "X", "Y">>

VARIABLES
  entered, \* what was entered
  meant,   \* the VIN of the car it was read from
  slip,    \* what went wrong: "none", "mistyped", "swapped" or "missing",
           \* "unread" before it is decoded
  at,      \* at which character
  errors,  \* DecodedVIN.errors; `valid` says whether there are none
  year     \* DecodedVIN.model_year, 0 for None

vinVars == <<entered, meant, slip, at, errors, year>>

VinInit ==
  /\ meant \in Vins /\ entered = meant
  /\ slip = "unread" /\ at = 0
  /\ errors = {} /\ year = 0

\* The loop of validate_check_digit over the 17 characters.
Term(v, i) == Transliteration[v[i]] * Weights[i]
Total(v) ==
  (Term(v, 1) + Term(v, 2) + Term(v, 3) + Term(v, 4) + Term(v, 5) + Term(v, 6))
  + (Term(v, 7) + Term(v, 8) + Term(v, 9) + Term(v, 10) + Term(v, 11) + Term(v, 12))
  + (Term(v, 13) + Term(v, 14) + Term(v, 15) + Term(v, 16) + Term(v, 17))

CheckDigit(remainder) == IF remainder = 10 THEN "X" ELSE Digits[remainder + 1]

\* Faulty variant of ExpectedCheckDigit: a character without a value counts as 0.
ExpectedCheckDigitOfAny(v) ==
  CheckDigit(Total([i \in DOMAIN v |-> IF v[i] \in Transliterated THEN v[i] ELSE "0"]) % 11)

\* validate_check_digit: the expected check digit, "?" without a remainder.
ExpectedCheckDigit(v) ==
  IF \E i \in DOMAIN v : v[i] \notin Transliterated THEN "?" ELSE CheckDigit(Total(v) % 11)

ModelYear(v) ==
  IF Len(v) >= 10 /\ v[10] \in ToSet(YearCodes)
  THEN 2000 + (CHOOSE i \in DOMAIN YearCodes : YearCodes[i] = v[10]) ELSE 0

\* The check digit is looked at only if length and alphabet are right.
ErrorsOf(v) ==
  LET form == (IF Len(v) # 17 THEN {"length"} ELSE {})
              \cup (IF ToSet(v) \cap Disallowed # {} THEN {"alphabet"} ELSE {})
  IN  form
      \cup (IF form = {} /\ ExpectedCheckDigit(v) # v[9] THEN {"check digit"} ELSE {})
      \cup (IF Len(v) >= 10 /\ ModelYear(v) = 0 THEN {"year"} ELSE {})

ASSUME VinConstantsOK ==
  \A v \in Vins : v \in [1..17 -> Transliterated] /\ ErrorsOf(v) = {}

\* decode() of the VIN that is entered.
Decode(v) ==
  /\ slip = "unread"
  /\ entered' = v
  /\ errors' = ErrorsOf(v) /\ year' = ModelYear(v)
  /\ UNCHANGED meant

DecodeRight == Decode(meant) /\ slip' = "none" /\ at' = 0

DecodeMistyped(i, c) ==
  /\ c # meant[i]
  /\ Decode([meant EXCEPT ![i] = c]) /\ slip' = "mistyped" /\ at' = i

DecodeSwapped(i) ==
  /\ meant[i] # meant[i + 1]
  /\ Decode([meant EXCEPT ![i] = meant[i + 1], ![i + 1] = meant[i]])
  /\ slip' = "swapped" /\ at' = i

DecodeMissing(i) == Decode(RemoveAt(meant, i)) /\ slip' = "missing" /\ at' = i

VinNext ==
  \/ DecodeRight
  \/ \E i \in 1..17 : DecodeMissing(i) \/ \E c \in Char : DecodeMistyped(i, c)
  \/ \E i \in 1..16 : DecodeSwapped(i)

VinSpec == VinInit /\ [][VinNext]_vinVars
-----------------------------------------------------------------------------
Years == {0} \cup 2001..2030

VinTypeOK ==
  /\ entered \in Seq(Char) /\ Len(entered) \in {16, 17} /\ meant \in Vins
  /\ slip \in {"unread", "none", "mistyped", "swapped", "missing"} /\ at \in 0..17
  /\ errors \subseteq {"length", "alphabet", "check digit", "year"}
  /\ year \in Years

SameValue(c, d) ==
  c \in Transliterated /\ d \in Transliterated /\ Transliteration[c] = Transliteration[d]

(* The VIN of a car is accepted.  One that was entered wrong is accepted     *)
(* only if the check digit cannot tell: a character of the same value, away  *)
(* from the check digit, was typed; two neighbours of the same value were    *)
(* exchanged; the check digit and the eighth character were, both digits; or *)
(* the check digit and the year code were, one a 4 and one an X.             *)
SlipsDetected ==
  /\ slip = "none" => errors = {}
  /\ errors = {} =>
       \/ slip \in {"unread", "none"}
       \/ slip = "mistyped" /\ at # 9 /\ SameValue(entered[at], meant[at])
       \/ slip = "swapped" /\ at \notin {8, 9} /\ SameValue(meant[at], meant[at + 1])
       \/ slip = "swapped" /\ at = 8 /\ {meant[8], meant[9]} \subseteq ToSet(Digits)
       \/ slip = "swapped" /\ at = 9 /\ {meant[9], meant[10]} = {"4", "X"}
===============================================================================
