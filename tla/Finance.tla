------------------------------- MODULE Finance -------------------------------
(***************************************************************************)
(* Reading and judging financial answers: finance/numeric.ts parses a      *)
(* text, finance/compare.ts compares two.                                  *)
(*                                                                         *)
(* A text is what the parser's patterns find in it: parentheses, a sign,   *)
(* currency symbols and a code, a unit, and numbers, each a row of runs of *)
(* digits with separators between them, an exponent of ten or Missing, and *)
(* scale words after it.  Values are integers of 10^-Places, and products  *)
(* of floating point numbers are exact.                                    *)
(***************************************************************************)
EXTENDS Integers, Sequences, FiniteSetsExt, Functions

CONSTANTS Places,       \* decimal places kept
          ScaleFactor,  \* SCALE_WORDS: word -> factor
          SymbolCode,   \* both symbol tables: symbol -> currency code
          Missing       \* a code, a unit or an exponent the text does not carry

ASSUME FinanceAssumption == Places \in Nat /\ Range(ScaleFactor) \subseteq Nat \ {0}

-----------------------------------------------------------------------------
(* Parsing *)

Failure(reason) == [ok |-> FALSE, reason |-> reason]

GroupSep(locale) == IF locale = "en" THEN "," ELSE "."
DecimalSep(locale) == IF locale = "en" THEN "." ELSE ","
Separators(token, sep) == {i \in DOMAIN token.seps : token.seps[i] = sep}

\* The digits of all runs as one number.
Digits(runs) ==
  LET Upto[i \in 0..Len(runs)] ==
        IF i = 0 THEN 0 ELSE Upto[i - 1] * 10 ^ runs[i].length + runs[i].value
  IN  Upto[Len(runs)]

\* Every group separator is dropped, one after the decimal separator too.
DecodeDigits(token, locale) ==
  LET groupSeps == Separators(token, GroupSep(locale))
      decimals == Separators(token, DecimalSep(locale))
      \* the runs before the decimal separator, and those after it
      whole == IF decimals = {} THEN Len(token.runs) ELSE Min(decimals)
      Length(i) == token.runs[i].length
      precision == MapThenSumSet(Length, whole + 1..Len(token.runs))
  IN  IF Cardinality(decimals) > 1 THEN Failure("MALFORMED_GROUPING")
      ELSE IF /\ groupSeps # {}
              /\ \/ token.runs[1].length \notin 1..3
                 \/ \E i \in 2..whole : token.runs[i].length # 3
      THEN Failure("AMBIGUOUS_SEPARATOR")
      ELSE [ok |-> TRUE, digits |-> Digits(token.runs), precision |-> precision]

\* How many digits a whole number is written with, up to nine.
Width(n) == Min({w \in 1..9 : n < 10 ^ w})

\* A number as String() writes it.
WrittenOut(amount) ==
  LET whole == amount \div 10 ^ Places
      rest == amount % 10 ^ Places
      width == Min({w \in 0..Places : rest % 10 ^ (Places - w) = 0})
  IN  <<[value |-> whole, length |-> Width(whole)]>> \o
        IF width = 0 THEN <<>>
        ELSE <<[value |-> rest \div 10 ^ (Places - width), length |-> width]>>

\* The last runs of a number, from "first" on, written out as another amount.
Rewritten(token, first, runs) ==
  [token EXCEPT !.runs = SubSeq(@, 1, first - 1) \o runs,
                !.seps = SubSeq(@, 1, first - 1) \o IF Len(runs) = 2 THEN <<".">> ELSE <<>>,
                !.exponent = Missing]

\* "1.25e1": the last run is the mantissa, with the one before it and a "." between,
\* whatever the locale.  What String() would write with an exponent again is left alone.
ExpandedFrom(token, first, mantissa, power) ==
  IF mantissa # 0 /\ Width(mantissa) - 1 + power \notin -6..20 THEN token
  ELSE Rewritten(token, first, WrittenOut(mantissa * 10 ^ (Places + power)))

Expanded(token) ==
  LET last == Len(token.runs)
      fraction == last > 1 /\ token.seps[last - 1] = "."
      first == IF fraction THEN last - 1 ELSE last
  IN  IF token.exponent = Missing THEN token
      ELSE ExpandedFrom(token, first, Digits(SubSeq(token.runs, first, last)),
                        token.exponent - IF fraction THEN token.runs[last].length ELSE 0)

CurrenciesFound(text) ==
  {SymbolCode[s] : s \in text.symbols} \union ({text.code} \ {Missing})

ScalesFound(text) == UNION {Range(text.numbers[i].scales) : i \in DOMAIN text.numbers}

\* An exponent that was left alone is one number more.
ReadNumbers(text, numbers, decoded) ==
  LET scale == IF ScalesFound(text) = {} THEN 1
               ELSE ScaleFactor[CHOOSE w \in ScalesFound(text) : TRUE]
      negative == text.parentheses = "around" \/ text.sign = "minus"
      magnitude == decoded.digits * scale * 10 ^ (Places - decoded.precision)
  IN  IF numbers = <<>> THEN Failure("NO_DIGITS")
      ELSE IF \E i \in DOMAIN numbers : Len(numbers[i].scales) > 1
      THEN Failure("MULTIPLE_SCALES")
      ELSE IF text.parentheses = "around" /\ text.sign = "minus" THEN Failure("UNPARSEABLE")
      ELSE IF Cardinality(CurrenciesFound(text)) > 1 THEN Failure("MULTIPLE_CURRENCIES")
      ELSE IF Cardinality(ScalesFound(text)) > 1 THEN Failure("MULTIPLE_SCALES")
      ELSE IF Len(numbers) > 1 \/ numbers[1].exponent # Missing THEN Failure("UNPARSEABLE")
      ELSE IF ~decoded.ok THEN decoded
      ELSE [ok |-> TRUE, value |-> IF negative THEN -magnitude ELSE magnitude,
            currency |-> IF CurrenciesFound(text) = {} THEN Missing
                         ELSE CHOOSE c \in CurrenciesFound(text) : TRUE,
            unit |-> IF text.unit = Missing THEN "absolute" ELSE text.unit,
            unitExplicit |-> text.unit # Missing]

ParseFinancialNumber(text, locale) ==
  LET numbers == [i \in DOMAIN text.numbers |-> Expanded(text.numbers[i])]
  IN  ReadNumbers(text, numbers, DecodeDigits(numbers[1], locale))

-----------------------------------------------------------------------------
(* Comparing *)

IsFractionUnit(unit) == unit \in {"percent", "bps", "ratio"}

PerOne(unit) == CASE unit = "percent" -> 100 [] unit = "bps" -> 10000 [] OTHER -> 1

\* A part of one, in units of which there are "one" to one.
ToRatio(value, unit, one) == value * (one \div PerOne(unit))

AbsVal(x) == IF x < 0 THEN -x ELSE x

\* Rounded to the nearest, a tie upwards, as Math.round does.
ToSignificantFigures(value, digits) ==
  LET magnitude == CHOOSE m \in 0..9 :
        10 ^ m >= AbsVal(value) /\ \A lower \in 0..m - 1 : 10 ^ lower < AbsVal(value)
      step == 10 ^ (magnitude - digits)
  IN  IF value = 0 \/ magnitude <= digits THEN value
      ELSE ((value + step \div 2) \div step) * step

WithinTolerance(expected, actual, tolerance, one) ==
  CASE tolerance.kind = "exact" -> expected = actual
    [] tolerance.kind = "absolute" -> AbsVal(actual - expected) <= tolerance.value * one
    [] tolerance.kind = "relative" ->
         IF expected = 0 THEN actual = 0
         ELSE AbsVal(actual - expected) <= AbsVal(expected) \div tolerance.part
    [] tolerance.kind = "significantFigures" ->
         ToSignificantFigures(expected, tolerance.digits)
           = ToSignificantFigures(actual, tolerance.digits)

\* Seeded fault: a bare number passes where the task wants its unit stated.
UnitProblemLenient(expected, actual, options) ==
  actual.unitExplicit /\ IsFractionUnit(expected.unit) # IsFractionUnit(actual.unit)

\* A rate against a quantity, or a bare number where the unit must be stated.
UnitProblem(expected, actual, options) ==
  \/ actual.unitExplicit /\ IsFractionUnit(expected.unit) # IsFractionUnit(actual.unit)
  \/ expected.unitExplicit /\ ~actual.unitExplicit /\ options.requireExplicitUnit

CurrencyProblem(expected, actual, options) ==
  /\ expected.currency # Missing
  /\ expected.currency # actual.currency
  /\ actual.currency # Missing \/ options.requireCurrency

CompareParsed(expected, actual, options) ==
  LET read == IF actual.unitExplicit THEN actual.unit
              ELSE IF IsFractionUnit(expected.unit) THEN options.bareNumberUnit
              ELSE "absolute"
      one == Max({PerOne(expected.unit), PerOne(read)})
  IN  IF CurrencyProblem(expected, actual, options) THEN "INCOMPARABLE_CURRENCY"
      ELSE IF UnitProblem(expected, actual, options) THEN "INCOMPARABLE_UNITS"
      ELSE IF WithinTolerance(ToRatio(expected.value, expected.unit, one),
                              ToRatio(actual.value, read, one), options.tolerance, one)
      THEN "EQUIVALENT" ELSE "DIFFERENT"

\* Which side could be read is kept: the score depends on it.
CompareRead(expected, actual, options) ==
  [expectedRead |-> expected.ok,
   verdict |-> IF ~expected.ok \/ ~actual.ok THEN "UNPARSEABLE"
               ELSE CompareParsed(expected, actual, options)]

CompareFinancialAnswers(expectedText, actualText, options) ==
  CompareRead(ParseFinancialNumber(expectedText, options.locale),
              ParseFinancialNumber(actualText, options.locale), options)

IsCorrect(verdict) == verdict = "EQUIVALENT"
CountsTowardScore(comparison) ==
  comparison.verdict # "UNPARSEABLE" \/ comparison.expectedRead

-----------------------------------------------------------------------------
(* What judging an answer promises *)

\* The same text in the other convention: every separator exchanged.
Transposed(text) ==
  [text EXCEPT !.numbers = [i \in DOMAIN text.numbers |->
     [text.numbers[i] EXCEPT !.seps = [j \in DOMAIN text.numbers[i].seps |->
        IF text.numbers[i].seps[j] = "," THEN "." ELSE ","]]]]

\* A "." of exponent notation is the same in every convention, and a "," is none of it.
WithoutExponent(text) == \A i \in DOMAIN text.numbers : text.numbers[i].exponent = Missing
WithoutComma(text) == \A i \in DOMAIN text.numbers : Separators(text.numbers[i], ",") = {}

\* Exponents one higher.
Raised(text) ==
  [text EXCEPT !.numbers = [i \in DOMAIN text.numbers |->
     [text.numbers[i] EXCEPT !.exponent = IF @ = Missing THEN @ ELSE @ + 1]]]

\* The same amount written with a minus instead of parentheses, and the other way.
Resigned(text) ==
  CASE text.parentheses = "around" /\ text.sign = "none" ->
         [text EXCEPT !.parentheses = "none", !.sign = "minus"]
    [] text.parentheses = "none" /\ text.sign = "minus" ->
         [text EXCEPT !.parentheses = "around", !.sign = "none"]
    [] OTHER -> text

\* Two answers that were read: a rate never equals a quantity, nor one currency another;
\* what is exactly equal is equal under every tolerance; where both sides state as much,
\* judging is symmetric; an expected answer nobody can read never counts against a model,
\* anything else does.
ReadJudged(e, a, there, options) ==
  /\ IsCorrect(there.verdict) =>
       /\ ~(e.currency # Missing /\ a.currency # Missing /\ e.currency # a.currency)
       /\ a.unitExplicit => IsFractionUnit(a.unit) = IsFractionUnit(e.unit)
       /\ ~a.unitExplicit /\ e.unitExplicit => ~options.requireExplicitUnit
  /\ IsCorrect(CompareRead(e, a, [options EXCEPT !.tolerance = [kind |-> "exact"]]).verdict) =>
       IsCorrect(there.verdict)
  /\ (/\ e.ok /\ a.ok /\ e.unitExplicit = a.unitExplicit
      /\ (e.currency = Missing) = (a.currency = Missing)
      /\ options.tolerance.kind # "relative") =>
       CompareRead(a, e, options).verdict = there.verdict
  /\ CountsTowardScore(there) <=> e.ok

\* An answer is judged by what it says and not by how it is written: the other way to
\* write a negative changes nothing, nor do the other locale's separators, but for exponent
\* notation: every locale reads its "." as the decimal separator, and with a "," its
\* digits may be misread.  Without one, an exponent one higher is ten times as much
\* wherever both can be read.
SameHoweverWritten(expected, actual, there, options) ==
  LET other == [options EXCEPT !.locale = IF options.locale = "en" THEN "eu" ELSE "en"]
  IN  /\ WithoutExponent(expected) /\ WithoutExponent(actual) =>
           CompareFinancialAnswers(Transposed(expected), Transposed(actual), other) = there
      /\ CompareFinancialAnswers(expected, Resigned(actual), options) = there

TenTimes(a, raised) == a.ok /\ raised.ok => raised.value = 10 * a.value

AnswersJudged(expected, actual, options) ==
  LET there == CompareFinancialAnswers(expected, actual, options)
  IN  /\ SameHoweverWritten(expected, actual, there, options)
      /\ ReadJudged(ParseFinancialNumber(expected, options.locale),
                    ParseFinancialNumber(actual, options.locale), there, options)
      /\ ~WithoutExponent(actual) /\ WithoutComma(actual) =>
           TenTimes(ParseFinancialNumber(actual, options.locale),
                    ParseFinancialNumber(Raised(actual), options.locale))

=============================================================================
