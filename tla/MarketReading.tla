--------------------------- MODULE MarketReading ---------------------------
(***************************************************************************)
(* How the market collector reads one price and dates it                   *)
(* (afra_market_data/core.py): extract_source tries the extractors of a    *)
(* source in turn, takes a number out of the text and converts it to       *)
(* toman; the observation carries the Jalali date of the moment in Tehran. *)
(* Both are arithmetic: the module writes prices the ways the sources do   *)
(* and lets the days go by, and compares.                                  *)
(*                                                                         *)
(* A character is a number: 0-9, 10-19 and 20-29 are the Latin, Persian    *)
(* and Arabic digits; the others are named below.                          *)
(***************************************************************************)
EXTENDS Integers, Sequences, SequencesExt

CONSTANTS
    Price,          \* prices in toman that a source may show, by their digits
    FirstDay,       \* Gregorian days on which a behaviour may begin
    Span            \* bound: years that end in a behaviour

ASSUME ReadingAssumption == Price \subseteq Seq(0 .. 9) \ {<<>>} /\ Span \in Nat

VARIABLES
    utc,            \* the day and the half hour of the day, in UTC
    begun,          \* the day on which the behaviour began
    observed        \* the last observation and what the source showed

readingVars == <<utc, begun, observed>>

Comma == 30
Thousands == 31
ArabicDecimal == 32
Space == 33
Point == 34
Minus == 35
Letter == 36
NoText == <<>>
NoPrice == [ok |-> FALSE, value |-> 0]
Nothing == [shown |-> 0, tail |-> <<>>, price |-> NoPrice]

-----------------------------------------------------------------------------
(* A number out of a text.                                                 *)

Character == 0 .. Letter
IsDigit(c) == c < 30

\* Mutant: the separator of Persian thousands is not dropped.
DroppedLatin == {Comma, ArabicDecimal, Space}

\* What clean_number removes wherever it stands.
Dropped == {Comma, Thousands, ArabicDecimal, Space}

\* The search for a number, before, in or after its digits; the minus is what
\* stands next to the first of them.  What is removed beforehand is passed over.
Search == [at : {"before", "in", "after"}, minus : BOOLEAN, value : Nat]
Start == [at |-> "before", minus |-> FALSE, value |-> 0]

Reads ==
    [c \in Character |-> [s \in Search |->
        IF c \in Dropped \/ s.at = "after" THEN s
        ELSE IF IsDigit(c) THEN [at |-> "in", minus |-> s.minus, value |-> 10 * s.value + (c % 10)]
        ELSE IF s.at = "in" THEN [s EXCEPT !.at = "after"]
        ELSE [s EXCEPT !.minus = (c = Minus)]]]

\* What is reached from `first` along a list.
Along(list, next, first) ==
    LET reached[i \in 0 .. Len(list)] ==
            IF i = 0 THEN first ELSE next[list[i]][reached[i - 1]]
    IN  reached[Len(list)]

\* clean_number: an empty text has no number.
CleanNumber(text) ==
    LET search == Along(text, Reads, Start)
    IN  [ok |-> search.at # "before",
         value |-> IF search.minus THEN -search.value ELSE search.value]

\* normalize: round() takes a half to the even neighbour.
InToman(value, unit) ==
    LET tens == value \div 10 IN
    IF unit # "rial" THEN value
    ELSE IF value % 10 > 5 \/ (value % 10 = 5 /\ tens % 2 = 1) THEN tens + 1 ELSE tens

\* extract_source on what its extractors return, NoText for one that fails; a
\* manual source has one that never does.
ExtractSource(texts, unit) ==
    LET found == {i \in DOMAIN texts : texts[i] # NoText}
        number == CleanNumber(texts[Min(found)])
    IN  IF found = {} \/ ~number.ok THEN NoPrice
        ELSE [ok |-> TRUE, value |-> InToman(number.value, unit)]

-----------------------------------------------------------------------------
(* The calendar.                                                           *)

DaysBefore == <<0, 31, 59, 90, 120, 151, 181, 212, 243, 273, 304, 334>>

\* The first of four years is the long one, and it is over.
IsLate(inFour) == inFour > 365

\* gregorian_to_jalali, for the years after 1600: the days since the year 979.
DayNumber(g) ==
    LET y == g.year - 1600
        y2 == IF g.month > 2 THEN y + 1 ELSE y
    IN  365 * y + (y2 + 3) \div 4 - (y2 + 99) \div 100 + (y2 + 399) \div 400
        - 80 + g.day + DaysBefore[g.month]

Jalali(g) ==
    LET all == DayNumber(g)
        inCycle == all % 12053
        inFour == inCycle % 1461
        days == IF IsLate(inFour) THEN (inFour - 1) % 365 ELSE inFour
    IN  [year |-> 979 + 33 * (all \div 12053) + 4 * (inCycle \div 1461)
                  + (IF IsLate(inFour) THEN (inFour - 1) \div 365 ELSE 0),
         month |-> IF days < 186 THEN 1 + days \div 31 ELSE 7 + (days - 186) \div 30,
         day |-> 1 + (IF days < 186 THEN days % 31 ELSE (days - 186) % 30)]

\* The library's calendar.
GregorianLength(y, m) ==
    CASE m = 2 -> IF (y % 4 = 0 /\ y % 100 # 0) \/ y % 400 = 0 THEN 29 ELSE 28
      [] m \in {4, 6, 9, 11} -> 30
      [] OTHER -> 31

IsDate(g) ==
    /\ g \in [year : Int, month : 1 .. 12, day : Int]
    /\ 1 <= g.day /\ g.day <= GregorianLength(g.year, g.month)

ASSUME CalendarAssumption == \A g \in FirstDay : IsDate(g) /\ g.year > 1600

DayAfter(g) ==
    IF g.day < GregorianLength(g.year, g.month) THEN [g EXCEPT !.day = @ + 1]
    ELSE IF g.month < 12 THEN [g EXCEPT !.month = @ + 1, !.day = 1]
    ELSE [year |-> g.year + 1, month |-> 1, day |-> 1]

\* jalali_stamp: Tehran is three and a half hours ahead.
TehranDay(t) == IF t.half + 7 >= 48 THEN DayAfter(t.day) ELSE t.day
Stamp(t) == Jalali(TehranDay(t))

-----------------------------------------------------------------------------
(* What sources show.                                                      *)

\* The number that digits write.
Value(digits) == Along(digits, [c \in 0 .. 9 |-> [v \in Nat |-> 10 * v + c]], 0)

\* The digits in a script, with the thousands apart: every fourth character from
\* the right is a separator.
Grouped(digits, separator, script) ==
    LET length == Len(digits) + (Len(digits) - 1) \div 3
        after(p) == length - p
    IN  [p \in 1 .. length |->
            IF after(p) % 4 = 3 THEN separator
            ELSE 10 * script + digits[Len(digits) - after(p) + after(p) \div 4]]

\* The same price in rials.
InRials(digits) == IF digits = <<0>> THEN digits ELSE Append(digits, 0)

\* What follows the number: nothing, a unit, a fraction, or another number.
Tails == {<<>>, <<Space, Letter>>, <<Point, 4>>, <<ArabicDecimal, 4>>,
         <<Space, Letter, 4>>, <<Space, 4>>}

ReadingInit ==
    /\ begun \in FirstDay
    /\ utc = [day |-> begun, half |-> 0]
    /\ observed = Nothing

\* A source shows a price, in toman or in rials, and its first extractor or the
\* second finds it, or none.  (Bound: sources are read once, in the first half hour.)
Observe ==
  /\ utc = [day |-> begun, half |-> 0] /\ observed = Nothing
  /\ \E digits \in Price, unit \in {"toman", "rial"}, separator \in {Comma, Thousands, ArabicDecimal, Space},
       script \in 0 .. 2, tail \in Tails, missed \in 0 .. 1, found \in BOOLEAN :
        LET text == <<Letter>> \o Grouped(IF unit = "rial" THEN InRials(digits) ELSE digits, separator, script) \o tail
            texts == [i \in 1 .. missed |-> NoText] \o (IF found THEN <<text>> ELSE <<>>)
        IN  /\ observed' = [shown |-> Value(digits), tail |-> tail, price |-> ExtractSource(texts, unit)]
            /\ UNCHANGED <<utc, begun>>

HalfHour ==
    /\ utc' = IF utc.half < 47 THEN [utc EXCEPT !.half = @ + 1]
              ELSE [day |-> DayAfter(utc.day), half |-> 0]
    /\ utc'.day.year - begun.year <= Span
    /\ observed' = Nothing
    /\ UNCHANGED begun

ReadingNext == Observe \/ HalfHour
ReadingSpec == ReadingInit /\ [][ReadingNext]_readingVars

-----------------------------------------------------------------------------
(* Properties.                                                             *)

IsPlain(tail) == tail \in {<<>>, <<Space, Letter>>, <<Space, Letter, 4>>}

\* However a source writes its thousands and digits, in toman or in rials, the
\* price it shows is the price that is stored.  Three ways of writing are read
\* otherwise: a fraction after a point is lost in a toman price, a fraction
\* after the Arabic decimal separator and a number that only a space keeps
\* apart are read as further digits.
PriceIsRead ==
    /\ IsPlain(observed.tail) => observed.price.value = observed.shown
    /\ observed.tail = <<Point, 4>> => observed.price.value = observed.shown
    /\ ~IsPlain(observed.tail) /\ observed.tail # <<Point, 4>> =>
           observed.price.value \in 10 * observed.shown .. 10 * observed.shown + 4

\* The rule of the Jalali calendar: eight long years in thirty-three.
IsLong(year) == year % 33 \in {1, 5, 9, 13, 17, 22, 26, 30}
JalaliLength(j) ==
    IF j.month <= 6 THEN 31 ELSE IF j.month <= 11 \/ IsLong(j.year) THEN 30 ELSE 29
JalaliDayAfter(j) ==
    IF j.day < JalaliLength(j) THEN [j EXCEPT !.day = @ + 1]
    ELSE IF j.month < 12 THEN [j EXCEPT !.month = @ + 1, !.day = 1]
    ELSE [year |-> j.year + 1, month |-> 1, day |-> 1]

\* The date of an observation is that of the Jalali calendar: it changes at
\* midnight in Tehran, not in UTC, to the day that follows, over leap years of
\* both calendars; and the year 1403 began on 20 March 2024.
StampFollowsCalendar ==
    /\ [](TehranDay(utc) = [year |-> 2024, month |-> 3, day |-> 20] =>
              Stamp(utc) = [year |-> 1403, month |-> 1, day |-> 1])
    /\ [][utc' # utc =>
            Stamp(utc)' =
                IF utc.half + 7 = 47 THEN JalaliDayAfter(Stamp(utc)) ELSE Stamp(utc)]_readingVars

\* What is stored of a source is the price it showed and the day it showed it.
ReadingIsTrue == [](observed.price.ok => PriceIsRead) /\ StampFollowsCalendar
=============================================================================
