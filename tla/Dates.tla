------------------------------- MODULE Dates -------------------------------
(***************************************************************************)
(* Date, Time and DateTime (lib/datetime.cpp): their SQL text, the parser  *)
(* that reads it back, their order, and the way to time_t and back.        *)
(*                                                                         *)
(* A text is a sequence of characters; reading one past its last character *)
(* gives NUL, and a parser that goes further has overrun the buffer.       *)
(***************************************************************************)
EXTENDS Integers, Sequences
LOCAL INSTANCE SequencesExt
LOCAL INSTANCE FiniteSetsExt

Digit == <<"0", "1", "2", "3", "4", "5", "6", "7", "8", "9">>
IsDigit(c) == Contains(Digit, c)
DigitValue(c) == (CHOOSE i \in 1..10 : Digit[i] = c) - 1

Date(y, m, d) == [year |-> y, month |-> m, day |-> d]
Time(h, m, s) == [hour |-> h, minute |-> m, second |-> s]
DateTime(d, t) == [year |-> d.year, month |-> d.month, day |-> d.day,
                   hour |-> t.hour, minute |-> t.minute, second |-> t.second, now |-> FALSE]
\* The default constructor: all fields zero, and now_ set.
NOW == [year |-> 0, month |-> 0, day |-> 0, hour |-> 0, minute |-> 0, second |-> 0, now |-> TRUE]

DatePart(dt) == Date(dt.year, dt.month, dt.day)
TimePart(dt) == Time(dt.hour, dt.minute, dt.second)

\* The setters: any of them gives the object an explicit value.
With(dt, field, v) == [[dt EXCEPT ![field] = v] EXCEPT !.now = FALSE]

-----------------------------------------------------------------------------
(***************************************************************************)
(* operator <<.  setw() pads to a width and never truncates.               *)
(***************************************************************************)
Decimal[n \in Nat] == IF n < 10 THEN <<Digit[n + 1]>> ELSE Append(Decimal[n \div 10], Digit[(n % 10) + 1])

Setw(width, n) == LET s == Decimal[n] IN [i \in 1..(width - Len(s)) |-> "0"] \o s

\* Mutant: the month is inserted as it is.
DateTextUnpadded(d) == Setw(4, d.year) \o <<"-">> \o Decimal[d.month] \o <<"-">> \o Setw(2, d.day)

DateText(d) == Setw(4, d.year) \o <<"-">> \o Setw(2, d.month) \o <<"-">> \o Setw(2, d.day)
TimeText(t) == Setw(2, t.hour) \o <<":">> \o Setw(2, t.minute) \o <<":">> \o Setw(2, t.second)
DateTimeText(dt) ==
    IF dt.now THEN <<"NOW()">> ELSE DateText(DatePart(dt)) \o <<" ">> \o TimeText(TimePart(dt))

(***************************************************************************)
(* convert().  A field is read at its full width whatever is there and its *)
(* leading digits count; then one separator is skipped if there is one.    *)
(***************************************************************************)
NUL == "NUL"
At(s, i) == IF i \in DOMAIN s THEN s[i] ELSE NUL

Strtol(num) ==
    LET digits == SelectInSeq(num, LAMBDA c : ~IsDigit(c))
        used   == IF digits = 0 THEN num ELSE SubSeq(num, 1, digits - 1)
    IN FoldLeft(LAMBDA n, c : 10 * n + DigitValue(c), 0, used)

\* What a field leaves: its value, cut to the width of the member, and where
\* the next one starts.
UCHAR == 256
USHORT == 65536
Field(s, at, width, separator) ==
    [v |-> Strtol([i \in 1..width |-> At(s, at + i - 1)]) % (IF width = 4 THEN USHORT ELSE UCHAR),
     next |-> IF At(s, at + width) = separator THEN at + width + 1 ELSE at + width]

\* Three fields in a row, with a separator after the first two.
Fields(s, at, widths, separator) ==
    LET field[k \in 0..3] ==
          IF k = 0 THEN [v |-> 0, next |-> at]
          ELSE Field(s, field[k - 1].next, widths[k], IF k = 3 THEN NUL ELSE separator)
    IN field

\* "next" is one past what was read: past Len(s) + 2, the terminator was
\* passed over and what follows it was read.
DateIn(field) == [v |-> Date(field[1].v, field[2].v, field[3].v), next |-> field[2].next + 2]
TimeIn(field) == [v |-> Time(field[1].v, field[2].v, field[3].v), next |-> field[2].next + 2]

ConvertDate(s, at) == DateIn(Fields(s, at, <<4, 2, 2>>, "-"))
ConvertTime(s, at) == TimeIn(Fields(s, at, <<2, 2, 2>>, ":"))

Both(d, t) == [v |-> DateTime(d.v, t.v), next |-> t.next]
TimeAfter(s, d) == ConvertTime(s, IF At(s, d.next) = " " THEN d.next + 1 ELSE d.next)
ConvertDateTime(s) == Both(ConvertDate(s, 1), TimeAfter(s, ConvertDate(s, 1)))

-----------------------------------------------------------------------------
(***************************************************************************)
(* compare(), and the operators Comparable makes of it.                    *)
(***************************************************************************)
CompareDate(a, b) ==
    IF a.year # b.year THEN a.year - b.year
    ELSE IF a.month # b.month THEN a.month - b.month ELSE a.day - b.day
CompareTime(a, b) ==
    IF a.hour # b.hour THEN a.hour - b.hour
    ELSE IF a.minute # b.minute THEN a.minute - b.minute ELSE a.second - b.second

\* Mutant: the time decides only when the date is later.
CompareDateFirst(a, b) ==
    LET x == CompareDate(DatePart(a), DatePart(b)) IN
    IF a.now /\ b.now THEN 0 ELSE IF x > 0 THEN x ELSE CompareTime(TimePart(a), TimePart(b))

Compare(a, b) ==
    LET x == CompareDate(DatePart(a), DatePart(b)) IN
    IF a.now /\ b.now THEN 0 ELSE IF x # 0 THEN x ELSE CompareTime(TimePart(a), TimePart(b))

Equal(a, b)   == Compare(a, b) = 0
Unequal(a, b) == Compare(a, b) # 0
Before(a, b)  == Compare(a, b) < 0
NotAfter(a, b) == Compare(a, b) =< 0
After(a, b)   == Compare(a, b) > 0
NotBefore(a, b) == Compare(a, b) >= 0

-----------------------------------------------------------------------------
(***************************************************************************)
(* The C library's calendar, in a zone without daylight saving: struct tm  *)
(* counts months from 0 and years from 1900, and mktime() accepts fields   *)
(* out of their range.  A time_t is days since the epoch and seconds.      *)
(***************************************************************************)
Leap(y) == (y % 4 = 0 /\ y % 100 # 0) \/ y % 400 = 0
MonthDays(y, m) == IF m = 1 THEN (IF Leap(y) THEN 29 ELSE 28) ELSE IF m \in {3, 5, 8, 10} THEN 30 ELSE 31
LeapsBefore(y) == (y - 1) \div 4 - (y - 1) \div 100 + (y - 1) \div 400
DaysBefore(y, m) ==
    365 * (y - 1970) + LeapsBefore(y) - LeapsBefore(1970)
    + FoldSet(LAMBDA k, n : n + MonthDays(y, k), 0, 0..m - 1)

Mktime(tm) ==
    LET y == tm.year + 1900 + tm.mon \div 12
        s == 3600 * tm.hour + 60 * tm.min + tm.sec
    IN [days |-> DaysBefore(y, tm.mon % 12) + tm.mday - 1 + s \div 86400, secs |-> s % 86400]

YearOf(days) == CHOOSE y \in 1970..2037 : DaysBefore(y, 0) =< days /\ days < DaysBefore(y + 1, 0)
MonthOf(y, days) ==
    CHOOSE m \in 0..11 : DaysBefore(y, m) =< days /\ days < DaysBefore(y, m) + MonthDays(y, m)
BrokenDown(t, y, m) ==
    [year |-> y - 1900, mon |-> m, mday |-> t.days - DaysBefore(y, m) + 1,
     hour |-> t.secs \div 3600, min |-> (t.secs \div 60) % 60, sec |-> t.secs % 60]
Localtime(t) == BrokenDown(t, YearOf(t.days), MonthOf(YearOf(t.days), t.days))

(***************************************************************************)
(* The conversions.  A Date takes the time of day from the clock, a Time   *)
(* the day; "now" is whatever the clock says.                              *)
(***************************************************************************)
DateOfTm(tm) == Date(tm.year + 1900, tm.mon + 1, tm.mday)
TimeOfTm(tm) == Time(tm.hour, tm.min, tm.sec)
DateOf(t) == DateOfTm(Localtime(t))
TimeOf(t) == TimeOfTm(Localtime(t))
DateTimeOf(t) == DateTime(DateOf(t), TimeOf(t))

\* Mutant: the month is stored as the class counts it.
DateAsTimeFromOne(d, clock) ==
    Mktime([Localtime(clock) EXCEPT !.mday = d.day, !.mon = d.month, !.year = d.year - 1900])

DateAsTime(d, clock) ==
    Mktime([Localtime(clock) EXCEPT !.mday = d.day, !.mon = d.month - 1, !.year = d.year - 1900])
TimeAsTime(t, clock) ==
    Mktime([Localtime(clock) EXCEPT !.hour = t.hour, !.min = t.minute, !.sec = t.second])
DateTimeAsTime(dt, clock) ==
    IF dt.now THEN clock
    ELSE Mktime([sec |-> dt.second, min |-> dt.minute, hour |-> dt.hour,
                 mday |-> dt.day, mon |-> dt.month - 1, year |-> dt.year - 1900])

-----------------------------------------------------------------------------
Separators == {"-", ":", " "}
Dense(s) == SelectSeq(s, LAMBDA c : c \notin Separators)
Unpadded(d) == Decimal[d.month] \o <<"-">> \o Decimal[d.day]

\* What is written is read back, with separators and without, and nothing
\* beyond the text is looked at: the year has four digits, the hour two.
WrittenIsRead(dt) ==
    LET s == DateTimeText(dt)
        d == DateText(DatePart(dt))
        t == TimeText(TimePart(dt))
    IN ~dt.now =>
        /\ ConvertDateTime(s) = [v |-> dt, next |-> Len(s) + 1]
        /\ ConvertDateTime(Dense(s)) = [v |-> dt, next |-> Len(Dense(s)) + 1]
        /\ ConvertDate(d, 1) = [v |-> DatePart(dt), next |-> Len(d) + 1]
        /\ ConvertTime(t, 1) = [v |-> TimePart(dt), next |-> Len(t) + 1]

\* "It doesn't have to be zero-padded": a field of one digit takes its
\* separator along, or the terminator when it is the last.
UnpaddedIsRead(dt) ==
    LET s == Setw(4, dt.year) \o <<"-">> \o Unpadded(dt) IN
    /\ ConvertDate(s, 1).v = DatePart(dt)
    /\ ConvertDate(s, 1).next =< Len(s) + 2

\* The order is the one of the fields, most significant first; the six
\* operators agree with each other.
Key(dt) == <<dt.year, dt.month, dt.day, dt.hour, dt.minute, dt.second>>
Precedes(a, b) == \E i \in 1..6 : Key(a)[i] < Key(b)[i] /\ \A j \in 1..i - 1 : Key(a)[j] = Key(b)[j]
OrderedByFields(a, b) ==
    /\ Before(a, b) <=> Precedes(a, b)
    /\ After(a, b) <=> Before(b, a)
    /\ Equal(a, b) <=> Key(a) = Key(b)
    /\ Unequal(a, b) <=> ~Equal(a, b)
    /\ NotAfter(a, b) <=> ~After(a, b)
    /\ NotBefore(a, b) <=> ~Before(a, b)

\* A moment survives time_t and back, whole or by halves, at any time of day.
TimeSurvives(t, clock) ==
    /\ DateTimeAsTime(DateTimeOf(t), clock) = t
    /\ DateOf(DateAsTime(DateOf(t), clock)) = DateOf(t)
    /\ TimeOf(TimeAsTime(TimeOf(t), clock)) = TimeOf(t)
    /\ DateAsTime(DateOf(t), clock).secs = clock.secs
    /\ TimeAsTime(TimeOf(t), clock).days = clock.days

Moments == [year : {0, 9, 999, 1000, 9999}, month : {0, 9, 10, 99}, day : {1, 31, 99},
            hour : {0, 9, 99}, minute : {0, 10}, second : {9, 59}, now : {FALSE}] \cup {NOW}
Near == [year : {0, 1}, month : {0, 1}, day : {0, 1}, hour : {0, 1}, minute : {0, 1}, second : {0, 1},
         now : {FALSE}] \cup {NOW}
Clocks == [days : {0, 30, 31, 58, 59, 789, 790, 13513, 24836}, secs : {0, 59, 3599, 43261, 86399}]
=============================================================================
