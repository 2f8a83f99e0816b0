------------------------------ MODULE Calendar ------------------------------
(***************************************************************************)
(* OnCalendar= expressions: internal/timers/calendar.go.  Next and Previous *)
(* search civil dates and jump over the years and months that cannot       *)
(* match; Trigger says what they should find.                              *)
(*                                                                         *)
(* The dates are Gregorian; day 0 is 0000-01-01 of the proleptic calendar. *)
(* A day has Slots times of day instead of 86400 seconds.  An instant is a *)
(* number of slots in UTC.  A zone has one change to summer time and one   *)
(* back, each by one slot.  None stands for the zero time.Time.            *)
(***************************************************************************)
EXTENDS Integers, FiniteSets, FiniteSetsExt, Sequences

CONSTANTS
  Slots,      \* times of day
  Exprs,      \* the expressions: [year, month, day, slot, days]
  Zones,      \* the zones: [base, gap, fold], gap and fold in local slots
  Starts      \* the civil dates searches start on

None == -1
Any == -1           \* the wildcard *
maxSearchYears == 8

-----------------------------------------------------------------------------
(* The Go time package, as far as the search uses it *)

Leap(y) == y % 4 = 0 /\ (y % 100 # 0 \/ y % 400 = 0)

YearStart(y) ==
  365 * y + (IF y = 0 THEN 0
             ELSE 1 + (y - 1) \div 4 - (y - 1) \div 100 + (y - 1) \div 400)

MonthDays == <<0, 31, 59, 90, 120, 151, 181, 212, 243, 273, 304, 334, 365>>

MonthStart(y, m) ==
  YearStart(y) + MonthDays[m] + (IF m > 2 /\ Leap(y) THEN 1 ELSE 0)

(* Dates overflow as time.Date lets them: 31 February is a day in March.   *)
DayNumber(y, m, d) == MonthStart(y, m) + d - 1

DateOf(n) ==
  LET y == CHOOSE y \in (n \div 366)..(n \div 365) :
             YearStart(y) <= n /\ n < YearStart(y + 1)
      m == Max({k \in 1..12 : MonthStart(y, k) <= n})
  IN  [year |-> y, month |-> m, day |-> n - MonthStart(y, m) + 1]

Weekday(n) == (n + 6) % 7   \* 0 is Sunday

(* Summer time lasts from the gap to the fold.                             *)
GapAt(z) == z.gap - z.base
FoldAt(z) == z.fold - z.base
Summer(z, u) == GapAt(z) <= u /\ u < FoldAt(z)
Offset(z, u) == IF Summer(z, u) THEN z.base + 1 ELSE z.base

Local(z, u) == u + Offset(z, u)
DayOf(z, u) == Local(z, u) \div Slots
SlotOf(z, u) == Local(z, u) % Slots

SamePeriod(z, u, v) == /\ Summer(z, u) = Summer(z, v)
                       /\ (u < GapAt(z)) = (v < GapAt(z))

(* time.Date: the offset is guessed at the local time read as UTC and      *)
(* looked up again when the guess leaves its period.                       *)
Date(z, n, slot) ==
  LET local == n * Slots + slot
      u == local - Offset(z, local)
  IN  IF SamePeriod(z, u, local) THEN u ELSE local - Offset(z, u)

AddDays(z, u, k) == Date(z, DayOf(z, u) + k, SlotOf(z, u))

-----------------------------------------------------------------------------
(* Times of day *)

(* firstOccurrence *)
FirstOccurrence(z, u) ==
  LET back == u - 1      \* summer time is one slot ahead
  IN  IF /\ u >= FoldAt(z) /\ Local(z, back) = Local(z, u) THEN back ELSE u

(* firstValidAfterGap *)
FirstValidAfterGap(z, n, slot) ==
  LET exists == {s \in slot..(Slots - 1) :
                   LET u == Date(z, n, s) IN DayOf(z, u) = n /\ SlotOf(z, u) = s}
  IN  IF exists = {} THEN None ELSE FirstOccurrence(z, Date(z, n, Min(exists)))

(* The civil date exists: nothing has overflowed.                          *)
Exists(y, m, d) == DateOf(DayNumber(y, m, d)) = [year |-> y, month |-> m, day |-> d]

(* wallTimeOn *)
WallTimeOn(c, z, y, m, d) ==
  LET n == DayNumber(y, m, d)
      cand == Date(z, n, c.slot)
  IN  IF ~Exists(y, m, d) \/ DayOf(z, cand) # n THEN None
      ELSE IF SlotOf(z, cand) = c.slot THEN FirstOccurrence(z, cand)
      ELSE FirstValidAfterGap(z, n, c.slot)

-----------------------------------------------------------------------------
(* Civil dates; "back" is the direction of the search *)

Step(back) == IF back THEN -1 ELSE 1
Beyond(a, b, back) == IF back THEN a < b ELSE a > b    \* a comes after b
Reaches(a, b, back) == IF back THEN a <= b ELSE a >= b

(* dateMatches *)
DateMatches(c, date) ==
  /\ c.year \in {Any, date.year}
  /\ c.month \in {Any, date.month}
  /\ c.day \in {Any, date.day}

Matches(c, z, u) == DateMatches(c, DateOf(DayOf(z, u)))

(* civilAt: midnight of the date, None if the date does not exist there.   *)
CivilAt(z, y, m, d) ==
  LET u == Date(z, DayNumber(y, m, d), 0)
  IN  IF Exists(y, m, d) /\ DayOf(z, u) = DayNumber(y, m, d) THEN u ELSE None

(* monthEnd *)
MonthEnd(z, y, m) ==
  LET u == Date(z, MonthStart(y, m + 1) - 1, 0)
  IN  IF DateOf(DayOf(z, u)).month = m THEN u ELSE None

(* The first of at(0), at(1), ... that is not None and satisfies ok.       *)
FirstOf(n, at(_), ok(_)) ==
  LET hits == {i \in 0..n : at(i) # None /\ ok(at(i))}
  IN  IF hits = {} THEN None ELSE at(Min(hits))

(* The day c.day of the i-th month after the month k (years times twelve). *)
InMonth(c, z, k) ==
  IF c.year \notin {Any, k \div 12} THEN None
  ELSE CivilAt(z, k \div 12, (k % 12) + 1, c.day)

InYear(c, z, y) ==
  IF c.year \notin {Any, y} THEN None ELSE CivilAt(z, y, c.month, c.day)

(* alignCivil: the first date at or after (before) start that can match.   *)
AlignCivil(c, z, start, back) ==
  LET date == DateOf(DayOf(z, start))
      y == date.year
      year == IF c.year = Any THEN y ELSE c.year
      ok(u) == Reaches(u, start, back)
      (* Within a fixed year that lies ahead, every month is ahead.        *)
      outside == c.year # Any /\ Beyond(c.year, y, back)
      m == IF outside THEN IF back THEN 12 ELSE 1 ELSE date.month
      d == IF outside THEN IF back THEN 32 ELSE 0 ELSE date.day
      first == year * 12 + m - 1 + (IF Beyond(d, c.day, back) THEN Step(back) ELSE 0)
      byYear(i) == InYear(c, z, year + i * Step(back))
      byMonth(i) == InMonth(c, z, first + i * Step(back))
      edge(yy) == IF back THEN MonthEnd(z, yy, c.month) ELSE CivilAt(z, yy, c.month, 1)
  IN  CASE Matches(c, z, start) -> start
        [] ~Matches(c, z, start) /\ c.month # Any /\ c.day # Any ->
             FirstOf(maxSearchYears + 3, byYear, ok)
        [] ~Matches(c, z, start) /\ c.month = Any /\ c.day # Any ->
             FirstOf(12 * (maxSearchYears + 2) - 1, byMonth, ok)
        [] ~Matches(c, z, start) /\ c.month # Any /\ c.day = Any ->
             IF Beyond(year * 12 + c.month, y * 12 + date.month, back) THEN edge(year)
             ELSE IF c.year # Any THEN None
             ELSE edge(y + Step(back))
        [] OTHER -> start

(* Mutant: the next month is reached by adding to the day, so that the     *)
(* overflow of a 31st skips a month.                                       *)
NextCivilByAdding(c, z, u, back) ==
  LET date == DateOf(DayOf(z, u))
      next == DateOf(DayNumber(date.year, date.month, date.day) + 31 * Step(back))
  IN  IF c.day # Any THEN CivilAt(z, next.year, next.month, c.day)
      ELSE AddDays(z, u, Step(back))

(* nextCivil: the next date strictly after (before) u that can match.      *)
NextCivil(c, z, u, back) ==
  LET date == DateOf(DayOf(z, u))
      y == date.year
      k == y * 12 + date.month - 1
      any(v) == TRUE
      byYear(i) == InYear(c, z, y + (i + 1) * Step(back))
      byMonth(i) == InMonth(c, z, k + (i + 1) * Step(back))
      adjacent == AddDays(z, u, Step(back))
      next == y + Step(back)
  IN  IF c.month # Any /\ c.day # Any THEN FirstOf(maxSearchYears + 3, byYear, any)
      ELSE IF c.day # Any THEN FirstOf(12 * (maxSearchYears + 2) - 1, byMonth, any)
      ELSE IF c.month = Any \/ Matches(c, z, adjacent) THEN adjacent
      ELSE IF c.year \notin {Any, next} THEN None
      ELSE IF back THEN MonthEnd(z, next, c.month) ELSE CivilAt(z, next, c.month, 1)

-----------------------------------------------------------------------------
(* The search *)

Hit(c, z, from, cand, back) ==
  cand # None /\ Weekday(DayOf(z, cand)) \in c.days /\ Beyond(cand, from, back)

RECURSIVE Walk(_, _, _, _, _, _)
Walk(c, z, from, u, horizon, back) ==
  IF u = None \/ Beyond(u, horizon, back) THEN None
  ELSE LET date == DateOf(DayOf(z, u))
           cand == WallTimeOn(c, z, date.year, date.month, date.day)
       IN  IF c.year # Any /\ Beyond(date.year, c.year, back) THEN None
           ELSE IF DateMatches(c, date) /\ Hit(c, z, from, cand, back) THEN cand
           ELSE Walk(c, z, from, NextCivil(c, z, u, back), horizon, back)

(* boundDay, where a fixed year makes it a bound at all: the first (last)  *)
(* date of the year that could match.                                      *)
BoundDay(c, z, back) ==
  LET m == IF c.month # Any THEN c.month ELSE IF back THEN 12 ELSE 1
      d == IF c.day # Any THEN c.day ELSE IF back THEN 31 ELSE 1
      u == Date(z, DayNumber(c.year, m, d), 0)
  IN  IF c.year = Any \/ ~Matches(c, z, u) THEN None ELSE u

(* search, for an expression with a wildcard in its date.                  *)
SearchFrom(c, z, from, back) ==
  LET midnight == Date(z, DayOf(z, from), 0)
      bound == BoundDay(c, z, back)
      start == IF bound # None /\ Beyond(bound, midnight, back) THEN bound ELSE midnight
      date == DateOf(DayOf(z, start))
      horizon == Date(z, DayNumber(date.year + maxSearchYears * Step(back),
                                   date.month, date.day) + 2 * Step(back),
                      SlotOf(z, start))
  IN  IF c.year # Any /\ Beyond(date.year, c.year, back) THEN None
      ELSE Walk(c, z, from, AlignCivil(c, z, start, back), horizon, back)

(* search *)
Search(c, z, from, back) ==
  IF c.year # Any /\ c.month # Any /\ c.day # Any
  THEN LET cand == WallTimeOn(c, z, c.year, c.month, c.day)
       IN  IF Hit(c, z, from, cand, back) THEN cand ELSE None
  ELSE SearchFrom(c, z, from, back)

-----------------------------------------------------------------------------
(* Weekday lists: parseWeekdays.  A list is a sequence of days (<<d, d>>)  *)
(* and ranges (<<from, to>>), which may run over the end of the week.      *)

RECURSIVE RangeDays(_, _)
RangeDays(d, to) == IF d = to THEN {d} ELSE {d} \cup RangeDays((d + 1) % 7, to)

ParseWeekdays(list) == UNION {RangeDays(list[i][1], list[i][2]) : i \in DOMAIN list}

-----------------------------------------------------------------------------
(* One question per behaviour: an expression, a zone, a start, a direction *)

VARIABLES
  query,   \* [expr, zone, from, back]
  answer   \* what search returned; 0 before it has

vars == <<query, answer>>

(* An expression as it is written, with its weekday list.                  *)
Parsed(e) == [year |-> e.year, month |-> e.month, day |-> e.day,
              slot |-> e.slot, days |-> ParseWeekdays(e.list)]

Queries ==
  {[expr |-> Parsed(e), list |-> e.list, zone |-> z, from |-> Date(z, n, s), back |-> b] :
     e \in Exprs, z \in Zones, n \in Starts, s \in {0, Slots - 1}, b \in BOOLEAN}

Init == query \in Queries /\ answer = 0

(* Next and Previous *)
Ask ==
  /\ answer = 0
  /\ answer' = Search(query.expr, query.zone, query.from, query.back)
  /\ UNCHANGED query

Spec == Init /\ [][Ask]_vars

-----------------------------------------------------------------------------
(* Properties *)

(* The instants a local day has, by its wall clock.                        *)
OfDay(z, n) == {u \in (n * Slots - z.base - 2)..((n + 1) * Slots - z.base + 1) :
                  DayOf(z, u) = n}

(* What the documentation says a day triggers: the first occurrence of the *)
(* time of day or, in a gap, the first valid instant after it.             *)
Trigger(c, z, n) ==
  LET date == DateOf(n)
      late == {u \in OfDay(z, n) : SlotOf(z, u) >= c.slot}
  IN  IF ~DateMatches(c, date) \/ Weekday(n) \notin c.days \/ late = {} THEN {}
      ELSE LET s == Min({SlotOf(z, u) : u \in late})
           IN  {Min({u \in late : SlotOf(z, u) = s})}

(* The zones whose clock changes leave every midnight in place.            *)
MidnightsExist(z) == z.gap % Slots # 0

(* The days between the start and the answer, or the search window.        *)
Between ==
  LET z == query.zone
      from == DayOf(z, query.from)
      date == DateOf(from)
      window == DayNumber(date.year + maxSearchYears * Step(query.back),
                          date.month, date.day)
      end == IF answer = None THEN window ELSE DayOf(z, answer)
      span == IF query.back THEN end..from ELSE from..end
      y == query.expr.year
  IN  IF y = Any THEN span ELSE span \cap (YearStart(y)..(YearStart(y + 1) - 1))

(* What search returns, for Next and for Previous, is a trigger of the     *)
(* expression strictly beyond the start, and no trigger lies in between;   *)
(* when it returns nothing there is none within eight years.               *)
SearchExact ==
  LET c == query.expr
      z == query.zone
  IN  answer # 0 /\ MidnightsExist(z) =>
        /\ answer # None => answer \in Trigger(c, z, DayOf(z, answer))
                            /\ Beyond(answer, query.from, query.back)
        /\ \A n \in Between : \A u \in Trigger(c, z, n) :
             Beyond(u, query.from, query.back) =>
               answer # None /\ Reaches(u, answer, query.back)

(* "If the wall time does not exist (DST spring-forward gap), the result   *)
(* is the first valid instant after the gap" (wallTimeOn), also where the  *)
(* clock changes at midnight: the day of the change is not passed over.    *)
GapDayTriggers ==
  LET c == query.expr
      z == query.zone
  IN  answer # 0 /\ ~query.back =>
        \A u \in Trigger(c, z, z.gap \div Slots) :
          u > query.from => answer # None /\ answer <= u

(* Weekday lists mean what they say: a range from a to b holds the days    *)
(* met when counting from a to b, over the end of the week if need be.     *)
WeekdaysExact ==
  query.expr.days =
    {d \in 0..6 : \E i \in DOMAIN query.list :
       (d - query.list[i][1]) % 7 <= (query.list[i][2] - query.list[i][1]) % 7}
=============================================================================
