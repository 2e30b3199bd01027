-------------------------------- MODULE Cron --------------------------------
(***************************************************************************)
(* Cron: a five-field cadence is parsed into masks, and Next scans wall    *)
(* clock days for the first minute the masks select (package cronx).       *)
(*                                                                         *)
(* One state is one turn of the scan's loop.  Callers iterate Next: the    *)
(* form's preview from the present moment, the engine over the window      *)
(* since its last pass.  A text field is a list of items, as its commas    *)
(* part it; names of months and days are their numbers.                    *)
(***************************************************************************)
EXTENDS Integers, Sequences, FiniteSets, FiniteSetsExt, SequencesExt

CONSTANTS
  Cadences,      \* the expressions: a list of items for each of the five fields
  Zones,         \* local time: offsets, one change forward, one back
  Starts,        \* moments from which the callers ask
  MaxFirings,    \* bound: firings a caller asks for
  None

ASSUME BoundAssumption == MaxFirings \in Nat \ {0}

Items == [form : {"star", "value", "span"}, lo : Nat, hi : Nat, step : Nat \cup {None}]
ASSUME CadencesAssumption == \A c \in Cadences : DOMAIN c = 1..5 /\ \A f \in 1..5 : c[f] \in Seq(Items)

\* A change of the clock is shorter than a day and than the summer; the hour that comes
\* twice lies in one day, where it is read in winter time.
ASSUME ZonesAssumption ==
  \A z \in Zones :
    /\ z \in [winter : Int, summer : Int, pick : {"winter", "summer"}, forward : Int, back : Int]
    /\ z.winter <= z.summer /\ z.summer - z.winter < 1440
    /\ z.forward + (z.summer - z.winter) <= z.back
    /\ z.pick = "winter" =>
         \A w \in (z.back + z.winter)..(z.back + z.summer - 1) : w \div 1440 = (z.back + z.winter) \div 1440
ASSUME StartsAssumption == Starts \subseteq Int

VARIABLES
  fields, zone,  \* the expression and the location
  stage,         \* parse, rejected, start, search, fired, never
  masks,         \* what each field selects
  hint,          \* a rejected wrapping range: its field, its bounds, the spelling offered
  after,         \* the moment Next was given
  day,           \* the cursor: year, month, day
  fired          \* the firings so far

vars == <<fields, zone, stage, masks, hint, after, day, fired>>

(***************************************************************************)
(* The calendar and local time (package time).  Moments and wall clocks    *)
(* are minutes, from the first minute of 2020 on.                          *)
(***************************************************************************)
leap(y) == y % 4 = 0                                           \* 2020 to 2099
daysInMonth(y, m) == IF m = 2 THEN (IF leap(y) THEN 29 ELSE 28) ELSE IF m \in {4, 6, 9, 11} THEN 30 ELSE 31
before == <<0, 31, 59, 90, 120, 151, 181, 212, 243, 273, 304, 334>>
first(y, m) ==                                                 \* the first day of a month
  365 * (y - 2020) + ((y - 2017) \div 4) + before[m] + IF leap(y) /\ m > 2 THEN 1 ELSE 0
number(d) == first(d[1], d[2]) + d[3] - 1
weekdayOf(n) == (n + 3) % 7                                     \* a Wednesday comes first
\* Four years have 1461 days, and the first of them is the leap year.
yearOf(n) == LET r == n % 1461 IN 2020 + 4 * (n \div 1461) + IF r < 366 THEN 0 ELSE (r - 1) \div 365
monthOf(n) ==
  LET y == yearOf(n) IN CHOOSE m \in 1..12 : first(y, m) <= n /\ n < first(y, m) + daysInMonth(y, m)
dateOf(n) == <<yearOf(n), monthOf(n), n - first(yearOf(n), monthOf(n)) + 1>>

offset(t) == IF zone.forward <= t /\ t < zone.back THEN zone.summer ELSE zone.winter
wall(t) == t + offset(t)

\* time.Date: a wall clock minute that comes twice, or never, is read with one of the
\* two offsets; which one the package leaves open.
instant(w) ==
  LET ts == {t \in {w - zone.winter, w - zone.summer} : wall(t) = w} IN
  IF Cardinality(ts) = 1 THEN CHOOSE t \in ts : TRUE
  ELSE w - (IF zone.pick = "summer" THEN zone.summer ELSE zone.winter)

(***************************************************************************)
(* Parse.                                                                  *)
(***************************************************************************)
lowest  == <<0, 0, 1, 1, 0>>                                     \* minute, hour, day, month, weekday
highest == <<59, 23, 31, 12, 7>>

Star(step) == [form |-> "star", lo |-> 0, hi |-> 0, step |-> step]
Value(v) == [form |-> "value", lo |-> v, hi |-> v, step |-> None]
Span(a, b, step) == [form |-> "span", lo |-> a, hi |-> b, step |-> step]
Every == <<Star(None)>>

inRange(f, v) == lowest[f] <= v /\ v <= highest[f]

\* parseItem: malformed, a descending range, or lo..hi by step.
malformed(f, i) ==
  \/ i.step # None /\ (i.step = 0 \/ i.form = "value")
  \/ i.form # "star" /\ ~(inRange(f, i.lo) /\ inRange(f, i.hi))
wraps(f, i) == ~malformed(f, i) /\ i.form = "span" /\ i.lo > i.hi
parseItem(f, i) ==
  LET lo == IF i.form = "star" THEN lowest[f] ELSE i.lo
      hi == IF i.form = "star" THEN highest[f] ELSE i.hi
      step == IF i.step = None THEN 1 ELSE i.step
  IN {lo + k * step : k \in 0..((hi - lo) \div step)}

\* Both 0 and 7 mean Sunday.
fold(bits) == IF 7 \in bits THEN (bits \ {7}) \cup {0} ELSE bits
parseField(f, items) ==
  LET bits == UNION {parseItem(f, items[k]) : k \in DOMAIN items} IN IF f = 5 THEN fold(bits) ELSE bits

\* The ascending spelling that the message offers instead of lo-hi.
unwrapped(f, lo, hi) ==
  LET one(a, b) == IF a = b THEN Value(a) ELSE Span(a, b, None) IN
  IF highest[f] = 7 /\ hi = 0 THEN <<Span(lo, 7, None)>>
  ELSE <<one(lo, highest[f]), one(lowest[f], hi)>>

bad == {x \in UNION {{<<f, k>> : k \in DOMAIN fields[f]} : f \in 1..5} :
          LET i == fields[x[1]][x[2]] IN malformed(x[1], i) \/ wraps(x[1], i)}
\* The first item that fails decides the message.
firstBad == CHOOSE x \in bad : \A z \in bad : x[1] < z[1] \/ (x[1] = z[1] /\ x[2] <= z[2])

ParseFails ==
  /\ stage = "parse" /\ bad # {} /\ stage' = "rejected"
  /\ LET f == firstBad[1]
         i == fields[f][firstBad[2]]
     IN hint' = IF wraps(f, i) THEN [field |-> f, lo |-> i.lo, hi |-> i.hi, list |-> unwrapped(f, i.lo, i.hi)] ELSE hint
  /\ UNCHANGED <<fields, zone, masks, after, day, fired>>

Parse ==
  /\ stage = "parse" /\ bad = {} /\ stage' = "start"
  /\ masks' = [f \in 1..5 |-> parseField(f, fields[f])]
  /\ UNCHANGED <<fields, zone, hint, after, day, fired>>

(***************************************************************************)
(* Next.                                                                   *)
(***************************************************************************)
searchYears == 5

\* AddDate: the same wall clock, five years on; the 29th of February rolls over.
limit ==
  LET w == wall(after)
      d == dateOf(w \div 1440)
      n == number(<<d[1] + searchYears, d[2], 1>>) + d[3] - 1
  IN instant((n * 1440) + (w % 1440))

restricted(f) == fields[f] # Every

\* Mutant: both day fields decide together.
dayMatchesBoth(d) == d[3] \in masks[3] /\ weekdayOf(number(d)) \in masks[5]

dayMatches(d) ==
  LET dom == d[3] \in masks[3]
      dow == weekdayOf(number(d)) \in masks[5]
  IN IF restricted(3) /\ restricted(5) THEN dom \/ dow
     ELSE (restricted(3) => dom) /\ (restricted(5) => dow)

nextMonth(d) == IF d[2] = 12 THEN <<d[1] + 1, 1, 1>> ELSE <<d[1], d[2] + 1, 1>>

nextDay(d) == IF d[3] + 1 > daysInMonth(d[1], d[2]) THEN nextMonth(d) ELSE <<d[1], d[2], d[3] + 1>>

minutesOf(d) == {1440 * number(d) + 60 * h + mi : h \in masks[2], mi \in masks[1]}
\* The fields read back from a moment are those it was made of.
readsBack(w) == LET v == wall(instant(w)) IN
  v % 1440 = w % 1440 /\ dateOf(v \div 1440)[3] = dateOf(w \div 1440)[3]

\* Mutant: the moment itself is a match.
candidatesAgain(d) == {w \in minutesOf(d) : instant(w) >= after /\ readsBack(w)}

candidates(d) == {w \in minutesOf(d) : instant(w) > after /\ readsBack(w)}

unchanged == UNCHANGED <<fields, zone, masks, hint>>

\* A caller asks for the first firing, and for those that follow it.
Ask ==
  /\ stage \in {"start", "fired"} /\ Len(fired) < MaxFirings
  /\ stage' = "search" /\ after' = IF stage = "start" THEN after ELSE Last(fired)
  /\ day' = dateOf(wall(after') \div 1440)
  /\ unchanged /\ UNCHANGED fired

GiveUp ==
  /\ stage = "search" /\ number(day) > wall(limit) \div 1440 /\ stage' = "never"
  /\ unchanged /\ UNCHANGED <<after, day, fired>>

searching == stage = "search" /\ number(day) <= wall(limit) \div 1440

SkipMonth ==
  /\ searching /\ day[2] \notin masks[4] /\ day' = nextMonth(day)
  /\ unchanged /\ UNCHANGED <<stage, after, fired>>

hit == day[2] \in masks[4] /\ dayMatches(day) /\ candidates(day) # {}

Fire ==
  /\ searching /\ hit
  /\ LET t == instant(Min(candidates(day))) IN
       IF t > limit THEN stage' = "never" /\ UNCHANGED fired
       ELSE stage' = "fired" /\ fired' = Append(fired, t)
  /\ unchanged /\ UNCHANGED <<after, day>>

SkipDay ==
  /\ searching /\ day[2] \in masks[4] /\ ~hit /\ day' = nextDay(day)
  /\ unchanged /\ UNCHANGED <<stage, after, fired>>

Init ==
  /\ fields \in Cadences /\ zone \in Zones /\ after \in Starts /\ stage = "parse"
  /\ masks = <<>> /\ hint = None /\ day = <<>> /\ fired = <<>>

Scan == GiveUp \/ SkipMonth \/ Fire \/ SkipDay
Next == ParseFails \/ Parse \/ Ask \/ Scan

Spec == Init /\ [][Next]_vars /\ WF_vars(Next)

(***************************************************************************)
(* Properties, against a reading of the fields' text minute by minute.     *)
(***************************************************************************)
says(f, v) ==
  \E k \in DOMAIN fields[f] :
    LET i == fields[f][k]
        step == IF i.step = None THEN 1 ELSE i.step
        lo == IF i.form = "star" THEN lowest[f] ELSE i.lo
    IN /\ i.form # "star" => i.lo <= v /\ v <= i.hi
       /\ (v - lo) % step = 0
saysWeekday(v) == says(5, v) \/ (v = 0 /\ says(5, 7))

saysDay(n) ==
  LET d == dateOf(n) IN
  /\ says(4, d[2])
  /\ IF Every \in {fields[3], fields[5]} THEN says(3, d[3]) /\ saysWeekday(weekdayOf(n))
     ELSE says(3, d[3]) \/ saysWeekday(weekdayOf(n))

\* The moments of one local day that fire: those that exist, one for each wall clock minute.
firings(n) ==
  IF ~saysDay(n) THEN {}
  ELSE LET ws == {1440 * n + 60 * h + mi : h \in {h \in 0..23 : says(2, h)}, mi \in {mi \in 0..59 : says(1, mi)}}
       IN {t \in {w - zone.winter : w \in ws} \cup {w - zone.summer : w \in ws} :
             /\ wall(t) \in ws /\ instant(wall(t)) = t}

due(n) == {t \in firings(n) : after < t /\ t <= limit}

\* What is due by the cursor's day, from the day before the moment given on.
found == UNION {due(n) : n \in ((wall(after) \div 1440) - 1)..number(day)}

\* Next returns the first firing after its moment, and none only where there is none up
\* to the limit, over month ends, leap days and changes of the clock.
NothingSkipped ==
  [][stage = "search" /\ stage' # "search" =>
       IF found = {} THEN stage' = "never" ELSE stage' = "fired" /\ fired' = Append(fired, Min(found))]_vars

\* A chain of firings visits every wall clock minute once, although clocks go back.
OncePerMinute == \A k \in 1..(Len(fired) - 1) : fired[k] < fired[k + 1] /\ wall(fired[k]) < wall(fired[k + 1])
=============================================================================
