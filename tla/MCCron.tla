------------------------------- MODULE MCCron -------------------------------
EXTENDS Cron

At(y, m, d, h, mi) == 1440 * number(<<y, m, d>>) + 60 * h + mi
Clock(m, h) == <<m, h, Every, Every, Every>>

\* A minute and a span of hours about a change of the clock, both ends of a day, the
\* 31st, a 13th or a Friday, a leap day, a 30th of February, months with gaps, steps
\* past a range, a star with a step, Sundays in both spellings.
MCCadences == {
  Clock(<<Value(30)>>, <<Value(2)>>),
  Clock(<<Star(30)>>, <<Span(1, 3, None)>>),
  Clock(<<Value(59), Value(0)>>, <<Value(0), Value(23)>>),
  <<<<Value(0)>>, <<Value(12)>>, <<Value(31)>>, Every, Every>>,
  <<<<Value(0)>>, <<Value(12)>>, <<Value(13)>>, Every, <<Value(5)>>>>,
  <<<<Value(0)>>, <<Value(0)>>, <<Value(29)>>, <<Value(2)>>, Every>>,
  <<<<Value(0)>>, <<Value(0)>>, <<Value(30)>>, <<Value(2)>>, Every>>,
  <<<<Value(15)>>, <<Value(3)>>, <<Span(28, 31, None)>>, <<Span(2, 12, 5), Value(4)>>, Every>>,
  <<<<Span(50, 59, 100)>>, <<Value(2)>>, Every, <<Value(3), Value(10)>>, <<Value(7)>>>>,
  <<<<Value(5)>>, <<Value(4)>>, <<Star(1)>>, Every, <<Span(0, 1, None)>>>>,
  <<<<Value(5)>>, <<Value(4)>>, <<Value(1)>>, Every, <<Span(5, 7, None)>>>>}

MCWrapped == {[f \in 1..5 |-> IF f = g THEN <<Span(p[1], p[2], None)>> ELSE Every] :
                g \in 1..5, p \in {<<1, 0>>, <<5, 0>>, <<7, 0>>, <<7, 3>>, <<6, 1>>, <<12, 1>>, <<23, 5>>, <<59, 0>>}}
MCBroken == {Clock(<<Star(0)>>, Every), Clock(Every, <<Value(24)>>), Clock(<<[Value(5) EXCEPT !.step = 2]>>, Every)}
MCInputs == MCCadences \cup MCWrapped \cup MCBroken

\* Berlin, New York, and a zone whose clock goes forward at midnight, in 2024.
Berlin(p) == [winter |-> 60, summer |-> 120, pick |-> p,
              forward |-> At(2024, 3, 31, 1, 0), back |-> At(2024, 10, 27, 1, 0)]
NewYork(p) == [winter |-> -300, summer |-> -240, pick |-> p,
               forward |-> At(2024, 3, 10, 7, 0), back |-> At(2024, 11, 3, 6, 0)]
Midnight(p) == [winter |-> 120, summer |-> 180, pick |-> p,
                forward |-> At(2024, 3, 30, 22, 0), back |-> At(2024, 10, 26, 21, 0)]
MCZones == UNION {{Berlin(p), NewYork(p), Midnight(p)} : p \in {"winter", "summer"}}

\* Around both changes of the clock, a leap day, and the end of a year.
MCStarts == {At(2024, 3, 30, 0, 10), At(2024, 3, 9, 12, 0), At(2024, 10, 27, 0, 40), At(2024, 10, 26, 20, 30),
             At(2024, 11, 3, 5, 30), At(2024, 2, 29, 11, 59), At(2023, 12, 31, 23, 30)}
=============================================================================
