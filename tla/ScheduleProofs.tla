---------------------------- MODULE ScheduleProofs ----------------------------
(***************************************************************************)
(* Theorems about Schedule, for days, weeks, months and years of any length:  *)
(* NextSlot is the first slot after an instant, the loop serves no slot       *)
(* twice, and only its pause after a run costs a component one, unless its    *)
(* schedule cannot be read.                                                  *)
(*                                                                          *)
(* The calendar comes first: instants as days and times of day, the months    *)
(* between the Firsts, the slots of each kind of schedule.  Then the loop,     *)
(* whose timer (sleep) less the ticks already lost (late) never reaches past  *)
(* the next slot it knows of.                                                *)
(***************************************************************************)
EXTENDS Schedule, FiniteSetTheorems, TLAPS

-------------------------------------------------------------------------------
(* The calendar. *)

\* Division with remainder.
LEMMA DivMod ==
    ASSUME NEW n \in Nat \ {0}, NEW t \in Nat
    PROVE  t \div n \in Nat /\ t % n \in 0 .. n - 1 /\ t = (t \div n) * n + (t % n)
OBVIOUS

\* Quotient and remainder are unique.
LEMMA DivModUnique ==
    ASSUME NEW n \in Nat \ {0}, NEW q \in Nat, NEW r \in 0 .. n - 1
    PROVE  (q * n + r) \div n = q /\ (q * n + r) % n = r
OBVIOUS

\* A set of numbers has a least one.
LEMMA Least ==
    ASSUME NEW S, S \subseteq Nat, S # {}
    PROVE  \E m \in S : \A x \in S : m <= x
<1>1. PICK k \in Nat : k \in S
  OBVIOUS
<1> DEFINE P == {x \in S : x <= k}
           Below(x) == {y \in P : y < x}
           T == {Below(x) : x \in P}
<1>2. IsFiniteSet(P)
  <2>1. IsFiniteSet(0 .. k)
    BY <1>1, FS_Interval
  <2>2. P \subseteq 0 .. k
    <3>1. \A x \in Nat : x <= k => x \in 0 .. k
      BY <1>1
    <3> QED BY <3>1
  <2> HIDE DEF P
  <2> QED BY <2>1, <2>2, FS_Subset
<1>3. k \in P /\ \A x \in P : x \in Nat
  BY <1>1
<1> HIDE DEF P
<1>4. IsWellFoundedOn(StrictSubsetOrdering(P), SUBSET P)
  BY <1>2, FS_StrictSubsetOrderingWellFounded, FS_FiniteSubsetsOfFinite
<1>5. T # {} /\ T \subseteq SUBSET P
  BY <1>3
<1>6. PICK A \in T : \A B \in T : ~(<<B, A>> \in StrictSubsetOrdering(P))
  <2> HIDE DEF T
  <2> QED BY <1>4, <1>5, WFMin
<1>7. PICK m \in P : A = Below(m)
  BY <1>6
<1>8. ASSUME NEW x \in P, x < m PROVE FALSE
  <2>1. x \in Below(m) /\ x \notin Below(x)
    BY <1>3, <1>8
  <2>2. Below(x) \subseteq Below(m)
    <3>1. x \in Nat /\ m \in Nat /\ x < m
      BY <1>3, <1>8
    <3>2. \A y \in Nat : y < x => y < m
      BY <3>1
    <3> QED BY <1>3, <3>2
  <2>3. <<Below(x), Below(m)>> \in StrictSubsetOrdering(P)
    BY <2>1, <2>2 DEF StrictSubsetOrdering
  <2> QED BY <2>3, <1>6, <1>7
<1>9. \A x \in P : m <= x
  BY <1>3, <1>8
<1> QED BY <1>1, <1>9 DEF P

\* Min and Max of sets of numbers.
LEMMA MinOf ==
    ASSUME NEW S, S \subseteq Nat, S # {}
    PROVE  Min(S) \in S /\ \A x \in S : Min(S) <= x
<1>1. \E m \in S : \A x \in S : m <= x
  BY Least
<1> QED BY <1>1 DEF Min

\* A set with a bound has a greatest number.
LEMMA MaxOf ==
    ASSUME NEW S, S \subseteq Nat, S # {}, NEW b \in Nat, \A x \in S : x <= b
    PROVE  Max(S) \in S /\ \A x \in S : x <= Max(S)
<1> DEFINE Below == {b - x : x \in S}
<1>1. Below \subseteq Nat /\ Below # {}
  <2>1. \A x \in S : x \in Nat /\ b - x \in Nat
    OBVIOUS
  <2> QED BY <2>1
<1>2. PICK m \in Below : \A y \in Below : m <= y
  <2> HIDE DEF Below
  <2> QED BY <1>1, Least
<1>3. PICK x \in S : m = b - x
  BY <1>2
<1>4. \A y \in S : b - x <= b - y
  BY <1>2, <1>3
<1>5. \A y \in S : y <= x
  BY <1>4
<1>6. \E z \in S : \A y \in S : z >= y
  BY <1>5
<1>7. Max(S) \in S /\ \A y \in S : Max(S) >= y
  BY <1>6 DEF Max
<1> QED BY <1>7

\* An instant is a day and a time of day.
LEMMA DayParts ==
    ASSUME NEW t \in Nat
    PROVE  DayOf(t) \in Nat /\ t % DayLen \in 0 .. DayLen - 1 /\ t = DayOf(t) * DayLen + (t % DayLen)
BY DivMod, ScheduleAssumption DEF DayOf

\* Instants are ordered by day, then by time of day.
LEMMA DayOrder ==
    ASSUME NEW q \in Nat, NEW r \in 0 .. DayLen - 1, NEW p \in Nat, NEW o \in 0 .. DayLen - 1
    PROVE  q * DayLen + r < p * DayLen + o <=> q < p \/ (q = p /\ r < o)
BY ScheduleAssumption

\* The day and the time of day of an instant put together.
LEMMA DayUnique ==
    ASSUME NEW q \in Nat, NEW r \in 0 .. DayLen - 1
    PROVE  DayOf(q * DayLen + r) = q /\ (q * DayLen + r) % DayLen = r
BY DivModUnique, ScheduleAssumption DEF DayOf

-------------------------------------------------------------------------------
(* Months. *)

First(q) == Max({f \in Firsts : f <= q})
Following(q) == Min({f \in Firsts : f > q})

\* The first of a month in the year y, and the first of the next year.
LEMMA FirstsOf ==
    /\ Firsts \subseteq Nat
    /\ \A y \in 0 .. 3, m \in MonthStarts : y * Year + m \in Firsts
    /\ 0 \in Firsts /\ 3 * Year \in Firsts
<1>1. MonthStarts \subseteq Nat /\ 0 \in MonthStarts /\ Year \in Nat
  BY ScheduleAssumption
<1>2. \A y \in 0 .. 3, m \in MonthStarts : y * Year + m \in Firsts
  BY DEF Firsts
<1>3. ASSUME NEW y \in 0 .. 3, NEW m \in MonthStarts PROVE y * Year + m \in Nat
  <2>1. y \in Nat /\ m \in Nat
    BY <1>1
  <2> QED BY <1>1, <2>1
<1>4. Firsts \subseteq Nat
  BY <1>3 DEF Firsts
<1>5. 0 * Year + 0 = 0 /\ 3 * Year + 0 = 3 * Year
  BY <1>1
<1>6. 0 \in 0 .. 3 /\ 3 \in 0 .. 3
  OBVIOUS
<1> QED BY <1>1, <1>2, <1>4, <1>5, <1>6

\* The month of a day begins with the last first of a month before it, and
\* ends before the first one after it.
LEMMA MonthOf ==
    ASSUME NEW q \in Nat, q < 3 * Year
    PROVE  /\ First(q) \in Firsts /\ First(q) <= q
           /\ Following(q) \in Firsts /\ q < Following(q)
           /\ \A f \in Firsts : IF f <= q THEN f <= First(q) ELSE Following(q) <= f
<1> DEFINE Past == {f \in Firsts : f <= q}
           Coming == {f \in Firsts : f > q}
<1>1. Past \subseteq Nat /\ Coming \subseteq Nat /\ \A f \in Past : f <= q
  BY FirstsOf
<1>2. 0 \in Past
  BY FirstsOf
<1>3. 3 * Year \in Coming
  BY FirstsOf
<1>4. Max(Past) \in Past /\ \A f \in Past : f <= Max(Past)
  <2> HIDE DEF Past
  <2> QED BY <1>1, <1>2, MaxOf
<1>5. Min(Coming) \in Coming /\ \A f \in Coming : Min(Coming) <= f
  <2> HIDE DEF Coming
  <2> QED BY <1>1, <1>3, MinOf
<1>6. \A f \in Firsts : f <= q \/ f > q
  BY FirstsOf
<1>7. First(q) = Max(Past) /\ Following(q) = Min(Coming)
  BY DEF First, Following
<1> QED BY <1>4, <1>5, <1>6, <1>7

\* A monthly spec names a day every month has.
LEMMA DayInMonth ==
    ASSUME NEW s \in ScheduleSpec, s.kind = "monthly", NEW f \in Firsts, NEW g \in Firsts, f < g
    PROVE  s.day \in Nat \ {0} /\ f + s.day <= g
<1> DEFINE Starting == MonthStarts \cup {Year}
           Lengths == {m - n : m, n \in Starting} \cap (1 .. Year)
<1>1. Year \in Nat \ {0} /\ 0 \in MonthStarts /\ MonthStarts \subseteq 0 .. Year - 1
  BY ScheduleAssumption
<1>2. Year - 0 \in Lengths
  BY <1>1
<1>3. Lengths \subseteq Nat
  BY <1>1
<1>4. s.day \in 1 .. Min(Lengths)
  BY DEF ScheduleSpec
<1> HIDE DEF Lengths
<1>5. Min(Lengths) \in Nat /\ \A l \in Lengths : Min(Lengths) <= l
  BY <1>2, <1>3, MinOf
<1>6. PICK y \in 0 .. 3, m \in MonthStarts : f = y * Year + m
  BY DEF Firsts
<1>7. PICK z \in 0 .. 3, n \in MonthStarts : g = z * Year + n
  BY DEF Firsts
<1>8. y \in Nat /\ z \in Nat /\ m \in 0 .. Year - 1 /\ n \in 0 .. Year - 1
  BY <1>1
<1>9. y < z \/ (y = z /\ m < n)
  BY <1>1, <1>6, <1>7, <1>8
<1>10. \E l \in Lengths : f + l <= g
  <2>1. CASE y = z /\ m < n
    <3>1. n - m \in Lengths
      BY <1>8, <2>1, <1>1 DEF Lengths
    <3>2. f + (n - m) <= g
      <4>1. y * Year \in Nat
        BY <1>1, <1>8
      <4> QED BY <1>6, <1>7, <1>8, <2>1, <4>1
    <3> QED BY <3>1, <3>2
  <2>2. CASE y < z
    <3>1. Year - m \in Lengths
      BY <1>8, <1>1 DEF Lengths
    <3>2. f + (Year - m) <= g
      <4>1. (y + 1) * Year <= z * Year
        BY <1>1, <1>8, <2>2
      <4>2. (y + 1) * Year = y * Year + Year /\ y * Year \in Nat /\ z * Year \in Nat
        BY <1>1, <1>8
      <4> QED BY <1>1, <1>6, <1>7, <1>8, <4>1, <4>2
    <3> QED BY <3>1, <3>2
  <2> QED BY <1>9, <2>1, <2>2
<1>11. PICK l \in Lengths : f + l <= g
  BY <1>10
<1>12. f \in Nat /\ g \in Nat /\ l \in Nat /\ Min(Lengths) <= l
  BY <1>3, <1>5, <1>11, FirstsOf
<1> QED BY <1>4, <1>5, <1>11, <1>12

-------------------------------------------------------------------------------
(* Slots. *)

At(q, o) == q * DayLen + o

\* The days a spec names.
OnDay(s, q) ==
    /\ s.kind = "weekly" => (q % Week) = s.weekday
    /\ s.kind = "monthly" => q = First(q) + s.day - 1

\* What a stored schedule has.
LEMMA SpecFields ==
    ASSUME NEW s \in ScheduleSpec
    PROVE  /\ s.kind \in {"daily", "weekly", "monthly"} /\ s.offset \in 0 .. DayLen - 1
           /\ s.kind = "weekly" => s.weekday \in 0 .. Week - 1
BY DEF ScheduleSpec

\* At and its parts.
LEMMA Instants ==
    ASSUME NEW q \in Nat, NEW o \in 0 .. DayLen - 1
    PROVE  At(q, o) \in Nat /\ DayOf(At(q, o)) = q /\ (At(q, o) % DayLen) = o
<1>1. q * DayLen \in Nat
  BY ScheduleAssumption
<1>2. o \in Nat
  BY ScheduleAssumption
<1> QED BY <1>1, <1>2, DayUnique DEF At

\* Fires by day and time of day.
LEMMA FiresOnDays ==
    ASSUME NEW s \in ScheduleSpec, NEW t \in Nat, DayOf(t) < 3 * Year
    PROVE  Fires(s, t) <=> t = At(DayOf(t), s.offset) /\ OnDay(s, DayOf(t))
<1> DEFINE q == DayOf(t)
<1>1. q \in Nat /\ (t % DayLen) \in 0 .. DayLen - 1 /\ t = At(q, t % DayLen)
  BY DayParts DEF At
<1>2. (t % DayLen) = s.offset <=> t = At(q, s.offset)
  BY <1>1, Instants, SpecFields
<1>3. MonthStart(t) \div DayLen = First(q)
  <2>1. First(q) \in Nat
    BY <1>1, MonthOf, FirstsOf
  <2>2. MonthStart(t) = DayLen * First(q)
    BY DEF MonthStart, First
  <2>3. MonthStart(t) = First(q) * DayLen + 0 /\ 0 \in 0 .. DayLen - 1
    <3> HIDE DEF q
    <3> QED BY <2>1, <2>2, ScheduleAssumption
  <2> HIDE DEF q
  <2> QED BY <2>1, <2>3, DivModUnique, ScheduleAssumption
<1>4. s.kind # "off"
  BY SpecFields
<1> QED BY <1>2, <1>3, <1>4 DEF Fires, OnDay

\* No slot between two days on which none is, and how instants are ordered.
LEMMA InstantOrder ==
    ASSUME NEW q \in Nat, NEW p \in Nat, NEW r \in 0 .. DayLen - 1, NEW o \in 0 .. DayLen - 1
    PROVE  At(q, r) < At(p, o) <=> q < p \/ (q = p /\ r < o)
BY DayOrder DEF At

\* No slot lies between the slots of two days when none is on the days between.
LEMMA NothingBetween ==
    ASSUME NEW s \in ScheduleSpec, NEW now \in Nat, NEW e \in Nat, e < 3 * Year, OnDay(s, e),
           At(e, s.offset) > now,
           \A q \in Nat : q < e /\ At(q, s.offset) > now => ~OnDay(s, q)
    PROVE  /\ Fires(s, At(e, s.offset))
           /\ \A t \in now + 1 .. At(e, s.offset) - 1 : ~Fires(s, t)
<1> DEFINE o == s.offset
<1>0. o \in 0 .. DayLen - 1
  BY SpecFields
<1>1. At(e, o) \in Nat /\ DayOf(At(e, o)) = e
  BY <1>0, Instants
<1>2. Fires(s, At(e, o))
  BY <1>1, FiresOnDays
<1>3. ASSUME NEW t \in now + 1 .. At(e, o) - 1, Fires(s, t) PROVE FALSE
  <2> DEFINE q == DayOf(t)
  <2>1. t \in Nat /\ t > now /\ t < At(e, o)
    BY <1>1
  <2>2. q \in Nat /\ (t % DayLen) \in 0 .. DayLen - 1 /\ t = At(q, t % DayLen) /\ (t % DayLen) = o
    BY <1>3, <2>1, DayParts DEF At, Fires
  <2>3. q < e
    <3>1. At(q, o) < At(e, o)
      BY <2>1, <2>2
    <3> HIDE DEF q, o
    <3> QED BY <1>0, <2>2, <3>1, InstantOrder
  <2>4. OnDay(s, q)
    <3>1. q < 3 * Year
      <4>1. 3 * Year \in Nat
        BY ScheduleAssumption
      <4> HIDE DEF q
      <4> QED BY <2>2, <2>3, <4>1
    <3> QED BY <1>3, <2>1, <3>1, FiresOnDays
  <2>5. At(q, o) > now
    BY <2>1, <2>2
  <2> HIDE DEF q, o
  <2> QED BY <2>2, <2>3, <2>4, <2>5 DEF o
<1> QED BY <1>2, <1>3

\* The weekday of a week that begins on any day.
LEMMA WeekdayIn ==
    ASSUME NEW d \in Nat, NEW w \in 0 .. Week - 1
    PROVE  LET x == (w - (d % Week) + Week) % Week IN x \in 0 .. Week - 1 /\ ((d + x) % Week) = w
<1> DEFINE a == d \div Week
           r == d % Week
           x == (w - r + Week) % Week
<1>0. Week \in Nat \ {0}
  BY ScheduleAssumption
<1>1. a \in Nat /\ r \in 0 .. Week - 1 /\ d = a * Week + r
  BY <1>0, DivMod
<1> HIDE DEF a, r
<1>2. CASE w >= r
  <2>1. w - r + Week = 1 * Week + (w - r) /\ w - r \in 0 .. Week - 1 /\ 1 \in Nat
    BY <1>0, <1>1, <1>2
  <2>2. x = w - r
    BY <1>0, <2>1, DivModUnique
  <2>3. d + x = a * Week + w
    <3>1. a * Week \in Nat
      BY <1>0, <1>1
    <3> QED BY <1>0, <1>1, <2>2, <3>1
  <2>4. ((d + x) % Week) = w
    <3> HIDE DEF x
    <3>0. Week \in Nat \ {0} /\ a \in Nat /\ w \in 0 .. Week - 1
      BY <1>0, <1>1
    <3>1. ((a * Week + w) % Week) = w
      BY <3>0, DivModUnique
    <3> QED BY <2>3, <3>1
  <2> QED BY <2>1, <2>2, <2>4 DEF r
<1>3. CASE w < r
  <2>1. w - r + Week = 0 * Week + (w - r + Week) /\ w - r + Week \in 0 .. Week - 1 /\ 0 \in Nat
    BY <1>0, <1>1, <1>3
  <2>2. x = w - r + Week
    BY <1>0, <2>1, DivModUnique
  <2>3. d + x = (a + 1) * Week + w
    <3>1. a * Week \in Nat /\ (a + 1) * Week = a * Week + Week
      BY <1>0, <1>1
    <3> QED BY <1>0, <1>1, <2>2, <3>1
  <2>4. ((d + x) % Week) = w
    <3> HIDE DEF x
    <3>0. Week \in Nat \ {0} /\ a + 1 \in Nat /\ w \in 0 .. Week - 1
      BY <1>0, <1>1
    <3>1. (((a + 1) * Week + w) % Week) = w
      BY <3>0, DivModUnique
    <3> QED BY <2>3, <3>1
  <2> QED BY <2>1, <2>2, <2>4 DEF r
<1>4. w >= r \/ w < r
  BY <1>0, <1>1
<1> QED BY <1>2, <1>3, <1>4

\* Two days of one weekday are a week apart.
LEMMA WeekApart ==
    ASSUME NEW q \in Nat, NEW k \in Nat, (q % Week) = (k % Week), q < k
    PROVE  q + Week <= k
<1> DEFINE a == q \div Week
           b == k \div Week
           r == k % Week
<1>0. Week \in Nat \ {0}
  BY ScheduleAssumption
<1>1. a \in Nat /\ b \in Nat /\ r \in 0 .. Week - 1 /\ q = a * Week + r /\ k = b * Week + r
  BY <1>0, DivMod
<1> HIDE DEF a, b, r
<1>2. a < b
  BY <1>0, <1>1
<1>3. (a + 1) * Week <= b * Week
  BY <1>0, <1>1, <1>2
<1>4. (a + 1) * Week = a * Week + Week /\ a * Week \in Nat /\ b * Week \in Nat
  BY <1>0, <1>1
<1> QED BY <1>0, <1>1, <1>3, <1>4

\* The day of a month that a monthly spec names.
LEMMA DayOfMonth ==
    ASSUME NEW s \in ScheduleSpec, s.kind = "monthly", NEW f \in Firsts, f <= 2 * Year
    PROVE  /\ f + s.day - 1 \in Nat /\ f <= f + s.day - 1 /\ f + s.day - 1 < 3 * Year
           /\ OnDay(s, f + s.day - 1)
<1> DEFINE e == f + s.day - 1
<1>1. f \in Nat /\ 3 * Year \in Firsts /\ f < 3 * Year /\ 3 * Year \in Nat
  BY FirstsOf, ScheduleAssumption
<1>2. s.day \in Nat \ {0} /\ f + s.day <= 3 * Year
  BY <1>1, DayInMonth
<1>3. e \in Nat /\ f <= e /\ e < 3 * Year
  BY <1>1, <1>2
<1>4. First(e) \in Firsts /\ First(e) <= e /\ f <= First(e)
  <2> HIDE DEF e
  <2> QED BY <1>3, MonthOf
<1>5. First(e) = f
  <2>1. CASE f < First(e)
    <3>1. f + s.day <= First(e)
      <4> HIDE DEF e
      <4> QED BY <1>4, <2>1, DayInMonth
    <3>2. First(e) \in Nat
      BY <1>4, FirstsOf
    <3> QED BY <1>1, <1>2, <1>4, <3>1, <3>2
  <2>2. First(e) \in Nat
    BY <1>4, FirstsOf
  <2> HIDE DEF e
  <2> QED BY <1>1, <1>4, <2>1, <2>2
<1>6. OnDay(s, e)
  BY <1>5 DEF OnDay
<1> QED BY <1>3, <1>6

\* ScheduleSpec.Next: the first slot strictly after now.
LEMMA NextSlotIsFirst ==
    ASSUME NEW s \in ScheduleSpec, NEW now \in Nat, DayOf(now) < 2 * Year
    PROVE  /\ NextSlot(s, now) \in Nat /\ now < NextSlot(s, now)
           /\ Fires(s, NextSlot(s, now))
           /\ \A t \in now + 1 .. NextSlot(s, now) - 1 : ~Fires(s, t)
<1> DEFINE d == DayOf(now)
           o == s.offset
<1>0. /\ DayLen \in Nat \ {0} /\ Week \in Nat \ {0} /\ Year \in Nat \ {0}
      /\ s.kind \in {"daily", "weekly", "monthly"} /\ o \in 0 .. DayLen - 1
  BY SpecFields, ScheduleAssumption
<1>1. d \in Nat /\ d < 2 * Year /\ now = At(d, now % DayLen) /\ (now % DayLen) \in 0 .. DayLen - 1
  BY DayParts DEF At
<1> HIDE DEF d, o
<1>2. ASSUME NEW q \in Nat, At(q, o) > now PROVE d <= q
  <2>1. d < q \/ d = q
    BY <1>0, <1>1, <1>2, InstantOrder
  <2> QED BY <1>1, <2>1
<1>3. ASSUME NEW q \in Nat, d < q PROVE At(q, o) > now
  BY <1>0, <1>1, <1>3, InstantOrder, Instants
<1>4. ASSUME NEW q \in Nat, NEW p \in Nat, At(q, o) > now, ~(At(p, o) > now) PROVE p < q
  <2>1. At(p, o) < At(q, o)
    BY <1>0, <1>4, Instants
  <2> QED BY <1>0, <2>1, InstantOrder
<1>5. \* The slot of a day, and the one after it.
      ASSUME NEW e \in Nat, NEW n \in Nat, e < 3 * Year, OnDay(s, e), d < n,
             ~(At(e, o) > now) => n < 3 * Year /\ OnDay(s, n),
             \A q \in Nat : d <= q /\ q < e => ~OnDay(s, q),
             \A q \in Nat : d <= q /\ e < q /\ q < n => ~OnDay(s, q),
             NextSlot(s, now) = IF At(e, o) > now THEN At(e, o) ELSE At(n, o)
      PROVE  /\ NextSlot(s, now) \in Nat /\ now < NextSlot(s, now)
             /\ Fires(s, NextSlot(s, now))
             /\ \A t \in now + 1 .. NextSlot(s, now) - 1 : ~Fires(s, t)
  <2>1. CASE At(e, o) > now
    <3>1. At(e, o) \in Nat
      BY <1>0, Instants
    <3>2. \A q \in Nat : q < e /\ At(q, o) > now => ~OnDay(s, q)
      BY <1>2, <1>5
    <3>3. Fires(s, At(e, o)) /\ \A t \in now + 1 .. At(e, o) - 1 : ~Fires(s, t)
      BY <1>5, <2>1, <3>2, NothingBetween DEF o
    <3> QED BY <1>5, <2>1, <3>1, <3>3
  <2>2. CASE ~(At(e, o) > now)
    <3>1. At(n, o) \in Nat /\ At(n, o) > now
      BY <1>0, <1>3, <1>5, Instants
    <3>2. \A q \in Nat : q < n /\ At(q, o) > now => ~OnDay(s, q)
      BY <1>2, <1>4, <1>5, <2>2
    <3>3. Fires(s, At(n, o)) /\ \A t \in now + 1 .. At(n, o) - 1 : ~Fires(s, t)
      BY <1>5, <2>2, <3>1, <3>2, NothingBetween DEF o
    <3> QED BY <1>5, <2>2, <3>1, <3>3
  <2> QED BY <2>1, <2>2
<1>6. ASSUME NEW e \in Nat PROVE At(e, o) \in Nat /\ (~Passed(At(e, o), now) <=> At(e, o) > now)
  BY <1>0, Instants DEF Passed
<1>7. CASE s.kind = "daily"
  <2>1. NextSlot(s, now) = IF Passed(d * DayLen + o, now) THEN d * DayLen + DayLen + o ELSE d * DayLen + o
    BY <1>7 DEF NextSlot, Midnight, DayOf, d, o
  <2>2. (d + 1) * DayLen = d * DayLen + DayLen
    BY <1>0, <1>1
  <2>3. NextSlot(s, now) = IF At(d, o) > now THEN At(d, o) ELSE At(d + 1, o)
    BY <1>1, <1>6, <2>1, <2>2 DEF At
  <2>4. OnDay(s, d) /\ OnDay(s, d + 1) /\ d < 3 * Year /\ d + 1 < 3 * Year /\ d + 1 \in Nat
    BY <1>0, <1>1, <1>7 DEF OnDay
  <2>5. \A q \in Nat : ~(d <= q /\ q < d) /\ ~(d < q /\ q < d + 1)
    BY <1>1
  <2> QED BY <1>1, <1>5, <2>3, <2>4, <2>5
<1>8. CASE s.kind = "weekly"
  <2> DEFINE x == (s.weekday - (d % Week) + Week) % Week
             e == d + x
  <2>0. s.weekday \in 0 .. Week - 1
    BY <1>8, SpecFields
  <2>1. x \in 0 .. Week - 1 /\ (e % Week) = s.weekday
    BY <1>1, <2>0, WeekdayIn
  <2>2. NextSlot(s, now) = IF Passed(d * DayLen + x * DayLen + o, now)
                           THEN d * DayLen + x * DayLen + Week * DayLen + o
                           ELSE d * DayLen + x * DayLen + o
    BY <1>8 DEF NextSlot, Midnight, DayOf, d, o
  <2> HIDE DEF x
  <2>3. e \in Nat /\ d <= e /\ e < d + Week
    BY <1>0, <1>1, <2>1
  <2>4. e * DayLen = d * DayLen + x * DayLen /\ (e + Week) * DayLen = d * DayLen + x * DayLen + Week * DayLen
    BY <1>0, <1>1, <2>1
  <2> HIDE DEF e
  <2>5. NextSlot(s, now) = IF At(e, o) > now THEN At(e, o) ELSE At(e + Week, o)
    BY <1>6, <2>2, <2>3, <2>4 DEF At
  <2>6. Week <= Year
    BY <1>0, ScheduleAssumption
  <2>7. OnDay(s, e) /\ e < 3 * Year
    BY <1>0, <1>1, <1>8, <2>1, <2>3, <2>6 DEF OnDay
  <2>8. ~(At(e, o) > now) => e + Week < 3 * Year /\ OnDay(s, e + Week)
    <3>1. SUFFICES ASSUME ~(At(e, o) > now) PROVE e + Week < 3 * Year /\ OnDay(s, e + Week)
      OBVIOUS
    <3>2. e = d
      <4>1. ~(d < e)
        BY <1>3, <2>3, <3>1
      <4> QED BY <1>1, <2>3, <4>1
    <3>3. ((e + Week) % Week) = s.weekday
      <4> DEFINE b == e \div Week
      <4>1. b \in Nat /\ e = b * Week + s.weekday
        BY <1>0, <2>1, <2>3, DivMod
      <4> HIDE DEF b
      <4>2. (b + 1) * Week = b * Week + Week /\ b * Week \in Nat
        BY <1>0, <4>1
      <4>3. e + Week = (b + 1) * Week + s.weekday
        BY <1>0, <2>0, <4>1, <4>2
      <4>4. b + 1 \in Nat
        BY <4>1
      <4>5. (((b + 1) * Week + s.weekday) % Week) = s.weekday
        BY <1>0, <2>0, <4>4, DivModUnique
      <4> QED BY <4>3, <4>5
    <3> QED BY <1>0, <1>1, <1>8, <2>6, <3>2, <3>3 DEF OnDay
  <2>9. \A q \in Nat : OnDay(s, q) => (q % Week) = (e % Week)
    BY <1>8, <2>1 DEF OnDay
  <2>10. ASSUME NEW q \in Nat, d <= q, q < e, OnDay(s, q) PROVE FALSE
    <3>1. q + Week <= e
      BY <2>3, <2>9, <2>10, WeekApart
    <3> QED BY <1>0, <1>1, <2>3, <2>10, <3>1
  <2>11. ASSUME NEW q \in Nat, e < q, q < e + Week, OnDay(s, q) PROVE FALSE
    <3>1. e + Week <= q
      BY <2>3, <2>9, <2>11, WeekApart
    <3> QED BY <1>0, <2>3, <2>11, <3>1
  <2>12. e + Week \in Nat /\ d < e + Week
    BY <1>0, <1>1, <2>3
  <2> QED BY <1>5, <2>3, <2>5, <2>7, <2>8, <2>10, <2>11, <2>12
<1>9. CASE s.kind = "monthly"
  <2> DEFINE m == First(d)
             n == Following(d)
             e == m + s.day - 1
             l == n + s.day - 1
  <2>1. /\ m \in Firsts /\ m <= d /\ n \in Firsts /\ d < n /\ m \in Nat /\ n \in Nat
        /\ \A f \in Firsts : f \in Nat /\ (f <= m \/ n <= f)
    <3>1. d < 3 * Year
      BY <1>0, <1>1
    <3> QED BY <1>1, <3>1, MonthOf, FirstsOf
  <2>2. m <= 2 * Year /\ n <= 2 * Year
    <3>1. 2 * Year \in Firsts
      <4>1. 2 \in 0 .. 3 /\ 0 \in MonthStarts /\ 2 * Year + 0 = 2 * Year
        BY ScheduleAssumption
      <4> QED BY <4>1, FirstsOf
    <3> QED BY <1>0, <1>1, <2>1, <3>1
  <2>3. s.day \in Nat \ {0}
    <3>1. m < n
      BY <1>1, <2>1
    <3> HIDE DEF m, n
    <3> QED BY <1>9, <2>1, <3>1, DayInMonth
  <2>4. NextSlot(s, now) = IF Passed(DayLen * m + (s.day - 1) * DayLen + o, now)
                           THEN DayLen * n + (s.day - 1) * DayLen + o
                           ELSE DayLen * m + (s.day - 1) * DayLen + o
    BY <1>9 DEF NextSlot, MonthStart, NextMonth, First, Following, d, o
  <2> HIDE DEF m, n
  <2>5. /\ e \in Nat /\ m <= e /\ e < 3 * Year /\ OnDay(s, e)
        /\ l \in Nat /\ n <= l /\ l < 3 * Year /\ OnDay(s, l)
    BY <1>9, <2>1, <2>2, DayOfMonth
  <2>6. e * DayLen = DayLen * m + (s.day - 1) * DayLen /\ l * DayLen = DayLen * n + (s.day - 1) * DayLen
    BY <1>0, <2>1, <2>3
  <2>7. NextSlot(s, now) = IF At(e, o) > now THEN At(e, o) ELSE At(l, o)
    <3> HIDE DEF e, l
    <3> QED BY <1>6, <2>4, <2>5, <2>6 DEF At
  <2>8. ASSUME NEW q \in Nat, d <= q, q < 3 * Year, OnDay(s, q)
        PROVE  First(q) \in Firsts /\ m <= First(q) /\ q = First(q) + s.day - 1
    <3>1. First(q) \in Firsts /\ \A f \in Firsts : f <= q => f <= First(q)
      BY <2>8, MonthOf
    <3>2. m <= q
      BY <1>1, <2>1, <2>8
    <3> QED BY <1>9, <2>1, <2>8, <3>1, <3>2 DEF OnDay
  <2>9. ASSUME NEW q \in Nat, d <= q, q < l, OnDay(s, q), q # e PROVE FALSE
    <3>1. q < 3 * Year
      BY <1>0, <2>5, <2>9
    <3>2. First(q) \in Firsts /\ m <= First(q) /\ q = First(q) + s.day - 1
      BY <2>8, <2>9, <3>1
    <3>3. First(q) \in Nat /\ (First(q) = m \/ n <= First(q))
      <4> DEFINE f == First(q)
      <4>1. f \in Firsts /\ m <= f /\ m \in Nat /\ n \in Nat
        BY <2>1, <3>2
      <4> HIDE DEF f
      <4>2. f \in Nat /\ (f <= m \/ n <= f)
        BY <2>1, <4>1
      <4> QED BY <4>1, <4>2 DEF f
    <3> QED BY <2>1, <2>3, <2>9, <3>2, <3>3
  <2>10. e < l
    BY <2>1, <2>3, <1>1
  <2>11. d < l
    BY <1>1, <2>1, <2>5
  <2>12. /\ \A q \in Nat : d <= q /\ q < e => ~OnDay(s, q)
         /\ \A q \in Nat : d <= q /\ e < q /\ q < l => ~OnDay(s, q)
    <3>1. \A q \in Nat : q < e => q < l /\ q # e
      BY <2>5, <2>10
    <3>2. \A q \in Nat : e < q => q # e
      BY <2>5
    <3> HIDE DEF e, l
    <3> QED BY <2>9, <3>1, <3>2
  <2> HIDE DEF e, l
  <2> QED BY <1>5, <2>5, <2>7, <2>11, <2>12
<1> QED BY <1>0, <1>7, <1>8, <1>9

\* The slots of a spec are a day apart.
LEMMA SlotsApart ==
    ASSUME NEW s \in ScheduleSpec, NEW t \in Nat, NEW u \in Nat, t < u, Fires(s, t), Fires(s, u)
    PROVE  t + DayLen <= u
<1> DEFINE q == DayOf(t)
           p == DayOf(u)
           o == s.offset
<1>0. DayLen \in Nat \ {0} /\ o \in 0 .. DayLen - 1
  BY SpecFields, ScheduleAssumption
<1>1. q \in Nat /\ p \in Nat /\ t = q * DayLen + o /\ u = p * DayLen + o
  BY DayParts DEF Fires
<1> HIDE DEF q, p, o
<1>2. q < p
  BY <1>0, <1>1, DayOrder
<1>3. (q + 1) * DayLen <= p * DayLen
  BY <1>0, <1>1, <1>2
<1>4. (q + 1) * DayLen = q * DayLen + DayLen /\ q * DayLen \in Nat /\ p * DayLen \in Nat
  BY <1>0, <1>1
<1> QED BY <1>0, <1>1, <1>3, <1>4

\* An instant of the first years lies on a day of theirs.
LEMMA DayWithin ==
    ASSUME NEW t \in Nat, NEW n \in Nat, t < n * DayLen
    PROVE  DayOf(t) < n
<1> DEFINE q == DayOf(t)
           r == t % DayLen
<1>0. DayLen \in Nat \ {0} /\ 0 \in 0 .. DayLen - 1
  BY ScheduleAssumption
<1>1. q \in Nat /\ r \in 0 .. DayLen - 1 /\ t = q * DayLen + r
  BY DayParts
<1> HIDE DEF q, r
<1>2. t < n * DayLen + 0
  <2>1. n * DayLen \in Nat
    BY <1>0
  <2> QED BY <2>1
<1>3. q < n \/ (q = n /\ r < 0)
  BY <1>0, <1>1, <1>2, DayOrder
<1> QED BY <1>0, <1>1, <1>3 DEF q

\* The months of one year are those of the next.
LEMMA NextYearsFirst ==
    ASSUME NEW q \in Nat, q < 2 * Year
    PROVE  First(q + Year) = First(q) + Year
<1> DEFINE f == First(q)
           g == First(q + Year)
<1>0. Year \in Nat \ {0} /\ q + Year \in Nat /\ q < 3 * Year /\ q + Year < 3 * Year
  BY ScheduleAssumption
<1>1. f \in Firsts /\ f <= q /\ \A h \in Firsts : h <= q => h <= f
  BY <1>0, MonthOf
<1>2. g \in Firsts /\ g <= q + Year /\ \A h \in Firsts : h <= q + Year => h <= g
  BY <1>0, MonthOf
<1> HIDE DEF f, g
<1>3. f \in Nat /\ g \in Nat
  BY <1>1, <1>2, FirstsOf
<1>4. ASSUME NEW h \in Firsts, h < 2 * Year PROVE h + Year \in Firsts
  <2>1. PICK y \in 0 .. 3, m \in MonthStarts : h = y * Year + m
    BY DEF Firsts
  <2>2. y \in Nat /\ m \in Nat /\ m < Year
    BY <1>0, ScheduleAssumption
  <2>3. y < 2
    <3>1. CASE y >= 2
      <4>1. 2 * Year <= y * Year /\ y * Year \in Nat
        BY <1>0, <2>2, <3>1
      <4> QED BY <1>0, <1>4, <2>1, <2>2, <4>1
    <3> QED BY <2>2, <3>1
  <2>4. (y + 1) * Year = y * Year + Year /\ y * Year \in Nat
    BY <1>0, <2>2
  <2>5. y + 1 \in 0 .. 3 /\ h + Year = (y + 1) * Year + m
    BY <1>0, <2>1, <2>2, <2>3, <2>4
  <2> QED BY <2>5, FirstsOf
<1>5. ASSUME NEW h \in Firsts, Year <= h PROVE h - Year \in Firsts
  <2>1. PICK y \in 0 .. 3, m \in MonthStarts : h = y * Year + m
    BY DEF Firsts
  <2>2. y \in Nat /\ m \in Nat /\ m < Year
    BY <1>0, ScheduleAssumption
  <2>3. y >= 1
    <3>1. CASE y = 0
      <4>1. y * Year = 0
        BY <1>0, <3>1
      <4> QED BY <1>0, <1>5, <2>1, <2>2, <4>1
    <3> QED BY <2>2, <3>1
  <2>4. (y - 1) * Year = y * Year - Year /\ y * Year \in Nat
    BY <1>0, <2>2
  <2>5. y - 1 \in 0 .. 3 /\ h - Year = (y - 1) * Year + m
    BY <1>0, <2>1, <2>2, <2>3, <2>4
  <2> QED BY <2>5, FirstsOf
<1>6. f + Year <= g
  <2>1. f < 2 * Year
    BY <1>0, <1>1, <1>3
  <2>2. f + Year \in Firsts /\ f + Year <= q + Year
    BY <1>0, <1>1, <1>3, <1>4, <2>1
  <2> QED BY <1>2, <2>2
<1>7. g - Year <= f
  <2>1. Year <= g
    BY <1>0, <1>3, <1>6
  <2>2. g - Year \in Firsts /\ g - Year <= q
    BY <1>0, <1>2, <1>3, <1>5, <2>1
  <2> QED BY <1>1, <2>2
<1> QED BY <1>0, <1>3, <1>6, <1>7 DEF f, g

\* The slots of one year are those of the next.
LEMMA NextYearsSlots ==
    ASSUME NEW s \in ScheduleSpec, NEW t \in Nat, t < 2 * Horizon
    PROVE  Fires(s, t + Horizon) <=> Fires(s, t)
<1> DEFINE q == DayOf(t)
           r == t % DayLen
<1>0. /\ DayLen \in Nat \ {0} /\ Week \in Nat \ {0} /\ Year \in Nat \ {0} /\ (Year % Week) = 0
      /\ 2 * Year \in Nat /\ s.offset \in 0 .. DayLen - 1
  BY SpecFields, ScheduleAssumption
<1>1. q \in Nat /\ r \in 0 .. DayLen - 1 /\ t = q * DayLen + r
  BY DayParts
<1>2. q < 2 * Year
  <2>1. 2 * Horizon = (2 * Year) * DayLen
    BY <1>0 DEF Horizon
  <2> QED BY <1>0, <2>1, DayWithin
<1> HIDE DEF q, r
<1>3. t + Horizon = At(q + Year, r)
  <2>1. (q + Year) * DayLen = q * DayLen + Year * DayLen /\ q * DayLen \in Nat /\ Year * DayLen \in Nat
    BY <1>0, <1>1
  <2> QED BY <1>0, <1>1, <2>1 DEF At, Horizon
<1>4. q + Year \in Nat /\ q + Year < 3 * Year /\ q < 3 * Year
  BY <1>0, <1>1, <1>2
<1>5. t = At(q, r)
  BY <1>1 DEF At
<1>6. OnDay(s, q + Year) <=> OnDay(s, q)
  <2>1. ((q + Year) % Week) = (q % Week)
    <3> DEFINE a == q \div Week
               b == Year \div Week
               w == q % Week
    <3>1. /\ a \in Nat /\ b \in Nat /\ w \in 0 .. Week - 1
          /\ q = a * Week + w /\ Year = b * Week + (Year % Week)
      BY <1>0, <1>1, DivMod
    <3> HIDE DEF a, b, w
    <3>2. (a + b) * Week = a * Week + b * Week /\ a * Week \in Nat /\ b * Week \in Nat /\ a + b \in Nat
      BY <1>0, <3>1
    <3>3. q + Year = (a + b) * Week + w
      BY <1>0, <3>1, <3>2
    <3>4. (((a + b) * Week + w) % Week) = w
      BY <1>0, <3>1, <3>2, DivModUnique
    <3> QED BY <3>3, <3>4 DEF w
  <2>2. First(q + Year) = First(q) + Year
    BY <1>1, <1>2, NextYearsFirst
  <2>3. s.kind = "monthly" => s.day \in Nat /\ First(q) \in Nat
    <3>1. First(q) \in Firsts /\ Following(q) \in Firsts /\ First(q) <= q /\ q < Following(q)
      BY <1>1, <1>4, MonthOf
    <3>2. First(q) \in Nat /\ Following(q) \in Nat
      BY <3>1, FirstsOf
    <3>3. First(q) < Following(q)
      BY <1>1, <3>1, <3>2
    <3> QED BY <3>1, <3>2, <3>3, DayInMonth
  <2> QED BY <1>0, <1>1, <2>1, <2>2, <2>3 DEF OnDay
<1>7. ASSUME NEW p \in Nat PROVE At(p, r) = At(p, s.offset) <=> r = s.offset
  <2>1. (At(p, r) % DayLen) = r
    BY <1>1, Instants
  <2>2. (At(p, s.offset) % DayLen) = s.offset
    BY <1>0, Instants
  <2> QED BY <2>1, <2>2
<1>8. Fires(s, t) <=> r = s.offset /\ OnDay(s, q)
  <2>1. DayOf(t) = q
    BY DEF q
  <2> QED BY <1>1, <1>4, <1>5, <1>7, <2>1, FiresOnDays
<1>9. Fires(s, t + Horizon) <=> r = s.offset /\ OnDay(s, q + Year)
  <2>1. At(q + Year, r) \in Nat /\ DayOf(At(q + Year, r)) = q + Year
    BY <1>1, <1>4, Instants
  <2>2. At(q + Year, r) = At(q + Year, s.offset) <=> r = s.offset
    BY <1>4, <1>7
  <2> QED BY <1>3, <1>4, <2>1, <2>2, FiresOnDays
<1> QED BY <1>6, <1>8, <1>9

-------------------------------------------------------------------------------
(* Now, a year after the beginning, and the instants around it. *)

\* What arithmetic needs of the constants.
LEMMA Constants ==
    /\ DayLen \in Nat \ {0} /\ Year \in Nat \ {0} /\ Horizon \in Nat /\ DayLen <= Horizon
    /\ Grace \in Nat /\ Gap \in Nat /\ Reread \in Nat /\ Late \in Nat
    /\ Late < Grace /\ Grace < Gap /\ Gap < Reread /\ Grace + Reread <= DayLen
<1>1. /\ DayLen \in Nat \ {0} /\ Year \in Nat \ {0}
      /\ Grace \in Nat /\ Gap \in Nat /\ Reread \in Nat /\ Late \in Nat
      /\ Late < Grace /\ Grace < Gap /\ Gap < Reread /\ Grace + Reread <= DayLen
  BY ScheduleAssumption
<1>2. Year * DayLen \in Nat /\ 1 * DayLen <= Year * DayLen
  BY <1>1
<1> QED BY <1>1, <1>2 DEF Horizon

\* Now has a past of a year, and so has the beginning of the grace.
LEMMA Moment ==
    ASSUME clock \in 0 .. Horizon - 1
    PROVE  /\ Now \in Nat /\ Horizon <= Now /\ Now < 2 * Horizon
           /\ Now - Grace \in Nat /\ DayOf(Now) < 2 * Year /\ DayOf(Now - Grace) < 2 * Year
<1>1. Now \in Nat /\ Horizon <= Now /\ Now < 2 * Horizon /\ Now - Grace \in Nat /\ Now - Grace < 2 * Horizon
  BY Constants DEF Now
<1>2. 2 * Horizon = (2 * Year) * DayLen /\ 2 * Year \in Nat
  BY Constants DEF Horizon
<1> QED BY <1>1, <1>2, DayWithin

\* A component whose schedule is off.
LEMMA OffRests == /\ \A t : ~Fires(Off, t)
                  /\ ~IsDue(Off) /\ Off.kind = "off"
BY DEF Fires, IsDue, Off

\* IsDue: a slot came within the grace.  If none did, the slot that NextSlot
\* finds is still to come.
LEMMA IsDueMeans ==
    ASSUME NEW s \in ScheduleSpec, clock \in 0 .. Horizon - 1
    PROVE  /\ IsDue(s) <=> \E j \in 0 .. Grace - 1 : Fires(s, Now - j)
           /\ ~IsDue(s) => /\ NextSlot(s, Now - Grace) - Now \in Nat \ {0}
                           /\ \A j \in 1 .. NextSlot(s, Now - Grace) - Now - 1 : ~Fires(s, Now + j)
<1> DEFINE n == NextSlot(s, Now - Grace)
<1>1. Now \in Nat /\ Grace \in Nat
  BY Moment, Constants
<1>2. n \in Nat /\ Now - Grace < n /\ Fires(s, n) /\ \A t \in Now - Grace + 1 .. n - 1 : ~Fires(s, t)
  BY Moment, NextSlotIsFirst
<1>3. IsDue(s) <=> n <= Now
  BY SpecFields DEF IsDue
<1> HIDE DEF n
<1>4. ASSUME n <= Now PROVE \E j \in 0 .. Grace - 1 : Fires(s, Now - j)
  <2>1. Now - n \in 0 .. Grace - 1 /\ Now - (Now - n) = n
    BY <1>1, <1>2, <1>4
  <2> QED BY <1>2, <2>1
<1>5. ASSUME ~(n <= Now), NEW t \in Int, Now - Grace < t, t < n PROVE ~Fires(s, t)
  BY <1>1, <1>2, <1>5
<1>6. ASSUME ~(n <= Now), NEW j \in 0 .. Grace - 1 PROVE ~Fires(s, Now - j)
  <2>1. Now - j \in Int /\ Now - Grace < Now - j /\ Now - j < n
    BY <1>1, <1>2, <1>6
  <2> QED BY <1>5, <1>6, <2>1
<1>7. ASSUME ~(n <= Now) PROVE n - Now \in Nat \ {0}
  BY <1>1, <1>2, <1>7
<1>8. ASSUME ~(n <= Now), NEW j \in 1 .. n - Now - 1 PROVE ~Fires(s, Now + j)
  <2>1. Now + j \in Int /\ Now - Grace < Now + j /\ Now + j < n
    BY <1>1, <1>2, <1>8
  <2> QED BY <1>5, <1>8, <2>1
<1> QED BY <1>3, <1>4, <1>6, <1>7, <1>8 DEF n

\* After a slot within the grace the next one is not within the hour.
LEMMA DueRestsLong ==
    ASSUME NEW s \in ScheduleSpec, clock \in 0 .. Horizon - 1, IsDue(s), NEW j \in 1 .. Reread - 1
    PROVE  ~Fires(s, Now + j)
<1>1. PICK k \in 0 .. Grace - 1 : Fires(s, Now - k)
  BY IsDueMeans
<1>2. /\ Now \in Nat /\ Now - k \in Nat /\ Now + j \in Nat /\ Now - k < Now + j
      /\ ~(Now - k + DayLen <= Now + j)
  BY Moment, Constants
<1> QED BY <1>1, <1>2, SlotsApart

\* When the clock moves on, at the end of the year to its beginning, the slots
\* around it are the same.
LEMMA TickShift ==
    ASSUME NEW s \in ScheduleSpec \cup {Off}, clock \in 0 .. Horizon - 1, clock' = (clock + 1) % Horizon,
           NEW j \in Int, -DayLen <= j, j < DayLen
    PROVE  Fires(s, Now' + j) <=> Fires(s, Now + 1 + j)
<1>0. clock \in Nat /\ Horizon \in Nat \ {0} /\ DayLen \in Nat /\ DayLen <= Horizon
  BY Constants
<1>1. CASE clock + 1 < Horizon
  <2>1. clock + 1 = 0 * Horizon + (clock + 1) /\ clock + 1 \in 0 .. Horizon - 1 /\ 0 \in Nat
    BY <1>0, <1>1
  <2>2. clock' = clock + 1
    BY <1>0, <2>1, DivModUnique
  <2>3. Now' + j = Now + 1 + j
    BY <1>0, <2>2 DEF Now
  <2> QED BY <2>3
<1>2. CASE clock + 1 = Horizon
  <2>1. clock + 1 = 1 * Horizon + 0 /\ 0 \in 0 .. Horizon - 1 /\ 1 \in Nat
    BY <1>0, <1>2
  <2>2. clock' = 0
    BY <1>0, <2>1, DivModUnique
  <2> DEFINE t == Horizon + j
  <2>3. t \in Nat /\ t < 2 * Horizon /\ Now' + j = t /\ Now + 1 + j = t + Horizon
    BY <1>0, <1>2, <2>2 DEF Now
  <2> HIDE DEF t
  <2> QED BY <2>3, NextYearsSlots, OffRests
<1> QED BY <1>0, <1>1, <1>2

-------------------------------------------------------------------------------
(* The loop.  Whatever ticks are lost, an iteration ends sleep - late ticks   *)
(* from now on the clock of a loop that loses none.                          *)

Stored == [Components -> ScheduleSpec \cup {Off}]

\* The types the proof needs, of the variables it is about.
Types ==
    /\ clock \in 0 .. Horizon - 1 /\ spec \in Stored /\ seen \in Stored
    /\ sleep \in 0 .. Reread /\ late \in 0 .. Late
    /\ owed \subseteq Components /\ ran \subseteq Components
    /\ raised \in BOOLEAN /\ missed \subseteq Passing

\* Unless the timer was raised, no slot the loop knows of comes before its end.
Asleep == ~raised => \A c \in Components, j \in 1 .. sleep - late - 1 : ~Fires(seen[c], Now + j)

\* So a slot met since the reading came at the end or later.
OwedRecent ==
    \A c \in owed : /\ seen[c] = spec[c]
                    /\ ~raised => \E j \in 0 .. late - sleep : Fires(spec[c], Now - j)

\* The slots of components served are out of the grace when the loop goes on.
RanServed == \A c \in ran, j \in 0 .. Grace - sleep - 1 : ~Fires(spec[c], Now - j)

\* What arithmetic needs of Types.
LEMMA Timers ==
    ASSUME Types
    PROVE  /\ sleep \in Nat /\ late \in Nat /\ sleep <= Reread /\ late <= Late
           /\ clock \in Nat /\ clock < Horizon
<1>1. sleep \in 0 .. Reread /\ late \in 0 .. Late /\ clock \in 0 .. Horizon - 1
  BY DEF Types
<1> QED BY <1>1, Constants

\* The instants the proof looks at are less than a day away.
LEMMA WithinADay ==
    ASSUME NEW j \in Nat, j < Grace + Reread
    PROVE  /\ j \in Int /\ -DayLen <= j /\ j < DayLen
           /\ -j \in Int /\ -DayLen <= -j /\ -j < DayLen
BY Constants

\* The inductive invariant.
ScheduleInv == Types /\ Asleep /\ OwedRecent /\ RanServed /\ OnlyPauseSkips

\* The loop before its first reading.
LEMMA ScheduleInit == Init => ScheduleInv
<1> SUFFICES ASSUME Init PROVE ScheduleInv
  OBVIOUS
<1>1. clock = 0 /\ sleep = 0 /\ late = 0 /\ owed = {} /\ ran = {} /\ missed = {} /\ raised = FALSE
  BY DEF Init
<1>2. spec \in Stored /\ seen \in Stored
  <2>1. Starts \subseteq [Components -> Specs \cup {Off}] /\ Specs \subseteq ScheduleSpec
    BY ScheduleAssumption
  <2> QED BY <2>1 DEF Init, Stored
<1>3. Types
  <2>1. 0 \in 0 .. Horizon - 1 /\ 0 \in 0 .. Reread /\ 0 \in 0 .. Late
    BY Constants
  <2> QED BY <1>1, <1>2, <2>1 DEF Types
<1>4. Asleep /\ OwedRecent /\ RanServed /\ OnlyPauseSkips
  BY <1>1 DEF Asleep, OwedRecent, RanServed, OnlyPauseSkips
<1> QED BY <1>3, <1>4 DEF ScheduleInv

\* RunScheduler at the top of its loop: the timer ends before the next slot of
\* every component, and after the grace of the ones it serves.
LEMMA LoopTopStep ==
    ASSUME ScheduleInv, LoopTop
    PROVE  ScheduleInv'
<1>0. PICK lost \in SUBSET Components :
        LET read == [c \in Components |-> IF c \in lost THEN Off ELSE spec[c]]
            hit == {c \in Components : IsDue(read[c])}
            rest == {c \in Components : read[c].kind # "off"} \ hit
            wait == Min({Reread} \cup {NextSlot(read[c], Now - Grace) - Now : c \in rest})
        IN  /\ raised' = Raise(hit # {}, wait) /\ sleep' = IF raised' THEN Gap ELSE wait
            /\ missed' = {[component |-> c, paused |-> raised, unread |-> c \in lost] : c \in owed \ hit}
            /\ ran' = ran \cup hit /\ seen' = read
  BY DEF LoopTop
<1> DEFINE read == [c \in Components |-> IF c \in lost THEN Off ELSE spec[c]]
           hit == {c \in Components : IsDue(read[c])}
           rest == {c \in Components : read[c].kind # "off"} \ hit
           Ends == {Reread} \cup {NextSlot(read[c], Now - Grace) - Now : c \in rest}
           wait == Min(Ends)
<1>1. /\ sleep = 0 /\ raised' = Raise(hit # {}, wait) /\ sleep' = IF raised' THEN Gap ELSE wait
      /\ missed' = {[component |-> c, paused |-> raised, unread |-> c \in lost] : c \in owed \ hit}
      /\ ran' = ran \cup hit
      /\ seen' = read /\ owed' = {} /\ late' = 0 /\ clock' = clock /\ spec' = spec
  BY <1>0 DEF LoopTop
<1>2. Types /\ clock \in 0 .. Horizon - 1 /\ spec \in Stored /\ read \in Stored
  BY DEF ScheduleInv, Types, Stored
<1>r. \A c \in Components : read[c] = IF c \in lost THEN Off ELSE spec[c]
  OBVIOUS
<1> HIDE DEF read
<1>3. ASSUME NEW c \in Components
      PROVE  read[c] \in ScheduleSpec \/ (read[c] = Off /\ c \notin hit /\ c \notin rest)
  BY <1>2, OffRests DEF Stored
<1>4. ASSUME NEW c \in rest
      PROVE  /\ NextSlot(read[c], Now - Grace) - Now \in Nat \ {0}
             /\ \A j \in 1 .. NextSlot(read[c], Now - Grace) - Now - 1 : ~Fires(read[c], Now + j)
  BY <1>2, <1>3, IsDueMeans
<1>5. wait \in Ends /\ (\A x \in Ends : wait <= x) /\ Ends \subseteq Nat
  <2>1. Ends \subseteq Nat /\ Reread \in Ends
    BY <1>4, Constants
  <2> HIDE DEF Ends
  <2> QED BY <2>1, MinOf
<1>6. wait \in 0 .. Reread
  <2>1. Reread \in Ends
    OBVIOUS
  <2> HIDE DEF Ends, wait
  <2>2. wait \in Nat /\ wait <= Reread
    BY <1>5, <2>1
  <2> QED BY <2>2, Constants
<1>7. ASSUME NEW c \in Components, NEW j \in 1 .. wait - 1 PROVE ~Fires(read[c], Now + j)
  <2>1. CASE read[c] = Off
    BY <2>1, OffRests
  <2>2. CASE read[c] \in ScheduleSpec /\ c \in hit
    <3>1. j \in 1 .. Reread - 1
      BY <1>6, Constants
    <3> QED BY <1>2, <2>2, <3>1, DueRestsLong
  <2>3. CASE read[c] \in ScheduleSpec /\ c \notin hit
    <3>1. c \in rest
      BY <2>3, SpecFields
    <3>2. wait <= NextSlot(read[c], Now - Grace) - Now
      <4>1. NextSlot(read[c], Now - Grace) - Now \in Ends
        BY <3>1
      <4> HIDE DEF Ends, rest
      <4> QED BY <1>5, <4>1
    <3>3. NextSlot(read[c], Now - Grace) - Now \in Nat \ {0}
      BY <1>4, <3>1
    <3>4. j \in 1 .. NextSlot(read[c], Now - Grace) - Now - 1
      BY <1>6, <3>2, <3>3, Constants
    <3> QED BY <1>4, <3>1, <3>4
  <2> QED BY <1>3, <2>1, <2>2, <2>3
<1>8. hit # {} => sleep' >= Gap
  <2> HIDE DEF hit, wait
  <2> SUFFICES ASSUME hit # {} PROVE sleep' >= Gap
    OBVIOUS
  <2>1. CASE wait < Gap
    <3>1. raised'
      BY <1>1, <2>1 DEF Raise
    <3> QED BY <1>1, <3>1, Constants
  <2>2. CASE ~(wait < Gap)
    <3>1. ~raised'
      BY <1>1, <2>2 DEF Raise
    <3> QED BY <1>1, <1>6, <2>2, <3>1, Constants
  <2> QED BY <2>1, <2>2
<1>9. \A c \in owed \ hit : raised \/ c \in lost
  <2> SUFFICES ASSUME NEW c \in owed, c \notin hit, ~raised, c \notin lost PROVE FALSE
    BY <1>2 DEF Types
  <2>0. c \in Components /\ read[c] = spec[c]
    BY <1>2, <1>r DEF Types
  <2>1. PICK j \in 0 .. late - sleep : Fires(spec[c], Now - j)
    BY DEF ScheduleInv, OwedRecent
  <2>2. j \in 0 .. Grace - 1
    BY <1>1, <1>2, Constants DEF Types
  <2>3. c \in Components /\ spec[c] \in ScheduleSpec
    BY <1>3, <2>0, <2>1, OffRests
  <2> QED BY <1>2, <2>0, <2>1, <2>2, <2>3, IsDueMeans
<1> HIDE DEF wait
<1>m. ASSUME NEW m \in missed' PROVE m \in Passing /\ (m.paused \/ m.unread)
  <2> HIDE DEF hit
  <2>1. PICK c \in owed \ hit : m = [component |-> c, paused |-> raised, unread |-> c \in lost]
    BY <1>1, Zenon
  <2>2. c \in Components /\ raised \in BOOLEAN /\ (c \in lost) \in BOOLEAN
    BY <1>2 DEF Types
  <2>3. m.paused = raised /\ m.unread = (c \in lost)
    BY <2>1, Zenon
  <2>4. m \in Passing
    BY <2>1, <2>2, Zenon DEF Passing
  <2> QED BY <1>9, <2>3, <2>4, Zenon
<1>10. Types'
  <2>1. sleep' \in 0 .. Reread /\ late' \in 0 .. Late /\ raised' \in BOOLEAN
    BY <1>1, <1>6, Constants DEF Raise
  <2>2. missed' \subseteq Passing
    BY <1>m, Zenon
  <2> QED BY <1>1, <1>2, <2>1, <2>2 DEF Types
<1>11. Now' = Now
  BY <1>1 DEF Now
<1>12. Asleep'
  <2> SUFFICES ASSUME ~raised', NEW c \in Components, NEW j \in 1 .. sleep' - late' - 1
               PROVE  ~Fires(seen'[c], Now' + j)
    BY DEF Asleep
  <2>1. j \in 1 .. wait - 1
    BY <1>1, <1>6
  <2> QED BY <1>1, <1>7, <1>11, <2>1
<1>13. OwedRecent'
  BY <1>1 DEF OwedRecent
<1>14. RanServed'
  <2> SUFFICES ASSUME NEW c \in ran', NEW j \in 0 .. Grace - sleep' - 1 PROVE ~Fires(spec'[c], Now' - j)
    BY DEF RanServed
  <2>1. CASE hit # {}
    <3>1. sleep' >= Gap
      BY <1>8, <2>1
    <3>2. PICK sn \in Nat : sn = sleep'
      <4> HIDE DEF hit, wait
      <4>1. wait \in Nat /\ Gap \in Nat
        BY <1>6, Constants
      <4> QED BY <1>1, <4>1
    <3>3. Gap \in Nat /\ Grace \in Nat /\ Grace < Gap
      BY Constants
    <3>4. j \in 0 .. Grace - sn - 1 /\ sn >= Gap
      BY <3>1, <3>2
    <3> QED BY <3>3, <3>4
  <2>2. CASE hit = {}
    <3>1. c \in ran /\ j \in 0 .. Grace - sleep - 1
      BY <1>1, <1>10, <2>2, Constants DEF Types
    <3> QED BY <1>1, <1>11, <3>1 DEF ScheduleInv, RanServed
  <2> QED BY <2>1, <2>2
<1>15. OnlyPauseSkips'
  BY <1>m, Zenon DEF OnlyPauseSkips
<1> QED BY <1>10, <1>12, <1>13, <1>14, <1>15 DEF ScheduleInv

\* Time passes while the loop sleeps, or while it is late.
LEMMA TickStep ==
    ASSUME ScheduleInv, Tick
    PROVE  ScheduleInv'
<1> DEFINE slots == {c \in Components : Fires(spec[c], Now + 1)}
<1>1. /\ clock' = (clock + 1) % Horizon
      /\ owed' = owed \cup {c \in slots : seen[c] = spec[c]} /\ ran' = ran \ slots
      /\ UNCHANGED <<spec, seen, raised, missed>>
  BY DEF Tick
<1>2. /\ Types /\ clock \in 0 .. Horizon - 1
      /\ \A c \in Components : spec[c] \in ScheduleSpec \cup {Off} /\ seen[c] \in ScheduleSpec \cup {Off}
  BY DEF ScheduleInv, Types, Stored
<1>3. /\ sleep' \in 0 .. Reread /\ late' \in 0 .. Late
      /\ sleep' - late' = sleep - late - 1 /\ sleep - 1 <= sleep'
  BY <1>2, Constants DEF Types, Tick
<1>4. PICK sn \in Nat, ln \in Nat : sn = sleep' /\ ln = late'
  BY <1>3, Constants
<1>5. sleep \in Nat /\ late \in Nat
  BY <1>2, Timers
<1>6. sleep <= Reread /\ late <= Late /\ sn <= Reread /\ ln <= Late
  <2>1. sn \in 0 .. Reread /\ ln \in 0 .. Late
    BY <1>3, <1>4
  <2> QED BY <1>2, <2>1, Timers, Constants
<1>7. sn - ln = sleep - late - 1 /\ sleep - 1 <= sn
  BY <1>3, <1>4
<1>8. clock' \in 0 .. Horizon - 1
  <2>1. clock + 1 \in Nat /\ Horizon \in Nat \ {0}
    BY <1>2, Constants
  <2> QED BY <1>1, <2>1, DivMod
<1>9. Types'
  BY <1>1, <1>2, <1>3, <1>8 DEF Types
<1>10. Now \in Nat
  BY <1>2, Moment
<1>11. Now' \in Int
  BY <1>8, Constants DEF Now
<1>12. ASSUME NEW c \in Components, NEW j \in Int, -DayLen <= j, j < DayLen
      PROVE  /\ Fires(spec'[c], Now' + j) <=> Fires(spec[c], Now + 1 + j)
             /\ Fires(seen'[c], Now' + j) <=> Fires(seen[c], Now + 1 + j)
  BY <1>1, <1>2, <1>12, TickShift
<1>13. Asleep'
  <2> SUFFICES ASSUME ~raised', NEW c \in Components, NEW j \in 1 .. sleep' - late' - 1
               PROVE  ~Fires(seen'[c], Now' + j)
    BY DEF Asleep
  <2>0. j \in 1 .. sn - ln - 1
    BY <1>4
  <2>1. j \in Nat /\ 1 <= j /\ j <= sn - ln - 1
    BY <2>0
  <2>2. j + 1 \in 1 .. sleep - late - 1 /\ j < Grace + Reread
    <3>1. j + 1 \in 1 .. sleep - late - 1
      BY <1>5, <1>7, <2>1
    <3> QED BY <1>6, <2>1, <3>1, Constants
  <2>3. ~Fires(seen[c], Now + (j + 1))
    BY <1>1, <2>2 DEF ScheduleInv, Asleep
  <2>4. Now + (j + 1) = Now + 1 + j
    BY <1>10, <2>1
  <2>5. j \in Int /\ -DayLen <= j /\ j < DayLen
    BY <2>1, <2>2, WithinADay
  <2> QED BY <1>12, <2>3, <2>4, <2>5
<1>14. OwedRecent'
  <2> SUFFICES ASSUME NEW c \in owed'
               PROVE  /\ seen'[c] = spec'[c]
                      /\ ~raised' => \E j \in 0 .. late' - sleep' : Fires(spec'[c], Now' - j)
    BY DEF OwedRecent
  <2>1. c \in Components
    BY <1>1, <1>2 DEF Types
  <2>2. CASE c \in owed
    <3>1. seen'[c] = spec'[c]
      BY <1>1, <2>2 DEF ScheduleInv, OwedRecent
    <3>2. ASSUME ~raised PROVE \E j \in 0 .. late' - sleep' : Fires(spec'[c], Now' - j)
      <4>1. PICK j \in 0 .. late - sleep : Fires(spec[c], Now - j)
        BY <2>2, <3>2 DEF ScheduleInv, OwedRecent
      <4> DEFINE i == -(j + 1)
      <4>2. j \in Nat /\ j <= late - sleep
        BY <1>5
      <4>3. j + 1 \in 0 .. late' - sleep' /\ j + 1 < Grace + Reread
        <5>1. j + 1 \in 0 .. late' - sleep'
          <6>1. j + 1 \in 0 .. ln - sn
            BY <1>5, <1>7, <4>2
          <6> QED BY <1>4, <6>1
        <5>2. j <= Late
          BY <1>5, <1>6, <4>2, Constants
        <5> QED BY <5>1, <5>2, <4>2, Constants
      <4>4. i \in Int /\ -DayLen <= i /\ i < DayLen
        BY <4>2, <4>3, WithinADay
      <4>5. Now + 1 + i = Now - j /\ Now' + i = Now' - (j + 1)
        BY <1>10, <1>11, <4>2
      <4>6. Fires(spec'[c], Now' + i)
        <5> HIDE DEF i
        <5> QED BY <1>12, <2>1, <4>1, <4>4, <4>5
      <4> QED BY <4>3, <4>5, <4>6
    <3> QED BY <1>1, <3>1, <3>2
  <2>3. CASE c \notin owed
    <3>1. Fires(spec[c], Now + 1) /\ seen[c] = spec[c]
      BY <1>1, <2>3
    <3>2. ASSUME ~raised PROVE \E j \in 0 .. late' - sleep' : Fires(spec'[c], Now' - j)
      <4>1. ~(1 \in 1 .. sleep - late - 1)
        BY <2>1, <3>1, <3>2 DEF ScheduleInv, Asleep
      <4>2. ~(1 <= sleep - late - 1)
        BY <1>5, <4>1
      <4>3. 0 \in 0 .. late' - sleep'
        <5>1. 0 \in 0 .. ln - sn
          BY <1>5, <1>7, <4>2
        <5> QED BY <1>4, <5>1
      <4>4. 0 \in Int /\ -DayLen <= 0 /\ 0 < DayLen
        BY Constants
      <4>5. Now + 1 + 0 = Now + 1 /\ Now' + 0 = Now' - 0
        BY <1>10, <1>11
      <4>6. Fires(spec'[c], Now' + 0)
        BY <1>12, <2>1, <3>1, <4>4, <4>5
      <4> QED BY <4>3, <4>5, <4>6
    <3> QED BY <1>1, <3>1, <3>2
  <2> QED BY <2>2, <2>3
<1>15. RanServed'
  <2> SUFFICES ASSUME NEW c \in ran', NEW j \in 0 .. Grace - sleep' - 1 PROVE ~Fires(spec'[c], Now' - j)
    BY DEF RanServed
  <2>1. c \in Components /\ c \in ran /\ ~Fires(spec[c], Now + 1)
    BY <1>1, <1>2 DEF Types
  <2> DEFINE i == -j
  <2>2. j \in Nat /\ j <= Grace - sn - 1
    <3>1. Grace \in Nat /\ j \in 0 .. Grace - sn - 1
      BY <1>4, Constants
    <3> QED BY <3>1
  <2>3. i \in Int /\ -DayLen <= i /\ i < DayLen
    <3>1. j < Grace + Reread
      <4>1. Grace \in Nat /\ Reread \in Nat
        BY Constants
      <4> QED BY <2>2, <4>1
    <3> QED BY <2>2, <3>1, WithinADay
  <2>4. Now' + i = Now' - j /\ (j = 0 => Now + 1 + i = Now + 1) /\ (j # 0 => Now + 1 + i = Now - (j - 1))
    BY <1>10, <1>11, <2>2
  <2>5. j # 0 => j - 1 \in 0 .. Grace - sleep - 1
    <3>1. Grace \in Nat
      BY Constants
    <3> QED BY <1>5, <1>7, <2>2, <3>1
  <2> HIDE DEF i
  <2>6. ~Fires(spec[c], Now + 1 + i)
    BY <2>1, <2>4, <2>5 DEF ScheduleInv, RanServed
  <2> QED BY <1>12, <2>1, <2>3, <2>4, <2>6
<1>16. OnlyPauseSkips'
  BY <1>1 DEF ScheduleInv, OnlyPauseSkips
<1> QED BY <1>9, <1>13, <1>14, <1>15, <1>16 DEF ScheduleInv

\* An operator stores another schedule; the loop is not told.
LEMMA SetScheduleStep ==
    ASSUME ScheduleInv, NEW c \in Components, NEW s \in Specs \cup {Off}, SetScheduleOf(c, s)
    PROVE  ScheduleInv'
<1>1. /\ spec' = [spec EXCEPT ![c] = s] /\ owed' = owed \ {c} /\ ran' = ran \ {c}
      /\ UNCHANGED <<clock, sleep, late, seen, raised, missed>>
  BY DEF SetScheduleOf, loop
<1>2. Types /\ s \in ScheduleSpec \cup {Off}
  BY ScheduleAssumption DEF ScheduleInv
<1>3. Types'
  BY <1>1, <1>2 DEF Types, Stored
<1>4. \A d \in Components : d # c => spec'[d] = spec[d]
  BY <1>1, <1>2 DEF Types, Stored
<1>5. Now' = Now
  BY <1>1 DEF Now
<1>6. Asleep' /\ OnlyPauseSkips'
  BY <1>1, <1>5 DEF ScheduleInv, Asleep, OnlyPauseSkips
<1>7. OwedRecent' /\ RanServed'
  BY <1>1, <1>2, <1>4, <1>5 DEF ScheduleInv, OwedRecent, RanServed, Types
<1> QED BY <1>3, <1>6, <1>7 DEF ScheduleInv

\* A new process has read nothing and owes nothing.
LEMMA CrashStep ==
    ASSUME ScheduleInv, Crash
    PROVE  ScheduleInv'
<1>1. /\ sleep' = 0 /\ late' = 0 /\ seen' = [c \in Components |-> Off] /\ owed' = {} /\ raised' = FALSE /\ ran' = {}
      /\ UNCHANGED <<clock, spec, missed>>
  BY DEF Crash
<1>2. Types'
  <2>1. 0 \in 0 .. Reread /\ 0 \in 0 .. Late
    BY Constants
  <2>2. [c \in Components |-> Off] \in Stored
    BY DEF Stored
  <2> QED BY <1>1, <2>1, <2>2 DEF ScheduleInv, Types
<1>3. Asleep' /\ OwedRecent' /\ RanServed' /\ OnlyPauseSkips'
  BY <1>1 DEF ScheduleInv, Asleep, OwedRecent, RanServed, OnlyPauseSkips
<1> QED BY <1>2, <1>3 DEF ScheduleInv

\* The other steps touch neither the clock nor the loop's timer.
LEMMA ScheduleStep ==
    ASSUME ScheduleInv, [Next]_vars
    PROVE  ScheduleInv'
<1>1. ASSUME UNCHANGED <<clock, spec, sleep, late, seen, owed, raised, missed, ran>> PROVE ScheduleInv'
  BY <1>1 DEF ScheduleInv, Types, Asleep, OwedRecent, RanServed, OnlyPauseSkips, Now
<1>2. CASE Look \/ StartDue
  BY <1>1, <1>2 DEF Look, StartDue, history
<1>3. CASE Succeed \/ Fail
  BY <1>1, <1>3 DEF Succeed, Fail, history, loop
<1>4. ASSUME NEW c \in Components, Release(c) PROVE ScheduleInv'
  BY <1>1, <1>4 DEF Release, history, loop
<1>5. ASSUME NEW c \in Components, NEW v \in Version \ {0}, Start(c, v) PROVE ScheduleInv'
  BY <1>1, <1>5 DEF Start, history, loop
<1>6. CASE UNCHANGED vars
  BY <1>1, <1>6 DEF vars, history, loop
<1> QED BY <1>2, <1>3, <1>4, <1>5, <1>6, LoopTopStep, TickStep, SetScheduleStep, CrashStep DEF Next

\* The inductive invariant holds in every behaviour.
LEMMA ScheduleInvariant == Spec => []ScheduleInv
BY ScheduleInit, ScheduleStep, PTL DEF Spec

\* In a zone whose clocks are never changed, ScheduleSpec.Next is the first run
\* strictly after now, for every spec and every instant of a year, whatever the
\* number of its weeks and months and the ticks of a day.
THEOREM ScheduleNext == Spec => []NextIsFirst
<1>1. ScheduleInv => NextIsFirst
  <2> SUFFICES ASSUME ScheduleInv, NEW s \in Specs
               PROVE  LET n == NextSlot(s, Now)
                      IN  n > Now /\ Fires(s, n) /\ \A t \in Now + 1 .. n - 1 : ~Fires(s, t)
    BY DEF NextIsFirst
  <2>1. s \in ScheduleSpec
    BY ScheduleAssumption
  <2>2. clock \in 0 .. Horizon - 1
    BY DEF ScheduleInv, Types
  <2>3. Now \in Nat /\ DayOf(Now) < 2 * Year
    BY <2>2, Moment
  <2> QED BY <2>1, <2>3, NextSlotIsFirst
<1> QED BY <1>1, ScheduleInvariant, PTL

\* RunScheduler never fires a slot twice while its process lives: when it reads
\* the schedules again, a component it served is not due before its next slot.
THEOREM ScheduleFiresOnce == Spec => OncePerSlot
<1>1. ScheduleInv /\ [Next]_vars => [LoopTop => \A c \in ran : ~IsDue(spec[c])]_vars
  <2> SUFFICES ASSUME ScheduleInv, LoopTop, NEW c \in ran, IsDue(spec[c]) PROVE FALSE
    OBVIOUS
  <2>1. sleep = 0 /\ clock \in 0 .. Horizon - 1 /\ spec[c] \in ScheduleSpec
    BY OffRests DEF LoopTop, ScheduleInv, Types, Stored
  <2>2. PICK j \in 0 .. Grace - 1 : Fires(spec[c], Now - j)
    BY <2>1, IsDueMeans
  <2>3. j \in 0 .. Grace - sleep - 1
    BY <2>1, Constants
  <2> QED BY <2>2, <2>3 DEF ScheduleInv, RanServed
<1> QED BY <1>1, ScheduleInvariant, PTL DEF Spec, OncePerSlot

\* Nothing but the pause after a run costs a component a slot, while its own
\* schedule can be read: not timers and checks late by less than the grace, not
\* the hourly reading, not the other schedules, whether they can be read or not.
THEOREM SchedulePauseOnly == Spec => []OnlyPauseSkips
<1>1. ScheduleInv => OnlyPauseSkips
  BY DEF ScheduleInv
<1> QED BY <1>1, ScheduleInvariant, PTL

===============================================================================
