------------------------------ MODULE MCSchedule ------------------------------
(* Instances of Schedule: two components; a day of 12 ticks of half a minute, *)
(* weeks of two days, a year of a short and a long month.                     *)
EXTENDS Schedule, TLC

MCOrder == <<"xray", "mosdns">>
MCMonthStarts == {0, 1}

Daily == [kind |-> "daily", offset |-> 3]
DailyAfter == [kind |-> "daily", offset |-> 5]
Weekly == [kind |-> "weekly", weekday |-> 1, offset |-> 1]
Monthly == [kind |-> "monthly", day |-> 1, offset |-> 8]
Both(x, m) == "xray" :> x @@ "mosdns" :> m

\* The weekly slot is a minute before that day's daily one, which the other daily
\* slot follows by another minute, too close to be served.
AllSpecs == {Daily, DailyAfter, Weekly, Monthly}
AllStarts == {Both(Daily, Daily), Both(Daily, DailyAfter)}

===============================================================================
