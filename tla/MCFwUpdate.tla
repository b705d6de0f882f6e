----------------------------- MODULE MCFwUpdate -----------------------------
EXTENDS FwUpdate, TLC

CONSTANTS t1, t2

At(hour, minute) == [h |-> hour, m |-> minute]

Always == [name |-> "always", custom |-> FALSE, timeframe |-> FALSE, week |-> TRUE,
           days |-> {}, first |-> 0, last |-> 0, start |-> At(0, 0), end |-> At(0, 0)]
\* Only in the advanced mode.
Custom == [Always EXCEPT !.name = "custom", !.custom = TRUE]
\* Within an hour; within a day; over midnight, on the first day only.
Short == [Always EXCEPT !.name = "short", !.timeframe = TRUE, !.days = {0, 1},
            !.start = At(1, 1), !.end = At(1, 2)]
Long == [Always EXCEPT !.name = "long", !.timeframe = TRUE, !.days = {0, 1},
            !.start = At(0, 3), !.end = At(1, 2)]
Night == [Always EXCEPT !.name = "night", !.timeframe = TRUE, !.days = {0},
            !.start = At(1, 3), !.end = At(0, 1)]
\* All the hours but the end of the first one; a whole day of the month.
Round == [Always EXCEPT !.name = "round", !.timeframe = TRUE, !.days = {0, 1},
            !.start = At(0, 3), !.end = At(0, 2)]
Month == [Always EXCEPT !.name = "month", !.timeframe = TRUE, !.week = FALSE,
            !.first = 1, !.last = 1]

\* From midnight to midnight: enabled the whole day.
Daily == [Always EXCEPT !.name = "daily", !.timeframe = TRUE, !.days = {0}]
FewLists == {<<Always>>, <<Daily, Always>>}
ManyLists == {<<>>, <<Custom, Always>>, <<Short, Long>>, <<Night, Always, Short>>,
              <<Round, Custom>>, <<Month, Long>>}

\* Runs, and types, are alike; sound for the invariants.
Alike == Permutations(Runs) \cup Permutations(Types)
=============================================================================
