---------------------------- MODULE MCMaintenance ----------------------------
(* Windows and dates for TLC: a day of three parts.                          *)
EXTENDS Maintenance

On(days, start, end) == [days |-> days, start |-> start, end |-> end, disabled |-> FALSE]

\* Every day, on Mondays, or at the weekend; in each part of the day, across midnight,
\* and never (it ends when it starts); one of them disabled.
AllWindows ==
    {On(days, start, end) : days \in {{}, {1}, {0, 6}}, start \in {0, 2, 4}, end \in {0, 2, 4}}
        \cup {[On({}, 2, 4) EXCEPT !.disabled = TRUE]}

\* No window, one or two; the first Monday and the day after it may be excluded.
AllSpecs ==
    [windows : {{}} \cup {{v, w} : v \in AllWindows, w \in AllWindows},
     excluded : SUBSET {1, 2}]
=============================================================================
