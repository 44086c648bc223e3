----------------------------- MODULE MCArchiver -----------------------------
(* Instances of Archiver for TLC: days of four hours, one day of retention. *)
EXTENDS Archiver, TLC

CONSTANTS u1, t1, t2, t3, s1, s2

\* A usage row, three costs of one turn and two reports of one skill use, over
\* two days.  Two of the costs have the same time; the oldest ranks highest.
AllRows == {u1, t1, t2, t3, s1, s2}
FewRows == {u1, s1}

MCKind == [r \in Rows |-> IF r = u1 THEN "usage"
                          ELSE IF r \in {t1, t2, t3} THEN "turn" ELSE "skill"]
MCKey  == MCKind
MCConv == [r \in Rows |-> IF r \in {s1, s2} THEN "b" ELSE "a"]
MCTime == [r \in Rows |-> CASE r = u1 -> 13 [] r \in {t1, s2} -> 7
                            [] r = s1 -> 11 [] OTHER -> 10]
MCRank == [r \in Rows |-> CASE r = t1 -> 3 [] r = t2 -> 2 [] OTHER -> 1]

\* West of UTC with the clocks going forward, east of it with them going back.
TwoZones ==
  {[first |-> -2, then |-> -1, at |-> 15], [first |-> 2, then |-> 1, at |-> 12]}

ForwardZone == {[first |-> -2, then |-> -1, at |-> 15]}

\* The code's calendar: the clocks go forward at 01:00 UTC from UTC-1 to UTC, as
\* in the Azores, on the day the rows are from; one of them from its last hour.
AzoresZone == {[first |-> -1, then |-> 0, at |-> 241]}
AzoresTime == [r \in Rows |-> IF r = s1 THEN 263 ELSE 250]
=============================================================================
