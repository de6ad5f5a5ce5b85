----------------------------- MODULE MCMatchLedger -----------------------------
(* Two matches whose fours share players in opposite orders, and a guest. *)
EXTENDS MatchLedger

Report(m, four, kind, reporter) == [match |-> m, four |-> four, kind |-> kind, reporter |-> reporter]
CONSTANTS m1, m2
CrossedReports ==
  {Report(m1, <<1, 2, 3, 4>>, kind, 1) : kind \in {"rated", "skipped"}} \cup
  {Report(m1, <<1, 9, 3, 4>>, "rated", 1)} \cup
  {Report(m2, <<3, 9, 1, 4>>, kind, 3) : kind \in {"rated", "friendly"}}
GuestToTwo == [g \in {9} |-> 2]
===============================================================================
