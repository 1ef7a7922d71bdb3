---------------------------- MODULE MCReportCache ----------------------------
EXTENDS ReportCache

(* The last request is served by a process of its own. *)
TwoProcesses == {1, 2}
LastApart    == [r \in Requests |-> IF r = NumRequests THEN 2 ELSE 1]
=============================================================================
