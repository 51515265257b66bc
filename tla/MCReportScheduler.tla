--------------------------- MODULE MCReportScheduler ---------------------------
(* A small instance of ReportScheduler for TLC. *)
EXTENDS ReportScheduler, TLC

CONSTANTS c1, c2
BothChecks == {{c1, c2}}
SomeRules ==
    {Off} \cup {[Off EXCEPT !.digest = p] : p \in Specs}
          \cup {[Off EXCEPT !.anomaly = k] : k \in Keys}
EqualChecks == Permutations({c1, c2})
=============================================================================
