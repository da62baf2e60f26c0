----------------------------- MODULE BenchReport -----------------------------
(***************************************************************************)
(* What the pair nginx.sh / wrk.sh promises its user: a report that lists  *)
(* the tests of the plan in their order, from the first one on and without *)
(* a gap, each measured on its own configuration except for one test per   *)
(* stop of nginx that failed.  How the hosts talk to each other is not     *)
(* part of it.                                                             *)
(***************************************************************************)
EXTENDS NginxPlan, FiniteSets

CONSTANT Plans   \* the arguments a report may be made for

VARIABLES
    plan,        \* the argument of the current report
    report,      \* its tests so far, by the line that ends each: which, and measured on what
    failed       \* the stops of nginx that have failed

reportVars == <<plan, report, failed>>

(* The next test of the plan, with the questions in between skipped.         *)
TestFrom(arg, p) ==
    LET Then(q) == Successor(arg, q, NodeNum, CpuCount(q))
        Skip(q) == IF q.op = "conf" THEN Then(q) ELSE q
    IN  Skip(Skip(p))

LastLine == CHOOSE i \in DOMAIN report : \A j \in DOMAIN report : j <= i

NextTest ==
    IF DOMAIN report = {}
    THEN TestFrom(plan, First(plan))
    ELSE LET last == report[LastLine].test
         IN  TestFrom(plan, Successor(plan, last, NodeNum, CpuCount(last)))

(* A whole-server test may be reported without a measurement.                *)
Measured(p) == {{ConfFor(p)}} \cup (IF p.ph = "server" THEN {{}} ELSE {})

Spoiled(tests) == {i \in DOMAIN tests : tests[i].on \notin Measured(tests[i].test)}

ReportInit == DOMAIN report = {} /\ plan = "all" /\ failed = 0

(* The test's line comes after the lines of the tests before it.             *)
ReportTest ==
    /\ NextTest.op = "start"
    /\ \E line \in DOMAIN report' :
           /\ DOMAIN report' = DOMAIN report \cup {line}
           /\ \A i \in DOMAIN report : i < line /\ report'[i] = report[i]
           /\ report'[line].test = [NextTest EXCEPT !.op = "finish"]
    /\ Cardinality(Spoiled(report')) <= failed
    /\ UNCHANGED <<plan, failed>>

StopFailed == failed' = failed + 1 /\ UNCHANGED <<plan, report>>

NewReport == plan' \in Plans \ {"stats"} /\ DOMAIN report' = {} /\ UNCHANGED failed

(* Statistics of an earlier report.                                          *)
Summarise == plan' = "stats" /\ "stats" \in Plans /\ UNCHANGED <<report, failed>>

ReportNext == ReportTest \/ StopFailed \/ NewReport \/ Summarise

(* The promise of the two scripts: tests are reported in the order of the    *)
(* plan, each on its own configuration but for one per failed stop, and the  *)
(* statistics come last.                                                     *)
ReportSpec == ReportInit /\ [][ReportNext]_reportVars

=============================================================================
