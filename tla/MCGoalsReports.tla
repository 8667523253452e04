--------------------------- MODULE MCGoalsReports ---------------------------
(***************************************************************************)
(* An instance of the two parts of budget-service that share nothing but   *)
(* the process: goals and reports.  In a behaviour one of them is at work  *)
(* and the other has not begun.                                            *)
(***************************************************************************)
EXTENDS Goals, Reports

CONSTANT k1

(* Transactions of one kind are interchangeable, and so are the categories. *)
(* One budget is enough for what happens within a loop.                     *)
MCReportInit ==
    /\ ReportInit
    /\ \A t, u \in Txs \ Incomes : t < u => stored[t].date >= stored[u].date
    /\ Range(named) \subseteq {k1}
    /\ report.budgets # 1 => Cardinality({t \in Txs : stored[t] # NoTx}) <= 2

(* what changes outside of a loop is chosen by MCReportInit *)
MCReportNext == ReportNext /\ (stored' # stored => report.pc = "page")

NotBegun == named = <<>> /\ report.budgets = 0 /\ report.pc = "start"

MCInit == GoalInit /\ MCReportInit

MCNext ==
    \/ NotBegun /\ GoalNext /\ UNCHANGED reportVars
    \/ GoalInit /\ MCReportNext /\ UNCHANGED goalVars

MCSpec == MCInit /\ [][MCNext]_<<goalVars, reportVars>> /\ SummaryFairness

(* Stored dates are whole milliseconds, and a page loop ends within         *)
(* maxReportPages and reads no transaction more often than there are pages. *)
BudgetTypeOK == GoalTypeOK /\ ReportTypeOK

=============================================================================
