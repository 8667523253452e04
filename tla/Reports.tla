------------------------------ MODULE Reports ------------------------------
(***************************************************************************)
(* budget-service: GET /reports/summary (handler/report_handler.go,        *)
(* service/report_service.go).  For each budget the client of expense-     *)
(* service (client/expense_client.go) looks up the category by its name    *)
(* and adds up the expenses of one page after the other of the             *)
(* transaction list, which expense-service sorts, skips and limits         *)
(* (mongo_transaction.go).  Each call is a step of its own: transactions   *)
(* and categories change between two of them.                              *)
(*                                                                         *)
(* The sum is kept as the number of times that each transaction is in it.  *)
(* The transactions are those of one user in the range of the report.      *)
(***************************************************************************)
EXTENDS Naturals, FiniteSetsExt, SequencesExt

CONSTANTS
    Txs, Incomes,   \* the ids of transactions, and those of type income
    Cats,           \* ids of categories
    Dates,          \* a set of numbers: dates of transactions
    PageSize,       \* reportPageSize
    MaxPages,       \* maxReportPages
    MaxPageSize,    \* maxPageSize of expense-service
    MaxBudgets,     \* bound on the budgets of the user
    MaxChanges,     \* bound on the changes to transactions and categories
    None

ASSUME ReportsAssumption ==
    /\ IsFiniteSet(Txs) /\ IsFiniteSet(Cats) /\ None \notin Cats
    /\ Incomes \subseteq Txs /\ Dates \subseteq Nat
    /\ PageSize \in Nat \ {0} /\ MaxPages \in Nat \ {0} /\ MaxPageSize \in Nat
    /\ PageSize <= MaxPageSize
    /\ MaxBudgets \in Nat /\ MaxChanges \in Nat

VARIABLES
    stored,    \* [Txs -> Tx \cup {NoTx}]: the transactions
    named,     \* categories with the budgets' name, the newest first
    report,    \* the local variables of a Summary
    changes,   \* changes so far
    (* history of the sum under way, read by properties only *)
    seen       \* churn: changes; moved: what they changed; tied: a page was cut
               \* from a list with equal dates; read: transactions on its pages

reportVars == <<stored, named, report, changes, seen>>

NoTx == [cat |-> None, date |-> 0]

Unseen == [churn |-> 0, moved |-> {}, tied |-> FALSE, read |-> 0]

Nothing == [t \in Txs |-> 0]

ReportInit ==
    /\ named \in {<<>>} \cup {<<c>> : c \in Cats}
    /\ stored \in [Txs -> {NoTx} \cup [cat : Range(named), date : Dates]]
    /\ \E budgets \in 0..MaxBudgets :
          report = [pc |-> "start", budgets |-> budgets, cat |-> None, page |-> 1, counted |-> Nothing]
    /\ changes = 0
    /\ seen = Unseen

-----------------------------------------------------------------------------
(* expense-service *)

Listed(cat) == {t \in Txs : stored[t] # NoTx /\ stored[t].cat = cat}

(* List in transaction_service.go clamps what the client asked for *)
Limit == Min({PageSize, MaxPageSize})

(* ListByUser sorts by date, the latest first, and says nothing about the  *)
(* order of equal dates, which may differ from one query to the next: the  *)
(* first k of a list may be any k of the latest.                           *)
Firsts(list, k) ==
    {first \in SUBSET list :
        /\ Cardinality(first) = Min({k, Cardinality(list)})
        /\ \A t \in first, u \in list \ first : stored[t].date >= stored[u].date}

Pages(list, skip) == UNION {Firsts(list \ before, Limit) : before \in Firsts(list, skip)}

Ties(list) == \E t, u \in list : t # u /\ stored[t].date = stored[u].date

Skip(page) == (page - 1) * Limit

(* What happens to the user's transactions while a report is made. *)
Changed(t) ==
    /\ changes < MaxChanges
    /\ changes' = changes + 1
    /\ seen' = [seen EXCEPT !.churn = @ + 1, !.moved = @ \cup {t}]
    /\ UNCHANGED <<named, report>>

InsertTx(t, cat, d) ==
    /\ stored[t] = NoTx
    /\ stored' = [stored EXCEPT ![t] = [cat |-> cat, date |-> d]]
    /\ Changed(t)

RemoveTx(t) ==
    /\ stored[t] # NoTx
    /\ stored' = [stored EXCEPT ![t] = NoTx]
    /\ Changed(t)

(* a PUT of the transaction: it can leave one place and enter another, and  *)
(* so takes two from the bound                                              *)
MoveTx(t, cat, d) ==
    /\ stored[t] # NoTx
    /\ changes + 1 < MaxChanges
    /\ stored' = [stored EXCEPT ![t] = [cat |-> cat, date |-> d]]
    /\ changes' = changes + 2
    /\ seen' = [seen EXCEPT !.churn = @ + 1, !.moved = @ \cup {t}]
    /\ UNCHANGED <<named, report>>

(* nothing keeps a user from having two categories of one name *)
AddCategory(cat) ==
    /\ cat \notin Range(named)
    /\ changes < MaxChanges
    /\ changes' = changes + 1
    /\ named' = <<cat>> \o named
    /\ UNCHANGED <<stored, report, seen>>

-----------------------------------------------------------------------------
(* budget-service *)

NextBudgetMutant == [report EXCEPT !.pc = "lookup"]

NextBudget == [report EXCEPT !.pc = "lookup", !.budgets = @ - 1]

(* Summary: the next budget of the list, or the answer *)
RangeBudgets ==
    /\ report.pc \in {"start", "summed"}
    /\ report' = IF report.budgets = 0 THEN [report EXCEPT !.pc = "answered"] ELSE NextBudget
    /\ UNCHANGED <<stored, named, changes, seen>>

Found == Head(named)

(* findCategoryIDByName: the first match of a list with the newest first;   *)
(* a name that nobody has spends nothing                                    *)
FindCategory ==
    /\ report.pc = "lookup"
    /\ report' = IF named = <<>>
                 THEN [report EXCEPT !.pc = "summed", !.cat = None, !.counted = Nothing]
                 ELSE [report EXCEPT !.pc = "page", !.cat = Found, !.page = 1, !.counted = Nothing]
    /\ seen' = Unseen
    /\ UNCHANGED <<stored, named, changes>>

SumMutant(counted, page) ==
    [t \in Txs |-> counted[t] + IF t \in page THEN 1 ELSE 0]

SumOfPage(counted, page) ==
    [t \in Txs |-> IF t \in page \ Incomes THEN 1 ELSE 0]

Sum(counted, page) ==
    [t \in Txs |-> counted[t] + IF t \in page \ Incomes THEN 1 ELSE 0]

NextPage(page) == [report EXCEPT !.counted = Sum(@, page), !.page = @ + 1]

IsLastUnbounded(page) == Cardinality(page) < PageSize

IsLastEarly(page) == Cardinality(page) < PageSize \/ report.page = MaxPages - 1

(* a short page or the last allowed one ends the loop *)
IsLast(page) == Cardinality(page) < PageSize \/ report.page = MaxPages

(* one call of doGet for a page *)
GetPage ==
    /\ report.pc = "page"
    /\ \E page \in Pages(Listed(report.cat), Skip(report.page)) :
          /\ report' = IF IsLast(page)
                       THEN [NextPage(page) EXCEPT !.pc = "summed"]
                       ELSE NextPage(page)
          /\ seen' = [seen EXCEPT !.read = @ + Cardinality(page),
                                  !.tied = @ \/ Ties(Listed(report.cat))]
    /\ UNCHANGED <<stored, named, changes>>

(* doGet times out after requestTimeout or reports an error: Summary        *)
(* answers 500, whatever it has added up                                    *)
SummaryFails ==
    /\ report.pc \in {"lookup", "page"}
    /\ report' = [report EXCEPT !.pc = "failed", !.counted = Nothing]
    /\ UNCHANGED <<stored, named, changes, seen>>

SummarySteps == RangeBudgets \/ FindCategory \/ GetPage \/ SummaryFails

ReportNext ==
    \/ \E t \in Txs :
          \/ RemoveTx(t)
          \/ \E c \in Range(named), d \in Dates : InsertTx(t, c, d) \/ MoveTx(t, c, d)
    \/ \E c \in Cats : AddCategory(c)
    \/ SummarySteps

Ended == report.pc \in {"answered", "failed"}

(* Every call of doGet ends within requestTimeout.  This is weak fairness   *)
(* of SummarySteps: they are the steps that change report, and one of them  *)
(* is possible until the Summary has ended.                                 *)
SummaryFairness == []<>Ended \/ []<><<TRUE>>_report

ReportSpec == ReportInit /\ [][ReportNext]_reportVars /\ SummaryFairness

-----------------------------------------------------------------------------

ReportTypeOK ==
    /\ stored \in [Txs -> {NoTx} \cup [cat : Cats, date : Dates]]
    /\ named \in SeqOf(Cats, Cardinality(Cats)) /\ IsInjective(named)
    /\ report.pc \in {"start", "lookup", "page", "summed", "answered", "failed"}
    /\ report.cat \in Cats \cup {None}
    /\ report.page \in 1..(MaxPages + 1)
    /\ report.counted \in [Txs -> 0..MaxPages]
    /\ changes \in 0..MaxChanges

Summed == report.pc = "summed"
Quiet == Summed /\ seen.churn = 0

(* what the loop can read at most *)
Reach == PageSize * MaxPages

Newer(t) == Cardinality({u \in Listed(stored[t].cat) : stored[u].date > stored[t].date})

Index(cat) == CHOOSE i \in DOMAIN named : named[i] = cat

(* When no transaction changes during the loop and no two have the same     *)
(* date, the sum has each expense of a category with the budget's name      *)
(* exactly once, except those of a category that a newer one of the same    *)
(* name hides and those behind the first Reach of the list, which it does   *)
(* not have; and it has nothing else (findCategoryIDByName,                 *)
(* SumExpensesByCategory).                                                  *)
QuietSumIsExact ==
    Quiet /\ ~seen.tied =>
        \A t \in Txs :
            /\ report.counted[t] =
                  IF /\ t \notin Incomes /\ stored[t] # NoTx
                     /\ stored[t].cat = report.cat /\ Newer(t) < Reach
                  THEN 1 ELSE 0
            /\ stored[t] # NoTx => Index(report.cat) <= Index(stored[t].cat)

(* Even with equal dates, whose order may change from page to page, a loop  *)
(* without changes reads as many transactions as there are, up to Reach:    *)
(* what is missing from the sum is matched by what is in it twice.          *)
QuietLoopReadsAll ==
    Quiet /\ report.cat # None =>
        seen.read = Min({Cardinality(Listed(report.cat)), Reach})

(* the expenses that are in the list during the whole loop *)
Steady == Listed(report.cat) \ (Incomes \cup seen.moved)

(* what is wrong with the sum of them: <<t, 0>> when t is missing, and one   *)
(* <<t, k>> for each time that t is counted beyond the first                *)
Slips ==
    {slip \in Steady \X (0..MaxPages) :
        LET times == report.counted[slip[1]]
        IN  slip[2] \in IF times = 0 THEN {0} ELSE 1..(times - 1)}

(* With distinct dates in a list within Reach, the transactions that are    *)
(* there during the whole loop are missed or counted twice at most as often *)
(* as the list changed: an insertion pushes one on to the next page, a      *)
(* deletion pulls one back, and a PUT does one of the two or neither.       *)
SlipsWithinChurn ==
    Summed /\ ~seen.tied /\ Cardinality(Listed(report.cat)) <= Reach =>
        Cardinality(Slips) <= seen.churn

(* Every Summary is answered, however the transactions change meanwhile     *)
(* (maxReportPages, requestTimeout).                                        *)
SummaryAnswers == (report.pc = "lookup") ~> Ended

=============================================================================
