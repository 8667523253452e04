----------------------------- MODULE Overspend -----------------------------
(***************************************************************************)
(* budget-service: the budgets of one user, the requests that change them  *)
(* (internal/service/budget_service.go), and the handler of                *)
(* finora.transaction.created, which compares them with what               *)
(* expense-service reports and enqueues finora.budget.overspent            *)
(* (internal/service/overspend_service.go).                                *)
(*                                                                         *)
(* Every database or HTTP call is one step.  The consume callback runs one *)
(* event at a time; requests interleave with it freely.  The budget's      *)
(* category is fixed and its period length is abstracted: periods are      *)
(* numbered, and currentPeriodStart is the number of the current one.      *)
(***************************************************************************)
EXTENDS Naturals, FiniteSets

CONSTANTS
    Budgets,     \* budget ids
    Clients,     \* request goroutines that execute a PUT
    Amounts,     \* amounts in request bodies, invalid ones included
    NoBudget,
    MaxPeriod,   \* bound: periods 1..MaxPeriod
    MaxSpend,    \* bound: spending per period
    MaxPending,  \* bound: transaction.created events under way
    MaxMissed    \* bound: lost marks per budget and period

ASSUME OverspendAssumption ==
    /\ NoBudget \notin Budgets
    /\ Amounts \subseteq Nat
    /\ MaxPeriod \in Nat \ {0}
    /\ MaxSpend \in Nat /\ MaxPending \in Nat /\ MaxMissed \in Nat

VARIABLES
    (* the budgets collection *)
    state,     \* [Budgets -> {"absent", "present", "deleted"}]
    amount,    \* [Budgets -> Amounts \cup {0}]
    notified,  \* [Budgets -> Periods0]: last_notified_at, 0 for null
    (* the outbox: how often (budget, period) has been enqueued *)
    enqueued,  \* [Budgets -> [Periods -> Nat]]
    (* expense-service and the clock *)
    now,       \* current period
    spend,     \* [Periods -> 0..MaxSpend]: the category's expenses up to today
    pending,   \* transaction.created events not yet acknowledged
    (* the consume callback *)
    pc,        \* "idle", "check", "publish", "persist"
    period,    \* the period of the callback's "now"
    snapAmount, snapNotified,   \* budgets as ListByUser returned them
    counted,   \* how much of spend[period] is surely dated up to the callback's now
    todo,      \* budgets of the loop still to be visited
    cur,       \* the budget being notified
    (* PUT requests *)
    putPc,     \* [Clients -> {"idle", "write"}]
    putBudget, putAmount, putNotified,  \* target, request body, value read
    (* history, read by properties only *)
    acknowledged, \* [Budgets -> Amounts \cup {0}]: amount of the last write a client made
    missed,    \* [Budgets -> [Periods -> Nat]]: marks not made or overwritten
    excused    \* budgets that the last run of the callback need not have covered

budgetVars  == <<state, amount, notified>>
expenseVars == <<now, spend, pending>>
handlerVars == <<pc, period, snapAmount, snapNotified, counted, todo, cur>>
putVars     == <<putPc, putBudget, putAmount, putNotified>>
historyVars == <<acknowledged, missed, excused>>
vars == <<budgetVars, enqueued, expenseVars, handlerVars, putVars, historyVars>>

Periods  == 1..MaxPeriod
Periods0 == 0..MaxPeriod

(* in.Amount <= 0 is refused (the ceiling maxAmount is not reached here) *)
ValidAmount(a) == a > 0

TypeOK ==
    /\ state \in [Budgets -> {"absent", "present", "deleted"}]
    /\ amount \in [Budgets -> Amounts \cup {0}]
    /\ \A b \in Budgets : state[b] # "absent" => ValidAmount(amount[b])
    /\ notified \in [Budgets -> Periods0]
    /\ enqueued \in [Budgets -> [Periods -> Nat]]
    /\ now \in Periods
    /\ spend \in [Periods -> 0..MaxSpend]
    /\ pending \in 0..MaxPending
    /\ pc \in {"idle", "check", "publish", "persist"}
    /\ period \in Periods0
    /\ snapAmount \in [Budgets -> Amounts \cup {0}]
    /\ snapNotified \in [Budgets -> Periods0]
    /\ counted \in 0..MaxSpend
    /\ pc # "idle" => counted <= spend[period]
    /\ todo \in SUBSET Budgets
    /\ cur \in Budgets \cup {NoBudget}
    /\ putPc \in [Clients -> {"idle", "write"}]
    /\ putBudget \in [Clients -> Budgets \cup {NoBudget}]
    /\ putAmount \in [Clients -> Amounts \cup {0}]
    /\ putNotified \in [Clients -> Periods0]
    /\ acknowledged \in [Budgets -> Amounts \cup {0}]
    /\ missed \in [Budgets -> [Periods -> Nat]]
    /\ excused \in SUBSET Budgets

Init ==
    /\ state = [b \in Budgets |-> "absent"]
    /\ amount = [b \in Budgets |-> 0]
    /\ notified = [b \in Budgets |-> 0]
    /\ enqueued = [b \in Budgets |-> [k \in Periods |-> 0]]
    /\ now = 1
    /\ spend = [k \in Periods |-> 0]
    /\ pending = 0
    /\ pc = "idle"
    /\ period = 0
    /\ snapAmount = [b \in Budgets |-> 0]
    /\ snapNotified = [b \in Budgets |-> 0]
    /\ counted = 0
    /\ todo = {}
    /\ cur = NoBudget
    /\ putPc = [c \in Clients |-> "idle"]
    /\ putBudget = [c \in Clients |-> NoBudget]
    /\ putAmount = [c \in Clients |-> 0]
    /\ putNotified = [c \in Clients |-> 0]
    /\ acknowledged = [b \in Budgets |-> 0]
    /\ missed = [b \in Budgets |-> [k \in Periods |-> 0]]
    /\ excused = {}

-----------------------------------------------------------------------------
(* expense-service and the clock *)

(* an expense of the budgets' category is created in the current or,        *)
(* backdated, an earlier period, and its event is on the way                *)
Spend(k) ==
    /\ k <= now
    /\ spend[k] < MaxSpend
    /\ pending < MaxPending
    /\ spend' = [spend EXCEPT ![k] = @ + 1]
    /\ pending' = pending + 1
    /\ UNCHANGED <<now, budgetVars, enqueued, handlerVars, putVars, historyVars>>

(* A transaction is created that the sum does not hold, or not yet: an      *)
(* income, one of another category, one dated ahead.                        *)
CreateOther ==
    /\ pending < MaxPending
    /\ pending' = pending + 1
    /\ UNCHANGED <<now, spend, budgetVars, enqueued, handlerVars, putVars, historyVars>>

(* DELETE of an expense: no event *)
SpendFalls(k, v) ==
    /\ v < spend[k]
    /\ spend' = [spend EXCEPT ![k] = v]
    /\ counted' = IF k # period THEN counted
                  ELSE IF counted + v > spend[k] THEN counted + v - spend[k] ELSE 0
    /\ UNCHANGED <<now, pending, budgetVars, enqueued, pc, period, snapAmount,
                   snapNotified, todo, cur, putVars, historyVars>>

(* PUT of a transaction (its amount, type, category or date), or the day of *)
(* one dated ahead comes: no event, though the sum may rise, and an expense *)
(* may go to a date that a running callback does not ask for                *)
SpendEdited(k, v) ==
    /\ k <= now
    /\ spend' = [spend EXCEPT ![k] = v]
    /\ counted' = IF k = period THEN 0 ELSE counted
    /\ excused' = IF k = now THEN Budgets ELSE excused
    /\ UNCHANGED <<now, pending, budgetVars, enqueued, pc, period, snapAmount,
                   snapNotified, todo, cur, putVars, acknowledged, missed>>

(* The event of a created transaction is never handled: it was not          *)
(* enqueued, aged out, did not decode, or failed in its last delivery.      *)
EventLost ==
    /\ pending > IF pc = "idle" THEN 0 ELSE 1
    /\ pending' = pending - 1
    /\ excused' = Budgets
    /\ UNCHANGED <<now, spend, budgetVars, enqueued, handlerVars, putVars,
                   acknowledged, missed>>

NextPeriod ==
    /\ now < MaxPeriod
    /\ now' = now + 1
    /\ UNCHANGED <<spend, pending, budgetVars, enqueued, handlerVars, putVars,
                   historyVars>>

-----------------------------------------------------------------------------
(* The budgets API *)

(* the repository: a new document has a new id and no last_notified_at *)
Insert(b, a) ==
    /\ state[b] = "absent"
    /\ state' = [state EXCEPT ![b] = "present"]
    /\ amount' = [amount EXCEPT ![b] = a]
    /\ UNCHANGED notified

(* GetByIDForUser *)
Found(b) == state[b] = "present"

(* A Create that does not validate its input. *)
CreateMutant(b, a) ==
    /\ Insert(b, a)
    /\ acknowledged' = [acknowledged EXCEPT ![b] = a]
    /\ excused' = excused \cup {b}
    /\ UNCHANGED <<enqueued, expenseVars, handlerVars, putVars, missed>>

(* POST *)
Create(b, a) ==
    /\ ValidAmount(a)
    /\ Insert(b, a)
    /\ acknowledged' = [acknowledged EXCEPT ![b] = a]
    /\ excused' = excused \cup {b}
    /\ UNCHANGED <<enqueued, expenseVars, handlerVars, putVars, missed>>

Delete(b) ==
    /\ state[b] = "present"
    /\ state' = [state EXCEPT ![b] = "deleted"]
    /\ UNCHANGED <<amount, notified, enqueued, expenseVars, handlerVars, putVars,
                   historyVars>>

(* PUT, validation and first call: GetByIDForUser *)
PutRead(c, b, a) ==
    /\ ValidAmount(a)
    /\ putPc[c] = "idle"
    /\ Found(b)
    /\ putPc' = [putPc EXCEPT ![c] = "write"]
    /\ putBudget' = [putBudget EXCEPT ![c] = b]
    /\ putAmount' = [putAmount EXCEPT ![c] = a]
    /\ putNotified' = [putNotified EXCEPT ![c] = notified[b]]
    /\ UNCHANGED <<budgetVars, enqueued, expenseVars, handlerVars, historyVars>>

(* An Update that inserts the document when it is missing. *)
UpdateMutant(b, a, n) ==
    /\ state[b] # "absent"
    /\ state' = [state EXCEPT ![b] = "present"]
    /\ amount' = [amount EXCEPT ![b] = a]
    /\ notified' = [notified EXCEPT ![b] = n]

(* MongoBudgetRepository.Update: $set of every field, the ones its caller   *)
(* never meant to change included; ErrNotFound when the budget is gone      *)
Update(b, a, n) ==
    /\ state[b] = "present"
    /\ amount' = [amount EXCEPT ![b] = a]
    /\ notified' = [notified EXCEPT ![b] = n]
    /\ UNCHANGED state

PutReturn(c) ==
    /\ putPc' = [putPc EXCEPT ![c] = "idle"]
    /\ putBudget' = [putBudget EXCEPT ![c] = NoBudget]
    /\ putAmount' = [putAmount EXCEPT ![c] = 0]
    /\ putNotified' = [putNotified EXCEPT ![c] = 0]

(* PUT, second call: Update.  It carries the last_notified_at that was read *)
(* before; a mark made in between is overwritten.                           *)
PutWrite(c) ==
    /\ putPc[c] = "write"
    /\ LET b == putBudget[c] IN
          /\ notified[b] \notin {0, putNotified[c]} => missed[b][notified[b]] < MaxMissed
          /\ Update(b, putAmount[c], putNotified[c])
          /\ acknowledged' = [acknowledged EXCEPT ![b] = putAmount[c]]
          /\ missed' = IF notified[b] \notin {0, putNotified[c]}
                          THEN [missed EXCEPT ![b][notified[b]] = @ + 1]
                          ELSE missed
          /\ excused' = excused \cup {b}
    /\ PutReturn(c)
    /\ UNCHANGED <<enqueued, expenseVars, handlerVars>>

(* the budget has been deleted, or the call fails without effect *)
PutErr(c) ==
    /\ putPc[c] = "write"
    /\ PutReturn(c)
    /\ UNCHANGED <<budgetVars, enqueued, expenseVars, handlerVars, historyVars>>

-----------------------------------------------------------------------------
(* HandleTransactionCreated *)

(* the callback starts: ListByUser.  An error is returned and the event is  *)
(* redelivered, which changes nothing here.                                 *)
List ==
    /\ pc = "idle"
    /\ pending > 0
    /\ pc' = "check"
    /\ period' = now
    /\ snapAmount' = amount
    /\ snapNotified' = notified
    /\ counted' = spend[now]
    /\ todo' = {b \in Budgets : state[b] = "present"}
    /\ excused' = {}
    /\ UNCHANGED <<cur, budgetVars, enqueued, expenseVars, putVars, acknowledged, missed>>

(* b.Amount - actual < 0 *)
Overspent(b, actual) == snapAmount[b] < actual

(* SumExpensesByCategory from the period's start to the callback's now: an  *)
(* expense that came after that now may be dated within it or not           *)
Sums == counted .. spend[period]

(* A handler that does not look at LastNotifiedAt. *)
CheckMutant(b) ==
    /\ pc = "check"
    /\ b \in todo
    /\ todo' = todo \ {b}
    /\ \E actual \in Sums : IF Overspent(b, actual)
                               THEN pc' = "publish" /\ cur' = b
                               ELSE UNCHANGED <<pc, cur>>
    /\ UNCHANGED <<period, snapAmount, snapNotified, counted, budgetVars, enqueued,
                   expenseVars, putVars, historyVars>>

(* SumExpensesByCategory, the comparison, and LastNotifiedAt as it was read *)
Check(b) ==
    /\ pc = "check"
    /\ b \in todo
    /\ todo' = todo \ {b}
    /\ \E actual \in Sums : IF Overspent(b, actual) /\ snapNotified[b] # period
                               THEN pc' = "publish" /\ cur' = b
                               ELSE UNCHANGED <<pc, cur>>
    /\ UNCHANGED <<period, snapAmount, snapNotified, counted, budgetVars, enqueued,
                   expenseVars, putVars, historyVars>>

(* the sum fails: logged, on to the next budget *)
CheckErr(b) ==
    /\ pc = "check"
    /\ b \in todo
    /\ todo' = todo \ {b}
    /\ excused' = excused \cup {b}
    /\ UNCHANGED <<pc, cur, period, snapAmount, snapNotified, counted, budgetVars, enqueued,
                   expenseVars, putVars, acknowledged, missed>>

(* PublishBudgetOverspent: insert into the outbox *)
PublishOverspent ==
    /\ pc = "publish"
    /\ enqueued' = [enqueued EXCEPT ![cur][period] = @ + 1]
    /\ pc' = "persist"
    /\ UNCHANGED <<period, snapAmount, snapNotified, counted, todo, cur, budgetVars,
                   expenseVars, putVars, historyVars>>

(* ... fails: logged, and the budget is not marked *)
PublishErr ==
    /\ pc = "publish"
    /\ pc' = "check"
    /\ cur' = NoBudget
    /\ excused' = excused \cup {cur}
    /\ UNCHANGED <<period, snapAmount, snapNotified, counted, todo, budgetVars, enqueued,
                   expenseVars, putVars, acknowledged, missed>>

(* the insert takes effect and still reports an error: the budget is not    *)
(* marked either, although its event is in the outbox                       *)
PublishUnanswered ==
    /\ pc = "publish"
    /\ missed[cur][period] < MaxMissed
    /\ enqueued' = [enqueued EXCEPT ![cur][period] = @ + 1]
    /\ missed' = [missed EXCEPT ![cur][period] = @ + 1]
    /\ pc' = "check"
    /\ cur' = NoBudget
    /\ UNCHANGED <<period, snapAmount, snapNotified, counted, todo, budgetVars,
                   expenseVars, putVars, acknowledged, excused>>

(* A handler that returns after the first budget it has notified for. *)
PersistMutant ==
    /\ pc = "persist"
    /\ Update(cur, snapAmount[cur], period)
    /\ pc' = "check"
    /\ cur' = NoBudget
    /\ todo' = {}
    /\ UNCHANGED <<period, snapAmount, snapNotified, counted, enqueued,
                   expenseVars, putVars, historyVars>>

(* budgetRepo.Update(&b): the whole budget as it was listed, with its mark *)
Persist ==
    /\ pc = "persist"
    /\ Update(cur, snapAmount[cur], period)
    /\ pc' = "check"
    /\ cur' = NoBudget
    /\ UNCHANGED <<period, snapAmount, snapNotified, counted, todo, enqueued,
                   expenseVars, putVars, historyVars>>

(* the update fails, or the budget has been deleted: logged *)
PersistErr ==
    /\ pc = "persist"
    /\ missed[cur][period] < MaxMissed
    /\ missed' = [missed EXCEPT ![cur][period] = @ + 1]
    /\ pc' = "check"
    /\ cur' = NoBudget
    /\ UNCHANGED <<period, snapAmount, snapNotified, counted, todo, budgetVars, enqueued,
                   expenseVars, putVars, acknowledged, excused>>

HandlerReset ==
    /\ pc' = "idle"
    /\ period' = 0
    /\ snapAmount' = [b \in Budgets |-> 0]
    /\ snapNotified' = [b \in Budgets |-> 0]
    /\ counted' = 0
    /\ todo' = {}
    /\ cur' = NoBudget

(* the handler returns nil; the event is acknowledged, or its ack is lost   *)
(* and it will be delivered again                                           *)
Done ==
    /\ pc = "check"
    /\ todo = {}
    /\ HandlerReset
    /\ pending' \in {pending, pending - 1}
    /\ UNCHANGED <<now, spend, budgetVars, enqueued, putVars, historyVars>>

(* the process stops; the event will be delivered again *)
Crash ==
    /\ pc # "idle"
    /\ pc = "persist" => missed[cur][period] < MaxMissed
    /\ HandlerReset
    /\ missed' = IF pc = "persist" THEN [missed EXCEPT ![cur][period] = @ + 1]
                                   ELSE missed
    /\ putPc' = [c \in Clients |-> "idle"]
    /\ putBudget' = [c \in Clients |-> NoBudget]
    /\ putAmount' = [c \in Clients |-> 0]
    /\ putNotified' = [c \in Clients |-> 0]
    /\ UNCHANGED <<budgetVars, enqueued, expenseVars, acknowledged, excused>>

BudgetRequests ==
    \/ \E b \in Budgets, a \in Amounts : Create(b, a)
    \/ \E b \in Budgets : Delete(b)
    \/ \E c \in Clients, b \in Budgets, a \in Amounts : PutRead(c, b, a)
    \/ \E c \in Clients : PutWrite(c) \/ PutErr(c)

Next ==
    \/ \E k \in Periods : Spend(k)
    \/ \E k \in Periods, v \in 0..MaxSpend : SpendFalls(k, v) \/ SpendEdited(k, v)
    \/ CreateOther \/ EventLost \/ NextPeriod
    \/ BudgetRequests
    \/ \E b \in Budgets : Check(b) \/ CheckErr(b)
    \/ List \/ PublishOverspent \/ PublishErr \/ PublishUnanswered
    \/ Persist \/ PersistErr
    \/ Done \/ Crash

Spec == Init /\ [][Next]_vars

-----------------------------------------------------------------------------
(* Safety *)

(* A deleted budget is never brought back by a PUT or by the handler that   *)
(* read it before it was deleted (Update of the repository).                *)
DeletedStaysDeleted ==
    [][\A b \in Budgets : state[b] = "deleted" => state'[b] = "deleted"]_vars

(* Every notification of a budget and period beyond the first is accounted  *)
(* for by a mark that failed, was cut off by a crash, was overwritten by a  *)
(* concurrent PUT, or was left out because the insert into the outbox took  *)
(* effect and reported an error: redelivered events, and events handled     *)
(* again and again, do not notify twice by themselves (notifyIfOverspent).  *)
DuplicatesAccounted ==
    \A b \in Budgets, k \in Periods : enqueued[b][k] <= 1 + missed[b][k]

(* When no event is under way, each budget that is overspent in the current *)
(* period has been notified for it, except for what happened after the last *)
(* run of the handler began: its check or its publish failed, the budget's  *)
(* amount was set, an expense of the period was edited or its day came, or  *)
(* an event was lost (HandleTransactionCreated).                            *)
OverspendNoticed ==
    pending = 0 /\ pc = "idle" =>
        \A b \in Budgets :
            state[b] = "present" /\ b \notin excused /\ amount[b] < spend[now]
                => enqueued[b][now] > 0

-----------------------------------------------------------------------------
(* Stated by a comment *)

(* overspend_service.go 95-99: the race of notifyIfOverspent has "Low       *)
(* consequence (an extra notification, not data loss)": the amount of a     *)
(* budget is the one its owner wrote last.                                  *)
NoLostPut ==
    \A b \in Budgets : state[b] = "present" => amount[b] = acknowledged[b]

=============================================================================
