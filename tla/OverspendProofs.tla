-------------------------- MODULE OverspendProofs --------------------------
(***************************************************************************)
(* Theorems about Overspend, for any number of budgets and PUT requests,   *)
(* and any bounds on periods, spending, events and lost marks.             *)
(***************************************************************************)
EXTENDS Overspend, TLAPS

USE OverspendAssumption DEF OverspendAssumption

(* What the handler and a PUT hold: there is an event while the handler     *)
(* works; the budgets still to be visited and the one being notified have a *)
(* valid amount, and each is visited once.                                  *)
LocalsInv ==
    /\ pc = "idle" <=> period = 0
    /\ period <= now
    /\ pc # "idle" => pending > 0
    /\ pc \in {"publish", "persist"} => cur \in Budgets /\ cur \notin todo
    /\ pc \in {"idle", "check"} => cur = NoBudget
    /\ \A b \in Budgets : b \in todo \/ cur = b => ValidAmount(snapAmount[b])
    /\ \A c \in Clients :
          putPc[c] = "write" => putBudget[c] \in Budgets /\ ValidAmount(putAmount[c])

(* the latest period anyone can have notified for *)
Horizon == IF pc = "idle" THEN now ELSE period

(* No mark and no notification is from the future.  A budget without a mark *)
(* for the latest period has not been notified for it, but for missed marks;*)
(* the same holds of the budgets the handler has listed without a mark and  *)
(* not visited yet.                                                         *)
MarksInv ==
    /\ \A b \in Budgets :
          /\ notified[b] <= Horizon /\ snapNotified[b] <= Horizon
          /\ \A k \in Periods : k > Horizon => enqueued[b][k] = 0
          /\ notified[b] # Horizon /\ ~(pc = "persist" /\ cur = b)
                => enqueued[b][Horizon] <= missed[b][Horizon]
          /\ b \in todo /\ snapNotified[b] # period => enqueued[b][period] <= missed[b][period]
          /\ pc = "publish" /\ cur = b => enqueued[b][period] <= missed[b][period]
    /\ \A c \in Clients : putNotified[c] <= Horizon

(* a mark, stored or held by the handler or a PUT, is of a notification *)
MarkedInv ==
    /\ \A b \in Budgets :
          /\ notified[b] # 0 => enqueued[b][notified[b]] > 0
          /\ snapNotified[b] # 0 => enqueued[b][snapNotified[b]] > 0
          /\ pc = "persist" /\ cur = b => enqueued[b][period] > 0
    /\ \A c \in Clients :
          putPc[c] = "write" /\ putNotified[c] # 0
              => enqueued[putBudget[c]][putNotified[c]] > 0

Noticed(b) == amount[b] < spend[now] => enqueued[b][now] > 0

(* While the handler works on the last event, a budget that is not excused  *)
(* is as it was listed and the sum has not risen since: the handler has     *)
(* seen it, or will.                                                        *)
LastEventInv ==
    /\ \A k \in Periods : k > now => spend[k] = 0
    /\ pc # "idle" /\ pending = 1 =>
          \A b \in Budgets : state[b] = "present" /\ b \notin excused =>
                /\ now > period => spend[now] = 0
                /\ now = period => counted = spend[now]
                /\ snapAmount[b] = amount[b]
                /\ b \notin todo /\ ~(pc = "publish" /\ cur = b) => Noticed(b)

OverspendInv ==
    /\ TypeOK /\ LocalsInv
    /\ MarksInv /\ DuplicatesAccounted
    /\ MarkedInv /\ LastEventInv /\ OverspendNoticed

-----------------------------------------------------------------------------
(* The steps *)

(* Periods are positive; 0 stands for none. *)
LEMMA PeriodFacts ==
    /\ Periods0 = Periods \cup {0} /\ 0 \notin Periods
    /\ Periods \subseteq Nat /\ Periods0 \subseteq Nat
  BY DEF Periods, Periods0

(* Counting one more for a budget and a period leaves the others alone. *)
LEMMA CountOne ==
    ASSUME NEW f \in [Budgets -> [Periods -> Nat]], NEW b \in Budgets, NEW k \in Periods,
           NEW g, g = [f EXCEPT ![b][k] = @ + 1]
    PROVE  /\ g \in [Budgets -> [Periods -> Nat]]
           /\ \A d \in Budgets, l \in Periods :
                 g[d][l] = IF d = b /\ l = k THEN f[d][l] + 1 ELSE f[d][l]
  OBVIOUS

(* A PUT that overwrites a mark misses it. *)
LEMMA PutMisses ==
    ASSUME NEW c \in Clients, PutWrite(c), notified[putBudget[c]] \notin {0, putNotified[c]}
    PROVE  missed' = [missed EXCEPT ![putBudget[c]][notified[putBudget[c]]] = @ + 1]
  BY DEF PutWrite

(* Requests and the handler keep the types: what is written has been       *)
(* validated, by this request or by an earlier one.                         *)
LEMMA TypeStep ==
    TypeOK /\ LocalsInv /\ [Next]_vars => TypeOK'
<1> SUFFICES ASSUME TypeOK, LocalsInv, [Next]_vars
             PROVE  TypeOK'
  OBVIOUS
<1> USE PeriodFacts
<1> USE DEF TypeOK, ValidAmount, LocalsInv,
                    budgetVars, expenseVars, handlerVars, putVars, historyVars
<1>1. ASSUME NEW k \in Periods, Spend(k) PROVE TypeOK'
  BY <1>1 DEF Spend
<1>2. ASSUME NEW k \in Periods, NEW v \in 0..MaxSpend, SpendFalls(k, v)
      PROVE  TypeOK'
  BY <1>2 DEF SpendFalls
<1>e. ASSUME NEW k \in Periods, NEW v \in 0..MaxSpend, SpendEdited(k, v)
      PROVE  TypeOK'
  BY <1>e DEF SpendEdited
<1>o. CASE CreateOther \/ EventLost
  BY <1>o DEF CreateOther, EventLost
<1>3. CASE NextPeriod
  <2>1. now' \in Periods
    BY <1>3 DEF NextPeriod, Periods
  <2> QED
    BY <1>3, <2>1 DEF NextPeriod
<1>4. ASSUME NEW b \in Budgets, NEW a \in Amounts, Create(b, a) PROVE TypeOK'
  BY <1>4 DEF Create, Insert
<1>5. ASSUME NEW b \in Budgets, Delete(b) PROVE TypeOK'
  BY <1>5 DEF Delete
<1>6. ASSUME NEW c \in Clients, NEW b \in Budgets, NEW a \in Amounts, PutRead(c, b, a)
      PROVE  TypeOK'
  BY <1>6 DEF PutRead, Found
<1>7. ASSUME NEW c \in Clients, PutWrite(c) PROVE TypeOK'
  <2> DEFINE b == putBudget[c]
  <2>1. b \in Budgets /\ putAmount[c] > 0 /\ state[b] = "present"
    BY <1>7 DEF PutWrite, Update
  <2>2. missed' \in [Budgets -> [Periods -> Nat]]
    <3>1. CASE notified[b] \in {0, putNotified[c]}
      BY <1>7, <3>1 DEF PutWrite
    <3>2. CASE notified[b] \notin {0, putNotified[c]}
      <4>1. missed' = [missed EXCEPT ![b][notified[b]] = @ + 1]
        BY <1>7, <3>2, PutMisses
      <4> QED
        <5>1. notified[b] \in Periods
          BY <2>1, <3>2
        <5> HIDE DEF b
        <5> QED
          BY <2>1, <4>1, <5>1, CountOne, ZenonT(60)
    <3> QED
      BY <3>1, <3>2
  <2>3. /\ amount' = [amount EXCEPT ![b] = putAmount[c]]
        /\ notified' = [notified EXCEPT ![b] = putNotified[c]]
        /\ acknowledged' = [acknowledged EXCEPT ![b] = putAmount[c]]
        /\ excused' = excused \cup {b}
        /\ PutReturn(c)
        /\ UNCHANGED <<state, enqueued, expenseVars, handlerVars>>
    BY <1>7 DEF PutWrite, Update
  <2> QED
    BY <2>1, <2>2, <2>3 DEF PutReturn
<1>8. ASSUME NEW c \in Clients, PutErr(c) PROVE TypeOK'
  BY <1>8 DEF PutErr, PutReturn
<1>9. CASE List
  BY <1>9 DEF List
<1>10. ASSUME NEW b \in Budgets, Check(b) PROVE TypeOK'
  BY <1>10 DEF Check
<1>11. ASSUME NEW b \in Budgets, CheckErr(b) PROVE TypeOK'
  BY <1>11 DEF CheckErr
<1>12. CASE PublishOverspent
  <2>1. enqueued' \in [Budgets -> [Periods -> Nat]]
    BY <1>12, CountOne DEF PublishOverspent
  <2> QED
    BY <1>12, <2>1 DEF PublishOverspent
<1>13. CASE PublishErr
  BY <1>13 DEF PublishErr
<1>u. CASE PublishUnanswered
  <2>1. enqueued' \in [Budgets -> [Periods -> Nat]] /\ missed' \in [Budgets -> [Periods -> Nat]]
    BY <1>u, CountOne DEF PublishUnanswered
  <2> QED
    BY <1>u, <2>1 DEF PublishUnanswered
<1>14. CASE Persist
  BY <1>14 DEF Persist, Update
<1>15. CASE PersistErr
  <2>1. missed' \in [Budgets -> [Periods -> Nat]]
    BY <1>15, CountOne DEF PersistErr
  <2> QED
    BY <1>15, <2>1 DEF PersistErr
<1>16. CASE Done
  BY <1>16 DEF Done, HandlerReset
<1>17. CASE Crash
  <2>1. missed' \in [Budgets -> [Periods -> Nat]]
    BY <1>17, CountOne DEF Crash
  <2> QED
    BY <1>17, <2>1 DEF Crash, HandlerReset
<1>18. CASE UNCHANGED vars
  BY <1>18 DEF vars
<1> QED
  BY <1>1, <1>2, <1>e, <1>o, <1>3, <1>4, <1>5, <1>6, <1>7, <1>8, <1>9, <1>10, <1>11, <1>12,
     <1>13, <1>u, <1>14, <1>15, <1>16, <1>17, <1>18 DEF Next, BudgetRequests

(* all that is compared is a number *)
LEMMA TypeFacts ==
    TypeOK => /\ now \in Nat /\ period \in Nat
              /\ \A b \in Budgets : amount[b] \in Nat /\ snapAmount[b] \in Nat
              /\ \A b \in Budgets : notified[b] \in Nat /\ snapNotified[b] \in Nat
              /\ \A c \in Clients : putNotified[c] \in Nat
              /\ \A k \in Periods : spend[k] \in Nat
              /\ \A b \in Budgets, k \in Periods : enqueued[b][k] \in Nat /\ missed[b][k] \in Nat
<1> SUFFICES ASSUME TypeOK
             PROVE  /\ now \in Nat /\ period \in Nat
                    /\ \A b \in Budgets : amount[b] \in Nat /\ snapAmount[b] \in Nat
                    /\ \A b \in Budgets : notified[b] \in Nat /\ snapNotified[b] \in Nat
                    /\ \A c \in Clients : putNotified[c] \in Nat
                    /\ \A k \in Periods : spend[k] \in Nat
                    /\ \A b \in Budgets, k \in Periods :
                          enqueued[b][k] \in Nat /\ missed[b][k] \in Nat
  OBVIOUS
<1> USE PeriodFacts DEF TypeOK
<1>1. now \in Nat /\ period \in Nat
  OBVIOUS
<1>2. \A b \in Budgets : amount[b] \in Nat /\ snapAmount[b] \in Nat
  OBVIOUS
<1>3. \A b \in Budgets : notified[b] \in Nat /\ snapNotified[b] \in Nat
  OBVIOUS
<1>4. \A c \in Clients : putNotified[c] \in Nat
  OBVIOUS
<1>5. \A k \in Periods : spend[k] \in Nat
  OBVIOUS
<1>6. \A b \in Budgets, k \in Periods : enqueued[b][k] \in Nat /\ missed[b][k] \in Nat
  OBVIOUS
<1> QED
  BY <1>1, <1>2, <1>3, <1>4, <1>5, <1>6

(* The handler visits each budget it has listed once. *)
LEMMA LocalsStep ==
    TypeOK /\ LocalsInv /\ [Next]_vars => LocalsInv'
<1> SUFFICES ASSUME TypeOK, LocalsInv, [Next]_vars
             PROVE  LocalsInv'
  OBVIOUS
<1> USE PeriodFacts, TypeFacts
<1> USE DEF TypeOK, ValidAmount, LocalsInv,
                    budgetVars, expenseVars, handlerVars, putVars, historyVars
<1>1. ASSUME NEW k \in Periods, Spend(k) PROVE LocalsInv'
  BY <1>1 DEF Spend
<1>2. ASSUME NEW k \in Periods, NEW v \in 0..MaxSpend, SpendFalls(k, v)
      PROVE  LocalsInv'
  BY <1>2 DEF SpendFalls
<1>e. ASSUME NEW k \in Periods, NEW v \in 0..MaxSpend, SpendEdited(k, v)
      PROVE  LocalsInv'
  BY <1>e DEF SpendEdited
<1>o. CASE CreateOther \/ EventLost
  BY <1>o DEF CreateOther, EventLost
<1>3. CASE NextPeriod
  BY <1>3 DEF NextPeriod
<1>4. ASSUME NEW b \in Budgets, NEW a \in Amounts, Create(b, a) PROVE LocalsInv'
  BY <1>4 DEF Create, Insert
<1>5. ASSUME NEW b \in Budgets, Delete(b) PROVE LocalsInv'
  BY <1>5 DEF Delete
<1>6. ASSUME NEW c \in Clients, NEW b \in Budgets, NEW a \in Amounts, PutRead(c, b, a)
      PROVE  LocalsInv'
  BY <1>6 DEF PutRead, Found
<1>7. ASSUME NEW c \in Clients, PutWrite(c) PROVE LocalsInv'
  BY <1>7 DEF PutWrite, Update, PutReturn
<1>8. ASSUME NEW c \in Clients, PutErr(c) PROVE LocalsInv'
  BY <1>8 DEF PutErr, PutReturn
<1>9. CASE List
  BY <1>9 DEF List
<1>10. ASSUME NEW b \in Budgets, Check(b) PROVE LocalsInv'
  BY <1>10 DEF Check
<1>11. ASSUME NEW b \in Budgets, CheckErr(b) PROVE LocalsInv'
  BY <1>11 DEF CheckErr
<1>12. CASE PublishOverspent
  BY <1>12 DEF PublishOverspent
<1>13. CASE PublishErr
  BY <1>13 DEF PublishErr
<1>u. CASE PublishUnanswered
  BY <1>u DEF PublishUnanswered
<1>14. CASE Persist
  BY <1>14 DEF Persist, Update
<1>15. CASE PersistErr
  BY <1>15 DEF PersistErr
<1>16. CASE Done
  BY <1>16 DEF Done, HandlerReset
<1>17. CASE Crash
  BY <1>17 DEF Crash, HandlerReset
<1>18. CASE UNCHANGED vars
  BY <1>18 DEF vars
<1> QED
  BY <1>1, <1>2, <1>e, <1>o, <1>3, <1>4, <1>5, <1>6, <1>7, <1>8, <1>9, <1>10, <1>11, <1>12,
     <1>13, <1>u, <1>14, <1>15, <1>16, <1>17, <1>18 DEF Next, BudgetRequests

(* A mark is lost only where it is counted as missed. *)
LEMMA MarksStep ==
    TypeOK /\ LocalsInv /\ MarksInv /\ DuplicatesAccounted /\ [Next]_vars
        => MarksInv' /\ DuplicatesAccounted'
<1> SUFFICES ASSUME TypeOK, LocalsInv, MarksInv, DuplicatesAccounted, [Next]_vars
             PROVE  MarksInv' /\ DuplicatesAccounted'
  OBVIOUS
<1> USE PeriodFacts, TypeFacts
<1> USE DEF TypeOK, ValidAmount, LocalsInv, MarksInv, DuplicatesAccounted, Horizon,
                    budgetVars, expenseVars, handlerVars, putVars, historyVars
<1>1. ASSUME NEW k \in Periods, Spend(k) PROVE MarksInv' /\ DuplicatesAccounted'
  BY <1>1 DEF Spend
<1>2. ASSUME NEW k \in Periods, NEW v \in 0..MaxSpend, SpendFalls(k, v)
      PROVE  MarksInv' /\ DuplicatesAccounted'
  BY <1>2 DEF SpendFalls
<1>e. ASSUME NEW k \in Periods, NEW v \in 0..MaxSpend, SpendEdited(k, v)
      PROVE  MarksInv' /\ DuplicatesAccounted'
  BY <1>e DEF SpendEdited
<1>o. CASE CreateOther \/ EventLost
  BY <1>o DEF CreateOther, EventLost
<1>3. CASE NextPeriod
  <2>1. now' \in Periods /\ now' = now + 1
    BY <1>3 DEF NextPeriod, Periods
  <2>2. CASE pc = "idle"
    BY <1>3, <2>1, <2>2 DEF NextPeriod
  <2>3. CASE pc # "idle"
    BY <1>3, <2>1, <2>3 DEF NextPeriod
  <2> QED
    BY <2>2, <2>3
<1>4. ASSUME NEW b \in Budgets, NEW a \in Amounts, Create(b, a)
      PROVE  MarksInv' /\ DuplicatesAccounted'
  BY <1>4 DEF Create, Insert
<1>5. ASSUME NEW b \in Budgets, Delete(b) PROVE MarksInv' /\ DuplicatesAccounted'
  BY <1>5 DEF Delete
<1>6. ASSUME NEW c \in Clients, NEW b \in Budgets, NEW a \in Amounts, PutRead(c, b, a)
      PROVE  MarksInv' /\ DuplicatesAccounted'
  BY <1>6 DEF PutRead, Found
<1>7. ASSUME NEW c \in Clients, PutWrite(c) PROVE MarksInv' /\ DuplicatesAccounted'
  BY <1>7 DEF PutWrite, Update, PutReturn
<1>8. ASSUME NEW c \in Clients, PutErr(c) PROVE MarksInv' /\ DuplicatesAccounted'
  BY <1>8 DEF PutErr, PutReturn
<1>9. CASE List
  BY <1>9 DEF List
<1>10. ASSUME NEW b \in Budgets, Check(b) PROVE MarksInv' /\ DuplicatesAccounted'
  BY <1>10 DEF Check
<1>11. ASSUME NEW b \in Budgets, CheckErr(b) PROVE MarksInv' /\ DuplicatesAccounted'
  BY <1>11 DEF CheckErr
<1>12. CASE PublishOverspent
  BY <1>12 DEF PublishOverspent
<1>13. CASE PublishErr
  BY <1>13 DEF PublishErr
<1>u. CASE PublishUnanswered
  <2>1. /\ pc = "publish" /\ pc' = "check" /\ cur' = NoBudget /\ cur \in Budgets
        /\ UNCHANGED <<period, snapAmount, snapNotified, todo, budgetVars, expenseVars, putVars>>
    BY <1>u DEF PublishUnanswered
  <2>2. \A d \in Budgets, l \in Periods :
           /\ enqueued'[d][l] = IF d = cur /\ l = period THEN enqueued[d][l] + 1
                                                        ELSE enqueued[d][l]
           /\ missed'[d][l] = IF d = cur /\ l = period THEN missed[d][l] + 1 ELSE missed[d][l]
    BY <1>u, CountOne DEF PublishUnanswered
  <2>3. period \in Periods
    BY <2>1
  <2>4. DuplicatesAccounted'
    BY <2>2
  <2>5. \A d \in Budgets, l \in Periods :
           enqueued[d][l] <= missed[d][l] => enqueued'[d][l] <= missed'[d][l]
    BY <2>2
  <2>6. \A d \in Budgets, l \in Periods : l > period => enqueued'[d][l] = 0
    BY <2>1, <2>2, <2>3
  <2> QED
    BY <2>1, <2>3, <2>4, <2>5, <2>6
<1>14. CASE Persist
  BY <1>14 DEF Persist, Update
<1>15. CASE PersistErr
  BY <1>15 DEF PersistErr
<1>16. CASE Done
  <2>1. now > period \/ now = period
    OBVIOUS
  <2>2. CASE now > period
    BY <1>16, <2>2 DEF Done, HandlerReset
  <2>3. CASE now = period
    BY <1>16, <2>3 DEF Done, HandlerReset
  <2> QED
    BY <2>1, <2>2, <2>3
<1>17. CASE Crash
  <2>1. now > period \/ now = period
    OBVIOUS
  <2>2. CASE pc = "persist"
    <3>1. /\ missed' \in [Budgets -> [Periods -> Nat]]
          /\ \A d \in Budgets, l \in Periods :
                missed'[d][l] = IF d = cur /\ l = period THEN missed[d][l] + 1 ELSE missed[d][l]
      BY <1>17, <2>2, CountOne DEF Crash
    <3>2. pc' = "idle" /\ UNCHANGED <<enqueued, notified, now>>
      BY <1>17 DEF Crash, HandlerReset
    <3>0. \A d \in Budgets, l \in Periods : /\ enqueued[d][l] \in Nat /\ missed[d][l] \in Nat
                                          /\ enqueued[d][l] <= 1 + missed[d][l]
      OBVIOUS
    <3>3. DuplicatesAccounted'
      BY ONLY <3>0, <3>1, <3>2 DEF DuplicatesAccounted
    <3>4. \A b \in Budgets : notified[b] # now => enqueued[b][now] <= missed'[b][now]
      BY <2>1, <2>2, <3>1
    <3> QED
      BY <1>17, <2>2, <3>2, <3>3, <3>4 DEF Crash, HandlerReset
  <2>3. CASE pc # "persist"
    <3>1. CASE now > period
      BY <1>17, <2>3, <3>1 DEF Crash, HandlerReset
    <3>2. CASE now = period
      BY <1>17, <2>3, <3>2 DEF Crash, HandlerReset
    <3> QED
      BY <2>1, <3>1, <3>2
  <2> QED
    BY <2>2, <2>3
<1>18. CASE UNCHANGED vars
  BY <1>18 DEF vars
<1> QED
  BY <1>1, <1>2, <1>e, <1>o, <1>3, <1>4, <1>5, <1>6, <1>7, <1>8, <1>9, <1>10, <1>11, <1>12,
     <1>13, <1>u, <1>14, <1>15, <1>16, <1>17, <1>18 DEF Next, BudgetRequests

(* Marks are of notifications that have been enqueued. *)
LEMMA MarkedStep ==
    TypeOK /\ LocalsInv /\ MarkedInv /\ [Next]_vars => MarkedInv'
<1> SUFFICES ASSUME TypeOK, LocalsInv, MarkedInv, [Next]_vars
             PROVE  MarkedInv'
  OBVIOUS
<1> USE PeriodFacts, TypeFacts
<1> USE DEF TypeOK, ValidAmount, LocalsInv, MarkedInv,
                    budgetVars, expenseVars, handlerVars, putVars, historyVars
<1>1. ASSUME NEW k \in Periods, Spend(k) PROVE MarkedInv'
  BY <1>1 DEF Spend
<1>2. ASSUME NEW k \in Periods, NEW v \in 0..MaxSpend, SpendFalls(k, v)
      PROVE  MarkedInv'
  BY <1>2 DEF SpendFalls
<1>e. ASSUME NEW k \in Periods, NEW v \in 0..MaxSpend, SpendEdited(k, v)
      PROVE  MarkedInv'
  BY <1>e DEF SpendEdited
<1>o. CASE CreateOther \/ EventLost
  BY <1>o DEF CreateOther, EventLost
<1>3. CASE NextPeriod
  BY <1>3 DEF NextPeriod
<1>4. ASSUME NEW b \in Budgets, NEW a \in Amounts, Create(b, a) PROVE MarkedInv'
  BY <1>4 DEF Create, Insert
<1>5. ASSUME NEW b \in Budgets, Delete(b) PROVE MarkedInv'
  BY <1>5 DEF Delete
<1>6. ASSUME NEW c \in Clients, NEW b \in Budgets, NEW a \in Amounts, PutRead(c, b, a)
      PROVE  MarkedInv'
  BY <1>6 DEF PutRead, Found
<1>7. ASSUME NEW c \in Clients, PutWrite(c) PROVE MarkedInv'
  BY <1>7 DEF PutWrite, Update, PutReturn
<1>8. ASSUME NEW c \in Clients, PutErr(c) PROVE MarkedInv'
  BY <1>8 DEF PutErr, PutReturn
<1>9. CASE List
  BY <1>9 DEF List
<1>10. ASSUME NEW b \in Budgets, Check(b) PROVE MarkedInv'
  BY <1>10 DEF Check
<1>11. ASSUME NEW b \in Budgets, CheckErr(b) PROVE MarkedInv'
  BY <1>11 DEF CheckErr
<1>12. CASE PublishOverspent
  BY <1>12 DEF PublishOverspent
<1>13. CASE PublishErr
  BY <1>13 DEF PublishErr
<1>u. CASE PublishUnanswered
  BY <1>u DEF PublishUnanswered
<1>14. CASE Persist
  BY <1>14 DEF Persist, Update
<1>15. CASE PersistErr
  BY <1>15 DEF PersistErr
<1>16. CASE Done
  BY <1>16 DEF Done, HandlerReset
<1>17. CASE Crash
  BY <1>17 DEF Crash, HandlerReset
<1>18. CASE UNCHANGED vars
  BY <1>18 DEF vars
<1> QED
  BY <1>1, <1>2, <1>e, <1>o, <1>3, <1>4, <1>5, <1>6, <1>7, <1>8, <1>9, <1>10, <1>11, <1>12,
     <1>13, <1>u, <1>14, <1>15, <1>16, <1>17, <1>18 DEF Next, BudgetRequests

(* The handler of the last event leaves no overspent budget behind. *)
LEMMA LastEventStep ==
    TypeOK /\ LocalsInv /\ MarkedInv /\ LastEventInv /\ OverspendNoticed /\ [Next]_vars
        => LastEventInv' /\ OverspendNoticed'
<1> SUFFICES ASSUME TypeOK, LocalsInv, MarkedInv, LastEventInv, OverspendNoticed, [Next]_vars
             PROVE  LastEventInv' /\ OverspendNoticed'
  OBVIOUS
<1> USE PeriodFacts, TypeFacts
<1> USE DEF TypeOK, ValidAmount, LocalsInv, MarkedInv, LastEventInv, OverspendNoticed, Noticed,
                    budgetVars, expenseVars, handlerVars, putVars, historyVars
<1>1. ASSUME NEW k \in Periods, Spend(k) PROVE LastEventInv' /\ OverspendNoticed'
  BY <1>1 DEF Spend
<1>2. ASSUME NEW k \in Periods, NEW v \in 0..MaxSpend, SpendFalls(k, v)
      PROVE  LastEventInv' /\ OverspendNoticed'
  <2>1. ASSUME NEW l \in Periods PROVE spend'[l] <= spend[l] /\ spend'[l] \in Nat
    BY <1>2 DEF SpendFalls
  <2>2. UNCHANGED <<now, pending, budgetVars, enqueued, pc, period, snapAmount, snapNotified,
                    todo, cur, putVars, historyVars>>
    BY <1>2 DEF SpendFalls
  <2>3. \A l \in Periods : l > now' => spend'[l] = 0
    BY <2>1, <2>2
  <2>4. \A b \in Budgets : Noticed(b) => Noticed(b)'
    BY <2>1, <2>2
  <2>5. spend[now] = 0 => spend'[now'] = 0
    BY <2>1, <2>2
  <2>6. now = period /\ counted = spend[now] => counted' = spend'[now']
    BY <1>2, <2>2 DEF SpendFalls
  <2>7. OverspendNoticed'
    BY <2>2, <2>4
  <2> QED
    BY <2>2, <2>3, <2>4, <2>5, <2>6, <2>7
<1>e. ASSUME NEW k \in Periods, NEW v \in 0..MaxSpend, SpendEdited(k, v)
      PROVE  LastEventInv' /\ OverspendNoticed'
  <2>1. /\ k <= now /\ spend' = [spend EXCEPT ![k] = v]
        /\ UNCHANGED <<now, pending, budgetVars, enqueued, pc, period, snapAmount, snapNotified,
                       todo, cur, putVars, acknowledged, missed>>
    BY <1>e DEF SpendEdited
  <2>2. CASE k = now
    BY <1>e, <2>1, <2>2 DEF SpendEdited
  <2>3. CASE k # now
    <3>1. spend'[now'] = spend[now] /\ excused' = excused /\ (now = period => counted' = counted)
      BY <1>e, <2>1, <2>3 DEF SpendEdited
    <3>2. \A b \in Budgets : Noticed(b)' <=> Noticed(b)
      BY <2>1, <3>1
    <3>3. \A l \in Periods : l > now' => spend'[l] = 0
      BY <2>1
    <3>4. OverspendNoticed'
      BY <2>1, <3>1, <3>2
    <3> QED
      BY <2>1, <3>1, <3>2, <3>3, <3>4
  <2> QED
    BY <2>2, <2>3
<1>o. CASE CreateOther \/ EventLost
  BY <1>o DEF CreateOther, EventLost
<1>3. CASE NextPeriod
  <2>1. /\ now' \in Periods /\ now' = now + 1
        /\ UNCHANGED <<spend, pending, budgetVars, enqueued, handlerVars, putVars, historyVars>>
    BY <1>3 DEF NextPeriod, Periods
  <2>2. spend'[now'] = 0 /\ \A b \in Budgets : Noticed(b)'
    BY <2>1
  <2>3. \A l \in Periods : l > now' => spend'[l] = 0
    BY <2>1
  <2>4. OverspendNoticed'
    BY <2>2
  <2> QED
    BY <2>1, <2>2, <2>3, <2>4
<1>4. ASSUME NEW b \in Budgets, NEW a \in Amounts, Create(b, a)
      PROVE  LastEventInv' /\ OverspendNoticed'
  BY <1>4 DEF Create, Insert
<1>5. ASSUME NEW b \in Budgets, Delete(b) PROVE LastEventInv' /\ OverspendNoticed'
  BY <1>5 DEF Delete
<1>6. ASSUME NEW c \in Clients, NEW b \in Budgets, NEW a \in Amounts, PutRead(c, b, a)
      PROVE  LastEventInv' /\ OverspendNoticed'
  BY <1>6 DEF PutRead, Found
<1>7. ASSUME NEW c \in Clients, PutWrite(c) PROVE LastEventInv' /\ OverspendNoticed'
  BY <1>7 DEF PutWrite, Update, PutReturn
<1>8. ASSUME NEW c \in Clients, PutErr(c) PROVE LastEventInv' /\ OverspendNoticed'
  BY <1>8 DEF PutErr, PutReturn
<1>9. CASE List
  BY <1>9 DEF List
<1>10. ASSUME NEW b \in Budgets, Check(b) PROVE LastEventInv' /\ OverspendNoticed'
  <2>1. /\ pc = "check" /\ b \in todo /\ todo' = todo \ {b}
        /\ UNCHANGED <<period, snapAmount, snapNotified, counted, budgetVars, enqueued,
                        expenseVars, putVars, historyVars>>
    BY <1>10 DEF Check
  <2>2. PICK actual \in Sums : IF Overspent(b, actual) /\ snapNotified[b] # period
                              THEN pc' = "publish" /\ cur' = b
                              ELSE UNCHANGED <<pc, cur>>
    BY <1>10 DEF Check
  <2>3. CASE Overspent(b, actual) /\ snapNotified[b] # period
    BY <2>1, <2>2, <2>3
  <2>4. CASE ~(Overspent(b, actual) /\ snapNotified[b] # period)
    <3>1. UNCHANGED <<pc, cur>>
      BY <2>2, <2>4
    <3>2. pending = 1 /\ state[b] = "present" /\ b \notin excused => Noticed(b)
      <4>1. CASE now > period
        BY <2>1, <4>1
      <4>2. CASE now = period
        <5>1. pending = 1 /\ state[b] = "present" /\ b \notin excused => actual = spend[now]
          BY <2>1, <2>2, <4>2 DEF Sums
        <5> QED
          BY <2>1, <2>4, <4>2, <5>1 DEF Overspent
      <4> QED
        BY <4>1, <4>2
    <3> QED
      BY <2>1, <3>1, <3>2
  <2> QED
    BY <2>3, <2>4
<1>11. ASSUME NEW b \in Budgets, CheckErr(b) PROVE LastEventInv' /\ OverspendNoticed'
  BY <1>11 DEF CheckErr
<1>12. CASE PublishOverspent
  <2>1. /\ pc = "publish" /\ pc' = "persist"
        /\ UNCHANGED <<period, snapAmount, snapNotified, counted, todo, cur, budgetVars,
                        expenseVars, putVars, historyVars>>
    BY <1>12 DEF PublishOverspent
  <2>2. \A d \in Budgets, l \in Periods :
           enqueued'[d][l] = IF d = cur /\ l = period THEN enqueued[d][l] + 1 ELSE enqueued[d][l]
    BY <1>12, CountOne DEF PublishOverspent
  <2>3. ASSUME NEW d \in Budgets, Noticed(d) PROVE Noticed(d)'
    <3>1. enqueued'[d][now] \in {enqueued[d][now], enqueued[d][now] + 1}
      BY <2>2
    <3> QED
      BY <2>1, <2>3, <3>1
  <2>4. pending = 1 /\ state[cur] = "present" /\ cur \notin excused => Noticed(cur)'
    BY <2>1, <2>2
  <2> QED
    BY <2>1, <2>3, <2>4
<1>13. CASE PublishErr
  BY <1>13 DEF PublishErr
<1>u. CASE PublishUnanswered
  <2>1. /\ pc = "publish" /\ pc' = "check" /\ cur' = NoBudget
        /\ UNCHANGED <<period, snapAmount, snapNotified, counted, todo, budgetVars, expenseVars,
                       putVars, acknowledged, excused>>
    BY <1>u DEF PublishUnanswered
  <2>2. \A d \in Budgets, l \in Periods :
           enqueued'[d][l] = IF d = cur /\ l = period THEN enqueued[d][l] + 1 ELSE enqueued[d][l]
    BY <1>u, CountOne DEF PublishUnanswered
  <2>3. ASSUME NEW d \in Budgets, Noticed(d) PROVE Noticed(d)'
    <3>1. enqueued'[d][now] \in {enqueued[d][now], enqueued[d][now] + 1}
      BY <2>2
    <3> QED
      BY <2>1, <2>3, <3>1
  <2>4. ASSUME NEW d \in Budgets, d = cur, pending = 1, state[d] = "present", d \notin excused
        PROVE  Noticed(d)'
    <3>0. now > period \/ now = period
      OBVIOUS
    <3>1. CASE now > period
      BY <2>1, <2>4, <3>1
    <3>2. CASE now = period
      <4>1. enqueued'[d][now] = enqueued[d][now] + 1
        BY <2>2, <2>4, <3>2
      <4> QED
        BY <2>1, <4>1
    <3> QED
      BY <3>0, <3>1, <3>2
  <2> QED
    BY <2>1, <2>3, <2>4
<1>14. CASE Persist
  BY <1>14 DEF Persist, Update
<1>15. CASE PersistErr
  BY <1>15 DEF PersistErr
<1>16. CASE Done
  BY <1>16 DEF Done, HandlerReset
<1>17. CASE Crash
  BY <1>17 DEF Crash, HandlerReset
<1>18. CASE UNCHANGED vars
  BY <1>18 DEF vars
<1> QED
  BY <1>1, <1>2, <1>e, <1>o, <1>3, <1>4, <1>5, <1>6, <1>7, <1>8, <1>9, <1>10, <1>11, <1>12,
     <1>13, <1>u, <1>14, <1>15, <1>16, <1>17, <1>18 DEF Next, BudgetRequests

-----------------------------------------------------------------------------

(* With no budget and no expense yet it holds. *)
LEMMA InitInv == Init => OverspendInv
<1> SUFFICES ASSUME Init PROVE OverspendInv
  OBVIOUS
<1> USE PeriodFacts DEF Init
<1>1. 1 \in Periods
  BY DEF Periods
<1>2. TypeOK
  BY <1>1 DEF TypeOK, ValidAmount
<1>3. LocalsInv
  BY DEF LocalsInv, ValidAmount
<1>4. MarksInv /\ DuplicatesAccounted
  BY <1>1 DEF MarksInv, DuplicatesAccounted, Horizon
<1>5. MarkedInv /\ LastEventInv /\ OverspendNoticed
  BY <1>1 DEF MarkedInv, LastEventInv, OverspendNoticed
<1> QED
  BY <1>2, <1>3, <1>4, <1>5 DEF OverspendInv

(* Every reachable state satisfies the inductive invariant. *)
LEMMA OverspendCorrect == Spec => []OverspendInv
<1>1. OverspendInv /\ [Next]_vars => OverspendInv'
  BY TypeStep, LocalsStep, MarksStep, MarkedStep, LastEventStep DEF OverspendInv
<1> QED
  BY <1>1, InitInv, PTL DEF Spec

(* Every budget that exists has a positive amount, whichever copy of it was *)
(* written last: a request's or the handler's (Validate, Update).           *)
THEOREM BudgetsStayValid == Spec => []TypeOK
<1>1. OverspendInv => TypeOK
  BY DEF OverspendInv
<1> QED
  BY <1>1, OverspendCorrect, PTL

(* A second notification of a budget and period has a missed mark for its   *)
(* cause, however often events are delivered (notifyIfOverspent).           *)
THEOREM SecondNotificationsHaveACause == Spec => []DuplicatesAccounted
<1>1. OverspendInv => DuplicatesAccounted
  BY DEF OverspendInv
<1> QED
  BY <1>1, OverspendCorrect, PTL

(* When the events are handled, every overspent budget has been notified    *)
(* for, but for the excused ones (HandleTransactionCreated).                *)
THEOREM OverspendIsNoticed == Spec => []OverspendNoticed
<1>1. OverspendInv => OverspendNoticed
  BY DEF OverspendInv
<1> QED
  BY <1>1, OverspendCorrect, PTL

(* No step revives a deleted budget: Update matches an existing document    *)
(* only (MongoBudgetRepository.Update).                                     *)
THEOREM DeletionIsFinal == Spec => DeletedStaysDeleted
<1>1. TypeOK /\ [Next]_vars =>
         [\A b \in Budgets : state[b] = "deleted" => state'[b] = "deleted"]_vars
  <2> SUFFICES ASSUME TypeOK, Next, NEW d \in Budgets, state[d] = "deleted"
               PROVE  state'[d] = "deleted"
    OBVIOUS
  <2> USE DEF TypeOK, budgetVars
  <2>1. CASE \/ \E k \in Periods : Spend(k)
             \/ \E k \in Periods, v \in 0..MaxSpend : SpendFalls(k, v) \/ SpendEdited(k, v)
             \/ CreateOther \/ EventLost
    BY <2>1 DEF Spend, SpendFalls, SpendEdited, CreateOther, EventLost
  <2>2. CASE NextPeriod \/ BudgetRequests
    BY <2>2 DEF NextPeriod, BudgetRequests, Create, Insert, Delete, PutRead, PutWrite, Update,
                PutErr
  <2>3. CASE \E b \in Budgets : Check(b) \/ CheckErr(b)
    BY <2>3 DEF Check, CheckErr
  <2>4. CASE \/ List \/ PublishOverspent \/ PublishErr \/ PublishUnanswered
             \/ Persist \/ PersistErr \/ Done \/ Crash
    BY <2>4 DEF List, PublishOverspent, PublishErr, PublishUnanswered, Persist, Update,
                PersistErr, Done, Crash
  <2> QED
    BY <2>1, <2>2, <2>3, <2>4 DEF Next
<1> QED
  BY <1>1, BudgetsStayValid, PTL DEF Spec, DeletedStaysDeleted

-----------------------------------------------------------------------------
(* The PUT that gets lost *)

(* The handler has listed b and is not done with it. *)
Held(b) == b \in todo \/ cur = b

(* A PUT does not write a budget that the handler holds. *)
PutsStayApart == \A c \in Clients : PutWrite(c) => ~ Held(putBudget[c])

(* Then what the handler holds of a budget is what its owner wrote last. *)
HeldIsCurrent ==
    \A b \in Budgets : Held(b) =>
        /\ state[b] # "absent"
        /\ state[b] = "present" => snapAmount[b] = acknowledged[b]

(* NoLostPut fails for no other reason than the one of the finding: when no  *)
(* PUT is answered between ListByUser and the Update of its budget in one    *)
(* run of the handler, every budget has the amount its owner wrote last,     *)
(* through crashes, redeliveries and failing calls (notifyIfOverspent).      *)
THEOREM OnlyOverlapLosesPuts == Spec /\ [][PutsStayApart]_vars => []NoLostPut
<1>1. Init => HeldIsCurrent /\ NoLostPut
  BY DEF Init, HeldIsCurrent, NoLostPut, Held
<1>2. /\ OverspendInv /\ HeldIsCurrent /\ NoLostPut
      /\ [Next]_vars /\ [PutsStayApart]_vars
      => HeldIsCurrent' /\ NoLostPut'
  <2> SUFFICES ASSUME OverspendInv, HeldIsCurrent, NoLostPut,
                      [Next]_vars, [PutsStayApart]_vars, NEW b \in Budgets
               PROVE  /\ Held(b)' => /\ state'[b] # "absent"
                                     /\ state'[b] = "present" => snapAmount'[b] = acknowledged'[b]
                      /\ state'[b] = "present" => amount'[b] = acknowledged'[b]
    BY DEF HeldIsCurrent, NoLostPut
  <2> DEFINE Same == /\ state'[b] = state[b] /\ amount'[b] = amount[b]
                     /\ acknowledged'[b] = acknowledged[b]
             Goal == /\ Held(b)' => /\ state'[b] # "absent"
                                    /\ state'[b] = "present" => snapAmount'[b] = acknowledged'[b]
                     /\ state'[b] = "present" => amount'[b] = acknowledged'[b]
  <2>0. /\ TypeOK /\ LocalsInv
        /\ Held(b) => /\ state[b] # "absent"
                      /\ state[b] = "present" => snapAmount[b] = acknowledged[b]
        /\ state[b] = "present" => amount[b] = acknowledged[b]
    BY DEF OverspendInv, HeldIsCurrent, NoLostPut
  <2>1. ASSUME Same, Held(b)' => Held(b), snapAmount' = snapAmount PROVE Goal
    BY <2>0, <2>1
  <2>2. CASE \/ \E k \in Periods : Spend(k)
             \/ \E k \in Periods, v \in 0..MaxSpend : SpendFalls(k, v) \/ SpendEdited(k, v)
             \/ CreateOther \/ EventLost \/ NextPeriod \/ UNCHANGED vars
    BY <2>1, <2>2 DEF Spend, SpendFalls, SpendEdited, CreateOther, EventLost, NextPeriod, vars,
                      budgetVars, handlerVars, historyVars, Held
  <2>3. ASSUME NEW d \in Budgets, NEW a \in Amounts, Create(d, a) PROVE Goal
    <3>1. CASE d = b
      <4>1. ~ Held(b) /\ state[b] = "absent"
        BY <2>0, <2>3, <3>1 DEF Create, Insert
      <4>2. amount'[b] = a /\ acknowledged'[b] = a /\ ~ Held(b)'
        BY <2>0, <2>3, <3>1, <4>1 DEF Create, Insert, TypeOK, handlerVars, Held
      <4> QED
        BY <4>2
    <3>2. CASE d # b
      BY <2>0, <2>1, <2>3, <3>2 DEF Create, Insert, TypeOK, handlerVars, Held
    <3> QED
      BY <3>1, <3>2
  <2>4. ASSUME NEW d \in Budgets, Delete(d) PROVE Goal
    <3>1. CASE d = b
      BY <2>0, <2>4, <3>1 DEF Delete, TypeOK, handlerVars, Held
    <3>2. CASE d # b
      BY <2>0, <2>1, <2>4, <3>2 DEF Delete, TypeOK, handlerVars, historyVars, Held
    <3> QED
      BY <3>1, <3>2
  <2>5. ASSUME NEW c \in Clients, NEW d \in Budgets, NEW a \in Amounts, PutRead(c, d, a)
        PROVE  Goal
    BY <2>1, <2>5 DEF PutRead, budgetVars, handlerVars, historyVars, Held
  <2>6. ASSUME NEW c \in Clients, PutWrite(c) PROVE Goal
    <3>1. CASE putBudget[c] = b
      <4>1. ~ Held(b)
        <5>1. putPc' # putPc
          BY <2>0, <2>6 DEF PutWrite, PutReturn, TypeOK
        <5>2. PutsStayApart
          BY <5>1 DEF vars, putVars
        <5> QED
          BY <2>6, <3>1, <5>2 DEF PutsStayApart
      <4>2. amount'[b] = putAmount[c] /\ acknowledged'[b] = putAmount[c]
        BY <2>0, <2>6, <3>1 DEF PutWrite, Update, TypeOK
      <4>3. ~ Held(b)'
        BY <2>6, <4>1 DEF PutWrite, handlerVars, Held
      <4> QED
        BY <4>2, <4>3
    <3>2. CASE putBudget[c] # b
      BY <2>0, <2>1, <2>6, <3>2 DEF PutWrite, Update, TypeOK, handlerVars, Held
    <3> QED
      BY <3>1, <3>2
  <2>7. ASSUME NEW c \in Clients, PutErr(c) PROVE Goal
    BY <2>1, <2>7 DEF PutErr, budgetVars, handlerVars, historyVars, Held
  <2>8. CASE List
    BY <2>0, <2>8 DEF List, TypeOK, LocalsInv, budgetVars, historyVars, Held
  <2>9. ASSUME NEW d \in Budgets, Check(d) \/ CheckErr(d) PROVE Goal
    BY <2>0, <2>1, <2>9 DEF Check, CheckErr, budgetVars, historyVars, Held
  <2>10. CASE PublishOverspent \/ PublishErr \/ PublishUnanswered \/ PersistErr
    BY <2>0, <2>1, <2>10
    DEF PublishOverspent, PublishErr, PublishUnanswered, PersistErr, TypeOK, budgetVars, historyVars, Held
  <2>11. CASE Persist
    <3>1. ~ Held(b)' \/ (b \in todo /\ cur # b)
      BY <2>0, <2>11 DEF Persist, LocalsInv, Held
    <3>2. CASE cur = b
      <4>1. amount'[b] = snapAmount[b] /\ state'[b] = "present" /\ acknowledged' = acknowledged
            /\ state[b] = "present"
        BY <2>0, <2>11, <3>2 DEF Persist, Update, TypeOK, historyVars
      <4>2. snapAmount[b] = acknowledged[b]
        BY <2>0, <3>2, <4>1 DEF Held
      <4>3. ~ Held(b)'
        BY <3>1, <3>2
      <4> QED
        BY <4>1, <4>2, <4>3
    <3>3. CASE cur # b
      BY <2>0, <2>1, <2>11, <3>3 DEF Persist, Update, TypeOK, historyVars, Held
    <3> QED
      BY <3>2, <3>3
  <2>12. CASE Done \/ Crash
    <3>1. ~ Held(b)'
      BY <2>12 DEF Done, Crash, HandlerReset, Held
    <3>2. Same
      BY <2>12 DEF Done, Crash, budgetVars, historyVars
    <3> QED
      BY <2>0, <3>1, <3>2
  <2> QED
    BY <2>2, <2>3, <2>4, <2>5, <2>6, <2>7, <2>8, <2>9, <2>10, <2>11, <2>12
    DEF Next, BudgetRequests
<1> QED
  BY <1>1, <1>2, OverspendCorrect, PTL DEF Spec

=============================================================================
