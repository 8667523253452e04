---------------------------- MODULE ExpenseStore ----------------------------
(***************************************************************************)
(* expense-service: accounts, categories and transactions of several users *)
(* (internal/service, internal/repository), and the CSV import.            *)
(*                                                                         *)
(* Each MongoDB call is one step.  A request that makes one call only is   *)
(* one action; the others keep what they have read in req[p] and           *)
(* interleave between their calls.  Ids in a request are any ids: those of *)
(* other users, and of documents that do not exist.                        *)
(***************************************************************************)
EXTENDS Naturals, FiniteSets

CONSTANTS
    Procs,            \* request goroutines
    Users,
    Accounts, Categories, Txs,   \* object ids
    Currencies,
    Rows,             \* the rows of CSV files
    MaxRows,          \* bound: rows of one file
    MaxImportErrors,  \* maxImportErrors
    MaxAmount,        \* maxAmount
    BlankId,          \* a category_id of white space only
    None

ASSUME StoreAssumption ==
    /\ MaxRows \in Nat /\ MaxImportErrors \in Nat /\ MaxAmount \in Nat \ {0}
    /\ {None, BlankId} \cap (Users \cup Accounts \cup Categories \cup Txs) = {}

I == INSTANCE ImportRow

VARIABLES
    accounts,    \* [Accounts -> account documents]
    categories,  \* [Categories -> Users \cup {None}]: the owner
    txs,         \* [Txs -> transaction documents]
    outbox,      \* transactions with a transaction.created event enqueued
    req,         \* [Procs -> the local variables of a request]
    (* history, read by properties only *)
    lost,        \* transactions whose event was lost to a failing call
    fileTxs,     \* [Procs -> what p's import has inserted, and in which currency]
    unsure       \* [Procs -> rows of it inserted by a call that reported an error]

storeVars == <<accounts, categories, txs, outbox>>
historyVars == <<lost, fileTxs, unsure>>
vars == <<storeVars, req, historyVars>>

(* free: no such document yet; deleted: no such document any more, its     *)
(* last contents kept for the properties                                   *)
DocStates == {"free", "live", "deleted"}

AccountDocs == [state : DocStates, user : Users \cup {None},
                currency : Currencies \cup {None}]

TxDocs == [state : DocStates, user : Users \cup {None},
           account : Accounts \cup {None},
           category : Categories \cup {BlankId, None},
           currency : Currencies \cup {None}, amount : {"number", "NaN"}]

Steps == {"idle", "putAccount", "checkAccount", "checkCategory", "insert",
          "publish", "write", "importAccount", "rows"}

Requests == [pc : Steps, op : {"none", "put", "create", "update", "import"},
             user : Users \cup {None}, account : Accounts \cup {None},
             category : Categories \cup {BlankId, None},
             currency : Currencies \cup {None}, tx : Txs \cup {None},
             rows : 0..MaxRows, imported : 0..MaxRows, skipped : 0..MaxRows,
             errors : 0..MaxRows]

Idle == [pc |-> "idle", op |-> "none", user |-> None, account |-> None,
         category |-> None, currency |-> None, tx |-> None,
         rows |-> 0, imported |-> 0, skipped |-> 0, errors |-> 0]

TypeOK ==
    /\ accounts \in [Accounts -> AccountDocs]
    /\ categories \in [Categories -> Users \cup {None}]
    /\ txs \in [Txs -> TxDocs]
    /\ outbox \in SUBSET Txs
    /\ req \in [Procs -> Requests]
    /\ lost \in SUBSET Txs
    /\ fileTxs \in [Procs -> SUBSET (Txs \X Currencies)]
    /\ unsure \in [Procs -> 0..MaxRows]

Init ==
    /\ accounts = [a \in Accounts |-> [state |-> "free", user |-> None, currency |-> None]]
    /\ categories = [c \in Categories |-> None]
    /\ txs = [t \in Txs |-> [state |-> "free", user |-> None, account |-> None,
                             category |-> None, currency |-> None, amount |-> "number"]]
    /\ outbox = {}
    /\ req = [p \in Procs |-> Idle]
    /\ lost = {}
    /\ fileTxs = [p \in Procs |-> {}]
    /\ unsure = [p \in Procs |-> 0]

(* the documents that GetByIDForUser finds *)
OwnAccount(a, u) == accounts[a].state = "live" /\ accounts[a].user = u
OwnTx(t, u) == txs[t].state = "live" /\ txs[t].user = u

Goto(p, step) == req' = [req EXCEPT ![p].pc = step]
Return(p) == req' = [req EXCEPT ![p] = Idle]

-----------------------------------------------------------------------------
(* Accounts and categories *)

CreateAccount(u, a, cur) ==
    /\ accounts[a].state = "free"
    /\ accounts' = [accounts EXCEPT ![a] = [state |-> "live", user |-> u, currency |-> cur]]
    /\ UNCHANGED <<categories, txs, outbox, req, historyVars>>

(* nothing is done to the transactions of the account *)
DeleteAccount(u, a) ==
    /\ OwnAccount(a, u)
    /\ accounts' = [accounts EXCEPT ![a].state = "deleted"]
    /\ UNCHANGED <<categories, txs, outbox, req, historyVars>>

UpdateAccountGet(p, u, a, cur) ==
    /\ req[p] = Idle
    /\ OwnAccount(a, u)
    /\ req' = [req EXCEPT ![p] = [Idle EXCEPT !.pc = "putAccount", !.op = "put",
                                              !.user = u, !.account = a, !.currency = cur]]
    /\ UNCHANGED <<storeVars, historyVars>>

(* UpdateOne by _id and user_id: ErrNotFound when it is gone *)
UpdateAccount(p) ==
    /\ req[p].pc = "putAccount"
    /\ LET a == req[p].account
       IN  accounts' = IF OwnAccount(a, req[p].user)
                          THEN [accounts EXCEPT ![a].currency = req[p].currency]
                          ELSE accounts
    /\ Return(p)
    /\ UNCHANGED <<categories, txs, outbox, historyVars>>

CreateCategory(u, c) ==
    /\ categories[c] = None
    /\ categories' = [categories EXCEPT ![c] = u]
    /\ UNCHANGED <<accounts, txs, outbox, req, historyVars>>

-----------------------------------------------------------------------------
(* Transactions *)

CategoryChecked(cat) == cat \in Categories
AfterAccount(cat, op) ==
    CASE CategoryChecked(cat) -> "checkCategory"
      [] ~ CategoryChecked(cat) /\ op = "create" -> "insert"
      [] ~ CategoryChecked(cat) /\ op = "update" -> "write"

Create(p, u, a, cat, cur) ==
    /\ req[p] = Idle
    /\ req' = [req EXCEPT ![p] = [Idle EXCEPT !.pc = "checkAccount", !.op = "create",
                  !.user = u, !.account = a, !.category = cat, !.currency = cur]]
    /\ UNCHANGED <<storeVars, historyVars>>

(* GetByIDForUser; an account that is not the one of the document as read  *)
(* is looked up, the same one is not                                       *)
Update(p, u, t, a, cat, cur) ==
    /\ req[p] = Idle
    /\ OwnTx(t, u)
    /\ req' = [req EXCEPT ![p] = [Idle EXCEPT
                  !.pc = IF a # txs[t].account THEN "checkAccount" ELSE AfterAccount(cat, "update"),
                  !.op = "update", !.user = u, !.tx = t,
                  !.account = a, !.category = cat, !.currency = cur]]
    /\ UNCHANGED <<storeVars, historyVars>>

(* An account lookup by id alone. *)
CheckAccountMutant(p) ==
    /\ req[p].pc = "checkAccount"
    /\ IF accounts[req[p].account].state = "live"
          THEN Goto(p, AfterAccount(req[p].category, req[p].op))
          ELSE Return(p)
    /\ UNCHANGED <<storeVars, historyVars>>

(* a validation error unless the user has the account *)
CheckAccount(p) ==
    /\ req[p].pc = "checkAccount"
    /\ IF OwnAccount(req[p].account, req[p].user)
          THEN Goto(p, AfterAccount(req[p].category, req[p].op))
          ELSE Return(p)
    /\ UNCHANGED <<storeVars, historyVars>>

CheckCategory(p) ==
    /\ req[p].pc = "checkCategory"
    /\ IF categories[req[p].category] = req[p].user
          THEN Goto(p, IF req[p].op = "create" THEN "insert" ELSE "write")
          ELSE Return(p)
    /\ UNCHANGED <<storeVars, historyVars>>

(* InsertOne of a transaction of request p under a new id t *)
InsertOne(p, t, amount) ==
    /\ txs[t].state = "free"
    /\ txs' = [txs EXCEPT ![t] =
          [state |-> "live", user |-> req[p].user, account |-> req[p].account,
           category |-> req[p].category, currency |-> req[p].currency, amount |-> amount]]

Insert(p, t) ==
    /\ req[p].pc = "insert"
    /\ InsertOne(p, t, "number")
    /\ req' = [req EXCEPT ![p].pc = "publish", ![p].tx = t]
    /\ UNCHANGED <<accounts, categories, outbox, historyVars>>

(* the insert takes effect and its answer is lost: the request fails *)
InsertUnanswered(p, t) ==
    /\ req[p].pc = "insert"
    /\ InsertOne(p, t, "number")
    /\ Return(p)
    /\ lost' = lost \cup {t}
    /\ UNCHANGED <<accounts, categories, outbox, fileTxs, unsure>>

(* publishCreated is over: Create answers, Import goes on with its rows *)
Published(p) ==
    IF req[p].op = "create"
       THEN Return(p)
       ELSE req' = [req EXCEPT ![p].pc = "rows", ![p].tx = None, ![p].imported = @ + 1]

(* the event is a JSON document, which cannot hold a NaN *)
PublishCreated(p) ==
    /\ req[p].pc = "publish"
    /\ txs[req[p].tx].amount # "NaN"
    /\ outbox' = outbox \cup {req[p].tx}
    /\ Published(p)
    /\ UNCHANGED <<accounts, categories, txs, historyVars>>

(* an error is logged and nothing else *)
PublishCreatedErr(p) ==
    /\ req[p].pc = "publish"
    /\ lost' = lost \cup {req[p].tx}
    /\ Published(p)
    /\ UNCHANGED <<storeVars, fileTxs, unsure>>

(* UpdateOne by _id and user_id; a JSON body never holds a NaN *)
UpdateTx(p) ==
    /\ req[p].pc = "write"
    /\ LET t == req[p].tx
       IN  txs' = IF OwnTx(t, req[p].user)
                     THEN [txs EXCEPT ![t].account = req[p].account,
                                      ![t].category = req[p].category,
                                      ![t].currency = req[p].currency,
                                      ![t].amount = "number"]
                     ELSE txs
    /\ Return(p)
    /\ UNCHANGED <<accounts, categories, outbox, historyVars>>

DeleteTx(u, t) ==
    /\ OwnTx(t, u)
    /\ txs' = [txs EXCEPT ![t].state = "deleted"]
    /\ UNCHANGED <<accounts, categories, outbox, req, historyVars>>

-----------------------------------------------------------------------------
(* CSV import *)

Import(p, u, a, n) ==
    /\ req[p] = Idle
    /\ req' = [req EXCEPT ![p] = [Idle EXCEPT !.pc = "importAccount", !.op = "import",
                                     !.user = u, !.account = a, !.rows = n]]
    /\ UNCHANGED <<storeVars, historyVars>>

(* The rows do not inherit the currency of the account. *)
ImportAccountMutant(p) ==
    /\ req[p].pc = "importAccount"
    /\ IF OwnAccount(req[p].account, req[p].user) THEN Goto(p, "rows") ELSE Return(p)
    /\ UNCHANGED <<storeVars, historyVars>>

(* the account is looked up once, and its currency kept for every row *)
ImportAccount(p) ==
    /\ req[p].pc = "importAccount"
    /\ IF OwnAccount(req[p].account, req[p].user)
          THEN req' = [req EXCEPT ![p].pc = "rows",
                                  ![p].currency = accounts[req[p].account].currency]
          ELSE Return(p)
    /\ UNCHANGED <<storeVars, historyVars>>

(* The list of errors is capped one too late. *)
SkipMutant(p) == req' = [req EXCEPT ![p].rows = @ - 1, ![p].skipped = @ + 1,
                                    ![p].errors = IF @ <= MaxImportErrors THEN @ + 1 ELSE @]

(* a row that is not imported; the list of errors is capped *)
Skip(p) == req' = [req EXCEPT ![p].rows = @ - 1, ![p].skipped = @ + 1,
                              ![p].errors = IF @ < MaxImportErrors THEN @ + 1 ELSE @]

(* the row is refused, or its insert fails: any row can be one of these *)
ImportSkip(p) ==
    /\ req[p].pc = "rows" /\ req[p].rows > 0
    /\ Skip(p)
    /\ UNCHANGED <<storeVars, historyVars>>

AmountOf(row) == IF I!buildImportedTransaction(row).val = I!NaN THEN "NaN" ELSE "number"

(* The account is read again for every row. *)
ImportRowRereadMutant(p, t, row) ==
    /\ req[p].pc = "rows" /\ req[p].rows > 0
    /\ I!buildImportedTransaction(row).ok
    /\ txs[t].state = "free"
    /\ txs' = [txs EXCEPT ![t] =
          [state |-> "live", user |-> req[p].user, account |-> req[p].account,
           category |-> None, currency |-> accounts[req[p].account].currency,
           amount |-> AmountOf(row)]]
    /\ req' = [req EXCEPT ![p].pc = "publish", ![p].tx = t, ![p].rows = @ - 1]
    /\ fileTxs' = [fileTxs EXCEPT ![p] = @ \cup {<<t, txs'[t].currency>>}]
    /\ UNCHANGED <<accounts, categories, outbox, lost, unsure>>

(* The event is published by Create only. *)
ImportRowMutant(p, t, row) ==
    /\ req[p].pc = "rows" /\ req[p].rows > 0
    /\ I!buildImportedTransaction(row).ok
    /\ InsertOne(p, t, AmountOf(row))
    /\ req' = [req EXCEPT ![p].rows = @ - 1, ![p].imported = @ + 1]
    /\ fileTxs' = [fileTxs EXCEPT ![p] = @ \cup {<<t, txs'[t].currency>>}]
    /\ UNCHANGED <<accounts, categories, outbox, lost, unsure>>

ImportRow(p, t, row) ==
    /\ req[p].pc = "rows" /\ req[p].rows > 0
    /\ I!buildImportedTransaction(row).ok
    /\ InsertOne(p, t, AmountOf(row))
    /\ req' = [req EXCEPT ![p].pc = "publish", ![p].tx = t, ![p].rows = @ - 1]
    /\ fileTxs' = [fileTxs EXCEPT ![p] = @ \cup {<<t, txs'[t].currency>>}]
    /\ UNCHANGED <<accounts, categories, outbox, lost, unsure>>

(* the insert takes effect and reports an error: the row counts as skipped *)
ImportRowUnanswered(p, t, row) ==
    /\ req[p].pc = "rows" /\ req[p].rows > 0
    /\ I!buildImportedTransaction(row).ok
    /\ InsertOne(p, t, AmountOf(row))
    /\ Skip(p)
    /\ fileTxs' = [fileTxs EXCEPT ![p] = @ \cup {<<t, txs'[t].currency>>}]
    /\ unsure' = [unsure EXCEPT ![p] = @ + 1]
    /\ lost' = lost \cup {t}
    /\ UNCHANGED <<accounts, categories, outbox>>

ForgetFile(p) ==
    /\ fileTxs' = [fileTxs EXCEPT ![p] = {}]
    /\ unsure' = [unsure EXCEPT ![p] = 0]

ImportDone(p) ==
    /\ req[p].pc = "rows" /\ req[p].rows = 0
    /\ Return(p)
    /\ ForgetFile(p)
    /\ UNCHANGED <<storeVars, lost>>

-----------------------------------------------------------------------------

(* a call fails without effect and the request ends, or the process stops *)
Fail(p) ==
    /\ req[p].pc # "idle"
    /\ lost' = IF req[p].pc = "publish" THEN lost \cup {req[p].tx} ELSE lost
    /\ Return(p)
    /\ ForgetFile(p)
    /\ UNCHANGED storeVars

(* the ids, currencies and files that requests are made of *)
Everything == [users |-> Users, accounts |-> Accounts, categories |-> Categories \cup {BlankId, None},
               txs |-> Txs, currencies |-> Currencies, rows |-> MaxRows]

AccountRequests(e) ==
    \E u \in e.users, a \in e.accounts :
       \/ \E cur \in e.currencies : CreateAccount(u, a, cur)
       \/ DeleteAccount(u, a)
       \/ \E p \in Procs, cur \in e.currencies : UpdateAccountGet(p, u, a, cur)

TransactionRequests(e) ==
    \E p \in Procs, u \in e.users, a \in e.accounts :
       \/ \E cat \in e.categories, cur \in e.currencies :
             \/ Create(p, u, a, cat, cur)
             \/ \E t \in e.txs : Update(p, u, t, a, cat, cur)
       \/ \E n \in 0..e.rows : Import(p, u, a, n)

RequestSteps(p, e) ==
    \/ UpdateAccount(p)
    \/ CheckAccount(p)
    \/ CheckCategory(p)
    \/ \E t \in e.txs : Insert(p, t) \/ InsertUnanswered(p, t)
    \/ PublishCreated(p)
    \/ PublishCreatedErr(p)
    \/ UpdateTx(p)
    \/ ImportAccount(p)
    \/ ImportSkip(p)
    \/ \E t \in e.txs, row \in Rows : ImportRow(p, t, row) \/ ImportRowUnanswered(p, t, row)
    \/ ImportDone(p)
    \/ Fail(p)

NextWith(e) ==
    \/ AccountRequests(e)
    \/ \E u \in e.users, c \in e.categories \cap Categories : CreateCategory(u, c)
    \/ TransactionRequests(e)
    \/ \E u \in e.users, t \in e.txs : DeleteTx(u, t)
    \/ \E p \in Procs : RequestSteps(p, e)

Next == NextWith(Everything)

Spec == Init /\ [][Next]_vars

-----------------------------------------------------------------------------
(* Properties *)

(* Every transaction belongs to an account and a category of its own user, *)
(* or to an account the user has deleted since: Update trusts the          *)
(* account_id it has read, which another request may have changed, and     *)
(* Import and Create insert long after they have looked up the account.    *)
OwnReferences ==
    \A t \in Txs : txs[t].state = "live" =>
        /\ accounts[txs[t].account].user = txs[t].user
        /\ txs[t].category \in Categories => categories[txs[t].category] = txs[t].user

(* Every transaction, created or imported, has its event in the outbox, or *)
(* is about to, or lost it to a failing call; and an event is never about  *)
(* a transaction that was not stored.                                      *)
EveryTransactionAnnounced ==
    /\ \A t \in Txs : txs[t].state # "free" =>
          \/ t \in outbox \cup lost
          \/ \E p \in Procs : req[p].pc = "publish" /\ req[p].tx = t
    /\ \A t \in outbox : txs[t].state # "free"

(* What Import answers adds up: every transaction it has inserted is       *)
(* counted as imported, except the one in hand and those whose insert      *)
(* reported an error; and the list of errors is cut off, the count is not. *)
ImportAccounting ==
    \A p \in Procs : req[p].pc = "rows" =>
        /\ Cardinality(fileTxs[p]) = req[p].imported + unsure[p]
        /\ req[p].errors = IF req[p].skipped < MaxImportErrors
                              THEN req[p].skipped ELSE MaxImportErrors

(* All rows of a file are stored in one currency, although a PUT may change *)
(* the currency of the account between two of them.                         *)
ImportHasOneCurrency ==
    \A p \in Procs : \A x, y \in fileTxs[p] : x[2] = y[2]

=============================================================================
