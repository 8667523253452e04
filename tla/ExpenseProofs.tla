--------------------------- MODULE ExpenseProofs ---------------------------
(***************************************************************************)
(* Theorems about ExpenseStore, for any number of requests, users,         *)
(* accounts, categories, transactions and rows; and about the amount rules *)
(* of ImportRow, for any numbers.                                          *)
(***************************************************************************)
EXTENDS MCExpenseStore, FiniteSetTheorems, TLAPS

USE StoreAssumption DEF StoreAssumption

(* What a request holds at the call it makes next. *)
LocalsInv ==
    \A p \in Procs : LET r == req[p] IN
        /\ r.pc = "idle" => r = Idle
        /\ r.pc = "putAccount" => r.op = "put"
        /\ r.pc \in {"checkAccount", "checkCategory"} => r.op \in {"create", "update"}
        /\ r.pc = "checkCategory" => r.category \in Categories
        /\ r.pc = "insert" => r.op = "create"
        /\ r.pc = "write" => r.op = "update"
        /\ r.pc = "publish" => r.op \in {"create", "import"} /\ r.tx \in Txs /\ txs[r.tx].state # "free"
        /\ r.pc \in {"importAccount", "rows"} => r.op = "import"
        /\ r.pc # "idle" => r.user \in Users /\ r.account \in Accounts
        /\ r.op \in {"put", "create", "update"} => r.currency \in Currencies
        /\ r.op = "update" => r.tx \in Txs

(* account a is, or was until it was deleted, one of user u *)
Belongs(a, u) == a \in Accounts /\ accounts[a].state # "free" /\ accounts[a].user = u

(* a request past the check of its account *)
Vetted(r) == \/ r.pc \in {"putAccount", "checkCategory", "insert", "write", "rows"}
             \/ r.pc = "publish" /\ r.op = "import"

(* Once a request has checked its account and category they are, and stay,  *)
(* of its user: an id is never handed to another user.                      *)
ReferencesInv ==
    /\ \A a \in Accounts : accounts[a].state # "free" =>
          accounts[a].user \in Users /\ accounts[a].currency \in Currencies
    /\ \A t \in Txs : txs[t].state = "live" =>
          txs[t].user \in Users /\ Belongs(txs[t].account, txs[t].user)
    /\ \A p \in Procs : LET r == req[p] IN
          /\ Vetted(r) => Belongs(r.account, r.user)
          /\ r.pc \in {"insert", "write"} /\ r.category \in Categories
                => categories[r.category] = r.user
          /\ r.op = "import" => r.category = None

InFile(r) == r.op = "import" /\ r.pc \in {"rows", "publish"}

(* The counts of a file, of request r with the transactions f in it and n    *)
(* unsure: rows read are imported, skipped or in hand, and what has been     *)
(* inserted was new each time.                                               *)
FileOf(r, f, n) ==
    /\ IF InFile(r)
          THEN /\ r.currency \in Currencies
               /\ IsFiniteSet(f)
               /\ Cardinality(f) = r.imported + n + (IF r.pc = "publish" THEN 1 ELSE 0)
          ELSE f = {} /\ n = 0 /\ r.imported = 0 /\ r.skipped = 0
    /\ r.imported + r.skipped + r.rows + (IF InFile(r) /\ r.pc = "publish" THEN 1 ELSE 0) <= MaxRows
    /\ n <= r.skipped
    /\ r.errors = IF r.skipped < MaxImportErrors THEN r.skipped ELSE MaxImportErrors
    /\ \A x \in f : x[2] = r.currency

FileInv ==
    \A p \in Procs : /\ FileOf(req[p], fileTxs[p], unsure[p])
                     /\ \A x \in fileTxs[p] : txs[x[1]].state # "free"

StoreInv ==
    /\ TypeOK /\ LocalsInv
    /\ ReferencesInv /\ OwnReferences
    /\ EveryTransactionAnnounced
    /\ FileInv

-----------------------------------------------------------------------------
(* What the actions do to requests and transactions *)

Ops == {"none", "put", "create", "update", "import"}

(* only request p moves *)
Moves(p) == req' \in [Procs -> Requests] /\ \A q \in Procs \ {p} : req'[q] = req[q]

(* r is a request of user u for account a and category cat ... *)
Asks(r, op, u, a, cat) ==
    r.op = op /\ r.user = u /\ r.account = a /\ r.category = cat

(* ... as r is *)
SameAsked(r, s) == Asks(s, r.op, r.user, r.account, r.category)

Counts(r, rows, imported, skipped, errors) ==
    r.rows = rows /\ r.imported = imported /\ r.skipped = skipped /\ r.errors = errors

SameCounts(r, s) == Counts(s, r.rows, r.imported, r.skipped, r.errors)

(* A request at rest holds nothing. *)
LEMMA IdleFacts ==
    /\ Idle \in Requests
    /\ Idle.pc = "idle" /\ Asks(Idle, "none", None, None, None)
    /\ Idle.currency = None /\ Idle.tx = None /\ Counts(Idle, 0, 0, 0, 0)
<1>1. Idle \in Requests
  BY DEF Idle, Requests, Steps
<1> QED
  BY <1>1 DEF Idle, Asks, Counts

(* what a request becomes is a request: at another step, *)
LEMMA WithStep == ASSUME NEW r \in Requests, NEW s \in Steps
                  PROVE  [r EXCEPT !.pc = s] \in Requests
  BY DEF Requests

(* with a transaction in hand and a row less, *)
LEMMA WithTx == ASSUME NEW r \in Requests, NEW s \in Steps, NEW t \in Txs, NEW n \in 0..MaxRows
                PROVE  [r EXCEPT !.pc = s, !.tx = t, !.rows = n] \in Requests
  BY DEF Requests

(* after a row was imported, *)
LEMMA WithImported == ASSUME NEW r \in Requests, NEW s \in Steps, NEW i \in 0..MaxRows
                      PROVE  [r EXCEPT !.pc = s, !.tx = None, !.imported = i] \in Requests
  BY DEF Requests

(* with the currency of its account, *)
LEMMA WithCurrency == ASSUME NEW r \in Requests, NEW s \in Steps, NEW cur \in Currencies
                      PROVE  [r EXCEPT !.pc = s, !.currency = cur] \in Requests
  BY DEF Requests

(* after a row was skipped *)
LEMMA WithSkipped == ASSUME NEW r \in Requests, NEW n \in 0..MaxRows, NEW k \in 0..MaxRows,
                            NEW e \in 0..MaxRows
                     PROVE  [r EXCEPT !.rows = n, !.skipped = k, !.errors = e] \in Requests
  BY DEF Requests

(* what a document becomes is a document *)
LEMMA TxUpdates ==
    ASSUME NEW d \in TxDocs, NEW a \in Accounts \cup {None},
           NEW cat \in Categories \cup {BlankId, None}, NEW cur \in Currencies \cup {None},
           NEW m \in {"number", "NaN"}
    PROVE  [d EXCEPT !.account = a, !.category = cat, !.currency = cur, !.amount = m] \in TxDocs
  BY DEF TxDocs

(* what a request holds is of its type *)
LEMMA RequestFacts ==
    ASSUME TypeOK, NEW p \in Procs
    PROVE  /\ req[p].pc \in Steps /\ req[p].op \in Ops
           /\ req[p].user \in Users \cup {None} /\ req[p].account \in Accounts \cup {None}
           /\ req[p].category \in Categories \cup {BlankId, None}
           /\ req[p].currency \in Currencies \cup {None} /\ req[p].tx \in Txs \cup {None}
           /\ req[p].rows \in 0..MaxRows /\ req[p].imported \in 0..MaxRows
           /\ req[p].skipped \in 0..MaxRows /\ req[p].errors \in 0..MaxRows
  BY DEF TypeOK, Requests, Ops

(* req[p] becomes r *)
LEMMA SetRequest ==
    ASSUME TypeOK, NEW p \in Procs, NEW r \in Requests, req' = [req EXCEPT ![p] = r]
    PROVE  Moves(p) /\ req'[p] = r
  BY DEF TypeOK, Moves

(* Return *)
LEMMA ReturnEffect ==
    ASSUME TypeOK, NEW p \in Procs, Return(p)
    PROVE  Moves(p) /\ req'[p] = Idle
  BY IdleFacts, SetRequest DEF Return

(* Goto *)
LEMMA GotoEffect ==
    ASSUME TypeOK, NEW p \in Procs, NEW s \in Steps, Goto(p, s)
    PROVE  /\ Moves(p)
           /\ req'[p].pc = s /\ req'[p].tx = req[p].tx /\ req'[p].currency = req[p].currency
           /\ SameAsked(req[p], req'[p]) /\ SameCounts(req[p], req'[p])
<1> DEFINE r == [req[p] EXCEPT !.pc = s]
<1>1. r \in Requests
  BY WithStep DEF TypeOK
<1>2. req' = [req EXCEPT ![p] = r]
  BY DEF Goto, TypeOK, Requests
<1>3. /\ r.pc = s /\ r.tx = req[p].tx /\ r.currency = req[p].currency
      /\ SameAsked(req[p], r) /\ SameCounts(req[p], r)
  BY DEF TypeOK, Requests, SameAsked, Asks, SameCounts, Counts
<1> HIDE DEF r
<1> QED
  BY <1>1, <1>2, <1>3, SetRequest

(* the first call of a PUT of an account *)
LEMMA PutBegins ==
    ASSUME TypeOK, NEW p \in Procs, NEW u \in Users, NEW a \in Accounts, NEW cur \in Currencies,
           UpdateAccountGet(p, u, a, cur)
    PROVE  /\ Moves(p)
           /\ req'[p].pc = "putAccount" /\ Asks(req'[p], "put", u, a, None)
           /\ req'[p].currency = cur /\ req'[p].tx = None /\ Counts(req'[p], 0, 0, 0, 0)
           /\ req[p] = Idle /\ UNCHANGED <<storeVars, historyVars>>
           /\ OwnAccount(a, u)
<1> DEFINE r == [Idle EXCEPT !.pc = "putAccount", !.op = "put",
                             !.user = u, !.account = a, !.currency = cur]
<1>1. /\ "putAccount" \in Steps
      /\ req' = [req EXCEPT ![p] = r]
  BY DEF Steps, UpdateAccountGet
<1>2. r \in Requests
  BY <1>1, IdleFacts DEF Requests
<1>3. /\ r.pc = "putAccount" /\ Asks(r, "put", u, a, None)
      /\ r.currency = cur /\ r.tx = None /\ Counts(r, 0, 0, 0, 0)
  BY DEF Idle, Asks, Counts
<1> HIDE DEF r
<1> QED
  BY <1>1, <1>2, <1>3, SetRequest DEF UpdateAccountGet

(* the first call of Create *)
LEMMA CreateBegins ==
    ASSUME TypeOK, NEW p \in Procs, NEW u \in Users, NEW a \in Accounts,
           NEW cat \in Categories \cup {BlankId, None}, NEW cur \in Currencies,
           Create(p, u, a, cat, cur)
    PROVE  /\ Moves(p)
           /\ req'[p].pc = "checkAccount" /\ Asks(req'[p], "create", u, a, cat)
           /\ req'[p].currency = cur /\ req'[p].tx = None /\ Counts(req'[p], 0, 0, 0, 0)
           /\ req[p] = Idle /\ UNCHANGED <<storeVars, historyVars>>
<1> DEFINE r == [Idle EXCEPT !.pc = "checkAccount", !.op = "create",
                    !.user = u, !.account = a, !.category = cat, !.currency = cur]
<1>1. /\ "checkAccount" \in Steps
      /\ req' = [req EXCEPT ![p] = r]
  BY DEF Steps, Create
<1>2. r \in Requests
  BY <1>1, IdleFacts DEF Requests
<1>3. /\ r.pc = "checkAccount" /\ Asks(r, "create", u, a, cat)
      /\ r.currency = cur /\ r.tx = None /\ Counts(r, 0, 0, 0, 0)
  BY DEF Idle, Asks, Counts
<1> HIDE DEF r
<1> QED
  BY <1>1, <1>2, <1>3, SetRequest DEF Create

(* the step after the account check *)
LEMMA AfterAccountStep ==
    ASSUME NEW cat, NEW op \in {"create", "update"}
    PROVE  /\ cat \in Categories => AfterAccount(cat, op) = "checkCategory"
           /\ cat \notin Categories =>
                 AfterAccount(cat, op) = IF op = "create" THEN "insert" ELSE "write"
           /\ AfterAccount(cat, op) \in Steps
<1>1. CASE cat \in Categories
  BY <1>1 DEF AfterAccount, CategoryChecked, Steps
<1>2. CASE cat \notin Categories /\ op = "create"
  BY <1>2 DEF AfterAccount, CategoryChecked, Steps
<1>3. CASE cat \notin Categories /\ op = "update"
  BY <1>3 DEF AfterAccount, CategoryChecked, Steps
<1> QED
  BY <1>1, <1>2, <1>3

(* the first call of Update *)
LEMMA UpdateBegins ==
    ASSUME TypeOK, NEW p \in Procs, NEW u \in Users, NEW a \in Accounts, NEW t \in Txs,
           NEW cat \in Categories \cup {BlankId, None}, NEW cur \in Currencies,
           Update(p, u, t, a, cat, cur)
    PROVE  /\ Moves(p)
           /\ req'[p].pc = IF a # txs[t].account THEN "checkAccount" ELSE AfterAccount(cat, "update")
           /\ Asks(req'[p], "update", u, a, cat)
           /\ req'[p].currency = cur /\ req'[p].tx = t /\ Counts(req'[p], 0, 0, 0, 0)
           /\ req[p] = Idle /\ UNCHANGED <<storeVars, historyVars>> /\ OwnTx(t, u)
<1> DEFINE s == IF a # txs[t].account THEN "checkAccount" ELSE AfterAccount(cat, "update")
           r == [Idle EXCEPT !.pc = s, !.op = "update", !.user = u, !.tx = t,
                             !.account = a, !.category = cat, !.currency = cur]
<1>1. req' = [req EXCEPT ![p] = r]
  BY DEF Update
<1>2. s \in Steps
  BY AfterAccountStep DEF Steps
<1> HIDE DEF s
<1>3. r \in Requests
  BY <1>2, IdleFacts DEF Requests
<1>4. /\ r.pc = s /\ Asks(r, "update", u, a, cat)
      /\ r.currency = cur /\ r.tx = t /\ Counts(r, 0, 0, 0, 0)
  BY DEF Idle, Asks, Counts
<1> HIDE DEF r
<1>5. /\ Moves(p)
      /\ req'[p].pc = s /\ Asks(req'[p], "update", u, a, cat)
      /\ req'[p].currency = cur /\ req'[p].tx = t /\ Counts(req'[p], 0, 0, 0, 0)
  BY <1>1, <1>3, <1>4, SetRequest
<1> QED
  BY <1>5 DEF s, Update

(* the first call of Import *)
LEMMA ImportBegins ==
    ASSUME TypeOK, NEW p \in Procs, NEW u \in Users, NEW a \in Accounts, NEW n \in 0..MaxRows,
           Import(p, u, a, n)
    PROVE  /\ Moves(p)
           /\ req'[p].pc = "importAccount" /\ Asks(req'[p], "import", u, a, None)
           /\ req'[p].currency = None /\ req'[p].tx = None /\ Counts(req'[p], n, 0, 0, 0)
           /\ req[p] = Idle /\ UNCHANGED <<storeVars, historyVars>>
<1> DEFINE r == [Idle EXCEPT !.pc = "importAccount", !.op = "import",
                             !.user = u, !.account = a, !.rows = n]
<1>1. /\ "importAccount" \in Steps
      /\ req' = [req EXCEPT ![p] = r]
  BY DEF Steps, Import
<1>2. r \in Requests
  BY <1>1, IdleFacts DEF Requests
<1>3. /\ r.pc = "importAccount" /\ Asks(r, "import", u, a, None)
      /\ r.currency = None /\ r.tx = None /\ Counts(r, n, 0, 0, 0)
  BY DEF Idle, Asks, Counts
<1> HIDE DEF r
<1> QED
  BY <1>1, <1>2, <1>3, SetRequest DEF Import

(* a transaction has been stored: on to its event *)
LEMMA InsertedEffect ==
    ASSUME TypeOK, NEW p \in Procs, NEW t \in Txs, NEW n \in 0..MaxRows,
           \/ req' = [req EXCEPT ![p].pc = "publish", ![p].tx = t] /\ n = req[p].rows
           \/ req' = [req EXCEPT ![p].pc = "publish", ![p].tx = t, ![p].rows = @ - 1]
              /\ n = req[p].rows - 1
    PROVE  /\ Moves(p)
           /\ req'[p].pc = "publish" /\ req'[p].tx = t /\ req'[p].currency = req[p].currency
           /\ SameAsked(req[p], req'[p])
           /\ Counts(req'[p], n, req[p].imported, req[p].skipped, req[p].errors)
<1> DEFINE r == [req[p] EXCEPT !.pc = "publish", !.tx = t, !.rows = n]
<1>1. "publish" \in Steps
  BY DEF Steps
<1>2. r \in Requests
  BY <1>1, WithTx DEF TypeOK
<1>3. req' = [req EXCEPT ![p] = r]
  <2>1. CASE req' = [req EXCEPT ![p].pc = "publish", ![p].tx = t] /\ n = req[p].rows
    BY <2>1, ZenonT(60) DEF TypeOK, Requests
  <2>2. CASE /\ req' = [req EXCEPT ![p].pc = "publish", ![p].tx = t, ![p].rows = @ - 1]
             /\ n = req[p].rows - 1
    BY <2>2 DEF TypeOK, Requests
  <2> QED
    BY <2>1, <2>2
<1>4. /\ r.pc = "publish" /\ r.tx = t /\ r.currency = req[p].currency
      /\ SameAsked(req[p], r)
      /\ Counts(r, n, req[p].imported, req[p].skipped, req[p].errors)
  BY DEF TypeOK, Requests, SameAsked, Asks, Counts
<1> HIDE DEF r
<1> QED
  BY <1>2, <1>3, <1>4, SetRequest

(* publishCreated is over, in Import *)
LEMMA PublishedEffect ==
    ASSUME TypeOK, NEW p \in Procs, Published(p), req[p].op # "create",
           req[p].imported + 1 <= MaxRows
    PROVE  /\ Moves(p)
           /\ req'[p].pc = "rows" /\ req'[p].tx = None /\ req'[p].currency = req[p].currency
           /\ SameAsked(req[p], req'[p])
           /\ Counts(req'[p], req[p].rows, req[p].imported + 1, req[p].skipped, req[p].errors)
<1> DEFINE i == req[p].imported + 1
           r == [req[p] EXCEPT !.pc = "rows", !.tx = None, !.imported = i]
<1>1. "rows" \in Steps
  BY DEF Steps
<1>2. i \in 0..MaxRows
  BY RequestFacts
<1>3. req' = [req EXCEPT ![p] = r]
  BY DEF Published, TypeOK, Requests
<1> HIDE DEF i
<1>4. r \in Requests
  BY <1>1, <1>2, WithImported DEF TypeOK
<1>5. /\ r.pc = "rows" /\ r.tx = None /\ r.currency = req[p].currency
      /\ SameAsked(req[p], r)
      /\ Counts(r, req[p].rows, i, req[p].skipped, req[p].errors)
  BY DEF TypeOK, Requests, SameAsked, Asks, Counts
<1> HIDE DEF r
<1>6. /\ Moves(p)
      /\ req'[p].pc = "rows" /\ req'[p].tx = None /\ req'[p].currency = req[p].currency
      /\ SameAsked(req[p], req'[p])
      /\ Counts(req'[p], req[p].rows, i, req[p].skipped, req[p].errors)
  BY <1>3, <1>4, <1>5, SetRequest
<1> QED
  BY <1>6 DEF i

(* Import has found its account *)
LEMMA FileBegins ==
    ASSUME TypeOK, NEW p \in Procs, NEW cur \in Currencies,
           req' = [req EXCEPT ![p].pc = "rows", ![p].currency = cur]
    PROVE  /\ Moves(p)
           /\ req'[p].pc = "rows" /\ req'[p].tx = req[p].tx /\ req'[p].currency = cur
           /\ SameAsked(req[p], req'[p]) /\ SameCounts(req[p], req'[p])
<1> DEFINE r == [req[p] EXCEPT !.pc = "rows", !.currency = cur]
<1>1. "rows" \in Steps
  BY DEF Steps
<1>2. r \in Requests
  BY <1>1, WithCurrency DEF TypeOK
<1>3. req' = [req EXCEPT ![p] = r]
  BY DEF TypeOK, Requests
<1>4. /\ r.pc = "rows" /\ r.tx = req[p].tx /\ r.currency = cur
      /\ SameAsked(req[p], r) /\ SameCounts(req[p], r)
  BY DEF TypeOK, Requests, SameAsked, Asks, SameCounts, Counts
<1> HIDE DEF r
<1> QED
  BY <1>2, <1>3, <1>4, SetRequest

(* Skip *)
LEMMA SkipEffect ==
    ASSUME TypeOK, NEW p \in Procs, Skip(p), req[p].rows > 0, req[p].skipped + 1 <= MaxRows,
           req[p].errors <= req[p].skipped
    PROVE  /\ Moves(p)
           /\ req'[p].pc = req[p].pc /\ req'[p].tx = req[p].tx
           /\ req'[p].currency = req[p].currency /\ SameAsked(req[p], req'[p])
           /\ Counts(req'[p], req[p].rows - 1, req[p].imported, req[p].skipped + 1,
                     IF req[p].errors < MaxImportErrors THEN req[p].errors + 1 ELSE req[p].errors)
<1> DEFINE n == req[p].rows - 1
           k == req[p].skipped + 1
           e == IF req[p].errors < MaxImportErrors THEN req[p].errors + 1 ELSE req[p].errors
           r == [req[p] EXCEPT !.rows = n, !.skipped = k, !.errors = e]
<1>1. n \in 0..MaxRows /\ k \in 0..MaxRows /\ e \in 0..MaxRows
  BY RequestFacts
<1>2. req' = [req EXCEPT ![p] = r]
  BY DEF Skip, TypeOK, Requests
<1> HIDE DEF n, k, e
<1>3. r \in Requests
  BY <1>1, WithSkipped DEF TypeOK
<1>4. /\ r.pc = req[p].pc /\ r.tx = req[p].tx /\ r.currency = req[p].currency
      /\ SameAsked(req[p], r) /\ Counts(r, n, req[p].imported, k, e)
  BY DEF TypeOK, Requests, SameAsked, Asks, Counts
<1> HIDE DEF r
<1>5. /\ Moves(p)
      /\ req'[p].pc = req[p].pc /\ req'[p].tx = req[p].tx
      /\ req'[p].currency = req[p].currency /\ SameAsked(req[p], req'[p])
      /\ Counts(req'[p], n, req[p].imported, k, e)
  BY <1>2, <1>3, <1>4, SetRequest
<1> QED
  BY <1>5 DEF n, k, e

(* request p has inserted its transaction under the new id t *)
Stored(p, t) ==
    /\ txs' \in [Txs -> TxDocs] /\ txs[t].state = "free"
    /\ txs'[t].state = "live" /\ txs'[t].user = req[p].user
    /\ txs'[t].account = req[p].account /\ txs'[t].category = req[p].category
    /\ txs'[t].currency = req[p].currency
    /\ \A s \in Txs \ {t} : txs'[s] = txs[s]

(* InsertOne *)
LEMMA InsertEffect ==
    ASSUME TypeOK, NEW p \in Procs, NEW t \in Txs, NEW m \in {"number", "NaN"},
           InsertOne(p, t, m)
    PROVE  Stored(p, t)
<1> DEFINE d == [state |-> "live", user |-> req[p].user, account |-> req[p].account,
                 category |-> req[p].category, currency |-> req[p].currency, amount |-> m]
<1>1. txs' = [txs EXCEPT ![t] = d] /\ txs[t].state = "free"
  BY DEF InsertOne
<1>2. d \in TxDocs
  BY RequestFacts DEF TxDocs, DocStates
<1>3. /\ d.state = "live" /\ d.user = req[p].user /\ d.account = req[p].account
      /\ d.category = req[p].category /\ d.currency = req[p].currency
  OBVIOUS
<1> HIDE DEF d
<1> QED
  BY <1>1, <1>2, <1>3 DEF TypeOK, Stored

(* UpdateOne of a transaction *)
LEMMA UpdateEffect ==
    ASSUME TypeOK, NEW p \in Procs, NEW t \in Txs, req[p].tx = t, UpdateTx(p)
    PROVE  /\ txs' \in [Txs -> TxDocs]
           /\ \A s \in Txs : txs'[s].state = txs[s].state /\ txs'[s].user = txs[s].user
           /\ \A s \in Txs \ {t} : txs'[s] = txs[s]
           /\ txs' = txs \/ /\ OwnTx(t, req[p].user)
                            /\ txs'[t].account = req[p].account
                            /\ txs'[t].category = req[p].category
           /\ Moves(p) /\ req'[p] = Idle
           /\ req[p].pc = "write" /\ UNCHANGED <<accounts, categories, outbox, historyVars>>
<1>0. /\ Moves(p) /\ req'[p] = Idle
      /\ req[p].pc = "write" /\ UNCHANGED <<accounts, categories, outbox, historyVars>>
  BY ReturnEffect DEF UpdateTx
<1>1. CASE ~OwnTx(t, req[p].user)
  BY <1>0, <1>1 DEF UpdateTx, TypeOK
<1>2. CASE OwnTx(t, req[p].user)
  <2> DEFINE d == [txs[t] EXCEPT !.account = req[p].account, !.category = req[p].category,
                                 !.currency = req[p].currency, !.amount = "number"]
  <2>1. txs' = [txs EXCEPT ![t] = d]
    BY <1>2 DEF UpdateTx, TypeOK, TxDocs
  <2>2. d \in TxDocs
    BY RequestFacts, TxUpdates DEF TypeOK
  <2>3. /\ d.state = txs[t].state /\ d.user = txs[t].user
        /\ d.account = req[p].account /\ d.category = req[p].category
    BY DEF TypeOK, TxDocs
  <2> HIDE DEF d
  <2> QED
    BY <1>0, <1>2, <2>1, <2>2, <2>3 DEF TypeOK
<1> QED
  BY <1>1, <1>2

(* a transaction is deleted *)
LEMMA DeleteEffect ==
    ASSUME TypeOK, NEW u \in Users, NEW t \in Txs, DeleteTx(u, t)
    PROVE  /\ txs' \in [Txs -> TxDocs]
           /\ txs[t].state = "live" /\ txs'[t].state = "deleted"
           /\ \A s \in Txs \ {t} : txs'[s] = txs[s]
           /\ UNCHANGED <<accounts, categories, outbox, req, historyVars>>
<1> DEFINE d == [txs[t] EXCEPT !.state = "deleted"]
<1>1. txs' = [txs EXCEPT ![t] = d] /\ txs[t].state = "live"
  BY DEF DeleteTx, OwnTx
<1>2. d \in TxDocs /\ d.state = "deleted"
  BY DEF TypeOK, TxDocs, DocStates
<1> HIDE DEF d
<1> QED
  BY <1>1, <1>2 DEF TypeOK, DeleteTx

(* an account is created *)
LEMMA AccountCreated ==
    ASSUME TypeOK, NEW u \in Users, NEW a \in Accounts, NEW cur \in Currencies,
           CreateAccount(u, a, cur)
    PROVE  /\ accounts' \in [Accounts -> AccountDocs]
           /\ accounts[a].state = "free" /\ accounts'[a].state = "live"
           /\ accounts'[a].user = u /\ accounts'[a].currency = cur
           /\ \A b \in Accounts \ {a} : accounts'[b] = accounts[b]
<1> DEFINE d == [state |-> "live", user |-> u, currency |-> cur]
<1>1. accounts' = [accounts EXCEPT ![a] = d] /\ accounts[a].state = "free"
  BY DEF CreateAccount
<1>2. d \in AccountDocs /\ d.state = "live" /\ d.user = u /\ d.currency = cur
  BY DEF AccountDocs, DocStates
<1> HIDE DEF d
<1> QED
  BY <1>1, <1>2 DEF TypeOK

(* an account keeps its user, and its id, for ever *)
SameOwners ==
    /\ accounts' \in [Accounts -> AccountDocs]
    /\ \A b \in Accounts : /\ accounts'[b].user = accounts[b].user
                           /\ accounts'[b].state = "free" <=> accounts[b].state = "free"
                           /\ accounts'[b].currency \in Currencies \cup {accounts[b].currency}

(* an account is deleted *)
LEMMA AccountDeleted ==
    ASSUME TypeOK, NEW u \in Users, NEW a \in Accounts, DeleteAccount(u, a)
    PROVE  SameOwners /\ UNCHANGED <<categories, txs, outbox, req, historyVars>>
<1> DEFINE d == [accounts[a] EXCEPT !.state = "deleted"]
<1>1. accounts' = [accounts EXCEPT ![a] = d] /\ accounts[a].state = "live"
  BY DEF DeleteAccount, OwnAccount
<1>2. /\ d \in AccountDocs
      /\ d.state = "deleted" /\ d.user = accounts[a].user /\ d.currency = accounts[a].currency
  BY DEF TypeOK, AccountDocs, DocStates
<1> HIDE DEF d
<1> QED
  BY <1>1, <1>2 DEF TypeOK, SameOwners, DeleteAccount

(* a PUT changes the currency *)
LEMMA AccountUpdated ==
    ASSUME TypeOK, LocalsInv, NEW p \in Procs, UpdateAccount(p)
    PROVE  SameOwners
<1> DEFINE a == req[p].account
           cur == req[p].currency
           d == [accounts[a] EXCEPT !.currency = cur]
<1>1. a \in Accounts /\ cur \in Currencies
  BY DEF UpdateAccount, LocalsInv
<1>2. accounts' = [accounts EXCEPT ![a] = d] \/ accounts' = accounts
  BY <1>1 DEF UpdateAccount, TypeOK, AccountDocs
<1> HIDE DEF a, cur
<1>3. /\ d \in AccountDocs
      /\ d.state = accounts[a].state /\ d.user = accounts[a].user /\ d.currency = cur
  BY <1>1 DEF TypeOK, AccountDocs
<1> HIDE DEF d
<1> QED
  BY <1>1, <1>2, <1>3 DEF TypeOK, SameOwners

(* the requests that are made, and the calls of those under way *)
LEMMA NextCases ==
    ASSUME Next
    PROVE  \/ \E u \in Users, a \in Accounts :
                 \/ \E cur \in Currencies : CreateAccount(u, a, cur)
                 \/ DeleteAccount(u, a)
                 \/ \E p \in Procs, cur \in Currencies : UpdateAccountGet(p, u, a, cur)
           \/ \E u \in Users, c \in Categories : CreateCategory(u, c)
           \/ \E p \in Procs, u \in Users, a \in Accounts :
                 \/ \E cat \in Categories \cup {BlankId, None}, cur \in Currencies :
                       \/ Create(p, u, a, cat, cur)
                       \/ \E t \in Txs : Update(p, u, t, a, cat, cur)
                 \/ \E n \in 0..MaxRows : Import(p, u, a, n)
           \/ \E u \in Users, t \in Txs : DeleteTx(u, t)
           \/ \E p \in Procs :
                 \/ UpdateAccount(p) \/ CheckAccount(p) \/ CheckCategory(p)
                 \/ \E t \in Txs : Insert(p, t) \/ InsertUnanswered(p, t)
                 \/ PublishCreated(p) \/ PublishCreatedErr(p) \/ UpdateTx(p)
                 \/ ImportAccount(p) \/ ImportSkip(p)
                 \/ \E t \in Txs, line \in Rows : ImportRow(p, t, line) \/ ImportRowUnanswered(p, t, line)
                 \/ ImportDone(p) \/ Fail(p)
<1>1. /\ Everything.users = Users /\ Everything.accounts = Accounts
      /\ Everything.categories = Categories \cup {BlankId, None}
      /\ Everything.txs = Txs /\ Everything.currencies = Currencies /\ Everything.rows = MaxRows
  BY DEF Everything
<1>2. (Categories \cup {BlankId, None}) \cap Categories = Categories
  OBVIOUS
<1> QED
  BY <1>1, <1>2, Zenon DEF Next, NextWith, AccountRequests, TransactionRequests, RequestSteps

(* publishCreated is over *)
LEMMA PublishEnds ==
    ASSUME TypeOK, LocalsInv, FileInv, NEW p \in Procs, req[p].pc = "publish", Published(p)
    PROVE  /\ Moves(p)
           /\ req[p].op \in {"create", "import"}
           /\ req[p].op = "create" => req'[p] = Idle
           /\ req[p].op = "import" =>
                 /\ req'[p].pc = "rows" /\ req'[p].tx = None /\ req'[p].currency = req[p].currency
                 /\ SameAsked(req[p], req'[p])
                 /\ Counts(req'[p], req[p].rows, req[p].imported + 1, req[p].skipped, req[p].errors)
<1>1. req[p].op \in {"create", "import"}
  BY DEF LocalsInv
<1>2. CASE req[p].op = "create"
  BY <1>2, ReturnEffect DEF Published
<1>3. CASE req[p].op = "import"
  <2>1. req[p].imported + 1 <= MaxRows
    BY <1>3, RequestFacts DEF FileInv, FileOf, InFile
  <2> QED
    BY <1>3, <2>1, PublishedEffect
<1> QED
  BY <1>1, <1>2, <1>3

(* the account of an import is looked up *)
LEMMA ImportAccountEffect ==
    ASSUME TypeOK, LocalsInv, ReferencesInv, NEW p \in Procs, ImportAccount(p)
    PROVE  /\ Moves(p)
           /\ \/ req'[p] = Idle
              \/ /\ Belongs(req[p].account, req[p].user)
                 /\ req'[p].pc = "rows" /\ req'[p].tx = req[p].tx /\ req'[p].currency \in Currencies
                 /\ SameAsked(req[p], req'[p]) /\ SameCounts(req[p], req'[p])
<1>1. req[p].account \in Accounts
  BY DEF ImportAccount, LocalsInv
<1>2. CASE OwnAccount(req[p].account, req[p].user)
  <2> DEFINE cur == accounts[req[p].account].currency
  <2>1. cur \in Currencies /\ Belongs(req[p].account, req[p].user)
    BY <1>1, <1>2 DEF OwnAccount, ReferencesInv, Belongs
  <2>2. req' = [req EXCEPT ![p].pc = "rows", ![p].currency = cur]
    BY <1>2 DEF ImportAccount
  <2> HIDE DEF cur
  <2> QED
    BY <2>1, <2>2, FileBegins
<1>3. CASE ~OwnAccount(req[p].account, req[p].user)
  BY <1>3, ReturnEffect DEF ImportAccount
<1> QED
  BY <1>2, <1>3

(* the account of a transaction is looked up *)
LEMMA CheckAccountEffect ==
    ASSUME TypeOK, LocalsInv, NEW p \in Procs, CheckAccount(p)
    PROVE  /\ Moves(p)
           /\ req[p].op \in {"create", "update"}
           /\ \/ req'[p] = Idle
              \/ /\ Belongs(req[p].account, req[p].user)
                 /\ req'[p].pc = AfterAccount(req[p].category, req[p].op)
                 /\ req'[p].tx = req[p].tx /\ req'[p].currency = req[p].currency
                 /\ SameAsked(req[p], req'[p]) /\ SameCounts(req[p], req'[p])
<1>1. req[p].account \in Accounts /\ req[p].op \in {"create", "update"}
  BY DEF CheckAccount, LocalsInv
<1>2. CASE OwnAccount(req[p].account, req[p].user)
  <2>1. /\ Belongs(req[p].account, req[p].user)
        /\ Goto(p, AfterAccount(req[p].category, req[p].op))
    BY <1>1, <1>2 DEF CheckAccount, OwnAccount, Belongs
  <2>2. AfterAccount(req[p].category, req[p].op) \in Steps
    BY <1>1, AfterAccountStep
  <2> QED
    BY <1>1, <2>1, <2>2, GotoEffect
<1>3. CASE ~OwnAccount(req[p].account, req[p].user)
  BY <1>1, <1>3, ReturnEffect DEF CheckAccount
<1> QED
  BY <1>2, <1>3

(* the category of a transaction is looked up *)
LEMMA CheckCategoryEffect ==
    ASSUME TypeOK, LocalsInv, NEW p \in Procs, CheckCategory(p)
    PROVE  /\ Moves(p)
           /\ req[p].op \in {"create", "update"}
           /\ \/ req'[p] = Idle
              \/ /\ categories[req[p].category] = req[p].user
                 /\ req'[p].pc = IF req[p].op = "create" THEN "insert" ELSE "write"
                 /\ req'[p].tx = req[p].tx /\ req'[p].currency = req[p].currency
                 /\ SameAsked(req[p], req'[p]) /\ SameCounts(req[p], req'[p])
<1> DEFINE s == IF req[p].op = "create" THEN "insert" ELSE "write"
<1>1. s \in Steps /\ req[p].op \in {"create", "update"}
  BY DEF Steps, CheckCategory, LocalsInv
<1>2. CASE categories[req[p].category] = req[p].user
  <2>1. Goto(p, s)
    BY <1>2 DEF CheckCategory
  <2> HIDE DEF s
  <2>2. /\ Moves(p)
        /\ req'[p].pc = s /\ req'[p].tx = req[p].tx /\ req'[p].currency = req[p].currency
        /\ SameAsked(req[p], req'[p]) /\ SameCounts(req[p], req'[p])
    BY <1>1, <2>1, GotoEffect
  <2> QED
    BY <1>1, <1>2, <2>2 DEF s
<1>3. CASE categories[req[p].category] # req[p].user
  BY <1>1, <1>3, ReturnEffect DEF CheckCategory
<1> QED
  BY <1>2, <1>3

(* a row has been inserted, or so it may seem *)
RowStored(p, t) ==
    /\ Stored(p, t)
    /\ req[p].currency \in Currencies
    /\ fileTxs' \in [Procs -> SUBSET (Txs \X Currencies)]
    /\ fileTxs'[p] = fileTxs[p] \cup {<<t, req[p].currency>>}
    /\ \A q \in Procs \ {p} : fileTxs'[q] = fileTxs[q]

(* InsertOne of a row, recorded with its currency *)
LEMMA RowInserted ==
    ASSUME TypeOK, LocalsInv, FileInv, NEW p \in Procs, NEW t \in Txs, NEW m \in {"number", "NaN"},
           req[p].pc = "rows", InsertOne(p, t, m),
           fileTxs' = [fileTxs EXCEPT ![p] = @ \cup {<<t, txs'[t].currency>>}]
    PROVE  RowStored(p, t)
<1> DEFINE x == <<t, txs'[t].currency>>
<1>1. req[p].currency \in Currencies
  BY DEF LocalsInv, FileInv, FileOf, InFile
<1>2. x = <<t, req[p].currency>> /\ x \in Txs \X Currencies
  BY <1>1, InsertEffect DEF Stored
<1>3. fileTxs' = [fileTxs EXCEPT ![p] = @ \cup {x}]
  OBVIOUS
<1> HIDE DEF x
<1>4. /\ fileTxs' \in [Procs -> SUBSET (Txs \X Currencies)]
      /\ fileTxs'[p] = fileTxs[p] \cup {x}
      /\ \A q \in Procs \ {p} : fileTxs'[q] = fileTxs[q]
  <2>1. fileTxs \in [Procs -> SUBSET (Txs \X Currencies)]
    BY DEF TypeOK
  <2> HIDE DEF TypeOK
  <2> QED
    BY <1>2, <1>3, <2>1
<1> QED
  BY <1>1, <1>2, <1>4, InsertEffect DEF RowStored

(* a row is inserted: on to its event *)
LEMMA RowEffect ==
    ASSUME TypeOK, LocalsInv, FileInv, NEW p \in Procs, NEW t \in Txs, NEW line \in Rows,
           ImportRow(p, t, line)
    PROVE  /\ RowStored(p, t)
           /\ Moves(p)
           /\ req'[p].pc = "publish" /\ req'[p].tx = t /\ req'[p].currency = req[p].currency
           /\ SameAsked(req[p], req'[p])
           /\ Counts(req'[p], req[p].rows - 1, req[p].imported, req[p].skipped, req[p].errors)
           /\ req[p].pc = "rows" /\ req[p].rows > 0
           /\ UNCHANGED <<accounts, categories, outbox, lost, unsure>>
<1>1. InsertOne(p, t, AmountOf(line)) /\ AmountOf(line) \in {"number", "NaN"}
  BY DEF ImportRow, AmountOf
<1>2. RowStored(p, t)
  BY <1>1, RowInserted DEF ImportRow
<1>3. req[p].rows - 1 \in 0..MaxRows
  BY RequestFacts DEF ImportRow
<1> QED
  BY <1>2, <1>3, InsertedEffect DEF ImportRow

(* a row is inserted and counted as skipped *)
LEMMA RowUnansweredEffect ==
    ASSUME TypeOK, LocalsInv, FileInv, NEW p \in Procs, NEW t \in Txs, NEW line \in Rows,
           ImportRowUnanswered(p, t, line)
    PROVE  /\ RowStored(p, t)
           /\ Moves(p)
           /\ req'[p].pc = "rows" /\ req'[p].tx = req[p].tx
           /\ req'[p].currency = req[p].currency /\ SameAsked(req[p], req'[p])
           /\ Counts(req'[p], req[p].rows - 1, req[p].imported, req[p].skipped + 1,
                     IF req[p].errors < MaxImportErrors THEN req[p].errors + 1 ELSE req[p].errors)
           /\ req[p].pc = "rows" /\ req[p].rows > 0
           /\ unsure' = [unsure EXCEPT ![p] = @ + 1] /\ lost' = lost \cup {t}
           /\ UNCHANGED <<accounts, categories, outbox>>
<1>1. InsertOne(p, t, AmountOf(line)) /\ AmountOf(line) \in {"number", "NaN"}
  BY DEF ImportRowUnanswered, AmountOf
<1>2. RowStored(p, t)
  BY <1>1, RowInserted DEF ImportRowUnanswered
<1>3. req[p].skipped + 1 <= MaxRows /\ req[p].errors <= req[p].skipped
  BY RequestFacts DEF ImportRowUnanswered, FileInv, FileOf, InFile
<1> QED
  BY <1>2, <1>3, SkipEffect DEF ImportRowUnanswered

(* a row is skipped *)
LEMMA RowSkipped ==
    ASSUME TypeOK, LocalsInv, FileInv, NEW p \in Procs, ImportSkip(p)
    PROVE  /\ Moves(p)
           /\ req'[p].pc = "rows" /\ req'[p].tx = req[p].tx
           /\ req'[p].currency = req[p].currency /\ SameAsked(req[p], req'[p])
           /\ Counts(req'[p], req[p].rows - 1, req[p].imported, req[p].skipped + 1,
                     IF req[p].errors < MaxImportErrors THEN req[p].errors + 1 ELSE req[p].errors)
           /\ req[p].pc = "rows" /\ req[p].rows > 0 /\ UNCHANGED <<storeVars, historyVars>>
<1>1. req[p].skipped + 1 <= MaxRows /\ req[p].errors <= req[p].skipped
  BY RequestFacts DEF ImportSkip, FileInv, FileOf, InFile
<1> QED
  BY <1>1, SkipEffect DEF ImportSkip

(* a transaction has been stored by Create: on to its event, *)
LEMMA CreateStored ==
    ASSUME TypeOK, NEW p \in Procs, NEW t \in Txs, Insert(p, t)
    PROVE  /\ Stored(p, t)
           /\ Moves(p)
           /\ req'[p].pc = "publish" /\ req'[p].tx = t /\ req'[p].currency = req[p].currency
           /\ SameAsked(req[p], req'[p]) /\ SameCounts(req[p], req'[p])
           /\ req[p].pc = "insert" /\ UNCHANGED <<accounts, categories, outbox, historyVars>>
  BY InsertEffect, InsertedEffect, RequestFacts DEF Insert, SameCounts

(* or its answer is lost *)
LEMMA CreateUnanswered ==
    ASSUME TypeOK, NEW p \in Procs, NEW t \in Txs, InsertUnanswered(p, t)
    PROVE  /\ Stored(p, t)
           /\ Moves(p) /\ req'[p] = Idle
           /\ req[p].pc = "insert" /\ lost' = lost \cup {t}
           /\ UNCHANGED <<accounts, categories, outbox, fileTxs, unsure>>
  BY InsertEffect, ReturnEffect DEF InsertUnanswered

-----------------------------------------------------------------------------
(* The steps *)

(* Every call keeps the types of the documents and of the requests. *)
LEMMA TypeStep ==
    TypeOK /\ LocalsInv /\ ReferencesInv /\ FileInv /\ [Next]_vars => TypeOK'
<1> SUFFICES ASSUME TypeOK, LocalsInv, ReferencesInv, FileInv, [Next]_vars
             PROVE  TypeOK'
  OBVIOUS
<1> USE DEF TypeOK, LocalsInv, FileInv, FileOf, InFile, Moves, storeVars, historyVars
<1>1. ASSUME NEW u \in Users, NEW a \in Accounts, NEW cur \in Currencies,
            CreateAccount(u, a, cur)
      PROVE  TypeOK'
  BY <1>1, AccountCreated DEF CreateAccount
<1>2. ASSUME NEW u \in Users, NEW a \in Accounts, DeleteAccount(u, a)
      PROVE  TypeOK'
  BY <1>2, AccountDeleted DEF SameOwners
<1>3. ASSUME NEW p \in Procs, NEW u \in Users, NEW a \in Accounts, NEW cur \in Currencies,
            UpdateAccountGet(p, u, a, cur)
      PROVE  TypeOK'
  BY <1>3, PutBegins DEF OwnAccount
<1>4. ASSUME NEW u \in Users, NEW c \in Categories, CreateCategory(u, c)
      PROVE  TypeOK'
  BY <1>4 DEF CreateCategory
<1>5. ASSUME NEW p \in Procs, NEW u \in Users, NEW a \in Accounts,
            NEW cat \in Categories \cup {BlankId, None}, NEW cur \in Currencies,
            Create(p, u, a, cat, cur)
      PROVE  TypeOK'
  <2>1. Moves(p) /\ UNCHANGED <<storeVars, historyVars>>
    BY <1>5, CreateBegins
  <2> QED
    BY <2>1
<1>6. ASSUME NEW p \in Procs, NEW u \in Users, NEW a \in Accounts, NEW t \in Txs,
            NEW cat \in Categories \cup {BlankId, None}, NEW cur \in Currencies,
            Update(p, u, t, a, cat, cur)
      PROVE  TypeOK'
  <2>1. Moves(p) /\ UNCHANGED <<storeVars, historyVars>>
    BY <1>6, UpdateBegins
  <2> QED
    BY <2>1
<1>7. ASSUME NEW p \in Procs, NEW u \in Users, NEW a \in Accounts, NEW n \in 0..MaxRows,
            Import(p, u, a, n)
      PROVE  TypeOK'
  BY <1>7, ImportBegins
<1>8. ASSUME NEW u \in Users, NEW t \in Txs, DeleteTx(u, t) PROVE TypeOK'
  BY <1>8, DeleteEffect
<1>9. ASSUME NEW p \in Procs, UpdateAccount(p) PROVE TypeOK'
  BY <1>9, AccountUpdated, ReturnEffect DEF UpdateAccount, SameOwners
<1>10. ASSUME NEW p \in Procs, CheckAccount(p) PROVE TypeOK'
  BY <1>10, CheckAccountEffect, IdleFacts, AfterAccountStep DEF CheckAccount
<1>11. ASSUME NEW p \in Procs, CheckCategory(p) PROVE TypeOK'
  BY <1>11, CheckCategoryEffect, IdleFacts DEF CheckCategory
<1>12. ASSUME NEW p \in Procs, NEW t \in Txs, Insert(p, t) PROVE TypeOK'
  BY <1>12, CreateStored DEF Stored
<1>13. ASSUME NEW p \in Procs, NEW t \in Txs, InsertUnanswered(p, t) PROVE TypeOK'
  BY <1>13, CreateUnanswered, IdleFacts DEF Stored
<1>14. ASSUME NEW p \in Procs, PublishCreated(p) PROVE TypeOK'
  BY <1>14, PublishEnds, IdleFacts DEF PublishCreated
<1>15. ASSUME NEW p \in Procs, PublishCreatedErr(p) PROVE TypeOK'
  BY <1>15, PublishEnds, IdleFacts DEF PublishCreatedErr
<1>16. ASSUME NEW p \in Procs, UpdateTx(p) PROVE TypeOK'
  <2>1. req[p].tx \in Txs
    BY <1>16 DEF UpdateTx, LocalsInv
  <2> QED
    BY <1>16, <2>1, UpdateEffect, IdleFacts DEF OwnTx
<1>17. ASSUME NEW p \in Procs, ImportAccount(p) PROVE TypeOK'
  BY <1>17, ImportAccountEffect, IdleFacts DEF ImportAccount
<1>18. ASSUME NEW p \in Procs, ImportSkip(p) PROVE TypeOK'
  BY <1>18, RowSkipped
<1>19. ASSUME NEW p \in Procs, NEW t \in Txs, NEW line \in Rows,
            ImportRow(p, t, line)
      PROVE  TypeOK'
  BY <1>19, RowEffect DEF RowStored, Stored
<1>20. ASSUME NEW p \in Procs, NEW t \in Txs, NEW line \in Rows,
            ImportRowUnanswered(p, t, line)
      PROVE  TypeOK'
  <2>1. unsure[p] + 1 \in 0..MaxRows
    BY <1>20, RequestFacts DEF ImportRowUnanswered
  <2> QED
    BY <1>20, <2>1, RowUnansweredEffect DEF RowStored, Stored
<1>21. ASSUME NEW p \in Procs, ImportDone(p) PROVE TypeOK'
  BY <1>21, ReturnEffect, IdleFacts DEF ImportDone, ForgetFile
<1>22. ASSUME NEW p \in Procs, Fail(p) PROVE TypeOK'
  BY <1>22, ReturnEffect, IdleFacts DEF Fail, ForgetFile
<1>23. CASE UNCHANGED vars
  BY <1>23, SMTT(30) DEF vars
<1> QED
  BY <1>1, <1>2, <1>3, <1>4, <1>5, <1>6, <1>7, <1>8, <1>9, <1>10, <1>11, <1>12,
     <1>13, <1>14, <1>15, <1>16, <1>17, <1>18, <1>19, <1>20, <1>21, <1>22, <1>23,
     NextCases

(* Every call leaves a request with what its next call needs. *)
LEMMA LocalsStep ==
    TypeOK /\ LocalsInv /\ ReferencesInv /\ FileInv /\ [Next]_vars => LocalsInv'
<1> SUFFICES ASSUME TypeOK, LocalsInv, ReferencesInv, FileInv, [Next]_vars
             PROVE  LocalsInv'
  OBVIOUS
<1> USE DEF LocalsInv, Moves, SameAsked, Asks, storeVars, historyVars
<1>1. ASSUME NEW u \in Users, NEW a \in Accounts, NEW cur \in Currencies,
            CreateAccount(u, a, cur)
      PROVE  LocalsInv'
  BY <1>1, AccountCreated DEF CreateAccount
<1>2. ASSUME NEW u \in Users, NEW a \in Accounts, DeleteAccount(u, a)
      PROVE  LocalsInv'
  BY <1>2, AccountDeleted DEF SameOwners
<1>3. ASSUME NEW p \in Procs, NEW u \in Users, NEW a \in Accounts, NEW cur \in Currencies,
            UpdateAccountGet(p, u, a, cur)
      PROVE  LocalsInv'
  BY <1>3, PutBegins DEF OwnAccount
<1>4. ASSUME NEW u \in Users, NEW c \in Categories, CreateCategory(u, c)
      PROVE  LocalsInv'
  BY <1>4 DEF CreateCategory
<1>5. ASSUME NEW p \in Procs, NEW u \in Users, NEW a \in Accounts,
            NEW cat \in Categories \cup {BlankId, None}, NEW cur \in Currencies,
            Create(p, u, a, cat, cur)
      PROVE  LocalsInv'
  BY <1>5, CreateBegins
<1>6. ASSUME NEW p \in Procs, NEW u \in Users, NEW a \in Accounts, NEW t \in Txs,
            NEW cat \in Categories \cup {BlankId, None}, NEW cur \in Currencies,
            Update(p, u, t, a, cat, cur)
      PROVE  LocalsInv'
  <2> DEFINE s == IF a # txs[t].account THEN "checkAccount" ELSE AfterAccount(cat, "update")
  <2>1. /\ Moves(p) /\ req'[p].pc = s /\ Asks(req'[p], "update", u, a, cat)
        /\ req'[p].currency = cur /\ req'[p].tx = t
        /\ UNCHANGED <<storeVars, historyVars>> /\ OwnTx(t, u)
    BY <1>6, UpdateBegins
  <2>2. \/ s = "checkAccount"
        \/ s = "checkCategory" /\ cat \in Categories /\ a = txs[t].account
        \/ s = "write" /\ cat \notin Categories /\ a = txs[t].account
    BY AfterAccountStep
  <2> HIDE DEF s
  <2> QED
    BY <2>1, <2>2 DEF OwnTx
<1>7. ASSUME NEW p \in Procs, NEW u \in Users, NEW a \in Accounts, NEW n \in 0..MaxRows,
            Import(p, u, a, n)
      PROVE  LocalsInv'
  BY <1>7, ImportBegins
<1>8. ASSUME NEW u \in Users, NEW t \in Txs, DeleteTx(u, t) PROVE LocalsInv'
  BY <1>8, DeleteEffect
<1>9. ASSUME NEW p \in Procs, UpdateAccount(p) PROVE LocalsInv'
  BY <1>9, AccountUpdated, ReturnEffect, IdleFacts DEF UpdateAccount, SameOwners
<1>10. ASSUME NEW p \in Procs, CheckAccount(p) PROVE LocalsInv'
  BY <1>10, CheckAccountEffect, IdleFacts, AfterAccountStep DEF CheckAccount
<1>11. ASSUME NEW p \in Procs, CheckCategory(p) PROVE LocalsInv'
  BY <1>11, CheckCategoryEffect, IdleFacts DEF CheckCategory
<1>12. ASSUME NEW p \in Procs, NEW t \in Txs, Insert(p, t) PROVE LocalsInv'
  BY <1>12, CreateStored DEF Stored
<1>13. ASSUME NEW p \in Procs, NEW t \in Txs, InsertUnanswered(p, t) PROVE LocalsInv'
  BY <1>13, CreateUnanswered, IdleFacts DEF Stored
<1>14. ASSUME NEW p \in Procs, PublishCreated(p) PROVE LocalsInv'
  BY <1>14, PublishEnds, IdleFacts DEF PublishCreated
<1>15. ASSUME NEW p \in Procs, PublishCreatedErr(p) PROVE LocalsInv'
  BY <1>15, PublishEnds, IdleFacts DEF PublishCreatedErr
<1>16. ASSUME NEW p \in Procs, UpdateTx(p) PROVE LocalsInv'
  <2>1. req[p].tx \in Txs
    BY <1>16 DEF UpdateTx, LocalsInv
  <2> QED
    BY <1>16, <2>1, UpdateEffect, IdleFacts DEF OwnTx
<1>17. ASSUME NEW p \in Procs, ImportAccount(p) PROVE LocalsInv'
  BY <1>17, ImportAccountEffect, IdleFacts DEF ImportAccount
<1>18. ASSUME NEW p \in Procs, ImportSkip(p) PROVE LocalsInv'
  BY <1>18, RowSkipped
<1>19. ASSUME NEW p \in Procs, NEW t \in Txs, NEW line \in Rows,
            ImportRow(p, t, line)
      PROVE  LocalsInv'
  BY <1>19, RowEffect DEF RowStored, Stored
<1>20. ASSUME NEW p \in Procs, NEW t \in Txs, NEW line \in Rows,
            ImportRowUnanswered(p, t, line)
      PROVE  LocalsInv'
  BY <1>20, RowUnansweredEffect DEF RowStored, Stored
<1>21. ASSUME NEW p \in Procs, ImportDone(p) PROVE LocalsInv'
  BY <1>21, ReturnEffect, IdleFacts DEF ImportDone, ForgetFile
<1>22. ASSUME NEW p \in Procs, Fail(p) PROVE LocalsInv'
  BY <1>22, ReturnEffect, IdleFacts DEF Fail, ForgetFile
<1>23. CASE UNCHANGED vars
  BY <1>23, SMTT(30) DEF vars
<1> QED
  BY <1>1, <1>2, <1>3, <1>4, <1>5, <1>6, <1>7, <1>8, <1>9, <1>10, <1>11, <1>12,
     <1>13, <1>14, <1>15, <1>16, <1>17, <1>18, <1>19, <1>20, <1>21, <1>22, <1>23,
     NextCases

(* No call takes an account or a category from its user, and what a request    *)
(* has checked is its own.                                                     *)
LEMMA ReferencesStep ==
    TypeOK /\ LocalsInv /\ ReferencesInv /\ FileInv /\ OwnReferences /\ [Next]_vars
        => ReferencesInv' /\ OwnReferences'
<1> SUFFICES ASSUME TypeOK, LocalsInv, ReferencesInv, FileInv, OwnReferences, [Next]_vars
             PROVE  ReferencesInv' /\ OwnReferences'
  OBVIOUS
<1> USE DEF ReferencesInv, OwnReferences, Belongs, Vetted, LocalsInv, Moves, SameAsked,
        Asks, storeVars, historyVars
<1>1. ASSUME NEW u \in Users, NEW a \in Accounts, NEW cur \in Currencies,
            CreateAccount(u, a, cur)
      PROVE  ReferencesInv' /\ OwnReferences'
  BY <1>1, AccountCreated DEF CreateAccount
<1>2. ASSUME NEW u \in Users, NEW a \in Accounts, DeleteAccount(u, a)
      PROVE  ReferencesInv' /\ OwnReferences'
  BY <1>2, AccountDeleted DEF SameOwners
<1>3. ASSUME NEW p \in Procs, NEW u \in Users, NEW a \in Accounts, NEW cur \in Currencies,
            UpdateAccountGet(p, u, a, cur)
      PROVE  ReferencesInv' /\ OwnReferences'
  BY <1>3, PutBegins DEF OwnAccount
<1>4. ASSUME NEW u \in Users, NEW c \in Categories, CreateCategory(u, c)
      PROVE  ReferencesInv' /\ OwnReferences'
  BY <1>4 DEF CreateCategory
<1>5. ASSUME NEW p \in Procs, NEW u \in Users, NEW a \in Accounts,
            NEW cat \in Categories \cup {BlankId, None}, NEW cur \in Currencies,
            Create(p, u, a, cat, cur)
      PROVE  ReferencesInv' /\ OwnReferences'
  BY <1>5, CreateBegins, SMTT(30)
<1>6. ASSUME NEW p \in Procs, NEW u \in Users, NEW a \in Accounts, NEW t \in Txs,
            NEW cat \in Categories \cup {BlankId, None}, NEW cur \in Currencies,
            Update(p, u, t, a, cat, cur)
      PROVE  ReferencesInv' /\ OwnReferences'
  <2> DEFINE s == IF a # txs[t].account THEN "checkAccount" ELSE AfterAccount(cat, "update")
  <2>1. /\ Moves(p) /\ req'[p].pc = s /\ Asks(req'[p], "update", u, a, cat)
        /\ req'[p].currency = cur /\ req'[p].tx = t
        /\ UNCHANGED <<storeVars, historyVars>> /\ OwnTx(t, u)
    BY <1>6, UpdateBegins
  <2>2. \/ s = "checkAccount"
        \/ s = "checkCategory" /\ cat \in Categories /\ a = txs[t].account
        \/ s = "write" /\ cat \notin Categories /\ a = txs[t].account
    BY AfterAccountStep
  <2> HIDE DEF s
  <2> QED
    BY <2>1, <2>2 DEF OwnTx
<1>7. ASSUME NEW p \in Procs, NEW u \in Users, NEW a \in Accounts, NEW n \in 0..MaxRows,
            Import(p, u, a, n)
      PROVE  ReferencesInv' /\ OwnReferences'
  BY <1>7, ImportBegins
<1>8. ASSUME NEW u \in Users, NEW t \in Txs, DeleteTx(u, t) PROVE ReferencesInv' /\ OwnReferences'
  BY <1>8, DeleteEffect, SMTT(30)
<1>9. ASSUME NEW p \in Procs, UpdateAccount(p) PROVE ReferencesInv' /\ OwnReferences'
  BY <1>9, AccountUpdated, ReturnEffect, IdleFacts DEF UpdateAccount, SameOwners
<1>10. ASSUME NEW p \in Procs, CheckAccount(p) PROVE ReferencesInv' /\ OwnReferences'
  BY <1>10, CheckAccountEffect, IdleFacts, AfterAccountStep DEF CheckAccount
<1>11. ASSUME NEW p \in Procs, CheckCategory(p) PROVE ReferencesInv' /\ OwnReferences'
  BY <1>11, CheckCategoryEffect, IdleFacts DEF CheckCategory
<1>12. ASSUME NEW p \in Procs, NEW t \in Txs, Insert(p, t) PROVE ReferencesInv' /\ OwnReferences'
  BY <1>12, CreateStored DEF Stored
<1>13. ASSUME NEW p \in Procs, NEW t \in Txs, InsertUnanswered(p, t)
       PROVE  ReferencesInv' /\ OwnReferences'
  BY <1>13, CreateUnanswered, IdleFacts DEF Stored
<1>14. ASSUME NEW p \in Procs, PublishCreated(p) PROVE ReferencesInv' /\ OwnReferences'
  BY <1>14, PublishEnds, IdleFacts DEF PublishCreated
<1>15. ASSUME NEW p \in Procs, PublishCreatedErr(p) PROVE ReferencesInv' /\ OwnReferences'
  BY <1>15, PublishEnds, IdleFacts DEF PublishCreatedErr
<1>16. ASSUME NEW p \in Procs, UpdateTx(p) PROVE ReferencesInv' /\ OwnReferences'
  <2>1. req[p].tx \in Txs
    BY <1>16 DEF UpdateTx, LocalsInv
  <2> QED
    BY <1>16, <2>1, UpdateEffect, IdleFacts, SMTT(30) DEF OwnTx
<1>17. ASSUME NEW p \in Procs, ImportAccount(p) PROVE ReferencesInv' /\ OwnReferences'
  BY <1>17, ImportAccountEffect, IdleFacts DEF ImportAccount
<1>18. ASSUME NEW p \in Procs, ImportSkip(p) PROVE ReferencesInv' /\ OwnReferences'
  BY <1>18, RowSkipped
<1>19. ASSUME NEW p \in Procs, NEW t \in Txs, NEW line \in Rows,
            ImportRow(p, t, line)
      PROVE  ReferencesInv' /\ OwnReferences'
  BY <1>19, RowEffect, SMTT(30) DEF RowStored, Stored
<1>20. ASSUME NEW p \in Procs, NEW t \in Txs, NEW line \in Rows,
            ImportRowUnanswered(p, t, line)
      PROVE  ReferencesInv' /\ OwnReferences'
  BY <1>20, RowUnansweredEffect, SMTT(30) DEF RowStored, Stored
<1>21. ASSUME NEW p \in Procs, ImportDone(p) PROVE ReferencesInv' /\ OwnReferences'
  BY <1>21, ReturnEffect, IdleFacts DEF ImportDone, ForgetFile
<1>22. ASSUME NEW p \in Procs, Fail(p) PROVE ReferencesInv' /\ OwnReferences'
  BY <1>22, ReturnEffect, IdleFacts DEF Fail, ForgetFile
<1>23. CASE UNCHANGED vars
  BY <1>23 DEF vars
<1> QED
  BY <1>1, <1>2, <1>3, <1>4, <1>5, <1>6, <1>7, <1>8, <1>9, <1>10, <1>11, <1>12,
     <1>13, <1>14, <1>15, <1>16, <1>17, <1>18, <1>19, <1>20, <1>21, <1>22, <1>23,
     NextCases

(* A request that is not about to enqueue an event leaves every transaction    *)
(* announced, when the transactions it adds are or will be.                    *)
LEMMA KeepsAnnounced ==
    ASSUME TypeOK, EveryTransactionAnnounced, NEW p \in Procs, Moves(p), req[p].pc # "publish",
           outbox' = outbox, \A t \in lost : t \in lost',
           \A t \in Txs : txs[t].state # "free" => txs'[t].state # "free",
           \A t \in Txs : txs'[t].state # "free" /\ txs[t].state = "free"
               => t \in lost' \/ (req'[p].pc = "publish" /\ req'[p].tx = t)
    PROVE  EveryTransactionAnnounced'
<1>1. ASSUME NEW t \in Txs, txs'[t].state # "free"
      PROVE  t \in outbox' \cup lost' \/ \E q \in Procs : req'[q].pc = "publish" /\ req'[q].tx = t
  <2>1. CASE txs[t].state = "free"
    BY <1>1, <2>1
  <2>2. CASE txs[t].state # "free" /\ t \in outbox \cup lost
    BY <2>2
  <2>3. CASE \E q \in Procs : req[q].pc = "publish" /\ req[q].tx = t
    BY <2>3 DEF Moves
  <2> QED
    BY <1>1, <2>1, <2>2, <2>3 DEF EveryTransactionAnnounced
<1>2. \A t \in outbox' : txs'[t].state # "free"
  BY DEF EveryTransactionAnnounced, TypeOK
<1> QED
  BY <1>1, <1>2 DEF EveryTransactionAnnounced

(* A transaction loses neither its event nor the request that will enqueue it. *)
LEMMA AnnouncedStep ==
    TypeOK /\ LocalsInv /\ ReferencesInv /\ FileInv /\ EveryTransactionAnnounced /\ [Next]_vars
        => EveryTransactionAnnounced'
<1> SUFFICES ASSUME TypeOK, LocalsInv, ReferencesInv, FileInv, EveryTransactionAnnounced,
                    [Next]_vars
             PROVE  EveryTransactionAnnounced'
  OBVIOUS
<1> USE DEF EveryTransactionAnnounced, LocalsInv, Moves, storeVars, historyVars
<1>1. ASSUME NEW u \in Users, NEW a \in Accounts, NEW cur \in Currencies,
            CreateAccount(u, a, cur)
      PROVE  EveryTransactionAnnounced'
  BY <1>1, AccountCreated DEF CreateAccount
<1>2. ASSUME NEW u \in Users, NEW a \in Accounts, DeleteAccount(u, a)
      PROVE  EveryTransactionAnnounced'
  BY <1>2, AccountDeleted DEF SameOwners
<1>3. ASSUME NEW p \in Procs, NEW u \in Users, NEW a \in Accounts, NEW cur \in Currencies,
            UpdateAccountGet(p, u, a, cur)
      PROVE  EveryTransactionAnnounced'
  BY <1>3, PutBegins, IdleFacts, KeepsAnnounced
<1>4. ASSUME NEW u \in Users, NEW c \in Categories, CreateCategory(u, c)
      PROVE  EveryTransactionAnnounced'
  BY <1>4 DEF CreateCategory
<1>5. ASSUME NEW p \in Procs, NEW u \in Users, NEW a \in Accounts,
            NEW cat \in Categories \cup {BlankId, None}, NEW cur \in Currencies,
            Create(p, u, a, cat, cur)
      PROVE  EveryTransactionAnnounced'
  <2>1. Moves(p) /\ req[p].pc = "idle" /\ UNCHANGED <<storeVars, historyVars>>
    BY <1>5, CreateBegins, IdleFacts
  <2> QED
    BY <2>1, KeepsAnnounced
<1>6. ASSUME NEW p \in Procs, NEW u \in Users, NEW a \in Accounts, NEW t \in Txs,
            NEW cat \in Categories \cup {BlankId, None}, NEW cur \in Currencies,
            Update(p, u, t, a, cat, cur)
      PROVE  EveryTransactionAnnounced'
  <2>1. Moves(p) /\ req[p].pc = "idle" /\ UNCHANGED <<storeVars, historyVars>>
    BY <1>6, UpdateBegins, IdleFacts
  <2> QED
    BY <2>1, KeepsAnnounced
<1>7. ASSUME NEW p \in Procs, NEW u \in Users, NEW a \in Accounts, NEW n \in 0..MaxRows,
            Import(p, u, a, n)
      PROVE  EveryTransactionAnnounced'
  BY <1>7, ImportBegins, IdleFacts, KeepsAnnounced
<1>8. ASSUME NEW u \in Users, NEW t \in Txs, DeleteTx(u, t) PROVE EveryTransactionAnnounced'
  <2>1. \A s \in Txs : txs'[s].state = "free" <=> txs[s].state = "free"
    BY <1>8, DeleteEffect
  <2>2. UNCHANGED <<outbox, lost, req>>
    BY <1>8, DeleteEffect
  <2> QED
    BY <2>1, <2>2 DEF TypeOK
<1>9. ASSUME NEW p \in Procs, UpdateAccount(p) PROVE EveryTransactionAnnounced'
  BY <1>9, AccountUpdated, ReturnEffect, IdleFacts DEF UpdateAccount, SameOwners
<1>10. ASSUME NEW p \in Procs, CheckAccount(p) PROVE EveryTransactionAnnounced'
  BY <1>10, CheckAccountEffect, IdleFacts, AfterAccountStep DEF CheckAccount
<1>11. ASSUME NEW p \in Procs, CheckCategory(p) PROVE EveryTransactionAnnounced'
  BY <1>11, CheckCategoryEffect, IdleFacts DEF CheckCategory
<1>12. ASSUME NEW p \in Procs, NEW t \in Txs, Insert(p, t) PROVE EveryTransactionAnnounced'
  BY <1>12, CreateStored, KeepsAnnounced DEF Stored
<1>13. ASSUME NEW p \in Procs, NEW t \in Txs, InsertUnanswered(p, t)
       PROVE  EveryTransactionAnnounced'
  BY <1>13, CreateUnanswered, IdleFacts, KeepsAnnounced DEF Stored
<1>14. ASSUME NEW p \in Procs, PublishCreated(p) PROVE EveryTransactionAnnounced'
  BY <1>14, PublishEnds, IdleFacts DEF PublishCreated
<1>15. ASSUME NEW p \in Procs, PublishCreatedErr(p) PROVE EveryTransactionAnnounced'
  BY <1>15, PublishEnds, IdleFacts DEF PublishCreatedErr
<1>16. ASSUME NEW p \in Procs, UpdateTx(p) PROVE EveryTransactionAnnounced'
  <2>1. req[p].tx \in Txs
    BY <1>16 DEF UpdateTx, LocalsInv
  <2>2. /\ Moves(p) /\ req[p].pc = "write" /\ UNCHANGED <<outbox, historyVars>>
        /\ \A t \in Txs : txs'[t].state = txs[t].state
    BY <1>16, <2>1, UpdateEffect
  <2> QED
    BY <2>2, KeepsAnnounced
<1>17. ASSUME NEW p \in Procs, ImportAccount(p) PROVE EveryTransactionAnnounced'
  BY <1>17, ImportAccountEffect, IdleFacts, SMTT(30) DEF ImportAccount
<1>18. ASSUME NEW p \in Procs, ImportSkip(p) PROVE EveryTransactionAnnounced'
  BY <1>18, RowSkipped
<1>19. ASSUME NEW p \in Procs, NEW t \in Txs, NEW line \in Rows,
            ImportRow(p, t, line)
      PROVE  EveryTransactionAnnounced'
  BY <1>19, RowEffect, KeepsAnnounced, SMTT(30) DEF RowStored, Stored
<1>20. ASSUME NEW p \in Procs, NEW t \in Txs, NEW line \in Rows,
            ImportRowUnanswered(p, t, line)
      PROVE  EveryTransactionAnnounced'
  <2>1. /\ Moves(p) /\ req[p].pc = "rows" /\ outbox' = outbox /\ lost' = lost \cup {t}
        /\ txs'[t].state = "live" /\ \A s \in Txs \ {t} : txs'[s] = txs[s]
    BY <1>20, RowUnansweredEffect DEF RowStored, Stored
  <2> QED
    BY <2>1, KeepsAnnounced
<1>21. ASSUME NEW p \in Procs, ImportDone(p) PROVE EveryTransactionAnnounced'
  BY <1>21, ReturnEffect, IdleFacts DEF ImportDone, ForgetFile
<1>22. ASSUME NEW p \in Procs, Fail(p) PROVE EveryTransactionAnnounced'
  BY <1>22, ReturnEffect, IdleFacts DEF Fail, ForgetFile
<1>23. CASE UNCHANGED vars
  BY <1>23 DEF vars
<1> QED
  BY <1>1, <1>2, <1>3, <1>4, <1>5, <1>6, <1>7, <1>8, <1>9, <1>10, <1>11, <1>12,
     <1>13, <1>14, <1>15, <1>16, <1>17, <1>18, <1>19, <1>20, <1>21, <1>22, <1>23,
     NextCases

(* The files of the other requests are as they were. *)
LEMMA FilesKept ==
    ASSUME TypeOK, FileInv, NEW p \in Procs, Moves(p),
           \A q \in Procs \ {p} : fileTxs'[q] = fileTxs[q] /\ unsure'[q] = unsure[q],
           \A t \in Txs : txs[t].state # "free" => txs'[t].state # "free",
           FileOf(req'[p], fileTxs'[p], unsure'[p]),
           \A x \in fileTxs'[p] : txs'[x[1]].state # "free"
    PROVE  FileInv'
<1> SUFFICES ASSUME NEW q \in Procs
             PROVE  /\ FileOf(req'[q], fileTxs'[q], unsure'[q])
                    /\ \A x \in fileTxs'[q] : txs'[x[1]].state # "free"
  BY DEF FileInv, FileOf, InFile
<1>1. CASE q = p
  BY <1>1
<1>2. CASE q # p
  <2>1. /\ FileOf(req[q], fileTxs[q], unsure[q])
        /\ \A x \in fileTxs[q] : x \in Txs \X Currencies /\ txs[x[1]].state # "free"
    BY DEF FileInv, TypeOK
  <2>2. req'[q] = req[q] /\ fileTxs'[q] = fileTxs[q] /\ unsure'[q] = unsure[q]
    BY <1>2 DEF Moves
  <2> QED
    BY <2>1, <2>2
<1> QED
  BY <1>1, <1>2

(* A request that has read no row has an empty file. *)
LEMMA NoFile ==
    ASSUME NEW r \in Requests, ~InFile(r), r.imported = 0, r.skipped = 0, r.errors = 0
    PROVE  FileOf(r, {}, 0)
  BY DEF FileOf, Requests

(* Before and after its file a request has nothing in it. *)
LEMMA OutOfFile ==
    ASSUME FileInv, NEW p \in Procs, ~InFile(req[p])
    PROVE  /\ fileTxs[p] = {} /\ unsure[p] = 0
           /\ req[p].imported = 0 /\ req[p].skipped = 0 /\ req[p].errors = 0
  BY DEF FileInv, FileOf

(* A request that enters or reads no file leaves the files as they are. *)
LEMMA FilesUntouched ==
    ASSUME TypeOK, FileInv, NEW p \in Procs, Moves(p), ~InFile(req[p]), ~InFile(req'[p]),
           req'[p].imported = 0, req'[p].skipped = 0, req'[p].errors = 0,
           UNCHANGED <<fileTxs, unsure>>,
           \A t \in Txs : txs[t].state # "free" => txs'[t].state # "free"
    PROVE  FileInv'
<1>1. fileTxs'[p] = {} /\ unsure'[p] = 0 /\ req'[p] \in Requests
  BY OutOfFile DEF Moves
<1>2. FileOf(req'[p], fileTxs'[p], unsure'[p])
  BY <1>1, NoFile
<1> QED
  BY <1>1, <1>2, FilesKept

(* A request that ends forgets its file. *)
LEMMA FileForgotten ==
    ASSUME TypeOK, FileInv, NEW p \in Procs, Moves(p), req'[p] = Idle, ForgetFile(p),
           UNCHANGED txs
    PROVE  FileInv'
<1>1. /\ fileTxs'[p] = {} /\ unsure'[p] = 0
      /\ \A q \in Procs \ {p} : fileTxs'[q] = fileTxs[q] /\ unsure'[q] = unsure[q]
  BY DEF ForgetFile, TypeOK
<1>2. FileOf(req'[p], fileTxs'[p], unsure'[p])
  BY <1>1, NoFile, IdleFacts DEF InFile, Asks, Counts
<1> QED
  BY <1>1, <1>2, FilesKept

(* Within a file the transactions are those the request has counted. *)
LEMMA InsideFile ==
    ASSUME TypeOK, FileInv, NEW p \in Procs, InFile(req[p])
    PROVE  /\ req[p].currency \in Currencies /\ IsFiniteSet(fileTxs[p])
           /\ Cardinality(fileTxs[p]) =
                 req[p].imported + unsure[p] + (IF req[p].pc = "publish" THEN 1 ELSE 0)
           /\ req[p].imported + req[p].skipped + req[p].rows
                 + (IF req[p].pc = "publish" THEN 1 ELSE 0) <= MaxRows
           /\ unsure[p] <= req[p].skipped
           /\ req[p].errors = IF req[p].skipped < MaxImportErrors THEN req[p].skipped
                                                                  ELSE MaxImportErrors
           /\ \A x \in fileTxs[p] : /\ x \in Txs \X Currencies /\ x[2] = req[p].currency
                                    /\ txs[x[1]].state # "free"
           /\ req[p].imported \in Nat /\ req[p].skipped \in Nat /\ req[p].rows \in Nat
           /\ unsure[p] \in Nat
<1>1. /\ FileOf(req[p], fileTxs[p], unsure[p])
      /\ \A x \in fileTxs[p] : txs[x[1]].state # "free"
  BY DEF FileInv
<1>2. /\ req[p].imported \in Nat /\ req[p].skipped \in Nat /\ req[p].rows \in Nat
      /\ unsure[p] \in Nat /\ fileTxs[p] \in SUBSET (Txs \X Currencies)
  BY RequestFacts DEF TypeOK
<1> QED
  BY <1>1, <1>2 DEF FileOf

(* A row that has been inserted is a new one of its file. *)
LEMMA RowIsNew ==
    ASSUME TypeOK, FileInv, NEW p \in Procs, NEW t \in Txs, InFile(req[p]), RowStored(p, t)
    PROVE  /\ IsFiniteSet(fileTxs'[p])
           /\ Cardinality(fileTxs'[p]) = Cardinality(fileTxs[p]) + 1
           /\ \A x \in fileTxs'[p] : x[2] = req[p].currency /\ txs'[x[1]].state # "free"
           /\ \A q \in Procs \ {p} : fileTxs'[q] = fileTxs[q]
           /\ \A s \in Txs : txs[s].state # "free" => txs'[s].state # "free"
<1> DEFINE x == <<t, req[p].currency>>
<1>1. /\ fileTxs'[p] = fileTxs[p] \cup {x} /\ \A q \in Procs \ {p} : fileTxs'[q] = fileTxs[q]
      /\ txs[t].state = "free" /\ txs'[t].state = "live"
      /\ \A s \in Txs \ {t} : txs'[s] = txs[s]
  BY DEF RowStored, Stored
<1>2. x[1] = t /\ x[2] = req[p].currency
  OBVIOUS
<1> HIDE DEF x
<1>3. x \notin fileTxs[p] /\ IsFiniteSet(fileTxs[p])
  BY <1>1, <1>2, InsideFile
<1>4. /\ IsFiniteSet(fileTxs'[p])
      /\ Cardinality(fileTxs'[p]) = Cardinality(fileTxs[p]) + 1
  <2>1. /\ IsFiniteSet(fileTxs[p] \cup {x})
        /\ Cardinality(fileTxs[p] \cup {x}) =
              IF x \in fileTxs[p] THEN Cardinality(fileTxs[p]) ELSE Cardinality(fileTxs[p]) + 1
    BY <1>3, FS_AddElement, Zenon
  <2> QED
    BY <1>1, <1>3, <2>1
<1>5. \A y \in fileTxs'[p] : y[2] = req[p].currency /\ txs'[y[1]].state # "free"
  <2> SUFFICES ASSUME NEW y \in fileTxs'[p]
               PROVE  y[2] = req[p].currency /\ txs'[y[1]].state # "free"
    OBVIOUS
  <2>1. CASE y = x
    BY <1>1, <1>2, <2>1
  <2>2. CASE y \in fileTxs[p]
    <3>1. y \in Txs \X Currencies /\ y[2] = req[p].currency /\ txs[y[1]].state # "free"
      BY <2>2, InsideFile
    <3>2. y[1] \in Txs \ {t}
      BY <1>1, <3>1
    <3> QED
      BY <1>1, <3>1, <3>2
  <2> QED
    BY <1>1, <2>1, <2>2
<1> QED
  BY <1>1, <1>4, <1>5

(* publishCreated is over, for Create or for a row. *)
LEMMA FilePublished ==
    ASSUME TypeOK, LocalsInv, FileInv, NEW p \in Procs, req[p].pc = "publish", Published(p),
           req[p].op \in {"create", "import"}, UNCHANGED <<txs, fileTxs, unsure>>
    PROVE  FileInv'
<1>1. CASE req[p].op = "create"
  BY <1>1, PublishEnds, IdleFacts, FilesUntouched DEF InFile, Counts
<1>2. CASE req[p].op = "import"
  <2>1. /\ InFile(req[p]) /\ InFile(req'[p]) /\ Moves(p) /\ req'[p].pc = "rows"
        /\ req'[p].currency = req[p].currency
        /\ req'[p].rows = req[p].rows /\ req'[p].imported = req[p].imported + 1
        /\ req'[p].skipped = req[p].skipped /\ req'[p].errors = req[p].errors
    BY <1>2, PublishEnds DEF InFile, SameAsked, Asks, Counts
  <2>2. FileOf(req'[p], fileTxs'[p], unsure'[p])
    BY <2>1, InsideFile DEF FileOf
  <2> QED
    BY <2>1, <2>2, FilesKept, InsideFile
<1> QED
  BY <1>1, <1>2

(* No call inserts a row without counting it, or counts one twice, or in       *)
(* another currency.                                                           *)
LEMMA FileStep ==
    TypeOK /\ LocalsInv /\ ReferencesInv /\ FileInv /\ [Next]_vars => FileInv'
<1> SUFFICES ASSUME TypeOK, LocalsInv, ReferencesInv, FileInv, [Next]_vars
             PROVE  FileInv'
  OBVIOUS
<1> USE DEF Moves, SameAsked, Asks, SameCounts, Counts, storeVars, historyVars
<1>1. ASSUME NEW u \in Users, NEW a \in Accounts, NEW cur \in Currencies,
            CreateAccount(u, a, cur)
      PROVE  FileInv'
  BY <1>1 DEF CreateAccount, FileInv, FileOf, InFile
<1>2. ASSUME NEW u \in Users, NEW a \in Accounts, DeleteAccount(u, a)
      PROVE  FileInv'
  BY <1>2 DEF DeleteAccount, FileInv, FileOf, InFile
<1>3. ASSUME NEW p \in Procs, NEW u \in Users, NEW a \in Accounts, NEW cur \in Currencies,
            UpdateAccountGet(p, u, a, cur)
      PROVE  FileInv'
  <2>1. ~InFile(req[p])
    BY <1>3, PutBegins, IdleFacts DEF InFile, Asks
  <2>2. /\ Moves(p) /\ ~InFile(req'[p]) /\ UNCHANGED <<storeVars, historyVars>>
        /\ req'[p].imported = 0 /\ req'[p].skipped = 0 /\ req'[p].errors = 0
    BY <1>3, PutBegins DEF InFile, Asks, Counts
  <2> QED
    BY <2>1, <2>2, FilesUntouched
<1>4. ASSUME NEW u \in Users, NEW c \in Categories, CreateCategory(u, c)
      PROVE  FileInv'
  BY <1>4 DEF CreateCategory, FileInv, FileOf, InFile
<1>5. ASSUME NEW p \in Procs, NEW u \in Users, NEW a \in Accounts,
            NEW cat \in Categories \cup {BlankId, None}, NEW cur \in Currencies,
            Create(p, u, a, cat, cur)
      PROVE  FileInv'
  <2>1. ~InFile(req[p])
    BY <1>5, CreateBegins, IdleFacts DEF InFile, Asks
  <2>2. /\ Moves(p) /\ ~InFile(req'[p]) /\ UNCHANGED <<storeVars, historyVars>>
        /\ req'[p].imported = 0 /\ req'[p].skipped = 0 /\ req'[p].errors = 0
    BY <1>5, CreateBegins DEF InFile, Asks, Counts
  <2> QED
    BY <2>1, <2>2, FilesUntouched
<1>6. ASSUME NEW p \in Procs, NEW u \in Users, NEW a \in Accounts, NEW t \in Txs,
            NEW cat \in Categories \cup {BlankId, None}, NEW cur \in Currencies,
            Update(p, u, t, a, cat, cur)
      PROVE  FileInv'
  <2>1. ~InFile(req[p])
    BY <1>6, UpdateBegins, IdleFacts DEF InFile, Asks
  <2>2. /\ Moves(p) /\ ~InFile(req'[p]) /\ UNCHANGED <<storeVars, historyVars>>
        /\ req'[p].imported = 0 /\ req'[p].skipped = 0 /\ req'[p].errors = 0
    BY <1>6, UpdateBegins DEF InFile, Asks, Counts
  <2> QED
    BY <2>1, <2>2, FilesUntouched
<1>7. ASSUME NEW p \in Procs, NEW u \in Users, NEW a \in Accounts, NEW n \in 0..MaxRows,
            Import(p, u, a, n)
      PROVE  FileInv'
  <2>1. ~InFile(req[p])
    BY <1>7, ImportBegins, IdleFacts DEF InFile, Asks
  <2>2. /\ Moves(p) /\ ~InFile(req'[p]) /\ UNCHANGED <<storeVars, historyVars>>
        /\ req'[p].imported = 0 /\ req'[p].skipped = 0 /\ req'[p].errors = 0
    BY <1>7, ImportBegins DEF InFile, Asks, Counts
  <2> QED
    BY <2>1, <2>2, FilesUntouched
<1>8. ASSUME NEW u \in Users, NEW t \in Txs, DeleteTx(u, t) PROVE FileInv'
  <2>1. /\ UNCHANGED <<req, fileTxs, unsure>>
        /\ \A s \in Txs : txs[s].state # "free" => txs'[s].state # "free"
    BY <1>8, DeleteEffect
  <2> QED
    BY <2>1 DEF FileInv, FileOf, InFile, TypeOK
<1>9. ASSUME NEW p \in Procs, UpdateAccount(p) PROVE FileInv'
  <2>1. /\ Moves(p) /\ ~InFile(req[p]) /\ ~InFile(req'[p]) /\ UNCHANGED <<txs, historyVars>>
        /\ req'[p].imported = 0 /\ req'[p].skipped = 0 /\ req'[p].errors = 0
    BY <1>9, ReturnEffect, IdleFacts DEF UpdateAccount, InFile, Asks, Counts
  <2> QED
    BY <2>1, FilesUntouched
<1>10. ASSUME NEW p \in Procs, CheckAccount(p) PROVE FileInv'
  <2>1. ~InFile(req[p]) /\ UNCHANGED <<storeVars, historyVars>>
    BY <1>10 DEF CheckAccount, InFile
  <2>2. /\ Moves(p) /\ ~InFile(req'[p])
        /\ req'[p].imported = 0 /\ req'[p].skipped = 0 /\ req'[p].errors = 0
    BY <1>10, <2>1, OutOfFile, CheckAccountEffect, IdleFacts
       DEF InFile, Asks, SameAsked, Counts, SameCounts
  <2> QED
    BY <2>1, <2>2, FilesUntouched
<1>11. ASSUME NEW p \in Procs, CheckCategory(p) PROVE FileInv'
  <2>1. ~InFile(req[p]) /\ UNCHANGED <<storeVars, historyVars>>
    BY <1>11 DEF CheckCategory, InFile
  <2>2. /\ Moves(p) /\ ~InFile(req'[p])
        /\ req'[p].imported = 0 /\ req'[p].skipped = 0 /\ req'[p].errors = 0
    BY <1>11, <2>1, OutOfFile, CheckCategoryEffect, IdleFacts
       DEF InFile, Asks, SameAsked, Counts, SameCounts
  <2> QED
    BY <2>1, <2>2, FilesUntouched
<1>12. ASSUME NEW p \in Procs, NEW t \in Txs, Insert(p, t) PROVE FileInv'
  <2>1. /\ ~InFile(req[p]) /\ req[p].op = "create" /\ UNCHANGED historyVars
        /\ \A s \in Txs : txs[s].state # "free" => txs'[s].state # "free"
    BY <1>12, CreateStored DEF InFile, Stored, LocalsInv
  <2>2. /\ Moves(p) /\ ~InFile(req'[p])
        /\ req'[p].imported = 0 /\ req'[p].skipped = 0 /\ req'[p].errors = 0
    BY <1>12, <2>1, OutOfFile, CreateStored DEF InFile, Asks, SameAsked, Counts, SameCounts
  <2> QED
    BY <2>1, <2>2, FilesUntouched
<1>13. ASSUME NEW p \in Procs, NEW t \in Txs, InsertUnanswered(p, t) PROVE FileInv'
  <2>1. /\ Moves(p) /\ ~InFile(req[p]) /\ ~InFile(req'[p]) /\ UNCHANGED <<fileTxs, unsure>>
        /\ req'[p].imported = 0 /\ req'[p].skipped = 0 /\ req'[p].errors = 0
        /\ \A s \in Txs : txs[s].state # "free" => txs'[s].state # "free"
    BY <1>13, CreateUnanswered, IdleFacts DEF InFile, Asks, Counts, Stored
  <2> QED
    BY <2>1, FilesUntouched
<1>14. ASSUME NEW p \in Procs, PublishCreated(p) PROVE FileInv'
  <2>1. /\ Published(p) /\ req[p].pc = "publish" /\ UNCHANGED <<txs, fileTxs, unsure>>
        /\ req[p].op \in {"create", "import"}
    BY <1>14 DEF PublishCreated, LocalsInv
  <2> QED
    BY <2>1, FilePublished
<1>15. ASSUME NEW p \in Procs, PublishCreatedErr(p) PROVE FileInv'
  <2>1. /\ Published(p) /\ req[p].pc = "publish" /\ UNCHANGED <<txs, fileTxs, unsure>>
        /\ req[p].op \in {"create", "import"}
    BY <1>15 DEF PublishCreatedErr, LocalsInv
  <2> QED
    BY <2>1, FilePublished
<1>16. ASSUME NEW p \in Procs, UpdateTx(p) PROVE FileInv'
  <2>1. req[p].tx \in Txs
    BY <1>16 DEF UpdateTx, LocalsInv
  <2>2. /\ Moves(p) /\ ~InFile(req[p]) /\ ~InFile(req'[p]) /\ UNCHANGED <<fileTxs, unsure>>
        /\ req'[p].imported = 0 /\ req'[p].skipped = 0 /\ req'[p].errors = 0
        /\ \A s \in Txs : txs[s].state # "free" => txs'[s].state # "free"
    BY <1>16, <2>1, UpdateEffect, IdleFacts DEF InFile, Asks, Counts
  <2> QED
    BY <2>2, FilesUntouched
<1>17. ASSUME NEW p \in Procs, ImportAccount(p) PROVE FileInv'
  <2>1. /\ ~InFile(req[p]) /\ req[p].op = "import" /\ UNCHANGED <<txs, fileTxs, unsure>>
    BY <1>17 DEF ImportAccount, LocalsInv, InFile
  <2>2. CASE req'[p] = Idle
    BY <1>17, <2>1, <2>2, ImportAccountEffect, IdleFacts, FilesUntouched DEF InFile
  <2>3. CASE req'[p] # Idle
    <3>1. /\ Moves(p) /\ req'[p].pc = "rows" /\ req'[p].op = "import"
          /\ req'[p].currency \in Currencies /\ SameCounts(req[p], req'[p])
      BY <1>17, <2>1, <2>3, ImportAccountEffect
    <3>2. fileTxs'[p] = {} /\ unsure'[p] = 0 /\ IsFiniteSet({}) /\ Cardinality({}) = 0
      BY <2>1, OutOfFile, FS_EmptySet
    <3>3. FileOf(req'[p], fileTxs'[p], unsure'[p])
      BY <2>1, <3>1, <3>2, OutOfFile, RequestFacts DEF FileOf, InFile
    <3> QED
      BY <2>1, <3>1, <3>2, <3>3, FilesKept
  <2> QED
    BY <2>2, <2>3
<1>18. ASSUME NEW p \in Procs, ImportSkip(p) PROVE FileInv'
  <2>1. /\ InFile(req[p]) /\ InFile(req'[p]) /\ req[p].pc = "rows" /\ req'[p].pc = "rows"
        /\ req'[p].currency = req[p].currency /\ Moves(p) /\ req[p].rows > 0
        /\ UNCHANGED <<txs, fileTxs, unsure>>
        /\ req'[p].rows = req[p].rows - 1 /\ req'[p].imported = req[p].imported
        /\ req'[p].skipped = req[p].skipped + 1
        /\ req'[p].errors = IF req[p].errors < MaxImportErrors THEN req[p].errors + 1
                                                               ELSE req[p].errors
    BY <1>18, RowSkipped DEF InFile, LocalsInv
  <2>2. FileOf(req'[p], fileTxs'[p], unsure'[p])
    BY <2>1, InsideFile DEF FileOf
  <2> QED
    BY <2>1, <2>2, FilesKept, InsideFile
<1>19. ASSUME NEW p \in Procs, NEW t \in Txs, NEW line \in Rows,
            ImportRow(p, t, line)
      PROVE  FileInv'
  <2>1. /\ InFile(req[p]) /\ InFile(req'[p]) /\ req[p].pc = "rows" /\ req'[p].pc = "publish"
        /\ req'[p].currency = req[p].currency /\ Moves(p) /\ req[p].rows > 0
        /\ UNCHANGED unsure /\ RowStored(p, t)
        /\ req'[p].rows = req[p].rows - 1 /\ req'[p].imported = req[p].imported
        /\ req'[p].skipped = req[p].skipped /\ req'[p].errors = req[p].errors
    BY <1>19, RowEffect DEF InFile, LocalsInv
  <2>2. FileOf(req'[p], fileTxs'[p], unsure'[p])
    BY <2>1, InsideFile, RowIsNew DEF FileOf
  <2> QED
    BY <2>1, <2>2, FilesKept, RowIsNew
<1>20. ASSUME NEW p \in Procs, NEW t \in Txs, NEW line \in Rows,
            ImportRowUnanswered(p, t, line)
      PROVE  FileInv'
  <2>1. /\ InFile(req[p]) /\ InFile(req'[p]) /\ req[p].pc = "rows" /\ req'[p].pc = "rows"
        /\ req'[p].currency = req[p].currency /\ Moves(p) /\ req[p].rows > 0
        /\ RowStored(p, t)
        /\ req'[p].rows = req[p].rows - 1 /\ req'[p].imported = req[p].imported
        /\ req'[p].skipped = req[p].skipped + 1
        /\ req'[p].errors = IF req[p].errors < MaxImportErrors THEN req[p].errors + 1
                                                               ELSE req[p].errors
    BY <1>20, RowUnansweredEffect DEF InFile, LocalsInv
  <2>2. unsure'[p] = unsure[p] + 1 /\ \A q \in Procs \ {p} : unsure'[q] = unsure[q]
    BY <1>20, RowUnansweredEffect DEF TypeOK
  <2>3. FileOf(req'[p], fileTxs'[p], unsure'[p])
    BY <2>1, <2>2, InsideFile, RowIsNew DEF FileOf
  <2> QED
    BY <2>1, <2>2, <2>3, FilesKept, RowIsNew
<1>21. ASSUME NEW p \in Procs, ImportDone(p) PROVE FileInv'
  <2>1. Moves(p) /\ req'[p] = Idle /\ ForgetFile(p) /\ UNCHANGED txs
    BY <1>21, ReturnEffect DEF ImportDone
  <2> QED
    BY <2>1, FileForgotten
<1>22. ASSUME NEW p \in Procs, Fail(p) PROVE FileInv'
  <2>1. Moves(p) /\ req'[p] = Idle /\ ForgetFile(p) /\ UNCHANGED txs
    BY <1>22, ReturnEffect DEF Fail
  <2> QED
    BY <2>1, FileForgotten
<1>23. CASE UNCHANGED vars
  BY <1>23 DEF vars, FileInv, FileOf, InFile
<1> QED
  BY <1>1, <1>2, <1>3, <1>4, <1>5, <1>6, <1>7, <1>8, <1>9, <1>10, <1>11, <1>12,
     <1>13, <1>14, <1>15, <1>16, <1>17, <1>18, <1>19, <1>20, <1>21, <1>22, <1>23,
     NextCases

-----------------------------------------------------------------------------
(* The invariant, and what follows from it *)

(* The invariant holds of an empty database, with no request under way. *)
LEMMA InitInv == Init => StoreInv
<1> SUFFICES ASSUME Init PROVE StoreInv
  OBVIOUS
<1>1. TypeOK
  <2>1. [state |-> "free", user |-> None, currency |-> None] \in AccountDocs
    BY DEF AccountDocs, DocStates
  <2>2. [state |-> "free", user |-> None, account |-> None, category |-> None,
         currency |-> None, amount |-> "number"] \in TxDocs
    BY DEF TxDocs, DocStates
  <2> QED
    BY <2>1, <2>2, IdleFacts DEF Init, TypeOK
<1>2. \A p \in Procs : req[p] = Idle /\ fileTxs[p] = {} /\ unsure[p] = 0
  BY DEF Init
<1>3. \A t \in Txs : txs[t].state = "free"
  BY DEF Init
<1>4. \A a \in Accounts : accounts[a].state = "free"
  BY DEF Init
<1>5. LocalsInv
  BY <1>2, IdleFacts DEF LocalsInv, Asks
<1>6. ReferencesInv /\ OwnReferences
  BY <1>2, <1>3, <1>4, IdleFacts DEF ReferencesInv, OwnReferences, Vetted, Asks
<1>7. EveryTransactionAnnounced
  BY <1>3 DEF Init, EveryTransactionAnnounced
<1>8. FileInv
  <2>1. FileOf(Idle, {}, 0)
    BY NoFile, IdleFacts DEF InFile, Counts
  <2> QED
    BY <1>2, <2>1 DEF FileInv
<1> QED
  BY <1>1, <1>5, <1>6, <1>7, <1>8 DEF StoreInv

(* The invariant is inductive. *)
THEOREM StoreCorrect == Spec => []StoreInv
<1>1. StoreInv /\ [Next]_vars => StoreInv'
  BY TypeStep, LocalsStep, ReferencesStep, AnnouncedStep, FileStep DEF StoreInv
<1> QED
  BY InitInv, <1>1, PTL DEF Spec

(* The documents and the requests stay what they are: in particular no count   *)
(* of an import leaves its bounds.                                             *)
THEOREM DocumentsStayValid == Spec => []TypeOK
<1>1. StoreInv => TypeOK
  BY DEF StoreInv
<1> QED
  BY StoreCorrect, <1>1, PTL

(* A transaction refers to an account and a category of its own user, whatever *)
(* other requests do between the checks and the write.                         *)
THEOREM ReferencesAreOwn == Spec => []OwnReferences
<1>1. StoreInv => OwnReferences
  BY DEF StoreInv
<1> QED
  BY StoreCorrect, <1>1, PTL

(* Every transaction, created or imported, has its event, or is about to have  *)
(* it, or lost it to a failing call.                                           *)
THEOREM TransactionsAreAnnounced == Spec => []EveryTransactionAnnounced
<1>1. StoreInv => EveryTransactionAnnounced
  BY DEF StoreInv
<1> QED
  BY StoreCorrect, <1>1, PTL

(* What Import answers adds up, for files of any length: every transaction it  *)
(* has inserted is counted once, and the list of errors is cut off at its cap. *)
THEOREM ImportsAddUp == Spec => []ImportAccounting
<1>1. StoreInv => ImportAccounting
  <2> SUFFICES ASSUME StoreInv, NEW p \in Procs, req[p].pc = "rows"
               PROVE  /\ Cardinality(fileTxs[p]) = req[p].imported + unsure[p]
                      /\ req[p].errors = IF req[p].skipped < MaxImportErrors
                                            THEN req[p].skipped ELSE MaxImportErrors
    BY DEF ImportAccounting
  <2>1. InFile(req[p])
    BY DEF StoreInv, LocalsInv, InFile
  <2> QED
    BY <2>1, InsideFile DEF StoreInv
<1> QED
  BY StoreCorrect, <1>1, PTL

(* All rows of a file are stored in one currency, although a PUT may change    *)
(* the currency of the account between two of them.                            *)
THEOREM FilesHaveOneCurrency == Spec => []ImportHasOneCurrency
<1>1. StoreInv => ImportHasOneCurrency
  BY DEF StoreInv, FileInv, FileOf, ImportHasOneCurrency
<1> QED
  BY StoreCorrect, <1>1, PTL

-----------------------------------------------------------------------------
(* One row of a statement, with any amounts *)

Floats == [kind : {"number"}, v : Int] \cup {R!Infinity(1), R!Infinity(-1), R!NaN}

AnyCells == {R!Blank, R!Cell("punctuation", FALSE, R!Number(0)), R!Cell("text", FALSE, R!Number(0))}
               \cup [form : {"numeral"}, paren : BOOLEAN, val : Floats]

AnyRows == [date : {"valid", "invalid"}, amount : AnyCells, debit : AnyCells,
            credit : AnyCells, type : {"", "income", "expense", "other"}]

(* A row is imported, as in R!Spec, whatever numbers its cells have. *)
RowSpec ==
    /\ row \in AnyRows /\ tx = R!Pending
    /\ [][R!Next]_<<row, tx>>

(* no cell of the row says NaN *)
WithoutNaN(r) == \A c \in {r.amount, r.debit, r.credit} : c.val.kind # "NaN"

(* the absolute value of a number *)
Size(n) == IF n < 0 THEN -n ELSE n

(* Signs: what parentheses around a number do, and a number without them. *)
LEMMA SizeFacts ==
    /\ \A n \in Int : 0 - Size(n) = - Size(n) /\ Size(n) - 0 = Size(n)
    /\ \A n \in Int : ~ (- Size(n) < 0) => - Size(n) = Size(n)
  BY DEF Size

(* A float64 keeps its kind under Abs and Negate. *)
LEMMA FloatFacts ==
    ASSUME NEW x \in Floats
    PROVE  /\ R!Abs(x) \in Floats /\ R!Negate(x) \in Floats
           /\ x.kind = "number" => /\ x.v \in Int
                                   /\ R!Abs(x).kind = "number" /\ R!Abs(x).v = Size(x.v)
                                   /\ R!Negate(x).kind = "number" /\ R!Negate(x).v = -x.v
           /\ x.kind # "number" => R!Abs(x).kind = x.kind /\ R!Negate(x).kind = x.kind
<1>1. CASE x \in [kind : {"number"}, v : Int]
  <2>1. x.v \in Int /\ Size(x.v) \in Int /\ -x.v \in Int /\ x.kind = "number"
    BY <1>1 DEF Size
  <2>2. R!Abs(x) = [x EXCEPT !.v = Size(x.v)] /\ R!Negate(x) = [x EXCEPT !.v = -x.v]
    BY <1>1 DEF R!Abs, R!Negate, Size
  <2> QED
    BY <1>1, <2>1, <2>2 DEF Floats
<1>2. CASE x = R!NaN
  <2>1. R!Abs(x) = x /\ R!Negate(x) = x /\ x.kind = "NaN"
    BY <1>2 DEF R!Abs, R!Negate, R!NaN
  <2> QED
    BY <2>1
<1>3. CASE x = R!Infinity(1) \/ x = R!Infinity(-1)
  <2>1. /\ R!Abs(x) = R!Infinity(1) /\ x.kind = "infinity"
        /\ R!Negate(x) \in {R!Infinity(1), R!Infinity(-1)}
    BY <1>3 DEF R!Abs, R!Negate, R!Infinity
  <2>2. R!Infinity(1).kind = "infinity" /\ R!Infinity(-1).kind = "infinity"
    BY DEF R!Infinity
  <2> QED
    BY <2>1, <2>2 DEF Floats
<1> QED
  BY <1>1, <1>2, <1>3 DEF Floats

(* What the fields of a cell are. *)
LEMMA CellFacts ==
    ASSUME NEW c \in AnyCells
    PROVE  /\ c.form # "numeral" => c.val = R!Number(0)
           /\ c.form = "numeral" => c.paren \in BOOLEAN /\ c.val \in Floats
           /\ c = R!Blank => c.form = "blank"
<1>1. R!Number(0) \in Floats
  BY DEF R!Number, Floats
<1>2. CASE c \in {R!Blank, R!Cell("punctuation", FALSE, R!Number(0)),
                  R!Cell("text", FALSE, R!Number(0))}
  BY <1>2 DEF R!Blank, R!Cell
<1>3. CASE c \in [form : {"numeral"}, paren : BOOLEAN, val : Floats]
  <2>1. c.form = "numeral" /\ c.paren \in BOOLEAN /\ c.val \in Floats
    BY <1>3
  <2>2. R!Blank.form = "blank"
    BY DEF R!Blank, R!Cell
  <2> QED
    BY <2>1, <2>2
<1> QED
  BY <1>2, <1>3 DEF AnyCells

(* parseImportAmount: what an accepted cell says. *)
LEMMA ParseFacts ==
    ASSUME NEW c \in AnyCells, R!parseImportAmount(c).ok
    PROVE  LET x == R!parseImportAmount(c).val
           IN  /\ c.form = "numeral" /\ c # R!Blank /\ c.paren \in BOOLEAN
               /\ R!Abs(x).kind = "number" =>
                    /\ x.kind = "number" /\ c.val.kind = "number" /\ c.val.v \in Int
                    /\ x.v = IF c.paren THEN - Size(c.val.v) ELSE c.val.v
                    /\ R!Abs(x).v = Size(c.val.v)
                    /\ R!Abs(c.val).v = Size(c.val.v)
<1> DEFINE x == R!parseImportAmount(c).val
<1>1. c.form = "numeral" /\ x = IF c.paren THEN R!Negate(R!Abs(c.val)) ELSE c.val
  BY DEF R!parseImportAmount, R!Refused, R!Accepted
<1>2. c.paren \in BOOLEAN /\ c.val \in Floats /\ c # R!Blank
  BY <1>1, CellFacts
<1>3. /\ R!Abs(c.val) \in Floats
      /\ c.val.kind = "number" => /\ c.val.v \in Int /\ R!Abs(c.val).kind = "number"
                                  /\ R!Abs(c.val).v = Size(c.val.v)
      /\ c.val.kind # "number" => R!Abs(c.val).kind = c.val.kind
  BY <1>2, FloatFacts
<1>4. /\ R!Negate(R!Abs(c.val)) \in Floats
      /\ R!Abs(c.val).kind = "number" =>
            R!Negate(R!Abs(c.val)).kind = "number" /\ R!Negate(R!Abs(c.val)).v = - R!Abs(c.val).v
      /\ R!Abs(c.val).kind # "number" => R!Negate(R!Abs(c.val)).kind = R!Abs(c.val).kind
  BY <1>3, FloatFacts
<1>5. x \in Floats
  BY <1>1, <1>2, <1>4
<1>6. /\ x.kind = "number" => R!Abs(x).kind = "number" /\ R!Abs(x).v = Size(x.v)
      /\ x.kind # "number" => R!Abs(x).kind = x.kind
  BY <1>5, FloatFacts
<1> HIDE DEF x
<1>7. ASSUME R!Abs(x).kind = "number"
      PROVE  /\ x.kind = "number" /\ c.val.kind = "number" /\ c.val.v \in Int
             /\ x.v = IF c.paren THEN - Size(c.val.v) ELSE c.val.v
             /\ R!Abs(x).v = Size(c.val.v)
             /\ R!Abs(c.val).v = Size(c.val.v)
  <2>1. x.kind = "number"
    BY <1>6, <1>7
  <2>2. c.val.kind = "number"
    BY <1>1, <1>2, <1>3, <1>4, <2>1
  <2>3. x.v = IF c.paren THEN - Size(c.val.v) ELSE c.val.v
    BY <1>1, <1>2, <1>3, <1>4, <2>2
  <2>4. Size(x.v) = Size(c.val.v)
    BY <1>3, <2>2, <2>3 DEF Size
  <2> QED
    BY <1>3, <1>6, <2>1, <2>2, <2>3, <2>4
<1> QED
  BY <1>1, <1>2, <1>7 DEF x

(* resolveImportAmount: the column that an amount comes from. *)
LEMMA ColumnFacts ==
    ASSUME NEW r \in AnyRows, R!resolveImportAmount(r).ok
    PROVE  LET amount == R!resolveImportAmount(r)
           IN  \/ /\ r.amount # R!Blank /\ R!parseImportAmount(r.amount).ok
                  /\ amount = R!Accepted(R!Abs(R!parseImportAmount(r.amount).val),
                                 IF R!Less(R!parseImportAmount(r.amount).val, R!Number(0))
                                    THEN "expense" ELSE "income")
               \/ /\ r.amount = R!Blank /\ R!parseImportAmount(r.debit).ok
                  /\ amount = R!Accepted(R!Abs(R!parseImportAmount(r.debit).val), "expense")
               \/ /\ r.amount = R!Blank /\ R!parseImportAmount(r.credit).ok
                  /\ amount = R!Accepted(R!Abs(R!parseImportAmount(r.credit).val), "income")
<1> DEFINE amount == R!resolveImportAmount(r)
<1>0. R!Refused.ok = FALSE
  BY DEF R!Refused
<1> DEFINE Usable(c) == R!parseImportAmount(c).ok /\ ~ R!Zero(c)
           Absent(c) == c = R!Blank \/ (R!parseImportAmount(c).ok /\ R!Zero(c))
<1>1. CASE r.amount # R!Blank /\ R!parseImportAmount(r.amount).ok
  BY <1>1 DEF amount, R!resolveImportAmount
<1>2. CASE r.amount = R!Blank /\ Usable(r.debit)
  <2>1. r.debit # R!Blank
    BY <1>2, ParseFacts DEF AnyRows
  <2> QED
    BY <1>2, <2>1 DEF amount, R!resolveImportAmount, R!Magnitude
<1>3. CASE r.amount = R!Blank /\ ~ Usable(r.debit) /\ Absent(r.debit) /\ Usable(r.credit)
  BY <1>3 DEF amount, R!resolveImportAmount, R!Magnitude
<1>4. CASE /\ ~ (r.amount # R!Blank /\ R!parseImportAmount(r.amount).ok)
           /\ ~ (r.amount = R!Blank /\ Usable(r.debit))
           /\ ~ (r.amount = R!Blank /\ Absent(r.debit) /\ Usable(r.credit))
  <2>1. amount = R!Refused
    BY <1>4 DEF amount, R!resolveImportAmount
  <2> QED
    BY <1>0, <2>1
<1> QED
  BY <1>1, <1>2, <1>3, <1>4

(* resolveImportAmount and the checks after it: the column that a stored *)
(* amount comes from.                                                    *)
LEMMA ResolveFacts ==
    ASSUME NEW r \in AnyRows, r.type = "", R!buildImportedTransaction(r).ok
    PROVE  LET t == R!buildImportedTransaction(r)
               P(c) == R!parseImportAmount(c)
           IN  \/ /\ r.amount # R!Blank /\ P(r.amount).ok
                  /\ t.val = R!Abs(P(r.amount).val)
                  /\ t.type = IF R!Less(P(r.amount).val, R!Number(0)) THEN "expense" ELSE "income"
               \/ /\ r.amount = R!Blank /\ P(r.debit).ok
                  /\ t.val = R!Abs(P(r.debit).val) /\ t.type = "expense"
               \/ /\ r.amount = R!Blank /\ P(r.credit).ok
                  /\ t.val = R!Abs(P(r.credit).val) /\ t.type = "income"
<1> DEFINE amount == R!resolveImportAmount(r)
<1>1. R!Refused.ok = FALSE
  BY DEF R!Refused
<1>2. amount.ok /\ R!buildImportedTransaction(r) = R!Accepted(amount.val, amount.type)
  BY <1>1 DEF R!buildImportedTransaction
<1> HIDE DEF amount
<1>0. \A x, type : R!Accepted(x, type).val = x /\ R!Accepted(x, type).type = type
  BY DEF R!Accepted
<1>3. /\ R!buildImportedTransaction(r).val = amount.val
      /\ R!buildImportedTransaction(r).type = amount.type
  <2>1. /\ R!Accepted(amount.val, amount.type).val = amount.val
        /\ R!Accepted(amount.val, amount.type).type = amount.type
    BY <1>0
  <2> QED
    BY <1>2, <2>1
<1>4. \/ /\ r.amount # R!Blank /\ R!parseImportAmount(r.amount).ok
         /\ amount = R!Accepted(R!Abs(R!parseImportAmount(r.amount).val),
                        IF R!Less(R!parseImportAmount(r.amount).val, R!Number(0))
                           THEN "expense" ELSE "income")
      \/ /\ r.amount = R!Blank /\ R!parseImportAmount(r.debit).ok
         /\ amount = R!Accepted(R!Abs(R!parseImportAmount(r.debit).val), "expense")
      \/ /\ r.amount = R!Blank /\ R!parseImportAmount(r.credit).ok
         /\ amount = R!Accepted(R!Abs(R!parseImportAmount(r.credit).val), "income")
  BY <1>2, ColumnFacts DEF amount
<1> QED
  <2> DEFINE P(c) == R!parseImportAmount(c)
             sign == IF R!Less(P(r.amount).val, R!Number(0)) THEN "expense" ELSE "income"
  <2>1. CASE /\ r.amount # R!Blank /\ P(r.amount).ok
             /\ amount = R!Accepted(R!Abs(P(r.amount).val), sign)
    <3>1. amount.val = R!Abs(P(r.amount).val) /\ amount.type = sign
      BY <1>0, <2>1
    <3> QED
      BY <1>3, <2>1, <3>1
  <2>2. CASE /\ r.amount = R!Blank /\ P(r.debit).ok
             /\ amount = R!Accepted(R!Abs(P(r.debit).val), "expense")
    <3>1. amount.val = R!Abs(P(r.debit).val) /\ amount.type = "expense"
      BY <1>0, <2>2
    <3> QED
      BY <1>3, <2>2, <3>1
  <2>3. CASE /\ r.amount = R!Blank /\ P(r.credit).ok
             /\ amount = R!Accepted(R!Abs(P(r.credit).val), "income")
    <3>1. amount.val = R!Abs(P(r.credit).val) /\ amount.type = "income"
      BY <1>0, <2>3
    <3> QED
      BY <1>3, <2>3, <3>1
  <2> QED
    BY <1>4, <2>1, <2>2, <2>3

(* CashEffectPreserved, for rows with any numbers in them: what is stored    *)
(* as income or expense is the cash that the row moves, whichever column,    *)
(* sign and parentheses it came in (resolveImportAmount).                    *)
THEOREM RowsKeepTheirCash == RowSpec => []CashEffectPreserved
<1> DEFINE Inv == /\ row \in AnyRows
                  /\ tx \in {R!Pending, R!buildImportedTransaction(row)}
<1>1. row \in AnyRows /\ tx = R!Pending => Inv
  OBVIOUS
<1>2. Inv /\ [R!Next]_<<row, tx>> => Inv'
  BY DEF R!Next, R!Import
<1>3. Inv => CashEffectPreserved
  <2> SUFFICES ASSUME Inv, R!Done, row.type = "", R!OneColumn, tx.val.kind = "number"
               PROVE  R!CashEffect = IF tx.type = "income" THEN tx.val.v ELSE - tx.val.v
    BY DEF CashEffectPreserved, R!CashEffectPreserved
  <2> DEFINE P(c) == R!parseImportAmount(c)
  <2>1. tx = R!buildImportedTransaction(row) /\ tx.ok
    <3>1. R!Pending.ok = FALSE
      BY DEF R!Pending
    <3> QED
      BY <3>1 DEF R!Done
  <2>2. row.amount \in AnyCells /\ row.debit \in AnyCells /\ row.credit \in AnyCells
    BY DEF AnyRows
  <2>3. R!Blank.form # "numeral"
    BY DEF R!Blank, R!Cell
  <2>4. CASE /\ row.amount # R!Blank /\ P(row.amount).ok
             /\ tx.val = R!Abs(P(row.amount).val)
             /\ tx.type = IF R!Less(P(row.amount).val, R!Number(0)) THEN "expense" ELSE "income"
    <3> DEFINE c == row.amount
               x == P(c).val
    <3>1. /\ c.form = "numeral" /\ c.paren \in BOOLEAN
          /\ x.kind = "number" /\ c.val.kind = "number"
          /\ c.val.v \in Int /\ x.v = (IF c.paren THEN - Size(c.val.v) ELSE c.val.v)
          /\ R!Abs(x).v = Size(c.val.v) /\ R!Abs(c.val).v = Size(c.val.v)
      BY <2>2, <2>4, ParseFacts, ZenonT(60)
    <3> HIDE DEF P
    <3>2. R!Less(x, R!Number(0)) <=> x.v < 0
      BY <3>1 DEF R!Less, R!Number
    <3>3. R!CashEffect = IF c.paren \/ c.val.v < 0 THEN - Size(c.val.v) ELSE Size(c.val.v)
      BY <2>4, <3>1 DEF R!CashEffect
    <3>4. tx.val.v = Size(c.val.v)
      BY <2>4, <3>1
    <3>5. tx.type = IF x.v < 0 THEN "expense" ELSE "income"
      BY <2>4, <3>2
    <3> QED
      <4>1. "income" # "expense"
        OBVIOUS
      <4>2. CASE c.paren
        <5>1. x.v = - Size(c.val.v) /\ R!CashEffect = - Size(c.val.v)
          BY <3>1, <3>3, <4>2, Zenon
        <5>2. ~ (x.v < 0) => - Size(c.val.v) = Size(c.val.v)
          BY <3>1, <5>1, SizeFacts, Zenon
        <5> QED
          BY <3>4, <3>5, <4>1, <5>1, <5>2, Zenon
      <4>3. CASE ~ c.paren
        <5>1. x.v = c.val.v
          BY <3>1, <4>3, Zenon
        <5> QED
          BY <3>3, <3>4, <3>5, <4>1, <4>3, <5>1, Zenon
      <4> QED
        BY <3>1, <4>2, <4>3, Zenon
  <2>5. CASE /\ row.amount = R!Blank /\ P(row.debit).ok
             /\ tx.val = R!Abs(P(row.debit).val) /\ tx.type = "expense"
    <3> DEFINE c == row.debit
    <3>1. /\ c.form = "numeral" /\ c # R!Blank /\ c.val.kind = "number"
          /\ c.val.v \in Int
          /\ R!Abs(P(c).val).v = Size(c.val.v) /\ R!Abs(c.val).v = Size(c.val.v)
      BY <2>2, <2>5, ParseFacts, ZenonT(60)
    <3>2. row.credit = R!Blank
      BY <2>5, <3>1 DEF R!OneColumn
    <3>3. R!CashEffect = 0 - Size(c.val.v)
      BY <2>3, <2>5, <3>1, <3>2 DEF R!CashEffect
    <3> QED
      <4>1. 0 - Size(c.val.v) = - Size(c.val.v)
        BY <3>1, SizeFacts, Zenon
      <4>2. tx.val.v = Size(c.val.v) /\ tx.type = "expense"
        BY <2>5, <3>1, Zenon
      <4>3. "income" # "expense"
        OBVIOUS
      <4> QED
        BY <3>3, <4>1, <4>2, <4>3, Zenon
  <2>6. CASE /\ row.amount = R!Blank /\ P(row.credit).ok
             /\ tx.val = R!Abs(P(row.credit).val) /\ tx.type = "income"
    <3> DEFINE c == row.credit
    <3>1. /\ c.form = "numeral" /\ c # R!Blank /\ c.val.kind = "number"
          /\ c.val.v \in Int
          /\ R!Abs(P(c).val).v = Size(c.val.v) /\ R!Abs(c.val).v = Size(c.val.v)
      BY <2>2, <2>6, ParseFacts, ZenonT(60)
    <3>2. row.debit = R!Blank
      BY <2>6, <3>1 DEF R!OneColumn
    <3>3. R!CashEffect = Size(c.val.v) - 0
      BY <2>3, <2>6, <3>1, <3>2 DEF R!CashEffect
    <3> QED
      <4>1. Size(c.val.v) - 0 = Size(c.val.v)
        BY <3>1, SizeFacts, Zenon
      <4>2. tx.val.v = Size(c.val.v) /\ tx.type = "income"
        BY <2>6, <3>1, Zenon
      <4>3. "income" # "expense"
        OBVIOUS
      <4> QED
        BY <3>3, <4>1, <4>2, <4>3, Zenon
  <2> QED
    BY <2>1, <2>4, <2>5, <2>6, ResolveFacts
<1> QED
  BY <1>1, <1>2, <1>3, PTL DEF RowSpec

(* Only NaN gets past the checks for float64 garbage: of a row without it   *)
(* nothing but a number in 1..MaxAmount is stored, whatever infinities and  *)
(* sizes its cells have (the two comparisons of buildImportedTransaction).  *)
THEOREM OnlyNaNGetsThrough ==
    RowSpec => [](WithoutNaN(row) => R!NoGarbageStored)
<1> DEFINE Inv == /\ row \in AnyRows
                  /\ tx \in {R!Pending, R!buildImportedTransaction(row)}
<1>1. row \in AnyRows /\ tx = R!Pending => Inv
  OBVIOUS
<1>2. Inv /\ [R!Next]_<<row, tx>> => Inv'
  BY DEF R!Next, R!Import
<1>3. Inv => (WithoutNaN(row) => R!NoGarbageStored)
  <2> SUFFICES ASSUME Inv, WithoutNaN(row), R!Done
               PROVE  tx.val.kind = "number" /\ tx.val.v \in 1..MaxAmount
    BY DEF R!NoGarbageStored
  <2> DEFINE amount == R!resolveImportAmount(row)
  <2>1. tx = R!buildImportedTransaction(row) /\ tx.ok
    <3>1. R!Pending.ok = FALSE
      BY DEF R!Pending
    <3> QED
      BY <3>1 DEF R!Done
  <2>2. /\ amount.ok /\ tx.val = amount.val
        /\ ~ R!AtMost(amount.val, R!Number(0)) /\ ~ R!Less(R!Number(MaxAmount), amount.val)
    <3>1. R!Refused.ok = FALSE
      BY DEF R!Refused
    <3>2. \A x, type : R!Accepted(x, type).val = x
      BY DEF R!Accepted
    <3> QED
      BY <2>1, <3>1, <3>2 DEF R!buildImportedTransaction
  <2>3. PICK c \in AnyCells : /\ c \in {row.amount, row.debit, row.credit}
                              /\ R!parseImportAmount(c).ok
                              /\ amount.val = R!Abs(R!parseImportAmount(c).val)
    <3>1. row.amount \in AnyCells /\ row.debit \in AnyCells /\ row.credit \in AnyCells
      BY DEF AnyRows
    <3>2. \A x, type : R!Accepted(x, type).val = x
      BY DEF R!Accepted
    <3> HIDE DEF amount
    <3> QED
      BY <2>2, <3>1, <3>2, ColumnFacts DEF amount
  <2> HIDE DEF amount
  <2>4. c.form = "numeral" /\ c.val \in Floats /\ c.val.kind # "NaN"
    <3>1. c.form = "numeral"
      BY <2>3, ParseFacts
    <3> QED
      BY <2>3, <3>1, CellFacts DEF WithoutNaN
  <2>5. amount.val \in Floats /\ amount.val.kind # "NaN" /\ amount.val # R!Infinity(-1)
    <3> DEFINE x == R!parseImportAmount(c).val
    <3>1. x = IF c.paren THEN R!Negate(R!Abs(c.val)) ELSE c.val
      BY <2>4 DEF R!parseImportAmount, R!Accepted
    <3>2. x \in Floats /\ x.kind # "NaN"
      <4>1. R!Abs(c.val) \in Floats /\ R!Abs(c.val).kind # "NaN"
        BY <2>4, FloatFacts
      <4>2. R!Negate(R!Abs(c.val)) \in Floats /\ R!Negate(R!Abs(c.val)).kind # "NaN"
        BY <4>1, FloatFacts
      <4> QED
        BY <2>4, <3>1, <4>2
    <3> HIDE DEF x
    <3>3. R!Abs(x) \in Floats /\ R!Abs(x).kind # "NaN"
      BY <3>2, FloatFacts
    <3>4. R!Abs(x) # R!Infinity(-1)
      BY <3>2 DEF R!Abs, R!Infinity, Floats, R!NaN
    <3> QED
      BY <2>3, <3>3, <3>4 DEF x
  <2>6. MaxAmount \in Nat
    BY StoreAssumption DEF StoreAssumption
  <2>7. amount.val # R!Infinity(1)
    BY <2>2, <2>6 DEF R!Less, R!Infinity, R!Number
  <2>8. amount.val \in [kind : {"number"}, v : Int]
    BY <2>5, <2>7 DEF Floats, R!NaN
  <2>9. amount.val.v > 0 /\ amount.val.v <= MaxAmount
    BY <2>2, <2>6, <2>8 DEF R!Less, R!AtMost, R!Number
  <2> QED
    BY <2>2, <2>6, <2>8, <2>9
<1> QED
  BY <1>1, <1>2, <1>3, PTL DEF RowSpec

=============================================================================
