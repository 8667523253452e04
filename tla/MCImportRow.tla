---------------------------- MODULE MCImportRow ----------------------------
(* Every row over a bounded set of cells, imported one at a time *)
EXTENDS ImportRow

VARIABLES row, tx

Values == {Number(n) : n \in {- MaxAmount, 0, 1, MaxAmount, MaxAmount + 1}}
            \cup {Infinity(1), Infinity(-1), NaN}

Cells == {Blank, Cell("punctuation", FALSE, Number(0)), Cell("text", FALSE, Number(0))}
            \cup {Cell("numeral", paren, val) : paren \in BOOLEAN, val \in Values}

ImportRows == [date : {"valid", "invalid"}, amount : Cells, debit : Cells,
               credit : Cells, type : {"", "income", "expense", "other"}]

BlankRow == [date |-> "invalid", amount |-> Blank, debit |-> Blank, credit |-> Blank, type |-> ""]

Pending == [ok |-> FALSE, val |-> NaN, type |-> "pending"]

Init == row \in ImportRows /\ tx = Pending

Import == tx = Pending /\ tx' = buildImportedTransaction(row) /\ UNCHANGED row

Next == Import
Spec == Init /\ [][Next]_<<row, tx>>

Done == tx.ok

-----------------------------------------------------------------------------
(* Properties *)

(* the cash that a row of a statement moves into its account: the signed *)
(* Amount, where parentheses mean money out, or Credit minus Debit         *)
CashEffect ==
    LET In(cell) == IF cell.form = "numeral" /\ cell.val.kind = "number"
                       THEN Abs(cell.val).v ELSE 0
    IN  IF row.amount = Blank
           THEN In(row.credit) - In(row.debit)
           ELSE IF row.amount.paren \/ row.amount.val.v < 0
                   THEN - In(row.amount) ELSE In(row.amount)

(* a row of the documented shape: "only one is populated per row" *)
OneColumn == row.amount # Blank \/ Blank \in {row.debit, row.credit}

(* What is stored without a Type column, read as income or expense, is the *)
(* cash that moved: a signed Amount (negative: money out, also in          *)
(* parentheses) or else an unsigned Debit (money out) or Credit (money in) *)
(* as domain.ImportRow describes them.  Infinities and NaN move nothing    *)
(* that could be compared.                                                 *)
CashEffectPreserved ==
    Done /\ row.type = "" /\ OneColumn /\ tx.val.kind = "number" =>
        CashEffect = IF tx.type = "income" THEN tx.val.v ELSE - tx.val.v

(* maxAmount is "a defense-in-depth ceiling against float64                *)
(* garbage/overflow": what is stored is a number in (0, maxAmount].  Not   *)
(* so: strconv.ParseFloat accepts "NaN", and NaN is neither <= 0 nor >     *)
(* maxAmount.                                                              *)
NoGarbageStored ==
    Done => tx.val.kind = "number" /\ tx.val.v \in 1..MaxAmount

=============================================================================
