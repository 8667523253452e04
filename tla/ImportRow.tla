----------------------------- MODULE ImportRow -----------------------------
(***************************************************************************)
(* One row of a CSV statement becomes a transaction, or is refused:        *)
(* parseImportAmount, resolveImportAmount and buildImportedTransaction of  *)
(* expense-service (internal/service/transaction_import.go).               *)
(*                                                                         *)
(* A float64 is a record: a number, an infinity or NaN, with the           *)
(* comparisons of IEEE 754 (every comparison with NaN is false).  A cell   *)
(* is what its text says: nothing, punctuation only, no number at all, or  *)
(* a number with or without parentheses around it.                         *)
(***************************************************************************)
EXTENDS Integers

CONSTANT MaxAmount    \* maxAmount, a positive number

Number(n) == [kind |-> "number", v |-> n]
Infinity(sign) == [kind |-> "infinity", v |-> sign]
NaN == [kind |-> "NaN", v |-> 0]

(* x < y *)
Less(x, y) ==
    /\ x.kind # "NaN" /\ y.kind # "NaN"
    /\ \/ x.kind = "number"   /\ y.kind = "number" /\ x.v < y.v
       \/ x.kind = "infinity" /\ x.v < 0 /\ y # x
       \/ y.kind = "infinity" /\ y.v > 0 /\ y # x

(* x <= y: not the negation of y < x, which would let NaN through *)
AtMost(x, y) == x.kind # "NaN" /\ y.kind # "NaN" /\ ~ Less(y, x)

Abs(x) == [x EXCEPT !.v = IF @ < 0 THEN - @ ELSE @]
Negate(x) == [x EXCEPT !.v = - @]

-----------------------------------------------------------------------------
(* Cells and rows *)

Forms == {"blank", "punctuation", "text", "numeral"}
Cell(form, paren, val) == [form |-> form, paren |-> paren, val |-> val]
Blank == Cell("blank", FALSE, Number(0))

Refused == [ok |-> FALSE, val |-> Number(0), type |-> ""]
Accepted(x, type) == [ok |-> TRUE, val |-> x, type |-> type]

(* "$", "," and " " are dropped; parentheses make the number negative, *)
(* whatever sign is inside them                                        *)
parseImportAmount(cell) ==
    IF cell.form # "numeral"
       THEN Refused
       ELSE Accepted(IF cell.paren THEN Negate(Abs(cell.val)) ELSE cell.val, "")

(* the Debit or the Credit column: zero counts as absent *)
Magnitude(cell, type) == Accepted(Abs(parseImportAmount(cell).val), type)
Zero(cell) == parseImportAmount(cell).val = Number(0)

(* Debit as an alias of Amount, the bug the handler's comment tells of. *)
ResolveAmountMutant(row) ==
    LET cell == IF row.amount # Blank THEN row.amount
                ELSE IF row.debit # Blank THEN row.debit ELSE row.credit
        amount == parseImportAmount(cell)
    IN  IF ~ amount.ok THEN Refused
        ELSE Accepted(Abs(amount.val),
                      IF Less(amount.val, Number(0)) THEN "expense" ELSE "income")

(* a signed Amount column wins; otherwise Debit, then Credit *)
resolveImportAmount(row) ==
    LET amount == parseImportAmount(row.amount)
        Usable(cell) == parseImportAmount(cell).ok /\ ~ Zero(cell)
        Absent(cell) == cell = Blank \/ (parseImportAmount(cell).ok /\ Zero(cell))
    IN  CASE row.amount # Blank /\ amount.ok ->
                Accepted(Abs(amount.val),
                         IF Less(amount.val, Number(0)) THEN "expense" ELSE "income")
          [] row.amount = Blank /\ Usable(row.debit) ->
                Magnitude(row.debit, "expense")
          [] row.amount = Blank /\ Absent(row.debit) /\ Usable(row.credit) ->
                Magnitude(row.credit, "income")
          [] OTHER -> Refused

(* the checks in the order of the code; a Type column overrides the       *)
(* inferred type                                                           *)
buildImportedTransaction(row) ==
    LET amount == resolveImportAmount(row)
        type == IF row.type = "" THEN amount.type ELSE row.type
    IN  IF /\ row.date = "valid"
           /\ amount.ok
           /\ type \in {"income", "expense"}
           /\ ~ AtMost(amount.val, Number(0))
           /\ ~ Less(Number(MaxAmount), amount.val)
           THEN Accepted(amount.val, type)
           ELSE Refused

=============================================================================
