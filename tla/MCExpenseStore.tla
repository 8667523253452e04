--------------------------- MODULE MCExpenseStore ---------------------------
(***************************************************************************)
(* Instances of ExpenseStore for TLC.  A behaviour has one of two casts,   *)
(* with ids of their own: several users with their accounts and categories *)
(* around one transaction, or one account into which files are imported.   *)
(* Next to them every row of a larger set goes through the amount rules    *)
(* (MCImportRow), while the store is at rest.                              *)
(***************************************************************************)
EXTENDS ExpenseStore, TLC

CONSTANTS u1, u2, u3, a1, a2, a3, t1, t2, t3, usd, eur, gbp

VARIABLES cast, row, tx

R == INSTANCE MCImportRow

Cell(n) == I!Cell("numeral", FALSE, n)
Row(amount) == [date |-> "valid", amount |-> amount, debit |-> I!Blank,
                credit |-> I!Blank, type |-> ""]

(* a row that is imported, one that is refused, and one that says NaN *)
ThreeRows == {Row(Cell(I!Number(1))), Row(Cell(I!Number(0))), Row(Cell(I!NaN))}

Owners == [users |-> {u1, u2}, accounts |-> {a1, a2}, categories |-> Categories \cup {None},
           txs |-> {t1}, currencies |-> {usd}, rows |-> 1]

Importer == [users |-> {u3}, accounts |-> {a3}, categories |-> {BlankId},
             txs |-> {t2, t3}, currencies |-> {eur, gbp}, rows |-> MaxRows]

MCInit ==
    /\ Init
    /\ \/ cast \in {"owners", "importer"} /\ row = R!BlankRow /\ tx = R!Pending
       \/ cast = "rows" /\ R!Init

MCNext ==
    \/ /\ cast # "rows"
       /\ NextWith(IF cast = "owners" THEN Owners ELSE Importer)
       /\ UNCHANGED <<cast, row, tx>>
    \/ /\ cast = "rows"
       /\ R!Next
       /\ UNCHANGED <<vars, cast>>

MCSpec == MCInit /\ [][MCNext]_<<vars, cast, row, tx>>

(* within a cast, ids of one kind are interchangeable *)
Sym == Permutations(Procs) \cup Permutations({u1, u2}) \cup Permutations({a1, a2})
          \cup Permutations({t2, t3}) \cup Permutations({eur, gbp})

-----------------------------------------------------------------------------

(* What a row of a statement is stored as, income or expense, is the cash   *)
(* that it moves, whatever sign, parentheses and column it came in          *)
(* (resolveImportAmount; MCImportRow has the definition).                   *)
CashEffectPreserved == R!CashEffectPreserved

=============================================================================
