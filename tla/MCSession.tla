----------------------------- MODULE MCSession -----------------------------
(* Instances of Session for TLC *)
EXTENDS Session, TLC

CONSTANTS b1, b2, c1, c2, c3

(* two calls of one page, and one of another tab *)
TwoTabs == (c1 :> b1) @@ (c2 :> b1) @@ (c3 :> b2)

(* a page that makes one call at a time *)
OneCall == (c1 :> b1)

Symmetry == Permutations(Tokens)

=============================================================================
