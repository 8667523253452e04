------------------------------- MODULE MCAuth -------------------------------
(* Instances of AuthService for TLC *)
EXTENDS AuthService, TLC

(* request goroutines, ids and tokens are interchangeable *)
Symmetry == Permutations(Procs) \cup Permutations(Users)
            \cup Permutations(Emails) \cup Permutations(Tokens)

=============================================================================
