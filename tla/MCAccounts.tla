------------------------------ MODULE MCAccounts ------------------------------
(* Instances of Accounts for model checking.                                 *)
EXTENDS Accounts, TLC
CONSTANTS root, admin, client
MCUsers == {root, admin, client}
MCRole == root :> "super_admin" @@ admin :> "admin" @@ client :> "client"
Symmetry == Permutations(Requests)
===============================================================================
