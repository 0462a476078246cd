-------------------------- MODULE MCProxyDirectory ---------------------------
(***************************************************************************)
(* ProxyDirectory for TLC: users, groups of a kind, and requests are alike.*)
(***************************************************************************)
EXTENDS ProxyDirectory, TLC

Alike == Permutations(Users) \cup Permutations(Locals)
           \cup Permutations(Logicals) \cup Permutations(Requests)
=============================================================================
