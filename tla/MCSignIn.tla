------------------------------ MODULE MCSignIn -------------------------------
(***************************************************************************)
(* Two people, one of whom may bear the local administrator's name, two    *)
(* states and two callbacks at once.  People, states and callbacks are     *)
(* alike: no property tells one from another.                              *)
(***************************************************************************)
EXTENDS SignIn, TLC

Alike == Permutations(People) \cup Permutations(Attempts) \cup Permutations(Callbacks)
=============================================================================
