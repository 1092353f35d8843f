------------------------------ MODULE MCBilling ------------------------------
(***************************************************************************)
(* Billing for two users and two subscriptions: one each, or both of one   *)
(* user.                                                                   *)
(***************************************************************************)
EXTENDS Billing, TLC

Symmetry == Permutations(Users) \cup Permutations(Subs)
=============================================================================
