---------------------------- MODULE MCAdmission ----------------------------
(***************************************************************************)
(* Small instances of Admission for TLC.                                   *)
(***************************************************************************)
EXTENDS Admission, TLC

TwoPlans == {[tunnels |-> 1, requests |-> 2], [tunnels |-> 2, requests |-> 3]}
OnePlan == {[tunnels |-> 1, requests |-> 1]}

\* Requests are interchangeable; accounts and workspaces are not, because
\* NewRequest names one of each.
Symmetry == Permutations(Requests)

=============================================================================
