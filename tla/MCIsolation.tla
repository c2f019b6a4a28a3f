---------------------------- MODULE MCIsolation ----------------------------
(***************************************************************************)
(* Small instances of Isolation for TLC.                                   *)
(***************************************************************************)
EXTENDS Isolation, TLC

\* Tasks and requests are interchangeable; identities are not, because
\* AnyIdentity names one of them.
Symmetry == Permutations(Conns) \cup Permutations(Requests)

=============================================================================
