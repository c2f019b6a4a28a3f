--------------------------- MODULE MCCustomerData ---------------------------
(***************************************************************************)
(* Small instances of CustomerData for TLC.                                *)
(***************************************************************************)
EXTENDS CustomerData, TLC

\* Tunnels are interchangeable; budgets and workspaces are not, because
\* NewSession names one of each.
Symmetry == Permutations(Sessions)

\* The state without the histories sent and base, which no guard reads: for
\* runs whose properties do not mention them either.
WithoutHistory == <<usage, states, used, lastUsed, sequence, session>>

=============================================================================
