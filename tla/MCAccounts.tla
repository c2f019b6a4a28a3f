----------------------------- MODULE MCAccounts -----------------------------
(***************************************************************************)
(* Small instances of Accounts for TLC.                                    *)
(***************************************************************************)
EXTENDS Accounts, TLC

CONSTANT Plans

\* Each plan has limits of its own.
PlanOffers == {[plan |-> p, limits |-> p] : p \in Plans}

\* The members of each of these sets are interchangeable.
Symmetry ==
    Permutations(Emails) \cup Permutations(Names) \cup Permutations(PublicIds)
        \cup Permutations(Fingerprints) \cup Permutations(Callers) 
        \cup Permutations(Plans)

=============================================================================
