----------------------------- MODULE MCTunnels -----------------------------
(***************************************************************************)
(* A small instance of Tunnels for TLC.                                    *)
(***************************************************************************)
EXTENDS Tunnels

\* Two connections of a kind, and one permit wherever tasks compete.
Permits == [public |-> 2, internal |-> 2, tls |-> 1, tunnel |-> 1, circuit |-> 1]

=============================================================================
