------------------------------ MODULE MCKeeper ------------------------------
(* Small instances of Keeper. *)
EXTENDS Keeper

\* No agent's name begins with another's.
OwnOnly == [a \in Agent |-> {a}]

=============================================================================
