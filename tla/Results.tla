------------------------------- MODULE Results ------------------------------
(* What a function of Go returns that may fail. *)

Ok(x) == [ok |-> TRUE, value |-> x]

\* The value goes with an error too: what the code had done before it.
Error(x) == [ok |-> FALSE, value |-> x]

=============================================================================
