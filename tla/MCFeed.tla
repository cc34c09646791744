------------------------------- MODULE MCFeed -------------------------------
(* Values of the constants of Feed for model checking. *)
EXTENDS Feed, TLC

CONSTANTS t1, t2, t3, s1, s2, s3, c1, c2

\* Two subscriptions share the first channel.
Shared == s1 :> c1 @@ s2 :> c1 @@ s3 :> c2

\* Every subscription has a channel of its own.
Distinct == s1 :> c1 @@ s2 :> c2

\* One channel for all.
Single == s1 :> c1 @@ s2 :> c1

\* c1 is unbuffered, c2 has room for one value.
Caps == c1 :> 0 @@ c2 :> 1

Unbuffered == c1 :> 0

ThreadSymmetry == Permutations(Threads)

=============================================================================
