----------------------------- MODULE MCIdentity -----------------------------
(***************************************************************************)
(* Identity on small instances for TLC: the rules of docs/DEPLOY.md, a     *)
(* name listed twice, two globs that tie, and one that matches everything. *)
(***************************************************************************)
EXTENDS Identity

Names == {"cart-api", "cart-worker", ""}

Glob(names, literal) == [matches |-> names, glob |-> TRUE, specificity |-> literal]
Name(s) == [matches |-> {s}, glob |-> FALSE, specificity |-> 8]

Rules ==
    {[pattern |-> Name("cart-api"), repo |-> "checkout"],
     [pattern |-> Name("cart-api"), repo |-> "cart"],
     [pattern |-> Glob({"cart-api", "cart-worker"}, 5), repo |-> "cart"],
     [pattern |-> Glob({"cart-worker"}, 0), repo |-> "workers"],
     [pattern |-> Glob(Names, 0), repo |-> "platform"]}

Builds == {[id |-> "old", sources |-> TRUE], [id |-> "new", sources |-> FALSE]}
=============================================================================
