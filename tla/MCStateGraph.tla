---------------------------- MODULE MCStateGraph ----------------------------
(***************************************************************************)
(* A graph with a loop, a branch, a coroutine condition, an answer that no *)
(* mapping knows and a mapping to a node that nobody registered; a value   *)
(* that a checkpoint file holds as its text.                               *)
(***************************************************************************)
EXTENDS StateGraph, TLC

CONSTANTS draft, review, finish, ghost, again, good, object

WrittenAs == [v \in Value |-> IF v = object THEN good ELSE v]

ReadsKey == draft :> draft @@ review :> review

Branches ==
    draft  :> (again :> draft @@ good :> review @@ object :> review) @@
    review :> (again :> ghost @@ good :> finish @@ object :> finish)

Writes ==
    draft  :> {again, good, object} @@
    review :> {again, object, Unset} @@
    finish :> {Unset}

Onward == finish :> END
=============================================================================
