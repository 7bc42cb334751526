------------------------- MODULE MCTaskDistribution -------------------------
(***************************************************************************)
(* Values of TaskDistribution's constants for TLC: a submitter s0 and two  *)
(* capable workers, w1 with the lower id, connected in four ways.          *)
(***************************************************************************)
EXTENDS TaskDistribution, TLC

CONSTANTS s0, w1, w2, t1, t2

\* Everybody has dialled everybody.
Mesh == {d \in Peer \X Peer : d[1] # d[2]}
\* The workers only know the submitter.
Hub == {<<s0, w1>>, <<w1, s0>>, <<s0, w2>>, <<w2, s0>>}
\* w2 reaches the submitter through w1; neighbours have dialled each other.
Line == {<<s0, w1>>, <<w1, s0>>, <<w1, w2>>, <<w2, w1>>}
\* The same line, but w1 knows its neighbours only by their connections to it.
Inbound == {<<s0, w1>>, <<w2, w1>>}

FromS == [t \in Task |-> s0]
NoTarget == [t \in Task |-> NoPeer]
OneToW2 == [t \in Task |-> IF t = t2 THEN w2 ELSE NoPeer]
ById == s0 :> 3 @@ w1 :> 1 @@ w2 :> 2
=============================================================================
