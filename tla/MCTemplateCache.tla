-------------------------- MODULE MCTemplateCache --------------------------
(* Instances of TemplateCache with two keys in the same shard. *)
EXTENDS TemplateCache, TLC

CONSTANTS k1, k2, c1, c2, t1, t2

MCKeys == {k1, k2}
MCHash == k1 :> 4 @@ k2 :> 6
=============================================================================
