---------------------------- MODULE MCTriePruner ----------------------------
(***************************************************************************)
(* The chain 0 - 1 - 2 - 4 - 6 and beside it 3 - 5 above 1. The roots      *)
(* r0 .. r6 share                                                          *)
(*   na  of all states but that of 6                                       *)
(*   nb  of 1, 3 and, made anew, 6, with the value va                      *)
(*   nc  made by 2 and by 3 independently, above na, twice in 2; kept by 4 *)
(*       and 5                                                             *)
(* r0 has the value va, r2, r4 and r5 the value vb. The child trie ka is   *)
(* made by 1 and kept by 2, and kb is made by 4 and by 5.                  *)
(***************************************************************************)
EXTENDS TriePruner

CONSTANTS r0, r1, r2, r3, r4, r5, r6, na, nb, nc, ka, kb, va, vb

MCBlock == 0..6
MCParent == <<0, 1, 1, 2, 3, 4>>
MCNode == {r0, r1, r2, r3, r4, r5, r6, na, nb, nc, ka, kb}
MCKids == [i \in MCNode |->
  CASE i = r0 -> <<na>> [] i = r1 -> <<na, nb>> [] i = r2 -> <<nc, nc>>
    [] i = r3 -> <<nb, nc>> [] i \in {r4, r5} -> <<nc>> [] i = r6 -> <<nb>>
    [] i = nc -> <<na>> [] OTHER -> <<>>]
MCValueOf == [i \in MCNode |->
  CASE i \in {r0, nb} -> va [] i \in {r2, r4, r5} -> vb [] OTHER -> None]
MCRoot == [b \in MCBlock |-> <<r0, r1, r2, r3, r4, r5, r6>>[b + 1]]
MCChildTries == [i \in MCNode |->
  CASE i \in {r1, r2} -> <<ka>> [] i \in {r4, r5} -> <<kb>> [] OTHER -> <<>>]
=============================================================================
