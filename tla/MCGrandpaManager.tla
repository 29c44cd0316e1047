-------------------------- MODULE MCGrandpaManager --------------------------
(***************************************************************************)
(* A set of voters that finalizes its change of authorities, block 1, in   *)
(* its first round, and three rounds of the next set, of which the last is *)
(* not over yet.                                                           *)
(***************************************************************************)
EXTENDS GrandpaManager

CONSTANTS u

MCRounds ==
  << [set |-> 0, number |-> 1, block |-> 1],
     [set |-> 1, number |-> 1, block |-> 2],
     [set |-> 1, number |-> 2, block |-> 3],
     [set |-> 1, number |-> 3, block |-> 3] >>
=============================================================================
