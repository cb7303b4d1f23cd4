---------------------------- MODULE MCDispatcher ----------------------------
(***************************************************************************)
(* A small instance of FcmDispatch for TLC.  Send only compares targets,   *)
(* so of the lists that are the same up to the names of the targets one is *)
(* enough: a target is new only as the successor of the largest before it. *)
(* Returns is a liveness property, so symmetry cannot do this.             *)
(* The second target is a token and the others are FIDs, so that the       *)
(* adapter reorders every batch with more than one of them.                *)
(***************************************************************************)
EXTENDS FcmDispatch

Addresses == 1 .. 4
Bad == {4}
TokenAddresses == {2}

Lists ==
  {list \in UNION {[1 .. n -> 1 .. 3] : n \in 0 .. 3} :
     \A i \in DOMAIN list : list[i] = 1 \/ \E j \in 1 .. i - 1 : list[j] >= list[i] - 1}
  \cup {<<1, 4>>}

==============================================================================
