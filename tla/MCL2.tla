-------------------------------- MODULE MCL2 --------------------------------
(***************************************************************************)
(* Model-checking instance of L2System: two requests that fit a frame and  *)
(* one that is a byte too long.                                            *)
(***************************************************************************)
EXTENDS L2System

CONSTANTS a, b, long

MCRequests == {[id |-> a, len |-> 0], [id |-> b, len |-> l2MaxDataSize],
               [id |-> long, len |-> l2MaxDataSize + 1]}

=============================================================================
