------------------------ MODULE MCProcessTreeWrapper ------------------------
(* ProcessTreeWrapper with the values and the sums of MCProcessTree, and negative counts. *)
EXTENDS ProcessTreeWrapper, MCProcessTree

MCCounts == {-1, 1, 3}
=============================================================================
