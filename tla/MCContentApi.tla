---------------------------- MODULE MCContentApi ----------------------------
(***************************************************************************)
(* Instances of ContentApi: the books and groupings of MCBookProcess, with *)
(* the abstract specification that BookProcess implements beside it.       *)
(***************************************************************************)
EXTENDS ContentApi, MCBookProcess, BookInvariants
=============================================================================
