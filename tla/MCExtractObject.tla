-------------------------- MODULE MCExtractObject --------------------------
(***************************************************************************)
(* extract() of the files of MCObjectOpen, also when memory is short.      *)
(***************************************************************************)
EXTENDS ExtractObject, MCObjectOpen

MCFixProgname == [s \in {".text", "xdp/a"} |-> IF s = "xdp/a" THEN "xdp-a" ELSE s]
=============================================================================
