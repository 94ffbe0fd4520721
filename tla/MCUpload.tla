------------------------------ MODULE MCUpload ------------------------------
(***************************************************************************)
(* Two contents of one size, a longer one and one of no bytes.             *)
(***************************************************************************)
EXTENDS Upload

MCContents == {"a", "b", "long", "none"}
MCSize == [c \in MCContents |-> CASE c = "long" -> 2 [] c = "none" -> 0 [] OTHER -> 1]
=============================================================================
