----------------------------- MODULE MCDownload -----------------------------
(***************************************************************************)
(* The three algorithms of checksumAlgos.                                  *)
(***************************************************************************)
EXTENDS Promote

MCAlgos == <<"sha256", "sha1", "md5">>
=============================================================================
