----------------------------- MODULE MCArchiver -----------------------------
(* The source's 256-block window, 512-block scan, 192-block gap and 32-block *)
(* skew, scaled down so that the distances between them are as tight as the  *)
(* argument for NoSilentMiss allows.                                         *)
EXTENDS Archiver
=============================================================================
