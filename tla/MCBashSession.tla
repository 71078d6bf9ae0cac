--------------------------- MODULE MCBashSession ---------------------------
(***************************************************************************)
(* Small instance of BashSession.                                          *)
(***************************************************************************)
EXTENDS BashSession
=============================================================================
