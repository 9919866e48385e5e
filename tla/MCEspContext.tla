--------------------------- MODULE MCEspContext ----------------------------
(***************************************************************************)
(* EspContext with a window of four and 4-bit sequence numbers: the window *)
(* index wraps four times before the numbers are used up.                  *)
(***************************************************************************)
EXTENDS EspContext
=============================================================================
