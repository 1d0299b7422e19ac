--------------------------- MODULE MCSitesGateway ---------------------------
(***************************************************************************)
(* SitesGateway on a small instance: two handlers editing two domains under *)
(* two certificates, giving up at the second conflict.                      *)
(***************************************************************************)
EXTENDS SitesGateway
=============================================================================
