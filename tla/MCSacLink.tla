------------------------------ MODULE MCSacLink ------------------------------
(* Two workers on one connection, for SacLinkProperties.                     *)
EXTENDS SacLinkProperties
=============================================================================
