------------------------------- MODULE MCMuse -------------------------------
(* A small memory for MuseProperties.                                        *)
EXTENDS MuseProperties
=============================================================================
