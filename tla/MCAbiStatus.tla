------------------------------ MODULE MCAbiStatus ------------------------------
(***************************************************************************)
(* Two threads, so that a message or a mark could be another's; three calls*)
(* each, so that one may exhaust the device, one stop before the mark is   *)
(* cleared, and one follow both.                                           *)
(***************************************************************************)
EXTENDS AbiStatus
=============================================================================
