----------------------------- MODULE MCOtaBoot -----------------------------
(***************************************************************************)
(* Builds of both OTA policies, and every fault.                           *)
(***************************************************************************)
EXTENDS OtaBoot

BothPolicies == {"pingpong", "xz"}
AllFaults    == {"boot", "appread", "cfgwrite", "stream", "again"}
=============================================================================
