------------------------------ MODULE MCPacing ------------------------------
(***************************************************************************)
(* Small samples for the TLC runs of Pacing: below the floor, between the  *)
(* bounds, above the cap, and negative as a Normal deviate may be.  The    *)
(* cap of the runs lies under the floor, a config Validate never saw.      *)
(***************************************************************************)
EXTENDS Pacing

MCSamples == {-2, 1, 4, 9}
MCLags    == {0, 1}
=============================================================================
