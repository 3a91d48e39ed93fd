----------------------------- MODULE MCPullLive -----------------------------
(***************************************************************************)
(* Model values for the liveness run of PullLive.  No symmetry: it is not  *)
(* sound for liveness.                                                     *)
(***************************************************************************)
EXTENDS PullLive

CONSTANTS f1, f2, c1

MCFiles    == {f1, f2}
MCContents == {c1}
LiveFaults == {"put", "residue"}
=============================================================================
