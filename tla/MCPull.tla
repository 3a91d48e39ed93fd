------------------------------- MODULE MCPull -------------------------------
(***************************************************************************)
(* Model values and symmetry for the TLC runs of Pull.                     *)
(***************************************************************************)
EXTENDS Pull, TLC

CONSTANTS f1, f2, c1, c2

MCFiles     == {f1, f2}
MCContents  == {c1, c2}
MCOneBody   == {c1}

LocalFaults  == {"exists", "put", "flush", "index"}
RemoteFaults == {"put", "lostack", "bucket"}
NoFaults     == {}
ResidueFault == {"residue"}

(* Files and bodies are interchangeable: no definition names one of them.  *)
Symmetry == Permutations(MCFiles) \cup Permutations(MCContents)
=============================================================================
