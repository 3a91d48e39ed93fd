------------------------------ MODULE MCDeposit ------------------------------
(***************************************************************************)
(* Two states whose stations share a cell; the first commit moves the      *)
(* cell's rows, the second brings a station of a third state.              *)
(***************************************************************************)
EXTENDS Deposit

MCStateOrder == <<"ags", "yuc", "zac">>

Before == [state |-> [s1 |-> "ags", s2 |-> "yuc", s3 |-> "yuc"],
           rows  |-> [s1 |-> 1, s2 |-> 1, s3 |-> 1],
           cell  |-> [s1 |-> "c1", s2 |-> "c1", s3 |-> NoCell],
           power |-> [c1 |-> 1, c2 |-> 1],
           runs  |-> 1]
Refetched == [Before EXCEPT !.power.c1 = 2, !.runs = 2]
Grown == [state |-> [s1 |-> "ags", s2 |-> "yuc", s3 |-> "yuc", s4 |-> "zac"],
          rows  |-> [s1 |-> 1, s2 |-> 2, s3 |-> 1, s4 |-> 1],
          cell  |-> [s1 |-> "c1", s2 |-> "c1", s3 |-> "c2", s4 |-> "c2"],
          power |-> [c1 |-> 2, c2 |-> 2],
          runs  |-> 3]
MCViews == <<Before, Refetched, Grown>>

MCDocsFiles == <<"README.md", "DATA-DICTIONARY.json", "LICENSE">>
Request(only, states) == [only |-> only, states |-> states]
MCRequests == {Request({"tabular", "national-csv", "docs"}, {}),
               Request({"json", "national-json"}, {}),
               Request({}, {"ags"})}
=============================================================================
