------------------------------- MODULE MCReplay -------------------------------
(* A video decided under two source versions, of which one is appealed.     *)
EXTENDS Replay

MCSources == {"v1", "v2"}
MCCases == {<<"v1", "a">>, <<"v2", "a">>}
MCOpen == {<<"v1", "a">>}
MCInconclusive == {d \in Decision : <<"v1", "a">> \notin d.inputs \/ d.own # AsFound}

=============================================================================
