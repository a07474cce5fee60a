--------------------------- MODULE MCOffsetStore ---------------------------
(* Small instances of OffsetStore: one topic and one group, whose consumer *)
(* talks to a committer of its own.                                        *)
EXTENDS OffsetStore, TLC

One == "c1" :> {<<"t", "g1">>}

=============================================================================
