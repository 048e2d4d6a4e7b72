---------------------------- MODULE MCPostCache ----------------------------
(***************************************************************************)
(* A small message file and a cache of one post, with crashes.             *)
(***************************************************************************)
EXTENDS PostCache

MCSizes   == {4}
MCLengths == {2, 3}
MCSays    == [n \in 0 .. 1 |-> IF n = 0 THEN "before" ELSE "after"]
MCTexts   == {"before", "after"}
=============================================================================
