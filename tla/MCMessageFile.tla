--------------------------- MODULE MCMessageFile ---------------------------
(***************************************************************************)
(* The message file on small instances.                                    *)
(***************************************************************************)
EXTENDS MessageFile

MCSizes   == {5, 7}
MCLengths == {2, 3}
=============================================================================
