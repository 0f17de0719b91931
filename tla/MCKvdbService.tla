--------------------------- MODULE MCKvdbService ---------------------------
(* Small instances of KvdbService for TLC.  The values of the first are    *)
(* compared rightly with the files, those of the second are not: its two   *)
(* values of two buffers start with the same buffer.                       *)
EXTENDS KvdbService

CONSTANTS a, b

MCNodeSize == <<1, 2>>
MCBuffers == {a, b}
MCValues == {<<>>, <<b>>, <<a, b>>}
MCLongValues == {<<>>, <<a, a>>, <<a, b>>}
=============================================================================
