--------------------------- MODULE MCDgraphBackup ---------------------------
(* Instances of DgraphBackup for TLC.                                      *)
EXTENDS DgraphBackup, TLC

(* The names of exports, in the number a run gives.                        *)
CONSTANT MaxExports   \* bound on the exports that objects record
MCExports == 1 .. MaxExports
MCNoExport == 0
=============================================================================
