------------------------ MODULE MCClickHouseBackup ------------------------
(* Instances of ClickHouseBackup for TLC.                                  *)
EXTENDS ClickHouseBackup, TLC

CONSTANT MaxLag   \* bound on the versions the cache is behind (safety only)

MCLag == \A b \in Objects : Len(versions[b]) - seen[b] <= MaxLag

(* No name is contained in another.                                        *)
MCDistinct == {<<b, b>> : b \in Objects}

(* Any two backups are alike.                                              *)
MCSymmetry == Permutations(Objects)
=============================================================================
