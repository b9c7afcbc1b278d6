----------------------------- MODULE MCDataFiles -----------------------------
(* Instances of DataFiles for TLC. *)
EXTENDS DataFiles

Setting(id, fits, images, triggers, perFile, remove, enabled) ==
    [hasId |-> id, fits |-> fits, numImages |-> images, numTriggers |-> triggers,
     imagesPerFile |-> perFile, remove |-> remove, enabled |-> enabled]

(* Files that are full, not full and of no size; a product that overflows; *)
(* patterns with and without $id, and too long; one and several thresholds.*)
SomeSettings ==
    {Setting(TRUE, TRUE, 3, 1, 2, TRUE, {1}), Setting(FALSE, TRUE, 1, 1, 2, FALSE, {1}),
     Setting(TRUE, TRUE, 1, 2, 1, FALSE, {1, 2}),
     Setting(TRUE, TRUE, 1, 1, 2, TRUE, {2}),
     Setting(TRUE, TRUE, 1, 1, 2, TRUE, {1, 3}),
     Setting(TRUE, TRUE, 2, 1, 0, TRUE, {1}),
     Setting(TRUE, TRUE, 2, 2, 2, TRUE, {1}),
     Setting(TRUE, FALSE, 1, 1, 2, FALSE, {1})}
AllModels == {"Eiger1", "Eiger2", "Pilatus4"}
=============================================================================
