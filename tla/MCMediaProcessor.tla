-------------------------- MODULE MCMediaProcessor --------------------------
(* MediaProcessor with one image and one video, a few threads and a bounded *)
(* number of content changes, stops, resets and configuration changes.      *)
EXTENDS MediaProcessor, TLC

CONSTANTS img, vid, w1, w2, j1, j2

MCRow == [f \in Files |-> IF f = img THEN 1 ELSE 2]
MCCodes == {-1}

MCSymmetry == Permutations({w1, w2}) \cup Permutations({j1, j2})

=============================================================================
