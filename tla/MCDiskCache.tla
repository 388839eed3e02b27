----------------------------- MODULE MCDiskCache -----------------------------
EXTENDS DiskCache, TLC

CONSTANTS t1, t2, a, b, raw, na, nraw, ta, traw, j1, j2

\* Two images with one base name, and a raw file, larger than the smaller limit.
MCNameOf == (a :> na) @@ (b :> na) @@ (raw :> nraw)
MCSizeOf == (a :> 1) @@ (b :> 2) @@ (raw :> 3)
MCTempOf == (na :> ta) @@ (nraw :> traw)

\* Tasks, and the names for what they transcode, are alike.
Alike == Permutations({t1, t2}) \cup Permutations({j1, j2})

=============================================================================
