------------------------- MODULE MCSchedulerService -------------------------
EXTENDS SchedulerService, TLC

CONSTANTS scan, media, s1, s2, m1, i1, fs

MCJobOf == (s1 :> scan) @@ (s2 :> scan) @@ (m1 :> media)
MCTypeOfJob == [j \in {scan, media} |-> fs]

=============================================================================
