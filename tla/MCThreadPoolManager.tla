------------------------ MODULE MCThreadPoolManager ------------------------
(* ThreadPoolManager on small pools.                                        *)
EXTENDS ThreadPoolManager, TLC

CONSTANTS a, b, t1, t2, t3, t4

MCTypeOf == t1 :> a @@ t2 :> a @@ t3 :> b @@ t4 :> b
MCTypeOf3 == t1 :> a @@ t2 :> a @@ t3 :> b

\* Half of the cap, and a share that stands for all of it.
MCShares == {-1, 1}

\* Tasks of one type are interchangeable.
MCSymmetry == Permutations({t1, t2})

=============================================================================
