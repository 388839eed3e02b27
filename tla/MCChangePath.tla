---------------------------- MODULE MCChangePath ----------------------------
EXTENDS ChangePath

CONSTANTS home, new, f1, f2, c1, c2

\* The drive was mounted elsewhere; one file was copied and is still at home.
MCOnDisk == ({new} \X Files) \cup {<<home, f1>>}

MCRequests == {<<home, new>>}

MCTables == <<"image_artifacts", "duplicate_members">>

=============================================================================
