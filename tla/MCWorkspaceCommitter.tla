------------------------ MODULE MCWorkspaceCommitter ------------------------
(* One batch with a duplicate, one of two targets and one of three. *)
EXTENDS WorkspaceCommitter

CONSTANTS f1, f2, f3

MCBatches == {<<f1, f2, f1>>, <<f1, f2>>, <<f1, f2, f3>>}
=============================================================================
