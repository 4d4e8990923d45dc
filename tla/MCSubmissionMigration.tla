----------------------- MODULE MCSubmissionMigration -----------------------
(***************************************************************************)
(* Instances of SubmissionMigration for TLC.                               *)
(***************************************************************************)
EXTENDS SubmissionMigration

CONSTANTS p1, p2, d1, d2

=============================================================================
