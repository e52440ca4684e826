-------------------------- MODULE MCBackgroundJobs --------------------------
(* Instances of BackgroundJobs for TLC.                                    *)
EXTENDS BackgroundJobs
=============================================================================
