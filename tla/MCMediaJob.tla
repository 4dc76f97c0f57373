------------------------------ MODULE MCMediaJob ------------------------------
(* Small instances of MediaJob for TLC. *)
EXTENDS MediaJob

=============================================================================
