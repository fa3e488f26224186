---------------------------- MODULE MCLifecycle ----------------------------
(* TLC instances of Lifecycle: one folder, with filters, that contains the   *)
(* configuration file, as the one has in which syncd-go is installed.        *)
EXTENDS Lifecycle

MCFolders == {"home"}
=============================================================================
