-------------------------- MODULE MCInstallDaemon --------------------------
(* Instances of InstallDaemon for TLC. *)
EXTENDS InstallDaemon

AllPhases == <<"prepare", "storage", "image", "configure", "secure_boot", "complete">>

\* The first, a middle and the last phase.
FewPhases == <<"prepare", "image", "complete">>
=============================================================================
