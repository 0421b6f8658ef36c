--------------------------- MODULE MCCobaltDeploy ---------------------------
(* TLC instance of CobaltDeploy: one pinnable version, two invocations. *)
EXTENDS CobaltDeploy

CONSTANTS v1

MCVersions == {v1}
MCMaxInvocations == 2

=============================================================================
