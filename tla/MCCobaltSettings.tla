-------------------------- MODULE MCCobaltSettings --------------------------
(* TLC instances of CobaltSettings.                                        *)
EXTENDS CobaltSettings

(* Every state a cluster settings file can be in.                          *)
AllStatuses == {"missing", "malformed", "ok"}

(* Files that are missing or parse.                                        *)
WellFormed == {"missing", "ok"}

=============================================================================
