---------------------------- MODULE MCTestRunner ----------------------------
(* TLC instance of TestRunner: every filter and flag combination.          *)
EXTENDS TestRunner

MCMaxTries == 3

=============================================================================
