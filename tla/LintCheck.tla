----------------------------- MODULE LintCheck -----------------------------
(***************************************************************************)
(* What the C++ lint script tools/clang_tidy.py promises: it first         *)
(* collects the files to lint, then hands some of them to its checkers,   *)
(* never a file outside the set it may lint, and remembers every problem  *)
(* a checker reports; it exits with status 0 exactly when no checker      *)
(* reported a problem.                                                     *)
(*                                                                         *)
(* This is the abstract view; ClangTidyLint is the step-by-step model of  *)
(* the script and is shown to implement it.                               *)
(***************************************************************************)
EXTENDS Naturals

CONSTANT Allowed     \* the files the script may lint

VARIABLES
    phase,           \* "collect", "check" or "exited"
    checked,         \* the files a checker has been run on
    problem,         \* some checker has reported a problem
    exitStatus       \* the status the process exits with

vars == <<phase, checked, problem, exitStatus>>

TypeOK ==
    /\ phase \in {"collect", "check", "exited"}
    /\ checked \subseteq Allowed
    /\ problem \in BOOLEAN
    /\ exitStatus \in Nat

Init ==
    /\ phase = "collect"
    /\ checked = {}
    /\ problem = FALSE
    /\ exitStatus = 0

(* Once collection is over, one checker is run on some of the files it    *)
(* may lint, and may report a problem.                                     *)
Check ==
    /\ phase \in {"collect", "check"}
    /\ phase' = "check"
    /\ checked \subseteq checked' /\ checked' \subseteq Allowed
    /\ problem' \in BOOLEAN /\ (problem => problem')
    /\ UNCHANGED exitStatus

(* The script exits: status 0 exactly when no problem was reported.       *)
Exit ==
    /\ phase = "check"
    /\ phase' = "exited"
    /\ exitStatus' \in Nat
    /\ exitStatus' = 0 <=> ~problem
    /\ UNCHANGED <<checked, problem>>

Next == Check \/ Exit

Spec == Init /\ [][Next]_vars

=============================================================================
