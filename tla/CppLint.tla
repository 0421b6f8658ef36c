------------------------------- MODULE CppLint -------------------------------
(***************************************************************************)
(* The lint command of the Cobalt command-line tool: cobaltb.py _lint     *)
(* adds the status of tools/cpplint.py main() and of golint.main() and    *)
(* exits with the sum.                                                     *)
(*                                                                         *)
(* cpplint.main walks the tree (LintWalk), skipping a subdirectory whose  *)
(* name starts with "." or whose path is one of SKIP_LINT_DIRS; checks    *)
(* the header guard of every collected .h file, adding 1 to the status    *)
(* for each one without; then runs run-clang-tidy.py on the source files  *)
(* and, with relaxed checks, on the test files, adding 1 for each run     *)
(* that fails.  golint is not in the repository: its status is one of     *)
(* GolintResults.                                                          *)
(***************************************************************************)
EXTENDS LintWalk

CONSTANTS
    ExitModulus,     \* how many process exit statuses there are (2^8 on
                     \* POSIX)
    GolintResults    \* the statuses golint.main() may return

ASSUME LintAssumption ==
    ExitModulus \in Nat \ {0} /\ GolintResults \subseteq Nat /\ 0 \in GolintResults

VARIABLES
    pc,             \* where _lint is
    status,         \* the status cpplint.main and then _lint add up
    guardChecked,   \* the kinds of header has_guard was called on
    tidied,         \* the files clang-tidy has been run on
    failed,         \* some check has reported a problem
    exitCode        \* the status the process exits with

vars == <<contents, toVisit, sources, tests, pc, status, guardChecked,
          tidied, failed, exitCode>>

TypeOK ==
    /\ WalkTypeOK
    /\ pc \in {"walk", "tidy_tests", "golint", "done"}
    /\ status \in Nat
    /\ guardChecked \subseteq Headers
    /\ tidied \subseteq CompileDb
    /\ failed \in BOOLEAN
    /\ exitCode \in 0..(ExitModulus - 1)

Init ==
    /\ WalkInit
    /\ pc = "walk"
    /\ status = 0
    /\ guardChecked = {}
    /\ tidied = {}
    /\ failed = FALSE
    /\ exitCode = 0

(* Bug variant: the prefix test of clang_tidy.py's should_skip_dir.        *)
CppSkipPrefix(root, dir) ==
    Last(dir) \in HiddenNames \/ \E p \in SKIP_LINT_DIRS : StrPrefix(p, dir)

(* cpplint's rule: skip a directory starting with "." or whose joined      *)
(* path is in SKIP_LINT_DIRS.                                              *)
CppSkip(root, dir) ==
    Last(dir) \in HiddenNames \/ dir \in SKIP_LINT_DIRS

Walk ==
    /\ pc = "walk"
    /\ WalkStep({c \in DirPaths \ {<<>>} : CppSkip(Front(c), c)})
    /\ UNCHANGED <<pc, status, guardChecked, tidied, failed, exitCode>>

(* has_guard(f): a symbolic link passes; otherwise the #ifndef, #define    *)
(* and #endif lines must carry the guard named after the path.            *)
HasGuard(f) == f.link \/ f.guard

(* Bug variant: a header without guard is reported but not counted.       *)
GuardCheckNoCount ==
    /\ pc = "walk"
    /\ toVisit = {}
    /\ \E f \in Headers \ guardChecked :
         /\ guardChecked' = guardChecked \cup {f}
         /\ failed' = (failed \/ ~HasGuard(f))
         /\ UNCHANGED status
    /\ UNCHANGED <<contents, toVisit, sources, tests, pc, tidied, exitCode>>

(* "for f in clang_tidy_files + clang_tidy_test_files: if f.endswith('.h')*)
(* and not has_guard(f): status += 1", for all the headers of one kind.   *)
GuardCheck ==
    /\ pc = "walk"
    /\ toVisit = {}
    /\ \E f \in Headers \ guardChecked :
         /\ guardChecked' = guardChecked \cup {f}
         /\ failed' = (failed \/ ~HasGuard(f))
         /\ status' = status + (IF HasGuard(f) THEN 0 ELSE contents[f])
    /\ UNCHANGED <<contents, toVisit, sources, tests, pc, tidied, exitCode>>

(* check_call(clang_tidy_command + files); a failure adds 1.               *)
RunTidy(files, next) ==
    /\ \E ok \in BOOLEAN :
         /\ tidied' = tidied \cup TidyTargets(files)
         /\ status' = status + (IF ok THEN 0 ELSE 1)
         /\ failed' = (failed \/ ~ok)
    /\ pc' = next
    /\ UNCHANGED <<contents, toVisit, sources, tests, guardChecked, exitCode>>

(* clang-tidy on clang_tidy_files, once every header was checked.          *)
Tidy ==
    /\ pc = "walk"
    /\ toVisit = {}
    /\ Headers \subseteq guardChecked
    /\ RunTidy(sources, "tidy_tests")

(* clang-tidy with TEST_FILE_CLANG_TIDY_CHECKS on clang_tidy_test_files;   *)
(* cpplint.main returns status.                                            *)
TidyTests ==
    /\ pc = "tidy_tests"
    /\ RunTidy(tests, "golint")

(* _lint: status += golint.main(); exit(status), whose value modulo       *)
(* ExitModulus (its low 8 bits) is the process's exit status.             *)
LintExit ==
    /\ pc = "golint"
    /\ \E g \in GolintResults :
         /\ status' = status + g
         /\ failed' = (failed \/ g # 0)
         /\ exitCode' = (status + g) % ExitModulus
    /\ pc' = "done"
    /\ UNCHANGED <<contents, toVisit, sources, tests, guardChecked, tidied>>

Next ==
    \/ Walk
    \/ GuardCheck
    \/ Tidy
    \/ TidyTests
    \/ LintExit

Spec == Init /\ [][Next]_vars

-----------------------------------------------------------------------------
(* SkippedNeverLinted: no file below SKIP_LINT_DIRS or a "." directory     *)
(* has its header guard checked or clang-tidy run on it (the walk prunes  *)
(* those directories so that out/, sysroot/ and third_party/ are not      *)
(* linted).                                                                *)
SkippedNeverLinted ==
    \A f \in guardChecked \cup tidied : ~InSkipped(f.dir)

(* EveryFileLinted: when lint is done, every .h file outside the skipped   *)
(* directories that is not a link has had its guard checked, and every    *)
(* compiled file outside them has been run through clang-tidy.            *)
EveryFileLinted ==
    pc = "done" =>
        \A f \in FileSpecs :
            contents[f] > 0 /\ IsSource(f) /\ ~InSkipped(f.dir) =>
                /\ f.ext = "h" /\ ~f.link => f \in guardChecked
                /\ f.compiled => f \in tidied

(* ExitHonest: the lint command exits with status 0 only if no header     *)
(* guard was missing and clang-tidy and golint reported nothing.          *)
ExitHonest ==
    pc = "done" /\ exitCode = 0 => ~failed

=============================================================================
