---------------------------- MODULE ClangTidyLint ----------------------------
(***************************************************************************)
(* tools/clang_tidy.py, the later version of the C++ lint script.  Its     *)
(* walk (LintWalk) skips a subdirectory whose name starts with "." or     *)
(* whose path starts with one of SKIP_LINT_DIRS (should_skip_dir); it      *)
(* hands every collected .h file that is not a symbolic link to           *)
(* check-header-guards.py in one call, and runs run-clang-tidy.py on the  *)
(* source and on the test files, each call only when its list is not      *)
(* empty and each failing call adding 1 to the status main returns; the  *)
(* script exits with that status.                                          *)
(*                                                                         *)
(* check-header-guards.py is not in the repository: it is taken to fail   *)
(* exactly when one of the headers it is given has no guard.               *)
(***************************************************************************)
EXTENDS LintWalk

CONSTANTS
    ExitModulus      \* how many process exit statuses there are (2^8 on
                     \* POSIX)

ASSUME ModulusAssumption == ExitModulus \in Nat \ {0}

VARIABLES
    pc,             \* where main is
    status,         \* the status main adds up
    guardChecked,   \* the kinds of header check-header-guards.py was given
    tidied,         \* the files clang-tidy has been run on
    failed,         \* some check has reported a problem
    exitCode        \* the status the process exits with

vars == <<contents, toVisit, sources, tests, pc, status, guardChecked,
          tidied, failed, exitCode>>

TypeOK ==
    /\ WalkTypeOK
    /\ pc \in {"walk", "tidy", "tidy_tests", "exit", "done"}
    /\ status \in 0..3
    /\ guardChecked \subseteq Headers
    /\ tidied \subseteq CompileDb
    /\ failed \in BOOLEAN
    /\ exitCode \in 0..(ExitModulus - 1)

Init ==
    /\ WalkInit
    /\ pc = "walk"
    /\ status = 0
    /\ guardChecked = {}
    /\ tidied = {}
    /\ failed = FALSE
    /\ exitCode = 0

(* should_skip_dir(parent_path, name): a name starting with ".", or a     *)
(* full path that starts with one of SKIP_LINT_DIRS.                       *)
ShouldSkipDir(root, dir) ==
    \/ Last(dir) \in HiddenNames
    \/ \E p \in SKIP_LINT_DIRS : StrPrefix(p, dir)

Walk ==
    /\ pc = "walk"
    /\ WalkStep({c \in DirPaths \ {<<>>} : ShouldSkipDir(Front(c), c)})
    /\ UNCHANGED <<pc, status, guardChecked, tidied, failed, exitCode>>

(* header_files: the collected .h files that are not symbolic links.       *)
HeaderFiles == {f \in Headers : ~f.link}

(* Bug variant: a failed header guard check is not counted.              *)
CheckGuardsNoCount ==
    /\ pc = "walk"
    /\ toVisit = {}
    /\ IF HeaderFiles # {}
         THEN LET ok == \A f \in HeaderFiles : f.guard
              IN  /\ guardChecked' = HeaderFiles
                  /\ failed' = (failed \/ ~ok)
                  /\ UNCHANGED status
         ELSE UNCHANGED <<guardChecked, status, failed>>
    /\ pc' = "tidy"
    /\ UNCHANGED <<contents, toVisit, sources, tests, tidied, exitCode>>

(* check_call([CHECK_HEADER_GUARDS] + header_files) if there are any; a   *)
(* failure adds 1.                                                         *)
CheckGuards ==
    /\ pc = "walk"
    /\ toVisit = {}
    /\ IF HeaderFiles # {}
         THEN LET ok == \A f \in HeaderFiles : f.guard
              IN  /\ guardChecked' = HeaderFiles
                  /\ status' = status + (IF ok THEN 0 ELSE 1)
                  /\ failed' = (failed \/ ~ok)
         ELSE UNCHANGED <<guardChecked, status, failed>>
    /\ pc' = "tidy"
    /\ UNCHANGED <<contents, toVisit, sources, tests, tidied, exitCode>>

(* Bug variant: clang-tidy is called even with an empty list of files.     *)
RunTidyUnguarded(files, next) ==
    /\ \E ok \in BOOLEAN :
         /\ tidied' = tidied \cup TidyTargets(files)
         /\ status' = status + (IF ok THEN 0 ELSE 1)
         /\ failed' = (failed \/ ~ok)
    /\ pc' = next
    /\ UNCHANGED <<contents, toVisit, sources, tests, guardChecked, exitCode>>

(* "if len(files) > 0: check_call(clang_tidy_command + files)"; a failure *)
(* adds 1.                                                                 *)
RunTidy(files, next) ==
    /\ IF files # {}
         THEN \E ok \in BOOLEAN :
                /\ tidied' = tidied \cup TidyTargets(files)
                /\ status' = status + (IF ok THEN 0 ELSE 1)
                /\ failed' = (failed \/ ~ok)
         ELSE UNCHANGED <<tidied, status, failed>>
    /\ pc' = next
    /\ UNCHANGED <<contents, toVisit, sources, tests, guardChecked, exitCode>>

Tidy ==
    /\ pc = "tidy"
    /\ RunTidy(sources, "tidy_tests")

TidyTests ==
    /\ pc = "tidy_tests"
    /\ RunTidy(tests, "exit")

(* exit(main()): the status modulo ExitModulus, its low 8 bits.           *)
Exit ==
    /\ pc = "exit"
    /\ exitCode' = status % ExitModulus
    /\ pc' = "done"
    /\ UNCHANGED <<contents, toVisit, sources, tests, status, guardChecked,
                   tidied, failed>>

Next ==
    \/ Walk
    \/ CheckGuards
    \/ Tidy
    \/ TidyTests
    \/ Exit

Spec == Init /\ [][Next]_vars

-----------------------------------------------------------------------------
(* The refinement mapping onto LintCheck: the walk collects, the guard    *)
(* check and the clang-tidy calls check, and exit ends it.                 *)
phaseBar ==
    CASE pc = "walk" -> "collect"
      [] pc = "done" -> "exited"
      [] OTHER       -> "check"

Promise == INSTANCE LintCheck
             WITH Allowed <- {f \in FileSpecs : ~InSkipped(f.dir)},
                  phase <- phaseBar, checked <- guardChecked \cup tidied,
                  problem <- failed, exitStatus <- exitCode

(* KeepsPromise: the script implements LintCheck -- it checks only files  *)
(* outside the skipped directories, only after the walk, never forgets a *)
(* reported problem, and exits 0 exactly when none was reported.          *)
KeepsPromise == Promise!Spec

(* SkippedNeverLinted: no file below SKIP_LINT_DIRS or a "." directory     *)
(* is handed to check-header-guards.py or run through clang-tidy.         *)
SkippedNeverLinted ==
    \A f \in guardChecked \cup tidied : ~InSkipped(f.dir)

(* EveryFileLinted: when the script is done, every .h file outside the     *)
(* skipped directories that is not a link has had its guard checked, and *)
(* every compiled file outside them has been run through clang-tidy.      *)
EveryFileLinted ==
    pc = "done" =>
        \A f \in FileSpecs :
            contents[f] > 0 /\ IsSource(f) /\ ~InSkipped(f.dir) =>
                /\ f.ext = "h" /\ ~f.link => f \in guardChecked
                /\ f.compiled => f \in tidied

(* ExitHonest: the script exits with status 0 only if every header has a  *)
(* guard and clang-tidy reported nothing.                                  *)
ExitHonest ==
    pc = "done" /\ exitCode = 0 => ~failed

=============================================================================
