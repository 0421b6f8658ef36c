------------------------ MODULE ClangTidyLintProofs ------------------------
(***************************************************************************)
(* Proofs about ClangTidyLint (tools/clang_tidy.py), for every source      *)
(* tree: the script keeps its variables well typed, never hands a file    *)
(* below a skipped directory to check-header-guards.py or clang-tidy, and *)
(* exits 0 only when no check reported a problem, as long as an exit      *)
(* status can hold the largest sum main adds up (3).                       *)
(***************************************************************************)
EXTENDS ClangTidyLint, TLAPS

USE TreeAssumption, ModulusAssumption

(* The strengthening of the walk: os.walk is only left to yield           *)
(* directories outside the skipped ones, and every collected file exists  *)
(* and lies outside them.                                                  *)
WalkOK ==
    /\ \A d \in toVisit : ~InSkipped(d)
    /\ \A f \in sources \cup tests : contents[f] > 0 /\ ~InSkipped(f.dir)

(* What main has done at each point: nothing is checked during the walk; *)
(* only collected files are checked; each check adds at most 1 to the     *)
(* status and a reported problem always adds 1; the exit status is the    *)
(* status modulo ExitModulus.                                              *)
MainOK ==
    /\ pc = "walk" =>
          status = 0 /\ ~failed /\ guardChecked = {} /\ tidied = {}
    /\ guardChecked \cup tidied \subseteq sources \cup tests
    /\ pc = "tidy" => status <= 1
    /\ pc = "tidy_tests" => status <= 2
    /\ failed => status >= 1
    /\ pc = "done" => exitCode = status % ExitModulus

IInv == TypeOK /\ WalkOK /\ MainOK

(* A string prefix test of a path against itself holds: every one of      *)
(* SKIP_LINT_DIRS starts with itself.                                      *)
LEMMA StrPrefixRefl ==
    ASSUME NEW c \in Seq(STRING), Len(c) >= 1
    PROVE  StrPrefix(c, c)
BY DEF StrPrefix, IsPrefix, Front, Last

(* should_skip_dir prunes enough: a child that is not pruned, of a        *)
(* directory outside the skipped ones, is outside them too.  Its proper   *)
(* prefixes are its parent's, and the child itself would be pruned if it   *)
(* were one of SKIP_LINT_DIRS or had a name starting with ".".             *)
LEMMA PruneSound ==
    ASSUME NEW c \in Seq(STRING), Len(c) >= 1,
           ~InSkipped(Front(c)), ~ShouldSkipDir(Front(c), c)
    PROVE  ~InSkipped(c)
<1> SUFFICES ASSUME NEW k \in 1..Len(c),
                    SubSeq(c, 1, k) \in SKIP_LINT_DIRS \/ c[k] \in HiddenNames
             PROVE  FALSE
  BY DEF InSkipped
<1>1. CASE k < Len(c)
  <2>1. /\ k \in 1..Len(Front(c))
        /\ SubSeq(Front(c), 1, k) = SubSeq(c, 1, k)
        /\ Front(c)[k] = c[k]
    BY <1>1 DEF Front
  <2>2. QED
    BY <2>1 DEF InSkipped
<1>2. CASE k = Len(c)
  <2>1. SubSeq(c, 1, k) = c /\ c[k] = Last(c)
    BY <1>2 DEF Last
  <2>2. QED
    BY <2>1, StrPrefixRefl DEF ShouldSkipDir
<1>3. QED
  BY <1>1, <1>2

(* The directory os.walk yields next.                                      *)
Root == CHOOSE d \in toVisit : TRUE

(* One iteration of the walk, as the sets it changes.                     *)
LEMMA WalkFacts ==
    ASSUME Walk
    PROVE  /\ Root \in toVisit
           /\ toVisit' = (toVisit \ {Root}) \cup
                  (Children(Root) \ {c \in DirPaths \ {<<>>} :
                                        ShouldSkipDir(Front(c), c)})
           /\ sources' = sources \cup
                  {f \in FilesIn(Root) : IsSource(f) /\ ~IsTest(f)}
           /\ tests' = tests \cup {f \in FilesIn(Root) : IsTest(f)}
           /\ pc = "walk"
           /\ UNCHANGED <<contents, pc, status, guardChecked, tidied, failed,
                          exitCode>>
BY DEF Walk, WalkStep, Classify, Root

(* Walk: the children kept in dirs are outside the skipped directories,   *)
(* and the files of the directory yielded are collected.                   *)
LEMMA WalkStepOK == IInv /\ Walk => IInv'
<1> SUFFICES ASSUME IInv, Walk PROVE IInv'
  OBVIOUS
<1>1. /\ Root \in toVisit /\ ~InSkipped(Root) /\ Root \in DirPaths
      /\ Root \in Seq(STRING)
  BY WalkFacts DEF IInv, WalkOK, TypeOK, WalkTypeOK
<1>2. \A c \in toVisit' : ~InSkipped(c) /\ c \in DirPaths
  <2>1. SUFFICES ASSUME NEW c \in Children(Root),
                        c \notin {c2 \in DirPaths \ {<<>>} :
                                    ShouldSkipDir(Front(c2), c2)}
                 PROVE  ~InSkipped(c) /\ c \in DirPaths
    BY WalkFacts DEF IInv, WalkOK, TypeOK, WalkTypeOK
  <2>2. c \in DirPaths /\ c \in Seq(STRING) /\ Len(c) >= 1 /\ Front(c) = Root
    BY <1>1 DEF Children
  <2>3. ~ShouldSkipDir(Front(c), c)
    <3>1. c \in DirPaths \ {<<>>}
      BY <2>2
    <3>2. QED
      BY <2>1, <3>1, Zenon
  <2>4. QED
    BY <1>1, <2>2, <2>3, PruneSound
<1>3. \A f \in sources' \cup tests' : contents'[f] > 0 /\ ~InSkipped(f.dir)
  BY <1>1, WalkFacts DEF IInv, WalkOK, FilesIn
<1>4. WalkTypeOK'
  BY <1>2, WalkFacts DEF IInv, TypeOK, WalkTypeOK, FilesIn
<1>5. QED
  BY <1>2, <1>3, <1>4, WalkFacts
     DEF IInv, TypeOK, WalkOK, MainOK, Headers, CompileDb

(* check-header-guards.py is given the collected headers that are not     *)
(* links, once, and adds 1 when it fails.                                  *)
LEMMA CheckGuardsStep == IInv /\ CheckGuards => IInv'
<1> SUFFICES ASSUME IInv, CheckGuards PROVE IInv'
  OBVIOUS
<1>1. pc = "walk" /\ pc' = "tidy" /\ status = 0 /\ failed = FALSE
  BY DEF CheckGuards, IInv, MainOK, TypeOK
<1>2. HeaderFiles \subseteq Headers /\ Headers \subseteq sources \cup tests
  BY DEF HeaderFiles, Headers
<1>3. CASE HeaderFiles # {}
  <2>1. /\ guardChecked' = HeaderFiles
        /\ status' \in {0, 1}
        /\ failed' => status' = 1
        /\ failed' \in BOOLEAN
    <3>1. CASE \A f \in HeaderFiles : f.guard
      <4>1. guardChecked' = HeaderFiles /\ status' = status + 0 /\ failed' = FALSE
        BY <1>1, <1>3, <3>1, Zenon DEF CheckGuards
      <4>2. status' \in {0, 1}
        BY <1>1, <4>1
      <4>3. QED
        BY <4>1, <4>2, Zenon
    <3>2. CASE ~\A f \in HeaderFiles : f.guard
      <4>1. guardChecked' = HeaderFiles /\ status' = status + 1 /\ failed' = TRUE
        <5>1. failed' = (failed \/ ~(\A f \in HeaderFiles : f.guard))
          BY <1>3 DEF CheckGuards
        <5>2. QED
          BY <1>1, <1>3, <3>2, <5>1 DEF CheckGuards
      <4>2. status' = 1
        BY <1>1, <4>1
      <4>3. QED
        BY <4>1, <4>2, Zenon
    <3>3. QED
      BY <3>1, <3>2
  <2>2. UNCHANGED <<contents, toVisit, sources, tests, tidied, exitCode>>
    BY DEF CheckGuards
  <2>3. TypeOK'
    BY <1>1, <1>2, <2>1, <2>2 DEF IInv, TypeOK, WalkTypeOK, Headers, CompileDb
  <2>4. WalkOK'
    BY <2>2 DEF IInv, WalkOK
  <2>5. MainOK'
    BY <1>1, <1>2, <2>1, <2>2 DEF IInv, MainOK
  <2>6. QED
    BY <2>3, <2>4, <2>5 DEF IInv
<1>4. CASE HeaderFiles = {}
  BY <1>1, <1>4
     DEF CheckGuards, IInv, TypeOK, WalkTypeOK, WalkOK, MainOK, Headers,
         CompileDb
<1>5. QED
  BY <1>3, <1>4

(* clang-tidy is run on a non-empty list of collected files, and only the *)
(* compiled ones among them; a failure adds 1.                             *)
LEMMA RunTidyStep ==
    ASSUME IInv, NEW files, files \subseteq sources \cup tests, NEW next,
           RunTidy(files, next)
    PROVE  /\ tidied' \subseteq sources \cup tests
           /\ tidied' \subseteq CompileDb
           /\ status' \in {status, status + 1}
           /\ failed' => status' >= 1
           /\ failed' \in BOOLEAN
           /\ pc' = next
           /\ UNCHANGED <<contents, toVisit, sources, tests, guardChecked,
                          exitCode>>
<1>1. /\ tidied \subseteq sources \cup tests /\ tidied \subseteq CompileDb
      /\ status \in Nat /\ (failed => status >= 1)
      /\ \A f \in sources \cup tests : contents[f] > 0
      /\ sources \cup tests \subseteq FileSpecs /\ failed \in BOOLEAN
  BY DEF IInv, TypeOK, WalkTypeOK, MainOK, WalkOK
<1>2. CASE files # {}
  <2>1. TidyTargets(files) \subseteq files \cap CompileDb
    BY <1>1, <1>2 DEF TidyTargets, CompileDb
  <2>2. PICK ok \in BOOLEAN :
          /\ tidied' = tidied \cup TidyTargets(files)
          /\ status' = status + (IF ok THEN 0 ELSE 1)
          /\ failed' = (failed \/ ~ok)
    BY <1>2 DEF RunTidy
  <2>3. tidied' \subseteq sources \cup tests /\ tidied' \subseteq CompileDb
    BY <1>1, <2>1, <2>2 DEF CompileDb
  <2>4. status' \in {status, status + 1} /\ (failed' => status' >= 1)
    <3>1. CASE ok
      BY <1>1, <2>2, <3>1
    <3>2. CASE ~ok
      BY <1>1, <2>2, <3>2
    <3>3. QED
      BY <3>1, <3>2
  <2>5. failed' \in BOOLEAN
    BY <1>1, <2>2, Zenon
  <2>6. QED
    BY <2>3, <2>4, <2>5 DEF RunTidy
<1>3. CASE files = {}
  BY <1>1, <1>3 DEF RunTidy, CompileDb
<1>4. QED
  BY <1>2, <1>3

(* Tidy, TidyTests: clang-tidy on the source files, then on the tests.     *)
LEMMA TidyStepOK == IInv /\ (Tidy \/ TidyTests) => IInv'
<1> SUFFICES ASSUME IInv, Tidy \/ TidyTests PROVE IInv'
  OBVIOUS
<1>1. /\ \E files \in {sources, tests} : \E next \in {"tidy_tests", "exit"} :
           RunTidy(files, next)
      /\ pc \in {"tidy", "tidy_tests"}
      /\ pc = "tidy" => pc' = "tidy_tests"
      /\ pc = "tidy_tests" => pc' = "exit"
  BY DEF Tidy, TidyTests, RunTidy
<1>2. PICK files \in {sources, tests}, next \in {"tidy_tests", "exit"} :
        RunTidy(files, next)
  BY <1>1
<1>3. /\ tidied' \subseteq sources \cup tests
      /\ tidied' \subseteq CompileDb
      /\ status' \in {status, status + 1}
      /\ failed' => status' >= 1
      /\ failed' \in BOOLEAN
      /\ UNCHANGED <<contents, toVisit, sources, tests, guardChecked, exitCode>>
  BY <1>2, RunTidyStep
<1>4. status \in 0..2 /\ (pc = "tidy" => status <= 1)
  BY <1>1 DEF IInv, TypeOK, MainOK
<1>5. TypeOK'
  BY <1>1, <1>3, <1>4 DEF IInv, TypeOK, WalkTypeOK, Headers, CompileDb
<1>6. QED
  BY <1>1, <1>3, <1>4, <1>5 DEF IInv, WalkOK, MainOK

(* Exit: the exit status is the status modulo ExitModulus.                 *)
LEMMA ExitStep == IInv /\ Exit => IInv'
<1> SUFFICES ASSUME IInv, Exit PROVE IInv'
  OBVIOUS
<1>1. status \in Nat /\ exitCode' = status % ExitModulus
  BY DEF Exit, IInv, TypeOK
<1>2. exitCode' \in 0..(ExitModulus - 1)
  BY <1>1
<1>3. QED
  BY <1>1, <1>2 DEF Exit, IInv, TypeOK, WalkTypeOK, Headers, CompileDb, WalkOK, MainOK

(* The initial state satisfies the strengthening: os.walk starts at       *)
(* SRC_ROOT_DIR, which is not skipped, with nothing collected.             *)
LEMMA IInvInit == Init => IInv
<1> SUFFICES ASSUME Init PROVE IInv
  OBVIOUS
<1>1. ~InSkipped(<<>>)
  BY DEF InSkipped
<1>2. exitCode \in 0..(ExitModulus - 1)
  BY DEF Init
<1>3. TypeOK
  <2>1. failed \in BOOLEAN
    BY Zenon DEF Init
  <2>2. QED
    BY <1>2, <2>1 DEF Init, WalkInit, TypeOK, WalkTypeOK, Headers, CompileDb
<1>4. WalkOK
  BY <1>1 DEF Init, WalkInit, WalkOK
<1>5. MainOK
  BY Zenon DEF Init, WalkInit, MainOK
<1>6. QED
  BY <1>3, <1>4, <1>5 DEF IInv

(* Every step of main preserves the strengthening.                         *)
LEMMA IInvStep == IInv /\ [Next]_vars => IInv'
<1> SUFFICES ASSUME IInv, [Next]_vars PROVE IInv'
  OBVIOUS
<1>1. CASE UNCHANGED vars
  BY <1>1 DEF vars, IInv, TypeOK, WalkTypeOK, WalkOK, MainOK, Headers, CompileDb
<1>2. QED
  BY <1>1, WalkStepOK, CheckGuardsStep, TidyStepOK, ExitStep DEF Next

(* TypeCorrect: every state of tools/clang_tidy.py is well typed.         *)
THEOREM TypeCorrect == Spec => []TypeOK
<1>1. IInv => TypeOK
  BY DEF IInv
<1>2. QED
  BY <1>1, IInvInit, IInvStep, PTL DEF Spec

(* SkippedNeverLintedTheorem: for every source tree, should_skip_dir      *)
(* prunes enough that no file below SKIP_LINT_DIRS or a "." directory     *)
(* reaches check-header-guards.py or clang-tidy; the run checks it on one *)
(* tree, where outputs/ starts with the skipped "out".                     *)
THEOREM SkippedNeverLintedTheorem == Spec => []SkippedNeverLinted
<1>1. IInv => SkippedNeverLinted
  BY DEF IInv, WalkOK, MainOK, SkippedNeverLinted
<1>2. QED
  BY <1>1, IInvInit, IInvStep, PTL DEF Spec

(* ExitHonestTheorem: when an exit status can hold 0..3 (it holds 0..255), *)
(* the script exits 0 only if no check reported a problem: each reported  *)
(* problem adds 1 to the status, and main adds at most 3.                 *)
(* A status of at most 3 is its own remainder modulo a larger modulus.     *)
LEMMA SmallModulo ==
    ASSUME NEW m \in Nat, m > 3, NEW n \in 0..3
    PROVE  n % m = n
<1>1. n \in 0..(m - 1)
  OBVIOUS
<1>2. QED
  BY <1>1, SMTT(30)

THEOREM ExitHonestTheorem ==
    ASSUME ExitModulus > 3
    PROVE  Spec => []ExitHonest
<1>1. IInv => ExitHonest
  <2> SUFFICES ASSUME IInv, pc = "done", exitCode = 0 PROVE ~failed
    BY DEF ExitHonest
  <2>1. status \in 0..3 /\ status % ExitModulus = 0 /\ failed \in BOOLEAN
    BY DEF IInv, TypeOK, MainOK
  <2>2. status = 0
    <3>1. status % ExitModulus = status
      BY <2>1, SmallModulo, ModulusAssumption
    <3>2. QED
      BY <2>1, <3>1
  <2>3. failed => status >= 1
    BY DEF IInv, MainOK
  <2>4. QED
    BY <2>1, <2>2, <2>3
<1>2. QED
  BY <1>1, IInvInit, IInvStep, PTL DEF Spec

-----------------------------------------------------------------------------
(* The converse of MainOK's "failed => status >= 1": main only adds to the *)
(* status when a check failed, so a positive status means a reported       *)
(* problem.                                                                *)
FailOK == status >= 1 => failed

(* A check that adds 1 to the status exactly when it fails, and records   *)
(* the failure, keeps FailOK and never forgets an earlier problem.        *)
LEMMA AddCheck ==
    ASSUME NEW s \in Nat, NEW fl \in BOOLEAN, NEW ok \in BOOLEAN,
           s >= 1 => fl
    PROVE  /\ (s + (IF ok THEN 0 ELSE 1)) >= 1 => (fl \/ ~ok)
           /\ fl => (fl \/ ~ok)
<1>1. CASE ok
  <2>1. s + (IF ok THEN 0 ELSE 1) = s
    BY <1>1
  <2>2. QED
    BY <2>1, Zenon
<1>2. CASE ~ok
  BY <1>2, Zenon
<1>3. QED
  BY <1>1, <1>2

(* Every step of main keeps FailOK, and a reported problem stays reported. *)
LEMMA FailStep ==
    IInv /\ FailOK /\ [Next]_vars => FailOK' /\ (failed => failed')
<1> SUFFICES ASSUME IInv, FailOK, [Next]_vars
             PROVE  FailOK' /\ (failed => failed')
  OBVIOUS
<1>0. status \in Nat /\ failed \in BOOLEAN /\ (status >= 1 => failed)
  BY DEF IInv, TypeOK, FailOK
<1>1. CASE Walk
  BY <1>1 DEF Walk, FailOK
<1>2. CASE CheckGuards
  <2>1. CASE HeaderFiles # {}
    <3>1. DEFINE ok == \A f \in HeaderFiles : f.guard
    <3>2. /\ status' = status + (IF ok THEN 0 ELSE 1)
          /\ failed' = (failed \/ ~ok)
          /\ ok \in BOOLEAN
      BY <1>2, <2>1 DEF CheckGuards
    <3>3. QED
      BY <1>0, <3>2, AddCheck DEF FailOK
  <2>2. CASE HeaderFiles = {}
    BY <1>2, <2>2 DEF CheckGuards, FailOK
  <2>3. QED
    BY <2>1, <2>2
<1>3. CASE Tidy \/ TidyTests
  <2>1. PICK files, next : RunTidy(files, next)
    BY <1>3 DEF Tidy, TidyTests
  <2>2. CASE files # {}
    <3>1. PICK ok \in BOOLEAN :
            /\ status' = status + (IF ok THEN 0 ELSE 1)
            /\ failed' = (failed \/ ~ok)
      BY <2>1, <2>2 DEF RunTidy
    <3>2. QED
      BY <1>0, <3>1, AddCheck DEF FailOK
  <2>3. CASE files = {}
    BY <2>1, <2>3 DEF RunTidy, FailOK
  <2>4. QED
    BY <2>2, <2>3
<1>4. CASE Exit
  BY <1>4 DEF Exit, FailOK
<1>5. CASE UNCHANGED vars
  BY <1>5 DEF vars, FailOK
<1>6. QED
  BY <1>1, <1>2, <1>3, <1>4, <1>5 DEF Next

(* The files LintCheck lets the script lint.                               *)
AllowedFiles == {f \in FileSpecs : ~InSkipped(f.dir)}

(* A step of main that hands files to a checker is a Check step of        *)
(* LintCheck: what was checked stays checked, and only allowed files are  *)
(* added.                                                                  *)
LEMMA CheckOK ==
    ASSUME IInv, IInv', FailOK, [Next]_vars,
           pc \in {"walk", "tidy", "tidy_tests"}, pc' # "walk", pc' # "done",
           guardChecked \subseteq guardChecked', tidied \subseteq tidied',
           UNCHANGED exitCode
    PROVE  Promise!Check
<1>1. (guardChecked \cup tidied)' \subseteq AllowedFiles
  BY DEF IInv, TypeOK, WalkTypeOK, WalkOK, MainOK, AllowedFiles
<1>2. failed' \in BOOLEAN /\ (failed => failed')
  BY FailStep DEF IInv, TypeOK
<1>3. phaseBar \in {"collect", "check"} /\ phaseBar' = "check"
  BY DEF phaseBar
<1>4. QED
  BY <1>1, <1>2, <1>3 DEF Promise!Check, AllowedFiles

(* Each step of main is a step of LintCheck or leaves its state alone,    *)
(* when an exit status can hold the largest sum main adds up.             *)
LEMMA RefineStep ==
    ASSUME ExitModulus > 3
    PROVE  IInv /\ IInv' /\ FailOK /\ [Next]_vars => [Promise!Next]_Promise!vars
<1> SUFFICES ASSUME IInv, IInv', FailOK, [Next]_vars
             PROVE  [Promise!Next]_Promise!vars
  OBVIOUS
<1>1. CASE Walk
  BY <1>1 DEF Walk, Promise!vars, phaseBar
<1>2. CASE CheckGuards
  <2>1. guardChecked = {} /\ pc = "walk" /\ pc' = "tidy"
    BY <1>2 DEF CheckGuards, IInv, MainOK
  <2>2. Promise!Check
    BY <1>2, <2>1, CheckOK DEF CheckGuards
  <2>3. QED
    BY <2>2 DEF Promise!Next
<1>3. CASE Tidy \/ TidyTests
  <2>1. PICK files, next : RunTidy(files, next) /\ next \in {"tidy_tests", "exit"}
    BY <1>3 DEF Tidy, TidyTests
  <2>2. tidied \subseteq tidied'
    BY <2>1 DEF RunTidy
  <2>3. pc \in {"tidy", "tidy_tests"}
    BY <1>3 DEF Tidy, TidyTests
  <2>4. Promise!Check
    BY <2>1, <2>2, <2>3, CheckOK DEF RunTidy
  <2>5. QED
    BY <2>4 DEF Promise!Next
<1>4. CASE Exit
  <2>1. status \in 0..3 /\ failed \in BOOLEAN /\ exitCode' = status % ExitModulus
    BY <1>4 DEF Exit, IInv, TypeOK
  <2>2. exitCode' = status
    <3>1. status % ExitModulus = status
      BY <2>1, SmallModulo, ModulusAssumption
    <3>2. QED
      BY <2>1, <3>1
  <2>3. status >= 1 <=> failed
    BY <2>1 DEF FailOK, IInv, MainOK
  <2>4. (exitCode' = 0) <=> ~failed
    BY <2>1, <2>2, <2>3
  <2>5. exitCode' \in Nat
    BY <2>1, <2>2
  <2>6. phaseBar = "check" /\ phaseBar' = "exited"
    BY <1>4 DEF Exit, phaseBar
  <2>7. QED
    BY <1>4, <2>4, <2>5, <2>6 DEF Exit, Promise!Next, Promise!Exit
<1>5. CASE UNCHANGED vars
  BY <1>5 DEF vars, Promise!vars, phaseBar
<1>6. QED
  BY <1>1, <1>2, <1>3, <1>4, <1>5 DEF Next

(* The script starts in an initial state of LintCheck.                     *)
LEMMA RefineInit == Init => Promise!Init
BY DEF Init, Promise!Init, phaseBar

(* KeepsPromiseTheorem: for every source tree, and every exit modulus    *)
(* above the largest status main adds up (3), tools/clang_tidy.py          *)
(* implements LintCheck.                                                   *)
THEOREM KeepsPromiseTheorem ==
    ASSUME ExitModulus > 3
    PROVE  Spec => KeepsPromise
<1>1. Init => IInv /\ FailOK
  BY IInvInit DEF Init, FailOK
<1>2. IInv /\ FailOK /\ [Next]_vars => IInv' /\ FailOK'
  BY IInvStep, FailStep
<1>3. Spec => [](IInv /\ FailOK)
  BY <1>1, <1>2, PTL DEF Spec
<1>4. QED
  BY <1>2, <1>3, RefineInit, RefineStep, PTL DEF Spec, KeepsPromise, Promise!Spec
=============================================================================
