--------------------------- MODULE CppLintProofs ---------------------------
(***************************************************************************)
(* Proofs about CppLint (tools/cpplint.py, run by cobaltb.py _lint), for   *)
(* every source tree: the command keeps its variables well typed, and when *)
(* it is done every header outside the skipped directories has had its     *)
(* guard checked and every compiled file outside them has been through     *)
(* clang-tidy -- the pruned os.walk still reaches every directory it is    *)
(* meant to.                                                               *)
(***************************************************************************)
EXTENDS CppLint, TLAPS

USE TreeAssumption, LintAssumption

(* Every file of directory d that the loop over files collects has been   *)
(* collected.                                                              *)
Collected(d) ==
    \A f \in FilesIn(d) :
        /\ IsSource(f) /\ ~IsTest(f) => f \in sources
        /\ IsTest(f) => f \in tests

(* d or one of the directories above it is still to be yielded by os.walk.*)
Pending(d) == \E k \in 0..Len(d) : SubSeq(d, 1, k) \in toVisit

(* The strengthening of the walk: the collected files exist, and every    *)
(* directory outside the skipped ones has had its files collected or lies *)
(* below a directory os.walk has still to yield.                           *)
WalkOK ==
    /\ \A f \in sources \cup tests : contents[f] > 0
    /\ \A d \in DirPaths : ~InSkipped(d) => Collected(d) \/ Pending(d)

(* After the walk: clang-tidy runs only once the walk is over and every    *)
(* header was checked, and it has then covered the compiled source files,  *)
(* and before golint the compiled test files.                              *)
MainOK ==
    /\ pc = "walk" => tidied = {}
    /\ pc # "walk" =>
          /\ toVisit = {}
          /\ Headers \subseteq guardChecked
          /\ {f \in sources : f.compiled} \subseteq tidied
    /\ pc \in {"golint", "done"} => {f \in tests : f.compiled} \subseteq tidied

IInv == TypeOK /\ WalkOK /\ MainOK

(* A directory above one outside the skipped directories is outside them. *)
LEMMA PrefixNotSkipped ==
    ASSUME NEW d \in Seq(STRING), NEW j \in 0..Len(d), ~InSkipped(d)
    PROVE  ~InSkipped(SubSeq(d, 1, j))
<1> SUFFICES ASSUME NEW k \in 1..Len(SubSeq(d, 1, j)),
                    \/ SubSeq(SubSeq(d, 1, j), 1, k) \in SKIP_LINT_DIRS
                    \/ SubSeq(d, 1, j)[k] \in HiddenNames
             PROVE  FALSE
  BY DEF InSkipped
<1>1. k \in 1..Len(d) /\ SubSeq(SubSeq(d, 1, j), 1, k) = SubSeq(d, 1, k)
      /\ SubSeq(d, 1, j)[k] = d[k]
  OBVIOUS
<1>2. SubSeq(d, 1, k) \in SKIP_LINT_DIRS \/ d[k] \in HiddenNames
  BY <1>1
<1>3. QED
  BY <1>1, <1>2 DEF InSkipped

(* cpplint's rule skips only directories the scripts mean to leave out.   *)
LEMMA CppSkipSkipped ==
    ASSUME NEW c \in Seq(STRING), Len(c) >= 1, CppSkip(Front(c), c)
    PROVE  InSkipped(c)
<1>1. SubSeq(c, 1, Len(c)) = c /\ Last(c) = c[Len(c)]
  BY DEF Last
<1>2. SubSeq(c, 1, Len(c)) \in SKIP_LINT_DIRS \/ c[Len(c)] \in HiddenNames
  BY <1>1 DEF CppSkip
<1>3. Len(c) \in 1..Len(c)
  OBVIOUS
<1>4. QED
  BY <1>2, <1>3 DEF InSkipped

(* The directory os.walk yields next.                                      *)
Root == CHOOSE d \in toVisit : TRUE

(* The subdirectories cpplint removes from dirs.                           *)
Pruned == {c \in DirPaths \ {<<>>} : CppSkip(Front(c), c)}

(* One iteration of the walk, as the sets it changes.                     *)
LEMMA WalkFacts ==
    ASSUME Walk
    PROVE  /\ Root \in toVisit
           /\ toVisit' = (toVisit \ {Root}) \cup (Children(Root) \ Pruned)
           /\ sources' = sources \cup
                  {f \in FilesIn(Root) : IsSource(f) /\ ~IsTest(f)}
           /\ tests' = tests \cup {f \in FilesIn(Root) : IsTest(f)}
           /\ pc = "walk"
           /\ UNCHANGED <<contents, pc, status, guardChecked, tidied, failed,
                          exitCode>>
BY DEF Walk, WalkStep, Classify, Root, Pruned

(* A directory outside the skipped ones that lies below the directory the *)
(* walk yields has its files collected now, or a directory above it (or it *)
(* itself) is left in dirs: cpplint prunes no directory the scripts mean  *)
(* to lint.                                                                *)
LEMMA PendingStep ==
    ASSUME IInv, Walk, NEW d \in DirPaths, ~InSkipped(d), Pending(d)
    PROVE  Collected(d)' \/ Pending(d)'
<1>1. PICK k \in 0..Len(d) : SubSeq(d, 1, k) \in toVisit
  BY DEF Pending
<1>2. d \in Seq(STRING) /\ FilesIn(d)' = FilesIn(d)
  BY WalkFacts DEF FilesIn
<1>3. CASE SubSeq(d, 1, k) # Root
  BY <1>1, <1>3, WalkFacts DEF Pending
<1>4. CASE SubSeq(d, 1, k) = Root /\ k = Len(d)
  <2>1. d = Root
    BY <1>2, <1>4
  <2>2. QED
    BY <1>2, <2>1, WalkFacts DEF Collected, FilesIn
<1>5. CASE SubSeq(d, 1, k) = Root /\ k < Len(d)
  <2> DEFINE c == SubSeq(d, 1, k + 1)
  <2>1. c \in DirPaths /\ c \in Seq(STRING) /\ Len(c) = k + 1 /\ Front(c) = Root
    BY <1>2, <1>5 DEF Front
  <2>2. ~InSkipped(c)
    <3>1. k + 1 \in 0..Len(d)
      BY <1>5
    <3>2. QED
      BY <1>2, <3>1, PrefixNotSkipped
  <2>3. ~CppSkip(Front(c), c)
    <3>1. Len(c) >= 1
      BY <2>1
    <3>2. QED
      BY <2>1, <2>2, <3>1, CppSkipSkipped
  <2>4. c \in Children(Root) \ Pruned
    <3>1. Len(c) = Len(Root) + 1
      BY <1>2, <1>5, <2>1
    <3>2. QED
      BY <2>1, <2>3, <3>1 DEF Children, Pruned
  <2>5. c \in toVisit' /\ k + 1 \in 0..Len(d)
    BY <1>5, <2>4, WalkFacts
  <2>6. QED
    BY <2>5 DEF Pending
<1>6. QED
  BY <1>3, <1>4, <1>5

(* Walk: the files of the directory yielded are collected and the          *)
(* directories below it that are not pruned are left to yield.             *)
LEMMA WalkStepOK == IInv /\ Walk => IInv'
<1> SUFFICES ASSUME IInv, Walk PROVE IInv'
  OBVIOUS
<1>1. Root \in DirPaths /\ sources \subseteq sources' /\ tests \subseteq tests'
  BY WalkFacts DEF IInv, TypeOK, WalkTypeOK
<1>2. \A d \in DirPaths : ~InSkipped(d) => Collected(d)' \/ Pending(d)'
  <2>1. SUFFICES ASSUME NEW d \in DirPaths, ~InSkipped(d)
                 PROVE  Collected(d)' \/ Pending(d)'
    OBVIOUS
  <2>2. CASE Collected(d)
    BY <1>1, <2>2, WalkFacts DEF Collected, FilesIn
  <2>3. CASE Pending(d)
    BY <2>1, <2>3, PendingStep
  <2>4. QED
    BY <2>1, <2>2, <2>3 DEF IInv, WalkOK
<1>3. \A f \in sources' \cup tests' : contents'[f] > 0
  BY WalkFacts DEF IInv, WalkOK, FilesIn
<1>4. WalkTypeOK'
  <2>1. toVisit' \subseteq DirPaths
    BY WalkFacts DEF IInv, TypeOK, WalkTypeOK, Children
  <2>2. QED
    BY <2>1, WalkFacts DEF IInv, TypeOK, WalkTypeOK, FilesIn
<1>5. guardChecked' \subseteq Headers' /\ tidied' \subseteq CompileDb'
  BY <1>1, WalkFacts DEF IInv, TypeOK, MainOK, Headers
<1>6. QED
  BY <1>2, <1>3, <1>4, <1>5, WalkFacts DEF IInv, TypeOK, WalkOK, MainOK

(* GuardCheck: one more collected header is checked.                       *)
LEMMA GuardCheckStep == IInv /\ GuardCheck => IInv'
<1> SUFFICES ASSUME IInv, GuardCheck PROVE IInv'
  OBVIOUS
<1>1. PICK f \in Headers \ guardChecked :
        /\ guardChecked' = guardChecked \cup {f}
        /\ failed' = (failed \/ ~HasGuard(f))
        /\ status' = status + (IF HasGuard(f) THEN 0 ELSE contents[f])
  BY DEF GuardCheck
<1>2. UNCHANGED <<contents, toVisit, sources, tests, pc, tidied, exitCode>>
  BY DEF GuardCheck
<1>3. f \in FileSpecs /\ contents[f] \in Nat /\ status \in Nat
  BY DEF IInv, TypeOK, WalkTypeOK, Headers
<1>4. status' \in Nat
  BY <1>1, <1>3
<1>5. failed' \in BOOLEAN
  BY <1>1, Zenon DEF IInv, TypeOK
<1>6. QED
  BY <1>1, <1>2, <1>4, <1>5
     DEF IInv, TypeOK, WalkTypeOK, WalkOK, MainOK, Headers, CompileDb,
         Collected, Pending, FilesIn

(* clang-tidy is run on files: on the compiled ones among them, or on the *)
(* whole compilation database when the list is empty.                      *)
LEMMA RunTidyStep ==
    ASSUME IInv, NEW files, files \subseteq sources \cup tests, NEW next,
           RunTidy(files, next)
    PROVE  /\ tidied' \subseteq CompileDb
           /\ tidied \subseteq tidied'
           /\ {f \in files : f.compiled} \subseteq tidied'
           /\ status' \in Nat
           /\ failed' \in BOOLEAN
           /\ pc' = next
           /\ UNCHANGED <<contents, toVisit, sources, tests, guardChecked,
                          exitCode>>
<1>1. /\ tidied \subseteq CompileDb /\ status \in Nat /\ failed \in BOOLEAN
      /\ \A f \in sources \cup tests : contents[f] > 0
      /\ sources \cup tests \subseteq FileSpecs
  BY DEF IInv, TypeOK, WalkTypeOK, WalkOK
<1>2. /\ TidyTargets(files) \subseteq CompileDb
      /\ {f \in files : f.compiled} \subseteq TidyTargets(files)
  BY <1>1 DEF TidyTargets, CompileDb
<1>3. PICK ok \in BOOLEAN :
        /\ tidied' = tidied \cup TidyTargets(files)
        /\ status' = status + (IF ok THEN 0 ELSE 1)
        /\ failed' = (failed \/ ~ok)
  BY DEF RunTidy
<1>4. failed' \in BOOLEAN
  BY <1>1, <1>3, Zenon
<1>5. QED
  BY <1>1, <1>2, <1>3, <1>4 DEF RunTidy

(* Tidy: once every header is checked, clang-tidy on the source files.    *)
LEMMA TidyStepOK == IInv /\ Tidy => IInv'
<1> SUFFICES ASSUME IInv, Tidy PROVE IInv'
  OBVIOUS
<1>1. RunTidy(sources, "tidy_tests") /\ pc = "walk" /\ toVisit = {}
      /\ Headers \subseteq guardChecked
  BY DEF Tidy
<1>2. sources \subseteq sources \cup tests
  OBVIOUS
<1>3. /\ tidied' \subseteq CompileDb
      /\ tidied \subseteq tidied'
      /\ {f \in sources : f.compiled} \subseteq tidied'
      /\ status' \in Nat
      /\ failed' \in BOOLEAN
      /\ pc' = "tidy_tests"
      /\ UNCHANGED <<contents, toVisit, sources, tests, guardChecked, exitCode>>
  BY <1>1, <1>2, RunTidyStep
<1>4. TypeOK'
  BY <1>3 DEF IInv, TypeOK, WalkTypeOK, Headers, CompileDb
<1>5. WalkOK'
  BY <1>3 DEF IInv, WalkOK, Collected, Pending, FilesIn
<1>6. MainOK'
  BY <1>1, <1>3 DEF IInv, MainOK, Headers
<1>7. QED
  BY <1>4, <1>5, <1>6 DEF IInv

(* TidyTests: clang-tidy on the test files.                                *)
LEMMA TidyTestsStepOK == IInv /\ TidyTests => IInv'
<1> SUFFICES ASSUME IInv, TidyTests PROVE IInv'
  OBVIOUS
<1>1. RunTidy(tests, "golint") /\ pc = "tidy_tests"
  BY DEF TidyTests
<1>2. tests \subseteq sources \cup tests
  OBVIOUS
<1>3. /\ tidied' \subseteq CompileDb
      /\ tidied \subseteq tidied'
      /\ {f \in tests : f.compiled} \subseteq tidied'
      /\ status' \in Nat
      /\ failed' \in BOOLEAN
      /\ pc' = "golint"
      /\ UNCHANGED <<contents, toVisit, sources, tests, guardChecked, exitCode>>
  BY <1>1, <1>2, RunTidyStep
<1>4. TypeOK'
  BY <1>3 DEF IInv, TypeOK, WalkTypeOK, Headers, CompileDb
<1>5. WalkOK'
  BY <1>3 DEF IInv, WalkOK, Collected, Pending, FilesIn
<1>6. MainOK'
  BY <1>1, <1>3 DEF IInv, MainOK, Headers
<1>7. QED
  BY <1>4, <1>5, <1>6 DEF IInv

(* LintExit: golint's status is added and the sum, modulo ExitModulus, is *)
(* the exit status.                                                        *)
LEMMA LintExitStep == IInv /\ LintExit => IInv'
<1> SUFFICES ASSUME IInv, LintExit PROVE IInv'
  OBVIOUS
<1>1. PICK g \in GolintResults :
        /\ status' = status + g
        /\ failed' = (failed \/ g # 0)
        /\ exitCode' = (status + g) % ExitModulus
  BY DEF LintExit
<1>2. status \in Nat /\ g \in Nat /\ failed \in BOOLEAN
  BY DEF IInv, TypeOK
<1>3. status' \in Nat /\ exitCode' \in 0..(ExitModulus - 1)
  BY <1>1, <1>2
<1>4. failed' \in BOOLEAN
  BY <1>1, <1>2, Zenon
<1>5. QED
  BY <1>3, <1>4
     DEF LintExit, IInv, TypeOK, WalkTypeOK, WalkOK, MainOK, Headers, CompileDb,
         Collected, Pending, FilesIn

(* The initial state satisfies the strengthening: every directory lies    *)
(* below SRC_ROOT_DIR, which os.walk has still to yield.                   *)
LEMMA IInvInit == Init => IInv
<1> SUFFICES ASSUME Init PROVE IInv
  OBVIOUS
<1>1. \A d \in DirPaths : Pending(d)
  <2>1. SUFFICES ASSUME NEW d \in DirPaths PROVE Pending(d)
    OBVIOUS
  <2>2. d \in Seq(STRING) /\ SubSeq(d, 1, 0) = <<>> /\ 0 \in 0..Len(d)
    OBVIOUS
  <2>3. QED
    BY <2>2 DEF Init, WalkInit, Pending
<1>2. TypeOK
  <2>1. failed \in BOOLEAN
    BY Zenon DEF Init
  <2>2. QED
    BY <2>1 DEF Init, WalkInit, TypeOK, WalkTypeOK, Headers, CompileDb
<1>3. QED
  BY <1>1, <1>2 DEF Init, WalkInit, IInv, WalkOK, MainOK

(* Every step of _lint preserves the strengthening.                        *)
LEMMA IInvStep == IInv /\ [Next]_vars => IInv'
<1> SUFFICES ASSUME IInv, [Next]_vars PROVE IInv'
  OBVIOUS
<1>1. CASE UNCHANGED vars
  BY <1>1 DEF vars, IInv, TypeOK, WalkTypeOK, WalkOK, MainOK, Headers,
             CompileDb, Collected, Pending, FilesIn
<1>2. QED
  BY <1>1, WalkStepOK, GuardCheckStep, TidyStepOK, TidyTestsStepOK,
     LintExitStep DEF Next

(* TypeCorrect: every state of the lint command is well typed.            *)
THEOREM TypeCorrect == Spec => []TypeOK
<1>1. IInv => TypeOK
  BY DEF IInv
<1>2. QED
  BY <1>1, IInvInit, IInvStep, PTL DEF Spec

(* EveryFileLintedTheorem: for every source tree, the pruned os.walk of   *)
(* tools/cpplint.py reaches every directory outside SKIP_LINT_DIRS and     *)
(* the "." directories, so when lint is done every header there that is   *)
(* not a link has had its guard checked and every compiled file there has *)
(* been through clang-tidy.                                                *)
THEOREM EveryFileLintedTheorem == Spec => []EveryFileLinted
<1>1. IInv => EveryFileLinted
  <2> SUFFICES ASSUME IInv, pc = "done", NEW f \in FileSpecs,
                      contents[f] > 0, IsSource(f), ~InSkipped(f.dir)
               PROVE  /\ f.ext = "h" /\ ~f.link => f \in guardChecked
                      /\ f.compiled => f \in tidied
    BY DEF EveryFileLinted
  <2>1. f.dir \in DirPaths /\ toVisit = {}
    BY DEF IInv, MainOK
  <2>2. ~Pending(f.dir)
    BY <2>1 DEF Pending
  <2>3. Collected(f.dir) /\ f \in FilesIn(f.dir)
    BY <2>1, <2>2 DEF IInv, WalkOK, FilesIn
  <2>4. f \in sources \cup tests /\ (f.ext = "h" => f \in sources)
    BY <2>3 DEF Collected, IsSource, IsTest
  <2>5. QED
    BY <2>4 DEF IInv, MainOK, Headers
<1>2. QED
  BY <1>1, IInvInit, IInvStep, PTL DEF Spec

-----------------------------------------------------------------------------
(* Every reported problem adds at least 1 to the status (a header without *)
(* guard adds the number of its files), and the exit status is the sum    *)
(* modulo ExitModulus.                                                     *)
ExitOK ==
    /\ failed => status >= 1
    /\ pc = "done" => exitCode = status % ExitModulus

(* Each step of _lint keeps ExitOK.                                        *)
LEMMA ExitOKStep == IInv /\ ExitOK /\ [Next]_vars => ExitOK'
<1> SUFFICES ASSUME IInv, ExitOK, [Next]_vars PROVE ExitOK'
  OBVIOUS
<1>0. status \in Nat /\ failed \in BOOLEAN
  BY DEF IInv, TypeOK
<1>1. CASE Walk
  BY <1>1, WalkFacts DEF ExitOK
<1>2. CASE GuardCheck
  <2>1. PICK f \in Headers \ guardChecked :
          /\ failed' = (failed \/ ~HasGuard(f))
          /\ status' = status + (IF HasGuard(f) THEN 0 ELSE contents[f])
    BY <1>2 DEF GuardCheck
  <2>2. contents[f] \in Nat /\ contents[f] > 0
    BY DEF IInv, TypeOK, WalkTypeOK, WalkOK, Headers
  <2>3. CASE HasGuard(f)
    <3>1. failed' = failed
      BY <1>0, <2>1, <2>3, Zenon
    <3>2. status' = status
      BY <1>0, <2>1, <2>3
    <3>3. QED
      BY <1>2, <3>1, <3>2 DEF GuardCheck, ExitOK
  <2>4. CASE ~HasGuard(f)
    BY <1>0, <1>2, <2>1, <2>2, <2>4 DEF GuardCheck, ExitOK
  <2>5. QED
    BY <2>3, <2>4
<1>3. CASE Tidy \/ TidyTests
  <2>1. PICK files, next : RunTidy(files, next) /\ next # "done"
    BY <1>3 DEF Tidy, TidyTests
  <2>2. PICK ok \in BOOLEAN :
          /\ status' = status + (IF ok THEN 0 ELSE 1)
          /\ failed' = (failed \/ ~ok)
    BY <2>1 DEF RunTidy
  <2>3. pc' # "done"
    BY <2>1 DEF RunTidy
  <2>4. CASE ok
    <3>1. failed' = failed
      BY <1>0, <2>2, <2>4, Zenon
    <3>2. status' = status
      BY <1>0, <2>2, <2>4
    <3>3. QED
      BY <2>3, <3>1, <3>2 DEF ExitOK
  <2>5. CASE ~ok
    BY <1>0, <2>2, <2>3, <2>5 DEF ExitOK
  <2>6. QED
    BY <2>4, <2>5
<1>4. CASE LintExit
  <2>1. PICK g \in GolintResults :
          /\ status' = status + g
          /\ failed' = (failed \/ g # 0)
          /\ exitCode' = (status + g) % ExitModulus
    BY <1>4 DEF LintExit
  <2>2. g \in Nat
    OBVIOUS
  <2>3. failed' => failed \/ g # 0
    BY <2>1, Zenon
  <2>4. QED
    BY <1>0, <2>1, <2>2, <2>3 DEF ExitOK
<1>5. CASE UNCHANGED vars
  BY <1>5 DEF vars, ExitOK
<1>6. QED
  BY <1>1, <1>2, <1>3, <1>4, <1>5 DEF Next

(* ExitOnlyWraps: the lint command exits with status 0 after a reported   *)
(* problem only when the sum of the statuses is a positive multiple of    *)
(* ExitModulus (256 missing guards, say): this wrap-around is the only    *)
(* way ExitHonest fails, for every source tree.                            *)
ExitOnlyWraps ==
    pc = "done" /\ exitCode = 0 /\ failed =>
        status >= ExitModulus /\ status % ExitModulus = 0

THEOREM ExitOnlyWrapsTheorem == Spec => []ExitOnlyWraps
<1>1. Init => ExitOK
  BY DEF Init, ExitOK
<1>2. Spec => [](IInv /\ ExitOK)
  BY <1>1, IInvInit, IInvStep, ExitOKStep, PTL DEF Spec
<1>3. IInv /\ ExitOK => ExitOnlyWraps
  <2> SUFFICES ASSUME IInv, ExitOK, pc = "done", exitCode = 0, failed
               PROVE  status >= ExitModulus /\ status % ExitModulus = 0
    BY DEF ExitOnlyWraps
  <2>1. status \in Nat /\ status >= 1 /\ status % ExitModulus = 0
    BY DEF IInv, TypeOK, ExitOK
  <2>2. status = ExitModulus * (status \div ExitModulus)
    BY <2>1
  <2>3. status \div ExitModulus \in Nat \ {0}
    BY <2>1, <2>2
  <2>4. \A m, q \in Nat \ {0} : m * q >= m
    <3> SUFFICES ASSUME NEW m \in Nat \ {0}, NEW q \in Nat \ {0}
                 PROVE  m * q >= m
      OBVIOUS
    <3>1. m * (q - 1) \in Nat
      OBVIOUS
    <3>2. m * q = m * (q - 1) + m
      OBVIOUS
    <3>3. QED
      BY <3>1, <3>2
  <2>5. QED
    BY <2>1, <2>2, <2>3, <2>4
<1>4. QED
  BY <1>2, <1>3, PTL
=============================================================================
