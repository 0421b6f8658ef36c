------------------------- MODULE TestRunnerProofs -------------------------
(***************************************************************************)
(* Proofs about TestRunner, for every MaxTries: the test command keeps    *)
(* its variables well typed, retries no directory but e2e_tests, and      *)
(* returns 0 exactly when every selected directory ran and passed.  They   *)
(* rest on SelectionsAssumption, the shape of every --tests selection,     *)
(* which TLC evaluates for every filter.                                   *)
(***************************************************************************)
EXTENDS TestRunner, TLAPS

(* The directories of the first n selected test directories.               *)
Prefix(n) == {testDirs[k] : k \in 1..n}

(* The strengthening.  Before the filter is applied nothing has run; once *)
(* it is, the list has the shape of SelectionsAssumption and the loop      *)
(* index points into it.                                                   *)
SelectOK ==
    /\ pc = "select" =>
          /\ testDirs = <<>> /\ i = 1 /\ numTimesToTry = 1
          /\ failureList = {} /\ passed = {} /\ tries = [d \in Dirs |-> 0]
    /\ pc # "select" => Selection(testDirs) /\ i \in 1..Len(testDirs)

(* No directory but e2e_tests has run twice; the directories at and after *)
(* the current one (after it, once its loop has started) have not run; the *)
(* retry loop has run its current directory at most attempt times and has *)
(* attempts left; and num_times_to_try is only raised while e2e_tests, the *)
(* last directory, is being run or reported.                               *)
TriesOK ==
    /\ \A d \in Dirs \ {"e2e_tests"} : tries[d] <= 1
    /\ pc = "config" => \A k \in i..Len(testDirs) : tries[testDirs[k]] = 0
    /\ pc \in {"attempt", "record"} =>
          \A k \in i+1..Len(testDirs) : tries[testDirs[k]] = 0
    /\ pc = "attempt" => tries[dir] <= attempt /\ attempt < numTimesToTry
    /\ numTimesToTry # 1 =>
          dir = "e2e_tests"
          /\ pc \in {"attempt", "record", "report", "done", "raised"}

(* _test has left the loop and, unless it returned None, reports.         *)
Reported == pc = "report" \/ (pc = "done" /\ result # None)

(* failure_list and the passed directories are disjoint and together the  *)
(* directories the loop has finished (the current one too once the report *)
(* is due); an empty failure_list at the report means the loop reached the *)
(* last directory; the result is the one Report computes, and None before.  *)
RecordOK ==
    /\ failureList \cap passed = {}
    /\ pc \in {"select", "config", "attempt", "record"} =>
          failureList \cup passed = Prefix(i - 1)
    /\ Reported => failureList \cup passed = Prefix(i)
    /\ Reported /\ failureList = {} => i = Len(testDirs)
    /\ pc = "done" /\ result # None => result = IF failureList # {} THEN 1 ELSE 0
    /\ pc # "done" => result = None

IInv == TypeOK /\ SelectOK /\ TriesOK /\ RecordOK

USE MaxTriesAssumption, NoneAssumption

(* Once the directories are selected, the current one is one of them.     *)
LEMMA DirOK == IInv /\ pc # "select" => dir \in Dirs
BY DEF IInv, SelectOK, Selection, dir

(* Every step of _test keeps the variables well typed.                    *)
LEMMA TypeStep == IInv /\ [Next]_vars => TypeOK'
<1> SUFFICES ASSUME IInv, [Next]_vars PROVE TypeOK'
  OBVIOUS
<1>1. CASE Select
  <2>1. args.tests \in TestFilters
    BY DEF IInv, TypeOK, Args
  <2>2. QED
    BY <1>1, <2>1, SelectionsAssumption DEF Select, IInv, TypeOK, Selection
<1>2. CASE ConfigureCloudBt
  BY <1>2, DirOK DEF ConfigureCloudBt, Break, IInv, TypeOK
<1>3. CASE ConfigureE2E
  BY <1>3, DirOK DEF ConfigureE2E, Break, Raise, IInv, TypeOK, Args
<1>4. CASE ConfigureOther
  BY <1>4 DEF ConfigureOther, IInv, TypeOK
<1>5. CASE Attempt
  <2>1. dir \in Dirs /\ RunEnv \in Env
    BY <1>5, DirOK DEF Attempt, RunEnv, Env, IInv, TypeOK, Args
  <2>2. tries' \in [Dirs -> 0..2] /\ env' \in [Dirs -> Env \cup {None}]
    <3>1. tries \in [Dirs -> 0..2] /\ env \in [Dirs -> Env \cup {None}]
      BY DEF IInv, TypeOK
    <3>2. tries' = [tries EXCEPT ![dir] = IF tries[dir] < 2 THEN tries[dir] + 1 ELSE 2]
          /\ env' = [env EXCEPT ![dir] = RunEnv]
      BY <1>5 DEF Attempt
    <3>3. QED
      BY <2>1, <3>1, <3>2
  <2>3. PICK ok \in BOOLEAN :
          IF ~ok /\ attempt < numTimesToTry - 1
            THEN attempt' = attempt + 1 /\ UNCHANGED <<pc, thisFailed>>
            ELSE pc' = "record" /\ thisFailed' = ~ok /\ UNCHANGED attempt
    BY <1>5 DEF Attempt
  <2>4. CASE ~ok /\ attempt < numTimesToTry - 1
    BY <1>5, <2>2, <2>3, <2>4 DEF Attempt, IInv, TypeOK
  <2>5. CASE ~(~ok /\ attempt < numTimesToTry - 1)
    BY <1>5, <2>2, <2>3, <2>5 DEF Attempt, IInv, TypeOK
  <2>6. QED
    BY <2>4, <2>5
<1>6. CASE Record
  BY <1>6, DirOK DEF Record, IInv, TypeOK
<1>10. CASE AttemptRaise
  BY <1>10 DEF AttemptRaise, Raise, IInv, TypeOK
<1>7. CASE Report
  BY <1>7 DEF Report, IInv, TypeOK
<1>8. CASE UNCHANGED vars
  BY <1>8 DEF vars, IInv, TypeOK
<1>9. QED
  BY <1>1, <1>2, <1>3, <1>4, <1>5, <1>6, <1>7, <1>8, <1>10 DEF Next

(* Appending the n-th selected directory to the first n - 1: it is new,   *)
(* and no later position lists it again.                                  *)
LEMMA PrefixFacts ==
    ASSUME Selection(testDirs), NEW n \in 1..Len(testDirs)
    PROVE  /\ Prefix(n) = Prefix(n - 1) \cup {testDirs[n]}
           /\ testDirs[n] \notin Prefix(n - 1)
           /\ \A k \in n+1..Len(testDirs) : testDirs[k] # testDirs[n]
BY DEF Prefix, Selection

(* Configuring a directory that is not e2e_tests, or e2e_tests, starts its *)
(* retry loop with no earlier run of it.                                  *)
LEMMA ConfigStart ==
    ASSUME IInv, pc = "config"
    PROVE  /\ numTimesToTry = 1
           /\ tries[dir] = 0
           /\ \A k \in i+1..Len(testDirs) : tries[testDirs[k]] = 0
BY DEF IInv, SelectOK, TriesOK, dir

(* A configuration error records the current directory and reports.       *)
LEMMA BreakOK ==
    ASSUME IInv, pc = "config", Break,
           UNCHANGED <<testDirs, i, passed, result>>
    PROVE  RecordOK'
<1>1. Selection(testDirs) /\ i \in 1..Len(testDirs)
  BY DEF IInv, SelectOK
<1>2. failureList \cup passed = Prefix(i - 1) /\ failureList \cap passed = {}
  BY DEF IInv, RecordOK
<1>3. Prefix(i)' = Prefix(i - 1) \cup {dir}
  BY <1>1, PrefixFacts DEF Prefix, dir
<1>4. dir \notin passed
  BY <1>1, <1>2, PrefixFacts DEF dir
<1>5. QED
  BY <1>2, <1>3, <1>4 DEF Break, RecordOK, Reported, IInv

(* The initial state satisfies the strengthening.                          *)
LEMMA IInvInit == Init => IInv
<1> SUFFICES ASSUME Init PROVE IInv
  OBVIOUS
<1>1. TypeOK
  <2>1. env \in [Dirs -> Env \cup {None}] /\ tries \in [Dirs -> 0..2]
    BY DEF Init
  <2>2. testDirs \in Seq(Dirs) /\ numTimesToTry \in 1..MaxTries
    BY DEF Init
  <2>3. QED
    BY <2>1, <2>2 DEF Init, TypeOK
<1>2. Prefix(i - 1) = {}
  BY DEF Init, Prefix
<1>3. QED
  BY <1>1, <1>2 DEF Init, IInv, SelectOK, TriesOK, RecordOK, Reported

(* Select: the filter's directories, in order, with nothing run yet.       *)
LEMMA SelectStep == IInv /\ Select => IInv'
<1> SUFFICES ASSUME IInv, Select PROVE IInv'
  OBVIOUS
<1>1. TypeOK'
  BY TypeStep DEF Next
<1>2. Selection(testDirs')
  BY SelectionsAssumption DEF Select, IInv, TypeOK, Args
<1>3. pc = "select"
  BY DEF Select
<1>4. QED
  BY <1>1, <1>2, <1>3
     DEF Select, IInv, TypeOK, SelectOK, TriesOK, RecordOK, Reported, Prefix,
         Selection, dir

(* ConfigureCloudBt: return, break or go on to the retry loop.             *)
LEMMA CloudBtStep == IInv /\ ConfigureCloudBt => IInv'
<1> SUFFICES ASSUME IInv, ConfigureCloudBt PROVE IInv'
  OBVIOUS
<1>1. TypeOK'
  BY TypeStep DEF Next
<1>2. numTimesToTry = 1 /\ tries[dir] = 0
      /\ \A k \in i+1..Len(testDirs) : tries[testDirs[k]] = 0
  BY ConfigStart DEF ConfigureCloudBt
<1>7. SelectOK'
  <2>1. pc' # "select" /\ UNCHANGED <<testDirs, i>>
    BY DEF ConfigureCloudBt, Break
  <2>2. QED
    BY <2>1 DEF ConfigureCloudBt, IInv, SelectOK
<1>3. CASE ~args.creds
  BY <1>1, <1>2, <1>3, <1>7
     DEF ConfigureCloudBt, IInv, TriesOK, RecordOK, Reported, Prefix
<1>4. CASE args.creds /\ ~(args.project /\ args.instance)
  <2>1. RecordOK'
    BY <1>4, BreakOK DEF ConfigureCloudBt
  <2>2. QED
    BY <1>1, <1>2, <1>4, <1>7, <2>1 DEF ConfigureCloudBt, Break, IInv, TriesOK
<1>5. CASE args.creds /\ args.project /\ args.instance
  BY <1>1, <1>2, <1>5, <1>7
     DEF ConfigureCloudBt, IInv, TypeOK, TriesOK, RecordOK, Reported, Prefix, dir
<1>6. QED
  BY <1>3, <1>4, <1>5, <1>7 DEF IInv

(* ConfigureE2E: three tries from here on; break, or go on to the loop.   *)
LEMMA E2EStep == IInv /\ ConfigureE2E => IInv'
<1> SUFFICES ASSUME IInv, ConfigureE2E PROVE IInv'
  OBVIOUS
<1>1. TypeOK'
  BY TypeStep DEF Next
<1>2. tries[dir] = 0 /\ \A k \in i+1..Len(testDirs) : tries[testDirs[k]] = 0
  BY ConfigStart DEF ConfigureE2E
<1>3. /\ pc = "config"
      /\ dir = "e2e_tests" /\ numTimesToTry' = MaxTries /\ attempt' = 0
      /\ UNCHANGED <<args, testDirs, i, thisFailed, env, tries, passed, result>>
  BY DEF ConfigureE2E
<1>4. \/ Break /\ UNCHANGED <<btProject, btInstance>>
      \/ Raise /\ UNCHANGED <<btProject, btInstance>>
      \/ pc' = "attempt" /\ UNCHANGED failureList
  BY DEF ConfigureE2E
<1>5. SelectOK'
  <2>1. pc' # "select"
    BY <1>4 DEF Break, Raise
  <2>2. QED
    BY <1>3, <2>1 DEF IInv, SelectOK, Selection
<1>6. CASE Break
  <2>1. RecordOK'
    BY <1>3, <1>6, BreakOK DEF ConfigureE2E
  <2>2. QED
    BY <1>1, <1>3, <1>5, <1>6, <2>1 DEF Break, IInv, TriesOK, dir
<1>7. CASE pc' = "attempt" /\ UNCHANGED failureList
  BY <1>1, <1>2, <1>3, <1>5, <1>7
     DEF ConfigureE2E, IInv, TypeOK, TriesOK, RecordOK, Reported, Prefix, dir
<1>8. CASE Raise
  BY <1>1, <1>3, <1>5, <1>8
     DEF Raise, ConfigureE2E, IInv, TriesOK, RecordOK, Reported, Prefix, dir
<1>9. QED
  BY <1>4, <1>6, <1>7, <1>8

(* ConfigureOther: straight to the retry loop.                             *)
LEMMA OtherStep == IInv /\ ConfigureOther => IInv'
<1> SUFFICES ASSUME IInv, ConfigureOther PROVE IInv'
  OBVIOUS
<1>1. TypeOK'
  BY TypeStep DEF Next
<1>2. numTimesToTry = 1 /\ tries[dir] = 0
      /\ \A k \in i+1..Len(testDirs) : tries[testDirs[k]] = 0
  BY ConfigStart DEF ConfigureOther
<1>3. QED
  BY <1>1, <1>2
     DEF ConfigureOther, IInv, TypeOK, SelectOK, TriesOK, RecordOK, Reported,
         Prefix, dir

(* Attempt: one run of the current directory's tests.  A directory other *)
(* than e2e_tests has num_times_to_try = 1, so it runs once and is never  *)
(* retried.                                                                *)
LEMMA AttemptStep == IInv /\ Attempt => IInv'
<1> SUFFICES ASSUME IInv, Attempt PROVE IInv'
  OBVIOUS
<1>1. TypeOK'
  BY TypeStep DEF Next
<1>2. /\ Selection(testDirs) /\ i \in 1..Len(testDirs) /\ dir \in Dirs
      /\ tries \in [Dirs -> 0..2] /\ attempt \in Nat /\ numTimesToTry \in Nat
  BY DirOK DEF Attempt, IInv, TypeOK, SelectOK, Selection, dir
<1>3. \A k \in i+1..Len(testDirs) : testDirs[k] # dir
  BY <1>2, PrefixFacts DEF dir
<1>4. tries'[dir] <= tries[dir] + 1
      /\ \A d \in Dirs \ {dir} : tries'[d] = tries[d]
  BY <1>2 DEF Attempt
<1>5. dir # "e2e_tests" => attempt = 0 /\ tries[dir] = 0
  BY <1>2 DEF Attempt, IInv, TriesOK
<1>6. PICK ok \in BOOLEAN :
        IF ~ok /\ attempt < numTimesToTry - 1
          THEN attempt' = attempt + 1 /\ UNCHANGED <<pc, thisFailed>>
          ELSE pc' = "record" /\ thisFailed' = ~ok /\ UNCHANGED attempt
  BY DEF Attempt
<1>7. dir # "e2e_tests" => pc' = "record"
  <2>1. dir # "e2e_tests" => numTimesToTry = 1
    BY DEF IInv, TriesOK
  <2>2. QED
    BY <1>2, <1>5, <1>6, <2>1
<1>10. pc' \in {"attempt", "record"} /\ UNCHANGED <<testDirs, i, numTimesToTry>>
  BY <1>6 DEF Attempt
<1>8. TriesOK'
  <2>1. \A d \in Dirs \ {"e2e_tests"} : tries'[d] <= 1
    BY <1>2, <1>4, <1>5 DEF IInv, TriesOK
  <2>2. pc' \in {"attempt", "record"} =>
          \A k \in i'+1..Len(testDirs') : tries'[testDirs'[k]] = 0
    BY <1>2, <1>3, <1>4 DEF Attempt, IInv, TriesOK, Selection
  <2>3. pc' = "attempt" => tries'[dir'] <= attempt' /\ attempt' < numTimesToTry'
    BY <1>2, <1>4, <1>6 DEF Attempt, IInv, TriesOK, dir
  <2>4. numTimesToTry' # 1 =>
          dir' = "e2e_tests" /\ pc' \in {"attempt", "record", "report", "done"}
    BY <1>10 DEF IInv, TriesOK, dir
  <2>5. QED
    BY <1>10, <2>1, <2>2, <2>3, <2>4 DEF TriesOK
<1>9. QED
  BY <1>1, <1>6, <1>8, <1>10
     DEF Attempt, IInv, SelectOK, RecordOK, Reported, Prefix, dir

(* AttemptRaise: the exception ends _test with nothing recorded.          *)
LEMMA AttemptRaiseStep == IInv /\ AttemptRaise => IInv'
<1> SUFFICES ASSUME IInv, AttemptRaise PROVE IInv'
  OBVIOUS
<1>1. TypeOK'
  BY TypeStep DEF Next
<1>2. QED
  BY <1>1 DEF AttemptRaise, Raise, IInv, SelectOK, TriesOK, RecordOK, Reported,
     Prefix, dir

(* Record: the directory goes into failure_list or counts as passed, never *)
(* both; after e2e_tests, which comes last, the report follows.           *)
LEMMA RecordStep == IInv /\ Record => IInv'
<1> SUFFICES ASSUME IInv, Record PROVE IInv'
  OBVIOUS
<1>1. TypeOK'
  BY TypeStep DEF Next
<1>2. /\ pc = "record" /\ result = None
      /\ Selection(testDirs) /\ i \in 1..Len(testDirs) /\ dir \in Dirs
      /\ failureList \cup passed = Prefix(i - 1)
      /\ failureList \cap passed = {}
      /\ \A k \in i+1..Len(testDirs) : tries[testDirs[k]] = 0
      /\ numTimesToTry # 1 => dir = "e2e_tests"
  BY DirOK DEF Record, IInv, SelectOK, TriesOK, RecordOK
<1>3. Prefix(i) = Prefix(i - 1) \cup {dir} /\ dir \notin Prefix(i - 1)
  BY <1>2, PrefixFacts DEF dir
<1>4. /\ failureList' \cup passed' = Prefix(i)
      /\ failureList' \cap passed' = {}
  BY <1>2, <1>3 DEF Record
<1>5. UNCHANGED <<testDirs, numTimesToTry, tries, result>>
  BY DEF Record
<1>6. CASE i = Len(testDirs)
  <2>1. pc' = "report" /\ i' = i
    BY <1>6 DEF Record
  <2>2. Prefix(i)' = Prefix(i) /\ dir' = dir
    BY <1>5, <2>1 DEF Prefix, dir
  <2>3. RecordOK'
    BY <1>2, <1>4, <1>5, <1>6, <2>1, <2>2 DEF RecordOK, Reported
  <2>4. TriesOK'
    BY <1>2, <1>5, <2>1, <2>2 DEF IInv, TriesOK
  <2>5. QED
    BY <1>1, <1>2, <1>5, <2>1, <2>3, <2>4 DEF IInv, SelectOK
<1>7. CASE i # Len(testDirs)
  <2>1. pc' = "config" /\ i' = i + 1 /\ i + 1 \in 1..Len(testDirs)
    BY <1>2, <1>7 DEF Record
  <2>2. numTimesToTry = 1
    <3>1. dir = "e2e_tests" => i = Len(testDirs)
      BY <1>2 DEF Selection, dir
    <3>2. QED
      BY <1>2, <1>7, <3>1
  <2>3. Prefix(i - 1)' = Prefix(i)
    BY <1>2, <1>5, <2>1 DEF Prefix
  <2>4. \A k \in i'..Len(testDirs') : tries'[testDirs'[k]] = 0
    BY <1>2, <1>5, <2>1
  <2>5. RecordOK'
    BY <1>2, <1>4, <1>5, <2>1, <2>3 DEF RecordOK, Reported
  <2>6. TriesOK'
    BY <1>1, <1>5, <2>1, <2>2, <2>4 DEF IInv, TriesOK, TypeOK
  <2>7. QED
    BY <1>1, <1>2, <1>5, <2>1, <2>5, <2>6 DEF IInv, SelectOK
<1>8. QED
  BY <1>6, <1>7

(* Report: 1 when failure_list is non-empty, else 0.                       *)
LEMMA ReportStep == IInv /\ Report => IInv'
<1> SUFFICES ASSUME IInv, Report PROVE IInv'
  OBVIOUS
<1>1. TypeOK'
  BY TypeStep DEF Next
<1>2. result' \in {0, 1} /\ result' # None
  BY DEF Report
<1>3. QED
  BY <1>1, <1>2 DEF Report, IInv, SelectOK, TriesOK, RecordOK, Reported, Prefix, dir

(* Every step of _test preserves the strengthening.                        *)
LEMMA IInvStep == IInv /\ [Next]_vars => IInv'
<1> SUFFICES ASSUME IInv, [Next]_vars PROVE IInv'
  OBVIOUS
<1>1. CASE UNCHANGED vars
  BY <1>1 DEF vars, IInv, TypeOK, SelectOK, TriesOK, RecordOK, Reported, Prefix, dir
<1>2. QED
  BY <1>1, SelectStep, CloudBtStep, E2EStep, OtherStep, AttemptStep,
     AttemptRaiseStep, RecordStep, ReportStep DEF Next

(* TypeCorrect: every state of the test command is well typed.            *)
THEOREM TypeCorrect == Spec => []TypeOK
<1>1. IInv => TypeOK
  BY DEF IInv
<1>2. QED
  BY <1>1, IInvInit, IInvStep, PTL DEF Spec

(* RetryOnlyE2E holds for every MaxTries: num_times_to_try is raised only  *)
(* for e2e_tests, which every filter lists last, so no other directory's  *)
(* tests are ever run twice.                                               *)
THEOREM RetryOnlyE2ETheorem == Spec => []RetryOnlyE2E
<1>1. IInv => RetryOnlyE2E
  BY DEF IInv, TypeOK, TriesOK, RetryOnlyE2E
<1>2. QED
  BY <1>1, IInvInit, IInvStep, PTL DEF Spec

(* ResultReflectsRuns holds for every MaxTries: a returned 0 means every  *)
(* selected directory ran and its last attempt passed, a returned 1 that   *)
(* one of them failed or could not be configured.                          *)
THEOREM ResultReflectsRunsTheorem == Spec => []ResultReflectsRuns
<1>1. IInv => ResultReflectsRuns
  <2> SUFFICES ASSUME IInv, pc = "done", result # None
               PROVE  result = 0 <=> \A k \in 1..Len(testDirs) : testDirs[k] \in passed
    BY DEF ResultReflectsRuns
  <2>1. /\ Reported /\ i \in 1..Len(testDirs)
        /\ failureList \cup passed = Prefix(i)
        /\ failureList \cap passed = {}
        /\ failureList = {} => i = Len(testDirs)
        /\ result = IF failureList # {} THEN 1 ELSE 0
    BY DEF IInv, SelectOK, RecordOK, Reported
  <2>2. CASE failureList = {}
    BY <2>1, <2>2 DEF Prefix
  <2>3. CASE failureList # {}
    BY <2>1, <2>3 DEF Prefix
  <2>4. QED
    BY <2>2, <2>3
<1>2. QED
  BY <1>1, IInvInit, IInvStep, PTL DEF Spec

-----------------------------------------------------------------------------
(* The verdict of every directory already recorded, as RecordedFinal       *)
(* relates it across one step.                                             *)
Kept(d) ==
    /\ tries'[d] = tries[d]
    /\ env'[d] = env[d]
    /\ (d \in passed' <=> d \in passed)
    /\ (d \in failureList' <=> d \in failureList)

(* While the loop configures, runs or records a directory, that directory *)
(* has no verdict yet: the lists hold the earlier ones, and the selection  *)
(* lists no directory twice.                                               *)
LEMMA NotYetRecorded ==
    ASSUME IInv, pc \in {"config", "attempt", "record"}
    PROVE  dir \notin failureList \cup passed
<1>1. Selection(testDirs) /\ i \in 1..Len(testDirs)
  BY DEF IInv, SelectOK
<1>2. failureList \cup passed = Prefix(i - 1)
  BY DEF IInv, RecordOK
<1>3. QED
  BY <1>1, <1>2, PrefixFacts DEF dir

(* Each step of _test keeps every recorded verdict and leaves the          *)
(* recorded directories alone.                                             *)
LEMMA RecordedStep ==
    ASSUME IInv, [Next]_vars, NEW d \in failureList \cup passed
    PROVE  Kept(d)
<1>1. CASE Select
  BY <1>1 DEF Select, Kept
<1>2. CASE ConfigureCloudBt \/ ConfigureE2E
  <2>1. d # dir
    BY <1>2, NotYetRecorded DEF ConfigureCloudBt, ConfigureE2E
  <2>2. failureList' \in {failureList, failureList \cup {dir}}
    BY <1>2 DEF ConfigureCloudBt, ConfigureE2E, Break, Raise
  <2>3. QED
    BY <1>2, <2>1, <2>2 DEF ConfigureCloudBt, ConfigureE2E, Kept
<1>3. CASE ConfigureOther
  BY <1>3 DEF ConfigureOther, Kept
<1>4. CASE Attempt
  <2>1. d # dir
    BY <1>4, NotYetRecorded DEF Attempt
  <2>2. d \in Dirs
    BY DEF IInv, TypeOK
  <2>3. QED
    BY <1>4, <2>1, <2>2 DEF Attempt, Kept, IInv, TypeOK
<1>5. CASE Record
  <2>1. d # dir
    BY <1>5, NotYetRecorded DEF Record
  <2>2. QED
    BY <1>5, <2>1 DEF Record, Kept
<1>6. CASE Report
  BY <1>6 DEF Report, Kept
<1>7. CASE UNCHANGED vars
  BY <1>7 DEF vars, Kept
<1>9. CASE AttemptRaise
  BY <1>9 DEF AttemptRaise, Raise, Kept
<1>8. QED
  BY <1>1, <1>2, <1>3, <1>4, <1>5, <1>6, <1>7, <1>9 DEF Next

(* RecordedFinal holds for every MaxTries: a directory, once in           *)
(* failure_list or passed, is never run again and keeps its verdict.       *)
THEOREM RecordedFinalTheorem == Spec => RecordedFinal
<1>1. IInv /\ [Next]_vars => \A d \in failureList \cup passed : Kept(d)
  BY RecordedStep
<1>2. QED
  BY <1>1, IInvInit, IInvStep, PTL DEF Spec, RecordedFinal, Kept

-----------------------------------------------------------------------------
(* Between the selection and the return or a raise, _test is running in   *)
(* TestSuite.                                                               *)
LEMMA RunningBar ==
    ASSUME pc \notin {"select", "done", "raised"} PROVE phaseBar = "running"
BY DEF phaseBar

(* Settling the current directory -- recording it after its retry loop, or *)
(* failing it on a configuration error -- is a Judge step of TestSuite:    *)
(* it is the first directory of the list without a verdict.               *)
LEMMA JudgeDir ==
    ASSUME IInv, pc \in {"config", "record"}, NEW v \in {"pass", "fail"},
           verdictBar' = [verdictBar EXCEPT ![dir] = v],
           testDirs' = testDirs, phaseBar = "running", phaseBar' = "running"
    PROVE  Suite!Judge(v)
<1>1. Selection(testDirs) /\ i \in 1..Len(testDirs)
  BY DEF IInv, SelectOK
<1>2. failureList \cup passed = Prefix(i - 1)
  BY DEF IInv, RecordOK
<1>3. verdictBar[testDirs[i]] = "none"
  <2>1. dir \notin failureList \cup passed /\ dir \in Dirs
    BY NotYetRecorded, DirOK
  <2>2. QED
    BY <2>1 DEF verdictBar, dir
<1>4. \A j \in 1..(i - 1) : verdictBar[testDirs[j]] # "none"
  BY <1>1, <1>2 DEF verdictBar, Prefix, Selection
<1>5. QED
  BY <1>1, <1>3, <1>4 DEF Suite!Judge, Suite!IsNext, dir

(* Adding the current directory to one list gives it that verdict.        *)
LEMMA VerdictAdd ==
    ASSUME IInv, pc \in {"config", "record"}
    PROVE  /\ [d \in Dirs |-> IF d \in passed \cup {dir} THEN "pass"
                              ELSE IF d \in failureList THEN "fail" ELSE "none"]
                = [verdictBar EXCEPT ![dir] = "pass"]
           /\ [d \in Dirs |-> IF d \in passed THEN "pass"
                              ELSE IF d \in failureList \cup {dir} THEN "fail"
                              ELSE "none"]
                = [verdictBar EXCEPT ![dir] = "fail"]
<1>1. dir \in Dirs /\ dir \notin passed
  BY DirOK, NotYetRecorded
<1>2. QED
  BY <1>1 DEF verdictBar

(* A step that neither selects, settles a directory nor returns leaves    *)
(* TestSuite's state alone.                                                *)
LEMMA SuiteStutter ==
    ASSUME pc \notin {"select", "done", "raised"},
           pc' \notin {"select", "done", "raised"},
           UNCHANGED <<testDirs, passed, failureList>>
    PROVE  UNCHANGED Suite!vars
BY DEF phaseBar, verdictBar, Suite!vars

(* An exception raised while a directory is configured or run is an       *)
(* Abandon step of TestSuite: no result, no verdict changed.               *)
LEMMA RaiseAbandons ==
    ASSUME pc \in {"config", "attempt"}, Raise,
           UNCHANGED <<testDirs, passed>>
    PROVE  Suite!Next
<1>1. phaseBar = "running" /\ phaseBar' = "abandoned"
  BY DEF Raise, phaseBar
<1>2. UNCHANGED verdictBar
  BY DEF Raise, verdictBar
<1>3. QED
  BY <1>1, <1>2 DEF Suite!Next, Suite!Abandon

(* Each step of _test is a step of TestSuite or leaves its state alone.   *)
LEMMA RefineStep == IInv /\ [Next]_vars => [Suite!Next]_Suite!vars
<1> SUFFICES ASSUME IInv, [Next]_vars PROVE [Suite!Next]_Suite!vars
  OBVIOUS
<1>1. CASE Select
  <2>1. args.tests \in TestFilters
    BY DEF IInv, TypeOK, Args
  <2>2. Selection(testDirs')
    BY <1>1, <2>1, SelectionsAssumption DEF Select
  <2>3. Suite!Choose
    BY <1>1, <2>2 DEF Select, Selection, phaseBar, verdictBar,
                      Suite!Choose, Suite!Distinct
  <2>4. QED
    BY <2>3 DEF Suite!Next
<1>2. CASE ConfigureCloudBt \/ ConfigureE2E
  <2>1. pc = "config" /\ UNCHANGED <<testDirs, passed>>
    BY <1>2 DEF ConfigureCloudBt, ConfigureE2E
  <2>2. CASE Break
    <3>1. verdictBar' = [verdictBar EXCEPT ![dir] = "fail"]
      BY <2>1, <2>2, VerdictAdd DEF Break, verdictBar
    <3>2. phaseBar = "running" /\ phaseBar' = "running"
      BY <2>1, <2>2, RunningBar DEF Break, phaseBar
    <3>3. QED
      BY <2>1, <3>1, <3>2, JudgeDir DEF Suite!Next
  <2>3. CASE pc' = "done" /\ UNCHANGED <<failureList, result>>
    <3>1. result = None
      BY <2>1 DEF IInv, RecordOK
    <3>2. phaseBar' = "abandoned" /\ phaseBar = "running"
      BY <2>1, <2>3, <3>1, NoneAssumption DEF phaseBar
    <3>3. QED
      BY <2>1, <2>3, <3>2 DEF Suite!Next, Suite!Abandon, verdictBar
  <2>4. CASE pc' = "attempt" /\ UNCHANGED failureList
    BY <2>1, <2>4, SuiteStutter
  <2>6. CASE Raise
    BY <2>1, <2>6, RaiseAbandons DEF Suite!Next
  <2>5. QED
    BY <1>2, <2>2, <2>3, <2>4, <2>6 DEF ConfigureCloudBt, ConfigureE2E
<1>3. CASE ConfigureOther
  BY <1>3, SuiteStutter DEF ConfigureOther
<1>4. CASE Attempt
  <2>1. pc' \in {"attempt", "record"}
    BY <1>4 DEF Attempt
  <2>2. QED
    BY <1>4, <2>1, SuiteStutter DEF Attempt
<1>5. CASE Record
  <2>1. phaseBar = "running" /\ phaseBar' = "running"
    BY <1>5, RunningBar DEF Record, phaseBar
  <2>2. CASE thisFailed
    <3>1. verdictBar' = [verdictBar EXCEPT ![dir] = "fail"]
      BY <1>5, <2>2, VerdictAdd DEF Record, verdictBar
    <3>2. QED
      BY <1>5, <2>1, <3>1, JudgeDir DEF Record, Suite!Next
  <2>3. CASE ~thisFailed
    <3>1. verdictBar' = [verdictBar EXCEPT ![dir] = "pass"]
      BY <1>5, <2>3, VerdictAdd DEF Record, verdictBar
    <3>2. QED
      BY <1>5, <2>1, <3>1, JudgeDir DEF Record, Suite!Next
  <2>4. QED
    BY <2>2, <2>3
<1>6. CASE Report
  <2>1. /\ Selection(testDirs) /\ i \in 1..Len(testDirs)
        /\ failureList \cup passed = Prefix(i)
        /\ failureList \cap passed = {}
        /\ failureList = {} => i = Len(testDirs)
    BY <1>6 DEF Report, IInv, SelectOK, RecordOK, Reported
  <2>2. phaseBar = "running"
    BY <1>6, RunningBar DEF Report
  <2>3. CASE failureList # {}
    <3>1. Suite!SomeFailed
      BY <2>1, <2>3 DEF Suite!SomeFailed, verdictBar, Prefix, Selection
    <3>2. phaseBar' = "failed"
      <4>1. pc' = "done" /\ result' = 1
        BY <1>6, <2>3 DEF Report
      <4>2. QED
        BY <4>1 DEF phaseBar
    <3>3. QED
      BY <1>6, <2>2, <3>1, <3>2 DEF Report, Suite!Next, Suite!Return, verdictBar
  <2>4. CASE failureList = {}
    <3>1. \A k \in 1..Len(testDirs) : verdictBar[testDirs[k]] = "pass"
      BY <2>1, <2>4 DEF verdictBar, Prefix, Selection
    <3>2. ~Suite!SomeFailed
      BY <3>1 DEF Suite!SomeFailed
    <3>3. phaseBar' = "passed"
      <4>1. pc' = "done" /\ result' = 0
        BY <1>6, <2>4 DEF Report
      <4>2. QED
        BY <4>1 DEF phaseBar
    <3>4. QED
      BY <1>6, <2>2, <3>1, <3>2, <3>3 DEF Report, Suite!Next, Suite!Return, verdictBar
  <2>5. QED
    BY <2>3, <2>4
<1>7. CASE UNCHANGED vars
  BY <1>7 DEF vars, Suite!vars, phaseBar, verdictBar
<1>9. CASE AttemptRaise
  BY <1>9, RaiseAbandons DEF AttemptRaise
<1>8. QED
  BY <1>1, <1>2, <1>3, <1>4, <1>5, <1>6, <1>7, <1>9 DEF Next

(* _test starts in an initial state of TestSuite.                          *)
LEMMA RefineInit == Init => Suite!Init
BY DEF Init, Suite!Init, phaseBar, verdictBar

(* JudgesInOrderTheorem: for every MaxTries, _test implements TestSuite:  *)
(* it settles the selected directories one at a time and in order, and    *)
(* returns 1 once one failed, 0 only when all passed, or None, or raises. *)
THEOREM JudgesInOrderTheorem == Spec => JudgesInOrder
<1>1. Spec => []IInv
  BY IInvInit, IInvStep, PTL DEF Spec
<1>2. QED
  BY <1>1, RefineInit, RefineStep, PTL DEF Spec, JudgesInOrder, Suite!Spec
=============================================================================
