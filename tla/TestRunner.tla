----------------------------- MODULE TestRunner -----------------------------
(***************************************************************************)
(* The test command of the Cobalt command-line tool (cobaltb.py, _test).  *)
(*                                                                         *)
(* The --tests filter selects a list of test directories; each directory  *)
(* is configured from the flags (whether a Bigtable emulator and the      *)
(* Cobalt processes are started locally, which Bigtable is named), then   *)
(* run by test_runner.run_all_tests up to num_times_to_try times.  A      *)
(* configuration error either returns at once or breaks out of the loop   *)
(* with a recorded failure.  The result is 0 when the failure list is     *)
(* empty, else 1.  An exception raised inside _test ends the process with *)
(* status 1 and no result.                                                 *)
(*                                                                         *)
(* Test arguments that are only formatted into command lines (URIs, PEM   *)
(* files, TLS flags, gtest filters) are left out; a flag value that is a  *)
(* name is abstracted to whether it is non-empty.                          *)
(***************************************************************************)
EXTENDS Naturals, Sequences, FiniteSets, Functions, TLC

CONSTANTS
    None,          \* the value of a Python function that falls off "return"
    MaxTries       \* the largest num_times_to_try the code sets (3)

ASSUME MaxTriesAssumption == MaxTries \in Nat \ {0}

(* None is not one of the exit codes _test returns.                        *)
ASSUME NoneAssumption == None \notin {0, 1}

Dirs == {"gtests", "go_tests", "gtests_btemulator", "e2e_tests",
         "gtests_cloud_bt", "perf_tests"}

(* FILTER_MAP: from a positive filter to the test directories it names.   *)
FilterMap ==
    ("all" :> <<"gtests", "go_tests", "gtests_btemulator", "e2e_tests">>)
    @@ ("gtests" :> <<"gtests">>)
    @@ ("gotests" :> <<"go_tests">>)
    @@ ("btemulator" :> <<"gtests_btemulator">>)
    @@ ("e2e" :> <<"e2e_tests">>)
    @@ ("cloud_bt" :> <<"gtests_cloud_bt">>)
    @@ ("perf" :> <<"perf_tests">>)

(* TEST_FILTERS, with the "no" prefix parsed off: nogtests is            *)
(* [neg |-> TRUE, base |-> "gtests"].                                      *)
TestFilters ==
    {[neg |-> FALSE, base |-> b] :
        b \in {"all", "gtests", "gotests", "btemulator", "e2e", "cloud_bt",
               "perf"}}
    \cup {[neg |-> TRUE, base |-> b] : b \in {"gtests", "gotests",
                                              "btemulator", "e2e"}}

NEEDS_BT_EMULATOR == {"gtests_btemulator", "e2e_tests"}
NEEDS_COBALT_PROCESSES == {"e2e_tests"}

(* The parsed command line.  project and instance: whether                *)
(* _compound_project_name(args) and --bigtable_instance_id are non-empty; *)
(* creds: whether the Bigtable admin credentials file exists;            *)
(* tls_string: whether --use_tls is a string, as given on the command     *)
(* line, or a JSON boolean taken from cluster.json as its default          *)
(* (_default_use_tls), on which _parse_bool's .lower() raises.              *)
Args ==
    [tests: TestFilters, use_cloud_bt: BOOLEAN,
     cobalt_on_personal_cluster: BOOLEAN, production_dir: BOOLEAN,
     creds: BOOLEAN, project: BOOLEAN, instance: BOOLEAN, tls_string: BOOLEAN]

(* What run_all_tests was given for a directory.                          *)
Env ==
    [emulator: BOOLEAN, cobalt: BOOLEAN, project: BOOLEAN, instance: BOOLEAN]

VARIABLES
    args,            \* the parsed flags
    pc,              \* where _test is
    testDirs,        \* test_dirs
    i,               \* index of the current test_dir
    numTimesToTry,   \* num_times_to_try
    attempt,         \* attempt of the inner retry loop
    thisFailed,      \* this_failure_list is non-empty
    failureList,     \* the directories in failure_list
    btProject,       \* bigtable_project_name is non-empty
    btInstance,      \* bigtable_instance_id is non-empty
    env,             \* what each directory was last run with, or None
    tries,           \* how often each directory was run: 0, 1, 2 for more
    passed,          \* directories whose last attempt passed
    result           \* the value _test returns

vars == <<args, pc, testDirs, i, numTimesToTry, attempt, thisFailed,
          failureList, btProject, btInstance, env, tries, passed, result>>

TypeOK ==
    /\ args \in Args
    /\ pc \in {"select", "config", "attempt", "record", "report", "done",
              "raised"}
    /\ testDirs \in Seq(Dirs)
    /\ i \in Nat
    /\ numTimesToTry \in 1..MaxTries
    /\ attempt \in Nat
    /\ thisFailed \in BOOLEAN
    /\ failureList \subseteq Dirs
    /\ btProject \in BOOLEAN
    /\ btInstance \in BOOLEAN
    /\ env \in [Dirs -> Env \cup {None}]
    /\ tries \in [Dirs -> 0..2]
    /\ passed \subseteq Dirs
    /\ result \in {0, 1, None}

Init ==
    /\ args \in Args
    /\ pc = "select"
    /\ testDirs = <<>>
    /\ i = 1
    /\ numTimesToTry = 1
    /\ attempt = 0
    /\ thisFailed = FALSE
    /\ failureList = {}
    /\ btProject = FALSE
    /\ btInstance = FALSE
    /\ env = [d \in Dirs |-> None]
    /\ tries = [d \in Dirs |-> 0]
    /\ passed = {}
    /\ result = None

dir == testDirs[i]

(* The filter's directories: FILTER_MAP[tests], or for "noX" the          *)
(* directories of "all" that X does not name, in the order of "all".      *)
SelectDirs(t) ==
    IF t.neg
      THEN SelectSeq(FilterMap["all"],
                     LAMBDA d : d \notin Range(FilterMap[t.base]))
      ELSE FilterMap[t.base]

(* What every --tests filter selects: a non-empty list of test directories *)
(* with none listed twice and e2e_tests, whose num_times_to_try is never   *)
(* reset, only at the end.  TestFilters is finite, so TLC evaluates this    *)
(* for every filter; the provers have no definition of SelectSeq to expand. *)
Selection(s) ==
    /\ s \in Seq(Dirs)
    /\ Len(s) >= 1
    /\ \A k, l \in 1..Len(s) : s[k] = s[l] => k = l
    /\ \A k \in 1..Len(s) : s[k] = "e2e_tests" => k = Len(s)

ASSUME SelectionsAssumption == \A t \in TestFilters : Selection(SelectDirs(t))

Select ==
    /\ pc = "select"
    /\ testDirs' = SelectDirs(args.tests)
    /\ pc' = "config"
    /\ UNCHANGED <<args, i, numTimesToTry, attempt, thisFailed, failureList,
                   btProject, btInstance, env, tries, passed, result>>

(* A configuration error: record the directory as failed and break.      *)
Break ==
    /\ failureList' = failureList \cup {dir}
    /\ pc' = "report"

(* The gtests_cloud_bt directory: a missing credentials file returns      *)
(* (None); a missing project or instance name breaks; else the names are *)
(* passed on.                                                              *)
ConfigureCloudBt ==
    /\ pc = "config"
    /\ dir = "gtests_cloud_bt"
    /\ \/ /\ ~args.creds
          /\ pc' = "done"
          /\ UNCHANGED <<failureList, btProject, btInstance, result>>
       \/ /\ args.creds
          /\ ~(args.project /\ args.instance)
          /\ Break
          /\ UNCHANGED <<btProject, btInstance, result>>
       \/ /\ args.creds /\ args.project /\ args.instance
          /\ btProject' = TRUE
          /\ btInstance' = TRUE
          /\ pc' = "attempt"
          /\ UNCHANGED <<failureList, result>>
    /\ attempt' = 0
    /\ UNCHANGED <<args, testDirs, i, numTimesToTry, thisFailed, env, tries,
                   passed>>

(* An exception propagates out of _test: the process exits with status 1. *)
Raise ==
    /\ pc' = "raised"
    /\ UNCHANGED failureList

(* The e2e_tests directory: try three times; personal cluster and         *)
(* production together break; against a cluster, get_public_uris may     *)
(* raise, and then -use_cloud_bt breaks; _parse_bool(args.use_tls) raises  *)
(* on a non-string; against Cloud Bigtable or a cluster the Bigtable names *)
(* come from the flags.                                                    *)
ConfigureE2E ==
    LET remote == args.cobalt_on_personal_cluster \/ args.production_dir
        both   == args.cobalt_on_personal_cluster /\ args.production_dir
    IN
    /\ pc = "config"
    /\ dir = "e2e_tests"
    /\ numTimesToTry' = MaxTries
    /\ \/ /\ both
          /\ Break
          /\ UNCHANGED <<btProject, btInstance>>
       \/ /\ remote /\ ~both
          /\ Raise
          /\ UNCHANGED <<btProject, btInstance>>
       \/ /\ remote /\ ~both /\ args.use_cloud_bt
          /\ Break
          /\ UNCHANGED <<btProject, btInstance>>
       \/ /\ ~(remote /\ (both \/ args.use_cloud_bt))
          /\ ~args.tls_string
          /\ Raise
          /\ UNCHANGED <<btProject, btInstance>>
       \/ /\ ~(remote /\ (both \/ args.use_cloud_bt))
          /\ args.tls_string
          /\ IF args.use_cloud_bt \/ remote
               THEN /\ btProject' = args.project
                    /\ btInstance' = args.instance
               ELSE UNCHANGED <<btProject, btInstance>>
          /\ pc' = "attempt"
          /\ UNCHANGED failureList
    /\ attempt' = 0
    /\ UNCHANGED <<args, testDirs, i, thisFailed, env, tries, passed, result>>

(* Bug variant: num_times_to_try = 3 is set for every directory, not     *)
(* only under the e2e_tests branch.                                        *)
ConfigureOtherRetried ==
    /\ pc = "config"
    /\ dir \notin {"gtests_cloud_bt", "e2e_tests"}
    /\ numTimesToTry' = MaxTries
    /\ pc' = "attempt"
    /\ attempt' = 0
    /\ UNCHANGED <<args, testDirs, i, thisFailed, failureList,
                   btProject, btInstance, env, tries, passed, result>>

(* Any other directory needs no configuration that can fail.             *)
ConfigureOther ==
    /\ pc = "config"
    /\ dir \notin {"gtests_cloud_bt", "e2e_tests"}
    /\ pc' = "attempt"
    /\ attempt' = 0
    /\ UNCHANGED <<args, testDirs, i, numTimesToTry, thisFailed, failureList,
                   btProject, btInstance, env, tries, passed, result>>

(* What run_all_tests is called with for the current directory.           *)
RunEnv ==
    [emulator |-> dir \in NEEDS_BT_EMULATOR /\ ~args.use_cloud_bt
                  /\ ~args.cobalt_on_personal_cluster /\ ~args.production_dir,
     cobalt   |-> dir \in NEEDS_COBALT_PROCESSES
                  /\ ~args.cobalt_on_personal_cluster /\ ~args.production_dir,
     project  |-> btProject,
     instance |-> btInstance]

(* One run of the directory's tests, which may fail (flaky tests);        *)
(* retried while attempts remain.  Its use_tls argument is                 *)
(* _parse_bool(args.use_tls), evaluated before the call.                   *)
Attempt ==
    /\ pc = "attempt"
    /\ args.tls_string
    /\ env' = [env EXCEPT ![dir] = RunEnv]
    /\ tries' = [tries EXCEPT ![dir] = IF @ < 2 THEN @ + 1 ELSE 2]
    /\ \E ok \in BOOLEAN :
         IF ~ok /\ attempt < numTimesToTry - 1
           THEN /\ attempt' = attempt + 1
                /\ UNCHANGED <<pc, thisFailed>>
           ELSE /\ pc' = "record"
                /\ thisFailed' = ~ok
                /\ UNCHANGED attempt
    /\ UNCHANGED <<args, testDirs, i, numTimesToTry, failureList, btProject,
                   btInstance, passed, result>>

(* _parse_bool(args.use_tls) in the call of run_all_tests raises on a     *)
(* JSON boolean before the tests run.                                      *)
AttemptRaise ==
    /\ pc = "attempt"
    /\ ~args.tls_string
    /\ Raise
    /\ UNCHANGED <<args, testDirs, i, numTimesToTry, attempt, thisFailed,
                   btProject, btInstance, env, tries, passed, result>>

(* Bug variant: a directory that failed every attempt is not recorded.    *)
RecordDropFailure ==
    /\ pc = "record"
    /\ passed' = IF thisFailed THEN passed ELSE passed \cup {dir}
    /\ IF i = Len(testDirs)
         THEN pc' = "report" /\ UNCHANGED i
         ELSE pc' = "config" /\ i' = i + 1
    /\ UNCHANGED <<args, testDirs, numTimesToTry, attempt, thisFailed,
                   failureList, btProject, btInstance, env, tries, result>>

(* Bug variant: failed end-to-end tests are configured and run again      *)
(* until they pass.                                                        *)
RecordRetryE2E ==
    /\ pc = "record"
    /\ IF thisFailed /\ dir = "e2e_tests"
         THEN /\ pc' = "config"
              /\ UNCHANGED <<i, failureList, passed>>
         ELSE /\ failureList' = IF thisFailed THEN failureList \cup {dir}
                                              ELSE failureList
              /\ passed' = IF thisFailed THEN passed ELSE passed \cup {dir}
              /\ IF i = Len(testDirs)
                   THEN pc' = "report" /\ UNCHANGED i
                   ELSE pc' = "config" /\ i' = i + 1
    /\ UNCHANGED <<args, testDirs, numTimesToTry, attempt, thisFailed,
                   btProject, btInstance, env, tries, result>>

(* Bug variant: failed end-to-end tests are recorded, then configured and *)
(* run again from the start.                                               *)
RecordThenRetryE2E ==
    /\ pc = "record"
    /\ failureList' = IF thisFailed THEN failureList \cup {dir}
                                    ELSE failureList
    /\ passed' = IF thisFailed THEN passed ELSE passed \cup {dir}
    /\ IF thisFailed /\ dir = "e2e_tests"
         THEN pc' = "config" /\ UNCHANGED i
         ELSE IF i = Len(testDirs)
                THEN pc' = "report" /\ UNCHANGED i
                ELSE pc' = "config" /\ i' = i + 1
    /\ UNCHANGED <<args, testDirs, numTimesToTry, attempt, thisFailed,
                   btProject, btInstance, env, tries, result>>

(* After the retry loop: a directory whose last attempt failed goes into  *)
(* failure_list; then the next directory, or the report.                  *)
Record ==
    /\ pc = "record"
    /\ failureList' = IF thisFailed THEN failureList \cup {dir}
                                    ELSE failureList
    /\ passed' = IF thisFailed THEN passed ELSE passed \cup {dir}
    /\ IF i = Len(testDirs)
         THEN pc' = "report" /\ UNCHANGED i
         ELSE pc' = "config" /\ i' = i + 1
    /\ UNCHANGED <<args, testDirs, numTimesToTry, attempt, thisFailed,
                   btProject, btInstance, env, tries, result>>

(* Bug variant: the number of failed directories is returned.           *)
ReportList ==
    /\ pc = "report"
    /\ result' = Cardinality(failureList)
    /\ pc' = "done"
    /\ UNCHANGED <<args, testDirs, i, numTimesToTry, attempt, thisFailed,
                   failureList, btProject, btInstance, env, tries, passed>>

(* Return 1 if some test failed, else 0.                                   *)
Report ==
    /\ pc = "report"
    /\ result' = IF failureList # {} THEN 1 ELSE 0
    /\ pc' = "done"
    /\ UNCHANGED <<args, testDirs, i, numTimesToTry, attempt, thisFailed,
                   failureList, btProject, btInstance, env, tries, passed>>

Next ==
    \/ Select
    \/ ConfigureCloudBt
    \/ ConfigureE2E
    \/ ConfigureOther
    \/ Attempt
    \/ AttemptRaise
    \/ Record
    \/ Report

Spec == Init /\ [][Next]_vars

(* _test is straight-line code with bounded loops run by one thread.      *)
FairSpec == Spec /\ WF_vars(Next)

(* sys.exit(main()): None exits with status 0, an uncaught exception 1.    *)
ExitCode == IF pc = "raised" THEN 1 ELSE IF result = None THEN 0 ELSE result

-----------------------------------------------------------------------------
(* RetryOnlyE2E: only the end-to-end tests, which are naturally flaky, are *)
(* ever run more than once; num_times_to_try is set to 3 for e2e_tests and *)
(* never reset, which is harmless only while e2e_tests comes last.         *)
RetryOnlyE2E ==
    \A d \in Dirs : tries[d] > 1 => d = "e2e_tests"

(* ResultReflectsRuns: when _test returns a number, it returns 0 exactly   *)
(* when every selected directory was run and its last attempt passed       *)
(* ("Returns 0 if all tests pass, otherwise returns 1").                   *)
ResultReflectsRuns ==
    pc = "done" /\ result # None =>
        (result = 0 <=> \A k \in 1..Len(testDirs) : testDirs[k] \in passed)

(* TestTerminates: the test command always returns or raises: the retry   *)
(* loop ends whatever the pattern of failures.                             *)
TestTerminates == <>(pc \in {"done", "raised"})

(* ExitStatusHonest: the process exits with status 0 only if every        *)
(* selected test directory ran and passed.                                 *)
ExitStatusHonest ==
    pc = "done" /\ ExitCode = 0 =>
        \A k \in 1..Len(testDirs) : testDirs[k] \in passed

(* BigtableAvailable: a test directory that needs Bigtable is run either   *)
(* with a local emulator started or with a Cloud Bigtable project and      *)
(* instance named (-use_cloud_bt is documented to switch the end-to-end    *)
(* tests to Cloud Bigtable).                                               *)
BigtableAvailable ==
    \A d \in NEEDS_BT_EMULATOR \cup {"gtests_cloud_bt"} :
        env[d] # None => env[d].emulator \/ (env[d].project /\ env[d].instance)

-----------------------------------------------------------------------------
(* The refinement mapping onto TestSuite: the phase _test is in, and the   *)
(* verdict failure_list and the passed directories give each directory.   *)
phaseBar ==
    CASE pc = "select"                -> "selecting"
      [] pc = "done" /\ result = 0    -> "passed"
      [] pc = "done" /\ result = 1    -> "failed"
      [] pc = "done" /\ result = None -> "abandoned"
      [] pc = "raised"                -> "abandoned"
      [] OTHER                        -> "running"

verdictBar ==
    [d \in Dirs |-> IF d \in passed THEN "pass"
                    ELSE IF d \in failureList THEN "fail"
                    ELSE "none"]

Suite == INSTANCE TestSuite
           WITH phase <- phaseBar, selected <- testDirs, verdict <- verdictBar

(* JudgesInOrder: _test implements TestSuite -- it settles the directories *)
(* one at a time, in the order of test_dirs, never revisits one, and       *)
(* returns 1 once a directory failed, 0 only when all passed, or None     *)
(* (or raises).                                                            *)
JudgesInOrder == Suite!Spec

(* RecordedFinal: once _test has put a directory into failure_list or     *)
(* counted it as passed, the directory is not run again, with or without  *)
(* new flags, and its verdict is never revised by a later directory or a  *)
(* configuration error.                                                    *)
RecordedFinal ==
    [][\A d \in failureList \cup passed :
          /\ tries'[d] = tries[d]
          /\ env'[d] = env[d]
          /\ (d \in passed' <=> d \in passed)
          /\ (d \in failureList' <=> d \in failureList)]_vars

=============================================================================
