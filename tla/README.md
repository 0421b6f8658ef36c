# Formal models of Cobalt's prototype analyzer and developer tool

TLA+ models of two parts of this repository:

* the analysis side of the Cobalt prototype
  (`src/prototype/analyzers/analyzer.py`, `src/utils/file_util.py`);
* the developer command-line tool `src/cobaltb.py` and its lint scripts
  (`src/tools/cpplint.py`, `src/tools/clang_tidy.py`).

The directory holds the modules, the TLC configurations that model-check them,
and the TLAPS proofs. `PROJECT.json` lists the components, runs, mutants,
findings, hazards and theorems, and maps every definition to the lines it
translates.

## 1. The system

### 1.1 The prototype analyzer

`runAllAnalyzers` (analyzer.py:362-400) runs six analyses one after another,
in one process:

1. help queries with Forculus;
2. city and rating with RAPPOR correlation;
3. module names;
4. module names again, as a private release with Laplace noise;
5. hour of day with basic RAPPOR;
6. URLs.

A RAPPOR analysis (`analyzeUsingRAPPOR`, 87-278) goes through these steps:

* It prepares a map file in a shared cache directory. The cached file is
  reused when `mtime(map) >= mtime(source) + 10`. The file is keyed by the
  metric name only.
* It decrypts its input.
* It changes into the algorithms directory and runs an R decode script, which
  writes the shared temp file `results.csv` (or `assoc-results.csv`).
* It copies that file to the analysis' output, or adds noise to it.

The analyses interact only through the file system: the map cache and the
shared result files. An exception ends the whole run. That includes a map
rebuild that finds its candidate or basic map file missing
(analyzer.py 161-184): `PrepareMap` then takes its failure branch.

### 1.2 The developer tool `cobaltb.py`

`main` resolves the cluster settings before calling a handler:
* The first flag pass looks for `--production_dir`.
* The settings come from `cluster.json` in that directory, else from
  `personal_cluster.json`, else from built-in defaults.
* Flag defaults are derived from the settings.
* The PEM and credentials files are chosen.
* The handler is called.

The handlers modelled are these:
* `_test`: the filter and retry loop;
* the deploy commands, which start, stop and restart jobs, build and push
  images, and manage secrets, addresses and endpoints;
* the Bigtable administration commands;
* `_lint`, which runs `cpplint.main` and golint. `clang_tidy.py` is the later,
  stand-alone lint script.

The external tools are not in the repository:
* `container_util` and `production_util` are calls that succeed or raise.
* `bigtable_tool` is a call that succeeds or raises.
* `run-clang-tidy.py` lints the compilation database entries it is given, and
  every entry when it is given none.
* `check-header-guards.py` fails exactly when a header it is given has no
  guard.
* `golint` returns one of `GolintResults`.

## 2. Modules

| module | models | actions |
|---|---|---|
| `MapCache` | the map cache: freshness test, in-place rebuild, decode (analyzer.py 232-244, 334-359) | `EditSource`, `Tick`, `Check`, `Open`, `Finish`, `Decode` |
| `MapCacheCrash` | `MapCache` plus a pipeline dying while the map is half written | `Crash` |
| `AnalysisPipeline` | `runAllAnalyzers` and each analysis step by step | `ReadConfig`, `ForculusEvaluate`, `PrepareMap`, `PrepareInput`, `RunScript`, `Emit`, `Time` |
| `TestRunner` | `_test` (cobaltb.py 147-345): filter selection, per-directory configuration, retries, result | `Select`, `ConfigureCloudBt`, `ConfigureE2E`, `ConfigureOther`, `Attempt`, `AttemptRaise`, `Record`, `Report` |
| `CobaltSettings` | `main`'s settings resolution, `_cluster_settings_from_json`, the `_default_*` functions, `_parse_bool` | `Parse0`, `LoadSettings`, `ComputeDefaults`, `SetGlobals`, `Dispatch` |
| `SettingsResolution` | the abstract promise of that resolution: all artifacts from one place, at once | `Resolve`, `End` |
| `TestSuite` | the abstract promise of `_test`: a list of directories, each judged once and in order, 0 only if all passed, 1 once one failed, or no result | `Choose`, `Judge`, `Return`, `Abandon` |
| `LintCheck` | the abstract promise of `tools/clang_tidy.py`: collect, then check only allowed files, keep every reported problem, exit 0 exactly when there was none | `Check`, `Exit` |
| `CobaltDeploy` | deploy start/stop/stopstart with `_load_versions_file`, `_invoke_bigtable_tool` and its three callers, deploy endpoint | one action per command, plus `EditVersions` |
| `ClusterImages` | deploy build, production_build, push, and the secret, certificate, service-account and address commands, against a personal and a production cluster | one action per command |
| `LintWalk` | the `os.walk` shared by both lint scripts: classification into source and test lists, pruning of skipped directories, the run-clang-tidy contract | `WalkStep` (parameterised by the skipped set) |
| `CppLint` | `_lint` + `cpplint.main`: whole-path skip rule, one guard check per header, two clang-tidy calls, golint, `exit(status)` | `Walk`, `GuardCheck`, `Tidy`, `TidyTests`, `LintExit` |
| `ClangTidyLint` | `clang_tidy.py`: prefix skip rule, one guard-check call, clang-tidy only on non-empty lists | `Walk`, `CheckGuards`, `Tidy`, `TidyTests`, `Exit` |
| `MapCacheProofs`, `CobaltSettingsProofs`, `AnalysisPipelineProofs`, `TestRunnerProofs`, `CppLintProofs`, `ClangTidyLintProofs`, `CobaltDeployProofs` | TLAPS proofs | |
| `MC*`, `MCLintTree` | TLC instances | |

### How the data is abstracted

* **File contents** keep only what the properties tell apart:
  * a map holds the source version it came from;
  * a result file holds its writer and a count;
  * a Docker image holds the cluster whose configs built it;
  * a JSON value is `""`, a non-empty string, or a JSON `true`.
* **A lint tree** is a set of file *kinds*: directory, extension, test name,
  link, guard, compiled. Each kind comes with a count of files.
  `ProperPrefixes` records that the name `out` is a string prefix of
  `outputs`, which is what `startswith` sees.
* **Process exit statuses** keep their 8 bits: `% ExitModulus`, with
  ExitModulus = 2^8 in `MCLintTree`. The modulus is a constant rather than
  `2^ExitWidth` because a fact such as `2^w > 0` needs induction over `w`,
  which the provers cannot do here (see section 5).
* **Every handler is one action**, including its early returns (a usage
  message, then exit 0) and its external calls (success or raise, then exit
  1).

## 3. Runs

Passing runs:

| run | checks | states | bounds |
|---|---|---|---|
| mapcache_sequential | `TypeOK`, `FreshMapUsed` | 8833 | 2 pipelines run in turn, `Grace` 2, `BuildBound` 1, 5 ticks, 2 edits |
| pipeline_runall | `TypeOK`, `OwnResults` | 2416 | the actual six analyses, every raise, `fast_em` present or not |
| testrunner_all | `TypeOK`, `RetryOnlyE2E`, `ResultReflectsRuns`, `TestTerminates`, `RecordedFinal` (action property), `JudgesInOrder` (refinement of `TestSuite`) | 26072 | every filter and flag combination, every test outcome, 3 tries |
| settings_main | `TypeOK`, `ProductionArtifactsTogether`, `ResolvesTogether` (refinement of `SettingsResolution`) | 109824 | every flag pair, every status and value of both settings files, both handlers |
| cpplint_lint | `TypeOK`, `EveryFileLinted`, `ExitHonest` | 19840 | the tree of `MCLintTree`, 0 or 1 file per kind |
| deploy_main | `TypeOK`, `OnlyAnalyzersLeftStopped` | 220140 | one pinnable version, 2 invocations of every deploy and bigtable command, every versions.json between them |
| clangtidy_lint | `TypeOK`, `SkippedNeverLinted`, `ExitHonest`, `KeepsPromise` (refinement of `LintCheck`) | 15168 | the same tree |

Violation runs. Each checks one property, and `PROJECT.json` records a
finding for each.

* **mapcache_concurrent** (`NoPartialRead`): the map is rewritten in place, so
  a parallel pipeline decodes a truncated map.
* **mapcache_crash** (`FreshMapUsed`): a crash mid-write leaves a partial map
  with a fresh mtime. That map is reused forever.
* **pipeline_isolation** (`FailureIsolated`): one failing analysis stops
  every later one.
* **deploy_stopstart** (`StopStartRestarts`): deploy stopstart can stop a job
  and then refuse to start it, exiting 0.
* **cpplint_empty_list** (`SkippedNeverLinted`): with no source files, cpplint
  hands run-clang-tidy an empty list, which lints the whole compilation
  database, `third_party/` included.

Further divergences were found while modelling. The property that states each
one is defined in its module, and the cfg beside it reproduces the violation.
Each is a finding in `PROJECT.json` with no run, to stay within the project's
run budget:
* `MCMapCache_slow.cfg`: builds longer than the grace window.
* `MCAnalysisPipeline_parallel.cfg`: the shared `results.csv`.
* `MCAnalysisPipeline_negative.cfg`: no clamp on noised counts.
* `MCAnalysisPipeline_private.cfg`: basic RAPPOR private release without
  noise.
* `MCAnalysisPipeline_prefix.cfg`: two analyses sharing a map prefix.
* `MCTestRunner_exit.cfg`: missing credentials return None, so the command
  exits 0.
* `MCTestRunner_bigtable.cfg`: emulator tests with no Bigtable.
* `MCCobaltDeploy_ids.cfg`: an id of "0" passes the checks.
* `MCCobaltDeploy_endpoint.cfg`: the refusal message raises TypeError.
* `MCCobaltSettings_malformed.cfg`: UnboundLocalError after a malformed
  `cluster.json`.
* `MCCobaltSettings_jsonbool.cfg`: `_parse_bool` on a JSON `true`.
* `MCCppLint_wrap.cfg`: 256 guard failures exit 0.
* `MCClangTidyLint_prefix.cfg`: `outputs/` is not linted.

`MCClusterImages.cfg` checks `TypeOK` of `ClusterImages`. Push can send an
image built for one cluster to the other cluster's project. Nothing in the
code, in push's help or in spec.md (which leaves deployment out) says it
should not, so no property is claimed of it. The hazard is listed.
`production_build` builds the images for the production cluster and pushes
them (cobaltb.py 591-594), so `DeployProductionBuild` updates `registry`.

### Why the bounds are enough

* **Map cache.** Two pipelines and two edits give every interleaving of
  check, truncate, write and decode, with an edit at each point.
  `Grace` = 2 with `BuildBound` = 1 is the smallest case where a build fits
  inside the window.
* **Pipeline and test runner.** These instances are the code's own lists:
  the six analyses, and the test filters and directories.
* **Settings.** The run enumerates every combination that `main`
  distinguishes.
* **Lint tree.** `MCLintTree` has the following directories:
  * a source directory with headers (with and without guard, links),
    sources and tests;
  * `third_party/`;
  * `out/` and `outputs/`;
  * `.git/`;
  * the six-level generator test directory of `SKIP_LINT_DIRS`.
  With 0 or 1 file per kind the run covers empty lists, a missing guard and
  a failing tidy. The `_wrap` instance allows 256 files per kind.
* **Deploy models.** Two or three invocations are enough for build-then-push
  and for stop-then-start.

## 4. Fairness

* **`AnalysisPipeline`** has weak fairness on each analysis' steps. Only the
  violation run `pipeline_isolation` needs it. Without fairness, stuttering
  alone would violate `FailureIsolated`. With fairness, the trace shows the
  real cause: an earlier raise ends the run. The passing run checks only
  invariants. Its six steps form a chain with no loop, so under fairness
  termination holds by construction and says nothing about the code.
* **`TestRunner`** has weak fairness on `Next`.

Both are single-threaded sequences of synchronous calls, so an enabled step
is the statement the interpreter runs next. The decode scripts and the test
binaries are assumed to return; neither has a timeout in the code.

Neither the clock nor the file edits are fair. `CHECK_DEADLOCK FALSE` is set
where the program really stops: a finished run, an exit, or an invocation
bound that has been reached.

## 5. Proofs (TLAPS, for every value of the constants)

**`MapCacheProofs`**

* `TypeCorrect`.
* `FreshMapTheorem`: `ASSUME Sequential, BuildBound < Grace PROVE Spec =>
  []FreshMapUsed`. The strengthening has four conjuncts:
  * `Exclusive`: at most one pipeline is busy;
  * `ClockOK`: no file time lies in the future;
  * `WriterOK`: a build that is running started within `BuildBound`, after any
    edit it missed;
  * `CacheOK`: a map the freshness test would reuse holds the current
    version.

  The key step is `Finish`: an edit during a build forces the next check to
  rebuild. The two assumptions are exactly what `mapcache_concurrent` and
  `MCMapCache_slow.cfg` show to be needed.

**`AnalysisPipelineProofs`**

* `TypeCorrect`, for every list of analyses, sequential or parallel.
* `OwnResultsTheorem`: `ASSUME Sequential PROVE Spec => []OwnResults`. The
  strengthening has two conjuncts:
  * `SeqOrder`: an analysis that has started has every earlier one done;
  * `EmitOK`: an analysis at emit finds exactly its own results in the
    shared file.

  Lemma `OneActive` derives from `SeqOrder` that two analyses that have
  started and not returned are the same one. So no other decode script can
  overwrite the file between `RunScript` and `Emit`. `MCAnalysisPipeline_parallel.cfg`
  shows that the assumption is needed.

**`CobaltSettingsProofs`**

* `TypeCorrect`.
* `ArtifactsTogether`: `Spec => []ProductionArtifactsTogether`. The
  strengthening records, for each artifact, the pc from which it is chosen
  and that it is production exactly when `--production_dir` is given. It also
  records that settings are only loaded when the production `cluster.json`
  exists (`SettingsOK`, `PemOK`, `CredsOK`, `EarlyOK`).
* `Refinement`: `Spec => ResolvesTogether`, where `ResolvesTogether` is
  `SettingsResolution!Spec` under the mapping `phaseBar` / `artifactsBar`.
  * `RefineInit` shows that initial states map to initial states.
  * `RefineStep` shows that every step maps to `Resolve` (`SetGlobals`), to
    `End` (an early return, a crash or the handler's end), or to a stutter.

**`TestRunnerProofs`** (for every `MaxTries`)

* `TypeCorrect`.
* `RetryOnlyE2ETheorem`: `Spec => []RetryOnlyE2E`.
* `ResultReflectsRunsTheorem`: `Spec => []ResultReflectsRuns`.
* `RecordedFinalTheorem`: `Spec => RecordedFinal`. This is an action
  property: a recorded directory is never run again and never changes lists.

The strengthening `IInv` has three parts:
* `SelectOK`: before `Select` nothing has run, and afterwards `i` indexes the
  selection;
* `TriesOK`: directories at or after the current one have not run, and
  `num_times_to_try` is raised only while `e2e_tests` runs;
* `RecordOK`: `failure_list` and `passed` are disjoint, and together they are
  the finished prefix `Prefix(i - 1)` of the selection.

`RetryOnlyE2E` needs `TriesOK`. `num_times_to_try` is never reset after
`e2e_tests`, so retries stay confined only because `e2e_tests` is the last
directory of every selection. `ResultReflectsRuns` and `RecordedFinal` need
`RecordOK`. Lemma `NotYetRecorded` shows that the directory being configured,
run or recorded has no verdict yet, because no selection lists a directory
twice.

Both facts about selections come from `SelectionsAssumption`: every filter
selects a non-empty list with no repeats and with `e2e_tests`, if present,
last. It is an ASSUME because `SelectSeq`, which builds the `noX` filters,
has no definition the provers can expand. `TestFilters` is finite, so TLC
evaluates the assumption for every filter on every run of the module. The
proof also uses `NoneAssumption`: `None` is not an exit code.

* `JudgesInOrderTheorem`: `Spec => JudgesInOrder`. `_test` implements
  `TestSuite` under this mapping:
  * `phaseBar`: `pc` and `result` give the suite's phase;
  * `verdictBar`: "pass" for the directories in `passed`, "fail" for those
    in `failure_list`, "none" otherwise;
  * `selected` is `test_dirs`.

  `RefineStep` maps each step:
  * `Select` is `Choose`;
  * `Record`, and a configuration `Break`, are `Judge` of the current
    directory. Lemma `JudgeDir` shows it is the first directory without a
    verdict, from `RecordOK` and `NotYetRecorded`;
  * `Report` is `Return`;
  * the missing-credentials return is `Abandon`;
  * an exception (`get_public_uris` with a remote cluster that has no
    addresses, or `_parse_bool` on a JSON boolean `--use_tls`, cobaltb.py
    243, 282, 319) is `Abandon` too (lemma `RaiseAbandons`): the process
    exits with status 1 and no suite verdict;
  * everything else is a stutter.

  While writing this proof, the first `phaseBar` turned out to have
  overlapping CASE arms (`pc = "done"` alone next to `pc = "done" /\ result =
  1`). That makes its value unspecified in TLA+, even though TLC reads the
  arms in order. The arms are now disjoint.

**`ClangTidyLintProofs`** (for every source tree)

* `TypeCorrect`.
* `SkippedNeverLintedTheorem`: `Spec => []SkippedNeverLinted`.
* `ExitHonestTheorem`: `ASSUME ExitModulus > 3 PROVE Spec => []ExitHonest`.
  The guard check and the two clang-tidy calls add at most 3 to the status,
  so the status cannot wrap around.

The strengthening has two parts:
* `WalkOK`: no pending directory and no collected file lies under a skipped
  directory;
* `MainOK`: status bounds at each pc, and `exitCode = status % ExitModulus`
  at the end.

Lemma `PruneSound` is the key step: a directory pruned by the prefix rule has
every descendant pruned too.

* `KeepsPromiseTheorem`: `ASSUME ExitModulus > 3 PROVE Spec => KeepsPromise`.
  The script implements `LintCheck` under this mapping:
  * `Allowed` is the set of files outside the skipped directories;
  * `checked` is `guardChecked \cup tidied`;
  * `problem` is `failed`;
  * the phase follows `pc`.

  The walk steps are stutters. The guard check and the two clang-tidy calls
  are `Check` steps (lemma `CheckOK`), and `Exit` is `Exit`. The proof adds
  `FailOK`, a positive status means a reported problem, proved inductive by
  `FailStep` with lemma `AddCheck`. Together with `MainOK` this gives "exit 0
  exactly when no problem", not only "exit 0 only if no problem".

**`CppLintProofs`** (for every source tree)

* `TypeCorrect`.
* `EveryFileLintedTheorem`: `Spec => []EveryFileLinted`. The strengthening
  `WalkOK` says that every directory outside the skipped ones either has all
  its files collected, or has an ancestor still waiting in `toVisit`
  (`Pending`). Once the walk ends, every file is therefore collected.
  `MainOK` then follows the guard checks and the two clang-tidy calls.
* `ExitOnlyWrapsTheorem`: `Spec => []ExitOnlyWraps`. If `_lint` exits 0 after
  a reported problem, its summed status is a positive multiple of
  `ExitModulus`. `ExitHonest` itself is false for a large enough tree; that is
  the finding `MCCppLint_wrap.cfg` reproduces. This theorem shows the
  wrap-around is the only way it fails. It rests on `ExitOK`: every reported
  problem adds at least 1 to the status.

The lint proofs rely on `TreeAssumption` in `LintWalk`: the directories form
a set of name sequences closed under prefixes, and every file lies in one of
them. This holds of any tree `os.walk` visits.

**`CobaltDeployProofs`** (for every set of versions and every invocation
bound)

Both theorems take as hypothesis `ConstantsOK`: `MaxInvocations` is a
natural number, and no pinned version is the word `"stopped"` or
`"latest"`. The code relies on the same facts: `_deploy_stop` and the
version default use those words as job states. The run `deploy_main`
checks both properties on a small instance.

* `TypeCorrect`: `Spec => []TypeOK`. Lemma `ResultsTyped` types what
  `StartResult`, `StopResult` and `StopStartResult` return, and
  `InvokeTyped` types an invocation of them.
* `OnlyAnalyzersTheorem`: `Spec => []OnlyAnalyzersLeftStopped`. It bounds
  the `StopStartRestarts` finding of `MCCobaltDeploy_stopstart.cfg`. A
  stopstart of a known job that exits 0 with the job stopped is exactly a
  start refused for an Analyzer job that lacks `--bigtable_instance_id`.
  The shuffler is always running again.
  * Lemma `StopStartLeavesStopped` follows the handler's early returns: a
    failed stop, a refused start, a failed start, or a start. A start
    writes `LoadVersions(versionsFile)[j]`, which is never `"stopped"`
    (lemma `LoadNotStopped`).
  * No strengthening beyond `TypeOK` is needed. The property concerns only
    the last invocation. Every other command sets `last.cmd` to something
    other than `"stopstart"`, and `EditVersions` changes neither `running`
    nor `last`.
  * TLC checked the invariant first, with 2 and 3 invocations.

While writing this proof, the outcome definitions of `CobaltDeploy` and
`ClusterImages` (`StartResult`, `StopResult`, `DeployEndpoint` and the
certificate commands) turned out to be CASE expressions with overlapping
arms. TLC takes the first true arm, which matches the code's order of early
returns, but in TLA+ the value of such a CASE is unspecified. They are now
IF/ELSE IF chains in the code's order. All of their runs give the same
results as before.

Each strengthening was first checked by TLC as an invariant of the run's
instance.

Only model-checked, because these are out of the prover's reach:
* liveness (`TestTerminates`), which needs fairness and ENABLED;
* `CppLint`'s `ExitHonest`, which fails by wrap-around as described above;
* `ClusterImages`'s `TypeOK`, which `MCClusterImages.cfg` checks. The
  certificate secrets are named `j \o "_cert"`. Neither SMT nor Zenon
  evaluates concatenation of string literals (they cannot show
  `"shuffler" \o "_cert" = "shuffler_cert"`), so the secrets conjunct cannot
  be proved.

What the selection functions (`SelectSeq`) compute is evaluated by TLC through
`SelectionsAssumption` and not proved, because that would be induction over
data.

## 6. Not modelled

* **Forculus, the RAPPOR encoders and decoders, and the randomizers.** Their
  code is not under `src/`, or is pure numerics.
* **Visualization.** It only formats output.
* **`file_util`.** It holds path and open helpers; their errors are the
  `Fail` branches.
* **Parts of `cobaltb.py`:**
  * build, clean, the process starters (`_start_*`), `show`, `login`,
    `authenticate`, `kube_ui` and the argparse setup. These are
    subprocess calls and printing with no state of their own.
  * a `versions.json` that is valid JSON but not an object. This is listed as
    a hazard.
* **The params file as a second input of map freshness.** This is listed as a
  hazard.
