--------------------------- MODULE AnalysisPipeline ---------------------------
(***************************************************************************)
(* The analyzer stage (prototype/analyzers/analyzer.py): runAllAnalyzers   *)
(* and the two helpers every analyzer calls, analyzeUsingForculus and      *)
(* analyzeUsingRAPPOR.  Each analysis is a record of its configuration;    *)
(* the files it touches are abstracted to who wrote them:                   *)
(*   - the map cache, keyed by map_file_prefix only (the metric name, or    *)
(*     the first correlation variable), holding the source it was derived  *)
(*     from and its mtime;                                                  *)
(*   - the shared analyzer temp directory, holding 'results.csv' and       *)
(*     'assoc-results.csv' as written by the last decode script;           *)
(*   - the output file of each analysis.                                   *)
(* Estimates are small integers; a Laplace sample, once the sum is         *)
(* rounded, is a small integer shift.                                       *)
(***************************************************************************)
EXTENDS Integers, Sequences

CONSTANTS
    Analyses,    \* the analyses runAllAnalyzers performs, in order
    Sources,     \* candidate files and basic map files in the config dir
    Prefixes,    \* map file prefixes
    SrcMtime,    \* modification time of each source file
    Grace,       \* grace window of the map freshness test (10 s)
    MaxTime,     \* bound on the clock
    Noise,       \* rounded Laplace samples considered
    PublicKey,   \* _use_public_key_encryption
    Sequential,  \* TRUE: runAllAnalyzers; FALSE: pipelines run in parallel
    None

Analysis ==
    [kind: {"forculus", "rappor"}, basic: BOOLEAN, assoc: BOOLEAN,
     private: BOOLEAN, prefix: Prefixes, src: Sources, estimate: Int]

ASSUME AnalysesAssumption == Analyses \in Seq(Analysis)
ASSUME TimeAssumption ==
    /\ SrcMtime \in [Sources -> Nat] /\ Grace \in Nat /\ MaxTime \in Nat
ASSUME NoiseAssumption == Noise \subseteq Int /\ 0 \in Noise
ASSUME FlagAssumption ==
    PublicKey \in BOOLEAN /\ Sequential \in BOOLEAN

A == 1 .. Len(Analyses)

ResultFiles == {"results", "assoc"}

Output == [from: A, noised: BOOLEAN, count: Int]

VARIABLES
    pc,          \* step of each analysis
    now,         \* file-system clock
    cacheSrc,    \* source each cached map file was derived from
    cacheMtime,  \* mtime of each cached map file
    tmp,         \* contents of the result files in the analyzer temp dir
    output,      \* contents of each analysis' output file
    cwd,         \* working directory of the analyzer process
    fastEm       \* the fast_em executable has been built

vars == <<pc, now, cacheSrc, cacheMtime, tmp, output, cwd, fastEm>>

Steps == {"wait", "map", "input", "run", "emit", "forculus",
          "done", "failed"}

TypeOK ==
    /\ pc \in [A -> Steps]
    /\ now \in Nat
    /\ cacheSrc \in [Prefixes -> Sources \cup {None}]
    /\ cacheMtime \in [Prefixes -> Nat]
    /\ tmp \in [ResultFiles -> [from: A, count: Int] \cup {None}]
    /\ output \in [A -> Output \cup {None}]
    /\ cwd \in {"saved", "algorithms"}
    /\ fastEm \in BOOLEAN

Init ==
    /\ pc = [a \in A |-> "wait"]
    /\ now = 0
    /\ cacheSrc = [x \in Prefixes |-> None]
    /\ cacheMtime = [x \in Prefixes |-> 0]
    /\ tmp = [f \in ResultFiles |-> None]
    /\ output = [a \in A |-> None]
    /\ cwd = "saved"
    /\ fastEm \in BOOLEAN

(* runAllAnalyzers calls the analyzers one after another; an exception    *)
(* ends it, so a later analysis starts only once the previous one is done.*)
MayStart(a) ==
    Sequential => \A b \in A : b < a => pc[b] = "done"

Fail(a) ==
    /\ pc' = [pc EXCEPT ![a] = "failed"]

Time ==
    /\ now < MaxTime
    /\ now' = now + 1
    /\ UNCHANGED <<pc, cacheSrc, cacheMtime, tmp, output, cwd, fastEm>>

(* Start: Config.from_csv / Params.from_csv of the config file, which may *)
(* be missing or malformed.                                                *)
ReadConfig(a) ==
    /\ pc[a] = "wait"
    /\ MayStart(a)
    /\ \/ pc' = [pc EXCEPT ![a] = IF Analyses[a].kind = "forculus"
                                    THEN "forculus" ELSE "map"]
       \/ Fail(a)
    /\ UNCHANGED <<now, cacheSrc, cacheMtime, tmp, output, cwd, fastEm>>

(* analyzeUsingForculus: the ForculusEvaluator decrypts what reaches the  *)
(* threshold and writes the output; the public-key decryption may fail.   *)
ForculusEvaluate(a) ==
    /\ pc[a] = "forculus"
    /\ \/ /\ pc' = [pc EXCEPT ![a] = "done"]
          /\ output' = [output EXCEPT ![a] = [from |-> a, noised |-> FALSE,
                                              count |-> Analyses[a].estimate]]
       \/ /\ PublicKey
          /\ Fail(a)
          /\ UNCHANGED output
    /\ UNCHANGED <<now, cacheSrc, cacheMtime, tmp, cwd, fastEm>>

(* The map file of the analysis is rebuilt (hashed or copied) unless the  *)
(* cached one is at least Grace newer than the source.                     *)
MapIsStale(a) ==
    LET x == Analyses[a].prefix IN
    cacheSrc[x] = None \/ cacheMtime[x] < SrcMtime[Analyses[a].src] + Grace

(* A rebuild raises when the candidate or basic map file is missing:     *)
(* openFileForReading and shutil.copyfile open the source before the map  *)
(* is truncated, so the cached map is left as it was.  A raise in the     *)
(* middle of HashCandidates is the subject of MapCacheCrash.               *)
PrepareMap(a) ==
    LET x == Analyses[a].prefix IN
    /\ pc[a] = "map"
    /\ \/ /\ pc' = [pc EXCEPT ![a] = "input"]
          /\ IF MapIsStale(a)
               THEN /\ cacheSrc' = [cacheSrc EXCEPT ![x] = Analyses[a].src]
                    /\ cacheMtime' = [cacheMtime EXCEPT ![x] = now]
               ELSE UNCHANGED <<cacheSrc, cacheMtime>>
       \/ /\ MapIsStale(a)
          /\ Fail(a)
          /\ UNCHANGED <<cacheSrc, cacheMtime>>
    /\ UNCHANGED <<now, tmp, output, cwd, fastEm>>

(* sumBits (with decryption) writes the count file, or, for correlation,  *)
(* the input is decrypted to a temp file and the fast_em executable must  *)
(* exist; decryption failures and a missing fast_em raise.                 *)
PrepareInput(a) ==
    /\ pc[a] = "input"
    /\ \/ /\ Analyses[a].assoc => fastEm
          /\ pc' = [pc EXCEPT ![a] = "run"]
       \/ /\ PublicKey
          /\ Fail(a)
       \/ /\ Analyses[a].assoc /\ ~fastEm
          /\ Fail(a)
    /\ UNCHANGED <<now, cacheSrc, cacheMtime, tmp, output, cwd, fastEm>>

ResultFile(a) == IF Analyses[a].assoc THEN "assoc" ELSE "results"

(* Bug variants of RunScript: a results row without its estimate; the    *)
(* CalledProcessError printed and swallowed.                              *)
RunScriptNoCount(a) ==
    /\ pc[a] = "run"
    /\ pc' = [pc EXCEPT ![a] = "emit"]
    /\ tmp' = [tmp EXCEPT ![ResultFile(a)] = [from |-> a]]
    /\ UNCHANGED <<now, cacheSrc, cacheMtime, output, cwd, fastEm>>

RunScriptSwallow(a) ==
    /\ pc[a] = "run"
    /\ \/ /\ tmp' = [tmp EXCEPT ![ResultFile(a)] =
                        [from |-> a, count |-> Analyses[a].estimate]]
          /\ UNCHANGED cwd
       \/ /\ cwd' = "algorithms"
          /\ UNCHANGED tmp
    /\ pc' = [pc EXCEPT ![a] = "emit"]
    /\ UNCHANGED <<now, cacheSrc, cacheMtime, output, fastEm>>

(* chdir(ALGORITHMS_DIR), run the R script; on success it writes its      *)
(* results into the temp dir and chdir(savedir) restores the cwd; on       *)
(* failure the exception skips chdir(savedir).                             *)
RunScript(a) ==
    /\ pc[a] = "run"
    /\ \/ /\ pc' = [pc EXCEPT ![a] = "emit"]
          /\ tmp' = [tmp EXCEPT ![ResultFile(a)] =
                        [from |-> a, count |-> Analyses[a].estimate]]
          /\ UNCHANGED cwd
       \/ /\ Fail(a)
          /\ cwd' = "algorithms"
          /\ UNCHANGED tmp
    /\ UNCHANGED <<now, cacheSrc, cacheMtime, output, fastEm>>

(* Copy the results file to the output, or, for a private release of a    *)
(* non-basic, non-correlation analysis, add rounded Laplace noise to the  *)
(* estimated count of each row and write the output.  (The file read is  *)
(* always the one this analysis' script wrote, so the IOError of a missing *)
(* results file cannot occur.)                                             *)
CopyOnly(a) ==
    Analyses[a].assoc \/ Analyses[a].basic \/ ~Analyses[a].private

CopyResults(a) ==
    /\ CopyOnly(a)
    /\ tmp[ResultFile(a)] # None
    /\ pc' = [pc EXCEPT ![a] = "done"]
    /\ output' = [output EXCEPT ![a] =
                    [from |-> tmp[ResultFile(a)].from, noised |-> FALSE,
                     count |-> tmp[ResultFile(a)].count]]

AddNoise(a) ==
    /\ ~CopyOnly(a)
    /\ tmp["results"] # None
    /\ pc' = [pc EXCEPT ![a] = "done"]
    /\ \E d \in Noise :
         output' = [output EXCEPT ![a] =
                      [from |-> tmp["results"].from, noised |-> TRUE,
                       count |-> tmp["results"].count + d]]

Emit(a) ==
    /\ pc[a] = "emit"
    /\ CopyResults(a) \/ AddNoise(a)
    /\ UNCHANGED <<now, cacheSrc, cacheMtime, tmp, cwd, fastEm>>

Next ==
    \/ Time
    \/ \E a \in A :
         \/ ReadConfig(a) \/ ForculusEvaluate(a) \/ PrepareMap(a)
         \/ PrepareInput(a) \/ RunScript(a) \/ Emit(a)

Spec == Init /\ [][Next]_vars

(* Every step of an analysis is a synchronous call of one process; the    *)
(* decode scripts are assumed to run to completion (no timeout exists).   *)
FairSpec == Spec /\ \A a \in A : WF_vars(ReadConfig(a) \/ ForculusEvaluate(a)
                     \/ PrepareMap(a) \/ PrepareInput(a) \/ RunScript(a)
                     \/ Emit(a))

-----------------------------------------------------------------------------
(* OwnResults: the output file of every analysis holds the results its own *)
(* decode script produced, never those another analysis left in the       *)
(* shared temp directory (results.csv / assoc-results.csv).                *)
OwnResults ==
    \A a \in A : output[a] # None => output[a].from = a

(* PrivateReleaseNoised: an analysis asked for_private_release releases    *)
(* only a Laplace-noised output (docstring of analyzeUsingRAPPOR).         *)
PrivateReleaseNoised ==
    \A a \in A : output[a] # None /\ Analyses[a].private => output[a].noised

(* FailureIsolated: every analysis eventually finishes, with its output or *)
(* its own error; a failing metric does not block the others (spec §7).   *)
FailureIsolated ==
    <>(\A a \in A : pc[a] \in {"done", "failed"})

(* NonNegativeCounts: no released count is negative (spec §8: negative     *)
(* estimates are clamped to zero).                                         *)
NonNegativeCounts ==
    \A a \in A : output[a] # None => output[a].count >= 0

(* MapOfOwnSource: an analysis decodes against a map derived from its own *)
(* candidate (or basic map) file: the cache is keyed by metric and source *)
(* (spec §3), so analyses never share a cached map.                        *)
MapOfOwnSource ==
    \A a \in A : pc[a] \in {"input", "run"} =>
        cacheSrc[Analyses[a].prefix] = Analyses[a].src

=============================================================================
