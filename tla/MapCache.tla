------------------------------ MODULE MapCache ------------------------------
(***************************************************************************)
(* The RAPPOR map-file cache of the analyzer (prototype/analyzers/        *)
(* analyzer.py, _generateMapFileIfNecessary and _copyFileIfNecessary).    *)
(*                                                                         *)
(* A source file (the candidate file, or the static basic map) lives in   *)
(* the config directory; a derived map file lives in the cache directory. *)
(* Each analyzer pipeline compares the two modification times, and        *)
(* rebuilds the map in place (truncate, then write) unless                 *)
(*     mtime(map) >= mtime(source) + 10,                                   *)
(* after which the decode script reads the map.  The data of a file is     *)
(* abstracted to the version of the source it was derived from; a map      *)
(* that has been truncated and not yet completely written holds Partial.  *)
(***************************************************************************)
EXTENDS Naturals

CONSTANTS
    Proc,        \* analyzer pipelines sharing the cache directory
    Grace,       \* the grace window of the freshness check (10 s in the code)
    BuildBound,  \* longest time a map build (hash or copy) may take
    MaxTime,     \* bound on the clock
    MaxVersion,  \* bound on the number of edits of the source file
    Sequential,  \* TRUE: pipelines run one after another (runAllAnalyzers)
    Partial      \* the content of a truncated, not yet written map file

ASSUME GraceAssumption == Grace \in Nat \ {0}
ASSUME BoundsAssumption ==
    /\ BuildBound \in Nat /\ MaxTime \in Nat /\ MaxVersion \in Nat
ASSUME SequentialAssumption == Sequential \in BOOLEAN
ASSUME PartialAssumption == Partial \notin Nat

VARIABLES
    now,         \* the file-system clock
    srcVer,      \* version of the source (candidate) file
    srcMtime,    \* os.path.getmtime(candidate_file)
    mapExists,   \* os.path.exists(map_file)
    mapMtime,    \* os.path.getmtime(map_file)
    mapContent,  \* source version the map was derived from, or Partial
    pc,          \* where each pipeline is
    readVer,     \* source version a building pipeline read
    started,     \* time a building pipeline truncated the map
    seen         \* source version a pipeline decodes against

vars == <<now, srcVer, srcMtime, mapExists, mapMtime, mapContent,
          pc, readVer, started, seen>>

PC == {"idle", "open", "writing", "decode"}

TypeOK ==
    /\ now \in Nat
    /\ srcVer \in Nat
    /\ srcMtime \in Nat
    /\ mapExists \in BOOLEAN
    /\ mapMtime \in Nat
    /\ mapContent \in Nat \cup {Partial}
    /\ pc \in [Proc -> PC]
    /\ readVer \in [Proc -> Nat]
    /\ started \in [Proc -> Nat]
    /\ seen \in [Proc -> Nat]

Init ==
    /\ now = 0
    /\ srcVer = 0
    /\ srcMtime = 0
    /\ mapExists = FALSE
    /\ mapMtime = 0
    /\ mapContent = Partial
    /\ pc = [p \in Proc |-> "idle"]
    /\ readVer = [p \in Proc |-> 0]
    /\ started = [p \in Proc |-> 0]
    /\ seen = [p \in Proc |-> 0]

(* Bug variant: the test without the grace window.                         *)
NeedsRebuildNoGrace ==
    ~mapExists \/ mapMtime < srcMtime

(* The freshness test of _generateMapFileIfNecessary (and, identically,   *)
(* of _copyFileIfNecessary).                                               *)
NeedsRebuild ==
    ~mapExists \/ mapMtime < srcMtime + Grace

(* Under runAllAnalyzers a pipeline starts only when the others are done. *)
MayStart(p) ==
    Sequential => \A q \in Proc \ {p} : pc[q] = "idle"

(* Someone edits the source file in the config directory.                 *)
EditSource ==
    /\ srcVer < MaxVersion
    /\ srcVer' = srcVer + 1
    /\ srcMtime' = now
    /\ UNCHANGED <<now, mapExists, mapMtime, mapContent,
                   pc, readVer, started, seen>>

(* Time passes; a build in progress finishes within BuildBound.            *)
Tick ==
    /\ now < MaxTime
    /\ \A p \in Proc : pc[p] = "writing" => now + 1 <= started[p] + BuildBound
    /\ now' = now + 1
    /\ UNCHANGED <<srcVer, srcMtime, mapExists, mapMtime, mapContent,
                   pc, readVer, started, seen>>

(* analyzeUsingRAPPOR reaches the map step: compare the modification      *)
(* times; reuse the cached map or go on to rebuild it.                     *)
Check(p) ==
    /\ pc[p] = "idle"
    /\ MayStart(p)
    /\ IF NeedsRebuild
         THEN /\ pc' = [pc EXCEPT ![p] = "open"]
              /\ UNCHANGED seen
         ELSE /\ pc' = [pc EXCEPT ![p] = "decode"]
              /\ seen' = [seen EXCEPT ![p] = srcVer]
    /\ UNCHANGED <<now, srcVer, srcMtime, mapExists, mapMtime, mapContent,
                   readVer, started>>

(* Open the source for reading and the map for writing: 'w+b' creates or  *)
(* truncates the map file in place and stamps its mtime.                   *)
Open(p) ==
    /\ pc[p] = "open"
    /\ pc' = [pc EXCEPT ![p] = "writing"]
    /\ readVer' = [readVer EXCEPT ![p] = srcVer]
    /\ started' = [started EXCEPT ![p] = now]
    /\ mapExists' = TRUE
    /\ mapMtime' = now
    /\ mapContent' = Partial
    /\ UNCHANGED <<now, srcVer, srcMtime, seen>>

(* Bug variant: the pipeline takes the map content it saw before writing. *)
FinishStale(p) ==
    /\ pc[p] = "writing"
    /\ pc' = [pc EXCEPT ![p] = "decode"]
    /\ mapMtime' = now
    /\ mapContent' = readVer[p]
    /\ seen' = [seen EXCEPT ![p] = mapContent]
    /\ UNCHANGED <<now, srcVer, srcMtime, mapExists, readVer, started>>

(* HashCandidates (or copyfile) writes the whole map and the file closes. *)
Finish(p) ==
    /\ pc[p] = "writing"
    /\ pc' = [pc EXCEPT ![p] = "decode"]
    /\ mapMtime' = now
    /\ mapContent' = readVer[p]
    /\ seen' = [seen EXCEPT ![p] = readVer[p]]
    /\ UNCHANGED <<now, srcVer, srcMtime, mapExists, readVer, started>>

(* The decode script reads the map file and the pipeline returns.          *)
Decode(p) ==
    /\ pc[p] = "decode"
    /\ pc' = [pc EXCEPT ![p] = "idle"]
    /\ UNCHANGED <<now, srcVer, srcMtime, mapExists, mapMtime, mapContent,
                   readVer, started, seen>>

Next ==
    \/ EditSource
    \/ Tick
    \/ \E p \in Proc : Check(p) \/ Open(p) \/ Finish(p) \/ Decode(p)

Spec == Init /\ [][Next]_vars

-----------------------------------------------------------------------------
(* FreshMapUsed: a pipeline that is about to decode finds in the map file *)
(* exactly the source version it judged current when it reused the cache  *)
(* or read the source to rebuild it: an estimate is never computed against *)
(* a stale or half-written map (the freshness test plus the grace window).*)
FreshMapUsed ==
    \A p \in Proc : pc[p] = "decode" => mapContent = seen[p]

(* NoPartialRead: the decode script never reads a map file that another   *)
(* pipeline has truncated and not finished writing (spec: "partial-file   *)
(* exposure is not acceptable").                                           *)
NoPartialRead ==
    \A p \in Proc : pc[p] = "decode" => mapContent # Partial

=============================================================================
