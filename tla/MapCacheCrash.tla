--------------------------- MODULE MapCacheCrash ---------------------------
(* MapCache with pipelines that may die (KeyboardInterrupt, OOM kill, a    *)
(* failing HashCandidates) while the map file is open for writing.  The    *)
(* file was truncated in place, so what stays in the cache directory is a  *)
(* partial map whose mtime is that of its last write.                      *)
EXTENDS MapCache

(* A building pipeline dies; the 'with' block closes the half-written map. *)
Crash(p) ==
    /\ pc[p] = "writing"
    /\ pc' = [pc EXCEPT ![p] = "idle"]
    /\ mapMtime' = now
    /\ UNCHANGED <<now, srcVer, srcMtime, mapExists, mapContent,
                   readVer, started, seen>>

NextCrash == Next \/ \E p \in Proc : Crash(p)

SpecCrash == Init /\ [][NextCrash]_vars
=============================================================================
