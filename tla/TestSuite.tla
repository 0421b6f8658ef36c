----------------------------- MODULE TestSuite -----------------------------
(***************************************************************************)
(* What the test command of cobaltb.py promises ("Returns 0 if all tests  *)
(* pass, otherwise returns 1"): it chooses a list of test directories,    *)
(* gives each a verdict at most once and in the order of the list, and    *)
(* returns 0 when every directory passed or 1 once one has failed.  It     *)
(* may also give up, returning no result at all.                          *)
(*                                                                         *)
(* This is the abstract view; TestRunner is the step-by-step model of     *)
(* _test and is shown to implement it.                                    *)
(***************************************************************************)
EXTENDS Naturals, Sequences

CONSTANT Dirs    \* the test directories

VARIABLES
    phase,       \* "selecting", "running", "passed" (0), "failed" (1), "abandoned"
    selected,    \* the list of directories to run
    verdict      \* the verdict of each directory: "none", "pass" or "fail"

vars == <<phase, selected, verdict>>

TypeOK ==
    /\ phase \in {"selecting", "running", "passed", "failed", "abandoned"}
    /\ selected \in Seq(Dirs)
    /\ verdict \in [Dirs -> {"none", "pass", "fail"}]

Init ==
    /\ phase = "selecting"
    /\ selected = <<>>
    /\ verdict = [d \in Dirs |-> "none"]

(* The list names some directories, none twice.                           *)
Distinct(s) == \A k, l \in 1..Len(s) : s[k] = s[l] => k = l

Choose ==
    /\ phase = "selecting"
    /\ phase' = "running"
    /\ selected' \in Seq(Dirs)
    /\ Len(selected') >= 1
    /\ Distinct(selected')
    /\ UNCHANGED verdict

(* The k-th directory has no verdict and every earlier one has.           *)
IsNext(k) ==
    /\ verdict[selected[k]] = "none"
    /\ \A j \in 1..(k - 1) : verdict[selected[j]] # "none"

(* The next directory of the list passes or fails.                        *)
Judge(v) ==
    /\ phase = "running"
    /\ \E k \in 1..Len(selected) :
         /\ IsNext(k)
         /\ verdict' = [verdict EXCEPT ![selected[k]] = v]
    /\ UNCHANGED <<phase, selected>>

(* Some directory of the list has failed.                                  *)
SomeFailed == \E k \in 1..Len(selected) : verdict[selected[k]] = "fail"

(* Once every directory has its verdict, or one has failed, the result:    *)
(* 1 if one failed, else 0.                                                 *)
Return ==
    /\ phase = "running"
    /\ (\A k \in 1..Len(selected) : verdict[selected[k]] # "none") \/ SomeFailed
    /\ phase' = IF SomeFailed THEN "failed" ELSE "passed"
    /\ UNCHANGED <<selected, verdict>>

(* The command gives up without a result.                                  *)
Abandon ==
    /\ phase = "running"
    /\ phase' = "abandoned"
    /\ UNCHANGED <<selected, verdict>>

Next ==
    \/ Choose
    \/ \E v \in {"pass", "fail"} : Judge(v)
    \/ Return
    \/ Abandon

Spec == Init /\ [][Next]_vars

=============================================================================
