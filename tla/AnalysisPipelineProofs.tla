----------------------- MODULE AnalysisPipelineProofs -----------------------
(***************************************************************************)
(* Proofs about AnalysisPipeline, for every list of analyses, every set   *)
(* of sources and prefixes and every clock bound: the variables stay well *)
(* typed, and when the analyses run one after another (runAllAnalyzers)   *)
(* each output holds its own analysis' results.                            *)
(***************************************************************************)
EXTENDS AnalysisPipeline, TLAPS

(* Each position of runAllAnalyzers' list holds an analysis record.        *)
LEMMA AnalysisOf ==
    ASSUME NEW a \in A
    PROVE  Analyses[a] \in Analysis
BY AnalysesAssumption DEF A

(* Fail only moves the failing analysis to "failed".                       *)
LEMMA FailType ==
    ASSUME TypeOK, NEW a \in A, Fail(a)
    PROVE  pc' \in [A -> Steps]
BY DEF Fail, TypeOK, Steps

(* Every step keeps the variables well typed.                              *)
LEMMA TypeStep == TypeOK /\ [Next]_vars => TypeOK'
<1> SUFFICES ASSUME TypeOK, [Next]_vars PROVE TypeOK'
  OBVIOUS
<1>1. CASE Time
  BY <1>1 DEF Time, TypeOK
<1>2. ASSUME NEW a \in A, ReadConfig(a) PROVE TypeOK'
  BY <1>2, FailType DEF ReadConfig, TypeOK, Steps
<1>3. ASSUME NEW a \in A, ForculusEvaluate(a) PROVE TypeOK'
  <2>1. Analyses[a].estimate \in Int
    BY AnalysisOf DEF Analysis
  <2>2. [from |-> a, noised |-> FALSE, count |-> Analyses[a].estimate] \in Output
    BY <2>1 DEF Output
  <2>3. QED
    BY <1>3, <2>2, FailType DEF ForculusEvaluate, TypeOK, Steps
<1>4. ASSUME NEW a \in A, PrepareMap(a) PROVE TypeOK'
  BY <1>4, AnalysisOf, FailType DEF PrepareMap, TypeOK, Steps, Analysis
<1>5. ASSUME NEW a \in A, PrepareInput(a) PROVE TypeOK'
  BY <1>5, FailType DEF PrepareInput, TypeOK, Steps
<1>6. ASSUME NEW a \in A, RunScript(a) PROVE TypeOK'
  <2>1. ResultFile(a) \in ResultFiles
    BY DEF ResultFile, ResultFiles
  <2>2. QED
    BY <1>6, <2>1, FailType, AnalysisOf DEF RunScript, TypeOK, Steps, Analysis
<1>7. ASSUME NEW a \in A, Emit(a) PROVE TypeOK'
  <2>1. ResultFile(a) \in ResultFiles
    BY DEF ResultFile, ResultFiles
  <2>2. CASE CopyResults(a)
    BY <1>7, <2>1, <2>2 DEF Emit, CopyResults, TypeOK, Steps, Output
  <2>3. CASE AddNoise(a)
    BY <1>7, <2>3, NoiseAssumption DEF Emit, AddNoise, TypeOK, Steps, Output,
       ResultFiles
  <2>4. QED
    BY <1>7, <2>2, <2>3 DEF Emit
<1>8. CASE UNCHANGED vars
  BY <1>8 DEF vars, TypeOK
<1>9. QED
  BY <1>1, <1>2, <1>3, <1>4, <1>5, <1>6, <1>7, <1>8 DEF Next

(* The initial state is well typed.                                        *)
LEMMA InitType == Init => TypeOK
BY DEF Init, TypeOK, Steps

(* TypeCorrect: every state of the analyzer, sequential or parallel, is   *)
(* well typed.                                                             *)
THEOREM TypeCorrect == Spec => []TypeOK
BY InitType, TypeStep, PTL DEF Spec

-----------------------------------------------------------------------------
(* The strengthening of OwnResults for the sequential schedule.            *)

(* An analysis that has left "wait" was started by runAllAnalyzers after   *)
(* every earlier one had returned.                                         *)
SeqOrder ==
    \A a, b \in A : pc[a] # "wait" /\ b < a => pc[b] = "done"

(* An analysis about to emit finds in the shared result file the results *)
(* its own decode script wrote.                                            *)
EmitOK ==
    \A a \in A : pc[a] = "emit" =>
        tmp[ResultFile(a)] = [from |-> a, count |-> Analyses[a].estimate]

IInv == TypeOK /\ SeqOrder /\ EmitOK /\ OwnResults

(* Under SeqOrder two analyses that have both started and not returned    *)
(* are the same one.                                                       *)
LEMMA OneActive ==
    ASSUME SeqOrder, NEW a \in A, NEW b \in A,
           pc[a] \notin {"wait", "done"}, pc[b] \notin {"wait", "done"}
    PROVE  a = b
BY DEF SeqOrder, A

(* Steps that move one analysis on without touching the result files or   *)
(* the outputs preserve the strengthening, given that the analysis had    *)
(* started and not returned, or may start.                                 *)
LEMMA QuietStep ==
    ASSUME Sequential, IInv, TypeOK', NEW a \in A,
           pc[a] # "done", pc[a] = "wait" => MayStart(a),
           pc' = [pc EXCEPT ![a] = pc'[a]], pc'[a] \notin {"wait", "emit"},
           UNCHANGED <<tmp, output>>
    PROVE  IInv'
<1>1. SeqOrder'
  BY DEF IInv, SeqOrder, MayStart, TypeOK, A
<1>2. EmitOK'
  BY DEF IInv, EmitOK, TypeOK
<1>3. OwnResults'
  BY DEF IInv, OwnResults
<1>4. QED
  BY <1>1, <1>2, <1>3 DEF IInv

(* Every step preserves the strengthening when the analyses run in turn.   *)
LEMMA IInvStep ==
    ASSUME Sequential
    PROVE  IInv /\ [Next]_vars => IInv'
<1> SUFFICES ASSUME IInv, [Next]_vars PROVE IInv'
  OBVIOUS
<1>0. TypeOK'
  BY TypeStep DEF IInv
<1>1. CASE Time
  BY <1>0, <1>1 DEF Time, IInv, SeqOrder, EmitOK, OwnResults
<1>2. ASSUME NEW a \in A, ReadConfig(a) PROVE IInv'
  BY <1>0, <1>2, QuietStep DEF ReadConfig, Fail, IInv, TypeOK
<1>3. ASSUME NEW a \in A, ForculusEvaluate(a) PROVE IInv'
  <2>1. SeqOrder' /\ EmitOK'
    BY <1>0, <1>3 DEF ForculusEvaluate, Fail, IInv, SeqOrder, EmitOK, TypeOK
  <2>2. OwnResults'
    BY <1>3 DEF ForculusEvaluate, Fail, IInv, OwnResults, TypeOK
  <2>3. QED
    BY <1>0, <2>1, <2>2 DEF IInv
<1>4. ASSUME NEW a \in A, PrepareMap(a) PROVE IInv'
  BY <1>0, <1>4, QuietStep DEF PrepareMap, Fail, IInv, TypeOK
<1>5. ASSUME NEW a \in A, PrepareInput(a) PROVE IInv'
  BY <1>0, <1>5, QuietStep DEF PrepareInput, Fail, IInv, TypeOK
<1>6. ASSUME NEW a \in A, RunScript(a) PROVE IInv'
  <2>1. SeqOrder'
    BY <1>0, <1>6 DEF RunScript, Fail, IInv, SeqOrder, TypeOK
  <2>2. ASSUME NEW c \in A, pc'[c] = "emit"
        PROVE  tmp'[ResultFile(c)] = [from |-> c, count |-> Analyses[c].estimate]
    <3>1. CASE c = a
      <4>1. ResultFile(a) \in ResultFiles
        BY DEF ResultFile, ResultFiles
      <4>2. tmp' = [tmp EXCEPT ![ResultFile(a)] =
                      [from |-> a, count |-> Analyses[a].estimate]]
        BY <1>6, <2>2, <3>1 DEF RunScript, Fail, IInv, TypeOK
      <4>3. QED
        BY <3>1, <4>1, <4>2 DEF IInv, TypeOK
    <3>2. CASE c # a
      <4>1. pc[c] = "emit"
        BY <1>6, <2>2, <3>2 DEF RunScript, Fail, IInv, TypeOK
      <4>2. FALSE
        BY <1>6, <4>1, <3>2, OneActive DEF RunScript, IInv
      <4>3. QED
        BY <4>2
    <3>3. QED
      BY <3>1, <3>2
  <2>3. OwnResults'
    BY <1>6 DEF RunScript, IInv, OwnResults
  <2>4. QED
    BY <1>0, <2>1, <2>2, <2>3 DEF IInv, EmitOK
<1>7. ASSUME NEW a \in A, Emit(a) PROVE IInv'
  <2>1. SeqOrder' /\ EmitOK'
    BY <1>0, <1>7 DEF Emit, CopyResults, AddNoise, IInv, SeqOrder, EmitOK,
       TypeOK
  <2>2. ResultFile(a) = "results" \/ CopyOnly(a)
    BY DEF ResultFile, CopyOnly
  <2>3. tmp[ResultFile(a)].from = a
    <3>1. pc[a] = "emit"
      BY <1>7 DEF Emit
    <3>2. tmp[ResultFile(a)] = [from |-> a, count |-> Analyses[a].estimate]
      BY <3>1 DEF IInv, EmitOK
    <3>3. QED
      BY <3>2
  <2>7. OwnResults'
    <3>1. CASE CopyResults(a)
      <4>1. output' = [output EXCEPT ![a] =
                         [from |-> a, noised |-> FALSE,
                          count |-> tmp[ResultFile(a)].count]]
        BY <2>3, <3>1 DEF CopyResults
      <4>2. QED
        BY <4>1 DEF IInv, OwnResults, TypeOK
    <3>2. CASE AddNoise(a)
      <4>1. tmp["results"].from = a
        BY <2>2, <2>3, <3>2 DEF AddNoise
      <4>2. PICK d \in Noise :
              output' = [output EXCEPT ![a] =
                           [from |-> a, noised |-> TRUE,
                            count |-> tmp["results"].count + d]]
        BY <3>2, <4>1 DEF AddNoise
      <4>3. QED
        BY <4>2 DEF IInv, OwnResults, TypeOK
    <3>3. QED
      BY <1>7, <3>1, <3>2 DEF Emit
  <2>4. QED
    BY <1>0, <2>1, <2>7 DEF IInv
<1>8. CASE UNCHANGED vars
  BY <1>8 DEF vars, IInv, SeqOrder, EmitOK, OwnResults, TypeOK
<1>9. QED
  BY <1>1, <1>2, <1>3, <1>4, <1>5, <1>6, <1>7, <1>8 DEF Next

(* The initial state satisfies the strengthening.                          *)
LEMMA IInvInit == Init => IInv
BY InitType DEF Init, IInv, SeqOrder, EmitOK, OwnResults

(* OwnResultsTheorem: when runAllAnalyzers runs the analyses one after    *)
(* another, every output file holds its own analysis' results, for every  *)
(* list of analyses -- the shared results.csv is only unsafe in parallel. *)
THEOREM OwnResultsTheorem ==
    ASSUME Sequential
    PROVE  Spec => []OwnResults
<1>1. IInv => OwnResults
  BY DEF IInv
<1>2. QED
  BY <1>1, IInvInit, IInvStep, PTL DEF Spec

=============================================================================
