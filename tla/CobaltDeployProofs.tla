------------------------ MODULE CobaltDeployProofs -------------------------
(***************************************************************************)
(* Proofs about CobaltDeploy, for every set of versions and every bound   *)
(* on the invocations: the cluster commands keep their variables well     *)
(* typed, and deploy stopstart exits 0 with its job left stopped only for *)
(* an Analyzer job whose start was refused.                                *)
(*                                                                         *)
(* The hypotheses are those the module's comment states of its constants: *)
(* MaxInvocations is a natural number and no pinned version is one of the *)
(* words the handlers use for a job's state.                               *)
(***************************************************************************)
EXTENDS CobaltDeploy, TLAPS

ConstantsOK ==
    /\ MaxInvocations \in Nat
    /\ "stopped" \notin Versions
    /\ "latest" \notin Versions

(* _load_versions_file never answers "stopped".                            *)
LEMMA LoadNotStopped ==
    ASSUME ConstantsOK, NEW f \in VersionsFiles, NEW j \in RealJobs
    PROVE  /\ LoadVersions(f)[j] \in Versions \cup {"latest"}
           /\ LoadVersions(f)[j] # "stopped"
BY DEF LoadVersions, VersionsFiles, ConstantsOK

(* What the three deploy handlers return: a running-state and an outcome  *)
(* of the right kinds.                                                     *)
LEMMA ResultsTyped ==
    ASSUME ConstantsOK, TypeOK, NEW j \in Jobs, NEW instance \in BOOLEAN,
           NEW ok1 \in BOOLEAN, NEW ok2 \in BOOLEAN
    PROVE  \A res \in {StartResult(j, instance, running, ok1),
                       StopResult(j, running, ok1),
                       StopStartResult(j, instance, running, ok1, ok2)} :
              /\ res.running \in [RealJobs -> Versions \cup {"latest", "stopped"}]
              /\ res.outcome \in Outcomes
<1>1. \A r \in [RealJobs -> Versions \cup {"latest", "stopped"}], ok \in BOOLEAN :
        /\ StartResult(j, instance, r, ok).running
             \in [RealJobs -> Versions \cup {"latest", "stopped"}]
        /\ StartResult(j, instance, r, ok).outcome \in Outcomes
  BY LoadNotStopped DEF StartResult, TypeOK, Outcomes
<1>2. \A r \in [RealJobs -> Versions \cup {"latest", "stopped"}], ok \in BOOLEAN :
        /\ StopResult(j, r, ok).running
             \in [RealJobs -> Versions \cup {"latest", "stopped"}]
        /\ StopResult(j, r, ok).outcome \in Outcomes
  BY DEF StopResult, Outcomes
<1>3. QED
  BY <1>1, <1>2 DEF StopStartResult, TypeOK

(* An invocation of a deploy handler keeps the variables well typed.      *)
LEMMA InvokeTyped ==
    ASSUME ConstantsOK, TypeOK, NEW cmd \in {"start", "stop", "stopstart"},
           NEW j \in Jobs, NEW res,
           res.running \in [RealJobs -> Versions \cup {"latest", "stopped"}],
           res.outcome \in Outcomes, Invoke(cmd, j, res)
    PROVE  TypeOK'
BY DEF Invoke, TypeOK, ExitStatus, Commands, ConstantsOK

(* Every step of the operator keeps the variables well typed.              *)
LEMMA TypeStep ==
    ASSUME ConstantsOK PROVE TypeOK /\ [Next]_vars => TypeOK'
<1> SUFFICES ASSUME TypeOK, [Next]_vars PROVE TypeOK'
  OBVIOUS
<1>1. CASE DeployStart
  BY <1>1, ResultsTyped, InvokeTyped DEF DeployStart
<1>2. CASE DeployStop
  BY <1>2, ResultsTyped, InvokeTyped DEF DeployStop
<1>3. CASE DeployStopStart
  BY <1>3, ResultsTyped, InvokeTyped DEF DeployStopStart
<1>4. CASE InvokeBigtableTool
  <2>1. PICK cmd \in BigtableCommands, a \in ToolArgs, ok \in BOOLEAN :
          LET outcome == IF ToolRefuses(cmd, a) THEN "refused"
                         ELSE IF ok THEN "done" ELSE "failed"
          IN  /\ invocations < MaxInvocations
              /\ invocations' = invocations + 1
              /\ tables' = (tables \/ (cmd = "create_tables" /\ outcome = "done"))
              /\ deletions' =
                   IF cmd # "create_tables" /\ outcome = "done"
                     THEN deletions \cup
                            {[cmd |-> cmd,
                              zeroId |-> "zero" \in {a.customer, a.projectId, a.third},
                              danger |-> cmd = "delete_reports" /\ a.danger]}
                     ELSE deletions
              /\ last' = [cmd |-> cmd, job |-> "none", outcome |-> outcome,
                          exit |-> ExitStatus(outcome)]
              /\ UNCHANGED <<running, endpoints, versionsFile>>
    BY <1>4 DEF InvokeBigtableTool
  <2>2. tables' \in BOOLEAN
    BY <2>1, Zenon DEF TypeOK
  <2>3. deletions' \subseteq Deletion
    <3> DEFINE rec == [cmd |-> cmd,
                       zeroId |-> "zero" \in {a.customer, a.projectId, a.third},
                       danger |-> cmd = "delete_reports" /\ a.danger]
    <3>1. a.danger \in BOOLEAN
      BY DEF ToolArgs
    <3>2. /\ rec.cmd \in BigtableCommands
          /\ rec.zeroId \in BOOLEAN
          /\ rec.danger \in BOOLEAN
      <4>1. rec.cmd \in BigtableCommands
        BY DEF rec
      <4>2. rec.zeroId \in BOOLEAN
        <5>1. rec.zeroId = ("zero" \in {a.customer, a.projectId, a.third})
          BY DEF rec
        <5>2. ("zero" \in {a.customer, a.projectId, a.third}) \in BOOLEAN
          OBVIOUS
        <5>3. QED
          BY <5>1, <5>2
      <4>3. rec.danger \in BOOLEAN
        BY <3>1, Zenon DEF rec
      <4>4. QED
        BY <4>1, <4>2, <4>3
    <3>3. rec \in Deletion
      <4>1. rec = [cmd |-> rec.cmd, zeroId |-> rec.zeroId, danger |-> rec.danger]
        OBVIOUS
      <4>2. QED
        BY <3>2, <4>1, Zenon DEF Deletion
    <3>4. deletions' \in {deletions, deletions \cup {rec}}
      BY <2>1
    <3>5. QED
      BY <3>3, <3>4 DEF TypeOK
  <2>4. invocations' \in 0..MaxInvocations
    BY <2>1 DEF TypeOK, ConstantsOK
  <2>5. last' \in [cmd: Commands, job: Jobs \cup {"none"}, outcome: Outcomes,
                   exit: {0, 1}]
    BY <2>1 DEF ExitStatus, Commands, Outcomes
  <2>6. QED
    BY <2>1, <2>2, <2>3, <2>4, <2>5 DEF TypeOK
<1>5. CASE DeployEndpoint
  <2>1. PICK prefix \in Prefixes, j \in Jobs, ok \in BOOLEAN :
          LET outcome ==
                IF prefix \notin {"", "google.com"} THEN "internal_error"
                ELSE IF j \notin {"report-master", "shuffler"} THEN "refused"
                ELSE IF ok THEN "done"
                ELSE "failed"
          IN
          /\ invocations < MaxInvocations
          /\ invocations' = invocations + 1
          /\ endpoints' = IF outcome = "done" THEN endpoints \cup {j}
                                              ELSE endpoints
          /\ last' = [cmd |-> "endpoint", job |-> j, outcome |-> outcome,
                      exit |-> ExitStatus(outcome)]
          /\ UNCHANGED <<running, tables, deletions, versionsFile>>
    BY <1>5 DEF DeployEndpoint
  <2>2. endpoints' \subseteq RealJobs
    BY <2>1 DEF TypeOK, RealJobs
  <2>3. invocations' \in 0..MaxInvocations
    <3>1. invocations < MaxInvocations /\ invocations' = invocations + 1
      BY <2>1
    <3>2. QED
      BY <3>1 DEF TypeOK, ConstantsOK
  <2>4. last' \in [cmd: Commands, job: Jobs \cup {"none"}, outcome: Outcomes,
                   exit: {0, 1}]
    BY <2>1 DEF ExitStatus, Commands, Outcomes
  <2>5. QED
    BY <2>1, <2>2, <2>3, <2>4 DEF TypeOK
<1>6. CASE EditVersions
  BY <1>6 DEF EditVersions, TypeOK
<1>7. CASE UNCHANGED vars
  BY <1>7 DEF vars, TypeOK
<1>8. QED
  BY <1>1, <1>2, <1>3, <1>4, <1>5, <1>6, <1>7 DEF Next

(* TypeCorrect: every state the cluster commands reach is well typed.      *)
THEOREM TypeCorrect ==
    ASSUME ConstantsOK PROVE Spec => []TypeOK
<1>1. Init => TypeOK
  BY DEF Init, TypeOK, Commands, Outcomes, ExitStatus, ConstantsOK
<1>2. QED
  BY <1>1, TypeStep, PTL DEF Spec

-----------------------------------------------------------------------------
(* _deploy_stopstart of a known job: when it exits 0 and leaves the job   *)
(* stopped, the start it ran after the stop was refused, which happens     *)
(* only to an Analyzer job without --bigtable_instance_id.                 *)
LEMMA StopStartLeavesStopped ==
    ASSUME ConstantsOK, TypeOK, NEW j \in RealJobs, NEW instance \in BOOLEAN,
           NEW ok1 \in BOOLEAN, NEW ok2 \in BOOLEAN
    PROVE  LET res == StopStartResult(j, instance, running, ok1, ok2)
           IN  ExitStatus(res.outcome) = 0 /\ res.running[j] = "stopped"
                 => /\ j \in {"analyzer-service", "report-master"}
                    /\ res.outcome = "refused"
<1> DEFINE stopped == [running EXCEPT ![j] = "stopped"]
           res == StopStartResult(j, instance, running, ok1, ok2)
<1>1. CASE ~ok1
  <2>1. res.outcome = "failed"
    BY <1>1 DEF StopStartResult, StopResult, res
  <2>2. QED
    BY <2>1 DEF ExitStatus
<1>2. CASE ok1 /\ j \in {"analyzer-service", "report-master"} /\ ~instance
  <2>1. res.outcome = "refused"
    BY <1>2 DEF StopStartResult, StopResult, StartResult, res
  <2>2. QED
    BY <1>2, <2>1
<1>3. CASE ok1 /\ ~(j \in {"analyzer-service", "report-master"} /\ ~instance)
           /\ ~ok2
  <2>1. res.outcome = "failed"
    BY <1>3 DEF StopStartResult, StopResult, StartResult, res
  <2>2. QED
    BY <2>1 DEF ExitStatus
<1>4. CASE ok1 /\ ~(j \in {"analyzer-service", "report-master"} /\ ~instance)
           /\ ok2
  <2>1. res.running = [stopped EXCEPT ![j] = LoadVersions(versionsFile)[j]]
    BY <1>4 DEF StopStartResult, StopResult, StartResult, res, stopped
  <2>2. LoadVersions(versionsFile)[j] # "stopped"
    BY LoadNotStopped DEF TypeOK
  <2>3. res.running[j] # "stopped"
    BY <2>1, <2>2 DEF TypeOK, stopped
  <2>4. QED
    BY <2>3
<1>5. QED
  BY <1>1, <1>2, <1>3, <1>4

(* Every step keeps OnlyAnalyzersLeftStopped: only a stopstart sets the   *)
(* last command to "stopstart", and an edit of versions.json leaves both  *)
(* the running state and the last invocation alone.                       *)
LEMMA OnlyAnalyzersStep ==
    ASSUME ConstantsOK
    PROVE  TypeOK /\ OnlyAnalyzersLeftStopped /\ [Next]_vars
             => OnlyAnalyzersLeftStopped'
<1> SUFFICES ASSUME TypeOK, OnlyAnalyzersLeftStopped, [Next]_vars
             PROVE  OnlyAnalyzersLeftStopped'
  OBVIOUS
<1>1. CASE DeployStart
  BY <1>1 DEF DeployStart, Invoke, OnlyAnalyzersLeftStopped
<1>2. CASE DeployStop
  BY <1>2 DEF DeployStop, Invoke, OnlyAnalyzersLeftStopped
<1>3. CASE DeployStopStart
  <2>1. PICK j \in Jobs, instance, ok1, ok2 \in BOOLEAN :
          Invoke("stopstart", j,
                 StopStartResult(j, instance, running, ok1, ok2))
    BY <1>3 DEF DeployStopStart
  <2>2. CASE j \in RealJobs
    BY <2>1, <2>2, StopStartLeavesStopped DEF Invoke, OnlyAnalyzersLeftStopped
  <2>3. CASE j \notin RealJobs
    BY <2>1, <2>3 DEF Invoke, OnlyAnalyzersLeftStopped
  <2>4. QED
    BY <2>2, <2>3
<1>4. CASE InvokeBigtableTool
  BY <1>4 DEF InvokeBigtableTool, OnlyAnalyzersLeftStopped, BigtableCommands
<1>5. CASE DeployEndpoint
  <2>1. PICK prefix \in Prefixes, j \in Jobs, ok \in BOOLEAN :
          \E outcome \in Outcomes :
             last' = [cmd |-> "endpoint", job |-> j, outcome |-> outcome,
                      exit |-> ExitStatus(outcome)]
    BY <1>5 DEF DeployEndpoint, Outcomes
  <2>2. QED
    BY <2>1 DEF OnlyAnalyzersLeftStopped
<1>6. CASE EditVersions
  BY <1>6 DEF EditVersions, OnlyAnalyzersLeftStopped
<1>7. CASE UNCHANGED vars
  BY <1>7 DEF vars, OnlyAnalyzersLeftStopped
<1>8. QED
  BY <1>1, <1>2, <1>3, <1>4, <1>5, <1>6, <1>7 DEF Next

(* OnlyAnalyzersTheorem: in every reachable state, a deploy stopstart of a *)
(* known job that exited 0 and left the job stopped was a refused start    *)
(* of an Analyzer job; the shuffler always runs again.                     *)
THEOREM OnlyAnalyzersTheorem ==
    ASSUME ConstantsOK PROVE Spec => []OnlyAnalyzersLeftStopped
<1>1. Init => OnlyAnalyzersLeftStopped
  BY DEF Init, OnlyAnalyzersLeftStopped
<1>2. QED
  BY <1>1, TypeCorrect, OnlyAnalyzersStep, TypeStep, PTL DEF Spec

=============================================================================
