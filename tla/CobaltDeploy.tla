---------------------------- MODULE CobaltDeploy ----------------------------
(***************************************************************************)
(* The cluster commands of the Cobalt command-line tool (cobaltb.py):     *)
(* deploy start / stop / stopstart with the versions file they read       *)
(* (_load_versions_file), the Bigtable administration commands            *)
(* (_invoke_bigtable_tool and its three callers) and deploy endpoint.     *)
(*                                                                         *)
(* An operator runs a bounded number of invocations against one cluster   *)
(* and may edit versions.json between them.  Each invocation is one       *)
(* action: the whole handler, its early returns (a usage message, after   *)
(* which main returns None and the process exits with status 0), and the *)
(* external container_util / bigtable_tool call, which may fail           *)
(* (CalledProcessError, exit status 1).                                    *)
(***************************************************************************)
EXTENDS Naturals

CONSTANTS
    Versions,        \* image versions a versions.json may pin
    MaxInvocations   \* bound on the number of invocations

(* MaxInvocations is a natural number; "latest" is not one of Versions    *)
(* (the instances give the versions as model values).                     *)

(* The jobs the handlers know, and a --job value they do not.              *)
RealJobs == {"shuffler", "analyzer-service", "report-master"}
Jobs == RealJobs \cup {"bogus"}

(* The contents of versions.json: missing, not JSON, or a JSON object     *)
(* pinning some of the jobs ("absent" for a job it does not name).         *)
VersionsFiles ==
    {[status |-> s, pins |-> [j \in RealJobs |-> "absent"]] :
        s \in {"missing", "malformed"}}
    \cup [status: {"ok"}, pins: [RealJobs -> Versions \cup {"absent"}]]

(* An id flag of the Bigtable commands: "default" is the integer default  *)
(* 0 of argparse, "zero" the string "0" given on the command line, "id"   *)
(* any other value given.                                                  *)
IdValues == {"default", "zero", "id"}

BigtableCommands == {"create_tables", "delete_observations", "delete_reports"}

ToolArgs ==
    [creds: BOOLEAN, project: BOOLEAN, instance: BOOLEAN,
     customer: IdValues, projectId: IdValues, third: IdValues,
     danger: BOOLEAN]

Prefixes == {"", "google.com", "example.org"}

Outcomes == {"done", "refused", "failed", "internal_error"}

Commands == {"none", "start", "stop", "stopstart", "endpoint"}
            \cup BigtableCommands

VARIABLES
    running,       \* the version each job runs on the cluster, or "stopped"
    tables,        \* the Bigtable tables have been created
    deletions,     \* the delete commands issued to bigtable_tool
    endpoints,     \* jobs whose Cloud Endpoint has been configured
    versionsFile,  \* the contents of the deployed versions file
    invocations,   \* number of invocations so far
    last           \* the last invocation: command, job, outcome, exit status

vars == <<running, tables, deletions, endpoints, versionsFile, invocations,
          last>>

(* An issued delete: the command, whether one of its ids was given as 0,  *)
(* and whether the production-reports override was passed.               *)
Deletion ==
    [cmd: BigtableCommands, zeroId: BOOLEAN, danger: BOOLEAN]

TypeOK ==
    /\ running \in [RealJobs -> Versions \cup {"latest", "stopped"}]
    /\ tables \in BOOLEAN
    /\ deletions \subseteq Deletion
    /\ endpoints \subseteq RealJobs
    /\ versionsFile \in VersionsFiles
    /\ invocations \in 0..MaxInvocations
    /\ last \in [cmd: Commands, job: Jobs \cup {"none"}, outcome: Outcomes,
                 exit: {0, 1}]

Init ==
    /\ running \in [RealJobs -> Versions \cup {"latest", "stopped"}]
    /\ tables \in BOOLEAN
    /\ deletions = {}
    /\ endpoints = {}
    /\ versionsFile \in VersionsFiles
    /\ invocations = 0
    /\ last = [cmd |-> "none", job |-> "none", outcome |-> "done", exit |-> 0]

(* sys.exit(main()): a handler that returns normally exits with 0, an     *)
(* uncaught exception with 1.                                              *)
ExitStatus(outcome) == IF outcome \in {"done", "refused"} THEN 0 ELSE 1

(* Bug variant: a job the file does not name is not defaulted.           *)
LoadVersionsNoDefault(f) ==
    [j \in RealJobs |->
        IF f.status # "ok" THEN "latest" ELSE f.pins[j]]

(* _load_versions_file: "latest" for every job, overwritten by the jobs   *)
(* the file names; a missing or unparsable file only prints a message.    *)
LoadVersions(f) ==
    [j \in RealJobs |->
        IF f.status # "ok" \/ f.pins[j] = "absent" THEN "latest"
        ELSE f.pins[j]]

(* Bug variant: --bigtable_instance_id is demanded of every job.          *)
StartResultAllNeedInstance(j, instance, r, ok) ==
    IF j \notin RealJobs THEN
         [running |-> r, outcome |-> "refused"]
    ELSE IF ~instance THEN
         [running |-> r, outcome |-> "refused"]
    ELSE IF ~ok THEN
         [running |-> r, outcome |-> "failed"]
    ELSE [running |-> [r EXCEPT ![j] = LoadVersions(versionsFile)[j]],
          outcome |-> "done"]

(* _deploy_start on running-state r: the two Analyzer jobs need           *)
(* --bigtable_instance_id; the container_util call may fail.              *)
StartResult(j, instance, r, ok) ==
    IF j \notin RealJobs THEN
         [running |-> r, outcome |-> "refused"]
    ELSE IF j \in {"analyzer-service", "report-master"} /\ ~instance THEN
         [running |-> r, outcome |-> "refused"]
    ELSE IF ~ok THEN
         [running |-> r, outcome |-> "failed"]
    ELSE [running |-> [r EXCEPT ![j] = LoadVersions(versionsFile)[j]],
          outcome |-> "done"]

(* _deploy_stop on running-state r.                                        *)
StopResult(j, r, ok) ==
    IF j \notin RealJobs THEN [running |-> r, outcome |-> "refused"]
    ELSE IF ~ok THEN [running |-> r, outcome |-> "failed"]
    ELSE [running |-> [r EXCEPT ![j] = "stopped"], outcome |-> "done"]

(* _deploy_stopstart: stop, then start -- unless stop raised.              *)
StopStartResult(j, instance, r, ok1, ok2) ==
    LET s == StopResult(j, r, ok1)
    IN  IF s.outcome = "failed" THEN s
        ELSE StartResult(j, instance, s.running, ok2)

(* One invocation of a cluster command, with its result res.              *)
Invoke(cmd, j, res) ==
    /\ invocations < MaxInvocations
    /\ invocations' = invocations + 1
    /\ running' = res.running
    /\ last' = [cmd |-> cmd, job |-> j, outcome |-> res.outcome,
                exit |-> ExitStatus(res.outcome)]
    /\ UNCHANGED <<tables, deletions, endpoints, versionsFile>>

DeployStart ==
    \E j \in Jobs, instance, ok \in BOOLEAN :
        Invoke("start", j, StartResult(j, instance, running, ok))

DeployStop ==
    \E j \in Jobs, ok \in BOOLEAN :
        Invoke("stop", j, StopResult(j, running, ok))

DeployStopStart ==
    \E j \in Jobs, instance, ok1, ok2 \in BOOLEAN :
        Invoke("stopstart", j, StopStartResult(j, instance, running, ok1, ok2))

(* The guards of _invoke_bigtable_tool that end in a usage message.  An   *)
(* id counts as missing only when it still is the integer default 0.      *)
ToolRefuses(cmd, a) ==
    \/ ~a.creds
    \/ ~a.project
    \/ ~a.instance
    \/ /\ cmd # "create_tables"
       /\ "default" \in {a.customer, a.projectId, a.third}

(* _provision_bigtable, _delete_observations, _delete_reports.  The       *)
(* danger flag is only forwarded by delete_reports; "third" is the metric *)
(* or the report config id.                                                *)
InvokeBigtableTool ==
    \E cmd \in BigtableCommands, a \in ToolArgs, ok \in BOOLEAN :
        LET outcome == IF ToolRefuses(cmd, a) THEN "refused"
                       ELSE IF ok THEN "done" ELSE "failed"
        IN
        /\ invocations < MaxInvocations
        /\ invocations' = invocations + 1
        /\ tables' = (tables \/ (cmd = "create_tables" /\ outcome = "done"))
        /\ deletions' =
             IF cmd # "create_tables" /\ outcome = "done"
               THEN deletions \cup
                      {[cmd |-> cmd,
                        zeroId |-> "zero" \in {a.customer, a.projectId, a.third},
                        danger |-> cmd = "delete_reports" /\ a.danger]}
               ELSE deletions
        /\ last' = [cmd |-> cmd, job |-> "none", outcome |-> outcome,
                    exit |-> ExitStatus(outcome)]
        /\ UNCHANGED <<running, endpoints, versionsFile>>

(* _deploy_endpoint: a project prefix other than google.com is meant to   *)
(* be refused, but formatting its message raises TypeError; then the     *)
(* report-master or shuffler endpoint is configured.                      *)
DeployEndpoint ==
    \E prefix \in Prefixes, j \in Jobs, ok \in BOOLEAN :
        LET outcome ==
              IF prefix \notin {"", "google.com"} THEN "internal_error"
              ELSE IF j \notin {"report-master", "shuffler"} THEN "refused"
              ELSE IF ok THEN "done"
              ELSE "failed"
        IN
        /\ invocations < MaxInvocations
        /\ invocations' = invocations + 1
        /\ endpoints' = IF outcome = "done" THEN endpoints \cup {j}
                                            ELSE endpoints
        /\ last' = [cmd |-> "endpoint", job |-> j, outcome |-> outcome,
                    exit |-> ExitStatus(outcome)]
        /\ UNCHANGED <<running, tables, deletions, versionsFile>>

(* The operator edits versions.json, e.g. pasting the blob printed by     *)
(* deploy production_build.                                                *)
EditVersions ==
    /\ \E f \in VersionsFiles : versionsFile' = f
    /\ UNCHANGED <<running, tables, deletions, endpoints, invocations, last>>

Next ==
    \/ DeployStart
    \/ DeployStop
    \/ DeployStopStart
    \/ InvokeBigtableTool
    \/ DeployEndpoint
    \/ EditVersions

Spec == Init /\ [][Next]_vars

-----------------------------------------------------------------------------
(* StopStartRestarts: a deploy stopstart of a known job that exits with    *)
(* status 0 leaves that job running (it is meant as a restart).            *)
StopStartRestarts ==
    last.cmd = "stopstart" /\ last.job \in RealJobs /\ last.exit = 0
        => running[last.job] # "stopped"

(* OnlyAnalyzersLeftStopped: when deploy stopstart of a known job exits 0  *)
(* and leaves the job stopped, the job is one of the two Analyzer jobs and *)
(* the start was refused for want of --bigtable_instance_id: the shuffler  *)
(* is always running again after a stopstart that exits 0.                *)
OnlyAnalyzersLeftStopped ==
    last.cmd = "stopstart" /\ last.job \in RealJobs /\ last.exit = 0
    /\ running[last.job] = "stopped"
        => last.job \in {"analyzer-service", "report-master"}
           /\ last.outcome = "refused"

(* IdsValidated: bigtable_tool is only asked to delete data for customer, *)
(* project and metric or report ids the operator really specified ("must  *)
(* be specified" when they are 0).                                         *)
IdsValidated ==
    \A d \in deletions : ~d.zeroId

(* NoInternalError: a cluster command ends with its result or a message,  *)
(* never with an exception raised by the tool's own code.                 *)
NoInternalError ==
    last.outcome # "internal_error"

=============================================================================
