--------------------------- MODULE CobaltSettings ---------------------------
(***************************************************************************)
(* How one invocation of the Cobalt command-line tool (cobaltb.py, main)  *)
(* finds its settings before it dispatches to a command handler.          *)
(*                                                                         *)
(* A first pass over the flags looks for --production_dir and             *)
(* -cobalt_on_personal_cluster.  The cluster settings (defaults of many   *)
(* flags) come from <production_dir>/cluster.json, else from              *)
(* personal_cluster.json if it exists, else from built-in defaults        *)
(* (_cluster_settings_from_json).  Flag defaults are derived from them    *)
(* (the _default_ functions), the credentials file and the PEM files are  *)
(* chosen, and the handler turns boolean flags into booleans with         *)
(* _parse_bool.                                                            *)
(*                                                                         *)
(* A JSON value is abstracted to "" (empty string), "yes" (a non-empty    *)
(* string that _parse_bool reads as true), or "json_true" (a JSON true,   *)
(* a Python bool, which has no lower()).  A                                *)
(* directory is named by where it is: the working directory, the          *)
(* directory of cobaltb.py, or the production directory.                  *)
(***************************************************************************)
EXTENDS Naturals

CONSTANTS
    JsonStatuses   \* what a cluster settings file may be: missing, malformed, ok

ASSUME StatusAssumption ==
    JsonStatuses \subseteq {"missing", "malformed", "ok"} /\ "ok" \in JsonStatuses

(* The settings of cluster_settings that the model follows.               *)
Keys == {"use_tls", "shuffler_use_memstore", "bigtable_instance_id"}

JsonValues == {"", "yes", "json_true"}

(* A cluster settings file: its status and, for a parsed JSON object, the *)
(* value of each key ("absent" when it does not name the key).            *)
JsonFiles ==
    {[status |-> s, values |-> [k \in Keys |-> "absent"]] :
        s \in JsonStatuses \ {"ok"}}
    \cup [status: {"ok"}, values: [Keys -> JsonValues \cup {"absent"}]]

Dirs == {"cwd", "this", "production"}

Handlers == {"test", "deploy_start_shuffler"}

PC == {"parse0", "settings", "defaults", "globals", "dispatch", "exit",
       "crashed"}

VARIABLES
    prodDir,        \* --production_dir was given
    personalFlag,   \* -cobalt_on_personal_cluster was given
    prodJson,       \* <production_dir>/cluster.json
    personalJson,   \* personal_cluster.json beside cobaltb.py
    pc,             \* where main is
    settings,       \* cluster_settings
    settingsFrom,   \* directory of the settings file read, or "cwd" for none
    versionsDir,    \* directory of cluster_settings['deployed_versions_file']
    useTls,         \* the default of --use_tls
    memstore,       \* the default of --shuffler-use-memstore
    pemDir,         \* directory of the private key PEM files
    credsDir,       \* directory of bt_admin_service_account_credentials_file
    exitCode        \* status the process exits with

vars == <<prodDir, personalFlag, prodJson, personalJson, pc, settings,
          settingsFrom, versionsDir, useTls, memstore, pemDir, credsDir,
          exitCode>>

TypeOK ==
    /\ prodDir \in BOOLEAN
    /\ personalFlag \in BOOLEAN
    /\ prodJson \in JsonFiles
    /\ personalJson \in JsonFiles
    /\ pc \in PC
    /\ settings \in [Keys -> JsonValues]
    /\ settingsFrom \in Dirs
    /\ versionsDir \in Dirs
    /\ useTls \in JsonValues \cup {"false"}
    /\ memstore \in JsonValues \cup {"false"}
    /\ pemDir \in {"default", "production"}
    /\ credsDir \in {"this", "production"}
    /\ exitCode \in {0, 1}

(* The built-in cluster_settings: every one of these is ''.               *)
Defaults == [k \in Keys |-> ""]

Init ==
    /\ prodDir \in BOOLEAN
    /\ personalFlag \in BOOLEAN
    /\ prodJson \in JsonFiles
    /\ personalJson \in JsonFiles
    /\ pc = "parse0"
    /\ settings = Defaults
    /\ settingsFrom = "cwd"
    /\ versionsDir = "cwd"
    /\ useTls = "false"
    /\ memstore = "false"
    /\ pemDir = "default"
    /\ credsDir = "this"
    /\ exitCode = 0

(* Python truth of a setting: '' is false, a non-empty string and True    *)
(* are true.                                                               *)
Truthy(v) == v # ""

(* The first pass: a --production_dir without cluster.json prints "File  *)
(* not found" and main returns None.                                       *)
Parse0 ==
    /\ pc = "parse0"
    /\ pc' = IF prodDir /\ prodJson.status = "missing" THEN "exit"
                                                        ELSE "settings"
    /\ UNCHANGED <<prodDir, personalFlag, prodJson, personalJson, settings,
                   settingsFrom, versionsDir, useTls, memstore, pemDir,
                   credsDir, exitCode>>

(* Bug variant: the parsed file replaces cluster_settings instead of      *)
(* updating it.                                                            *)
ReadClusterJsonNoMerge(f, d) ==
    IF f.status = "malformed"
      THEN /\ pc' = "crashed"
           /\ exitCode' = 1
           /\ UNCHANGED <<settings, settingsFrom, versionsDir>>
      ELSE /\ settings' = f.values
           /\ settingsFrom' = d
           /\ versionsDir' = d
           /\ pc' = "defaults"
           /\ UNCHANGED exitCode

(* _cluster_settings_from_json(cluster_settings, file in dir d): a parse  *)
(* error is printed and the loop then reads the unbound                   *)
(* read_cluster_settings (UnboundLocalError); else the keys the file      *)
(* names overwrite the defaults, and deployed_versions_file is taken      *)
(* relative to d.                                                          *)
ReadClusterJson(f, d) ==
    IF f.status = "malformed"
      THEN /\ pc' = "crashed"
           /\ exitCode' = 1
           /\ UNCHANGED <<settings, settingsFrom, versionsDir>>
      ELSE /\ settings' = [k \in Keys |->
                             IF f.values[k] = "absent" THEN settings[k]
                             ELSE f.values[k]]
           /\ settingsFrom' = d
           /\ versionsDir' = d
           /\ pc' = "defaults"
           /\ UNCHANGED exitCode

(* Bug variant: the personal file is tested first.                        *)
LoadSettingsPersonalFirst ==
    /\ pc = "settings"
    /\ IF personalJson.status # "missing"
         THEN ReadClusterJson(personalJson, "this")
         ELSE IF prodDir
                THEN ReadClusterJson(prodJson, "production")
                ELSE /\ pc' = "defaults"
                     /\ UNCHANGED <<settings, settingsFrom, versionsDir,
                                    exitCode>>
    /\ UNCHANGED <<prodDir, personalFlag, prodJson, personalJson, useTls,
                   memstore, pemDir, credsDir>>

(* The production file if --production_dir was given, else the personal  *)
(* file if it exists, else the built-in defaults.                          *)
LoadSettings ==
    /\ pc = "settings"
    /\ IF prodDir
         THEN ReadClusterJson(prodJson, "production")
         ELSE IF personalJson.status # "missing"
                THEN ReadClusterJson(personalJson, "this")
                ELSE /\ pc' = "defaults"
                     /\ UNCHANGED <<settings, settingsFrom, versionsDir,
                                    exitCode>>
    /\ UNCHANGED <<prodDir, personalFlag, prodJson, personalJson, useTls,
                   memstore, pemDir, credsDir>>

(* The PEM directory, and the flag defaults: _default_use_tls gives the  *)
(* setting or 'false' on GKE and 'false' locally;                          *)
(* _default_shuffler_use_memstore gives the setting if it is true, else  *)
(* 'false'.                                                                *)
ComputeDefaults ==
    LET gke == personalFlag \/ prodDir
    IN
    /\ pc = "defaults"
    /\ pemDir' = IF prodDir THEN "production" ELSE "default"
    /\ useTls' = IF gke /\ Truthy(settings["use_tls"]) THEN settings["use_tls"]
                 ELSE "false"
    /\ memstore' = IF Truthy(settings["shuffler_use_memstore"])
                     THEN settings["shuffler_use_memstore"] ELSE "false"
    /\ pc' = "globals"
    /\ UNCHANGED <<prodDir, personalFlag, prodJson, personalJson, settings,
                   settingsFrom, versionsDir, credsDir, exitCode>>

(* After parse_args: the Bigtable admin credentials file is the personal *)
(* one, or the one in the production directory.                            *)
SetGlobals ==
    /\ pc = "globals"
    /\ credsDir' = IF prodDir THEN "production" ELSE "this"
    /\ pc' = "dispatch"
    /\ UNCHANGED <<prodDir, personalFlag, prodJson, personalJson, settings,
                   settingsFrom, versionsDir, useTls, memstore, pemDir,
                   exitCode>>

(* _parse_bool(v): v.lower() in [...]; a JSON true has no lower().         *)
ParseBoolRaises(v) == v = "json_true"

(* args.func(args): the test command parses --use_tls, deploy start of   *)
(* the shuffler parses --shuffler-use-memstore, each with its default or *)
(* a string given on the command line.                                     *)
Dispatch ==
    /\ pc = "dispatch"
    /\ \E h \in Handlers, given \in {"default", "given"} :
         LET dflt == IF h = "test" THEN useTls ELSE memstore
             v    == IF given = "given" THEN "yes" ELSE dflt
         IN  IF ParseBoolRaises(v)
               THEN pc' = "crashed" /\ exitCode' = 1
               ELSE pc' = "exit" /\ UNCHANGED exitCode
    /\ UNCHANGED <<prodDir, personalFlag, prodJson, personalJson, settings,
                   settingsFrom, versionsDir, useTls, memstore, pemDir,
                   credsDir>>

Next ==
    \/ Parse0
    \/ LoadSettings
    \/ ComputeDefaults
    \/ SetGlobals
    \/ Dispatch

Spec == Init /\ [][Next]_vars

-----------------------------------------------------------------------------
(* ProductionArtifactsTogether: once main dispatches, the cluster         *)
(* settings, the versions file, the private key PEM files and the         *)
(* Bigtable admin credentials all come from the production directory, or  *)
(* none of them does -- a production command never mixes in a personal   *)
(* setting or credential.                                                  *)
ProductionArtifactsTogether ==
    pc = "dispatch" =>
        /\ settingsFrom = "production" <=> credsDir = "production"
        /\ pemDir = "production" <=> credsDir = "production"

(* NoCrash: main never ends in an exception of its own code; a malformed *)
(* settings file is reported ("could not be parsed") and the defaults    *)
(* are kept.                                                               *)
NoCrash == pc # "crashed"

-----------------------------------------------------------------------------
(* The refinement mapping to SettingsResolution.  Before main dispatches   *)
(* the abstract artifacts keep their initial value; once a handler has    *)
(* been called they are where main actually took the settings file, the   *)
(* PEM files and the credentials from.                                     *)
Location(d) == IF d = "production" THEN "production" ELSE "personal"

phaseBar ==
    CASE pc \in {"parse0", "settings", "defaults", "globals"} -> "resolving"
      [] pc = "dispatch"                                    -> "dispatched"
      [] OTHER                                              -> "ended"

artifactsBar ==
    IF pc \in {"dispatch", "exit", "crashed"}
      THEN [settings |-> Location(settingsFrom), pem |-> Location(pemDir),
            creds |-> Location(credsDir)]
      ELSE [a \in {"settings", "pem", "creds"} |-> "personal"]

Abstract == INSTANCE SettingsResolution
              WITH production <- prodDir, phase <- phaseBar,
                   artifacts <- artifactsBar

(* ResolvesTogether: main implements SettingsResolution -- every step of  *)
(* main up to the handler call either leaves the abstract state alone or *)
(* resolves settings, PEM files and credentials at once, all from the     *)
(* production directory exactly when --production_dir was given.          *)
ResolvesTogether == Abstract!Spec

=============================================================================
