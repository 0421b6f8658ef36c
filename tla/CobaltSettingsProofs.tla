------------------------ MODULE CobaltSettingsProofs ------------------------
(***************************************************************************)
(* Proofs about CobaltSettings, for every set of file statuses: main keeps *)
(* its variables well typed, never dispatches with production and         *)
(* personal artifacts mixed, and implements the abstract                  *)
(* SettingsResolution under the refinement mapping of CobaltSettings.     *)
(***************************************************************************)
EXTENDS CobaltSettings, TLAPS

(* The steps of main all change pc; a stutter changes nothing.             *)
LEMMA TypeStep == TypeOK /\ [Next]_vars => TypeOK'
<1> SUFFICES ASSUME TypeOK, [Next]_vars PROVE TypeOK'
  OBVIOUS
<1>1. CASE Parse0
  BY <1>1 DEF Parse0, TypeOK, PC
<1>2. CASE LoadSettings
  <2>1. ASSUME NEW f \in JsonFiles, NEW d \in Dirs, ReadClusterJson(f, d)
        PROVE  /\ settings' \in [Keys -> JsonValues]
               /\ pc' \in PC /\ exitCode' \in {0, 1}
               /\ settingsFrom' \in Dirs /\ versionsDir' \in Dirs
    BY <2>1 DEF ReadClusterJson, JsonFiles, TypeOK, PC
  <2>2. QED
    BY <1>2, <2>1 DEF LoadSettings, TypeOK, PC, Dirs
<1>3. CASE ComputeDefaults
  BY <1>3 DEF ComputeDefaults, TypeOK, PC, Keys, JsonValues
<1>4. CASE SetGlobals
  BY <1>4 DEF SetGlobals, TypeOK, PC
<1>5. CASE Dispatch
  BY <1>5 DEF Dispatch, TypeOK, PC, ParseBoolRaises
<1>6. CASE UNCHANGED vars
  BY <1>6 DEF vars, TypeOK
<1>7. QED
  BY <1>1, <1>2, <1>3, <1>4, <1>5, <1>6 DEF Next

(* Init picks well-typed files and flags.                                  *)
LEMMA InitType == Init => TypeOK
BY DEF Init, TypeOK, Defaults, PC, Dirs, JsonValues

(* TypeCorrect: every state main reaches is well typed.                    *)
THEOREM TypeCorrect == Spec => []TypeOK
BY InitType, TypeStep, PTL DEF Spec

-----------------------------------------------------------------------------
(* The strengthening of ProductionArtifactsTogether: each artifact, from  *)
(* the step that chooses it on, comes from the production directory       *)
(* exactly when --production_dir was given; before the settings are       *)
(* loaded none has been read, and main only loads settings when a given   *)
(* production directory holds a cluster.json.                             *)
SettingsOK ==
    /\ pc \in {"parse0", "settings"} => settingsFrom = "cwd"
    /\ pc = "settings" /\ prodDir => prodJson.status # "missing"
    /\ pc \in {"defaults", "globals", "dispatch"} =>
           (settingsFrom = "production" <=> prodDir)

PemOK ==
    pc \in {"globals", "dispatch"} => (pemDir = "production" <=> prodDir)

CredsOK ==
    pc = "dispatch" => (credsDir = "production" <=> prodDir)

(* Until main chooses them, the PEM files and the credentials are the     *)
(* personal ones.                                                          *)
EarlyOK ==
    /\ pc \in {"parse0", "settings", "defaults"} => pemDir = "default"
    /\ pc \in {"parse0", "settings", "defaults", "globals"} => credsDir = "this"

IInv == TypeOK /\ SettingsOK /\ PemOK /\ CredsOK /\ EarlyOK

(* The initial state satisfies the strengthening.                          *)
LEMMA IInvInit == Init => IInv
BY InitType DEF Init, IInv, SettingsOK, PemOK, CredsOK, EarlyOK

(* Reading a cluster settings file in directory d either crashes, leaving *)
(* the settings where they were, or takes the settings from d.            *)
LEMMA ReadFrom ==
    ASSUME NEW f, NEW d, ReadClusterJson(f, d)
    PROVE  \/ pc' = "crashed" /\ settingsFrom' = settingsFrom
           \/ pc' = "defaults" /\ settingsFrom' = d
BY DEF ReadClusterJson

(* Every step of main preserves the strengthening.                         *)
LEMMA IInvStep == IInv /\ [Next]_vars => IInv'
<1> SUFFICES ASSUME IInv, [Next]_vars PROVE IInv'
  OBVIOUS
<1>0. TypeOK'
  BY TypeStep DEF IInv
<1>1. CASE Parse0
  BY <1>0, <1>1 DEF Parse0, IInv, SettingsOK, PemOK, CredsOK, EarlyOK
<1>2. CASE LoadSettings
  <2>1. CASE prodDir
    <3>1. ReadClusterJson(prodJson, "production")
      BY <1>2, <2>1 DEF LoadSettings
    <3>2. QED
      BY <1>0, <1>2, <2>1, <3>1, ReadFrom
         DEF LoadSettings, IInv, SettingsOK, PemOK, CredsOK, EarlyOK
  <2>2. CASE ~prodDir /\ personalJson.status # "missing"
    <3>1. ReadClusterJson(personalJson, "this")
      BY <1>2, <2>2 DEF LoadSettings
    <3>2. QED
      BY <1>0, <1>2, <2>2, <3>1, ReadFrom
         DEF LoadSettings, IInv, SettingsOK, PemOK, CredsOK, EarlyOK
  <2>3. CASE ~prodDir /\ personalJson.status = "missing"
    BY <1>0, <1>2, <2>3
       DEF LoadSettings, IInv, SettingsOK, PemOK, CredsOK, EarlyOK
  <2>4. QED
    BY <2>1, <2>2, <2>3
<1>3. CASE ComputeDefaults
  BY <1>0, <1>3 DEF ComputeDefaults, IInv, SettingsOK, PemOK, CredsOK, EarlyOK
<1>4. CASE SetGlobals
  BY <1>0, <1>4 DEF SetGlobals, IInv, SettingsOK, PemOK, CredsOK, EarlyOK
<1>5. CASE Dispatch
  BY <1>0, <1>5 DEF Dispatch, IInv, SettingsOK, PemOK, CredsOK, EarlyOK
<1>6. CASE UNCHANGED vars
  BY <1>0, <1>6 DEF vars, IInv, SettingsOK, PemOK, CredsOK, EarlyOK
<1>7. QED
  BY <1>1, <1>2, <1>3, <1>4, <1>5, <1>6 DEF Next

(* ArtifactsTogether: a dispatched command never mixes production and     *)
(* personal settings, PEM files and credentials, for every set of file    *)
(* statuses.                                                               *)
THEOREM ArtifactsTogether == Spec => []ProductionArtifactsTogether
<1>1. IInv => ProductionArtifactsTogether
  BY DEF IInv, SettingsOK, PemOK, CredsOK, ProductionArtifactsTogether
<1>2. QED
  BY <1>1, IInvInit, IInvStep, PTL DEF Spec

-----------------------------------------------------------------------------
(* The personal value of every artifact, as main has it before the        *)
(* handler call.                                                           *)
LEMMA AllPersonal ==
    [settings |-> "personal", pem |-> "personal", creds |-> "personal"]
        = [a \in Abstract!Artifacts |-> "personal"]
BY DEF Abstract!Artifacts

(* Each step of main is a step of SettingsResolution or leaves its state  *)
(* alone.                                                                  *)
LEMMA RefineStep == IInv /\ IInv' /\ [Next]_vars => [Abstract!Next]_Abstract!vars
<1> SUFFICES ASSUME IInv, IInv', [Next]_vars
             PROVE  [Abstract!Next]_Abstract!vars
  OBVIOUS
<1>1. CASE Parse0
  <2>1. CASE pc' = "exit"
    BY <1>1, <2>1, AllPersonal
       DEF Parse0, IInv, EarlyOK, SettingsOK, phaseBar, artifactsBar, Location,
           Abstract!Next, Abstract!End
  <2>2. CASE pc' = "settings"
    BY <1>1, <2>2 DEF Parse0, phaseBar, artifactsBar, Abstract!vars
  <2>3. QED
    BY <1>1, <2>1, <2>2 DEF Parse0
<1>2. CASE LoadSettings
  <2>1. CASE pc' = "crashed"
    BY <1>2, <2>1, AllPersonal
       DEF LoadSettings, IInv, EarlyOK, SettingsOK, phaseBar, artifactsBar,
           Location, ReadClusterJson, Abstract!Next, Abstract!End
  <2>2. CASE pc' = "defaults"
    BY <1>2, <2>2 DEF LoadSettings, phaseBar, artifactsBar, Abstract!vars
  <2>3. QED
    BY <1>2, <2>1, <2>2 DEF LoadSettings, ReadClusterJson
<1>3. CASE ComputeDefaults
  BY <1>3 DEF ComputeDefaults, phaseBar, artifactsBar, Abstract!vars
<1>4. CASE SetGlobals
  <2>1. prodDir \in BOOLEAN /\ settingsFrom \in Dirs
    BY DEF IInv, TypeOK
  <2>2. artifactsBar' = [a \in Abstract!Artifacts |->
                           IF prodDir THEN "production" ELSE "personal"]
    BY <1>4, <2>1
       DEF SetGlobals, IInv, SettingsOK, PemOK, CredsOK, artifactsBar,
           Location, Dirs, Abstract!Artifacts
  <2>3. QED
    BY <1>4, <2>2 DEF SetGlobals, phaseBar, Abstract!Next, Abstract!Resolve
<1>5. CASE Dispatch
  BY <1>5 DEF Dispatch, phaseBar, artifactsBar, Abstract!Next, Abstract!End
<1>6. CASE UNCHANGED vars
  BY <1>6 DEF vars, phaseBar, artifactsBar, Abstract!vars
<1>7. QED
  BY <1>1, <1>2, <1>3, <1>4, <1>5, <1>6 DEF Next

(* Main starts in an initial state of SettingsResolution.                  *)
LEMMA RefineInit == Init => Abstract!Init
BY AllPersonal DEF Init, phaseBar, artifactsBar, Abstract!Init

(* Refinement: main, from its first flag pass to the handler call,        *)
(* implements SettingsResolution -- the theorem behind the run's          *)
(* ResolvesTogether.                                                       *)
THEOREM Refinement == Spec => ResolvesTogether
<1>1. Spec => []IInv
  BY IInvInit, IInvStep, PTL DEF Spec
<1>2. QED
  BY <1>1, RefineInit, RefineStep, PTL DEF Spec, ResolvesTogether, Abstract!Spec

=============================================================================
