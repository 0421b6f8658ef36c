------------------------- MODULE SettingsResolution -------------------------
(***************************************************************************)
(* What the start of cobaltb.py main promises about the files a command   *)
(* works with: before a command handler runs, the cluster settings, the   *)
(* private key PEM files and the Bigtable admin credentials are resolved  *)
(* together, all of them from the production directory when              *)
(* --production_dir is given and all of them from the personal            *)
(* locations otherwise.  main may also end before any handler runs.       *)
(*                                                                         *)
(* This is the abstract view; CobaltSettings is the step-by-step model of *)
(* main and is shown to implement it.                                     *)
(***************************************************************************)

(* The files a command is given.                                           *)
Artifacts == {"settings", "pem", "creds"}

(* Where an artifact comes from.                                           *)
Locations == {"personal", "production"}

VARIABLES
    production,   \* --production_dir was given
    phase,        \* "resolving", "dispatched" (a handler runs) or "ended"
    artifacts     \* the location each artifact was resolved to

vars == <<production, phase, artifacts>>

TypeOK ==
    /\ production \in BOOLEAN
    /\ phase \in {"resolving", "dispatched", "ended"}
    /\ artifacts \in [Artifacts -> Locations]

Init ==
    /\ production \in BOOLEAN
    /\ phase = "resolving"
    /\ artifacts = [a \in Artifacts |-> "personal"]

(* All artifacts are resolved at once, to the one location the flag picks, *)
(* and the handler is called.                                               *)
Resolve ==
    /\ phase = "resolving"
    /\ phase' = "dispatched"
    /\ artifacts' = [a \in Artifacts |->
                       IF production THEN "production" ELSE "personal"]
    /\ UNCHANGED production

(* main returns or raises, before or after the handler.                    *)
End ==
    /\ phase \in {"resolving", "dispatched"}
    /\ phase' = "ended"
    /\ UNCHANGED <<production, artifacts>>

Next == Resolve \/ End

Spec == Init /\ [][Next]_vars

=============================================================================
