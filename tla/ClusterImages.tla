---------------------------- MODULE ClusterImages ----------------------------
(***************************************************************************)
(* The deploy commands of cobaltb.py that build and publish what a GKE     *)
(* cluster runs: deploy build, production_build and push (the Docker       *)
(* images of the three jobs), and the commands that create or delete the  *)
(* cluster's secrets and addresses (upload_secret_keys,                    *)
(* delete_secret_keys, upload_certificate, delete_certificate,             *)
(* upload_service_account_key, addresses).                                 *)
(*                                                                         *)
(* Every invocation runs against one cluster: the production cluster when *)
(* --production_dir is given, else the personal one; the cluster also      *)
(* decides the defaults of the flags (the project, the config files the   *)
(* images are built from).  The local Docker images are shared by all      *)
(* invocations.  container_util and production_util are not in the        *)
(* repository: each of their calls succeeds or raises (exit status 1).     *)
(***************************************************************************)
EXTENDS Naturals, Sequences

CONSTANTS
    Refs,            \* the image references production_build may return
    MaxInvocations   \* bound on the number of invocations

(* MaxInvocations is a natural number; "none" is not one of Refs (the     *)
(* instances give the references as model values).                        *)

Clusters == {"personal", "production"}

RealJobs == {"shuffler", "analyzer-service", "report-master"}
Jobs == RealJobs \cup {"bogus"}

(* A Docker image: the cluster whose config files it was built from, and  *)
(* whether it is a clean production build.                                 *)
Image == [cluster: Clusters, clean: BOOLEAN]

(* No image has been built or pushed.                                      *)
NoImage == [cluster |-> "none", clean |-> FALSE]

Secrets == {"analyzer_key", "shuffler_key", "report-master_cert",
            "shuffler_cert", "service_account_key"}

Outcomes == {"done", "refused", "declined", "failed"}

VARIABLES
    local,         \* the local Docker image of each job, or NoImage
    registry,      \* the latest image of each job pushed to a cluster's project
    refs,          \* the references production_build pushed to each project
    secrets,       \* the secret objects of each cluster
    addresses,     \* whether a cluster's static IP addresses are reserved
    invocations,   \* number of invocations so far
    last           \* the last invocation: command, cluster, outcome

vars == <<local, registry, refs, secrets, addresses, invocations, last>>

Commands == {"none", "build", "production_build", "push",
             "upload_secret_keys", "delete_secret_keys", "upload_certificate",
             "delete_certificate", "upload_service_account_key", "addresses"}

TypeOK ==
    /\ local \in [RealJobs -> Image \cup {NoImage}]
    /\ registry \in [Clusters -> [RealJobs -> Image \cup {NoImage}]]
    /\ refs \in [Clusters -> SUBSET Refs]
    /\ secrets \in [Clusters -> SUBSET Secrets]
    /\ addresses \in [Clusters -> BOOLEAN]
    /\ invocations \in 0..MaxInvocations
    /\ last \in [cmd: Commands, cluster: Clusters, outcome: Outcomes]

Init ==
    /\ local = [j \in RealJobs |-> NoImage]
    /\ registry = [c \in Clusters |-> [j \in RealJobs |-> NoImage]]
    /\ refs = [c \in Clusters |-> {}]
    /\ secrets = [c \in Clusters |-> {}]
    /\ addresses = [c \in Clusters |-> FALSE]
    /\ invocations = 0
    /\ last = [cmd |-> "none", cluster |-> "personal", outcome |-> "done"]

(* One invocation of command cmd against cluster c.                       *)
Invoke(cmd, c, outcome) ==
    /\ invocations < MaxInvocations
    /\ invocations' = invocations + 1
    /\ last' = [cmd |-> cmd, cluster |-> c, outcome |-> outcome]

(* _deploy_build: with --production_dir it first asks "Continue anyway?"  *)
(* and returns unless _parse_bool(answer); build_all_docker_images then    *)
(* rebuilds the three images from the cluster's config files.              *)
(* _is_config_up_to_date only decides whether a warning is printed.        *)
DeployBuild ==
    \E c \in Clusters, yes, ok \in BOOLEAN :
        IF c = "production" /\ ~yes
          THEN /\ Invoke("build", c, "declined")
               /\ UNCHANGED <<local, registry, refs, secrets, addresses>>
          ELSE /\ Invoke("build", c, IF ok THEN "done" ELSE "failed")
               /\ local' = IF ok THEN [j \in RealJobs |->
                                         [cluster |-> c, clean |-> FALSE]]
                                 ELSE local
               /\ UNCHANGED <<registry, refs, secrets, addresses>>

(* _deploy_production_build: without --production_dir it asks first;     *)
(* build_and_push_production_docker_images makes clean images, pushes     *)
(* them to the project under a new reference and returns it (falsy when  *)
(* it fails); the versions.json blob naming it is then printed.           *)
DeployProductionBuild ==
    \E c \in Clusters, yes \in BOOLEAN, r \in Refs \cup {"none"} :
        IF c = "personal" /\ ~yes
          THEN /\ Invoke("production_build", c, "declined")
               /\ UNCHANGED <<local, registry, refs, secrets, addresses>>
          ELSE /\ Invoke("production_build", c,
                         IF r # "none" THEN "done" ELSE "failed")
               /\ local' = IF r # "none"
                             THEN [j \in RealJobs |->
                                     [cluster |-> c, clean |-> TRUE]]
                             ELSE local
               /\ refs' = IF r # "none" THEN [refs EXCEPT ![c] = @ \cup {r}]
                                        ELSE refs
               /\ registry' = IF r # "none"
                                THEN [registry EXCEPT ![c] =
                                        [j \in RealJobs |->
                                           [cluster |-> c, clean |-> TRUE]]]
                                ELSE registry
               /\ UNCHANGED <<secrets, addresses>>

(* _deploy_push: push the job's local image to the cluster's container    *)
(* registry; an unknown job only prints a message.  Pushing an image that *)
(* was never built fails.                                                  *)
DeployPush ==
    \E c \in Clusters, j \in Jobs, ok \in BOOLEAN :
        IF j \notin RealJobs
          THEN /\ Invoke("push", c, "refused")
               /\ UNCHANGED <<local, registry, refs, secrets, addresses>>
          ELSE LET pushed == ok /\ local[j] # NoImage
               IN  /\ Invoke("push", c, IF pushed THEN "done" ELSE "failed")
                   /\ registry' = IF pushed
                                    THEN [registry EXCEPT ![c][j] = local[j]]
                                    ELSE registry
                   /\ UNCHANGED <<local, refs, secrets, addresses>>

(* upload_secret_keys or delete_secret_keys: two container_util calls,    *)
(* on the analyzer's and then on the shuffler's private key secret, the   *)
(* second only if the first did not raise; add tells creation from        *)
(* deletion.                                                               *)
TwoCalls(cmd, c, add) ==
    \E ok1, ok2 \in BOOLEAN :
        LET done == IF ~ok1 THEN {}
                    ELSE IF ~ok2 THEN {"analyzer_key"}
                    ELSE {"analyzer_key", "shuffler_key"}
        IN  /\ Invoke(cmd, c, IF ok1 /\ ok2 THEN "done" ELSE "failed")
            /\ secrets' = [secrets EXCEPT ![c] =
                             IF add THEN @ \cup done ELSE @ \ done]
            /\ UNCHANGED <<local, registry, refs, addresses>>

(* _deploy_upload_secret_keys.                                             *)
DeployUploadSecretKeys ==
    \E c \in Clusters : TwoCalls("upload_secret_keys", c, TRUE)

(* _deploy_delete_secret_keys.                                             *)
DeployDeleteSecretKeys ==
    \E c \in Clusters : TwoCalls("delete_secret_keys", c, FALSE)

(* Bug variant: the certificate secret is made for whatever --job names.  *)
DeployUploadCertificateAnyJob ==
    \E c \in Clusters, j \in Jobs, paths, ok \in BOOLEAN :
        LET outcome == IF ~paths THEN "refused"
                       ELSE IF ok THEN "done"
                       ELSE "failed"
        IN  /\ Invoke("upload_certificate", c, outcome)
            /\ secrets' = IF outcome = "done"
                            THEN [secrets EXCEPT ![c] = @ \cup {j \o "_cert"}]
                            ELSE secrets
            /\ UNCHANGED <<local, registry, refs, addresses>>

(* _deploy_upload_certificate: both --path-to-cert and --path-to-key must *)
(* be set; then the report master's or the shuffler's certificate secret  *)
(* is created, any other job only prints a message.                       *)
DeployUploadCertificate ==
    \E c \in Clusters, j \in Jobs, paths, ok \in BOOLEAN :
        LET outcome == IF ~paths THEN "refused"
                       ELSE IF j \notin {"report-master", "shuffler"} THEN "refused"
                       ELSE IF ok THEN "done"
                       ELSE "failed"
        IN  /\ Invoke("upload_certificate", c, outcome)
            /\ secrets' = IF outcome = "done"
                            THEN [secrets EXCEPT ![c] = @ \cup {j \o "_cert"}]
                            ELSE secrets
            /\ UNCHANGED <<local, registry, refs, addresses>>

(* _deploy_delete_certificate: the job's certificate secret is deleted.    *)
DeployDeleteCertificate ==
    \E c \in Clusters, j \in Jobs, ok \in BOOLEAN :
        LET outcome == IF j \notin {"report-master", "shuffler"} THEN "refused"
                       ELSE IF ok THEN "done"
                       ELSE "failed"
        IN  /\ Invoke("delete_certificate", c, outcome)
            /\ secrets' = IF outcome = "done"
                            THEN [secrets EXCEPT ![c] = @ \ {j \o "_cert"}]
                            ELSE secrets
            /\ UNCHANGED <<local, registry, refs, addresses>>

(* _deploy_upload_service_account_key: the report master's GCS service    *)
(* account secret.                                                         *)
DeployUploadServiceAccountKey ==
    \E c \in Clusters, ok \in BOOLEAN :
        /\ Invoke("upload_service_account_key", c, IF ok THEN "done" ELSE "failed")
        /\ secrets' = IF ok THEN [secrets EXCEPT ![c] = @ \cup {"service_account_key"}]
                            ELSE secrets
        /\ UNCHANGED <<local, registry, refs, addresses>>

(* _deploy_addresses: reserve_static_ip_addresses.                         *)
DeployAddresses ==
    \E c \in Clusters, ok \in BOOLEAN :
        /\ Invoke("addresses", c, IF ok THEN "done" ELSE "failed")
        /\ addresses' = IF ok THEN [addresses EXCEPT ![c] = TRUE] ELSE addresses
        /\ UNCHANGED <<local, registry, refs, secrets>>

Next ==
    \/ DeployBuild
    \/ DeployProductionBuild
    \/ DeployPush
    \/ DeployUploadSecretKeys
    \/ DeployDeleteSecretKeys
    \/ DeployUploadCertificate
    \/ DeployDeleteCertificate
    \/ DeployUploadServiceAccountKey
    \/ DeployAddresses

Spec == Init /\ [][Next]_vars

=============================================================================
