------------------------------ MODULE StacksData ------------------------------
(* The examples whose stacks keep data: databases, tables, buckets, keys.     *)
EXTENDS StackGraphs, Integers

(* typescript/rds *)

AuroraNetwork ==
  Each({"dbsg", "params", "subnets"}, {})

\* The cluster's policy is changed from SNAPSHOT to RETAIN after the helpers
\* of the cluster have taken theirs.
AuroraCluster ==
     Each({"secret", "key"}, {})
  @@ "alias"        :> {"key"}
  @@ "cluster"      :> {"dbsg", "params", "subnets", "secret", "key"}
  @@ "writer"       :> {"cluster"}
  @@ "logRetention" :> {"cluster"}
  @@ "attachment"   :> {"secret", "cluster"}
  @@ "rotation"     :> {"attachment", "dbsg"}

AuroraDashboard == "dashboard" :> {"cluster"}

\* Mutant: the key is destroyed with the stack.
AuroraKept_NoKey == {"cluster", "logRetention"}

AuroraKept == {"key", "cluster", "logRetention"}

Aurora == With(
  [kept   |-> AuroraKept,
   fixed  |-> {"dbsg", "secret", "alias", "cluster", "dashboard"},
   holds  |-> {"cluster"} \X {"params", "subnets"},
   sealed |-> {<<"cluster", "key">>}],
  Stack(AuroraNetwork @@ AuroraCluster @@ AuroraDashboard))

DatabaseInstance ==
     Each({"dbsg", "subnets", "secret", "params", "monitoringRole"}, {})
  @@ "instance"   :> {"dbsg", "subnets", "secret", "params", "monitoringRole"}
  @@ "attachment" :> {"secret", "instance"}
  @@ "rotation"   :> {"attachment", "dbsg"}

Mysql == With(
  [fixed |-> {"dbsg", "subnets", "secret", "instance"}],
  Stack(DatabaseInstance))

Oracle == With(
  [kept  |-> {"instance", "logRetention"},
   fixed |-> {"dbsg", "subnets", "secret", "instance"},
   holds |-> {"instance"} \X {"dbsg", "subnets", "params"}],
  Stack(DatabaseInstance @@ "logRetention" :> {"instance"}))

(* typescript/postgres-lambda *)

\* The functions read the attached secret; the rules that let them into the
\* database are resources of their own, which nothing refers to.
PostgresResources ==
     Each({"vpc", "secret", "lambdaRole", "postgresFunction"}, {})
  @@ Each({"sg", "subnets", "setupSg"}, {"vpc"})
  @@ "cluster"          :> {"sg", "subnets", "secret", "lambdaRole"}
  @@ "writer"           :> {"cluster"}
  @@ "attachment"       :> {"secret", "cluster"}
  @@ "grantInvoke"      :> {"lambdaRole", "postgresFunction"}
  @@ "lambdaToPostgres" :> {"vpc", "attachment"}
  @@ "setupFunction"    :> {"setupSg", "attachment", "postgresFunction"}
  @@ "ingress"          :> {"sg", "setupSg"}
  @@ "setup"            :> {"setupFunction"}

\* It connects once, for at most ten seconds, and answers FAILED.
PostgresSetupNeeds == {"setup"} \X {"writer", "ingress"}

PostgresLambda == With(
  [needs     |-> PostgresSetupNeeds,
   protected |-> {"cluster"},
   destroys  |-> "all"],
  Stack(PostgresResources))

(* typescript/neptune-with-vpc *)
Neptune == With(
  [fixed    |-> {"cluster", "instance"},
   destroys |-> "stack"],
  Stack(   Each({"vpc", "clusterParams", "dbParams"}, {})
        @@ Each({"subnets", "sg"}, {"vpc"})
        @@ "cluster"  :> {"clusterParams", "subnets", "sg"}
        @@ "instance" :> {"cluster", "dbParams"}))

(* typescript/fsx-ad *)
FsxAd == Stack(
     Each({"vpc", "secret"}, {})
  @@ "ad"    :> {"vpc", "secret"}
  @@ "dhcp"  :> {"ad"}
  @@ "assoc" :> {"dhcp", "vpc"}
  @@ "fs"    :> {"vpc", "ad"})

(* typescript/ddb/global-table-with-cmk: two nested stacks.  The table names *)
(* its keys by exported values, the replica's of which is put together from  *)
(* the key's, so that only the order of the stacks waits for the replica.    *)
CmkStack == "key" :> {} @@ Each({"alias", "replica"}, {"key"})

\* The call that replicates the key has no counterpart on deletion.
GlobalTableCmk == With(
  [needs |-> {<<"table", "replica">>},
   kept  |-> {"replica"},
   fixed |-> {"alias", "table"}],
  Stack(After("table" :> {"key"}, CmkStack)))

(* typescript/quicksight *)
\* The columns that are years, of the input and of the casts to integers.
InputColumns == 1960 .. 2023
CastColumns  == 1960 .. 2023

QuicksightBucket == "bucket" :> {} @@ Each({"cleaner", "deployment"}, {"bucket"})

Quicksight == With(
  AutoDelete("cleaner", "bucket") @@
  [needs |-> {<<"dataSource", "policy">>, <<"dataSource", "deployment">>}
               \cup {<<"dataset", "column">> : c \in CastColumns \ InputColumns},
   seeds |-> {<<"deployment", "bucket">>},
   fixed |-> {"policy", "dataSource", "dataset"}],
  Stack(   QuicksightBucket
        @@ "policy"     :> {"bucket"}
        @@ "dataSource" :> {"bucket", "policy", "deployment"}
        @@ "dataset"    :> {"dataSource"}))

(* typescript/backup-s3 *)
BackupS3 == With(
  AutoDelete("cleaner", "bucket") @@ [kept |-> {"vault"}],
  Stack(   Each({"bucket", "role", "vault"}, {})
        @@ "cleaner"   :> {"bucket"}
        @@ "plan"      :> {"vault"}
        @@ "selection" :> {"plan", "role"}))

(* typescript/s3-kms-cross-account-replication: three stacks, deployed one   *)
(* after the other by hand; the later ones get the ARNs as parameters.       *)
ReplicationRole == With(
  [fixed    |-> {"role", "policy"},
   destroys |-> "stack"],
  Stack("role" :> {} @@ "policy" :> {"role"}))

EncryptedBucket == With(
  AutoDelete("cleaner", "bucket") @@
  [kept     |-> {"key"},
   fixed    |-> {"alias", "bucket"},
   destroys |-> "stack"],
  Stack(   "key" :> {}
        @@ Each({"alias", "bucket"}, {"key"})
        @@ "bucketPolicy" :> {"bucket"}
        @@ "cleaner"      :> {"bucket", "bucketPolicy"}))

\* Replication writes in the destination, whoever writes in the source.
ReplicationDestination == EncryptedBucket
ReplicationSource      == EncryptedBucket

(* typescript/opensearch/os_vpc_provision *)
OpenSearchUsers ==
     "userPool" :> {}
  @@ Each({"appClient", "userPoolDomain"}, {"userPool"})
  @@ "identityPool" :> {"appClient", "userPool"}

OpenSearchDomain ==
     Each({"vpc", "cognitoRole"}, {})
  @@ Each({"authRole", "unauthRole"}, {"identityPool"})
  @@ "roleAttachment" :> {"identityPool", "authRole", "unauthRole"}
  @@ "sg"             :> {"vpc"}
  @@ "domain"         :> {"vpc", "sg", "identityPool", "userPool", "cognitoRole"}
  @@ "accessPolicies" :> {"domain", "authRole"}
  @@ "proxy"          :> {"vpc", "sg", "domain"}

OpenSearchVpc == With(
  [destroys |-> "stack"], Stack(OpenSearchUsers @@ OpenSearchDomain))

(* typescript/opensearch/cwlogs_ingestion *)
\* A collection is not created without the policies that match its name; the
\* pipeline writes in the collection.
OpenSearchServerless == With(
  [needs    |-> {<<"collection", "encryptionPolicy">>, <<"collection", "networkPolicy">>,
                 <<"pipeline", "collection">>},
   fixed    |-> {"encryptionPolicy", "networkPolicy", "collection", "pipelineRole",
                 "pipeline", "dataAccessPolicy"},
   destroys |-> "stack"],
  Stack(   Each({"vpc", "encryptionPolicy", "dashboardRole"}, {})
        @@ "sg"               :> {"vpc"}
        @@ "vpcEndpoint"      :> {"vpc", "sg"}
        @@ "networkPolicy"    :> {"vpcEndpoint"}
        @@ "collection"       :> {"encryptionPolicy", "networkPolicy"}
        @@ "pipelineRole"     :> {"collection"}
        @@ "pipeline"         :> {"pipelineRole", "collection"}
        @@ "dashboardPolicy"  :> {"dashboardRole"}
        @@ "dataAccessPolicy" :> {"pipelineRole", "dashboardRole", "collection", "pipeline"}))

LogsSubscription == With(
  [kept     |-> {"logGroup"},
   destroys |-> "stack"],
  Stack(   Each({"logGroup", "layer"}, {})
        @@ "emitter"    :> {"logGroup"}
        @@ "rule"       :> {"emitter"}
        @@ "subscriber" :> {"layer"}
        @@ "alias"      :> {"subscriber"}
        @@ "filter"     :> {"logGroup", "subscriber"}))
=============================================================================
