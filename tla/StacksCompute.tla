----------------------------- MODULE StacksCompute -----------------------------
(* The examples whose stacks run or build something: instances, clusters,     *)
(* batch jobs, pipelines, brokers.                                            *)
EXTENDS StackGraphs

(* typescript/batch-ecr-openmp.  The launch template is created and unused.   *)
(* The repository is deleted with what it holds (emptyOnDelete), so that the  *)
(* images pushed to it are of no consequence.                                 *)
BatchEnvironment ==
     Each({"repository", "vpc", "serviceRole", "instanceRole", "jobRole", "logGroup"}, {})
  @@ "sg"             :> {"vpc"}
  @@ "profile"        :> {"instanceRole"}
  @@ "launchTemplate" :> {"sg", "instanceRole"}
  @@ "compute"        :> {"serviceRole", "profile", "sg", "vpc"}
  @@ "queue"          :> {"compute"}

BatchJobs ==
     "jobDefinition" :> {"repository", "jobRole", "logGroup"}
  @@ "jobSubmitter"  :> {"queue", "jobDefinition"}

Batch == With(
  [fixed    |-> {"repository", "logGroup"},
   destroys |-> "all"],
  Stack(BatchJobs @@ BatchEnvironment))

(* typescript/codepipeline-build-deploy *)
ImageBuild ==
     Each({"codeRepo", "imageRepo"}, {})
  @@ "taskDef"     :> {"imageRepo"}
  @@ "buildImage"  :> {"codeRepo", "imageRepo", "taskDef"}
  @@ "buildTest"   :> {"codeRepo"}
  @@ "buildLambda" :> {"buildImage"}
  @@ "trigger"     :> {"buildLambda"}

\* Mutants: the dependency is left out; it is the trigger of a deployment.
VpcWaitsFor_Nothing == {}
VpcWaitsFor_Cycle   == {"trigger", "deploymentGroup"}

\* The VPC, and with it all that follows, waits for the trigger of the build.
VpcWaitsFor == {"trigger"}

BlueGreenService ==
     "vpc" :> VpcWaitsFor
  @@ Each({"blueGroup", "greenGroup", "albSg", "cluster"}, {"vpc"})
  @@ "alb"      :> {"vpc", "albSg"}
  @@ "listener" :> {"alb", "blueGroup"}
  @@ "service"  :> {"cluster", "vpc", "taskDef", "listener", "blueGroup"}

BuildDeployPipeline ==
     "artifacts"       :> {}
  @@ "deploymentGroup" :> {"service", "listener", "blueGroup", "greenGroup"}
  @@ "pipeline"        :> {"artifacts", "codeRepo", "buildTest", "buildImage", "deploymentGroup"}

\* The image of the first task is on its way when the cluster is created.
CodepipelineBuildDeploy == With(
  [reads |-> {<<"cluster", "trigger">>},
   kept  |-> {"imageRepo", "artifacts"},
   fixed |-> {"codeRepo", "blueGroup", "greenGroup", "service", "pipeline"}],
  Stack(BuildDeployPipeline @@ BlueGreenService @@ ImageBuild))

(* typescript/codepipeline-glue-deploy *)
CodepipelineGlueDeploy == With(
  [cleared |-> {<<"emptyBucket", "bucket">>},
   fills   |-> {<<"pipeline", "bucket">>},
   fixed   |-> {"etlRepository", "pipeline"}],
  Stack(   Each({"etlRepository", "key"}, {})
        @@ "bucket"       :> {"key"}
        @@ "emptyBucket"  :> {"bucket"}
        @@ "glueRole"     :> {"key", "bucket"}
        @@ "lambda"       :> {"etlRepository", "glueRole", "bucket", "key"}
        @@ "pipelineRole" :> {"bucket", "key", "etlRepository", "lambda"}
        @@ "pipeline"     :> {"pipelineRole", "bucket", "etlRepository", "lambda", "glueRole"}
        @@ "rule"         :> {"pipeline", "etlRepository"}))

(* typescript/lambda-api-ci *)
LambdaApiCi == With(
  [kept |-> {"artifacts"}],
  Stack(   Each({"artifacts", "project"}, {})
        @@ "pipeline"  :> {"artifacts", "project"}
        @@ "rule"      :> {"pipeline"}))

(* typescript/airflow-lambda-dynamodb-approval *)
AirflowInputs ==
     Each({"vpc", "bucket", "approvalTable", "demoFunction"}, {})
  @@ Each({"emptyBucket", "deployDags"}, {"bucket"})
  @@ "mwaaRole" :> {"bucket", "approvalTable", "demoFunction"}

Airflow == With(
  AutoDelete("emptyBucket", "bucket") @@
  [seeds    |-> {<<"deployDags", "bucket">>},
   fixed    |-> {"mwaaEnv"},
   destroys |-> "stack"],
  Stack(   AirflowInputs
        @@ "sg"      :> {"vpc"}
        @@ "mwaaEnv" :> {"mwaaRole", "bucket", "vpc", "sg"}))

(* typescript/imagebuilder *)
ImageBuilder == With(
  [kept  |-> {"repository"},
   fixed |-> {"git", "nodejs", "docker", "recipe", "infraConfig", "distConfig", "pipeline"}],
  Stack(   Each({"git", "nodejs", "docker", "repository", "role"}, {})
        @@ "recipe"      :> {"git", "nodejs", "docker", "repository"}
        @@ "profile"     :> {"role"}
        @@ "infraConfig" :> {"profile"}
        @@ "distConfig"  :> {"repository"}
        @@ "pipeline"    :> {"infraConfig", "distConfig", "recipe"}))

(* typescript/ec2-instance *)
Ec2Network == "vpc" :> {} @@ "sshSg" :> {"vpc"}

Ec2Server ==
     "bucket" :> {}
  @@ Each({"emptyBucket", "deployment", "role"}, {"bucket"})
  @@ "sg"       :> {"vpc"}
  @@ "instance" :> {"vpc", "sg", "sshSg", "role", "bucket"}

\* The instance copies from the bucket once, as it starts.  The deployment of
\* the assets deletes them when it goes.
Ec2Instance == With(
  [reads    |-> {<<"instance", "deployment">>},
   seeds    |-> {<<"deployment", "bucket">>},
   fills    |-> {<<User, "bucket">>},
   cleared  |-> {"deployment", "emptyBucket"} \X {"bucket"},
   destroys |-> "stack"],
  Stack(Ec2Server @@ Ec2Network))

(* typescript/ec2-ssm-local-zone *)
LocalZone == With(
  [fixed    |-> {"nginxSg", "natSg"},
   destroys |-> "stack"],
  Stack(   Each({"vpc", "role"}, {})
        @@ Each({"endpoints", "nginxSg", "natSg"}, {"vpc"})
        @@ "instancePublic" :> {"vpc", "nginxSg", "role"}
        @@ "natInstance"    :> {"vpc", "natSg", "role"}
        @@ "routes"         :> {"vpc", "natInstance"}
        @@ "instance"       :> {"vpc", "role"}))

(* typescript/ec2-instance-connect-endpoint: is_complete describes the endpoint    *)
(* that was deleted, which EC2 is taken to answer, once, with "delete-complete".   *)
ConnectEndpoint ==
     "role" :> {}
  @@ Each({"onEventHandler", "isCompleteHandler"}, {"role"})
  @@ "provider" :> {"onEventHandler", "isCompleteHandler"}
  @@ "endpoint" :> {"provider", "vpc"}

InstanceConnectEndpoint == With(
  [destroys |-> "stack"],
  Stack(ConnectEndpoint @@ "vpc" :> {} @@ "instance" :> {"vpc"}))

(* typescript/eks/cluster *)
EksCluster == With(
  [fixed |-> {"nodeRole"}],
  Stack(   Each({"vpc", "kubectlLayer", "nodeRole", "podRole"}, {})
        @@ "cluster"        :> {"vpc"}
        @@ "kubectl"        :> {"cluster", "kubectlLayer"}
        @@ "nodegroup"      :> {"cluster", "vpc", "nodeRole"}
        @@ "fargateProfile" :> {"cluster", "podRole"}
        @@ "awsAuth"        :> {"kubectl", "nodeRole", "podRole"}
        @@ "addons"         :> {"cluster"}))

(* typescript/amazon-mq-rabbitmq-lambda *)
RabbitMq == With(
  [fixed    |-> {"adminSecret", "logGroup"},
   destroys |-> "stack"],
  Stack(   Each({"adminSecret", "logGroup"}, {})
        @@ "broker"   :> {"adminSecret"}
        @@ "consumer" :> {"logGroup", "broker", "adminSecret"}
        @@ "source"   :> {"consumer", "broker", "adminSecret"}))

(* typescript/servicecatalog/portfolio-with-ec2-product *)
Ec2Product == Stack(
     Each({"vpc", "role"}, {})
  @@ "sg"       :> {"vpc"}
  @@ "instance" :> {"vpc", "sg", "role"})

\* A constraint on a product of a portfolio waits for their association.
Portfolio == With(
  [needs    |-> {"constraint", "notification"} \X {"association"},
   fixed    |-> {"devRole", "testGroup"},
   destroys |-> "stack"],
  Stack(   Each({"portfolio", "product", "topic", "devRole", "testGroup"}, {})
        @@ "association"  :> {"portfolio", "product"}
        @@ "constraint"   :> {"portfolio", "product", "association"}
        @@ "notification" :> {"portfolio", "product", "topic", "association"}
        @@ "devAccess"    :> {"portfolio", "devRole"}
        @@ "testAccess"   :> {"portfolio", "testGroup"}))
=============================================================================
