--------------------------- MODULE MCStackDeployment ---------------------------
(* Model-checking instances of StackDeployment: the stacks of the examples.    *)
EXTENDS StackDeployment, StacksData, StacksCompute, StacksServerless, StacksNetwork

MCStacks ==
  {Aurora, Mysql, Oracle, PostgresLambda, Neptune, FsxAd, GlobalTableCmk, Quicksight, BackupS3,
   ReplicationRole, ReplicationDestination, ReplicationSource, OpenSearchVpc,
   OpenSearchServerless, LogsSubscription}
  \cup
  {Batch, CodepipelineBuildDeploy, CodepipelineGlueDeploy, LambdaApiCi, Airflow,
   ImageBuilder, Ec2Instance, LocalZone, InstanceConnectEndpoint, EksCluster, RabbitMq,
   Ec2Product, Portfolio}
  \cup
  {ChatApp, ApiGatewayAsync, CorsCrud, ParallelStepFunctions, LambdaApi, WidgetService,
   StreamingBedrock, AppSyncHttp, AppSyncEventBridge, AppSyncDynamoDb, Rekognition,
   DdbStream, S3ObjectLambda, S3Vectors, ConnectInstance, LexBot, StaticSite,
   CloudfrontFunctions, AppConfigHosted, ScalingTarget, ScalingSchedule}
  \cup
  {R53Resolver, ResolverDnsFirewall, WafCloudFront, WafRegional, IncomingData,
   SftpServer, SecretsManagerRotation}

\* The orders these leave open are in the README.
MCDisordered ==
  {AppSyncHttp, AppSyncEventBridge, S3ObjectLambda, ScalingTarget, ScalingSchedule,
   Ec2Instance, SecretsManagerRotation, PostgresLambda}

\* Its cluster is protected, and its docs say that `cdk destroy' deletes it.
MCUnclean == {PostgresLambda}

Setup  == {PostgresLambda}
=============================================================================
