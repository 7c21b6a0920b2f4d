---------------------------- MODULE StacksServerless ----------------------------
(* The examples whose stacks put functions behind an API, an event or a user   *)
(* interface.                                                                  *)
EXTENDS StackGraphs

\* A REST API whose methods refer to the resources backends.
RestApi(backends) ==
     "api"        :> {}
  @@ "methods"    :> {"api"} \cup backends
  @@ "deployment" :> {"api", "methods"}
  @@ "stage"      :> {"api", "deployment"}

(* typescript/api-websocket-lambda-dynamodb.  The table name is a constant;  *)
(* the functions wait for the table through what they are granted.           *)
ChatFunctions ==
     Each({"socketApi", "table"}, {})
  @@ Each({"connectFunc", "disconnectFunc"}, {"table"})
  @@ "messageFunc" :> {"table", "socketApi"}
  @@ "role"        :> {"connectFunc", "disconnectFunc", "messageFunc"}

\* A deployment of an API that has no route is refused.
ChatApp == With(
  [needs |-> {"deployment"} \X {"connectRoute", "disconnectRoute", "messageRoute"},
   fixed |-> {"table"}],
  Stack(   ChatFunctions
        @@ "connectIntegration"    :> {"socketApi", "connectFunc", "role"}
        @@ "disconnectIntegration" :> {"socketApi", "disconnectFunc", "role"}
        @@ "messageIntegration"    :> {"socketApi", "messageFunc", "role"}
        @@ "connectRoute"          :> {"socketApi", "connectIntegration"}
        @@ "disconnectRoute"       :> {"socketApi", "disconnectIntegration"}
        @@ "messageRoute"          :> {"socketApi", "messageIntegration"}
        @@ "deployment"            :> {"socketApi", "connectRoute", "disconnectRoute",
                                       "messageRoute"}
        @@ "stage"                 :> {"socketApi", "deployment"}))

(* typescript/api-gateway-async-lambda-invocation *)
JobHandler ==
     Each({"jobTable", "fnLogGroup", "apiLogGroup", "cloudWatchRole"}, {})
  @@ "jobHandler" :> {"jobTable", "fnLogGroup"}
  @@ "dynamoRole" :> {"jobTable"}
  @@ "apiAccount" :> {"api", "cloudWatchRole"}

ApiGatewayAsync == With(
  [kept  |-> {"fnLogGroup", "apiLogGroup", "cloudWatchRole", "apiAccount"},
   fixed |-> {"jobTable"}],
  Stack(   "stage" :> {"api", "deployment", "apiLogGroup", "apiAccount"}
        @@ RestApi({"jobHandler", "dynamoRole", "jobTable"})
        @@ JobHandler))

(* typescript/api-cors-lambda-crud-dynamodb *)
CorsCrud == With(
  [fixed    |-> {"items"},
   destroys |-> "stack"],
  Stack(   RestApi({"getOne", "getAll", "createOne", "updateOne", "deleteOne"})
        @@ "items" :> {}
        @@ Each({"getOne", "getAll", "createOne", "updateOne", "deleteOne"}, {"items"})))

(* typescript/api-gateway-parallel-step-functions *)
ParallelStepFunctions == With(
  [kept |-> {"logRetention", "stfLogGroup"}],
  Stack(   RestApi({"stateMachine", "apiRole"})
        @@ Each({"vpc", "stfLogGroup"}, {})
        @@ Each({"lambda1", "lambda2"}, {"vpc"})
        @@ "logRetention" :> {"lambda1", "lambda2"}
        @@ "stateMachine" :> {"lambda1", "lambda2", "stfLogGroup"}
        @@ "apiRole"      :> {"stateMachine"}))

(* typescript/lambda-api-ci *)
LambdaApi == With(
  AutoDelete("emptyBucket", "bucket") @@ [fixed |-> {"lambda"}],
  Stack(   RestApi({"lambda"})
        @@ "bucket"      :> {}
        @@ "emptyBucket" :> {"bucket"}
        @@ "lambda"      :> {"bucket"}))

(* typescript/my-widget-service *)
WidgetService == With(
  AutoDelete("emptyBucket", "bucket"),
  Stack(   RestApi({"handler"})
        @@ "bucket" :> {}
        @@ Each({"emptyBucket", "handler"}, {"bucket"})))

(* typescript/apigw-streaming-lambda-bedrock *)
StreamingBedrock == With(
  [kept     |-> {"logRetention"},
   destroys |-> "stack"],
  Stack(RestApi({"fn"}) @@ "fn" :> {} @@ "logRetention" :> {"fn"}))

(* typescript/appsync-graphql-http, typescript/appsync-graphql-eventbridge.  *)
(* The resolvers name the data source by a string, and depend on the schema. *)
GraphqlApi(resolvers) ==
     "graphqlApi" :> {}
  @@ Each({"apiKey", "schema", "dataSource"}, {"graphqlApi"})
  @@ Each(resolvers, {"graphqlApi", "schema"})

AppSyncHttp == With(
  [needs |-> {"getOne", "getAll", "save", "delete"} \X {"schema", "dataSource"}],
  Stack(GraphqlApi({"getOne", "getAll", "save", "delete"})))

AppSyncEventBridge == With(
  [needs |-> {"putEvent"} \X {"schema", "dataSource"}],
  Stack(   "dataSource" :> {"graphqlApi", "role"}
        @@ GraphqlApi({"putEvent"})
        @@ Each({"role", "echoLambda"}, {})
        @@ "rule" :> {"echoLambda"}))

(* typescript/appsync-graphql-dynamodb *)
AppSyncDynamoDb == With(
  [needs    |-> {"carsFunction", "defectsFunction"} \X {"schema"},
   fixed    |-> {"carsTable", "defectsTable"},
   destroys |-> "stack"],
  Stack(   Each({"carsTable", "defectsTable", "graphqlApi"}, {})
        @@ "schema"          :> {"graphqlApi"}
        @@ "carsSource"      :> {"graphqlApi", "carsTable"}
        @@ "defectsSource"   :> {"graphqlApi", "defectsTable"}
        @@ "carsFunction"    :> {"graphqlApi", "schema", "carsSource"}
        @@ "defectsFunction" :> {"graphqlApi", "schema", "defectsSource"}
        @@ "getCars"         :> {"graphqlApi", "schema", "carsFunction"}
        @@ "getDefects"      :> {"graphqlApi", "schema", "defectsFunction"}))

(* typescript/rekognition-lambda-s3-trigger *)
Rekognition == With(
  AutoDelete("emptyBucket", "bucket") @@ [destroys |-> "stack"],
  Stack(   Each({"bucket", "classifications"}, {})
        @@ "emptyBucket"   :> {"bucket"}
        @@ "function"      :> {"bucket", "classifications"}
        @@ "permission"    :> {"function", "bucket"}
        @@ "notifications" :> {"bucket", "function", "permission"}))

(* typescript/ddb-stream-lambda-sns *)
DdbStream == With(
  [fixed    |-> {"topic", "deadLetterQueue"},
   destroys |-> "stack"],
  Stack(   Each({"topic", "deadLetterQueue", "l2Table", "l3Table"}, {})
        @@ "l2Function" :> {"topic", "l2Table", "deadLetterQueue"}
        @@ "l2Source"   :> {"l2Function", "l2Table", "deadLetterQueue"}
        @@ "l3Queue"    :> {}
        @@ "l3Function" :> {"topic", "l3Table", "l3Queue"}
        @@ "l3Source"   :> {"l3Function", "l3Table", "l3Queue"}))

(* typescript/s3-object-lambda.  The object lambda names the access point by *)
(* an ARN that the code puts together.                                       *)
S3ObjectLambda == With(
  AutoDelete("emptyBucket", "bucket") @@
  [needs |-> {<<"objectLambda", "accessPoint">>},
   fixed |-> {"accessPoint", "objectLambda"}],
  Stack(   Each({"bucket", "lambda"}, {})
        @@ "emptyBucket"  :> {"bucket"}
        @@ "permission"   :> {"lambda"}
        @@ "accessPoint"  :> {"bucket", "lambda"}
        @@ "objectLambda" :> {"lambda"}))

(* typescript/s3-vectors-lambda-bedrock.  The bucket has the name that is the *)
(* default of a parameter, the index one that is a constant.                 *)
\* Mutant: the index does not depend on the bucket.
VectorIndexWaitsFor_Role == {"setupRole"}

VectorIndexWaitsFor == {"setupRole", "vectorBucket"}

S3Vectors == With(
  [needs    |-> {<<"vectorIndex", "vectorBucket">>},
   kept     |-> {"logRetention"},
   fixed    |-> {"vectorBucket", "vectorIndex"},
   destroys |-> "stack"],
  Stack(   Each({"ingestFn", "queryFn", "setupRole"}, {})
        @@ "logRetention" :> {"ingestFn", "queryFn"}
        @@ "vectorBucket" :> {"setupRole"}
        @@ "vectorIndex"  :> VectorIndexWaitsFor))

(* typescript/connect-cdk *)
ConnectInstance == With(
  [destroys |-> "stack"],
  Stack(   Each({"instance", "helloLambda"}, {})
        @@ "contactFlow"     :> {"instance", "helloLambda"}
        @@ "flowLambda"      :> {"instance", "helloLambda"}
        @@ "number"          :> {"instance"}
        @@ "associateNumber" :> {"instance", "contactFlow", "number"}))

(* typescript/lexbot *)
LexBot == With(
  [fixed |-> {"bot"}],
  Stack(   "role"    :> {}
        @@ "bot"     :> {"role"}
        @@ "version" :> {"bot"}
        @@ "alias"   :> {"bot", "version"}))

(* typescript/static-site *)
StaticSite == With(
  AutoDelete("emptyBucket", "bucket") @@
  [seeds |-> {<<"deployment", "bucket">>},
   fixed |-> {"record"}],
  Stack(   Each({"bucket", "certificate"}, {})
        @@ "emptyBucket"  :> {"bucket"}
        @@ "distribution" :> {"bucket", "certificate"}
        @@ "record"       :> {"distribution"}
        @@ "deployment"   :> {"bucket", "distribution"}))

(* typescript/cloudfront-functions.  The deployment of the files deletes them *)
(* when it goes (retainOnDelete), but the bucket, which is versioned, keeps   *)
(* what they were.                                                            *)
CloudfrontFunctions == With(
  AutoDelete("emptyBucket", "bucket") @@
  [seeds    |-> {<<"websiteFiles", "bucket">>},
   fixed    |-> {"requestFunction", "responseFunction"},
   destroys |-> "stack"],
  Stack(   Each({"bucket", "requestFunction", "responseFunction", "accessIdentity"}, {})
        @@ Each({"emptyBucket", "websiteFiles"}, {"bucket"})
        @@ "distribution" :> {"bucket", "requestFunction", "responseFunction"}))

(* typescript/appconfig-hosted-lambda *)
AppConfigHosted == With(
  [destroys |-> "stack"],
  Stack(   "app"    :> {}
        @@ "env"    :> {"app"}
        @@ "config" :> {"app"}
        @@ "deploy" :> {"app", "env", "config"}
        @@ "fn"     :> {"app", "env"}))

(* typescript/lambda-provisioned-concurrency-autoscaling: two stacks.  Both  *)
(* name the alias that they scale by a string.                               *)
ScaledFunction ==
     "function"       :> {}
  @@ "alias"          :> {"function"}
  @@ "scalableTarget" :> {}

ScalingTarget == With(
  [needs    |-> {<<"scalableTarget", "alias">>},
   fixed    |-> {"function"},
   destroys |-> "stack"],
  Stack(ScaledFunction @@ "scalingPolicy" :> {"scalableTarget", "function"}))

ScalingSchedule == With(
  [needs    |-> {<<"scalableTarget", "alias">>},
   fixed    |-> {"function"},
   destroys |-> "stack"],
  Stack(ScaledFunction))
=============================================================================
