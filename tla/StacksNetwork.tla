----------------------------- MODULE StacksNetwork -----------------------------
(* The examples whose stacks are about networks and who gets in.              *)
EXTENDS StackGraphs, Naturals

(* typescript/r53-resolver *)
DnsFirewall ==
     "domainList"  :> {}
  @@ "ruleGroup"   :> {"domainList"}
  @@ "association" :> {"ruleGroup", "vpc"}

ResolverEndpoints ==
     Each({"sgOutbound", "sgInbound"}, {"vpc"})
  @@ "outbound" :> {"sgOutbound", "vpc"}
  @@ "inbound"  :> {"sgInbound", "vpc"}

R53Resolver == Stack("vpc" :> {} @@ DnsFirewall @@ ResolverEndpoints)

(* typescript/route53-resolver-dns-firewall.  With mutation protection an    *)
(* association is not removed.                                               *)
ResolverDnsFirewall == With(
  [protected |-> {"association"},
   fixed     |-> {"logGroup", "queryConfig", "allowed", "blocked", "ruleGroup"}],
  Stack(   Each({"vpc", "logGroup", "allowed", "blocked"}, {})
        @@ "queryConfig"      :> {"logGroup"}
        @@ "queryAssociation" :> {"queryConfig", "vpc"}
        @@ "ruleGroup"        :> {"allowed", "blocked"}
        @@ "association"      :> {"ruleGroup", "vpc"}))

(* typescript/waf: two stacks of one web ACL each, with the same rules.      *)
ManagedRules ==
     "CommonRuleSet"         :> 10
  @@ "AmazonIpReputation"    :> 20
  @@ "KnownBadInputsRuleSet" :> 30
  @@ "AnonymousIpList"       :> 40
  @@ "LinuxRuleSet"          :> 50
  @@ "UnixRuleSet"           :> 60

makeRules(listOfRules) ==
  [r \in DOMAIN listOfRules |-> listOfRules[r]] @@ "GeoMatch" :> 0 @@ "LimitRequests100" :> 1

\* A web ACL is refused if two of its rules have one priority.
Clashes(rules) ==
  {r \in DOMAIN rules : \E q \in DOMAIN rules \ {r} : rules[q] = rules[r]}

WebAcl(rules) == With(
  [needs |-> {"webAcl"} \X Clashes(rules),
   fixed |-> {"webAcl"}],
  Stack("webAcl" :> {}))

WafCloudFront == WebAcl(makeRules(ManagedRules))
WafRegional   == WebAcl(makeRules(ManagedRules))

(* typescript/aws-transfer-sftp-server: a stack for the data, and one for    *)
(* the server, once for development and once for production, which refers to *)
(* the bucket of the first.                                                  *)
IncomingData == With(
  AutoDelete("emptyBucket", "bucket") @@
  [fixed    |-> {"bucket"},
   destroys |-> "stack"],
  Stack("bucket" :> {} @@ "emptyBucket" :> {"bucket"}))

SftpServer == With(
  [fixed    |-> {"sg", "accessPolicy", "accessRole"},
   destroys |-> "stack"],
  Stack(   Each({"vpc", "loggingRole", "eips", "accessPolicy"}, {})
        @@ "sg"           :> {"vpc"}
        @@ "server"       :> {"sg", "vpc", "eips", "loggingRole"}
        @@ "accessRole"   :> {"accessPolicy"}
        @@ "logGroup"     :> {"server"}
        @@ "user"         :> {"server", "accessRole"}
        @@ "metricFilter" :> {"logGroup"}
        @@ "errorAlarm"   :> {}))

(* typescript/secrets-manager-rotation.  The id of the cluster is a constant *)
(* where permissions name it; the secret is rotated as soon as its schedule  *)
(* exists, by a function that has no way out but the endpoints.              *)
RotationNetwork ==
     "vpc" :> {}
  @@ Each({"ecSg", "rotatorSg", "subnetGroup"}, {"vpc"})
  @@ "ecEndpoint" :> {"vpc", "rotatorSg", "rotatorRole"}
  @@ "smEndpoint" :> {"vpc", "rotatorRole", "secret"}

RotationCluster ==
     "secret"           :> {}
  @@ "replicationGroup" :> {"subnetGroup", "ecSg", "secret"}
  @@ "rotatorRole"      :> {"secret"}

RotationFunction ==
     "layer"    :> {}
  @@ "fn"       :> {"rotatorRole", "replicationGroup", "vpc", "ecSg", "rotatorSg", "layer"}
  @@ "schedule" :> {"secret", "fn"}

SecretsManagerRotation == With(
  [reads |-> {"schedule"} \X {"ecEndpoint", "smEndpoint"},
   fixed |-> {"replicationGroup"}],
  Stack(RotationFunction @@ RotationCluster @@ RotationNetwork))
=============================================================================
