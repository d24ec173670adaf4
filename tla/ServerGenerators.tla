------------------------- MODULE ServerGenerators -------------------------
(***************************************************************************)
(* The generators that add drivers (serverDriver/) and extensions           *)
(* (serverExtension/) to a server.  Each is a list of plop actions, and an   *)
(* action is the sequence of the writes it makes, worked out from the        *)
(* repository as it begins.  `add`, plop's own action, rejects a file that   *)
(* exists, which ends the run.                                               *)
(***************************************************************************)
EXTENDS Splices

CONSTANTS HasSupergraph,    \* services/apollo has a supergraph.yaml
          PortRange         \* bound on the ports tried

(* templates/server: its .env.sample has the Kafka brokers, its Dockerfile   *)
(* the migrate stage already                                                 *)
ScaffoldEntries(s) == {Entry(s, "package.json", "server"), Entry(s, "Dockerfile", "migrate"),
                       Entry(s, ".env.sample", "KAFKA_BROKERS")}

Drivers == {"grpc", "graphql", "kafka", "cron"}
Extensions == {"database", "redis", "secrets"}
DriverName == [grpc |-> "GrpcDriver", graphql |-> "ApolloDriver",
               kafka |-> "KafkaDriver", cron |-> "CronDriver"]

DriverOffered(g, s) == IsServer(s) /\ ~HasDriver(s, DriverName[g])
DatabaseOffered(s) == IsServer(s) /\ ~HasPrisma(s)
RedisOffered(s) == IsServer(s) /\ ~Has(s, "redis.yaml", "file")
SecretsOffered(s) == IsServer(s) /\ ~Has(s, "serviceaccount.yaml", "file")
Offered(g, s) ==
  CASE g \in Drivers -> DriverOffered(g, s)
    [] g = "database" -> DatabaseOffered(s)
    [] g = "redis" -> RedisOffered(s)
    [] g = "secrets" -> SecretsOffered(s)

(* the files plop's own `add` creates *)
Added == {"prisma.config.ts", "schema.prisma", "usecases/", "repositories/",
          "interceptors/", "routers/"}

(* actions that claim a port: the variable and the first port *)
PortVar == [appendGrpcPortEnv |-> "GRPC_PORT", appendGraphqlPortEnv |-> "GRAPHQL_PORT",
            appendDatabaseEnv |-> "DB_PORT"]
DefaultPort == [GRPC_PORT |-> 5001, GRAPHQL_PORT |-> 4001, DB_PORT |-> 5101]
FreePorts(a) ==
  IF a \in DOMAIN PortVar
  THEN LET default == DefaultPort[PortVar[a]]
       IN {p \in default .. (default + PortRange) :
             LowestFree(".env.sample", PortVar[a], default, p)}
  ELSE {0}

(* Mutant: with the port that is the lowest free one by now.  *)
WireHelmRecomputed(s, file, port, env) ==
  <<PortEntry(s, file, "Service", port + 1), WireContainerPort(s, port + 1),
    WireConfigMap(s, env), WireContainerPort(s, HealthPort)>> \o WirePrometheusJob(s)
(* a Service named after the server, the ports of its container, its job *)
WireHelm(s, file, port, env) ==
  <<PortEntry(s, file, "Service", port), WireContainerPort(s, port),
    WireConfigMap(s, env), WireContainerPort(s, HealthPort)>> \o WirePrometheusJob(s)

(* Mutant: the driver goes into app.ts first. *)
GrpcDriverFirst == <<"injectGrpcDriver", "addGrpcProtoFile", "addGrpcBufGenYaml",
                     "addGrpcPackageJson", "appendGrpcPortEnv", "wireGrpcHelm">>
GrpcActions == <<"addGrpcProtoFile", "addGrpcBufGenYaml", "addGrpcPackageJson",
                 "appendGrpcPortEnv", "injectGrpcDriver", "wireGrpcHelm">>
GrpcEdits(a, s, p) ==
  CASE a = "addGrpcProtoFile" -> <<Entry(s, "schema.proto", "file")>>
    [] a = "addGrpcBufGenYaml" -> <<Entry(s, "buf.gen.yaml", "file")>>
    [] a = "addGrpcPackageJson" -> <<MergePackageJson(s, "grpc")>>
    [] a = "appendGrpcPortEnv" -> AppendEnv(s, "GRPC_PORT", p)
    [] a = "injectGrpcDriver" -> <<InjectDriver(s, "GrpcDriver")>>
    [] a = "wireGrpcHelm" -> WireHelm(s, "grpc-env.yaml", PortOf(s, "GRPC_PORT"), "grpc-env")

GraphqlActions == <<"addGraphqlSchemaFile", "addGraphqlCodegenConfig",
                    "addGraphqlPackageJson", "appendGraphqlPortEnv", "injectGraphqlDriver",
                    "appendSupergraphSubgraph", "wireGraphqlHelm">>
AppendSupergraph(s) ==
  IF HasSupergraph
  THEN <<PortEntry(s, "supergraph.yaml", "subgraph", PortOf(s, "GRAPHQL_PORT"))>> ELSE <<>>
GraphqlEdits(a, s, p) ==
  CASE a = "addGraphqlSchemaFile" -> <<Entry(s, "schema.graphql", "file")>>
    [] a = "addGraphqlCodegenConfig" -> <<Entry(s, "codegen.ts", "file")>>
    [] a = "addGraphqlPackageJson" -> <<MergePackageJson(s, "graphql")>>
    [] a = "appendGraphqlPortEnv" -> AppendEnv(s, "GRAPHQL_PORT", p)
    [] a = "injectGraphqlDriver" -> <<InjectDriver(s, "ApolloDriver")>>
    [] a = "appendSupergraphSubgraph" -> AppendSupergraph(s)
    [] a = "wireGraphqlHelm" ->
         WireHelm(s, "graphql-env.yaml", PortOf(s, "GRAPHQL_PORT"), "graphql-env")

KafkaActions == <<"addKafkaPackageJson", "appendKafkaEnv", "injectKafkaDriver",
                  "wireKafkaHelm">>
KafkaEdits(a, s) ==
  CASE a = "addKafkaPackageJson" -> <<MergePackageJson(s, "kafka")>>
    [] a = "appendKafkaEnv" -> AppendEnv(s, "KAFKA_BROKERS", 0)
    [] a = "injectKafkaDriver" -> <<InjectDriver(s, "KafkaDriver")>>
    [] a = "wireKafkaHelm" -> <<Entry(s, "kafka-env.yaml", "file"), WireConfigMap(s, "kafka-env")>>

CronActions == <<"injectCronDriver">>
CronEdits(s) == <<InjectDriver(s, "CronDriver")>>

MergePrisma(s) == MergePackageJson(s, "prisma")
AppendDatabaseEnv(s, p) == AppendEnv(s, "DB_PORT", p)
InjectDatabase(s) == Entry(s, "app.ts", "database")
DockerfileEdits(s) == <<Entry(s, "Dockerfile", "migrate"), Entry(s, "Dockerfile", "prisma generate")>>
InfraNamespace(s) == Entry(s, "values.yaml", "infraNamespace")
(* skipped as a whole once the chart's directory exists *)
InfraChart(s) ==
  IF Has(s, "infra/helm", "dir") THEN <<>>
  ELSE <<Entry(s, "infra/helm", "dir"), Entry(s, "infra/helm", "Chart.yaml"),
         Entry(s, "infra/helm", "values.yaml"), Entry(s, "infra/helm", "db.yaml")>>
(* returns early, without its wait container, if env.yaml exists *)
DatabaseEnvYaml(s) ==
  IF Has(s, "env.yaml", "file") THEN <<>>
  ELSE <<Entry(s, "env.yaml", "file"), WireInitContainer(s, "env.yaml", "wait-for-db")>>
Grafana(s) == <<Entry(s, "grafana-datasources.yaml", "file"),
                Entry(s, "grafana-configmap.yaml", "datasource"),
                Entry(s, "grafana-statefulset.yaml", "mount")>>
DatabaseActions == <<"prisma.config.ts", "schema.prisma", "addPrismaPackageJson",
  "appendDatabaseEnv", "scaffoldDatabaseInfraChart", "injectDatabaseEnvYaml",
  "wireDatabaseHelmDeployment", "injectDatabaseDockerfile", "injectDatabaseIntoServerApp",
  "wireGrafanaDatasource">>
DatabaseEdits(a, s, p) ==
  CASE a \in {"prisma.config.ts", "schema.prisma"} -> <<Entry(s, a, "file")>>
    [] a = "addPrismaPackageJson" -> <<MergePrisma(s)>>
    [] a = "appendDatabaseEnv" -> AppendDatabaseEnv(s, p)
    [] a = "scaffoldDatabaseInfraChart" -> InfraChart(s) \o <<InfraNamespace(s)>>
    [] a = "injectDatabaseEnvYaml" -> DatabaseEnvYaml(s)
    [] a = "wireDatabaseHelmDeployment" ->
         <<WireConfigMap(s, "env"), WireConfigMap(s, "secret"),
           WireInitContainer(s, "deployment.yaml", "wait-for-db")>>
    [] a = "injectDatabaseDockerfile" -> DockerfileEdits(s)
    [] a = "injectDatabaseIntoServerApp" -> <<InjectDatabase(s)>>
    [] a = "wireGrafanaDatasource" -> Grafana(s)

InjectPlugin(s, plugin) == Entry(s, "app.ts", plugin)
RedisActions == <<"injectRedisHelm", "wireRedisHelmDeployment", "injectRedisIntoServerApp">>
RedisEdits(a, s) ==
  CASE a = "injectRedisHelm" -> <<Entry(s, "redis.yaml", "file")>>
    [] a = "wireRedisHelmDeployment" ->
         <<WireConfigMap(s, "redis-secret"),
           WireInitContainer(s, "deployment.yaml", "wait-for-redis")>>
    [] a = "injectRedisIntoServerApp" -> <<InjectPlugin(s, "RedisPlugin")>>

SecretsActions == <<"injectSecretsServiceAccount", "injectSecretsEnvConfigMap",
                    "injectOpenBaoIntoServerApp">>
SecretsEdits(a, s) ==
  CASE a = "injectSecretsServiceAccount" ->
         IF Has(s, "serviceaccount.yaml", "file") THEN <<>>
         ELSE <<Entry(s, "serviceaccount.yaml", "file"),
                WireConfigMap(s, "serviceAccountName")>>
    [] a = "injectSecretsEnvConfigMap" ->
         IF Has(s, "openbao-env.yaml", "file") THEN <<>>
         ELSE <<Entry(s, "openbao-env.yaml", "file"), WireConfigMap(s, "openbao-env")>>
    [] a = "injectOpenBaoIntoServerApp" -> <<InjectPlugin(s, "OpenBaoPlugin")>>

ActionsOf(g) ==
  CASE g = "grpc" -> GrpcActions
    [] g = "graphql" -> GraphqlActions
    [] g = "kafka" -> KafkaActions
    [] g = "cron" -> CronActions
    [] g = "database" -> DatabaseActions
    [] g = "redis" -> RedisActions
    [] g = "secrets" -> SecretsActions
Edits(g, a, s, p) ==
  CASE g = "grpc" -> GrpcEdits(a, s, p)
    [] g = "graphql" -> GraphqlEdits(a, s, p)
    [] g = "kafka" -> KafkaEdits(a, s)
    [] g = "cron" -> CronEdits(s)
    [] g = "database" -> DatabaseEdits(a, s, p)
    [] g = "redis" -> RedisEdits(a, s)
    [] g = "secrets" -> SecretsEdits(a, s)

(* usecase, repository, interceptor and router: the file, then its barrel *)
CodeFolders == {"usecases/", "repositories/", "interceptors/", "routers/"}
CodeOffered(folder, s) == IF folder = "repositories/" THEN HasPrisma(s) ELSE IsServer(s)
AppendBarrel(folder, s, name) == EntryAt(s, folder, "barrel", name, 0, "none")
CodeEdits(folder, s, name) == <<Entry(s, folder, name), AppendBarrel(folder, s, name)>>
=============================================================================
