-------------------------- MODULE GeneratorsProofs --------------------------
(* Theorems about Generators, for any servers, frontends, modules and names,  *)
(* any number of runs and any of them stopped.                               *)
EXTENDS Generators, FiniteSetTheorems, SequenceTheorems, TLAPS

-----------------------------------------------------------------------------
(* The inductive invariant *)

Pending == Range(writes)
Begun(a) == a \notin Range(todo)
StoppedOn(s) == \E r \in stopped : r.of = s

(* A run of a server's generator has a tail of its action list left to do;    *)
(* the other generators make all their edits at once.                        *)
InTurn ==
  /\ IsIdle => todo = <<>> /\ writes = <<>>
  /\ run.gen \in ServerSide =>
       /\ Len(todo) <= Len(ActionsOf(run.gen))
       /\ \A i \in DOMAIN todo :
            todo[i] = ActionsOf(run.gen)[Len(ActionsOf(run.gen)) - Len(todo) + i]
  /\ run.gen \notin ServerSide => todo = <<>>
  /\ run.gen \in ServerSide => IsServer(run.of)

(* What an action has put in place when its last edit is made, whatever of    *)
(* it was there before.                                                      *)
Chart(s, file, env) ==
  {Entry(s, file, "Service"), WireConfigMap(s, env),
   PortEntry(s, "deployment.yaml", "containerPort", HealthPort),
   Entry(s, "config/prometheus.yml", "health"), Entry(s, "files/prometheus.yml", "health")}
Leaves(a, s) ==
  CASE a = "addGrpcPackageJson" -> {MergePackageJson(s, "grpc")}
    [] a = "appendGrpcPortEnv" -> {Entry(s, ".env.sample", "GRPC_PORT")}
    [] a = "injectGrpcDriver" -> {InjectDriver(s, "GrpcDriver")}
    [] a = "wireGrpcHelm" -> Chart(s, "grpc-env.yaml", "grpc-env")
    [] a = "addGraphqlCodegenConfig" -> {Entry(s, "codegen.ts", "file")}
    [] a = "addGraphqlPackageJson" -> {MergePackageJson(s, "graphql")}
    [] a = "appendGraphqlPortEnv" -> {Entry(s, ".env.sample", "GRAPHQL_PORT")}
    [] a = "injectGraphqlDriver" -> {InjectDriver(s, "ApolloDriver")}
    [] a = "appendSupergraphSubgraph" ->
         IF HasSupergraph THEN {Entry(s, "supergraph.yaml", "subgraph")} ELSE {}
    [] a = "wireGraphqlHelm" -> Chart(s, "graphql-env.yaml", "graphql-env")
    [] a = "addKafkaPackageJson" -> {MergePackageJson(s, "kafka")}
    [] a = "appendKafkaEnv" -> {Entry(s, ".env.sample", "KAFKA_BROKERS")}
    [] a = "injectKafkaDriver" -> {InjectDriver(s, "KafkaDriver")}
    [] a = "wireKafkaHelm" -> {WireConfigMap(s, "kafka-env")}
    [] a = "injectCronDriver" -> {InjectDriver(s, "CronDriver")}
    [] a \in {"prisma.config.ts", "schema.prisma"} -> {Entry(s, a, "file")}
    [] a = "addPrismaPackageJson" -> {MergePrisma(s)}
    [] a = "appendDatabaseEnv" -> {Entry(s, ".env.sample", "DB_PORT")}
    [] a = "scaffoldDatabaseInfraChart" -> {Entry(s, "infra/helm", "db.yaml")}
    [] a = "injectDatabaseEnvYaml" -> {Entry(s, "env.yaml", "wait-for-db")}
    [] a = "wireDatabaseHelmDeployment" ->
         {WireConfigMap(s, "secret"), Entry(s, "deployment.yaml", "wait-for-db")}
    [] a = "injectDatabaseDockerfile" -> {Entry(s, "Dockerfile", "prisma generate")}
    [] a = "injectDatabaseIntoServerApp" -> {InjectDatabase(s)}
    [] a = "wireGrafanaDatasource" -> {Entry(s, "grafana-configmap.yaml", "datasource"),
                                       Entry(s, "grafana-statefulset.yaml", "mount")}
    [] a = "injectRedisHelm" -> {Entry(s, "redis.yaml", "file")}
    [] a = "wireRedisHelmDeployment" ->
         {WireConfigMap(s, "redis-secret"), Entry(s, "deployment.yaml", "wait-for-redis")}
    [] a = "injectRedisIntoServerApp" -> {InjectPlugin(s, "RedisPlugin")}
    [] a = "injectSecretsServiceAccount" ->
         {Entry(s, "serviceaccount.yaml", "file"), WireConfigMap(s, "serviceAccountName")}
    [] a = "injectSecretsEnvConfigMap" -> {WireConfigMap(s, "openbao-env")}
    [] a = "injectOpenBaoIntoServerApp" -> {InjectPlugin(s, "OpenBaoPlugin")}
    [] OTHER -> {}
Settled(w) == Present(w) \/ \E x \in Pending : Finds(x, w)
BegunIsSettled ==
  run.gen \in ServerSide =>
    \A a \in Range(ActionsOf(run.gen)) : Begun(a) => \A w \in Leaves(a, run.of) : Settled(w)

(* The port that a driver's variable has is among them.                       *)
PortVarOf == [grpc |-> "GRPC_PORT", graphql |-> "GRAPHQL_PORT"]
WiresHelm == [grpc |-> "wireGrpcHelm", graphql |-> "wireGraphqlHelm"]
OwnPort(s, p) == PortEntry(s, "deployment.yaml", "containerPort", p)
OwnPortIsSettled ==
  \A g \in {"grpc", "graphql"} :
    run.gen = g /\ Begun(WiresHelm[g]) =>
      \E p \in Nat : Says(run.of, PortVarOf[g], p) /\ Settled(OwnPort(run.of, p))

(* The ports of a server, made or pending, are of one container.              *)
IsContainerPort(e) == e.file = "deployment.yaml" /\ e.key = "containerPort"
OneContainer ==
  \A e \in repo \cup Pending : IsContainerPort(e) =>
    /\ e.to = "app" \/ HasInitContainer(e.of)
    /\ \A f \in repo \cup Pending : IsContainerPort(f) /\ f.of = e.of => f.to = e.to

(* What app.ts uses was there before app.ts is written.                       *)
Backing(driver, s) ==
  CASE driver = "GrpcDriver" ->
         {MergePackageJson(s, "grpc"), Entry(s, ".env.sample", "GRPC_PORT")}
    [] driver = "ApolloDriver" ->
         {MergePackageJson(s, "graphql"), Entry(s, ".env.sample", "GRAPHQL_PORT")}
    [] driver = "KafkaDriver" ->
         {MergePackageJson(s, "kafka"), Entry(s, ".env.sample", "KAFKA_BROKERS")}
    [] driver = "database" ->
         {Entry(s, "package.json", "server"), Entry(s, "schema.prisma", "file"), MergePrisma(s),
          Entry(s, ".env.sample", "DB_PORT"), Entry(s, "Dockerfile", "prisma generate"),
          WireConfigMap(s, "secret")}
    [] driver = "RedisPlugin" -> {Entry(s, "redis.yaml", "file"), WireConfigMap(s, "redis-secret")}
    [] driver = "OpenBaoPlugin" ->
         {Entry(s, "serviceaccount.yaml", "file"), WireConfigMap(s, "openbao-env")}
    [] OTHER -> {}
Backed(e) == e.file = "app.ts" => \A w \in Backing(e.key, e.of) : Present(w)

(* The edits that are skipped where their file exists come after the file by  *)
(* which a later run is kept from them.                                      *)
OfDatabase(e) ==
  \/ e.file \in {"infra/helm", "env.yaml"}
  \/ e.file = ".env.sample" /\ e.key = "DB_PORT"
Marked(e) ==
  /\ OfDatabase(e) => Has(e.of, "prisma.config.ts", "file")
  /\ e.file = "openbao-env.yaml" => Has(e.of, "serviceaccount.yaml", "file")

(* What other files say of a server's ports, its .env.sample has said.        *)
Said(e) ==
  /\ e.file = "grpc-env.yaml" => Says(e.of, "GRPC_PORT", e.port)
  /\ e.file \in {"graphql-env.yaml", "supergraph.yaml"} => Says(e.of, "GRAPHQL_PORT", e.port)
  /\ e.file = "deployment.yaml" /\ e.key = "containerPort" /\ e.port # HealthPort =>
       \E var \in {"GRPC_PORT", "GRAPHQL_PORT"} : Says(e.of, var, e.port)

(* What holds of an entry, made or pending, from when its edit is worked out. *)
Grounded(e) == Backed(e) /\ Marked(e) /\ Said(e)
AllGrounded == \A e \in repo \cup Pending : Grounded(e)

(* The action by which a run makes an edit that others must not make.         *)
Appends == [grpc |-> "appendGrpcPortEnv", graphql |-> "appendGraphqlPortEnv"]
Injects == [grpc |-> "injectGrpcDriver", graphql |-> "injectGraphqlDriver"]
By(g, a) == run.gen = g /\ Begun(a)
Owned(w) ==
  /\ w.file = "infra/helm" => By("database", "scaffoldDatabaseInfraChart")
  /\ w.file = "env.yaml" => By("database", "injectDatabaseEnvYaml")
  /\ w.file = ".env.sample" /\ w.key = "DB_PORT" => By("database", "appendDatabaseEnv")
  /\ w.file = "prisma.config.ts" => w.key = "file"
  /\ w.file = "serviceaccount.yaml" => By("secrets", "injectSecretsServiceAccount")
  /\ w.file = "openbao-env.yaml" => By("secrets", "injectSecretsEnvConfigMap")
  /\ \A g \in {"grpc", "graphql"} :
       /\ w.file = "app.ts" /\ w.key = DriverName[g] => By(g, Injects[g])
       /\ w.file = ".env.sample" /\ w.key = PortVarOf[g] => By(g, Appends[g])
  /\ w.file \in Added => run.gen \in {"database", "code"}
AllOwned == \A w \in Pending : Owned(w)

(* The first run of the database generator that gets past prisma.config.ts,   *)
(* and of the secrets generator past the service account, is the only one:    *)
(* it finds nothing of what it would skip.                                   *)
AloneInDatabase ==
  /\ run.gen = "database" /\ Begun("prisma.config.ts")
  /\ \A w \in Pending : w.file # "prisma.config.ts"
  => \A e \in repo : e.of = run.of =>
       /\ e.file = ".env.sample" /\ e.key = "DB_PORT" => Begun("appendDatabaseEnv")
       /\ e.file = "infra/helm" => Begun("scaffoldDatabaseInfraChart")
       /\ e.file = "env.yaml" => Begun("injectDatabaseEnvYaml")
AloneInSecrets ==
  run.gen = "secrets" => \A e \in repo : e.of = run.of =>
    /\ e.file = "serviceaccount.yaml" /\ e.key = "file" => Begun("injectSecretsServiceAccount")
    /\ e.file = "openbao-env.yaml" => Begun("injectSecretsEnvConfigMap")

(* A server with a port but without the driver is one that a run was stopped  *)
(* on, or that a run is about to give the driver.                            *)
PortsComeWithDrivers ==
  \A g \in {"grpc", "graphql"} :
    /\ \A s \in Workspaces : Has(s, ".env.sample", PortVarOf[g]) =>
         \/ HasDriver(s, DriverName[g]) \/ StoppedOn(s)
         \/ run.of = s /\ By(g, Appends[g])
    /\ run.gen = g /\ ~Begun(Injects[g]) => ~HasDriver(run.of, DriverName[g])

SampleIsDefinite ==
  \A e, f \in repo : e.file = ".env.sample" /\ f.file = ".env.sample"
                     /\ e.of = f.of /\ e.key = f.key => e.port = f.port
EnvFollows ==
  \A e \in repo : e.file = ".env" /\ e.port # 0 => StoppedOn(e.of) \/ Says(e.of, e.key, e.port)

(* In the edits `ws` the one that claims a port is the first, and .env is     *)
(* given what .env.sample is.                                                *)
ClaimsAreFree(ws) ==
  \A i \in DOMAIN ws : ws[i].file \in ClaimingFiles =>
    /\ i = 1
    /\ ws[i].port # 0 => ws[i].port \notin Claimed(ws[i].file, ws[i].key)
EnvInStep(ws) ==
  \A i \in DOMAIN ws : ws[i].file = ".env" /\ ws[i].port # 0 =>
    \/ StoppedOn(ws[i].of)
    \/ Says(ws[i].of, ws[i].key, ws[i].port)
    \/ /\ i = 2 /\ ws[1].file = ".env.sample" /\ ws[1].of = ws[2].of
       /\ ws[1].key = ws[2].key /\ ws[1].port = ws[2].port /\ ~Present(ws[1])

(* What an edit refers to is there, or one of the edits before it.            *)
Led(e, there) ==
  /\ e.file = "route" =>
       \E f \in there : f.of = e.of /\ f.file = "src/pages" /\ f.key = e.key /\ f.to = e.to
  /\ e.file = "src/pages" =>
       \E f \in there : f.of = e.of /\ f.mod = e.mod /\ f.file = "pages" /\ f.key = e.to
  /\ e.file = "index.ts" /\ e.key # "file" =>
       /\ e.to \in InBarrels
       /\ \E f \in there : f.of = e.of /\ f.mod = e.mod /\ f.file = e.to /\ f.key = e.key
  /\ e.file = "barrel" =>
       /\ e.mod \in CodeFolders
       /\ \E f \in there : f.of = e.of /\ f.file = e.mod /\ f.key = e.key
  /\ e.file = "grafana-statefulset.yaml" =>
       \E f \in there : /\ f.file = "grafana-configmap.yaml" /\ f.key = "datasource"
                        /\ NamesApart(e.of) => f.of = e.of
AllLed == \A e \in repo : Led(e, repo)
LedInOrder(ws) ==
  \A i \in DOMAIN ws :
    /\ Led(ws[i], repo \cup {ws[j] : j \in 1 .. (i - 1)})
    /\ ws[i].file = "src/pages" =>
         ~Present(ws[i]) /\ \A j \in DOMAIN ws : ws[j].file = "src/pages" => j = i

(* What is not reached will be by an edit that follows.                       *)
Reaches(w, e) ==
  /\ w.of = e.of /\ w.key = e.key
  /\ \/ e.file \in CodeFolders /\ w.file = "barrel" /\ w.mod = e.file
     \/ e.file \in InBarrels /\ w.file = "index.ts" /\ w.mod = e.mod /\ w.to = e.file
     \/ e.file = "src/pages" /\ w.file = "route"
Routed(e) ==
  Has(e.of, "router.tsx", "file") /\ e.key \notin TemplateUrls => Has(e.of, "route", e.key)
ReachedInOrder(ws) ==
  \A i \in DOMAIN ws :
    /\ ws[i].file \in CodeFolders \cup InBarrels \cup {"src/pages"} =>
         \/ ws[i].file = "src/pages" /\ Routed(ws[i])
         \/ \E j \in DOMAIN ws : j > i /\ Reaches(ws[j], ws[i])
    /\ ws[i].file = "router.tsx" =>
         \A e \in repo \cup Range(ws) : e.of = ws[i].of => e.file # "src/pages"
    /\ ws[i].file \in Added => i = 1
WillBeReached ==
  \A e \in Unreached :
    \/ StoppedOn(e.of)
    \/ (\E w \in Pending : Reaches(w, e)) /\ \A w \in Pending : w.file \notin Added

IInv ==
  /\ TypeOK /\ InTurn /\ BegunIsSettled /\ OwnPortIsSettled /\ OneContainer
  /\ AllGrounded /\ AllOwned
  /\ AloneInDatabase /\ AloneInSecrets /\ PortsComeWithDrivers
  /\ PortsAreDistinct /\ SampleIsDefinite /\ EnvFollows
  /\ ClaimsAreFree(writes) /\ EnvInStep(writes)
  /\ AllLed /\ LedInOrder(writes) /\ ReachedInOrder(writes)
  /\ WillBeReached /\ DoneMeansWired

-----------------------------------------------------------------------------
(* The operators *)

USE GeneratorsAssumption DEF GeneratorsAssumption

(* A sequence is one of its own elements. *)
LEMMA IsSequence == ASSUME NEW S, NEW s \in Seq(S) PROVE s \in Seq(Range(s))
BY DEF Range

(* What finds an entry that finds a third finds the third.                    *)
LEMMA FindsChain ==
  ASSUME NEW e, NEW x, NEW w, Finds(e, x), Finds(x, w)
  PROVE  Finds(e, w)
BY DEF Finds

LEMMA FindsItself == ASSUME NEW e PROVE Finds(e, e)
BY DEF Finds

(* The repository only grows, and what is said of it by its having an entry   *)
(* stays so.                                                                 *)
LEMMA HasStays ==
  ASSUME repo \subseteq repo', NEW s, NEW file, NEW key, Has(s, file, key)
  PROVE  Has(s, file, key)'
BY DEF Has

LEMMA PresentStays ==
  ASSUME repo \subseteq repo', NEW w, Present(w)
  PROVE  Present(w)'
BY DEF Present, Finds

LEMMA PresentIsHas ==
  ASSUME NEW w, w.file # "grafana-configmap.yaml", Present(w)
  PROVE  Has(w.of, w.file, w.key)
BY DEF Has, Present, Finds

(* The key found for a server whose name is like no other is its own.         *)
LEMMA FoundApart ==
  ASSUME NEW e, NEW w, Finds(e, w), e.of \in Workspaces, NamesApart(w.of)
  PROVE  e.of = w.of
BY DEF Finds, NamesApart

LEMMA SaysStays ==
  ASSUME repo \subseteq repo', NEW s, NEW var, NEW p, Says(s, var, p)
  PROVE  Says(s, var, p)'
BY DEF Says

LEMMA GroundedStays ==
  ASSUME repo \subseteq repo', NEW e, Grounded(e)
  PROVE  Grounded(e)'
<1>1. Backed(e)'
  <2> SUFFICES ASSUME e.file = "app.ts", NEW w \in Backing(e.key, e.of)
               PROVE  Present(w)'
    BY DEF Backed, Backing, MergePackageJson, MergePrisma, WireConfigMap
  <2> QED BY PresentStays DEF Grounded, Backed
<1>2. Marked(e)'
  BY HasStays DEF Grounded, Marked, OfDatabase
<1>3. Said(e)'
  BY SaysStays DEF Grounded, Said, HealthPort
<1> QED BY <1>1, <1>2, <1>3 DEF Grounded

LEMMA LedStays ==
  ASSUME NEW e, NEW S, NEW T, S \subseteq T, Led(e, S)
  PROVE  Led(e, T)
BY DEF Led

LEMMA LedIsNotDangling == AllLed => NothingDangles
BY DEF AllLed, NothingDangles, Led, Has, HasFile, NamesApart

LEMMA ContainerStays ==
  ASSUME repo \subseteq repo', NEW s, HasInitContainer(s)
  PROVE  HasInitContainer(s)'
BY DEF HasInitContainer

LEMMA WiredStays ==
  ASSUME repo \subseteq repo', NEW g \in ServerSide, NEW s, Wired(g, s)
  PROVE  Wired(g, s)'
<1> USE HasStays DEF Wired, HasDriver
<1>1. ASSUME NEW file, NEW env, NEW var, Charted(s, file, env, var)
      PROVE  Charted(s, file, env, var)'
  BY <1>1, SaysStays, ContainerStays DEF Charted, ContainerPorts, HealthPort
<1>2. CASE g = "grpc"
  BY <1>1, <1>2
<1>3. CASE g = "graphql"
  BY <1>1, <1>3
<1>4. CASE g = "kafka"
  BY <1>4
<1>5. CASE g = "cron"
  BY <1>5
<1>6. CASE g = "database"
  BY <1>6 DEF NamesApart
<1>7. CASE g = "redis"
  BY <1>7
<1>8. CASE g = "secrets"
  BY <1>8
<1> QED BY <1>2, <1>3, <1>4, <1>5, <1>6, <1>7, <1>8 DEF ServerSide, Drivers, Extensions

-----------------------------------------------------------------------------
(* One write *)

(* The head of the edits is in the repository, in its own words or in those   *)
(* it was found in; the others have moved up.                                *)
LEMMA WriteFacts ==
  ASSUME TypeOK, Write
  PROVE  /\ writes # <<>> /\ 1 \in DOMAIN writes /\ DOMAIN writes \subseteq Nat
         /\ writes[1].file \in Added => ~Present(writes[1])
         /\ repo \subseteq repo' /\ repo' \subseteq repo \cup {writes[1]}
         /\ \E e \in repo' : Finds(e, writes[1])
         /\ Present(writes[1]) => repo' = repo
         /\ ~Present(writes[1]) => writes[1] \in repo'
         /\ writes' \in Seq(Range(writes))
         /\ \A i \in DOMAIN writes' : i + 1 \in DOMAIN writes /\ writes'[i] = writes[i + 1]
         /\ \A i \in DOMAIN writes : i # 1 => i - 1 \in DOMAIN writes' /\ writes'[i - 1] = writes[i]
<1>1. writes # <<>> /\ writes' = Tail(writes) /\ Head(writes) = writes[1]
  BY DEF Write
<1>2. writes \in Seq(Range(writes))
  BY DEF TypeOK
<1>3. 1 \in DOMAIN writes /\ DOMAIN writes = 1 .. Len(writes)
  BY <1>1, <1>2
<1>4. writes' \in Seq(Range(writes)) /\ Len(writes') = Len(writes) - 1
  BY <1>1, <1>2
<1>5. \A i \in DOMAIN writes' : i + 1 \in DOMAIN writes /\ writes'[i] = writes[i + 1]
  BY <1>1, <1>2, <1>4
<1>6. \A i \in DOMAIN writes : i # 1 => i - 1 \in DOMAIN writes' /\ writes'[i - 1] = writes[i]
  BY <1>1, <1>2, <1>4
<1>7. \E e \in repo' : Finds(e, writes[1])
  BY <1>1, FindsItself DEF Write, Present
<1> QED
  BY <1>1, <1>3, <1>4, <1>5, <1>6, <1>7 DEF Write, Refused

LEMMA WritePending ==
  ASSUME TypeOK, Write
  PROVE  /\ writes[1] \in Pending /\ Pending' \subseteq Pending
         /\ Pending \subseteq Pending' \cup {writes[1]}
         /\ repo' \cup Pending' \subseteq repo \cup Pending
<1>1. Pending' \subseteq Pending /\ writes[1] \in Pending
  BY WriteFacts DEF Pending, Range
<1>2. ASSUME NEW i \in DOMAIN writes, i # 1
      PROVE  writes[i] \in Pending'
  BY <1>2, WriteFacts DEF Pending, Range
<1> QED BY <1>1, <1>2, WriteFacts DEF Pending, Range

LEMMA WriteType == ASSUME TypeOK, Write PROVE TypeOK'
<1>1. UNCHANGED <<side, run, todo, runs, done, stopped>>
  BY DEF Write
<1>2. \A w \in repo' \cup Range(writes') : IsEntry(w)
  BY WritePending DEF Pending, TypeOK
<1>3. \A w \in Range(writes') : w.of = run.of
  BY WritePending DEF Pending, TypeOK
<1>4. writes' \in Seq(Range(writes'))
  BY WriteFacts, IsSequence
<1> QED
  BY <1>1, <1>2, <1>3, <1>4 DEF TypeOK, IsIdle, IsEntry

LEMMA SettledStays ==
  ASSUME TypeOK, Write, NEW w, Settled(w)
  PROVE  Settled(w)'
<1>3. CASE Present(w)
  BY <1>3, PresentStays, WriteFacts DEF Settled
<1>4. CASE \E x \in Pending : Finds(x, w)
  <2> PICK x \in Pending : Finds(x, w)
    BY <1>4
  <2>1. CASE x = writes[1]
    <3> PICK e \in repo' : Finds(e, writes[1])
      BY WriteFacts
    <3>1. Finds(e, w)
      BY <2>1, FindsChain
    <3> QED BY <3>1 DEF Settled, Present, Finds
  <2>2. CASE x \in Pending'
    BY <2>2 DEF Settled, Finds
  <2> QED BY <2>1, <2>2, WritePending
<1> QED BY <1>3, <1>4 DEF Settled

LEMMA WriteSettles == ASSUME IInv, Write PROVE BegunIsSettled' /\ OwnPortIsSettled'
<1> USE DEF IInv
<1>1. UNCHANGED <<run, todo>>
  BY DEF Write
<1>2. BegunIsSettled'
  <2> SUFFICES ASSUME run.gen \in ServerSide, NEW a \in Range(ActionsOf(run.gen)), Begun(a),
                      NEW w \in Leaves(a, run.of)
               PROVE  Settled(w)'
    BY <1>1, Zenon DEF BegunIsSettled, Begun
  <2> QED BY SettledStays DEF BegunIsSettled
<1>3. OwnPortIsSettled'
  <2> SUFFICES ASSUME NEW g \in {"grpc", "graphql"}, run.gen = g, Begun(WiresHelm[g])
               PROVE  \E p \in Nat : Says(run.of, PortVarOf[g], p)' /\ Settled(OwnPort(run.of, p))'
    BY <1>1 DEF OwnPortIsSettled, Begun, OwnPort
  <2> PICK p \in Nat : Says(run.of, PortVarOf[g], p) /\ Settled(OwnPort(run.of, p))
    BY DEF OwnPortIsSettled
  <2>1. Settled(OwnPort(run.of, p))'
    <3> PICK w : w = OwnPort(run.of, p)
      OBVIOUS
    <3>1. Settled(w)'
      BY SettledStays
    <3> QED BY <3>1, <1>1 DEF OwnPort, Settled
  <2>2. Says(run.of, PortVarOf[g], p)'
    BY <1>1, WriteFacts DEF Says
  <2> QED BY <2>1, <2>2
<1> QED BY <1>2, <1>3

LEMMA WriteContains == ASSUME IInv, Write PROVE OneContainer'
<1>1. repo' \cup Pending' \subseteq repo \cup Pending
  BY WritePending, WriteFacts DEF IInv
<1>2. \A s : HasInitContainer(s) => HasInitContainer(s)'
  BY ContainerStays, WriteFacts DEF IInv
<1>3. OneContainer
  BY DEF IInv
<1> QED BY <1>1, <1>2, <1>3 DEF OneContainer

LEMMA WriteGrounds == ASSUME IInv, Write PROVE AllGrounded'
<1> USE DEF IInv
<1> SUFFICES ASSUME NEW e \in repo' \cup Pending' PROVE Grounded(e)'
  BY DEF AllGrounded
<1>1. Grounded(e)
  BY WritePending DEF AllGrounded
<1> QED BY <1>1, GroundedStays, WriteFacts

LEMMA WriteOwned == ASSUME IInv, Write PROVE AllOwned'
<1>1. \A w \in Pending' : Owned(w)
  BY WritePending DEF IInv, AllOwned
<1>2. UNCHANGED <<run, todo>>
  BY DEF Write
<1> QED BY <1>1, <1>2 DEF AllOwned, Owned, By, Begun

LEMMA HeadIsOwned ==
  ASSUME IInv, Write
  PROVE  /\ Owned(writes[1]) /\ writes[1].of = run.of
         /\ \A e \in repo' : e \in repo \/ e = writes[1]
<1>1. TypeOK /\ AllOwned
  BY DEF IInv
<1>2. Owned(writes[1])
  BY <1>1, WritePending DEF AllOwned
<1> QED BY <1>1, <1>2, WriteFacts DEF TypeOK

(* prisma.config.ts and serviceaccount.yaml: a run that writes the first      *)
(* finds nothing of what comes after it, and the later runs are refused or    *)
(* not offered.                                                              *)
LEMMA WriteAloneInDatabase == ASSUME IInv, Write PROVE AloneInDatabase'
<1> USE DEF IInv
<1>1. UNCHANGED <<run, todo>>
  BY DEF Write
<1> SUFFICES ASSUME run.gen = "database", Begun("prisma.config.ts"),
                    \A w \in Pending' : w.file # "prisma.config.ts",
                    NEW e \in repo', e.of = run.of
             PROVE  /\ e.file = ".env.sample" /\ e.key = "DB_PORT" => Begun("appendDatabaseEnv")
                    /\ e.file = "infra/helm" => Begun("scaffoldDatabaseInfraChart")
                    /\ e.file = "env.yaml" => Begun("injectDatabaseEnvYaml")
  BY <1>1 DEF AloneInDatabase, Begun
<1>2. CASE e = writes[1]
  BY <1>2, WritePending DEF AllOwned, Owned, By
<1>3. CASE e \in repo /\ writes[1].file # "prisma.config.ts"
  <2>1. \A w \in Pending : w.file # "prisma.config.ts"
    BY <1>3, WritePending
  <2> QED BY <1>3, <2>1 DEF AloneInDatabase
<1>4. CASE e \in repo /\ writes[1].file = "prisma.config.ts"
  <2>1. writes[1].of = run.of /\ writes[1].key = "file"
    BY HeadIsOwned, <1>4 DEF Owned
  <2>2. ~Has(run.of, "prisma.config.ts", "file")
    BY <2>1, <1>4, WriteFacts DEF Added, Has, Present, Finds, PerModule
  <2>3. ~OfDatabase(e)
    BY <2>2, <1>4 DEF AllGrounded, Grounded, Marked
  <2> QED BY <2>3 DEF OfDatabase
<1> QED BY <1>2, <1>3, <1>4, WriteFacts

LEMMA WriteAloneInSecrets == ASSUME IInv, Write PROVE AloneInSecrets'
<1>1. UNCHANGED <<run, todo>>
  BY DEF Write
<1> SUFFICES ASSUME run.gen = "secrets", NEW e \in repo', e.of = run.of
             PROVE  /\ e.file = "serviceaccount.yaml" /\ e.key = "file" =>
                         Begun("injectSecretsServiceAccount")
                    /\ e.file = "openbao-env.yaml" => Begun("injectSecretsEnvConfigMap")
  BY <1>1 DEF AloneInSecrets, Begun
<1>2. CASE e \in repo
  BY <1>2 DEF IInv, AloneInSecrets
<1>3. CASE e = writes[1]
  BY <1>3, HeadIsOwned DEF Owned, By
<1> QED BY <1>2, <1>3, HeadIsOwned

LEMMA WriteComesWithDrivers == ASSUME IInv, Write PROVE PortsComeWithDrivers'
<1>1. UNCHANGED <<run, todo, stopped>>
  BY DEF Write
<1>3. ASSUME NEW g \in {"grpc", "graphql"}, NEW s \in Workspaces, Has(s, ".env.sample", PortVarOf[g])'
      PROVE  (HasDriver(s, DriverName[g]) \/ StoppedOn(s) \/ (run.of = s /\ By(g, Appends[g])))'
  <2> USE DEF IInv
  <2>1. CASE Has(s, ".env.sample", PortVarOf[g])
    <3>1. HasDriver(s, DriverName[g]) \/ StoppedOn(s) \/ (run.of = s /\ By(g, Appends[g]))
      BY <2>1 DEF PortsComeWithDrivers, Has, HasDriver, StoppedOn, By
    <3> QED BY <3>1, <1>1, HasStays, WriteFacts DEF HasDriver, StoppedOn, By, Begun
  <2>2. CASE ~Has(s, ".env.sample", PortVarOf[g])
    <3>1. run.of = s /\ By(g, Appends[g])
      BY HeadIsOwned, <1>3, <2>2 DEF Has, Owned
    <3> QED BY <3>1, <1>1 DEF By, Begun
  <2> QED BY <2>1, <2>2
<1>4. ASSUME NEW g \in {"grpc", "graphql"}, run'.gen = g, ~Begun(Injects[g])'
      PROVE  ~HasDriver(run.of, DriverName[g])'
  BY HeadIsOwned, <1>1, <1>4 DEF IInv, PortsComeWithDrivers, HasDriver, Has, Owned, By, Begun
<1> QED BY <1>1, <1>3, <1>4 DEF PortsComeWithDrivers

(* Ports *)

LEMMA WriteDistinct == ASSUME IInv, Write PROVE PortsAreDistinct'
<1> USE DEF IInv
<1> SUFFICES ASSUME NEW e \in Claims', NEW f \in Claims', e.file = f.file, e.key = f.key, e.of # f.of
             PROVE  e.port # f.port
  BY DEF PortsAreDistinct
<1>1. ASSUME NEW x \in repo', NEW y \in repo, x \in Claims', y.file = x.file, y.key = x.key,
             x = writes[1]
      PROVE  x.port # y.port
  <2>1. writes[1].port \notin Claimed(writes[1].file, writes[1].key)
    BY <1>1, WriteFacts DEF ClaimsAreFree, Claims
  <2> QED BY <1>1, <2>1 DEF Claimed
<1>2. e \in repo' /\ f \in repo' /\ (e \in repo => e \in Claims) /\ (f \in repo => f \in Claims)
  BY DEF Claims
<1> QED BY <1>1, <1>2, WriteFacts DEF PortsAreDistinct

LEMMA WriteDefinite == ASSUME IInv, Write PROVE SampleIsDefinite'
<1> SUFFICES ASSUME NEW e \in repo', NEW f \in repo', e.file = ".env.sample", f.file = ".env.sample",
                    e.of = f.of, e.key = f.key
             PROVE  e.port = f.port
  BY DEF SampleIsDefinite
<1>1. CASE Present(writes[1])
  BY <1>1, WriteFacts DEF IInv, SampleIsDefinite
<1>2. CASE ~Present(writes[1])
  BY <1>2, WriteFacts DEF IInv, SampleIsDefinite, Present, Finds, PerModule
<1> QED BY <1>1, <1>2

LEMMA WriteFollows == ASSUME IInv, Write PROVE EnvFollows' /\ ClaimsAreFree(writes)' /\ EnvInStep(writes)'
<1> USE DEF IInv
<1>1. UNCHANGED stopped
  BY DEF Write
<1>2. ClaimsAreFree(writes)'
  BY WriteFacts DEF ClaimsAreFree, TypeOK
<1>3. ASSUME NEW e \in repo', e.file = ".env", e.port # 0
      PROVE  (StoppedOn(e.of) \/ Says(e.of, e.key, e.port))'
  <2>1. StoppedOn(e.of) \/ Says(e.of, e.key, e.port)
    BY <1>3, WriteFacts DEF EnvFollows, EnvInStep
  <2> QED BY <2>1, <1>1, SaysStays, WriteFacts DEF StoppedOn
<1>4. ASSUME NEW i \in DOMAIN writes', writes'[i].file = ".env", writes'[i].port # 0
      PROVE  (StoppedOn(writes[i].of) \/ Says(writes[i].of, writes[i].key, writes[i].port))'
  <2> DEFINE w == writes[i + 1]
  <2>1. i + 1 \in DOMAIN writes /\ writes'[i] = w
    BY WriteFacts
  <2>2. CASE StoppedOn(w.of)
    BY <2>1, <2>2, <1>1 DEF StoppedOn
  <2>3. CASE Says(w.of, w.key, w.port)
    BY <2>1, <2>3, WriteFacts DEF Says
  <2>4. CASE /\ i + 1 = 2 /\ writes[1].file = ".env.sample" /\ writes[1].of = w.of
             /\ writes[1].key = w.key /\ writes[1].port = w.port /\ ~Present(writes[1])
    BY <2>1, <2>4, WriteFacts DEF Says
  <2> QED BY <1>4, <2>1, <2>2, <2>3, <2>4 DEF EnvInStep
<1> QED BY <1>2, <1>3, <1>4 DEF EnvFollows, EnvInStep

(* References and what reaches what *)

LEMMA WriteLeads == ASSUME IInv, Write PROVE AllLed' /\ LedInOrder(writes)'
<1> USE DEF IInv
<1>0. ASSUME NEW f \in repo \cup {writes[1]}
      PROVE  \E x \in repo' :
               /\ x.file = f.file /\ x.key = f.key /\ CamelCase[x.of] = CamelCase[f.of]
               /\ f.file # "grafana-configmap.yaml" \/ NamesApart(f.of) => x.of = f.of
               /\ f.file \in InBarrels => x.mod = f.mod
               /\ f.file = "src/pages" => x = f
  <2>1. CASE f \in repo'
    BY <2>1
  <2>2. CASE f \notin repo'
    <3> PICK x \in repo' : Finds(x, writes[1])
      BY WriteFacts
    <3>1. f = writes[1] /\ f.file # "src/pages"
      BY <2>2, WriteFacts DEF LedInOrder
    <3>2. x.of \in Workspaces
      BY WriteType DEF TypeOK, IsEntry
    <3> QED BY <3>1, <3>2, FoundApart DEF Finds, PerModule, InBarrels, PieceFolders
  <2> QED BY <2>1, <2>2
<1>1. Led(writes[1], repo)
  <2>1. Led(writes[1], repo \cup {writes[j] : j \in 1 .. 0})
    BY WriteFacts DEF LedInOrder
  <2> QED BY <2>1, LedStays
<1>2. AllLed'
  <2> SUFFICES ASSUME NEW e \in repo' PROVE Led(e, repo')
    BY DEF AllLed
  <2>1. Led(e, repo)
    BY <1>1, WriteFacts DEF AllLed
  <2> QED BY <2>1, WriteFacts, LedStays
<1>3. ASSUME NEW i \in DOMAIN writes'
      PROVE  Led(writes'[i], repo' \cup {writes'[j] : j \in 1 .. (i - 1)})
  <2> DEFINE w == writes[i + 1]
             earlier == {writes'[j] : j \in 1 .. (i - 1)}
  <2>1. i + 1 \in DOMAIN writes /\ writes'[i] = w /\ i \in Nat \ {0}
    BY WriteFacts
  <2>2. Led(w, repo \cup {writes[j] : j \in 1 .. i})
    BY <2>1 DEF LedInOrder
  <2>3. \A j \in 1 .. i : writes[j] = writes[1] \/ writes[j] \in earlier
    <3> SUFFICES ASSUME NEW j \in 1 .. i, j # 1 PROVE writes[j] \in earlier
      OBVIOUS
    <3>1. j \in DOMAIN writes /\ j - 1 \in 1 .. (i - 1)
      BY <2>1 DEF TypeOK
    <3> QED BY <3>1, WriteFacts
  <2>4. Led(w, (repo \cup {writes[1]}) \cup earlier)
    BY <2>2, <2>3, LedStays
  <2> HIDE DEF earlier
  <2>5. Led(w, repo' \cup earlier)
    BY <2>4, <1>0 DEF Led, InBarrels, PieceFolders, CodeFolders
  <2> QED BY <2>1, <2>5 DEF earlier
<1>4. ASSUME NEW i \in DOMAIN writes', writes'[i].file = "src/pages"
      PROVE  /\ ~\E e \in repo' : Finds(e, writes'[i])
             /\ \A j \in DOMAIN writes' : writes'[j].file = "src/pages" => j = i
  <2>1. /\ i + 1 \in DOMAIN writes /\ writes'[i] = writes[i + 1] /\ i \in Nat \ {0}
        /\ \A j \in DOMAIN writes' : j \in Nat /\ j + 1 \in DOMAIN writes /\ writes'[j] = writes[j + 1]
    BY WriteFacts
  <2>2. ~Present(writes[i + 1]) /\ \A j \in DOMAIN writes : writes[j].file = "src/pages" => j = i + 1
    BY <1>4, <2>1 DEF LedInOrder
  <2>3. writes[1].file # "src/pages"
    BY <2>1, <2>2, WriteFacts
  <2>4. \A e \in repo' : ~Finds(e, writes[i + 1])
    BY <1>4, <2>1, <2>2, <2>3, WriteFacts DEF Present, Finds
  <2> QED BY <1>4, <2>1, <2>2, <2>4
<1>5. LedInOrder(writes)'
  BY <1>3, <1>4 DEF LedInOrder, Present
<1> QED BY <1>2, <1>5

LEMMA WriteReaches == ASSUME IInv, Write PROVE ReachedInOrder(writes)'
<1> USE DEF IInv
<1>1. ASSUME NEW i \in DOMAIN writes',
             writes'[i].file \in CodeFolders \cup InBarrels \cup {"src/pages"}
      PROVE  \/ writes'[i].file = "src/pages" /\ Routed(writes[i])'
             \/ \E j \in DOMAIN writes' : j > i /\ Reaches(writes'[j], writes'[i])
  <2> PICK w : w = writes[i + 1]
    OBVIOUS
  <2>1. i + 1 \in DOMAIN writes /\ writes'[i] = w /\ i \in Nat \ {0}
    BY WriteFacts
  <2>2. CASE \E j \in DOMAIN writes : j > i + 1 /\ Reaches(writes[j], w)
    <3> PICK j \in DOMAIN writes : j > i + 1 /\ Reaches(writes[j], w)
      BY <2>2
    <3>1. j \in Nat /\ j - 1 \in DOMAIN writes' /\ writes'[j - 1] = writes[j] /\ j - 1 > i
      BY <2>1, WriteFacts DEF TypeOK
    <3> QED BY <2>1, <3>1
  <2>3. CASE w.file = "src/pages" /\ Routed(w)
    <3>1. ASSUME Has(w.of, "router.tsx", "file")', ~Has(w.of, "router.tsx", "file")
          PROVE  FALSE
      <4>1. writes[1].file = "router.tsx" /\ writes[1].of = w.of
        BY <3>1, WriteFacts DEF Has
      <4>2. w \in Range(writes)
        BY <2>1 DEF Range
      <4> QED BY <2>3, <4>1, <4>2, WriteFacts DEF ReachedInOrder
    <3>2. Has(w.of, "route", w.key) => Has(w.of, "route", w.key)'
      BY WriteFacts DEF Has
    <3>3. w.file = "src/pages" /\ Routed(w)'
      BY <2>3, <3>1, <3>2 DEF Routed
    <3> QED BY <2>1, <3>3 DEF Routed, Has
  <2> QED BY <1>1, <2>1, <2>2, <2>3 DEF ReachedInOrder
<1>2. ASSUME NEW i \in DOMAIN writes', writes'[i].file = "router.tsx",
             NEW e \in repo' \cup Range(writes'), e.of = writes'[i].of
      PROVE  e.file # "src/pages"
  <2>1. i + 1 \in DOMAIN writes /\ writes'[i] = writes[i + 1]
    BY WriteFacts
  <2>2. e \in repo \cup Range(writes)
    BY WritePending DEF Pending
  <2> QED BY <1>2, <2>1, <2>2 DEF ReachedInOrder
<1>3. ASSUME NEW i \in DOMAIN writes', writes'[i].file \in Added
      PROVE  i = 1
  <2>1. i + 1 \in DOMAIN writes /\ writes'[i] = writes[i + 1] /\ i \in Nat \ {0}
    BY WriteFacts
  <2> QED BY <1>3, <2>1 DEF ReachedInOrder
<1> QED BY <1>1, <1>2, <1>3 DEF ReachedInOrder

(* A write can only leave unreached what it writes itself: a route table      *)
(* comes before the first page.                                              *)
LEMMA WriteUnreached == ASSUME IInv, Write PROVE WillBeReached'
<1> USE DEF IInv
<1> SUFFICES ASSUME NEW e \in Unreached'
             PROVE  \/ StoppedOn(e.of)'
                    \/ /\ \E w \in Pending' : Reaches(w, e)
                       /\ \A w \in Pending' : w.file \notin Added
  BY DEF WillBeReached
<1>1. UNCHANGED stopped
  BY DEF Write
<1>2. \A w \in Pending' : w.file \notin Added
  BY WriteFacts DEF ReachedInOrder, Pending, Range, TypeOK
<1>3. ~Reaches(writes[1], e)
  <2> SUFFICES ASSUME Reaches(writes[1], e) PROVE FALSE
    OBVIOUS
  <2> PICK x \in repo' : Finds(x, writes[1])
    BY WriteFacts
  <2> QED
    BY DEF Unreached, Reaches, Finds, PerModule, CodeFolders, InBarrels, PieceFolders, HasFile,
           Exported, Has
<1>4. CASE e \in Unreached
  BY <1>1, <1>2, <1>3, <1>4, WritePending DEF WillBeReached, StoppedOn
<1>5. CASE e = writes[1]
  <2>1. e.file \in CodeFolders \cup InBarrels \cup {"src/pages"}
    BY DEF Unreached
  <2>2. CASE e.file = "src/pages" /\ Routed(e)
    <3>1. ~Routed(e)'
      BY <2>2 DEF Unreached, Routed, CodeFolders, InBarrels, PieceFolders
    <3>2. Has(e.of, "router.tsx", "file")' => Has(e.of, "router.tsx", "file")
      BY <1>5, <2>2, WriteFacts DEF Has
    <3> QED BY <2>2, <3>1, <3>2, HasStays, WriteFacts DEF Routed
  <2>3. CASE \E j \in DOMAIN writes : j > 1 /\ Reaches(writes[j], e)
    <3> PICK j \in DOMAIN writes : j > 1 /\ Reaches(writes[j], e)
      BY <2>3
    <3>1. writes[j] \in Pending'
      BY WriteFacts DEF Pending, Range
    <3> QED BY <3>1, <1>2
  <2> QED BY <1>5, <2>1, <2>2, <2>3, WriteFacts DEF ReachedInOrder
<1>6. CASE e \in repo \ Unreached
  <2>1. e.file = "src/pages" /\ Has(e.of, "router.tsx", "file")' /\ ~Has(e.of, "router.tsx", "file")
    BY <1>6, WriteFacts, HasStays DEF Unreached, HasFile, Exported, Has
  <2>2. writes[1].file = "router.tsx" /\ writes[1].of = e.of
    BY <2>1, WriteFacts DEF Has
  <2> QED BY <1>6, <2>1, <2>2, WriteFacts DEF ReachedInOrder
<1> QED BY <1>4, <1>5, <1>6, WriteFacts DEF Unreached

LEMMA WriteKeeps == ASSUME IInv, Write PROVE IInv'
<1>1. UNCHANGED <<side, run, todo, runs, done, stopped>>
  BY DEF Write
<1>2. InTurn'
  <2>1. IsServer(run.of) => IsServer(run.of)'
    BY <1>1, WriteFacts DEF IInv, IsServer, Has
  <2>2. ~IsIdle
    BY WriteFacts DEF IInv, InTurn
  <2> QED BY <1>1, <2>1, <2>2 DEF IInv, InTurn, IsIdle
<1>3. DoneMeansWired'
  BY <1>1, WriteFacts, WiredStays DEF IInv, DoneMeansWired
<1> QED
  BY <1>2, <1>3, WriteType, WriteSettles, WriteContains, WriteGrounds, WriteOwned, WriteAloneInDatabase,
     WriteAloneInSecrets, WriteComesWithDrivers, WriteDistinct, WriteDefinite, WriteFollows,
     WriteLeads, WriteReaches, WriteUnreached DEF IInv

-----------------------------------------------------------------------------
(* The ends of a run *)

LEMMA Emptied ==
  ASSUME writes' = <<>>
  PROVE  /\ Pending' = {}
         /\ ClaimsAreFree(writes)' /\ EnvInStep(writes)' /\ LedInOrder(writes)'
         /\ ReachedInOrder(writes)'
BY DEF Pending, Range, ClaimsAreFree, EnvInStep, LedInOrder, ReachedInOrder

(* Everything that does not ask what the run was about to do. *)
LEMMA CloseLeaves ==
  ASSUME IInv, Close, UNCHANGED <<repo, side, runs>>, TypeOK', stopped \subseteq stopped'
  PROVE  /\ InTurn' /\ BegunIsSettled' /\ OwnPortIsSettled' /\ OneContainer'
         /\ AllGrounded' /\ AllOwned' /\ AloneInDatabase' /\ AloneInSecrets'
         /\ PortsAreDistinct' /\ SampleIsDefinite' /\ EnvFollows'
         /\ AllLed' /\ ClaimsAreFree(writes)' /\ EnvInStep(writes)'
         /\ LedInOrder(writes)' /\ ReachedInOrder(writes)'
<1> USE DEF IInv, Close
<1>1. Pending' = {} /\ run'.gen = "none" /\ todo' = <<>> /\ repo' = repo
  BY Emptied DEF Idle
<1>2. "none" \notin ServerSide
  BY DEF ServerSide, Drivers, Extensions
<1>3. InTurn' /\ BegunIsSettled' /\ OwnPortIsSettled' /\ OneContainer'
  BY <1>1, <1>2, ContainerStays DEF InTurn, IsIdle, BegunIsSettled, OwnPortIsSettled, OneContainer
<1>4. AllGrounded'
  BY <1>1, GroundedStays DEF AllGrounded
<1>5. AllOwned' /\ AloneInDatabase' /\ AloneInSecrets'
  BY <1>1 DEF AllOwned, AloneInDatabase, AloneInSecrets
<1>6. PortsAreDistinct' /\ SampleIsDefinite' /\ AllLed'
  BY <1>1 DEF PortsAreDistinct, Claims, SampleIsDefinite, AllLed
<1>7. EnvFollows'
  BY <1>1, SaysStays DEF EnvFollows, StoppedOn
<1> QED BY <1>3, <1>4, <1>5, <1>6, <1>7, Emptied

LEMMA NoOneActionIsServerSide ==
  /\ {"grpc", "graphql"} \subseteq ServerSide
  /\ {"grpc", "graphql"} \cap {"database", "code", "none"} = {}
BY DEF ServerSide, Drivers, Extensions

LEMMA CloseType ==
  ASSUME TypeOK, Close, UNCHANGED <<repo, side, runs>>, \A r \in done' \cup stopped' : IsRun(r),
         IsFiniteSet(stopped'), Cardinality(stopped') <= MaxStops
  PROVE  TypeOK'
<1>1. Range(<<>>) = {} /\ <<>> \in Seq({})
  BY DEF Range
<1> QED BY <1>1 DEF TypeOK, Close, IsIdle, IsRun, IsEntry

(* Between two actions all is in place that those begun leave. *)
LEMMA BegunIsMade ==
  ASSUME IInv, run.gen \in ServerSide, writes = <<>>,
         NEW a \in Range(ActionsOf(run.gen)), Begun(a), NEW w \in Leaves(a, run.of)
  PROVE  Present(w)
<1>1. Pending = {}
  BY DEF Pending, Range
<1> QED BY <1>1 DEF IInv, BegunIsSettled, Settled

LEMMA EndedHas ==
  ASSUME IInv, run.gen \in ServerSide, todo = <<>>, writes = <<>>,
         NEW a \in Range(ActionsOf(run.gen)), NEW w \in Leaves(a, run.of)
  PROVE  Present(w)
<1>1. Begun(a)
  BY DEF Begun, Range
<1> QED BY <1>1, BegunIsMade

(* A run that ends well has wired everything. *)
LEMMA EndedIsWired ==
  ASSUME IInv, run.gen \in ServerSide, todo = <<>>, writes = <<>>
  PROVE  Wired(run.gen, run.of)
<1> DEFINE s == run.of
<1>1. ASSUME NEW a \in Range(ActionsOf(run.gen)), NEW w \in Leaves(a, s)
      PROVE  w.file # "grafana-configmap.yaml" => Has(w.of, w.file, w.key)
  BY <1>1, EndedHas, PresentIsHas
<1>2. ASSUME NEW g \in {"grpc", "graphql"}, run.gen = g, WiresHelm[g] \in Range(ActionsOf(run.gen)),
             NEW file, NEW env, Leaves(WiresHelm[g], s) = Chart(s, file, env),
             file # "grafana-configmap.yaml"
      PROVE  Charted(s, file, env, PortVarOf[g])
  <2>1. Has(s, file, "Service") /\ Has(s, "deployment.yaml", env)
        /\ Has(s, "config/prometheus.yml", "health") /\ Has(s, "files/prometheus.yml", "health")
    <3>1. \A w \in Chart(s, file, env) : w.file # "grafana-configmap.yaml" => Has(w.of, w.file, w.key)
      BY <1>1, <1>2
    <3>2. {Entry(s, file, "Service"), Entry(s, "deployment.yaml", env),
           Entry(s, "config/prometheus.yml", "health"), Entry(s, "files/prometheus.yml", "health")}
            \subseteq Chart(s, file, env)
      BY DEF Chart, WireConfigMap
    <3> HIDE DEF s
    <3> QED BY <1>2, <3>1, <3>2 DEF Entry, EntryAt
  <2>2. Present(PortEntry(s, "deployment.yaml", "containerPort", HealthPort))
    BY <1>2, EndedHas DEF Chart
  <2>3. PICK health \in ContainerPorts(s) : health.port = HealthPort
    BY <2>2 DEF Present, Finds, PortEntry, EntryAt, ContainerPorts
  <2>4. PICK p \in Nat : Says(s, PortVarOf[g], p) /\ Present(OwnPort(s, p))
    <3>1. Begun(WiresHelm[g]) /\ Pending = {}
      BY DEF Begun, Pending, Range
    <3> QED BY <1>2, <3>1 DEF IInv, OwnPortIsSettled, Settled
  <2>5. PICK own \in ContainerPorts(s) : own.port = p
    BY <2>4 DEF Present, Finds, OwnPort, PortEntry, EntryAt, ContainerPorts
  <2>6. own.to = health.to /\ (own.to = "app" \/ HasInitContainer(s))
    BY DEF IInv, OneContainer, ContainerPorts, IsContainerPort
  <2> QED BY <2>1, <2>3, <2>4, <2>5, <2>6 DEF Charted
<1> USE DEF Wired, HasDriver, Entry, EntryAt, InjectDriver, InjectPlugin, InjectDatabase, WireConfigMap
<1>3. CASE run.gen = "grpc"
  <2>1. {"injectGrpcDriver", "wireGrpcHelm"} \subseteq Range(ActionsOf(run.gen))
    BY <1>3 DEF ActionsOf, GrpcActions, Range
  <2>2. Leaves("wireGrpcHelm", s) = Chart(s, "grpc-env.yaml", "grpc-env")
    BY DEF Leaves
  <2>3. Charted(s, "grpc-env.yaml", "grpc-env", "GRPC_PORT")
    BY <1>3, <2>1, <2>2, <1>2 DEF WiresHelm, PortVarOf
  <2>4. HasDriver(s, "GrpcDriver")
    BY <2>1, <1>1 DEF Leaves
  <2> QED BY <1>3, <2>3, <2>4
<1>4. CASE run.gen = "graphql"
  <2>1. {"addGraphqlCodegenConfig", "injectGraphqlDriver", "appendSupergraphSubgraph",
         "wireGraphqlHelm"} \subseteq Range(ActionsOf(run.gen))
    BY <1>4 DEF ActionsOf, GraphqlActions, Range
  <2>2. Leaves("wireGraphqlHelm", s) = Chart(s, "graphql-env.yaml", "graphql-env")
    BY DEF Leaves
  <2>3. Charted(s, "graphql-env.yaml", "graphql-env", "GRAPHQL_PORT")
    BY <1>4, <2>1, <2>2, <1>2 DEF WiresHelm, PortVarOf
  <2>4. HasDriver(s, "ApolloDriver") /\ Has(s, "codegen.ts", "file")
    BY <2>1, <1>1 DEF Leaves
  <2>5. HasSupergraph => Has(s, "supergraph.yaml", "subgraph")
    BY <2>1, <1>1 DEF Leaves
  <2> QED BY <1>4, <2>3, <2>4, <2>5
<1>5. CASE run.gen = "kafka"
  <2>1. {"injectKafkaDriver", "wireKafkaHelm"} \subseteq Range(ActionsOf(run.gen))
    BY <1>5 DEF ActionsOf, KafkaActions, Range
  <2> QED BY <1>5, <2>1, <1>1 DEF Leaves
<1>6. CASE run.gen = "cron"
  <2>1. "injectCronDriver" \in Range(ActionsOf(run.gen))
    BY <1>6 DEF ActionsOf, CronActions, Range
  <2> QED BY <1>6, <2>1, <1>1 DEF Leaves
<1>7. CASE run.gen = "database"
  <2>1. {"injectDatabaseIntoServerApp", "scaffoldDatabaseInfraChart", "injectDatabaseEnvYaml",
         "wireDatabaseHelmDeployment", "wireGrafanaDatasource"} \subseteq Range(ActionsOf(run.gen))
    BY <1>7 DEF ActionsOf, DatabaseActions, Range
  <2>2. Present(Entry(s, "grafana-configmap.yaml", "datasource"))
    BY <2>1, EndedHas DEF Leaves
  <2>3. NamesApart(s) => Has(s, "grafana-configmap.yaml", "datasource")
    <3> SUFFICES ASSUME NamesApart(s) PROVE Has(s, "grafana-configmap.yaml", "datasource")
      OBVIOUS
    <3>1. PICK e \in repo : Finds(e, Entry(s, "grafana-configmap.yaml", "datasource"))
      BY <2>2 DEF Present
    <3>2. e.of = s
      BY <3>1, FoundApart DEF IInv, TypeOK, IsEntry
    <3> QED BY <3>1, <3>2 DEF Has, Finds
  <2> QED BY <1>7, <2>1, <2>3, <1>1 DEF Leaves
<1>8. CASE run.gen = "redis"
  <2>1. {"injectRedisIntoServerApp", "wireRedisHelmDeployment"} \subseteq Range(ActionsOf(run.gen))
    BY <1>8 DEF ActionsOf, RedisActions, Range
  <2> QED BY <1>8, <2>1, <1>1 DEF Leaves
<1>9. CASE run.gen = "secrets"
  <2>1. {"injectOpenBaoIntoServerApp", "injectSecretsServiceAccount"}
          \subseteq Range(ActionsOf(run.gen))
    BY <1>9 DEF ActionsOf, SecretsActions, Range
  <2> QED BY <1>9, <2>1, <1>1 DEF Leaves
<1> QED
  BY <1>3, <1>4, <1>5, <1>6, <1>7, <1>8, <1>9 DEF ServerSide, Drivers, Extensions

LEMMA FinishKeeps == ASSUME IInv, Finish PROVE IInv'
<1> USE DEF IInv, Finish, Close
<1>1. TypeOK'
  BY CloseType DEF TypeOK
<1>2. Pending = {} /\ Range(todo) = {}
  BY DEF Pending, Range
<1>3. PortsComeWithDrivers'
  <2> SUFFICES ASSUME NEW g \in {"grpc", "graphql"}, NEW s \in Workspaces,
                      Has(s, ".env.sample", PortVarOf[g]), run.of = s, run.gen = g
               PROVE  HasDriver(s, DriverName[g])
    BY DEF PortsComeWithDrivers, Has, HasDriver, StoppedOn, By, Idle
  <2>1. Present(InjectDriver(s, DriverName[g]))
    <3>1. CASE g = "grpc"
      <4>1. "injectGrpcDriver" \in Range(ActionsOf("grpc"))
        BY DEF ActionsOf, GrpcActions, Range
      <4>2. Leaves("injectGrpcDriver", s) = {InjectDriver(s, "GrpcDriver")}
        BY DEF Leaves
      <4> QED BY <3>1, <4>1, <4>2, EndedHas, NoOneActionIsServerSide DEF DriverName
    <3>2. CASE g = "graphql"
      <4>1. "injectGraphqlDriver" \in Range(ActionsOf("graphql"))
        BY DEF ActionsOf, GraphqlActions, Range
      <4>2. Leaves("injectGraphqlDriver", s) = {InjectDriver(s, "ApolloDriver")}
        BY DEF Leaves
      <4> QED BY <3>2, <4>1, <4>2, EndedHas, NoOneActionIsServerSide DEF DriverName
    <3> QED BY <3>1, <3>2
  <2> QED BY <2>1 DEF Present, Finds, InjectDriver, Entry, EntryAt, HasDriver, Has
<1>4. WillBeReached'
  BY <1>2 DEF WillBeReached, Unreached, StoppedOn, HasFile, Has, Exported
<1>5. ASSUME run.gen \in ServerSide
      PROVE  Wired(run.gen, run.of)
  BY <1>5, EndedIsWired
<1>6. DoneMeansWired'
  <2>1. \A g \in ServerSide : \A s : Wired(g, s) => Wired(g, s)'
    BY WiredStays
  <2> QED BY <1>5, <2>1 DEF DoneMeansWired
<1> QED
  BY <1>1, <1>3, <1>4, <1>6, CloseLeaves

LEMMA RefuseKeeps == ASSUME IInv, Refuse PROVE IInv'
<1> USE DEF IInv, Refuse, Close
<1>1. TypeOK'
  BY CloseType DEF TypeOK
<1>2. PICK w : w \in Pending /\ w.file \in Added
  BY DEF Refused, Pending, Range, TypeOK
<1>3. run.gen \in {"database", "code"}
  BY <1>2 DEF AllOwned, Owned
<1>4. PortsComeWithDrivers'
  BY <1>3 DEF PortsComeWithDrivers, Has, HasDriver, StoppedOn, By, Idle
<1>5. WillBeReached'
  BY <1>2 DEF WillBeReached, Unreached, StoppedOn, HasFile, Has, Exported
<1>6. DoneMeansWired'
  BY WiredStays DEF DoneMeansWired
<1> QED
  BY <1>1, <1>4, <1>5, <1>6, CloseLeaves

LEMMA StopKeeps == ASSUME IInv, Stop PROVE IInv'
<1> USE DEF IInv, Stop, Close
<1>1. TypeOK'
  <2>1. IsFiniteSet(stopped) /\ Cardinality(stopped) \in Nat
    BY FS_CardinalityType DEF TypeOK
  <2>2. stopped' = stopped \cup {run} /\ Cardinality(stopped) + 1 <= MaxStops
    BY <2>1
  <2>3. IsFiniteSet(stopped \cup {run})
    BY <2>1, FS_AddElement
  <2>4. Cardinality(stopped \cup {run}) \in {Cardinality(stopped), Cardinality(stopped) + 1}
    BY <2>1, FS_AddElement, Zenon
  <2>5. \A r \in done \cup stopped \cup {run} : IsRun(r)
    BY DEF TypeOK
  <2> QED BY <2>1, <2>2, <2>3, <2>4, <2>5, CloseType
<1>2. PortsComeWithDrivers'
  BY DEF PortsComeWithDrivers, Has, HasDriver, StoppedOn, By, Idle
<1>3. WillBeReached'
  <2>1. \A w \in Pending : w.of = run.of
    BY DEF Pending, Range, TypeOK
  <2> QED
    BY <2>1 DEF WillBeReached, Reaches, Unreached, StoppedOn, HasFile, Has, Exported
<1>4. DoneMeansWired'
  BY WiredStays DEF DoneMeansWired
<1> QED
  BY <1>1, <1>2, <1>3, <1>4, CloseLeaves

-----------------------------------------------------------------------------
(* A server is scaffolded, or its .env made: between two runs entries come    *)
(* that no invariant above minds.                                            *)

Special ==
  CodeFolders \cup InBarrels \cup Added \cup {"src/pages", "router.tsx", "route", "index.ts",
    "barrel", "grafana-statefulset.yaml", "app.ts", "infra/helm", "env.yaml", "openbao-env.yaml",
    "serviceaccount.yaml", "grpc-env.yaml", "graphql-env.yaml", "supergraph.yaml",
    "rsbuild.config.ts", ".env.sample", ".env"}
Plain(e) ==
  /\ IsEntry(e) /\ e.file \notin Special
  /\ ~IsContainerPort(e)
Harmless(e) ==
  /\ IsEntry(e)
  /\ \/ Plain(e)
     \/ e.file = ".env.sample" /\ e.key = "KAFKA_BROKERS" /\ e.port = 0
     \/ e.file = ".env" /\ (e.port # 0 => Says(e.of, e.key, e.port))

LEMMA ScaffoldIsHarmless ==
  ASSUME IInv, NEW s \in Workspaces, ScaffoldServer(s)
  PROVE  /\ repo \subseteq repo' /\ \A e \in repo' \ repo : Harmless(e)
         /\ SampleIsDefinite'
<1>1. \A e \in ScaffoldEntries(s) : Harmless(e) /\ e.of = s /\ e.port = 0
  BY DEF ScaffoldEntries, Entry, EntryAt, Harmless, Plain, IsContainerPort, Special, IsEntry, CodeFolders,
     InBarrels, PieceFolders, Added
<1>2. repo' = repo \cup ScaffoldEntries(s) /\ ~\E e \in repo : e.of = s
  BY DEF ScaffoldServer
<1> QED BY <1>1, <1>2 DEF IInv, SampleIsDefinite

LEMMA CopyIsHarmless ==
  ASSUME IInv, NEW s \in Workspaces, CopyEnvSample(s)
  PROVE  /\ repo \subseteq repo' /\ \A e \in repo' \ repo : Harmless(e)
         /\ SampleIsDefinite'
<1> USE DEF IInv
<1>1. \A e \in repo' \ repo : Harmless(e) /\ e.file = ".env"
  <2> SUFFICES ASSUME NEW e \in repo' \ repo PROVE Harmless(e) /\ e.file = ".env"
    OBVIOUS
  <2>1. CASE e = Entry(s, ".env", "file")
    BY <2>1 DEF Entry, EntryAt, Harmless, IsEntry
  <2>2. ASSUME NEW f \in repo, f.of = s, f.file = ".env.sample", e = [f EXCEPT !.file = ".env"]
        PROVE  Harmless(e) /\ e.file = ".env"
    <3>1. f = EntryAt(f.of, f.mod, f.file, f.key, f.port, f.to) /\ f.port \in Nat
      BY DEF TypeOK, IsEntry
    <3>2. e = EntryAt(s, f.mod, ".env", f.key, f.port, f.to)
      BY <2>2, <3>1 DEF EntryAt
    <3>3. Says(e.of, e.key, e.port)
      BY <2>2, <3>2 DEF Says, EntryAt
    <3> QED
      BY <3>1, <3>2, <3>3 DEF EntryAt, Harmless, IsEntry
  <2> QED BY <2>1, <2>2 DEF CopyEnvSample
<1> QED BY <1>1 DEF CopyEnvSample, SampleIsDefinite

LEMMA GrowKeeps ==
  ASSUME IInv, IsIdle, repo \subseteq repo', \A e \in repo' \ repo : Harmless(e), SampleIsDefinite',
         UNCHANGED <<side, run, todo, writes, runs, done, stopped>>
  PROVE  IInv'
<1> USE DEF IInv
<1>1. /\ writes = <<>> /\ todo = <<>> /\ Pending = {} /\ Pending' = {}
      /\ run.gen \notin ServerSide \cup {"database", "secrets", "grpc", "graphql"} /\ run'.gen = run.gen
  BY DEF InTurn, IsIdle, Idle, Pending, Range, ServerSide, Drivers, Extensions
<1>2. TypeOK'
  BY DEF Harmless, Plain, Special, TypeOK, IsIdle, IsRun, IsEntry
<1>3. InTurn' /\ BegunIsSettled' /\ OwnPortIsSettled' /\ OneContainer'
  <2>1. InTurn' /\ BegunIsSettled' /\ OwnPortIsSettled'
    BY <1>1 DEF InTurn, IsIdle, BegunIsSettled, OwnPortIsSettled
  <2>2. \A e \in repo' : IsContainerPort(e) => e \in repo
    BY DEF Harmless, Plain, IsContainerPort
  <2>3. OneContainer'
    BY <1>1, <2>2, ContainerStays DEF OneContainer
  <2> QED BY <2>1, <2>3
<1>4. AllGrounded'
  <2> SUFFICES ASSUME NEW e \in repo' PROVE Grounded(e)'
    BY <1>1 DEF AllGrounded
  <2>1. CASE e \in repo
    BY <2>1, GroundedStays DEF AllGrounded
  <2>2. CASE Harmless(e)
    BY <2>2 DEF Harmless, Plain, IsContainerPort, Special, Grounded, Backed, Marked, OfDatabase, Said
  <2> QED BY <2>1, <2>2
<1>5. AllOwned' /\ AloneInDatabase' /\ AloneInSecrets'
  BY <1>1 DEF AllOwned, AloneInDatabase, AloneInSecrets
<1>6. PortsComeWithDrivers'
  <2> SUFFICES ASSUME NEW g \in {"grpc", "graphql"}, NEW s \in Workspaces,
                      Has(s, ".env.sample", PortVarOf[g])'
               PROVE  (HasDriver(s, DriverName[g]) \/ StoppedOn(s))'
    BY <1>1 DEF PortsComeWithDrivers
  <2>1. Has(s, ".env.sample", PortVarOf[g])
    BY DEF Has, Harmless, Plain, Special, PortVarOf
  <2>2. HasDriver(s, DriverName[g]) \/ StoppedOn(s)
    BY <2>1, <1>1 DEF PortsComeWithDrivers, By
  <2> QED BY <2>2, HasStays DEF HasDriver, StoppedOn
<1>7. PortsAreDistinct'
  BY DEF PortsAreDistinct, Claims, ClaimingFiles, Harmless, Plain, Special
<1>8. EnvFollows'
  BY SaysStays DEF EnvFollows, StoppedOn, Harmless, Plain, Special
<1>9. AllLed'
  <2> SUFFICES ASSUME NEW e \in repo' PROVE Led(e, repo')
    BY DEF AllLed
  <2>1. CASE e \in repo
    BY <2>1, LedStays DEF AllLed
  <2>2. CASE Harmless(e)
    BY <2>2 DEF Harmless, Plain, Special, Led
  <2> QED BY <2>1, <2>2
<1>10. WillBeReached'
  <2> SUFFICES ASSUME NEW e \in Unreached' PROVE StoppedOn(e.of)
    BY DEF WillBeReached, StoppedOn
  <2>1. e \in repo
    BY DEF Unreached, Harmless, Plain, Special, CodeFolders, InBarrels, PieceFolders
  <2>2. Has(e.of, "router.tsx", "file")' => Has(e.of, "router.tsx", "file")
    BY DEF Has, Harmless, Plain, Special
  <2>3. e \in Unreached
    BY <2>1, <2>2 DEF Unreached, HasFile, Has, Exported
  <2> QED BY <2>3, <1>1 DEF WillBeReached
<1>11. DoneMeansWired'
  BY WiredStays DEF DoneMeansWired
<1> QED
  BY <1>1, <1>2, <1>3, <1>4, <1>5, <1>6, <1>7, <1>8, <1>9, <1>10, <1>11, Emptied

-----------------------------------------------------------------------------
(* The edits of an action *)

LEMMA ConcatTwo == ASSUME NEW a, NEW b PROVE <<a>> \o <<b>> = <<a, b>> /\ <<a>> \o <<>> = <<a>>
<1> DEFINE S == {a, b}
           s == <<a>> \o <<b>>
           t == <<a>> \o <<>>
<1>1. /\ <<a>> \in Seq(S) /\ <<b>> \in Seq(S) /\ <<a, b>> \in Seq(S) /\ <<>> \in Seq(S)
      /\ Len(s) = 2 /\ s[1] = a /\ s[2] = b /\ Len(t) = 1 /\ t[1] = a
  OBVIOUS
<1>2. s \in Seq(S) /\ t \in Seq(S)
  BY <1>1, ConcatProperties
<1> HIDE DEF s, t
<1>3. (\A i \in 1 .. Len(s) : s[i] = <<a, b>>[i]) /\ \A i \in 1 .. Len(t) : t[i] = <<a>>[i]
  BY <1>1
<1>4. s = <<a, b>>
  BY <1>1, <1>2, <1>3, SeqEqual
<1>5. t = <<a>>
  BY <1>1, <1>2, <1>3, SeqEqual
<1> QED BY <1>4, <1>5 DEF s, t

LEMMA ConcatThreeOne ==
  ASSUME NEW a, NEW b, NEW c, NEW d PROVE <<a, b, c>> \o <<d>> = <<a, b, c, d>>
<1> DEFINE S == {a, b, c, d}
           s == <<a, b, c>> \o <<d>>
<1>1. <<a, b, c>> \in Seq(S) /\ <<d>> \in Seq(S) /\ <<a, b, c, d>> \in Seq(S)
  OBVIOUS
<1>2. Len(s) = 4 /\ s[1] = a /\ s[2] = b /\ s[3] = c /\ s[4] = d
  OBVIOUS
<1>3. s \in Seq(S)
  BY <1>1, ConcatProperties
<1> HIDE DEF s
<1>4. \A i \in 1 .. Len(s) : s[i] = <<a, b, c, d>>[i]
  BY <1>2
<1>5. s = <<a, b, c, d>>
  BY <1>1, <1>2, <1>3, <1>4, SeqEqual
<1> QED BY <1>5 DEF s

LEMMA ConcatThreeNone == ASSUME NEW a, NEW b, NEW c PROVE <<a, b, c>> \o <<>> = <<a, b, c>>
<1> DEFINE s == <<a, b, c>> \o <<>>
<1>1. <<a, b, c>> \in Seq({a, b, c}) /\ <<>> \in Seq({a, b, c})
  OBVIOUS
<1>2. Len(s) = 3 /\ s[1] = a /\ s[2] = b /\ s[3] = c
  OBVIOUS
<1>3. s \in Seq({a, b, c})
  BY <1>1, ConcatProperties
<1> HIDE DEF s
<1>4. \A i \in 1 .. Len(s) : s[i] = <<a, b, c>>[i]
  BY <1>2
<1>5. s = <<a, b, c>>
  BY <1>1, <1>2, <1>3, <1>4, SeqEqual
<1> QED BY <1>5 DEF s

LEMMA ConcatRange ==
  ASSUME NEW S, NEW s \in Seq(S), NEW t \in Seq(S)
  PROVE  s \o t \in Seq(S) /\ Range(s \o t) = Range(s) \cup Range(t)
<1> DEFINE u == s \o t
<1>1. u \in Seq(S) /\ Len(u) = Len(s) + Len(t) /\ DOMAIN u = 1 .. Len(u)
  OBVIOUS
<1>2. \A i \in 1 .. Len(u) : u[i] = IF i <= Len(s) THEN s[i] ELSE t[i - Len(s)]
  BY ConcatProperties, <1>1
<1> HIDE DEF u
<1>3. Range(u) \subseteq Range(s) \cup Range(t)
  <2> SUFFICES ASSUME NEW i \in 1 .. Len(u) PROVE u[i] \in Range(s) \cup Range(t)
    BY <1>1 DEF Range
  <2>1. CASE i <= Len(s)
    BY <1>2, <2>1 DEF Range
  <2>2. CASE ~(i <= Len(s))
    <3>1. i - Len(s) \in 1 .. Len(t)
      BY <1>1, <2>2
    <3> QED BY <1>2, <2>2, <3>1 DEF Range
  <2> QED BY <2>1, <2>2
<1>4. \A i \in 1 .. Len(s) : s[i] \in Range(u)
  <2> SUFFICES ASSUME NEW i \in 1 .. Len(s) PROVE s[i] \in Range(u)
    OBVIOUS
  <2>1. Len(s) \in Nat /\ Len(t) \in Nat
    OBVIOUS
  <2>2. i \in 1 .. Len(u) /\ u[i] = s[i]
    BY <1>1, <1>2, <2>1
  <2> QED BY <1>1, <2>2 DEF Range
<1>5. \A i \in 1 .. Len(t) : t[i] \in Range(u)
  <2> SUFFICES ASSUME NEW i \in 1 .. Len(t) PROVE t[i] \in Range(u)
    OBVIOUS
  <2>0. Len(s) \in Nat /\ Len(t) \in Nat
    OBVIOUS
  <2>1. /\ Len(s) + i \in 1 .. Len(u) /\ ~(Len(s) + i <= Len(s))
        /\ Len(s) + i - Len(s) = i
    BY <1>1, <2>0
  <2>2. u[Len(s) + i] = t[i]
    BY <1>2, <2>1
  <2> QED BY <1>1, <2>1, <2>2 DEF Range
<1>6. Range(s) \cup Range(t) \subseteq Range(u)
  BY <1>4, <1>5 DEF Range
<1> QED BY <1>1, <1>3, <1>6 DEF u

LEMMA Tuples ==
  ASSUME NEW a, NEW b, NEW c, NEW d
  PROVE  /\ <<a>> \in Seq({a}) /\ Range(<<a>>) = {a}
         /\ <<a, b>> \in Seq({a, b}) /\ Range(<<a, b>>) = {a, b}
         /\ <<a, b, c>> \in Seq({a, b, c}) /\ Range(<<a, b, c>>) = {a, b, c}
         /\ <<a, b, c, d>> \in Seq({a, b, c, d}) /\ Range(<<a, b, c, d>>) = {a, b, c, d}
         /\ <<>> \in Seq({}) /\ Range(<<>>) = {}
BY DEF Range

LEMMA EntryIsEntry ==
  ASSUME NEW s \in Workspaces, NEW mod, NEW file, NEW key, NEW port \in Nat, NEW to
  PROVE  IsEntry(EntryAt(s, mod, file, key, port, to))
BY DEF IsEntry, EntryAt

(* What the edits of an action, or of a run with one action, have to be.      *)
Sound(s, ws) ==
  /\ ws \in Seq(Range(ws))
  /\ \A w \in Range(ws) : IsEntry(w) /\ w.of = s /\ Grounded(w)
  /\ ClaimsAreFree(ws) /\ EnvInStep(ws) /\ LedInOrder(ws) /\ ReachedInOrder(ws)

(* Their order matters for few files. *)
Ordered ==
  CodeFolders \cup InBarrels \cup {"src/pages", "router.tsx", "route", "index.ts", "barrel",
    "grafana-statefulset.yaml", "rsbuild.config.ts", ".env.sample", ".env"}
LEMMA Unordered ==
  ASSUME NEW s, NEW ws, ws \in Seq(Range(ws)), (Len(ws) = 1 \/ \A w \in Range(ws) : w.file \notin Added),
         \A w \in Range(ws) : IsEntry(w) /\ w.of = s /\ Grounded(w) /\ w.file \notin Ordered
  PROVE  Sound(s, ws)
<1>1. \A i \in DOMAIN ws : ws[i].file \notin Ordered /\ (ws[i].file \in Added => i = 1)
  BY DEF Range
<1>2. ClaimsAreFree(ws) /\ EnvInStep(ws)
  BY <1>1 DEF Ordered, ClaimsAreFree, EnvInStep, ClaimingFiles
<1>3. LedInOrder(ws)
  BY <1>1 DEF Ordered, LedInOrder, Led
<1>4. ReachedInOrder(ws)
  BY <1>1 DEF Ordered, ReachedInOrder
<1> QED BY <1>2, <1>3, <1>4 DEF Sound

LEMMA PlainEdits ==
  ASSUME NEW S, NEW ws \in Seq(S), \A w \in Range(ws) : Plain(w) /\ w.of = run.of
  PROVE  Sound(run.of, ws) /\ \A w \in Range(ws) : Owned(w)'
<1>1. \A w \in Range(ws) : w.file \notin Added /\ w.file \notin Ordered
  BY DEF Plain, Special, Ordered
<1>2. \A w \in Range(ws) : IsEntry(w) /\ Grounded(w)
  BY DEF Plain, IsContainerPort, Special, Grounded, Backed, Marked, OfDatabase, Said, Added
<1>3. \A w \in Range(ws) : Owned(w)'
  BY DEF Plain, Special, Owned, Added
<1> QED BY <1>1, <1>2, <1>3, IsSequence, Unordered

(* .env.sample, then .env, with a port that is free: a server that has the    *)
(* variable without the driver has had a run stopped.                        *)
LEMMA EnvEdits ==
  ASSUME IInv, NEW var, NEW p \in Nat, run.of \in Workspaces,
         p # 0 => /\ p \notin Claimed(".env.sample", var)
                  /\ (StoppedOn(run.of) \/ ~Has(run.of, ".env.sample", var)),
         var = "DB_PORT" => Has(run.of, "prisma.config.ts", "file"),
         NEW ws, ws = AppendEnv(run.of, var, p)
  PROVE  /\ Sound(run.of, ws)
         /\ PortEntry(run.of, ".env.sample", var, p) \in Range(ws)
         /\ \A w \in Range(ws) : w.file \in {".env.sample", ".env"} /\ w.key = var
<1> DEFINE e == PortEntry(run.of, ".env.sample", var, p)
           f == PortEntry(run.of, ".env", var, p)
<1>1. ws = <<e>> \/ ws = <<e, f>>
  BY ConcatTwo DEF AppendEnv
<1>2. /\ e.of = run.of /\ e.file = ".env.sample" /\ e.key = var /\ e.port = p /\ IsEntry(e)
      /\ f.of = run.of /\ f.file = ".env" /\ f.key = var /\ f.port = p /\ IsEntry(f)
  BY EntryIsEntry DEF PortEntry, EntryAt
<1> HIDE DEF e, f
<1>3. ws \in Seq(Range(ws)) /\ e \in Range(ws) /\ Range(ws) \subseteq {e, f}
  <2>1. /\ <<e>> \in Seq(Range(<<e>>)) /\ Range(<<e>>) = {e}
        /\ <<e, f>> \in Seq(Range(<<e, f>>)) /\ Range(<<e, f>>) = {e, f}
    BY Tuples
  <2> QED BY <1>1, <2>1
<1>4. \A w \in Range(ws) : Grounded(w)
  BY <1>2, <1>3 DEF Grounded, Backed, Marked, OfDatabase, Said
<1>5. /\ ws[1] = e /\ DOMAIN ws \in {{1}, {1, 2}} /\ (2 \in DOMAIN ws => ws[2] = f)
  BY <1>1
<1>6. ClaimsAreFree(ws)
  BY <1>2, <1>5 DEF ClaimsAreFree, ClaimingFiles
<1>7. EnvInStep(ws)
  <2> SUFFICES ASSUME 2 \in DOMAIN ws, p # 0, ~StoppedOn(run.of)
               PROVE  ~Present(e)
    BY <1>2, <1>5 DEF EnvInStep
  <2> QED BY <1>2 DEF Present, Finds, Has
<1>8. LedInOrder(ws)
  BY <1>2, <1>5 DEF LedInOrder, Led
<1>9. ReachedInOrder(ws)
  BY <1>2, <1>5 DEF ReachedInOrder, CodeFolders, InBarrels, PieceFolders, Added
<1> QED BY <1>2, <1>3, <1>4, <1>6, <1>7, <1>8, <1>9 DEF Sound, e

-----------------------------------------------------------------------------
(* The next action *)

LEMMA ActionsDiffer ==
  ASSUME NEW g \in ServerSide
  PROVE  /\ Len(ActionsOf(g)) \in Nat /\ DOMAIN ActionsOf(g) = 1 .. Len(ActionsOf(g))
         /\ \A i, j \in DOMAIN ActionsOf(g) : ActionsOf(g)[i] = ActionsOf(g)[j] => i = j
<1>1. CASE g = "grpc"
  BY <1>1 DEF ActionsOf, GrpcActions
<1>2. CASE g = "graphql"
  BY <1>2 DEF ActionsOf, GraphqlActions
<1>3. CASE g = "kafka"
  BY <1>3 DEF ActionsOf, KafkaActions
<1>4. CASE g = "cron"
  BY <1>4 DEF ActionsOf, CronActions
<1>5. CASE g = "database"
  BY <1>5 DEF ActionsOf, DatabaseActions
<1>6. CASE g = "redis"
  BY <1>6 DEF ActionsOf, RedisActions
<1>7. CASE g = "secrets"
  BY <1>7 DEF ActionsOf, SecretsActions
<1> QED
  BY <1>1, <1>2, <1>3, <1>4, <1>5, <1>6, <1>7 DEF ServerSide, Drivers, Extensions

LEMMA ActionsAreSequences ==
  ASSUME NEW g \in ServerSide PROVE ActionsOf(g) \in Seq(Range(ActionsOf(g)))
<1> USE DEF ActionsOf, Range
<1>1. ActionsOf("grpc") \in Seq(Range(ActionsOf("grpc")))
  BY DEF GrpcActions
<1>2. ActionsOf("graphql") \in Seq(Range(ActionsOf("graphql")))
  BY DEF GraphqlActions
<1>3. ActionsOf("kafka") \in Seq(Range(ActionsOf("kafka")))
  BY DEF KafkaActions
<1>4. ActionsOf("cron") \in Seq(Range(ActionsOf("cron")))
  BY DEF CronActions
<1>5. ActionsOf("database") \in Seq(Range(ActionsOf("database")))
  BY DEF DatabaseActions
<1>6. ActionsOf("redis") \in Seq(Range(ActionsOf("redis")))
  BY DEF RedisActions
<1>7. ActionsOf("secrets") \in Seq(Range(ActionsOf("secrets")))
  BY DEF SecretsActions
<1> QED
  BY <1>1, <1>2, <1>3, <1>4, <1>5, <1>6, <1>7 DEF ServerSide, Drivers, Extensions

(* It is the n-th of the run's list: those before it have begun, and no more. *)
Turn(A, n) ==
  /\ Head(todo) = A[n]
  /\ \A i \in DOMAIN A : (Begun(A[i]) <=> i < n) /\ (Begun(A[i])' <=> i <= n)

LEMMA TurnOfAction ==
  ASSUME IInv, BeginAction
  PROVE  /\ run.gen \in ServerSide /\ run.of \in Workspaces /\ writes = <<>> /\ Pending = {}
         /\ UNCHANGED <<repo, side, run, runs, done, stopped>> /\ ~IsIdle
         /\ InTurn' /\ todo' \in Seq(Range(todo'))
         /\ \E n \in DOMAIN ActionsOf(run.gen) : Turn(ActionsOf(run.gen), n)
<1> USE DEF IInv
<1>0. PICK A : A = ActionsOf(run.gen)
  OBVIOUS
<1>1. /\ writes = <<>> /\ todo # <<>> /\ todo' = Tail(todo)
      /\ UNCHANGED <<repo, side, run, runs, done, stopped>>
  BY DEF BeginAction
<1>2. run.gen \in ServerSide /\ ~IsIdle
  BY <1>1 DEF InTurn
<1>3. run.of \in Workspaces
  BY <1>2 DEF TypeOK, IsRun
<1>4. /\ Len(A) \in Nat /\ DOMAIN A = 1 .. Len(A)
      /\ \A i, j \in DOMAIN A : A[i] = A[j] => i = j
  BY <1>0, <1>2, ActionsDiffer
<1>5. /\ todo \in Seq(Range(todo)) /\ Len(todo) <= Len(A)
      /\ \A i \in DOMAIN todo : todo[i] = A[Len(A) - Len(todo) + i]
  BY <1>0, <1>2 DEF TypeOK, InTurn
<1>6. /\ Len(todo) \in Nat \ {0} /\ DOMAIN todo = 1 .. Len(todo) /\ Head(todo) = todo[1]
      /\ todo' \in Seq(Range(todo)) /\ Len(todo') = Len(todo) - 1
      /\ DOMAIN todo' = 1 .. (Len(todo) - 1)
      /\ \A i \in DOMAIN todo' : todo'[i] = todo[i + 1]
  BY <1>1, <1>5
<1>7. \A i \in DOMAIN todo' : todo'[i] = A[Len(A) - Len(todo') + i]
  <2> SUFFICES ASSUME NEW i \in DOMAIN todo' PROVE todo'[i] = A[Len(A) - Len(todo') + i]
    OBVIOUS
  <2>1. /\ i \in Nat /\ i + 1 \in DOMAIN todo
        /\ Len(A) - Len(todo) + (i + 1) = Len(A) - Len(todo') + i
    BY <1>4, <1>6
  <2>2. todo[i + 1] = A[Len(A) - Len(todo) + (i + 1)]
    BY <1>5, <2>1
  <2> QED BY <1>6, <2>1, <2>2
<1>8. InTurn'
  BY <1>0, <1>1, <1>2, <1>4, <1>5, <1>6, <1>7 DEF InTurn, IsIdle, IsServer, Has
<1>9. todo' \in Seq(Range(todo'))
  BY <1>6, IsSequence
<1> DEFINE n == Len(A) - Len(todo) + 1
<1>10. n \in DOMAIN A /\ Head(todo) = A[n]
  BY <1>4, <1>5, <1>6
<1>11. ASSUME NEW i \in DOMAIN A
       PROVE  Begun(A[i]) <=> i < n
  <2>1. CASE i < n
    <3>1. \A j \in DOMAIN todo : todo[j] # A[i]
      BY <2>1, <1>4, <1>5, <1>6
    <3> QED BY <2>1, <3>1 DEF Begun, Range
  <2>2. CASE ~(i < n)
    <3>1. i - n + 1 \in DOMAIN todo /\ todo[i - n + 1] = A[i]
      BY <2>2, <1>4, <1>5, <1>6
    <3> QED BY <2>2, <3>1 DEF Begun, Range
  <2> QED BY <2>1, <2>2
<1>12. ASSUME NEW i \in DOMAIN A
       PROVE  (A[i] \notin Range(todo')) <=> i <= n
  <2>1. CASE i <= n
    <3>1. \A j \in DOMAIN todo' : todo'[j] # A[i]
      BY <2>1, <1>4, <1>5, <1>6, <1>7
    <3> QED BY <2>1, <3>1 DEF Range
  <2>2. CASE ~(i <= n)
    <3>1. i - n \in DOMAIN todo' /\ todo'[i - n] = A[i]
      BY <2>2, <1>4, <1>5, <1>6, <1>7
    <3> QED BY <2>2, <3>1 DEF Range
  <2> QED BY <2>1, <2>2
<1>13. Turn(A, n)
  BY <1>10, <1>11, <1>12 DEF Turn, Begun
<1>14. Pending = {}
  BY <1>1 DEF Pending, Range
<1> HIDE DEF n
<1> QED BY <1>0, <1>1, <1>2, <1>3, <1>8, <1>9, <1>10, <1>13, <1>14

(* What the edits `ws` of the action `a` that begins have to be. *)
Begins(a, ws) ==
  /\ Sound(run.of, ws)
  /\ \A w \in Leaves(a, run.of) : Present(w) \/ \E x \in Range(ws) : Finds(x, w)
  /\ \A w \in Range(ws) : Owned(w)'
  /\ \A w \in Range(ws) : IsContainerPort(w) => w.to = PortsContainer(run.of)
Exposes(g, ws) ==
  \E p \in Nat : /\ Says(run.of, PortVarOf[g], p)
                 /\ \E x \in Range(ws) : Finds(x, OwnPort(run.of, p))

(* A port goes to the container that the ports of the server are in.          *)
LEMMA PortsContainerIsOne ==
  ASSUME OneContainer, NEW s
  PROVE  /\ PortsContainer(s) = "app" \/ HasInitContainer(s)
         /\ \A e \in repo : IsContainerPort(e) /\ e.of = s => e.to = PortsContainer(s)
<1>1. CASE ContainerPorts(s) # {}
  <2>1. PICK e \in ContainerPorts(s) : PortsContainer(s) = e.to
    BY <1>1 DEF PortsContainer
  <2> QED BY <2>1 DEF OneContainer, ContainerPorts, IsContainerPort
<1>2. CASE ContainerPorts(s) = {}
  BY <1>2 DEF PortsContainer, PortsBelowImage, ContainerPorts, IsContainerPort
<1> QED BY <1>1, <1>2

LEMMA BeginKeeps ==
  ASSUME IInv, BeginAction, Begins(Head(todo), writes'),
         Head(todo) = "prisma.config.ts" => \E w \in Pending' : w.file = "prisma.config.ts",
         \A g \in {"grpc", "graphql"} :
           run.gen = g /\ Head(todo) = WiresHelm[g] => Exposes(g, writes')
  PROVE  IInv'
<1> USE DEF IInv
<1>0. PICK A : A = ActionsOf(run.gen)
  OBVIOUS
<1>1. PICK n \in DOMAIN A : Turn(A, n)
  BY <1>0, TurnOfAction
<1>2. /\ run.gen \in ServerSide /\ run.of \in Workspaces /\ writes = <<>> /\ Pending = {}
      /\ UNCHANGED <<repo, side, run, runs, done, stopped>> /\ ~IsIdle
      /\ InTurn' /\ todo' \in Seq(Range(todo'))
  BY TurnOfAction
<1>3. Sound(run.of, writes')
  BY DEF Begins
<1>4. \A a : Begun(a) => Begun(a)'
  <2>1. \A a : a \in Range(todo') => a \in Range(todo)
    <3> SUFFICES ASSUME NEW i \in DOMAIN todo' PROVE todo'[i] \in Range(todo)
      BY DEF Range
    <3>1. todo \in Seq(Range(todo)) /\ todo # <<>> /\ todo' = Tail(todo)
      BY DEF TypeOK, BeginAction
    <3>2. todo' \in Seq(Range(todo))
      BY <3>1
    <3> QED BY <3>2
  <2> QED BY <2>1 DEF Begun
<1>5. TypeOK'
  BY <1>2, <1>3 DEF Sound, TypeOK, IsIdle, IsRun, IsEntry
<1>6. BegunIsSettled'
  <2> SUFFICES ASSUME NEW a \in Range(A), Begun(a)', NEW w \in Leaves(a, run.of)
               PROVE  Present(w) \/ \E x \in Pending' : Finds(x, w)
    BY <1>0, <1>2, Zenon DEF BegunIsSettled, Settled, Present, Begun
  <2>1. PICK i \in DOMAIN A : a = A[i]
    BY DEF Range
  <2>2. CASE Begun(a)
    BY <2>2, <1>0, <1>2, BegunIsMade
  <2>3. CASE ~Begun(a)
    <3>1. \A j \in DOMAIN A : j \in Int
      BY <1>0, <1>2, ActionsDiffer
    <3>2. i = n
      BY <2>1, <2>3, <3>1, <1>1 DEF Turn
    <3>3. a = Head(todo)
      BY <2>1, <3>2, <1>1 DEF Turn
    <3> QED BY <3>3 DEF Begins, Pending
  <2> QED BY <2>2, <2>3
<1>7. AllGrounded'
  <2>1. \A e \in repo' \cup Pending' : Grounded(e)
    BY <1>2, <1>3 DEF AllGrounded, Sound, Pending
  <2> QED BY <2>1, <1>2, GroundedStays DEF AllGrounded
<1>8. AllOwned'
  BY DEF Begins, AllOwned, Pending
<1>9. AloneInDatabase'
  <2> SUFFICES ASSUME run.gen = "database", Begun("prisma.config.ts")',
                      \A w \in Pending' : w.file # "prisma.config.ts",
                      NEW e \in repo, e.of = run.of
               PROVE  /\ e.file = ".env.sample" /\ e.key = "DB_PORT" => Begun("appendDatabaseEnv")
                      /\ e.file = "infra/helm" => Begun("scaffoldDatabaseInfraChart")
                      /\ e.file = "env.yaml" => Begun("injectDatabaseEnvYaml")
    BY <1>2, <1>4 DEF AloneInDatabase
  <2>1. A[1] = "prisma.config.ts" /\ 1 \in DOMAIN A /\ DOMAIN A \subseteq Nat
    BY <1>0 DEF ActionsOf, DatabaseActions
  <2>2. n # 1
    BY <2>1, <1>1 DEF Turn
  <2>3. Begun("prisma.config.ts")
    BY <2>1, <2>2, <1>1 DEF Turn
  <2> QED BY <2>3, <1>2 DEF AloneInDatabase
<1>10. AloneInSecrets' /\ PortsComeWithDrivers'
  <2>1. AloneInSecrets'
    BY <1>2, <1>4 DEF AloneInSecrets
  <2>2. PortsComeWithDrivers'
    BY <1>2, <1>4 DEF PortsComeWithDrivers, By, Has, HasDriver, StoppedOn
  <2> QED BY <2>1, <2>2
<1>11. PortsAreDistinct' /\ SampleIsDefinite' /\ EnvFollows' /\ AllLed'
  BY <1>2 DEF PortsAreDistinct, Claims, SampleIsDefinite, EnvFollows, StoppedOn, Says, AllLed
<1>12. ClaimsAreFree(writes)' /\ EnvInStep(writes)' /\ LedInOrder(writes)' /\ ReachedInOrder(writes)'
  BY <1>2, <1>3 DEF Sound, ClaimsAreFree, Claimed, EnvInStep, StoppedOn, Says, Present,
                    LedInOrder, ReachedInOrder, Routed, Has
<1>13. WillBeReached'
  BY <1>2 DEF WillBeReached, Unreached, StoppedOn, HasFile, Has, Exported
<1>14. DoneMeansWired'
  BY <1>2, WiredStays DEF DoneMeansWired
<1>15. OneContainer'
  <2>1. \A w \in Pending' : IsContainerPort(w) => w.of = run.of /\ w.to = PortsContainer(run.of)
    BY <1>3 DEF Begins, Sound, Pending
  <2>2. \A s : HasInitContainer(s)' = HasInitContainer(s)
    BY <1>2 DEF HasInitContainer
  <2>3. \A e \in repo' \cup Pending' : IsContainerPort(e) =>
          /\ e.to = "app" \/ HasInitContainer(e.of)
          /\ \A f \in repo' \cup Pending' : IsContainerPort(f) /\ f.of = e.of => f.to = e.to
    BY <1>2, <2>1, PortsContainerIsOne DEF OneContainer
  <2> QED BY <2>2, <2>3 DEF OneContainer
<1>16. OwnPortIsSettled'
  <2> SUFFICES ASSUME NEW g \in {"grpc", "graphql"}, run.gen = g, Begun(WiresHelm[g])'
               PROVE  \E p \in Nat : /\ Says(run.of, PortVarOf[g], p)
                                     /\ \/ Present(OwnPort(run.of, p))
                                        \/ \E x \in Pending' : Finds(x, OwnPort(run.of, p))
    BY <1>2 DEF OwnPortIsSettled, Settled, Present, Says, OwnPort
  <2>1. CASE Begun(WiresHelm[g])
    BY <2>1, <1>2 DEF OwnPortIsSettled, Settled
  <2>2. CASE ~Begun(WiresHelm[g])
    <3>1. WiresHelm[g] \in Range(A)
      BY <1>0, NoOneActionIsServerSide DEF WiresHelm, ActionsOf, GrpcActions, GraphqlActions, Range
    <3>2. PICK i \in DOMAIN A : WiresHelm[g] = A[i]
      BY <3>1 DEF Range
    <3>3. \A j \in DOMAIN A : j \in Int
      BY <1>0, <1>2, ActionsDiffer
    <3>4. i = n
      BY <2>2, <3>2, <3>3, <1>1 DEF Turn
    <3>5. WiresHelm[g] = Head(todo)
      BY <3>2, <3>4, <1>1 DEF Turn
    <3> QED BY <3>5 DEF Exposes, Pending
  <2> QED BY <2>1, <2>2
<1> QED
  BY <1>2, <1>5, <1>6, <1>7, <1>8, <1>9, <1>10, <1>11, <1>12, <1>13, <1>14, <1>15, <1>16

LEMMA EntryPresentIsHas ==
  ASSUME NEW s, NEW file, NEW key, file # "grafana-configmap.yaml"
  PROVE  /\ Present(Entry(s, file, key)) => Has(s, file, key)
         /\ file \notin PerModule /\ file # "deployment.yaml" =>
              (Has(s, file, key) => Present(Entry(s, file, key)))
BY DEF Present, Finds, Has, Entry, EntryAt, PerModule

(* The kinds of actions *)

LEMMA PlainBegins ==
  ASSUME NEW S, NEW ws \in Seq(S), \A w \in Range(ws) : Plain(w) /\ w.of = run.of, NEW a,
         \A w \in Leaves(a, run.of) : \E x \in Range(ws) : Finds(x, w)
  PROVE  Begins(a, ws)
BY PlainEdits DEF Begins, Plain

LEMMA OnePlain ==
  ASSUME run.of \in Workspaces, NEW file, NEW key, file \notin Special, file # "deployment.yaml",
         NEW a, Leaves(a, run.of) \subseteq {Entry(run.of, file, key)}
  PROVE  Begins(a, <<Entry(run.of, file, key)>>)
<1> DEFINE e == Entry(run.of, file, key)
<1>1. Plain(e) /\ e.of = run.of
  BY EntryIsEntry DEF Entry, EntryAt, Plain, IsContainerPort
<1> HIDE DEF e
<1>2. <<e>> \in Seq({e}) /\ Range(<<e>>) = {e}
  BY Tuples
<1>3. \A w \in Leaves(a, run.of) : Finds(e, w)
  BY FindsItself DEF e
<1>4. Begins(a, <<e>>)
  BY <1>1, <1>2, <1>3, PlainBegins
<1> QED BY <1>4 DEF e

LEMMA PlainFiles ==
  {"schema.proto", "buf.gen.yaml", "package.json", "schema.graphql", "codegen.ts", "kafka-env.yaml",
   "deployment.yaml", "Dockerfile", "values.yaml", "grafana-datasources.yaml",
   "grafana-configmap.yaml", "redis.yaml", "config/prometheus.yml", "files/prometheus.yml"}
    \cap Special = {}
BY DEF Special, CodeFolders, InBarrels, PieceFolders, Added

LEMMA EnvBegins ==
  ASSUME IInv, NEW var, NEW p \in Nat, run.of \in Workspaces, Pending = {},
         p # 0 => /\ p \notin Claimed(".env.sample", var)
                  /\ (StoppedOn(run.of) \/ ~Has(run.of, ".env.sample", var)),
         var = "DB_PORT" => Has(run.of, "prisma.config.ts", "file"),
         \A w : w.file \in {".env.sample", ".env"} /\ w.key = var => Owned(w)',
         NEW a, Leaves(a, run.of) = {Entry(run.of, ".env.sample", var)}
  PROVE  Begins(a, AppendEnv(run.of, var, p))
<1> PICK ws : ws = AppendEnv(run.of, var, p)
  OBVIOUS
<1>1. /\ Sound(run.of, ws)
      /\ PortEntry(run.of, ".env.sample", var, p) \in Range(ws)
      /\ \A w \in Range(ws) : w.file \in {".env.sample", ".env"} /\ w.key = var
  BY EnvEdits
<1>2. Finds(PortEntry(run.of, ".env.sample", var, p), Entry(run.of, ".env.sample", var))
  BY DEF Finds, Entry, PortEntry, EntryAt, PerModule
<1> QED BY <1>1, <1>2 DEF Begins, IsContainerPort

(* The port of a driver: a server that has it without the driver has had a    *)
(* run stopped.                                                              *)
LEMMA DriverPortBegins ==
  ASSUME IInv, NEW g \in {"grpc", "graphql"}, run.gen = g, run'.gen = g, run.of \in Workspaces,
         Pending = {}, ~Begun(Appends[g]), Begun(Appends[g])', ~Begun(Injects[g]),
         NEW p \in FreePorts(Appends[g]),
         Leaves(Appends[g], run.of) = {Entry(run.of, ".env.sample", PortVarOf[g])}
  PROVE  Begins(Appends[g], AppendEnv(run.of, PortVarOf[g], p))
<1>1. p \in Nat /\ p \notin Claimed(".env.sample", PortVarOf[g])
  BY DEF FreePorts, PortVar, DefaultPort, LowestFree, PortVarOf, Appends
<1>2. StoppedOn(run.of) \/ ~Has(run.of, ".env.sample", PortVarOf[g])
  BY DEF IInv, PortsComeWithDrivers, By
<1>3. PortVarOf[g] \in {"GRPC_PORT", "GRAPHQL_PORT"}
  BY DEF PortVarOf
<1>4. \A w : w.file \in {".env.sample", ".env"} /\ w.key = PortVarOf[g] => Owned(w)'
  BY <1>3 DEF Owned, By, PortVarOf, Added
<1> QED BY <1>1, <1>2, <1>3, <1>4, EnvBegins

(* What app.ts is given is backed by the actions before. *)
LEMMA AppBegins ==
  ASSUME run.of \in Workspaces, NEW driver, \A w \in Backing(driver, run.of) : Present(w),
         \A g \in {"grpc", "graphql"} : driver = DriverName[g] => By(g, Injects[g])',
         NEW a, Leaves(a, run.of) = {Entry(run.of, "app.ts", driver)}
  PROVE  Begins(a, <<Entry(run.of, "app.ts", driver)>>)
<1> PICK e : e = Entry(run.of, "app.ts", driver)
  OBVIOUS
<1>1. IsEntry(e) /\ e.of = run.of /\ e.file = "app.ts" /\ e.key = driver
  BY EntryIsEntry DEF Entry, EntryAt
<1>2. <<e>> \in Seq(Range(<<e>>)) /\ Range(<<e>>) = {e} /\ Len(<<e>>) = 1
  BY Tuples
<1>3. Grounded(e)
  BY <1>1 DEF Grounded, Backed, Marked, OfDatabase, Said
<1>4. e.file \notin Ordered
  BY <1>1 DEF Ordered, CodeFolders, InBarrels, PieceFolders
<1>5. Sound(run.of, <<e>>)
  BY <1>1, <1>2, <1>3, <1>4, Unordered
<1>6. Owned(e)'
  BY <1>1 DEF Owned, Added
<1>7. Begins(a, <<e>>)
  BY <1>1, <1>2, <1>5, <1>6, FindsItself DEF Begins, IsContainerPort
<1> QED BY <1>7

LEMMA PortOfIsSaid ==
  ASSUME TypeOK, NEW s, NEW var, Has(s, ".env.sample", var)
  PROVE  Says(s, var, PortOf(s, var)) /\ PortOf(s, var) \in Nat
<1> DEFINE e == CHOOSE e \in repo : e.of = s /\ e.file = ".env.sample" /\ e.key = var
<1>1. e \in repo /\ e.of = s /\ e.file = ".env.sample" /\ e.key = var
  BY DEF Has
<1>2. e.port \in Nat
  BY <1>1 DEF TypeOK, IsEntry
<1> QED BY <1>1, <1>2 DEF Says, PortOf

(* A chart speaks of a port that .env.sample gives. *)
LEMMA ChartBegins ==
  ASSUME run.of \in Workspaces, NEW file, NEW var, NEW env, NEW port \in Nat,
         \/ file = "grpc-env.yaml" /\ var = "GRPC_PORT"
         \/ file = "graphql-env.yaml" /\ var = "GRAPHQL_PORT",
         env # "containerPort", Says(run.of, var, port),
         NEW a, Leaves(a, run.of) = Chart(run.of, file, env)
  PROVE  /\ Begins(a, WireHelm(run.of, file, port, env))
         /\ \E x \in Range(WireHelm(run.of, file, port, env)) : Finds(x, OwnPort(run.of, port))
<1> DEFINE s == run.of
           service == PortEntry(s, file, "Service", port)
           its == WireContainerPort(s, port)
           env1 == WireConfigMap(s, env)
           health == WireContainerPort(s, HealthPort)
           job1 == Entry(s, "config/prometheus.yml", "health")
           job2 == Entry(s, "files/prometheus.yml", "health")
           All == {service, its, env1, health, job1, job2}
<1> PICK ws : ws = WireHelm(run.of, file, port, env)
  OBVIOUS
<1> USE EntryIsEntry DEF Entry, PortEntry, WireConfigMap, WireContainerPort, HealthPort
<1>1. /\ IsEntry(service) /\ service.of = s /\ service.file = file /\ service.key = "Service"
      /\ service.port = port
      /\ IsEntry(its) /\ its.of = s /\ its.file = "deployment.yaml" /\ its.key = "containerPort"
      /\ its.port = port
  BY DEF EntryAt
<1>2. /\ IsEntry(env1) /\ env1.of = s /\ env1.file = "deployment.yaml" /\ env1.key = env
      /\ IsEntry(health) /\ health.of = s /\ health.file = "deployment.yaml"
      /\ health.key = "containerPort" /\ health.port = HealthPort
  <2>1. IsEntry(env1)
    BY DEF EntryAt, IsEntry
  <2>2. IsEntry(health)
    BY DEF EntryAt, IsEntry
  <2> QED BY <2>1, <2>2 DEF EntryAt
<1>3. /\ IsEntry(job1) /\ job1.of = s /\ job1.file = "config/prometheus.yml" /\ job1.key = "health"
      /\ IsEntry(job2) /\ job2.of = s /\ job2.file = "files/prometheus.yml" /\ job2.key = "health"
  BY DEF EntryAt
<1>4. \A w \in Chart(s, file, env) : \E x \in All : Finds(x, w)
  BY DEF Chart, Finds, EntryAt, PerModule
<1>13. /\ Finds(its, OwnPort(s, port))
       /\ \A w \in All : IsContainerPort(w) => w.to = PortsContainer(s)
  <2>1. Finds(its, OwnPort(s, port)) /\ its.to = PortsContainer(s) /\ health.to = PortsContainer(s)
    BY DEF OwnPort, Finds, EntryAt, PerModule
  <2>2. \A w \in {service, env1, job1, job2} : ~IsContainerPort(w)
    BY DEF IsContainerPort, EntryAt
  <2> QED BY <2>1, <2>2
<1>5. ws = <<service, its, env1, health>> \o <<job1, job2>>
  BY DEF WireHelm, WirePrometheusJob
<1> HIDE DEF s, service, its, env1, health, job1, job2
<1>6. ws \in Seq(Range(ws)) /\ Range(ws) = All
  <2>1. PICK t : t = <<service, its, env1, health>>
    OBVIOUS
  <2>2. PICK u : u = <<job1, job2>>
    OBVIOUS
  <2>3. t \in Seq(All) /\ u \in Seq(All)
    BY <2>1, <2>2
  <2>4. Range(t) = {service, its, env1, health} /\ Range(u) = {job1, job2}
    BY <2>1, <2>2 DEF Range
  <2>5. ws = t \o u
    BY <1>5, <2>1, <2>2
  <2> HIDE DEF All
  <2>6. ws \in Seq(All) /\ Range(ws) = Range(t) \cup Range(u)
    BY <2>3, <2>5, ConcatRange
  <2> QED BY <2>4, <2>6, IsSequence DEF All
<1>7. \A w \in All : w.file \notin Added /\ w.file \notin Ordered
  BY <1>1, <1>2, <1>3 DEF Ordered, Added, CodeFolders, InBarrels, PieceFolders
<1>8. Grounded(service) /\ Grounded(its)
  BY <1>1 DEF s, Grounded, Backed, Marked, OfDatabase, Said
<1>9. Grounded(env1) /\ Grounded(health) /\ Grounded(job1) /\ Grounded(job2)
  BY <1>2, <1>3 DEF Grounded, Backed, Marked, OfDatabase, Said
<1>10. \A w \in All : Owned(w)'
  BY <1>1, <1>2, <1>3 DEF Owned, Added
<1>11. \A w \in Range(ws) : IsEntry(w) /\ w.of = run.of
  BY <1>1, <1>2, <1>3, <1>6 DEF s
<1>12. Sound(run.of, ws)
  <2>1. \A w \in Range(ws) : Grounded(w) /\ w.file \notin Ordered /\ w.file \notin Added
    BY <1>6, <1>7, <1>8, <1>9
  <2> QED BY <1>6, <1>11, <2>1, Unordered
<1> QED BY <1>4, <1>6, <1>10, <1>12, <1>13 DEF Begins, s

LEMMA SupergraphBegins ==
  ASSUME run.of \in Workspaces, NEW port \in Nat, Says(run.of, "GRAPHQL_PORT", port),
         NEW a, Leaves(a, run.of) =
                  IF HasSupergraph THEN {Entry(run.of, "supergraph.yaml", "subgraph")} ELSE {}
  PROVE  Begins(a, IF HasSupergraph THEN <<PortEntry(run.of, "supergraph.yaml", "subgraph", port)>>
                                    ELSE <<>>)
<1>1. CASE HasSupergraph
  <2>1. PICK e : e = PortEntry(run.of, "supergraph.yaml", "subgraph", port)
    OBVIOUS
  <2>2. /\ IsEntry(e) /\ e.of = run.of /\ e.file = "supergraph.yaml" /\ e.port = port
        /\ Finds(e, Entry(run.of, "supergraph.yaml", "subgraph"))
    BY <2>1, EntryIsEntry DEF Entry, PortEntry, EntryAt, Finds, PerModule
  <2>3. Grounded(e) /\ e.file \notin Ordered
    BY <2>2 DEF Grounded, Backed, Marked, OfDatabase, Said, Ordered, CodeFolders, InBarrels,
                PieceFolders
  <2>4. <<e>> \in Seq(Range(<<e>>)) /\ Range(<<e>>) = {e} /\ Len(<<e>>) = 1
    BY Tuples
  <2>5. Sound(run.of, <<e>>)
    BY <2>2, <2>3, <2>4, Unordered
  <2>6. Owned(e)'
    BY <2>2 DEF Owned, Added
  <2> QED BY <1>1, <2>1, <2>2, <2>4, <2>5, <2>6 DEF Begins, IsContainerPort
<1>2. CASE ~HasSupergraph
  <2>1. <<>> \in Seq({}) /\ Range(<<>>) = {}
    BY Tuples
  <2> QED BY <1>2, <2>1, PlainBegins
<1> QED BY <1>1, <1>2

LEMMA PairBegins ==
  ASSUME NEW e, NEW f, \A w \in {e, f} : /\ IsEntry(w) /\ w.of = run.of /\ Grounded(w) /\ Owned(w)'
                                      /\ w.file \notin Special \ {"serviceaccount.yaml",
                                           "openbao-env.yaml", "env.yaml"}
                                      /\ ~IsContainerPort(w),
         NEW a, \A w \in Leaves(a, run.of) : Finds(e, w) \/ Finds(f, w)
  PROVE  Begins(a, <<e, f>>)
<1>1. <<e, f>> \in Seq(Range(<<e, f>>)) /\ Range(<<e, f>>) = {e, f}
  BY Tuples
<1>2. \A w \in {e, f} : w.file \notin Added /\ w.file \notin Ordered
  BY DEF Special, Ordered, Added, CodeFolders, InBarrels, PieceFolders
<1>3. Sound(run.of, <<e, f>>)
  BY <1>1, <1>2, Unordered
<1> QED BY <1>1, <1>3 DEF Begins

(* The generators, action by action *)

LEMMA LeftBehind ==
  ASSUME IInv, BeginAction, NEW A, A = ActionsOf(run.gen), NEW n \in DOMAIN A, Turn(A, n),
         NEW i \in DOMAIN A, i < n, NEW w \in Leaves(A[i], run.of)
  PROVE  Present(w)
<1>1. Begun(A[i]) /\ A[i] \in Range(A)
  BY DEF Turn, Range
<1> QED BY <1>1, TurnOfAction, BegunIsMade

LEMMA GrpcBegins ==
  ASSUME IInv, BeginAction, run.gen = "grpc", NEW p \in FreePorts(Head(todo))
  PROVE  /\ Begins(Head(todo), GrpcEdits(Head(todo), run.of, p))
         /\ Head(todo) = "wireGrpcHelm" => Exposes("grpc", GrpcEdits(Head(todo), run.of, p))
<1> DEFINE s == run.of
<1>1. /\ s \in Workspaces /\ Pending = {} /\ run'.gen = "grpc"
      /\ GrpcActions = ActionsOf(run.gen)
  BY TurnOfAction DEF ActionsOf
<1>2. PICK n \in DOMAIN GrpcActions : Turn(GrpcActions, n)
  BY <1>1, TurnOfAction
<1>3. \A i \in DOMAIN GrpcActions : i < n => \A w \in Leaves(GrpcActions[i], s) : Present(w)
  BY <1>1, <1>2, LeftBehind
<1>4. n \in 1 .. 6 /\ DOMAIN GrpcActions = 1 .. 6
  BY DEF GrpcActions
<1> USE DEF GrpcActions
<1>5. CASE n = 1
  <2>1. Head(todo) = "addGrpcProtoFile"
    BY <1>2, <1>5 DEF Turn
  <2>2. Leaves(Head(todo), s) = {}
    BY <2>1 DEF Leaves
  <2> QED BY <1>1, <2>1, <2>2, OnePlain, PlainFiles DEF GrpcEdits
<1>6. CASE n = 2
  <2>1. Head(todo) = "addGrpcBufGenYaml"
    BY <1>2, <1>6 DEF Turn
  <2>2. Leaves(Head(todo), s) = {}
    BY <2>1 DEF Leaves
  <2> QED BY <1>1, <2>1, <2>2, OnePlain, PlainFiles DEF GrpcEdits
<1>7. CASE n = 3
  <2>1. Head(todo) = "addGrpcPackageJson"
    BY <1>2, <1>7 DEF Turn
  <2>2. Leaves(Head(todo), s) = {MergePackageJson(s, "grpc")}
    BY <2>1 DEF Leaves
  <2> QED BY <1>1, <2>1, <2>2, OnePlain, PlainFiles DEF GrpcEdits, MergePackageJson
<1>8. CASE n = 4
  <2>1. Head(todo) = "appendGrpcPortEnv"
    BY <1>2, <1>8 DEF Turn
  <2>2. Leaves(Head(todo), s) = {Entry(s, ".env.sample", "GRPC_PORT")}
    BY <2>1 DEF Leaves
  <2>3. ~Begun("appendGrpcPortEnv") /\ Begun("appendGrpcPortEnv")' /\ ~Begun("injectGrpcDriver")
    BY <1>2, <1>4, <1>8 DEF Turn
  <2>4. Begins("appendGrpcPortEnv", AppendEnv(s, "GRPC_PORT", p))
    BY <1>1, <2>1, <2>2, <2>3, DriverPortBegins DEF Appends, Injects, PortVarOf
  <2> QED BY <2>1, <2>4 DEF GrpcEdits
<1>9. CASE n = 5
  <2>1. Head(todo) = "injectGrpcDriver"
    BY <1>2, <1>9 DEF Turn
  <2>2. Leaves(Head(todo), s) = {Entry(s, "app.ts", "GrpcDriver")}
    BY <2>1 DEF Leaves, InjectDriver
  <2>3. Begun("injectGrpcDriver")'
    BY <1>2, <1>4, <1>9 DEF Turn
  <2>4. Leaves("addGrpcPackageJson", s) = {MergePackageJson(s, "grpc")}
    BY DEF Leaves
  <2>5. Leaves("appendGrpcPortEnv", s) = {Entry(s, ".env.sample", "GRPC_PORT")}
    BY DEF Leaves
  <2>6. Backing("GrpcDriver", s)
          = {MergePackageJson(s, "grpc"), Entry(s, ".env.sample", "GRPC_PORT")}
    BY DEF Backing
  <2>7. \A w \in Backing("GrpcDriver", s) : Present(w)
    BY <1>3, <1>4, <1>9, <2>4, <2>5, <2>6
  <2>8. \A g \in {"grpc", "graphql"} : "GrpcDriver" = DriverName[g] => By(g, Injects[g])'
    BY <1>1, <2>3 DEF DriverName, By, Injects
  <2>9. Begins("injectGrpcDriver", <<Entry(s, "app.ts", "GrpcDriver")>>)
    BY <1>1, <2>1, <2>2, <2>7, <2>8, AppBegins
  <2> QED BY <2>1, <2>9 DEF GrpcEdits, InjectDriver
<1>10. CASE n = 6
  <2>1. Head(todo) = "wireGrpcHelm"
    BY <1>2, <1>10 DEF Turn
  <2>2. Leaves(Head(todo), s) = Chart(s, "grpc-env.yaml", "grpc-env")
    BY <2>1 DEF Leaves
  <2>3. Leaves("appendGrpcPortEnv", s) = {Entry(s, ".env.sample", "GRPC_PORT")}
    BY DEF Leaves
  <2>4. Has(s, ".env.sample", "GRPC_PORT")
    <3>1. Present(Entry(s, ".env.sample", "GRPC_PORT"))
      BY <1>3, <1>4, <1>10, <2>3
    <3> QED BY <3>1, EntryPresentIsHas
  <2>5. Says(s, "GRPC_PORT", PortOf(s, "GRPC_PORT")) /\ PortOf(s, "GRPC_PORT") \in Nat
    BY <2>4, PortOfIsSaid DEF IInv
  <2> DEFINE ws == WireHelm(s, "grpc-env.yaml", PortOf(s, "GRPC_PORT"), "grpc-env")
  <2>6. Begins(Head(todo), ws) /\ Exposes("grpc", ws)
    BY <1>1, <2>2, <2>5, ChartBegins DEF Exposes, PortVarOf
  <2> QED BY <2>1, <2>6 DEF GrpcEdits
<1> QED BY <1>4, <1>5, <1>6, <1>7, <1>8, <1>9, <1>10

LEMMA GraphqlBegins ==
  ASSUME IInv, BeginAction, run.gen = "graphql", NEW p \in FreePorts(Head(todo))
  PROVE  /\ Begins(Head(todo), GraphqlEdits(Head(todo), run.of, p))
         /\ Head(todo) = "wireGraphqlHelm" => Exposes("graphql", GraphqlEdits(Head(todo), run.of, p))
<1> DEFINE s == run.of
<1>1. /\ s \in Workspaces /\ Pending = {} /\ run'.gen = "graphql"
      /\ GraphqlActions = ActionsOf(run.gen)
  BY TurnOfAction DEF ActionsOf
<1>2. PICK n \in DOMAIN GraphqlActions : Turn(GraphqlActions, n)
  BY <1>1, TurnOfAction
<1>3. \A i \in DOMAIN GraphqlActions : i < n => \A w \in Leaves(GraphqlActions[i], s) : Present(w)
  BY <1>1, <1>2, LeftBehind
<1>4. n \in 1 .. 7 /\ DOMAIN GraphqlActions = 1 .. 7
  BY DEF GraphqlActions
<1> USE DEF GraphqlActions
<1>5. CASE n = 1
  <2>1. Head(todo) = "addGraphqlSchemaFile"
    BY <1>2, <1>5 DEF Turn
  <2>2. Leaves(Head(todo), s) = {}
    BY <2>1 DEF Leaves
  <2> QED BY <1>1, <2>1, <2>2, OnePlain, PlainFiles DEF GraphqlEdits
<1>6. CASE n = 2
  <2>1. Head(todo) = "addGraphqlCodegenConfig"
    BY <1>2, <1>6 DEF Turn
  <2>2. Leaves(Head(todo), s) = {Entry(s, "codegen.ts", "file")}
    BY <2>1 DEF Leaves
  <2> QED BY <1>1, <2>1, <2>2, OnePlain, PlainFiles DEF GraphqlEdits
<1>7. CASE n = 3
  <2>1. Head(todo) = "addGraphqlPackageJson"
    BY <1>2, <1>7 DEF Turn
  <2>2. Leaves(Head(todo), s) = {MergePackageJson(s, "graphql")}
    BY <2>1 DEF Leaves
  <2> QED BY <1>1, <2>1, <2>2, OnePlain, PlainFiles DEF GraphqlEdits, MergePackageJson
<1>8. CASE n = 4
  <2>1. Head(todo) = "appendGraphqlPortEnv"
    BY <1>2, <1>8 DEF Turn
  <2>2. Leaves(Head(todo), s) = {Entry(s, ".env.sample", "GRAPHQL_PORT")}
    BY <2>1 DEF Leaves
  <2>3. /\ ~Begun("appendGraphqlPortEnv") /\ Begun("appendGraphqlPortEnv")'
        /\ ~Begun("injectGraphqlDriver")
    BY <1>2, <1>4, <1>8 DEF Turn
  <2>4. Begins("appendGraphqlPortEnv", AppendEnv(s, "GRAPHQL_PORT", p))
    BY <1>1, <2>1, <2>2, <2>3, DriverPortBegins DEF Appends, Injects, PortVarOf
  <2> QED BY <2>1, <2>4 DEF GraphqlEdits
<1>9. CASE n = 5
  <2>1. Head(todo) = "injectGraphqlDriver"
    BY <1>2, <1>9 DEF Turn
  <2>2. Leaves(Head(todo), s) = {Entry(s, "app.ts", "ApolloDriver")}
    BY <2>1 DEF Leaves, InjectDriver
  <2>3. Begun("injectGraphqlDriver")'
    BY <1>2, <1>4, <1>9 DEF Turn
  <2>4. Leaves("addGraphqlPackageJson", s) = {MergePackageJson(s, "graphql")}
    BY DEF Leaves
  <2>5. Leaves("appendGraphqlPortEnv", s) = {Entry(s, ".env.sample", "GRAPHQL_PORT")}
    BY DEF Leaves
  <2>6. Backing("ApolloDriver", s)
          = {MergePackageJson(s, "graphql"), Entry(s, ".env.sample", "GRAPHQL_PORT")}
    BY DEF Backing
  <2>7. \A w \in Backing("ApolloDriver", s) : Present(w)
    BY <1>3, <1>4, <1>9, <2>4, <2>5, <2>6
  <2>8. \A g \in {"grpc", "graphql"} : "ApolloDriver" = DriverName[g] => By(g, Injects[g])'
    BY <1>1, <2>3 DEF DriverName, By, Injects
  <2>9. Begins("injectGraphqlDriver", <<Entry(s, "app.ts", "ApolloDriver")>>)
    BY <1>1, <2>1, <2>2, <2>7, <2>8, AppBegins
  <2> QED BY <2>1, <2>9 DEF GraphqlEdits, InjectDriver
<1>10. ASSUME n \in {6, 7}
       PROVE  Says(s, "GRAPHQL_PORT", PortOf(s, "GRAPHQL_PORT")) /\ PortOf(s, "GRAPHQL_PORT") \in Nat
  <2>1. Leaves("appendGraphqlPortEnv", s) = {Entry(s, ".env.sample", "GRAPHQL_PORT")}
    BY DEF Leaves
  <2>2. Present(Entry(s, ".env.sample", "GRAPHQL_PORT"))
    BY <1>3, <1>4, <1>10, <2>1
  <2> QED BY <2>2, EntryPresentIsHas, PortOfIsSaid DEF IInv
<1>11. CASE n = 6
  <2>1. Head(todo) = "appendSupergraphSubgraph"
    BY <1>2, <1>11 DEF Turn
  <2>2. Leaves(Head(todo), s) =
          IF HasSupergraph THEN {Entry(s, "supergraph.yaml", "subgraph")} ELSE {}
    BY <2>1 DEF Leaves
  <2>3. Begins(Head(todo), AppendSupergraph(s))
    BY <1>1, <1>10, <1>11, <2>2, SupergraphBegins DEF AppendSupergraph
  <2> QED BY <2>1, <2>3 DEF GraphqlEdits
<1>12. CASE n = 7
  <2>1. Head(todo) = "wireGraphqlHelm"
    BY <1>2, <1>12 DEF Turn
  <2>2. Leaves(Head(todo), s) = Chart(s, "graphql-env.yaml", "graphql-env")
    BY <2>1 DEF Leaves
  <2> DEFINE ws == WireHelm(s, "graphql-env.yaml", PortOf(s, "GRAPHQL_PORT"), "graphql-env")
  <2>3. Begins(Head(todo), ws) /\ Exposes("graphql", ws)
    BY <1>1, <1>10, <1>12, <2>2, ChartBegins DEF Exposes, PortVarOf
  <2> QED BY <2>1, <2>3 DEF GraphqlEdits
<1> QED BY <1>4, <1>5, <1>6, <1>7, <1>8, <1>9, <1>11, <1>12

LEMMA KafkaBegins ==
  ASSUME IInv, BeginAction, run.gen = "kafka"
  PROVE  Begins(Head(todo), KafkaEdits(Head(todo), run.of))
<1> DEFINE s == run.of
<1>1. /\ s \in Workspaces /\ Pending = {} /\ run'.gen = "kafka"
      /\ KafkaActions = ActionsOf(run.gen)
  BY TurnOfAction DEF ActionsOf
<1>2. PICK n \in DOMAIN KafkaActions : Turn(KafkaActions, n)
  BY <1>1, TurnOfAction
<1>3. \A i \in DOMAIN KafkaActions : i < n => \A w \in Leaves(KafkaActions[i], s) : Present(w)
  BY <1>1, <1>2, LeftBehind
<1>4. n \in 1 .. 4 /\ DOMAIN KafkaActions = 1 .. 4
  BY DEF KafkaActions
<1> USE DEF KafkaActions
<1>5. CASE n = 1
  <2>1. Head(todo) = "addKafkaPackageJson"
    BY <1>2, <1>5 DEF Turn
  <2>2. Leaves(Head(todo), s) = {MergePackageJson(s, "kafka")}
    BY <2>1 DEF Leaves
  <2> QED BY <1>1, <2>1, <2>2, OnePlain, PlainFiles DEF KafkaEdits, MergePackageJson
<1>6. CASE n = 2
  <2>1. Head(todo) = "appendKafkaEnv"
    BY <1>2, <1>6 DEF Turn
  <2>2. Leaves(Head(todo), s) = {Entry(s, ".env.sample", "KAFKA_BROKERS")}
    BY <2>1 DEF Leaves
  <2>3. \A w : w.file \in {".env.sample", ".env"} /\ w.key = "KAFKA_BROKERS" => Owned(w)'
    BY DEF Owned, PortVarOf, Added
  <2>4. Begins(Head(todo), AppendEnv(s, "KAFKA_BROKERS", 0))
    BY <1>1, <2>2, <2>3, EnvBegins
  <2> QED BY <2>1, <2>4 DEF KafkaEdits
<1>7. CASE n = 3
  <2>1. Head(todo) = "injectKafkaDriver"
    BY <1>2, <1>7 DEF Turn
  <2>2. Leaves(Head(todo), s) = {Entry(s, "app.ts", "KafkaDriver")}
    BY <2>1 DEF Leaves, InjectDriver
  <2>3. Leaves("addKafkaPackageJson", s) = {MergePackageJson(s, "kafka")}
    BY DEF Leaves
  <2>4. Leaves("appendKafkaEnv", s) = {Entry(s, ".env.sample", "KAFKA_BROKERS")}
    BY DEF Leaves
  <2>5. Backing("KafkaDriver", s)
          = {MergePackageJson(s, "kafka"), Entry(s, ".env.sample", "KAFKA_BROKERS")}
    BY DEF Backing
  <2>6. \A w \in Backing("KafkaDriver", s) : Present(w)
    BY <1>3, <1>4, <1>7, <2>3, <2>4, <2>5
  <2>7. \A g \in {"grpc", "graphql"} : "KafkaDriver" # DriverName[g]
    BY DEF DriverName
  <2>8. Begins(Head(todo), <<Entry(s, "app.ts", "KafkaDriver")>>)
    BY <1>1, <2>2, <2>6, <2>7, AppBegins
  <2> QED BY <2>1, <2>8 DEF KafkaEdits, InjectDriver
<1>8. CASE n = 4
  <2>1. Head(todo) = "wireKafkaHelm"
    BY <1>2, <1>8 DEF Turn
  <2>2. Leaves(Head(todo), s) = {WireConfigMap(s, "kafka-env")}
    BY <2>1 DEF Leaves
  <2>3. PICK e, f : e = Entry(s, "kafka-env.yaml", "file") /\ f = WireConfigMap(s, "kafka-env")
    OBVIOUS
  <2>4. Plain(e) /\ Plain(f) /\ e.of = s /\ f.of = s
    BY <1>1, <2>3, EntryIsEntry, PlainFiles DEF Plain, IsContainerPort, Entry, EntryAt, WireConfigMap
  <2>5. <<e, f>> \in Seq({e, f}) /\ Range(<<e, f>>) = {e, f}
    BY Tuples
  <2>6. Begins(Head(todo), <<e, f>>)
    BY <2>2, <2>3, <2>4, <2>5, PlainBegins, FindsItself
  <2> QED BY <2>1, <2>3, <2>6 DEF KafkaEdits
<1> QED BY <1>4, <1>5, <1>6, <1>7, <1>8

LEMMA CronBegins ==
  ASSUME IInv, BeginAction, run.gen = "cron"
  PROVE  Begins(Head(todo), CronEdits(run.of))
<1>1. Head(todo) = "injectCronDriver" /\ run.of \in Workspaces
  BY TurnOfAction DEF Turn, ActionsOf, CronActions
<1>2. Leaves(Head(todo), run.of) = {Entry(run.of, "app.ts", "CronDriver")}
  BY <1>1 DEF Leaves, InjectDriver
<1>3. Backing("CronDriver", run.of) = {} /\ \A g \in {"grpc", "graphql"} : "CronDriver" # DriverName[g]
  BY DEF Backing, DriverName
<1>4. Begins(Head(todo), <<Entry(run.of, "app.ts", "CronDriver")>>)
  BY <1>1, <1>2, <1>3, AppBegins
<1> QED BY <1>4 DEF CronEdits, InjectDriver

LEMMA RedisBegins ==
  ASSUME IInv, BeginAction, run.gen = "redis"
  PROVE  Begins(Head(todo), RedisEdits(Head(todo), run.of))
<1> DEFINE s == run.of
<1>1. /\ s \in Workspaces /\ Pending = {} /\ run'.gen = "redis"
      /\ RedisActions = ActionsOf(run.gen)
  BY TurnOfAction DEF ActionsOf
<1>2. PICK n \in DOMAIN RedisActions : Turn(RedisActions, n)
  BY <1>1, TurnOfAction
<1>3. \A i \in DOMAIN RedisActions : i < n => \A w \in Leaves(RedisActions[i], s) : Present(w)
  BY <1>1, <1>2, LeftBehind
<1>4. n \in 1 .. 3 /\ DOMAIN RedisActions = 1 .. 3
  BY DEF RedisActions
<1> USE DEF RedisActions
<1>5. CASE n = 1
  <2>1. Head(todo) = "injectRedisHelm"
    BY <1>2, <1>5 DEF Turn
  <2>2. Leaves(Head(todo), s) = {Entry(s, "redis.yaml", "file")}
    BY <2>1 DEF Leaves
  <2> QED BY <1>1, <2>1, <2>2, OnePlain, PlainFiles DEF RedisEdits
<1>6. CASE n = 2
  <2>1. Head(todo) = "wireRedisHelmDeployment"
    BY <1>2, <1>6 DEF Turn
  <2>2. Leaves(Head(todo), s) =
          {WireConfigMap(s, "redis-secret"), Entry(s, "deployment.yaml", "wait-for-redis")}
    BY <2>1 DEF Leaves
  <2>3. PICK e, f : /\ e = WireConfigMap(s, "redis-secret")
                    /\ f = WireInitContainer(s, "deployment.yaml", "wait-for-redis")
    OBVIOUS
  <2>4. Plain(e) /\ e.of = s
    BY <1>1, <2>3, EntryIsEntry, PlainFiles DEF Plain, IsContainerPort, Entry, EntryAt, WireConfigMap
  <2>5. Plain(f) /\ f.of = s /\ Finds(f, Entry(s, "deployment.yaml", "wait-for-redis"))
    BY <1>1, <2>3, EntryIsEntry, PlainFiles
       DEF Plain, IsContainerPort, Entry, EntryAt, WireInitContainer, Finds, PerModule
  <2>6. <<e, f>> \in Seq({e, f}) /\ Range(<<e, f>>) = {e, f}
    BY Tuples
  <2>7. Begins(Head(todo), <<e, f>>)
    BY <2>2, <2>3, <2>4, <2>5, <2>6, PlainBegins, FindsItself
  <2> QED BY <2>1, <2>3, <2>7 DEF RedisEdits
<1>7. CASE n = 3
  <2>1. Head(todo) = "injectRedisIntoServerApp"
    BY <1>2, <1>7 DEF Turn
  <2>2. Leaves(Head(todo), s) = {Entry(s, "app.ts", "RedisPlugin")}
    BY <2>1 DEF Leaves, InjectPlugin
  <2>3. Leaves("injectRedisHelm", s) = {Entry(s, "redis.yaml", "file")}
    BY DEF Leaves
  <2>4. Leaves("wireRedisHelmDeployment", s) =
          {WireConfigMap(s, "redis-secret"), Entry(s, "deployment.yaml", "wait-for-redis")}
    BY DEF Leaves
  <2>5. Backing("RedisPlugin", s) = {Entry(s, "redis.yaml", "file"), WireConfigMap(s, "redis-secret")}
    BY DEF Backing
  <2>6. \A w \in Backing("RedisPlugin", s) : Present(w)
    BY <1>3, <1>4, <1>7, <2>3, <2>4, <2>5
  <2>7. \A g \in {"grpc", "graphql"} : "RedisPlugin" # DriverName[g]
    BY DEF DriverName
  <2>8. Begins(Head(todo), <<Entry(s, "app.ts", "RedisPlugin")>>)
    BY <1>1, <2>2, <2>6, <2>7, AppBegins
  <2> QED BY <2>1, <2>8 DEF RedisEdits, InjectPlugin
<1> QED BY <1>4, <1>5, <1>6, <1>7

(* The service account is not there, or the generator is not offered. *)
LEMMA SecretsBegins ==
  ASSUME IInv, BeginAction, run.gen = "secrets"
  PROVE  Begins(Head(todo), SecretsEdits(Head(todo), run.of))
<1> DEFINE s == run.of
<1>1. /\ s \in Workspaces /\ Pending = {} /\ run'.gen = "secrets"
      /\ SecretsActions = ActionsOf(run.gen)
  BY TurnOfAction DEF ActionsOf
<1>2. PICK n \in DOMAIN SecretsActions : Turn(SecretsActions, n)
  BY <1>1, TurnOfAction
<1>3. \A i \in DOMAIN SecretsActions : i < n => \A w \in Leaves(SecretsActions[i], s) : Present(w)
  BY <1>1, <1>2, LeftBehind
<1>4. n \in 1 .. 3 /\ DOMAIN SecretsActions = 1 .. 3
  BY DEF SecretsActions
<1> USE DEF SecretsActions
<1>5. CASE n = 1
  <2>1. Head(todo) = "injectSecretsServiceAccount"
    BY <1>2, <1>5 DEF Turn
  <2>2. Leaves(Head(todo), s) =
          {Entry(s, "serviceaccount.yaml", "file"), WireConfigMap(s, "serviceAccountName")}
    BY <2>1 DEF Leaves
  <2>3. ~Begun("injectSecretsServiceAccount") /\ Begun("injectSecretsServiceAccount")'
    BY <1>2, <1>4, <1>5 DEF Turn
  <2>4. ~Has(s, "serviceaccount.yaml", "file")
    BY <2>3 DEF IInv, AloneInSecrets, Has
  <2>5. PICK e, f : /\ e = Entry(s, "serviceaccount.yaml", "file")
                    /\ f = WireConfigMap(s, "serviceAccountName")
    OBVIOUS
  <2>6. /\ IsEntry(e) /\ e.of = s /\ e.file = "serviceaccount.yaml" /\ e.key = "file"
        /\ IsEntry(f) /\ f.of = s /\ f.file = "deployment.yaml" /\ f.key = "serviceAccountName"
    BY <1>1, <2>5, EntryIsEntry DEF Entry, EntryAt, WireConfigMap
  <2>7. Owned(e)' /\ Owned(f)'
    BY <1>1, <2>3, <2>6 DEF Owned, By, Added
  <2>8. Begins(Head(todo), <<e, f>>)
    BY <2>2, <2>5, <2>6, <2>7, PairBegins, FindsItself
       DEF IsContainerPort, Special, CodeFolders, InBarrels, PieceFolders, Added, Grounded, Backed, Marked,
           OfDatabase, Said
  <2> QED BY <2>1, <2>4, <2>5, <2>8 DEF SecretsEdits
<1>6. CASE n = 2
  <2>1. Head(todo) = "injectSecretsEnvConfigMap"
    BY <1>2, <1>6 DEF Turn
  <2>2. Leaves(Head(todo), s) = {WireConfigMap(s, "openbao-env")}
    BY <2>1 DEF Leaves
  <2>3. ~Begun("injectSecretsEnvConfigMap") /\ Begun("injectSecretsEnvConfigMap")'
    BY <1>2, <1>4, <1>6 DEF Turn
  <2>4. ~Has(s, "openbao-env.yaml", "file")
    BY <2>3 DEF IInv, AloneInSecrets, Has
  <2>5. PICK e, f : /\ e = Entry(s, "openbao-env.yaml", "file")
                    /\ f = WireConfigMap(s, "openbao-env")
    OBVIOUS
  <2>6. /\ IsEntry(e) /\ e.of = s /\ e.file = "openbao-env.yaml" /\ e.key = "file"
        /\ IsEntry(f) /\ f.of = s /\ f.file = "deployment.yaml" /\ f.key = "openbao-env"
    BY <1>1, <2>5, EntryIsEntry DEF Entry, EntryAt, WireConfigMap
  <2>7. Owned(e)' /\ Owned(f)'
    BY <1>1, <2>3, <2>6 DEF Owned, By, Added
  <2>8. Has(s, "serviceaccount.yaml", "file")
    <3>1. Leaves("injectSecretsServiceAccount", s) =
            {Entry(s, "serviceaccount.yaml", "file"), WireConfigMap(s, "serviceAccountName")}
      BY DEF Leaves
    <3>2. Present(Entry(s, "serviceaccount.yaml", "file"))
      BY <1>3, <1>4, <1>6, <3>1
    <3> QED BY <3>2, EntryPresentIsHas
  <2>9. Begins(Head(todo), <<e, f>>)
    BY <2>2, <2>5, <2>6, <2>7, <2>8, PairBegins, FindsItself
       DEF IsContainerPort, Special, CodeFolders, InBarrels, PieceFolders, Added, Grounded, Backed, Marked,
           OfDatabase, Said
  <2> QED BY <2>1, <2>4, <2>5, <2>9 DEF SecretsEdits
<1>7. CASE n = 3
  <2>1. Head(todo) = "injectOpenBaoIntoServerApp"
    BY <1>2, <1>7 DEF Turn
  <2>2. Leaves(Head(todo), s) = {Entry(s, "app.ts", "OpenBaoPlugin")}
    BY <2>1 DEF Leaves, InjectPlugin
  <2>3. Leaves("injectSecretsServiceAccount", s) =
          {Entry(s, "serviceaccount.yaml", "file"), WireConfigMap(s, "serviceAccountName")}
    BY DEF Leaves
  <2>4. Leaves("injectSecretsEnvConfigMap", s) = {WireConfigMap(s, "openbao-env")}
    BY DEF Leaves
  <2>5. Backing("OpenBaoPlugin", s) =
          {Entry(s, "serviceaccount.yaml", "file"), WireConfigMap(s, "openbao-env")}
    BY DEF Backing
  <2>6. \A w \in Backing("OpenBaoPlugin", s) : Present(w)
    BY <1>3, <1>4, <1>7, <2>3, <2>4, <2>5
  <2>7. \A g \in {"grpc", "graphql"} : "OpenBaoPlugin" # DriverName[g]
    BY DEF DriverName
  <2>8. Begins(Head(todo), <<Entry(s, "app.ts", "OpenBaoPlugin")>>)
    BY <1>1, <2>2, <2>6, <2>7, AppBegins
  <2> QED BY <2>1, <2>8 DEF SecretsEdits, InjectPlugin
<1> QED BY <1>4, <1>5, <1>6, <1>7

(* prisma.config.ts and schema.prisma are plop's own to add. *)
LEMMA AddedBegins ==
  ASSUME run.of \in Workspaces, run'.gen = "database", NEW file \in {"prisma.config.ts", "schema.prisma"},
         NEW a, Leaves(a, run.of) = {Entry(run.of, file, "file")}
  PROVE  Begins(a, <<Entry(run.of, file, "file")>>)
<1>1. PICK e : e = Entry(run.of, file, "file")
  OBVIOUS
<1>2. IsEntry(e) /\ e.of = run.of /\ e.file = file /\ e.key = "file"
  BY <1>1, EntryIsEntry DEF Entry, EntryAt
<1>3. <<e>> \in Seq(Range(<<e>>)) /\ Range(<<e>>) = {e} /\ Len(<<e>>) = 1
  BY Tuples
<1>4. Grounded(e) /\ e.file \notin Ordered
  BY <1>2 DEF Grounded, Backed, Marked, OfDatabase, Said, Ordered, CodeFolders, InBarrels, PieceFolders
<1>5. Sound(run.of, <<e>>)
  BY <1>2, <1>3, <1>4, Unordered
<1>6. Owned(e)'
  BY <1>2 DEF Owned
<1> QED BY <1>1, <1>2, <1>3, <1>5, <1>6, FindsItself DEF Begins, IsContainerPort, Added

LEMMA InfraBegins ==
  ASSUME run.of \in Workspaces, ~Has(run.of, "infra/helm", "dir"),
         Has(run.of, "prisma.config.ts", "file"), By("database", "scaffoldDatabaseInfraChart")',
         NEW a, Leaves(a, run.of) = {Entry(run.of, "infra/helm", "db.yaml")}
  PROVE  Begins(a, InfraChart(run.of) \o <<InfraNamespace(run.of)>>)
<1>1. PICK d, c, v, b, i :
        /\ d = Entry(run.of, "infra/helm", "dir") /\ c = Entry(run.of, "infra/helm", "Chart.yaml")
        /\ v = Entry(run.of, "infra/helm", "values.yaml") /\ b = Entry(run.of, "infra/helm", "db.yaml")
        /\ i = InfraNamespace(run.of)
  OBVIOUS
<1>2. PICK t : t = <<d, c, v, b>>
  OBVIOUS
<1>3. PICK u : u = <<i>>
  OBVIOUS
<1>4. PICK ws : ws = t \o u
  OBVIOUS
<1>5. ws = InfraChart(run.of) \o <<InfraNamespace(run.of)>>
  BY <1>1, <1>2, <1>3, <1>4 DEF InfraChart
<1>6. ws \in Seq(Range(ws)) /\ Range(ws) = {d, c, v, b, i}
  <2>1. PICK S : S = {d, c, v, b, i}
    OBVIOUS
  <2>2. t \in Seq(S) /\ u \in Seq(S) /\ Range(t) \cup Range(u) = S
    BY <1>2, <1>3, <2>1 DEF Range
  <2>3. ws \in Seq(S) /\ Range(ws) = Range(t) \cup Range(u)
    BY <1>4, <2>2, ConcatRange
  <2> QED BY <2>1, <2>2, <2>3, IsSequence
<1>7. \A w \in {d, c, v, b} : IsEntry(w) /\ w.of = run.of /\ w.file = "infra/helm"
  <2>1. ASSUME NEW key, NEW w, w = Entry(run.of, "infra/helm", key)
        PROVE  IsEntry(w) /\ w.of = run.of /\ w.file = "infra/helm"
    BY <2>1 DEF Entry, EntryAt, IsEntry
  <2> QED BY <1>1, <2>1
<1>8. IsEntry(i) /\ i.of = run.of /\ i.file = "values.yaml"
  BY <1>1, EntryIsEntry DEF InfraNamespace, Entry, EntryAt
<1>9. \A w \in {d, c, v, b, i} : Grounded(w) /\ w.file \notin Ordered /\ w.file \notin Added
  BY <1>7, <1>8 DEF Grounded, Backed, Marked, OfDatabase, Said, Ordered, CodeFolders, InBarrels,
                    PieceFolders, Added
<1>10. \A w \in {d, c, v, b, i} : Owned(w)'
  BY <1>7, <1>8 DEF Owned, Added
<1>11. Sound(run.of, ws)
  BY <1>6, <1>7, <1>8, <1>9, Unordered
<1>12. Begins(a, ws)
  BY <1>1, <1>6, <1>7, <1>8, <1>10, <1>11, FindsItself DEF Begins, IsContainerPort
<1> QED BY <1>5, <1>12

(* The ConfigMap has the datasource before the StatefulSet mounts it. *)
LEMMA GrafanaBegins ==
  ASSUME run.of \in Workspaces, NEW a,
         Leaves(a, run.of) = {Entry(run.of, "grafana-configmap.yaml", "datasource"),
                              Entry(run.of, "grafana-statefulset.yaml", "mount")}
  PROVE  Begins(a, Grafana(run.of))
<1>1. PICK e, f, g : /\ e = Entry(run.of, "grafana-datasources.yaml", "file")
                     /\ f = Entry(run.of, "grafana-configmap.yaml", "datasource")
                     /\ g = Entry(run.of, "grafana-statefulset.yaml", "mount")
  OBVIOUS
<1>2. /\ IsEntry(e) /\ e.of = run.of /\ e.file = "grafana-datasources.yaml"
      /\ IsEntry(f) /\ f.of = run.of /\ f.file = "grafana-configmap.yaml" /\ f.key = "datasource"
      /\ IsEntry(g) /\ g.of = run.of /\ g.file = "grafana-statefulset.yaml"
  BY <1>1, EntryIsEntry DEF Entry, EntryAt
<1>3. PICK ws : ws = <<e, f, g>>
  OBVIOUS
<1>4. /\ ws \in Seq(Range(ws)) /\ Range(ws) = {e, f, g}
      /\ DOMAIN ws = 1 .. 3 /\ ws[1] = e /\ ws[2] = f /\ ws[3] = g
  BY <1>3 DEF Range
<1>5. \A w \in Range(ws) : Grounded(w) /\ Owned(w)' /\ IsEntry(w) /\ w.of = run.of
  BY <1>2, <1>4 DEF Grounded, Backed, Marked, OfDatabase, Said, Owned, Added
<1>6. ClaimsAreFree(ws) /\ EnvInStep(ws)
  BY <1>2, <1>4 DEF ClaimsAreFree, ClaimingFiles, EnvInStep
<1>7. LedInOrder(ws)
  <2>1. Led(e, repo \cup {ws[j] : j \in 1 .. 0}) /\ Led(f, repo \cup {ws[j] : j \in 1 .. 1})
    BY <1>2 DEF Led
  <2>2. f \in {ws[j] : j \in 1 .. 2}
    BY <1>4
  <2>3. Led(g, repo \cup {ws[j] : j \in 1 .. 2})
    BY <1>2, <2>2 DEF Led
  <2>4. \A i \in 1 .. 3 : Led(ws[i], repo \cup {ws[j] : j \in 1 .. (i - 1)})
    <3> SUFFICES ASSUME NEW i \in 1 .. 3 PROVE Led(ws[i], repo \cup {ws[j] : j \in 1 .. (i - 1)})
      OBVIOUS
    <3>1. CASE i = 1
      BY <3>1, <1>4, <2>1
    <3>2. CASE i = 2
      BY <3>2, <1>4, <2>1
    <3>3. CASE i = 3
      BY <3>3, <1>4, <2>3
    <3> QED BY <3>1, <3>2, <3>3
  <2>5. \A i \in 1 .. 3 : ws[i].file # "src/pages"
    BY <1>2, <1>4
  <2> QED BY <1>4, <2>4, <2>5 DEF LedInOrder
<1>8. ReachedInOrder(ws)
  BY <1>2, <1>4 DEF ReachedInOrder, CodeFolders, InBarrels, PieceFolders, Added
<1>9. Begins(a, ws)
  BY <1>1, <1>2, <1>4, <1>5, <1>6, <1>7, <1>8, FindsItself DEF Begins, Sound, IsContainerPort
<1> QED BY <1>1, <1>3, <1>9 DEF Grafana

(* Past prisma.config.ts, nothing of what the later actions skip is there.    *)
LEMMA DatabaseBegins ==
  ASSUME IInv, BeginAction, run.gen = "database", NEW p \in FreePorts(Head(todo))
  PROVE  Begins(Head(todo), DatabaseEdits(Head(todo), run.of, p))
<1> DEFINE s == run.of
<1>1. /\ s \in Workspaces /\ Pending = {} /\ run'.gen = "database"
      /\ DatabaseActions = ActionsOf(run.gen)
  BY TurnOfAction DEF ActionsOf
<1>2. PICK n \in DOMAIN DatabaseActions : Turn(DatabaseActions, n)
  BY <1>1, TurnOfAction
<1>3. \A i \in DOMAIN DatabaseActions : i < n => \A w \in Leaves(DatabaseActions[i], s) : Present(w)
  BY <1>1, <1>2, LeftBehind
<1>4. n \in 1 .. 10 /\ DOMAIN DatabaseActions = 1 .. 10
  BY DEF DatabaseActions
<1> USE DEF DatabaseActions
<1>5. ASSUME n > 1
      PROVE  /\ Has(s, "prisma.config.ts", "file")
             /\ \A e \in repo : e.of = s =>
                  /\ e.file = ".env.sample" /\ e.key = "DB_PORT" => Begun("appendDatabaseEnv")
                  /\ e.file = "infra/helm" => Begun("scaffoldDatabaseInfraChart")
                  /\ e.file = "env.yaml" => Begun("injectDatabaseEnvYaml")
  <2>1. Leaves("prisma.config.ts", s) = {Entry(s, "prisma.config.ts", "file")}
    BY DEF Leaves
  <2>2. Present(Entry(s, "prisma.config.ts", "file"))
    BY <1>3, <1>4, <1>5, <2>1
  <2>3. Begun("prisma.config.ts")
    BY <1>2, <1>4, <1>5 DEF Turn
  <2> QED BY <1>1, <2>2, <2>3, EntryPresentIsHas DEF IInv, AloneInDatabase
<1>6. CASE n = 1
  <2>1. Head(todo) = "prisma.config.ts"
    BY <1>2, <1>6 DEF Turn
  <2>2. Leaves(Head(todo), s) = {Entry(s, "prisma.config.ts", "file")}
    BY <2>1 DEF Leaves
  <2>3. Begins(Head(todo), <<Entry(s, "prisma.config.ts", "file")>>)
    BY <1>1, <2>2, AddedBegins
  <2> QED BY <2>1, <2>3 DEF DatabaseEdits
<1>7. CASE n = 2
  <2>1. Head(todo) = "schema.prisma"
    BY <1>2, <1>7 DEF Turn
  <2>2. Leaves(Head(todo), s) = {Entry(s, "schema.prisma", "file")}
    BY <2>1 DEF Leaves
  <2>3. Begins(Head(todo), <<Entry(s, "schema.prisma", "file")>>)
    BY <1>1, <2>2, AddedBegins
  <2> QED BY <2>1, <2>3 DEF DatabaseEdits
<1>8. CASE n = 3
  <2>1. Head(todo) = "addPrismaPackageJson"
    BY <1>2, <1>8 DEF Turn
  <2>2. Leaves(Head(todo), s) = {MergePrisma(s)}
    BY <2>1 DEF Leaves
  <2> QED BY <1>1, <2>1, <2>2, OnePlain, PlainFiles DEF DatabaseEdits, MergePrisma, MergePackageJson
<1>9. CASE n = 4
  <2>1. Head(todo) = "appendDatabaseEnv"
    BY <1>2, <1>9 DEF Turn
  <2>2. Leaves(Head(todo), s) = {Entry(s, ".env.sample", "DB_PORT")}
    BY <2>1 DEF Leaves
  <2>3. ~Begun("appendDatabaseEnv") /\ Begun("appendDatabaseEnv")'
    BY <1>2, <1>4, <1>9 DEF Turn
  <2>4. ~Has(s, ".env.sample", "DB_PORT") /\ Has(s, "prisma.config.ts", "file")
    BY <1>5, <1>9, <2>3 DEF Has
  <2>5. p \in Nat /\ p \notin Claimed(".env.sample", "DB_PORT")
    BY <2>1 DEF FreePorts, PortVar, DefaultPort, LowestFree
  <2>6. \A w : w.file \in {".env.sample", ".env"} /\ w.key = "DB_PORT" => Owned(w)'
    BY <1>1, <2>3 DEF Owned, By, PortVarOf, Added
  <2>7. Begins(Head(todo), AppendEnv(s, "DB_PORT", p))
    BY <1>1, <2>2, <2>4, <2>5, <2>6, EnvBegins
  <2> QED BY <2>1, <2>7 DEF DatabaseEdits, AppendDatabaseEnv
<1>10. CASE n = 5
  <2>1. Head(todo) = "scaffoldDatabaseInfraChart"
    BY <1>2, <1>10 DEF Turn
  <2>2. Leaves(Head(todo), s) = {Entry(s, "infra/helm", "db.yaml")}
    BY <2>1 DEF Leaves
  <2>3. ~Begun("scaffoldDatabaseInfraChart") /\ Begun("scaffoldDatabaseInfraChart")'
    BY <1>2, <1>4, <1>10 DEF Turn
  <2>4. ~Has(s, "infra/helm", "dir") /\ Has(s, "prisma.config.ts", "file")
    BY <1>5, <1>10, <2>3 DEF Has
  <2>5. By("database", "scaffoldDatabaseInfraChart")'
    BY <1>1, <2>3 DEF By
  <2>6. Begins(Head(todo), InfraChart(s) \o <<InfraNamespace(s)>>)
    BY <1>1, <2>2, <2>4, <2>5, InfraBegins
  <2> QED BY <2>1, <2>6 DEF DatabaseEdits
<1>11. CASE n = 6
  <2>1. Head(todo) = "injectDatabaseEnvYaml"
    BY <1>2, <1>11 DEF Turn
  <2>2. Leaves(Head(todo), s) = {Entry(s, "env.yaml", "wait-for-db")}
    BY <2>1 DEF Leaves
  <2>3. ~Begun("injectDatabaseEnvYaml") /\ Begun("injectDatabaseEnvYaml")'
    BY <1>2, <1>4, <1>11 DEF Turn
  <2>4. ~Has(s, "env.yaml", "file") /\ Has(s, "prisma.config.ts", "file")
    BY <1>5, <1>11, <2>3 DEF Has
  <2>5. PICK e, f : e = Entry(s, "env.yaml", "file") /\ f = WireInitContainer(s, "env.yaml", "wait-for-db")
    OBVIOUS
  <2>6. IsEntry(e) /\ e.of = s /\ e.file = "env.yaml"
    BY <1>1, <2>5, EntryIsEntry DEF Entry, EntryAt
  <2>7. /\ IsEntry(f) /\ f.of = s /\ f.file = "env.yaml"
        /\ Finds(f, Entry(s, "env.yaml", "wait-for-db"))
    BY <1>1, <2>5, EntryIsEntry DEF Entry, EntryAt, WireInitContainer, Finds, PerModule
  <2>8. Owned(e)' /\ Owned(f)'
    BY <1>1, <2>3, <2>6, <2>7 DEF Owned, By, Added
  <2>9. Grounded(e) /\ Grounded(f)
    BY <2>4, <2>6, <2>7 DEF Grounded, Backed, Marked, OfDatabase, Said
  <2>10. Begins(Head(todo), <<e, f>>)
    BY <2>2, <2>6, <2>7, <2>8, <2>9, PairBegins DEF IsContainerPort
  <2> QED BY <2>1, <2>4, <2>5, <2>10 DEF DatabaseEdits, DatabaseEnvYaml
<1>12. CASE n = 7
  <2>1. Head(todo) = "wireDatabaseHelmDeployment"
    BY <1>2, <1>12 DEF Turn
  <2>2. Leaves(Head(todo), s) =
          {WireConfigMap(s, "secret"), Entry(s, "deployment.yaml", "wait-for-db")}
    BY <2>1 DEF Leaves
  <2>3. PICK e, f, g : /\ e = WireConfigMap(s, "env") /\ f = WireConfigMap(s, "secret")
                       /\ g = WireInitContainer(s, "deployment.yaml", "wait-for-db")
    OBVIOUS
  <2>4. Plain(e) /\ e.of = s /\ Plain(f) /\ f.of = s
    BY <1>1, <2>3, EntryIsEntry, PlainFiles DEF Plain, IsContainerPort, Entry, EntryAt, WireConfigMap
  <2>5. Plain(g) /\ g.of = s /\ Finds(g, Entry(s, "deployment.yaml", "wait-for-db"))
    BY <1>1, <2>3, EntryIsEntry, PlainFiles
       DEF Plain, IsContainerPort, Entry, EntryAt, WireInitContainer, Finds, PerModule
  <2>6. <<e, f, g>> \in Seq({e, f, g}) /\ Range(<<e, f, g>>) = {e, f, g}
    BY DEF Range
  <2>7. Begins(Head(todo), <<e, f, g>>)
    BY <2>2, <2>3, <2>4, <2>5, <2>6, PlainBegins, FindsItself
  <2> QED BY <2>1, <2>3, <2>7 DEF DatabaseEdits
<1>13. CASE n = 8
  <2>1. Head(todo) = "injectDatabaseDockerfile"
    BY <1>2, <1>13 DEF Turn
  <2>2. Leaves(Head(todo), s) = {Entry(s, "Dockerfile", "prisma generate")}
    BY <2>1 DEF Leaves
  <2>3. PICK e, f : e = Entry(s, "Dockerfile", "migrate") /\ f = Entry(s, "Dockerfile", "prisma generate")
    OBVIOUS
  <2>4. Plain(e) /\ e.of = s /\ Plain(f) /\ f.of = s
    BY <1>1, <2>3, EntryIsEntry, PlainFiles DEF Plain, IsContainerPort, Entry, EntryAt
  <2>5. <<e, f>> \in Seq({e, f}) /\ Range(<<e, f>>) = {e, f}
    BY Tuples
  <2>6. Begins(Head(todo), <<e, f>>)
    BY <2>2, <2>3, <2>4, <2>5, PlainBegins, FindsItself
  <2> QED BY <2>1, <2>3, <2>6 DEF DatabaseEdits, DockerfileEdits
<1>14. CASE n = 9
  <2>1. Head(todo) = "injectDatabaseIntoServerApp"
    BY <1>2, <1>14 DEF Turn
  <2>2. Leaves(Head(todo), s) = {Entry(s, "app.ts", "database")}
    BY <2>1 DEF Leaves, InjectDatabase
  <2>3. /\ Leaves("schema.prisma", s) = {Entry(s, "schema.prisma", "file")}
        /\ Leaves("addPrismaPackageJson", s) = {MergePrisma(s)}
        /\ Leaves("appendDatabaseEnv", s) = {Entry(s, ".env.sample", "DB_PORT")}
        /\ Leaves("injectDatabaseDockerfile", s) = {Entry(s, "Dockerfile", "prisma generate")}
    BY DEF Leaves
  <2>4. Leaves("wireDatabaseHelmDeployment", s) =
          {WireConfigMap(s, "secret"), Entry(s, "deployment.yaml", "wait-for-db")}
    BY DEF Leaves
  <2>5. Backing("database", s) =
          {Entry(s, "package.json", "server"), Entry(s, "schema.prisma", "file"), MergePrisma(s),
           Entry(s, ".env.sample", "DB_PORT"), Entry(s, "Dockerfile", "prisma generate"),
           WireConfigMap(s, "secret")}
    BY DEF Backing
  <2>6. IsServer(s)
    BY TurnOfAction DEF IInv, InTurn
  <2>7. Present(Entry(s, "package.json", "server"))
    BY <2>6, EntryPresentIsHas DEF IsServer, PerModule
  <2>8. \A w \in Backing("database", s) : Present(w)
    <3>1. /\ DatabaseActions[2] = "schema.prisma" /\ DatabaseActions[3] = "addPrismaPackageJson"
          /\ DatabaseActions[4] = "appendDatabaseEnv"
          /\ DatabaseActions[7] = "wireDatabaseHelmDeployment"
          /\ DatabaseActions[8] = "injectDatabaseDockerfile"
      OBVIOUS
    <3> HIDE DEF DatabaseActions
    <3>2. \A i \in {2, 3, 4, 7, 8} : \A w \in Leaves(DatabaseActions[i], s) : Present(w)
      BY <1>3, <1>4, <1>14
    <3>3. /\ Present(Entry(s, "schema.prisma", "file")) /\ Present(MergePrisma(s))
          /\ Present(Entry(s, ".env.sample", "DB_PORT"))
          /\ Present(Entry(s, "Dockerfile", "prisma generate"))
      BY <2>3, <3>1, <3>2
    <3>4. Present(WireConfigMap(s, "secret"))
      BY <2>4, <3>1, <3>2
    <3> QED BY <2>5, <2>7, <3>3, <3>4
  <2>9. \A g \in {"grpc", "graphql"} : "database" # DriverName[g]
    BY DEF DriverName
  <2>10. Begins(Head(todo), <<Entry(s, "app.ts", "database")>>)
    BY <1>1, <2>2, <2>8, <2>9, AppBegins
  <2> QED BY <2>1, <2>10 DEF DatabaseEdits, InjectDatabase
<1>15. CASE n = 10
  <2>1. Head(todo) = "wireGrafanaDatasource"
    BY <1>2, <1>15 DEF Turn
  <2>2. Leaves(Head(todo), s) = {Entry(s, "grafana-configmap.yaml", "datasource"),
                                 Entry(s, "grafana-statefulset.yaml", "mount")}
    BY <2>1 DEF Leaves
  <2>3. Begins(Head(todo), Grafana(s))
    BY <1>1, <2>2, GrafanaBegins
  <2> QED BY <2>1, <2>3 DEF DatabaseEdits
<1> QED
  BY <1>4, <1>6, <1>7, <1>8, <1>9, <1>10, <1>11, <1>12, <1>13, <1>14, <1>15

LEMMA BeginStep == ASSUME IInv, BeginAction PROVE IInv'
<1> DEFINE a == Head(todo)
<1>1. PICK p \in FreePorts(a) : writes' = Edits(run.gen, a, run.of, p)
  BY DEF BeginAction
<1>2. run.gen \in ServerSide /\ \E n \in DOMAIN ActionsOf(run.gen) : a = ActionsOf(run.gen)[n]
  BY TurnOfAction DEF Turn
<1> HIDE DEF a
<1>3. Begins(a, writes')
  <2>1. CASE run.gen = "grpc"
    BY <1>1, <2>1, GrpcBegins DEF Edits, a
  <2>2. CASE run.gen = "graphql"
    BY <1>1, <2>2, GraphqlBegins DEF Edits, a
  <2>3. CASE run.gen = "kafka"
    BY <1>1, <2>3, KafkaBegins DEF Edits, a
  <2>4. CASE run.gen = "cron"
    BY <1>1, <2>4, CronBegins DEF Edits, a
  <2>5. CASE run.gen = "database"
    BY <1>1, <2>5, DatabaseBegins DEF Edits, a
  <2>6. CASE run.gen = "redis"
    BY <1>1, <2>6, RedisBegins DEF Edits, a
  <2>7. CASE run.gen = "secrets"
    BY <1>1, <2>7, SecretsBegins DEF Edits, a
  <2> QED BY <1>2, <2>1, <2>2, <2>3, <2>4, <2>5, <2>6, <2>7 DEF ServerSide, Drivers, Extensions
<1>4. ASSUME a = "prisma.config.ts" PROVE \E w \in Pending' : w.file = "prisma.config.ts"
  <2>1. run.gen = "database"
    BY <1>2, <1>4 DEF ServerSide, Drivers, Extensions, ActionsOf, GrpcActions, GraphqlActions,
                      KafkaActions, CronActions, RedisActions, SecretsActions
  <2>2. writes' = <<Entry(run.of, "prisma.config.ts", "file")>>
    BY <1>1, <1>4, <2>1 DEF Edits, DatabaseEdits
  <2> QED BY <2>2 DEF Pending, Range, Entry, EntryAt
<1>5. ASSUME NEW g \in {"grpc", "graphql"}, run.gen = g, a = WiresHelm[g] PROVE Exposes(g, writes')
  <2>1. CASE g = "grpc"
    BY <1>1, <1>5, <2>1, GrpcBegins DEF Edits, WiresHelm, a
  <2>2. CASE g = "graphql"
    BY <1>1, <1>5, <2>2, GraphqlBegins DEF Edits, WiresHelm, a
  <2> QED BY <2>1, <2>2
<1> QED BY <1>3, <1>4, <1>5, BeginKeeps DEF a

-----------------------------------------------------------------------------
(* A run opens *)

LEMMA Opened ==
  ASSUME IInv, NEW gen \in ServerSide \cup OneAction, NEW of \in Workspaces, NEW mod, NEW name,
         NEW actions, NEW edits, Open(gen, of, mod, name, actions, edits)
  PROVE  /\ Pending = {} /\ repo' = repo /\ stopped' = stopped
         /\ run'.gen = gen /\ run'.of = of /\ todo' = actions /\ writes' = edits
         /\ ~IsIdle' /\ IsRun(run') /\ run.gen \notin ServerSide
         /\ actions \in Seq(Range(actions)) /\ edits \in Seq(Range(edits))
            /\ (\A w \in Range(edits) : IsEntry(w) /\ w.of = of) => TypeOK'
         /\ PortsAreDistinct' /\ SampleIsDefinite' /\ EnvFollows' /\ AllLed'
         /\ DoneMeansWired' /\ WillBeReached'
         /\ (\A w \in Range(edits) : ~IsContainerPort(w)) => OneContainer'
         /\ \A e \in repo : Grounded(e)'
<1> USE DEF IInv, Open
<1>1. writes = <<>> /\ run.gen = "none"
  BY DEF InTurn, IsIdle, Idle
<1>2. Pending = {}
  BY <1>1 DEF Pending, Range
<1>3. "none" \notin ServerSide \cup OneAction
  BY DEF ServerSide, Drivers, Extensions, OneAction, PieceFolders
<1>4. ~IsIdle' /\ IsRun(run')
  BY <1>3 DEF IsIdle, Idle, IsRun
<1>5. ASSUME actions \in Seq(Range(actions)), edits \in Seq(Range(edits)),
             \A w \in Range(edits) : IsEntry(w) /\ w.of = of
      PROVE  TypeOK'
  <2>1. MaxRuns[side] \in Nat /\ side \in Sides /\ runs \in 0 .. MaxRuns[side]
    BY DEF TypeOK
  <2>2. runs' \in 0 .. MaxRuns[side']
    BY <2>1
  <2> QED BY <1>4, <1>5, <2>1, <2>2 DEF TypeOK, IsEntry, IsRun
<1>6. PortsAreDistinct' /\ SampleIsDefinite' /\ EnvFollows' /\ AllLed'
  BY DEF PortsAreDistinct, Claims, SampleIsDefinite, EnvFollows, StoppedOn, Says, AllLed
<1>7. DoneMeansWired'
  BY WiredStays DEF DoneMeansWired
<1>8. WillBeReached'
  BY <1>2 DEF WillBeReached, Unreached, StoppedOn, HasFile, Has, Exported
<1>9. \A e \in repo : Grounded(e)'
  BY GroundedStays DEF AllGrounded
<1>10. ASSUME \A w \in Range(edits) : ~IsContainerPort(w) PROVE OneContainer'
  <2>1. \A s : HasInitContainer(s) => HasInitContainer(s)'
    BY ContainerStays
  <2> QED BY <1>2, <1>10, <2>1 DEF OneContainer, Pending
<1> QED BY <1>1, <1>2, <1>3, <1>4, <1>5, <1>6, <1>7, <1>8, <1>9, <1>10

LEMMA ServerRunOpens ==
  ASSUME IInv, NEW g \in ServerSide, NEW s \in Workspaces, Offered(g, s),
         Open(g, s, "none", "none", ActionsOf(g), <<>>)
  PROVE  IInv'
<1> USE DEF IInv
<1>1. /\ repo' = repo /\ stopped' = stopped /\ run'.gen = g /\ run'.of = s
      /\ todo' = ActionsOf(g) /\ writes' = <<>> /\ ~IsIdle' /\ run.gen \notin ServerSide
      /\ PortsAreDistinct' /\ SampleIsDefinite' /\ EnvFollows' /\ AllLed'
      /\ DoneMeansWired' /\ WillBeReached' /\ \A e \in repo : Grounded(e)'
  BY Opened
<1>2. IsServer(s)
  BY DEF Offered, DriverOffered, DatabaseOffered, RedisOffered, SecretsOffered, ServerSide,
         Drivers, Extensions
<1>3. Len(ActionsOf(g)) \in Nat /\ ActionsOf(g) \in Seq(Range(ActionsOf(g)))
  BY ActionsDiffer, ActionsAreSequences
<1>4. TypeOK'
  <2>1. <<>> \in Seq(Range(<<>>)) /\ Range(<<>>) = {}
    BY DEF Range
  <2> QED BY <1>3, <2>1, Opened
<1>5. InTurn' /\ BegunIsSettled' /\ OwnPortIsSettled' /\ OneContainer'
  <2>1. InTurn'
    BY <1>1, <1>2, <1>3 DEF InTurn, IsServer, Has, IsIdle
  <2>2. OneContainer'
    <3>1. Range(<<>>) = {}
      BY DEF Range
    <3> QED BY <3>1, Opened
  <2>3. OwnPortIsSettled'
    <3>1. \A h \in {"grpc", "graphql"} : WiresHelm[h] \in Range(ActionsOf(h))
      BY DEF WiresHelm, ActionsOf, GrpcActions, GraphqlActions, Range
    <3> QED BY <1>1, <3>1 DEF OwnPortIsSettled, Begun
  <2> QED BY <1>1, <2>1, <2>2, <2>3 DEF BegunIsSettled, Begun
<1>6. AllGrounded' /\ AllOwned' /\ Pending' = {}
  BY <1>1, Emptied DEF AllGrounded, AllOwned
<1>7. AloneInDatabase'
  <2>1. "prisma.config.ts" \in Range(ActionsOf("database"))
    BY DEF ActionsOf, DatabaseActions, Range
  <2> QED BY <1>1, <2>1 DEF AloneInDatabase, Begun
<1>8. AloneInSecrets'
  <2> SUFFICES ASSUME g = "secrets", NEW e \in repo, e.of = s
               PROVE  e.file # "openbao-env.yaml" /\ ~(e.file = "serviceaccount.yaml" /\ e.key = "file")
    BY <1>1 DEF AloneInSecrets
  <2>1. ~Has(s, "serviceaccount.yaml", "file")
    BY DEF Offered, SecretsOffered, Drivers
  <2>2. Marked(e)
    BY DEF AllGrounded, Grounded
  <2> QED BY <2>1, <2>2 DEF Marked, Has
<1>9. PortsComeWithDrivers'
  <2>1. ASSUME NEW h \in {"grpc", "graphql"}, NEW w \in Workspaces,
               Has(w, ".env.sample", PortVarOf[h])'
        PROVE  (HasDriver(w, DriverName[h]) \/ StoppedOn(w))'
    <3>1. HasDriver(w, DriverName[h]) \/ StoppedOn(w)
      BY <1>1, <2>1, NoOneActionIsServerSide DEF PortsComeWithDrivers, Has, By
    <3> QED BY <1>1, <3>1 DEF HasDriver, Has, StoppedOn
  <2>2. ASSUME NEW h \in {"grpc", "graphql"}, g = h
        PROVE  ~HasDriver(s, DriverName[h])'
    BY <1>1, <2>2 DEF Offered, DriverOffered, Drivers, HasDriver, Has
  <2> QED BY <1>1, <2>1, <2>2 DEF PortsComeWithDrivers
<1> QED
  BY <1>1, <1>4, <1>5, <1>6, <1>7, <1>8, <1>9, Emptied

OneActionFiles ==
  CodeFolders \cup InBarrels \cup {"barrel", "rsbuild.config.ts", "router.tsx", "module", "index.ts",
    "src/pages", "route"}

LEMMA EditsOpen ==
  ASSUME IInv, NEW gen \in OneAction, NEW w \in Workspaces, NEW mod, NEW name, NEW edits,
         Open(gen, w, mod, name, <<>>, edits), Sound(w, edits),
         \A e \in Range(edits) : /\ e.file \in OneActionFiles
                                 /\ e.file \in CodeFolders => gen = "code"
  PROVE  IInv'
<1> USE DEF IInv
<1>1. /\ repo' = repo /\ stopped' = stopped /\ run'.gen = gen /\ run'.of = w
      /\ todo' = <<>> /\ writes' = edits /\ ~IsIdle' /\ run.gen \notin ServerSide
      /\ PortsAreDistinct' /\ SampleIsDefinite' /\ EnvFollows' /\ AllLed'
      /\ DoneMeansWired' /\ WillBeReached' /\ \A e \in repo : Grounded(e)'
  BY Opened
<1>2. gen \notin ServerSide \cup {"grpc", "graphql", "database", "secrets"}
  BY DEF ServerSide, Drivers, Extensions, OneAction, PieceFolders
<1>3. TypeOK'
  <2>1. <<>> \in Seq(Range(<<>>))
    BY DEF Range
  <2> QED BY <2>1, Opened DEF Sound
<1>4. InTurn' /\ BegunIsSettled' /\ OwnPortIsSettled' /\ AloneInDatabase' /\ AloneInSecrets'
  BY <1>1, <1>2 DEF InTurn, BegunIsSettled, OwnPortIsSettled, AloneInDatabase, AloneInSecrets
<1>5. AllGrounded'
  <2> SUFFICES ASSUME NEW e \in Range(edits) PROVE Grounded(e)'
    BY <1>1 DEF AllGrounded, Pending
  <2>1. Grounded(e)
    BY DEF Sound
  <2> QED BY <1>1, <2>1, GroundedStays
<1>6. AllOwned'
  <2> SUFFICES ASSUME NEW e \in Range(edits) PROVE Owned(e)'
    BY <1>1 DEF AllOwned, Pending
  <2>1. e.file \in Added => gen = "code"
    BY DEF OneActionFiles, InBarrels, PieceFolders, Added
  <2> QED BY <1>1, <2>1 DEF Owned, OneActionFiles, CodeFolders, InBarrels, PieceFolders
<1>7. PortsComeWithDrivers'
  BY <1>1, <1>2, NoOneActionIsServerSide DEF PortsComeWithDrivers, By, Has, HasDriver, StoppedOn
<1>8. ClaimsAreFree(writes)' /\ EnvInStep(writes)' /\ LedInOrder(writes)' /\ ReachedInOrder(writes)'
  BY <1>1 DEF Sound, ClaimsAreFree, Claimed, EnvInStep, StoppedOn, Says, Present, LedInOrder,
              ReachedInOrder, Routed, Has
<1>9. OneContainer'
  <2>1. \A e \in Range(edits) : ~IsContainerPort(e)
    BY DEF OneActionFiles, CodeFolders, InBarrels, PieceFolders, IsContainerPort
  <2> QED BY <2>1, Opened
<1> QED BY <1>1, <1>3, <1>4, <1>5, <1>6, <1>7, <1>8, <1>9

LEMMA OneOfTwo ==
  ASSUME NEW ws, Led(ws[1], repo \cup {ws[j] : j \in 1 .. 0}), Led(ws[2], repo \cup {ws[j] : j \in 1 .. 1})
  PROVE  \A i \in 1 .. 2 : Led(ws[i], repo \cup {ws[j] : j \in 1 .. (i - 1)})
<1> SUFFICES ASSUME NEW i \in 1 .. 2 PROVE Led(ws[i], repo \cup {ws[j] : j \in 1 .. (i - 1)})
  OBVIOUS
<1>1. CASE i = 1
  BY <1>1
<1>2. CASE i = 2
  BY <1>2
<1> QED BY <1>1, <1>2

(* The edits of the generators with one action. *)
LEMMA PlainlyGrounded ==
  ASSUME NEW e, e.file \in OneActionFiles
  PROVE  Grounded(e)
BY DEF OneActionFiles, CodeFolders, InBarrels, PieceFolders, Grounded, Backed, Marked, OfDatabase, Said

LEMMA CodeOpens ==
  ASSUME IInv, NEW folder \in CodeFolders, NEW s \in Workspaces, NEW name, AddCode(folder, s, name)
  PROVE  IInv'
<1>1. PICK e, f : e = Entry(s, folder, name) /\ f = AppendBarrel(folder, s, name)
  OBVIOUS
<1>2. PICK ws : ws = <<e, f>>
  OBVIOUS
<1>3. /\ IsEntry(e) /\ e.of = s /\ e.file = folder /\ e.key = name
      /\ IsEntry(f) /\ f.of = s /\ f.mod = folder /\ f.file = "barrel" /\ f.key = name
  BY <1>1 DEF Entry, EntryAt, AppendBarrel, IsEntry
<1>4. /\ ws \in Seq(Range(ws)) /\ Range(ws) = {e, f}
      /\ DOMAIN ws = 1 .. 2 /\ ws[1] = e /\ ws[2] = f
  BY <1>2 DEF Range
<1>5. \A w \in Range(ws) : w.file \in OneActionFiles /\ Grounded(w)
  BY <1>3, <1>4, PlainlyGrounded DEF OneActionFiles
<1>6. ClaimsAreFree(ws) /\ EnvInStep(ws)
  BY <1>3, <1>4 DEF ClaimsAreFree, EnvInStep, ClaimingFiles, CodeFolders
<1>7. LedInOrder(ws)
  <2>1. Led(e, repo \cup {ws[j] : j \in 1 .. 0})
    BY <1>3 DEF Led, CodeFolders
  <2>2. e \in {ws[j] : j \in 1 .. 1}
    BY <1>4
  <2>3. Led(f, repo \cup {ws[j] : j \in 1 .. 1})
    BY <1>3, <2>2 DEF Led
  <2>4. \A i \in 1 .. 2 : ws[i].file # "src/pages"
    BY <1>3, <1>4 DEF CodeFolders
  <2> QED BY <1>4, <2>1, <2>3, <2>4, OneOfTwo DEF LedInOrder
<1>8. ReachedInOrder(ws)
  BY <1>3, <1>4 DEF ReachedInOrder, Reaches, CodeFolders, InBarrels, PieceFolders, Added
<1>9. Sound(s, ws)
  BY <1>3, <1>4, <1>5, <1>6, <1>7, <1>8 DEF Sound
<1>10. Open("code", s, folder, name, <<>>, ws)
  BY <1>1, <1>2 DEF AddCode, CodeEdits
<1> QED BY <1>5, <1>9, <1>10, EditsOpen DEF OneAction

(* Two edits, of which the second refers to the first or to nothing. *)
LEMMA TwoEdits ==
  ASSUME NEW s, NEW e, NEW f, NEW ws, ws = <<e, f>>, IsEntry(e), IsEntry(f), e.of = s, f.of = s
  PROVE  /\ ws \in Seq(Range(ws)) /\ Range(ws) = {e, f}
         /\ DOMAIN ws = 1 .. 2 /\ ws[1] = e /\ ws[2] = f
         /\ {ws[j] : j \in 1 .. 0} = {} /\ {ws[j] : j \in 1 .. 1} = {e}
BY DEF Range

LEMMA ProjectOpens ==
  ASSUME IInv, NEW w \in Workspaces, ScaffoldProject(w)
  PROVE  IInv'
<1>1. PICK p \in ProjectPorts : Open("web", w, "none", "none", <<>>, ProjectEdits(w, p))
  BY DEF ScaffoldProject
<1>2. p \in Nat /\ p \notin Claimed("rsbuild.config.ts", "server") /\ \A e \in repo : e.of # w
  BY DEF ProjectPorts, LowestFree, ScaffoldProject, ProjectOffered
<1>3. PICK e, f : e = PortEntry(w, "rsbuild.config.ts", "server", p) /\ f = Entry(w, "router.tsx", "file")
  OBVIOUS
<1>4. PICK ws : ws = <<e, f>>
  OBVIOUS
<1>5. /\ IsEntry(e) /\ e.of = w /\ e.file = "rsbuild.config.ts" /\ e.key = "server" /\ e.port = p
      /\ IsEntry(f) /\ f.of = w /\ f.file = "router.tsx"
  BY <1>2, <1>3 DEF Entry, PortEntry, EntryAt, IsEntry
<1>6. /\ ws \in Seq(Range(ws)) /\ Range(ws) = {e, f}
      /\ DOMAIN ws = 1 .. 2 /\ ws[1] = e /\ ws[2] = f
  BY <1>4, <1>5, TwoEdits
<1>7. \A x \in Range(ws) : x.file \in OneActionFiles \ CodeFolders /\ Grounded(x)
  BY <1>5, <1>6, PlainlyGrounded DEF OneActionFiles, CodeFolders
<1>8. ClaimsAreFree(ws) /\ EnvInStep(ws)
  BY <1>2, <1>5, <1>6 DEF ClaimsAreFree, EnvInStep, ClaimingFiles
<1>9. LedInOrder(ws) /\ ReachedInOrder(ws)
  BY <1>2, <1>5, <1>6 DEF LedInOrder, Led, ReachedInOrder, CodeFolders, InBarrels, PieceFolders, Added
<1>10. Sound(w, ws)
  BY <1>5, <1>6, <1>7, <1>8, <1>9 DEF Sound
<1>11. Open("web", w, "none", "none", <<>>, ws)
  BY <1>1, <1>3, <1>4 DEF ProjectEdits
<1> QED BY <1>7, <1>10, <1>11, EditsOpen DEF OneAction

LEMMA ModuleOpens ==
  ASSUME IInv, NEW w \in Workspaces, NEW m, AddModule(w, m)
  PROVE  IInv'
<1>1. PICK e, f : /\ e = EntryAt(w, m, "module", "dir", 0, "none")
                  /\ f = EntryAt(w, m, "index.ts", "file", 0, "none")
  OBVIOUS
<1>2. PICK ws : ws = <<e, f>>
  OBVIOUS
<1>3. /\ IsEntry(e) /\ e.of = w /\ e.file = "module"
      /\ IsEntry(f) /\ f.of = w /\ f.file = "index.ts" /\ f.key = "file"
  BY <1>1 DEF EntryAt, IsEntry
<1>4. /\ ws \in Seq(Range(ws)) /\ Range(ws) = {e, f}
      /\ DOMAIN ws = 1 .. 2 /\ ws[1] = e /\ ws[2] = f
  BY <1>2, <1>3, TwoEdits
<1>5. \A x \in Range(ws) : x.file \in OneActionFiles \ CodeFolders /\ Grounded(x)
  BY <1>3, <1>4, PlainlyGrounded DEF OneActionFiles, CodeFolders
<1>6. ClaimsAreFree(ws) /\ EnvInStep(ws)
  BY <1>3, <1>4 DEF ClaimsAreFree, EnvInStep, ClaimingFiles
<1>7. LedInOrder(ws) /\ ReachedInOrder(ws)
  BY <1>3, <1>4 DEF LedInOrder, Led, ReachedInOrder, CodeFolders, InBarrels, PieceFolders, Added
<1>8. Sound(w, ws)
  BY <1>3, <1>4, <1>5, <1>6, <1>7 DEF Sound
<1>9. Open("module", w, m, "none", <<>>, ws)
  BY <1>1, <1>2 DEF AddModule, ModuleEdits
<1> QED BY <1>5, <1>8, <1>9, EditsOpen DEF OneAction

LEMMA PieceOpens ==
  ASSUME IInv, NEW w \in Workspaces, NEW m, NEW folder \in PieceFolders, NEW name,
         AddPiece(w, m, folder, name)
  PROVE  IInv'
<1>1. PICK e, f : e = EntryAt(w, m, folder, name, 0, "none") /\ f = BarrelLine(w, m, folder, name)
  OBVIOUS
<1>2. PICK ws : ws = <<e, f>>
  OBVIOUS
<1>3. /\ IsEntry(e) /\ e.of = w /\ e.mod = m /\ e.file = folder /\ e.key = name
      /\ IsEntry(f) /\ f.of = w /\ f.mod = m /\ f.file = "index.ts" /\ f.key = name /\ f.to = folder
  BY <1>1 DEF EntryAt, IsEntry, BarrelLine
<1>4. /\ ws \in Seq(Range(ws)) /\ Range(ws) = {e, f}
      /\ DOMAIN ws = 1 .. 2 /\ ws[1] = e /\ ws[2] = f
      /\ {ws[j] : j \in 1 .. 0} = {} /\ {ws[j] : j \in 1 .. 1} = {e}
  BY <1>2, <1>3, TwoEdits
<1>5. \A x \in Range(ws) : x.file \in OneActionFiles \ CodeFolders /\ Grounded(x)
  BY <1>3, <1>4, PlainlyGrounded DEF OneActionFiles, CodeFolders, InBarrels, PieceFolders
<1>6. ClaimsAreFree(ws) /\ EnvInStep(ws)
  BY <1>3, <1>4 DEF ClaimsAreFree, EnvInStep, ClaimingFiles, PieceFolders
<1>7. LedInOrder(ws)
  <2>1. Led(ws[1], repo \cup {ws[j] : j \in 1 .. 0})
    BY <1>3, <1>4 DEF Led, PieceFolders
  <2>2. Led(f, repo \cup {e})
    BY <1>3 DEF Led, InBarrels
  <2>3. \A i \in 1 .. 2 : Led(ws[i], repo \cup {ws[j] : j \in 1 .. (i - 1)})
    BY <1>4, <2>1, <2>2, OneOfTwo
  <2>4. \A i \in 1 .. 2 : ws[i].file # "src/pages"
    BY <1>3, <1>4 DEF PieceFolders
  <2> QED BY <1>4, <2>3, <2>4 DEF LedInOrder
<1>8. ReachedInOrder(ws)
  BY <1>3, <1>4 DEF ReachedInOrder, Reaches, CodeFolders, InBarrels, PieceFolders, Added
<1>9. Sound(w, ws)
  BY <1>3, <1>4, <1>5, <1>6, <1>7, <1>8 DEF Sound
<1>10. Open(folder, w, m, name, <<>>, ws)
  BY <1>1, <1>2 DEF AddPiece, PieceEdits
<1> QED BY <1>5, <1>9, <1>10, EditsOpen DEF OneAction

(* Page, barrel, wrapper; then the route, unless the path has one or there is *)
(* no router.                                                                *)
LEMMA PageOpens ==
  ASSUME IInv, NEW w \in Workspaces, NEW m, NEW url, NEW page, AddPage(w, m, url, page)
  PROVE  IInv'
<1>1. PICK e, f, g, r :
        /\ e = EntryAt(w, m, "pages", page, 0, "none") /\ f = BarrelLine(w, m, "pages", page)
        /\ g = Wrapper(w, m, url, page) /\ r = EntryAt(w, m, "route", url, 0, page)
  OBVIOUS
<1>2. PICK ws : ws = PageEdits(w, m, url, page)
  OBVIOUS
<1>3. /\ IsEntry(e) /\ e.of = w /\ e.mod = m /\ e.file = "pages" /\ e.key = page
      /\ IsEntry(f) /\ f.of = w /\ f.mod = m /\ f.file = "index.ts" /\ f.key = page /\ f.to = "pages"
  BY <1>1 DEF EntryAt, IsEntry, BarrelLine
<1>4. /\ IsEntry(g) /\ g.of = w /\ g.mod = m /\ g.file = "src/pages" /\ g.key = url /\ g.to = page
      /\ IsEntry(r) /\ r.of = w /\ r.file = "route" /\ r.key = url /\ r.to = page
  BY <1>1 DEF EntryAt, IsEntry, Wrapper
<1>5. ~Has(w, "src/pages", url)
  BY DEF AddPage, PageOffered
<1>6. \/ ws = <<e, f, g, r>>
      \/ ws = <<e, f, g>> /\ Routed(g)
  <2>1. ws = <<e, f, g>> \o InjectRoute(w, m, url, page)
    BY <1>1, <1>2 DEF PageEdits
  <2>2. CASE Has(w, "router.tsx", "file") /\ url \notin TemplateUrls /\ ~Has(w, "route", url)
    BY <1>1, <2>1, <2>2, ConcatThreeOne DEF InjectRoute
  <2>3. CASE ~(Has(w, "router.tsx", "file") /\ url \notin TemplateUrls /\ ~Has(w, "route", url))
    <3>1. Routed(g)
      BY <1>4, <2>3 DEF Routed
    <3>2. ws = <<e, f, g>>
      BY <2>1, <2>3, ConcatThreeNone DEF InjectRoute
    <3> QED BY <3>1, <3>2
  <2> QED BY <2>2, <2>3
<1>7. /\ ws \in Seq(Range(ws)) /\ Range(ws) \subseteq {e, f, g, r}
      /\ 1 .. 3 \subseteq DOMAIN ws /\ DOMAIN ws \subseteq 1 .. 4
      /\ ws[1] = e /\ ws[2] = f /\ ws[3] = g /\ (4 \in DOMAIN ws => ws[4] = r)
      /\ 4 \in DOMAIN ws \/ Routed(g)
  <2>1. CASE ws = <<e, f, g, r>>
    BY <2>1 DEF Range
  <2>2. CASE ws = <<e, f, g>> /\ Routed(g)
    BY <2>2 DEF Range
  <2> QED BY <1>6, <2>1, <2>2
<1>8. \A x \in Range(ws) : x.file \in OneActionFiles \ CodeFolders /\ Grounded(x)
  BY <1>3, <1>4, <1>7, PlainlyGrounded DEF OneActionFiles, CodeFolders, InBarrels
<1>9. \A i \in DOMAIN ws : ws[i].file \in {"pages", "index.ts", "src/pages", "route"} /\ i \in 1 .. 4
  BY <1>3, <1>4, <1>7
<1>10. ClaimsAreFree(ws) /\ EnvInStep(ws)
  BY <1>9 DEF ClaimsAreFree, EnvInStep, ClaimingFiles
<1>11. LedInOrder(ws)
  <2>1. \A i \in DOMAIN ws : Led(ws[i], repo \cup {ws[j] : j \in 1 .. (i - 1)})
    <3> SUFFICES ASSUME NEW i \in DOMAIN ws
                 PROVE  Led(ws[i], repo \cup {ws[j] : j \in 1 .. (i - 1)})
      OBVIOUS
    <3> DEFINE before == {ws[j] : j \in 1 .. (i - 1)}
    <3>1. i \in 1 .. 4 /\ (i > 1 => e \in before) /\ (i > 3 => g \in before)
      BY <1>7
    <3> HIDE DEF before
    <3>2. CASE i = 1
      BY <3>2, <1>3, <1>7 DEF Led
    <3>3. CASE i = 2
      BY <3>1, <3>3, <1>3, <1>7 DEF Led, InBarrels
    <3>4. CASE i = 3
      BY <3>1, <3>4, <1>3, <1>4, <1>7 DEF Led
    <3>5. CASE i = 4
      BY <3>1, <3>5, <1>4, <1>7 DEF Led
    <3> QED BY <3>1, <3>2, <3>3, <3>4, <3>5 DEF before
  <2>2. \A i \in DOMAIN ws : ws[i].file = "src/pages" => i = 3
    BY <1>3, <1>4, <1>7
  <2>3. ~Present(g)
    BY <1>4, <1>5 DEF Present, Finds, Has
  <2> QED BY <1>7, <2>1, <2>2, <2>3 DEF LedInOrder
<1>12. ReachedInOrder(ws)
  <2>2. Reaches(f, e) /\ Reaches(r, g)
    BY <1>3, <1>4 DEF Reaches, InBarrels
  <2>3. ASSUME NEW i \in DOMAIN ws, ws[i].file \in CodeFolders \cup InBarrels \cup {"src/pages"}
        PROVE  \/ ws[i].file = "src/pages" /\ Routed(ws[i])
               \/ \E j \in DOMAIN ws : j > i /\ Reaches(ws[j], ws[i])
    <3>1. i \in {1, 3}
      BY <1>3, <1>4, <1>7, <1>9, <2>3 DEF CodeFolders, InBarrels, PieceFolders
    <3>2. CASE i = 1
      <4>1. 2 \in DOMAIN ws /\ 2 > i /\ Reaches(ws[2], ws[i])
        BY <1>7, <2>2, <3>2
      <4> QED BY <4>1
    <3>3. CASE i = 3
      <4>1. CASE Routed(g)
        BY <1>4, <1>7, <3>3, <4>1
      <4>2. CASE 4 \in DOMAIN ws
        <5>1. 4 > i /\ Reaches(ws[4], ws[i])
          BY <1>7, <2>2, <3>3, <4>2
        <5> QED BY <4>2, <5>1
      <4> QED BY <1>7, <4>1, <4>2
    <3> QED BY <3>1, <3>2, <3>3
  <2> QED BY <1>9, <2>3 DEF ReachedInOrder, Added
<1>13. \A x \in Range(ws) : IsEntry(x) /\ x.of = w
  BY <1>3, <1>4, <1>7
<1>14. Sound(w, ws)
  BY <1>7, <1>8, <1>10, <1>11, <1>12, <1>13 DEF Sound
<1>15. Open("page", w, m, page, <<>>, ws)
  BY <1>2 DEF AddPage
<1> QED BY <1>8, <1>14, <1>15, EditsOpen DEF OneAction

-----------------------------------------------------------------------------
(* The invariant *)

LEMMA InitHolds == ASSUME Init PROVE IInv
<1> USE DEF Init
<1>1. Range(<<>>) = {} /\ <<>> \in Seq({})
  BY DEF Range
<1>2. IsFiniteSet({}) /\ Cardinality({}) = 0
  BY FS_EmptySet
<1>3. TypeOK
  <2>1. MaxRuns[side] \in Nat /\ MaxStops \in Nat
    OBVIOUS
  <2> QED BY <1>1, <1>2, <2>1 DEF TypeOK, IsIdle
<1>4. run.gen \notin ServerSide /\ run.gen \notin {"database", "secrets", "grpc", "graphql"}
  BY DEF Idle, ServerSide, Drivers, Extensions
<1>5. Pending = {}
  BY <1>1 DEF Pending
<1>6. /\ InTurn /\ BegunIsSettled /\ OwnPortIsSettled /\ OneContainer
      /\ AllGrounded /\ AllOwned /\ AloneInDatabase /\ AloneInSecrets
  BY <1>4, <1>5 DEF InTurn, IsIdle, BegunIsSettled, OwnPortIsSettled, OneContainer, AllGrounded,
                    AllOwned, AloneInDatabase, AloneInSecrets
<1>7. PortsComeWithDrivers /\ PortsAreDistinct /\ SampleIsDefinite /\ EnvFollows /\ AllLed
  BY <1>4 DEF PortsComeWithDrivers, Has, PortsAreDistinct, Claims, SampleIsDefinite, EnvFollows, AllLed
<1>8. ClaimsAreFree(writes) /\ EnvInStep(writes) /\ LedInOrder(writes) /\ ReachedInOrder(writes)
  BY DEF ClaimsAreFree, EnvInStep, LedInOrder, ReachedInOrder
<1>9. WillBeReached /\ DoneMeansWired
  BY DEF WillBeReached, Unreached, DoneMeansWired
<1> QED BY <1>3, <1>6, <1>7, <1>8, <1>9 DEF IInv

LEMMA SpareSteps == ASSUME IInv, UNCHANGED vars PROVE IInv'
<1> USE DEF IInv
<1>1. UNCHANGED <<repo, side, run, todo, writes, runs, done, stopped>>
  BY DEF vars
<1>2. TypeOK'
  BY <1>1 DEF TypeOK, IsIdle, IsRun, IsEntry
<1>3. InTurn'
  BY <1>1 DEF InTurn, IsIdle, IsServer, Has
<1>4. BegunIsSettled'
  BY <1>1 DEF BegunIsSettled, Begun, Settled, Present, Pending
<1>12. OwnPortIsSettled' /\ OneContainer'
  BY <1>1 DEF OwnPortIsSettled, OwnPort, Says, Begun, Settled, Present, Pending, OneContainer,
              HasInitContainer
<1>5. AllGrounded'
  BY <1>1, GroundedStays DEF AllGrounded, Pending
<1>6. AllOwned' /\ AloneInDatabase' /\ AloneInSecrets'
  BY <1>1 DEF AllOwned, Owned, By, AloneInDatabase, AloneInSecrets, Begun, Pending
<1>7. PortsComeWithDrivers'
  BY <1>1 DEF PortsComeWithDrivers, Has, HasDriver, StoppedOn, By, Begun
<1>8. PortsAreDistinct' /\ SampleIsDefinite' /\ EnvFollows' /\ AllLed'
  BY <1>1 DEF PortsAreDistinct, Claims, SampleIsDefinite, EnvFollows, StoppedOn, Says, AllLed
<1>9. ClaimsAreFree(writes)' /\ EnvInStep(writes)' /\ LedInOrder(writes)' /\ ReachedInOrder(writes)'
  BY <1>1 DEF ClaimsAreFree, Claimed, EnvInStep, StoppedOn, Says, Present, LedInOrder,
              ReachedInOrder, Routed, Has
<1>10. WillBeReached'
  BY <1>1 DEF WillBeReached, Unreached, StoppedOn, HasFile, Has, Exported, Pending
<1>11. DoneMeansWired'
  BY <1>1, WiredStays DEF DoneMeansWired
<1> QED BY <1>2, <1>3, <1>4, <1>5, <1>6, <1>7, <1>8, <1>9, <1>10, <1>11, <1>12

(* Every step of the developer, or of a generator that runs. *)
LEMMA DeveloperKeeps ==
  ASSUME IInv, NEW s \in Workspaces,
         \/ ScaffoldServer(s)
         \/ CopyEnvSample(s)
         \/ \E g \in Drivers : AddDriver(g, s)
         \/ \E g \in Extensions : Extend(g, s)
         \/ \E folder \in CodeFolders, name \in PieceNames : AddCode(folder, s, name)
         \/ ScaffoldProject(s)
         \/ \E m \in Modules : AddModule(s, m)
         \/ \E m \in Modules, url \in Urls, page \in PageNames : AddPage(s, m, url, page)
         \/ \E m \in Modules \cup {"shared"}, folder \in PieceFolders, name \in PieceNames :
              AddPiece(s, m, folder, name)
  PROVE  IInv'
<1>1. CASE ScaffoldServer(s)
  <2>1. IsIdle /\ UNCHANGED <<side, run, todo, writes, runs, done, stopped>>
    BY <1>1 DEF ScaffoldServer
  <2> QED BY <1>1, <2>1, ScaffoldIsHarmless, GrowKeeps
<1>2. CASE CopyEnvSample(s)
  <2>1. IsIdle /\ UNCHANGED <<side, run, todo, writes, runs, done, stopped>>
    BY <1>2 DEF CopyEnvSample
  <2> QED BY <1>2, <2>1, CopyIsHarmless, GrowKeeps
<1>3. CASE \E g \in Drivers : AddDriver(g, s)
  BY <1>3, ServerRunOpens DEF AddDriver, ServerSide
<1>4. CASE \E g \in Extensions : Extend(g, s)
  BY <1>4, ServerRunOpens DEF Extend, ServerSide
<1>5. CASE \E folder \in CodeFolders, name \in PieceNames : AddCode(folder, s, name)
  BY <1>5, CodeOpens
<1>6. CASE ScaffoldProject(s)
  BY <1>6, ProjectOpens
<1>7. CASE \E m \in Modules : AddModule(s, m)
  BY <1>7, ModuleOpens
<1>8. CASE \E m \in Modules, url \in Urls, page \in PageNames : AddPage(s, m, url, page)
  BY <1>8, PageOpens
<1>9. CASE \E m \in Modules \cup {"shared"}, folder \in PieceFolders, name \in PieceNames :
             AddPiece(s, m, folder, name)
  BY <1>9, PieceOpens
<1> QED BY <1>1, <1>2, <1>3, <1>4, <1>5, <1>6, <1>7, <1>8, <1>9

LEMMA NextKeeps == ASSUME IInv, [Next]_vars PROVE IInv'
<1>1. CASE BeginAction
  BY <1>1, BeginStep
<1>2. CASE Write
  BY <1>2, WriteKeeps
<1>3. CASE Refuse
  BY <1>3, RefuseKeeps
<1>4. CASE Finish
  BY <1>4, FinishKeeps
<1>5. CASE Stop
  BY <1>5, StopKeeps
<1>6. CASE UNCHANGED vars
  BY <1>6, SpareSteps
<1> QED
  BY <1>1, <1>2, <1>3, <1>4, <1>5, <1>6, DeveloperKeeps DEF Next

(* Whatever generators are run, in whatever order and wherever they are       *)
(* stopped: the inductive invariant, from the prompts that a run has answered *)
(* to the last edit that it makes.                                           *)
THEOREM Invariance == Spec => []IInv
<1>1. Init => IInv
  BY InitHolds
<1>2. IInv /\ [Next]_vars => IInv'
  BY NextKeeps
<1> QED BY <1>1, <1>2, PTL DEF Spec

-----------------------------------------------------------------------------
(* What follows from it *)

(* Every edit is of the workspace chosen, and a run cut short leaves nothing  *)
(* to be done behind it.                                                     *)
THEOREM TypeCorrect == Spec => []TypeOK
<1>1. IInv => TypeOK
  BY DEF IInv
<1> QED BY <1>1, Invariance, PTL

(* No two workspaces claim one port of a kind.                                *)
THEOREM Distinct == Spec => []PortsAreDistinct
<1>1. IInv => PortsAreDistinct
  BY DEF IInv
<1> QED BY <1>1, Invariance, PTL

(* The .env.sample of a server gives a variable one port, which PortOf reads. *)
LEMMA SaidIsPortOf ==
  ASSUME SampleIsDefinite, NEW s, NEW var, NEW p, Says(s, var, p)
  PROVE  PortOf(s, var) = p
<1>1. PICK f \in repo : f.of = s /\ f.file = ".env.sample" /\ f.key = var /\ f.port = p
  BY DEF Says
<1> DEFINE e == CHOOSE e \in repo : e.of = s /\ e.file = ".env.sample" /\ e.key = var
<1>2. e \in repo /\ e.of = s /\ e.file = ".env.sample" /\ e.key = var
  BY <1>1
<1>3. e.port = p
  BY <1>1, <1>2 DEF SampleIsDefinite
<1> QED BY <1>3 DEF PortOf

(* The chart, the supergraph and an .env of a server no run was stopped on    *)
(* say the ports that its .env.sample says.                                  *)
THEOREM Agree == Spec => []PortsAgree
<1>1. IInv => PortsAgree
  <2> SUFFICES ASSUME IInv, NEW e \in repo
      PROVE  /\ e.file = "grpc-env.yaml" => e.port = PortOf(e.of, "GRPC_PORT")
             /\ e.file \in {"graphql-env.yaml", "supergraph.yaml"} =>
                  e.port = PortOf(e.of, "GRAPHQL_PORT")
             /\ e.file = "deployment.yaml" /\ e.key = "containerPort" /\ e.port # HealthPort =>
                  \E f \in repo : f.of = e.of /\ f.file = ".env.sample" /\ f.port = e.port
             /\ e.file = ".env" /\ e.port # 0 /\ ~(\E r \in stopped : r.of = e.of) =>
                  e.port = PortOf(e.of, e.key)
    BY DEF PortsAgree
  <2>1. Said(e) /\ (e.file = ".env" /\ e.port # 0 => StoppedOn(e.of) \/ Says(e.of, e.key, e.port))
    BY DEF IInv, AllGrounded, Grounded, EnvFollows
  <2>2. \A var, p : Says(e.of, var, p) => p = PortOf(e.of, var)
    BY SaidIsPortOf DEF IInv
  <2>3. \A var : Says(e.of, var, e.port) =>
          \E f \in repo : f.of = e.of /\ f.file = ".env.sample" /\ f.port = e.port
    BY DEF Says
  <2> QED BY <2>1, <2>2, <2>3 DEF Said, StoppedOn
<1> QED BY <1>1, Invariance, PTL

(* What app.ts uses is there to be built and started, at every moment.        *)
THEOREM AppBacked == Spec => []AppIsBacked
<1>1. IInv => AppIsBacked
  <2> SUFFICES ASSUME IInv, NEW s \in Workspaces
      PROVE
        /\ HasDriver(s, "GrpcDriver") => Has(s, "package.json", "grpc") /\ Has(s, ".env.sample", "GRPC_PORT")
        /\ HasDriver(s, "ApolloDriver") =>
             Has(s, "package.json", "graphql") /\ Has(s, ".env.sample", "GRAPHQL_PORT")
        /\ HasDriver(s, "KafkaDriver") =>
             Has(s, "package.json", "kafka") /\ Has(s, ".env.sample", "KAFKA_BROKERS")
        /\ HasDriver(s, "database") =>
             /\ HasPrisma(s) /\ Has(s, "package.json", "prisma") /\ Has(s, ".env.sample", "DB_PORT")
             /\ Has(s, "Dockerfile", "prisma generate") /\ Has(s, "deployment.yaml", "secret")
        /\ HasDriver(s, "RedisPlugin") =>
             Has(s, "redis.yaml", "file") /\ Has(s, "deployment.yaml", "redis-secret")
        /\ HasDriver(s, "OpenBaoPlugin") =>
             Has(s, "serviceaccount.yaml", "file") /\ Has(s, "deployment.yaml", "openbao-env")
    BY DEF AppIsBacked
  <2>1. ASSUME NEW driver, HasDriver(s, driver)
        PROVE  \A w \in Backing(driver, s) : Present(w)
    BY <2>1 DEF IInv, AllGrounded, Grounded, Backed, HasDriver, Has
  <2>2. \A file, key : file # "grafana-configmap.yaml" /\ Present(Entry(s, file, key)) => Has(s, file, key)
    BY EntryPresentIsHas
  <2> USE <2>1, <2>2 DEF MergePackageJson, WireConfigMap, MergePrisma
  <2>3. HasDriver(s, "GrpcDriver") => Has(s, "package.json", "grpc") /\ Has(s, ".env.sample", "GRPC_PORT")
    BY DEF Backing
  <2>4. HasDriver(s, "ApolloDriver") =>
          Has(s, "package.json", "graphql") /\ Has(s, ".env.sample", "GRAPHQL_PORT")
    BY DEF Backing
  <2>5. HasDriver(s, "KafkaDriver") =>
          Has(s, "package.json", "kafka") /\ Has(s, ".env.sample", "KAFKA_BROKERS")
    BY DEF Backing
  <2>6. HasDriver(s, "database") =>
          /\ HasPrisma(s) /\ Has(s, "package.json", "prisma") /\ Has(s, ".env.sample", "DB_PORT")
          /\ Has(s, "Dockerfile", "prisma generate") /\ Has(s, "deployment.yaml", "secret")
    BY DEF Backing, HasPrisma, IsServer
  <2>7. HasDriver(s, "RedisPlugin") => Has(s, "redis.yaml", "file") /\ Has(s, "deployment.yaml", "redis-secret")
    BY DEF Backing
  <2>8. HasDriver(s, "OpenBaoPlugin") =>
          Has(s, "serviceaccount.yaml", "file") /\ Has(s, "deployment.yaml", "openbao-env")
    BY DEF Backing
  <2> QED BY <2>3, <2>4, <2>5, <2>6, <2>7, <2>8
<1> QED BY <1>1, Invariance, PTL

(* A run that ended without an error has wired its server as Wired asks.      *)
THEOREM Wires == Spec => []DoneMeansWired
<1>1. IInv => DoneMeansWired
  BY DEF IInv
<1> QED BY <1>1, Invariance, PTL

(* Nothing refers to what is not there.                                       *)
THEOREM NoDangling == Spec => []NothingDangles
<1>1. IInv => NothingDangles
  BY LedIsNotDangling DEF IInv
<1> QED BY <1>1, Invariance, PTL

(* What no barrel exports and no route leads to belongs to a run that is on or *)
(* was stopped.                                                              *)
THEOREM Unfinished == Spec => []UnreachedIsUnfinished
<1>1. IInv => UnreachedIsUnfinished
  <2> SUFFICES ASSUME IInv, NEW e \in Unreached
               PROVE  \E r \in stopped \cup {run} : r.of = e.of
    BY DEF UnreachedIsUnfinished
  <2>1. StoppedOn(e.of) \/ \E w \in Pending : Reaches(w, e)
    BY DEF IInv, WillBeReached
  <2>2. \A w \in Pending : w.of = run.of
    BY DEF IInv, TypeOK, Pending
  <2> QED BY <2>1, <2>2 DEF StoppedOn, Reaches
<1> QED BY <1>1, Invariance, PTL
=============================================================================
