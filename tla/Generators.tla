---------------------------- MODULE Generators ----------------------------
(***************************************************************************)
(* `turbo gen`: a developer runs one generator after another.  The prompts   *)
(* offer what the repository lacks as the program starts; the actions of the *)
(* chosen generator then write file after file.  A run can be stopped (^C, a *)
(* full disk, a crash) between two writes, and the next one starts from what *)
(* is there.  Nothing is ever taken back.                                    *)
(***************************************************************************)
EXTENDS ServerGenerators, FrontendGenerators, FiniteSets, Functions

CONSTANTS Sides,            \* which generators one behaviour runs
          MaxRuns,          \* [side -> runs] bound on the runs
          LastCopy,         \* bound: .env is copied after at most so many runs
          MaxStops          \* bound on the runs stopped

ASSUME GeneratorsAssumption ==
  /\ PortRange \in Nat /\ FrontendPortRange \in Nat
  /\ MaxRuns \in [Sides -> Nat] /\ MaxStops \in Nat

VARIABLES side, run, todo, writes, runs, done, stopped

vars == <<repo, side, run, todo, writes, runs, done, stopped>>

Idle == [gen |-> "none", of |-> "none", mod |-> "none", name |-> "none"]
IsIdle == run = Idle

Init ==
  /\ repo = {} /\ run = Idle /\ todo = <<>> /\ writes = <<>>
  /\ side \in Sides /\ runs = 0 /\ done = {} /\ stopped = {}

(* the prompts are answered: the run has actions to begin, or edits to make *)
Open(gen, of, mod, name, actions, edits) ==
  /\ IsIdle /\ runs < MaxRuns[side]
  /\ runs' = runs + 1
  /\ run' = [gen |-> gen, of |-> of, mod |-> mod, name |-> name]
  /\ todo' = actions /\ writes' = edits
  /\ UNCHANGED <<repo, side, done, stopped>>

(* the "server" generator; addMany is one step here *)
ScaffoldServer(s) ==
  /\ side \in {"server", "code"} /\ IsIdle /\ ~\E e \in repo : e.of = s
  /\ repo' = repo \cup ScaffoldEntries(s)
  /\ UNCHANGED <<side, run, todo, writes, runs, done, stopped>>

AddDriver(g, s) ==
  /\ side = "server" /\ g \in Drivers /\ Offered(g, s)
  /\ Open(g, s, "none", "none", ActionsOf(g), <<>>)
Extend(g, s) ==
  /\ Offered(g, s) /\ IF side = "code" THEN g = "database" ELSE side = "server"
  /\ Open(g, s, "none", "none", ActionsOf(g), <<>>)
AddCode(folder, s, name) ==
  /\ side = "code" /\ CodeOffered(folder, s)
  /\ Open("code", s, folder, name, <<>>, CodeEdits(folder, s, name))

(* the web generator *)
ScaffoldProject(w) ==
  /\ side = "frontend" /\ ProjectOffered(w)
  /\ \E p \in ProjectPorts : Open("web", w, "none", "none", <<>>, ProjectEdits(w, p))
AddModule(w, m) ==
  /\ side = "frontend" /\ ModuleOffered(w, m)
  /\ Open("module", w, m, "none", <<>>, ModuleEdits(w, m))
AddPage(w, m, url, page) ==
  /\ side = "frontend" /\ PageOffered(w, m, url, page)
  /\ Open("page", w, m, page, <<>>, PageEdits(w, m, url, page))
AddPiece(w, m, folder, name) ==
  /\ side = "frontend" /\ PieceOffered(w, m, folder, name)
  /\ Open(folder, w, m, name, <<>>, PieceEdits(w, m, folder, name))

(* plop runs the next action *)
BeginAction ==
  /\ writes = <<>> /\ todo # <<>>
  /\ \E p \in FreePorts(Head(todo)) : writes' = Edits(run.gen, Head(todo), run.of, p)
  /\ todo' = Tail(todo)
  /\ UNCHANGED <<repo, side, run, runs, done, stopped>>

Refused == writes # <<>> /\ Head(writes).file \in Added /\ Present(Head(writes))
Write ==
  /\ writes # <<>> /\ ~Refused
  /\ repo' = IF Present(Head(writes)) THEN repo ELSE repo \cup {Head(writes)}
  /\ writes' = Tail(writes)
  /\ UNCHANGED <<side, run, todo, runs, done, stopped>>

(* Mutant: the edits left go on. *)
CloseRunOnly == run' = Idle /\ UNCHANGED <<todo, writes>>
Close == run' = Idle /\ todo' = <<>> /\ writes' = <<>>
Finish ==
  /\ ~IsIdle /\ todo = <<>> /\ writes = <<>>
  /\ done' = done \cup {run}
  /\ Close /\ UNCHANGED <<repo, side, runs, stopped>>
(* a failed action aborts the ones after it *)
Refuse ==
  /\ Refused
  /\ Close /\ UNCHANGED <<repo, side, runs, done, stopped>>
Stop ==
  /\ ~IsIdle /\ (todo # <<>> \/ writes # <<>>)
  /\ Cardinality(stopped) < MaxStops
  /\ stopped' = stopped \cup {run}
  /\ Close /\ UNCHANGED <<repo, side, runs, done>>

(* a developer's copy of .env.sample, which is not in the repository *)
CopyEnvSample(s) ==
  /\ IsIdle /\ runs <= LastCopy /\ IsServer(s) /\ ~Has(s, ".env", "file")
  /\ repo' = repo \cup {Entry(s, ".env", "file")}
                  \cup {[e EXCEPT !.file = ".env"] :
                          e \in {f \in repo : f.of = s /\ f.file = ".env.sample"}}
  /\ UNCHANGED <<side, run, todo, writes, runs, done, stopped>>

Next ==
  \/ \E s \in Workspaces :
       \/ ScaffoldServer(s)
       \/ CopyEnvSample(s)
       \/ \E g \in Drivers : AddDriver(g, s)
       \/ \E g \in Extensions : Extend(g, s)
       \/ \E folder \in CodeFolders, name \in PieceNames : AddCode(folder, s, name)
       \/ ScaffoldProject(s)
       \/ \E m \in Modules : AddModule(s, m)
       \/ \E m \in Modules, url \in Urls, page \in PageNames : AddPage(s, m, url, page)
       \/ \E m \in Modules \cup {"shared"}, folder \in PieceFolders, name \in PieceNames :
            AddPiece(s, m, folder, name)
  \/ BeginAction
  \/ Write
  \/ Refuse
  \/ Finish
  \/ Stop

Spec == Init /\ [][Next]_vars

-----------------------------------------------------------------------------
(* Every entry and every pending write is one of a known workspace, and the  *)
(* edits of a run are all of the workspace that the developer chose.         *)
IsEntry(e) ==
  /\ e = EntryAt(e.of, e.mod, e.file, e.key, e.port, e.to)
  /\ e.of \in Workspaces /\ e.port \in Nat
ServerSide == Drivers \cup Extensions
OneAction == {"code", "web", "module", "page"} \cup PieceFolders
IsRun(r) == r.gen \in ServerSide \cup OneAction /\ r.of \in Workspaces
TypeOK ==
  /\ \A e \in repo : IsEntry(e)
  /\ writes \in Seq(Range(writes)) /\ \A w \in Range(writes) : IsEntry(w) /\ w.of = run.of
  /\ todo \in Seq(Range(todo))
  /\ side \in Sides /\ runs \in 0 .. MaxRuns[side]
  /\ IsIdle \/ IsRun(run)
  /\ \A r \in done \cup stopped : IsRun(r)
  /\ IsFiniteSet(stopped) /\ Cardinality(stopped) <= MaxStops

(* No two workspaces are given one port of a kind: the scans of              *)
(* findAvailableServerPort, findAvailableDbPort and findAvailableFrontendPort *)
(* see the ports that runs stopped halfway have claimed, too.                *)
ClaimingFiles == {".env.sample", "rsbuild.config.ts"}
Claims == {e \in repo : e.file \in ClaimingFiles /\ e.port # 0}
PortsAreDistinct ==
  \A e, f \in Claims : e.file = f.file /\ e.key = f.key /\ e.of # f.of => e.port # f.port

(* the .env.sample of a server gives the port `p` to `var` *)
Says(s, var, p) ==
  \E f \in repo : f.of = s /\ f.file = ".env.sample" /\ f.key = var /\ f.port = p

(* What the chart and the supergraph say of a server's ports is what its      *)
(* .env.sample says, however often the run that wrote it was stopped; .env    *)
(* may differ if one was, between the two writes of one action.               *)
PortsAgree ==
  \A e \in repo :
    /\ e.file = "grpc-env.yaml" => e.port = PortOf(e.of, "GRPC_PORT")
    /\ e.file \in {"graphql-env.yaml", "supergraph.yaml"} => e.port = PortOf(e.of, "GRAPHQL_PORT")
    /\ e.file = "deployment.yaml" /\ e.key = "containerPort" /\ e.port # HealthPort =>
         \E f \in repo : f.of = e.of /\ f.file = ".env.sample" /\ f.port = e.port
    /\ e.file = ".env" /\ e.port # 0 /\ ~(\E r \in stopped : r.of = e.of) =>
         e.port = PortOf(e.of, e.key)

(* At every moment, also where a run was stopped: what app.ts uses is there   *)
(* to be built and started, because the driver goes in after the rest.        *)
AppIsBacked ==
  \A s \in Workspaces :
    /\ HasDriver(s, "GrpcDriver") => Has(s, "package.json", "grpc") /\ Has(s, ".env.sample", "GRPC_PORT")
    /\ HasDriver(s, "ApolloDriver") =>
         Has(s, "package.json", "graphql") /\ Has(s, ".env.sample", "GRAPHQL_PORT")
    /\ HasDriver(s, "KafkaDriver") =>
         Has(s, "package.json", "kafka") /\ Has(s, ".env.sample", "KAFKA_BROKERS")
    /\ HasDriver(s, "database") =>
         /\ HasPrisma(s) /\ Has(s, "package.json", "prisma") /\ Has(s, ".env.sample", "DB_PORT")
         /\ Has(s, "Dockerfile", "prisma generate") /\ Has(s, "deployment.yaml", "secret")
    /\ HasDriver(s, "RedisPlugin") =>
         Has(s, "redis.yaml", "file") /\ Has(s, "deployment.yaml", "redis-secret")
    /\ HasDriver(s, "OpenBaoPlugin") =>
         Has(s, "serviceaccount.yaml", "file") /\ Has(s, "deployment.yaml", "openbao-env")

(* no other server's name is the same in camelCase *)
NamesApart(s) == \A v \in Workspaces \ {s} : CamelCase[v] # CamelCase[s]

(* A run that ends without an error has made the edits of each of its actions *)
(* that a pod of the server needs, also those an earlier, stopped run had     *)
(* begun.  The port that .env.sample says and the health port are exposed by  *)
(* one container: the app's, unless a wait container is in the deployment, as *)
(* the first port goes below the first `image:` line, whichever it is.  The   *)
(* datasource is asked for where no other name is the same in camelCase, else *)
(* the edit takes the other's for it.  Of Kafka's block in .env.sample nothing *)
(* is asked: the template's own KAFKA_BROKERS keeps it out.                   *)
Charted(s, file, env, var) ==
  /\ Has(s, file, "Service") /\ Has(s, "deployment.yaml", env)
  /\ \E own, health \in ContainerPorts(s) :
       /\ Says(s, var, own.port) /\ health.port = HealthPort
       /\ own.to = health.to /\ (own.to = "app" \/ HasInitContainer(s))
  /\ Has(s, "config/prometheus.yml", "health") /\ Has(s, "files/prometheus.yml", "health")
Wired(g, s) ==
  CASE g = "grpc" -> HasDriver(s, "GrpcDriver") /\ Charted(s, "grpc-env.yaml", "grpc-env", "GRPC_PORT")
    [] g = "graphql" -> /\ HasDriver(s, "ApolloDriver") /\ Has(s, "codegen.ts", "file")
                        /\ Charted(s, "graphql-env.yaml", "graphql-env", "GRAPHQL_PORT")
                        /\ HasSupergraph => Has(s, "supergraph.yaml", "subgraph")
    [] g = "kafka" -> HasDriver(s, "KafkaDriver") /\ Has(s, "deployment.yaml", "kafka-env")
    [] g = "cron" -> HasDriver(s, "CronDriver")
    [] g = "database" -> /\ HasDriver(s, "database") /\ Has(s, "infra/helm", "db.yaml")
                         /\ Has(s, "env.yaml", "wait-for-db")
                         /\ Has(s, "deployment.yaml", "wait-for-db")
                         /\ NamesApart(s) => Has(s, "grafana-configmap.yaml", "datasource")
                         /\ Has(s, "grafana-statefulset.yaml", "mount")
    [] g = "redis" -> HasDriver(s, "RedisPlugin") /\ Has(s, "deployment.yaml", "wait-for-redis")
    [] g = "secrets" -> /\ HasDriver(s, "OpenBaoPlugin")
                        /\ Has(s, "deployment.yaml", "serviceAccountName")
DoneMeansWired == \A r \in done : r.gen \in ServerSide => Wired(r.gen, r.of)

(* A route leads to a wrapper, a wrapper to a page of a module, a barrel      *)
(* exports files that exist, and what Grafana mounts for a server is a key of *)
(* the ConfigMap, which is named for that server alone: nothing refers to     *)
(* what is not there yet.  Not so for a server whose name is another's in     *)
(* camelCase: its key is not written, its mount is.                           *)
NothingDangles ==
  \A e \in repo :
    /\ e.file = "route" =>
         \E f \in repo : f.of = e.of /\ f.file = "src/pages" /\ f.key = e.key /\ f.to = e.to
    /\ e.file = "src/pages" => HasFile(e.of, e.mod, "pages", e.to)
    /\ e.file = "index.ts" /\ e.key # "file" => HasFile(e.of, e.mod, e.to, e.key)
    /\ e.file = "barrel" => Has(e.of, e.mod, e.key)
    /\ e.file = "grafana-statefulset.yaml" /\ NamesApart(e.of) =>
         Has(e.of, "grafana-configmap.yaml", "datasource")

(* A file that its barrel does not export, or a wrapper without a route for   *)
(* its path, was left by a run that is on, or that was stopped.               *)
InBarrels == PieceFolders \cup {"pages"}
Exported(e) ==
  \E f \in repo : f.of = e.of /\ f.mod = e.mod /\ f.file = "index.ts"
                 /\ f.key = e.key /\ f.to = e.file
Unreached ==
  {e \in repo : e.file \in CodeFolders /\ ~HasFile(e.of, e.file, "barrel", e.key)}
  \cup {e \in repo : e.file \in InBarrels /\ ~Exported(e)}
  \cup {e \in repo : /\ e.file = "src/pages" /\ Has(e.of, "router.tsx", "file")
                     /\ e.key \notin TemplateUrls /\ ~Has(e.of, "route", e.key)}
UnreachedIsUnfinished == \A e \in Unreached : \E r \in stopped \cup {run} : r.of = e.of
=============================================================================
