------------------------------ MODULE Splices ------------------------------
(***************************************************************************)
(* The repository as the generators of turbo/generators read and edit it,   *)
(* and the idempotent edits of their helpers.ts.  What the text of a file    *)
(* says is a set of entries: in the files of `of` (a server or a frontend),  *)
(* `file` holds `key`, with a port and a target where they matter.  Every    *)
(* edit looks for its own key and leaves a file that has it alone; every     *)
(* edit is one write, so a run of a generator can stop between two of them.  *)
(***************************************************************************)
EXTENDS Naturals, Sequences

CONSTANTS Workspaces,       \* names of servers and frontends
          CamelCase         \* camelCase(): a name as a template variable

VARIABLE repo               \* the entries present

HealthPort == 9000

EntryAt(of, mod, file, key, port, to) ==
  [of |-> of, mod |-> mod, file |-> file, key |-> key, port |-> port, to |-> to]
Entry(of, file, key) == EntryAt(of, "none", file, key, 0, "none")
PortEntry(of, file, key, port) == EntryAt(of, "none", file, key, port, "none")

Has(of, file, key) == \E e \in repo : e.of = of /\ e.file = file /\ e.key = key

(* files of one name in several modules of a frontend or folders of a server *)
PerModule == {"module", "index.ts", "pages", "components", "hooks", "usecases", "barrel"}

(* what an edit looks for before it writes: camelCase(name) in Grafana's     *)
(* ConfigMap, the number of a container port, the folder of a module's       *)
(* export, otherwise the key                                                 *)
Finds(e, w) ==
  /\ e.file = w.file /\ e.key = w.key
  /\ IF w.file = "grafana-configmap.yaml" THEN CamelCase[e.of] = CamelCase[w.of]
                                          ELSE e.of = w.of
  /\ w.file \in PerModule => e.mod = w.mod
  /\ w.file = "deployment.yaml" /\ w.key = "containerPort" => e.port = w.port
  /\ w.file = "index.ts" => e.to = w.to
Present(w) == \E e \in repo : Finds(e, w)

(* findServerWorkspaces, findPrismaServerWorkspaces, serverHasDriver *)
IsServer(s) == Has(s, "package.json", "server")
HasPrisma(s) == IsServer(s) /\ Has(s, "schema.prisma", "file")
HasDriver(s, driver) == Has(s, "app.ts", driver)

(* Mutant: a scan of the files that are not in the repository *)
ClaimedInEnv(file, var) == {e.port : e \in {f \in repo : f.file = ".env" /\ f.key = var}}

(* the lowest port from `default` on that no workspace claims in `file`; the   *)
(* scan of port literals in app.ts finds none, as what is injected there       *)
(* reads its port from the environment                                         *)
Claimed(file, var) == {e.port : e \in {f \in repo : f.file = file /\ f.key = var}}
LowestFree(file, var, default, p) ==
  /\ p >= default /\ p \notin Claimed(file, var)
  /\ \A q \in default .. (p - 1) : q \in Claimed(file, var)

(* the port a server's .env.sample says, read back *)
PortOf(s, var) ==
  (CHOOSE e \in repo : e.of = s /\ e.file = ".env.sample" /\ e.key = var).port

(* .env.sample always, .env only where it exists; one port for both *)
AppendEnv(s, var, port) ==
  <<PortEntry(s, ".env.sample", var, port)>>
    \o (IF Has(s, ".env", "file") THEN <<PortEntry(s, ".env", var, port)>> ELSE <<>>)

InjectDriver(s, driver) == Entry(s, "app.ts", driver)
MergePackageJson(s, deps) == Entry(s, "package.json", deps)
WireConfigMap(s, name) == Entry(s, "deployment.yaml", name)
(* Mutant: a file that has an initContainer already is left alone. *)
WireFirstInitContainer(s, file, name) ==
  IF \E e \in repo : e.of = s /\ e.file = file /\ e.to = "initContainer"
  THEN CHOOSE e \in repo : e.of = s /\ e.file = file /\ e.to = "initContainer"
  ELSE EntryAt(s, "none", file, name, 0, "initContainer")
WireInitContainer(s, file, name) == EntryAt(s, "none", file, name, 0, "initContainer")

(* to the `ports:` list if there is one, else below the first `image:` line, *)
(* which is an initContainer's as soon as there is one                       *)
HasInitContainer(s) ==
  \E e \in repo : /\ e.of = s /\ e.file = "deployment.yaml" /\ e.key # "containerPort"
                  /\ e.to = "initContainer"
PortsBelowImage(s) == IF HasInitContainer(s) THEN "initContainer" ELSE "app"
ContainerPorts(s) ==
  {e \in repo : e.of = s /\ e.file = "deployment.yaml" /\ e.key = "containerPort"}
PortsContainer(s) ==
  IF ContainerPorts(s) # {} THEN (CHOOSE e \in ContainerPorts(s) : TRUE).to
  ELSE PortsBelowImage(s)
WireContainerPort(s, port) ==
  EntryAt(s, "none", "deployment.yaml", "containerPort", port, PortsContainer(s))

WirePrometheusJob(s) == <<Entry(s, "config/prometheus.yml", "health"),
                          Entry(s, "files/prometheus.yml", "health")>>
=============================================================================
