------------------------ MODULE FrontendGenerators ------------------------
(***************************************************************************)
(* The generators of frontendCodeGenerator/: a project, its modules, their   *)
(* pages with a route each, and components, hooks and use cases in a module  *)
(* or shared.  Each is one action that writes its files in turn; what makes  *)
(* a run safe is the validation of the prompts that come before it.          *)
(***************************************************************************)
EXTENDS Splices

CONSTANTS Modules, Urls, PageNames, PieceNames,
          FrontendPortRange  \* bound on the ports tried

IsFrontend(w) == Has(w, "rsbuild.config.ts", "server")
HasModule(w, m) == \E e \in repo : e.of = w /\ e.mod = m /\ e.file = "module"
HasFile(w, m, folder, name) ==
  \E e \in repo : e.of = w /\ e.mod = m /\ e.file = folder /\ e.key = name

(* templates/web's router.tsx: '/' and '/about' are routed, and rootRoute,   *)
(* indexRoute and aboutRoute are declared                                    *)
TemplateUrls == {"/", "/about"}
TemplateRoutes == {"RootPage", "IndexPage", "AboutPage"}

(* a project, plain, host or remote: the ports of all kinds are one range *)
ProjectOffered(w) == ~\E e \in repo : e.of = w
ProjectPorts == {p \in 3000 .. (3000 + FrontendPortRange) :
                   LowestFree("rsbuild.config.ts", "server", 3000, p)}
ProjectEdits(w, p) == <<PortEntry(w, "rsbuild.config.ts", "server", p),
                        Entry(w, "router.tsx", "file")>>

ModuleOffered(w, m) == IsFrontend(w) /\ ~HasModule(w, m)
ModuleEdits(w, m) == <<EntryAt(w, m, "module", "dir", 0, "none"),
                       EntryAt(w, m, "index.ts", "file", 0, "none")>>

BarrelLine(w, m, folder, name) == EntryAt(w, m, "index.ts", name, 0, folder)

(* routerHasIdentifierCollision: a page's route variable is its name, less   *)
(* "Page", with a small initial                                              *)
RouteDeclared(w, page) ==
  /\ Has(w, "router.tsx", "file")
  /\ \/ page \in TemplateRoutes
     \/ \E e \in repo : e.of = w /\ e.file = "route" /\ e.to = page
PageOffered(w, m, url, page) ==
  /\ IsFrontend(w) /\ HasModule(w, m)
  /\ ~Has(w, "src/pages", url)
  /\ ~HasFile(w, m, "pages", page)
  /\ ~RouteDeclared(w, page)
(* Mutant: a router that has a page already is left alone. *)
InjectFirstRoute(w, m, url, page) ==
  IF /\ Has(w, "router.tsx", "file") /\ url \notin TemplateUrls
     /\ ~(\E e \in repo : e.of = w /\ e.file = "route")
  THEN <<EntryAt(w, m, "route", url, 0, page)>> ELSE <<>>
(* no router, or a route for this path: left alone *)
InjectRoute(w, m, url, page) ==
  IF Has(w, "router.tsx", "file") /\ url \notin TemplateUrls /\ ~Has(w, "route", url)
  THEN <<EntryAt(w, m, "route", url, 0, page)>> ELSE <<>>
Wrapper(w, m, url, page) == EntryAt(w, m, "src/pages", url, 0, page)
PageEdits(w, m, url, page) ==
  <<EntryAt(w, m, "pages", page, 0, "none"), BarrelLine(w, m, "pages", page),
    Wrapper(w, m, url, page)>> \o InjectRoute(w, m, url, page)

(* components, hooks and use cases: the file and the line of its barrel *)
PieceFolders == {"components", "hooks", "usecases"}
PieceOffered(w, m, folder, name) ==
  /\ IsFrontend(w) /\ (m = "shared" \/ HasModule(w, m))
  /\ ~HasFile(w, m, folder, name)
(* Mutant: the barrel first. *)
BarrelBeforePiece(w, m, folder, name) ==
  <<BarrelLine(w, m, folder, name), EntryAt(w, m, folder, name, 0, "none")>>
PieceEdits(w, m, folder, name) ==
  <<EntryAt(w, m, folder, name, 0, "none"), BarrelLine(w, m, folder, name)>>
=============================================================================
