\* Two runs over two servers, three that write code for them, or five over two
\* frontends, one of them stopped.
SPECIFICATION Spec
CONSTANTS
  w1 = w1
  w2 = w2
  m1 = m1
  m2 = m2
  Workspaces = {w1, w2}
  Modules = {m1, m2}
  CamelCase <- MCCamelCase
  HasSupergraph = TRUE
  PortRange = 3
  FrontendPortRange = 2
  Urls = {"/", "/team", "/crew"}
  PageNames = {"TeamPage", "AboutPage", "HomePage"}
  PieceNames = {"X"}
  Sides = {"server", "code", "frontend"}
  MaxRuns <- MCMaxRuns
  MaxStops = 1
  LastCopy = 1
SYMMETRY Symmetry
INVARIANTS
  TypeOK PortsAreDistinct PortsAgree AppIsBacked DoneMeansWired NothingDangles
  UnreachedIsUnfinished
CHECK_DEADLOCK FALSE
