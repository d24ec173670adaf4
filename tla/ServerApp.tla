------------------------------ MODULE ServerApp ------------------------------
(* The lifecycle of a server: run() connects the database, starts every     *)
(* plugin, then every driver; stop() stops plugins, drivers and database.   *)
(* Promise.all starts its members together, rejects with the first          *)
(* rejection and does not cancel the others.                                *)
EXTENDS Naturals, FiniteSets

CONSTANTS
    Plugins,     \* the plugin classes given to plugins()
    Drivers,     \* the driver entries given to init()
    Health,      \* HealthCheckPlugin, when it is one of the plugins
    Drains,      \* the drivers whose stop() waits for running handlers
    Bounded,     \* the plugins and drivers whose own start and stop settle:
                 \* synchronous, or with a timeout in their client
    MayFail,     \* an awaited external operation may reject
    MaxWork      \* bound: handlers running at once on a driver

ASSUME ServerAppAssumption ==
    /\ Plugins \cap Drivers = {}
    /\ Drains \subseteq Drivers
    /\ Bounded \subseteq Plugins \cup Drivers
    /\ MayFail \in BOOLEAN
    /\ MaxWork \in Nat

VARIABLES
    database,    \* what database() was given: "none", "adapter" or "factory"
    early,       \* history: stop() was called while something was starting
    app,         \* where run() stands
    stopper,     \* where stop() stands
    db,          \* the Prisma client and the adapter's pool
    plugin,      \* state of each plugin
    driver,      \* state of each driver
    stopping,    \* plugins or drivers whose stop promise is pending
    ready,       \* how often onReady/callback fired for each driver
    work,        \* handlers running on each driver
    healthPort   \* the port HealthCheckPlugin holds

setup == <<database, early>>
vars == <<setup, app, stopper, db, plugin, driver, stopping, ready, work, healthPort>>

AppStates == {"built", "resolving", "connecting", "plugins", "drivers", "up", "failed"}
StopStates == {"none", "plugins", "drivers", "disconnecting", "ending", "stopped", "failed"}

(* A start is pending; in a cut one stop() has closed the handle it was     *)
(* about to connect (RedisPlugin.ts:29-36, LoggerPlugin.ts:87-124).         *)
Pending == {"starting", "cut"}

TypeOK ==
    /\ database \in {"none", "adapter", "factory"}
    /\ early \in BOOLEAN
    /\ app \in AppStates
    /\ stopper \in StopStates
    /\ db \in {"none", "resolved", "connected", "disconnected", "ended"}
    /\ plugin \in [Plugins -> {"absent", "starting", "cut", "up", "failed", "closing", "closed"}]
    /\ driver \in [Drivers -> {"new", "starting", "cut", "serving", "failed", "draining", "closed"}]
    /\ stopping \subseteq Plugins \cup Drivers
    /\ ready \in [Drivers -> Nat]
    /\ work \in [Drivers -> 0 .. MaxWork]
    /\ healthPort \in {"none", "HEALTHCHECK_PORT", "container"}

Init ==
    /\ database \in {"none", "adapter", "factory"}
    /\ early = FALSE
    /\ app = "built" /\ stopper = "none" /\ db = "none"
    /\ plugin = [p \in Plugins |-> "absent"]
    /\ driver = [d \in Drivers |-> "new"]
    /\ stopping = {}
    /\ ready = [d \in Drivers |-> 0]
    /\ work = [d \in Drivers |-> 0]
    /\ healthPort = "none"

-----------------------------------------------------------------------------
(* run()                                                                    *)

(* constructor(port = Number(HEALTHCHECK_PORT ?? 9000)): the default holds  *)
(* only when no argument is passed.                                         *)
PortOf(argument) == IF argument = "undefined" THEN "HEALTHCHECK_PORT" ELSE argument

(* Every driver.start() is called in the same turn.                         *)
StartDrivers ==
    /\ app' = IF Drivers = {} THEN "up" ELSE "drivers"
    /\ driver' = [d \in Drivers |-> "starting"]

(* Routers, interceptors and plugins are constructed with the container,    *)
(* then every onStart() is called.                                          *)
StartPlugins ==
    /\ healthPort' = IF Health \in Plugins THEN PortOf("container") ELSE healthPort
    /\ plugin' = [p \in Plugins |-> "starting"]
    /\ IF Plugins = {} THEN StartDrivers
                       ELSE app' = "plugins" /\ UNCHANGED driver

ConstructorThrows ==
    /\ MayFail
    /\ app' = "failed"
    /\ UNCHANGED <<plugin, driver, healthPort>>

Run ==
    /\ app = "built"
    /\ \/ /\ database = "factory"
          /\ app' = "resolving"
          /\ UNCHANGED <<db, plugin, driver, healthPort>>
       \/ /\ database = "adapter"
          /\ app' = "connecting" /\ db' = "resolved"
          /\ UNCHANGED <<plugin, driver, healthPort>>
       \/ /\ database = "none"
          /\ StartPlugins \/ ConstructorThrows
          /\ UNCHANGED db
    /\ UNCHANGED <<setup, stopper, stopping, ready, work>>

(* Mutant: the factory's promise is taken for the adapter.                  *)
FactoryUnawaited ==
    /\ app = "resolving"
    /\ app' = "connecting" /\ db' = database
    /\ UNCHANGED <<setup, stopper, plugin, driver, stopping, ready, work, healthPort>>

FactoryResolves ==
    /\ app = "resolving"
    /\ app' = "connecting" /\ db' = "resolved"
    /\ UNCHANGED <<setup, stopper, plugin, driver, stopping, ready, work, healthPort>>

Connects ==
    /\ app = "connecting" /\ db # "ended"
    /\ db' = "connected"
    /\ StartPlugins \/ ConstructorThrows
    /\ UNCHANGED <<setup, stopper, stopping, ready, work>>

(* The factory or $connect() rejects.                                       *)
DatabaseFails ==
    /\ app \in {"resolving", "connecting"}
    /\ MayFail \/ db = "ended"
    /\ app' = "failed"
    /\ UNCHANGED <<setup, stopper, db, plugin, driver, stopping, ready, work, healthPort>>

(* Mutant: the drivers start with the first plugin that is up.              *)
FirstPluginSuffices(p) ==
    /\ plugin[p] \in Pending
    /\ plugin' = [plugin EXCEPT ![p] = IF @ = "cut" THEN "closed" ELSE "up"]
    /\ IF app = "plugins" THEN StartDrivers ELSE UNCHANGED <<app, driver>>
    /\ UNCHANGED <<setup, stopper, db, stopping, ready, work, healthPort>>

PluginStarts(p) ==
    /\ plugin[p] \in Pending
    /\ plugin' = [plugin EXCEPT ![p] = IF @ = "cut" THEN "closed" ELSE "up"]
    /\ IF app = "plugins" /\ \A q \in Plugins \ {p} : plugin[q] \notin Pending \cup {"failed"}
       THEN StartDrivers
       ELSE UNCHANGED <<app, driver>>
    /\ UNCHANGED <<setup, stopper, db, stopping, ready, work, healthPort>>

PluginFails(p) ==
    /\ MayFail /\ plugin[p] \in Pending
    /\ plugin' = [plugin EXCEPT ![p] = "failed"]
    /\ app' = "failed"
    /\ UNCHANGED <<setup, stopper, db, driver, stopping, ready, work, healthPort>>

(* Mutant: the driver that is ready does not count itself.                  *)
OwnStartUncounted(d) ==
    /\ driver[d] \in Pending
    /\ driver' = [driver EXCEPT ![d] = IF @ = "cut" THEN "closed" ELSE "serving"]
    /\ ready' = [ready EXCEPT ![d] = @ + 1]
    /\ app' = IF app = "drivers" /\ \A e \in Drivers : ready[e] > 0 THEN "up" ELSE app
    /\ UNCHANGED <<setup, stopper, db, plugin, stopping, work, healthPort>>

(* start() resolves, onReady and callback fire, either may throw.           *)
DriverStarts(d) ==
    /\ driver[d] \in Pending
    /\ driver' = [driver EXCEPT ![d] = IF @ = "cut" THEN "closed" ELSE "serving"]
    /\ ready' = [ready EXCEPT ![d] = @ + 1]
    /\ \/ app' = IF app = "drivers" /\ \A e \in Drivers \ {d} : ready[e] > 0
                 THEN "up" ELSE app
       \/ MayFail /\ app' = "failed"
    /\ UNCHANGED <<setup, stopper, db, plugin, stopping, work, healthPort>>

DriverFails(d) ==
    /\ MayFail /\ driver[d] \in Pending
    /\ driver' = [driver EXCEPT ![d] = "failed"]
    /\ app' = "failed"
    /\ UNCHANGED <<setup, stopper, db, plugin, stopping, ready, work, healthPort>>

-----------------------------------------------------------------------------
(* Handlers: requests, messages or jobs                                     *)

WorkArrives(d) ==
    /\ driver[d] = "serving" /\ work[d] < MaxWork
    /\ work' = [work EXCEPT ![d] = @ + 1]
    /\ UNCHANGED <<setup, app, stopper, db, plugin, driver, stopping, ready, healthPort>>

WorkEnds(d) ==
    /\ work[d] > 0
    /\ work' = [work EXCEPT ![d] = @ - 1]
    /\ UNCHANGED <<setup, app, stopper, db, plugin, driver, stopping, ready, healthPort>>

-----------------------------------------------------------------------------
(* stop()                                                                   *)

(* Nothing that run() started is still on its way.                          *)
Settled ==
    /\ app \in {"up", "failed"}
    /\ \A p \in Plugins : plugin[p] \notin Pending
    /\ \A d \in Drivers : driver[d] \notin Pending

(* What calling every stop at once does to the states of the members: one   *)
(* that is up closes; the stop of one that is starting finds its handle     *)
(* (cut) or comes too early; there is nothing to close in the others.       *)
StopCalled(state, up, closing, cut) ==
    [x \in DOMAIN state |-> CASE state[x] = up -> closing
                              [] x \in cut -> "cut"
                              [] OTHER -> state[x]]
Starting(state) == {x \in DOMAIN state : state[x] = "starting"}

(* Mutant: the database is left open.                                       *)
ForgetDatabase == stopper' = "stopped"

(* After the drivers: this._prismaClient?.$disconnect().                    *)
CloseDatabase == stopper' = IF db = "none" THEN "stopped" ELSE "disconnecting"

(* Mutant: the drivers are told to stop but not awaited.                    *)
StopDriversUnawaited ==
    /\ \E cut \in SUBSET Starting(driver) :
         driver' = StopCalled(driver, "serving", "draining", cut)
    /\ stopping' = {}
    /\ CloseDatabase

(* Every driver.stop() is called and awaited, started or not; on a serving  *)
(* driver the intake ends.                                                  *)
StopDrivers ==
    /\ \E cut \in SUBSET Starting(driver) :
         driver' = StopCalled(driver, "serving", "draining", cut)
    /\ stopping' = Drivers
    /\ IF Drivers = {} THEN CloseDatabase ELSE stopper' = "drivers"

(* Every onStop() of _pluginInstances, which run() fills when it constructs *)
(* the plugins, is called and awaited.                                      *)
Stop ==
    LET instances == {p \in Plugins : plugin[p] # "absent"} IN
    /\ stopper = "none"
    /\ early' = ~Settled
    /\ IF instances = {}
       THEN StopDrivers /\ UNCHANGED plugin
       ELSE /\ stopper' = "plugins" /\ stopping' = instances
            /\ \E cut \in SUBSET Starting(plugin) :
                 plugin' = StopCalled(plugin, "up", "closing", cut)
            /\ UNCHANGED driver
    /\ UNCHANGED <<database, app, db, ready, work, healthPort>>

(* onStop() resolves: the handle it closed is closed.                       *)
Closes(p) == plugin' = [plugin EXCEPT ![p] = IF @ = "closing" THEN "closed" ELSE @]

PluginStops(p) ==
    /\ p \in stopping /\ stopper = "plugins"
    /\ Closes(p)
    /\ IF stopping = {p} THEN StopDrivers
       ELSE stopping' = stopping \ {p} /\ UNCHANGED <<stopper, driver>>
    /\ UNCHANGED <<setup, app, db, ready, work, healthPort>>

(* Mutant: a rejected onStop() never ends the Promise.all.                  *)
PluginStopHangs(p) ==
    /\ MayFail /\ p \in stopping /\ stopper = "plugins"
    /\ stopping' = stopping \ {p}
    /\ UNCHANGED <<setup, app, stopper, db, plugin, driver, ready, work, healthPort>>

(* The rejection leaves stop(): nothing after this line runs.               *)
PluginStopFails(p) ==
    /\ MayFail /\ p \in stopping /\ stopper \in {"plugins", "failed"}
    /\ stopping' = stopping \ {p}
    /\ stopper' = "failed"
    /\ UNCHANGED <<setup, app, db, plugin, driver, ready, work, healthPort>>

(* onStop() calls still pending when stop() rejected come to their end.     *)
PluginStopsLate(p) ==
    /\ p \in stopping /\ stopper = "failed"
    /\ Closes(p)
    /\ stopping' = stopping \ {p}
    /\ UNCHANGED <<setup, app, stopper, db, driver, ready, work, healthPort>>

(* The stop of a driver that drains waits for the handlers.                 *)
Draining(d) == d \in Drains /\ driver[d] = "draining" /\ work[d] > 0

DriverStops(d) ==
    /\ d \in stopping /\ ~Draining(d)
    /\ driver' = [driver EXCEPT ![d] = IF @ = "draining" THEN "closed" ELSE @]
    /\ stopping' = stopping \ {d}
    /\ IF stopper = "drivers" /\ stopping = {d} THEN CloseDatabase ELSE UNCHANGED stopper
    /\ UNCHANGED <<setup, app, db, plugin, ready, work, healthPort>>

(* Also on a driver that never came up: Apollo's stop() throws there.       *)
DriverStopFails(d) ==
    /\ MayFail /\ d \in stopping /\ stopper \in {"drivers", "failed"}
    /\ stopping' = stopping \ {d}
    /\ stopper' = "failed"
    /\ UNCHANGED <<setup, app, db, plugin, driver, ready, work, healthPort>>

Disconnects ==
    /\ stopper = "disconnecting"
    /\ db' = "disconnected" /\ stopper' = "ending"
    /\ UNCHANGED <<setup, app, plugin, driver, stopping, ready, work, healthPort>>

Ends ==
    /\ stopper = "ending"
    /\ db' = "ended" /\ stopper' = "stopped"
    /\ UNCHANGED <<setup, app, plugin, driver, stopping, ready, work, healthPort>>

DatabaseCloseFails ==
    /\ MayFail /\ stopper \in {"disconnecting", "ending"}
    /\ stopper' = "failed"
    /\ UNCHANGED <<setup, app, db, plugin, driver, stopping, ready, work, healthPort>>

-----------------------------------------------------------------------------

RunStep ==
    \/ Run \/ FactoryResolves \/ Connects \/ DatabaseFails
    \/ \E p \in Plugins : PluginStarts(p) \/ PluginFails(p)
    \/ \E d \in Drivers : DriverStarts(d) \/ DriverFails(d)

StopStep ==
    \/ \E p \in Plugins : PluginStops(p) \/ PluginStopFails(p) \/ PluginStopsLate(p)
    \/ \E d \in Drivers : DriverStops(d) \/ DriverStopFails(d)
    \/ Disconnects \/ Ends \/ DatabaseCloseFails

Next ==
    \/ RunStep \/ Stop \/ StopStep
    \/ \E d \in Drivers : WorkArrives(d) \/ WorkEnds(d)

Spec == Init /\ [][Next]_vars

(* Only the starts and stops of Bounded members settle by themselves. The   *)
(* database, the plugins that fetch without a timeout (OpenBaoPlugin.ts:75, *)
(* AuthentikPlugin.ts:125) and handlers may take for ever; nobody has to    *)
(* call run() or stop().                                                    *)
Fairness ==
    /\ \A p \in Plugins \cap Bounded :
         /\ WF_vars(PluginStarts(p) \/ PluginFails(p))
         /\ WF_vars(PluginStops(p) \/ PluginStopFails(p) \/ PluginStopsLate(p))
    /\ \A d \in Drivers \cap Bounded :
         /\ WF_vars(DriverStarts(d) \/ DriverFails(d))
         /\ WF_vars(~Draining(d) /\ (DriverStops(d) \/ DriverStopFails(d)))

FairSpec == Spec /\ Fairness

-----------------------------------------------------------------------------
(* Safety                                                                   *)

(* Until stop() is called, a driver that is at least starting has every     *)
(* plugin up and the database connected behind it: one failed plugin or a   *)
(* failed connection keeps every driver from starting (lines 169-188).      *)
DriversAreBacked == stopper = "none" =>
    \A d \in Drivers : driver[d] # "new" =>
        /\ \A p \in Plugins : plugin[p] = "up"
        /\ database # "none" => db = "connected"

(* The database goes last: once stop() starts closing it, every driver it   *)
(* found serving has come to its end and, if it drains, has no handler      *)
(* left; called on a settled application, it leaves none serving            *)
(* (lines 213-216).                                                         *)
DatabaseClosesLast ==
    stopper \in {"disconnecting", "ending", "stopped"} \/ db \in {"disconnected", "ended"} =>
        \A d \in Drivers : /\ driver[d] # "draining"
                           /\ d \in Drains /\ driver[d] # "serving" => work[d] = 0
                           /\ ~early => driver[d] \notin {"starting", "serving"}

(* stop() that resolves has closed all that came up, unless it overtook     *)
(* something that was still starting: that may come up afterwards.          *)
StoppedMeansClosed == stopper = "stopped" /\ ~early =>
    /\ \A p \in Plugins : plugin[p] \notin {"starting", "up", "closing"}
    /\ \A d \in Drivers : driver[d] \notin {"starting", "serving", "draining"}
    /\ db \in {"none", "ended"}

(* Neither call waits for nothing: while run() is at a Promise.all, one of  *)
(* its starts is pending, and while stop() is at one, one of its stops is,  *)
(* however the other call changes their states (lines 186-214).             *)
AwaitsWhatIsPending ==
    /\ app = "plugins" => \E p \in Plugins : plugin[p] \in Pending
    /\ app = "drivers" => \E d \in Drivers : driver[d] \in Pending
    /\ stopper \in {"plugins", "drivers"} => stopping # {}

-----------------------------------------------------------------------------
(* What the documentation says                                              *)

(* The comment on stop() calls its order the reverse of run()'s             *)
(* (ServerApp.ts:211): plugins, started first, would outlive every handler  *)
(* of a driver that drains, at least when stop() overtakes no start.        *)
PluginsOutliveHandlers == ~early =>
    \A d \in Drains : work[d] > 0 => \A p \in Plugins : plugin[p] # "closed"

(* HealthCheckPlugin.ts:3 promises a server "on its own port".              *)
HealthOnItsOwnPort == healthPort \in {"none", "HEALTHCHECK_PORT"}

-----------------------------------------------------------------------------
(* Liveness                                                                 *)

(* What nothing bounds, and run() or stop() waits for.                      *)
RunHangs ==
    \/ app \in {"resolving", "connecting"}
    \/ app = "plugins" /\ \E p \in Plugins \ Bounded : plugin[p] \in Pending
    \/ app = "drivers" /\ \E d \in Drivers \ Bounded : driver[d] \in Pending
StopHangs ==
    \/ stopper \in {"plugins", "drivers"} /\ ~(stopping \subseteq Bounded)
    \/ stopper = "drivers" /\ \E d \in stopping : Draining(d)
    \/ stopper \in {"disconnecting", "ending"}

(* run() and stop() settle once called, whatever rejects and whichever of   *)
(* them overtakes the other, unless they wait for ever on an operation      *)
(* that has no bound.                                                       *)
BothSettle ==
    /\ [](app # "built" => <>(app \in {"up", "failed"}) \/ <>[]RunHangs)
    /\ [](stopper # "none" => <>(stopper \in {"stopped", "failed"}) \/ <>[]StopHangs)

=============================================================================
