--------------------------- MODULE ServerAppProofs ---------------------------
(* Theorems about ServerApp, for any plugins, drivers and handlers.          *)
EXTENDS ServerApp, TLAPS

USE ServerAppAssumption DEF ServerAppAssumption

-----------------------------------------------------------------------------
(* The inductive invariant *)

(* run() starts plugins when it is past the database, and drivers when every *)
(* plugin has come up; stop() may have closed one since. A driver is ready   *)
(* once its start is over.                                                   *)
StartedInOrder ==
    /\ app \in {"built", "resolving", "connecting"} => \A p \in Plugins : plugin[p] = "absent"
    /\ app = "plugins" => \A p \in Plugins : plugin[p] \notin {"absent", "failed"}
    /\ \A d \in Drivers : driver[d] # "new" => app \in {"drivers", "up", "failed"}
    /\ app \in {"drivers", "up"} \/ (\E d \in Drivers : driver[d] # "new") =>
         \A p \in Plugins : plugin[p] \in {"up", "closing", "closed"}
    /\ \A d \in Drivers : ready[d] = 0 => driver[d] \in {"new", "starting", "cut", "failed"}
    /\ app = "drivers" => \A d \in Drivers : driver[d] \notin {"new", "failed"}

(* stop() waits for plugins or for drivers, and for nothing before and after.*)
AwaitedByStop ==
    /\ stopper \notin {"plugins", "drivers", "failed"} => stopping = {}
    /\ stopper = "plugins" => stopping \subseteq Plugins
    /\ stopper = "drivers" => stopping \subseteq Drivers

(* Before stop() nothing is closed, and what runs has its database.          *)
BeforeStop == stopper = "none" =>
    /\ db \notin {"disconnected", "ended"}
    /\ \A p \in Plugins : plugin[p] \notin {"cut", "closing", "closed"}
    /\ database # "none" /\ db # "connected" =>
         /\ app \notin {"plugins", "drivers", "up"}
         /\ \A p \in Plugins : plugin[p] = "absent"
         /\ \A d \in Drivers : driver[d] = "new"

(* What is closing is awaited by stop(), unless stop() has failed.           *)
ClosingIsAwaited ==
    /\ \A p \in Plugins : plugin[p] = "closing" =>
         stopper = "failed" \/ (stopper = "plugins" /\ p \in stopping)
    /\ \A d \in Drivers : driver[d] = "draining" =>
         stopper = "failed" \/ (stopper = "drivers" /\ d \in stopping)

(* A draining driver is closed by its last handler's end.                    *)
HandlersAreDrained == \A d \in Drains :
    driver[d] \notin {"serving", "draining"} => work[d] = 0

(* What stop() has closed when it began on a settled application.            *)
ClosedInOrder == stopper # "none" /\ ~early =>
    /\ app \in {"up", "failed"}
    /\ \A p \in Plugins : plugin[p] \notin {"starting", "cut", "up"}
    /\ \A d \in Drivers : driver[d] \notin {"starting", "cut"}
    /\ stopper \in {"drivers", "disconnecting", "ending", "stopped"} =>
         \A d \in Drivers : driver[d] # "serving"
    /\ stopper = "stopped" => db \in {"none", "ended"}

(* Only the end of stop() closes the database. *)
ClosedByStop == db \in {"disconnected", "ended"} => stopper \in {"ending", "stopped", "failed"}

IInv ==
    /\ TypeOK /\ StartedInOrder /\ AwaitedByStop /\ BeforeStop /\ ClosingIsAwaited
    /\ HandlersAreDrained /\ ClosedInOrder /\ ClosedByStop /\ DatabaseClosesLast
    /\ AwaitsWhatIsPending

-----------------------------------------------------------------------------
(* The steps *)

(* What the call of its stop leaves of a member that was in state `old`.     *)
Called(old, new, up, closing) ==
    /\ old = up => new = closing
    /\ old = "starting" => new \in Pending
    /\ old \notin {up, "starting"} => new = old

(* One stop closes what is up and may cut what is starting. *)
LEMMA StopCalledAt ==
  ASSUME NEW X, NEW state, X = DOMAIN state, NEW up, NEW closing, up # "starting",
         NEW cut \in SUBSET Starting(state), NEW x \in X
  PROVE  Called(state[x], StopCalled(state, up, closing, cut)[x], up, closing)
<1>1. StopCalled(state, up, closing, cut)[x] =
        CASE state[x] = up -> closing [] x \in cut -> "cut" [] OTHER -> state[x]
  BY DEF StopCalled
<1>2. x \in cut => state[x] = "starting"
  BY DEF Starting
<1>3. CASE state[x] = up
  BY <1>1, <1>2, <1>3 DEF Called
<1>4. CASE state[x] # up /\ x \in cut
  BY <1>1, <1>2, <1>4 DEF Called, Pending
<1>5. CASE state[x] # up /\ x \notin cut
  BY <1>1, <1>5 DEF Called, Pending
<1> QED
  BY <1>3, <1>4, <1>5

(* After driver.stop() of every driver, stop() waits for all of them.        *)
LEMMA DriversCalled ==
  ASSUME TypeOK, StopDrivers
  PROVE  /\ driver' \in [Drivers -> {"new", "starting", "cut", "serving", "failed", "draining", "closed"}]
         /\ \A d \in Drivers : Called(driver[d], driver'[d], "serving", "draining")
         /\ stopping' = Drivers
         /\ IF Drivers = {} THEN CloseDatabase ELSE stopper' = "drivers"
<1>1. PICK cut \in SUBSET Starting(driver) : driver' = StopCalled(driver, "serving", "draining", cut)
  BY DEF StopDrivers
<1>2. DOMAIN driver = Drivers
  BY DEF TypeOK
<1>3. \A d \in Drivers : Called(driver[d], driver'[d], "serving", "draining")
  BY <1>1, <1>2, StopCalledAt
<1>4. driver' = [d \in Drivers |-> driver'[d]]
  BY <1>1, <1>2 DEF StopCalled
<1>5. \A d \in Drivers :
        driver'[d] \in {"new", "starting", "cut", "serving", "failed", "draining", "closed"}
  BY <1>3 DEF TypeOK, Called, Pending
<1> QED
  BY <1>3, <1>4, <1>5 DEF StopDrivers

(* stop() calls and awaits every plugin that there is, or goes on.           *)
LEMMA PluginsCalled ==
  ASSUME TypeOK, Stop
  PROVE  /\ stopper = "none" /\ early' = ~Settled
         /\ UNCHANGED <<database, app, db, ready, work, healthPort>>
         /\ \/ /\ StopDrivers /\ UNCHANGED plugin
               /\ \A p \in Plugins : plugin[p] = "absent"
            \/ /\ stopper' = "plugins" /\ UNCHANGED driver
               /\ stopping' = {p \in Plugins : plugin[p] # "absent"} /\ stopping' # {}
               /\ plugin' \in [Plugins -> {"absent", "starting", "cut", "up", "failed", "closing", "closed"}]
               /\ \A p \in Plugins : Called(plugin[p], plugin'[p], "up", "closing")
<1> DEFINE instances == {p \in Plugins : plugin[p] # "absent"}
<1>1. CASE instances = {}
  BY <1>1 DEF Stop
<1>2. CASE instances # {}
  <2>1. PICK cut \in SUBSET Starting(plugin) : plugin' = StopCalled(plugin, "up", "closing", cut)
    BY <1>2 DEF Stop
  <2>2. DOMAIN plugin = Plugins
    BY DEF TypeOK
  <2>3. \A p \in Plugins : Called(plugin[p], plugin'[p], "up", "closing")
    BY <2>1, <2>2, StopCalledAt
  <2>4. plugin' = [p \in Plugins |-> plugin'[p]]
    BY <2>1, <2>2 DEF StopCalled
  <2>5. \A p \in Plugins :
          plugin'[p] \in {"absent", "starting", "cut", "up", "failed", "closing", "closed"}
    BY <2>3 DEF TypeOK, Called, Pending
  <2> QED
    BY <1>2, <2>3, <2>4, <2>5 DEF Stop
<1> QED
  BY <1>1, <1>2

(* run() with nothing to connect starts the plugins; with a database it only begins to connect. *)
LEMMA RunKeeps == ASSUME IInv, Run PROVE IInv'
<1>1. TypeOK'
  BY DEF IInv, TypeOK, AppStates, StopStates, Pending, setup, Run, StartPlugins,
    StartDrivers, ConstructorThrows, PortOf
<1>2. StartedInOrder'
  BY DEF IInv, TypeOK, StartedInOrder, BeforeStop, AwaitsWhatIsPending, Pending, setup, Run,
    StartPlugins, StartDrivers, ConstructorThrows, PortOf
<1>3. AwaitedByStop'
  BY DEF IInv, TypeOK, AwaitedByStop, Pending, setup, Run, StartPlugins, StartDrivers,
    ConstructorThrows, PortOf
<1>4. BeforeStop'
  BY DEF IInv, TypeOK, StartedInOrder, BeforeStop, Pending, setup, Run, StartPlugins,
    StartDrivers, ConstructorThrows, PortOf
<1>5. ClosingIsAwaited'
  BY DEF IInv, TypeOK, StartedInOrder, AwaitedByStop, BeforeStop, ClosingIsAwaited, Pending,
    setup, Run, StartPlugins, StartDrivers, ConstructorThrows, PortOf
<1>6. HandlersAreDrained'
  BY DEF IInv, TypeOK, StartedInOrder, BeforeStop, HandlersAreDrained, Pending, setup, Run,
    StartPlugins, StartDrivers, ConstructorThrows, PortOf
<1>7. ClosedInOrder'
  BY DEF IInv, TypeOK, StartedInOrder, BeforeStop, AwaitedByStop, ClosingIsAwaited,
    ClosedInOrder, Pending, setup, Run, StartPlugins, StartDrivers, ConstructorThrows,
    PortOf
<1>8. ClosedByStop'
  BY DEF IInv, BeforeStop, ClosedByStop, Pending, setup, Run, StartPlugins, StartDrivers,
    ConstructorThrows, PortOf
<1>9. DatabaseClosesLast'
  BY DEF IInv, TypeOK, StartedInOrder, AwaitedByStop, BeforeStop, ClosingIsAwaited,
    HandlersAreDrained, ClosedInOrder, ClosedByStop, DatabaseClosesLast, Pending, setup,
    Run, StartPlugins, StartDrivers, ConstructorThrows, PortOf
<1>10. AwaitsWhatIsPending'
  BY DEF IInv, TypeOK, StartedInOrder, AwaitedByStop, BeforeStop, AwaitsWhatIsPending,
    Pending, setup, Run, StartPlugins, StartDrivers, ConstructorThrows, PortOf
<1> QED
  BY <1>1, <1>2, <1>3, <1>4, <1>5, <1>6, <1>7, <1>8, <1>9, <1>10 DEF IInv

(* The factory has given an adapter: nothing has started yet. *)
LEMMA FactoryResolvesKeeps == ASSUME IInv, FactoryResolves PROVE IInv'
<1>1. TypeOK'
  BY DEF IInv, TypeOK, AppStates, StopStates, Pending, setup, FactoryResolves
<1>2. StartedInOrder'
  BY DEF IInv, TypeOK, StartedInOrder, BeforeStop, AwaitsWhatIsPending, Pending, setup,
    FactoryResolves
<1>3. AwaitedByStop'
  BY DEF IInv, TypeOK, AwaitedByStop, Pending, setup, FactoryResolves
<1>4. BeforeStop'
  BY DEF IInv, TypeOK, StartedInOrder, BeforeStop, Pending, setup, FactoryResolves
<1>5. ClosingIsAwaited'
  BY DEF IInv, TypeOK, StartedInOrder, AwaitedByStop, BeforeStop, ClosingIsAwaited, Pending,
    setup, FactoryResolves
<1>6. HandlersAreDrained'
  BY DEF IInv, TypeOK, StartedInOrder, BeforeStop, HandlersAreDrained, Pending, setup,
    FactoryResolves
<1>7. ClosedInOrder'
  BY DEF IInv, TypeOK, StartedInOrder, BeforeStop, AwaitedByStop, ClosingIsAwaited,
    ClosedInOrder, Pending, setup, FactoryResolves
<1>8. ClosedByStop'
  BY DEF IInv, BeforeStop, ClosedByStop, Pending, setup, FactoryResolves
<1>9. DatabaseClosesLast'
  BY DEF IInv, TypeOK, StartedInOrder, AwaitedByStop, BeforeStop, ClosingIsAwaited,
    HandlersAreDrained, ClosedInOrder, ClosedByStop, DatabaseClosesLast, Pending, setup,
    FactoryResolves
<1>10. AwaitsWhatIsPending'
  BY DEF IInv, TypeOK, StartedInOrder, AwaitedByStop, BeforeStop, AwaitsWhatIsPending,
    Pending, setup, FactoryResolves
<1> QED
  BY <1>1, <1>2, <1>3, <1>4, <1>5, <1>6, <1>7, <1>8, <1>9, <1>10 DEF IInv

(* The database is connected, then the plugins start. *)
LEMMA ConnectsKeeps == ASSUME IInv, Connects PROVE IInv'
<1>1. TypeOK'
  BY DEF IInv, TypeOK, AppStates, StopStates, Pending, setup, Connects, StartPlugins,
    StartDrivers, ConstructorThrows, PortOf
<1>2. StartedInOrder'
  BY DEF IInv, TypeOK, StartedInOrder, BeforeStop, AwaitsWhatIsPending, Pending, setup,
    Connects, StartPlugins, StartDrivers, ConstructorThrows, PortOf
<1>3. AwaitedByStop'
  BY DEF IInv, TypeOK, AwaitedByStop, Pending, setup, Connects, StartPlugins, StartDrivers,
    ConstructorThrows, PortOf
<1>4. BeforeStop'
  BY DEF IInv, TypeOK, StartedInOrder, BeforeStop, Pending, setup, Connects, StartPlugins,
    StartDrivers, ConstructorThrows, PortOf
<1>5. ClosingIsAwaited'
  BY DEF IInv, TypeOK, StartedInOrder, AwaitedByStop, BeforeStop, ClosingIsAwaited, Pending,
    setup, Connects, StartPlugins, StartDrivers, ConstructorThrows, PortOf
<1>6. HandlersAreDrained'
  BY DEF IInv, TypeOK, StartedInOrder, BeforeStop, HandlersAreDrained, Pending, setup,
    Connects, StartPlugins, StartDrivers, ConstructorThrows, PortOf
<1>7. ClosedInOrder'
  BY DEF IInv, TypeOK, StartedInOrder, BeforeStop, AwaitedByStop, ClosingIsAwaited,
    ClosedInOrder, Pending, setup, Connects, StartPlugins, StartDrivers, ConstructorThrows,
    PortOf
<1>8. ClosedByStop'
  BY DEF IInv, BeforeStop, ClosedByStop, Pending, setup, Connects, StartPlugins,
    StartDrivers, ConstructorThrows, PortOf
<1>9. DatabaseClosesLast'
  BY DEF IInv, TypeOK, StartedInOrder, AwaitedByStop, BeforeStop, ClosingIsAwaited,
    HandlersAreDrained, ClosedInOrder, ClosedByStop, DatabaseClosesLast, Pending, setup,
    Connects, StartPlugins, StartDrivers, ConstructorThrows, PortOf
<1>10. AwaitsWhatIsPending'
  BY DEF IInv, TypeOK, StartedInOrder, AwaitedByStop, BeforeStop, AwaitsWhatIsPending,
    Pending, setup, Connects, StartPlugins, StartDrivers, ConstructorThrows, PortOf
<1> QED
  BY <1>1, <1>2, <1>3, <1>4, <1>5, <1>6, <1>7, <1>8, <1>9, <1>10 DEF IInv

(* Without the database nothing starts. *)
LEMMA DatabaseFailsKeeps == ASSUME IInv, DatabaseFails PROVE IInv'
<1>1. TypeOK'
  BY DEF IInv, TypeOK, AppStates, StopStates, Pending, setup, DatabaseFails
<1>2. StartedInOrder'
  BY DEF IInv, TypeOK, StartedInOrder, BeforeStop, AwaitsWhatIsPending, Pending, setup,
    DatabaseFails
<1>3. AwaitedByStop'
  BY DEF IInv, TypeOK, AwaitedByStop, Pending, setup, DatabaseFails
<1>4. BeforeStop'
  BY DEF IInv, TypeOK, StartedInOrder, BeforeStop, Pending, setup, DatabaseFails
<1>5. ClosingIsAwaited'
  BY DEF IInv, TypeOK, StartedInOrder, AwaitedByStop, BeforeStop, ClosingIsAwaited, Pending,
    setup, DatabaseFails
<1>6. HandlersAreDrained'
  BY DEF IInv, TypeOK, StartedInOrder, BeforeStop, HandlersAreDrained, Pending, setup,
    DatabaseFails
<1>7. ClosedInOrder'
  BY DEF IInv, TypeOK, StartedInOrder, BeforeStop, AwaitedByStop, ClosingIsAwaited,
    ClosedInOrder, Pending, setup, DatabaseFails
<1>8. ClosedByStop'
  BY DEF IInv, BeforeStop, ClosedByStop, Pending, setup, DatabaseFails
<1>9. DatabaseClosesLast'
  BY DEF IInv, TypeOK, StartedInOrder, AwaitedByStop, BeforeStop, ClosingIsAwaited,
    HandlersAreDrained, ClosedInOrder, ClosedByStop, DatabaseClosesLast, Pending, setup,
    DatabaseFails
<1>10. AwaitsWhatIsPending'
  BY DEF IInv, TypeOK, StartedInOrder, AwaitedByStop, BeforeStop, AwaitsWhatIsPending,
    Pending, setup, DatabaseFails
<1> QED
  BY <1>1, <1>2, <1>3, <1>4, <1>5, <1>6, <1>7, <1>8, <1>9, <1>10 DEF IInv

(* The last plugin to come up starts the drivers. *)
LEMMA PluginStartsKeeps == ASSUME IInv, NEW p \in Plugins, PluginStarts(p) PROVE IInv'
<1>1. TypeOK'
  BY DEF IInv, TypeOK, AppStates, StopStates, Pending, setup, PluginStarts, StartDrivers
<1>2. StartedInOrder'
  BY DEF IInv, TypeOK, StartedInOrder, BeforeStop, AwaitsWhatIsPending, Pending, setup,
    PluginStarts, StartDrivers
<1>3. AwaitedByStop'
  BY DEF IInv, TypeOK, AwaitedByStop, Pending, setup, PluginStarts, StartDrivers
<1>4. BeforeStop'
  BY DEF IInv, TypeOK, StartedInOrder, BeforeStop, Pending, setup, PluginStarts,
    StartDrivers
<1>5. ClosingIsAwaited'
  BY DEF IInv, TypeOK, StartedInOrder, AwaitedByStop, BeforeStop, ClosingIsAwaited, Pending,
    setup, PluginStarts, StartDrivers
<1>6. HandlersAreDrained'
  BY DEF IInv, TypeOK, StartedInOrder, BeforeStop, HandlersAreDrained, Pending, setup,
    PluginStarts, StartDrivers
<1>7. ClosedInOrder'
  BY DEF IInv, TypeOK, StartedInOrder, BeforeStop, AwaitedByStop, ClosingIsAwaited,
    ClosedInOrder, Pending, setup, PluginStarts, StartDrivers
<1>8. ClosedByStop'
  BY DEF IInv, BeforeStop, ClosedByStop, Pending, setup, PluginStarts, StartDrivers
<1>9. DatabaseClosesLast'
  BY DEF IInv, TypeOK, StartedInOrder, AwaitedByStop, BeforeStop, ClosingIsAwaited,
    HandlersAreDrained, ClosedInOrder, ClosedByStop, DatabaseClosesLast, Pending, setup,
    PluginStarts, StartDrivers
<1>10. AwaitsWhatIsPending'
  BY DEF IInv, TypeOK, StartedInOrder, AwaitedByStop, BeforeStop, AwaitsWhatIsPending,
    Pending, setup, PluginStarts, StartDrivers
<1> QED
  BY <1>1, <1>2, <1>3, <1>4, <1>5, <1>6, <1>7, <1>8, <1>9, <1>10 DEF IInv

(* After a plugin has failed no driver starts. *)
LEMMA PluginFailsKeeps == ASSUME IInv, NEW p \in Plugins, PluginFails(p) PROVE IInv'
<1>1. TypeOK'
  BY DEF IInv, TypeOK, AppStates, StopStates, Pending, setup, PluginFails
<1>2. StartedInOrder'
  BY DEF IInv, TypeOK, StartedInOrder, BeforeStop, AwaitsWhatIsPending, Pending, setup,
    PluginFails
<1>3. AwaitedByStop'
  BY DEF IInv, TypeOK, AwaitedByStop, Pending, setup, PluginFails
<1>4. BeforeStop'
  BY DEF IInv, TypeOK, StartedInOrder, BeforeStop, Pending, setup, PluginFails
<1>5. ClosingIsAwaited'
  BY DEF IInv, TypeOK, StartedInOrder, AwaitedByStop, BeforeStop, ClosingIsAwaited, Pending,
    setup, PluginFails
<1>6. HandlersAreDrained'
  BY DEF IInv, TypeOK, StartedInOrder, BeforeStop, HandlersAreDrained, Pending, setup,
    PluginFails
<1>7. ClosedInOrder'
  BY DEF IInv, TypeOK, StartedInOrder, BeforeStop, AwaitedByStop, ClosingIsAwaited,
    ClosedInOrder, Pending, setup, PluginFails
<1>8. ClosedByStop'
  BY DEF IInv, BeforeStop, ClosedByStop, Pending, setup, PluginFails
<1>9. DatabaseClosesLast'
  BY DEF IInv, TypeOK, StartedInOrder, AwaitedByStop, BeforeStop, ClosingIsAwaited,
    HandlersAreDrained, ClosedInOrder, ClosedByStop, DatabaseClosesLast, Pending, setup,
    PluginFails
<1>10. AwaitsWhatIsPending'
  BY DEF IInv, TypeOK, StartedInOrder, AwaitedByStop, BeforeStop, AwaitsWhatIsPending,
    Pending, setup, PluginFails
<1> QED
  BY <1>1, <1>2, <1>3, <1>4, <1>5, <1>6, <1>7, <1>8, <1>9, <1>10 DEF IInv

(* A driver serves, with everything behind it. *)
LEMMA DriverStartsKeeps == ASSUME IInv, NEW d \in Drivers, DriverStarts(d) PROVE IInv'
<1>1. TypeOK'
  BY DEF IInv, TypeOK, AppStates, StopStates, Pending, setup, DriverStarts
<1>2. StartedInOrder'
  BY DEF IInv, TypeOK, StartedInOrder, BeforeStop, AwaitsWhatIsPending, Pending, setup,
    DriverStarts
<1>3. AwaitedByStop'
  BY DEF IInv, TypeOK, AwaitedByStop, Pending, setup, DriverStarts
<1>4. BeforeStop'
  BY DEF IInv, TypeOK, StartedInOrder, BeforeStop, Pending, setup, DriverStarts
<1>5. ClosingIsAwaited'
  BY DEF IInv, TypeOK, StartedInOrder, AwaitedByStop, BeforeStop, ClosingIsAwaited, Pending,
    setup, DriverStarts
<1>6. HandlersAreDrained'
  BY DEF IInv, TypeOK, StartedInOrder, BeforeStop, HandlersAreDrained, Pending, setup,
    DriverStarts
<1>7. ClosedInOrder'
  BY DEF IInv, TypeOK, StartedInOrder, BeforeStop, AwaitedByStop, ClosingIsAwaited,
    ClosedInOrder, Pending, setup, DriverStarts
<1>8. ClosedByStop'
  BY DEF IInv, BeforeStop, ClosedByStop, Pending, setup, DriverStarts
<1>9. DatabaseClosesLast'
  BY DEF IInv, TypeOK, StartedInOrder, AwaitedByStop, BeforeStop, ClosingIsAwaited,
    HandlersAreDrained, ClosedInOrder, ClosedByStop, DatabaseClosesLast, Pending, setup,
    DriverStarts
<1>10. AwaitsWhatIsPending'
  BY DEF IInv, TypeOK, StartedInOrder, AwaitedByStop, BeforeStop, AwaitsWhatIsPending,
    Pending, setup, DriverStarts
<1> QED
  BY <1>1, <1>2, <1>3, <1>4, <1>5, <1>6, <1>7, <1>8, <1>9, <1>10 DEF IInv

(* A driver that has failed has no handlers. *)
LEMMA DriverFailsKeeps == ASSUME IInv, NEW d \in Drivers, DriverFails(d) PROVE IInv'
<1>1. TypeOK'
  BY DEF IInv, TypeOK, AppStates, StopStates, Pending, setup, DriverFails
<1>2. StartedInOrder'
  BY DEF IInv, TypeOK, StartedInOrder, BeforeStop, AwaitsWhatIsPending, Pending, setup,
    DriverFails
<1>3. AwaitedByStop'
  BY DEF IInv, TypeOK, AwaitedByStop, Pending, setup, DriverFails
<1>4. BeforeStop'
  BY DEF IInv, TypeOK, StartedInOrder, BeforeStop, Pending, setup, DriverFails
<1>5. ClosingIsAwaited'
  BY DEF IInv, TypeOK, StartedInOrder, AwaitedByStop, BeforeStop, ClosingIsAwaited, Pending,
    setup, DriverFails
<1>6. HandlersAreDrained'
  BY DEF IInv, TypeOK, StartedInOrder, BeforeStop, HandlersAreDrained, Pending, setup,
    DriverFails
<1>7. ClosedInOrder'
  BY DEF IInv, TypeOK, StartedInOrder, BeforeStop, AwaitedByStop, ClosingIsAwaited,
    ClosedInOrder, Pending, setup, DriverFails
<1>8. ClosedByStop'
  BY DEF IInv, BeforeStop, ClosedByStop, Pending, setup, DriverFails
<1>9. DatabaseClosesLast'
  BY DEF IInv, TypeOK, StartedInOrder, AwaitedByStop, BeforeStop, ClosingIsAwaited,
    HandlersAreDrained, ClosedInOrder, ClosedByStop, DatabaseClosesLast, Pending, setup,
    DriverFails
<1>10. AwaitsWhatIsPending'
  BY DEF IInv, TypeOK, StartedInOrder, AwaitedByStop, BeforeStop, AwaitsWhatIsPending,
    Pending, setup, DriverFails
<1> QED
  BY <1>1, <1>2, <1>3, <1>4, <1>5, <1>6, <1>7, <1>8, <1>9, <1>10 DEF IInv

(* Handlers begin on a serving driver only. *)
LEMMA WorkArrivesKeeps == ASSUME IInv, NEW d \in Drivers, WorkArrives(d) PROVE IInv'
<1>1. TypeOK'
  BY DEF IInv, TypeOK, AppStates, StopStates, Pending, setup, WorkArrives
<1>2. StartedInOrder'
  BY DEF IInv, TypeOK, StartedInOrder, BeforeStop, AwaitsWhatIsPending, Pending, setup,
    WorkArrives
<1>3. AwaitedByStop'
  BY DEF IInv, TypeOK, AwaitedByStop, Pending, setup, WorkArrives
<1>4. BeforeStop'
  BY DEF IInv, TypeOK, StartedInOrder, BeforeStop, Pending, setup, WorkArrives
<1>5. ClosingIsAwaited'
  BY DEF IInv, TypeOK, StartedInOrder, AwaitedByStop, BeforeStop, ClosingIsAwaited, Pending,
    setup, WorkArrives
<1>6. HandlersAreDrained'
  BY DEF IInv, TypeOK, StartedInOrder, BeforeStop, HandlersAreDrained, Pending, setup,
    WorkArrives
<1>7. ClosedInOrder'
  BY DEF IInv, TypeOK, StartedInOrder, BeforeStop, AwaitedByStop, ClosingIsAwaited,
    ClosedInOrder, Pending, setup, WorkArrives
<1>8. ClosedByStop'
  BY DEF IInv, BeforeStop, ClosedByStop, Pending, setup, WorkArrives
<1>9. DatabaseClosesLast'
  BY DEF IInv, TypeOK, StartedInOrder, AwaitedByStop, BeforeStop, ClosingIsAwaited,
    HandlersAreDrained, ClosedInOrder, ClosedByStop, DatabaseClosesLast, Pending, setup,
    WorkArrives
<1>10. AwaitsWhatIsPending'
  BY DEF IInv, TypeOK, StartedInOrder, AwaitedByStop, BeforeStop, AwaitsWhatIsPending,
    Pending, setup, WorkArrives
<1> QED
  BY <1>1, <1>2, <1>3, <1>4, <1>5, <1>6, <1>7, <1>8, <1>9, <1>10 DEF IInv

(* A handler ends. *)
LEMMA WorkEndsKeeps == ASSUME IInv, NEW d \in Drivers, WorkEnds(d) PROVE IInv'
<1>1. TypeOK'
  BY DEF IInv, TypeOK, AppStates, StopStates, Pending, setup, WorkEnds
<1>2. StartedInOrder'
  BY DEF IInv, TypeOK, StartedInOrder, BeforeStop, AwaitsWhatIsPending, Pending, setup,
    WorkEnds
<1>3. AwaitedByStop'
  BY DEF IInv, TypeOK, AwaitedByStop, Pending, setup, WorkEnds
<1>4. BeforeStop'
  BY DEF IInv, TypeOK, StartedInOrder, BeforeStop, Pending, setup, WorkEnds
<1>5. ClosingIsAwaited'
  BY DEF IInv, TypeOK, StartedInOrder, AwaitedByStop, BeforeStop, ClosingIsAwaited, Pending,
    setup, WorkEnds
<1>6. HandlersAreDrained'
  BY DEF IInv, TypeOK, StartedInOrder, BeforeStop, HandlersAreDrained, Pending, setup,
    WorkEnds
<1>7. ClosedInOrder'
  BY DEF IInv, TypeOK, StartedInOrder, BeforeStop, AwaitedByStop, ClosingIsAwaited,
    ClosedInOrder, Pending, setup, WorkEnds
<1>8. ClosedByStop'
  BY DEF IInv, BeforeStop, ClosedByStop, Pending, setup, WorkEnds
<1>9. DatabaseClosesLast'
  BY DEF IInv, TypeOK, StartedInOrder, AwaitedByStop, BeforeStop, ClosingIsAwaited,
    HandlersAreDrained, ClosedInOrder, ClosedByStop, DatabaseClosesLast, Pending, setup,
    WorkEnds
<1>10. AwaitsWhatIsPending'
  BY DEF IInv, TypeOK, StartedInOrder, AwaitedByStop, BeforeStop, AwaitsWhatIsPending,
    Pending, setup, WorkEnds
<1> QED
  BY <1>1, <1>2, <1>3, <1>4, <1>5, <1>6, <1>7, <1>8, <1>9, <1>10 DEF IInv

(* stop() calls the plugins that run() has constructed, or goes on to the drivers. *)
LEMMA StopKeeps == ASSUME IInv, Stop PROVE IInv'
<1>1. TypeOK'
  BY PluginsCalled, DriversCalled DEF IInv, TypeOK, AppStates, StopStates, Pending, setup,
    CloseDatabase, Called, Settled
<1>2. StartedInOrder'
  BY PluginsCalled, DriversCalled DEF IInv, TypeOK, StartedInOrder, BeforeStop,
    AwaitsWhatIsPending, Pending, setup, CloseDatabase, Called, Settled
<1>3. AwaitedByStop'
  BY PluginsCalled, DriversCalled DEF IInv, TypeOK, AwaitedByStop, Pending, setup,
    CloseDatabase, Called, Settled
<1>4. BeforeStop'
  BY PluginsCalled, DriversCalled DEF IInv, TypeOK, StartedInOrder, BeforeStop, Pending,
    setup, CloseDatabase, Called, Settled
<1>5. ClosingIsAwaited'
  BY PluginsCalled, DriversCalled DEF IInv, TypeOK, StartedInOrder, AwaitedByStop,
    BeforeStop, ClosingIsAwaited, Pending, setup, CloseDatabase, Called, Settled
<1>6. HandlersAreDrained'
  BY PluginsCalled, DriversCalled DEF IInv, TypeOK, StartedInOrder, BeforeStop,
    HandlersAreDrained, Pending, setup, CloseDatabase, Called, Settled
<1>7. ClosedInOrder'
  BY PluginsCalled, DriversCalled DEF IInv, TypeOK, StartedInOrder, BeforeStop,
    AwaitedByStop, ClosingIsAwaited, ClosedInOrder, Pending, setup, CloseDatabase, Called,
    Settled
<1>8. ClosedByStop'
  BY PluginsCalled, DriversCalled DEF IInv, BeforeStop, ClosedByStop, Pending, setup,
    CloseDatabase, Called, Settled
<1>9. DatabaseClosesLast'
  BY PluginsCalled, DriversCalled DEF IInv, TypeOK, StartedInOrder, AwaitedByStop,
    BeforeStop, ClosingIsAwaited, HandlersAreDrained, ClosedInOrder, ClosedByStop,
    DatabaseClosesLast, Pending, setup, CloseDatabase, Called, Settled
<1>10. AwaitsWhatIsPending'
  BY PluginsCalled, DriversCalled DEF IInv, TypeOK, StartedInOrder, AwaitedByStop,
    BeforeStop, AwaitsWhatIsPending, Pending, setup, CloseDatabase, Called, Settled
<1> QED
  BY <1>1, <1>2, <1>3, <1>4, <1>5, <1>6, <1>7, <1>8, <1>9, <1>10 DEF IInv

(* The last plugin that is done passes stop() on to the drivers. *)
LEMMA PluginStopsKeeps == ASSUME IInv, NEW p \in Plugins, PluginStops(p) PROVE IInv'
<1>1. TypeOK'
  BY DriversCalled DEF IInv, TypeOK, AppStates, StopStates, Pending, setup, PluginStops,
    CloseDatabase, Called, Closes
<1>2. StartedInOrder'
  BY DriversCalled DEF IInv, TypeOK, StartedInOrder, BeforeStop, AwaitsWhatIsPending,
    Pending, setup, PluginStops, CloseDatabase, Called, Closes
<1>3. AwaitedByStop'
  BY DriversCalled DEF IInv, TypeOK, AwaitedByStop, Pending, setup, PluginStops,
    CloseDatabase, Called, Closes
<1>4. BeforeStop'
  BY DriversCalled DEF IInv, TypeOK, StartedInOrder, BeforeStop, Pending, setup,
    PluginStops, CloseDatabase, Called, Closes
<1>5. ClosingIsAwaited'
  BY DriversCalled DEF IInv, TypeOK, StartedInOrder, AwaitedByStop, BeforeStop,
    ClosingIsAwaited, Pending, setup, PluginStops, CloseDatabase, Called, Closes
<1>6. HandlersAreDrained'
  BY DriversCalled DEF IInv, TypeOK, StartedInOrder, BeforeStop, HandlersAreDrained,
    Pending, setup, PluginStops, CloseDatabase, Called, Closes
<1>7. ClosedInOrder'
  BY DriversCalled DEF IInv, TypeOK, StartedInOrder, BeforeStop, AwaitedByStop,
    ClosingIsAwaited, ClosedInOrder, Pending, setup, PluginStops, CloseDatabase, Called,
    Closes
<1>8. ClosedByStop'
  BY DriversCalled DEF IInv, BeforeStop, ClosedByStop, Pending, setup, PluginStops,
    CloseDatabase, Called, Closes
<1>9. DatabaseClosesLast'
  BY DriversCalled DEF IInv, TypeOK, StartedInOrder, AwaitedByStop, BeforeStop,
    ClosingIsAwaited, HandlersAreDrained, ClosedInOrder, ClosedByStop, DatabaseClosesLast,
    Pending, setup, PluginStops, CloseDatabase, Called, Closes
<1>10. AwaitsWhatIsPending'
  BY DriversCalled DEF IInv, TypeOK, StartedInOrder, AwaitedByStop, BeforeStop,
    AwaitsWhatIsPending, Pending, setup, PluginStops, CloseDatabase, Called, Closes
<1> QED
  BY <1>1, <1>2, <1>3, <1>4, <1>5, <1>6, <1>7, <1>8, <1>9, <1>10 DEF IInv

(* A rejected onStop() ends stop(). *)
LEMMA PluginStopFailsKeeps == ASSUME IInv, NEW p \in Plugins, PluginStopFails(p) PROVE IInv'
<1>1. TypeOK'
  BY DEF IInv, TypeOK, AppStates, StopStates, Pending, setup, PluginStopFails
<1>2. StartedInOrder'
  BY DEF IInv, TypeOK, StartedInOrder, BeforeStop, AwaitsWhatIsPending, Pending, setup,
    PluginStopFails
<1>3. AwaitedByStop'
  BY DEF IInv, TypeOK, AwaitedByStop, Pending, setup, PluginStopFails
<1>4. BeforeStop'
  BY DEF IInv, TypeOK, StartedInOrder, BeforeStop, Pending, setup, PluginStopFails
<1>5. ClosingIsAwaited'
  BY DEF IInv, TypeOK, StartedInOrder, AwaitedByStop, BeforeStop, ClosingIsAwaited, Pending,
    setup, PluginStopFails
<1>6. HandlersAreDrained'
  BY DEF IInv, TypeOK, StartedInOrder, BeforeStop, HandlersAreDrained, Pending, setup,
    PluginStopFails
<1>7. ClosedInOrder'
  BY DEF IInv, TypeOK, StartedInOrder, BeforeStop, AwaitedByStop, ClosingIsAwaited,
    ClosedInOrder, Pending, setup, PluginStopFails
<1>8. ClosedByStop'
  BY DEF IInv, BeforeStop, ClosedByStop, Pending, setup, PluginStopFails
<1>9. DatabaseClosesLast'
  BY DEF IInv, TypeOK, StartedInOrder, AwaitedByStop, BeforeStop, ClosingIsAwaited,
    HandlersAreDrained, ClosedInOrder, ClosedByStop, DatabaseClosesLast, Pending, setup,
    PluginStopFails
<1>10. AwaitsWhatIsPending'
  BY DEF IInv, TypeOK, StartedInOrder, AwaitedByStop, BeforeStop, AwaitsWhatIsPending,
    Pending, setup, PluginStopFails
<1> QED
  BY <1>1, <1>2, <1>3, <1>4, <1>5, <1>6, <1>7, <1>8, <1>9, <1>10 DEF IInv

(* A plugin comes to its end after stop() has failed. *)
LEMMA PluginStopsLateKeeps == ASSUME IInv, NEW p \in Plugins, PluginStopsLate(p) PROVE IInv'
<1>1. TypeOK'
  BY DEF IInv, TypeOK, AppStates, StopStates, Pending, setup, PluginStopsLate, Closes
<1>2. StartedInOrder'
  BY DEF IInv, TypeOK, StartedInOrder, BeforeStop, AwaitsWhatIsPending, Pending, setup,
    PluginStopsLate, Closes
<1>3. AwaitedByStop'
  BY DEF IInv, TypeOK, AwaitedByStop, Pending, setup, PluginStopsLate, Closes
<1>4. BeforeStop'
  BY DEF IInv, TypeOK, StartedInOrder, BeforeStop, Pending, setup, PluginStopsLate, Closes
<1>5. ClosingIsAwaited'
  BY DEF IInv, TypeOK, StartedInOrder, AwaitedByStop, BeforeStop, ClosingIsAwaited, Pending,
    setup, PluginStopsLate, Closes
<1>6. HandlersAreDrained'
  BY DEF IInv, TypeOK, StartedInOrder, BeforeStop, HandlersAreDrained, Pending, setup,
    PluginStopsLate, Closes
<1>7. ClosedInOrder'
  BY DEF IInv, TypeOK, StartedInOrder, BeforeStop, AwaitedByStop, ClosingIsAwaited,
    ClosedInOrder, Pending, setup, PluginStopsLate, Closes
<1>8. ClosedByStop'
  BY DEF IInv, BeforeStop, ClosedByStop, Pending, setup, PluginStopsLate, Closes
<1>9. DatabaseClosesLast'
  BY DEF IInv, TypeOK, StartedInOrder, AwaitedByStop, BeforeStop, ClosingIsAwaited,
    HandlersAreDrained, ClosedInOrder, ClosedByStop, DatabaseClosesLast, Pending, setup,
    PluginStopsLate, Closes
<1>10. AwaitsWhatIsPending'
  BY DEF IInv, TypeOK, StartedInOrder, AwaitedByStop, BeforeStop, AwaitsWhatIsPending,
    Pending, setup, PluginStopsLate, Closes
<1> QED
  BY <1>1, <1>2, <1>3, <1>4, <1>5, <1>6, <1>7, <1>8, <1>9, <1>10 DEF IInv

(* The last driver that is done passes stop() on to the database. *)
LEMMA DriverStopsKeeps == ASSUME IInv, NEW d \in Drivers, DriverStops(d) PROVE IInv'
<1>1. TypeOK'
  BY DEF IInv, TypeOK, AppStates, StopStates, Pending, setup, DriverStops, CloseDatabase,
    Draining
<1>2. StartedInOrder'
  BY DEF IInv, TypeOK, StartedInOrder, BeforeStop, AwaitsWhatIsPending, Pending, setup,
    DriverStops, CloseDatabase, Draining
<1>3. AwaitedByStop'
  BY DEF IInv, TypeOK, AwaitedByStop, Pending, setup, DriverStops, CloseDatabase, Draining
<1>4. BeforeStop'
  BY DEF IInv, TypeOK, StartedInOrder, BeforeStop, Pending, setup, DriverStops,
    CloseDatabase, Draining
<1>5. ClosingIsAwaited'
  BY DEF IInv, TypeOK, StartedInOrder, AwaitedByStop, BeforeStop, ClosingIsAwaited, Pending,
    setup, DriverStops, CloseDatabase, Draining
<1>6. HandlersAreDrained'
  BY DEF IInv, TypeOK, StartedInOrder, BeforeStop, HandlersAreDrained, Pending, setup,
    DriverStops, CloseDatabase, Draining
<1>7. ClosedInOrder'
  BY DEF IInv, TypeOK, StartedInOrder, BeforeStop, AwaitedByStop, ClosingIsAwaited,
    ClosedInOrder, Pending, setup, DriverStops, CloseDatabase, Draining
<1>8. ClosedByStop'
  BY DEF IInv, BeforeStop, ClosedByStop, Pending, setup, DriverStops, CloseDatabase,
    Draining
<1>9. DatabaseClosesLast'
  BY DEF IInv, TypeOK, StartedInOrder, AwaitedByStop, BeforeStop, ClosingIsAwaited,
    HandlersAreDrained, ClosedInOrder, ClosedByStop, DatabaseClosesLast, Pending, setup,
    DriverStops, CloseDatabase, Draining
<1>10. AwaitsWhatIsPending'
  BY DEF IInv, TypeOK, StartedInOrder, AwaitedByStop, BeforeStop, AwaitsWhatIsPending,
    Pending, setup, DriverStops, CloseDatabase, Draining
<1> QED
  BY <1>1, <1>2, <1>3, <1>4, <1>5, <1>6, <1>7, <1>8, <1>9, <1>10 DEF IInv

(* A rejected driver.stop() ends stop(). *)
LEMMA DriverStopFailsKeeps == ASSUME IInv, NEW d \in Drivers, DriverStopFails(d) PROVE IInv'
<1>1. TypeOK'
  BY DEF IInv, TypeOK, AppStates, StopStates, Pending, setup, DriverStopFails
<1>2. StartedInOrder'
  BY DEF IInv, TypeOK, StartedInOrder, BeforeStop, AwaitsWhatIsPending, Pending, setup,
    DriverStopFails
<1>3. AwaitedByStop'
  BY DEF IInv, TypeOK, AwaitedByStop, Pending, setup, DriverStopFails
<1>4. BeforeStop'
  BY DEF IInv, TypeOK, StartedInOrder, BeforeStop, Pending, setup, DriverStopFails
<1>5. ClosingIsAwaited'
  BY DEF IInv, TypeOK, StartedInOrder, AwaitedByStop, BeforeStop, ClosingIsAwaited, Pending,
    setup, DriverStopFails
<1>6. HandlersAreDrained'
  BY DEF IInv, TypeOK, StartedInOrder, BeforeStop, HandlersAreDrained, Pending, setup,
    DriverStopFails
<1>7. ClosedInOrder'
  BY DEF IInv, TypeOK, StartedInOrder, BeforeStop, AwaitedByStop, ClosingIsAwaited,
    ClosedInOrder, Pending, setup, DriverStopFails
<1>8. ClosedByStop'
  BY DEF IInv, BeforeStop, ClosedByStop, Pending, setup, DriverStopFails
<1>9. DatabaseClosesLast'
  BY DEF IInv, TypeOK, StartedInOrder, AwaitedByStop, BeforeStop, ClosingIsAwaited,
    HandlersAreDrained, ClosedInOrder, ClosedByStop, DatabaseClosesLast, Pending, setup,
    DriverStopFails
<1>10. AwaitsWhatIsPending'
  BY DEF IInv, TypeOK, StartedInOrder, AwaitedByStop, BeforeStop, AwaitsWhatIsPending,
    Pending, setup, DriverStopFails
<1> QED
  BY <1>1, <1>2, <1>3, <1>4, <1>5, <1>6, <1>7, <1>8, <1>9, <1>10 DEF IInv

(* The Prisma client goes before the pool. *)
LEMMA DisconnectsKeeps == ASSUME IInv, Disconnects PROVE IInv'
<1>1. TypeOK'
  BY DEF IInv, TypeOK, AppStates, StopStates, Pending, setup, Disconnects
<1>2. StartedInOrder'
  BY DEF IInv, TypeOK, StartedInOrder, BeforeStop, AwaitsWhatIsPending, Pending, setup,
    Disconnects
<1>3. AwaitedByStop'
  BY DEF IInv, TypeOK, AwaitedByStop, Pending, setup, Disconnects
<1>4. BeforeStop'
  BY DEF IInv, TypeOK, StartedInOrder, BeforeStop, Pending, setup, Disconnects
<1>5. ClosingIsAwaited'
  BY DEF IInv, TypeOK, StartedInOrder, AwaitedByStop, BeforeStop, ClosingIsAwaited, Pending,
    setup, Disconnects
<1>6. HandlersAreDrained'
  BY DEF IInv, TypeOK, StartedInOrder, BeforeStop, HandlersAreDrained, Pending, setup,
    Disconnects
<1>7. ClosedInOrder'
  BY DEF IInv, TypeOK, StartedInOrder, BeforeStop, AwaitedByStop, ClosingIsAwaited,
    ClosedInOrder, Pending, setup, Disconnects
<1>8. ClosedByStop'
  BY DEF IInv, BeforeStop, ClosedByStop, Pending, setup, Disconnects
<1>9. DatabaseClosesLast'
  BY DEF IInv, TypeOK, StartedInOrder, AwaitedByStop, BeforeStop, ClosingIsAwaited,
    HandlersAreDrained, ClosedInOrder, ClosedByStop, DatabaseClosesLast, Pending, setup,
    Disconnects
<1>10. AwaitsWhatIsPending'
  BY DEF IInv, TypeOK, StartedInOrder, AwaitedByStop, BeforeStop, AwaitsWhatIsPending,
    Pending, setup, Disconnects
<1> QED
  BY <1>1, <1>2, <1>3, <1>4, <1>5, <1>6, <1>7, <1>8, <1>9, <1>10 DEF IInv

(* The pool goes last. *)
LEMMA EndsKeeps == ASSUME IInv, Ends PROVE IInv'
<1>1. TypeOK'
  BY DEF IInv, TypeOK, AppStates, StopStates, Pending, setup, Ends
<1>2. StartedInOrder'
  BY DEF IInv, TypeOK, StartedInOrder, BeforeStop, AwaitsWhatIsPending, Pending, setup, Ends
<1>3. AwaitedByStop'
  BY DEF IInv, TypeOK, AwaitedByStop, Pending, setup, Ends
<1>4. BeforeStop'
  BY DEF IInv, TypeOK, StartedInOrder, BeforeStop, Pending, setup, Ends
<1>5. ClosingIsAwaited'
  BY DEF IInv, TypeOK, StartedInOrder, AwaitedByStop, BeforeStop, ClosingIsAwaited, Pending,
    setup, Ends
<1>6. HandlersAreDrained'
  BY DEF IInv, TypeOK, StartedInOrder, BeforeStop, HandlersAreDrained, Pending, setup, Ends
<1>7. ClosedInOrder'
  BY DEF IInv, TypeOK, StartedInOrder, BeforeStop, AwaitedByStop, ClosingIsAwaited,
    ClosedInOrder, Pending, setup, Ends
<1>8. ClosedByStop'
  BY DEF IInv, BeforeStop, ClosedByStop, Pending, setup, Ends
<1>9. DatabaseClosesLast'
  BY DEF IInv, TypeOK, StartedInOrder, AwaitedByStop, BeforeStop, ClosingIsAwaited,
    HandlersAreDrained, ClosedInOrder, ClosedByStop, DatabaseClosesLast, Pending, setup,
    Ends
<1>10. AwaitsWhatIsPending'
  BY DEF IInv, TypeOK, StartedInOrder, AwaitedByStop, BeforeStop, AwaitsWhatIsPending,
    Pending, setup, Ends
<1> QED
  BY <1>1, <1>2, <1>3, <1>4, <1>5, <1>6, <1>7, <1>8, <1>9, <1>10 DEF IInv

(* A database that does not close ends stop(). *)
LEMMA DatabaseCloseFailsKeeps == ASSUME IInv, DatabaseCloseFails PROVE IInv'
<1>1. TypeOK'
  BY DEF IInv, TypeOK, AppStates, StopStates, Pending, setup, DatabaseCloseFails
<1>2. StartedInOrder'
  BY DEF IInv, TypeOK, StartedInOrder, BeforeStop, AwaitsWhatIsPending, Pending, setup,
    DatabaseCloseFails
<1>3. AwaitedByStop'
  BY DEF IInv, TypeOK, AwaitedByStop, Pending, setup, DatabaseCloseFails
<1>4. BeforeStop'
  BY DEF IInv, TypeOK, StartedInOrder, BeforeStop, Pending, setup, DatabaseCloseFails
<1>5. ClosingIsAwaited'
  BY DEF IInv, TypeOK, StartedInOrder, AwaitedByStop, BeforeStop, ClosingIsAwaited, Pending,
    setup, DatabaseCloseFails
<1>6. HandlersAreDrained'
  BY DEF IInv, TypeOK, StartedInOrder, BeforeStop, HandlersAreDrained, Pending, setup,
    DatabaseCloseFails
<1>7. ClosedInOrder'
  BY DEF IInv, TypeOK, StartedInOrder, BeforeStop, AwaitedByStop, ClosingIsAwaited,
    ClosedInOrder, Pending, setup, DatabaseCloseFails
<1>8. ClosedByStop'
  BY DEF IInv, BeforeStop, ClosedByStop, Pending, setup, DatabaseCloseFails
<1>9. DatabaseClosesLast'
  BY DEF IInv, TypeOK, StartedInOrder, AwaitedByStop, BeforeStop, ClosingIsAwaited,
    HandlersAreDrained, ClosedInOrder, ClosedByStop, DatabaseClosesLast, Pending, setup,
    DatabaseCloseFails
<1>10. AwaitsWhatIsPending'
  BY DEF IInv, TypeOK, StartedInOrder, AwaitedByStop, BeforeStop, AwaitsWhatIsPending,
    Pending, setup, DatabaseCloseFails
<1> QED
  BY <1>1, <1>2, <1>3, <1>4, <1>5, <1>6, <1>7, <1>8, <1>9, <1>10 DEF IInv

-----------------------------------------------------------------------------
(* The theorems *)

(* A server starts with nothing up. *)
LEMMA InitIInv == Init => IInv
<1> SUFFICES ASSUME Init PROVE IInv
  OBVIOUS
<1>1. TypeOK
  <2>1. work \in [Drivers -> 0 .. MaxWork] /\ ready \in [Drivers -> Nat]
    <3>1. 0 \in 0 .. MaxWork /\ 0 \in Nat
      OBVIOUS
    <3> QED
      BY <3>1 DEF Init
  <2> QED
    BY <2>1 DEF Init, TypeOK, AppStates, StopStates
<1>2. StartedInOrder /\ AwaitedByStop /\ BeforeStop /\ ClosingIsAwaited /\ HandlersAreDrained
  BY DEF Init, StartedInOrder, AwaitedByStop, BeforeStop, ClosingIsAwaited, HandlersAreDrained
<1>3. ClosedInOrder /\ ClosedByStop /\ DatabaseClosesLast /\ AwaitsWhatIsPending
  BY DEF Init, ClosedInOrder, ClosedByStop, DatabaseClosesLast, AwaitsWhatIsPending
<1> QED
  BY <1>1, <1>2, <1>3 DEF IInv

(* Every step of run(), stop() and the handlers keeps the invariant. *)
LEMMA NextKeeps == IInv /\ [Next]_vars => IInv'
<1> SUFFICES ASSUME IInv, [Next]_vars PROVE IInv'
  OBVIOUS
<1>1. CASE RunStep
  BY <1>1, RunKeeps, FactoryResolvesKeeps, ConnectsKeeps, DatabaseFailsKeeps, PluginStartsKeeps,
    PluginFailsKeeps, DriverStartsKeeps, DriverFailsKeeps DEF RunStep
<1>2. CASE Stop
  BY <1>2, StopKeeps
<1>3. CASE StopStep
  BY <1>3, PluginStopsKeeps, PluginStopFailsKeeps, PluginStopsLateKeeps, DriverStopsKeeps,
    DriverStopFailsKeeps, DisconnectsKeeps, EndsKeeps, DatabaseCloseFailsKeeps DEF StopStep
<1>4. CASE \E d \in Drivers : WorkArrives(d) \/ WorkEnds(d)
  BY <1>4, WorkArrivesKeeps, WorkEndsKeeps
<1>5. CASE UNCHANGED vars
  BY <1>5 DEF vars, setup, IInv, TypeOK, StartedInOrder, AwaitedByStop, BeforeStop,
    ClosingIsAwaited, HandlersAreDrained, ClosedInOrder, ClosedByStop, DatabaseClosesLast,
    AwaitsWhatIsPending
<1> QED
  BY <1>1, <1>2, <1>3, <1>4, <1>5 DEF Next

(* The invariant holds for any plugins and drivers. *)
THEOREM Invariance == Spec => []IInv
  BY InitIInv, NextKeeps, PTL DEF Spec

(* The states of run(), stop(), plugins and drivers keep to their types. *)
THEOREM TypeCorrect == Spec => []TypeOK
<1>1. IInv => TypeOK
  BY DEF IInv
<1> QED
  BY Invariance, <1>1, PTL

(* However many plugins and drivers there are and whichever fail, no driver  *)
(* starts before all plugins are up and the database is connected.           *)
THEOREM Backed == Spec => []DriversAreBacked
<1>1. IInv => DriversAreBacked
  BY DEF IInv, TypeOK, StartedInOrder, BeforeStop, DriversAreBacked
<1> QED
  BY Invariance, <1>1, PTL

(* The database is closed under no driver that stop() found serving and no   *)
(* handler of one that drains.                                               *)
THEOREM DatabaseLast == Spec => []DatabaseClosesLast
<1>1. IInv => DatabaseClosesLast
  BY DEF IInv
<1> QED
  BY Invariance, <1>1, PTL

(* A stop() that resolves has closed all that a settled run() left up. *)
THEOREM Closed == Spec => []StoppedMeansClosed
<1>1. IInv => StoppedMeansClosed
  BY DEF IInv, TypeOK, ClosingIsAwaited, ClosedInOrder, StoppedMeansClosed
<1> QED
  BY Invariance, <1>1, PTL

(* Neither run() nor stop() waits at a Promise.all with nothing left to settle. *)
THEOREM Awaits == Spec => []AwaitsWhatIsPending
<1>1. IInv => AwaitsWhatIsPending
  BY DEF IInv
<1> QED
  BY Invariance, <1>1, PTL

=============================================================================
