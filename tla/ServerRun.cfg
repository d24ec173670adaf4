SPECIFICATION FairSpec
CONSTANTS
    secrets = secrets
    health = health
    grpc = grpc
    cron = cron
    Plugins <- BothPlugins
    Drivers <- BothDrivers
    Health = health
    Drains <- GrpcDrains
    Bounded <- AllButSecrets
    MayFail = TRUE
    MaxWork = 2
CHECK_DEADLOCK FALSE
INVARIANTS
    TypeOK
    DriversAreBacked
    DatabaseClosesLast
    StoppedMeansClosed
    AwaitsWhatIsPending
PROPERTIES
    BothSettle
