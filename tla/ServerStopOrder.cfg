SPECIFICATION Spec
CONSTANTS
    secrets = secrets
    health = health
    grpc = grpc
    cron = cron
    Plugins <- BothPlugins
    Drivers <- BothDrivers
    Health = health
    Drains <- GrpcDrains
    Bounded <- AllButSecrets
    MayFail = FALSE
    MaxWork = 1
CHECK_DEADLOCK FALSE
INVARIANTS
    PluginsOutliveHandlers
