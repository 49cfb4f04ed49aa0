\* Three configuration loads on one directory, any of which may fail, with
\* failing writes; the registry keeps the latest storer.
CONSTANTS
    Keys = {k1}
    Paths = {d1}
    CapSizes = {1, 2}
    MaxLoads = 3
    FactoryFails = TRUE
    WriteFailures = TRUE
    RegistryReplaces = TRUE

SPECIFICATION FairSpec
\* When every load has failed no configuration runs and nothing can happen.
CHECK_DEADLOCK FALSE
INVARIANT TypeOK
PROPERTY RetiredDrains
