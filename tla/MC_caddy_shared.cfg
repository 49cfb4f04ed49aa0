\* Two loads of the same directory with different sizes, so different Uuids;
\* the registry keeps the first storer of a Uuid, the reading under which a
\* reload is safest.
CONSTANTS
    Keys = {k1, k2}
    Paths = {d1}
    CapSizes = {1, 2}
    MaxLoads = 2
    FactoryFails = FALSE
    WriteFailures = FALSE
    RegistryReplaces = FALSE

SPECIFICATION Spec
PROPERTY ServedFilesStay
