SPECIFICATION Spec
CONSTANTS
    MaxValue = 3
    MinPeriod = 2
    MaxRow = 3
    NotInt = NotInt
    NotAnInt = NotInt
    NoProfile = NoProfile
    Unreadable = NoProfile
    Manifest <- MCManifest
    BuiltIn <- MCRegistry
    Threads = {t1, t2}
    Main = t1
    Common = {"gear_start", "point_table_run", "disable"}
    Requests <- MCRequests
    Assemblies <- MCPackaged
    None = None
INVARIANT GearingStaysInCsp
