SPECIFICATION PreparationSpec
CONSTANTS
    t1 = t1
    t2 = t2
    h1 = h1
    h2 = h2
    Tools = {t1, t2}
    Helpers = {h1, h2}
    Together = {{t1, t2}, {h1, h2}}
    Persistent = {t1, h1}
    Absent = Absent
    Earlier = Earlier
    Spoiled = Spoiled
    MaxFaults = 1
    Components = {"bin", "decisions.json", "dev", "etc", "guard",
                  "guard-helper", "helper", "home", "image", "inbox", "lib",
                  "local", "opt", "proc", "resolv.conf", "run", "runtime",
                  "sandbox-guard", "sandbox-guard-inputs", "session-state",
                  "shm", "stages", "tmp", "tool", "tools", "user", "usr",
                  "workspace", "state", "snapshot", "cache", "a", "b", "x",
                  "v1", ".grok", ".."}
    Sources <- MCSources
    Targets <- MCTargets
    Stores <- MCStores
    GuestRoots <- MCGuestRoots
    Foreign = {"i386"}
    OtherCalls = {"read"}
    Arguments = {{}, {"FS", "VM"}, {"NEWNS", "FS"}, {"NEWUSER", "NEWPID", "VM"},
                 {"NEWCGROUP"}, {"NEWIPC"}, {"NEWNET"}, {"NEWNS"}, {"NEWPID"},
                 {"NEWUSER"}, {"NEWUTS"}}
CHECK_DEADLOCK FALSE
INVARIANTS
    InstallationSound
    SuccessIsConsistent
    SandboxBoundary
    FilterExact
PROPERTIES
    SetupSucceeds
