CONSTANTS
    Configs <- Launches
    DomainKill = TRUE
    Raws <- Files
    Requests <- Asks
    HostPaths <- Host
    Ancestors <- HostAncestors
    Links <- HostLinks
    Programs = {"sh", "zsh"}
    CURATED_READ = {"hosts"}
    CURATED_EXECUTE = {"usr"}
    Roots = {"data"}
    LoginShell = "sh"
    Abis = {0, 3, 4}
    Volatile = {"hosts", "tools", "sh"}
    MaxChanges = 2
SPECIFICATION LaunchFairSpec
INVARIANTS UserCodeConfined ErrorLeavesNothing WaitReportsTheProgram StartedMeansLaunchable OperatorPolicyInForce FailedLaunchContained
PROPERTIES LaunchReturns
CHECK_DEADLOCK FALSE
