\* Extension packs: discovery, order, loading and what the services rebuild.
\* Asking a provider whose pack is gone may crash the program, which then stops.
SPECIFICATION Spec
CONSTANTS
    Broken = Broken
    NullPack = NullPack
    NullProvider = NullProvider
    Directories <- MCDirectories
    RuleFiles <- MCRuleFiles
    Factories <- MCFactories
    AppProviders <- MCAppProviders
    CoreApi <- MCCoreApi
    Targets <- MCTargets
    MaxLoads <- MCMaxLoads
INVARIANT ProvidersAlive
CHECK_DEADLOCK FALSE
