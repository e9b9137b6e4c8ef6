\* Windows configured with a single-configuration generator (Ninja, NMake).
CONSTANTS
    p1 = p1
    p2 = p2
    Plugins <- MCPlugins
    Headers <- MCHeaders
    InterfaceHeaders <- MCInterfaceHeaders
    Suffixes <- MCSuffixes
    HarnessName = "harness"
    Configs <- MCConfigs
    GeneratorTypes <- MCGeneratorTypesSingleOnWindows
    BuildType = "Release"
SPECIFICATION Spec
INVARIANTS
    PluginsInOutputDir
CHECK_DEADLOCK FALSE
