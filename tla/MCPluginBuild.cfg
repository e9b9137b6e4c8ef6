\* A configure calls add_harness_plugin once per plugin and then ends.
CONSTANTS
    p1 = p1
    p2 = p2
    Plugins <- MCPlugins
    Headers <- MCHeaders
    InterfaceHeaders <- MCInterfaceHeaders
    Suffixes <- MCSuffixes
    HarnessName = "harness"
    Configs <- MCConfigs
    GeneratorTypes <- MCGeneratorTypes
    BuildType = "Release"
SPECIFICATION Spec
INVARIANTS
    PluginsInOutputDir
CHECK_DEADLOCK FALSE
