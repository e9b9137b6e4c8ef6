---------------------------- MODULE PluginBuild ----------------------------
(***************************************************************************)
(* The CMake function ADD_HARNESS_PLUGIN (appended to                      *)
(* src/src/metadata_cache/src/plugin_config.cc, lines 163-244): the        *)
(* configure step of the build calls it once per plugin, in the order of  *)
(* the CMakeLists files.  A call creates the plugin's shared library       *)
(* target, names it for the plugin loader, publishes and copies its        *)
(* interface headers, links it, sets its output directory and, unless the *)
(* plugin is NO_INSTALL or plugin installation is off, adds install rules *)
(* for the library and the headers.                                        *)
(*                                                                         *)
(* CMake runs a configure sequentially, so one call is one step.  What a   *)
(* call depends on besides its arguments is fixed for the configure: the   *)
(* platform (WIN32, CMAKE_SYSTEM_NAME), HARNESS_INSTALL_PLUGINS, and the   *)
(* generator's CMAKE_CONFIGURATION_TYPES (empty for single-configuration   *)
(* generators such as Makefiles and Ninja, which build CMAKE_BUILD_TYPE;  *)
(* the configurations of Visual Studio and Xcode otherwise).               *)
(* Paths are abstracted to the variable they are built from.               *)
(***************************************************************************)
EXTENDS FiniteSets

CONSTANTS
    Plugins,            \* the plugin target names the CMakeLists add
    Headers,            \* header file names (*.h) an interface may hold
    InterfaceHeaders,   \* the headers in each plugin's interface directory
    Suffixes,           \* DESTINATION_SUFFIX values a call may pass
    HarnessName,        \* ${HARNESS_NAME}
    Configs,            \* the configuration names (Debug, Release, ...)
    GeneratorTypes,     \* CMAKE_CONFIGURATION_TYPES of each platform's generators
    BuildType           \* ${CMAKE_BUILD_TYPE}

ASSUME PluginBuildAssumption ==
    /\ IsFiniteSet(Plugins)
    /\ InterfaceHeaders \in [Plugins -> SUBSET Headers]
    /\ "" \in Suffixes /\ HarnessName \notin {""}
    /\ BuildType \in Configs

Platforms == {"Linux", "Darwin", "Windows"}

ASSUME GeneratorAssumption ==
    GeneratorTypes \in [Platforms -> (SUBSET SUBSET Configs) \ {{}}]

\* Strings CMake's if() takes for false (compared case-insensitively; the
\* model's suffixes are written in upper case).
CMakeFalse(s) == s \in {"", "0", "OFF", "NO", "FALSE", "N", "IGNORE", "NOTFOUND"}

\* The directories the function writes to, by the variable naming them.
OutputDirs == {"HARNESS_PLUGIN_OUTPUT_DIRECTORY", "default"}

VARIABLES
    platform,        \* the platform the build is configured for
    installPlugins,  \* HARNESS_INSTALL_PLUGINS
    configTypes,     \* CMAKE_CONFIGURATION_TYPES of the generator used
    added,           \* plugin targets created so far
    naming,          \* "plugin" (no prefix, .so) or CMake's "default" naming
    publicInclude,   \* each target's PUBLIC include directory, if any
    links,           \* each target's PUBLIC link libraries
    linkFlags,       \* each target's LINK_FLAGS
    outDir,          \* each target's output directory, per configuration
    buildInclude,    \* which plugin's copy of a header the build tree holds
    installs,        \* install rules: [plugin, file, dest]
    noInstallCalls,  \* plugins whose call passed NO_INSTALL
    warnings         \* plugins whose call gave the AUTHOR_WARNING

vars == <<platform, installPlugins, configTypes, added, naming,
          publicInclude, links, linkFlags, outDir, buildInclude, installs,
          noInstallCalls, warnings>>

Init ==
    /\ platform \in Platforms
    /\ installPlugins \in BOOLEAN
    /\ configTypes \in GeneratorTypes[platform]
    /\ added = {}
    /\ naming = [p \in Plugins |-> "default"]
    /\ publicInclude = [p \in Plugins |-> "none"]
    /\ links = [p \in Plugins |-> {}]
    /\ linkFlags = [p \in Plugins |-> "none"]
    /\ outDir = [p \in Plugins |-> [c \in Configs |-> "default"]]
    /\ buildInclude = [h \in Headers |-> "none"]
    /\ installs = {}
    /\ noInstallCalls = {}
    /\ warnings = {}

\* Mutant of OutputDirOf: the if(WIN32) test is left out, so the
\* per-configuration properties are the only ones set on every platform.
OutputDirPerConfigOnly(p) ==
    [c \in Configs |->
        IF c \in configTypes THEN "HARNESS_PLUGIN_OUTPUT_DIRECTORY" ELSE "default"]

\* The output directory properties of the "set library output (and
\* runtime) directories" block: on WIN32 the per-configuration properties
\* of every configuration in CMAKE_CONFIGURATION_TYPES, elsewhere the one
\* LIBRARY_OUTPUT_DIRECTORY that holds for every configuration.
OutputDirOf(p) ==
    [c \in Configs |->
        IF platform # "Windows" \/ c \in configTypes
           THEN "HARNESS_PLUGIN_OUTPUT_DIRECTORY" ELSE "default"]

\* The install rules of a call: the library (RUNTIME on WIN32, with no
\* suffix; LIBRARY elsewhere, under the suffix), and the globbed *.h files
\* of the interface directory under the include prefix and the suffix.
InstallRules(p, interface, suffix) ==
    {[plugin |-> p, file |-> "library",
      dest |-> IF platform = "Windows"
                  THEN <<"HARNESS_INSTALL_LIBRARY_DIR">>
                  ELSE <<"HARNESS_INSTALL_LIBRARY_DIR", suffix>>]}
    \cup
    {[plugin |-> p, file |-> h,
      dest |-> <<"HARNESS_INSTALL_INCLUDE_PREFIX", suffix>>] :
        h \in IF interface THEN InterfaceHeaders[p] ELSE {}}

\* add_harness_plugin(p [NO_INSTALL] SOURCES ... [INTERFACE include]
\* [DESTINATION_SUFFIX suffix] [REQUIRES requires] [unrecognised]).
AddHarnessPlugin(p, noInstall, interface, suffix, requires, unparsed) ==
    LET sfx == IF CMakeFalse(suffix) THEN HarnessName ELSE suffix
    IN
    /\ p \notin added
    /\ warnings' = IF unparsed THEN warnings \cup {p} ELSE warnings
    /\ added' = added \cup {p}
    /\ naming' = [naming EXCEPT ![p] =
                    IF platform # "Windows" THEN "plugin" ELSE "default"]
    /\ publicInclude' = [publicInclude EXCEPT ![p] =
                           IF interface THEN "interface" ELSE "none"]
    /\ buildInclude' = [h \in Headers |->
                          IF interface /\ h \in InterfaceHeaders[p]
                             THEN p ELSE buildInclude[h]]
    /\ links' = [links EXCEPT ![p] = {"harness-library"} \cup requires]
    /\ linkFlags' = [linkFlags EXCEPT ![p] =
                       IF platform = "Darwin" THEN "-undefined dynamic_lookup"
                                              ELSE "none"]
    /\ outDir' = [outDir EXCEPT ![p] = OutputDirOf(p)]
    /\ installs' = IF ~noInstall /\ installPlugins
                      THEN installs \cup InstallRules(p, interface, sfx)
                      ELSE installs
    /\ noInstallCalls' = IF noInstall THEN noInstallCalls \cup {p}
                                      ELSE noInstallCalls
    /\ UNCHANGED <<platform, installPlugins, configTypes>>

Next ==
    \E p \in Plugins :
      \E noInstall, interface, unparsed \in BOOLEAN, suffix \in Suffixes,
         requires \in SUBSET (Plugins \ {p}) :
          AddHarnessPlugin(p, noInstall, interface, suffix, requires, unparsed)

Spec == Init /\ [][Next]_vars

-----------------------------------------------------------------------------
(* Properties                                                              *)

\* The configurations the generator builds: those of
\* CMAKE_CONFIGURATION_TYPES, or CMAKE_BUILD_TYPE when there are none.
BuiltConfigs == IF configTypes = {} THEN {BuildType} ELSE configTypes

\* The harness loads its plugins from the plugin output directory (header
\* comment: plugins are put under the "lib" directory of the build root,
\* except NO_INSTALL ones, which the comment leaves where they are): every
\* plugin target added without NO_INSTALL, whatever its other arguments
\* and the platform, is built into HARNESS_PLUGIN_OUTPUT_DIRECTORY in
\* every configuration that the generator builds.
PluginsInOutputDir ==
    \A p \in added \ noInstallCalls, c \in BuiltConfigs :
        outDir[p][c] = "HARNESS_PLUGIN_OUTPUT_DIRECTORY"

=============================================================================
