--------------------------- MODULE MCPluginBuild ---------------------------
(* Model-checking instance of PluginBuild: two plugins, one of whose       *)
(* interface headers has the same name as one of the other's, so that the *)
(* flat copy into the build tree can be overwritten; a DESTINATION_SUFFIX  *)
(* that is absent, a CMake false constant ("OFF") or a directory name;    *)
(* two configurations.  Every platform is configured, with or without     *)
(* plugin installation, by the generators it has.                         *)
EXTENDS PluginBuild

CONSTANTS p1, p2

MCPlugins == {p1, p2}

MCHeaders == {"plugin.h", "extra.h"}

MCInterfaceHeaders == [p \in MCPlugins |->
                         IF p = p1 THEN {"plugin.h"} ELSE {"plugin.h", "extra.h"}]

MCSuffixes == {"", "OFF", "mysqlrouter"}

MCConfigs == {"Debug", "Release"}

\* Makefiles or Ninja (no configuration types) and Xcode on macOS; Visual
\* Studio on Windows.
MCGeneratorTypes == [pl \in Platforms |->
                       IF pl = "Windows" THEN {{"Debug", "Release"}}
                       ELSE {{}, {"Debug", "Release"}}]

\* Windows with Ninja or NMake Makefiles as well as Visual Studio.
MCGeneratorTypesSingleOnWindows == [pl \in Platforms |->
                                      {{}, {"Debug", "Release"}}]

=============================================================================
