-------------------------- MODULE MCToolStateFile --------------------------
EXTENDS ToolStateFile, TLC
CONSTANTS tool, other, c1, c2, p1, p2
MCTools == {tool, other}
MCContents == {c1, c2}
MCProcesses == {p1, p2}
MCUsage == (ToolCommands \X {tool}) \cup ({"generate"} \X {other})
MCSymmetry == Permutations(MCProcesses) \cup Permutations(MCContents)
=============================================================================
