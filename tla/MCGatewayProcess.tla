-------------------------- MODULE MCGatewayProcess --------------------------
EXTENDS GatewayProcess, TLC
CONSTANTS cmd1, cmd2, pid1, pid2
MCCommands == {cmd1, cmd2}
MCPids == {pid1, pid2}
MCSymmetry == Permutations(MCCommands) \cup Permutations(MCPids)
=============================================================================
