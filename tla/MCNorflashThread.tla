-------------------------- MODULE MCNorflashThread --------------------------
\* Small instances of NorflashThread for TLC.
EXTENDS NorflashThread

\* Threads of three priorities, two of them of the same.
MCPutters == {"timer", "bt", "app"}
MCPriority == [t \in MCPutters \cup {Norflash} |->
                   CASE t = "timer" -> 2 [] t = Norflash -> 0 [] OTHER -> 1]

=============================================================================
