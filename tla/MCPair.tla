-------------------------------- MODULE MCPair --------------------------------
EXTENDS TCPPairTimed

CONSTANTS NClient, NServer      \* how many bytes each application writes

MCStream == [e \in Ends |-> [i \in 1 .. (IF e = "client" THEN NClient ELSE NServer) |-> i]]
MCIsn == [e \in Ends |-> IF e = "client" THEN SeqMod - 1 ELSE 5]
===============================================================================
