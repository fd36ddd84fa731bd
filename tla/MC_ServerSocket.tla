--------------------------- MODULE MC_ServerSocket ---------------------------
(* Instances of ServerSocket for TLC.                                      *)
EXTENDS ServerSocket, TLC

CONSTANTS t1, t2, s1, s2

\* Every combination of the cached and hasDescriptor flags of a request.
MCAllModes == BOOLEAN \X BOOLEAN

\* The client's use of the cache: send the descriptor to be cached, or
\* only the version of a descriptor it has cached.
MCCachingModes == {<<TRUE, TRUE>>, <<TRUE, FALSE>>}

MCDataKinds == {"GET", "UPDATE", "INSERT", "REMOVE", "REVERT"}
=============================================================================
