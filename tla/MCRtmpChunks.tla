--------------------------- MODULE MCRtmpChunks ---------------------------
EXTENDS RtmpChunks

ChunksSpec == ChunksInit /\ [][ChunksNext]_chunkVars
=============================================================================
