---------------------------- MODULE MCPipeline ----------------------------
(***************************************************************************)
(* Model-checking instance of Pipeline: segments of 2 blocks, a group of  *)
(* 2 segments, blocks 0..3 so that a segment is sealed while the next one *)
(* is being downloaded, channels of one slot so that both tasks block on  *)
(* a full channel, and one Invalidate.                                    *)
(***************************************************************************)
EXTENDS Pipeline

MCSegmentSize == 2
MCGroupSize == 4
MCFirstBlock == 0
MCMaxBlock == 3
MCEvCap == 1
MCOutCap == 1
MCMaxInvalidations == 1
=============================================================================
