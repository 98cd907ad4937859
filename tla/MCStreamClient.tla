--------------------------- MODULE MCStreamClient ---------------------------
(***************************************************************************)
(* Model-checking instance of StreamClient: three configurations, so that  *)
(* a response of the first is still in transit when the third is current;  *)
(* a request channel of one slot, so that a burst of configurations fills  *)
(* it; two responses in transit, one Data/Invalidate per id and one       *)
(* timeout.                                                               *)
(***************************************************************************)
EXTENDS StreamClient

MCMaxConfigs == 3
MCReqCap == 1
MCRespCap == 2
MCPerStream == 1
MCMaxTimeouts == 1
=============================================================================
