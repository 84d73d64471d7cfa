------------------------------ MODULE MCOffloadIo ------------------------------
(***************************************************************************)
(* The instance of OffloadIoService for TLC: receivers r1 and r2 share a   *)
(* link, and a sender gets its status packets on a link of its own.        *)
(***************************************************************************)
EXTENDS OffloadIoService, TLC

CONSTANTS r1, r2, s1, data, status

MCMade == <<r2, s1, r1>>
MCLinkOf == r1 :> data @@ r2 :> data @@ s1 :> status
MCReserved == r1 :> 2 @@ r2 :> 1 @@ s1 :> 1
MCMaxPkts == r1 :> 2 @@ r2 :> 1 @@ s1 :> 2
MCNumFrames == data :> 3 @@ status :> 1
=============================================================================
