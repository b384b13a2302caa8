----------------------- MODULE MCTransferCoordinator -----------------------
(* Model values and bounds of the host coordinator runs. *)
EXTENDS TransferCoordinator
=============================================================================
