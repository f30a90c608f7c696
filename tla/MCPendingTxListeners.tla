------------------------ MODULE MCPendingTxListeners ------------------------
(***************************************************************************)
(* Two registrations that may overlap each other and a notification, after *)
(* none to three earlier ones: the slice is nil, full, or has room.        *)
(***************************************************************************)
EXTENDS PendingTxListeners

MCEarly == <<"e1", "e2", "e3">>
=============================================================================
