------------------------- MODULE MCOutlookDraftSend -------------------------
(* OutlookDraftSend for TLC.                                               *)
EXTENDS OutlookDraftSend
=============================================================================
