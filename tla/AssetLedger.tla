---------------------------- MODULE AssetLedger ----------------------------
(***************************************************************************)
(* What the media module promises about one asset: it is uploaded once or  *)
(* has failed, a video is then encoded once, and it is playable from a     *)
(* manifest as soon as it is READY. READY and FAILED are the end.          *)
(***************************************************************************)
VARIABLES kind, status, manifest

ledgerVars == <<kind, status, manifest>>

Init == kind \in {"VIDEO", "OTHER"} /\ status = "NONE" /\ ~manifest

Move(from, to) == status = from /\ status' = to /\ UNCHANGED kind

Open    == Move("NONE", "UPLOADING") /\ UNCHANGED manifest
Record  == kind = "VIDEO" /\ Move("NONE", "UPLOADED") /\ UNCHANGED manifest
Store   == Move("UPLOADING", "UPLOADED") /\ UNCHANGED manifest
Drop    == Move("UPLOADING", "FAILED") /\ UNCHANGED manifest
Encode  == kind = "VIDEO" /\ Move("UPLOADED", "TRANSCODING") /\ UNCHANGED manifest
Publish == Move("TRANSCODING", "READY") /\ manifest'
GiveUp  == Move("TRANSCODING", "FAILED") /\ UNCHANGED manifest

Next == Open \/ Record \/ Store \/ Drop \/ Encode \/ Publish \/ GiveUp

Spec == Init /\ [][Next]_ledgerVars
=============================================================================
