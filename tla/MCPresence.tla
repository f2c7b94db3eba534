----------------------------- MODULE MCPresence -----------------------------
(* What is advisory in a session, for TLC: the announces of its presence,  *)
(* and the preview of the message being written.  The two share nothing,   *)
(* so a behaviour follows one part and leaves the other at rest.           *)
EXTENDS Presence, LivePreview

VARIABLE part      \* the part this behaviour follows

presenceVars == vars

PartsInit == Init /\ PreviewInit /\ part \in {"presence", "preview"}

PartsNext == \/ part = "presence" /\ Next /\ UNCHANGED <<part, previewVars>>
             \/ part = "preview" /\ PreviewNext /\ UNCHANGED <<part, presenceVars>>

PartsSpec == PartsInit /\ [][PartsNext]_<<part, presenceVars, previewVars>> /\ Fairness
=============================================================================
