---------------------------- MODULE MCTranscript ----------------------------
(* A transcript at its two ends, for TLC: the OpenCode companion that makes *)
(* it of the server's messages, and the page that shows the host's frames,  *)
(* with two messages of its own and one answer of the agent.  They share    *)
(* nothing here, so a behaviour follows one end and leaves the other at     *)
(* rest.                                                                    *)
EXTENDS ViewerTranscript, OpencodeDriver

VARIABLE end       \* the end this behaviour follows

MCChannels == {AllFrames}
NullSeq == -1

EndsInit == ViewInit /\ OpencodeInit /\ end \in {"page", "companion"}

EndsNext == \/ end = "page" /\ ViewNext /\ UNCHANGED <<end, opencodeVars>>
            \/ end = "companion" /\ OpencodeNext /\ UNCHANGED <<end, all>>

EndsSpec == /\ EndsInit /\ [][EndsNext]_<<end, all, opencodeVars>>
            /\ CompanionFairness
=============================================================================
