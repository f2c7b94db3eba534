------------------------------- MODULE MCRelay -------------------------------
(* The host's relay and its viewers, for TLC: the commands that drive the   *)
(* agent, the files sent with them, and the cards of the agent's requests.  *)
(* Each is checked by itself: a behaviour follows one part and leaves the   *)
(* others at rest.                                                          *)
EXTENDS HostRelay, PermissionCards

CONSTANTS Messages, NoMessage, MaxGroups, MaxPending, MaxStored, MaxFailures,
          MaxDropped

VARIABLES
    part,      \* the part this behaviour follows
    sent, gaveUp, channel, cursor, groups, handled, fails, drops, events, ended, at, hand,
    reserved, disk, attempted

Files == INSTANCE Attachments
    WITH seen <- handled, breaks <- drops, queue <- events, closed <- ended, step <- at,
         at <- hand, MaxBreaks <- MaxDropped

commandVars == vars
fileVars == <<sent, gaveUp, channel, cursor, groups, handled, fails, drops, events, ended, at,
              hand, reserved, disk, attempted>>

PartsInit == Init /\ Files!Init /\ CardInit /\ part \in {"commands", "files", "cards"}

PartsNext == \/ part = "commands" /\ Next /\ UNCHANGED <<part, fileVars, cardVars>>
             \/ part = "files" /\ Files!Next /\ UNCHANGED <<part, commandVars, cardVars>>
             \/ part = "cards" /\ CardNext /\ UNCHANGED <<part, commandVars, fileVars>>

\* The fairness each part states; the files cannot move while at rest.
PartsSpec ==
    PartsInit /\ [][PartsNext]_<<part, commandVars, fileVars, cardVars>> /\ Fairness /\ Files!Fairness

\* The property of the files, as their module states it.
CompleteAdmitted == Files!CompleteAdmitted
==============================================================================
