--------------------------- MODULE IdentityStore ---------------------------
(***************************************************************************)
(* The host's root secret in its one file, under commands that run at the  *)
(* same time.  --rc-identity creates it once or loads it; with             *)
(* --rc-confirm it replaces it, keeping the old secret beside it or        *)
(* overwriting it.  Each action is one step of the command on the file     *)
(* system; other commands, a kill and a loss of power fall between them.   *)
(* Code: packages/cli/src/store.ts, packages/cli/src/identity.ts.          *)
(*                                                                         *)
(* A command mints the secret of its own name.  A file's inode is named    *)
(* for the secret written to it, so a scrubbed inode is a file whose token *)
(* no longer parses.                                                       *)
(***************************************************************************)
CONSTANTS
    Commands,    \* runs of --rc-identity
    FirstSecret, \* the secret an installation may have from before
    Nothing      \* no file

\* A minted secret is like no other, and no secret is the absence of one.
ASSUME FilesAssumption ==
    FirstSecret \notin Commands /\ Nothing \notin Commands \union {FirstSecret}

\* A command mints the secret of its own name.
Secrets == Commands \union {FirstSecret}
File == Secrets \union {Nothing}

VARIABLES
    dir,        \* what the secret's path and <path>.old name
    survives,   \* what they may name after a loss of power
    sidecar,    \* the secret whose created_at the sidecar tells
    scrubbed,   \* inodes whose bytes were overwritten
    cmd,        \* per command: where it is and what it holds
    temps,      \* commands whose temporary file exists
    outage      \* history: whether the power ever failed

identityVars == <<dir, survives, sidecar, scrubbed, cmd, temps, outage>>

Entries == [path : File, old : File]

\* pc: "idle"; a creation is "absent", "staged", then "named" or "lost"; a replacement
\* is "confirmed", "minted", "fresh", "ready", "renamed", "synced"; then either has
\* "told" its answer, "failed" or was "killed".  saw is the secret it loaded, keep
\* whether it was given --rc-keep-old, fd the inode it holds open, durable whether its
\* fsync of the directory succeeded, and answer the secret it told.
CommandState ==
    [pc : {"idle", "absent", "staged", "named", "lost", "confirmed", "minted", "fresh",
           "ready", "renamed", "synced", "told", "failed", "killed"},
     saw : File, keep : BOOLEAN, fd : File, durable : BOOLEAN, answer : File]

IdentityInit ==
    /\ dir \in [path : {Nothing, FirstSecret}, old : {Nothing}]
    /\ survives = {dir}
    /\ sidecar = dir.path
    /\ scrubbed = {}
    /\ cmd = [c \in Commands |-> [pc |-> "idle", saw |-> Nothing, keep |-> FALSE,
                                  fd |-> Nothing, durable |-> FALSE, answer |-> Nothing]]
    /\ temps = {}
    /\ outage = FALSE

At(c, pc) == cmd[c].pc = pc
Goes(c, pc) == cmd' = [cmd EXCEPT ![c].pc = pc]
Tells(c, secret) == cmd' = [cmd EXCEPT ![c].pc = "told", ![c].answer = secret]

\* An entry changes at once; a loss of power may still find it as it was.
PointsTo(entry, file) ==
    /\ dir' = [dir EXCEPT ![entry] = file]
    /\ survives' = survives \union {[e EXCEPT ![entry] = file] : e \in survives}

\* loadSecret: the token of a private regular file parses.
Loads == dir.path # Nothing /\ dir.path \notin scrubbed

-----------------------------------------------------------------------------
(* ensureIdentity                                                          *)

\* The probe: an existing secret is told and never replaced, a damaged one is an
\* error, and only an absent file goes on to generate a secret.
Ensure(c) ==
    /\ At(c, "idle")
    /\ CASE Loads              -> Tells(c, dir.path)
         [] dir.path = Nothing -> Goes(c, "absent")
         [] OTHER              -> Goes(c, "failed")
    /\ UNCHANGED <<dir, survives, sidecar, scrubbed, temps, outage>>

\* writeTempSecret: a file beside the path, whole and fsynced, or none.
WriteTemp(c) ==
    /\ At(c, "absent") \/ At(c, "minted")
    /\ \/ temps' = temps \union {c} /\ Goes(c, IF At(c, "absent") THEN "staged" ELSE "fresh")
       \/ UNCHANGED temps /\ Goes(c, "failed")
    /\ UNCHANGED <<dir, survives, sidecar, scrubbed, outage>>

\* link(2) takes the path only if nothing is there; rename(2) would always take it.
LinkTakes == dir.path = Nothing

\* atomicCreateExclusive: the new secret takes the path, or the race was lost.  The
\* directory is not fsynced.
Link(c) ==
    /\ At(c, "staged")
    /\ IF LinkTakes
       THEN PointsTo("path", c) /\ Goes(c, "named")
       ELSE Goes(c, "lost") /\ UNCHANGED <<dir, survives>>
    /\ temps' = temps \ {c}
    /\ UNCHANGED <<sidecar, scrubbed, outage>>

\* The loser of the race tells the winner's identity, never the one it generated.
LoadWinner(c) ==
    /\ At(c, "lost")
    /\ IF Loads THEN Tells(c, dir.path) ELSE Goes(c, "failed")
    /\ UNCHANGED <<dir, survives, sidecar, scrubbed, temps, outage>>

-----------------------------------------------------------------------------
(* replaceExisting and rotateIdentity                                      *)

\* The confirmed id is that of the secret on disk.
Confirm(c) ==
    /\ At(c, "idle") /\ Loads
    /\ \E keep \in BOOLEAN :
         cmd' = [cmd EXCEPT ![c].pc = "confirmed", ![c].saw = dir.path, ![c].keep = keep]
    /\ UNCHANGED <<dir, survives, sidecar, scrubbed, temps, outage>>

\* rotateIdentity loads again and aborts unless it finds the confirmed identity.
Recheck(c) ==
    /\ At(c, "confirmed")
    /\ Goes(c, IF Loads /\ dir.path = cmd[c].saw THEN "minted" ELSE "failed")
    /\ UNCHANGED <<dir, survives, sidecar, scrubbed, temps, outage>>

\* With --rc-keep-old the loaded secret is copied to an exclusive backup; otherwise the
\* file now at the path is opened, to be scrubbed later.  A backup that exists refuses
\* the command: it is another live secret.
Refused(c) == UNCHANGED <<dir, survives>>

Prepare(c) ==
    /\ At(c, "fresh")
    /\ \/ /\ IF cmd[c].keep THEN dir.old = Nothing ELSE dir.path # Nothing
          /\ IF cmd[c].keep THEN PointsTo("old", cmd[c].saw) ELSE UNCHANGED <<dir, survives>>
          /\ cmd' = [cmd EXCEPT ![c].pc = "ready",
                                ![c].fd = IF cmd[c].keep THEN Nothing ELSE dir.path]
          /\ UNCHANGED temps
       \/ /\ IF cmd[c].keep THEN dir.old # Nothing ELSE dir.path = Nothing
          /\ Refused(c)
          /\ Goes(c, "failed")
          /\ temps' = temps \ {c}
    /\ UNCHANGED <<sidecar, scrubbed, outage>>

\* rename(2) puts the new secret at the path, whatever is there.  When it fails, a backup
\* just made is taken away again: it would refuse every later --rc-keep-old.
Rename(c) ==
    /\ At(c, "ready")
    /\ \/ /\ PointsTo("path", c)
          /\ Goes(c, "renamed")
       \/ /\ IF cmd[c].keep THEN PointsTo("old", Nothing) ELSE UNCHANGED <<dir, survives>>
          /\ Goes(c, "failed")
    /\ temps' = temps \ {c}
    /\ UNCHANGED <<sidecar, scrubbed, outage>>

\* fsyncDirBestEffort, before the old bytes go: once it succeeded, a loss of power can no
\* longer bring the old file back to the path.  Its failure is swallowed, and the command
\* goes on as if it had not failed.
NothingSynced == survives
Synced == {dir}

SyncDirectory(c) ==
    /\ At(c, "renamed")
    /\ \E ok \in BOOLEAN :
         /\ survives' = IF ok THEN Synced ELSE survives
         /\ cmd' = [cmd EXCEPT ![c].pc = IF cmd[c].keep THEN "named" ELSE "synced",
                               ![c].durable = ok]
    /\ UNCHANGED <<dir, sidecar, scrubbed, temps, outage>>

\* scrubFd is best effort; the path was replaced in any case.
Scrub(c) ==
    /\ At(c, "synced")
    /\ scrubbed' \in {scrubbed, scrubbed \union {cmd[c].fd}}
    /\ Goes(c, "named")
    /\ UNCHANGED <<dir, survives, sidecar, temps, outage>>

\* writeSidecar is best effort.  The new secret is then told, the one time it is shown.
TellNew(c) ==
    /\ At(c, "named")
    /\ sidecar' \in {sidecar, c}
    /\ Tells(c, c)
    /\ UNCHANGED <<dir, survives, scrubbed, temps, outage>>

-----------------------------------------------------------------------------
Running(c) == ~\E pc \in {"idle", "told", "failed", "killed"} : At(c, pc)

\* The process is killed: its temporary file stays, an orphan nobody reads.
Kill(c) ==
    /\ Running(c)
    /\ Goes(c, "killed")
    /\ UNCHANGED <<dir, survives, sidecar, scrubbed, temps, outage>>

\* The power fails: every command ends and the directory is one it may be left as.
LosePower ==
    /\ outage' = TRUE
    /\ dir' \in survives
    /\ survives' = {dir'}
    /\ cmd' = [c \in Commands |-> IF Running(c) THEN [cmd[c] EXCEPT !.pc = "killed"] ELSE cmd[c]]
    /\ UNCHANGED <<sidecar, scrubbed, temps>>

IdentityNext ==
    \/ \E c \in Commands :
         \/ Ensure(c) \/ WriteTemp(c) \/ Link(c) \/ LoadWinner(c)
         \/ Confirm(c) \/ Recheck(c) \/ Prepare(c) \/ Rename(c)
         \/ SyncDirectory(c) \/ Scrub(c) \/ TellNew(c) \/ Kill(c)
    \/ LosePower

IdentitySpec == IdentityInit /\ [][IdentityNext]_identityVars

-----------------------------------------------------------------------------
\* The types of the variables.
IdentityTypeOK ==
    /\ dir \in Entries /\ survives \subseteq Entries
    /\ sidecar \in File /\ scrubbed \subseteq Secrets
    /\ cmd \in [Commands -> CommandState]
    /\ temps \subseteq Commands /\ outage \in BOOLEAN

\* "The canonical path is only ever the old or the new secret - never missing or garbage":
\* no overlap of commands and no kill leaves a scrubbed file at the path, and neither does
\* a loss of power if one of the commands that replaced the file could fsync the directory
\* before it, or another, overwrote its bytes.
NeverGarbage ==
    dir.path \in scrubbed =>
        /\ outage
        /\ \A c \in Commands : cmd[c].fd = dir.path => ~cmd[c].durable

\* Disagreement, without that condition: the fsync whose failure the code passes over may
\* fail, and the bytes are overwritten all the same (fsyncDirBestEffort, scrubFd).
OnlyOldOrNew == dir.path \notin scrubbed

\* The parts of its inductive invariant.  A replacement that keeps no backup holds an
\* inode to scrub, which has left the path, and once its fsync succeeded every state a
\* loss of power may find; a secret takes the path at most once.
HoldsOld(c) == cmd[c].pc \in {"ready", "renamed", "synced"} /\ ~cmd[c].keep
OldIsFile ==
    \A c \in Commands : /\ HoldsOld(c) => cmd[c].fd # Nothing
                        /\ At(c, "synced") => ~cmd[c].keep
                        /\ cmd[c].keep /\ cmd[c].pc \in {"ready", "renamed"} => cmd[c].fd = Nothing
MayPlace(c) == cmd[c].pc \in {"idle", "absent", "staged", "confirmed", "minted", "fresh", "ready"}
PlacedOnce ==
    \A c \in Commands : MayPlace(c) => /\ \A e \in survives : e.path # c
                                       /\ c \notin scrubbed
                                       /\ \A d \in Commands : cmd[d].fd # c
                                       /\ ~cmd[c].durable
OldIsGone ==
    \A c \in Commands :
        /\ cmd[c].pc \in {"renamed", "synced"} /\ ~cmd[c].keep => dir.path # cmd[c].fd
        /\ cmd[c].durable /\ cmd[c].fd # Nothing => \A e \in survives : e.path # cmd[c].fd
PoweredWhole == dir \in survives /\ (~outage => dir.path \notin scrubbed)
IdentityInv == IdentityTypeOK /\ OldIsFile /\ PlacedOnce /\ OldIsGone /\ PoweredWhole

=============================================================================
