------------------------------- MODULE MCStores -------------------------------
(* Who may join, and where it is kept, for TLC: the broker's one-time       *)
(* handoff rows, the browser's entry screens and credential, the host's     *)
(* identity file, and the locator of the broker's databases.  They meet     *)
(* only in the link a user carries from one to the other, so a behaviour    *)
(* follows one part and leaves the others at rest.                          *)
EXTENDS HandoffStore, IdentityStore, BrowserEntry, TursoLocator, TLC

VARIABLE part      \* the part this behaviour follows

handoffVars == vars

PartsInit == /\ Init /\ EntryInit /\ IdentityInit /\ LocatorInit
             /\ part \in {"handoff", "entry", "identity", "locator"}
             /\ part # "identity" => dir.path = Nothing

PartsNext ==
    \/ part = "handoff" /\ Next /\ UNCHANGED <<part, entryVars, identityVars, locatorVars>>
    \/ part = "entry" /\ EntryNext /\ UNCHANGED <<part, handoffVars, identityVars, locatorVars>>
    \/ part = "identity" /\ IdentityNext /\ UNCHANGED <<part, handoffVars, entryVars, locatorVars>>
    \/ part = "locator" /\ LocatorNext /\ UNCHANGED <<part, handoffVars, entryVars, identityVars>>

\* Commands of --rc-identity differ in nothing but the secret each mints.
CommandSymmetry == Permutations(Commands)

PartsSpec == PartsInit /\ [][PartsNext]_<<part, handoffVars, entryVars, identityVars, locatorVars>>
===============================================================================
