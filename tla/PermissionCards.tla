--------------------------- MODULE PermissionCards ---------------------------
(***************************************************************************)
(* A request of the agent, a permission or a question, answered from more   *)
(* than one device: PermissionRow and QuestionCard of                       *)
(* apps/web/app/page.tsx, the fold of the resolutions in lib/transcript.ts, *)
(* and the gate the host relay keeps for each request.                      *)
(*                                                                          *)
(* A device posts its decision and learns of the outcome from the           *)
(* permission_resolved frames the host publishes.  Live frames and the      *)
(* host's replay overlap, so a device meets the frames of a request in any  *)
(* order, each once (they are told apart by message id).  A question's      *)
(* decision is the answer the form held when it was submitted, or "deny"    *)
(* for Dismiss; what the user picks and types before that is left out.      *)
(***************************************************************************)
EXTENDS Naturals, Sequences

CONSTANTS Pages,      \* the devices, each with the session's page open
          Requests,
          Native,     \* requests of a harness that confirms its own resolution
          Questions,  \* requests that are questions
          Forms,    \* what a question's form may hold
          MaxGrants,  \* bound: decisions posted
          MaxReloads  \* bound: pages reloaded

\* What an answer is sent as differs from the tags of the other outcomes.
ASSUME FormsAssumption ==
    Forms \intersect {"allow", "deny", "pending", "resolved", "none", "gone"} = {}

Decisions(r) == IF r \notin Questions THEN {"allow", "deny"}
                ELSE IF r \in Native THEN Forms ELSE Forms \union {"deny"}
AllDecisions == {"allow", "deny"} \union Forms
Grants == [req : Requests, behavior : AllDecisions]
Behaviors == AllDecisions \union {"pending", "resolved"}

VARIABLES open,       \* the relay's #openPerms
          submitted,  \* its #submittedPerms
          asked,      \* requests published so far
          outcome,    \* history: what the agent was told or ended by itself, "none" before
          frames,     \* permission_resolved frames published
          inbox,      \* decisions on their way to the relay
          got,        \* frames each device has in its message list
          resolved,   \* each device's fold of them
          card,       \* each device's cards: the local decision and the deciding guard
          calls,      \* each device's POSTs in flight
          grants, reloads \* how much of the bounds is used

hostVars == <<open, submitted, asked, outcome, frames>>
pageVars == <<got, resolved, card>>
cardVars == <<hostVars, pageVars, inbox, calls, grants, reloads>>

Fresh == [decision |-> "none", deciding |-> FALSE]

CardTypeOK ==
    /\ open \subseteq asked /\ submitted \subseteq open /\ asked \subseteq Requests
    /\ outcome \in [Requests -> Behaviors \union {"none", "gone"}]
    /\ frames \subseteq [req : Requests, behavior : Behaviors]
    /\ inbox \in Seq(Grants)
    /\ got \in [Pages -> SUBSET frames]
    /\ resolved \in [Pages -> [Requests -> Behaviors \union {"none"}]]
    /\ card \in [Pages -> [Requests -> [decision : AllDecisions \union {"none", "pending"},
                                        deciding : BOOLEAN]]]
    /\ calls \in [Pages -> SUBSET Grants]

CardInit ==
    /\ open = {} /\ submitted = {} /\ asked = {} /\ frames = {} /\ inbox = <<>>
    /\ outcome = [r \in Requests |-> "none"]
    /\ got = [d \in Pages |-> {}]
    /\ resolved = [d \in Pages |-> [r \in Requests |-> "none"]]
    /\ card = [d \in Pages |-> [r \in Requests |-> Fresh]]
    /\ calls = [d \in Pages |-> {}] /\ grants = 0 /\ reloads = 0

-----------------------------------------------------------------------------
\* The relay: the gate is registered with the request's publication.
Ask(r) ==
    /\ r \notin asked
    /\ asked' = asked \union {r} /\ open' = open \union {r}
    /\ UNCHANGED <<submitted, outcome, frames, inbox, pageVars, calls, grants, reloads>>

Tell(r, behavior) == frames' = frames \union {[req |-> r, behavior |-> behavior]}

\* The first decision that finds the gate is logged and then passed on; a native gate stays open, submitted,
\* until its harness confirms.  Later ones are dropped.
Takes(r) == r \in open /\ r \notin submitted

Decide(r, decision) ==
    /\ outcome' = [outcome EXCEPT ![r] = decision]
    /\ IF r \in Native
       THEN submitted' = submitted \union {r} /\ Tell(r, "pending") /\ UNCHANGED open
       ELSE open' = open \ {r} /\ Tell(r, decision) /\ UNCHANGED submitted

TakeGrant ==
    /\ inbox # <<>> /\ inbox' = Tail(inbox)
    /\ IF Takes(Head(inbox).req) THEN Decide(Head(inbox).req, Head(inbox).behavior)
                                 ELSE UNCHANGED <<open, submitted, outcome, frames>>
    /\ UNCHANGED <<asked, pageVars, calls, grants, reloads>>

\* The agent ends a request itself: a native one is published as resolved, without a winner; the gate of a
\* compatibility session is only dropped.
Cancel(r) ==
    /\ r \in open /\ open' = open \ {r} /\ submitted' = submitted \ {r}
    /\ IF r \in Native THEN Tell(r, "resolved") /\ outcome' = [outcome EXCEPT ![r] = "resolved"]
                       ELSE outcome' = [outcome EXCEPT ![r] = "gone"] /\ UNCHANGED frames
    /\ UNCHANGED <<asked, inbox, pageVars, calls, grants, reloads>>

-----------------------------------------------------------------------------
\* A slip: the newest frame wins.
FoldedNewest(before, behavior) == behavior

\* foldPermissionResolutions: the end of a native request outlives a submission met after it.
Folded(before, behavior) == IF behavior = "pending" /\ before # "none" THEN before ELSE behavior

Receive(d, f) ==
    /\ f \in frames \ got[d]
    /\ got' = [got EXCEPT ![d] = @ \union {f}]
    /\ resolved' = [resolved EXCEPT ![d][f.req] = Folded(@, f.behavior)]
    /\ UNCHANGED <<hostVars, inbox, card, calls, grants, reloads>>

\* What the card shows: the replayed resolution over the local decision.
Effective(d, r) == IF resolved[d][r] # "none" THEN resolved[d][r] ELSE card[d][r].decision

\* A permission's buttons and a question's form are there until the host or this page says otherwise, and
\* act once at a time.
RowOpen(d, r) == Effective(d, r) = "none" /\ ~card[d][r].deciding

QuestionOpen(d, r) ==
    /\ card[d][r].decision = "none" /\ ~card[d][r].deciding
    /\ IF r \in Native THEN resolved[d][r] = "none" ELSE resolved[d][r] \notin AllDecisions

\* decide, submit and dismiss.
Click(d, r, decision) ==
    /\ grants < MaxGrants /\ grants' = grants + 1
    /\ r \in asked /\ decision \in Decisions(r)
    /\ IF r \in Questions THEN QuestionOpen(d, r) ELSE RowOpen(d, r)
    /\ card' = [card EXCEPT ![d][r].deciding = TRUE]
    /\ calls' = [calls EXCEPT ![d] = @ \union {[req |-> r, behavior |-> decision]}]
    /\ UNCHANGED <<hostVars, inbox, got, resolved, reloads>>

\* The POST's outcome: delivered or not, and what the page is told.  An error reopens the card, also when
\* the decision was delivered.
Posted(d, c, delivered, ok) ==
    /\ c \in calls[d] /\ (ok => delivered)
    /\ calls' = [calls EXCEPT ![d] = @ \ {c}]
    /\ inbox' = IF delivered THEN Append(inbox, c) ELSE inbox
    /\ card' = [card EXCEPT ![d][c.req] =
                   IF ok THEN [@ EXCEPT !.decision = IF c.req \in Native THEN "pending" ELSE c.behavior]
                         ELSE [@ EXCEPT !.deciding = FALSE]]
    /\ UNCHANGED <<hostVars, got, resolved, grants, reloads>>

\* A reload drops the cards and folds the retained frames again; a POST in flight may still arrive.
Reload(d) ==
    /\ reloads < MaxReloads /\ reloads' = reloads + 1
    /\ got' = [got EXCEPT ![d] = {}]
    /\ resolved' = [resolved EXCEPT ![d] = [r \in Requests |-> "none"]]
    /\ card' = [card EXCEPT ![d] = [r \in Requests |-> Fresh]]
    /\ calls' = [calls EXCEPT ![d] = {}]
    /\ \/ inbox' = inbox
       \/ \E c \in calls[d] : inbox' = Append(inbox, c)
    /\ UNCHANGED <<hostVars, grants>>

CardNext ==
    \/ TakeGrant
    \/ \E r \in Requests : Ask(r) \/ Cancel(r)
    \/ \E d \in Pages :
          \/ Reload(d)
          \/ \E f \in frames : Receive(d, f)
          \/ \E r \in Requests, decision \in AllDecisions : Click(d, r, decision)
          \/ \E c \in calls[d], delivered, ok \in BOOLEAN : Posted(d, c, delivered, ok)

CardSpec == CardInit /\ [][CardNext]_cardVars

-----------------------------------------------------------------------------
(* Properties. *)

\* What a device shows once it has the host's frames is what the agent was told: whichever device was
\* first, whatever this one posted, had refused or had to post again, and in whatever order it met the
\* frames.  A request whose agent confirms its own end never shows more than that it ended.  Nothing is
\* published when a compatibility session's agent drops its request, so such a request is left out.
Told(r) == IF outcome[r] \in {"none", "gone"} THEN "none"
           ELSE IF r \in Native /\ r \in submitted THEN "pending" ELSE outcome[r]

CardTellsOutcome ==
    \A d \in Pages, r \in Requests :
        (Told(r) # "none" /\ {f \in frames : f.req = r} \subseteq got[d]) => Effective(d, r) = Told(r)

\* The inductive invariant of CardTellsOutcome.  A gate that waits has no outcome yet, and what
\* was published of a request is its outcome, of a native one that it is submitted and has ended.
Shown(r, behavior) == [req |-> r, behavior |-> behavior] \in frames
OutcomeOf(r) ==
    /\ r \notin asked \/ Takes(r) => outcome[r] = "none"
    /\ outcome[r] = "none" => \A b \in Behaviors : ~Shown(r, b)
    /\ r \notin Native /\ outcome[r] \notin {"none", "gone"} => Shown(r, outcome[r])
    /\ r \notin Native => \A b \in Behaviors : Shown(r, b) => b = outcome[r]
StagesOf(r) ==
    /\ r \in submitted => r \in Native /\ outcome[r] \in AllDecisions
                         /\ Shown(r, "pending") /\ ~Shown(r, "resolved")
    /\ r \in Native => /\ outcome[r] # "none" => r \in submitted \/ outcome[r] = "resolved"
                       /\ outcome[r] = "resolved" => Shown(r, "resolved")
                       /\ \A b \in Behaviors : Shown(r, b) => b \in {"pending", "resolved"}
OutcomeShown == \A r \in Requests : OutcomeOf(r) /\ StagesOf(r)

\* A device's fold is "none" exactly while it has met no frame of the request, else one it has
\* met, and that of a submission only while it has met nothing else.
Met(d, r, behavior) == [req |-> r, behavior |-> behavior] \in got[d]
FoldOf(d, r) ==
    /\ resolved[d][r] = "none" => \A b \in Behaviors : ~Met(d, r, b)
    /\ resolved[d][r] # "none" => Met(d, r, resolved[d][r])
    /\ resolved[d][r] = "pending" => \A b \in Behaviors \ {"pending"} : ~Met(d, r, b)
FoldOfMet == \A d \in Pages, r \in Requests : FoldOf(d, r)

CardInv == CardTypeOK /\ OutcomeShown /\ FoldOfMet
================================================================================
