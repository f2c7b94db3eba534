---------------------------- MODULE MCChannelStore ----------------------------
(* Model values and small frame sets for checking ChannelStore with TLC.   *)
EXTENDS ChannelStore, TLC

CONSTANTS i1, i2, r1, r2

F(kind, sid, coord, bytes) == [kind |-> kind, sid |-> sid, coord |-> coord, bytes |-> bytes]

\* The identity bus, posted to by clients that name their messages: an announce, and a
\* terminal that took the same coordinate with other bytes.
OneCoordinate == {F("announce", "s", "m", "x"), F("terminal", "s", "m", "y")}

\* A log older than the fence, with its terminal.
LegacyTerminal == {<<F("terminal", "s", "m", "y")>>}

TwoHomes == r1 :> i1 @@ r2 :> i2

\* What the runs check: the promise under the losses it can be kept through.
LossSpec == NoticedSpec /\ Fairness
===============================================================================
