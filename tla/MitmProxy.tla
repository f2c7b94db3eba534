------------------------------ MODULE MitmProxy ------------------------------
(***************************************************************************)
(* The proxy the local claude is pointed at (packages/cli/src/host/rc/     *)
(* mitm.ts): CONNECT sockets it terminates or tunnels, the requests it     *)
(* answers itself or forwards upstream, and its close, which must find     *)
(* every socket and request the proxy owns while completions of every kind *)
(* are still queued behind it.                                             *)
(***************************************************************************)
EXTENDS Naturals, FiniteSets

CONSTANTS
    Conns,         \* CONNECT sockets
    MaxRequests    \* bound on requests

VARIABLES
    stopped,       \* #stopped
    sessionOpen,   \* the relayed session is open
    client,        \* the client's socket: "none", "queued", "open", "gone"
    remote,        \* the tunnel's socket: "none", "dialing", "open", "gone"
    sockets,       \* #connectSockets: whose client, whose tunnel socket
    request,       \* the request of a terminated socket
    upstream,      \* its ClientRequest: "none", "live", "gone"
    owned,         \* #upstreamRequests
    observed,      \* history: bridge responses reported, and whether they were whole
    requests

proxyVars == <<stopped, sessionOpen, client, remote, sockets, request, upstream, owned, observed,
               requests>>

NoRequest == [kind |-> "none", at |-> "none", whole |-> FALSE]

ProxyInit ==
    /\ stopped = FALSE /\ sessionOpen = TRUE
    /\ client = [c \in Conns |-> "none"] /\ remote = [c \in Conns |-> "none"]
    /\ sockets = {}
    /\ request = [c \in Conns |-> NoRequest]
    /\ upstream = [c \in Conns |-> "none"] /\ owned = {}
    /\ observed = {} /\ requests = 0

Client(c) == <<"client", c>>
Remote(c) == <<"remote", c>>

Moves(c, at) == request' = [request EXCEPT ![c].at = at]
Done(c) == request' = [request EXCEPT ![c] = NoRequest]

-------------------------------------------------------------------------------
(* CONNECT                                                                   *)

Connect(c) ==
    /\ ~stopped /\ client[c] = "none"
    /\ client' = [client EXCEPT ![c] = "queued"]
    /\ UNCHANGED <<stopped, sessionOpen, remote, sockets, request, upstream, owned, observed, requests>>

\* #onConnect: an event still queued when close() ran is refused; the API's host is
\* terminated, any other one dialled.
RefusedNever == FALSE
Refused == stopped
OnConnect(c) ==
    /\ client[c] = "queued"
    /\ \/ /\ Refused
          /\ client' = [client EXCEPT ![c] = "gone"]
          /\ UNCHANGED <<remote, sockets>>
       \/ /\ ~Refused
          /\ client' = [client EXCEPT ![c] = "open"]
          /\ \/ remote' = [remote EXCEPT ![c] = "dialing"]
                /\ sockets' = sockets \cup {Client(c), Remote(c)}
             \/ UNCHANGED remote /\ sockets' = sockets \cup {Client(c)}
    /\ UNCHANGED <<stopped, sessionOpen, request, upstream, owned, observed, requests>>

Killed(c) ==
    /\ client' = [client EXCEPT ![c] = "gone"]
    /\ remote' = [remote EXCEPT ![c] = "gone"]
    /\ sockets' = sockets \ {Client(c), Remote(c)}

\* The dialled socket connects, perhaps after the sweep or the client's end.
Dialed(c) ==
    /\ remote[c] = "dialing"
    /\ IF stopped \/ client[c] = "gone" THEN Killed(c)
       ELSE remote' = [remote EXCEPT ![c] = "open"] /\ UNCHANGED <<client, sockets>>
    /\ UNCHANGED <<stopped, sessionOpen, request, upstream, owned, observed, requests>>

\* Either end of a tunnel fails or ends.
TunnelEnds(c) ==
    /\ remote[c] \in {"dialing", "open"}
    /\ Killed(c)
    /\ UNCHANGED <<stopped, sessionOpen, request, upstream, owned, observed, requests>>

\* The client leaves; a tunnel being dialled learns of it when it connects.
ClientLeaves(c) ==
    /\ client[c] = "open" /\ remote[c] # "open"
    /\ client' = [client EXCEPT ![c] = "gone"]
    /\ sockets' = sockets \ {Client(c)}
    /\ UNCHANGED <<stopped, sessionOpen, remote, request, upstream, owned, observed, requests>>

-------------------------------------------------------------------------------
(* Requests                                                                  *)

\* #onRequest: a closed session is refused from the headers alone.
Request(c, kind) ==
    /\ client[c] = "open" /\ remote[c] = "none" /\ request[c].kind = "none"
    /\ requests < MaxRequests
    /\ requests' = requests + 1
    /\ IF kind = "worker" /\ ~sessionOpen THEN UNCHANGED request
       ELSE request' = [request EXCEPT ![c] = [kind |-> kind, at |-> "body", whole |-> FALSE]]
    /\ upstream' = [upstream EXCEPT ![c] = "none"]
    /\ UNCHANGED <<stopped, sessionOpen, client, remote, sockets, owned, observed>>

\* readBody settles; an incomplete one settles to null.
BodySettles(c) ==
    /\ request[c].at = "body"
    /\ \E how \in {"read", "refused", "aborted"} :
          /\ how # "aborted" => client[c] = "open"
          /\ Moves(c, how)
    /\ UNCHANGED <<stopped, sessionOpen, client, remote, sockets, upstream, owned, observed, requests>>

\* Too large or too late: terminal for the session of a worker route.
BodyRefused(c) ==
    /\ request[c].at = "refused"
    /\ sessionOpen' = (sessionOpen /\ request[c].kind # "worker")
    /\ Done(c)
    /\ UNCHANGED <<stopped, client, remote, sockets, upstream, owned, observed, requests>>

\* #onRequest resumes: nothing is started for an aborted request or a stopped proxy.
GivenUp(c) == request[c].at = "aborted" \/ stopped
\* #intercept's answer on a worker route: reading and reporting life never closes the
\* session; a status, a delivery, a batch or a stream that is not as it should be does,
\* and so does a route nobody knows.
Intercepted(route, valid) == route = "read" \/ (valid /\ route # "unknown")
Routes == {"read", "status", "delivery", "events", "stream", "unknown"}

Resume(c) ==
    /\ request[c].at \in {"read", "aborted"}
    /\ \/ /\ GivenUp(c)
          /\ Done(c) /\ client' = [client EXCEPT ![c] = "gone"]
          /\ sockets' = sockets \ {Client(c)}
          /\ UNCHANGED <<sessionOpen, upstream, owned>>
       \/ /\ ~GivenUp(c) /\ request[c].kind = "worker"
          /\ \E route \in Routes, valid \in BOOLEAN : sessionOpen' = (sessionOpen /\ Intercepted(route, valid))
          /\ Done(c) /\ UNCHANGED <<client, sockets, upstream, owned>>
       \/ /\ ~GivenUp(c) /\ request[c].kind # "worker"   \* #passthrough
          /\ upstream' = [upstream EXCEPT ![c] = "live"] /\ owned' = owned \cup {c}
          /\ Moves(c, "waiting") /\ UNCHANGED <<sessionOpen, client, sockets>>
    /\ UNCHANGED <<stopped, remote, observed, requests>>

UpstreamGone(c) == upstream' = [upstream EXCEPT ![c] = "gone"] /\ owned' = owned \ {c}

\* The upstream's response arrives.
Responds(c) ==
    /\ request[c].at = "waiting" /\ upstream[c] = "live"
    /\ IF stopped THEN UpstreamGone(c) /\ Done(c)
       ELSE Moves(c, "piping") /\ UNCHANGED <<upstream, owned>>
    /\ UNCHANGED <<stopped, sessionOpen, client, remote, sockets, observed, requests>>

\* Its body is complete: the pipe ends the client's response.
ResponseEnds(c) ==
    /\ request[c].at = "piping" /\ upstream[c] = "live"
    /\ request' = [request EXCEPT ![c].at = "ending", ![c].whole = TRUE]
    /\ UpstreamGone(c)
    /\ UNCHANGED <<stopped, sessionOpen, client, remote, sockets, observed, requests>>

\* The upstream fails: its request ends the client's response where it stands, the response's
\* own error, when that comes first, destroys it.
UpstreamFails(c) ==
    /\ request[c].at \in {"waiting", "piping"} /\ upstream[c] = "live"
    /\ UpstreamGone(c)
    /\ \/ Moves(c, "ending") /\ UNCHANGED <<client, sockets>>
       \/ /\ request[c].at = "piping"
          /\ Done(c) /\ client' = [client EXCEPT ![c] = "gone"]
          /\ sockets' = sockets \ {Client(c)}
    /\ UNCHANGED <<stopped, sessionOpen, remote, observed, requests>>

\* The client's response is flushed; the bridge it may have made is reported.
Forwarded(c) == request[c].kind = "bridge" /\ request[c].whole
Finish(c) ==
    /\ request[c].at = "ending" /\ client[c] = "open"
    /\ observed' = IF Forwarded(c) THEN observed \cup {[conn |-> c, whole |-> request[c].whole]}
                   ELSE observed
    /\ Done(c)
    /\ UNCHANGED <<stopped, sessionOpen, client, remote, sockets, upstream, owned, requests>>

\* The client's response closes unfinished: the upstream request goes with it.
ResponseCloses(c) ==
    /\ request[c].at \in {"waiting", "piping", "ending"} /\ client[c] = "gone"
    /\ Done(c) /\ UpstreamGone(c)
    /\ UNCHANGED <<stopped, sessionOpen, client, remote, sockets, observed, requests>>

-------------------------------------------------------------------------------
\* close(): no more connections, every session closed, every owned request and socket destroyed.
CloseProxy ==
    /\ ~stopped
    /\ stopped' = TRUE /\ sessionOpen' = FALSE
    /\ upstream' = [c \in Conns |-> IF c \in owned THEN "gone" ELSE upstream[c]]
    /\ client' = [c \in Conns |-> IF Client(c) \in sockets THEN "gone" ELSE client[c]]
    /\ remote' = [c \in Conns |-> IF Remote(c) \in sockets THEN "gone" ELSE remote[c]]
    /\ owned' = {} /\ sockets' = {}
    /\ UNCHANGED <<request, observed, requests>>

ProxyNext ==
    \/ CloseProxy
    \/ \E c \in Conns :
          \/ Connect(c) \/ OnConnect(c) \/ Dialed(c) \/ TunnelEnds(c) \/ ClientLeaves(c)
          \/ \E kind \in {"worker", "bridge", "other"} : Request(c, kind)
          \/ BodySettles(c) \/ BodyRefused(c) \/ Resume(c)
          \/ Responds(c) \/ ResponseEnds(c) \/ UpstreamFails(c) \/ Finish(c) \/ ResponseCloses(c)

ProxySpec == ProxyInit /\ [][ProxyNext]_proxyVars

-------------------------------------------------------------------------------
Stages == {"none", "body", "read", "refused", "aborted", "waiting", "piping", "ending"}
RequestState == [kind : {"none", "worker", "bridge", "other"}, at : Stages, whole : BOOLEAN]

\* The types of the variables.
ProxyTypeOK ==
    /\ stopped \in BOOLEAN /\ sessionOpen \in BOOLEAN
    /\ client \in [Conns -> {"none", "queued", "open", "gone"}]
    /\ remote \in [Conns -> {"none", "dialing", "open", "gone"}]
    /\ sockets \subseteq {Client(c) : c \in Conns} \cup {Remote(c) : c \in Conns}
    /\ request \in [Conns -> RequestState]
    /\ upstream \in [Conns -> {"none", "live", "gone"}]
    /\ owned \subseteq Conns /\ requests \in Nat
    /\ observed \subseteq [conn : Conns, whole : BOOLEAN]

\* "do not create a new outbound request after its ownership sets have already been swept",
\* "reject it before it is upgraded": whatever was queued or parked when close() ran, the
\* stopped proxy has no socket or upstream request open, and never opens one again.
NothingOutlivesClose ==
    stopped => \A c \in Conns : /\ client[c] # "open"
                                /\ remote[c] \notin {"dialing", "open"}
                                /\ upstream[c] # "live"

\* Its inductive invariant: until the close, everything open is in the set that the close
\* sweeps.
Owned == \A c \in Conns : /\ client[c] = "open" => Client(c) \in sockets
                          /\ remote[c] \in {"dialing", "open"} => Remote(c) \in sockets
                          /\ upstream[c] = "live" => c \in owned
ProxyInv == ProxyTypeOK /\ Owned /\ NothingOutlivesClose

===============================================================================
