----------------------------- MODULE TursoLocator -----------------------------
(***************************************************************************)
(* TursoCloudDbLocator (apps/web/lib/broker/turso-cloud-locator.ts) of one *)
(* server instance: which databases it believes exist, against the account *)
(* that other instances and operators create and delete in meanwhile.      *)
(* A call makes requests of the Platform API (external); each takes effect *)
(* there at one moment and is answered, or its answer lost, at a later one.*)
(***************************************************************************)
EXTENDS FiniteSets, Integers

CONSTANTS
    Calls,         \* concurrent calls of the locator
    Names,         \* databases of this scope
    IndexName,     \* the catalog, one of Names
    MaxCalls,      \* bound on calls
    MaxOutside     \* bound on what others create or delete

ASSUME CatalogAssumption == IndexName \in Names

VARIABLES
    cloud, serving,   \* databases that exist; those whose endpoint answers
    known,            \* #known: names whose memo has not expired
    call,             \* what each call is doing
    during,           \* history: did the call's database exist, at moments since it began
    calls, outside

locatorVars == <<cloud, serving, known, call, during, calls, outside>>

Idle == [op |-> "none", name |-> IndexName, at |-> "idle", reply |-> "none", todo |-> {}]

LocatorInit ==
    /\ cloud = {} /\ serving = {} /\ known = {}
    /\ call = [c \in Calls |-> Idle]
    /\ during = [c \in Calls |-> {}]
    /\ calls = 0 /\ outside = 0

-------------------------------------------------------------------------------
(* The account                                                               *)

\* Every call in progress lives through what becomes of the account.
Becomes(databases) ==
    /\ cloud' = databases
    /\ during' = [c \in Calls |-> IF call[c].at = "idle" THEN {}
                                  ELSE during[c] \cup {call[c].name \in databases}]

OthersCreate(n) ==
    /\ n \notin cloud /\ outside < MaxOutside
    /\ outside' = outside + 1
    /\ Becomes(cloud \cup {n})
    /\ UNCHANGED <<serving, known, call, calls>>

OthersDelete(n) ==
    /\ n \in cloud /\ outside < MaxOutside
    /\ outside' = outside + 1
    /\ Becomes(cloud \ {n}) /\ serving' = serving \ {n}
    /\ UNCHANGED <<known, call, calls>>

\* A created database's endpoint comes up some time after the create returned.
Propagate(n) ==
    /\ n \in cloud \ serving
    /\ serving' = serving \cup {n}
    /\ UNCHANGED <<cloud, known, call, during, calls, outside>>

\* The memo's time is up.
Expire(n) ==
    /\ n \in known
    /\ known' = known \ {n}
    /\ UNCHANGED <<cloud, serving, call, during, calls, outside>>

-------------------------------------------------------------------------------
(* Calls                                                                     *)

Begun(c, op, n, at) ==
    /\ call[c].at = "idle" /\ calls < MaxCalls
    /\ calls' = calls + 1
    /\ call' = [call EXCEPT ![c] = [op |-> op, name |-> n, at |-> at, reply |-> "none", todo |-> {}]]
    /\ during' = [during EXCEPT ![c] = {(n \in cloud)}]
    /\ UNCHANGED <<cloud, serving, outside>>

\* ensure, ensureHandoff: a memo spares the request.
EnsureDatabase(c, n) ==
    /\ Begun(c, "ensure", n, IF n \in known THEN "ok" ELSE "post")
    /\ UNCHANGED known

\* ensureIndex: "never trust a positive memo here".
IndexMemo == known \ {IndexName}
EnsureIndex(c) ==
    /\ \A d \in Calls : call[d].op # "ensureIndex"   \* the backend builds one catalog client at a time
    /\ known' = IndexMemo
    /\ Begun(c, "ensureIndex", IndexName, IF IndexName \in known' THEN "ok" ELSE "post")

\* exists: always a fresh request.
TrustsMemo(n) == n \in known
AsksAgain(n) == FALSE
Exists(c, n) == Begun(c, "exists", n, IF AsksAgain(n) THEN "ok" ELSE "get") /\ UNCHANGED known

\* forget: a cached client found its database gone.
Forget(n) ==
    /\ n \in known
    /\ known' = known \ {n}
    /\ UNCHANGED <<cloud, serving, call, during, calls, outside>>

\* awaitReady probes the endpoint of the client just opened.
AwaitReady(c, n) == Begun(c, "ready", n, "probe") /\ UNCHANGED known

DropStored(c, n) == Begun(c, "drop", n, "delete") /\ UNCHANGED known

DropScope(c) == Begun(c, "dropScope", IndexName, "list") /\ UNCHANGED known

-------------------------------------------------------------------------------
(* Requests                                                                  *)

Sent(c, at) == call[c].at = at /\ call[c].reply = "none"
Answered(c, at) == call[c].at = at /\ call[c].reply # "none"
Settles(c, reply) == call' = [call EXCEPT ![c].reply = reply]

\* POST /databases: created, a conflict by either of its statuses, or an error that may
\* have been raised after the database was made.
Post(c) ==
    /\ Sent(c, "post")
    /\ LET n == call[c].name IN
       \/ /\ n \notin cloud /\ Becomes(cloud \cup {n})
          /\ \E reply \in {"created", "error"} : Settles(c, reply)
       \/ /\ n \in cloud /\ UNCHANGED <<cloud, during>>
          /\ \E reply \in {"conflict", "refused"} : Settles(c, reply)
       \/ /\ UNCHANGED <<cloud, during>>
          /\ \E reply \in {"error", "refused"} : Settles(c, reply)
    /\ UNCHANGED <<serving, known, calls, outside>>

\* GET /databases/<name>
Get(c) ==
    /\ Sent(c, "get")
    /\ \/ Settles(c, IF call[c].name \in cloud THEN "found" ELSE "absent")
       \/ Settles(c, "error")
    /\ UNCHANGED <<cloud, serving, known, during, calls, outside>>

\* DELETE /databases/<name>: absent is as good as deleted.
Delete(c) ==
    /\ Sent(c, "delete")
    /\ LET n == call[c].name IN
       \/ /\ Becomes(cloud \ {n}) /\ serving' = serving \ {n} /\ Settles(c, "gone")
       \/ /\ UNCHANGED <<cloud, serving, during>> /\ Settles(c, "error")
    /\ UNCHANGED <<known, calls, outside>>

\* GET /databases: the names with this scope's prefix.
List(c) ==
    /\ call[c].at \in {"list", "relist"}
    /\ call' = [call EXCEPT ![c].at = IF @ = "list" THEN "listed" ELSE "relisted", ![c].todo = cloud]
    /\ UNCHANGED <<cloud, serving, known, during, calls, outside>>

\* SELECT 1 against the endpoint.
Probe(c) ==
    /\ Sent(c, "probe")
    /\ \/ Settles(c, IF call[c].name \in serving THEN "serving" ELSE "notReady")
       \/ Settles(c, "error")
    /\ UNCHANGED <<cloud, serving, known, during, calls, outside>>

-------------------------------------------------------------------------------
(* Answers                                                                   *)

Onward(c, at) == call' = [call EXCEPT ![c].at = at, ![c].reply = "none"]

\* #createIfAbsent: 201 and 409 confirm, 400 and 422 are looked into.
Posted(c) ==
    /\ Answered(c, "post")
    /\ \/ /\ call[c].reply \in {"created", "conflict"}
          /\ known' = known \cup {call[c].name} /\ Onward(c, "ok")
       \/ call[c].reply = "refused" /\ Onward(c, IF call[c].name \in known THEN "ok" ELSE "get")
          /\ UNCHANGED known
       \/ call[c].reply = "error" /\ Onward(c, "failed") /\ UNCHANGED known
    /\ UNCHANGED <<cloud, serving, during, calls, outside>>

\* #existsName: what the request told replaces the memo.
Got(c) ==
    /\ Answered(c, "get")
    /\ \/ /\ call[c].reply = "found"
          /\ known' = known \cup {call[c].name} /\ Onward(c, "ok")
       \/ /\ call[c].reply = "absent"
          /\ known' = known \ {call[c].name}
          /\ Onward(c, IF call[c].op = "exists" THEN "absent" ELSE "failed")
       \/ call[c].reply = "error" /\ Onward(c, "failed") /\ UNCHANGED known
    /\ UNCHANGED <<cloud, serving, during, calls, outside>>

\* dropStored forgets the name; dropScope goes on with the next one and lists again.
Deleted(c) ==
    /\ Answered(c, "delete")
    /\ \/ /\ call[c].reply = "gone"
          /\ known' = known \ {call[c].name}
          /\ IF call[c].op = "drop" THEN Onward(c, "ok") ELSE Onward(c, "listed")
       \/ call[c].reply = "error" /\ Onward(c, "failed") /\ UNCHANGED known
    /\ UNCHANGED <<cloud, serving, during, calls, outside>>

NextDrop(c) ==
    /\ call[c].at = "listed"
    /\ \/ \E n \in call[c].todo :
             call' = [call EXCEPT ![c].at = "delete", ![c].name = n, ![c].todo = @ \ {n}]
       \/ call[c].todo = {} /\ Onward(c, "relist")
    /\ UNCHANGED <<cloud, serving, known, during, calls, outside>>

\* What remains is what the second listing told.
Relisted(c) ==
    /\ call[c].at = "relisted"
    /\ Onward(c, IF call[c].todo = {} THEN "ok" ELSE "failed")
    /\ UNCHANGED <<cloud, serving, known, during, calls, outside>>

\* Only an endpoint that is not there yet is worth another probe.
Probed(c) ==
    /\ Answered(c, "probe")
    /\ Onward(c, CASE call[c].reply = "serving" -> "ok"
                 [] call[c].reply = "notReady" -> "probe"
                 [] OTHER -> "failed")
    /\ UNCHANGED <<cloud, serving, known, during, calls, outside>>

\* The wall: the caller is answered, whatever the probe in flight still settles to.
Deadline(c) ==
    /\ call[c].op = "ready" /\ call[c].at = "probe"
    /\ Onward(c, "failed")
    /\ UNCHANGED <<cloud, serving, known, during, calls, outside>>

\* The caller has its answer.
Return(c) ==
    /\ call[c].at \in {"ok", "absent", "failed"}
    /\ call' = [call EXCEPT ![c] = Idle]
    /\ during' = [during EXCEPT ![c] = {}]
    /\ UNCHANGED <<cloud, serving, known, calls, outside>>

LocatorNext ==
    \/ \E n \in Names : OthersCreate(n) \/ OthersDelete(n) \/ Propagate(n) \/ Expire(n) \/ Forget(n)
    \/ \E c \in Calls :
          \/ \E n \in Names \ {IndexName} : EnsureDatabase(c, n) \/ Exists(c, n)
          \/ \E n \in Names : AwaitReady(c, n) \/ DropStored(c, n)
          \/ EnsureIndex(c) \/ DropScope(c)
          \/ Post(c) \/ Get(c) \/ Delete(c) \/ List(c) \/ Probe(c)
          \/ Posted(c) \/ Got(c) \/ Deleted(c) \/ NextDrop(c) \/ Relisted(c) \/ Probed(c)
          \/ Deadline(c) \/ Return(c)

LocatorSpec == LocatorInit /\ [][LocatorNext]_locatorVars

-------------------------------------------------------------------------------
\* "cold-open continuity classification must make a fresh Platform GET because a
\* cross-instance/operator delete can invalidate a positive immediately": what exists()
\* answers, and that ensureIndex() found or made the catalog, was so at some moment of the call.
AnswerWasTrue ==
    \A c \in Calls :
        /\ call[c].op = "exists" /\ call[c].at \in {"ok", "absent"}
              => (call[c].at = "ok") \in during[c]
        /\ call[c].op = "ensureIndex" /\ call[c].at = "ok" => TRUE \in during[c]

\* The types of what a proof reads.
LocatorCall == [op : {"none", "ensure", "ensureIndex", "exists", "ready", "drop", "dropScope"},
                name : Names,
                at : {"idle", "post", "get", "delete", "list", "listed", "relist", "relisted", "probe",
                      "ok", "absent", "failed"},
                reply : {"none", "created", "conflict", "refused", "found", "absent", "gone",
                         "serving", "notReady", "error"},
                todo : SUBSET Names]

LocatorTypeOK ==
    /\ cloud \subseteq Names /\ known \subseteq Names
    /\ call \in [Calls -> LocatorCall]
    /\ during \in [Calls -> SUBSET BOOLEAN]

\* The parts of the inductive invariant.  Who asks what: a call that creates or looks is one of
\* three operations, and only ensureIndex is about the catalog.
Asks(c) == call[c].op \in {"ensure", "ensureIndex", "exists"}
OwnName(c) ==
    /\ call[c].op = "none" <=> call[c].at = "idle"
    /\ call[c].at \in {"get", "post"} => Asks(c)
    /\ Asks(c) => call[c].at \in {"get", "post", "ok", "absent", "failed"}
    /\ call[c].op = "exists" => call[c].at # "post"
    /\ Asks(c) => (call[c].name = IndexName <=> call[c].op = "ensureIndex")
OneCatalog == \A c, d \in Calls : call[c].op = "ensureIndex" /\ call[d].op = "ensureIndex" => c = d

\* The history has what is so now, and the answer that waits was so when the account gave it.
Witnessed(c) ==
    /\ Asks(c) => (call[c].name \in cloud) \in during[c]
    /\ call[c].at = "get" /\ call[c].reply = "found" => TRUE \in during[c]
    /\ call[c].at = "get" /\ call[c].reply = "absent" => FALSE \in during[c]
    /\ call[c].at = "post" /\ call[c].reply \in {"created", "conflict"} => TRUE \in during[c]

\* While the catalog is being ensured no memo can stand in for the request.
CatalogAsked == \A c \in Calls : call[c].op = "ensureIndex" /\ call[c].at \in {"post", "get"}
                                  => IndexName \notin known

LocatorInv ==
    /\ LocatorTypeOK /\ OneCatalog /\ CatalogAsked /\ AnswerWasTrue
    /\ \A c \in Calls : OwnName(c) /\ Witnessed(c)
===============================================================================
