----------------------------- MODULE Downloads ------------------------------
(* Downloads and their log: DownloadPackage (api/update.go) behind           *)
(* APIKeyAuth (middleware/auth.go), RecordDownload (service/usage.go) in a   *)
(* goroutine that outlives the handler, and the contexts gin keeps in a pool *)
(* and hands to one request after the other.  A context holds a pointer to   *)
(* its request and the query string of a request, parsed when it is first    *)
(* asked for; both are read and written without a lock.                      *)
EXTENDS Server

CONSTANTS
    Requests,       \* downloads, each by a client of its own
    Addressed,      \* servers that clients are directed to
    Contexts,       \* contexts in the pool of a server
    None

ASSUME DownloadsAssumption == None \notin Requests \cup Servers \cup Contexts /\ Addressed \subseteq Servers

VARIABLES
    context,        \* context[s][x]: whose request and whose query x holds, and
                    \* whether a handler is using it
    request,        \* request[d]: where the handler of d is, and with what
    recorder,       \* recorder[d]: where the goroutine of d is, and what it read
    gone,           \* requests whose context is cancelled
    log,            \* log[d]: the row written for d, or None
    shared          \* requests that met another one's goroutine in a context (history)

downloadVars == <<context, request, recorder, gone, log, shared>>
vars == <<serverVars, downloadVars>>

Unused == [request |-> None, query |-> None, busy |-> FALSE]

NewRequest  == [pc |-> "new", at |-> None, context |-> None]
NoRecorder == [pc |-> "none", alive |-> None, client |-> None, device |-> None]

Init ==
    /\ ServerInit
    /\ context = [s \in Servers |-> [x \in Contexts |-> Unused]]
    /\ request = [d \in Requests |-> NewRequest]
    /\ recorder = [d \in Requests |-> NoRecorder]
    /\ gone = {}
    /\ log = [d \in Requests |-> None]
    /\ shared = {}

\* The context request d was given.
Own(d) == context[request[d].at][request[d].context]

SetOwn(d, c) == context' = [context EXCEPT ![request[d].at][request[d].context] = c]

RequestAt(d, pc) == request' = [request EXCEPT ![d].pc = pc]

Recording(d) == recorder[d].pc \notin {"none", "done"}

\* Goroutines of earlier requests that hold context x of server s.
Holding(s, x) == {o \in Requests : Recording(o) /\ request[o].at = s /\ request[o].context = x}

-----------------------------------------------------------------------------
(* The handler.                                                              *)

\* gin takes a context, new or used, and points it to the request ...
Accept(d, s, x) ==
    /\ request[d].pc = "new"
    /\ server[s].pc \in {"listening", "serving"} /\ ~context[s][x].busy
    /\ context' = [context EXCEPT ![s][x] = [@ EXCEPT !.request = d, !.busy = TRUE]]
    /\ request' = [request EXCEPT ![d] = [pc |-> "reset", at |-> s, context |-> x]]
    /\ handling' = [handling EXCEPT ![s] = @ \cup {d}]
    /\ shared' = IF Holding(s, x) = {} THEN shared ELSE shared \cup Holding(s, x) \cup {d}
    /\ UNCHANGED <<tables, users, server, wanted, faults, recorder, gone, log>>

\* Mutant: the query of the last request stays.
ResetNothing(d) ==
    /\ request[d].pc = "reset"
    /\ RequestAt(d, "authorise")
    /\ UNCHANGED <<serverVars, context, recorder, gone, log, shared>>

\* ... and forgets the query of the last one.
Reset(d) ==
    /\ request[d].pc = "reset"
    /\ SetOwn(d, [Own(d) EXCEPT !.query = None])
    /\ RequestAt(d, "authorise")
    /\ UNCHANGED <<serverVars, recorder, gone, log, shared>>

\* The key is in the header, or the query is parsed for it; any key will do.
\* Without one the request is refused.
Authorise(d) ==
    /\ request[d].pc = "authorise"
    /\ \/ RequestAt(d, "lookup") /\ UNCHANGED context
       \/ /\ SetOwn(d, [Own(d) EXCEPT !.query = IF @ = None THEN Own(d).request ELSE @])
          /\ \E pc \in {"lookup", "refused"} : RequestAt(d, pc)
    /\ UNCHANGED <<serverVars, recorder, gone, log, shared>>

\* The version is there or it is not.  If it is, the goroutine is started and
\* the client redirected.
Lookup(d) ==
    /\ request[d].pc = "lookup"
    /\ \/ RequestAt(d, "refused") /\ UNCHANGED recorder
       \/ /\ RequestAt(d, "redirected")
          /\ recorder' = [recorder EXCEPT ![d].pc = "context"]
    /\ UNCHANGED <<serverVars, context, gone, log, shared>>

\* The handler returns: the request's context is cancelled, gin's goes back to
\* the pool as it is.
Return(d) ==
    /\ request[d].pc \in {"refused", "redirected"}
    /\ SetOwn(d, [Own(d) EXCEPT !.busy = FALSE])
    /\ RequestAt(d, IF request[d].pc = "refused" THEN "failed" ELSE "answered")
    /\ handling' = [handling EXCEPT ![request[d].at] = @ \ {d}]
    /\ gone' = gone \cup {d}
    /\ UNCHANGED <<tables, users, server, wanted, faults, recorder, log, shared>>

\* The client closes its connection while the handler is at work.
GoAway(d) ==
    /\ request[d].pc \in {"reset", "authorise", "lookup", "refused", "redirected"}
    /\ d \notin gone /\ gone' = gone \cup {d}
    /\ UNCHANGED <<serverVars, context, request, recorder, log, shared>>

-----------------------------------------------------------------------------
(* The goroutine: c.Request.Context(), c.ClientIP() and the user agent,      *)
(* c.Query("device_id"), and the insertion.                                  *)

ReadContext(d) ==
    /\ recorder[d].pc = "context"
    /\ recorder' = [recorder EXCEPT ![d].pc = "client", ![d].alive = Own(d).request]
    /\ UNCHANGED <<serverVars, context, request, gone, log, shared>>

ReadClient(d) ==
    /\ recorder[d].pc = "client"
    /\ recorder' = [recorder EXCEPT ![d].pc = "device", ![d].client = Own(d).request]
    /\ UNCHANGED <<serverVars, context, request, gone, log, shared>>

\* The query that has been parsed, or the one of the request, to be kept.
ReadDevice(d) ==
    /\ recorder[d].pc = "device"
    /\ recorder' = [recorder EXCEPT ![d] =
          IF Own(d).query = None THEN [@ EXCEPT !.pc = "parsed", !.device = Own(d).request]
          ELSE [@ EXCEPT !.pc = "insert", !.device = Own(d).query]]
    /\ UNCHANGED <<serverVars, context, request, gone, log, shared>>

KeepQuery(d) ==
    /\ recorder[d].pc = "parsed"
    /\ SetOwn(d, [Own(d) EXCEPT !.query = recorder[d].device])
    /\ recorder' = [recorder EXCEPT ![d].pc = "insert"]
    /\ UNCHANGED <<serverVars, request, gone, log, shared>>

\* Under the context that was read, and dropped if that is cancelled; so is the
\* error.  The version is the one of the handler, the rest what was read.
Insert(d) ==
    /\ recorder[d].pc = "insert"
    /\ log' = IF recorder[d].alive \in gone THEN log
              ELSE [log EXCEPT ![d] = [client |-> recorder[d].client,
                                       device |-> recorder[d].device]]
    /\ recorder' = [recorder EXCEPT ![d] = [NoRecorder EXCEPT !.pc = "done"]]
    /\ UNCHANGED <<serverVars, context, request, gone, shared>>

Handle(d) == Reset(d) \/ Authorise(d) \/ Lookup(d) \/ Return(d)

Record(d) == ReadContext(d) \/ ReadClient(d) \/ ReadDevice(d) \/ KeepQuery(d) \/ Insert(d)

-----------------------------------------------------------------------------
(* With a server its handlers, its goroutines and its pool end.              *)

Ended == {s \in Servers : server[s].pc # "down" /\ server'[s].pc = "down"}

Follow ==
    /\ context' = [s \in Servers |-> IF s \in Ended THEN [x \in Contexts |-> Unused]
                                     ELSE context[s]]
    /\ request' = [d \in Requests |->
          IF request[d].at \in Ended /\ d \in handling[request[d].at]
          THEN [request[d] EXCEPT !.pc = "lost"] ELSE request[d]]
    /\ recorder' = [d \in Requests |->
          IF request[d].at \in Ended /\ Recording(d)
          THEN [NoRecorder EXCEPT !.pc = "done"] ELSE recorder[d]]
    /\ gone' = gone \cup {d \in Requests : request'[d].pc = "lost"}
    /\ UNCHANGED <<log, shared>>

ServerStep(s) == (Boot(s) \/ Shutdown(s) \/ Disturb(s)) /\ Follow

Next ==
    \/ \E s \in Servers : ServerStep(s)
    \/ \E d \in Requests :
          \/ \E s \in Addressed, x \in Contexts : Accept(d, s, x)
          \/ Handle(d) \/ GoAway(d) \/ Record(d)

\* A process that is started runs, and so do its restarts.
Fairness == \A s \in Servers : WF_vars((Boot(s) \/ Shutdown(s)) /\ Follow)

Spec == Init /\ [][Next]_vars /\ Fairness

-----------------------------------------------------------------------------
(* Properties.                                                               *)

Handler == [pc: {"reset", "authorise", "lookup", "refused", "redirected",
                 "failed", "answered", "lost"},
            at: Servers, context: Contexts]

\* Type invariant.
TypeOK ==
    /\ ServerTypeOK
    /\ context \in [Servers -> [Contexts -> [request: Requests \cup {None},
                                             query: Requests \cup {None}, busy: BOOLEAN]]]
    /\ request \in [Requests -> Handler \cup {NewRequest}]
    /\ recorder \in [Requests ->
          [pc: {"none", "context", "client", "device", "parsed", "insert", "done"},
           alive: Requests \cup {None}, client: Requests \cup {None},
           device: Requests \cup {None}]]
    /\ log \in [Requests -> [client: Requests, device: Requests] \cup {None}]
    /\ gone \cup shared \subseteq Requests
    /\ \A s \in Servers : handling[s] =
          {d \in Requests : /\ request[d].at = s
                            /\ request[d].pc \notin {"new", "failed", "answered", "lost"}}

\* A row of the log names the client and the device that downloaded, also when
\* the context has served others before and serves others later, unless another
\* request got the context while the goroutine was still reading from it.
RowsNameTheDownloader ==
    \A d \in Requests \ shared :
        log[d] # None => log[d] = [client |-> d, device |-> d]

\* Every download that was answered by a server that is still there, and whose
\* goroutine has ended, is in the log.
EveryDownloadIsRecorded ==
    \A d \in Requests :
        (/\ request[d].pc = "answered" /\ recorder[d].pc = "done"
         /\ At(request[d].at, "serving"))
        => log[d] # None
=============================================================================
