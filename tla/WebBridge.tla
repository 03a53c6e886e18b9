------------------------------ MODULE WebBridge ------------------------------
(***************************************************************************)
(* The local web bridge (pb-web-bridge): a bounded number of handlers, one  *)
(* lane for computations and one for control, neither of which anybody      *)
(* waits for, and behind them the clients of the local interface (pb-cli):  *)
(* a computation on a private import, and the change of the auto-use        *)
(* preference.  Each call has a connection of its own, deadlines, and       *)
(* requests that are never sent again.  The daemon is what its interface    *)
(* promises, one request after the other on each connection; it may die,    *)
(* and answer what a client does not understand.                            *)
(***************************************************************************)
EXTENDS Integers, FiniteSets

CONSTANTS
  Calls,      \* calls, each on a connection of its own
  MaxFaults   \* bound on deaths of the daemon and answers not understood

VARIABLES
  cl,      \* [kind, stage, late, result] of each call
  wire,    \* [open, to, from]: its connection, the request and the answer in it
  dm,      \* the daemon's side: the import, what it is busy with, and how often the call took effect
  daemon   \* [up, faults]

clientVars == <<cl, wire, dm, daemon>>

NoCall == [kind |-> "none", stage |-> "idle", late |-> FALSE, result |-> "none"]
NoWire == [open |-> FALSE, to |-> "none", from |-> "none"]
NoImport == [import |-> "none", busy |-> FALSE, runs |-> 0]

InitClients ==
  /\ cl = [c \in Calls |-> NoCall]
  /\ wire = [c \in Calls |-> NoWire]
  /\ dm = [c \in Calls |-> NoImport]
  /\ daemon = [up |-> TRUE, faults |-> 0]

Fault == daemon.faults < MaxFaults

\* a call that is on its way
Waits(c) == cl[c].stage \in {"create", "get", "submit", "set"}

\* returns, which closes the connection
Ends(c, result) ==
  /\ cl' = [cl EXCEPT ![c].stage = "done", ![c].result = result, ![c].late = FALSE]
  /\ wire' = [wire EXCEPT ![c].open = FALSE, ![c].from = "none"]

Sends(c, stage) ==
  /\ cl' = [cl EXCEPT ![c].stage = stage]
  /\ wire' = [wire EXCEPT ![c] = [open |-> TRUE, to |-> stage, from |-> "none"]]

\* compute_blake3_import, auto_use_set: the connection, and the first request on it
Begin(c, kind) ==
  /\ cl[c].stage = "idle"
  /\ IF daemon.up
     THEN LET first == IF kind = "import" THEN "create" ELSE "set"
          IN  /\ cl' = [cl EXCEPT ![c] = [NoCall EXCEPT !.kind = kind, !.stage = first]]
              /\ wire' = [wire EXCEPT ![c] = [open |-> TRUE, to |-> first, from |-> "none"]]
     ELSE /\ cl' = [cl EXCEPT ![c] = [NoCall EXCEPT !.kind = kind, !.stage = "done", !.result = "Unavailable"]]
          /\ UNCHANGED wire
  /\ UNCHANGED <<dm, daemon>>

\* the deadline of the stage passes
DeadlinePasses(c) ==
  /\ (Waits(c) \/ cl[c].stage = "poll") /\ ~cl[c].late
  /\ cl' = [cl EXCEPT ![c].late = TRUE]
  /\ UNCHANGED <<wire, dm, daemon>>

\* what a call returns when its answer does not come, or not in time, or says nothing
Lost(c, error) ==
  CASE cl[c].stage \in {"submit", "set"} -> "OutcomeUnknown"
    [] cl[c].stage = "get"    -> IF cl[c].late THEN "ImportTimedOut" ELSE error
    [] cl[c].stage = "create" -> error

TimesOut(c) ==
  /\ Waits(c) /\ cl[c].late
  /\ Ends(c, Lost(c, "IoFailed"))
  /\ UNCHANGED <<dm, daemon>>

\* the daemon's end of the connection is gone
Breaks(c) ==
  /\ Waits(c) /\ ~wire[c].open /\ wire[c].from = "none"
  /\ Ends(c, Lost(c, "MalformedResponse"))
  /\ UNCHANGED <<dm, daemon>>

\* the loop that asks until the import is ready
Poll(c) ==
  /\ cl[c].stage = "poll"
  /\ IF cl[c].late THEN Ends(c, "ImportTimedOut")
     ELSE IF wire[c].open THEN Sends(c, "get") ELSE Ends(c, "IoFailed")
  /\ UNCHANGED <<dm, daemon>>

\* an answer that does not validate
NotUnderstood(c) == IF cl[c].stage = "set" THEN "InvalidResponse" ELSE Lost(c, "MalformedResponse")

\* a preference that is not SAVED as asked is not a success
WriteFailure == "WriteFailed"

\* what an error tells the caller, by its code
Refusals(c) ==
  CASE cl[c].stage = "set"                  -> {"Unavailable", "BadRequest", "InvalidResponse"}
    [] cl[c].stage = "submit"               -> {"Remote", "OutcomeUnknown"}
    [] cl[c].stage = "get"                  -> IF cl[c].late THEN {"ImportTimedOut"} ELSE {"Remote", "MalformedResponse"}
    [] cl[c].stage = "create"               -> {"Remote", "MalformedResponse"}

\* request: the answer to create or get
Hears(c) ==
  LET a == wire[c].from
  IN  /\ cl[c].stage \in {"create", "get"} /\ a # "none"
      /\ \/ a = "garbled" /\ Ends(c, NotUnderstood(c))
         \/ a = "error" /\ \E e \in Refusals(c) : Ends(c, e)
         \/ a = "receiving" /\ cl' = [cl EXCEPT ![c].stage = "poll"] /\ wire' = [wire EXCEPT ![c].from = "none"]
         \/ /\ a = "ready"                             \* a deadline of its own for the last request
            /\ cl' = [cl EXCEPT ![c].stage = "submit", ![c].late = FALSE]
            /\ wire' = [wire EXCEPT ![c].to = IF wire[c].open THEN "submit" ELSE "none", ![c].from = "none"]
         \/ a \in {"empty", "over"} /\ Ends(c, "ImportNotReady")
      /\ UNCHANGED <<dm, daemon>>

\* the terminal answer
HearsResult(c) ==
  LET a == wire[c].from
  IN  /\ cl[c].stage = "submit" /\ a # "none"
      /\ \/ a = "garbled" /\ Ends(c, NotUnderstood(c))
         \/ a = "error" /\ \E e \in Refusals(c) : Ends(c, e)
         \/ a = "ok" /\ Ends(c, "OK")
      /\ UNCHANGED <<dm, daemon>>

\* exchange: an answer that was read too late does not count
HearsView(c) ==
  LET a == wire[c].from
  IN  /\ cl[c].stage = "set" /\ a # "none" /\ ~cl[c].late
      /\ \/ a = "garbled" /\ Ends(c, NotUnderstood(c))
         \/ a = "error" /\ \E e \in Refusals(c) : Ends(c, e)
         \/ a = "write failed" /\ Ends(c, WriteFailure)
         \/ a = "ok" /\ Ends(c, "OK")
      /\ UNCHANGED <<dm, daemon>>

-----------------------------------------------------------------------------
(* The daemon, as a call of the bridge meets it (local_api.rs,              *)
(* import_store.rs): any request but a get may be answered with an error.    *)

Answers(c, a) == wire' = [wire EXCEPT ![c].to = "none", ![c].from = IF wire[c].open THEN a ELSE "none"]

Handles(c) ==
  LET r == wire[c].to
      i == dm[c].import
  IN  /\ daemon.up /\ r # "none" /\ ~dm[c].busy
      /\ \/ Answers(c, "error") /\ r # "get" /\ UNCHANGED dm
         \/ r = "create" /\ Answers(c, "receiving") /\ dm' = [dm EXCEPT ![c].import = "receiving"]
         \/ /\ r = "get" /\ UNCHANGED dm
            /\ Answers(c, CASE i = "receiving" -> "receiving" [] i = "ready" -> "ready"
                            [] i = "empty" -> "empty" [] i \in {"none", "gone", "consumed"} -> "over")
         \/ /\ r = "submit" /\ i = "ready"
            /\ dm' = [dm EXCEPT ![c].import = "consumed", ![c].busy = TRUE]
            /\ wire' = [wire EXCEPT ![c].to = "none"]
         \/ r = "set" /\ Answers(c, "ok") /\ dm' = [dm EXCEPT ![c].runs = @ + 1]
         \/ /\ r = "set" /\ Answers(c, "write failed")    \* OFF is applied even so
            /\ \E n \in {0, 1} : dm' = [dm EXCEPT ![c].runs = @ + n]
      /\ UNCHANGED <<cl, daemon>>

\* the execution of a consumed import ends, with its result or unread
Executed(c) ==
  /\ daemon.up /\ dm[c].busy
  /\ \/ Answers(c, "ok") /\ dm' = [dm EXCEPT ![c].busy = FALSE, ![c].runs = @ + 1]
     \/ Answers(c, "error") /\ dm' = [dm EXCEPT ![c].busy = FALSE]
  /\ UNCHANGED <<cl, daemon>>

\* the copy ends, an import that is ready runs out
Copied(c) ==
  /\ daemon.up /\ dm[c].import = "receiving"
  /\ \E i \in {"ready", "empty", "gone"} : dm' = [dm EXCEPT ![c].import = i]
  /\ UNCHANGED <<cl, wire, daemon>>

RunsOut(c) ==
  /\ daemon.up /\ dm[c].import \in {"ready", "empty"}
  /\ dm' = [dm EXCEPT ![c].import = "gone"]
  /\ UNCHANGED <<cl, wire, daemon>>

\* the connection of a call that has returned: what it left is cancelled
Disconnected(c) ==
  /\ daemon.up /\ ~wire[c].open /\ wire[c].to = "none" /\ ~dm[c].busy
  /\ dm[c].import \in {"receiving", "ready", "empty"}
  /\ dm' = [dm EXCEPT ![c].import = "gone"]
  /\ UNCHANGED <<cl, wire, daemon>>

Dies ==
  /\ daemon.up /\ Fault
  /\ daemon' = [up |-> FALSE, faults |-> daemon.faults + 1]
  /\ wire' = [c \in Calls |-> [wire[c] EXCEPT !.open = FALSE, !.to = "none"]]
  /\ dm' = [c \in Calls |-> [dm[c] EXCEPT !.busy = FALSE, !.import = IF @ = "none" THEN @ ELSE "gone"]]
  /\ UNCHANGED cl

Garbles(c) ==
  /\ Fault /\ wire[c].from \notin {"none", "garbled"}
  /\ wire' = [wire EXCEPT ![c].from = "garbled"]
  /\ daemon' = [daemon EXCEPT !.faults = @ + 1]
  /\ UNCHANGED <<cl, dm>>

\* what goes on by itself, and what may happen
ClientSteps(c) == DeadlinePasses(c) \/ TimesOut(c) \/ Breaks(c) \/ Poll(c) \/ Hears(c) \/ HearsResult(c) \/ HearsView(c)
DaemonSteps(c) == Handles(c) \/ Executed(c) \/ Copied(c) \/ Disconnected(c)

NextClients ==
  \/ \E c \in Calls : ClientSteps(c) \/ DaemonSteps(c) \/ RunsOut(c) \/ Garbles(c)
  \/ Dies

-----------------------------------------------------------------------------
(* The bridge. *)

CONSTANTS
  Kinds,        \* the requests that come
  MaxHandlers   \* 4

BridgeConstants == MaxHandlers \in Nat \ {0} /\ Kinds \subseteq {"file", "set", "get", "fixture", "snapshot", "asset"}

VARIABLES
  h,         \* [kind, stage, answer, number] of each connection; the number of its execution
  handlers,  \* Lanes.handlers
  done,      \* how many executions of the fixture have ended
  last       \* last_execution, as the number of the execution it shows

vars == <<cl, wire, dm, daemon, h, handlers, done, last>>
bridgeVars == <<h, handlers, done, last>>

Init ==
  /\ InitClients
  /\ h = [c \in Calls |-> [kind |-> "none", stage |-> "idle", answer |-> "none", number |-> 0]]
  /\ handlers = 0 /\ done = 0 /\ last = 0

LaneOf(kind) == IF kind \in {"file", "fixture"} THEN "compute" ELSE "control"

\* the permit is dropped when the handler of the request returns, before the answer is written
InLane(c) == h[c].stage \in {"upload", "finish", "native", "record"}

Free(c) == \A d \in Calls \ {c} : ~(InLane(d) /\ LaneOf(h[d].kind) = LaneOf(h[c].kind))

Live(c) == h[c].stage \in {"head", "dispatch", "lane", "upload", "finish", "native", "record", "reply"}

Replies(c, answer) == h' = [h EXCEPT ![c].stage = "reply", ![c].answer = answer]

\* the accept loop: a permit, or BUSY at once
Accept(c, kind) ==
  /\ h[c].stage = "idle"
  /\ IF handlers < MaxHandlers
     THEN h' = [h EXCEPT ![c].kind = kind, ![c].stage = "head"] /\ handlers' = handlers + 1
     ELSE h' = [h EXCEPT ![c].kind = kind, ![c].stage = "closed", ![c].answer = "BUSY"] /\ UNCHANGED handlers
  /\ UNCHANGED <<clientVars, done, last>>

\* the closure that could not be spawned drops its permit
AfterSpawn(n) == n

SpawnFails(c, kind) ==
  /\ h[c].stage = "idle" /\ handlers < MaxHandlers
  /\ h' = [h EXCEPT ![c].kind = kind, ![c].stage = "closed"]
  /\ handlers' = AfterSpawn(handlers)
  /\ UNCHANGED <<clientVars, done, last>>

\* handle_connection cannot set its timeouts
SetupFails(c) ==
  /\ h[c].stage = "head"
  /\ h' = [h EXCEPT ![c].stage = "closed"]
  /\ handlers' = handlers - 1
  /\ UNCHANGED <<clientVars, done, last>>

\* (the 4xx answers before a lane is asked for are one: INVALID_REQUEST)
\* read_head and, but for a file, read_small_body: read, or refused, or too late
ReadHead(c) ==
  /\ h[c].stage = "head"
  /\ \/ h' = [h EXCEPT ![c].stage = "dispatch"]
     \/ Replies(c, "INVALID_REQUEST")
  /\ UNCHANGED <<clientVars, handlers, done, last>>

\* handle, and the checks of file_request
Dispatch(c) ==
  /\ h[c].stage = "dispatch"
  /\ \/ Replies(c, "INVALID_REQUEST")
     \/ h[c].kind # "asset" /\ h' = [h EXCEPT ![c].stage = "lane"]
  /\ UNCHANGED <<clientVars, handlers, done, last>>

\* no lane for a file of the page
StaticAsset(c) ==
  /\ h[c].stage = "dispatch" /\ h[c].kind = "asset"
  /\ \E answer \in {"OK", "NOT_FOUND"} : Replies(c, answer)
  /\ UNCHANGED <<clientVars, handlers, done, last>>

\* try_lock; a preference is sent, a snapshot and the fixture are asked for
TakeLane(c) ==
  /\ h[c].stage = "lane"
  /\ IF ~Free(c) THEN Replies(c, "BUSY") /\ UNCHANGED clientVars
     ELSE /\ h' = [h EXCEPT ![c].stage = IF h[c].kind = "file" THEN "upload" ELSE "native"]
          /\ IF h[c].kind = "set" THEN Begin(c, "set") ELSE UNCHANGED clientVars
  /\ UNCHANGED <<handlers, done, last>>

\* receive: the body into a sealed file within the deadline
Upload(c) ==
  /\ h[c].stage = "upload"
  /\ \/ h' = [h EXCEPT ![c].stage = "finish"]
     \/ \E answer \in {"UPLOAD_TIMEOUT", "BAD_REQUEST", "INPUT_STORAGE_UNAVAILABLE"} : Replies(c, answer)
  /\ UNCHANGED <<clientVars, handlers, done, last>>

\* finish: still in time, still connected, and nothing after the body; then the call
Finish(c) ==
  /\ h[c].stage = "finish"
  /\ \/ h' = [h EXCEPT ![c].stage = "native"] /\ Begin(c, "import")
     \/ \E answer \in {"UPLOAD_TIMEOUT", "BAD_REQUEST"} : Replies(c, answer) /\ UNCHANGED clientVars
  /\ UNCHANGED <<handlers, done, last>>

\* (mutant) whatever is not a timeout is a failure
NativeError_Failed(r) == IF r = "ImportTimedOut" THEN "IMPORT_TIMEOUT" ELSE "NATIVE_REQUEST_FAILED"

\* native_error
NativeError(r) ==
  CASE r = "ImportTimedOut" -> "IMPORT_TIMEOUT"
    [] r = "OutcomeUnknown" -> "OUTCOME_UNKNOWN"
    [] r \notin {"ImportTimedOut", "OutcomeUnknown"} -> "NATIVE_REQUEST_FAILED"

\* the errors of a preference
PreferenceError(r) ==
  CASE r = "Unavailable" -> "CONTROL_UNAVAILABLE"
    [] r = "InvalidResponse" -> "INVALID_NATIVE_RESPONSE"
    [] r = "OutcomeUnknown" -> "OUTCOME_UNKNOWN"
    [] r = "WriteFailed" -> "STATE_WRITE_FAILED"
    [] r = "BadRequest" -> "BAD_REQUEST"

CallReturns(c) ==
  /\ h[c].stage = "native" /\ h[c].kind \in {"file", "set"} /\ cl[c].stage = "done"
  /\ \/ cl[c].result = "OK" /\ Replies(c, "OK")
     \/ cl[c].result = "OK" /\ h[c].kind = "file" /\ Replies(c, "OUTCOME_UNKNOWN")   \* not as many bytes
     \/ cl[c].result # "OK" /\ h[c].kind = "file" /\ Replies(c, NativeError(cl[c].result))
     \/ cl[c].result # "OK" /\ h[c].kind = "set" /\ Replies(c, PreferenceError(cl[c].result))
  /\ UNCHANGED <<clientVars, handlers, done, last>>

\* status and the preference as it is: nothing is changed by asking
Asked(c) ==
  /\ h[c].stage = "native"
  /\ \/ h[c].kind = "snapshot" /\ \E answer \in {"OK", "LOCAL_RUNTIME_UNAVAILABLE"} : Replies(c, answer)
     \/ h[c].kind = "get" /\ \E answer \in {"OK", "CONTROL_UNAVAILABLE", "CONTROL_TIMEOUT"} : Replies(c, answer)
  /\ UNCHANGED <<clientVars, handlers, done, last>>

\* compute: the fixture is executed, and what was executed is kept for the snapshots
FixtureReturns(c) ==
  /\ h[c].stage = "native" /\ h[c].kind = "fixture"
  /\ \/ done' = done + 1 /\ h' = [h EXCEPT ![c].stage = "record", ![c].number = done + 1]
     \/ Replies(c, "LOCAL_RUNTIME_UNAVAILABLE") /\ UNCHANGED done
  /\ UNCHANGED <<clientVars, handlers, last>>

Record(c) ==
  /\ h[c].stage = "record"
  /\ last' = h[c].number
  /\ Replies(c, "OK")
  /\ UNCHANGED <<clientVars, handlers, done>>

\* write_response, whether it arrives or not, and the end of the handler
WriteReply(c) ==
  /\ h[c].stage = "reply"
  /\ h' = [h EXCEPT ![c].stage = "closed"]
  /\ handlers' = handlers - 1
  /\ UNCHANGED <<clientVars, done, last>>

HandlerSteps(c) ==
  \/ ReadHead(c) \/ Dispatch(c) \/ StaticAsset(c) \/ TakeLane(c) \/ Upload(c) \/ Finish(c) \/ CallReturns(c)
  \/ Asked(c) \/ FixtureReturns(c) \/ Record(c) \/ WriteReply(c)

Next ==
  \/ \E c \in Calls : HandlerSteps(c) \/ SetupFails(c) \/ \E kind \in Kinds : Accept(c, kind) \/ SpawnFails(c, kind)
  \/ NextClients /\ UNCHANGED bridgeVars

Spec == Init /\ [][Next]_vars

\* a handler and a client go on by themselves, and so does the clock: every read, write and
\* wait has a deadline
BridgeFair ==
  \A c \in Calls : /\ WF_vars(HandlerSteps(c))
                   /\ WF_vars(DeadlinePasses(c) /\ UNCHANGED bridgeVars)
                   /\ WF_vars(ClientSteps(c) /\ UNCHANGED bridgeVars)

-----------------------------------------------------------------------------
\* The number of handlers is exactly that of the connections being served, and bounded:
\* refused connections, failed spawns and every way out give their slot back.
HandlersExact == handlers = Cardinality({c \in Calls : Live(c)}) /\ handlers <= MaxHandlers

Control == {"set", "get", "snapshot"}

\* A request that is answered OK was carried out exactly once, on every path through
\* browser, bridge, client and daemon.
OkMeansOnce == \A c \in Calls : h[c].answer = "OK" /\ h[c].kind \in {"file", "set"} => dm[c].runs = 1

Unsettled == {"OUTCOME_UNKNOWN", "INVALID_NATIVE_RESPONSE", "STATE_WRITE_FAILED"}

\* A request that is answered with a failure other than the three that leave it
\* open (native_error, preference) was not carried out, and will not be.
KnownMeansNot ==
  \A c \in Calls :
    h[c].answer \notin Unsettled \cup {"none", "OK"} /\ h[c].kind \in {"file", "set"}
      => dm[c].runs = 0 /\ ~dm[c].busy /\ wire[c].to \notin {"submit", "set"}

\* No request is carried out twice, whatever is lost.
NeverTwice == \A c \in Calls : dm[c].runs <= 1

\* What the snapshots show is the latest execution of the fixture, once its handler has returned.
LastIsLatest == (\A c \in Calls : h[c].stage # "record") => last = done

\* Every connection that was accepted is closed again, whatever the daemon does.
EveryConnectionCloses == \A c \in Calls : h[c].stage = "head" ~> h[c].stage = "closed"

=============================================================================
