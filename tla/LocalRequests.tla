---------------------------- MODULE LocalRequests ----------------------------
(***************************************************************************)
(* What one framed line becomes: the validation of the request              *)
(* (pb-host/admission/validation.rs), the handler of its method and its     *)
(* answer (local_api.rs).  A request is reduced to what these tell apart;   *)
(* the parts of the daemon behind a handler may give any of their results.  *)
(***************************************************************************)
EXTENDS Integers, Sequences

CONSTANTS MaxCompute   \* MAX_COMPUTE_INPUT_BYTES

RequestConstants == MaxCompute \in Nat \ {0}

VARIABLES req, ctx, ans

vars == <<req, ctx, ans>>

Control == {"auto_use.get", "auto_use.set"}
Pairing == {"pairing.begin", "pairing.confirm", "pairing.cancel"}
Imports == {"imports.get", "imports.cancel"}
\* methods whose owner is not there yet: a4_deferred_handler
Deferred == {"devices.list", "devices.get", "jobs.get", "diagnostics.redacted", "events.tail",
             "peer.unpair", "controller.acquire", "controller.release", "compute.cancel", "benchmark.run"}
Methods == Control \cup Pairing \cup Imports \cup Deferred \cup
           {"system.status", "compute.submit", "compute.submit_import", "imports.create"}

\* params: what the params object is, as far as a handler looks; "twice" has enabled
\* twice, which only the typed re-read of the control methods sees
Params == {"empty", "enabled", "fixture", "handle", "handle and op", "twice", "other"}

Requests ==
  {[shape |-> s, api |-> "none", id |-> FALSE, params |-> "none", method |-> "none", fds |-> 0] :
     s \in {"not text", "not json", "not object"}} \cup
  [shape : {"object"}, api : {"none", "other", "one"}, id : BOOLEAN, params : {"none"} \cup Params,
   method : {"none", "no text", "unknown"} \cup Methods, fds : 0..2]

Contexts == [auto : BOOLEAN, control : BOOLEAN, store : BOOLEAN]

\* The answer: the request's own id or null, a code, and what was called on the way; a
\* consume counts as called when it took the import.
Answer(id, code, calls) == [id |-> id, code |-> code, calls |-> calls]
NoAnswer == Answer("none", "none", <<>>)

BAD == "LOCAL_BAD_REQUEST"
UNSUPPORTED == "LOCAL_UNSUPPORTED_METHOD"

\* serde's ControlEnvelope: a member given twice, or one it does not know
Reread(r) == r.method \in Control => r.params \in {"empty", "enabled"}

OwnId(r) == IF r.id THEN "own" ELSE "null"

\* invalid_with_id: what was found of the id before the check that failed
FoundId(r) == OwnId(r)

\* validate_with_observer: the first check that fails
Validate(r) ==
  CASE r.shape # "object" -> Answer("null", BAD, <<>>)
    [] r.shape = "object" /\ r.api # "one" -> Answer(FoundId(r), BAD, <<>>)
    [] r.shape = "object" /\ r.api = "one" /\ (~r.id \/ r.params = "none" \/ r.method \in {"none", "no text"}) ->
         Answer(OwnId(r), BAD, <<>>)
    [] r.shape = "object" /\ r.api = "one" /\ r.id /\ r.params # "none" /\ r.method = "unknown" ->
         Answer("own", UNSUPPORTED, <<>>)
    [] r.shape = "object" /\ r.api = "one" /\ r.id /\ r.params # "none" /\ r.method \in Methods /\ ~Reread(r) ->
         Answer("own", BAD, <<>>)
    [] OTHER -> NoAnswer

Says(code, calls) == {Answer("own", code, calls)}
OneOf(codes, calls) == {Answer("own", code, calls) : code \in codes}

\* a parsed object has each member once
Collapsed(p) == IF p = "twice" THEN "enabled" ELSE p

AutoUseControl(r, x) ==
  IF Collapsed(r.params) # (IF r.method = "auto_use.set" THEN "enabled" ELSE "empty") THEN Says(BAD, <<>>)
  ELSE IF ~x.control THEN Says(UNSUPPORTED, <<>>)
  ELSE IF r.method = "auto_use.get" THEN Says("OK", <<"control.get">>)
  ELSE OneOf({"OK", "LOCAL_STATE_WRITE_FAILED"}, <<"control.set">>)

SystemStatus(r, x) == IF r.params # "empty" THEN Says(BAD, <<>>) ELSE Says("OK", <<"status">>)

ComputeSubmit(r, x) ==
  IF r.params # "fixture" THEN Says(BAD, <<>>)
  ELSE IF ~x.auto THEN Says(UNSUPPORTED, <<>>)
  ELSE Says("OK", <<"execute">>)

Rejected == Says("IMPORT_INPUT_REJECTED", <<"status">>)

Looks(bytes) == bytes # 0 /\ bytes <= MaxCompute

\* compute_submit_import: a look at the import, then it is taken, then executed; what it
\* holds may have changed hands in between
AfterConsume(n) ==
  \* n bytes were announced; as many must come with the descriptor, and the reader must give them
  OneOf({"OK", "IMPORT_UNAVAILABLE"}, <<"status", "consume", "execute">>) \cup
  Says("IMPORT_UNAVAILABLE", <<"status", "consume">>)

SubmitImport(r, x) ==
  IF r.params # "handle and op" THEN Says(BAD, <<>>)
  ELSE IF ~x.auto THEN Says(UNSUPPORTED, <<>>)
  ELSE IF ~x.store THEN Says("IMPORT_UNAVAILABLE", <<>>)
  ELSE OneOf({"IMPORT_NOT_READY", "IMPORT_NOT_FOUND", "IMPORT_UNAVAILABLE"}, <<"status">>)
       \cup UNION {IF Looks(n)
                   THEN AfterConsume(n) \cup
                        OneOf({"IMPORT_NOT_FOUND", "IMPORT_NOT_READY", "IMPORT_UNAVAILABLE"}, <<"status">>)
                   ELSE Rejected : n \in 0..(MaxCompute + 1)}

\* import_error_response
ImportErrors == {"IMPORT_SOURCE_REJECTED", "IMPORT_LIMIT_REACHED", "IMPORT_RECEIVING_TIMEOUT",
                 "IMPORT_NOT_FOUND", "IMPORT_CLEANUP_UNCONFIRMED", "IMPORT_UNAVAILABLE"}

OneDescriptor(r) == r.fds = 1

ImportsCreate(r, x) ==
  IF r.params # "empty" \/ ~OneDescriptor(r) THEN Says(BAD, <<>>)
  ELSE IF ~x.store THEN Says("IMPORT_UNAVAILABLE", <<>>)
  ELSE OneOf({"OK"} \cup ImportErrors, <<"start">>)

ImportsAsk(r, x) ==
  IF r.params # "handle" THEN Says(BAD, <<>>)
  ELSE IF ~x.store THEN Says("IMPORT_UNAVAILABLE", <<>>)
  ELSE OneOf({"OK"} \cup ImportErrors, <<IF r.method = "imports.get" THEN "status" ELSE "cancel">>)

\* pairing_begin, pairing_action: the runtime's reason code is passed on
PairingAsk(r, x) ==
  IF r.params # "empty" THEN Says(BAD, <<>>)
  ELSE OneOf({"OK", "PAIRING_NOT_COMMITTED", "reason"}, <<r.method>>)

Dispatch(r, x) ==
  CASE r.method = "system.status" -> SystemStatus(r, x)
    [] r.method \in Control -> AutoUseControl(r, x)
    [] r.method \in Deferred -> Says(UNSUPPORTED, <<>>)
    [] r.method = "compute.submit" -> ComputeSubmit(r, x)
    [] r.method = "compute.submit_import" -> SubmitImport(r, x)
    [] r.method \in Pairing -> PairingAsk(r, x)
    [] r.method = "imports.create" -> ImportsCreate(r, x)
    [] r.method \in Imports -> ImportsAsk(r, x)

\* descriptors may come with imports.create only
Descriptors(r) == r.method = "imports.create" \/ r.fds = 0

\* the body of the serving loop
Answers(r, x) ==
  IF Validate(r) # NoAnswer THEN {Validate(r)}
  ELSE IF Descriptors(r) THEN Dispatch(r, x)
  ELSE Says(BAD, <<>>)

Init ==
  /\ req \in Requests
  /\ ctx \in Contexts
  /\ ans = NoAnswer

Reply == ans = NoAnswer /\ ans' \in Answers(req, ctx) /\ UNCHANGED <<req, ctx>>

Next == Reply

Spec == Init /\ [][Next]_vars
-----------------------------------------------------------------------------
\* The interface as its methods are documented in the code: what each takes.
Schema ==
  [m \in Methods |->
     CASE m \in Deferred -> Params
       [] m \in Pairing \cup {"system.status", "auto_use.get", "imports.create"} -> {"empty"}
       [] m = "auto_use.set" -> {"enabled"}
       [] m = "compute.submit" -> {"fixture"}
       [] m = "compute.submit_import" -> {"handle and op"}
       [] m \in Imports -> {"handle"}]

Envelope(r) ==
  r.shape = "object" /\ r.api = "one" /\ r.id /\ r.params # "none" /\ r.method \in Methods \cup {"unknown"}

Fits(r) == r.params \in Schema[r.method] /\ r.fds = (IF r.method = "imports.create" THEN 1 ELSE 0)

\* LOCAL_BAD_REQUEST is the answer exactly when the envelope is incomplete or the
\* parameters or descriptors are not those of the method, whichever of the checks of
\* validation.rs and local_api.rs finds it.
BadExactly ==
  ans # NoAnswer =>
    (ans.code = BAD <=> ~(Envelope(req) /\ (req.method = "unknown" \/ Fits(req))))

Changing == {"control.set", "execute", "consume", "start", "cancel"} \cup Pairing

\* A request that is refused as bad, unsupported, not ready, not found or too large for
\* a computation has changed nothing behind the interface.
RefusedUntouched ==
  (ans.code \in {BAD, UNSUPPORTED, "IMPORT_NOT_READY", "IMPORT_INPUT_REJECTED"}
    \/ (ans.code = "IMPORT_NOT_FOUND" /\ req.method = "compute.submit_import"))
  => \A i \in 1..Len(ans.calls) : ans.calls[i] \notin Changing

\* An answer names its request whenever the request is an object that has an id, also
\* when a check before or after that of the id is the one that fails.
AnswersItsOwn == ans # NoAnswer => ans.id = (IF req.shape = "object" /\ req.id THEN "own" ELSE "null")
=============================================================================
