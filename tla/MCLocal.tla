------------------------------- MODULE MCLocal -------------------------------
(***************************************************************************)
(* The host's own machine and the phone's service, side by side: the store *)
(* of imports, the start of the daemon, the framing and the handling of     *)
(* local requests, the web bridge, the service on the phone, and discovery. *)
(* In a behaviour one of them moves, the others have no state.              *)
(***************************************************************************)
EXTENDS Integers, Sequences, FiniteSets, TLC

CONSTANTS x1, x2, x3, s1, s2     \* interchangeable: connections, processes, services; threads

VARIABLES
  part,                                                                     \* the part that moves
  live, file, tombs, worker, client, told, handed, late, kept, failed,      \* ImportStore
  name, d, made, deaths, foreign, wrong, lost,                              \* HostStartup
  c, slots, faults,                                                         \* LocalFraming
  req, ctx, ans,                                                            \* LocalRequests
  cl, wire, dm, daemon, h, handlers, done, last,                            \* WebBridge
  svc, slot, native, tr, acc, str, stop, conn, objects, trouble,            \* PhoneService
  net, signals, backend, known, age, order, cache, next, pause, attempt,    \* Discovery
  seen, full, hint, waits, changes, failures

Two == {x1, x2}
MCSymmetry == Permutations(Two)

Imports == INSTANCE ImportStore WITH
  Conns <- Two, Handles <- {1, 2}, Sizes <- {2}, PerConn <- 2, PerUid <- 2, ReceivingPerConn <- 1,
  ReceivingPerUid <- 2, MaxObject <- 2, MaxBytes <- 3, MaxTombs <- 1, MaxFaults <- 0, faults <- failed

\* sources that are empty or too long, a fault, and more imports than a connection may have
Limits == INSTANCE ImportStore WITH
  Conns <- {x1}, Handles <- {1, 2}, Sizes <- {0, 2, 3}, PerConn <- 1, PerUid <- 1, ReceivingPerConn <- 1,
  ReceivingPerUid <- 1, MaxObject <- 2, MaxBytes <- 3, MaxTombs <- 1, MaxFaults <- 1, faults <- failed

\* starts one after another, and starts that run into each other
Startup == INSTANCE HostStartup WITH
  Daemons <- Two, Inodes <- {1, 2, 3}, MaxObjects <- 4, MaxDeaths <- 2, MaxForeign <- 1, MaxFaults <- 1,
  Overlap <- FALSE, faults <- wrong
Racing == INSTANCE HostStartup WITH
  Daemons <- Two, Inodes <- {1, 2, 3}, MaxObjects <- 3, MaxDeaths <- 1, MaxForeign <- 1, MaxFaults <- 0,
  Overlap <- TRUE, faults <- wrong

\* one client that waits for its answers, one that does not, and two over one slot
Framing == INSTANCE LocalFraming WITH
  Conns <- {1}, MaxClients <- 1, MaxLine <- 2, Chunk <- 2, Lengths <- {0, 2, 3}, FdCounts <- {0, 1, 3},
  MaxRequests <- 3, OutCap <- 1, Pipelined <- FALSE, MaxFaults <- 0
Ahead == INSTANCE LocalFraming WITH
  Conns <- {1}, MaxClients <- 1, MaxLine <- 2, Chunk <- 3, Lengths <- {2, 3}, FdCounts <- {0, 2},
  MaxRequests <- 3, OutCap <- 1, Pipelined <- TRUE, MaxFaults <- 0
Slots == INSTANCE LocalFraming WITH
  Conns <- {1, 2}, MaxClients <- 1, MaxLine <- 1, Chunk <- 2, Lengths <- {0}, FdCounts <- {0},
  MaxRequests <- 1, OutCap <- 1, Pipelined <- FALSE, MaxFaults <- 1

Request == INSTANCE LocalRequests WITH MaxCompute <- 2

\* two calls of every kind with a fault, and three that compete for the lanes
Bridge == INSTANCE WebBridge WITH
  Calls <- Two, Kinds <- {"file", "set", "get", "fixture", "snapshot", "asset"}, MaxHandlers <- 2, MaxFaults <- 1
Lanes == INSTANCE WebBridge WITH
  Calls <- {x1, x2, x3}, Kinds <- {"set", "fixture"}, MaxHandlers <- 2, MaxFaults <- 0

Phone == INSTANCE PhoneService WITH
  Conns <- Two, Streams <- {s1, s2}, MaxObjects <- 2, MaxServices <- 2, MaxLate <- 0, MaxKills <- 0,
  Debuggable <- FALSE, worker <- slot, made <- objects, faults <- trouble
\* ... and with a stop that runs into its deadline
Late == INSTANCE PhoneService WITH
  Conns <- {x1}, Streams <- {s1}, MaxObjects <- 2, MaxServices <- 2, MaxLate <- 1, MaxKills <- 0,
  Debuggable <- FALSE, worker <- slot, made <- objects, faults <- trouble

\* two services that move, and two over a table for one
Found == INSTANCE Discovery WITH
  Services <- Two, Keys <- Two, Endpoints <- {1, 2}, MaxTracked <- 2, MaxChanges <- 1, MaxFailures <- 1,
  wire <- signals, handed <- hint
Full == INSTANCE Discovery WITH
  Services <- Two, Keys <- Two, Endpoints <- {1}, MaxTracked <- 1, MaxChanges <- 2, MaxFailures <- 1,
  wire <- signals, handed <- hint

ASSUME Imports!ImportConstants /\ Limits!ImportConstants
ASSUME Startup!StartupConstants /\ Racing!StartupConstants
ASSUME Framing!FramingConstants /\ Ahead!FramingConstants /\ Slots!FramingConstants
ASSUME Request!RequestConstants
ASSUME Bridge!BridgeConstants /\ Lanes!BridgeConstants
ASSUME Phone!PhoneConstants
ASSUME Found!DiscoveryConstants /\ Full!DiscoveryConstants

-----------------------------------------------------------------------------
importVars == <<live, file, tombs, worker, client, told, handed, late, kept, failed>>
startVars == <<name, d, made, deaths, foreign, wrong, lost>>
frameVars == <<c, slots, faults>>
requestVars == <<req, ctx, ans>>
bridgeVars == <<cl, wire, dm, daemon, h, handlers, done, last>>
phoneVars == <<svc, slot, native, tr, acc, str, stop, conn, objects, trouble>>
findVars == <<net, signals, backend, known, age, order, cache, next, pause, attempt, seen, full, hint,
              waits, changes, failures>>
mcVars == <<part, importVars, startVars, frameVars, requestVars, bridgeVars, phoneVars, findVars>>

MCInit ==
  /\ part \in {"imports", "limits", "startup", "overlap", "framing", "pipelined", "slots", "request", "bridge", "lanes", "phone", "late", "found", "full"}
  /\ CASE part = "imports" -> Imports!Init
       [] part = "limits" -> Limits!Init
       [] OTHER -> /\ live = 0 /\ file = 0 /\ tombs = 0 /\ worker = 0 /\ client = 0 /\ told = 0
                   /\ handed = 0 /\ late = 0 /\ kept = 0 /\ failed = 0
  /\ CASE part = "startup" -> Startup!Init
       [] part = "overlap" -> Racing!Init
       [] OTHER -> name = 0 /\ d = 0 /\ made = 0 /\ deaths = 0 /\ foreign = 0 /\ wrong = 0 /\ lost = 0
  /\ CASE part = "framing" -> Framing!Init
       [] part = "pipelined" -> Ahead!Init
       [] part = "slots" -> Slots!Init
       [] OTHER -> c = 0 /\ slots = 0 /\ faults = 0
  /\ CASE part = "request" -> Request!Init [] OTHER -> req = 0 /\ ctx = 0 /\ ans = 0
  /\ CASE part = "bridge" -> Bridge!Init
       [] part = "lanes" -> Lanes!Init
       [] OTHER -> /\ cl = 0 /\ wire = 0 /\ dm = 0 /\ daemon = 0
                   /\ h = 0 /\ handlers = 0 /\ done = 0 /\ last = 0
  /\ CASE part = "phone" -> Phone!Init
       [] part = "late" -> Late!Init
       [] OTHER -> /\ svc = 0 /\ slot = 0 /\ native = 0 /\ tr = 0 /\ acc = 0 /\ str = 0
                   /\ stop = 0 /\ conn = 0 /\ objects = 0 /\ trouble = 0
  /\ CASE part = "found" -> Found!Init
       [] part = "full" -> Full!Init
       [] OTHER -> /\ net = 0 /\ signals = 0 /\ backend = 0 /\ known = 0 /\ age = 0 /\ order = 0
                   /\ cache = 0 /\ next = 0 /\ pause = 0 /\ attempt = 0 /\ seen = 0 /\ full = 0
                   /\ hint = 0 /\ waits = 0 /\ changes = 0 /\ failures = 0

MCNext ==
  /\ UNCHANGED part
  /\ \/ /\ \/ part = "imports" /\ Imports!Next
           \/ part = "limits" /\ Limits!Next
        /\ UNCHANGED <<startVars, frameVars, requestVars, bridgeVars, phoneVars, findVars>>
     \/ /\ \/ part = "startup" /\ Startup!Next
           \/ part = "overlap" /\ Racing!Next
        /\ UNCHANGED <<importVars, frameVars, requestVars, bridgeVars, phoneVars, findVars>>
     \/ /\ \/ part = "framing" /\ Framing!Next
           \/ part = "pipelined" /\ Ahead!Next
           \/ part = "slots" /\ Slots!Next
        /\ UNCHANGED <<importVars, startVars, requestVars, bridgeVars, phoneVars, findVars>>
     \/ /\ part = "request" /\ Request!Next
        /\ UNCHANGED <<importVars, startVars, frameVars, bridgeVars, phoneVars, findVars>>
     \/ /\ \/ part = "bridge" /\ Bridge!Next
           \/ part = "lanes" /\ Lanes!Next
        /\ UNCHANGED <<importVars, startVars, frameVars, requestVars, phoneVars, findVars>>
     \/ /\ \/ part = "phone" /\ Phone!Next
           \/ part = "late" /\ Late!Next
        /\ UNCHANGED <<importVars, startVars, frameVars, requestVars, bridgeVars, findVars>>
     \/ /\ \/ part = "found" /\ Found!Next
           \/ part = "full" /\ Full!Next
        /\ UNCHANGED <<importVars, startVars, frameVars, requestVars, bridgeVars, phoneVars>>

MCSpec == MCInit /\ [][MCNext]_mcVars

-----------------------------------------------------------------------------
(* Properties. *)

\* Every private file is counted against its connection and its user until it is gone,
\* the limits hold, an import is consumed at most once and whole, and a cancellation that
\* was answered has taken effect, with clients, receivers and expiry in any order
\* (import_store.rs).
ImportsAccounted ==
  /\ part = "imports" => Imports!FilesAreCounted /\ Imports!ConsumedOnceWhole /\ Imports!CancelIsConfirmed
                         /\ Imports!WithinLimits
  /\ part = "limits" => Limits!FilesAreCounted /\ Limits!ConsumedOnceWhole /\ Limits!CancelIsConfirmed
                        /\ Limits!WithinLimits

\* Starts one after another: a READY daemon is the one that is reached, a start alone
\* succeeds whatever the last one left behind, and no active socket is removed.  Starts at
\* once: no object is taken for the one that was looked at before (bind_control_socket).
StartsSafely ==
  /\ part = "startup" => Startup!ReadyIsReachable /\ Startup!AloneSucceeds /\ Startup!ActiveNeverRemoved
  /\ part = "overlap" => Racing!NoAliasing

\* Requests are read as they were sent, also lines of exactly max_line_bytes joined with
\* the next: each is its own line, whole, and is refused only for being too long or for too
\* many descriptors, within the memory and the slots there are.  The descriptors are the
\* request's own when the client waits for its answers; sent ahead, they come in order,
\* each once, and no later than their request.  A request is refused as bad exactly when
\* malformed, before anything has changed
\* (framing.rs, admission.rs, validation.rs, local_api.rs).
RequestsExact ==
  /\ part = "framing" => Framing!LinesExact /\ Framing!DescriptorsStay /\ Framing!OnlyBadIsRefused
  /\ part = "pipelined" => Ahead!LinesExact /\ Ahead!DescriptorsInOrder /\ Ahead!OnlyBadIsRefused
                           /\ Ahead!MemoryBounded
  /\ part = "slots" => Slots!SlotsExact
  /\ part = "request" => Request!BadExactly /\ Request!RefusedUntouched /\ Request!AnswersItsOwn

\* What the bridge tells the browser is true of the daemon: a success took effect once, a
\* definite failure not at all, nothing twice; and the execution shown last is the last
\* (run_file_compute, handle_connection, the lanes).
BridgeIsTrue ==
  /\ part = "bridge" => Bridge!OkMeansOnce /\ Bridge!KnownMeansNot /\ Bridge!NeverTwice
  /\ part = "lanes" => Lanes!HandlersExact /\ Lanes!LastIsLatest

\* A stopped transport is quiet, a connection is served by the service that accepted it, at
\* most one stream outlives a stop, and at rest the state shown is the one it is in
\* (LocalIpTransport.kt, PhoneBoostService.kt).
StopIsComplete ==
  /\ part = "phone" => Phone!StoppedIsQuiet /\ Phone!ServedByItsOwn /\ Phone!StopLeavesAtMostOne /\ Phone!ShownAtRest
  /\ part = "late" => Late!StoppedIsQuiet /\ Late!ServedByItsOwn /\ Late!StopLeavesAtMostOne /\ Late!ShownAtRest

\* A candidate handed out is fresh and still announced, candidates are handed out in turn,
\* and the table tracks what is announced, up to its limit (discovery.rs).
HintsAreTrue ==
  /\ part = "found" => Found!HintIsFresh /\ Found!InTurn
  /\ part = "full" => Full!TrackedIsAnnounced

\* What the test of active sockets in startup.rs expects, for starts at the same time: a
\* socket on which a daemon answers is never removed.
ActiveNeverRemoved == part = "overlap" => Racing!ActiveNeverRemoved
=============================================================================
