-------------------------------- MODULE MCLive --------------------------------
(***************************************************************************)
(* What must go on, side by side: the manager of auto-use, the ledger of    *)
(* cleanup obligations, the channel of a session, the web bridge, and the   *)
(* service on the phone.  In a behaviour one of them moves, fairly, and the *)
(* others stay as they started.                                             *)
(***************************************************************************)
EXTENDS Integers, Sequences, FiniteSets

CONSTANT None

VARIABLES
  part,                                                                     \* the part that moves
  data, drop, sess, mgr, ex, faults, hist,                                  \* AutoUse
  ledger, phone, joined, th, lost,                                          \* CleanupLedger
  client, admission, shared, waiter, queue, driver, worker, up, toWorker,   \* SessionChannel
  toHost, answer, handled, used,
  cl, wire, dm, daemon, h, handlers, done, last,                            \* WebBridge
  svc, slot, native, tr, acc, str, stop, conn, made, trouble                \* PhoneService

Auto == INSTANCE AutoUse WITH MaxEpoch <- 2, MaxFaults <- 1, MaxMore <- 0, Silent <- FALSE

Ledger == INSTANCE CleanupLedger WITH
  Requests <- 1..6, Capacity <- 3, FaultKinds <- {"lost", "session", "lease"}, MaxFaults <- 1,
  faults <- lost, up <- joined

Channel == INSTANCE SessionChannel WITH
  Clients <- {"c1"}, Kinds <- {"Command", "Resource", "Compute"}, QueueCapacity <- 1, MaxRequests <- 1,
  MaxPings <- 1, MaxBeats <- 0

Bridge == INSTANCE WebBridge WITH
  Calls <- {"c1"}, Kinds <- {"file", "set", "fixture"}, MaxHandlers <- 1, MaxFaults <- 1

Phone == INSTANCE PhoneService WITH
  Conns <- {"x1"}, Streams <- {"s1"}, MaxObjects <- 1, MaxServices <- 1, MaxLate <- 2, MaxKills <- 1,
  Debuggable <- TRUE, worker <- slot, faults <- trouble

-----------------------------------------------------------------------------
autoVars == <<data, drop, sess, mgr, ex, faults, hist>>
ledgerVars == <<ledger, phone, joined, th, lost>>
channelVars == <<client, admission, shared, waiter, queue, driver, worker, up, toWorker, toHost, answer,
                 handled, used>>
bridgeVars == <<cl, wire, dm, daemon, h, handlers, done, last>>
phoneVars == <<svc, slot, native, tr, acc, str, stop, conn, made, trouble>>
mcVars == <<part, autoVars, ledgerVars, channelVars, bridgeVars, phoneVars>>

MCInit ==
  /\ part \in {"controller", "ledger", "channel", "bridge", "phone"}
  /\ Auto!Init /\ Ledger!Init /\ Channel!Init /\ Bridge!Init /\ Phone!Init

MCNext ==
  /\ UNCHANGED part
  /\ \/ /\ part = "controller" /\ Auto!Next
        /\ UNCHANGED <<ledgerVars, channelVars, bridgeVars, phoneVars>>
     \/ /\ part = "ledger" /\ Ledger!Next
        /\ UNCHANGED <<autoVars, channelVars, bridgeVars, phoneVars>>
     \/ /\ part = "channel" /\ Channel!Next
        /\ UNCHANGED <<autoVars, ledgerVars, bridgeVars, phoneVars>>
     \/ /\ part = "bridge" /\ Bridge!Next
        /\ UNCHANGED <<autoVars, ledgerVars, channelVars, phoneVars>>
     \/ /\ part = "phone" /\ Phone!Next
        /\ UNCHANGED <<autoVars, ledgerVars, channelVars, bridgeVars>>

\* Each part is as fair as its own specification says.
AutoFair ==
  /\ WF_autoVars(part = "controller" /\ Auto!Manager)
  /\ WF_autoVars(part = "controller" /\ Auto!Executor)
  /\ WF_autoVars(part = "controller" /\ Auto!DropCancels)
  /\ \A s \in Auto!Serials : WF_autoVars(part = "controller" /\ Auto!SessionThread(s))

LedgerFair ==
  /\ WF_ledgerVars(part = "ledger" /\ Ledger!ManagerStep)
  /\ WF_ledgerVars(part = "ledger" /\ Ledger!RenewFails)
  /\ WF_ledgerVars(part = "ledger" /\ Ledger!ExecutionStep)
  /\ \A c \in {"X", "M"} : WF_ledgerVars(part = "ledger" /\ Ledger!Requesting(c))

ChannelFair ==
  /\ WF_channelVars(part = "channel" /\ Channel!DriverNext)
  /\ WF_channelVars(part = "channel" /\ Channel!WorkerWork)
  /\ WF_channelVars(part = "channel" /\ Channel!WaitAuthenticated)
  /\ WF_channelVars(part = "channel" /\ Channel!CancelClear)
  /\ WF_channelVars(part = "channel" /\ Channel!Enqueue("c1"))
  /\ WF_channelVars(part = "channel" /\ Channel!TakeAnswer("c1"))

BridgeFair ==
  /\ WF_bridgeVars(part = "bridge" /\ Bridge!HandlerSteps("c1"))
  /\ WF_bridgeVars(part = "bridge" /\ Bridge!DeadlinePasses("c1") /\ UNCHANGED <<h, handlers, done, last>>)
  /\ WF_bridgeVars(part = "bridge" /\ Bridge!ClientSteps("c1") /\ UNCHANGED <<h, handlers, done, last>>)

PhoneFair ==
  /\ WF_phoneVars(part = "phone" /\ Phone!DestroyStops)
  /\ WF_phoneVars(part = "phone" /\ Phone!DestroyEnds)
  /\ WF_phoneVars(part = "phone" /\ Phone!StopSteps)
  /\ WF_phoneVars(part = "phone" /\ Phone!Accept(1))
  /\ WF_phoneVars(part = "phone" /\ Phone!Offer(1))
  /\ WF_phoneVars(part = "phone" /\ Phone!Alone(1, "s1"))

MCSpec ==
  /\ MCInit /\ [][MCNext]_mcVars
  /\ AutoFair /\ LedgerFair /\ ChannelFair /\ BridgeFair /\ PhoneFair

-----------------------------------------------------------------------------
(* Properties. *)

\* After disable the manager comes to rest, whatever it was doing; left on, the controller
\* reaches AVAILABLE again after every fault (the loops of run_manager, wait_for_enable).
ManagerSettles == part = "controller" => Auto!DisableSettles /\ Auto!EnabledRecovers

\* The ledger empties: with finitely many faults every obligation is settled, by its own
\* release, a replay, the end of its session or a purge proof (reconcile_cleanup,
\* readiness_with_purge_proof), but for what waits for the next reconnect.
LedgerDrains == part = "ledger" => Ledger!LedgerDrains

\* Everybody who waits is answered: a request on the session and the waiter for its
\* authentication, a connection to the bridge, and the destruction of the phone's service.
EveryoneReturns ==
  /\ part = "channel" => Channel!EveryRequestReturns /\ Channel!WaiterReturns
  /\ part = "bridge" => Bridge!EveryConnectionCloses
  /\ part = "phone" => Phone!DestroyReturns
=============================================================================
