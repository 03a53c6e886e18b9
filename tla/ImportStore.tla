---------------------------- MODULE ImportStore ----------------------------
(***************************************************************************)
(* C12: the private import store (pb-host/src/import_store.rs) as the local *)
(* API uses it (local_api.rs).  A connection thread serves one request at a *)
(* time: create, get, cancel, submit_import; it cancels all it owns when    *)
(* the client leaves.  Each import has a receiver thread that copies the    *)
(* source chunk by chunk.  The table is under one mutex; the time to live   *)
(* of a READY import or of a tombstone passes by an action of its own.      *)
(*                                                                         *)
(* Peers other than the daemon's own user are refused before they get here, *)
(* so there is one UID.  Sizes are counted in chunks.                       *)
(***************************************************************************)
EXTENDS Integers, FiniteSets, SequencesExt

CONSTANTS Conns,          \* connections
          Handles,        \* 1..n: bound on imports; random handles never repeat
          Sizes,          \* sizes of sources
          PerConn, PerUid, ReceivingPerConn, ReceivingPerUid,
          MaxObject, MaxBytes, MaxTombs,
          MaxFaults       \* bound: failed system calls, timeouts and restarts

ImportConstants == MaxTombs \in Nat \ {0} /\ MaxFaults \in Nat /\ Sizes \subseteq Nat

VARIABLES live,     \* handle -> LiveImport or None
          file,     \* handle -> the private file
          tombs,    \* the tombstones, oldest first
          worker,   \* handle -> receiver thread
          client,   \* connection -> what its thread is doing
          told,     \* handle -> last state its connection was told
          handed,   \* handle -> sizes of the objects handed to a computation
          late,     \* handles whose READY time to live has passed
          kept,     \* history: handles whose file could not be removed
          faults

vars == <<live, file, tombs, worker, client, told, handed, late, kept, faults>>

None == [phase |-> "none"]
NoFile == [name |-> "none", size |-> 0]
NoWorker == [pc |-> "none", left |-> 0]
Waiting == [pc |-> "idle", h |-> 0, asked |-> FALSE, leaving |-> FALSE, todo |-> {}]

Init ==
  /\ live = [h \in Handles |-> None]
  /\ file = [h \in Handles |-> NoFile]
  /\ tombs = <<>>
  /\ worker = [h \in Handles |-> NoWorker]
  /\ client = [c \in Conns |-> Waiting]
  /\ told = [h \in Handles |-> "none"]
  /\ handed = [h \in Handles |-> <<>>]
  /\ late = {}
  /\ kept = {}
  /\ faults = 0

Fault == faults < MaxFaults /\ faults' = faults + 1
NoFault == UNCHANGED faults

Terminal == {"cancelled", "cancelled now", "consumed", "completed", "expired"}

Live == {h \in Handles : live[h] # None}
Owned(c) == {h \in Live : live[h].conn = c}
Receiving == {h \in Live : live[h].phase = "receiving"}
Bytes == FoldSet(LAMBDA h, n : live[h].bytes + n, 0, Live)
Fresh(h) == told[h] = "none" /\ live[h] = None /\ \A t \in Range(tombs) : t.h # h

\* RECEIVING and READY are both "live"; an error says nothing of the state
Tell(h, a) ==
  told' = CASE a \in {"receiving", "ready"} -> [told EXCEPT ![h] = "live"]
            [] a \in Terminal \cup {"refused"} -> [told EXCEPT ![h] = a]
            [] OTHER -> told
Goes(c, pc, h) == client' = [client EXCEPT ![c].pc = pc, ![c].h = h]
Idles(c) == Goes(c, "idle", 0)

\* push_tombstone_outcome: the oldest makes room
Push(ts, h, c, outcome) ==
  LET all == Append(ts, [h |-> h, conn |-> c, outcome |-> outcome])
  IN  IF Len(all) > MaxTombs THEN Tail(all) ELSE all

Tomb(h, c) == SelectSeq(tombs, LAMBDA t : t.h = h /\ t.conn = c)

-----------------------------------------------------------------------------
(* imports.create *)

\* reserve_import_with_worker
Admits(c) ==
  /\ Cardinality(Owned(c)) < PerConn /\ Cardinality(Live) < PerUid
  /\ Cardinality(Owned(c) \cap Receiving) < ReceivingPerConn
  /\ Cardinality(Receiving) < ReceivingPerUid

Entry(c) == [conn |-> c, bytes |-> 0, phase |-> "receiving", cancel |-> FALSE,
             worker |-> TRUE, failure |-> "none",
             source |-> 0]   \* history: the size of the source

Create(c, h) ==
  /\ client[c].pc = "idle" /\ Admits(c) /\ Fresh(h) /\ \A k \in 1..(h - 1) : ~Fresh(k)
  /\ live' = [live EXCEPT ![h] = Entry(c)]
  /\ Goes(c, "open", h)
  /\ UNCHANGED <<file, tombs, worker, told, handed, late, kept, faults>>

Opened(c, n) ==
  LET h == client[c].h IN
  /\ client[c].pc = "open"
  /\ file' = [file EXCEPT ![h] = [name |-> "receiving", size |-> 0]]
  /\ worker' = [worker EXCEPT ![h] = [pc |-> "check", left |-> n]]
  /\ live' = [live EXCEPT ![h].source = n]
  /\ Tell(h, "receiving")
  /\ Idles(c)
  /\ UNCHANGED <<tombs, handed, late, kept, faults>>

\* The file cannot be created, has the wrong mode, or the thread is not spawned:
\* fail_import removes the entry if the file can be removed.  If not, the entry
\* stays, marked as having a receiver unless it was the spawn that failed.
OpenFails(c, why, cleaned) ==
  LET h == client[c].h IN
  /\ client[c].pc = "open" /\ Fault
  /\ live' = [live EXCEPT ![h] = IF cleaned THEN None
                                 ELSE IF why = "spawn" THEN [@ EXCEPT !.worker = FALSE, !.failure = "io"] ELSE @]
  /\ file' = [file EXCEPT ![h] = IF why # "open" /\ ~cleaned THEN [name |-> "receiving", size |-> 0] ELSE NoFile]
  /\ kept' = IF cleaned THEN kept ELSE kept \cup {h}
  /\ Tell(h, "refused")
  /\ Idles(c)
  /\ UNCHANGED <<tombs, worker, handed, late>>

-----------------------------------------------------------------------------
(* the receiver *)

At(h, pc) == worker[h].pc = pc
WGoes(h, pc) == worker' = [worker EXCEPT ![h].pc = pc]
Rest == <<client, told, handed, late>>

\* (mutant) a receiver whose time is up keeps what it has as if it were all
TimedOut_Keeps == "sync"

TimedOut == "failed"

\* copy_async: receiver_cancelled and the deadline, before a chunk is read
Check(h) ==
  /\ At(h, "check")
  /\ \/ live[h].cancel /\ WGoes(h, "cancelled") /\ NoFault
     \/ ~live[h].cancel /\ WGoes(h, "read") /\ NoFault
     \/ ~live[h].cancel /\ Fault /\ WGoes(h, TimedOut)
  /\ UNCHANGED <<live, file, tombs, kept>> /\ UNCHANGED Rest

\* ... and after it, with what the read gave
ReadChunk(h) ==
  /\ At(h, "read")
  /\ \/ Fault /\ WGoes(h, TimedOut)
     \/ Fault /\ WGoes(h, "failed")
     \/ live[h].cancel /\ WGoes(h, "cancelled") /\ NoFault
     \/ ~live[h].cancel /\ NoFault /\ WGoes(h, IF worker[h].left = 0 THEN "sync" ELSE "reserve")
  /\ UNCHANGED <<live, file, tombs, kept>> /\ UNCHANGED Rest

\* reserve_bytes, under the mutex and before the chunk is written
Reserve(h) ==
  /\ At(h, "reserve")
  /\ LET fits == live[h].bytes + 1 <= MaxObject /\ Bytes + 1 <= MaxBytes IN
     /\ live' = IF ~live[h].cancel /\ fits THEN [live EXCEPT ![h].bytes = @ + 1] ELSE live
     /\ WGoes(h, IF live[h].cancel THEN "cancelled" ELSE IF fits THEN "write" ELSE "failed")
  /\ UNCHANGED <<file, tombs, kept, faults>> /\ UNCHANGED Rest

WriteChunk(h) ==
  /\ At(h, "write")
  /\ \/ /\ NoFault
        /\ file' = [file EXCEPT ![h].size = @ + 1]
        /\ worker' = [worker EXCEPT ![h].pc = "check", ![h].left = @ - 1]
     \/ Fault /\ WGoes(h, "failed") /\ UNCHANGED file
  /\ UNCHANGED <<live, tombs, kept>> /\ UNCHANGED Rest

Sync(h) ==
  /\ At(h, "sync")
  /\ \/ Fault /\ WGoes(h, "failed")
     \/ NoFault /\ WGoes(h, IF live[h].cancel THEN "cancelled" ELSE "finish")
  /\ UNCHANGED <<live, file, tombs, kept>> /\ UNCHANGED Rest

ReadyEntry(e) == [e EXCEPT !.phase = "ready", !.worker = FALSE]

\* finish_async_ready: the last look at the cancellation and the rename are one step
Finish(h) ==
  /\ At(h, "finish")
  /\ \/ live[h].cancel /\ WGoes(h, "cancelled") /\ NoFault /\ UNCHANGED <<live, file>>
     \/ ~live[h].cancel /\ Fault /\ WGoes(h, "failed") /\ UNCHANGED <<live, file>>
     \/ /\ ~live[h].cancel /\ NoFault
        /\ live' = [live EXCEPT ![h] = ReadyEntry(@)]
        /\ file' = [file EXCEPT ![h].name = "ready"]
        /\ worker' = [worker EXCEPT ![h] = NoWorker]
  /\ UNCHANGED <<tombs, kept>> /\ UNCHANGED Rest

Unconfirmed(e) == [e EXCEPT !.worker = FALSE, !.failure = "unconfirmed"]

\* finish_async_cancelled and finish_async_failed
Stop(h) ==
  /\ worker[h].pc \in {"cancelled", "failed"}
  /\ \/ /\ NoFault
        /\ live' = [live EXCEPT ![h] = None]
        /\ file' = [file EXCEPT ![h] = NoFile]
        /\ tombs' = Push(tombs, h, live[h].conn, worker[h].pc)
        /\ UNCHANGED kept
     \/ /\ Fault /\ kept' = kept \cup {h}
        /\ live' = [live EXCEPT ![h] = Unconfirmed(@)]
        /\ UNCHANGED <<file, tombs>>
  /\ worker' = [worker EXCEPT ![h] = NoWorker]
  /\ UNCHANGED Rest

Receiver(h) == Check(h) \/ ReadChunk(h) \/ Reserve(h) \/ WriteChunk(h) \/ Sync(h) \/ Finish(h) \/ Stop(h)

-----------------------------------------------------------------------------
(* imports.get and compute.submit_import *)

Old == {h \in Live : live[h].phase = "ready" /\ h \in late}

\* expire_ready_at, when it gets to remove the imports of S
Without(S) ==
  [live  |-> [h \in Handles |-> IF h \in S THEN None ELSE live[h]],
   file  |-> [h \in Handles |-> IF h \in S THEN NoFile ELSE file[h]],
   tombs |-> FoldSet(LAMBDA h, ts : Push(ts, h, live[h].conn, "expired"), tombs, S)]

Swept(S) == LET a == Without(S) IN live' = a.live /\ file' = a.file /\ tombs' = a.tombs

\* a file that cannot be removed ends the sweep, and the request with it
SweepFails(c) ==
  /\ client[c].pc \in {"idle", "consume"} /\ Old # {} /\ Fault
  /\ \E S \in SUBSET Old : S # Old /\ Swept(S)
  /\ Idles(c)
  /\ UNCHANGED <<worker, told, handed, late, kept>>

\* status, after the sweep
Status(a, c, h) ==
  LET ts == SelectSeq(a.tombs, LAMBDA t : t.h = h /\ t.conn = c) IN
  CASE ts # <<>> -> ts[1].outcome
    [] ts = <<>> /\ (a.live[h] = None \/ a.live[h].conn # c) -> "notfound"
    [] OTHER -> IF a.live[h].failure # "none" THEN "unavailable" ELSE a.live[h].phase

Asks(c, h) == client[c].pc = "idle" /\ told[h] \in Terminal \cup {"live"}

Get(c, h) ==
  /\ Asks(c, h)
  /\ Swept(Old)
  /\ LET s == Status(Without(Old), c, h) IN Tell(h, s)
  /\ UNCHANGED <<worker, client, handed, late, kept, faults>>

\* compute_submit_import looks first; an empty import is refused and kept
Submit(c, h) ==
  /\ Asks(c, h)
  /\ Swept(Old)
  /\ Status(Without(Old), c, h) = "ready" /\ live[h].bytes > 0
  /\ Goes(c, "consume", h)
  /\ UNCHANGED <<worker, told, handed, late, kept, faults>>

Consumed(a, h) == [a EXCEPT !.live[h] = None, !.file[h] = NoFile]

\* consume: sweep again, open, unlink, remove, tombstone
Consume(c) ==
  LET h == client[c].h
      a == Without(Old)
      ok == a.live[h] # None /\ a.live[h].conn = c /\ a.live[h].phase = "ready"
      b == Consumed(a, h)
  IN
  /\ client[c].pc = "consume"
  /\ \/ ok /\ NoFault /\ live' = b.live /\ file' = b.file
           /\ tombs' = Push(a.tombs, h, c, "consumed")
           /\ handed' = [handed EXCEPT ![h] = Append(@, file[h].size)]
           /\ Tell(h, "completed")
     \/ ok /\ Fault /\ Swept(Old) /\ UNCHANGED <<handed, told>>
     \/ ~ok /\ NoFault /\ Swept(Old) /\ UNCHANGED <<handed, told>>
  /\ Idles(c)
  /\ UNCHANGED <<worker, late, kept>>

-----------------------------------------------------------------------------
(* imports.cancel, and the cancellations of a connection that closes *)

Cancel(c, h) ==
  /\ Asks(c, h)
  /\ client' = [client EXCEPT ![c].pc = "cancel", ![c].h = h, ![c].asked = FALSE]
  /\ UNCHANGED <<live, file, tombs, worker, told, handed, late, kept, faults>>

\* serve_local_client at the end of the connection; disconnect
Leave(c) ==
  /\ client[c].pc = "idle" /\ ~client[c].leaving
  /\ client' = [client EXCEPT ![c] = [@ EXCEPT !.pc = "leaving", !.leaving = TRUE, !.todo = Owned(c)]]
  /\ UNCHANGED <<live, file, tombs, worker, told, handed, late, kept, faults>>

LeaveNext(c) ==
  /\ client[c].pc = "leaving"
  /\ IF client[c].todo = {} THEN client' = [client EXCEPT ![c].pc = "gone"]
     ELSE \E h \in client[c].todo :
            client' = [client EXCEPT ![c] = [@ EXCEPT !.pc = "cancel", !.h = h, !.asked = FALSE, !.todo = @ \ {h}]]
  /\ UNCHANGED <<live, file, tombs, worker, told, handed, late, kept, faults>>

Returns(c, a) ==
  LET h == client[c].h IN
  /\ client' = [client EXCEPT ![c].pc = IF client[c].leaving THEN "leaving" ELSE "idle", ![c].h = 0]
  /\ IF client[c].leaving THEN UNCHANGED told ELSE Tell(h, a)

Mine(c) == live[client[c].h] # None /\ live[client[c].h].conn = c

MustWait(c) == live[client[c].h].phase = "receiving" /\ live[client[c].h].worker

Signal(e) == [e EXCEPT !.cancel = TRUE]

CancelAnswered(c) ==
  LET ts == Tomb(client[c].h, c) IN
  /\ client[c].pc = "cancel" /\ ts # <<>>
  /\ Returns(c, IF ts[1].outcome = "cancelled" /\ client[c].asked THEN "cancelled now" ELSE ts[1].outcome)
  /\ UNCHANGED <<live, file, tombs, worker, handed, late, kept, faults>>

CancelUnknown(c) ==
  /\ client[c].pc = "cancel" /\ Tomb(client[c].h, c) = <<>> /\ ~Mine(c)
  /\ Returns(c, "notfound")
  /\ UNCHANGED <<live, file, tombs, worker, handed, late, kept, faults>>

CancelWaits(c) ==
  /\ client[c].pc = "cancel" /\ Tomb(client[c].h, c) = <<>> /\ Mine(c) /\ MustWait(c) /\ ~client[c].asked
  /\ live' = [live EXCEPT ![client[c].h] = Signal(@)]
  /\ client' = [client EXCEPT ![c].asked = TRUE]
  /\ UNCHANGED <<file, tombs, worker, told, handed, late, kept, faults>>

Deadline(c) == client[c].asked

CancelTimesOut(c) ==
  /\ client[c].pc = "cancel" /\ Deadline(c)
  /\ Returns(c, "unconfirmed")
  /\ UNCHANGED <<live, file, tombs, worker, handed, late, kept, faults>>

CancelCleans(c) ==
  LET h == client[c].h IN
  /\ client[c].pc = "cancel" /\ Tomb(h, c) = <<>> /\ Mine(c) /\ ~MustWait(c)
  /\ \/ /\ NoFault
        /\ live' = [live EXCEPT ![h] = None] /\ file' = [file EXCEPT ![h] = NoFile]
        /\ tombs' = Push(tombs, h, c, "cancelled")
        /\ Returns(c, "cancelled now") /\ UNCHANGED kept
     \/ Fault /\ kept' = kept \cup {h} /\ Returns(c, "unconfirmed") /\ UNCHANGED <<live, file, tombs>>
  /\ UNCHANGED <<worker, handed, late>>

-----------------------------------------------------------------------------
\* The time to live of a READY import, of the oldest tombstone; the call of cancel
\* and its first look at the table are one instant.
Ages(h) ==
  /\ \A c \in Conns : client[c].pc = "cancel" /\ client[c].h = h => client[c].asked
  /\ live[h] # None /\ live[h].phase = "ready" /\ h \notin late
  /\ late' = late \cup {h}
  /\ UNCHANGED <<live, file, tombs, worker, client, told, handed, kept, faults>>

TombAges ==
  /\ tombs # <<>> /\ tombs' = Tail(tombs)
  /\ UNCHANGED <<live, file, worker, client, told, handed, late, kept, faults>>

\* a new daemon: clear_version_directory, and an empty table
Restart ==
  /\ Fault
  /\ live' = [h \in Handles |-> None] /\ file' = [h \in Handles |-> NoFile]
  /\ tombs' = <<>> /\ worker' = [h \in Handles |-> NoWorker]
  /\ client' = [c \in Conns |-> Waiting]
  /\ UNCHANGED <<told, handed, late, kept>>

Serves(c) ==
  \/ \E n \in Sizes : Opened(c, n)
  \/ Consume(c) \/ LeaveNext(c) \/ CancelAnswered(c) \/ CancelUnknown(c)
  \/ CancelWaits(c) \/ CancelTimesOut(c) \/ CancelCleans(c)

Next ==
  \/ \E c \in Conns :
       \/ Serves(c) \/ Leave(c) \/ SweepFails(c)
       \/ \E h \in Handles : Create(c, h) \/ Get(c, h) \/ Submit(c, h) \/ Cancel(c, h)
       \/ \E why \in {"open", "mode", "spawn"}, cleaned \in BOOLEAN : OpenFails(c, why, cleaned)
  \/ \E h \in Handles : Receiver(h) \/ Ages(h)
  \/ TombAges \/ Restart

Spec == Init /\ [][Next]_vars

-----------------------------------------------------------------------------
\* Every file in the store is charged to an entry that knows its name, for at
\* least its size: quota is released only when the file is gone (reserve_bytes
\* before the write, cleanup before the removal).
FilesAreCounted ==
  \A h \in Handles : file[h] # NoFile =>
    live[h] # None /\ live[h].phase = file[h].name /\ file[h].size <= live[h].bytes

\* The limits hold whatever fails and whoever races: entries and receivers per
\* connection and in all, bytes, and tombstones.
WithinLimits ==
  /\ \A c \in Conns : Cardinality(Owned(c)) <= PerConn /\ Cardinality(Owned(c) \cap Receiving) <= ReceivingPerConn
  /\ Cardinality(Live) <= PerUid /\ Cardinality(Receiving) <= ReceivingPerUid
  /\ FoldSet(LAMBDA h, n : file[h].size + n, 0, Handles) <= MaxBytes
  /\ Len(tombs) <= MaxTombs

\* An import is computed on at most once, and only when every byte of its source
\* was copied: never a prefix that a timeout or a failed write left behind.
ConsumedOnceWhole ==
  \A h \in Handles :
    /\ Len(handed[h]) <= 1
    /\ live[h] # None /\ live[h].phase = "ready" => file[h].size = live[h].source

\* CANCELLED is answered only when the receiver has ended, the file is gone and
\* the quota is released, and it stays so (cancel).
CancelIsConfirmed ==
  \A h \in Handles : told[h] \in {"cancelled", "cancelled now"} =>
    live[h] = None /\ file[h] = NoFile /\ worker[h] = NoWorker /\ handed[h] = <<>>

=============================================================================
