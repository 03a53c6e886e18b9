----------------------------- MODULE StateStore -----------------------------
(***************************************************************************)
(* The secure runtime's private state (pb-runtime-secure/src/storage.rs and *)
(* its users in runtime.rs): the identity key and the pairing guard in the  *)
(* root directory, one file per trusted peer in peers/.  A runtime starts   *)
(* by loading all of it, creating the identity if there is none; it then    *)
(* commits peers and saves the guard, one file at a time under the store's  *)
(* mutex.  System calls fail, the process dies, the machine stops.          *)
(***************************************************************************)
EXTENDS Integers, FiniteSets, AtomicFile

CONSTANTS Peers,       \* keys of the other endpoints
          Identities,  \* keys the random source may give
          Guards,      \* states of the pairing guard other than the initial one
          MaxPeers,    \* MAX_PEERS
          MaxFaults    \* bound: failed calls, deaths and crashes

VARIABLES disk, w, run, used, acked, faults

vars == <<disk, w, run, used, acked, faults>>

Identity == "identity"
Guard == "guard"
Root == {Identity, Guard}
Names == Root \cup Peers
Record == "record"      \* a well-formed peer record for the peer of its name
New == "new"            \* PairingGuard::new

\* the files of the root directory are not in peers/, and a key is none only when there is none
StoreConstants ==
  /\ MaxPeers \in Nat /\ MaxFaults \in Nat
  /\ Peers \cap Root = {} /\ "none" \notin Identities

Stopped == [pc |-> "stopped", id |-> "none", peers |-> {}, guard |-> New]

Init ==
  /\ disk = NewDisk(Names)
  /\ w = Idle
  /\ run = Stopped
  /\ used = {}           \* identities under which a running runtime saved its guard
  /\ acked = [n \in Names |-> "none"]   \* what was last reported as saved
  /\ faults = 0

Fault == faults < MaxFaults /\ faults' = faults + 1

Directory(n) == IF n \in Root THEN Root ELSE Peers

\* read_authority and the parsers: anything but a whole file of its kind is an error
LoadIdentity == disk.live[Identity].val
IdentityOK == LoadIdentity \in Identities
StoredPeers == {p \in Peers : disk.live[p] # NoFile}
PeersOK == Cardinality(StoredPeers) <= MaxPeers /\ \A p \in StoredPeers : disk.live[p].val = Record
GuardOK == disk.live[Guard] = NoFile \/ disk.live[Guard].val \in Guards

LoadedGuard == IF disk.live[Guard] = NoFile THEN New ELSE disk.live[Guard].val

\* load_or_create_identity
StartLoads ==
  /\ run.pc = "stopped" /\ w = Idle /\ disk.live[Identity] # NoFile
  /\ run' = IF IdentityOK THEN [run EXCEPT !.pc = "peers", !.id = LoadIdentity] ELSE run
  /\ UNCHANGED <<disk, w, used, acked, faults>>

StartCreates ==
  /\ run.pc = "stopped" /\ w = Idle /\ disk.live[Identity] = NoFile
  /\ \E k \in Identities : w' = StartWrite(Identity, k)
  /\ run' = [run EXCEPT !.pc = "creating"]
  /\ UNCHANGED <<disk, used, acked, faults>>

Created ==
  /\ run.pc = "creating" /\ w.stage \in {"done", "failed"}
  /\ run' = IF w.stage = "done" /\ IdentityOK
            THEN [run EXCEPT !.pc = "peers", !.id = LoadIdentity]
            ELSE Stopped
  /\ w' = Idle
  /\ UNCHANGED <<disk, used, acked, faults>>

\* load_peers and load_guard in SecureRuntime::initialize; admit may move the guard,
\* which is then saved before the runtime is up
StartPeers ==
  /\ run.pc = "peers" /\ w = Idle
  /\ \E g \in {LoadedGuard} \cup Guards :
       /\ run' = IF ~(PeersOK /\ GuardOK) THEN Stopped
                 ELSE [run EXCEPT !.pc = IF g = LoadedGuard THEN "up" ELSE "saving",
                                  !.peers = StoredPeers, !.guard = g]
       /\ w' = IF PeersOK /\ GuardOK /\ g # LoadedGuard THEN StartWrite(Guard, g) ELSE Idle
       /\ acked' = IF w' = Idle THEN acked ELSE [acked EXCEPT ![Guard] = "none"]
  /\ UNCHANGED <<disk, used, faults>>

StartSaved ==
  /\ run.pc = "saving" /\ w.stage \in {"done", "failed"}
  /\ run' = IF w.stage = "done" THEN [run EXCEPT !.pc = "up"] ELSE Stopped
  /\ acked' = IF w.stage = "done" THEN [acked EXCEPT ![Guard] = w.val] ELSE acked
  /\ w' = Idle
  /\ UNCHANGED <<disk, used, faults>>

\* SecureRuntime::commit_peer: the record is saved, then the peer is known.  The
\* number of peers is not looked at here, only when they are loaded.
Commit(p) ==
  /\ run.pc = "up" /\ w = Idle
  /\ w' = StartWrite(p, Record)
  /\ UNCHANGED <<disk, run, used, acked, faults>>

\* record_mismatch, ensure_guard_admits, mark_authenticated: memory first
SaveGuard(g) ==
  /\ run.pc = "up" /\ w = Idle
  /\ run' = [run EXCEPT !.guard = g]
  /\ w' = StartWrite(Guard, g)
  /\ acked' = [acked EXCEPT ![Guard] = "none"]
  /\ UNCHANGED <<disk, used, faults>>

WriteGoes ==
  /\ Writing(w)
  /\ LET o == Succeeds(disk, w, Directory(w.name)) IN disk' = o.disk /\ w' = o.w
  /\ UNCHANGED <<run, used, acked, faults>>

WriteFails ==
  /\ Writing(w) /\ Fault
  /\ w' = Fails(disk, w).w
  /\ UNCHANGED <<disk, run, used, acked>>

\* what the caller does with the result; a session counts as authenticated only
\* when its guard is saved (mark_authenticated)
Saved ==
  /\ run.pc = "up" /\ w.stage \in {"done", "failed"}
  /\ run' = IF w.stage = "done" /\ w.name \in Peers THEN [run EXCEPT !.peers = @ \cup {w.name}] ELSE run
  /\ acked' = IF w.stage = "done" THEN [acked EXCEPT ![w.name] = w.val] ELSE acked
  /\ used' = IF w.stage = "done" /\ w.name = Guard THEN used \cup {run.id} ELSE used
  /\ w' = Idle
  /\ UNCHANGED <<disk, faults>>

ProcessDies ==
  /\ Fault
  /\ run' = Stopped /\ w' = Idle
  /\ UNCHANGED <<disk, used, acked>>

Crash ==
  /\ Fault
  /\ disk' \in Crashes(disk)
  /\ run' = Stopped /\ w' = Idle
  /\ UNCHANGED <<used, acked>>

Next ==
  \/ StartLoads \/ StartCreates \/ Created \/ StartPeers \/ StartSaved
  \/ (\E p \in Peers : Commit(p)) \/ (\E g \in Guards : SaveGuard(g))
  \/ WriteGoes \/ WriteFails \/ Saved \/ ProcessDies \/ Crash

Spec == Init /\ [][Next]_vars

-----------------------------------------------------------------------------
\* Whatever failed, died or crashed in the middle of a save, the next start finds
\* every file whole (atomic_write).  Only the number of peers can then refuse it:
\* commit_peer has no bound and load_peers does.
Loadable ==
  \A d \in Crashes(disk) \cup {disk} :
    /\ d.live[Identity] = NoFile \/ d.live[Identity].val \in Identities
    /\ \A p \in Peers : d.live[p] = NoFile \/ d.live[p].val = Record
    /\ d.live[Guard] = NoFile \/ d.live[Guard].val \in Guards

\* What was reported as saved is there after any crash: a peer for good, a guard
\* (and with it a cooldown) until the next one is being saved.
ReportedIsKept ==
  \A n \in Names : acked[n] # "none" => \A d \in Crashes(disk) : d.live[n].val = acked[n]

\* A runtime trusts only peers whose record is on disk, and keeps them over a
\* restart: pairing never has to be repeated after a crash (commit_peer).
TrustIsStored ==
  run.pc = "up" => \A p \in run.peers : disk.live[p].val = Record

\* One identity for good: once a session has been authenticated, every later
\* start has the same identity, because saving the guard syncs the directory
\* that holds the key (mark_authenticated, load_or_create_identity).
OneIdentity ==
  /\ Cardinality(used) <= 1
  /\ run.id # "none" /\ used # {} => run.id \in used

\* After any crash, failed call or death of the process in the middle of a save every
\* file is whole, what was reported as saved is there, only stored peers are trusted,
\* and the identity under which a session was authenticated stays (atomic_write,
\* commit_peer, load_or_create_identity).
StateKept == Loadable /\ ReportedIsKept /\ TrustIsStored /\ OneIdentity
=============================================================================
