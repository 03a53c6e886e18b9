----------------------------- MODULE HostStartup -----------------------------
(***************************************************************************)
(* How phoneboostd becomes the one daemon of its user (pb-host/startup.rs   *)
(* and bin/phoneboostd.rs): the control socket under the runtime directory  *)
(* is looked at, recovered when it is stale, bound, listened on; then the   *)
(* daemon starts its parts and serves.  Each system call is a step, so that *)
(* several daemons, their deaths and other programs interleave with it.     *)
(*                                                                         *)
(* An object at the socket's name has an inode number, which is what the    *)
(* code compares, and an identity of its own (obj), which it cannot see:    *)
(* the file system gives a number again once nothing refers to it.          *)
(***************************************************************************)
EXTENDS Integers, FiniteSets

CONSTANTS Daemons,     \* daemon processes
          Inodes,      \* inode numbers
          MaxObjects,  \* bound: objects ever put at the name
          MaxDeaths,   \* bound: deaths of daemons
          MaxForeign,  \* bound: replacements by another program
          MaxFaults,   \* bound: failing system calls
          Overlap      \* may one start run into another

StartupConstants ==
  /\ {MaxObjects, MaxDeaths, MaxForeign, MaxFaults} \subseteq Nat
  /\ Overlap \in BOOLEAN

VARIABLES name,    \* the object at control.sock
          d,       \* the daemons
          made,    \* objects made so far
          deaths, foreign, faults,
          lost     \* history: a READY daemon's socket was removed by another; an
                   \* object was taken for the one looked at before

vars == <<name, d, made, deaths, foreign, faults, lost>>

Nothing == [obj |-> 0, ino |-> 0, kind |-> "none", mode |-> "none"]

\* pins: inodes held by O_PATH references; first: the object looked at; own: the object
\* bound; met: another program, or a failing call, got in the way
Off == [pc |-> "off", pins |-> {}, first |-> Nothing, own |-> Nothing,
        listening |-> FALSE, met |-> FALSE]

Init ==
  /\ name = Nothing
  /\ d = [p \in Daemons |-> Off]
  /\ made = 0 /\ deaths = 0 /\ foreign = 0 /\ faults = 0
  /\ lost = [active |-> FALSE, alias |-> FALSE]

Fault == faults < MaxFaults /\ faults' = faults + 1

\* ObjectIdentity: type, owner, device and inode number
Same(a, b) == a.kind = b.kind /\ a.ino = b.ino

\* (mutant) the object is looked at without holding it
Pinned_Not(o) == {}

\* the no-follow O_PATH reference taken before the first look
Pinned(o) == {o.ino}

\* a look that finds the same identity although the object is another one
Looked(p) == lost' = [lost EXCEPT !.alias = @ \/ (Same(name, d[p].first) /\ name.obj # d[p].first.obj)]

\* An inode stays in use while it is named, pinned, or bound by a live socket.
InUse == {name.ino} \cup UNION {d[p].pins \cup {d[p].own.ino} : p \in Daemons}

NewObjects(kind, mode) ==
  {[obj |-> made + 1, ino |-> i, kind |-> kind, mode |-> mode] : i \in Inodes \ InUse}

Starting(p) == d[p].pc \in {"pin", "stat", "connect", "restat", "unlink", "bind", "pinown",
                            "chmod", "modestat", "listen", "final", "undo", "undone"}

Step(p, changes) == d' = [d EXCEPT ![p] = changes]

Refuse(r) == [Off EXCEPT !.pc = "refused", !.met = r.met]

\* main: the runtime directory is validated first; nothing else has been touched
Launch(p) ==
  /\ d[p].pc \in {"off", "refused", "already"}
  /\ Overlap \/ \A q \in Daemons : ~Starting(q)
  /\ Step(p, [Off EXCEPT !.pc = "pin", !.met = (name.kind = "file")])
  /\ UNCHANGED <<name, made, deaths, foreign, faults, lost>>

UnsafeDirectory(p) ==
  /\ d[p].pc = "pin" /\ Fault
  /\ Step(p, Refuse([d[p] EXCEPT !.met = TRUE]))
  /\ UNCHANGED <<name, made, deaths, foreign, lost>>

Pin(p) ==
  /\ d[p].pc = "pin"
  /\ Step(p, [d[p] EXCEPT !.pc = "stat", !.pins = Pinned(name), !.first = name])
  /\ UNCHANGED <<name, made, deaths, foreign, faults, lost>>

\* the first look: it must show what is pinned, and that must be absent or a socket
FirstLook(p) ==
  /\ d[p].pc = "stat"
  /\ Step(p, IF ~Same(name, d[p].first) \/ name.kind \notin {"none", "socket"} THEN Refuse(d[p])
             ELSE [d[p] EXCEPT !.pc = IF name.kind = "none" THEN "bind" ELSE "connect", !.first = name])
  /\ UNCHANGED <<name, made, deaths, foreign, faults, lost>>

Listener(o) == \E q \in Daemons : d[q].listening /\ d[q].own.obj = o.obj

\* connect_existing
Answers(o) == o.kind = "socket" /\ Listener(o)

ConnectExisting(p) ==
  /\ d[p].pc = "connect"
  /\ Step(p, IF Answers(name) THEN [Off EXCEPT !.pc = "already"] ELSE [d[p] EXCEPT !.pc = "restat"])
  /\ UNCHANGED <<name, made, deaths, foreign, faults, lost>>

\* the second look
SecondLook(p) ==
  /\ d[p].pc = "restat"
  /\ Step(p, IF name = Nothing \/ ~Same(name, d[p].first) THEN Refuse(d[p])
             ELSE [d[p] EXCEPT !.pc = "unlink"])
  /\ Looked(p)
  /\ UNCHANGED <<name, made, deaths, foreign, faults>>

\* removing the name takes it from the daemon that is READY there
Removal(p) ==
  lost' = [lost EXCEPT !.active = @ \/ \E q \in Daemons \ {p} : d[q].pc \in {"parts", "serving"} /\ d[q].own.obj = name.obj]

AfterRecovery(o) == Nothing

Recover(p) ==
  /\ d[p].pc = "unlink"
  /\ IF name = Nothing THEN Step(p, Refuse(d[p])) /\ UNCHANGED <<name, lost>>
     ELSE Step(p, [d[p] EXCEPT !.pc = "bind"]) /\ name' = AfterRecovery(name) /\ Removal(p)
  /\ UNCHANGED <<made, deaths, foreign, faults>>

\* bind_fresh: bind makes the socket file, or finds the name taken
Bind(p) ==
  /\ d[p].pc = "bind"
  /\ IF name # Nothing THEN Step(p, Refuse(d[p])) /\ UNCHANGED <<name, made>>
     ELSE /\ made < MaxObjects
          /\ \E o \in NewObjects("socket", "wide") :
               name' = o /\ Step(p, [d[p] EXCEPT !.pc = "pinown", !.own = o])
          /\ made' = made + 1
  /\ UNCHANGED <<deaths, foreign, faults, lost>>

\* what is at the name now is taken for what was bound; nothing is undone when it is not
\* a socket
PinOwn(p) ==
  /\ d[p].pc = "pinown"
  /\ Step(p, IF name.kind # "socket" THEN Refuse(d[p])
             ELSE [d[p] EXCEPT !.pc = "chmod", !.first = name, !.pins = @ \cup {name.ino}])
  /\ UNCHANGED <<name, made, deaths, foreign, faults, lost>>

\* chmod through /proc/self/fd changes the pinned object, wherever it is
Chmod(p) ==
  /\ d[p].pc = "chmod"
  /\ name' = IF name.obj = d[p].first.obj THEN [name EXCEPT !.mode = "private"] ELSE name
  /\ Step(p, [d[p] EXCEPT !.pc = "modestat"])
  /\ UNCHANGED <<made, deaths, foreign, faults, lost>>

\* chmod or listen fails
CallFails(p) ==
  /\ d[p].pc \in {"chmod", "listen"} /\ Fault
  /\ Step(p, [d[p] EXCEPT !.pc = "undo", !.met = TRUE])
  /\ UNCHANGED <<name, made, deaths, foreign, lost>>

\* the name still shows the bound object, with its mode
Holds(p) == Same(name, d[p].first) /\ name.mode = "private"

ModeLook(p) ==
  /\ d[p].pc = "modestat"
  /\ Step(p, [d[p] EXCEPT !.pc = IF Holds(p) THEN "listen" ELSE "undo"])
  /\ Looked(p)
  /\ UNCHANGED <<name, made, deaths, foreign, faults>>

Listen(p) ==
  /\ d[p].pc = "listen"
  /\ Step(p, [d[p] EXCEPT !.pc = "final", !.listening = TRUE])
  /\ UNCHANGED <<name, made, deaths, foreign, faults, lost>>

\* the last look: from here on the daemon is READY and starts its parts
FinalLook(p) ==
  /\ d[p].pc = "final"
  /\ Step(p, IF Holds(p) THEN [d[p] EXCEPT !.pc = "parts", !.pins = {}] ELSE [d[p] EXCEPT !.pc = "undo"])
  /\ Looked(p)
  /\ UNCHANGED <<name, made, deaths, foreign, faults>>

\* safe_unlink_if_same: a look, then the removal
UndoLook(p) ==
  /\ d[p].pc = "undo"
  /\ Step(p, IF name # Nothing /\ Same(name, d[p].first) THEN [d[p] EXCEPT !.pc = "undone"] ELSE Refuse(d[p]))
  /\ Looked(p)
  /\ UNCHANGED <<name, made, deaths, foreign, faults>>

Undo(p) ==
  /\ d[p].pc = "undone"
  /\ Step(p, Refuse(d[p]))
  /\ name' = Nothing /\ Removal(p)
  /\ UNCHANGED <<made, deaths, foreign, faults>>

\* main: the secure state, the import store and the transport or controller start in
\* turn; a part that fails ends the process, and its socket stays
PartsStart(p) ==
  /\ d[p].pc = "parts"
  /\ Step(p, [d[p] EXCEPT !.pc = "serving"])
  /\ UNCHANGED <<name, made, deaths, foreign, faults, lost>>

PartFails(p) ==
  /\ d[p].pc = "parts" /\ Fault
  /\ Step(p, Off)
  /\ UNCHANGED <<name, made, deaths, foreign, lost>>

Dies(p) ==
  /\ d[p].pc \notin {"off", "refused", "already"} /\ deaths < MaxDeaths
  /\ Step(p, Off) /\ deaths' = deaths + 1
  /\ UNCHANGED <<name, made, foreign, faults, lost>>

\* another program of the user puts something else at the name
Foreign ==
  /\ foreign < MaxForeign /\ made < MaxObjects /\ foreign' = foreign + 1 /\ made' = made + 1
  /\ \E o \in NewObjects("file", "wide") \cup NewObjects("socket", "wide") : name' = o
  /\ d' = [p \in Daemons |-> [d[p] EXCEPT !.met = TRUE]]
  /\ UNCHANGED <<deaths, faults, lost>>

Start(p) ==
  \/ Launch(p) \/ UnsafeDirectory(p) \/ Pin(p) \/ FirstLook(p) \/ ConnectExisting(p) \/ SecondLook(p)
  \/ Recover(p) \/ Bind(p) \/ PinOwn(p) \/ Chmod(p) \/ CallFails(p) \/ ModeLook(p) \/ Listen(p)
  \/ FinalLook(p) \/ UndoLook(p) \/ Undo(p)

Next ==
  \/ \E p \in Daemons : Start(p) \/ PartsStart(p) \/ PartFails(p) \/ Dies(p)
  \/ Foreign

Spec == Init /\ [][Next]_vars
-----------------------------------------------------------------------------
\* An inode number that is given again never makes a daemon take one object for
\* another: each of the looks of startup_from_runtime_value, bind_fresh and
\* safe_unlink_if_same that finds "the same" finds the same object.
NoAliasing == ~lost.alias

\* The socket of a daemon that is READY is not removed by another daemon's start
\* (hs_t32_active_socket_is_never_removed).
ActiveNeverRemoved == ~lost.active

\* A daemon that came to READY undisturbed is found at the socket's name, with its
\* mode, until it dies: the last look of bind_fresh is not overtaken.
ReadyIsReachable ==
  \A p \in Daemons : d[p].pc \in {"parts", "serving"} /\ ~d[p].met =>
                      name.obj = d[p].own.obj /\ name.mode = "private"

\* Whatever a daemon's death left behind, at whichever step it came, a start that
\* meets no other program and no failing call is not refused.
AloneSucceeds == \A p \in Daemons : d[p].pc = "refused" => d[p].met
=============================================================================
