-------------------------- MODULE AutoUsePreference --------------------------
(***************************************************************************)
(* C12: the durable ON/OFF preference (pb-host/src/auto_use_control.rs).    *)
(*                                                                         *)
(* A set runs under one mutex: OFF disables the controller before anything  *)
(* is written, ON enables it after the commit, a failure ends OFF/ERROR.    *)
(* The file is read before every write and one that cannot be read is never *)
(* replaced.  Every system call may fail, the daemon may be restarted and   *)
(* the machine may stop at any point.                                       *)
(***************************************************************************)
EXTENDS Integers, AtomicFile

CONSTANTS MaxFaults,   \* bound: failed calls, restarts and crashes
          MaxSets      \* bound: requests to set the preference

ASSUME PreferenceConstants == MaxFaults \in Nat /\ MaxSets \in Nat

VARIABLES disk,        \* the directory with config.json
          w,           \* the writer of the set under way
          pref,        \* [up, op, view, invalid]: AutoUseControl and its mutex
          controller,  \* AutoUseController: enabled, and its epoch
          acked,       \* the value of the last set that returned Ok, until the next one starts
          count        \* faults and sets so far

vars == <<disk, w, pref, controller, acked, count>>

Config == "config"
Bad == "bad"            \* not a valid configuration (wrong version, mode, size, syntax)
On == "on"
Off == "off"
View(v, p) == [enabled |-> v, persistence |-> p]
Down == [up |-> FALSE, op |-> "none", view |-> View("none", "none"), invalid |-> FALSE]

Init ==
  /\ disk \in {[live |-> f, kept |-> f] : f \in [{Config} -> {NoFile} \cup [val : {On, Off, Bad}, safe : {TRUE}]]}
  /\ w = Idle
  /\ pref = Down
  /\ controller = [enabled |-> FALSE, epoch |-> 0]
  /\ acked = "none"
  /\ count = [faults |-> 0, sets |-> 0]

Fault == count.faults < MaxFaults /\ count' = [count EXCEPT !.faults = @ + 1]

\* ConfigStore::read: a value, nothing, or an error
Readable(d) == d.live[Config].val \in {On, Off, "none"}

\* AutoUseController::enable and disable: an unchanged value keeps the epoch
Enabled(c) == IF c.enabled THEN c ELSE [enabled |-> TRUE, epoch |-> c.epoch + 1]
Disabled(c) == IF c.enabled THEN [enabled |-> FALSE, epoch |-> c.epoch + 1] ELSE c

\* from_state_home
Loaded(d) ==
  CASE d.live[Config].val \in {On, Off} -> [Down EXCEPT !.up = TRUE, !.view = View(d.live[Config].val, "SAVED")]
    [] d.live[Config].val = "none"      -> [Down EXCEPT !.up = TRUE, !.view = View(On, "DEFAULT")]
    [] ~Readable(d) -> [Down EXCEPT !.up = TRUE, !.view = View(Off, "ERROR"), !.invalid = TRUE]

Start ==
  /\ ~pref.up
  /\ pref' = Loaded(disk)
  /\ controller' = IF Loaded(disk).view.enabled = On THEN Enabled(controller) ELSE Disabled(controller)
  /\ UNCHANGED <<disk, w, acked, count>>

\* the directory or the file could not be opened or read
StartUnread ==
  /\ ~pref.up /\ Fault
  /\ pref' = [Down EXCEPT !.up = TRUE, !.view = View(Off, "ERROR"), !.invalid = TRUE]
  /\ controller' = Disabled(controller)
  /\ UNCHANGED <<disk, w, acked>>

\* disable() before anything is written
BeforeWrite(v) == IF v = Off THEN Disabled(controller) ELSE controller

Refused == pref.invalid \/ ~Readable(disk)

\* set_with up to the write; an unreadable file is refused from then on
SetStarts(v) ==
  /\ pref.up /\ pref.op = "none" /\ count.sets < MaxSets
  /\ count' = [count EXCEPT !.sets = @ + 1]
  /\ acked' = "none"
  /\ controller' = BeforeWrite(v)
  /\ pref' = [pref EXCEPT !.op = v, !.invalid = Refused]
  /\ w' = IF Refused THEN [Idle EXCEPT !.stage = "failed"] ELSE StartWrite(Config, v)
  /\ UNCHANGED disk

\* a read that fails counts as an unreadable file, for the life of the daemon
SetUnread(v) ==
  /\ pref.up /\ pref.op = "none" /\ Fault
  /\ acked' = "none"
  /\ controller' = BeforeWrite(v)
  /\ pref' = [pref EXCEPT !.op = v, !.invalid = TRUE]
  /\ w' = [Idle EXCEPT !.stage = "failed"]
  /\ UNCHANGED disk

\* ConfigStore::write, one system call at a time
WriteGoes ==
  /\ Writing(w)
  /\ LET o == Succeeds(disk, w, {Config}) IN disk' = o.disk /\ w' = o.w
  /\ UNCHANGED <<pref, controller, acked, count>>

WriteFails ==
  /\ Writing(w) /\ Fault
  /\ w' = Fails(disk, w).w
  /\ UNCHANGED <<disk, pref, controller, acked>>

\* (mutant) a failed write leaves the controller as it is
AfterFailure_KeepsOn == controller

AfterFailure == Disabled(controller)

FailedView == View(Off, "ERROR")

SetFails ==
  /\ w.stage = "failed" /\ pref.up
  /\ controller' = AfterFailure
  /\ pref' = [pref EXCEPT !.op = "none", !.view = FailedView]
  /\ w' = Idle
  /\ UNCHANGED <<disk, acked, count>>

SetDone ==
  /\ w.stage = "done" /\ pref.up
  /\ controller' = IF pref.op = On THEN Enabled(controller) ELSE controller
  /\ pref' = [pref EXCEPT !.op = "none", !.view = View(pref.op, "SAVED")]
  /\ acked' = pref.op
  /\ w' = Idle
  /\ UNCHANGED <<disk, count>>

\* the daemon is restarted, the machine stops, something else writes the file
Restart ==
  /\ pref.up /\ Fault
  /\ pref' = Down /\ w' = Idle
  /\ controller' = [controller EXCEPT !.enabled = FALSE]
  /\ UNCHANGED <<disk, acked>>

Crash ==
  /\ Fault
  /\ disk' \in Crashes(disk)
  /\ pref' = Down /\ w' = Idle
  /\ controller' = [controller EXCEPT !.enabled = FALSE]
  /\ UNCHANGED acked

Overwritten ==
  /\ pref.op = "none" /\ Fault
  /\ disk' = [live |-> [n \in {Config} |-> [val |-> Bad, safe |-> TRUE]],
              kept |-> [n \in {Config} |-> [val |-> Bad, safe |-> TRUE]]]
  /\ acked' = "none"
  /\ UNCHANGED <<w, pref, controller>>

Next ==
  \/ Start \/ StartUnread \/ (\E v \in {On, Off} : SetStarts(v) \/ SetUnread(v)) \/ WriteGoes \/ WriteFails
  \/ SetFails \/ SetDone \/ Restart \/ Crash \/ Overwritten

Spec == Init /\ [][Next]_vars

-----------------------------------------------------------------------------
Steady == pref.up /\ pref.op = "none"

\* Between requests the controller does what the view says, after every failed
\* stage of a write, restart and crash (set_with, from_state_home).
ViewIsApplied == Steady => (controller.enabled <=> pref.view.enabled = On)

\* A set that has returned Ok is what every later start finds, however the
\* machine stops, until another set begins (fsync before the rename, directory
\* sync before the answer).
AcknowledgedSurvives == acked # "none" => \A d \in Crashes(disk) : d.live[Config].val = acked

\* No crash leaves a file that the next start refuses, if nothing else wrote it.
NeverTorn == \A d \in Crashes(disk) : d.live[Config].val \notin {Torn, "empty"}

\* OFF acts first: while a request for OFF is being written the controller is
\* off, and it comes on only when ON is committed (set_with).
OffFirst == pref.op = Off \/ (pref.op = On /\ pref.view.enabled = Off) => ~controller.enabled

\* The preference holds through every failed stage of a write, restart and crash: in
\* effect as shown, OFF at once, kept once acknowledged, and never in a torn file.
PreferenceKept == ViewIsApplied /\ OffFirst /\ AcknowledgedSurvives /\ NeverTorn

\* A file that cannot be read is left alone for the life of the daemon, and is
\* never replaced by a request that found it so.
NeverRepaired == [][disk.live[Config].val = Bad /\ w.stage = "idle" /\ pref'.op # "none"
                      => w'.stage \in {"idle", "failed"}]_vars

=============================================================================
