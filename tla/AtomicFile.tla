----------------------------- MODULE AtomicFile -----------------------------
(***************************************************************************)
(* The way every durable file of the repository is replaced: write a        *)
(* temporary file, sync it, rename it over the old one, sync the directory. *)
(*                                                                         *)
(* A directory is [live, kept]: what a running system reads under a name,   *)
(* and what the disk is known to hold.  A crash of the machine leaves, name *)
(* by name, one or the other, and torn content where the content was never  *)
(* synced; the death of a process alone leaves live.  Temporary files have  *)
(* names of their own that no reader opens: one belongs to its writer.      *)
(***************************************************************************)
NoFile == [val |-> "none", safe |-> TRUE]
Torn == "torn"

NewDisk(names) == [live |-> [n \in names |-> NoFile], kept |-> [n \in names |-> NoFile]]

Idle == [stage |-> "idle", name |-> "none", val |-> "none", file |-> NoFile]

StartWrite(n, v) == [stage |-> "open", name |-> n, val |-> v, file |-> NoFile]

Out(d, w) == [disk |-> d, w |-> w]

AfterWrite == "sync"

\* (mutant) success is reported when the rename is done
AfterRename_NoSync == "done"

AfterRename == "dirsync"

\* What the next stage does if the system call succeeds; directory is the set of
\* names that share the directory of w.
Succeeds(d, w, directory) ==
  CASE w.stage = "open"    -> Out(d, [w EXCEPT !.stage = "write", !.file = [val |-> "empty", safe |-> FALSE]])
    [] w.stage = "write"   -> Out(d, [w EXCEPT !.stage = AfterWrite, !.file = [val |-> w.val, safe |-> FALSE]])
    [] w.stage = "sync"    -> Out(d, [w EXCEPT !.stage = "rename", !.file.safe = TRUE])
    [] w.stage = "rename"  -> Out([d EXCEPT !.live[w.name] = w.file], [w EXCEPT !.stage = AfterRename])
    [] w.stage = "dirsync" -> Out([d EXCEPT !.kept = [n \in DOMAIN d.kept |->
                                                       IF n \in directory THEN d.live[n] ELSE d.kept[n]]],
                                  [w EXCEPT !.stage = "done"])

\* ... and if it fails: the temporary file is unlinked, the error returned.
Fails(d, w) == Out(d, [w EXCEPT !.stage = "failed"])

Writing(w) == w.stage \in {"open", "write", "sync", "rename", "dirsync"}

\* The machine stops: what the disk may hold afterwards.
Survivors(f) == IF f.safe THEN {f} ELSE {[val |-> f.val, safe |-> TRUE], [val |-> Torn, safe |-> TRUE]}

Crashes(d) ==
  LET names == DOMAIN d.live
      possible(n) == Survivors(d.live[n]) \cup Survivors(d.kept[n])
      all == UNION {possible(n) : n \in names}
  IN  {[live |-> f, kept |-> f] : f \in {g \in [names -> all] : \A n \in names : g[n] \in possible(n)}}
=============================================================================
