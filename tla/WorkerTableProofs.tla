------------------------- MODULE WorkerTableProofs --------------------------
(***************************************************************************)
(* The three tables of the worker, reservations, buffers and jobs, and what *)
(* the steps that handlers are made of do to them.                         *)
(*                                                                         *)
(* `Consistent' relates the tables.  It takes them as arguments because a  *)
(* handler goes through intermediate tables (swept, purged, then changed)  *)
(* that are no state of the system; each lemma is about one such step.     *)
(***************************************************************************)
EXTENDS WorkerCore, TLAPS

\* The solver that most steps need, with time to spare; the others name theirs.
USE SMTT(60)

ReservationRecords ==
  [state : ReservationStates, lease : Nat, req : Nat, class : {"None", "Buffer", "Scratch"},
   bytes : Nat, expires : Nat, at : Nat]

BufferRecords ==
  [state : {"Unused", "Dropped", "Allocated", "Ready", "Freed", "Evicted", "Lost"},
   lease : Nat, session : Nat, res : Ids \cup {NoId}, size : Nat, created : Nat,
   expires : Nat, at : Nat]

JobRecords ==
  [state : {"Unused", "Dropped", "Running", "Completed", "Failed", "Cancelled"},
   lease : Nat, session : Nat, res : Ids \cup {NoId}, size : Nat, started : Nat, at : Nat]

Typed(res, bufs, jbs) ==
  /\ res \in [Ids -> ReservationRecords]
  /\ bufs \in [Buffers -> BufferRecords]
  /\ jbs \in [Jobs -> JobRecords]
  /\ \A b \in Buffers : bufs[b].state = "Unused" <=> bufs[b].res = NoId
  /\ \A j \in Jobs : jbs[j].state = "Unused" <=> jbs[j].res = NoId

\* what holds a reservation consumed
HasOwner(bufs, jbs, i) ==
  \/ \E b \in Buffers : LiveBuffer(bufs[b]) /\ bufs[b].res = i
  \/ \E j \in Jobs : jbs[j].state = "Running" /\ jbs[j].res = i

Held(res, bufs, jbs) ==
  /\ \A i \in Ids : res[i].state = "Consumed" => HasOwner(bufs, jbs, i)
  /\ \A b \in Buffers : LiveBuffer(bufs[b]) =>
       /\ res[bufs[b].res].state = "Consumed" /\ res[bufs[b].res].class = "Buffer"
       /\ res[bufs[b].res].bytes = bufs[b].size
  /\ \A j \in Jobs : jbs[j].state = "Running" =>
       /\ res[jbs[j].res].state = "Consumed" /\ res[jbs[j].res].class = "Scratch"
       /\ res[jbs[j].res].bytes = jbs[j].size

Once(bufs, jbs) ==
  /\ \A b, c \in Buffers : bufs[b].res = bufs[c].res /\ bufs[b].res # NoId => b = c
  /\ \A j, k \in Jobs : jbs[j].res = jbs[k].res /\ jbs[j].res # NoId => j = k
  /\ \A b \in Buffers, j \in Jobs : bufs[b].res = jbs[j].res => bufs[b].res = NoId

\* a reservation that has, or had, an owner cannot be consumed any more
SpentStates == {"Consumed", "ConsumedReleased", "Dropped"}

Spent(res, bufs, jbs) ==
  /\ \A b \in Buffers : bufs[b].res # NoId => res[bufs[b].res].state \in SpentStates
  /\ \A j \in Jobs : jbs[j].res # NoId => res[jbs[j].res].state \in SpentStates

Consistent(res, bufs, jbs) ==
  Typed(res, bufs, jbs) /\ Held(res, bufs, jbs) /\ Once(bufs, jbs) /\ Spent(res, bufs, jbs)

-----------------------------------------------------------------------------
(* Steps on the tables. *)

\* The guard changes and consumes nothing: what was consumed is left alone, and
\* what is spent stays spent.
LEMMA GuardStep ==
  ASSUME NEW res, NEW bufs, NEW jbs, Consistent(res, bufs, jbs),
         NEW res2 \in [Ids -> ReservationRecords],
         \A i \in Ids : /\ res[i].state = "Consumed" => res2[i] = res[i]
                        /\ res[i].state # "Consumed" => res2[i].state # "Consumed"
                        /\ res[i].state \in SpentStates => res2[i].state \in SpentStates
  PROVE  Consistent(res2, bufs, jbs)
<1>1. Typed(res2, bufs, jbs)
  BY ZenonT(30) DEF Consistent, Typed
<1>2. \A b \in Buffers : LiveBuffer(bufs[b]) => bufs[b].res \in Ids
  BY ZenonT(30), WorkerConstants DEF Consistent, Typed, BufferRecords, LiveBuffer
<1>3. \A j \in Jobs : jbs[j].state = "Running" => jbs[j].res \in Ids
  BY ZenonT(30), WorkerConstants DEF Consistent, Typed, JobRecords
<1>4. Held(res2, bufs, jbs)
  BY <1>2, <1>3 DEF Consistent, Held
<1>5. Spent(res2, bufs, jbs)
  BY ZenonT(30) DEF Consistent, Spent, Typed, BufferRecords, JobRecords
<1>. QED  BY ZenonT(30), <1>1, <1>4, <1>5 DEF Consistent

\* A committed reservation of class Buffer becomes a new buffer's.
LEMMA BufferTakes ==
  ASSUME NEW res, NEW bufs, NEW jbs, Consistent(res, bufs, jbs),
         NEW i \in Ids, res[i].state = "Committed", res[i].class = "Buffer",
         NEW b \in Buffers, bufs[b].state = "Unused",
         NEW new \in BufferRecords,
         new.state = "Allocated", new.res = i, new.size = res[i].bytes
  PROVE  Consistent([res EXCEPT ![i] = InState(res[i], "Consumed", 0)],
                    [bufs EXCEPT ![b] = new], jbs)
<1> DEFINE res2 == [res EXCEPT ![i] = InState(res[i], "Consumed", 0)]
           bufs2 == [bufs EXCEPT ![b] = new]
<1>1. /\ res2 \in [Ids -> ReservationRecords]
      /\ res2[i].state = "Consumed" /\ res2[i].class = "Buffer" /\ res2[i].bytes = res[i].bytes
      /\ \A k \in Ids \ {i} : res2[k] = res[k]
  BY ZenonT(30) DEF Consistent, Typed, ReservationRecords, ReservationStates, Live, InState
<1>2. /\ bufs2 \in [Buffers -> BufferRecords]
      /\ bufs2[b] = new
      /\ \A c \in Buffers \ {b} : bufs2[c] = bufs[c]
  BY ZenonT(30) DEF Consistent, Typed
<1>3. /\ \A c \in Buffers : bufs[c].res # i
      /\ \A j \in Jobs : jbs[j].res # i
  BY ZenonT(30), WorkerConstants DEF Consistent, Spent, SpentStates
<1>4. i # NoId /\ LiveBuffer(new) /\ ~LiveBuffer(bufs[b]) /\ bufs[b].res = NoId
  BY ZenonT(30), WorkerConstants DEF LiveBuffer, Consistent, Typed
<1> HIDE DEF res2, bufs2
<1>5. Typed(res2, bufs2, jbs)
  BY <1>1, <1>2, <1>4 DEF Consistent, Typed
<1>6. Held(res2, bufs2, jbs)
  <2>0. Held(res, bufs, jbs)
    BY ZenonT(30) DEF Consistent
  <2>1. ASSUME NEW k \in Ids, res2[k].state = "Consumed" PROVE HasOwner(bufs2, jbs, k)
    <3>1. CASE k = i
      BY ZenonT(30), <3>1, <1>2, <1>4 DEF HasOwner
    <3>2. CASE k # i
      <4>1. HasOwner(bufs, jbs, k)
        BY <3>2, <2>1, <2>0, <1>1 DEF Held
      <4>. QED  BY ZenonT(30), <4>1, <1>2, <1>4 DEF HasOwner
    <3>. QED  BY ZenonT(30), <3>1, <3>2
  <2>2. ASSUME NEW c \in Buffers, LiveBuffer(bufs2[c])
        PROVE  /\ res2[bufs2[c].res].state = "Consumed" /\ res2[bufs2[c].res].class = "Buffer"
               /\ res2[bufs2[c].res].bytes = bufs2[c].size
    <3>1. CASE c = b
      BY ZenonT(30), <3>1, <1>1, <1>2
    <3>2. CASE c # b
      <4>0. bufs[c] \in BufferRecords /\ bufs[c].res # NoId
        BY <3>2, <2>2, <1>2, ZenonT(30) DEF Consistent, Typed, LiveBuffer
      <4>1. bufs[c].res \in Ids \ {i}
        BY ZenonT(30), <4>0, <1>3 DEF BufferRecords
      <4>. QED  BY <3>2, <4>1, <2>2, <2>0, <1>1, <1>2 DEF Held
    <3>. QED  BY ZenonT(30), <3>1, <3>2
  <2>3. ASSUME NEW j \in Jobs, jbs[j].state = "Running"
        PROVE  /\ res2[jbs[j].res].state = "Consumed" /\ res2[jbs[j].res].class = "Scratch"
               /\ res2[jbs[j].res].bytes = jbs[j].size
    <3>0. jbs[j] \in JobRecords /\ jbs[j].res # NoId
      BY <2>3, ZenonT(30) DEF Consistent, Typed
    <3>1. jbs[j].res \in Ids \ {i}
      BY ZenonT(30), <3>0, <1>3 DEF JobRecords
    <3>. QED  BY <3>1, <2>3, <2>0, <1>1 DEF Held
  <2>. QED  BY ZenonT(30), <2>1, <2>2, <2>3 DEF Held
<1>7. Once(bufs2, jbs)
  BY <1>2, <1>3, <1>4 DEF Consistent, Once
<1>8. Spent(res2, bufs2, jbs)
  <2>1. \A k \in Ids : res[k].state \in SpentStates => res2[k].state \in SpentStates
    BY ZenonT(30), <1>1 DEF SpentStates
  <2>2. \A c \in Buffers \ {b} : bufs[c].res # NoId => bufs[c].res \in Ids
    BY ZenonT(30) DEF Consistent, Typed, BufferRecords
  <2>3. \A j \in Jobs : jbs[j].res # NoId => jbs[j].res \in Ids
    BY ZenonT(30) DEF Consistent, Typed, JobRecords
  <2>4. res2[i].state \in SpentStates
    BY ZenonT(30), <1>1 DEF SpentStates
  <2>. QED  BY <2>1, <2>2, <2>3, <2>4, <1>2 DEF Consistent, Spent
<1>. QED  BY ZenonT(30), <1>5, <1>6, <1>7, <1>8 DEF Consistent, res2, bufs2

\* A committed reservation of class Scratch becomes a new job's.
LEMMA JobTakes ==
  ASSUME NEW res, NEW bufs, NEW jbs, Consistent(res, bufs, jbs),
         NEW i \in Ids, res[i].state = "Committed", res[i].class = "Scratch",
         NEW j \in Jobs, jbs[j].state = "Unused",
         NEW new \in JobRecords,
         new.state = "Running", new.res = i, new.size = res[i].bytes
  PROVE  Consistent([res EXCEPT ![i] = InState(res[i], "Consumed", 0)],
                    bufs, [jbs EXCEPT ![j] = new])
<1> DEFINE res2 == [res EXCEPT ![i] = InState(res[i], "Consumed", 0)]
           jbs2 == [jbs EXCEPT ![j] = new]
<1>1. /\ res2 \in [Ids -> ReservationRecords]
      /\ res2[i].state = "Consumed" /\ res2[i].class = "Scratch" /\ res2[i].bytes = res[i].bytes
      /\ \A k \in Ids \ {i} : res2[k] = res[k]
  BY ZenonT(30) DEF Consistent, Typed, ReservationRecords, ReservationStates, Live, InState
<1>2. /\ jbs2 \in [Jobs -> JobRecords]
      /\ jbs2[j] = new
      /\ \A k \in Jobs \ {j} : jbs2[k] = jbs[k]
  BY ZenonT(30) DEF Consistent, Typed
<1>3. /\ \A b \in Buffers : bufs[b].res # i
      /\ \A k \in Jobs : jbs[k].res # i
  BY ZenonT(30), WorkerConstants DEF Consistent, Spent, SpentStates
<1>4. i # NoId /\ jbs[j].state # "Running" /\ jbs[j].res = NoId
  BY ZenonT(30), WorkerConstants DEF Consistent, Typed
<1> HIDE DEF res2, jbs2
<1>5. Typed(res2, bufs, jbs2)
  BY <1>1, <1>2, <1>4 DEF Consistent, Typed
<1>6. Held(res2, bufs, jbs2)
  <2>0. Held(res, bufs, jbs)
    BY ZenonT(30) DEF Consistent
  <2>1. ASSUME NEW k \in Ids, res2[k].state = "Consumed" PROVE HasOwner(bufs, jbs2, k)
    <3>1. CASE k = i
      BY ZenonT(30), <3>1, <1>2, <1>4 DEF HasOwner
    <3>2. CASE k # i
      <4>1. HasOwner(bufs, jbs, k)
        BY <3>2, <2>1, <2>0, <1>1 DEF Held
      <4>. QED  BY ZenonT(30), <4>1, <1>2, <1>4 DEF HasOwner
    <3>. QED  BY ZenonT(30), <3>1, <3>2
  <2>2. ASSUME NEW b \in Buffers, LiveBuffer(bufs[b])
        PROVE  /\ res2[bufs[b].res].state = "Consumed" /\ res2[bufs[b].res].class = "Buffer"
               /\ res2[bufs[b].res].bytes = bufs[b].size
    <3>0. bufs[b] \in BufferRecords /\ bufs[b].res # NoId
      BY <2>2, ZenonT(30) DEF Consistent, Typed, LiveBuffer
    <3>1. bufs[b].res \in Ids \ {i}
      BY ZenonT(30), <3>0, <1>3 DEF BufferRecords
    <3>. QED  BY <3>1, <2>2, <2>0, <1>1 DEF Held
  <2>3. ASSUME NEW k \in Jobs, jbs2[k].state = "Running"
        PROVE  /\ res2[jbs2[k].res].state = "Consumed" /\ res2[jbs2[k].res].class = "Scratch"
               /\ res2[jbs2[k].res].bytes = jbs2[k].size
    <3>1. CASE k = j
      BY ZenonT(30), <3>1, <1>1, <1>2
    <3>2. CASE k # j
      <4>0. jbs[k] \in JobRecords /\ jbs[k].res # NoId
        BY <3>2, <2>3, <1>2, ZenonT(30) DEF Consistent, Typed
      <4>1. jbs[k].res \in Ids \ {i}
        BY ZenonT(30), <4>0, <1>3 DEF JobRecords
      <4>. QED  BY <3>2, <4>1, <2>3, <2>0, <1>1, <1>2 DEF Held
    <3>. QED  BY ZenonT(30), <3>1, <3>2
  <2>. QED  BY ZenonT(30), <2>1, <2>2, <2>3 DEF Held
<1>7. Once(bufs, jbs2)
  BY <1>2, <1>3, <1>4 DEF Consistent, Once
<1>8. Spent(res2, bufs, jbs2)
  <2>1. \A k \in Ids : res[k].state \in SpentStates => res2[k].state \in SpentStates
    BY ZenonT(30), <1>1 DEF SpentStates
  <2>2. \A b \in Buffers : bufs[b].res # NoId => bufs[b].res \in Ids
    BY ZenonT(30) DEF Consistent, Typed, BufferRecords
  <2>3. \A k \in Jobs \ {j} : jbs[k].res # NoId => jbs[k].res \in Ids
    BY ZenonT(30) DEF Consistent, Typed, JobRecords
  <2>4. res2[i].state \in SpentStates
    BY ZenonT(30), <1>1 DEF SpentStates
  <2>. QED  BY <2>1, <2>2, <2>3, <2>4, <1>2 DEF Consistent, Spent
<1>. QED  BY ZenonT(30), <1>5, <1>6, <1>7, <1>8 DEF Consistent, res2, jbs2

\* The records of bufs2, or jbs2, are those of bufs, or jbs, later in their lives:
\* none is new, none is live again, and a live one has the size it had.
BuffersLater(bufs, bufs2) ==
  /\ bufs2 \in [Buffers -> BufferRecords]
  /\ \A b \in Buffers :
       /\ bufs2[b].res = bufs[b].res
       /\ bufs2[b].state = "Unused" <=> bufs[b].state = "Unused"
       /\ LiveBuffer(bufs2[b]) => LiveBuffer(bufs[b]) /\ bufs2[b].size = bufs[b].size

JobsLater(jbs, jbs2) ==
  /\ jbs2 \in [Jobs -> JobRecords]
  /\ \A j \in Jobs :
       /\ jbs2[j].res = jbs[j].res
       /\ jbs2[j].state = "Unused" <=> jbs[j].state = "Unused"
       /\ jbs2[j].state = "Running" => jbs[j].state = "Running" /\ jbs2[j].size = jbs[j].size

Later(bufs, jbs, bufs2, jbs2) == BuffersLater(bufs, bufs2) /\ JobsLater(jbs, jbs2)

\* Buffers and jobs end, and exactly their reservations are given back.
LEMMA OwnersEnd ==
  ASSUME NEW res, NEW bufs, NEW jbs, Consistent(res, bufs, jbs),
         NEW bufs2, NEW jbs2, Later(bufs, jbs, bufs2, jbs2),
         NEW res2 \in [Ids -> ReservationRecords],
         \A i \in Ids : IF res[i].state = "Consumed" /\ ~HasOwner(bufs2, jbs2, i)
                        THEN res2[i].state = "ConsumedReleased"
                        ELSE res2[i] = res[i]
  PROVE  Consistent(res2, bufs2, jbs2)
<1>1. Typed(res2, bufs2, jbs2)
  BY ZenonT(120) DEF Consistent, Typed, Later, BuffersLater, JobsLater
<1>0. /\ Held(res, bufs, jbs) /\ BuffersLater(bufs, bufs2) /\ JobsLater(jbs, jbs2)
      /\ bufs \in [Buffers -> BufferRecords] /\ jbs \in [Jobs -> JobRecords]
  BY ZenonT(30) DEF Consistent, Typed, Later
<1>2. \A b \in Buffers : LiveBuffer(bufs2[b]) => bufs[b].res \in Ids /\ HasOwner(bufs2, jbs2, bufs[b].res)
  BY ZenonT(30), WorkerConstants DEF Consistent, Typed, Later, BuffersLater, JobsLater, BufferRecords, LiveBuffer, HasOwner
<1>3. \A j \in Jobs : jbs2[j].state = "Running" => jbs[j].res \in Ids /\ HasOwner(bufs2, jbs2, jbs[j].res)
  BY ZenonT(30), WorkerConstants DEF Consistent, Typed, Later, BuffersLater, JobsLater, JobRecords, HasOwner
<1>4. Held(res2, bufs2, jbs2)
  <2>1. ASSUME NEW i \in Ids, res2[i].state = "Consumed" PROVE HasOwner(bufs2, jbs2, i)
    BY ZenonT(30), <2>1
  <2>2. ASSUME NEW b \in Buffers, LiveBuffer(bufs2[b])
        PROVE  /\ res2[bufs2[b].res].state = "Consumed" /\ res2[bufs2[b].res].class = "Buffer"
               /\ res2[bufs2[b].res].bytes = bufs2[b].size
    <3>1. bufs2[b].res = bufs[b].res /\ LiveBuffer(bufs[b]) /\ bufs2[b].size = bufs[b].size
      BY <2>2, <1>0, ZenonT(30) DEF BuffersLater
    <3>2. bufs[b].res \in Ids /\ HasOwner(bufs2, jbs2, bufs[b].res)
      BY <2>2, <1>2, ZenonT(30)
    <3>3. /\ res[bufs[b].res].state = "Consumed" /\ res[bufs[b].res].class = "Buffer"
          /\ res[bufs[b].res].bytes = bufs[b].size
      BY <3>1, <1>0, ZenonT(30) DEF Held
    <3>4. res2[bufs[b].res] = res[bufs[b].res]
      BY <3>2, ZenonT(30)
    <3>. QED  BY <3>1, <3>3, <3>4, ZenonT(30)
  <2>3. ASSUME NEW j \in Jobs, jbs2[j].state = "Running"
        PROVE  /\ res2[jbs2[j].res].state = "Consumed" /\ res2[jbs2[j].res].class = "Scratch"
               /\ res2[jbs2[j].res].bytes = jbs2[j].size
    <3>1. jbs2[j].res = jbs[j].res /\ jbs[j].state = "Running" /\ jbs2[j].size = jbs[j].size
      BY <2>3, <1>0, ZenonT(30) DEF JobsLater
    <3>2. jbs[j].res \in Ids /\ HasOwner(bufs2, jbs2, jbs[j].res)
      BY <2>3, <1>3, ZenonT(30)
    <3>3. /\ res[jbs[j].res].state = "Consumed" /\ res[jbs[j].res].class = "Scratch"
          /\ res[jbs[j].res].bytes = jbs[j].size
      BY <3>1, <1>0, ZenonT(30) DEF Held
    <3>4. res2[jbs[j].res] = res[jbs[j].res]
      BY <3>2, ZenonT(30)
    <3>. QED  BY <3>1, <3>3, <3>4, ZenonT(30)
  <2>. QED  BY ZenonT(30), <2>1, <2>2, <2>3 DEF Held
<1>5. Once(bufs2, jbs2)
  <2>1. /\ Once(bufs, jbs) /\ \A b \in Buffers : bufs2[b].res = bufs[b].res
        /\ \A j \in Jobs : jbs2[j].res = jbs[j].res
    BY <1>0, ZenonT(30) DEF Consistent, BuffersLater, JobsLater
  <2>. QED  BY <2>1 DEF Once
<1>6. Spent(res2, bufs2, jbs2)
  <2>1. \A i \in Ids : res[i].state \in SpentStates => res2[i].state \in SpentStates
    BY ZenonT(30) DEF SpentStates
  <2>. QED  BY <2>1 DEF Consistent, Spent, Later, BuffersLater, JobsLater, Typed, BufferRecords, JobRecords
<1>. QED  BY ZenonT(30), <1>1, <1>4, <1>5, <1>6 DEF Consistent

\* What Returned does to each reservation, when the buffers in bs and the jobs in
\* js are the owners that end.
LEMMA ReturnedGives ==
  ASSUME Consistent(guard.res, buffers, jobs), now \in Nat,
         NEW bs \in SUBSET Buffers, NEW js \in SUBSET Jobs,
         \A b \in bs : LiveBuffer(buffers[b]),
         \A j \in js : jobs[j].state = "Running",
         NEW bufs2, NEW jbs2, Later(buffers, jobs, bufs2, jbs2),
         \A b \in Buffers : LiveBuffer(bufs2[b]) <=> LiveBuffer(buffers[b]) /\ b \notin bs,
         \A j \in Jobs : jbs2[j].state = "Running" <=> jobs[j].state = "Running" /\ j \notin js
  PROVE  Consistent(Returned(bs, js).res, bufs2, jbs2)
<1> DEFINE back == {i \in Ids :
                      /\ guard.res[i].state = "Consumed"
                      /\ [id |-> i, class |-> guard.res[i].class, bytes |-> guard.res[i].bytes]
                            \in BufferClaims(bs) \cup JobClaims(js)}
           res2 == Returned(bs, js).res
<1>0. DOMAIN guard.res = Ids /\ guard.res \in [Ids -> ReservationRecords]
  BY ZenonT(30) DEF Consistent, Typed
<1>1. res2 = [i \in Ids |-> IF i \in back THEN InState(guard.res[i], "ConsumedReleased", now)
                                          ELSE guard.res[i]]
  BY ZenonT(30), <1>0 DEF Returned, ReleaseConsumed, Finish
<1>2. ASSUME NEW i \in Ids
      PROVE  i \in back <=> guard.res[i].state = "Consumed" /\ ~HasOwner(bufs2, jbs2, i)
  <2>1. ASSUME i \in back PROVE ~HasOwner(bufs2, jbs2, i)
    <3>0. i # NoId
      BY ZenonT(30), WorkerConstants
    <3>1. (\E b \in bs : buffers[b].res = i) \/ (\E j \in js : jobs[j].res = i)
      BY <2>1, ZenonT(30) DEF BufferClaims, JobClaims
    <3>2. /\ Once(buffers, jobs)
          /\ \A b \in Buffers : bufs2[b].res = buffers[b].res
          /\ \A j \in Jobs : jbs2[j].res = jobs[j].res
      BY ZenonT(30) DEF Consistent, Later, BuffersLater, JobsLater
    <3>. QED  BY <3>0, <3>1, <3>2 DEF HasOwner, Once
  <2>2. ASSUME guard.res[i].state = "Consumed", ~HasOwner(bufs2, jbs2, i) PROVE i \in back
    <3>1. HasOwner(buffers, jobs, i)
      BY ZenonT(30), <2>2 DEF Consistent, Held
    <3>2. \/ \E b \in bs : LiveBuffer(buffers[b]) /\ buffers[b].res = i
          \/ \E j \in js : jobs[j].state = "Running" /\ jobs[j].res = i
      <4>1. /\ \A b \in Buffers : bufs2[b].res = buffers[b].res
            /\ \A j \in Jobs : jbs2[j].res = jobs[j].res
        BY ZenonT(30) DEF Later, BuffersLater, JobsLater
      <4>. QED  BY ZenonT(30), <3>1, <2>2, <4>1 DEF HasOwner
    <3>3. ASSUME NEW b \in bs, LiveBuffer(buffers[b]), buffers[b].res = i PROVE i \in back
      <4>1. guard.res[i].class = "Buffer" /\ guard.res[i].bytes = buffers[b].size
        BY ZenonT(30), <3>3 DEF Consistent, Held
      <4>2. [id |-> i, class |-> guard.res[i].class, bytes |-> guard.res[i].bytes] \in BufferClaims(bs)
        BY ZenonT(30), <4>1, <3>3 DEF BufferClaims
      <4>. QED  BY <4>2, <2>2, ZenonT(30)
    <3>4. ASSUME NEW j \in js, jobs[j].state = "Running", jobs[j].res = i PROVE i \in back
      <4>1. guard.res[i].class = "Scratch" /\ guard.res[i].bytes = jobs[j].size
        BY ZenonT(30), <3>4 DEF Consistent, Held
      <4>. QED  BY ZenonT(30), <4>1, <3>4, <2>2 DEF JobClaims
    <3>. QED  BY ZenonT(30), <3>2, <3>3, <3>4
  <2>. QED  BY ZenonT(30), <2>1, <2>2
<1> HIDE DEF back
<1>3. res2 \in [Ids -> ReservationRecords]
  <2>1. ASSUME NEW i \in Ids PROVE InState(guard.res[i], "ConsumedReleased", now) \in ReservationRecords
    BY ZenonT(30), <1>0 DEF InState, ReservationRecords, ReservationStates, Ended
  <2>. QED  BY <1>0, <1>1, <2>1, ZenonT(30)
<1>4. \A i \in Ids : IF guard.res[i].state = "Consumed" /\ ~HasOwner(bufs2, jbs2, i)
                     THEN res2[i].state = "ConsumedReleased"
                     ELSE res2[i] = guard.res[i]
  <2>1. ASSUME NEW i \in Ids PROVE InState(guard.res[i], "ConsumedReleased", now).state = "ConsumedReleased"
    BY ZenonT(30), <1>0 DEF InState, ReservationRecords
  <2>. QED  BY <1>1, <1>2, <2>1, ZenonT(120)
<1> HIDE DEF res2
<1>5. Consistent(res2, bufs2, jbs2)
  BY ZenonT(30), <1>3, <1>4, OwnersEnd
<1>. QED  BY ZenonT(30), <1>5 DEF res2

-----------------------------------------------------------------------------
(* The steps that handlers have in common. *)

\* A sweep ends the buffers it is given and no other.
LEMMA SweptLater ==
  ASSUME buffers \in [Buffers -> BufferRecords], now \in Nat,
         NEW evict \in SUBSET Buffers, NEW lose \in SUBSET Buffers,
         \A b \in evict \cup lose : LiveBuffer(buffers[b])
  PROVE  /\ BuffersLater(buffers, Swept(evict, lose))
         /\ \A b \in Buffers :
              /\ LiveBuffer(Swept(evict, lose)[b]) <=>
                   LiveBuffer(buffers[b]) /\ b \notin evict \cup lose
              /\ LiveBuffer(Swept(evict, lose)[b]) => Swept(evict, lose)[b] = buffers[b]
              /\ buffers[b].state = "Unused" => Swept(evict, lose)[b] = buffers[b]
<1> DEFINE sw == Swept(evict, lose)
<1> SUFFICES ASSUME NEW b \in Buffers
             PROVE  /\ sw \in [Buffers -> BufferRecords]
                    /\ sw[b].res = buffers[b].res
                    /\ sw[b].state = "Unused" <=> buffers[b].state = "Unused"
                    /\ LiveBuffer(sw[b]) <=> LiveBuffer(buffers[b]) /\ b \notin evict \cup lose
                    /\ LiveBuffer(sw[b]) => sw[b] = buffers[b]
                    /\ buffers[b].state = "Unused" => sw[b] = buffers[b]
  <2>1. CASE Buffers = {}
    BY ZenonT(30), <2>1 DEF BuffersLater, Swept
  <2>2. CASE Buffers # {}
    BY ZenonT(30), <2>2 DEF BuffersLater
  <2>. QED  BY ZenonT(30), <2>1, <2>2
<1>1. ASSUME NEW c \in Buffers
      PROVE  \/ /\ c \in evict \cup lose
                /\ sw[c] = Terminal(buffers[c], "Evicted") \/ sw[c] = Terminal(buffers[c], "Lost")
             \/ /\ c \notin evict \cup lose
                /\ EndedBuffer(buffers[c])
                /\ sw[c] = AbsentBuffer("Dropped", buffers[c].res)
             \/ /\ c \notin evict \cup lose
                /\ sw[c] = buffers[c]
  BY ZenonT(30) DEF Swept
<1>2. \A c \in Buffers : sw[c] \in BufferRecords
  <2>1. \A c \in Buffers : /\ Terminal(buffers[c], "Evicted") \in BufferRecords
                           /\ Terminal(buffers[c], "Lost") \in BufferRecords
    BY ZenonT(30) DEF Terminal, BufferRecords
  <2>2. \A c \in Buffers : AbsentBuffer("Dropped", buffers[c].res) \in BufferRecords
    BY ZenonT(30) DEF AbsentBuffer, BufferRecords
  <2> HIDE DEF sw
  <2>. QED  BY ZenonT(30), <1>1, <2>1, <2>2
<1>3. sw \in [Buffers -> BufferRecords]
  BY ZenonT(30), <1>2 DEF Swept
<1>4. CASE b \in evict \cup lose
  BY <1>1, <1>3, <1>4 DEF Terminal, LiveBuffer
<1>5. CASE b \notin evict \cup lose
  BY <1>1, <1>3, <1>5 DEF AbsentBuffer, LiveBuffer, EndedBuffer
<1>. QED  BY ZenonT(30), <1>4, <1>5

\* Jobs that end with their lease or session (JobsEnded) only move on.
LEMMA JobsEndedLater ==
  ASSUME jobs \in [Jobs -> JobRecords], now \in Nat, NEW set \in SUBSET Jobs,
         \A j \in set : jobs[j].state = "Running",
         NEW state \in {"Completed", "Failed", "Cancelled"}
  PROVE  /\ JobsLater(jobs, JobsEnded(set, state))
         /\ \A j \in Jobs : JobsEnded(set, state)[j].state = "Running" <=>
                              jobs[j].state = "Running" /\ j \notin set
<1>1. \A j \in Jobs : JobsEnded(set, state)[j] =
                       IF j \in set THEN FinishRecord(jobs[j], state) ELSE jobs[j]
  BY ZenonT(30) DEF JobsEnded
<1>2. \A j \in Jobs : FinishRecord(jobs[j], state) \in JobRecords
  BY ZenonT(30) DEF FinishRecord, JobRecords
<1>3. JobsEnded(set, state) \in [Jobs -> JobRecords]
  BY ZenonT(30), <1>2 DEF JobsEnded
<1>4. \A j \in Jobs : /\ FinishRecord(jobs[j], state).state = state
                      /\ FinishRecord(jobs[j], state).res = jobs[j].res
  BY ZenonT(30) DEF FinishRecord
<1>. QED  BY ZenonT(30), <1>1, <1>3, <1>4 DEF JobsLater

\* Forgetting old jobs (purge) only moves them on.
LEMMA PurgedLater ==
  ASSUME jobs \in [Jobs -> JobRecords]
  PROVE  /\ JobsLater(jobs, PurgedJobs)
         /\ \A j \in Jobs :
              /\ PurgedJobs[j].state = "Running" <=> jobs[j].state = "Running"
              /\ jobs[j].state = "Unused" => PurgedJobs[j] = jobs[j]
<1> DEFINE old(j) == EndedJob(jobs[j]) /\ now - jobs[j].at > TombstoneRetention
           forgotten(j) == AbsentJob("Dropped", jobs[j].res)
<1>1. PurgedJobs = [j \in Jobs |-> IF old(j) THEN forgotten(j) ELSE jobs[j]]
  BY ZenonT(30) DEF PurgedJobs
<1>2. \A j \in Jobs : old(j) => EndedJob(jobs[j])
  BY ZenonT(30)
<1>3. \A j \in Jobs : /\ forgotten(j) \in JobRecords
                      /\ forgotten(j).state = "Dropped" /\ forgotten(j).res = jobs[j].res
  BY ZenonT(30) DEF AbsentJob, JobRecords
<1> HIDE DEF old, forgotten
<1>4. PurgedJobs \in [Jobs -> JobRecords]
  BY ZenonT(30), <1>1, <1>3
<1>5. \A j \in Jobs : PurgedJobs[j] = jobs[j] \/ (EndedJob(jobs[j]) /\ PurgedJobs[j] = forgotten(j))
  BY ZenonT(30), <1>1, <1>2
<1>6. ASSUME NEW j \in Jobs
      PROVE  /\ PurgedJobs[j].res = jobs[j].res
             /\ PurgedJobs[j].state = "Unused" <=> jobs[j].state = "Unused"
             /\ PurgedJobs[j].state = "Running" <=> jobs[j].state = "Running"
             /\ PurgedJobs[j].state \in {"Unused", "Running"} => PurgedJobs[j] = jobs[j]
  <2>1. CASE PurgedJobs[j] = jobs[j]
    BY ZenonT(30), <2>1
  <2>2. CASE EndedJob(jobs[j]) /\ PurgedJobs[j] = forgotten(j)
    BY ZenonT(30), <2>2, <1>3 DEF EndedJob
  <2>. QED  BY ZenonT(30), <1>5, <2>1, <2>2
<1>7. \A j \in Jobs : PurgedJobs[j].state = "Running" => PurgedJobs[j].size = jobs[j].size
  BY ZenonT(30), <1>6
<1>. QED  BY ZenonT(30), <1>4, <1>6, <1>7 DEF JobsLater

\* Expiry and purging of the guard: only reservations without an owner change,
\* so the owners are served as before.
LEMMA AgedStep ==
  ASSUME NEW g, NEW bufs, NEW jbs, Consistent(g.res, bufs, jbs), NEW t \in Nat,
         NEW gone \in SUBSET Ids, \A i \in gone : g.res[i].state \in Pending \cup Ended,
         NEW late \in SUBSET Ids, \A i \in late : g.res[i].state = "Reserved"
  PROVE  Consistent(Aged(g, gone, late, t).res, bufs, jbs)
<1> DEFINE res2 == Aged(g, gone, late, t).res
<1>0. g.res \in [Ids -> ReservationRecords] /\ DOMAIN g.res = Ids
  BY ZenonT(30) DEF Consistent, Typed
<1>1. res2 = [i \in Ids |-> CASE i \in gone        -> Dropped
                              [] i \in late \ gone -> InState(g.res[i], "Expired", t)
                              [] OTHER            -> g.res[i]]
  BY ZenonT(30), <1>0 DEF Aged
<1> HIDE DEF res2
<1>2. \A i \in Ids : \/ i \in gone /\ res2[i] = Dropped
                     \/ i \in late /\ res2[i] = InState(g.res[i], "Expired", t)
                     \/ res2[i] = g.res[i]
  BY ZenonT(30), <1>1
<1>3. Dropped \in ReservationRecords /\ Dropped.state = "Dropped"
  BY ZenonT(30) DEF Dropped, Unused, ReservationRecords, ReservationStates
<1>4. \A i \in Ids : /\ InState(g.res[i], "Expired", t) \in ReservationRecords
                     /\ InState(g.res[i], "Expired", t).state = "Expired"
  BY ZenonT(30), <1>0 DEF InState, ReservationRecords, ReservationStates, Ended
<1>5. res2 \in [Ids -> ReservationRecords]
  <2>1. \A i \in Ids : res2[i] \in ReservationRecords
    BY ZenonT(30), <1>0, <1>2, <1>3, <1>4
  <2>. QED  BY ZenonT(30), <2>1, <1>1
<1>6. \A i \in Ids : /\ g.res[i].state = "Consumed" => res2[i] = g.res[i]
                     /\ g.res[i].state # "Consumed" => res2[i].state # "Consumed"
                     /\ g.res[i].state \in SpentStates => res2[i].state \in SpentStates
  BY ZenonT(30), <1>2, <1>3, <1>4 DEF Pending, Ended, SpentStates
<1>7. Consistent(res2, bufs, jbs)
  BY ZenonT(30), <1>5, <1>6, GuardStep
<1>. QED  BY ZenonT(30), <1>7 DEF res2

\* A reservation that is pending, or not drawn, afterwards is as it was.
LEMMA AgedPending ==
  ASSUME NEW g, DOMAIN g.res = Ids, NEW gone, NEW late, NEW t, NEW i \in Ids,
         Aged(g, gone, late, t).res[i].state \in Pending \cup {"Unused"}
  PROVE  Aged(g, gone, late, t).res[i] = g.res[i]
<1>1. \/ Aged(g, gone, late, t).res[i] = Dropped
      \/ Aged(g, gone, late, t).res[i] = InState(g.res[i], "Expired", t)
      \/ Aged(g, gone, late, t).res[i] = g.res[i]
  BY ZenonT(30) DEF Aged
<1>2. Dropped.state = "Dropped" /\ InState(g.res[i], "Expired", t).state = "Expired"
  BY ZenonT(30) DEF Dropped, Unused, InState
<1>. QED  BY ZenonT(30), <1>1, <1>2 DEF Pending

\* Only live buffers time out (expire_and_purge).
LEMMA TimedOutLive == TimedOut \in SUBSET Buffers /\ \A b \in TimedOut : LiveBuffer(buffers[b])
  BY ZenonT(30) DEF TimedOut

\* Ageing the guard before a request (expire_and_purge) keeps the tables consistent.
LEMMA CheckedStep ==
  ASSUME NEW g, NEW bufs, NEW jbs, Consistent(g.res, bufs, jbs), now \in Nat, NEW l
  PROVE  /\ Consistent(ExpireAndPurge(g, l, now).res, bufs, jbs)
         /\ Consistent(GuardTick(g, now).res, bufs, jbs)
<1> DEFINE gone == Superseded(g, l) \cup Outdated(g, now)
           late == Overdue(g, now)
<1>0. DOMAIN g.res = Ids
  BY ZenonT(30) DEF Consistent, Typed
<1>1. /\ gone \in SUBSET Ids /\ \A i \in gone : g.res[i].state \in Pending \cup Ended
      /\ late \in SUBSET Ids /\ \A i \in late : g.res[i].state = "Reserved"
      /\ Outdated(g, now) \in SUBSET Ids
      /\ \A i \in Outdated(g, now) : g.res[i].state \in Pending \cup Ended
  BY ZenonT(30), <1>0 DEF Superseded, Outdated, Overdue
<1>2. ExpireAndPurge(g, l, now) = Aged(g, gone, late, now)
  BY ZenonT(30) DEF ExpireAndPurge
<1>3. GuardTick(g, now) = Aged(g, Outdated(g, now), late, now)
  BY ZenonT(30) DEF GuardTick
<1> HIDE DEF gone, late
<1>4. Consistent(Aged(g, Outdated(g, now), late, now).res, bufs, jbs)
  BY ZenonT(30), <1>1, AgedStep
<1>5. Consistent(Aged(g, gone, late, now).res, bufs, jbs)
  BY ZenonT(30), <1>1, AgedStep
<1>. QED  BY ZenonT(30), <1>2, <1>3, <1>4, <1>5

\* Ageing creates no reservation that is open to COMMIT or to a consumer.
LEMMA CheckedPending ==
  ASSUME NEW g, DOMAIN g.res = Ids, NEW l, NEW i \in Ids,
         ExpireAndPurge(g, l, now).res[i].state \in Pending \cup {"Unused"}
  PROVE  ExpireAndPurge(g, l, now).res[i] = g.res[i]
  BY AgedPending DEF ExpireAndPurge
=============================================================================
