------------------------- MODULE GuardAndStoreProofs -------------------------
(***************************************************************************)
(* What RESERVE, COMMIT and RELEASE promise, proved for any number of      *)
(* reservations, requests, leases and ticks.                               *)
(*                                                                         *)
(* That a request holds memory once rests on the decision table: as long   *)
(* as a reservation of the lease in force holds memory, the decision about *)
(* its request is there and open, so a retry finds it (`Backed').  A table *)
(* that a handler has swept or changed is no state of the system, hence    *)
(* the parameters.                                                         *)
(*                                                                         *)
(* The second half is about the stored state of the secure runtime         *)
(* (StateStore), for any set of peers, identities and guards.              *)
(***************************************************************************)
EXTENDS ResourceGuard, StateStore, TLAPS

\* The solver that most steps need, with time to spare; the others name theirs.
USE SMTT(60)

ReservationRecords ==
  [state : {"Unused", "Dropped"} \cup Live \cup Ended, lease : 0 .. leases, req : Reqs \cup {0},
   class : Classes \cup {"None"}, bytes : Nat, expires : Nat, at : Nat]

DecisionRecords ==
  [lease : Nat, class : Classes \cup {"None"}, bytes : Nat,
   decision : {"None", "Reserved", "RefusedSafety", "RefusedBudget", "EntropyUnavailable"},
   id : Ids \cup {NoId}, at : Int]

Clocks == now \in Nat /\ lease \in Nat /\ leases \in Nat /\ lease <= leases

\* a reservation that holds memory was asked for by a request, and is its only one
Single(res) ==
  /\ \A i \in Ids : res[i].state \in Live => res[i].req \in Reqs
  /\ \A i, j \in Ids :
       /\ res[i].state \in Live /\ res[j].state \in Live
       /\ res[i].lease = res[j].lease /\ res[i].req = res[j].req
       => i = j

\* its decision is remembered, and not as one that has ended
Backed(res, table) ==
  \A i \in Ids : res[i].state \in Live /\ res[i].lease = lease /\ lease # 0 =>
    table[res[i].req].lease = lease /\ table[res[i].req].at = NoTime

Good(res, table) ==
  /\ res \in [Ids -> ReservationRecords]
  /\ table \in [Reqs -> DecisionRecords]
  /\ Single(res)
  /\ Backed(res, table)

\* where a reservation may be after it was committed, and after it has ended
Past == {"Committed", "Consumed", "Released", "ConsumedReleased", "Dropped"}

Gone == Ended \cup {"Dropped"}

Stands(a, res) ==
  a.id # NoId =>
    /\ a.id \in Ids
    /\ a.state = "Committed" => res[a.id].state \in Past
    /\ a.state \in Ended => res[a.id].state \in Gone

Ages(res, later) ==
  \A i \in Ids :
    /\ res[i].state \in Past => later[i].state \in Past
    /\ res[i].state \in Gone => later[i].state \in Gone

IInv ==
  /\ Clocks
  /\ Good(guard.res, idem)
  /\ \A q \in Reqs : Stands(cache[q].answer, guard.res)

-----------------------------------------------------------------------------
(* What the steps of the handlers do to the two tables. *)

\* Where a reservation may be after it ended or was committed is the same question
\* at every later step (ReservationState).
LEMMA AgesFurther ==
  ASSUME NEW a, NEW b, NEW c, Ages(a, b), Ages(b, c)
  PROVE  Ages(a, c)
  BY ZenonT(30) DEF Ages

\* An answer that stands goes on standing (commit, release).
LEMMA StandsFurther ==
  ASSUME NEW a, NEW res, NEW later, Stands(a, res), Ages(res, later)
  PROVE  Stands(a, later)
  BY ZenonT(30) DEF Stands, Ages

\* A reservation that holds memory after some were removed and some expired is as it
\* was (expire_and_purge, tick).
LEMMA AgedIsOld ==
  ASSUME NEW g, g.res \in [Ids -> ReservationRecords], NEW gone, NEW late, Clocks,
         \A i \in late : g.res[i].state = "Reserved"
  PROVE  LET r == Aged(g, gone, late, now).res
         IN  /\ r \in [Ids -> ReservationRecords]
             /\ Ages(g.res, r)
             /\ \A i \in Ids : r[i].state \in Live =>
                  r[i] = g.res[i] /\ i \notin gone /\ i \notin late
<1> DEFINE r == Aged(g, gone, late, now).res
<1>1. r = [i \in Ids |-> CASE i \in gone -> Dropped
                          [] i \in late \ gone -> InState(g.res[i], "Expired", now)
                          [] OTHER -> g.res[i]]
  BY ZenonT(30) DEF Aged
<1> HIDE DEF r
<1>2. ASSUME NEW i \in Ids
      PROVE  /\ r[i] \in ReservationRecords
             /\ g.res[i].state \in Past => r[i].state \in Past
             /\ g.res[i].state \in Gone => r[i].state \in Gone
             /\ r[i].state \in Live => r[i] = g.res[i] /\ i \notin gone /\ i \notin late
  <2>0. g.res[i] \in ReservationRecords
    OBVIOUS
  <2>1. CASE i \in gone
    <3>1. r[i] = Dropped
      BY ZenonT(30), <1>1, <2>1
    <3>2. Dropped = [state |-> "Dropped", lease |-> 0, req |-> 0, class |-> "None", bytes |-> 0,
                     expires |-> 0, at |-> 0]
      BY DEF Dropped, Unused
    <3> QED
      BY <3>1, <3>2 DEF ReservationRecords, Clocks, Past, Gone, Live, Pending, Ended
  <2>2. CASE i \in late \ gone
    <3>1. r[i] = InState(g.res[i], "Expired", now)
      BY ZenonT(30), <1>1, <2>2
    <3>2. g.res[i].state = "Reserved"
      BY ZenonT(30), <2>2
    <3> QED
      BY <3>1, <3>2, <2>0 DEF ReservationRecords, InState, Clocks, Past, Gone, Live, Pending, Ended
  <2>3. CASE i \notin gone /\ i \notin late
    BY ZenonT(30), <1>1, <2>0, <2>3
  <2> QED
    BY ZenonT(30), <2>1, <2>2, <2>3
<1> QED
  BY ZenonT(30), <1>1, <1>2 DEF Ages, r

\* A decision is marked when its reservation ends; the mark misses the reservations
\* that go on (mark_idempotence_terminal).
LEMMA MarkedMisses ==
  ASSUME NEW table \in [Reqs -> DecisionRecords], NEW ids \in SUBSET Ids, Clocks,
         guard.res \in [Ids -> ReservationRecords], Single(guard.res),
         \A i \in ids : guard.res[i].state \in Live
  PROVE  /\ MarkTerminal(table, ids) \in [Reqs -> DecisionRecords]
         /\ \A q \in Reqs : MarkTerminal(table, ids)[q].lease = table[q].lease
         /\ \A i \in Ids \ ids : guard.res[i].state \in Live =>
              LET q == guard.res[i].req
              IN  guard.res[i].lease = table[q].lease => MarkTerminal(table, ids)[q] = table[q]
<1>1. ASSUME NEW q \in Reqs
      PROVE  /\ [table[q] EXCEPT !.at = now] \in DecisionRecords
             /\ [table[q] EXCEPT !.at = now].lease = table[q].lease
  <2>1. now \in Int
    BY DEF Clocks
  <2> QED
    BY <2>1, ZenonT(30) DEF DecisionRecords
<1>2. MarkTerminal(table, ids) \in [Reqs -> DecisionRecords]
  BY ZenonT(30), <1>1 DEF MarkTerminal
<1>3. \A q \in Reqs : MarkTerminal(table, ids)[q].lease = table[q].lease
  BY ZenonT(30), <1>1 DEF MarkTerminal
<1>4. ASSUME NEW i \in Ids \ ids, guard.res[i].state \in Live,
             guard.res[i].lease = table[guard.res[i].req].lease
      PROVE  MarkTerminal(table, ids)[guard.res[i].req] = table[guard.res[i].req]
  <2>1. guard.res[i].req \in Reqs
    BY ZenonT(30), <1>4 DEF Single
  <2>2. ~ \E j \in ids : /\ guard.res[j].lease = table[guard.res[i].req].lease
                         /\ guard.res[j].req = guard.res[i].req
    BY ZenonT(30), <1>4 DEF Single
  <2> QED
    BY ZenonT(30), <2>1, <2>2 DEF MarkTerminal
<1> QED
  BY ZenonT(30), <1>2, <1>3, <1>4

\* The tick of the health sampler keeps the tables good (tick).
LEMMA TickKeeps ==
  ASSUME Clocks, Good(guard.res, idem), NEW table,
         table = LET marked == MarkTerminal(idem, Overdue(guard, now))
                 IN  [q \in Reqs |-> IF marked[q].at = NoTime \/ now - marked[q].at <= Retention
                                     THEN marked[q] ELSE NoDecision]
  PROVE  /\ Good(GuardTick(guard, now).res, table)
         /\ Ages(guard.res, GuardTick(guard, now).res)
<1> DEFINE late == Overdue(guard, now)
           r == GuardTick(guard, now).res
           marked == MarkTerminal(idem, late)
<1>0. late \in SUBSET Ids /\ \A i \in late : guard.res[i].state = "Reserved"
  BY ZenonT(30) DEF Overdue, Good
<1>1. /\ r \in [Ids -> ReservationRecords]
      /\ Ages(guard.res, r)
      /\ \A i \in Ids : r[i].state \in Live => r[i] = guard.res[i] /\ i \notin late
  BY <1>0, AgedIsOld DEF GuardTick, Good
<1>2. /\ marked \in [Reqs -> DecisionRecords]
      /\ \A i \in Ids \ late : guard.res[i].state \in Live =>
           LET q == guard.res[i].req
           IN  guard.res[i].lease = idem[q].lease => marked[q] = idem[q]
  BY ZenonT(30), <1>0, MarkedMisses DEF Good, Live, Pending
<1>3. table = [q \in Reqs |-> IF marked[q].at = NoTime \/ now - marked[q].at <= Retention
                             THEN marked[q] ELSE NoDecision]
  BY ZenonT(30)
<1> HIDE DEF late, r, marked
<1>4. table \in [Reqs -> DecisionRecords]
  <2>1. NoDecision \in DecisionRecords
    BY DEF NoDecision, DecisionRecords, NoTime
  <2> QED
    BY ZenonT(30), <1>2, <1>3, <2>1
<1>5. Single(r)
  BY ZenonT(30), <1>1 DEF Good, Single
<1>6. Backed(r, table)
  <2> SUFFICES ASSUME NEW i \in Ids, r[i].state \in Live, r[i].lease = lease, lease # 0
               PROVE  table[r[i].req].lease = lease /\ table[r[i].req].at = NoTime
    BY ZenonT(30) DEF Backed
  <2>1. r[i] = guard.res[i] /\ i \in Ids \ late
    BY <1>1, ZenonT(30)
  <2>2. Single(guard.res) /\ Backed(guard.res, idem)
    BY ZenonT(30) DEF Good
  <2>3. guard.res[i].req \in Reqs
    BY <2>1, <2>2, ZenonT(30) DEF Single
  <2>4. idem[guard.res[i].req].lease = lease /\ idem[guard.res[i].req].at = NoTime
    BY <2>1, <2>2, ZenonT(30) DEF Backed
  <2>5. marked[guard.res[i].req] = idem[guard.res[i].req]
    BY <1>2, <2>1, <2>4, ZenonT(30)
  <2> QED
    BY <1>3, <2>1, <2>3, <2>4, <2>5, ZenonT(30)
<1> QED
  BY ZenonT(30), <1>1, <1>4, <1>5, <1>6 DEF Good, r

\* So does the sweep before a request (expire_and_purge).
LEMMA PurgeKeeps ==
  ASSUME Clocks, Good(guard.res, idem)
  PROVE  /\ Good(Purged.res, PurgedIdem)
         /\ Ages(guard.res, Purged.res)
         /\ \A i \in Ids : Purged.res[i].state \in Live => Purged.res[i] = guard.res[i]
<1> DEFINE late == Overdue(guard, now)
           gone == Superseded(guard, lease) \cup Outdated(guard, now)
           due == Overdue(guard, now) \ Superseded(guard, lease)
           marked == MarkTerminal(idem, due)
<1>0. /\ due \in SUBSET Ids /\ \A i \in late : guard.res[i].state = "Reserved"
      /\ due \subseteq late
  BY ZenonT(30) DEF Overdue, Good
<1>1. /\ Purged.res \in [Ids -> ReservationRecords]
      /\ Ages(guard.res, Purged.res)
      /\ \A i \in Ids : Purged.res[i].state \in Live => Purged.res[i] = guard.res[i] /\ i \notin late
  <2>1. Purged = Aged(guard, gone, late, now)
    BY ZenonT(30) DEF Purged, ExpireAndPurge
  <2>2. guard.res \in [Ids -> ReservationRecords]
    BY ZenonT(30) DEF Good
  <2> HIDE DEF gone, late
  <2> QED
    BY <1>0, <2>1, <2>2, AgedIsOld
<1>2. /\ marked \in [Reqs -> DecisionRecords]
      /\ \A i \in Ids \ due : guard.res[i].state \in Live =>
           LET q == guard.res[i].req
           IN  guard.res[i].lease = idem[q].lease => marked[q] = idem[q]
  BY ZenonT(30), <1>0, MarkedMisses DEF Good, Live, Pending
<1>3. PurgedIdem = [q \in Reqs |-> IF Kept(marked[q]) THEN marked[q] ELSE NoDecision]
  BY ZenonT(30) DEF PurgedIdem
<1> HIDE DEF late, due, marked
<1>4. PurgedIdem \in [Reqs -> DecisionRecords]
  <2>1. NoDecision \in DecisionRecords
    BY DEF NoDecision, DecisionRecords, NoTime
  <2> QED
    BY ZenonT(30), <1>2, <1>3, <2>1
<1>5. Single(Purged.res)
  BY ZenonT(30), <1>1 DEF Good, Single
<1>6. Backed(Purged.res, PurgedIdem)
  BY ZenonT(120), <1>0, <1>1, <1>2, <1>3 DEF Good, Single, Backed, Kept
<1> QED
  BY ZenonT(30), <1>1, <1>4, <1>5, <1>6 DEF Good

\* A reservation may go from one live state to another (commit, consume).
LEMMA SetStateKeeps ==
  ASSUME Clocks, NEW g, NEW table, Good(g.res, table), NEW i \in Ids,
         g.res[i].state \in Pending, NEW s \in {"Committed", "Consumed"}
  PROVE  LET r == SetState(g, i, s).res
         IN  Good(r, table) /\ Ages(g.res, r) /\ r[i].state = s
<1> DEFINE r == SetState(g, i, s).res
<1>1. r = [g.res EXCEPT ![i] = InState(g.res[i], s, 0)]
  BY ZenonT(30) DEF SetState
<1>2. /\ r[i].state = s /\ r[i].lease = g.res[i].lease /\ r[i].req = g.res[i].req
      /\ r[i] \in ReservationRecords
  BY <1>1 DEF Good, InState, ReservationRecords, Live, Pending
<1>3. \A j \in Ids : j # i => r[j] = g.res[j]
  BY ZenonT(30), <1>1 DEF Good
<1>4. r \in [Ids -> ReservationRecords]
  BY ZenonT(30), <1>1, <1>2 DEF Good
<1> HIDE DEF r
<1>5. \A j \in Ids : /\ r[j].lease = g.res[j].lease /\ r[j].req = g.res[j].req
                     /\ r[j].state \in Live => g.res[j].state \in Live
  BY ZenonT(30), <1>2, <1>3 DEF Live, Pending
<1>6. Single(r) /\ Backed(r, table)
  BY ZenonT(120), <1>5 DEF Good, Single, Backed
<1>7. Ages(g.res, r)
  BY ZenonT(30), <1>2, <1>3 DEF Ages, Past, Gone, Pending, Ended
<1> QED
  BY ZenonT(30), <1>2, <1>4, <1>6, <1>7 DEF Good, r

\* The reservations in ids may end in state s, when the decisions become those of after.
MayFinish(g, table, after, ids, s) ==
  /\ Good(g.res, table)
  /\ after \in [Reqs -> DecisionRecords] /\ ids \in SUBSET Ids /\ s \in Ended
  /\ \A i \in ids : g.res[i].state \in Live
  /\ s = "RefusedSafety" => \A i \in ids : g.res[i].state = "Reserved"
  /\ s # "Expired"
  /\ \A i \in Ids \ ids : g.res[i].state \in Live /\ g.res[i].lease = lease /\ lease # 0 =>
       after[g.res[i].req] = table[g.res[i].req]

\* Reservations may end (release_consumed, and with their decisions marked, commit
\* and release).
LEMMA FinishKeeps ==
  ASSUME Clocks, NEW g, NEW table, NEW after, NEW ids, NEW s, MayFinish(g, table, after, ids, s)
  PROVE  LET r == Finish(g, ids, s, now).res
         IN  Good(r, after) /\ Ages(g.res, r) /\ \A i \in ids : r[i].state = s
<1>0. /\ Good(g.res, table)
      /\ after \in [Reqs -> DecisionRecords] /\ ids \in SUBSET Ids /\ s \in Ended
      /\ \A i \in ids : g.res[i].state \in Live
      /\ s = "RefusedSafety" => \A i \in ids : g.res[i].state = "Reserved"
      /\ s # "Expired"
      /\ \A i \in Ids \ ids : g.res[i].state \in Live /\ g.res[i].lease = lease /\ lease # 0 =>
           after[g.res[i].req] = table[g.res[i].req]
  BY ZenonT(30) DEF MayFinish
<1> DEFINE r == Finish(g, ids, s, now).res
<1>1. r = [i \in Ids |-> IF i \in ids THEN InState(g.res[i], s, now) ELSE g.res[i]]
  BY ZenonT(30), <1>0 DEF Finish, Good
<1> HIDE DEF r
<1>2. ASSUME NEW i \in ids
      PROVE  r[i].state = s /\ r[i] \in ReservationRecords
  BY ZenonT(30), <1>0, <1>1 DEF Good, InState, ReservationRecords, Ended, Clocks
<1>3. \A i \in Ids \ ids : r[i] = g.res[i]
  BY ZenonT(30), <1>0, <1>1
<1>4. r \in [Ids -> ReservationRecords]
  BY ZenonT(30), <1>0, <1>1, <1>2 DEF Good
<1>5. \A i \in Ids : r[i].state \in Live => i \notin ids /\ r[i] = g.res[i]
  BY ZenonT(30), <1>0, <1>2, <1>3 DEF Live, Pending, Ended
<1>6. Single(r) /\ Backed(r, after)
  BY <1>0, <1>5 DEF Good, Single, Backed
<1>7. Ages(g.res, r)
  BY ZenonT(30), <1>0, <1>2, <1>3 DEF Ages, Past, Gone, Pending, Live, Ended
<1> QED
  BY ZenonT(30), <1>0, <1>2, <1>4, <1>6, <1>7 DEF Good, r

-----------------------------------------------------------------------------
(* What the handlers leave behind. *)

\* an outcome that keeps the tables good, forgets no end and answers truly
Sound(o) ==
  /\ Good(o.guard.res, o.idem)
  /\ Ages(guard.res, o.guard.res)
  /\ Stands(o.answer, o.guard.res)

\* the tables a handler starts from
Swept(g, table) ==
  /\ Good(g.res, table)
  /\ Ages(guard.res, g.res)
  /\ \A i \in Ids : g.res[i].state \in Live => g.res[i] = guard.res[i]

\* The answer to a decision names the state its reservation is in
\* (apply_resource_request).
LEMMA ReserveAnswerSound ==
  ASSUME NEW g, NEW table, Good(g.res, table), Ages(guard.res, g.res),
         NEW d, NEW id \in Ids \cup {NoId}
  PROVE  Sound(ReserveAnswer(g, table, d, id))
<1> DEFINE o == ReserveAnswer(g, table, d, id)
<1>1. /\ o.guard = g /\ o.idem = table
      /\ \/ o.answer.id = NoId
         \/ o.answer.id = id /\ o.answer.state = g.res[id].state
  BY ZenonT(30) DEF ReserveAnswer, Outcome, Answer, Refusal
<1> HIDE DEF o
<1>2. Stands(o.answer, g.res)
  BY ZenonT(30), <1>1 DEF Stands, Past, Gone
<1> QED
  BY ZenonT(30), <1>1, <1>2 DEF Sound, o

\* A new reservation is the only one of its request: had there been another, the
\* decision would have been found (reserve).
LEMMA InsertKeeps ==
  ASSUME Clocks, lease # 0, NEW g, NEW table, Good(g.res, table), NEW i \in Ids, NEW q \in Reqs,
         NEW class \in Classes, NEW bytes \in Nat,
         g.res[i].state = "Unused", table[q].lease = 0, NEW after, NEW e,
         e = [lease |-> lease, class |-> class, bytes |-> bytes, decision |-> "Reserved",
              id |-> i, at |-> NoTime],
         after = [table EXCEPT ![q] = e]
  PROVE  LET r == Insert(g, i, lease, q, class, bytes, now).res
         IN  Good(r, after) /\ Ages(g.res, r)
<1> DEFINE r == Insert(g, i, lease, q, class, bytes, now).res
           new == [state |-> "Reserved", lease |-> lease, req |-> q, class |-> class,
                   bytes |-> bytes, expires |-> now + ReservationTtl, at |-> 0]
<1>1. r = [g.res EXCEPT ![i] = new]
  BY ZenonT(30) DEF Insert
<1>2. new \in ReservationRecords
  BY ReservationConstants DEF ReservationRecords, Clocks, Live, Pending
<1>3. new.state = "Reserved" /\ new.lease = lease /\ new.req = q
  BY ZenonT(30)
<1>4. e \in DecisionRecords /\ e.lease = lease /\ e.at = NoTime
  BY DEF DecisionRecords, Clocks, NoTime
<1> HIDE DEF r, new
<1>5. r[i] = new /\ \A j \in Ids : j # i => r[j] = g.res[j]
  BY ZenonT(30), <1>1 DEF Good
<1>6. r \in [Ids -> ReservationRecords] /\ after \in [Reqs -> DecisionRecords]
  BY ZenonT(30), <1>1, <1>2, <1>4 DEF Good
<1>7. ASSUME NEW j \in Ids, j # i, r[j].state \in Live, r[j].lease = lease
      PROVE  r[j].req # q
  <2>1. Backed(g.res, table) /\ r[j] = g.res[j]
    BY <1>5, <1>7, ZenonT(30) DEF Good
  <2> QED
    BY <1>7, <2>1, ZenonT(30) DEF Backed
<1>8. Single(r)
  BY ZenonT(120), <1>3, <1>5, <1>7 DEF Good, Single
<1>9. Backed(r, after)
  <2> SUFFICES ASSUME NEW j \in Ids, r[j].state \in Live, r[j].lease = lease
               PROVE  after[r[j].req].lease = lease /\ after[r[j].req].at = NoTime
    BY ZenonT(30) DEF Backed
  <2>1. CASE j = i
    <3>1. r[j].req = q /\ q \in DOMAIN table
      BY <1>3, <1>5, <2>1, ZenonT(30) DEF Good
    <3> QED
      BY <1>4, <3>1, ZenonT(30)
  <2>2. CASE j # i
    <3>1. r[j].req \in Reqs /\ r[j].req # q
      BY ZenonT(30), <1>7, <1>8, <2>2 DEF Single
    <3>2. after[r[j].req] = table[r[j].req]
      BY ZenonT(30), <3>1 DEF Good
    <3> QED
      BY ZenonT(120), <1>5, <2>2, <3>2 DEF Good, Backed
  <2> QED
    BY ZenonT(30), <2>1, <2>2
<1>10. Ages(g.res, r)
  BY ZenonT(30), <1>5 DEF Ages, Past, Gone, Ended
<1> QED
  BY ZenonT(30), <1>6, <1>8, <1>9, <1>10 DEF Good, r

\* A refusal is remembered where there was no decision (reserve).
LEMMA RefuseKeeps ==
  ASSUME Clocks, lease # 0, NEW res, NEW table, Good(res, table), NEW q \in Reqs,
         table[q].lease = 0, NEW e \in DecisionRecords
  PROVE  Good(res, [table EXCEPT ![q] = e])
<1> DEFINE after == [table EXCEPT ![q] = e]
<1>1. after \in [Reqs -> DecisionRecords]
  BY ZenonT(30) DEF Good
<1>2. Backed(res, after)
  BY ZenonT(30) DEF Good, Backed, Single
<1> QED
  BY ZenonT(30), <1>1, <1>2 DEF Good

\* Whatever RESERVE comes to is sound (reserve, apply_resource_request).
LEMMA ReserveSound ==
  ASSUME Clocks, lease # 0, NEW g, NEW table, Swept(g, table), NEW q \in Reqs,
         NEW c \in [op : {"Reserve"}, class : Classes, bytes : Sizes],
         NEW o \in ReserveOutcomes(g, table, q, c)
  PROVE  Sound(o)
<1> DEFINE Decided(d, id, at) ==
             [table EXCEPT ![q] = [lease |-> lease, class |-> c.class,
                bytes |-> c.bytes, decision |-> d, id |-> id, at |-> at]]
           known == table[q]
           drawn == {j \in Ids : /\ "Reserved" \in Decisions(g, c)
                                 /\ g.res[j].state = "Unused"
                                 /\ now + ReservationTtl <= Horizon}
<1>0. /\ Good(g.res, table) /\ Ages(guard.res, g.res)
      /\ c.class \in Classes /\ c.bytes \in Nat
      /\ known.id \in Ids \cup {NoId} /\ known.lease \in Nat
  BY ZenonT(30), GuardConstants DEF Swept, Good, DecisionRecords
<1>1. CASE known.lease # 0 /\ known.class = c.class /\ known.bytes = c.bytes
  <2>1. o = ReserveAnswer(g, table, known.decision, known.id)
    BY ZenonT(30), <1>1 DEF ReserveOutcomes
  <2> QED
    BY ZenonT(30), <1>0, <2>1, ReserveAnswerSound
<1>2. CASE \/ known.lease # 0 /\ ~(known.class = c.class /\ known.bytes = c.bytes)
           \/ known.lease = 0 /\ Count(table) >= Capacity
  <2>1. o.guard = g /\ o.idem = table /\ o.answer.id = NoId
    BY <1>2 DEF ReserveOutcomes, Outcome, Answer, Refusal
  <2> QED
    BY ZenonT(30), <1>0, <2>1 DEF Sound, Stands
<1>3. CASE known.lease = 0 /\ ~(Count(table) >= Capacity)
  <2>1. o \in {ReserveAnswer(Insert(g, j, lease, q, c.class, c.bytes, now),
                             Decided("Reserved", j, NoTime), "Reserved", j) : j \in drawn}
              \cup {ReserveAnswer(g, Decided(d, NoId, now), d, NoId) :
                      d \in Decisions(g, c) \ {"Reserved"}}
    BY ZenonT(30), <1>3 DEF ReserveOutcomes
  <2>2. ASSUME NEW j \in drawn,
               o = ReserveAnswer(Insert(g, j, lease, q, c.class, c.bytes, now),
                                 Decided("Reserved", j, NoTime), "Reserved", j)
        PROVE  Sound(o)
    <3>1. /\ Good(Insert(g, j, lease, q, c.class, c.bytes, now).res, Decided("Reserved", j, NoTime))
          /\ Ages(g.res, Insert(g, j, lease, q, c.class, c.bytes, now).res)
      BY ZenonT(30), <1>0, <1>3, InsertKeeps
    <3>2. Ages(guard.res, Insert(g, j, lease, q, c.class, c.bytes, now).res)
      BY ZenonT(30), <1>0, <3>1, AgesFurther
    <3> HIDE DEF Decided
    <3> QED
      BY ZenonT(30), <2>2, <3>1, <3>2, ReserveAnswerSound
  <2>3. ASSUME NEW d \in Decisions(g, c) \ {"Reserved"},
               o = ReserveAnswer(g, Decided(d, NoId, now), d, NoId)
        PROVE  Sound(o)
    <3>1. d \in {"RefusedSafety", "RefusedBudget", "EntropyUnavailable"}
      BY ZenonT(30) DEF Decisions
    <3>2. [lease |-> lease, class |-> c.class, bytes |-> c.bytes, decision |-> d,
           id |-> NoId, at |-> now] \in DecisionRecords
      BY <1>0, <3>1 DEF DecisionRecords, Clocks
    <3>3. Good(g.res, Decided(d, NoId, now))
      BY ZenonT(30), <1>0, <1>3, <3>2, RefuseKeeps
    <3> HIDE DEF Decided
    <3> QED
      BY ZenonT(30), <1>0, <2>3, <3>3, ReserveAnswerSound
  <2> HIDE DEF Decided, drawn
  <2> QED
    BY ZenonT(30), <2>1, <2>2, <2>3
<1> QED
  BY ZenonT(30), <1>1, <1>2, <1>3

\* A reservation that ends on request takes its decision along (commit, release).
LEMMA GivenUpSound ==
  ASSUME Clocks, lease # 0, NEW g, NEW table, Swept(g, table), NEW i \in Ids, Single(guard.res),
         guard.res \in [Ids -> ReservationRecords],
         g.res[i].state \in Pending, NEW s \in {"Released", "RefusedSafety"},
         s = "RefusedSafety" => g.res[i].state = "Reserved", NEW reason
  PROVE  Sound(Outcome(Finish(g, {i}, s, now), MarkTerminal(table, {i}), Answer(reason, i, s), TRUE))
<1> DEFINE after == MarkTerminal(table, {i})
           r == Finish(g, {i}, s, now).res
<1>1. /\ Good(g.res, table) /\ Ages(guard.res, g.res) /\ guard.res[i].state \in Live
      /\ \A j \in Ids : g.res[j].state \in Live => g.res[j] = guard.res[j]
  <2>1. g.res[i].state \in Live
    BY ZenonT(30) DEF Live
  <2> QED
    BY <2>1, ZenonT(30) DEF Swept
<1>2. /\ after \in [Reqs -> DecisionRecords]
      /\ \A j \in Ids \ {i} : guard.res[j].state \in Live =>
           LET q == guard.res[j].req
           IN  guard.res[j].lease = table[q].lease => after[q] = table[q]
  BY ZenonT(120), <1>1, MarkedMisses DEF Good
<1> HIDE DEF after
<1>3. \A j \in Ids \ {i} : g.res[j].state \in Live /\ g.res[j].lease = lease /\ lease # 0 =>
        after[g.res[j].req] = table[g.res[j].req]
  BY ZenonT(120), <1>1, <1>2 DEF Good, Backed
<1>4. Good(r, after) /\ Ages(g.res, r) /\ r[i].state = s
  <2> DEFINE ids == {i}
  <2>1. ids \in SUBSET Ids /\ s \in Ended /\ s # "Expired" /\ i \in ids
    BY ZenonT(30) DEF Ended
  <2>2. \A k \in ids : g.res[k].state \in Live
    BY ZenonT(30) DEF Live
  <2>3. s = "RefusedSafety" => \A k \in ids : g.res[k].state = "Reserved"
    BY ZenonT(30)
  <2>4. \A j \in Ids \ ids : g.res[j].state \in Live /\ g.res[j].lease = lease /\ lease # 0 =>
          after[g.res[j].req] = table[g.res[j].req]
    BY ZenonT(30), <1>3
  <2>5. r = Finish(g, ids, s, now).res
    BY ZenonT(30)
  <2> HIDE DEF ids, r
  <2>6. /\ Good(Finish(g, ids, s, now).res, after) /\ Ages(g.res, Finish(g, ids, s, now).res)
        /\ \A k \in ids : Finish(g, ids, s, now).res[k].state = s
    <3>1. MayFinish(g, table, after, ids, s)
      BY <1>1, <1>2, <2>1, <2>2, <2>3, <2>4, ZenonT(30) DEF MayFinish
    <3> QED
      BY <3>1, FinishKeeps
  <2> QED
    BY <2>1, <2>5, <2>6, ZenonT(30)
<1>5. Ages(guard.res, r)
  BY ZenonT(30), <1>1, <1>4, AgesFurther
<1>6. Stands(Answer(reason, i, s), r)
  BY ZenonT(30), <1>4 DEF Stands, Answer, Gone, Ended
<1> HIDE DEF r
<1> QED
  BY ZenonT(30), <1>4, <1>5, <1>6 DEF Sound, Outcome, r, after

\* An answer that changes nothing names the state of the reservation, or none.
LEMMA ReportSound ==
  ASSUME NEW g, NEW table, Swept(g, table), NEW a,
         a.id # NoId => a.id \in Ids /\ a.state = g.res[a.id].state
  PROVE  Sound(Outcome(g, table, a, TRUE))
  BY ZenonT(30) DEF Sound, Outcome, Swept, Stands, Past, Gone

\* Whatever COMMIT comes to is sound (commit).
LEMMA CommitSound ==
  ASSUME Clocks, lease # 0, NEW g, NEW table, Swept(g, table), NEW i \in Ids, Single(guard.res),
         guard.res \in [Ids -> ReservationRecords]
  PROVE  Sound(CommitOutcome(g, table, i))
<1> DEFINE o == CommitOutcome(g, table, i)
           state == g.res[i].state
<1>1. CASE ~Known(g, i)
  <2>1. o = Outcome(g, table, NotThere(g, i), TRUE)
    BY ZenonT(30), <1>1 DEF CommitOutcome
  <2>2. NotThere(g, i).id = NoId
    BY ZenonT(30) DEF NotThere, Refusal, Answer
  <2>3. Sound(Outcome(g, table, NotThere(g, i), TRUE))
    BY ZenonT(30), <2>2 DEF Sound, Outcome, Swept, Stands
  <2> QED
    BY ZenonT(30), <2>1, <2>3
<1>2. CASE Known(g, i) /\ state = "Reserved" /\ SafetyRefused
  <2>1. o = Outcome(Finish(g, {i}, "RefusedSafety", now), MarkTerminal(table, {i}),
                    Answer("CommitRefusedSafety", i, "RefusedSafety"), TRUE)
    BY ZenonT(30), <1>2 DEF CommitOutcome
  <2> QED
    BY ZenonT(30), <1>2, <2>1, GivenUpSound DEF Pending
<1>3. CASE Known(g, i) /\ state \in Pending /\ ~(state = "Reserved" /\ SafetyRefused)
  <2>1. o = Outcome(SetState(g, i, "Committed"), table, Answer("None", i, "Committed"), TRUE)
    BY ZenonT(30), <1>3 DEF CommitOutcome
  <2> DEFINE r == SetState(g, i, "Committed").res
  <2>2. Good(r, table) /\ Ages(g.res, r) /\ r[i].state = "Committed"
    <3>1. Good(g.res, table) /\ "Committed" \in {"Committed", "Consumed"}
      BY ZenonT(30) DEF Swept
    <3> QED
      BY <1>3, <3>1, SetStateKeeps, ZenonT(30)
  <2> HIDE DEF r
  <2>3. Ages(guard.res, r)
    BY ZenonT(30), <2>2, AgesFurther DEF Swept
  <2>4. Stands(Answer("None", i, "Committed"), r)
    BY ZenonT(30), <2>2 DEF Stands, Answer, Past, Ended
  <2> QED
    BY <2>1, <2>2, <2>3, <2>4 DEF Sound, Outcome, r
<1>4. CASE Known(g, i) /\ state \notin Pending
  <2>1. o = Outcome(g, table, NotPending(i, state), TRUE)
    BY ZenonT(30), <1>4 DEF CommitOutcome, Pending
  <2> QED
    BY ZenonT(30), <2>1, ReportSound DEF NotPending, Answer
<1> QED
  BY ZenonT(30), <1>1, <1>2, <1>3, <1>4

\* Whatever RELEASE comes to is sound (release).
LEMMA ReleaseSound ==
  ASSUME Clocks, lease # 0, NEW g, NEW table, Swept(g, table), NEW i \in Ids, Single(guard.res),
         guard.res \in [Ids -> ReservationRecords]
  PROVE  Sound(ReleaseOutcome(g, table, i))
<1> DEFINE o == ReleaseOutcome(g, table, i)
           state == g.res[i].state
<1>1. CASE ~Known(g, i)
  <2>1. o = Outcome(g, table, NotThere(g, i), TRUE)
    BY ZenonT(30), <1>1 DEF ReleaseOutcome
  <2>2. NotThere(g, i).id = NoId
    BY ZenonT(30) DEF NotThere, Refusal, Answer
  <2>3. Sound(Outcome(g, table, NotThere(g, i), TRUE))
    BY ZenonT(30), <2>2 DEF Sound, Outcome, Swept, Stands
  <2> QED
    BY ZenonT(30), <2>1, <2>3
<1>2. CASE Known(g, i) /\ state \in Pending
  <2>1. o = Outcome(Finish(g, {i}, "Released", now), MarkTerminal(table, {i}),
                    Answer("None", i, "Released"), TRUE)
    BY ZenonT(30), <1>2 DEF ReleaseOutcome, Pending
  <2> QED
    BY ZenonT(30), <1>2, <2>1, GivenUpSound
<1>3. CASE Known(g, i) /\ state = "Released"
  <2>1. o = Outcome(g, table, Answer("None", i, "Released"), TRUE)
    BY ZenonT(30), <1>3 DEF ReleaseOutcome, Pending
  <2> QED
    BY ZenonT(30), <1>3, <2>1, ReportSound DEF Answer
<1>4. CASE Known(g, i) /\ state \notin Pending /\ state # "Released"
  <2>1. o = Outcome(g, table, NotPending(i, state), TRUE)
    BY ZenonT(30), <1>4 DEF ReleaseOutcome
  <2> QED
    BY ZenonT(30), <2>1, ReportSound DEF NotPending, Answer
<1> QED
  BY ZenonT(30), <1>1, <1>2, <1>3, <1>4

-----------------------------------------------------------------------------
(* The steps. *)

\* The cache loses answers or gains a sound one (resource_requests).
LEMMA ExecuteKeeps ==
  ASSUME IInv, lease # 0, NEW q \in Reqs, NEW c \in Requests, Execute(q, c)
  PROVE  IInv'
<1>1. Swept(Purged, PurgedIdem)
  BY ZenonT(30), PurgeKeeps DEF IInv, Swept
<1>2. PICK o \in Outcomes(Purged, PurgedIdem, q, c) :
        /\ guard' = o.guard
        /\ idem' = o.idem
        /\ cache' = IF o.cached
                    THEN [KeptCache EXCEPT ![q] = [lease |-> lease, request |-> c,
                                                   answer |-> o.answer, at |-> now]]
                    ELSE KeptCache
  BY ZenonT(30) DEF Execute
<1>3. Sound(o)
  <2>1. CASE c \in [op : {"Reserve"}, class : Classes, bytes : Sizes]
    <3>1. o \in ReserveOutcomes(Purged, PurgedIdem, q, c)
      BY ZenonT(30), <1>2, <2>1 DEF Outcomes
    <3> QED
      BY ZenonT(30), <1>1, <2>1, <3>1, ReserveSound DEF IInv
  <2>2. CASE c \in [op : {"Commit", "Release"}, id : Ids]
    <3>1. o = CommitOutcome(Purged, PurgedIdem, c.id) \/ o = ReleaseOutcome(Purged, PurgedIdem, c.id)
      BY ZenonT(30), <1>2, <2>2 DEF Outcomes
    <3> QED
      <4>1. Single(guard.res) /\ guard.res \in [Ids -> ReservationRecords] /\ Clocks
        BY ZenonT(30) DEF IInv, Good
      <4>2. c.id \in Ids
        BY <2>2, ZenonT(30)
      <4> QED
        BY <1>1, <3>1, <4>1, <4>2, CommitSound, ReleaseSound, ZenonT(30)
  <2> QED
    BY ZenonT(30), <2>1, <2>2 DEF Requests
<1>4. Clocks' /\ lease' = lease /\ leases' = leases
  BY ZenonT(30) DEF Execute, IInv, Clocks
<1>5. Good(guard.res, idem)'
  BY ZenonT(30), <1>2, <1>3, <1>4 DEF Sound, Good, Backed, Single, ReservationRecords, DecisionRecords
<1>6. ASSUME NEW p \in Reqs
      PROVE  Stands(cache[p].answer, guard.res)'
  <2>1. Stands(cache[p].answer, o.guard.res)
    BY ZenonT(30), <1>3, StandsFurther DEF IInv, Sound
  <2>2. NoEntry.answer.id = NoId
    BY ZenonT(30) DEF NoEntry, Refusal, Answer
  <2>3. Stands(KeptCache[p].answer, o.guard.res)
    BY ZenonT(30), <2>1, <2>2 DEF KeptCache, Stands
  <2>4. cache'[p].answer \in {o.answer, KeptCache[p].answer}
    BY ZenonT(30), <1>2 DEF KeptCache
  <2> QED
    BY ZenonT(30), <1>2, <1>3, <2>3, <2>4 DEF Sound, Stands
<1> QED
  BY ZenonT(30), <1>4, <1>5, <1>6 DEF IInv

\* A request that is answered from the table, or finds it full, only sweeps the
\* table (apply_resource_request).
LEMMA ReplayKeeps ==
  ASSUME IInv, NEW q \in Reqs, Repeated(q) \/ TableFull(q)
  PROVE  IInv'
<1>1. /\ cache' = KeptCache /\ UNCHANGED <<now, lease, leases, guard, idem>>
  BY ZenonT(30) DEF Repeated, TableFull
<1>2. NoEntry.answer.id = NoId
  BY ZenonT(30) DEF NoEntry, Refusal, Answer
<1>3. ASSUME NEW p \in Reqs
      PROVE  Stands(cache[p].answer, guard.res)'
  BY ZenonT(30), <1>1, <1>2 DEF KeptCache, Stands, IInv
<1>4. Clocks' /\ Good(guard.res, idem)'
  BY ZenonT(30), <1>1 DEF IInv, Clocks, Good, Backed, Single, ReservationRecords, DecisionRecords
<1> QED
  BY ZenonT(30), <1>3, <1>4 DEF IInv

\* The environment's steps (consume, release_consumed, the lease, tick).
LEMMA EnvironmentKeeps ==
  ASSUME IInv,
         \/ \E i \in Ids : Consume(i) \/ Dispose(i)
         \/ GrantLease \/ EndLease
         \/ \E sample \in Samples : HealthTick(sample)
         \/ Tick
  PROVE  IInv'
<1>0. /\ Clocks /\ Good(guard.res, idem)
      /\ \A q \in Reqs : Stands(cache[q].answer, guard.res)
  BY ZenonT(30) DEF IInv
<1>1. ASSUME NEW res, NEW table, Good(res, table), Ages(guard.res, res), Clocks',
             guard'.res = res, idem' = table, lease' = lease, leases' = leases, cache' = cache
      PROVE  IInv'
  <2>1. Good(guard.res, idem)'
    BY ZenonT(30), <1>1 DEF Good, Backed, Single, ReservationRecords, DecisionRecords
  <2>2. \A q \in Reqs : Stands(cache[q].answer, guard.res)'
    BY ZenonT(30), <1>0, <1>1, StandsFurther DEF Stands
  <2> QED
    BY ZenonT(30), <1>1, <2>1, <2>2 DEF IInv
<1>2. ASSUME NEW i \in Ids, Consume(i)
      PROVE  IInv'
  <2>1. Good(Purged.res, PurgedIdem) /\ Ages(guard.res, Purged.res)
    BY ZenonT(30), <1>0, PurgeKeeps
  <2>2. Clocks' /\ lease' = lease /\ leases' = leases /\ cache' = cache /\ idem' = PurgedIdem
    BY ZenonT(30), <1>0, <1>2 DEF Consume, Clocks
  <2>3. CASE Purged.res[i].state = "Committed" /\ guard' = SetState(Purged, i, "Consumed")
    <3>1. /\ Good(SetState(Purged, i, "Consumed").res, PurgedIdem)
          /\ Ages(Purged.res, SetState(Purged, i, "Consumed").res)
      BY ZenonT(30), <1>0, <2>1, <2>3, SetStateKeeps DEF Pending
    <3>2. Ages(guard.res, SetState(Purged, i, "Consumed").res)
      BY ZenonT(30), <2>1, <3>1, AgesFurther
    <3> QED
      BY ZenonT(30), <1>1, <2>2, <2>3, <3>1, <3>2
  <2>4. CASE guard' = Purged
    BY ZenonT(30), <1>1, <2>1, <2>2, <2>4
  <2> QED
    BY ZenonT(30), <1>2, <2>3, <2>4 DEF Consume, Consumable
<1>3. ASSUME NEW claims
      PROVE  LET r == ReleaseConsumed(guard, claims, now).res
             IN  Good(r, idem) /\ Ages(guard.res, r)
  <2> DEFINE ids == {i \in DOMAIN guard.res :
                       /\ guard.res[i].state = "Consumed"
                       /\ [id |-> i, class |-> guard.res[i].class,
                           bytes |-> guard.res[i].bytes] \in claims}
  <2>1. ids \in SUBSET Ids /\ \A i \in ids : guard.res[i].state = "Consumed"
    BY ZenonT(30), <1>0 DEF Good
  <2>2. ReleaseConsumed(guard, claims, now) = Finish(guard, ids, "ConsumedReleased", now)
    BY ZenonT(30) DEF ReleaseConsumed
  <2> HIDE DEF ids
  <2>3. idem \in [Reqs -> DecisionRecords]
    BY ZenonT(30), <1>0 DEF Good
  <2>4. "ConsumedReleased" \in Ended /\ \A i \in ids : guard.res[i].state \in Live
    BY <2>1, ZenonT(30) DEF Live, Ended
  <2>5. Good(Finish(guard, ids, "ConsumedReleased", now).res, idem)
        /\ Ages(guard.res, Finish(guard, ids, "ConsumedReleased", now).res)
    <3>1. MayFinish(guard, idem, idem, ids, "ConsumedReleased")
      BY <1>0, <2>1, <2>3, <2>4, ZenonT(30) DEF MayFinish
    <3> QED
      BY <1>0, <3>1, FinishKeeps, ZenonT(30)
  <2> QED
    BY <2>2, <2>5, ZenonT(30)
<1>4. ASSUME NEW i \in Ids, Dispose(i)
      PROVE  IInv'
  BY ZenonT(30), <1>0, <1>1, <1>3, <1>4 DEF Dispose, Clocks
<1>5. CASE EndLease
  <2> DEFINE claims == {Claim(i) : i \in Ids}
             r == ReleaseConsumed(guard, claims, now).res
  <2>2. guard'.res = r /\ UNCHANGED <<now, leases, idem, cache>> /\ lease' = 0
    BY ZenonT(30), <1>5 DEF EndLease
  <2> HIDE DEF claims
  <2>1. Good(r, idem) /\ Ages(guard.res, r)
    BY <1>3, ZenonT(30)
  <2> HIDE DEF r
  <2>3. Clocks' /\ Good(guard.res, idem)'
    <3>1. Clocks'
      BY <1>0, <2>2 DEF Clocks
    <3>2. Backed(guard.res, idem)'
      BY <2>2, ZenonT(30) DEF Backed
    <3>. QED  BY <2>1, <2>2, <3>1, <3>2, ZenonT(30) DEF Good, Single, ReservationRecords, DecisionRecords
  <2>4. \A q \in Reqs : Stands(cache[q].answer, guard.res)'
    BY ZenonT(30), <1>0, <2>1, <2>2, StandsFurther DEF Stands
  <2> QED
    BY ZenonT(30), <2>3, <2>4 DEF IInv
<1>6. CASE GrantLease
  <2>1. UNCHANGED <<now, guard, idem, cache>> /\ lease' = leases + 1 /\ leases' = leases + 1
    BY ZenonT(30), <1>6 DEF GrantLease
  <2>0. Clocks
    BY <1>0, ZenonT(30)
  <2>2. Clocks'
    BY <2>0, <2>1 DEF Clocks
  <2>3. ReservationRecords \subseteq ReservationRecords'
    BY <2>0, <2>1 DEF ReservationRecords, Clocks
  <2>4. guard'.res \in [Ids -> ReservationRecords'] /\ idem' \in [Reqs -> DecisionRecords']
    BY ZenonT(30), <1>0, <2>1, <2>3 DEF Good, DecisionRecords
  <2>5. \A i \in Ids : guard.res[i].lease \in 0 .. leases
    BY ZenonT(30), <1>0 DEF Good, ReservationRecords
  <2>6. \A i \in Ids : guard'.res[i].lease # lease'
    BY <1>0, <2>1, <2>5 DEF Clocks
  <2>7. Single(guard.res)' /\ Backed(guard.res, idem)'
    BY ZenonT(30), <1>0, <2>1, <2>6 DEF Good, Single, Backed
  <2> QED
    BY ZenonT(30), <1>0, <2>1, <2>2, <2>4, <2>7 DEF IInv, Good, Stands
<1>7. ASSUME NEW sample \in Samples, HealthTick(sample)
      PROVE  IInv'
  <2>1. Good(GuardTick(guard, now).res, idem') /\ Ages(guard.res, GuardTick(guard, now).res)
    BY ZenonT(30), <1>0, <1>7, TickKeeps DEF HealthTick
  <2> QED
    BY ZenonT(30), <1>0, <1>1, <1>7, <2>1 DEF HealthTick, Clocks
<1>8. CASE Tick
  <2>1. Ages(guard.res, guard.res)
    BY ZenonT(30) DEF Ages
  <2> QED
    BY <1>0, <1>1, <1>8, <2>1 DEF Tick, Clocks
<1> QED
  BY ZenonT(30), <1>2, <1>4, <1>5, <1>6, <1>7, <1>8

\* The invariant holds at the start and every step keeps it.
LEMMA GuardInvariant == GuardSpec => []IInv
<1>1. GuardInit => IInv
  <2> SUFFICES ASSUME GuardInit PROVE IInv
    BY ZenonT(30)
  <2>1. Unused \in ReservationRecords /\ Unused.state = "Unused" /\ NoDecision \in DecisionRecords
    <3>1. NoDecision \in DecisionRecords
      BY DEF NoDecision, DecisionRecords, NoTime
    <3>2. Unused \in ReservationRecords /\ Unused.state = "Unused"
      BY DEF GuardInit, Unused, ReservationRecords
    <3> QED
      BY ZenonT(30), <3>1, <3>2
  <2>2. Good(guard.res, idem)
    BY ZenonT(30), <2>1 DEF GuardInit, Good, Single, Backed, Live, Pending
  <2>3. \A q \in Reqs : Stands(cache[q].answer, guard.res)
    BY ZenonT(30) DEF GuardInit, NoEntry, Refusal, Answer, Stands
  <2> QED
    BY <2>2, <2>3 DEF GuardInit, Clocks, IInv
<1>2. IInv /\ [GuardNext]_guardVars => IInv'
  <2> SUFFICES ASSUME IInv, [GuardNext]_guardVars PROVE IInv'
    BY ZenonT(30)
  <2>1. ASSUME NEW q \in Reqs, NEW c \in Requests, Request(q, c)
        PROVE  IInv'
    BY ZenonT(30), <2>1, ExecuteKeeps, ReplayKeeps DEF Request
  <2>2. CASE UNCHANGED guardVars
    BY ZenonT(30), <2>2 DEF guardVars, IInv, Clocks, Good, Single, Backed, Stands, ReservationRecords, DecisionRecords
  <2> QED
    BY ZenonT(30), <2>1, <2>2, EnvironmentKeeps DEF GuardNext
<1> QED
  BY <1>1, <1>2, PTL DEF GuardSpec

\* A RESERVE retried at any time never obtains a second reservation while the first
\* one holds memory, whatever was forgotten, expired or superseded in between
\* (reserve, mark_idempotence_terminal, expire_and_purge).
THEOREM RetriesHoldOnce == GuardSpec => []OneReservationPerRequest
<1>1. IInv => OneReservationPerRequest
  BY ZenonT(30) DEF IInv, Good, Single, OneReservationPerRequest
<1> QED
  BY <1>1, GuardInvariant, PTL

\* A COMMIT that was acknowledged is not undone by an expiry or by a health sample,
\* and what a RELEASE has given back never holds memory again (commit, release,
\* expire_reserved, consume).
THEOREM AnswersAlwaysStand == GuardSpec => []AnswersStand
<1>1. IInv => AnswersStand
  BY ZenonT(30) DEF IInv, Stands, AnswersStand, Past, Gone, Live, Pending, Ended
<1> QED
  BY <1>1, GuardInvariant, PTL

-----------------------------------------------------------------------------
(* The stored state: the inductive invariant.                              *)
(*                                                                         *)
(* A name stands only for content that was synced before it took the name, *)
(* so that a crash leaves of each file the old one or the new one; and the *)
(* identity is on disk before the first session is counted under it.       *)

\* what a name may stand for
Vals(n) == IF n = Identity THEN Identities ELSE IF n = Guard THEN Guards ELSE {Record}

Whole(n, f) == f = NoFile \/ \E v \in Vals(n) : f = [val |-> v, safe |-> TRUE]

DiskOK(live, kept) == \A n \in Names : Whole(n, live[n]) /\ Whole(n, kept[n])

\* what the stage of a write says of its temporary file and of the disk
WriteOK(live, kept) ==
  /\ w # Idle => w.name \in Names /\ w.val \in Vals(w.name)
  /\ w.stage = "sync" => w.file = [val |-> w.val, safe |-> FALSE]
  /\ w.stage = "rename" => w.file = [val |-> w.val, safe |-> TRUE]
  /\ w.stage \in {"dirsync", "done"} => live[w.name].val = w.val
  /\ w.stage = "done" => \A n \in Directory(w.name) : kept[n] = live[n]

\* who writes what, and the identity that was loaded
RunOK(live) ==
  /\ run.pc \in {"stopped", "peers"} => w = Idle
  /\ run.pc = "creating" => w.name = Identity
  /\ run.pc = "saving" => w.name = Guard
  /\ run.pc = "up" => w = Idle \/ w.name \in Peers \cup {Guard}
  /\ run.pc \in {"stopped", "creating"} => run.id = "none"
  /\ run.pc \in {"peers", "saving", "up"} => run.id \in Identities /\ live[Identity].val = run.id
  /\ \A p \in run.peers : p \in Peers /\ live[p].val = Record

\* nothing was used before the identity was on disk, and no other is created then
UsedOK(live, kept) ==
  used # {} => /\ run.pc # "creating"
               /\ \E k \in Identities : used = {k} /\ live[Identity].val = k /\ kept[Identity].val = k

AckedOK(live, kept) ==
  /\ acked[Identity] = "none"
  /\ \A p \in Peers : acked[p] \in {"none", Record}
  /\ w.name = Guard => acked[Guard] = "none"
  /\ \A n \in Names : acked[n] # "none" => live[n].val = acked[n] /\ kept[n].val = acked[n]

Stages == {"idle", "open", "write", "sync", "rename", "dirsync", "done", "failed"}

Shapes ==
  /\ disk = [live |-> disk.live, kept |-> disk.kept] /\ DOMAIN disk.live = Names /\ DOMAIN disk.kept = Names
  /\ w = [stage |-> w.stage, name |-> w.name, val |-> w.val, file |-> w.file]
  /\ w.stage \in Stages /\ (w.stage = "idle" <=> w = Idle)
  /\ run = [pc |-> run.pc, id |-> run.id, peers |-> run.peers, guard |-> run.guard]
  /\ run.pc \in {"stopped", "creating", "peers", "saving", "up"}
  /\ acked = [n \in Names |-> acked[n]]

StateInv ==
  /\ Shapes
  /\ DiskOK(disk.live, disk.kept)
  /\ WriteOK(disk.live, disk.kept)
  /\ RunOK(disk.live)
  /\ UsedOK(disk.live, disk.kept)
  /\ AckedOK(disk.live, disk.kept)

-----------------------------------------------------------------------------
\* The names.
LEMMA NamesAre ==
  ASSUME StoreConstants
  PROVE  /\ Identity \in Names /\ Guard \in Names /\ Identity # Guard /\ Peers \subseteq Names
         /\ \A p \in Peers : p # Identity /\ p # Guard /\ Vals(p) = {Record} /\ p \notin Root
         /\ Directory(Identity) = Root /\ Directory(Guard) = Root
         /\ Vals(Identity) = Identities /\ Vals(Guard) = Guards
         /\ \A n \in Names : n = Identity \/ n = Guard \/ n \in Peers
         /\ Record # "none" /\ "none" \notin Identities
<1>1. Identity # Guard /\ Record # "none"
  BY ZenonT(30) DEF Identity, Guard, Record
<1>. QED  BY <1>1, ZenonT(30) DEF StoreConstants, Names, Root, Vals, Directory

\* A name that stands for a whole file stands for it after a crash.
LEMMA CrashIs ==
  ASSUME Shapes, DiskOK(disk.live, disk.kept), NEW d \in Crashes(disk)
  PROVE  /\ d = [live |-> d.live, kept |-> d.live] /\ DOMAIN d.live = Names
         /\ \A n \in Names : d.live[n] = disk.live[n] \/ d.live[n] = disk.kept[n]
<1> DEFINE possible(n) == Survivors(disk.live[n]) \cup Survivors(disk.kept[n])
<1>1. DOMAIN disk.live = Names
  BY ZenonT(30) DEF Shapes
<1>2. PICK f : /\ d = [live |-> f, kept |-> f] /\ DOMAIN f = Names
               /\ \A n \in Names : f[n] \in possible(n)
  BY <1>1, ZenonT(30) DEF Crashes
<1>3. \A n \in Names : Survivors(disk.live[n]) = {disk.live[n]} /\ Survivors(disk.kept[n]) = {disk.kept[n]}
  <2>1. \A n, g : Whole(n, g) => g.safe = TRUE
    BY DEF Whole, NoFile
  <2>. QED  BY <2>1, ZenonT(30) DEF DiskOK, Survivors
<1>4. d.live = f
  BY ZenonT(30), <1>2
<1>. QED  BY <1>2, <1>3, <1>4, ZenonT(30)

\* One system call of a write that succeeds.
LEMMA GoesIs ==
  ASSUME StateInv, WriteGoes
  PROVE  \/ /\ w.stage = "open" /\ disk' = disk
            /\ w' = [stage |-> "write", name |-> w.name, val |-> w.val, file |-> [val |-> "empty", safe |-> FALSE]]
         \/ /\ w.stage = "write" /\ disk' = disk
            /\ w' = [stage |-> "sync", name |-> w.name, val |-> w.val, file |-> [val |-> w.val, safe |-> FALSE]]
         \/ /\ w.stage = "sync" /\ disk' = disk
            /\ w' = [stage |-> "rename", name |-> w.name, val |-> w.val, file |-> [val |-> w.val, safe |-> TRUE]]
         \/ /\ w.stage = "rename" /\ disk' = [live |-> [disk.live EXCEPT ![w.name] = w.file], kept |-> disk.kept]
            /\ w' = [stage |-> "dirsync", name |-> w.name, val |-> w.val, file |-> w.file]
         \/ /\ w.stage = "dirsync"
            /\ disk' = [live |-> disk.live,
                        kept |-> [n \in Names |-> IF n \in Directory(w.name) THEN disk.live[n] ELSE disk.kept[n]]]
            /\ w' = [stage |-> "done", name |-> w.name, val |-> w.val, file |-> w.file]
<1> DEFINE o == Succeeds(disk, w, Directory(w.name))
<1>1. disk' = o.disk /\ w' = o.w /\ Writing(w)
  BY ZenonT(30) DEF WriteGoes
<1>2. ASSUME NEW d, NEW x, o = Out(d, x) PROVE disk' = d /\ w' = x
  <2> HIDE DEF o
  <2>. QED  BY ZenonT(30), <1>1, <1>2 DEF Out
<1>3. /\ w = [stage |-> w.stage, name |-> w.name, val |-> w.val, file |-> w.file]
      /\ disk = [live |-> disk.live, kept |-> disk.kept] /\ DOMAIN disk.kept = Names
  BY ZenonT(30) DEF StateInv, Shapes
<1>4. ASSUME NEW st, NEW f
      PROVE  /\ [w EXCEPT !.stage = st, !.file = f] = [stage |-> st, name |-> w.name, val |-> w.val, file |-> f]
             /\ [w EXCEPT !.stage = st] = [stage |-> st, name |-> w.name, val |-> w.val, file |-> w.file]
  <2> DEFINE x == [w EXCEPT !.stage = st]
  <2>1. x = [stage |-> st, name |-> w.name, val |-> w.val, file |-> w.file]
    BY <1>3
  <2>2. [w EXCEPT !.stage = st, !.file = f] = [x EXCEPT !.file = f]
    BY ZenonT(30)
  <2> HIDE DEF x
  <2>3. [x EXCEPT !.file = f] = [stage |-> st, name |-> w.name, val |-> w.val, file |-> f]
    BY <2>1
  <2>. QED  BY ZenonT(30), <2>1, <2>2, <2>3 DEF x
<1>5. CASE w.stage = "open"
  <2>1. o = Out(disk, [w EXCEPT !.stage = "write", !.file = [val |-> "empty", safe |-> FALSE]])
    BY <1>5, ZenonT(30) DEF Succeeds
  <2> HIDE DEF o
  <2>2. disk' = disk /\ w' = [w EXCEPT !.stage = "write", !.file = [val |-> "empty", safe |-> FALSE]]
    BY <1>2, <2>1, ZenonT(30)
  <2>3. w' = [stage |-> "write", name |-> w.name, val |-> w.val, file |-> [val |-> "empty", safe |-> FALSE]]
    BY <1>4, <2>2, ZenonT(30)
  <2>. QED  BY <1>5, <2>2, <2>3, ZenonT(30)
<1>6. CASE w.stage = "write"
  <2>1. o = Out(disk, [w EXCEPT !.stage = "sync", !.file = [val |-> w.val, safe |-> FALSE]])
    BY <1>6, ZenonT(30) DEF Succeeds, AfterWrite
  <2> HIDE DEF o
  <2>2. disk' = disk /\ w' = [w EXCEPT !.stage = "sync", !.file = [val |-> w.val, safe |-> FALSE]]
    BY <1>2, <2>1, ZenonT(30)
  <2>3. w' = [stage |-> "sync", name |-> w.name, val |-> w.val, file |-> [val |-> w.val, safe |-> FALSE]]
    BY <1>4, <2>2, ZenonT(30)
  <2>. QED  BY <1>6, <2>2, <2>3, ZenonT(30)
<1>7. CASE w.stage = "sync"
  <2>1. o = Out(disk, [w EXCEPT !.stage = "rename", !.file.safe = TRUE])
    BY <1>7, ZenonT(30) DEF Succeeds
  <2> HIDE DEF o
  <2>2. w.file = [val |-> w.val, safe |-> FALSE]
    BY <1>7, ZenonT(30) DEF StateInv, WriteOK
  <2> DEFINE f == [w.file EXCEPT !.safe = TRUE]
  <2>3. [w EXCEPT !.stage = "rename", !.file.safe = TRUE] = [w EXCEPT !.stage = "rename", !.file = f]
    <3> DEFINE x == [w EXCEPT !.stage = "rename"]
    <3>1. x.file = w.file
      BY ZenonT(30), <1>3
    <3>2. [w EXCEPT !.stage = "rename", !.file.safe = TRUE] = [x EXCEPT !.file = [x.file EXCEPT !.safe = TRUE]]
      BY ZenonT(30)
    <3>. QED  BY <3>1, <3>2, ZenonT(30)
  <2>4. f = [val |-> w.val, safe |-> TRUE]
    <3>1. [[val |-> w.val, safe |-> FALSE] EXCEPT !.safe = TRUE] = [val |-> w.val, safe |-> TRUE]
      <4>1. ASSUME NEW v, NEW a, NEW b
            PROVE  [[val |-> v, safe |-> a] EXCEPT !.safe = b] = [val |-> v, safe |-> b]
        OBVIOUS
      <4>. QED  BY <4>1, ZenonT(30)
    <3>2. f = [[val |-> w.val, safe |-> FALSE] EXCEPT !.safe = TRUE]
      BY <2>2, ZenonT(30)
    <3> HIDE DEF f
    <3>. QED  BY <3>1, <3>2, ZenonT(30)
  <2>5. disk' = disk /\ w' = [w EXCEPT !.stage = "rename", !.file.safe = TRUE]
    BY <1>2, <2>1, ZenonT(30)
  <2> HIDE DEF f
  <2>6. w' = [stage |-> "rename", name |-> w.name, val |-> w.val, file |-> f]
    BY <1>4, <2>3, <2>5, ZenonT(30)
  <2>. QED  BY <1>7, <2>4, <2>5, <2>6, ZenonT(30)
<1>8. CASE w.stage = "rename"
  <2> DEFINE l == [disk.live EXCEPT ![w.name] = w.file]
  <2>1. o = Out([disk EXCEPT !.live[w.name] = w.file], [w EXCEPT !.stage = "dirsync"])
    BY <1>8, ZenonT(30) DEF Succeeds, AfterRename
  <2> HIDE DEF o
  <2>2. [disk EXCEPT !.live[w.name] = w.file] = [disk EXCEPT !.live = l]
    BY ZenonT(30)
  <2> HIDE DEF l
  <2>3. [disk EXCEPT !.live = l] = [live |-> l, kept |-> disk.kept]
    BY <1>3
  <2>4. disk' = [live |-> l, kept |-> disk.kept] /\ w' = [w EXCEPT !.stage = "dirsync"]
    BY <1>2, <2>1, <2>2, <2>3, ZenonT(30)
  <2>5. w' = [stage |-> "dirsync", name |-> w.name, val |-> w.val, file |-> w.file]
    BY <1>4, <2>4, ZenonT(30)
  <2>. QED  BY <1>8, <2>4, <2>5, ZenonT(30) DEF l
<1>9. CASE w.stage = "dirsync"
  <2> DEFINE k == [n \in Names |-> IF n \in Directory(w.name) THEN disk.live[n] ELSE disk.kept[n]]
  <2>1. o = Out([disk EXCEPT !.kept = k], [w EXCEPT !.stage = "done"])
    BY <1>3, <1>9, ZenonT(30) DEF Succeeds
  <2> HIDE DEF o
  <2> HIDE DEF k
  <2>2. [disk EXCEPT !.kept = k] = [live |-> disk.live, kept |-> k]
    BY <1>3
  <2>3. disk' = [live |-> disk.live, kept |-> k] /\ w' = [w EXCEPT !.stage = "done"]
    BY <1>2, <2>1, <2>2, ZenonT(30)
  <2>4. w' = [stage |-> "done", name |-> w.name, val |-> w.val, file |-> w.file]
    BY <1>4, <2>3, ZenonT(30)
  <2>. QED  BY <1>9, <2>3, <2>4, ZenonT(30) DEF k
<1>. QED  BY <1>1, <1>5, <1>6, <1>7, <1>8, <1>9, ZenonT(30) DEF Writing
-----------------------------------------------------------------------------
\* What the pieces say, for any next state.
LEMMA StateInvIs ==
  StateInv' <=> /\ Shapes'
                /\ \A n \in Names : Whole(n, disk'.live[n]) /\ Whole(n, disk'.kept[n])
                /\ WriteOK(disk.live, disk.kept)' /\ RunOK(disk.live)'
                /\ UsedOK(disk.live, disk.kept)' /\ AckedOK(disk.live, disk.kept)'
BY ZenonT(30) DEF StateInv, DiskOK, Whole, Vals

\* A successful system call keeps what the stages say.
LEMMA GoesKeeps ==
  ASSUME StoreConstants, StateInv, WriteGoes
  PROVE  StateInv'
<1>1. UNCHANGED <<run, used, acked>> /\ Writing(w)
  BY ZenonT(30) DEF WriteGoes
<1>2. /\ Shapes /\ DiskOK(disk.live, disk.kept) /\ WriteOK(disk.live, disk.kept) /\ RunOK(disk.live)
      /\ UsedOK(disk.live, disk.kept) /\ AckedOK(disk.live, disk.kept)
  BY ZenonT(30) DEF StateInv
<1>3. /\ disk = [live |-> disk.live, kept |-> disk.kept] /\ DOMAIN disk.live = Names /\ DOMAIN disk.kept = Names
      /\ run = [pc |-> run.pc, id |-> run.id, peers |-> run.peers, guard |-> run.guard]
      /\ run.pc \in {"stopped", "creating", "peers", "saving", "up"}
      /\ acked = [n \in Names |-> acked[n]]
      /\ w # Idle /\ w.name \in Names /\ w.val \in Vals(w.name)
  <2>1. Idle.stage = "idle"
    BY ZenonT(30) DEF Idle
  <2>2. w # Idle
    BY ZenonT(30), <1>1, <2>1 DEF Writing
  <2>. QED  BY <1>2, <2>2, ZenonT(30) DEF Shapes, WriteOK
<1>4. ASSUME NEW st \in Stages \ {"idle"}, NEW f,
             w' = [stage |-> st, name |-> w.name, val |-> w.val, file |-> f],
             disk' = [live |-> disk'.live, kept |-> disk'.kept],
             DOMAIN disk'.live = Names, DOMAIN disk'.kept = Names
      PROVE  Shapes' /\ w' # Idle /\ w'.stage = st /\ w'.name = w.name /\ w'.val = w.val /\ w'.file = f
  <2>1. w'.stage = st /\ w'.name = w.name /\ w'.val = w.val /\ w'.file = f
    BY ZenonT(30), <1>4
  <2>2. w' # Idle /\ st # "idle"
    BY <2>1 DEF Idle
  <2>3. w' = [stage |-> w'.stage, name |-> w'.name, val |-> w'.val, file |-> w'.file]
    BY <1>4, <2>1, ZenonT(30)
  <2>. QED  BY <1>1, <1>3, <1>4, <2>1, <2>2, <2>3, ZenonT(30) DEF Shapes
<1>5. ASSUME disk' = disk, Shapes', w'.name = w.name, w'.val = w.val, w' # Idle,
             w'.stage = "sync" => w'.file = [val |-> w.val, safe |-> FALSE],
             w'.stage = "rename" => w'.file = [val |-> w.val, safe |-> TRUE],
             w'.stage \notin {"dirsync", "done"}
      PROVE  StateInv'
  <2>1. WriteOK(disk.live, disk.kept)'
    BY <1>3, <1>5, ZenonT(30) DEF WriteOK, Vals
  <2>2. RunOK(disk.live)'
    BY <1>1, <1>2, <1>3, <1>5, ZenonT(30) DEF RunOK
  <2>3. UsedOK(disk.live, disk.kept)' /\ AckedOK(disk.live, disk.kept)'
    BY <1>1, <1>2, <1>5, ZenonT(30) DEF UsedOK, AckedOK
  <2>4. DiskOK(disk.live, disk.kept)'
    BY <1>2, <1>5, ZenonT(30) DEF DiskOK, Whole, Vals
  <2>. QED  BY <1>5, <2>1, <2>2, <2>3, <2>4, ZenonT(30) DEF StateInv
<1>6. "write" \in Stages \ {"idle"} /\ "sync" \in Stages \ {"idle"} /\ "rename" \in Stages \ {"idle"}
      /\ "dirsync" \in Stages \ {"idle"} /\ "done" \in Stages \ {"idle"}
  BY ZenonT(30) DEF Stages
<1>7. ASSUME disk' = disk, NEW st \in {"write", "sync", "rename"}, NEW f,
             w' = [stage |-> st, name |-> w.name, val |-> w.val, file |-> f],
             st = "sync" => f = [val |-> w.val, safe |-> FALSE],
             st = "rename" => f = [val |-> w.val, safe |-> TRUE]
      PROVE  StateInv'
  <2>1. st \in Stages \ {"idle"} /\ st \notin {"dirsync", "done"}
    BY ZenonT(30) DEF Stages
  <2>2. Shapes' /\ w' # Idle /\ w'.stage = st /\ w'.name = w.name /\ w'.val = w.val /\ w'.file = f
    BY <1>3, <1>4, <1>7, <2>1, ZenonT(30)
  <2>. QED  BY <1>5, <1>7, <2>1, <2>2, ZenonT(30)
<1>8. CASE /\ w.stage = "rename" /\ disk' = [live |-> [disk.live EXCEPT ![w.name] = w.file], kept |-> disk.kept]
           /\ w' = [stage |-> "dirsync", name |-> w.name, val |-> w.val, file |-> w.file]
  <2>1. disk'.live = [disk.live EXCEPT ![w.name] = w.file] /\ disk'.kept = disk.kept
    BY ZenonT(30), <1>8
  <2>2. /\ DOMAIN disk'.live = Names /\ disk'.live[w.name] = w.file
        /\ \A n \in Names : n # w.name => disk'.live[n] = disk.live[n]
    BY <1>3, <2>1, ZenonT(30)
  <2>3. w.file = [val |-> w.val, safe |-> TRUE] /\ w.file.val = w.val
    <3>1. w.file = [val |-> w.val, safe |-> TRUE]
      BY <1>2, <1>8, ZenonT(30) DEF WriteOK
    <3>. QED  BY <3>1
  <2>4. disk' = [live |-> disk'.live, kept |-> disk'.kept]
    BY <1>8, <2>1, ZenonT(30)
  <2>5. /\ Shapes' /\ w' # Idle /\ w'.stage = "dirsync" /\ w'.name = w.name /\ w'.val = w.val /\ w'.file = w.file
    BY <1>3, <1>4, <1>6, <1>8, <2>1, <2>2, <2>4, ZenonT(30)
  <2>6. ASSUME NEW n \in Names PROVE Whole(n, disk'.live[n]) /\ Whole(n, disk'.kept[n])
    <3>1. Whole(w.name, w.file)
      BY <1>3, <2>3, ZenonT(30) DEF Whole
    <3>. QED  BY <1>2, <2>1, <2>2, <3>1, ZenonT(30) DEF DiskOK
  <2>7. WriteOK(disk.live, disk.kept)'
    <3>1. "dirsync" \notin {"sync", "rename", "done"}
      BY ZenonT(30)
    <3>. QED  BY <1>3, <2>2, <2>3, <2>5, <3>1, ZenonT(30) DEF WriteOK, Vals
  <2>8. w.name = Identity => run.pc = "creating"
    <3>1. "none" # Identity /\ Idle.name = "none"
      BY ZenonT(30) DEF Identity, Idle
    <3>. QED  BY <1>2, <1>3, NamesAre, ZenonT(30) DEF RunOK
  <2>9. w.name \in Peers => w.val = Record
    BY <1>3, NamesAre, ZenonT(30)
  <2>10. RunOK(disk.live)'
    <3>1. run.pc \in {"peers", "saving", "up"} => disk'.live[Identity] = disk.live[Identity]
      <4>1. run.pc \in {"peers", "saving", "up"} => run.pc # "creating"
        BY ZenonT(30)
      <4>. QED  BY <2>2, <2>8, <4>1, NamesAre, ZenonT(30)
    <3>2. \A p \in run.peers : p \in Peers /\ disk'.live[p].val = Record
      BY <1>2, <2>2, <2>3, <2>9, NamesAre, ZenonT(30) DEF RunOK
    <3>3. w' # Idle /\ w'.name = w.name
      BY ZenonT(30), <2>5
    <3>. QED  BY <1>1, <1>2, <1>3, <3>1, <3>2, <3>3, ZenonT(30) DEF RunOK
  <2>11. UsedOK(disk.live, disk.kept)'
    <3>1. used # {} => w.name # Identity
      BY <1>2, <2>8, ZenonT(30) DEF UsedOK
    <3>. QED  BY <1>1, <1>2, <2>1, <2>2, <3>1, NamesAre, ZenonT(30) DEF UsedOK
  <2>12. AckedOK(disk.live, disk.kept)'
    <3>1. ASSUME NEW n \in Names, acked[n] # "none" PROVE disk'.live[n].val = acked[n]
      <4>1. CASE n # w.name
        BY <1>2, <2>2, <3>1, <4>1, ZenonT(30) DEF AckedOK
      <4>2. CASE n = w.name
        <5>1. n \in Peers
          BY <1>2, <3>1, <4>2, NamesAre, ZenonT(30) DEF AckedOK
        <5>2. acked[n] = Record
          BY <1>2, <3>1, <5>1, ZenonT(30) DEF AckedOK
        <5>. QED  BY <2>2, <2>3, <2>9, <4>2, <5>1, <5>2, ZenonT(30)
      <4>. QED  BY ZenonT(30), <4>1, <4>2
    <3>. QED  BY <1>1, <1>2, <2>1, <2>5, <3>1, ZenonT(30) DEF AckedOK
  <2>. QED  BY <2>5, <2>6, <2>7, <2>10, <2>11, <2>12, StateInvIs, ZenonT(30)
<1>9. CASE /\ w.stage = "dirsync"
           /\ disk' = [live |-> disk.live,
                       kept |-> [n \in Names |-> IF n \in Directory(w.name) THEN disk.live[n] ELSE disk.kept[n]]]
           /\ w' = [stage |-> "done", name |-> w.name, val |-> w.val, file |-> w.file]
  <2> DEFINE k == [n \in Names |-> IF n \in Directory(w.name) THEN disk.live[n] ELSE disk.kept[n]]
  <2>1. DOMAIN k = Names /\ \A n \in Names : k[n] = IF n \in Directory(w.name) THEN disk.live[n] ELSE disk.kept[n]
    BY ZenonT(30)
  <2>2. disk' = [live |-> disk.live, kept |-> k]
    BY ZenonT(30), <1>9
  <2> HIDE DEF k
  <2>3. disk'.live = disk.live /\ disk'.kept = k /\ disk' = [live |-> disk'.live, kept |-> disk'.kept]
    BY ZenonT(30), <2>2
  <2>4. /\ Shapes' /\ w' # Idle /\ w'.stage = "done" /\ w'.name = w.name /\ w'.val = w.val
    BY <1>3, <1>4, <1>6, <1>9, <2>1, <2>3, ZenonT(30)
  <2>5. ASSUME NEW n \in Names PROVE Whole(n, disk'.live[n]) /\ Whole(n, disk'.kept[n])
    BY <1>2, <2>1, <2>3, ZenonT(30) DEF DiskOK
  <2>6. WriteOK(disk.live, disk.kept)'
    <3>1. \A n \in Directory(w.name) : n \in Names
      BY <1>3, NamesAre, ZenonT(30) DEF Directory, Names
    <3>2. disk'.live[w.name].val = w.val
      BY <1>2, <1>9, <2>3, ZenonT(30) DEF WriteOK
    <3>3. \A n \in Directory(w.name) : disk'.kept[n] = disk'.live[n]
      BY <2>1, <2>3, <3>1, ZenonT(30)
    <3>4. "done" \notin {"sync", "rename"}
      BY ZenonT(30)
    <3>. QED  BY <1>3, <2>4, <3>2, <3>3, <3>4, ZenonT(30) DEF WriteOK, Vals, Directory
  <2>7. RunOK(disk.live)'
    BY <1>1, <1>2, <1>3, <2>3, <2>4, ZenonT(30) DEF RunOK
  <2>8. UsedOK(disk.live, disk.kept)'
    BY <1>1, <1>2, <2>1, <2>3, NamesAre, ZenonT(30) DEF UsedOK
  <2>9. AckedOK(disk.live, disk.kept)'
    BY <1>1, <1>2, <2>1, <2>3, <2>4, ZenonT(30) DEF AckedOK
  <2>. QED  BY <2>4, <2>5, <2>6, <2>7, <2>8, <2>9, StateInvIs, ZenonT(30)
<1>10. ASSUME disk' = disk, w' = [stage |-> "write", name |-> w.name, val |-> w.val, file |-> [val |-> "empty", safe |-> FALSE]]
       PROVE  StateInv'
  BY <1>7, <1>10, ZenonT(30)
<1>11. ASSUME disk' = disk, w' = [stage |-> "sync", name |-> w.name, val |-> w.val, file |-> [val |-> w.val, safe |-> FALSE]]
       PROVE  StateInv'
  BY <1>7, <1>11, ZenonT(30)
<1>12. ASSUME disk' = disk, w' = [stage |-> "rename", name |-> w.name, val |-> w.val, file |-> [val |-> w.val, safe |-> TRUE]]
       PROVE  StateInv'
  BY <1>7, <1>12, ZenonT(30)
<1>. QED  BY <1>8, <1>9, <1>10, <1>11, <1>12, GoesIs, ZenonT(30)

\* The records of the writer and of the runtime.
LEMMA WriterIs ==
  /\ Idle.stage = "idle" /\ Idle.name = "none" /\ Idle.val = "none" /\ Idle.file = NoFile
  /\ Idle = [stage |-> "idle", name |-> "none", val |-> "none", file |-> NoFile]
  /\ \A n, v : /\ StartWrite(n, v).stage = "open" /\ StartWrite(n, v).name = n /\ StartWrite(n, v).val = v
               /\ StartWrite(n, v) = [stage |-> "open", name |-> n, val |-> v, file |-> NoFile]
               /\ StartWrite(n, v) # Idle /\ StartWrite(n, v).file = NoFile
  /\ Stopped.pc = "stopped" /\ Stopped.id = "none" /\ Stopped.peers = {} /\ Stopped.guard = New
  /\ Stopped = [pc |-> "stopped", id |-> "none", peers |-> {}, guard |-> New]
<1>1. /\ Idle.stage = "idle" /\ Idle.name = "none" /\ Idle.val = "none" /\ Idle.file = NoFile
      /\ Idle = [stage |-> "idle", name |-> "none", val |-> "none", file |-> NoFile]
  BY ZenonT(30) DEF Idle
<1>2. \A n, v : /\ StartWrite(n, v).stage = "open" /\ StartWrite(n, v).name = n /\ StartWrite(n, v).val = v
                /\ StartWrite(n, v).file = NoFile
                /\ StartWrite(n, v) = [stage |-> "open", name |-> n, val |-> v, file |-> NoFile]
  BY ZenonT(30) DEF StartWrite
<1>3. "open" # "idle"
  BY ZenonT(30)
<1>4. /\ Stopped.pc = "stopped" /\ Stopped.id = "none" /\ Stopped.peers = {} /\ Stopped.guard = New
      /\ Stopped = [pc |-> "stopped", id |-> "none", peers |-> {}, guard |-> New]
  BY ZenonT(30) DEF Stopped
<1>. QED  BY <1>1, <1>2, <1>3, <1>4, ZenonT(30)

\* The fields of a runtime, one or several of them changed.
LEMMA RunWith ==
  ASSUME Shapes, NEW a, NEW b, NEW c
  PROVE  /\ [run EXCEPT !.pc = a] = [pc |-> a, id |-> run.id, peers |-> run.peers, guard |-> run.guard]
         /\ [run EXCEPT !.guard = c] = [pc |-> run.pc, id |-> run.id, peers |-> run.peers, guard |-> c]
         /\ [run EXCEPT !.peers = b] = [pc |-> run.pc, id |-> run.id, peers |-> b, guard |-> run.guard]
         /\ [run EXCEPT !.pc = a, !.id = b] = [pc |-> a, id |-> b, peers |-> run.peers, guard |-> run.guard]
         /\ [run EXCEPT !.pc = a, !.peers = b, !.guard = c] = [pc |-> a, id |-> run.id, peers |-> b, guard |-> c]
<1>1. run = [pc |-> run.pc, id |-> run.id, peers |-> run.peers, guard |-> run.guard]
  BY ZenonT(30) DEF Shapes
<1> DEFINE r1 == [run EXCEPT !.pc = a]
           r2 == [r1 EXCEPT !.peers = b]
<1>3. /\ [run EXCEPT !.pc = a, !.id = b] = [r1 EXCEPT !.id = b]
      /\ [run EXCEPT !.pc = a, !.peers = b, !.guard = c] = [r2 EXCEPT !.guard = c]
  BY ZenonT(30)
<1>4. r1 = [pc |-> a, id |-> run.id, peers |-> run.peers, guard |-> run.guard]
  BY <1>1
<1>5. r2 = [pc |-> a, id |-> run.id, peers |-> b, guard |-> run.guard]
  <2> HIDE DEF r1
  <2>. QED  BY <1>4
<1>6. [r2 EXCEPT !.guard = c] = [pc |-> a, id |-> run.id, peers |-> b, guard |-> c]
  <2> HIDE DEF r2
  <2>. QED  BY <1>5
<1>7. [r1 EXCEPT !.id = b] = [pc |-> a, id |-> b, peers |-> run.peers, guard |-> run.guard]
  <2> HIDE DEF r1
  <2>. QED  BY <1>4
<1>8. [run EXCEPT !.guard = c] = [pc |-> run.pc, id |-> run.id, peers |-> run.peers, guard |-> c]
  BY <1>1
<1>9. [run EXCEPT !.peers = b] = [pc |-> run.pc, id |-> run.id, peers |-> b, guard |-> run.guard]
  BY <1>1
<1>. QED  BY <1>3, <1>4, <1>6, <1>7, <1>8, <1>9, ZenonT(30)

\* A step that leaves the disk alone.
LEMMA DiskStays ==
  ASSUME StateInv, disk' = disk,
         NEW p \in {"stopped", "creating", "peers", "saving", "up"}, NEW i, NEW q, NEW g,
         run' = [pc |-> p, id |-> i, peers |-> q, guard |-> g],
         w' = [stage |-> w'.stage, name |-> w'.name, val |-> w'.val, file |-> w'.file],
         w'.stage \in Stages, w'.stage = "idle" <=> w' = Idle,
         acked' = [n \in Names |-> acked'[n]],
         WriteOK(disk.live, disk.kept)', UsedOK(disk.live, disk.kept)', AckedOK(disk.live, disk.kept)',
         run'.pc = p /\ run'.id = i /\ run'.peers = q => RunOK(disk.live)'
  PROVE  StateInv'
<1>1. run'.pc = p /\ run'.id = i /\ run'.peers = q /\ run'.guard = g
  BY ZenonT(30)
<1>2. run' = [pc |-> run'.pc, id |-> run'.id, peers |-> run'.peers, guard |-> run'.guard]
  BY <1>1, ZenonT(30)
<1>3. Shapes'
  BY <1>1, <1>2, ZenonT(30) DEF StateInv, Shapes
<1>4. DiskOK(disk.live, disk.kept)'
  BY ZenonT(30) DEF StateInv, DiskOK, Whole, Vals
<1>. QED  BY <1>1, <1>3, <1>4, ZenonT(30) DEF StateInv

\* load_or_create_identity finds the identity, or finds it unreadable.
LEMMA StartLoadsKeeps ==
  ASSUME StoreConstants, StateInv, StartLoads
  PROVE  StateInv'
<1>1. /\ Shapes /\ WriteOK(disk.live, disk.kept) /\ RunOK(disk.live)
      /\ UsedOK(disk.live, disk.kept) /\ AckedOK(disk.live, disk.kept) /\ DiskOK(disk.live, disk.kept)
  BY ZenonT(30) DEF StateInv
<1>2. run.pc = "stopped" /\ w = Idle /\ UNCHANGED <<disk, w, used, acked>>
  BY ZenonT(30) DEF StartLoads
<1>3. /\ w = [stage |-> w.stage, name |-> w.name, val |-> w.val, file |-> w.file]
      /\ w.stage \in Stages /\ (w.stage = "idle" <=> w = Idle) /\ acked = [n \in Names |-> acked[n]]
      /\ run = [pc |-> run.pc, id |-> run.id, peers |-> run.peers, guard |-> run.guard]
  BY <1>1, ZenonT(30) DEF Shapes
<1>4. WriteOK(disk.live, disk.kept)' /\ AckedOK(disk.live, disk.kept)'
  BY <1>1, <1>2, ZenonT(30) DEF WriteOK, AckedOK, Vals, Directory
<1>5. CASE IdentityOK
  <2>1. run' = [pc |-> "peers", id |-> LoadIdentity, peers |-> run.peers, guard |-> run.guard]
    BY <1>1, <1>5, RunWith, ZenonT(30) DEF StartLoads
  <2>2. run'.pc = "peers" /\ run'.id = LoadIdentity /\ run'.peers = run.peers
    BY ZenonT(30), <2>1
  <2>3. UsedOK(disk.live, disk.kept)'
    <3>1. "peers" # "creating"
      BY ZenonT(30)
    <3>. QED  BY <1>1, <1>2, <2>2, <3>1, ZenonT(30) DEF UsedOK
  <2>4. RunOK(disk.live)'
    <3>1. "peers" \notin {"creating", "saving", "up", "stopped"}
      BY ZenonT(30)
    <3>. QED  BY <1>1, <1>2, <1>5, <2>2, <3>1, ZenonT(30) DEF RunOK, IdentityOK, LoadIdentity
  <2>. QED  BY <1>2, <1>3, <1>4, <2>1, <2>3, <2>4, DiskStays, ZenonT(30)
<1>6. CASE ~IdentityOK
  <2>1. run' = run
    BY <1>6, ZenonT(30) DEF StartLoads
  <2>2. UsedOK(disk.live, disk.kept)' /\ RunOK(disk.live)'
    BY <1>1, <1>2, <2>1, ZenonT(30) DEF UsedOK, RunOK
  <2>3. run' = [pc |-> run.pc, id |-> run.id, peers |-> run.peers, guard |-> run.guard]
    BY <1>3, <2>1, ZenonT(30)
  <2>. QED  BY <1>2, <1>3, <1>4, <2>2, <2>3, DiskStays, ZenonT(30)
<1>. QED  BY ZenonT(30), <1>5, <1>6

\* An identity is created only when there is none, and then no session was counted.
LEMMA StartCreatesKeeps ==
  ASSUME StoreConstants, StateInv, StartCreates
  PROVE  StateInv'
<1>1. /\ Shapes /\ WriteOK(disk.live, disk.kept) /\ RunOK(disk.live)
      /\ UsedOK(disk.live, disk.kept) /\ AckedOK(disk.live, disk.kept) /\ DiskOK(disk.live, disk.kept)
  BY ZenonT(30) DEF StateInv
<1>2. run.pc = "stopped" /\ w = Idle /\ disk.live[Identity] = NoFile /\ UNCHANGED <<disk, used, acked>>
  BY ZenonT(30) DEF StartCreates
<1>3. PICK k \in Identities : w' = StartWrite(Identity, k)
  BY ZenonT(30) DEF StartCreates
<1>4. /\ w'.stage = "open" /\ w'.name = Identity /\ w'.val = k /\ w' # Idle
      /\ w' = [stage |-> w'.stage, name |-> w'.name, val |-> w'.val, file |-> w'.file]
  BY <1>3, WriterIs, ZenonT(30)
<1>5. "open" \in Stages /\ "open" \notin {"idle", "sync", "rename", "dirsync", "done"}
  BY ZenonT(30) DEF Stages
<1>6. run' = [pc |-> "creating", id |-> run.id, peers |-> run.peers, guard |-> run.guard]
  BY <1>1, RunWith, ZenonT(30) DEF StartCreates
<1>7. run'.pc = "creating" /\ run'.id = run.id /\ run'.peers = run.peers
  BY ZenonT(30), <1>6
<1>8. WriteOK(disk.live, disk.kept)'
  BY <1>4, <1>5, NamesAre, ZenonT(30) DEF WriteOK, Vals
<1>9. UsedOK(disk.live, disk.kept)'
  <2>1. NoFile.val = "none"
    BY ZenonT(30) DEF NoFile
  <2>2. used = {}
    BY <1>1, <1>2, <2>1, NamesAre, ZenonT(30) DEF UsedOK
  <2>. QED  BY <1>2, <2>2, ZenonT(30) DEF UsedOK
<1>10. AckedOK(disk.live, disk.kept)'
  BY <1>1, <1>2, <1>4, NamesAre, ZenonT(30) DEF AckedOK
<1>11. RunOK(disk.live)'
  <2>1. "creating" \notin {"stopped", "peers", "saving", "up"}
    BY ZenonT(30)
  <2>. QED  BY <1>1, <1>2, <1>4, <1>7, <2>1, ZenonT(30) DEF RunOK
<1>12. acked = [n \in Names |-> acked[n]]
  BY <1>1, ZenonT(30) DEF Shapes
<1>. QED  BY <1>2, <1>4, <1>5, <1>6, <1>8, <1>9, <1>10, <1>11, <1>12, DiskStays, ZenonT(30)

\* The writer comes to rest, and the runtime stops or goes on.
LEMMA RestsKeeps ==
  ASSUME StoreConstants, StateInv, disk' = disk, w' = Idle, acked' = [n \in Names |-> acked'[n]],
         NEW p \in {"stopped", "creating", "peers", "saving", "up"}, NEW i, NEW q, NEW g,
         run' = [pc |-> p, id |-> i, peers |-> q, guard |-> g],
         p \notin {"creating", "saving"}, p = "stopped" => i = "none",
         p \in {"peers", "up"} => i \in Identities /\ disk.live[Identity].val = i,
         \A x \in q : x \in Peers /\ disk.live[x].val = Record,
         acked'[Identity] = "none", \A x \in Peers : acked'[x] \in {"none", Record},
         \A n \in Names : acked'[n] # "none" => disk.live[n].val = acked'[n] /\ disk.kept[n].val = acked'[n],
         used' # {} => \E k \in Identities : used' = {k} /\ disk.live[Identity].val = k /\ disk.kept[Identity].val = k
  PROVE  StateInv'
<1>1. Idle.stage = "idle" /\ Idle.name = "none" /\ "idle" \in Stages /\ "none" # Guard
  BY ZenonT(30), WriterIs DEF Stages, Guard
<1>2. "idle" \notin {"sync", "rename", "dirsync", "done"}
  BY ZenonT(30)
<1>3. WriteOK(disk.live, disk.kept)'
  BY <1>1, <1>2, ZenonT(30) DEF WriteOK
<1>4. AckedOK(disk.live, disk.kept)'
  BY <1>1, ZenonT(30) DEF AckedOK
<1>5. run'.pc = p /\ run'.id = i /\ run'.peers = q
  BY ZenonT(30)
<1>6. UsedOK(disk.live, disk.kept)'
  BY <1>5, ZenonT(30) DEF UsedOK
<1>7. RunOK(disk.live)'
  <2>1. p \in {"stopped", "peers", "up"}
    BY ZenonT(30)
  <2>2. "stopped" # "peers" /\ "stopped" # "up" /\ "peers" # "up"
    BY ZenonT(30)
  <2>. QED  BY <1>5, <2>1, <2>2, ZenonT(30) DEF RunOK
<1>8. w' = [stage |-> w'.stage, name |-> w'.name, val |-> w'.val, file |-> w'.file]
  BY WriterIs, ZenonT(30)
<1>. QED  BY <1>1, <1>3, <1>4, <1>6, <1>7, <1>8, DiskStays, ZenonT(30)

\* The process dies, and so does what it held in memory.
LEMMA StopsKeeps ==
  ASSUME StoreConstants, StateInv, w' = Idle, run' = Stopped, UNCHANGED <<disk, used, acked>>
  PROVE  StateInv'
<1>1. /\ Shapes /\ WriteOK(disk.live, disk.kept) /\ RunOK(disk.live)
      /\ UsedOK(disk.live, disk.kept) /\ AckedOK(disk.live, disk.kept) /\ DiskOK(disk.live, disk.kept)
  BY ZenonT(30) DEF StateInv
<1>3. /\ acked = [n \in Names |-> acked[n]]
      /\ acked[Identity] = "none" /\ \A x \in Peers : acked[x] \in {"none", Record}
      /\ \A n \in Names : acked[n] # "none" => disk.live[n].val = acked[n] /\ disk.kept[n].val = acked[n]
      /\ used # {} => \E k \in Identities : used = {k} /\ disk.live[Identity].val = k /\ disk.kept[Identity].val = k
  BY <1>1, ZenonT(30) DEF Shapes, UsedOK, AckedOK
<1>4. "stopped" \notin {"creating", "saving"} /\ "stopped" \notin {"peers", "up"}
      /\ "stopped" \in {"stopped", "creating", "peers", "saving", "up"}
  BY ZenonT(30)
<1>5. run' = [pc |-> "stopped", id |-> "none", peers |-> {}, guard |-> New]
  BY WriterIs, ZenonT(30)
<1> DEFINE q == {}
<1>6. run' = [pc |-> "stopped", id |-> "none", peers |-> q, guard |-> New]
  BY <1>5, ZenonT(30)
<1>7. \A x \in q : x \in Peers /\ disk.live[x].val = Record
  BY ZenonT(30)
<1>8. acked' = [n \in Names |-> acked'[n]]
  BY <1>3, ZenonT(30)
<1> HIDE DEF q
<1>9. /\ acked'[Identity] = "none" /\ \A x \in Peers : acked'[x] \in {"none", Record}
      /\ \A n \in Names : acked'[n] # "none" => disk.live[n].val = acked'[n] /\ disk.kept[n].val = acked'[n]
      /\ used' # {} => \E k \in Identities : used' = {k} /\ disk.live[Identity].val = k /\ disk.kept[Identity].val = k
  BY <1>3, ZenonT(30)
<1>. QED  BY <1>4, <1>6, <1>7, <1>8, <1>9, RestsKeeps, ZenonT(30)

\* load_or_create_identity reads back what it wrote.
LEMMA CreatedKeeps ==
  ASSUME StoreConstants, StateInv, Created
  PROVE  StateInv'
<1>1. /\ Shapes /\ WriteOK(disk.live, disk.kept) /\ RunOK(disk.live)
      /\ UsedOK(disk.live, disk.kept) /\ AckedOK(disk.live, disk.kept) /\ DiskOK(disk.live, disk.kept)
  BY ZenonT(30) DEF StateInv
<1>2. run.pc = "creating" /\ w' = Idle /\ UNCHANGED <<disk, used, acked>>
  BY ZenonT(30) DEF Created
<1>3. /\ acked = [n \in Names |-> acked[n]] /\ used = {} /\ run.id = "none"
      /\ \A x \in run.peers : x \in Peers /\ disk.live[x].val = Record
      /\ acked[Identity] = "none" /\ \A x \in Peers : acked[x] \in {"none", Record}
      /\ \A n \in Names : acked[n] # "none" => disk.live[n].val = acked[n] /\ disk.kept[n].val = acked[n]
  BY <1>1, <1>2, ZenonT(30) DEF Shapes, UsedOK, RunOK, AckedOK
<1>4. "peers" \notin {"creating", "saving", "stopped", "up"} /\ "stopped" \notin {"creating", "saving", "peers", "up"}
  BY ZenonT(30)
<1>5. CASE w.stage = "done" /\ IdentityOK
  <2>1. run' = [pc |-> "peers", id |-> LoadIdentity, peers |-> run.peers, guard |-> run.guard]
    BY <1>1, <1>5, RunWith, ZenonT(30) DEF Created
  <2>2. LoadIdentity \in Identities /\ disk.live[Identity].val = LoadIdentity
    BY <1>5, ZenonT(30) DEF IdentityOK, LoadIdentity
  <2>. QED  BY <1>2, <1>3, <1>4, <2>1, <2>2, RestsKeeps, ZenonT(30)
<1>6. CASE ~(w.stage = "done" /\ IdentityOK)
  <2>1. run' = Stopped
    BY <1>6, ZenonT(30) DEF Created
  <2>. QED  BY <1>2, <2>1, StopsKeeps, ZenonT(30)
<1>. QED  BY ZenonT(30), <1>5, <1>6


\* A running runtime starts to write a peer's record or its guard.
LEMMA BeginsKeeps ==
  ASSUME StoreConstants, StateInv, UNCHANGED <<disk, used>>,
         NEW n \in Peers \cup {Guard}, NEW v \in Vals(n), w' = StartWrite(n, v),
         NEW p \in {"saving", "up"}, NEW q, NEW g,
         run' = [pc |-> p, id |-> run.id, peers |-> q, guard |-> g],
         run.pc \in {"peers", "up"}, p = "saving" => n = Guard,
         \A x \in q : x \in Peers /\ disk.live[x].val = Record,
         n = Guard => acked' = [acked EXCEPT ![Guard] = "none"], n # Guard => acked' = acked
  PROVE  StateInv'
<1>1. /\ Shapes /\ WriteOK(disk.live, disk.kept) /\ RunOK(disk.live)
      /\ UsedOK(disk.live, disk.kept) /\ AckedOK(disk.live, disk.kept) /\ DiskOK(disk.live, disk.kept)
  BY ZenonT(30) DEF StateInv
<1>2. /\ w'.stage = "open" /\ w'.name = n /\ w'.val = v /\ w' # Idle
      /\ w' = [stage |-> w'.stage, name |-> w'.name, val |-> w'.val, file |-> w'.file]
  BY WriterIs, ZenonT(30)
<1>3. "open" \in Stages /\ "open" \notin {"idle", "sync", "rename", "dirsync", "done"}
  BY ZenonT(30) DEF Stages
<1>4. /\ n \in Names /\ acked = [m \in Names |-> acked[m]] /\ Guard \in Names /\ Identity # Guard
      /\ \A x \in Peers : x # Guard
  BY <1>1, NamesAre, ZenonT(30) DEF Shapes
<1>5. /\ acked' = [m \in Names |-> acked'[m]] /\ (n = Guard => acked'[Guard] = "none")
      /\ \A m \in Names : acked'[m] = acked[m] \/ acked'[m] = "none"
  <2>1. CASE n = Guard
    BY ZenonT(30), <1>4, <2>1
  <2>2. CASE n # Guard
    BY <1>4, <2>2, ZenonT(30)
  <2>. QED  BY ZenonT(30), <2>1, <2>2
<1>6. run'.pc = p /\ run'.id = run.id /\ run'.peers = q
  BY ZenonT(30)
<1>7. WriteOK(disk.live, disk.kept)'
  BY <1>2, <1>3, <1>4, ZenonT(30) DEF WriteOK, Vals
<1>8. AckedOK(disk.live, disk.kept)'
  BY <1>1, <1>2, <1>4, <1>5, NamesAre, ZenonT(30) DEF AckedOK
<1>9. UsedOK(disk.live, disk.kept)'
  <2>1. p # "creating"
    BY ZenonT(30)
  <2>. QED  BY <1>1, <1>6, <2>1, ZenonT(30) DEF UsedOK
<1>10. RunOK(disk.live)'
  <2>1. p \notin {"stopped", "peers", "creating"}
    BY ZenonT(30)
  <2>2. run.id \in Identities /\ disk.live[Identity].val = run.id
    BY <1>1, ZenonT(30) DEF RunOK
  <2>. QED  BY <1>2, <1>6, <2>1, <2>2, ZenonT(30) DEF RunOK
<1>11. p \in {"stopped", "creating", "peers", "saving", "up"}
  BY ZenonT(30)
<1>12. w'.stage \in Stages /\ (w'.stage = "idle" <=> w' = Idle) /\ disk' = disk
  BY <1>2, <1>3, ZenonT(30)
<1>13. w' = [stage |-> w'.stage, name |-> w'.name, val |-> w'.val, file |-> w'.file]
  BY <1>2, ZenonT(30)
<1>14. acked' = [m \in Names |-> acked'[m]]
  BY <1>5, ZenonT(30)
<1>. QED  BY <1>7, <1>8, <1>9, <1>10, <1>11, <1>12, <1>13, <1>14, DiskStays, ZenonT(30)

\* The peers and the guard are loaded, and a guard that moved is saved first.
LEMMA StartPeersKeeps ==
  ASSUME StoreConstants, StateInv, StartPeers
  PROVE  StateInv'
<1>1. /\ Shapes /\ WriteOK(disk.live, disk.kept) /\ RunOK(disk.live)
      /\ UsedOK(disk.live, disk.kept) /\ AckedOK(disk.live, disk.kept) /\ DiskOK(disk.live, disk.kept)
  BY ZenonT(30) DEF StateInv
<1>2. run.pc = "peers" /\ w = Idle /\ UNCHANGED <<disk, used>>
  BY ZenonT(30) DEF StartPeers
<1>3. PICK g \in {LoadedGuard} \cup Guards :
       /\ run' = IF ~(PeersOK /\ GuardOK) THEN Stopped
                 ELSE [run EXCEPT !.pc = IF g = LoadedGuard THEN "up" ELSE "saving",
                                  !.peers = StoredPeers, !.guard = g]
       /\ w' = IF PeersOK /\ GuardOK /\ g # LoadedGuard THEN StartWrite(Guard, g) ELSE Idle
       /\ acked' = IF w' = Idle THEN acked ELSE [acked EXCEPT ![Guard] = "none"]
  BY ZenonT(30) DEF StartPeers
<1>4. CASE ~(PeersOK /\ GuardOK)
  BY <1>2, <1>3, <1>4, StopsKeeps, ZenonT(30)
<1>5. CASE PeersOK /\ GuardOK
  <2>1. \A x \in StoredPeers : x \in Peers /\ disk.live[x].val = Record
    BY <1>5, ZenonT(30) DEF PeersOK, StoredPeers
  <2>2. CASE g = LoadedGuard
    <3>1. run' = [pc |-> "up", id |-> run.id, peers |-> StoredPeers, guard |-> g]
      BY <1>1, <1>3, <1>5, <2>2, RunWith, ZenonT(30)
    <3>2. w' = Idle /\ acked' = acked
      BY <1>3, <2>2, ZenonT(30)
    <3>3. /\ acked = [n \in Names |-> acked[n]]
          /\ acked[Identity] = "none" /\ \A x \in Peers : acked[x] \in {"none", Record}
          /\ \A n \in Names : acked[n] # "none" => disk.live[n].val = acked[n] /\ disk.kept[n].val = acked[n]
          /\ used # {} => \E k \in Identities : used = {k} /\ disk.live[Identity].val = k /\ disk.kept[Identity].val = k
          /\ run.id \in Identities /\ disk.live[Identity].val = run.id
      BY <1>1, <1>2, ZenonT(30) DEF Shapes, UsedOK, AckedOK, RunOK
    <3>4. "up" \notin {"creating", "saving"} /\ "up" # "stopped"
      BY ZenonT(30)
    <3>. QED  BY <1>2, <2>1, <3>1, <3>2, <3>3, <3>4, RestsKeeps, ZenonT(30)
  <2>3. CASE g # LoadedGuard
    <3>1. run' = [pc |-> "saving", id |-> run.id, peers |-> StoredPeers, guard |-> g]
      BY <1>1, <1>3, <1>5, <2>3, RunWith, ZenonT(30)
    <3>2. w' = StartWrite(Guard, g) /\ acked' = [acked EXCEPT ![Guard] = "none"]
      <4>1. w' = StartWrite(Guard, g)
        BY <1>3, <1>5, <2>3, ZenonT(30)
      <4>2. w' # Idle
        BY <4>1, WriterIs, ZenonT(30)
      <4>. QED  BY <1>3, <4>1, <4>2, ZenonT(30)
    <3>3. g \in Vals(Guard)
      BY <2>3, NamesAre, ZenonT(30)
    <3>. QED  BY <1>2, <2>1, <3>1, <3>2, <3>3, BeginsKeeps, ZenonT(30)
  <2>. QED  BY ZenonT(30), <2>2, <2>3
<1>. QED  BY ZenonT(30), <1>4, <1>5

\* A peer's record is written.
LEMMA PeerCommitKeeps ==
  ASSUME StoreConstants, StateInv, NEW p \in Peers, Commit(p)
  PROVE  StateInv'
<1>1. /\ Shapes /\ WriteOK(disk.live, disk.kept) /\ RunOK(disk.live)
      /\ UsedOK(disk.live, disk.kept) /\ AckedOK(disk.live, disk.kept) /\ DiskOK(disk.live, disk.kept)
  BY ZenonT(30) DEF StateInv
<1>2. run.pc = "up" /\ w' = StartWrite(p, Record) /\ UNCHANGED <<disk, run, used, acked>>
  BY ZenonT(30) DEF Commit
<1>3. /\ run = [pc |-> run.pc, id |-> run.id, peers |-> run.peers, guard |-> run.guard]
      /\ \A x \in run.peers : x \in Peers /\ disk.live[x].val = Record
  BY <1>1, ZenonT(30) DEF Shapes, RunOK
<1>4. run' = [pc |-> "up", id |-> run.id, peers |-> run.peers, guard |-> run.guard]
  BY <1>2, <1>3, ZenonT(30)
<1>5. Record \in Vals(p) /\ p # Guard /\ "up" # "saving"
  BY NamesAre, ZenonT(30)
<1>. QED  BY <1>2, <1>3, <1>4, <1>5, BeginsKeeps, ZenonT(30)

\* The guard is written.
LEMMA SaveGuardKeeps ==
  ASSUME StoreConstants, StateInv, NEW g \in Guards, SaveGuard(g)
  PROVE  StateInv'
<1>1. /\ Shapes /\ WriteOK(disk.live, disk.kept) /\ RunOK(disk.live)
      /\ UsedOK(disk.live, disk.kept) /\ AckedOK(disk.live, disk.kept) /\ DiskOK(disk.live, disk.kept)
  BY ZenonT(30) DEF StateInv
<1>2. run.pc = "up" /\ w' = StartWrite(Guard, g) /\ UNCHANGED <<disk, used>> /\ acked' = [acked EXCEPT ![Guard] = "none"]
  BY ZenonT(30) DEF SaveGuard
<1>3. \A x \in run.peers : x \in Peers /\ disk.live[x].val = Record
  BY <1>1, ZenonT(30) DEF RunOK
<1>4. run' = [pc |-> "up", id |-> run.id, peers |-> run.peers, guard |-> g]
  BY <1>1, <1>2, RunWith, ZenonT(30) DEF SaveGuard
<1>5. g \in Vals(Guard)
  BY NamesAre, ZenonT(30)
<1>. QED  BY <1>2, <1>3, <1>4, <1>5, BeginsKeeps, ZenonT(30)

\* A write that is done is on disk for good under its name, and may be reported.
LEMMA DoneAcked ==
  ASSUME StoreConstants, StateInv, w.stage = "done", w.name \in Peers \cup {Guard},
         acked' = [acked EXCEPT ![w.name] = w.val]
  PROVE  /\ acked' = [n \in Names |-> acked'[n]]
         /\ acked'[Identity] = "none" /\ \A x \in Peers : acked'[x] \in {"none", Record}
         /\ \A n \in Names : acked'[n] # "none" => disk.live[n].val = acked'[n] /\ disk.kept[n].val = acked'[n]
<1>1. /\ Shapes /\ WriteOK(disk.live, disk.kept) /\ RunOK(disk.live)
      /\ UsedOK(disk.live, disk.kept) /\ AckedOK(disk.live, disk.kept) /\ DiskOK(disk.live, disk.kept)
  BY ZenonT(30) DEF StateInv
<1>2. /\ acked = [n \in Names |-> acked[n]]
      /\ acked[Identity] = "none" /\ \A x \in Peers : acked[x] \in {"none", Record}
      /\ \A n \in Names : acked[n] # "none" => disk.live[n].val = acked[n] /\ disk.kept[n].val = acked[n]
  BY <1>1, ZenonT(30) DEF Shapes, AckedOK
<1>3. w.name \in Names /\ w.name # Identity /\ (w.name \in Peers => w.val = Record)
  <2>1. w # Idle
    BY ZenonT(30), WriterIs
  <2>. QED  BY <1>1, <2>1, NamesAre, ZenonT(30) DEF WriteOK
<1>4. /\ acked' = [n \in Names |-> acked'[n]] /\ acked'[w.name] = w.val
      /\ \A n \in Names : n # w.name => acked'[n] = acked[n]
  BY ZenonT(30), <1>2, <1>3
<1>5. disk.live[w.name].val = w.val /\ disk.kept[w.name].val = w.val
  BY <1>1, <1>3, ZenonT(30) DEF WriteOK, Directory, Names
<1>6. Identity \in Names /\ Peers \subseteq Names
  BY NamesAre, ZenonT(30)
<1>. QED  BY <1>2, <1>3, <1>4, <1>5, <1>6, ZenonT(30)

\* The guard that moved is saved: the runtime is up, or it is not.
LEMMA StartSavedKeeps ==
  ASSUME StoreConstants, StateInv, StartSaved
  PROVE  StateInv'
<1>1. /\ Shapes /\ WriteOK(disk.live, disk.kept) /\ RunOK(disk.live)
      /\ UsedOK(disk.live, disk.kept) /\ AckedOK(disk.live, disk.kept) /\ DiskOK(disk.live, disk.kept)
  BY ZenonT(30) DEF StateInv
<1>2. run.pc = "saving" /\ w' = Idle /\ UNCHANGED <<disk, used>>
  BY ZenonT(30) DEF StartSaved
<1>3. CASE w.stage # "done"
  BY <1>2, <1>3, StopsKeeps, ZenonT(30) DEF StartSaved
<1>4. CASE w.stage = "done"
  <2>1. run' = [pc |-> "up", id |-> run.id, peers |-> run.peers, guard |-> run.guard]
    BY <1>1, <1>4, RunWith, ZenonT(30) DEF StartSaved
  <2>2. w.name = Guard /\ acked' = [acked EXCEPT ![w.name] = w.val]
    BY <1>1, <1>2, <1>4, ZenonT(30) DEF StartSaved, RunOK
  <2>3. /\ acked' = [n \in Names |-> acked'[n]]
        /\ acked'[Identity] = "none" /\ \A x \in Peers : acked'[x] \in {"none", Record}
        /\ \A n \in Names : acked'[n] # "none" => disk.live[n].val = acked'[n] /\ disk.kept[n].val = acked'[n]
    BY <1>4, <2>2, DoneAcked, NamesAre, ZenonT(30)
  <2>4. /\ used # {} => \E k \in Identities : used = {k} /\ disk.live[Identity].val = k /\ disk.kept[Identity].val = k
        /\ run.id \in Identities /\ disk.live[Identity].val = run.id
        /\ \A x \in run.peers : x \in Peers /\ disk.live[x].val = Record
    BY <1>1, <1>2, ZenonT(30) DEF UsedOK, RunOK
  <2>5. "up" \notin {"creating", "saving"} /\ "up" # "stopped"
    BY ZenonT(30)
  <2>. QED  BY <1>2, <2>1, <2>3, <2>4, <2>5, RestsKeeps, ZenonT(30)
<1>. QED  BY ZenonT(30), <1>3, <1>4

\* The outcome of a save of a running runtime is taken: a session is counted only
\* when the root directory, and so the identity in it, was synced.
LEMMA SavedKeeps ==
  ASSUME StoreConstants, StateInv, Saved
  PROVE  StateInv'
<1>1. /\ Shapes /\ WriteOK(disk.live, disk.kept) /\ RunOK(disk.live)
      /\ UsedOK(disk.live, disk.kept) /\ AckedOK(disk.live, disk.kept) /\ DiskOK(disk.live, disk.kept)
  BY ZenonT(30) DEF StateInv
<1>2. run.pc = "up" /\ w' = Idle /\ UNCHANGED disk /\ w.stage \in {"done", "failed"}
  BY ZenonT(30) DEF Saved
<1>3. /\ used # {} => \E k \in Identities : used = {k} /\ disk.live[Identity].val = k /\ disk.kept[Identity].val = k
      /\ run.id \in Identities /\ disk.live[Identity].val = run.id
      /\ \A x \in run.peers : x \in Peers /\ disk.live[x].val = Record
      /\ run = [pc |-> run.pc, id |-> run.id, peers |-> run.peers, guard |-> run.guard]
      /\ acked = [n \in Names |-> acked[n]]
      /\ acked[Identity] = "none" /\ \A x \in Peers : acked[x] \in {"none", Record}
      /\ \A n \in Names : acked[n] # "none" => disk.live[n].val = acked[n] /\ disk.kept[n].val = acked[n]
  BY <1>1, <1>2, ZenonT(30) DEF Shapes, UsedOK, RunOK, AckedOK
<1>4. "up" \notin {"creating", "saving"} /\ "up" # "stopped"
  OBVIOUS
<1>5. CASE w.stage # "done"
  <2>1. run' = run /\ acked' = acked /\ used' = used
    BY <1>5, ZenonT(30) DEF Saved
  <2>2. run' = [pc |-> "up", id |-> run.id, peers |-> run.peers, guard |-> run.guard]
    BY <1>2, <1>3, <2>1, ZenonT(30)
  <2>. QED  BY <1>2, <1>3, <1>4, <2>1, <2>2, RestsKeeps, ZenonT(30)
<1>6. CASE w.stage = "done"
  <2>1. w.name \in Peers \cup {Guard}
    <3>1. Idle.stage # "done"
      BY ZenonT(30), WriterIs
    <3>. QED  BY <1>1, <1>2, <1>6, <3>1, ZenonT(30) DEF RunOK
  <2>2. acked' = [acked EXCEPT ![w.name] = w.val]
    BY <1>6, ZenonT(30) DEF Saved
  <2>3. /\ acked' = [n \in Names |-> acked'[n]]
        /\ acked'[Identity] = "none" /\ \A x \in Peers : acked'[x] \in {"none", Record}
        /\ \A n \in Names : acked'[n] # "none" => disk.live[n].val = acked'[n] /\ disk.kept[n].val = acked'[n]
    BY <1>6, <2>1, <2>2, DoneAcked, NamesAre, ZenonT(30)
  <2>4. used' # {} => \E k \in Identities : used' = {k} /\ disk.live[Identity].val = k /\ disk.kept[Identity].val = k
    <3>1. CASE w.name = Guard
      <4>1. used' = used \cup {run.id}
        BY <1>6, <3>1, ZenonT(30) DEF Saved
      <4>2. disk.kept[Identity] = disk.live[Identity]
        BY <1>1, <1>6, <3>1, NamesAre, ZenonT(30) DEF WriteOK, Root
      <4>3. used' = {run.id}
        BY <1>3, <4>1, ZenonT(30)
      <4>. QED  BY <1>3, <4>2, <4>3, ZenonT(30)
    <3>2. CASE w.name # Guard
      BY <1>3, <3>2, ZenonT(30) DEF Saved
    <3>. QED  BY ZenonT(30), <3>1, <3>2
  <2>5. CASE w.name \in Peers
    <3> DEFINE q == run.peers \cup {w.name}
    <3>1. run' = [run EXCEPT !.peers = q]
      BY <1>6, <2>5, ZenonT(30) DEF Saved
    <3>2. disk.live[w.name].val = Record
      <4>1. w # Idle
        BY ZenonT(30), <1>6, WriterIs
      <4>. QED  BY <1>1, <1>6, <2>5, <4>1, NamesAre, ZenonT(30) DEF WriteOK
    <3>3. \A x \in q : x \in Peers /\ disk.live[x].val = Record
      BY <1>3, <2>5, <3>2, ZenonT(30)
    <3> HIDE DEF q
    <3>4. run' = [pc |-> "up", id |-> run.id, peers |-> q, guard |-> run.guard]
      BY <1>1, <1>2, <3>1, RunWith, ZenonT(30)
    <3>. QED  BY <1>2, <1>3, <1>4, <2>3, <2>4, <3>3, <3>4, RestsKeeps, ZenonT(30)
  <2>6. CASE w.name \notin Peers
    <3>1. run' = [pc |-> "up", id |-> run.id, peers |-> run.peers, guard |-> run.guard]
      BY <1>2, <1>3, <2>6, ZenonT(30) DEF Saved
    <3>. QED  BY <1>2, <1>3, <1>4, <2>3, <2>4, <3>1, RestsKeeps, ZenonT(30)
  <2>. QED  BY ZenonT(30), <2>5, <2>6
<1>. QED  BY <1>5, <1>6

\* A system call of a write fails: its caller is told, the disk is as it was.
LEMMA WriteFailsKeeps ==
  ASSUME StoreConstants, StateInv, WriteFails
  PROVE  StateInv'
<1>1. /\ Shapes /\ WriteOK(disk.live, disk.kept) /\ RunOK(disk.live)
      /\ UsedOK(disk.live, disk.kept) /\ AckedOK(disk.live, disk.kept) /\ DiskOK(disk.live, disk.kept)
  BY ZenonT(30) DEF StateInv
<1>2. Writing(w) /\ UNCHANGED <<disk, run, used, acked>>
  BY ZenonT(30) DEF WriteFails
<1>3. /\ w = [stage |-> w.stage, name |-> w.name, val |-> w.val, file |-> w.file]
      /\ run = [pc |-> run.pc, id |-> run.id, peers |-> run.peers, guard |-> run.guard]
      /\ run.pc \in {"stopped", "creating", "peers", "saving", "up"}
      /\ acked = [n \in Names |-> acked[n]]
  BY <1>1, ZenonT(30) DEF Shapes
<1>4. w' = [stage |-> "failed", name |-> w.name, val |-> w.val, file |-> w.file]
  <2> DEFINE x == [w EXCEPT !.stage = "failed"]
  <2>1. x = [stage |-> "failed", name |-> w.name, val |-> w.val, file |-> w.file]
    BY <1>3
  <2> HIDE DEF x
  <2>2. Out(disk, x).w = x
    BY ZenonT(30) DEF Out
  <2>3. w' = Out(disk, x).w
    BY ZenonT(30) DEF WriteFails, Fails, x
  <2>. QED  BY <2>1, <2>2, <2>3, ZenonT(30)
<1>5. w'.stage = "failed" /\ w'.name = w.name /\ w'.val = w.val /\ w'.file = w.file
  BY ZenonT(30), <1>4
<1>6. w' # Idle /\ w # Idle
  BY ZenonT(30), <1>2, <1>5, WriterIs DEF Writing
<1>7. "failed" \in Stages /\ "failed" \notin {"idle", "sync", "rename", "dirsync", "done"}
  BY ZenonT(30) DEF Stages
<1>8. WriteOK(disk.live, disk.kept)'
  BY <1>1, <1>5, <1>6, <1>7, ZenonT(30) DEF WriteOK, Vals
<1>9. UsedOK(disk.live, disk.kept)' /\ AckedOK(disk.live, disk.kept)' /\ RunOK(disk.live)'
  BY <1>1, <1>2, <1>5, <1>6, ZenonT(30) DEF UsedOK, AckedOK, RunOK
<1>10. /\ w'.stage \in Stages /\ (w'.stage = "idle" <=> w' = Idle)
       /\ w' = [stage |-> w'.stage, name |-> w'.name, val |-> w'.val, file |-> w'.file]
       /\ run' = [pc |-> run.pc, id |-> run.id, peers |-> run.peers, guard |-> run.guard]
       /\ acked' = [n \in Names |-> acked'[n]]
  BY <1>2, <1>3, <1>4, <1>5, <1>6, <1>7, ZenonT(30)
<1>. QED  BY <1>2, <1>3, <1>8, <1>9, <1>10, DiskStays, ZenonT(30)

\* The machine stops: every name stands for its old content or for its new one.
LEMMA CrashKeeps ==
  ASSUME StoreConstants, StateInv, Crash
  PROVE  StateInv'
<1>1. /\ Shapes /\ WriteOK(disk.live, disk.kept) /\ RunOK(disk.live)
      /\ UsedOK(disk.live, disk.kept) /\ AckedOK(disk.live, disk.kept) /\ DiskOK(disk.live, disk.kept)
  BY ZenonT(30) DEF StateInv
<1>2. disk' \in Crashes(disk) /\ run' = Stopped /\ w' = Idle /\ UNCHANGED <<used, acked>>
  BY ZenonT(30) DEF Crash
<1>3. /\ disk' = [live |-> disk'.live, kept |-> disk'.live] /\ DOMAIN disk'.live = Names
      /\ \A n \in Names : disk'.live[n] = disk.live[n] \/ disk'.live[n] = disk.kept[n]
  BY <1>1, <1>2, CrashIs, ZenonT(30)
<1>4. disk'.kept = disk'.live
  <2>1. ASSUME NEW d, NEW l, d = [live |-> l, kept |-> l] PROVE d.kept = l
    BY ZenonT(30), <2>1
  <2>. QED  BY <1>3, <2>1, ZenonT(30)
<1>5. \A n \in Names : Whole(n, disk'.live[n]) /\ Whole(n, disk'.kept[n])
  BY <1>1, <1>3, <1>4, ZenonT(30) DEF DiskOK
<1>6. /\ w'.stage = "idle" /\ w'.name = "none" /\ run'.pc = "stopped" /\ run'.id = "none" /\ run'.peers = {}
      /\ w' = [stage |-> w'.stage, name |-> w'.name, val |-> w'.val, file |-> w'.file]
      /\ run' = [pc |-> run'.pc, id |-> run'.id, peers |-> run'.peers, guard |-> run'.guard]
  BY <1>2, WriterIs, ZenonT(30)
<1>7. /\ "idle" \in Stages /\ "idle" \notin {"sync", "rename", "dirsync", "done"} /\ "none" # Guard
      /\ "stopped" \notin {"creating", "peers", "saving", "up"}
  BY ZenonT(30) DEF Stages, Guard
<1>8. Shapes'
  <2>1. disk' = [live |-> disk'.live, kept |-> disk'.kept] /\ DOMAIN disk'.kept = Names
    BY <1>3, <1>4, ZenonT(30)
  <2>2. acked' = [n \in Names |-> acked'[n]]
    BY <1>1, <1>2, ZenonT(30) DEF Shapes
  <2>. QED  BY <1>2, <1>3, <1>6, <1>7, <2>1, <2>2, ZenonT(30) DEF Shapes
<1>9. WriteOK(disk.live, disk.kept)'
  BY <1>2, <1>6, <1>7, ZenonT(30) DEF WriteOK
<1>10. RunOK(disk.live)'
  BY <1>2, <1>6, <1>7, ZenonT(30) DEF RunOK
<1>11. UsedOK(disk.live, disk.kept)'
  BY <1>1, <1>2, <1>3, <1>4, <1>6, <1>7, NamesAre, ZenonT(30) DEF UsedOK
<1>12. AckedOK(disk.live, disk.kept)'
  <2>1. /\ acked[Identity] = "none" /\ \A p \in Peers : acked[p] \in {"none", Record}
        /\ \A n \in Names : acked[n] # "none" => disk.live[n].val = acked[n] /\ disk.kept[n].val = acked[n]
    BY <1>1, ZenonT(30) DEF AckedOK
  <2>2. \A n \in Names : acked[n] # "none" => disk'.live[n].val = acked[n] /\ disk'.kept[n].val = acked[n]
    BY <1>3, <1>4, <2>1, ZenonT(30)
  <2>3. w'.name # Guard /\ acked' = acked
    BY <1>2, <1>6, <1>7, ZenonT(30)
  <2>. QED  BY <2>1, <2>2, <2>3, ZenonT(30) DEF AckedOK
<1>. QED  BY <1>5, <1>8, <1>9, <1>10, <1>11, <1>12, StateInvIs, ZenonT(30)

\* A new disk.
LEMMA StateInvInit ==
  ASSUME StoreConstants, Init
  PROVE  StateInv
<1>1. /\ disk = [live |-> [n \in Names |-> NoFile], kept |-> [n \in Names |-> NoFile]]
      /\ w = Idle /\ run = Stopped /\ used = {} /\ acked = [n \in Names |-> "none"]
  BY ZenonT(30) DEF Init, NewDisk
<1>2. disk.live = [n \in Names |-> NoFile] /\ disk.kept = [n \in Names |-> NoFile]
  BY ZenonT(30), <1>1
<1>3. DiskOK(disk.live, disk.kept)
  BY <1>2, ZenonT(30) DEF DiskOK, Whole
<1>4. /\ w.stage = "idle" /\ w.name = "none" /\ run.pc = "stopped" /\ run.id = "none" /\ run.peers = {}
      /\ w = [stage |-> w.stage, name |-> w.name, val |-> w.val, file |-> w.file]
      /\ run = [pc |-> run.pc, id |-> run.id, peers |-> run.peers, guard |-> run.guard]
  BY <1>1, WriterIs, ZenonT(30)
<1>5. /\ "idle" \in Stages /\ "idle" \notin {"sync", "rename", "dirsync", "done"} /\ "none" # Guard
      /\ "stopped" \notin {"creating", "peers", "saving", "up"}
  BY ZenonT(30) DEF Stages, Guard
<1>6. Shapes
  <2>1. disk = [live |-> disk.live, kept |-> disk.kept]
    BY <1>1, <1>2, ZenonT(30)
  <2>2. DOMAIN disk.live = Names /\ DOMAIN disk.kept = Names /\ acked = [n \in Names |-> acked[n]]
    BY ZenonT(30), <1>1, <1>2
  <2>. QED  BY <1>1, <1>4, <1>5, <2>1, <2>2, ZenonT(30) DEF Shapes
<1>7. WriteOK(disk.live, disk.kept) /\ RunOK(disk.live) /\ UsedOK(disk.live, disk.kept)
  BY <1>1, <1>4, <1>5, ZenonT(30) DEF WriteOK, RunOK, UsedOK
<1>8. AckedOK(disk.live, disk.kept)
  <2>1. \A n \in Names : acked[n] = "none"
    BY ZenonT(30), <1>1
  <2>. QED  BY <1>4, <1>5, <2>1, NamesAre, ZenonT(30) DEF AckedOK
<1>. QED  BY <1>3, <1>6, <1>7, <1>8, ZenonT(30) DEF StateInv

\* The invariant holds in every state of the store.
LEMMA StateInvariant ==
  StoreConstants => (Spec => []StateInv)
<1> SUFFICES ASSUME StoreConstants PROVE Spec => []StateInv
  BY ZenonT(30)
<1>1. Init => StateInv
  BY StateInvInit, ZenonT(30)
<1>2. StateInv /\ [Next]_vars => StateInv'
  <2> SUFFICES ASSUME StateInv, [Next]_vars
               PROVE  StateInv'
    BY ZenonT(30)
  <2>1. CASE Next
    BY <2>1, StartLoadsKeeps, StartCreatesKeeps, CreatedKeeps, StartPeersKeeps, StartSavedKeeps, PeerCommitKeeps,
       SaveGuardKeeps, GoesKeeps, WriteFailsKeeps, SavedKeeps, StopsKeeps, CrashKeeps, ZenonT(30) DEF Next, ProcessDies
  <2>2. CASE UNCHANGED vars
    BY <2>2, ZenonT(30) DEF vars, StateInv, Shapes, DiskOK, Whole, Vals, WriteOK, RunOK, UsedOK, AckedOK
  <2>. QED  BY ZenonT(30), <2>1, <2>2
<1>. QED  BY <1>1, <1>2, PTL DEF Spec

LOCAL INSTANCE FiniteSetTheorems

\* The stored state is kept, whatever fails, dies or crashes: every file is whole
\* at the next start, what was reported is there, trust rests on stored peers, and
\* the identity of an authenticated session is the identity for good (atomic_write,
\* load_or_create_identity, commit_peer, mark_authenticated).
THEOREM StoredStateKept ==
  StoreConstants => (Spec => []StateKept)
<1> SUFFICES ASSUME StoreConstants PROVE Spec => []StateKept
  OBVIOUS
<1>1. StateInv => StateKept
  <2> SUFFICES ASSUME StateInv PROVE StateKept
    BY ZenonT(30)
  <2>1. /\ Shapes /\ WriteOK(disk.live, disk.kept) /\ RunOK(disk.live)
        /\ UsedOK(disk.live, disk.kept) /\ AckedOK(disk.live, disk.kept) /\ DiskOK(disk.live, disk.kept)
    BY ZenonT(30) DEF StateInv
  <2>2. \A n \in Names : \A f : Whole(n, f) => f = NoFile \/ f.val \in Vals(n)
    BY DEF Whole
  <2>3. Loadable
    <3> SUFFICES ASSUME NEW d \in Crashes(disk) \cup {disk}
                 PROVE  /\ d.live[Identity] = NoFile \/ d.live[Identity].val \in Identities
                        /\ \A p \in Peers : d.live[p] = NoFile \/ d.live[p].val = Record
                        /\ d.live[Guard] = NoFile \/ d.live[Guard].val \in Guards
      BY ZenonT(30) DEF Loadable
    <3>1. \A n \in Names : d.live[n] = disk.live[n] \/ d.live[n] = disk.kept[n]
      BY <2>1, CrashIs, ZenonT(30)
    <3>2. \A n \in Names : d.live[n] = NoFile \/ d.live[n].val \in Vals(n)
      BY <2>1, <2>2, <3>1, ZenonT(30) DEF DiskOK
    <3>3. \A p \in Peers : d.live[p] = NoFile \/ d.live[p].val = Record
      <4> SUFFICES ASSUME NEW p \in Peers PROVE d.live[p] = NoFile \/ d.live[p].val = Record
        BY ZenonT(30)
      <4>1. p \in Names /\ Vals(p) = {Record}
        BY NamesAre, ZenonT(30)
      <4>. QED  BY <3>2, <4>1, ZenonT(30)
    <3>4. d.live[Identity] = NoFile \/ d.live[Identity].val \in Identities
      BY <3>2, NamesAre, ZenonT(30)
    <3>5. d.live[Guard] = NoFile \/ d.live[Guard].val \in Guards
      BY <3>2, NamesAre, ZenonT(30)
    <3>. QED  BY <3>3, <3>4, <3>5, ZenonT(30)
  <2>4. ReportedIsKept
    BY <2>1, CrashIs, ZenonT(30) DEF ReportedIsKept, AckedOK
  <2>5. TrustIsStored
    BY <2>1, ZenonT(30) DEF TrustIsStored, RunOK
  <2>6. OneIdentity
    <3>1. CASE used = {}
      <4>1. Cardinality(used) = 0
        BY <3>1, FS_EmptySet, ZenonT(30)
      <4>2. Cardinality(used) <= 1
        BY <4>1
      <4>. QED  BY <3>1, <4>2, ZenonT(30) DEF OneIdentity
    <3>2. CASE used # {}
      <4>1. PICK k \in Identities : used = {k} /\ disk.live[Identity].val = k
        BY <2>1, <3>2, ZenonT(30) DEF UsedOK
      <4>2. Cardinality({k}) = 1
        BY FS_Singleton, ZenonT(30)
      <4>3. Cardinality(used) <= 1
        BY <4>1, <4>2
      <4>4. run.id # "none" => run.id = k
        BY <2>1, <4>1, ZenonT(30) DEF RunOK, Shapes
      <4>. QED  BY <4>1, <4>3, <4>4, ZenonT(30) DEF OneIdentity
    <3>. QED  BY ZenonT(30), <3>1, <3>2
  <2>. QED  BY <2>3, <2>4, <2>5, <2>6, ZenonT(30) DEF StateKept
<1>. QED  BY <1>1, StateInvariant, PTL
=============================================================================
