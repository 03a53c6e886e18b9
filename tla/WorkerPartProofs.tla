-------------------------- MODULE WorkerPartProofs --------------------------
(***************************************************************************)
(* Two parts of the worker that need nothing of each other.                *)
(*                                                                         *)
(* First the controller lease (ControllerLease), for any number of peers   *)
(* and leases, any TTL, any cache capacity and any sequence limit.         *)
(*                                                                         *)
(* Then the health bands of its ResourceGuard (HealthBands), for every     *)
(* order of samples, gaps and reservations.                                *)
(***************************************************************************)
EXTENDS ControllerLease, HealthBands, TLAPS

\* The solver that most steps need, with time to spare; the others name theirs.
USE SMTT(60)

-----------------------------------------------------------------------------
(* Sequences. *)

\* The length and the elements of a sequence.
LEMMA LenProperties ==
  ASSUME NEW S, NEW s \in Seq(S)
  PROVE  Len(s) \in Nat /\ s \in [1 .. Len(s) -> S] /\ DOMAIN s = 1 .. Len(s)
  OBVIOUS

\* The empty sequence, and the length of the others.
LEMMA EmptySeq ==
  ASSUME NEW S
  PROVE  /\ << >> \in Seq(S) /\ Len(<< >>) = 0
         /\ \A s \in Seq(S) : s # << >> => Len(s) \in Nat \ {0}
  OBVIOUS

\* What Append adds and keeps (a frame that is sent, an answer that is cached).
LEMMA AppendProperties ==
  ASSUME NEW S, NEW s \in Seq(S), NEW e \in S
  PROVE  /\ Append(s, e) \in Seq(S) /\ Append(s, e) # << >>
         /\ Len(Append(s, e)) = Len(s) + 1
         /\ \A i \in 1 .. Len(s) : Append(s, e)[i] = s[i]
         /\ Append(s, e)[Len(s) + 1] = e
  OBVIOUS

\* What Tail keeps (a frame that is received, an answer that is evicted).
LEMMA HeadTailProperties ==
  ASSUME NEW S, NEW s \in Seq(S), s # << >>
  PROVE  /\ Head(s) \in S /\ Tail(s) \in Seq(S) /\ Len(Tail(s)) = Len(s) - 1
         /\ \A i \in 1 .. Len(Tail(s)) : Tail(s)[i] = s[i + 1]
  OBVIOUS

-----------------------------------------------------------------------------
\* A lease whose sequence has moved past s = next - 1 but whose answer to s is
\* not cached yet: the state between begin_mutation_internal and complete_active.
Open(lease) ==
  /\ lease \in Leases
  /\ lease.next >= 1
  /\ Len(lease.terminal) = lease.next - lease.evicted - 2
  /\ Len(lease.terminal) <= CacheCapacity
  /\ \A i \in DOMAIN lease.terminal : lease.terminal[i].seq = lease.evicted + i

\* complete_active on an open lease caches the answer last, keeps the cache
\* contiguous and touches nothing else.
LEMMA CompleteActiveCloses ==
  ASSUME NEW lease, Open(lease), NEW ref \in Refs
  PROVE  LET done == CompleteActive(lease, lease.next - 1, ref)
         IN  /\ done \in Leases
             /\ Contiguous(done)
             /\ done.id = lease.id
             /\ done.peer = lease.peer
             /\ done.expires = lease.expires
             /\ done.next = lease.next
             /\ Len(done.terminal) >= 1
             /\ done.terminal[Len(done.terminal)] = [seq |-> lease.next - 1, ref |-> ref]
<1> DEFINE entry == [seq |-> lease.next - 1, ref |-> ref]
           full == [lease EXCEPT !.terminal = Append(@, entry)]
           done == CompleteActive(lease, lease.next - 1, ref)
<1>1. lease \in Leases /\ lease.terminal \in Seq(Entries) /\ entry \in Entries
  BY DEF Open, Leases, Entries
<1>2. /\ full \in Leases
      /\ full.terminal = Append(lease.terminal, entry)
      /\ full.id = lease.id /\ full.peer = lease.peer /\ full.expires = lease.expires
      /\ full.next = lease.next /\ full.evicted = lease.evicted
  <2>1. Append(lease.terminal, entry) \in Seq(Entries)
    BY <1>1, AppendProperties
  <2>. QED  BY <1>1, <2>1, ZenonT(30) DEF Leases
<1>4. done = Trim(full)
  BY DEF CompleteActive
<1>c. entry.seq = lease.next - 1
  OBVIOUS
<1> HIDE DEF entry, full, done
<1> DEFINE Goal == /\ done \in Leases
                   /\ Contiguous(done)
                   /\ done.id = lease.id
                   /\ done.peer = lease.peer
                   /\ done.expires = lease.expires
                   /\ done.next = lease.next
                   /\ Len(done.terminal) >= 1
                   /\ done.terminal[Len(done.terminal)] = entry
<1>a. /\ Len(lease.terminal) \in Nat
      /\ DOMAIN lease.terminal = 1 .. Len(lease.terminal)
      /\ Len(full.terminal) = Len(lease.terminal) + 1
      /\ \A i \in 1 .. Len(lease.terminal) : full.terminal[i] = lease.terminal[i]
      /\ full.terminal[Len(lease.terminal) + 1] = entry
  BY <1>1, <1>2, AppendProperties, LenProperties
<1>3. \A i \in 1 .. Len(full.terminal) : full.terminal[i].seq = lease.evicted + i
  <2>. SUFFICES ASSUME NEW i \in 1 .. Len(full.terminal)
                PROVE  full.terminal[i].seq = lease.evicted + i
    BY ZenonT(30)
  <2>1. lease.evicted \in Int /\ lease.next \in Nat
    BY <1>1 DEF Leases, NoSeq
  <2>2. CASE i \in 1 .. Len(lease.terminal)
    BY ZenonT(30), <1>a, <2>2 DEF Open
  <2>3. CASE i = Len(lease.terminal) + 1
    <3>1. full.terminal[i].seq = lease.next - 1
      BY ZenonT(30), <1>a, <1>c, <2>3
    <3>2. Len(lease.terminal) = lease.next - lease.evicted - 2
      BY ZenonT(30) DEF Open
    <3>3. lease.next - 1 = lease.evicted + (Len(lease.terminal) + 1)
      BY <1>a, <2>1, <3>2
    <3>. QED  BY ZenonT(30), <2>3, <3>1, <3>3
  <2>. QED  BY <1>a, <2>2, <2>3
<1>b. /\ lease.evicted \in Int /\ lease.next \in Nat /\ lease.next >= 1
      /\ Len(lease.terminal) = lease.next - lease.evicted - 2
      /\ Len(lease.terminal) <= CacheCapacity /\ CacheCapacity \in Nat /\ CacheCapacity >= 1
  BY <1>1, LeaseConstants DEF Open, Leases, NoSeq
<1>5. ASSUME Len(full.terminal) > CacheCapacity PROVE Goal
  <2>1. done = [full EXCEPT !.terminal = Tail(full.terminal), !.evicted = Head(full.terminal).seq]
    BY <1>4, <1>5, <1>2, <1>1, ZenonT(30) DEF Trim, Leases
  <2>2. full.terminal \in Seq(Entries) /\ full.terminal # << >>
    BY <1>1, <1>2, AppendProperties
  <2>3. /\ Tail(full.terminal) \in Seq(Entries)
        /\ Len(Tail(full.terminal)) = Len(lease.terminal)
        /\ \A i \in 1 .. Len(lease.terminal) : Tail(full.terminal)[i] = full.terminal[i + 1]
        /\ DOMAIN Tail(full.terminal) = 1 .. Len(lease.terminal)
    BY <2>2, <1>a, HeadTailProperties, LenProperties
  <2>4. Head(full.terminal) = full.terminal[1]
    BY <2>2
  <2>5. Head(full.terminal).seq = lease.evicted + 1 /\ lease.evicted + 1 \in Nat
    <3>1. Head(full.terminal).seq = lease.evicted + 1
      BY <1>3, <1>a, <1>b, <2>4
    <3>2. lease.evicted \in Nat \cup {-1}
      BY ZenonT(30), <1>1 DEF Leases, NoSeq
    <3>. QED  BY <3>1, <3>2
  <2>6. /\ done \in Leases
        /\ done.terminal = Tail(full.terminal)
        /\ done.evicted = lease.evicted + 1
        /\ done.id = lease.id /\ done.peer = lease.peer /\ done.expires = lease.expires
        /\ done.next = lease.next
    BY <1>2, <2>1, <2>3, <2>5, ZenonT(30) DEF Leases
  <2>7. Len(done.terminal) = Len(lease.terminal) /\ Len(lease.terminal) = CacheCapacity
    BY <1>a, <1>b, <1>5, <2>3, <2>6
  <2>8. \A i \in DOMAIN done.terminal : done.terminal[i].seq = done.evicted + i
    <3>. SUFFICES ASSUME NEW i \in 1 .. Len(lease.terminal)
                  PROVE  done.terminal[i].seq = done.evicted + i
      BY ZenonT(30), <2>3, <2>6
    <3>1. done.terminal[i] = full.terminal[i + 1] /\ i + 1 \in 1 .. Len(full.terminal)
      BY <1>a, <2>3, <2>6
    <3>2. full.terminal[i + 1].seq = lease.evicted + (i + 1)
      BY ZenonT(30), <1>3, <3>1
    <3>3. i \in Int
      BY <1>a
    <3>4. \A a, b \in Int : a + (b + 1) = (a + 1) + b
      OBVIOUS
    <3>5. lease.evicted + (i + 1) = (lease.evicted + 1) + i
      BY <1>b, <3>3, <3>4, ZenonT(30)
    <3>. QED  BY ZenonT(30), <2>6, <3>1, <3>2, <3>5
  <2>9. done.terminal[Len(done.terminal)] = entry
    <3>1. Len(lease.terminal) \in 1 .. Len(lease.terminal)
      BY <1>a, <1>b, <2>7
    <3>. QED  BY ZenonT(30), <1>a, <2>3, <2>6, <2>7, <3>1
  <2>10. Contiguous(done)
    BY <1>b, <2>6, <2>7, <2>8 DEF Contiguous
  <2>. QED  BY ZenonT(30), <1>b, <2>6, <2>7, <2>9, <2>10
<1>6. ASSUME ~(Len(full.terminal) > CacheCapacity) PROVE Goal
  <2>1. done = full
    BY <1>4, <1>6 DEF Trim
  <2>2. DOMAIN full.terminal = 1 .. Len(full.terminal)
    BY <1>1, <1>2, AppendProperties, LenProperties
  <2>3. Contiguous(done)
    <3>1. Len(done.terminal) = done.next - done.evicted - 1
      BY <1>2, <1>a, <1>b, <2>1
    <3>2. Len(done.terminal) <= CacheCapacity
      BY <1>6, <1>a, <1>b, <2>1
    <3>3. \A i \in DOMAIN done.terminal : done.terminal[i].seq = done.evicted + i
      BY ZenonT(30), <1>2, <1>3, <2>1, <2>2
    <3>. QED  BY ZenonT(30), <3>1, <3>2, <3>3 DEF Contiguous
  <2>. QED  BY <1>2, <1>a, <2>1, <2>3
<1>. QED  BY ZenonT(30), <1>5, <1>6 DEF done, entry

\* A contiguous cache holds the answer to number next - 1 in its last place.
LEMMA LastAnswer ==
  ASSUME NEW lease \in Leases, Contiguous(lease), Len(lease.terminal) >= 1
  PROVE  /\ lease.next > 0
         /\ Cached(lease, lease.next - 1)
         /\ Entry(lease, lease.next - 1) = lease.terminal[Len(lease.terminal)]
<1> DEFINE n == Len(lease.terminal)
<1>1. /\ lease.evicted \in Int /\ lease.evicted >= -1 /\ lease.next \in Nat
      /\ n \in Nat /\ n >= 1 /\ DOMAIN lease.terminal = 1 .. n
  BY LenProperties DEF Leases, NoSeq
<1>2. n = lease.next - lease.evicted - 1
  BY ZenonT(30) DEF Contiguous
<1>3. \A i \in 1 .. n : lease.terminal[i].seq = lease.evicted + i
  BY ZenonT(30), <1>1 DEF Contiguous
<1> HIDE DEF n
<1>4. n \in 1 .. n /\ lease.next > 0 /\ lease.evicted + n = lease.next - 1
  BY <1>1, <1>2
<1>5. \A i \in 1 .. n : lease.terminal[i].seq = lease.next - 1 <=> i = n
  BY <1>1, <1>3, <1>4
<1>6. Cached(lease, lease.next - 1)
  BY ZenonT(30), <1>1, <1>4, <1>5 DEF Cached
<1>7. (CHOOSE i \in DOMAIN lease.terminal : lease.terminal[i].seq = lease.next - 1) = n
  BY ZenonT(30), <1>1, <1>4, <1>5
<1>. QED  BY <1>4, <1>6, <1>7, ZenonT(30) DEF Entry, n

\* Only the next number of a lease is executed, and never the last one of u64.
LEMMA AdmitsOnlyNext ==
  ASSUME NEW lease, NEW s, Admission(lease, s) = "ExecuteOnce"
  PROVE  s = lease.next /\ s # SeqLimit
BY DEF Admission

-----------------------------------------------------------------------------
\* The absent lease is in range and has a cache without gaps.
LEMMA NoLeaseFits ==
  ASSUME LeaseTypeOK
  PROVE  InRange(NoLease) /\ Contiguous(NoLease)
<1>1. NoLease \in Leases /\ Len(NoLease.terminal) = 0 /\ DOMAIN NoLease.terminal = {}
  BY EmptySeq DEF NoLease, Leases, NoSeq
<1>. QED  BY <1>1, LeaseConstants DEF InRange, Contiguous, LeaseTypeOK, NoLease, NoSeq

\* So has the lease a handler sees after expiring the old one.
LEMMA CurrentFits ==
  ASSUME LeaseInv
  PROVE  InRange(Current) /\ Contiguous(Current)
BY ZenonT(30), NoLeaseFits DEF LeaseInv, LeaseTypeOK, CacheContiguous, Current

\* What executing the next number of the lease in force leaves behind.
LEMMA ExecutedFits ==
  ASSUME LeaseInv, NEW ref \in Refs, NEW until \in Nat, until <= now + LeaseTtl,
         Current.id # 0, Current.next # SeqLimit
  PROVE  LET done == CompleteActive([Begun(Current) EXCEPT !.expires = until], Current.next, ref)
         IN  /\ InRange(done)
             /\ Contiguous(done)
             /\ done.id = Current.id
             /\ done.peer = Current.peer
             /\ done.expires = until
             /\ done.next = Current.next + 1
             /\ Cached(done, done.next - 1)
             /\ done.next > 0
             /\ Entry(done, done.next - 1).ref = ref
<1> DEFINE open == [Begun(Current) EXCEPT !.expires = until]
           done == CompleteActive(open, Current.next, ref)
<1>1. InRange(Current) /\ Contiguous(Current)
  BY ZenonT(30), CurrentFits
<1>2. /\ Current \in Leases /\ Current.next \in Nat /\ Current.next < SeqLimit
      /\ Current.evicted \in Int
      /\ Current.peer \in Peers /\ Current.id <= granted
  BY <1>1, LeaseConstants DEF InRange, Leases, NoSeq
<1>3. /\ open \in Leases /\ open.next = Current.next + 1 /\ open.terminal = Current.terminal
      /\ open.evicted = Current.evicted /\ open.expires = until
      /\ open.id = Current.id /\ open.peer = Current.peer
  <2> DEFINE b == Begun(Current)
  <2>1. /\ b \in Leases /\ b.next = Current.next + 1 /\ b.terminal = Current.terminal
        /\ b.evicted = Current.evicted /\ b.id = Current.id /\ b.peer = Current.peer
    BY <1>2 DEF Begun, Leases
  <2> HIDE DEF b
  <2>2. [b EXCEPT !.expires = until] \in Leases
    BY ZenonT(30), <2>1 DEF Leases
  <2>3. open = [b EXCEPT !.expires = until]
    BY ZenonT(30) DEF b
  <2>. QED  BY ZenonT(30), <2>1, <2>2, <2>3 DEF Leases
<1> HIDE DEF open
<1>4. Open(open) /\ open.next - 1 = Current.next
  <2>1. Len(open.terminal) = open.next - open.evicted - 2
    BY <1>1, <1>2, <1>3 DEF Contiguous
  <2>. QED  BY <1>1, <1>2, <1>3, <2>1 DEF Open, Contiguous
<1>5. /\ done \in Leases /\ Contiguous(done) /\ done.id = open.id /\ done.peer = open.peer
      /\ done.expires = open.expires /\ done.next = open.next /\ Len(done.terminal) >= 1
      /\ done.terminal[Len(done.terminal)] = [seq |-> Current.next, ref |-> ref]
  BY <1>4, CompleteActiveCloses
<1> HIDE DEF done
<1>6. Cached(done, done.next - 1) /\ Entry(done, done.next - 1).ref = ref /\ done.next > 0
  BY <1>5, LastAnswer
<1>7. InRange(done)
  BY <1>2, <1>3, <1>5, LeaseConstants DEF InRange
<1>. QED  BY ZenonT(30), <1>3, <1>5, <1>6, <1>7 DEF done, open

\* The facts about a renewed lease that its answer carries.
LEMMA RenewalFits ==
  ASSUME LeaseInv
  PROVE  LeaseRef([Begun(Current) EXCEPT !.expires = now + LeaseTtl]) \in Refs
<1> DEFINE renewed == [Begun(Current) EXCEPT !.expires = now + LeaseTtl]
<1>1. Current \in Leases /\ now \in Nat
  BY ZenonT(30), CurrentFits DEF InRange, LeaseInv, LeaseTypeOK
<1>2. Begun(Current) \in Leases
  BY <1>1 DEF Begun, Leases
<1>3. renewed.id \in Nat /\ renewed.next \in Nat /\ renewed.expires = now + LeaseTtl
  BY ZenonT(30), <1>2 DEF Leases
<1> HIDE DEF renewed
<1>4. LeaseRef(renewed) \in Refs
  BY <1>1, <1>3, LeaseConstants DEF LeaseRef, Refs
<1>. QED  BY <1>4 DEF renewed

\* The inductive invariant holds after a cold start.
LEMMA LeaseInvInit == LeaseInit => LeaseInv
<1> SUFFICES ASSUME LeaseInit PROVE LeaseInv
  OBVIOUS
<1>1. NoLease \in Leases /\ Len(NoLease.terminal) = 0 /\ DOMAIN NoLease.terminal = {}
  BY EmptySeq DEF NoLease, Leases, NoSeq
<1>2. LeaseTypeOK
  BY <1>1, LeaseConstants DEF LeaseInit, LeaseTypeOK, InRange, NoLease
<1>3. CacheContiguous
  BY <1>1, LeaseConstants DEF LeaseInit, CacheContiguous, Contiguous, NoLease, NoSeq
<1>4. ReleaseAnswerKept
  BY ZenonT(30) DEF LeaseInit, ReleaseAnswerKept, NoLease
<1>. QED  BY ZenonT(30), <1>2, <1>3, <1>4 DEF LeaseInv

\* Every step of the lease keeps the inductive invariant.
LEMMA LeaseInvStep == LeaseInv /\ [LeaseNext]_leaseVars => LeaseInv'
<1> SUFFICES ASSUME LeaseInv, [LeaseNext]_leaseVars PROVE LeaseInv'
  BY ZenonT(30)
<1> USE LeaseConstants
<1>1. /\ now \in Nat /\ granted \in Nat
      /\ InRange(active) /\ InRange(released) /\ Contiguous(active) /\ Contiguous(released)
      /\ InRange(NoLease) /\ Contiguous(NoLease) /\ InRange(Current) /\ Contiguous(Current)
      /\ NoLease.id = 0 /\ (Current.id # 0 => active.id # 0 /\ Current = active)
  BY ZenonT(30), NoLeaseFits, CurrentFits DEF LeaseInv, LeaseTypeOK, CacheContiguous, Current, NoLease
\* the lease is left alone but for its expiry
<1>2. ASSUME active' = Current, UNCHANGED <<now, released, granted>>
      PROVE  LeaseInv'
  <2>1. LeaseTypeOK' /\ CacheContiguous'
    BY ZenonT(30), <1>1, <1>2 DEF LeaseTypeOK, CacheContiguous, InRange
  <2>2. ReleaseAnswerKept'
    BY ZenonT(30), <1>1, <1>2 DEF LeaseInv, ReleaseAnswerKept
  <2>. QED  BY ZenonT(30), <2>1, <2>2 DEF LeaseInv
<1>3. ASSUME NEW p \in Peers, AcquireFree(p), UNCHANGED now
      PROVE  LeaseInv'
  <2> DEFINE g == Grant(p)
  <2>1. /\ g \in Leases /\ g.id = granted + 1 /\ g.next = 0 /\ g.expires = now + LeaseTtl
        /\ g.peer = p /\ g.terminal = << >> /\ g.evicted = -1
    BY <1>1, EmptySeq DEF Grant, Leases, NoSeq
  <2> HIDE DEF g
  <2>2. active' = g /\ released' = NoLease /\ granted' = granted + 1 /\ now' = now
    BY ZenonT(30), <1>3 DEF AcquireFree, g
  <2>3. Contiguous(g)
    BY <2>1, EmptySeq DEF Contiguous
  <2>4. LeaseTypeOK' /\ CacheContiguous'
    BY <1>1, <2>1, <2>2, <2>3 DEF LeaseTypeOK, CacheContiguous, InRange, NoLease
  <2>5. ReleaseAnswerKept'
    BY ZenonT(30), <1>1, <2>2 DEF ReleaseAnswerKept
  <2>. QED  BY ZenonT(30), <2>4, <2>5 DEF LeaseInv
<1>4. ASSUME NEW p \in Peers, NEW l, NEW s, RenewExecutes(p, l, s)
      PROVE  LeaseInv'
  <2> DEFINE renewed == [Begun(Current) EXCEPT !.expires = now + LeaseTtl]
             done == CompleteActive(renewed, Current.next, LeaseRef(renewed))
  <2>1. Current.id # 0 /\ s = Current.next /\ s # SeqLimit
    BY ZenonT(30), <1>4, AdmitsOnlyNext DEF RenewExecutes, Valid
  <2>2. LeaseRef(renewed) \in Refs
    BY ZenonT(30), RenewalFits
  <2>3. InRange(done) /\ Contiguous(done) /\ done.id = Current.id
    BY <1>1, <2>1, <2>2, ExecutedFits
  <2>4. active' = done /\ UNCHANGED <<now, released, granted>>
    BY ZenonT(30), <1>4, <2>1 DEF RenewExecutes
  <2> HIDE DEF done, renewed
  <2>5. LeaseTypeOK' /\ CacheContiguous'
    BY ZenonT(30), <1>1, <2>3, <2>4 DEF LeaseTypeOK, CacheContiguous, InRange
  <2>6. ReleaseAnswerKept'
    BY ZenonT(30), <1>1, <2>1, <2>4 DEF LeaseInv, ReleaseAnswerKept
  <2>. QED  BY <2>5, <2>6 DEF LeaseInv
<1>5. ASSUME NEW p \in Peers, NEW l, NEW s, ReleaseExecutes(p, l, s)
      PROVE  LeaseInv'
  <2> DEFINE done == CompleteActive([Begun(Current) EXCEPT !.expires = Current.expires],
                                    Current.next, NoRef)
  <2>1. Current.id # 0 /\ s = Current.next /\ s # SeqLimit
    BY ZenonT(30), <1>5, AdmitsOnlyNext DEF ReleaseExecutes, Valid
  <2>2. Begun(Current) = [Begun(Current) EXCEPT !.expires = Current.expires]
    BY <1>1, ZenonT(30) DEF Begun, InRange, Leases
  <2>3. NoRef \in Refs /\ Current.expires \in Nat /\ Current.expires <= now + LeaseTtl
    BY ZenonT(30), <1>1 DEF NoRef, Refs, InRange, Leases
  <2>4. /\ InRange(done) /\ Contiguous(done) /\ done.next > 0
        /\ Cached(done, done.next - 1) /\ Entry(done, done.next - 1).ref = NoRef
    BY ZenonT(30), <2>1, <2>3, ExecutedFits
  <2>5. released' = done /\ active' = NoLease /\ UNCHANGED <<now, granted>>
    BY ZenonT(30), <1>5, <2>1, <2>2 DEF ReleaseExecutes
  <2> HIDE DEF done
  <2>6. LeaseTypeOK' /\ CacheContiguous'
    BY ZenonT(30), <1>1, <2>4, <2>5 DEF LeaseTypeOK, CacheContiguous, InRange
  <2>7. ReleaseAnswerKept'
    BY ZenonT(30), <1>1, <2>4, <2>5 DEF ReleaseAnswerKept
  <2>. QED  BY <2>6, <2>7 DEF LeaseInv
<1>6. CASE Tick
  <2>0. active.expires \in Nat /\ released.expires \in Nat /\ now' = now + 1
    BY ZenonT(30), <1>1, <1>6 DEF Tick, InRange, Leases
  <2>1. LeaseTypeOK' /\ CacheContiguous'
    BY <1>1, <1>6, <2>0 DEF Tick, LeaseTypeOK, CacheContiguous, InRange
  <2>2. ReleaseAnswerKept'
    BY ZenonT(30), <1>6 DEF Tick, LeaseInv, ReleaseAnswerKept
  <2>. QED  BY <2>1, <2>2 DEF LeaseInv
<1>7. CASE UNCHANGED leaseVars
  BY ZenonT(30), <1>7 DEF leaseVars, LeaseInv, LeaseTypeOK, CacheContiguous, ReleaseAnswerKept, InRange
<1>8. CASE LeaseNext
  <2>1. CASE LeaseCommand
    <3>1. PICK p \in Peers :
            \/ Acquire(p)
            \/ \E l \in 1 .. granted, s \in 0 .. SeqLimit : Renew(p, l, s) \/ Release(p, l, s)
      BY ZenonT(30), <2>1 DEF LeaseCommand
    <3>2. CASE Acquire(p)
      <4>1. CASE AcquireFree(p)
        BY ZenonT(30), <1>3, <3>2, <4>1 DEF Acquire
      <4>2. CASE AcquireHeld(p)
        BY ZenonT(30), <1>2, <3>2, <4>2 DEF Acquire, AcquireHeld
      <4>. QED  BY ZenonT(30), <3>2, <4>1, <4>2 DEF Acquire
    <3>3. CASE \E l \in 1 .. granted, s \in 0 .. SeqLimit : Renew(p, l, s) \/ Release(p, l, s)
      BY ZenonT(30), <1>2, <1>4, <1>5, <3>3 DEF Renew, Release, Refuse
    <3>. QED  BY ZenonT(30), <3>1, <3>2, <3>3
  <2>2. CASE \E s \in 0 .. SeqLimit : Unsupported(s)
    BY ZenonT(30), <1>2, <2>2 DEF Unsupported
  <2>3. CASE Reconcile
    BY ZenonT(30), <1>2, <2>3 DEF Reconcile
  <2>. QED  BY ZenonT(30), <1>6, <1>8, <2>1, <2>2, <2>3 DEF LeaseNext
<1>. QED  BY ZenonT(30), <1>7, <1>8

-----------------------------------------------------------------------------
\* The lease manager never leaves its types and ranges: identifiers are granted
\* ones, numbers stay within u64, deadlines within one TTL.
THEOREM LeaseTypeCorrect == LeaseSpec => []LeaseTypeOK
<1>1. LeaseInv => LeaseTypeOK
  BY ZenonT(30) DEF LeaseInv
<1>. QED  BY <1>1, LeaseInvInit, LeaseInvStep, PTL DEF LeaseSpec

\* No command number is executed twice and none is skipped, whatever is retried,
\* for every cache capacity (begin_mutation_internal, trim_terminal_cache).
THEOREM EachNumberOnce == LeaseSpec => []CacheContiguous
<1>1. LeaseInv => CacheContiguous
  BY ZenonT(30) DEF LeaseInv
<1>. QED  BY <1>1, LeaseInvInit, LeaseInvStep, PTL DEF LeaseSpec

\* A repeated RELEASE is answered as completed until another lease is granted.
THEOREM RepeatedReleaseAnswered == LeaseSpec => []ReleaseAnswerKept
<1>1. LeaseInv => ReleaseAnswerKept
  BY ZenonT(30) DEF LeaseInv
<1>. QED  BY <1>1, LeaseInvInit, LeaseInvStep, PTL DEF LeaseSpec

\* A retried command, a second ACQUIRE and a refusal never move a deadline.
THEOREM DeadlineMovesWithSequence == LeaseSpec => RetryNeverExtends
<1>1. ASSUME LeaseInv, [LeaseNext]_leaseVars,
             active'.id = active.id, active'.expires # active.expires
      PROVE  active'.next = active.next + 1
  <2> USE LeaseConstants
  <2>1. /\ now \in Nat /\ granted \in Nat /\ InRange(Current) /\ InRange(active)
        /\ (Current.id # 0 => Current = active)
        /\ (Current.id = 0 => Current = NoLease)
    BY ZenonT(30), <1>1, CurrentFits DEF LeaseInv, LeaseTypeOK, Current, NoLease, InRange
  <2>2. ASSUME active' = Current PROVE FALSE
    BY ZenonT(30), <1>1, <2>1, <2>2 DEF InRange, NoLease
  <2>3. ASSUME NEW p \in Peers, AcquireFree(p) PROVE FALSE
    BY <1>1, <2>1, <2>3 DEF AcquireFree, Grant, InRange, Leases
  <2>4. ASSUME NEW p, NEW l, NEW s, RenewExecutes(p, l, s) PROVE active'.next = active.next + 1
    <3> DEFINE renewed == [Begun(Current) EXCEPT !.expires = now + LeaseTtl]
               done == CompleteActive(renewed, Current.next, LeaseRef(renewed))
    <3>1. Current.id # 0 /\ s = Current.next /\ s # SeqLimit
      BY ZenonT(30), <2>4, AdmitsOnlyNext DEF RenewExecutes, Valid
    <3>2. LeaseRef(renewed) \in Refs
      BY ZenonT(30), <1>1, RenewalFits
    <3>3. done.next = Current.next + 1
      BY <1>1, <2>1, <3>1, <3>2, ExecutedFits
    <3>4. active' = done
      BY ZenonT(30), <2>4, <3>1 DEF RenewExecutes
    <3>. QED  BY ZenonT(30), <2>1, <3>1, <3>3, <3>4
  <2>5. ASSUME NEW p, NEW l, NEW s, ReleaseExecutes(p, l, s) PROVE FALSE
    BY ZenonT(30), <1>1, <2>1, <2>5 DEF ReleaseExecutes, Valid, NoLease
  <2>6. CASE UNCHANGED active
    BY ZenonT(30), <1>1, <2>6
  <2>. QED
    BY ZenonT(30), <1>1, <2>2, <2>3, <2>4, <2>5, <2>6
    DEF LeaseNext, LeaseCommand, Acquire, AcquireHeld, Renew, Release, Refuse,
        Unsupported, Reconcile, Tick, leaseVars
<1>. QED  BY <1>1, LeaseInvInit, LeaseInvStep, PTL DEF LeaseSpec, RetryNeverExtends

\* The lease that expires lazily and answers from a cache implements the one that
\* an exact timer would end: every step is a step of EagerLease or leaves what it
\* shows unchanged.
THEOREM LazyLeaseIsEager == LeaseSpec => ImplementsEagerLease
<1> USE LeaseConstants
<1>1. LeaseInit => Eager!Init
  BY DEF LeaseInit, Eager!Init, Eager!Nobody, Current, NoLease
<1>2. LeaseInv /\ LeaseInv' /\ [LeaseNext]_leaseVars => [Eager!Next]_(Eager!vars)
  <2> SUFFICES ASSUME LeaseInv, LeaseInv', [LeaseNext]_leaseVars
               PROVE  [Eager!Next]_(Eager!vars)
    BY ZenonT(30)
  <2>1. /\ now \in Nat /\ granted \in Nat /\ InRange(Current) /\ InRange(active)
        /\ active.expires \in Nat
        /\ (Current.id # 0 => Current = active)
        /\ (Current.id = 0 => Current = NoLease)
    BY CurrentFits, ZenonT(30) DEF LeaseInv, LeaseTypeOK, Current, NoLease, InRange, Leases
  <2>2. ASSUME active' = Current, UNCHANGED <<now, granted>>
        PROVE  UNCHANGED Eager!vars
    <3>1. Current' = Current
      BY ZenonT(30), <2>1, <2>2 DEF Current, NoLease
    <3>. QED  BY ZenonT(30), <2>2, <3>1 DEF Eager!vars
  <2>3. ASSUME NEW p \in Peers, AcquireFree(p), UNCHANGED now
        PROVE  Eager!Grant(p)
    <3>1. Current' = Grant(p)
      BY <2>1, <2>3 DEF AcquireFree, Current, Grant
    <3>. QED  BY <2>1, <2>3, <3>1 DEF AcquireFree, Grant, Eager!Grant, Eager!Nobody, NoLease
  <2>4. ASSUME NEW p, NEW l, NEW s, RenewExecutes(p, l, s)
        PROVE  Eager!Renew
    <3> DEFINE renewed == [Begun(Current) EXCEPT !.expires = now + LeaseTtl]
               done == CompleteActive(renewed, Current.next, LeaseRef(renewed))
    <3>1. Current.id # 0 /\ s = Current.next /\ s # SeqLimit
      BY ZenonT(30), <2>4, AdmitsOnlyNext DEF RenewExecutes, Valid
    <3>r. LeaseRef(renewed) \in Refs /\ now + LeaseTtl \in Nat
      BY <2>1, RenewalFits
    <3>2. /\ done.id = Current.id /\ done.peer = Current.peer
          /\ done.expires = now + LeaseTtl /\ done.next = Current.next + 1
      BY <2>1, <3>1, <3>r, ExecutedFits
    <3>3. active' = done /\ UNCHANGED <<now, granted>>
      BY ZenonT(30), <2>4, <3>1 DEF RenewExecutes
    <3> HIDE DEF done, renewed
    <3>4. Current' = done
      BY <2>1, <3>1, <3>2, <3>3 DEF Current
    <3>5. /\ Current'.id = Current.id /\ Current'.peer = Current.peer
          /\ Current'.expires = now + LeaseTtl /\ Current'.next = Current.next + 1
      BY ZenonT(30), <3>2, <3>4
    <3>. QED  BY ZenonT(30), <3>1, <3>3, <3>5 DEF Eager!Renew
  <2>5. ASSUME NEW p, NEW l, NEW s, ReleaseExecutes(p, l, s)
        PROVE  Eager!Release
    <3>1. Current' = NoLease /\ Current.id # 0
      BY ZenonT(30), <2>5 DEF ReleaseExecutes, Current, NoLease, Valid
    <3>. QED  BY ZenonT(30), <2>5, <3>1 DEF ReleaseExecutes, Eager!Release, Eager!Nobody, NoLease
  <2>6. ASSUME Tick
        PROVE  Eager!Tick
    <3>1. now' = now + 1 /\ active' = active /\ granted' = granted
      BY ZenonT(30), <2>6 DEF Tick
    <3>2. Current' = IF Current.id # 0 /\ now + 1 >= Current.expires THEN NoLease ELSE Current
      BY <2>1, <3>1 DEF Current, NoLease
    <3>. QED  BY ZenonT(30), <3>1, <3>2 DEF Eager!Tick, Eager!Nobody, NoLease
  <2>7. ASSUME UNCHANGED leaseVars
        PROVE  UNCHANGED Eager!vars
    BY ZenonT(30), <2>7 DEF leaseVars, Eager!vars, Current
  <2>. QED
    BY ZenonT(30), <2>2, <2>3, <2>4, <2>5, <2>6, <2>7
    DEF LeaseNext, LeaseCommand, Acquire, AcquireHeld, Renew, Release, Refuse,
        Unsupported, Reconcile, Eager!Next
<1>. QED  BY <1>1, <1>2, LeaseInvInit, LeaseInvStep, PTL
          DEF LeaseSpec, ImplementsEagerLease, Eager!Spec

-----------------------------------------------------------------------------
(* Health bands: the inductive invariant.                                  *)
(*                                                                         *)
(* While a band recovers, no sample that speaks against it is younger than *)
(* the recovery; a battery that recovers from the throttled band was left  *)
(* at a refused charge a whole recovery before that.                       *)

ThermalInv ==
  /\ thermal \in [band : 0 .. 7, target : {Never} \cup 0 .. 6, since : Ages]
  /\ seen.thermal \in [0 .. 6 -> Ages]
  /\ age = Never => \A l \in 0 .. 6 : seen.thermal[l] = Never
  /\ thermal.target # Never =>
       /\ thermal.since # Never
       /\ \A l \in 0 .. 6 : seen.thermal[l] # Never /\ l > thermal.target => seen.thermal[l] >= thermal.since
  /\ ThermalHeld
  /\ age # Never => latest.thermal <= thermal.band

MemoryInv ==
  /\ memory \in [blocked : BOOLEAN, since : Ages]
  /\ seen.scarce \in 0 .. Oldest
  /\ memory.since # Never => seen.scarce >= memory.since
  /\ ~memory.blocked => seen.scarce >= Recovery

BatteryInv ==
  /\ battery \in [band : 0 .. 3, target : {Never} \cup 0 .. 3, since : Ages]
  /\ seen.left \in Ages /\ seen.spared \in Ages
  /\ age = Never => seen.left = Never /\ seen.spared = Never
  /\ age # Never => battery.band # Unknown
  /\ battery.target # Never =>
       /\ battery.since # Never /\ battery.band \in {Throttle, Refused} /\ battery.target = Better
       /\ battery.band = Refused /\ seen.left # Never => seen.left >= battery.since
       /\ battery.band = Throttle /\ seen.left # Never =>
            seen.left >= BatteryRecovery + battery.since \/ seen.left = Oldest
       /\ battery.band = Throttle /\ seen.spared # Never => seen.spared >= battery.since
  /\ BatteryHeld
  /\ age # Never /\ RawBattery(latest) = Refused => battery.band = Refused

HealthInv == latest \in Samples /\ age \in Ages /\ ThermalInv /\ MemoryInv /\ BatteryInv

\* Time makes no age younger, and keeps their order.
LEMMA OlderIs ==
  ASSUME HealthConstants, NEW a \in Ages
  PROVE  /\ Older(a) \in Ages /\ (Older(a) = Never <=> a = Never) /\ Older(a) >= a
         /\ \A b \in Ages : b <= a => Older(b) <= Older(a)
BY DEF HealthConstants, Ages, Never, Older

\* A recovery begins, ends or goes on.
LEMMA RecoversIs ==
  ASSUME NEW m, m = [band |-> m.band, target |-> m.target, since |-> m.since], NEW t, NEW time
  PROVE  \/ m.target # t /\ Recovers(m, t, time) = [band |-> m.band, target |-> t, since |-> 0]
         \/ m.target = t /\ m.since >= time /\ Recovers(m, t, time) = Settled(t)
         \/ m.target = t /\ Recovers(m, t, time) = m
<1> DEFINE n == [m EXCEPT !.target = t]
           r == [m EXCEPT !.target = t, !.since = 0]
<1>1. n = [band |-> m.band, target |-> t, since |-> m.since]
  OBVIOUS
<1>2. r = [n EXCEPT !.since = 0]
  OBVIOUS
<1>3. r = [band |-> m.band, target |-> t, since |-> 0]
  <2> HIDE DEF n, r
  <2>. QED  BY ZenonT(30), <1>1, <1>2
<1>. QED  BY <1>3, ZenonT(30) DEF Recovers

\* What a sample's fields are.
LEMMA SampleIs ==
  ASSUME HealthConstants, NEW s \in Samples
  PROVE  s.thermal \in 0 .. 6 /\ s.memory \in Nat /\ s.percent \in 0 .. 100
         /\ s.low \in BOOLEAN /\ s.charging \in BOOLEAN
<1>1. s \in [memory : Nat, low : BOOLEAN, thermal : 0 .. 6, percent : 0 .. 100, charging : BOOLEAN]
  BY ZenonT(30) DEF HealthConstants
<1>. QED  BY <1>1, ZenonT(30)

\* raw_battery_band
LEMMA RawBatteryIs ==
  ASSUME HealthConstants, NEW s \in Samples
  PROVE  RawBattery(s) = IF s.charging \/ s.percent > 25 THEN Nominal
                         ELSE IF s.percent < 15 THEN Refused ELSE Throttle
<1>1. s.percent \in 0 .. 100 /\ s.charging \in BOOLEAN
  BY SampleIs, ZenonT(30)
<1>2. s.percent > 25 => ~(s.percent < 15)
  BY <1>1
<1>. QED  BY <1>2, ZenonT(30) DEF RawBattery

\* What is remembered of a sample.
LEMMA SeenRecorded ==
  ASSUME HealthConstants, NEW s \in Samples, RecordHealth(s)
  PROVE  /\ seen'.thermal = [seen.thermal EXCEPT ![s.thermal] = 0]
         /\ seen'.scarce = IF Scarce(s) THEN 0 ELSE seen.scarce
         /\ s.charging => seen'.spared = Never /\ seen'.left = Never
         /\ ~s.charging => /\ seen'.spared = IF RawBattery(s) >= Throttle THEN 0 ELSE seen.spared
                           /\ seen'.left = IF RawBattery(s) = Refused THEN 0 ELSE seen.left
<1> DEFINE a == IF Scarce(s) THEN 0 ELSE seen.scarce
           b == CASE s.charging -> Never [] RawBattery(s) >= Throttle -> 0 [] OTHER -> seen.spared
           c == CASE s.charging -> Never [] RawBattery(s) = Refused -> 0 [] OTHER -> seen.left
           d == [seen.thermal EXCEPT ![s.thermal] = 0]
<1>1. seen' = [thermal |-> d, scarce |-> a, spared |-> b, left |-> c]
  BY ZenonT(30) DEF RecordHealth
<1>2. /\ s.charging => b = Never /\ c = Never
      /\ ~s.charging => /\ b = IF RawBattery(s) >= Throttle THEN 0 ELSE seen.spared
                        /\ c = IF RawBattery(s) = Refused THEN 0 ELSE seen.left
  <2>1. s.charging => RawBattery(s) = Nominal
    BY RawBatteryIs, ZenonT(30)
  <2>2. ~(Nominal >= Throttle) /\ Nominal # Refused
    BY DEF Nominal, Throttle, Refused
  <2>. QED  BY <2>1, <2>2, ZenonT(30)
<1> HIDE DEF a, b, c, d
<1>3. seen'.thermal = d /\ seen'.scarce = a /\ seen'.spared = b /\ seen'.left = c
  BY ZenonT(30), <1>1
<1>. QED  BY <1>2, <1>3, ZenonT(30) DEF a, d

\* What time does to it.
LEMMA SeenElapsed ==
  ASSUME Elapse
  PROVE  /\ seen'.thermal = [l \in 0 .. 6 |-> Older(seen.thermal[l])]
         /\ seen'.scarce = Older(seen.scarce)
         /\ seen'.spared = Older(seen.spared) /\ seen'.left = Older(seen.left)
<1> DEFINE d == [l \in 0 .. 6 |-> Older(seen.thermal[l])]
<1>1. seen' = [thermal |-> d, scarce |-> Older(seen.scarce), spared |-> Older(seen.spared),
               left |-> Older(seen.left)]
  BY ZenonT(30) DEF Elapse
<1> HIDE DEF d
<1>2. /\ seen'.thermal = d /\ seen'.scarce = Older(seen.scarce)
      /\ seen'.spared = Older(seen.spared) /\ seen'.left = Older(seen.left)
  BY ZenonT(30), <1>1
<1>. QED  BY ZenonT(30), <1>2 DEF d

\* A band does not change with time, its recovery gets older.
LEMMA BandElapsed ==
  ASSUME NEW m, m = [band |-> m.band, target |-> m.target, since |-> m.since], NEW n,
         n = [m EXCEPT !.since = Older(@)]
  PROVE  n = [band |-> m.band, target |-> m.target, since |-> Older(m.since)]
<1> DEFINE o == Older(m.since)
<1>1. n = [m EXCEPT !.since = o]
  BY ZenonT(30)
<1> HIDE DEF o
<1>2. n = [band |-> m.band, target |-> m.target, since |-> o]
  BY ZenonT(30), <1>1
<1>. QED  BY ZenonT(30), <1>2 DEF o

\* update_thermal
LEMMA ThermalRecorded ==
  ASSUME HealthConstants, HealthInv, NEW s \in Samples, RecordHealth(s)
  PROVE  ThermalInv'
<1>1. /\ thermal' = UpdateThermal(s) /\ latest' = s /\ age' = 0
      /\ seen'.thermal = [seen.thermal EXCEPT ![s.thermal] = 0]
  BY SeenRecorded, ZenonT(30) DEF RecordHealth
<1>2. /\ thermal \in [band : 0 .. 7, target : {Never} \cup 0 .. 6, since : Ages]
      /\ thermal.band \in 0 .. 7 /\ thermal.target \in {Never} \cup 0 .. 6 /\ thermal.since \in Ages
      /\ seen.thermal \in [0 .. 6 -> Ages] /\ ThermalHeld
      /\ age = Never => \A l \in 0 .. 6 : seen.thermal[l] = Never
      /\ thermal.target # Never =>
           /\ thermal.since # Never
           /\ \A l \in 0 .. 6 : seen.thermal[l] # Never /\ l > thermal.target => seen.thermal[l] >= thermal.since
  BY ZenonT(30) DEF HealthInv, ThermalInv
<1>3. s.thermal \in 0 .. 6
  BY ZenonT(30), SampleIs
<1>4. /\ seen'.thermal \in [0 .. 6 -> Ages] /\ seen'.thermal[s.thermal] = 0
      /\ \A l \in 0 .. 6 : l # s.thermal => seen'.thermal[l] = seen.thermal[l]
  BY <1>1, <1>2, <1>3 DEF Ages, HealthConstants
<1>5. Recovery \in Nat /\ Oldest \in Nat /\ Ages = {-1} \cup 0 .. Oldest /\ Never = -1
  BY ZenonT(30) DEF HealthConstants, Ages, Never
<1>6. ASSUME NEW b \in 0 .. 6, thermal' = Settled(b), s.thermal <= b,
             \A l \in 0 .. 6 : l # s.thermal /\ l > b /\ seen.thermal[l] # Never => seen.thermal[l] >= Recovery
      PROVE  ThermalInv'
  <2>1. thermal'.band = b /\ thermal'.target = Never /\ thermal'.since = Never
    BY ZenonT(30), <1>6 DEF Settled
  <2>2. thermal' \in [band : 0 .. 7, target : {Never} \cup 0 .. 6, since : Ages]
    BY <1>5, <1>6 DEF Settled
  <2>3. ThermalHeld'
    BY <1>3, <1>4, <1>5, <1>6, <2>1 DEF ThermalHeld
  <2>4. age' # Never /\ latest'.thermal <= thermal'.band
    BY <1>1, <1>5, <1>6, <2>1
  <2>. QED  BY <1>4, <2>1, <2>2, <2>3, <2>4, ZenonT(30) DEF ThermalInv
<1>7. CASE age = Never \/ s.thermal > thermal.band
  <2>1. thermal' = Settled(s.thermal)
    <3>1. ~(age # Never /\ s.thermal < thermal.band)
      BY <1>2, <1>3, <1>7
    <3>. QED  BY <1>1, <1>7, <3>1, ZenonT(30) DEF UpdateThermal
  <2>2. \A l \in 0 .. 6 : l > s.thermal /\ seen.thermal[l] # Never => seen.thermal[l] >= Recovery
    BY <1>2, <1>3, <1>7 DEF ThermalHeld
  <2>. QED  BY <1>3, <1>6, <2>1, <2>2
<1>8. CASE age # Never /\ s.thermal < thermal.band
  <2>1. thermal' = Recovers(thermal, s.thermal, Recovery)
    <3>1. ~(s.thermal > thermal.band)
      BY <1>2, <1>3, <1>8
    <3>. QED  BY <1>1, <1>8, <3>1, ZenonT(30) DEF UpdateThermal
  <2>2. CASE thermal.target = s.thermal /\ thermal.since >= Recovery /\ thermal' = Settled(s.thermal)
    <3>1. \A l \in 0 .. 6 : l > s.thermal /\ seen.thermal[l] # Never => seen.thermal[l] >= Recovery
      BY <1>2, <1>3, <1>5, <2>2
    <3>. QED  BY <1>3, <1>6, <2>2, <3>1
  <2>3. ASSUME thermal' \in [band : 0 .. 7, target : {Never} \cup 0 .. 6, since : Ages],
               thermal'.band = thermal.band, thermal'.target = s.thermal, thermal'.since # Never,
               \A l \in 0 .. 6 : seen.thermal[l] # Never /\ l > s.thermal => seen.thermal[l] >= thermal'.since
        PROVE  ThermalInv'
    <3>0. /\ thermal.band \in 0 .. 7 /\ \A l \in 0 .. 6 : seen.thermal[l] \in Ages /\ seen'.thermal[l] \in Ages
          /\ thermal'.band = thermal.band /\ thermal'.target = s.thermal /\ thermal'.since \in Ages
          /\ thermal'.since # Never
          /\ \A l \in 0 .. 6 : seen.thermal[l] # Never /\ l > s.thermal => seen.thermal[l] >= thermal'.since
      BY <1>2, <1>4, <2>3, ZenonT(30)
    <3>1. \A l \in 0 .. 6 : seen'.thermal[l] # Never /\ l > thermal'.target => seen'.thermal[l] >= thermal'.since
      <4>1. \A l \in 0 .. 6 : l # s.thermal => seen'.thermal[l] = seen.thermal[l]
        BY <1>4, ZenonT(30)
      <4>. QED  BY <1>3, <3>0, <4>1
    <3>2. ThermalHeld'
      <4>1. ThermalHeld /\ seen'.thermal[s.thermal] = 0
            /\ \A l \in 0 .. 6 : l # s.thermal => seen'.thermal[l] = seen.thermal[l]
        BY <1>2, <1>4, ZenonT(30)
      <4>. QED  BY <1>3, <1>8, <3>0, <4>1 DEF ThermalHeld
    <3>3. age' # Never /\ latest'.thermal <= thermal'.band
      <4>1. age' = 0 /\ latest' = s
        BY <1>1, ZenonT(30)
      <4>. QED  BY <1>3, <1>5, <1>8, <3>0, <4>1
    <3>. QED  BY <1>4, <2>3, <3>1, <3>2, <3>3, ZenonT(30) DEF ThermalInv
  <2>4. CASE thermal' = [band |-> thermal.band, target |-> s.thermal, since |-> 0]
    <3>1. /\ thermal' \in [band : 0 .. 7, target : {Never} \cup 0 .. 6, since : Ages]
          /\ thermal'.band = thermal.band /\ thermal'.target = s.thermal /\ thermal'.since = 0 /\ 0 # Never
      <4>1. 0 \in Ages /\ 0 # Never
        BY <1>5
      <4>. QED  BY <1>2, <1>3, <2>4, <4>1, ZenonT(30)
    <3>2. \A l \in 0 .. 6 : seen.thermal[l] # Never => seen.thermal[l] >= 0
      BY <1>2, <1>5
    <3>. QED  BY ZenonT(30), <2>3, <3>1, <3>2
  <2>5. CASE thermal' = thermal /\ thermal.target = s.thermal
    <3>1. s.thermal # Never
      BY <1>3, <1>5
    <3>. QED  BY <1>2, <2>3, <2>5, <3>1, ZenonT(30)
  <2>6. \/ thermal' = [band |-> thermal.band, target |-> s.thermal, since |-> 0]
        \/ thermal.target = s.thermal /\ thermal.since >= Recovery /\ thermal' = Settled(s.thermal)
        \/ thermal' = thermal /\ thermal.target = s.thermal
    <3>1. thermal = [band |-> thermal.band, target |-> thermal.target, since |-> thermal.since]
      BY ZenonT(30), <1>2
    <3>. QED  BY <2>1, <3>1, RecoversIs, ZenonT(30)
  <2>. QED  BY ZenonT(30), <2>2, <2>4, <2>5, <2>6
<1>9. CASE age # Never /\ s.thermal = thermal.band
  <2>1. thermal' = Settled(thermal.band)
    <3>1. ~(s.thermal > thermal.band) /\ ~(s.thermal < thermal.band)
      BY <1>3, <1>9
    <3>. QED  BY <1>1, <1>9, <3>1, ZenonT(30) DEF UpdateThermal
  <2>2. \A l \in 0 .. 6 : l > thermal.band /\ seen.thermal[l] # Never => seen.thermal[l] >= Recovery
    BY ZenonT(30), <1>2 DEF ThermalHeld
  <2>. QED  BY <1>3, <1>6, <1>9, <2>1, <2>2
<1>10. \/ age = Never \/ s.thermal > thermal.band
       \/ age # Never /\ s.thermal < thermal.band
       \/ age # Never /\ s.thermal = thermal.band
  BY <1>2, <1>3
<1>. QED  BY ZenonT(30), <1>7, <1>8, <1>9, <1>10

\* Time passes for the thermal band: every age grows with the recovery under way.
LEMMA ThermalElapsed ==
  ASSUME HealthConstants, HealthInv, Elapse
  PROVE  ThermalInv'
<1>1. /\ thermal \in [band : 0 .. 7, target : {Never} \cup 0 .. 6, since : Ages]
      /\ thermal.band \in 0 .. 7 /\ thermal.target \in {Never} \cup 0 .. 6 /\ thermal.since \in Ages
      /\ seen.thermal \in [0 .. 6 -> Ages] /\ ThermalHeld /\ age \in Ages
      /\ age = Never => \A l \in 0 .. 6 : seen.thermal[l] = Never
      /\ age # Never => latest.thermal <= thermal.band
      /\ thermal.target # Never =>
           /\ thermal.since # Never
           /\ \A l \in 0 .. 6 : seen.thermal[l] # Never /\ l > thermal.target => seen.thermal[l] >= thermal.since
  BY ZenonT(30) DEF HealthInv, ThermalInv
<1>2. age' = Older(age) /\ thermal' = [thermal EXCEPT !.since = Older(@)] /\ latest' = latest
  BY ZenonT(30) DEF Elapse
<1>3. thermal' = [band |-> thermal.band, target |-> thermal.target, since |-> Older(thermal.since)]
  <2>1. thermal = [band |-> thermal.band, target |-> thermal.target, since |-> thermal.since]
    BY ZenonT(30), <1>1
  <2>. QED  BY <1>2, <2>1, BandElapsed, ZenonT(30)
<1>4. /\ \A a \in Ages : Older(a) \in Ages /\ (Older(a) = Never <=> a = Never) /\ Older(a) >= a
      /\ \A a, b \in Ages : b <= a => Older(b) <= Older(a)
  BY OlderIs, ZenonT(30)
<1>5. /\ thermal'.band = thermal.band /\ thermal'.target = thermal.target
      /\ thermal'.since = Older(thermal.since)
      /\ thermal' \in [band : 0 .. 7, target : {Never} \cup 0 .. 6, since : Ages]
  BY ZenonT(30), <1>1, <1>3, <1>4
<1>6. \A l \in 0 .. 6 : seen.thermal[l] \in Ages /\ seen'.thermal[l] = Older(seen.thermal[l])
  BY <1>1, SeenElapsed, ZenonT(30)
<1>7. seen'.thermal \in [0 .. 6 -> Ages]
  BY <1>4, <1>6, SeenElapsed, ZenonT(30)
<1>8. age' = Never => \A l \in 0 .. 6 : seen'.thermal[l] = Never
  BY <1>1, <1>2, <1>4, <1>6, ZenonT(30)
<1>9. \A a, b \in Ages : a >= b => Older(a) >= Older(b)
  BY ZenonT(30), <1>4 DEF Ages, Never, HealthConstants
<1>10. thermal'.target # Never =>
         /\ thermal'.since # Never
         /\ \A l \in 0 .. 6 : seen'.thermal[l] # Never /\ l > thermal'.target => seen'.thermal[l] >= thermal'.since
  <2> SUFFICES ASSUME thermal'.target # Never
               PROVE  /\ thermal'.since # Never
                      /\ \A l \in 0 .. 6 : seen'.thermal[l] # Never /\ l > thermal'.target
                           => seen'.thermal[l] >= thermal'.since
    BY ZenonT(30)
  <2>1. /\ thermal.since # Never
        /\ \A l \in 0 .. 6 : seen.thermal[l] # Never /\ l > thermal.target => seen.thermal[l] >= thermal.since
    BY <1>1, <1>5, ZenonT(30)
  <2>2. ASSUME NEW l \in 0 .. 6, seen'.thermal[l] # Never, l > thermal'.target
        PROVE  seen'.thermal[l] >= thermal'.since
    <3>1. seen.thermal[l] # Never /\ l > thermal.target
      BY <1>4, <1>5, <1>6, <2>2, ZenonT(30)
    <3>2. seen.thermal[l] >= thermal.since
      BY <2>1, <3>1, ZenonT(30)
    <3>. QED  BY <1>1, <1>5, <1>6, <1>9, <3>2, ZenonT(30)
  <2>3. thermal'.since # Never
    BY <1>1, <1>4, <1>5, <2>1, ZenonT(30)
  <2>. QED  BY <2>2, <2>3, ZenonT(30)
<1>11. ThermalHeld'
  <2>1. \A a \in Ages : a >= Recovery => Older(a) >= Recovery
    BY <1>4 DEF Ages, Never, HealthConstants
  <2>. QED  BY <1>1, <1>4, <1>5, <1>6, <2>1, ZenonT(30) DEF ThermalHeld
<1>12. age' # Never => latest'.thermal <= thermal'.band
  BY <1>1, <1>2, <1>4, <1>5, ZenonT(30)
<1>. QED  BY <1>5, <1>7, <1>8, <1>10, <1>11, <1>12, ZenonT(30) DEF ThermalInv

\* update_memory
LEMMA MemoryRecorded ==
  ASSUME HealthConstants, HealthInv, NEW s \in Samples, RecordHealth(s)
  PROVE  MemoryInv'
<1>1. /\ memory \in [blocked : BOOLEAN, since : Ages] /\ memory.since \in Ages /\ memory.blocked \in BOOLEAN
      /\ seen.scarce \in 0 .. Oldest
      /\ memory.since # Never => seen.scarce >= memory.since
      /\ ~memory.blocked => seen.scarce >= Recovery
  BY ZenonT(30) DEF HealthInv, MemoryInv
<1>2. memory' = UpdateMemory(s) /\ seen'.scarce = IF Scarce(s) THEN 0 ELSE seen.scarce
  BY SeenRecorded, ZenonT(30) DEF RecordHealth
<1>3. Recovery \in Nat /\ Oldest \in Nat /\ Ages = {-1} \cup 0 .. Oldest /\ Never = -1
  BY DEF HealthConstants, Ages, Never
<1>4. ASSUME NEW b \in BOOLEAN, NEW t \in Ages, memory' = [blocked |-> b, since |-> t],
             t # Never => seen'.scarce >= t, ~b => seen'.scarce >= Recovery, seen'.scarce \in 0 .. Oldest
      PROVE  MemoryInv'
  <2>1. memory' \in [blocked : BOOLEAN, since : Ages] /\ memory'.blocked = b /\ memory'.since = t
    BY ZenonT(30), <1>4
  <2>. QED  BY <1>4, <2>1, ZenonT(30) DEF MemoryInv
<1>5. CASE Scarce(s)
  <2>1. memory' = [blocked |-> TRUE, since |-> Never]
    BY <1>2, <1>5, ZenonT(30) DEF UpdateMemory
  <2>2. Never \in Ages /\ seen'.scarce \in 0 .. Oldest
    BY <1>2, <1>3, <1>5
  <2>. QED  BY <1>4, <2>1, <2>2, ZenonT(30)
<1>6. CASE ~Scarce(s) /\ memory.blocked /\ s.memory >= RecoveryAvailable
  <2>1. memory' = IF EnoughSince >= Recovery THEN [blocked |-> FALSE, since |-> Never]
                  ELSE [blocked |-> TRUE, since |-> EnoughSince]
    BY <1>2, <1>6, ZenonT(30) DEF UpdateMemory
  <2>2. seen'.scarce = seen.scarce
    BY <1>2, <1>6, ZenonT(30)
  <2>3. EnoughSince \in 0 .. Oldest /\ seen.scarce >= EnoughSince /\ Never \in Ages /\ 0 .. Oldest \subseteq Ages
    BY <1>1, <1>3 DEF EnoughSince
  <2>4. CASE EnoughSince >= Recovery
    <3>1. seen'.scarce >= Recovery
      BY <1>1, <1>3, <2>2, <2>3, <2>4
    <3>2. memory' = [blocked |-> FALSE, since |-> Never]
      BY <2>1, <2>4, ZenonT(30)
    <3>. QED  BY <1>1, <1>4, <2>2, <2>3, <3>1, <3>2, ZenonT(30)
  <2>5. CASE ~(EnoughSince >= Recovery)
    <3>1. memory' = [blocked |-> TRUE, since |-> EnoughSince]
      BY <2>1, <2>5, ZenonT(30)
    <3>2. TRUE \in BOOLEAN /\ EnoughSince \in Ages /\ seen'.scarce >= EnoughSince
      BY <2>2, <2>3, ZenonT(30)
    <3>. QED  BY <1>1, <1>4, <2>2, <3>1, <3>2, ZenonT(30)
  <2>. QED  BY ZenonT(30), <2>4, <2>5
<1>7. CASE ~Scarce(s) /\ ~(memory.blocked /\ s.memory >= RecoveryAvailable)
  <2>1. memory' = [memory EXCEPT !.since = Never]
    BY <1>2, <1>7, ZenonT(30) DEF UpdateMemory
  <2>2. memory' = [blocked |-> memory.blocked, since |-> Never]
    BY ZenonT(30), <1>1, <2>1
  <2>3. seen'.scarce = seen.scarce /\ Never \in Ages
    BY <1>2, <1>7, ZenonT(30) DEF Ages
  <2>. QED  BY <1>1, <1>4, <2>2, <2>3, ZenonT(30)
<1>. QED  BY <1>5, <1>6, <1>7, ZenonT(30)

\* Time passes for the memory band.
LEMMA MemoryElapsed ==
  ASSUME HealthConstants, HealthInv, Elapse
  PROVE  MemoryInv'
<1>1. /\ memory \in [blocked : BOOLEAN, since : Ages] /\ memory.since \in Ages /\ memory.blocked \in BOOLEAN
      /\ seen.scarce \in 0 .. Oldest
      /\ memory.since # Never => seen.scarce >= memory.since
      /\ ~memory.blocked => seen.scarce >= Recovery
  BY ZenonT(30) DEF HealthInv, MemoryInv
<1>2. memory' = [memory EXCEPT !.since = Older(@)] /\ seen'.scarce = Older(seen.scarce)
  BY SeenElapsed, ZenonT(30) DEF Elapse
<1>3. Recovery \in Nat /\ Oldest \in Nat /\ Ages = {-1} \cup 0 .. Oldest /\ Never = -1
  BY ZenonT(30) DEF HealthConstants, Ages, Never
<1>4. /\ Older(memory.since) \in Ages /\ Older(seen.scarce) \in 0 .. Oldest
      /\ Older(memory.since) # Never => Older(seen.scarce) >= Older(memory.since)
      /\ ~memory.blocked => Older(seen.scarce) >= Recovery
  BY <1>1, <1>3 DEF Older
<1>5. /\ memory' \in [blocked : BOOLEAN, since : Ages]
      /\ memory'.blocked = memory.blocked /\ memory'.since = Older(memory.since)
  <2> DEFINE o == Older(memory.since)
  <2>1. memory' = [memory EXCEPT !.since = o] /\ o \in Ages
    BY ZenonT(30), <1>2, <1>4
  <2> HIDE DEF o
  <2>2. memory' \in [blocked : BOOLEAN, since : Ages] /\ memory'.blocked = memory.blocked /\ memory'.since = o
    BY <1>1, <2>1
  <2>. QED  BY ZenonT(30), <2>2 DEF o
<1>. QED  BY <1>2, <1>4, <1>5, ZenonT(30) DEF MemoryInv

\* What the invariant says of the battery, of its band b, target t and since c, and
\* of the ages f and g of what was left and spared.
BatterySays(b, t, c, f, g) ==
  /\ b \in 0 .. 3 /\ t \in {Never} \cup 0 .. 3 /\ c \in Ages /\ f \in Ages /\ g \in Ages
  /\ t # Never =>
       /\ c # Never /\ b \in {1, 2} /\ t = b - 1
       /\ b = 2 /\ f # Never => f >= c
       /\ b = 1 /\ f # Never => f >= BatteryRecovery + c \/ f = Oldest
       /\ b = 1 /\ g # Never => g >= c
  /\ f # Never /\ b < 2 => f >= BatteryRecovery
  /\ f # Never /\ b = 0 => f >= 2 * BatteryRecovery
  /\ g # Never /\ b = 0 => g >= BatteryRecovery

\* What the battery's invariant says, for any next state.
LEMMA BatteryInvIs ==
  /\ BatteryInv <=>
       /\ battery \in [band : 0 .. 3, target : {Never} \cup 0 .. 3, since : Ages]
       /\ BatterySays(battery.band, battery.target, battery.since, seen.left, seen.spared)
       /\ age = Never => seen.left = Never /\ seen.spared = Never
       /\ age # Never => battery.band # Unknown
       /\ age # Never /\ RawBattery(latest) = Refused => battery.band = Refused
  /\ BatteryInv' <=>
       /\ battery' \in [band : 0 .. 3, target : {Never} \cup 0 .. 3, since : Ages]
       /\ BatterySays(battery'.band, battery'.target, battery'.since, seen'.left, seen'.spared)
       /\ age' = Never => seen'.left = Never /\ seen'.spared = Never
       /\ age' # Never => battery'.band # Unknown
       /\ age' # Never /\ RawBattery(latest') = Refused => battery'.band = Refused
<1>1. /\ battery \in [band : 0 .. 3, target : {Never} \cup 0 .. 3, since : Ages] =>
           battery.band \in 0 .. 3 /\ battery.target \in {Never} \cup 0 .. 3 /\ battery.since \in Ages
      /\ battery' \in [band : 0 .. 3, target : {Never} \cup 0 .. 3, since : Ages] =>
           battery'.band \in 0 .. 3 /\ battery'.target \in {Never} \cup 0 .. 3 /\ battery'.since \in Ages
  BY ZenonT(30)
<1>2. /\ battery.band \in {1, 2} => Better = battery.band - 1
      /\ battery'.band \in {1, 2} => Better' = battery'.band - 1
      /\ Nominal = 0 /\ Throttle = 1 /\ Refused = 2
  BY DEF Better, Nominal, Throttle, Refused
<1>3. RawBattery(latest') = RawBattery(latest)'
  BY ZenonT(30) DEF RawBattery
<1>. QED  BY <1>1, <1>2, <1>3, ZenonT(30) DEF BatteryInv, BatterySays, BatteryHeld

\* update_battery
LEMMA BatteryRecorded ==
  ASSUME HealthConstants, HealthInv, NEW s \in Samples, RecordHealth(s)
  PROVE  BatteryInv'
<1> DEFINE b == battery.band
           t == battery.target
           c == battery.since
           f == seen.left
           g == seen.spared
           o == RawBattery(s)
<1>1. /\ battery \in [band : 0 .. 3, target : {Never} \cup 0 .. 3, since : Ages]
      /\ BatterySays(b, t, c, f, g)
      /\ age = Never => f = Never /\ g = Never
      /\ age # Never => b # Unknown
  BY BatteryInvIs, ZenonT(30) DEF HealthInv
<1>2. battery = [band |-> b, target |-> t, since |-> c]
  BY ZenonT(30), <1>1
<1>3. battery' = UpdateBattery(s) /\ age' = 0 /\ latest' = s
  BY ZenonT(30) DEF RecordHealth
<1>4. /\ s.charging => seen'.spared = Never /\ seen'.left = Never
      /\ ~s.charging => /\ seen'.spared = IF o >= Throttle THEN 0 ELSE g
                        /\ seen'.left = IF o = Refused THEN 0 ELSE f
  BY SeenRecorded, ZenonT(30)
<1>5. o = IF s.charging \/ s.percent > 25 THEN 0 ELSE IF s.percent < 15 THEN 2 ELSE 1
  BY ZenonT(30), RawBatteryIs DEF Nominal, Throttle, Refused
<1>6. /\ Nominal = 0 /\ Throttle = 1 /\ Refused = 2 /\ Unknown = 3 /\ Never = -1
      /\ BatteryRecovery \in Nat /\ Oldest \in Nat /\ Ages = {-1} \cup 0 .. Oldest
      /\ Oldest >= 2 * BatteryRecovery
      /\ s.percent \in 0 .. 100 /\ s.charging \in BOOLEAN
  BY ZenonT(30), SampleIs DEF Nominal, Throttle, Refused, Unknown, Never, Ages, HealthConstants
<1> DEFINE F == IF s.charging THEN -1 ELSE IF o = 2 THEN 0 ELSE f
           G == IF s.charging THEN -1 ELSE IF o >= 1 THEN 0 ELSE g
<1>7. seen'.left = F /\ seen'.spared = G
  BY <1>4, <1>6, ZenonT(30)
<1>8. ASSUME NEW p, NEW q, NEW r, battery' = [band |-> p, target |-> q, since |-> r],
             BatterySays(p, q, r, F, G), p # 3, o = 2 => p = 2
      PROVE  BatteryInv'
  <2>1. p \in 0 .. 3 /\ q \in {Never} \cup 0 .. 3 /\ r \in Ages
    BY <1>8, ZenonT(30) DEF BatterySays
  <2>2. /\ battery' \in [band : 0 .. 3, target : {Never} \cup 0 .. 3, since : Ages]
        /\ battery'.band = p /\ battery'.target = q /\ battery'.since = r
    BY ZenonT(30), <1>8, <2>1
  <2>3. age' # Never
    BY <1>3, <1>6
  <2>4. RawBattery(latest') = o
    BY <1>3, ZenonT(30)
  <2> HIDE DEF F, G, o
  <2>5. BatterySays(battery'.band, battery'.target, battery'.since, seen'.left, seen'.spared)
    BY <1>7, <1>8, <2>2, ZenonT(30)
  <2>. QED  BY <1>6, <1>8, <2>2, <2>3, <2>4, <2>5, BatteryInvIs, ZenonT(30)
<1> HIDE DEF b, t, c, f, g, o
<1>0. /\ BatterySays(b, t, c, f, g)
      /\ age = Never => f = -1 /\ g = -1
      /\ age # Never => b # 3
      /\ o \in {0, 1, 2} /\ (s.charging => o = 0)
      /\ Never = -1 /\ BatteryRecovery \in Nat /\ Oldest \in Nat /\ Ages = {-1} \cup 0 .. Oldest
      /\ Oldest >= 2 * BatteryRecovery
  <2>1. o \in {0, 1, 2} /\ (s.charging => o = 0)
    BY <1>5, ZenonT(30)
  <2>. QED  BY <1>1, <1>6, <2>1, ZenonT(30)
<1>9. CASE s.charging
  <2>1. battery' = Settled(Nominal)
    BY <1>3, <1>9, ZenonT(30) DEF UpdateBattery
  <2>2. battery' = [band |-> 0, target |-> -1, since |-> -1]
    BY <1>6, <2>1, ZenonT(30) DEF Settled
  <2>3. BatterySays(0, -1, -1, F, G) /\ o # 2
    BY <1>0, <1>9 DEF BatterySays
  <2>. QED  BY <1>8, <2>2, <2>3
<1>10. CASE ~s.charging /\ (age = Never \/ o > b)
  <2>1. battery' = Settled(o)
    <3>1. age # Never => ~(o < b)
      BY <1>0, <1>10 DEF BatterySays
    <3>. QED  BY <1>3, <1>10, <3>1, ZenonT(30) DEF UpdateBattery, o, b
  <2>2. battery' = [band |-> o, target |-> -1, since |-> -1]
    BY <1>6, <2>1, ZenonT(30) DEF Settled
  <2>3. BatterySays(o, -1, -1, F, G) /\ o # 3
    BY <1>0, <1>10 DEF BatterySays
  <2>. QED  BY ZenonT(30), <1>8, <2>2, <2>3
<1>11. CASE ~s.charging /\ age # Never /\ o < b /\ ThresholdMet(s)
  <2>1. battery' = Recovers(battery, Better, BatteryRecovery)
    <3>1. ~(o > b)
      BY <1>0, <1>11 DEF BatterySays
    <3>. QED  BY <1>3, <1>11, <3>1, ZenonT(30) DEF UpdateBattery, o, b
  <2> DEFINE d == Better
  <2>2. b \in {1, 2} /\ d = b - 1
    BY <1>6, <1>11 DEF ThresholdMet, Better, b
  <2>3. \/ t # d /\ battery' = [band |-> b, target |-> d, since |-> 0]
        \/ t = d /\ c >= BatteryRecovery /\ battery' = Settled(d)
        \/ t = d /\ battery' = battery
    BY <1>2, <2>1, RecoversIs, ZenonT(30) DEF b, t, c
  <2> HIDE DEF d
  <2>4. CASE battery' = [band |-> b, target |-> d, since |-> 0]
    <3>1. BatterySays(b, d, 0, F, G) /\ b # 3 /\ (o = 2 => b = 2)
      BY <1>0, <1>11, <2>2 DEF BatterySays
    <3>. QED  BY ZenonT(30), <1>8, <2>4, <3>1
  <2>5. CASE t = d /\ c >= BatteryRecovery /\ battery' = Settled(d)
    <3>1. battery' = [band |-> d, target |-> -1, since |-> -1]
      BY <1>6, <2>5, ZenonT(30) DEF Settled
    <3>2. BatterySays(d, -1, -1, F, G) /\ d # 3 /\ (o = 2 => d = 2)
      BY <1>0, <1>11, <2>2, <2>5 DEF BatterySays
    <3>. QED  BY <1>8, <3>1, <3>2, ZenonT(30)
  <2>6. CASE t = d /\ battery' = battery
    <3>1. BatterySays(b, t, c, F, G) /\ b # 3 /\ (o = 2 => b = 2)
      BY <1>0, <1>11, <2>2, <2>6 DEF BatterySays
    <3>. QED  BY ZenonT(30), <1>2, <1>8, <2>6, <3>1
  <2>. QED  BY ZenonT(30), <2>3, <2>4, <2>5, <2>6
<1>12. CASE ~s.charging /\ age # Never /\ ~(o > b) /\ ~(o < b /\ ThresholdMet(s))
  <2>1. battery' = Settled(b)
    BY <1>3, <1>12, ZenonT(30) DEF UpdateBattery, o, b
  <2>2. battery' = [band |-> b, target |-> -1, since |-> -1]
    BY <1>6, <2>1, ZenonT(30) DEF Settled
  <2>3. BatterySays(b, -1, -1, F, G) /\ b # 3 /\ (o = 2 => b = 2)
    BY <1>0, <1>12 DEF BatterySays
  <2>. QED  BY ZenonT(30), <1>8, <2>2, <2>3
<1>. QED  BY <1>9, <1>10, <1>11, <1>12, ZenonT(30)

\* Time passes for the battery band.
LEMMA BatteryElapsed ==
  ASSUME HealthConstants, HealthInv, Elapse
  PROVE  BatteryInv'
<1> DEFINE b == battery.band
           t == battery.target
           c == battery.since
           f == seen.left
           g == seen.spared
<1>1. /\ battery \in [band : 0 .. 3, target : {Never} \cup 0 .. 3, since : Ages]
      /\ BatterySays(b, t, c, f, g) /\ age \in Ages
      /\ age = Never => f = Never /\ g = Never
      /\ age # Never => b # Unknown
      /\ age # Never /\ RawBattery(latest) = Refused => battery.band = Refused
  BY BatteryInvIs, ZenonT(30) DEF HealthInv
<1>2. battery = [band |-> b, target |-> t, since |-> c]
  BY ZenonT(30), <1>1
<1>3. age' = Older(age) /\ battery' = [battery EXCEPT !.since = Older(@)] /\ latest' = latest
  BY ZenonT(30) DEF Elapse
<1>4. battery' = [band |-> b, target |-> t, since |-> Older(c)]
  BY <1>2, <1>3, BandElapsed, ZenonT(30)
<1>5. seen'.spared = Older(g) /\ seen'.left = Older(f)
  BY SeenElapsed, ZenonT(30)
<1>6. age' = Never <=> age = Never
  BY <1>1, <1>3, OlderIs, ZenonT(30)
<1> HIDE DEF b, t, c, f, g
<1>7. BatterySays(b, t, Older(c), Older(f), Older(g))
  BY <1>1 DEF BatterySays, Older, HealthConstants, Ages, Never
<1>8. /\ battery' \in [band : 0 .. 3, target : {Never} \cup 0 .. 3, since : Ages]
      /\ battery'.band = b /\ battery'.target = t /\ battery'.since = Older(c)
  <2>1. b \in 0 .. 3 /\ t \in {Never} \cup 0 .. 3 /\ Older(c) \in Ages
    BY <1>7, ZenonT(30) DEF BatterySays
  <2> DEFINE oc == Older(c)
  <2>2. battery' = [band |-> b, target |-> t, since |-> oc] /\ oc \in Ages
    BY ZenonT(30), <1>4, <2>1
  <2> HIDE DEF oc
  <2>3. /\ battery' \in [band : 0 .. 3, target : {Never} \cup 0 .. 3, since : Ages]
        /\ battery'.band = b /\ battery'.target = t /\ battery'.since = oc
    BY ZenonT(30), <2>1, <2>2
  <2>. QED  BY ZenonT(30), <2>3 DEF oc
<1>9. age' = Never => seen'.left = Never /\ seen'.spared = Never
  <2>1. Older(Never) = Never
    BY ZenonT(30) DEF Older
  <2>. QED  BY <1>1, <1>5, <1>6, <2>1, ZenonT(30)
<1>. QED  BY <1>1, <1>3, <1>5, <1>6, <1>7, <1>8, <1>9, BatteryInvIs, ZenonT(30) DEF b

\* The invariant of the health bands.
LEMMA HealthInvariant ==
  HealthConstants => (HealthSpec => []HealthInv)
<1> SUFFICES ASSUME HealthConstants PROVE HealthSpec => []HealthInv
  BY ZenonT(30)
<1>1. HealthInit => HealthInv
  <2> SUFFICES ASSUME HealthInit PROVE HealthInv
    OBVIOUS
  <2>1. /\ latest \in Samples /\ age = Never /\ memory = [blocked |-> TRUE, since |-> Never]
        /\ thermal = Settled(ThermalUnknown) /\ battery = Settled(Unknown)
    BY ZenonT(30) DEF HealthInit
  <2>2. /\ seen.thermal = [l \in 0 .. 6 |-> Never] /\ seen.scarce = 0 /\ seen.spared = Never /\ seen.left = Never
    <3> DEFINE d == [l \in 0 .. 6 |-> Never]
    <3>1. seen = [thermal |-> d, scarce |-> 0, spared |-> Never, left |-> Never]
      BY ZenonT(30) DEF HealthInit
    <3> HIDE DEF d
    <3>2. seen.thermal = d /\ seen.scarce = 0 /\ seen.spared = Never /\ seen.left = Never
      BY ZenonT(30), <3>1
    <3>. QED  BY ZenonT(30), <3>2 DEF d
  <2>3. Never \in Ages /\ 0 \in Ages /\ 0 \in 0 .. Oldest /\ age \in Ages
    BY <2>1 DEF Ages, Never, HealthConstants
  <2>4. ThermalInv
    <3>1. /\ thermal \in [band : 0 .. 7, target : {Never} \cup 0 .. 6, since : Ages]
          /\ thermal.target = Never
      BY <2>1, <2>3 DEF Settled, ThermalUnknown
    <3>. QED  BY <2>1, <2>2, <2>3, <3>1, ZenonT(30) DEF ThermalInv, ThermalHeld
  <2>5. MemoryInv
    <3>1. memory \in [blocked : BOOLEAN, since : Ages] /\ memory.since = Never /\ memory.blocked = TRUE
      BY ZenonT(30), <2>1, <2>3
    <3>. QED  BY <2>2, <2>3, <3>1, ZenonT(30) DEF MemoryInv
  <2>6. BatteryInv
    <3>1. /\ battery \in [band : 0 .. 3, target : {Never} \cup 0 .. 3, since : Ages]
          /\ battery.target = Never /\ battery.band = 3 /\ battery.since = Never
      BY <2>1, <2>3 DEF Settled, Unknown
    <3>2. BatterySays(3, Never, Never, Never, Never)
      BY <2>3 DEF BatterySays
    <3>. QED  BY <2>1, <2>2, <3>1, <3>2, BatteryInvIs, ZenonT(30)
  <2>. QED  BY <2>1, <2>3, <2>4, <2>5, <2>6, ZenonT(30) DEF HealthInv
<1>2. HealthInv /\ [HealthNext]_healthVars => HealthInv'
  <2> SUFFICES ASSUME HealthInv, [HealthNext]_healthVars PROVE HealthInv'
    BY ZenonT(30)
  <2>1. ASSUME NEW s \in Samples, RecordHealth(s) PROVE HealthInv'
    <3>1. latest' \in Samples /\ age' \in Ages
      <4>1. latest' = s /\ age' = 0
        BY <2>1, ZenonT(30) DEF RecordHealth
      <4>. QED  BY <4>1 DEF Ages, HealthConstants
    <3>. QED  BY <2>1, <3>1, ThermalRecorded, MemoryRecorded, BatteryRecorded, ZenonT(30) DEF HealthInv
  <2>2. CASE Elapse
    <3>1. latest' \in Samples /\ age' \in Ages
      BY <2>2, OlderIs, ZenonT(30) DEF HealthInv, Elapse
    <3>. QED  BY <2>2, <3>1, ThermalElapsed, MemoryElapsed, BatteryElapsed, ZenonT(30) DEF HealthInv
  <2>3. CASE UNCHANGED healthVars
    <3>1. UNCHANGED <<latest, age, memory, thermal, battery, seen>>
      BY <2>3, ZenonT(30) DEF healthVars
    <3>2. ThermalInv'
      BY <3>1, ZenonT(30) DEF HealthInv, ThermalInv, ThermalHeld
    <3>3. MemoryInv'
      BY <3>1, ZenonT(30) DEF HealthInv, MemoryInv
    <3>4. BatteryInv'
      BY <3>1, BatteryInvIs, ZenonT(30) DEF HealthInv
    <3>. QED  BY <3>1, <3>2, <3>3, <3>4, ZenonT(30) DEF HealthInv
  <2>. QED  BY <2>1, <2>2, <2>3, ZenonT(30) DEF HealthNext
<1>. QED  BY <1>1, <1>2, PTL DEF HealthSpec

\* The health bands recover late and alarm at once, for every set of samples and
\* every choice of the recovery times: the worker counts as cooler, as having
\* memory to give or as charged only after the recovery time of that input, and a
\* sample that alarms is obeyed whatever recoveries are under way (update_thermal,
\* update_memory, update_battery, health_status).
THEOREM HealthBandsHold ==
  HealthConstants => (HealthSpec => []BandsHeld)
<1> SUFFICES ASSUME HealthConstants PROVE HealthSpec => []BandsHeld
  OBVIOUS
<1>1. HealthInv => BandsHeld
  <2> SUFFICES ASSUME HealthInv PROVE BandsHeld
    BY ZenonT(30)
  <2>1. ThermalHeld /\ BatteryHeld
    BY ZenonT(30) DEF HealthInv, ThermalInv, BatteryInv
  <2>2. MemoryHeld
    <3>1. ~memory.blocked => seen.scarce >= Recovery
      BY ZenonT(30) DEF HealthInv, MemoryInv
    <3>2. memory.blocked => SafetyRefused /\ Budget = 0
      BY ZenonT(30) DEF SafetyRefused, Budget, MemoryRefused
    <3>3. ~(0 > 0)
      OBVIOUS
    <3>. QED  BY <3>1, <3>2, <3>3, ZenonT(30) DEF MemoryHeld
  <2>3. ASSUME age # Never, latest.thermal >= 3 PROVE thermal.band >= 3
    <3>1. latest.thermal <= thermal.band /\ thermal.band \in 0 .. 7 /\ latest \in Samples
      BY <2>3, ZenonT(30) DEF HealthInv, ThermalInv
    <3>2. latest.thermal \in 0 .. 6
      BY <3>1, SampleIs, ZenonT(30)
    <3>. QED  BY <2>3, <3>1, <3>2
  <2>4. age # Never /\ RawBattery(latest) = Refused => battery.band = Refused
    BY ZenonT(30) DEF HealthInv, BatteryInv
  <2>5. AlarmObeyed
    BY <2>3, <2>4, ZenonT(30) DEF AlarmObeyed, SafetyRefused, MemoryRefused
  <2>. QED  BY <2>1, <2>2, <2>5, ZenonT(30) DEF BandsHeld
<1>. QED  BY <1>1, HealthInvariant, PTL
=============================================================================
