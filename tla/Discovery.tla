------------------------------ MODULE Discovery ------------------------------
(***************************************************************************)
(* Discovery of phones by the host (discovery.rs): a browser of Avahi whose *)
(* signals are applied one poll at a time, the services they announce, one  *)
(* of which is resolved at a poll, the cache of candidates that comes of    *)
(* it, and the loop of the auto-use manager that polls and connects         *)
(* (run_enabled).                                                           *)
(*                                                                         *)
(* Time is in seconds and passes at a poll only: the time since the last    *)
(* one.  Ages are capped where they stop to matter.                         *)
(***************************************************************************)
EXTENDS Integers, Sequences, SequencesExt

CONSTANTS
  Services,    \* service keys
  Endpoints,   \* addresses a service may have
  MaxTracked,  \* MAX_TRACKED_SERVICES, 64 in the code
  MaxChanges,  \* bound on what happens in the network
  MaxFailures, \* bound on failures of the backend and on switches off
  Keys         \* what of Services resolves: the others are announced and never answer

DiscoveryConstants ==
  /\ {MaxTracked, MaxChanges, MaxFailures} \subseteq Nat
  /\ IsFiniteSet(Services) /\ IsFiniteSet(Endpoints) /\ Keys \subseteq Services

RESOLVE_REFRESH == 10
DISCOVERY_CANDIDATE_LIFETIME == 30
RETRY_BASE == <<1, 2, 4, 8, 15>>

VARIABLES
  net,      \* [services, at]: what is announced, and the address of each service
  wire,     \* signals of the browser that are not applied yet
  backend,  \* there is a connection with a browser
  known,    \* services
  age,      \* of each: seconds since the last attempt to resolve it
  order,    \* the order in which the map of services is iterated
  cache,    \* candidates: [service, endpoint, age]
  next,     \* next_candidate
  pause,    \* seconds until the manager polls again
  attempt,  \* retry_attempt
  seen,     \* (history) what the applied signals announce
  full,     \* (history) a service was turned away since the browser began
  handed,   \* (history) what the last poll returned: a set of at most one candidate
  waits,    \* (history) of each candidate: those handed out since it was, while no candidate came or went
  changes, failures

netVars == <<net, wire, changes>>
backVars == <<backend, known, age, order, cache, next, seen, full>>
vars == <<netVars, backVars, pause, attempt, handed, waits, failures>>

AtMost(x, bound) == IF x < bound THEN x ELSE bound

\* a map that is iterated has some order, which an insertion may change
Orders == SetToSeqs(Services)

Candidate == [service : Services, endpoint : Endpoints]
Key(c) == [service |-> c.service, endpoint |-> c.endpoint]
Keyed(q) == [i \in 1..Len(q) |-> Key(q[i])]
Held(q) == {Key(c) : c \in ToSet(q)}

NoBackend ==
  /\ backend' = FALSE /\ known' = {} /\ cache' = <<>> /\ next' = 0 /\ seen' = {} /\ full' = FALSE
  /\ age' = [s \in Services |-> RESOLVE_REFRESH]
  /\ UNCHANGED order

Init ==
  /\ net \in [services : SUBSET Services, at : {[s \in Services |-> e] : e \in Endpoints}]
  /\ wire = <<>> /\ backend = FALSE /\ known = {} /\ cache = <<>> /\ next = 0 /\ seen = {} /\ full = FALSE
  /\ age = [s \in Services |-> RESOLVE_REFRESH]
  /\ order \in Orders
  /\ pause = 0 /\ attempt = 0 /\ handed = {} /\ waits = [c \in Candidate |-> 0]
  /\ changes = 0 /\ failures = 0

-----------------------------------------------------------------------------
(* The network, and Avahi.                                                   *)

Signal(kind, s) == IF backend THEN Append(wire, [kind |-> kind, service |-> s]) ELSE wire

Changes == changes < MaxChanges /\ changes' = changes + 1

Announce(s) ==
  /\ Changes /\ s \notin net.services
  /\ net' = [net EXCEPT !.services = @ \cup {s}] /\ wire' = Signal("new", s)
  /\ UNCHANGED <<backVars, pause, attempt, handed, waits, failures>>

Withdraw(s) ==
  /\ Changes /\ s \in net.services
  /\ net' = [net EXCEPT !.services = @ \ {s}] /\ wire' = Signal("remove", s)
  /\ UNCHANGED <<backVars, pause, attempt, handed, waits, failures>>

\* a service comes up at another address
Move(s) ==
  /\ Changes /\ \E e \in Endpoints \ {net.at[s]} : net' = [net EXCEPT !.at[s] = e]
  /\ UNCHANGED <<backVars, wire, pause, attempt, handed, waits, failures>>

\* Failure of the browser
Fails ==
  /\ backend /\ failures < MaxFailures /\ failures' = failures + 1
  /\ wire' = Append(wire, [kind |-> "failed"])
  /\ UNCHANGED <<backVars, net, changes, pause, attempt, handed, waits>>

-----------------------------------------------------------------------------
(* The cache.                                                                *)

Older(q, d) == [i \in 1..Len(q) |-> [q[i] EXCEPT !.age = AtMost(@ + d, DISCOVERY_CANDIDATE_LIFETIME)]]

Fresh(q) == SelectSeq(q, LAMBDA c : c.age < DISCOVERY_CANDIDATE_LIFETIME)

\* CandidateCache::refresh
Refresh(q, s, e) ==
  LET same(c) == c.service = s /\ c.endpoint = e
  IN  IF \E i \in 1..Len(q) : same(q[i])
      THEN [i \in 1..Len(q) |-> IF same(q[i]) THEN [q[i] EXCEPT !.age = 0] ELSE q[i]]
      ELSE Append(q, [service |-> s, endpoint |-> e, age |-> 0])

\* next_candidate after candidates went
Wrapped(i, q) == IF q = <<>> THEN 0 ELSE i % Len(q)

-----------------------------------------------------------------------------
(* apply_events                                                              *)

\* (mutant) candidates of a service that is gone stay until they expire
Removed_Kept(b, s) == [b EXCEPT !.known = @ \ {s}, !.seen = @ \ {s}]

Removed(b, s) ==
  [b EXCEPT !.known = @ \ {s}, !.seen = @ \ {s}, !.cache = SelectSeq(@, LAMBDA c : c.service # s)]

Tracked(b, s) == s \in b.known \/ Cardinality(b.known) < MaxTracked

Added(b, s) ==
  IF Tracked(b, s) THEN [b EXCEPT !.known = @ \cup {s}, !.seen = @ \cup {s},
                                  !.age[s] = IF s \in b.known THEN @ ELSE RESOLVE_REFRESH]
  ELSE [b EXCEPT !.seen = @ \cup {s}, !.full = TRUE]

Apply(b, e) == IF e.kind = "new" THEN Added(b, e.service) ELSE Removed(b, e.service)

-----------------------------------------------------------------------------
(* The backend and the loop.                                                 *)

\* start: a browser announces what there is; without Avahi the loop pauses
Start ==
  /\ ~backend
  /\ \/ /\ backend' = TRUE
        /\ \E q \in {SelectSeq(o, LAMBDA s : s \in net.services) : o \in Orders} : wire' = [i \in 1..Len(q) |-> [kind |-> "new", service |-> q[i]]]
        /\ UNCHANGED <<pause, failures>>
     \/ /\ failures < MaxFailures /\ failures' = failures + 1 /\ pause' = 1
        /\ UNCHANGED <<backend, wire>>
  /\ UNCHANGED <<known, age, order, cache, next, seen, full, net, changes, attempt, handed, waits>>

Due(s, a) == a[s] >= RESOLVE_REFRESH

\* the first service that is due, at most one
FirstDue(b, o, a) ==
  LET due == SelectSeq(o, LAMBDA s : s \in b.known /\ Due(s, a))
  IN  IF due = <<>> THEN {} ELSE {Head(due)}

\* retry_delay_ms at one end of its jitter, and at the other with a connection that times out
RetryDelays(n) ==
  LET base == RETRY_BASE[AtMost(n + 1, Len(RETRY_BASE))]
  IN  {base - base \div 5, base + base \div 5 + 5}

Advanced(i, q) == (i + 1) % Len(q)

\* (history) a candidate that waits while others are handed out
Waiting(c, q) ==
  [k \in Candidate |-> IF k = c \/ Keyed(q) # Keyed(cache) THEN 0 ELSE IF k \in Held(q) THEN waits[k] + 1 ELSE 0]

\* the services and the cache after d seconds and the first n signals
Applied(d, n) ==
  FoldLeft(Apply, [known |-> known, seen |-> seen, full |-> full, cache |-> Older(cache, d),
                   age |-> [s \in Services |-> AtMost(age[s] + d, RESOLVE_REFRESH)]], SubSeq(wire, 1, n))

\* the cache once the service that was due has answered or not, without what has expired
Resolved(b, due) ==
  LET answer == {s \in due : s \in Keys /\ s \in net.services}
  IN  Fresh(IF answer = {} THEN b.cache
            ELSE LET s == CHOOSE s \in answer : TRUE IN Refresh(b.cache, s, net.at[s]))

\* next_candidate, and what the loop does with it
HandOut(q, i) ==
  IF q = <<>>
  THEN /\ handed' = {} /\ next' = 0 /\ pause' \in {1, 3} /\ UNCHANGED attempt
       /\ waits' = [c \in Candidate |-> 0]
  ELSE /\ handed' = {q[i + 1]} /\ next' = Advanced(i, q)
       /\ pause' \in RetryDelays(attempt)
       /\ attempt' = AtMost(attempt + 1, Len(RETRY_BASE) - 1)
       /\ waits' = Waiting(Key(q[i + 1]), q)

\* discover: a poll after d seconds with the first n signals
Discover(d, n) ==
  /\ backend /\ \A i \in 1..n : wire[i].kind # "failed"
  /\ wire' = SubSeq(wire, n + 1, Len(wire))
  /\ \E b \in {Applied(d, n)} :
       \E o \in IF b.known \subseteq known THEN {order} ELSE Orders :
         \E due \in {FirstDue(b, o, b.age)} :
           \E q \in {Resolved(b, due)} :
             /\ known' = b.known /\ seen' = b.seen /\ full' = b.full /\ order' = o /\ cache' = q
             /\ age' = [s \in Services |-> IF s \in due THEN 0 ELSE b.age[s]]
             /\ HandOut(q, Wrapped(next, q))
  /\ UNCHANGED <<backend, net, changes, failures>>

\* the pause is over, or cut short by a notification; process hands over what has come, at least one
Poll ==
  \E d \in {0, pause}, n \in 0..Len(wire) : (wire # <<>> => n > 0) /\ Discover(d, n)

\* a failure among the signals: the backend is dropped and the loop begins again
PollFails ==
  /\ backend /\ \E i \in 1..Len(wire) : wire[i].kind = "failed"
  /\ NoBackend /\ wire' = <<>>
  /\ handed' = {} /\ pause' = 1 /\ waits' = [c \in Candidate |-> 0]
  /\ UNCHANGED <<net, changes, attempt, failures>>

\* auto-use is switched off and on: stop frees the browser
Stop ==
  /\ backend /\ failures < MaxFailures /\ failures' = failures + 1
  /\ NoBackend /\ wire' = <<>>
  /\ handed' = {} /\ pause' = 0 /\ attempt' = 0 /\ waits' = [c \in Candidate |-> 0]
  /\ UNCHANGED <<net, changes>>

-----------------------------------------------------------------------------
Loop == Start \/ Poll \/ PollFails

Next ==
  \/ \E s \in Services : Announce(s) \/ Withdraw(s) \/ Move(s)
  \/ Fails \/ Stop \/ Loop

Spec == Init /\ [][Next]_vars

-----------------------------------------------------------------------------
\* A hint is fresh: its service was not withdrawn by any signal that was
\* applied, it is still tracked, and it was resolved less than 30 seconds ago.
HintIsFresh ==
  \A c \in handed : c.service \in seen \cap known /\ c.age < DISCOVERY_CANDIDATE_LIFETIME

\* What is tracked follows the browser: signals applied late, in parts or
\* twice leave exactly the announced services, as long as the table was never
\* full - a service that was turned away is not announced again.
TrackedIsAnnounced ==
  /\ known \subseteq seen
  /\ ~full => known = seen
  /\ (backend /\ wire = <<>>) => seen = net.services

\* While no candidate comes or goes, all are handed out in turn: none waits
\* for more hints than there are other candidates (CandidateCache::next).
InTurn == \A c \in Held(cache) : waits[c] < Len(cache)

=============================================================================
