------------------------------ MODULE Pairing -------------------------------
(***************************************************************************)
(* Pairing of the host and the phone (pb-runtime-secure/src/runtime.rs over  *)
(* pb-secure/src/pairing.rs).  The host connects; without a stored peer the  *)
(* two run the XX handshake, show the same short code (SAS) and commit their *)
(* trust once both users confirmed; with one they run IK.  Either way a      *)
(* PING and its PONG make the session authenticated.                         *)
(*                                                                           *)
(* The session thread of an endpoint and the calls its user makes are        *)
(* separate actors that share RuntimeInner.  The network may cut a           *)
(* connection at any point, with any suffix of what is in flight lost; a     *)
(* process may die and restart; the peer file may fail to be written.        *)
(* The pairing guard is PairingCooldown's subject: here it may refuse.       *)
(***************************************************************************)
EXTENDS Integers, Sequences, FiniteSets

CONSTANTS MaxConns,      \* bound: connections the host makes
          MaxPairFaults, \* bound: cuts, crashes, failed writes, timeouts
          Refusing       \* the users may cancel or report a mismatch

VARIABLES
  ep,      \* per endpoint: the process and its RuntimeInner
  thread,  \* per endpoint: where its session thread is
  hello,   \* first message of a connection the phone has not answered
  joined,  \* the two session threads hold the two ends of one connection
  pipe,    \* per endpoint: records on their way to it
  eof,     \* per endpoint: after those records its stream is at its end
  conns, pairFaults,
  okd,     \* per endpoint: codes (by connection) its user confirmed
  refused, \* per endpoint: codes its user refused before the confirmation left
  basis    \* per endpoint: the code on which the stored trust was committed, or 0

net == <<hello, joined, pipe, eof, conns>>
history == <<okd, refused, basis>>
pairVars == <<ep, thread, net, pairFaults, history>>

Endpoints == {"host", "phone"}
Other(e) == IF e = "host" THEN "phone" ELSE "host"

\* RuntimeInner before the first session; state as initialize chooses it
\* (Cooldown is shown like Unpaired and Paired here: nothing reads it).
Fresh(trusts) ==
  [up |-> TRUE, disk |-> trusts, mem |-> trusts,
   state |-> IF trusts THEN "Paired" ELSE "Unpaired",
   sas |-> 0, begin |-> FALSE, confirm |-> FALSE, dispatched |-> FALSE,
   cancel |-> FALSE, mismatch |-> FALSE, active |-> FALSE, auth |-> FALSE]

NoActor == [local |-> FALSE, peer |-> FALSE, committed |-> FALSE]
NoThread == [pc |-> "idle", conn |-> 0, actor |-> NoActor]

PairInit ==
  /\ ep = [e \in Endpoints |-> Fresh(FALSE)]
  /\ thread = [e \in Endpoints |-> NoThread]
  /\ hello = "none" /\ joined = FALSE /\ pipe = [e \in Endpoints |-> <<>>]
  /\ eof = [e \in Endpoints |-> FALSE]
  /\ conns = 0 /\ pairFaults = 0
  /\ okd = [e \in Endpoints |-> {}] /\ refused = [e \in Endpoints |-> {}]
  /\ basis = [e \in Endpoints |-> 0]

-----------------------------------------------------------------------------
(* PairingActor.                                                             *)

Mutual(a) == a.local /\ a.peer

\* confirmation_transition: the state to show after a confirmation
ActorState(a) ==
  CASE a.committed -> "CommittedWaitingPeer"
    [] Mutual(a)   -> "MutualConfirmed"
    [] a.local     -> "LocalConfirmed"
    [] a.peer      -> "PeerConfirmed"
    [] OTHER       -> "SasPending"

\* local_confirm, which sends PAIR_CONFIRM the first time, and peer_confirm
ConfirmedLocally(a) == [a EXCEPT !.local = TRUE]
SendsConfirm(a) == ~a.local /\ ~a.committed
ConfirmedByPeer(a) == [a EXCEPT !.peer = TRUE]

\* persist_result, after a success
Persisted(a) == [a EXCEPT !.committed = TRUE]

-----------------------------------------------------------------------------
(* SecureRuntime's bookkeeping of one session.                               *)

\* begin_session
BeginSession(r, xx) ==
  [r EXCEPT !.active = TRUE, !.auth = FALSE, !.sas = 0, !.confirm = FALSE,
            !.dispatched = FALSE, !.cancel = FALSE, !.mismatch = FALSE,
            !.state = IF xx THEN "PairingXx" ELSE "Paired"]

\* end_session
\* (mutant) the end of a session leaves it marked active
EndSession_StillActive(r) ==
  [r EXCEPT !.auth = FALSE, !.sas = 0, !.begin = FALSE, !.confirm = FALSE,
            !.dispatched = FALSE, !.cancel = FALSE, !.mismatch = FALSE]

EndSession(r) ==
  [r EXCEPT !.active = FALSE, !.auth = FALSE, !.sas = 0, !.begin = FALSE,
            !.confirm = FALSE, !.dispatched = FALSE, !.cancel = FALSE,
            !.mismatch = FALSE,
            !.state = IF @ \in {"PairRejected", "PairingFailed"} THEN @
                      ELSE IF r.mem THEN "Paired" ELSE "Unpaired"]

\* A record sent on the connection; what is sent on a cut one is lost.
Deliver(to, ms) == IF joined THEN [pipe EXCEPT ![to] = @ \o ms] ELSE pipe

\* The connection of e is closed at its end.
Hangup(e) ==
  /\ joined' = FALSE
  /\ eof' = IF joined THEN [eof EXCEPT ![Other(e)] = TRUE] ELSE eof
  /\ hello' = IF e = "host" THEN "none" ELSE hello

\* The session thread of e returns (SessionGuard's drop) and closes its socket:
\* the other end still reads what is in flight, then the end of the stream.
Return(e, r) ==
  /\ ep' = [ep EXCEPT ![e] = EndSession(r)]
  /\ thread' = [thread EXCEPT ![e] = NoThread]
  /\ pipe' = [pipe EXCEPT ![e] = <<>>]
  /\ Hangup(e)

-----------------------------------------------------------------------------
(* The user's calls.                                                         *)

\* begin_pairing (its wait for a state to show changes nothing)
BeginPairing ==
  /\ ep["host"].up /\ ~ep["host"].mem /\ ~ep["host"].begin
  /\ ep' = [ep EXCEPT !["host"].begin = TRUE, !["host"].state = "PairingXx"]
  /\ UNCHANGED <<thread, net, pairFaults, history>>

\* local_confirm, in the states that show a code
LocalConfirm(e) ==
  /\ ep[e].up
  /\ ep[e].state \in {"SasPending", "PeerConfirmed", "MutualConfirmed"}
  /\ ~ep[e].confirm
  /\ ep' = [ep EXCEPT ![e].confirm = TRUE]
  /\ okd' = [okd EXCEPT ![e] = @ \union {ep[e].sas}]
  /\ UNCHANGED <<thread, net, pairFaults, refused, basis>>

\* cancel and mismatch share their guard
Refuses(e) ==
  /\ Refusing /\ ep[e].up /\ ep[e].sas # 0 /\ ~ep[e].auth
  /\ refused' = [refused EXCEPT ![e] =
       IF ep[e].dispatched THEN @ ELSE @ \union {ep[e].sas}]
  /\ UNCHANGED <<thread, net, pairFaults, okd, basis>>

CancelPairing(e) ==
  Refuses(e) /\ ~ep[e].cancel /\ ep' = [ep EXCEPT ![e].cancel = TRUE]

Mismatch(e) ==
  Refuses(e) /\ ~ep[e].mismatch /\ ep' = [ep EXCEPT ![e].mismatch = TRUE]

-----------------------------------------------------------------------------
(* The handshakes.                                                           *)

\* The guard, or a write of it, may refuse a pairing while faults are left.
GuardRefuses == pairFaults < MaxPairFaults /\ pairFaults' = pairFaults + 1

\* run_initiator_session_internal up to the first message
HostConnects ==
  /\ ep["host"].up /\ thread["host"].pc = "idle" /\ ~ep["host"].active
  /\ LET xx == ~ep["host"].mem IN
     /\ xx => ep["host"].begin /\ conns < MaxConns
     /\ conns' = IF xx THEN conns + 1 ELSE conns
     /\ ep' = [ep EXCEPT !["host"] = BeginSession(@, xx)]
     /\ thread' = [thread EXCEPT !["host"] =
          [NoThread EXCEPT !.pc = "answer", !.conn = conns']]
     /\ hello' = IF xx THEN "xx1" ELSE "ik1"
  /\ joined' = FALSE
  /\ pipe' = [pipe EXCEPT !["host"] = <<>>]
  /\ eof' = [eof EXCEPT !["host"] = FALSE]
  /\ UNCHANGED <<pairFaults, history>>

\* responder_ik answers only a host whose key it has committed
ResponderIk == ep["phone"].mem

\* run_responder_session_with_handler, first message read: a pairing the guard
\* refuses and a session that is busy close the connection and nothing else;
\* IK from a host this phone does not know ends the session it began.
PhoneAccepts ==
  /\ ep["phone"].up /\ hello # "none" /\ hello' = "none"
  /\ \/ /\ hello = "xx1" /\ GuardRefuses /\ eof' = [eof EXCEPT !["host"] = TRUE]
        /\ UNCHANGED <<ep, thread, joined, pipe>>
     \/ /\ ep["phone"].active /\ eof' = [eof EXCEPT !["host"] = TRUE]
        /\ UNCHANGED <<ep, thread, joined, pipe, pairFaults>>
     \/ /\ ~ep["phone"].active /\ hello = "ik1" /\ ~ResponderIk
        /\ ep' = [ep EXCEPT !["phone"] = EndSession(BeginSession(@, FALSE))]
        /\ eof' = [eof EXCEPT !["host"] = TRUE]
        /\ UNCHANGED <<thread, joined, pipe, pairFaults>>
     \/ /\ ~ep["phone"].active /\ (hello = "xx1" \/ ResponderIk)
        /\ ep' = [ep EXCEPT !["phone"] = BeginSession(@, hello = "xx1")]
        /\ thread' = [thread EXCEPT !["phone"] =
             [NoThread EXCEPT !.pc = IF hello = "xx1" THEN "answer" ELSE "wait",
                              !.conn = thread["host"].conn]]
        /\ joined' = TRUE /\ eof' = [e \in Endpoints |-> FALSE]
        /\ pipe' = [host |-> <<IF hello = "xx1" THEN "xx2" ELSE "ik2">>, phone |-> <<>>]
        /\ UNCHANGED pairFaults
  /\ UNCHANGED <<conns, history>>

\* finish_xx and the first lines of run_pairing_loop
ShowCode(e) ==
  /\ ep' = [ep EXCEPT ![e].sas = thread[e].conn, ![e].state = "SasPending"]
  /\ thread' = [thread EXCEPT ![e].pc = "pair"]

\* The record e reads next is m, and its answer is sent.
Reads(e, m, answer) ==
  /\ ep[e].up /\ thread[e].pc = "answer" /\ pipe[e] # <<>> /\ Head(pipe[e]) = m
  /\ pipe' = [Deliver(Other(e), answer) EXCEPT ![e] = Tail(@)]
  /\ UNCHANGED <<hello, joined, eof, conns, pairFaults, history>>

\* initiator_xx: the second message is read and the third sent
InitiatorXx == Reads("host", "xx2", <<"xx3">>) /\ ShowCode("host")

\* responder_xx: the third message is read
ResponderXx == Reads("phone", "xx3", <<>>) /\ ShowCode("phone")

\* initiator_ik: the answer is read; run_committed_loop begins with a PING
InitiatorIk ==
  /\ Reads("host", "ik2", <<"ping">>)
  /\ thread' = [thread EXCEPT !["host"].pc = "wait"] /\ UNCHANGED ep

-----------------------------------------------------------------------------
(* run_pairing_loop: the actions taken at the top of an iteration, one frame, *)
(* and the commit, with the user's calls free to come between any two.       *)

\* What an iteration does with the actions it took.
\* (mutant) a confirmation is sent before a refusal is looked at
Verdict_ConfirmFirst(r) ==
  IF r.confirm /\ ~r.dispatched THEN "confirm"
  ELSE IF r.cancel THEN "cancel" ELSE IF r.mismatch THEN "mismatch" ELSE "none"

Verdict(r) ==
  IF r.cancel THEN "cancel" ELSE IF r.mismatch THEN "mismatch"
  ELSE IF r.confirm /\ ~r.dispatched THEN "confirm" ELSE "none"

\* take_actions: what is left of the requests
TakeActions(r) ==
  [r EXCEPT !.dispatched = @ \/ r.confirm, !.cancel = FALSE, !.mismatch = FALSE]

PairTop(e) ==
  /\ ep[e].up /\ thread[e].pc = "pair"
  /\ LET r == TakeActions(ep[e])
         v == Verdict(ep[e])
         a == ConfirmedLocally(thread[e].actor) IN
     \/ /\ v = "cancel" /\ Return(e, [r EXCEPT !.state = "Unpaired"])
     \/ /\ v = "mismatch"
        /\ \E s \in {"PairRejected", "Cooldown"} : Return(e, [r EXCEPT !.state = s])
     \/ /\ v = "confirm"
        /\ ep' = [ep EXCEPT ![e] = [r EXCEPT !.state = ActorState(a)]]
        /\ thread' = [thread EXCEPT ![e].actor = a, ![e].pc = "frame"]
        /\ pipe' = IF SendsConfirm(thread[e].actor)
                   THEN Deliver(Other(e), <<"confirm">>) ELSE pipe
        /\ UNCHANGED <<hello, joined, eof>>
     \/ /\ v = "none"
        /\ ep' = [ep EXCEPT ![e] = r]
        /\ thread' = [thread EXCEPT ![e].pc = "frame"]
        /\ UNCHANGED <<hello, joined, eof, pipe>>
  /\ UNCHANGED <<conns, pairFaults, history>>

\* enter_authenticated_loop through mark_authenticated: the cleared guard is
\* written first, and a failure of that ends the session.
Enter(e, ms) ==
  \/ /\ ep' = [ep EXCEPT ![e].auth = TRUE, ![e].state = "Authenticated"]
     /\ thread' = [thread EXCEPT ![e].pc = "authenticated"]
     /\ pipe' = [Deliver(Other(e), ms) EXCEPT ![e] = Tail(@)]
     /\ UNCHANGED <<hello, joined, eof, pairFaults>>
  \/ /\ pairFaults < MaxPairFaults /\ pairFaults' = pairFaults + 1
     /\ ep' = [ep EXCEPT ![e] = EndSession(@)]
     /\ thread' = [thread EXCEPT ![e] = NoThread]
     /\ pipe' = [Deliver(Other(e), ms) EXCEPT ![e] = <<>>]
     /\ Hangup(e)

\* After the frame: the commit when the actor is mutual, else the next turn.
AfterFrame(a) == IF Mutual(a) /\ ~a.committed THEN "store" ELSE "pair"

Completes(e, a, m) == a.committed /\ m = (IF e = "host" THEN "pong" ELSE "ping")

\* One frame, if there is one; a PING or PONG before the commit is ignored.
PairFrame(e) ==
  /\ ep[e].up /\ thread[e].pc = "frame"
  /\ LET a == thread[e].actor
         m == IF pipe[e] = <<>> THEN "none" ELSE Head(pipe[e])
         b == IF m = "confirm" THEN ConfirmedByPeer(a) ELSE a IN
     \/ /\ Completes(e, a, m)
        /\ Enter(e, IF e = "phone" THEN <<"pong">> ELSE <<>>)
     \/ /\ m # "none" /\ ~Completes(e, a, m)
        /\ thread' = [thread EXCEPT ![e].actor = b, ![e].pc = AfterFrame(b)]
        /\ ep' = [ep EXCEPT ![e].state =
             IF AfterFrame(b) = "store" THEN "TrustCommitting"
             ELSE IF m = "confirm" THEN ActorState(b) ELSE @]
        /\ pipe' = [pipe EXCEPT ![e] = Tail(@)]
        /\ UNCHANGED <<hello, joined, eof, pairFaults>>
     \/ /\ m = "none" /\ ~eof[e]
        /\ thread' = [thread EXCEPT ![e].pc = AfterFrame(a)]
        /\ ep' = [ep EXCEPT ![e].state = IF AfterFrame(a) = "store" THEN "TrustCommitting" ELSE @]
        /\ UNCHANGED <<hello, joined, eof, pipe, pairFaults>>
  /\ UNCHANGED <<conns, history>>

\* commit_peer's write of the peer file; a failure ends the session
Store(e) ==
  /\ ep[e].up /\ thread[e].pc = "store"
  /\ \/ /\ ep' = [ep EXCEPT ![e].disk = TRUE]
        /\ thread' = [thread EXCEPT ![e].pc = "publish"]
        /\ basis' = [basis EXCEPT ![e] = thread[e].conn]
        /\ UNCHANGED <<hello, joined, eof, pipe, pairFaults>>
     \/ /\ pairFaults < MaxPairFaults /\ pairFaults' = pairFaults + 1
        /\ Return(e, [ep[e] EXCEPT !.state = "PairingFailed"])
        /\ UNCHANGED basis
  /\ UNCHANGED <<conns, okd, refused>>

\* the rest of the commit: the peer in memory, the state, the initiator's PING
CommitPing(e) == IF e = "host" THEN <<"ping">> ELSE <<>>

Publish(e) ==
  /\ ep[e].up /\ thread[e].pc = "publish"
  /\ ep' = [ep EXCEPT ![e].mem = TRUE, ![e].state = "CommittedWaitingPeer"]
  /\ thread' = [thread EXCEPT ![e].pc = "pair", ![e].actor = Persisted(@)]
  /\ pipe' = Deliver(Other(e), CommitPing(e))
  /\ UNCHANGED <<hello, joined, eof, conns, pairFaults, history>>

-----------------------------------------------------------------------------
(* run_committed_loop and the authenticated session.                         *)

\* The frame that the loop waits for; any other ends the session.
Awaited(e, m) == m = (IF e = "host" THEN "pong" ELSE "ping")

WaitCommitted(e) ==
  /\ ep[e].up /\ thread[e].pc = "wait" /\ pipe[e] # <<>>
  /\ \/ /\ Awaited(e, Head(pipe[e]))
        /\ Enter(e, IF e = "phone" THEN <<"pong">> ELSE <<>>)
     \/ /\ ~Awaited(e, Head(pipe[e])) /\ Return(e, ep[e]) /\ UNCHANGED pairFaults
  /\ UNCHANGED <<conns, history>>

\* The thread reads the end of the stream once everything that arrived has been
\* read.
StreamEnds(e) ==
  /\ ep[e].up /\ thread[e].pc \in {"answer", "frame", "wait", "authenticated"}
  /\ eof[e] /\ pipe[e] = <<>>
  /\ Return(e, ep[e])
  /\ UNCHANGED <<conns, pairFaults, history>>

-----------------------------------------------------------------------------
(* Faults.                                                                   *)

PairFault == pairFaults < MaxPairFaults /\ pairFaults' = pairFaults + 1

\* The connection breaks; any suffix of what is in flight is lost, and each end
\* notices that or does not.
Cut ==
  /\ PairFault /\ joined /\ joined' = FALSE
  /\ \E n \in 0..Len(pipe["host"]), k \in 0..Len(pipe["phone"]) :
       pipe' = [host |-> SubSeq(pipe["host"], 1, n), phone |-> SubSeq(pipe["phone"], 1, k)]
  /\ eof' \in {[e \in Endpoints |-> e \in N] : N \in SUBSET Endpoints}
  /\ UNCHANGED <<ep, thread, hello, conns, history>>

\* HANDSHAKE_TIMEOUT while an answer is awaited, PAIRING_TIMEOUT_MS at the top
\* of the pairing loop (after the commit it counts as no fault: it always comes);
\* the committed loop has no timeout.
Timeout(e) ==
  /\ ep[e].up
  /\ \/ PairFault /\ thread[e].pc = "answer" /\ Return(e, ep[e])
     \/ /\ thread[e].pc = "pair" /\ (PairFault \/ (UNCHANGED pairFaults /\ thread[e].actor.committed))
        /\ Return(e, [ep[e] EXCEPT !.state = "PairingFailed"])
  /\ UNCHANGED <<conns, history>>

EndpointCrash(e) ==
  /\ PairFault /\ ep[e].up
  /\ ep' = [ep EXCEPT ![e] = [Fresh(ep[e].disk) EXCEPT !.up = FALSE]]
  /\ thread' = [thread EXCEPT ![e] = NoThread]
  /\ pipe' = [pipe EXCEPT ![e] = <<>>] /\ Hangup(e)
  /\ UNCHANGED <<conns, history>>

\* initialize
Restart(e) ==
  /\ ~ep[e].up /\ ep' = [ep EXCEPT ![e] = Fresh(ep[e].disk)]
  /\ UNCHANGED <<thread, net, pairFaults, history>>

-----------------------------------------------------------------------------
Session(e) ==
  \/ PairTop(e) \/ PairFrame(e) \/ Store(e) \/ Publish(e)
  \/ WaitCommitted(e) \/ StreamEnds(e)
  \/ e = "host" /\ (InitiatorXx \/ InitiatorIk)
  \/ e = "phone" /\ ResponderXx

User(e) == LocalConfirm(e) \/ CancelPairing(e) \/ Mismatch(e)

PairNext ==
  \/ \E e \in Endpoints :
       User(e) \/ Session(e) \/ Timeout(e) \/ EndpointCrash(e) \/ Restart(e)
  \/ BeginPairing \/ HostConnects \/ PhoneAccepts \/ Cut

PairSpec == PairInit /\ [][PairNext]_pairVars

-----------------------------------------------------------------------------
(* The endpoint's bookkeeping is consistent: an idle thread leaves no active  *)
(* session, no code and no pending request behind, so the next session        *)
(* (begin_session refuses one while session_active) can start.                *)
IdleIsClean ==
  \A e \in Endpoints : thread[e].pc = "idle" =>
    /\ ~ep[e].active /\ ~ep[e].auth /\ ep[e].sas = 0
    /\ ~ep[e].confirm /\ ~ep[e].dispatched /\ ~ep[e].cancel /\ ~ep[e].mismatch

(* Trust is stored only on the code that both users confirmed, in the same    *)
(* session: never on a confirmation given in an earlier one.                  *)
TrustIsMutual ==
  \A e \in Endpoints : basis[e] # 0 => \A f \in Endpoints : basis[e] \in okd[f]

(* A refusal (cancel or mismatch) that the runtime accepted before it sent the *)
(* user's confirmation wins over that confirmation: neither end stores trust  *)
(* on that code.                                                              *)
RefusalStands ==
  \A e, f \in Endpoints : basis[f] # 0 => basis[f] \notin refused[e]

(* Whoever is authenticated knows that both sides have stored their trust: a  *)
(* crash of either end afterwards does not undo the pairing.                  *)
AuthenticatedMeansStored ==
  \A e \in Endpoints : ep[e].auth => \A f \in Endpoints : ep[f].disk

(* The two ends commit one after the other.  While the host trusts and the    *)
(* phone does not, in a pairing whose connection still stands, the phone has   *)
(* all it needs to follow: its own confirmation is given and the host's is on  *)
(* the way or here.  Only a fault or a refusal leaves one side behind.         *)
HalfPairedCanFollow ==
  joined /\ thread["host"].pc \in {"pair", "frame", "publish"}
         /\ ep["host"].disk /\ ~ep["phone"].disk
    => /\ thread["phone"].actor.local
       /\ \/ thread["phone"].actor.peer
          \/ \E i \in 1..Len(pipe["phone"]) : pipe["phone"][i] = "confirm"

\* Trust is stored only on the one code that both users confirmed in the same session
\* and that neither refused before the confirmation left, whatever connections were
\* made, cut and made again in between (take_actions, run_pairing_loop, commit_peer).
TrustAgreed == TrustIsMutual /\ RefusalStands

\* Crashes, cuts and failed writes at any point of a pairing leave both ends
\* consistent: whoever is authenticated has a peer that has stored its trust, whoever
\* trusts first can be followed, and an ended session leaves nothing behind that keeps
\* the next one from starting (mark_authenticated, commit_peer, end_session).
TrustStands == AuthenticatedMeansStored /\ HalfPairedCanFollow /\ IdleIsClean

\* What the pairing test of runtime.rs waits for: two users who confirm in a session
\* that stands make that session authenticated.  When both ends have committed, the
\* PING or the PONG that completes it is still on the way (run_pairing_loop).
ConfirmedGoesOn ==
  joined /\ (\A e \in Endpoints : thread[e].actor.committed /\ pipe[e] = <<>>)
    => \E e \in Endpoints : ep[e].auth
=============================================================================
