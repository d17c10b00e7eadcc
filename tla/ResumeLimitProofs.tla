-------------------------- MODULE ResumeLimitProofs --------------------------
(***************************************************************************)
(* The limits of a ticket for every set of peers, every limit and every     *)
(* number of handshakes: its uses, its bond, its revocation and its expiry. *)
(* Last, ResumePeripheral implements ResumePolicy.                          *)
(***************************************************************************)
EXTENDS ResumePeripheralProofs

USE DEF Never

-----------------------------------------------------------------------------
(* The invariant behind the limits.  UsesBounded is not inductive: a commit *)
(* needs to know that the replay-cache entry of the pending session was not *)
(* counted yet.  RevokedGone needs to know that the next root is newer than *)
(* the last revocation.                                                     *)
PendingUncounted == Pending(session) => ticket.successes < Len(ticket.replay)
RevokedKnown == revoked <= issued
LimitInv ==
    /\ UsesBounded /\ PendingUncounted
    /\ ResumedOnBondedLink
    /\ RevokedKnown /\ RevokedGone

-----------------------------------------------------------------------------
(* Seen by the limits and by the policy a step is one of six kinds: an      *)
(* accepted INIT, a counted use, a full handshake, or one of these three.   *)
(* The session is cleared; the ticket stays or is erased. *)
Cleared ==
    /\ session' = NoSession /\ ticket' \in {ticket, NoTicket}
    /\ UNCHANGED <<issued, derived>>
    /\ revoked' = revoked \/ (revoked' = issued /\ ticket' = NoTicket)
(* The ticket is erased under a session that does not need it any more. *)
Erased ==
    /\ ticket' = NoTicket /\ ~Pending(session)
    /\ UNCHANGED <<session, bondAtConnect, issued, derived, revoked>>
(* Time passes, FINISH_P is queued, a PONG is sent, the link changes. *)
Quiet ==
    /\ ticket' = [ticket EXCEPT !.age = ticket'.age]
    /\ Pending(session') <=> Pending(session)
    /\ \A s \in {"IDLE", "SECURE"} : session'.state = s <=> session.state = s
    /\ session'.keys = session.keys \/ (~V11 /\ session.state = "SECURE")
    /\ UNCHANGED <<bondAtConnect, issued, derived, revoked>>
Taken == \E m \in InitFrames, np \in PNonces, fault \in {"none", "derive"}, sent \in BOOLEAN :
             InitTaken(m, np, fault, sent)

(* Every step of the service and of its environment is of one of the kinds. *)
LEMMA StepKinds ==
    ASSUME TypeOK, [Next]_vars
    PROVE  Taken \/ (Commit /\ CommitAllowed) \/ FullIssued \/ Cleared \/ Erased \/ Quiet
<1> USE DEF historyVars, linkVars
<1> DEFINE Goal == Taken \/ (Commit /\ CommitAllowed) \/ FullIssued \/ Cleared \/ Erased \/ Quiet
<1>0. ticket = [ticket EXCEPT !.age = ticket.age]
  BY DEF TypeOK, TicketSet
<1>1. ASSUME NEW m, NEW fault, InitRejected(m, fault) PROVE Goal
  BY <1>1, PrunedChoice DEF InitRejected, ClearSession, Cleared
<1>2. ASSUME NEW key, FinishAnswered(key) PROVE Goal
  <2>1. session.state = "WAIT_C" /\ session'.state = "PENDING_P" /\ session'.keys = session.keys
    BY <1>2 DEF FinishAnswered, FinishGenuine, TypeOK, SessionSet
  <2> QED BY <1>0, <1>2, <2>1 DEF FinishAnswered, Pending, Quiet
<1>3. ASSUME NEW key, NEW fault, NEW sent, FinishRejected(key, fault, sent) PROVE Goal
  BY <1>3, PrunedChoice DEF FinishRejected, ClearSession, Cleared
<1>4. ASSUME NEW seq, NEW sent, AppAnswered(session.keys, seq, sent) PROVE Goal
  <2>1. CASE session' = session
    BY <1>0, <1>4, <2>1 DEF AppAnswered, Quiet
  <2>2. CASE session' = NoSession
    BY <1>4, <2>2 DEF AppAnswered, Cleared
  <2> QED BY <1>4, <2>1, <2>2 DEF AppAnswered, ClearSession
<1>5. ASSUME ControlDenied PROVE Goal
  BY <1>5 DEF ControlDenied, ClearSession, Cleared
<1>6. ASSUME Commit PROVE Goal
  BY <1>6, PrunedChoice DEF Commit, ClearSession, Cleared
<1>7. ASSUME NEW fault, FullRefused(fault) PROVE Goal
  BY <1>7 DEF FullRefused, ClearSession, Cleared
<1>8. ASSUME TakeHybrid PROVE Goal
  <2>1. session.state = "SECURE" /\ session'.state = "SECURE" /\ ~V11
    BY <1>8 DEF TakeHybrid, TypeOK, SessionSet
  <2> QED BY <1>0, <1>8, <2>1 DEF TakeHybrid, Pending, Quiet
<1>9. ASSUME NEW p, Connected(p) PROVE Goal
  BY <1>9, PrunedChoice DEF Connected, ClearSession, Cleared
<1>10. ASSUME Disconnected \/ Abort \/ BondChanged PROVE Goal
  BY <1>10 DEF Disconnected, Abort, BondChanged, ClearSession, Cleared
<1>11. ASSUME Expire PROVE Goal
  <2>1. ticket' \in {ticket, NoTicket} /\ UNCHANGED <<bondAtConnect, issued, derived, revoked>>
    BY <1>11, PrunedChoice DEF Expire
  <2>2. CASE session' = NoSession
    BY <2>1, <2>2 DEF Cleared
  <2>3. CASE session' # NoSession
    <3>1. session' = session /\ (Pending(session) => ticket'.valid)
      BY <1>11, <2>3 DEF Expire, ClearSession, KeepSession
    <3>2. CASE ticket' = ticket
      BY <1>0, <2>1, <3>1, <3>2 DEF Quiet
    <3>3. CASE ticket' = NoTicket
      BY <2>1, <3>1, <3>3 DEF NoTicket, Erased
    <3> QED BY <2>1, <3>2, <3>3
  <2> QED BY <2>2, <2>3
<1>12. ASSUME Tick PROVE Goal
  <2>1. ticket' = [ticket EXCEPT !.age = ticket'.age]
    BY <1>12 DEF Tick, TypeOK, TicketSet
  <2>2. session'.state = session.state /\ session'.keys = session.keys
    BY <1>12 DEF Tick, TypeOK, SessionSet
  <2> QED BY <1>12, <2>1, <2>2 DEF Tick, Pending, Quiet
<1>13. ASSUME SecurityChanged \/ BondStored \/ (\E p \in Peers : BondErased(p)) PROVE Goal
  BY <1>0, <1>13 DEF SecurityChanged, BondStored, BondErased, Quiet
<1>14. ASSUME Reboot PROVE Goal
  BY <1>14 DEF Reboot, Cleared
<1>15. CASE UNCHANGED vars
  BY <1>0, <1>15 DEF vars, coreVars, Quiet
<1> QED BY <1>1, <1>2, <1>3, <1>4, <1>5, <1>6, <1>7, <1>8, <1>9, <1>10, <1>11, <1>12,
           <1>13, <1>14, <1>15
        DEF Next, Control, Calls, Environment, Taken

-----------------------------------------------------------------------------
(* A step that only clears the session leaves the limits intact. *)
LEMMA LimitCleared == ASSUME TypeOK, KeyInv, LimitInv, Cleared PROVE LimitInv'
<1>1. ~Pending(session') /\ session'.state = "IDLE"
  BY DEF Cleared, NoSession, Pending
<1>2. CASE ticket' = NoTicket
  <2>1. ~ticket'.valid BY <1>2 DEF NoTicket
  <2>2. RevokedKnown'
    BY LimitAssumption DEF Cleared, LimitInv, RevokedKnown, TypeOK
  <2> QED BY <1>1, <2>1, <2>2 DEF LimitInv, UsesBounded, PendingUncounted,
                                  ResumedOnBondedLink, RevokedGone
<1>3. CASE ticket' # NoTicket
  <2>1. ticket' = ticket /\ UNCHANGED <<issued, revoked>>
    BY <1>3 DEF Cleared
  <2> QED BY <1>1, <2>1 DEF LimitInv, UsesBounded, PendingUncounted, ResumedOnBondedLink,
                            RevokedKnown, RevokedGone
<1> QED BY <1>2, <1>3

(* A step that leaves uses, cache, root and keys alone does so too. *)
LEMMA LimitQuiet == ASSUME TypeOK, KeyInv, LimitInv, Quiet PROVE LimitInv'
<1>1. /\ ticket'.valid = ticket.valid /\ ticket'.root = ticket.root
      /\ ticket'.successes = ticket.successes /\ ticket'.replay = ticket.replay
  BY DEF Quiet, TypeOK, TicketSet
<1> QED BY <1>1 DEF Quiet, LimitInv, UsesBounded, PendingUncounted, ResumedOnBondedLink,
                    RevokedKnown, RevokedGone

(* The expiry work erases a ticket no pending session needs. *)
LEMMA LimitErased == ASSUME LimitInv, Erased PROVE LimitInv'
<1>1. ~ticket'.valid /\ ~Pending(session')
  BY DEF Erased, NoTicket
<1> QED BY <1>1 DEF Erased, LimitInv, UsesBounded, PendingUncounted, ResumedOnBondedLink,
                    RevokedKnown, RevokedGone

(* pq_resume_accept takes a cache entry, which the session now pending has  *)
(* not been counted for, on a link whose bond was there at the connection.  *)
LEMMA LimitTaken ==
    ASSUME TypeOK, KeyInv, LimitInv, NEW m \in InitFrames, NEW np \in PNonces,
           NEW fault \in {"none", "derive"}, NEW sent \in BOOLEAN,
           InitTaken(m, np, fault, sent)
    PROVE  LimitInv'
<1>1. /\ ticket.valid /\ (V11 => bondAtConnect) /\ bondAtConnect' = bondAtConnect
      /\ UNCHANGED <<issued, revoked>>
  BY DEF InitTaken, Genuine, Eligible, Consults, ResumeBond, linkVars
<1>2. /\ ticket'.valid = ticket.valid /\ ticket'.root = ticket.root
      /\ ticket'.successes = ticket.successes
      /\ ticket'.replay = Append(ticket.replay, [nc |-> m.nc, sid |-> m.sid])
  BY DEF InitTaken, TypeOK, TicketSet
<1>3. ticket.replay \in Seq(ReplayEntry) /\ [nc |-> m.nc, sid |-> m.sid] \in ReplayEntry
      /\ ticket.successes \in Nat
  BY DEF TypeOK, TicketSet, InitFrames, ReplayEntry
<1>4. Len(ticket.replay) \in Nat /\ Len(ticket'.replay) = Len(ticket.replay) + 1
  BY <1>2, <1>3
<1>5. ticket.successes < MAX_USES /\ ticket.successes <= Len(ticket.replay)
      /\ ticket.root > revoked
  BY <1>1 DEF LimitInv, UsesBounded, RevokedGone
<1>6. UsesBounded' /\ PendingUncounted'
  BY <1>2, <1>3, <1>4, <1>5 DEF UsesBounded, PendingUncounted
<1>7. session'.state # "IDLE" => session'.keys.root = ticket.root
  BY DEF InitTaken, ClearSession, NoSession, ResumeKeys
<1>8. RevokedKnown' /\ RevokedGone'
  BY <1>1, <1>2, <1>5, <1>7 DEF LimitInv, RevokedKnown, RevokedGone
<1> QED BY <1>1, <1>6, <1>8 DEF LimitInv, ResumedOnBondedLink

(* pq_resume_commit counts the use that the pending session's entry paid. *)
LEMMA LimitCommit ==
    ASSUME TypeOK, KeyInv, LimitInv, Commit, CommitAllowed PROVE LimitInv'
<1>1. /\ session.state = "PENDING_P" /\ session'.state = "SECURE"
      /\ session'.keys = session.keys /\ ticket' = Counted(ticket)
      /\ UNCHANGED <<bondAtConnect, issued, revoked>>
  BY DEF Commit, KeyInv, CommitOwned, TypeOK, SessionSet, linkVars, historyVars
<1>2. Pending(session) /\ ~Pending(session')
  BY <1>1 DEF Pending
<1>3. ticket.valid /\ ticket.successes < Len(ticket.replay)
  BY <1>2 DEF KeyInv, PendingHasTicket, LimitInv, PendingUncounted
<1>4. ResumedOnBondedLink' /\ PendingUncounted'
  BY <1>1, <1>2 DEF LimitInv, ResumedOnBondedLink, PendingUncounted
<1>5. CASE ticket' = NoTicket
  <2>1. ~ticket'.valid BY <1>5 DEF NoTicket
  <2> QED BY <1>1, <1>4, <2>1 DEF LimitInv, UsesBounded, RevokedKnown, RevokedGone
<1>6. CASE ticket' # NoTicket
  <2>1. ticket' = [ticket EXCEPT !.successes = @ + 1] /\ ~(ticket.successes + 1 >= MAX_USES)
    BY <1>1, <1>6 DEF Counted
  <2>2. ticket'.root = ticket.root /\ ticket'.successes = ticket.successes + 1
        /\ ticket'.replay = ticket.replay
    BY <2>1 DEF TypeOK, TicketSet
  <2>3. ticket.successes \in Nat /\ Len(ticket.replay) \in Nat
    BY DEF TypeOK, TicketSet
  <2>4. UsesBounded'
    BY <1>3, <2>1, <2>2, <2>3, LimitAssumption DEF UsesBounded
  <2> QED BY <1>1, <1>3, <1>4, <2>2, <2>4 DEF LimitInv, RevokedKnown, RevokedGone
<1> QED BY <1>5, <1>6

(* A full handshake starts with no use and a root newer than any revocation. *)
LEMMA LimitFull == ASSUME TypeOK, KeyInv, LimitInv, FullIssued PROVE LimitInv'
<1>1. issued \in Nat /\ revoked \in Nat /\ revoked <= issued
  BY LimitAssumption DEF TypeOK, LimitInv, RevokedKnown
<1>2. /\ ticket' = FullTicket(issued + 1) /\ session' = FullSession(issued + 1)
      /\ issued' = issued + 1 /\ revoked' = revoked
  BY DEF FullIssued
<1>3. /\ ticket'.root = issued + 1 /\ ticket'.successes = 0 /\ ticket'.replay = <<>>
      /\ session'.state = "SECURE" /\ session'.keys.sid = 0
      /\ (V11 => session'.keys.root = issued + 1)
  BY <1>2 DEF FullTicket, FullSession, FullKeys, NoKeys
<1>4. ~Pending(session')
  BY <1>3 DEF Pending
<1>5. UsesBounded' /\ RevokedKnown'
  BY <1>1, <1>2, <1>3, LimitAssumption DEF UsesBounded, RevokedKnown
<1>6. issued + 1 > revoked
  BY <1>1
<1>7. RevokedGone'
  BY <1>2, <1>3, <1>6 DEF RevokedGone
<1> QED BY <1>3, <1>4, <1>5, <1>7 DEF LimitInv, PendingUncounted, ResumedOnBondedLink

(* The limit invariant holds in every state. *)
THEOREM LimitInvariant == Spec => []LimitInv
<1>1. Init => LimitInv
  BY LimitAssumption
  DEF Init, NoTicket, NoSession, Pending, LimitInv, UsesBounded, PendingUncounted,
      ResumedOnBondedLink, RevokedKnown, RevokedGone
<1>2. TypeOK /\ KeyInv /\ LimitInv /\ [Next]_vars => LimitInv'
  BY StepKinds, LimitTaken, LimitCommit, LimitFull, LimitCleared, LimitErased, LimitQuiet
  DEF Taken
<1> QED BY <1>1, <1>2, TypeCorrect, KeyInvariant, PTL DEF Spec

(* A valid ticket has uses left, and every use it counts took an entry of   *)
(* the replay cache of its own.                                             *)
THEOREM UsesSafe == Spec => []UsesBounded
<1>1. LimitInv => UsesBounded BY DEF LimitInv
<1> QED BY <1>1, LimitInvariant, PTL

(* Profile v1.1 resumes only where the bond was there at the connection.    *)
THEOREM BondedLinkSafe == Spec => []ResumedOnBondedLink
<1>1. LimitInv => ResumedOnBondedLink BY DEF LimitInv
<1> QED BY <1>1, LimitInvariant, PTL

(* Nothing issued before the last bond change survives it.                  *)
THEOREM RevocationSafe == Spec => []RevokedGone
<1>1. LimitInv => RevokedGone BY DEF LimitInv
<1> QED BY <1>1, LimitInvariant, PTL

-----------------------------------------------------------------------------
(* schedule_expiry arms the work item for the ticket and the session it is  *)
(* called with, whichever is due first.                                     *)
LEMMA ScheduleArms ==
    ASSUME ticket' \in TicketSet, session' \in SessionSet, NEW q,
           ScheduleExpiry(ticket', session', q)
    PROVE  ExpiryArmed'
<1> DEFINE t == ticket'
           s == session'
<1>1. t.age \in 0 .. TTL /\ s.left \in 0 .. PENDING
  BY DEF TicketSet, SessionSet
<1>2. TicketDelay(t) \in 0 .. TTL /\ (t.valid => TicketDelay(t) = TTL - t.age)
  BY <1>1, LimitAssumption DEF TicketDelay
<1>3. /\ Delay(t, s) \in 0 .. TTL /\ Delay(t, s) <= TicketDelay(t)
      /\ (Pending(s) => Delay(t, s) <= s.left)
  BY <1>1, <1>2, LimitAssumption DEF Delay
<1>4. Expiring(t, s) => /\ due' = IF Delay(t, s) > 0 THEN Delay(t, s) ELSE 1
                        /\ due' # Never
  BY <1>3, LimitAssumption DEF ScheduleExpiry
<1>5. ASSUME t.valid PROVE Armed(TTL - ticket.age)'
  BY <1>1, <1>2, <1>3, <1>4, <1>5, LimitAssumption DEF Armed, Expiring
<1>6. ASSUME Pending(s) PROVE Armed(session.left)'
  BY <1>1, <1>3, <1>4, <1>6, LimitAssumption DEF Armed, Expiring
<1> QED BY <1>5, <1>6 DEF ExpiryArmed

(* A step re-arms the work item, lets time pass, or needs no arming. *)
LEMMA ArmedKinds ==
    ASSUME TypeOK, [Next]_vars
    PROVE  \/ \E q \in BOOLEAN : ScheduleExpiry(ticket', session', q)
           \/ pc' = "commit" \/ TakeHybrid \/ Tick \/ Reboot
           \/ UNCHANGED <<ticket, session, due, queued, pc>>
<1> USE DEF historyVars, linkVars
<1>1. queued \in BOOLEAN BY DEF TypeOK
<1>2. Control => \/ \E q \in BOOLEAN : ScheduleExpiry(ticket', session', q)
                 \/ pc' = "commit"
  BY <1>1 DEF Control, InitTaken, InitRejected, FinishAnswered, FinishRejected, AppAnswered,
              ControlDenied
<1>3. Commit => \E q \in BOOLEAN : ScheduleExpiry(ticket', session', q)
  BY <1>1 DEF Commit
<1>4. Calls => TakeHybrid \/ \E q \in BOOLEAN : ScheduleExpiry(ticket', session', q)
  BY <1>1 DEF Calls, FullIssued, FullRefused, Connected, Disconnected, Abort, BondChanged, Expire
<1>5. Environment => Tick \/ Reboot \/ UNCHANGED <<ticket, session, due, queued, pc>>
  BY DEF Environment, SecurityChanged, BondStored, BondErased
<1> QED BY <1>2, <1>3, <1>4, <1>5 DEF Next, vars, coreVars

(* The clock brings the deadline and the work item closer together. *)
LEMMA ArmedTick == ASSUME TypeOK, ExpiryArmed, Tick PROVE ExpiryArmed'
<1> SUFFICES ASSUME Unlocked
             PROVE  /\ ticket'.valid => Armed(TTL - ticket.age)'
                    /\ Pending(session') => Armed(session.left)'
  BY DEF ExpiryArmed, Tick, Unlocked
<1> USE LimitAssumption
<1>1. /\ ticket'.valid = ticket.valid /\ ticket.age \in 0 .. TTL
      /\ ticket.valid => ticket'.age = IF ticket.age < TTL THEN ticket.age + 1 ELSE ticket.age
  BY DEF Tick, TypeOK, TicketSet
<1>2. /\ session'.state = session.state /\ session.left \in 0 .. PENDING
      /\ session'.left = IF session.left > 0 THEN session.left - 1 ELSE session.left
  BY DEF Tick, TypeOK, SessionSet
<1>3. /\ due \in {Never} \cup (1 .. TTL) /\ queued \in BOOLEAN
      /\ queued' <=> queued \/ due = 1
      /\ due' = IF due > 1 THEN due - 1 ELSE Never
  BY DEF Tick, TypeOK
<1>4. ASSUME NEW d \in Nat, NEW e \in Nat, Armed(d), d <= e + 1
      PROVE  queued' \/ (due' # Never /\ (due' <= e \/ due' = 1))
  BY <1>3, <1>4 DEF Armed
<1>5. ASSUME ticket'.valid PROVE Armed(TTL - ticket.age)'
  <2>1. Armed(TTL - ticket.age) BY <1>1, <1>5 DEF ExpiryArmed
  <2>2. /\ TTL - ticket.age \in Nat /\ TTL - ticket'.age \in Nat
        /\ TTL - ticket.age <= (TTL - ticket'.age) + 1
    BY <1>1, <1>5
  <2> QED BY <1>4, <2>1, <2>2 DEF Armed
<1>6. ASSUME Pending(session') PROVE Armed(session.left)'
  <2>1. Armed(session.left) BY <1>2, <1>6 DEF ExpiryArmed, Pending
  <2>2. session.left \in Nat /\ session'.left \in Nat /\ session.left <= session'.left + 1
    BY <1>2
  <2> QED BY <1>4, <2>1, <2>2 DEF Armed
<1> QED BY <1>5, <1>6

(* Whatever has to expire has the expiry work queued or scheduled in time,  *)
(* with or without a connection and through every rescheduling.             *)
THEOREM ExpirySafe == Spec => []ExpiryArmed
<1>1. Init => ExpiryArmed
  BY DEF Init, ExpiryArmed, NoTicket, NoSession, Pending
<1>2. TypeOK /\ TypeOK' /\ ExpiryArmed /\ [Next]_vars => ExpiryArmed'
  <2> SUFFICES ASSUME TypeOK, TypeOK', ExpiryArmed, [Next]_vars PROVE ExpiryArmed'
    OBVIOUS
  <2>1. CASE \E q \in BOOLEAN : ScheduleExpiry(ticket', session', q)
    BY <2>1, ScheduleArms DEF TypeOK
  <2>2. CASE pc' = "commit"
    BY <2>2 DEF ExpiryArmed, Unlocked
  <2>3. CASE TakeHybrid
    <3>1. session.state = "SECURE" /\ session'.state = "SECURE"
      BY <2>3 DEF TakeHybrid, TypeOK, SessionSet
    <3> QED BY <2>3, <3>1 DEF TakeHybrid, ExpiryArmed, Unlocked, Armed, Pending
  <2>4. CASE Tick
    BY <2>4, ArmedTick
  <2>5. CASE Reboot
    BY <2>5 DEF Reboot, ExpiryArmed, NoTicket, NoSession, Pending
  <2>6. CASE UNCHANGED <<ticket, session, due, queued, pc>>
    BY <2>6 DEF ExpiryArmed, Unlocked, Armed, Pending
  <2> QED BY <2>1, <2>2, <2>3, <2>4, <2>5, <2>6, ArmedKinds
<1> QED BY <1>1, <1>2, TypeCorrect, PTL DEF Spec

-----------------------------------------------------------------------------
(* The refinement: at boot the policy's initial state is mapped to, and     *)
(* every step of the service or of its environment is a step of the policy, *)
(* or leaves the policy's variables unchanged.                              *)

(* The policy's phase, the offer that awaits its confirmation and the       *)
(* offers ever made, as the mapping reads them from the service.            *)
MappedOffer == IF Pending(session) THEN OfferOf(session.keys) ELSE OfferOf(NoKeys)
MappedSpent == {OfferOf(k) : k \in {d \in derived : d.sid # 0}}

(* The phase as the state of the session tells it. *)
LEMMA PhaseOf ==
    /\ AbstractPhase = "idle" <=> session.state = "IDLE"
    /\ AbstractPhase = "offered" <=> Pending(session)
    /\ session.state = "SECURE" => AbstractPhase = "secure"
  BY DEF AbstractPhase, Pending

(* A step that clears the session drops an offer, or revokes the ticket. *)
LEMMA ClearedRefines ==
    ASSUME Cleared PROVE Policy!Drop \/ Policy!Revoke
<1>1. session'.state = "IDLE" /\ ~Pending(session')
  BY DEF Cleared, NoSession, Pending
<1>2. AbstractPhase' = "idle" /\ MappedOffer' = Policy!NoOffer
  BY <1>1 DEF AbstractPhase, MappedOffer, OfferOf, NoKeys, Policy!NoOffer
<1>3. issued' = issued /\ MappedSpent' = MappedSpent
  BY DEF Cleared, MappedSpent
<1>4. CASE ticket' = ticket
  BY <1>2, <1>3, <1>4 DEF Policy!Drop, MappedOffer, MappedSpent
<1>5. CASE ticket' = NoTicket
  BY <1>2, <1>3, <1>5 DEF Policy!Revoke, NoTicket, MappedOffer, MappedSpent
<1> QED BY <1>4, <1>5 DEF Cleared

(* The expiry work that erases a ticket under an open session revokes it. *)
LEMMA ErasedRefines == ASSUME Erased PROVE Policy!Revoke
<1>1. AbstractPhase # "offered"
  BY PhaseOf DEF Erased
<1>2. UNCHANGED <<issued, AbstractPhase, MappedOffer, MappedSpent>>
  BY DEF Erased, AbstractPhase, MappedOffer, MappedSpent, Pending
<1>3. ticket'.root = 0 /\ ticket'.successes = 0
  BY DEF Erased, NoTicket
<1> QED BY <1>1, <1>2, <1>3 DEF Policy!Revoke, MappedOffer, MappedSpent

(* A quiet step is a stutter of the policy. *)
LEMMA QuietRefines == ASSUME TypeOK, Quiet PROVE UNCHANGED Policy!vars
<1>1. ticket'.root = ticket.root /\ ticket'.successes = ticket.successes
  BY DEF Quiet, TypeOK, TicketSet
<1>2. AbstractPhase' = AbstractPhase
  BY DEF Quiet, AbstractPhase
<1>3. MappedOffer' = MappedOffer /\ MappedSpent' = MappedSpent
  BY DEF Quiet, MappedOffer, MappedSpent, Pending
<1> QED BY <1>1, <1>2, <1>3 DEF Policy!vars, Quiet, MappedOffer, MappedSpent

(* A full handshake issues a ticket, and its keys are no offer. *)
LEMMA FullRefines == ASSUME TypeOK, FullIssued PROVE Policy!Issue
<1>1. /\ issued < MaxFull /\ issued' = issued + 1
      /\ ticket' = FullTicket(issued + 1) /\ session' = FullSession(issued + 1)
      /\ derived' = derived \cup {FullKeys(issued + 1)}
  BY DEF FullIssued
<1>2. ticket'.root = issued + 1 /\ ticket'.successes = 0 /\ session'.state = "SECURE"
  BY <1>1 DEF FullTicket, FullSession
<1>3. AbstractPhase' = "secure" /\ MappedOffer' = Policy!NoOffer
  BY <1>2 DEF AbstractPhase, MappedOffer, Pending, OfferOf, NoKeys, Policy!NoOffer
<1>4. MappedSpent' = MappedSpent
  BY <1>1 DEF MappedSpent, FullKeys
<1> QED BY <1>1, <1>2, <1>3, <1>4 DEF Policy!Issue, MappedOffer, MappedSpent

(* A counted use confirms the offer that was made under the live ticket. *)
LEMMA CommitRefines ==
    ASSUME TypeOK, KeyInv, Commit, CommitAllowed PROVE Policy!Confirm
<1>1. /\ session.state = "PENDING_P" /\ session'.state = "SECURE"
      /\ ticket' = Counted(ticket) /\ UNCHANGED <<issued, derived>>
  BY DEF Commit, KeyInv, CommitOwned, TypeOK, SessionSet, historyVars
<1>2. Pending(session) /\ ~Pending(session')
  BY <1>1 DEF Pending
<1>3. AbstractPhase = "offered" /\ AbstractPhase' = "secure"
  BY <1>1, <1>2 DEF AbstractPhase
<1>4. MappedOffer.root = ticket.root /\ MappedOffer' = Policy!NoOffer
  BY <1>2 DEF MappedOffer, OfferOf, NoKeys, Policy!NoOffer, KeyInv, PendingHasTicket
<1>5. MappedSpent' = MappedSpent
  BY <1>1 DEF MappedSpent
<1>6. IF ticket.successes + 1 < MAX_USES
      THEN ticket'.successes = ticket.successes + 1 /\ ticket'.root = ticket.root
      ELSE ticket'.successes = 0 /\ ticket'.root = 0
  <2>1. ticket.successes \in Nat BY DEF TypeOK, TicketSet
  <2>2. CASE ticket.successes + 1 < MAX_USES
    <3>1. ticket' = [ticket EXCEPT !.successes = @ + 1]
      BY <1>1, <2>1, <2>2, LimitAssumption DEF Counted
    <3> QED BY <2>2, <3>1 DEF TypeOK, TicketSet
  <2>3. CASE ~(ticket.successes + 1 < MAX_USES)
    <3>1. ticket' = NoTicket
      BY <1>1, <2>1, <2>3, LimitAssumption DEF Counted
    <3> QED BY <2>3, <3>1 DEF NoTicket
  <2> QED BY <2>2, <2>3
<1> QED BY <1>1, <1>3, <1>4, <1>5, <1>6 DEF Policy!Confirm, MappedOffer, MappedSpent

(* pq_resume_accept makes an offer the ticket's root has never seen, also   *)
(* when the derivation or the notification fails after it.                  *)
LEMMA TakenRefines ==
    ASSUME TypeOK, KeyInv, NEW m \in InitFrames, NEW np \in PNonces,
           NEW fault \in {"none", "derive"}, NEW sent \in BOOLEAN,
           InitTaken(m, np, fault, sent)
    PROVE  Policy!Offer(m.sid, m.nc)
<1> DEFINE made == [root |-> ticket.root, sid |-> m.sid, nc |-> m.nc]
<1>1. /\ Genuine(m, fault) /\ session.state = "IDLE" /\ ticket.valid
      /\ derived' = derived \cup {ResumeKeys(m, np)} /\ issued' = issued
  BY DEF InitTaken, Genuine, Consults, Eligible
<1>2. ticket.root # 0
  BY <1>1, LimitAssumption DEF KeyInv, TicketShape, TypeOK
<1>3. ticket'.root = ticket.root /\ ticket'.successes = ticket.successes
  BY DEF InitTaken, TypeOK, TicketSet
<1>4. OfferOf(ResumeKeys(m, np)) = made /\ ResumeKeys(m, np).sid # 0
  BY ZeroAssumption DEF OfferOf, ResumeKeys, InitFrames
<1>5. MappedSpent' = MappedSpent \cup {made}
  BY <1>1, <1>4 DEF MappedSpent
<1>6. \A o \in MappedSpent : o.root = ticket.root => o.sid # m.sid /\ o.nc # m.nc
  <2> SUFFICES ASSUME NEW k \in derived, OfferOf(k).root = ticket.root
               PROVE  OfferOf(k).sid # m.sid /\ OfferOf(k).nc # m.nc
    BY DEF MappedSpent
  <2> QED BY <1>1, GenuineIsFresh DEF OfferOf
<1>7. AbstractPhase = "idle" /\ MappedOffer = OfferOf(NoKeys)
  BY <1>1 DEF AbstractPhase, MappedOffer, Pending
<1>8. \/ AbstractPhase' = "offered" /\ MappedOffer' = made
      \/ UNCHANGED <<AbstractPhase, MappedOffer>>
  <2>1. CASE fault = "none" /\ sent
    <3>1. session'.state = "WAIT_C" /\ session'.keys = ResumeKeys(m, np)
      BY <2>1 DEF InitTaken
    <3> QED BY <1>4, <3>1 DEF AbstractPhase, MappedOffer, Pending
  <2>2. CASE ~(fault = "none" /\ sent)
    <3>1. session'.state = "IDLE"
      BY <2>2 DEF InitTaken, ClearSession, NoSession
    <3> QED BY <1>7, <3>1 DEF AbstractPhase, MappedOffer, Pending, OfferOf, NoKeys
  <2> QED BY <2>1, <2>2
<1> QED BY <1>1, <1>2, <1>3, <1>5, <1>6, <1>7, <1>8
        DEF Policy!Offer, MappedOffer, MappedSpent

(* The service implements the policy, for every build, every limit and      *)
(* every number of peers and handshakes.                                    *)
THEOREM PolicyRefinement == Spec => ImplementsPolicy
<1>1. Init => Policy!Init
  BY DEF Init, Policy!Init, Policy!NoOffer, NoTicket, NoSession, NoKeys, OfferOf, AbstractPhase,
         Pending
<1>2. TypeOK /\ KeyInv /\ [Next]_vars => [Policy!Next]_(Policy!vars)
  <2> SUFFICES ASSUME TypeOK, KeyInv, [Next]_vars
               PROVE  Policy!Next \/ UNCHANGED Policy!vars
    OBVIOUS
  <2>1. CASE Taken
    <3>1. PICK m \in InitFrames, np \in PNonces, fault \in {"none", "derive"},
               sent \in BOOLEAN : InitTaken(m, np, fault, sent)
      BY <2>1 DEF Taken
    <3>2. m.sid \in Sids /\ m.nc \in Nonces
      BY DEF InitFrames
    <3>3. Policy!Offer(m.sid, m.nc)
      BY <3>1, TakenRefines
    <3> QED BY <3>2, <3>3 DEF Policy!Next
  <2> QED BY <2>1, StepKinds, CommitRefines, FullRefines, ClearedRefines, ErasedRefines,
             QuietRefines
          DEF Policy!Next
<1> QED BY <1>1, <1>2, TypeCorrect, KeyInvariant, PTL DEF Spec, ImplementsPolicy, Policy!Spec
=============================================================================
