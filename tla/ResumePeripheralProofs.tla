----------------------- MODULE ResumePeripheralProofs -----------------------
(***************************************************************************)
(* What ResumePeripheral guarantees for every set of peers, every limit    *)
(* and every number of handshakes.                                         *)
(***************************************************************************)
EXTENDS ResumePeripheral, TLAPS

USE DEF Never

-----------------------------------------------------------------------------
(* The structures the helpers build have the types of the variables. *)
LEMMA ZeroedTyped ==
    NoKeys \in KeySet /\ NoSession \in SessionSet /\ NoTicket \in TicketSet
  BY LimitAssumption
  DEF NoKeys, NoSession, NoTicket, KeySet, SessionSet, TicketSet, States, ReplayEntry

(* pq_resume_eligible leaves a ticket: the same or an erased one. *)
LEMMA PrunedTyped == ASSUME NEW t \in TicketSet PROVE Pruned(t) \in TicketSet
  BY ZeroedTyped DEF Pruned

(* Counting a use leaves a ticket. *)
LEMMA CountedTyped == ASSUME NEW t \in TicketSet PROVE Counted(t) \in TicketSet
  BY SMTT(20), ZeroedTyped DEF Counted, TicketSet

(* The keys of a full handshake are keys. *)
LEMMA FullKeysTyped == ASSUME NEW r \in 0 .. MaxFull PROVE FullKeys(r) \in KeySet
  BY DEF FullKeys, NoKeys, KeySet

(* The keys pq_resume_accept derives are keys. *)
LEMMA ResumeKeysTyped ==
    ASSUME ticket \in TicketSet, NEW m \in InitFrames, NEW np \in PNonces
    PROVE  ResumeKeys(m, np) \in KeySet
  BY DEF ResumeKeys, InitFrames, KeySet, TicketSet

(* schedule_expiry arms the work item within one lifetime, or not at all. *)
LEMMA ScheduleTyped ==
    ASSUME NEW t \in TicketSet, NEW s \in SessionSet, NEW q \in BOOLEAN,
           ScheduleExpiry(t, s, q)
    PROVE  due' \in {Never} \cup (1 .. TTL) /\ queued' \in BOOLEAN
<1>1. TicketDelay(t) \in 0 .. TTL
  BY LimitAssumption DEF TicketDelay, TicketSet
<1>2. s.left \in 0 .. PENDING
  BY DEF SessionSet
<1>3. Delay(t, s) \in 0 .. TTL
  BY <1>1, <1>2, LimitAssumption DEF Delay
<1>4. due' \in {Never} \cup (1 .. TTL)
  BY <1>3, LimitAssumption DEF ScheduleExpiry
<1>5. queued' \in BOOLEAN
  BY DEF ScheduleExpiry
<1> QED BY <1>4, <1>5

(* clear_session, and the answer of the service to a failure. *)
LEMMA ClearTyped ==
    ASSUME ClearSession
    PROVE  session' \in SessionSet /\ rx' \in 0 .. SEQ_MAX /\ tx' \in 0 .. SEQ_MAX
           /\ hybridPending' \in BOOLEAN
<1>1. 0 \in 0 .. SEQ_MAX BY LimitAssumption
<1> QED BY <1>1, ZeroedTyped DEF ClearSession

-----------------------------------------------------------------------------
(* Every step of the service and of its environment preserves the types. *)
LEMMA TypeStep == TypeOK /\ [Next]_vars => TypeOK'
<1> SUFFICES ASSUME TypeOK, [Next]_vars PROVE TypeOK'
  OBVIOUS
<1> USE LimitAssumption, BuildAssumption
<1>1. ASSUME NEW m \in InitFrames, NEW np \in PNonces, NEW fault \in {"none", "derive"},
             NEW sent \in BOOLEAN, InitTaken(m, np, fault, sent)
      PROVE  TypeOK'
  <2>1. ResumeKeys(m, np) \in KeySet
    BY ResumeKeysTyped DEF TypeOK
  <2>2. [nc |-> m.nc, sid |-> m.sid] \in ReplayEntry
    BY DEF InitFrames, ReplayEntry
  <2>3. ticket' \in TicketSet
    <3>1. Append(ticket.replay, [nc |-> m.nc, sid |-> m.sid]) \in Seq(ReplayEntry)
      BY <2>2 DEF TypeOK, TicketSet
    <3> QED BY <1>1, <3>1 DEF InitTaken, TypeOK, TicketSet
  <2>4. session' \in SessionSet /\ rx' \in 0 .. SEQ_MAX /\ tx' \in 0 .. SEQ_MAX
        /\ hybridPending' \in BOOLEAN
    <3>1. CASE fault = "none" /\ sent
      BY <1>1, <2>1, <3>1 DEF InitTaken, TypeOK, SessionSet, States
    <3>2. CASE ~(fault = "none" /\ sent)
      <4>1. ClearSession BY <1>1, <3>2 DEF InitTaken
      <4> QED BY <4>1, ClearTyped
    <3> QED BY <3>1, <3>2
  <2>5. due' \in {Never} \cup (1 .. TTL) /\ queued' \in BOOLEAN
    <3>1. ScheduleExpiry(ticket', session', queued) BY <1>1 DEF InitTaken
    <3>2. queued \in BOOLEAN BY DEF TypeOK
    <3> QED BY <2>3, <2>4, <3>1, <3>2, ScheduleTyped
  <2>6. derived' \subseteq KeySet
    BY <1>1, <2>1 DEF InitTaken, TypeOK
  <2> QED BY <1>1, <2>3, <2>4, <2>5, <2>6 DEF InitTaken, linkVars, TypeOK
<1>2. ASSUME NEW m \in InitFrames, NEW fault \in {"none", "rng", "mac"}, InitRejected(m, fault)
      PROVE  TypeOK'
  <2>1. ticket' \in TicketSet
    BY <1>2, PrunedTyped DEF InitRejected, TypeOK
  <2>2. ClearSession /\ ScheduleExpiry(ticket', session', queued)
    BY <1>2 DEF InitRejected
  <2> QED BY <1>2, <2>1, <2>2, ClearTyped, ScheduleTyped
          DEF InitRejected, linkVars, historyVars, TypeOK
<1>3. ASSUME NEW key, FinishAnswered(key) PROVE TypeOK'
  BY <1>3 DEF FinishAnswered, linkVars, historyVars, TypeOK, SessionSet, States
<1>4. ASSUME NEW key, NEW fault \in BOOLEAN, NEW sent \in BOOLEAN,
             FinishRejected(key, fault, sent)
      PROVE  TypeOK'
  <2>1. ticket' \in TicketSet
    BY <1>4, PrunedTyped DEF FinishRejected, TypeOK
  <2>2. ClearSession /\ ScheduleExpiry(ticket', session', queued)
    BY <1>4 DEF FinishRejected
  <2> QED BY <1>4, <2>1, <2>2, ClearTyped, ScheduleTyped
          DEF FinishRejected, linkVars, historyVars, TypeOK
<1>5. ASSUME NEW seq \in 0 .. SEQ_MAX, NEW sent \in BOOLEAN,
             AppAnswered(session.keys, seq, sent)
      PROVE  TypeOK'
  <2>1. session' \in SessionSet /\ rx' \in 0 .. SEQ_MAX /\ tx' \in 0 .. SEQ_MAX
        /\ hybridPending' \in BOOLEAN
    <3>1. CASE sent
      BY <1>5, <3>1 DEF AppAnswered, AppGenuine, TypeOK
    <3>2. CASE ~sent
      <4>1. ClearSession BY <1>5, <3>2 DEF AppAnswered
      <4> QED BY <4>1, ClearTyped
    <3> QED BY <3>1, <3>2
  <2>2. ScheduleExpiry(ticket, session', queued) BY <1>5 DEF AppAnswered
  <2>3. sealed' \subseteq (KeySet \X (0 .. SEQ_MAX))
    BY <1>5 DEF AppAnswered, TypeOK, SessionSet
  <2>4. due' \in {Never} \cup (1 .. TTL) /\ queued' \in BOOLEAN
    BY <2>1, <2>2, ScheduleTyped DEF TypeOK
  <2> QED BY <1>5, <2>1, <2>3, <2>4 DEF AppAnswered, linkVars, TypeOK
<1>6. ASSUME ControlDenied PROVE TypeOK'
  <2>1. ClearSession /\ ScheduleExpiry(ticket, session', queued)
    BY <1>6 DEF ControlDenied
  <2> QED BY <1>6, <2>1, ClearTyped, ScheduleTyped
          DEF ControlDenied, linkVars, historyVars, TypeOK
<1>7. ASSUME Commit PROVE TypeOK'
  <2>1. ticket' \in TicketSet
    BY <1>7, PrunedTyped, CountedTyped DEF Commit, TypeOK
  <2>2. session' \in SessionSet /\ rx' \in 0 .. SEQ_MAX /\ tx' \in 0 .. SEQ_MAX
        /\ hybridPending' \in BOOLEAN
    <3>1. CASE CommitAllowed
      BY <1>7, <3>1 DEF Commit, TypeOK, SessionSet, States
    <3>2. CASE ~CommitAllowed
      <4>1. ClearSession BY <1>7, <3>2 DEF Commit
      <4> QED BY <4>1, ClearTyped
    <3> QED BY <3>1, <3>2
  <2>3. ScheduleExpiry(ticket', session', queued) BY <1>7 DEF Commit
  <2> QED BY <1>7, <2>1, <2>2, <2>3, ScheduleTyped
          DEF Commit, linkVars, historyVars, TypeOK
<1>8. ASSUME FullIssued PROVE TypeOK'
  <2>1. issued + 1 \in 0 .. MaxFull
    BY <1>8 DEF FullIssued, TypeOK
  <2>2. ticket' \in TicketSet
    <3>1. PeerIdentity \in Peers \cup {0}
      BY DEF PeerIdentity, TypeOK
    <3> QED BY <1>8, <2>1, <3>1 DEF FullIssued, FullTicket, TicketSet
  <2>3. FullKeys(issued + 1) \in KeySet
    BY <2>1, FullKeysTyped
  <2>4. session' \in SessionSet
    BY <1>8, <2>3, ZeroedTyped DEF FullIssued, FullSession, SessionSet, States
  <2>5. ScheduleExpiry(ticket', session', queued) BY <1>8 DEF FullIssued
  <2>6. due' \in {Never} \cup (1 .. TTL) /\ queued' \in BOOLEAN
    BY <2>2, <2>4, <2>5, ScheduleTyped DEF TypeOK
  <2>7. rx' \in 0 .. SEQ_MAX /\ tx' \in 0 .. SEQ_MAX /\ hybridPending' \in BOOLEAN
    <3>1. 0 \in 0 .. SEQ_MAX OBVIOUS
    <3> QED BY <1>8, <3>1 DEF FullIssued
  <2>8. issued' \in 0 .. MaxFull /\ derived' \subseteq KeySet
    BY <1>8, <2>1, <2>3 DEF FullIssued, TypeOK
  <2> QED BY <1>8, <2>2, <2>4, <2>6, <2>7, <2>8 DEF FullIssued, linkVars, TypeOK
<1>9. ASSUME NEW fault \in BOOLEAN, FullRefused(fault) PROVE TypeOK'
  <2>1. ClearSession /\ ScheduleExpiry(ticket, session', queued)
    BY <1>9 DEF FullRefused
  <2> QED BY <1>9, <2>1, ClearTyped, ScheduleTyped
          DEF FullRefused, linkVars, historyVars, TypeOK
<1>10. ASSUME TakeHybrid PROVE TypeOK'
  BY <1>10, ZeroedTyped DEF TakeHybrid, linkVars, historyVars, TypeOK, SessionSet
<1>11. ASSUME NEW p \in Peers, Connected(p) PROVE TypeOK'
  <2>1. ticket' \in TicketSet
    BY <1>11, PrunedTyped DEF Connected, TypeOK
  <2>2. ClearSession /\ ScheduleExpiry(ticket', session', queued)
    BY <1>11 DEF Connected
  <2> QED BY <1>11, <2>1, <2>2, ClearTyped, ScheduleTyped
          DEF Connected, historyVars, TypeOK
<1>12. ASSUME Disconnected PROVE TypeOK'
  <2>1. ClearSession /\ ScheduleExpiry(ticket, session', queued)
    BY <1>12 DEF Disconnected
  <2> QED BY <1>12, <2>1, ClearTyped, ScheduleTyped
          DEF Disconnected, historyVars, TypeOK
<1>13. ASSUME Abort PROVE TypeOK'
  <2>1. ClearSession /\ ScheduleExpiry(ticket, session', queued)
    BY <1>13 DEF Abort
  <2> QED BY <1>13, <2>1, ClearTyped, ScheduleTyped
          DEF Abort, linkVars, historyVars, TypeOK
<1>14. ASSUME BondChanged PROVE TypeOK'
  <2>1. ticket' \in TicketSet
    BY <1>14, ZeroedTyped DEF BondChanged
  <2>2. ClearSession /\ ScheduleExpiry(ticket', session', queued)
    BY <1>14 DEF BondChanged
  <2> QED BY <1>14, <2>1, <2>2, ClearTyped, ScheduleTyped DEF BondChanged, TypeOK
<1>15. ASSUME Expire PROVE TypeOK'
  <2>1. ticket' \in TicketSet
    BY <1>15, PrunedTyped DEF Expire, TypeOK
  <2>2. session' \in SessionSet /\ rx' \in 0 .. SEQ_MAX /\ tx' \in 0 .. SEQ_MAX
        /\ hybridPending' \in BOOLEAN
    BY <1>15, ClearTyped DEF Expire, KeepSession, TypeOK
  <2>3. ScheduleExpiry(ticket', session', FALSE) BY <1>15 DEF Expire
  <2>4. due' \in {Never} \cup (1 .. TTL) /\ queued' \in BOOLEAN
    BY <2>1, <2>2, <2>3, ScheduleTyped
  <2> QED BY <1>15, <2>1, <2>2, <2>4 DEF Expire, linkVars, historyVars, TypeOK
<1>16. ASSUME Tick PROVE TypeOK'
  <2>1. ticket' \in TicketSet
    <3> DEFINE age == IF ticket.valid /\ ticket.age < TTL THEN ticket.age + 1 ELSE ticket.age
    <3>1. ticket \in TicketSet /\ ticket.age \in 0 .. TTL
      BY DEF TypeOK, TicketSet
    <3>2. age \in 0 .. TTL
      BY <3>1
    <3>3. ticket' = [ticket EXCEPT !.age = age]
      BY <1>16 DEF Tick
    <3> HIDE DEF age
    <3> QED BY <3>1, <3>2, <3>3 DEF TicketSet
  <2>2. session' \in SessionSet
    BY <1>16 DEF Tick, TypeOK, SessionSet
  <2>3. due' \in {Never} \cup (1 .. TTL) /\ queued' \in BOOLEAN
    BY <1>16 DEF Tick, TypeOK
  <2> QED BY <1>16, <2>1, <2>2, <2>3 DEF Tick, linkVars, historyVars, TypeOK
<1>17. ASSUME SecurityChanged PROVE TypeOK'
  BY <1>17 DEF SecurityChanged, historyVars, TypeOK
<1>18. ASSUME BondStored PROVE TypeOK'
  BY <1>18 DEF BondStored, historyVars, TypeOK
<1>19. ASSUME NEW p \in Peers, BondErased(p) PROVE TypeOK'
  BY <1>19 DEF BondErased, historyVars, TypeOK
<1>20. ASSUME Reboot PROVE TypeOK'
  <2>1. 0 \in 0 .. SEQ_MAX OBVIOUS
  <2> QED BY <1>20, <2>1, ZeroedTyped DEF Reboot, historyVars, TypeOK
<1>21. CASE UNCHANGED vars
  BY <1>21 DEF vars, coreVars, TypeOK
<1> QED BY <1>1, <1>2, <1>3, <1>4, <1>5, <1>6, <1>7, <1>8, <1>9, <1>10, <1>11, <1>12,
           <1>13, <1>14, <1>15, <1>16, <1>17, <1>18, <1>19, <1>20, <1>21
        DEF Next, Control, Calls, Environment

(* The zeroed statics have their types. *)
LEMMA TypeInit == Init => TypeOK
<1>1. 0 \in 0 .. SEQ_MAX /\ 0 \in 0 .. MaxFull
  BY LimitAssumption
<1> QED BY <1>1, ZeroedTyped DEF Init, TypeOK

(* The variables of the service keep their types for every value of the    *)
(* limits; in particular the counters never pass UINT64_MAX.               *)
THEOREM TypeCorrect == Spec => []TypeOK
  BY TypeInit, TypeStep, PTL DEF Spec

-----------------------------------------------------------------------------
(* The key invariant.  Most steps clear the session and keep the ticket or *)
(* erase it; they are dealt with at once.                                  *)
LEMMA PrunedChoice == ASSUME NEW t PROVE Pruned(t) \in {t, NoTicket}
  BY DEF Pruned

(* A step that clears the session and keeps or erases the ticket preserves *)
(* the key invariant.                                                      *)
LEMMA ClearKeepsKeyInv ==
    ASSUME KeyInv, session' = NoSession, ticket' \in {ticket, NoTicket}, pc' = "free",
           UNCHANGED <<issued, derived, sealed>>
    PROVE  KeyInv'
<1>1. ~Pending(session') /\ session'.state = "IDLE"
  BY DEF NoSession, Pending
<1>2. CommitOwned' /\ PendingHasTicket' /\ SessionDerived' /\ PendingUnsealed' /\ SealedBelow'
  BY <1>1 DEF CommitOwned, PendingHasTicket, SessionDerived, PendingUnsealed, SealedBelow
<1>3. DerivedKnown' /\ SealedKnown'
  BY DEF KeyInv, DerivedKnown, SealedKnown
<1>4. TicketShape' /\ DerivedCached'
  <2>1. CASE ticket' = ticket
    BY <2>1 DEF KeyInv, TicketShape, DerivedCached, Cached
  <2>2. CASE ticket' = NoTicket
    BY <2>2 DEF NoTicket, TicketShape, DerivedCached
  <2> QED BY <2>1, <2>2
<1> QED BY <1>2, <1>3, <1>4 DEF KeyInv

(* The clock and the link change nothing the invariant speaks of. *)
LEMMA QuietKeepsKeyInv ==
    ASSUME KeyInv,
           ticket'.valid = ticket.valid, ticket'.root = ticket.root,
           ticket'.replay = ticket.replay, ~ticket.valid => ticket' = ticket,
           session'.state = session.state, session'.keys = session.keys,
           UNCHANGED <<pc, tx, issued, derived, sealed>>
    PROVE  KeyInv'
<1>1. Pending(session') <=> Pending(session)
  BY DEF Pending
<1>2. TicketShape'
  BY DEF KeyInv, TicketShape
<1>3. CommitOwned' /\ PendingHasTicket' /\ SessionDerived' /\ PendingUnsealed' /\ SealedBelow'
  BY <1>1 DEF KeyInv, CommitOwned, PendingHasTicket, SessionDerived, PendingUnsealed, SealedBelow
<1>4. DerivedKnown' /\ SealedKnown' /\ DerivedCached'
  BY DEF KeyInv, DerivedKnown, SealedKnown, DerivedCached, Cached
<1> QED BY <1>2, <1>3, <1>4 DEF KeyInv

(* A genuine INIT names a session id and a nonce that no key derived from  *)
(* the ticket's root has: each such key is in the replay cache.            *)
LEMMA GenuineIsFresh ==
    ASSUME KeyInv, NEW m \in InitFrames, NEW fault, Genuine(m, fault),
           NEW k \in derived, k.root = ticket.root
    PROVE  k.sid # m.sid /\ k.nc # m.nc
<1>1. ticket.valid /\ Unseen(ticket, m)
  BY DEF Genuine, Eligible
<1>2. m.sid \in Sids /\ m.nc \in Nonces
  BY DEF InitFrames
<1>3. CASE k.sid = 0
  BY <1>2, <1>3, ZeroAssumption DEF KeyInv, DerivedKnown
<1>4. CASE k.sid # 0
  <2>1. PICK i \in DOMAIN ticket.replay :
            ticket.replay[i].sid = k.sid /\ ticket.replay[i].nc = k.nc
    BY <1>1, <1>4 DEF KeyInv, DerivedCached, Cached
  <2> QED BY <1>1, <2>1 DEF Unseen
<1> QED BY <1>3, <1>4

(* pq_resume_accept takes a replay entry for the keys it derives, also when *)
(* the derivation or the notification fails afterwards.                     *)
LEMMA KeyInvInitTaken ==
    ASSUME TypeOK, KeyInv, NEW m \in InitFrames, NEW np \in PNonces,
           NEW fault \in {"none", "derive"}, NEW sent \in BOOLEAN,
           InitTaken(m, np, fault, sent)
    PROVE  KeyInv'
<1> DEFINE key == ResumeKeys(m, np)
           entry == [nc |-> m.nc, sid |-> m.sid]
<1>1. Genuine(m, fault) /\ ticket.valid /\ session.state = "IDLE" /\ pc = "free"
  BY DEF InitTaken, Genuine, Eligible, Consults, Unlocked
<1>2. ticket.replay \in Seq(ReplayEntry) /\ entry \in ReplayEntry
  BY DEF TypeOK, TicketSet, InitFrames, ReplayEntry
<1>3. /\ ticket'.valid = ticket.valid /\ ticket'.root = ticket.root
      /\ ticket'.replay = Append(ticket.replay, entry)
  BY DEF InitTaken, TypeOK, TicketSet
<1>4. derived' = derived \cup {key} /\ UNCHANGED <<pc, issued, sealed>>
  BY DEF InitTaken
<1>5. key.root = ticket.root /\ key.sid = m.sid /\ key.nc = m.nc
  BY DEF ResumeKeys
<1>6. m.sid # 0
  BY ZeroAssumption DEF InitFrames
<1>7. ticket.root \in 1 .. issued
  BY <1>1 DEF KeyInv, TicketShape
<1>8. key \notin derived
  BY <1>1, <1>5, GenuineIsFresh
<1> HIDE DEF key, entry
<1>9. TicketShape'
  BY <1>1, <1>3, <1>4, <1>7 DEF TicketShape
<1>10. DerivedKnown'
  BY <1>4, <1>5, <1>6, <1>7 DEF KeyInv, DerivedKnown
<1>11. DerivedCached'
  <2> SUFFICES ASSUME NEW k \in derived', k.root = ticket'.root, k.sid # 0
               PROVE  Cached(k)'
    BY DEF DerivedCached
  <2>1. CASE k \in derived
    <3>1. PICK i \in DOMAIN ticket.replay :
              ticket.replay[i].sid = k.sid /\ ticket.replay[i].nc = k.nc
      BY <1>1, <1>3, <2>1 DEF KeyInv, DerivedCached, Cached
    <3>2. i \in DOMAIN ticket'.replay /\ ticket'.replay[i] = ticket.replay[i]
      BY <1>2, <1>3, <3>1
    <3> QED BY <3>1, <3>2 DEF Cached
  <2>2. CASE k = key
    <3>1. Len(ticket.replay) + 1 \in DOMAIN ticket'.replay
      BY <1>2, <1>3
    <3>2. ticket'.replay[Len(ticket.replay) + 1] = entry
      BY <1>2, <1>3
    <3>3. entry.sid = k.sid /\ entry.nc = k.nc
      BY <1>5, <2>2 DEF entry
    <3> QED BY <3>1, <3>2, <3>3 DEF Cached
  <2> QED BY <1>4, <2>1, <2>2
<1>12. SealedKnown'
  BY <1>4 DEF KeyInv, SealedKnown
<1>13. /\ CommitOwned' /\ PendingHasTicket' /\ SessionDerived'
       /\ PendingUnsealed' /\ SealedBelow'
  <2>1. CASE fault = "none" /\ sent
    <3>1. session' = [state |-> "WAIT_C", left |-> PENDING, keys |-> key]
      BY <2>1 DEF InitTaken, key
    <3>2. session'.state = "WAIT_C" /\ session'.keys = key
      BY <3>1
    <3>3. \A e \in sealed' : e[1] # key
      BY <1>4, <1>8 DEF KeyInv, SealedKnown
    <3> QED BY <1>1, <1>3, <1>4, <1>5, <3>2, <3>3
            DEF CommitOwned, PendingHasTicket, SessionDerived, PendingUnsealed,
                SealedBelow, Pending
  <2>2. CASE ~(fault = "none" /\ sent)
    <3>1. session'.state = "IDLE"
      BY <2>2 DEF InitTaken, ClearSession, NoSession
    <3> QED BY <1>1, <1>4, <3>1
            DEF CommitOwned, PendingHasTicket, SessionDerived, PendingUnsealed,
                SealedBelow, Pending
  <2> QED BY <2>1, <2>2
<1> QED BY <1>9, <1>10, <1>11, <1>12, <1>13 DEF KeyInv

(* pq_resume_commit opens the session with keys that sealed nothing. *)
LEMMA KeyInvCommit == ASSUME TypeOK, KeyInv, Commit PROVE KeyInv'
<1>1. session.state = "PENDING_P" /\ pc' = "free" /\ UNCHANGED <<issued, derived, sealed>>
  BY DEF Commit, historyVars, KeyInv, CommitOwned
<1>2. CASE CommitAllowed
  <2>1. session'.state = "SECURE" /\ session'.keys = session.keys /\ ticket' = Counted(ticket)
    BY <1>2 DEF Commit, TypeOK, SessionSet
  <2>2. Pending(session)
    BY <1>1 DEF Pending
  <2>3. SessionDerived'
    BY <1>1, <2>1, <2>2 DEF KeyInv, SessionDerived
  <2>4. SealedBelow'
    BY <1>1, <2>1, <2>2 DEF KeyInv, PendingUnsealed, SealedBelow
  <2>5. CommitOwned' /\ PendingHasTicket' /\ PendingUnsealed'
    BY <1>1, <2>1 DEF CommitOwned, PendingHasTicket, PendingUnsealed, Pending
  <2>6. DerivedKnown' /\ SealedKnown'
    BY <1>1 DEF KeyInv, DerivedKnown, SealedKnown
  <2>7. TicketShape' /\ DerivedCached'
    <3>1. CASE ticket' = NoTicket
      BY <3>1 DEF NoTicket, TicketShape, DerivedCached
    <3>2. CASE ticket' # NoTicket
      <4>1. ticket' = [ticket EXCEPT !.successes = @ + 1]
        BY <2>1, <3>2 DEF Counted
      <4>2. /\ ticket'.valid = ticket.valid /\ ticket'.root = ticket.root
            /\ ticket'.replay = ticket.replay
        BY <4>1 DEF TypeOK, TicketSet
      <4>3. ticket.valid
        BY <2>2 DEF KeyInv, PendingHasTicket
      <4> QED BY <1>1, <4>2, <4>3 DEF KeyInv, TicketShape, DerivedCached, Cached
    <3> QED BY <3>1, <3>2
  <2> QED BY <2>3, <2>4, <2>5, <2>6, <2>7 DEF KeyInv
<1>3. CASE ~CommitAllowed
  <2>1. ticket' \in {ticket, NoTicket} /\ session' = NoSession
    BY <1>3, PrunedChoice DEF Commit, ClearSession
  <2> QED BY <1>1, <2>1, ClearKeepsKeyInv
<1> QED BY <1>2, <1>3

(* A PONG moves tx past the number it sealed, or ends the session. *)
LEMMA KeyInvApp ==
    ASSUME TypeOK, KeyInv, NEW seq, NEW sent \in BOOLEAN, AppAnswered(session.keys, seq, sent)
    PROVE  KeyInv'
<1>1. /\ V11 /\ session.state = "SECURE" /\ pc = "free"
      /\ sealed' = sealed \cup {<<session.keys, tx>>}
      /\ UNCHANGED <<ticket, pc, issued, derived>>
  BY DEF AppAnswered, AppGenuine, Unlocked
<1>2. session.keys \in derived
  BY <1>1 DEF KeyInv, SessionDerived
<1>3. SealedKnown'
  BY <1>1, <1>2 DEF KeyInv, SealedKnown
<1>4. TicketShape' /\ DerivedKnown' /\ DerivedCached'
  BY <1>1 DEF KeyInv, TicketShape, DerivedKnown, DerivedCached, Cached
<1>5. /\ CommitOwned' /\ PendingHasTicket' /\ SessionDerived'
      /\ PendingUnsealed' /\ SealedBelow'
  <2>1. CASE sent
    <3>1. UNCHANGED session /\ tx' = tx + 1
      BY <2>1 DEF AppAnswered
    <3>2. ~Pending(session')
      BY <1>1, <3>1 DEF Pending
    <3>3. SealedBelow'
      <4> SUFFICES ASSUME NEW e \in sealed', e[1] = session'.keys PROVE e[2] < tx'
        BY DEF SealedBelow
      <4>1. tx \in Nat /\ sealed \subseteq (KeySet \X (0 .. SEQ_MAX))
        BY LimitAssumption DEF TypeOK
      <4>2. CASE e \in sealed
        <5>1. e[2] < tx
          BY <1>1, <3>1, <4>2 DEF KeyInv, SealedBelow
        <5>2. e[2] \in Nat
          BY <4>1, <4>2, LimitAssumption
        <5> QED BY <3>1, <4>1, <5>1, <5>2
      <4>3. CASE e = <<session.keys, tx>>
        BY <3>1, <4>1, <4>3
      <4> QED BY <1>1, <4>2, <4>3
    <3> QED BY <1>1, <1>2, <3>1, <3>2, <3>3
            DEF CommitOwned, PendingHasTicket, SessionDerived, PendingUnsealed
  <2>2. CASE ~sent
    <3>1. session'.state = "IDLE"
      BY <2>2 DEF AppAnswered, ClearSession, NoSession
    <3> QED BY <1>1, <3>1
            DEF CommitOwned, PendingHasTicket, SessionDerived, PendingUnsealed,
                SealedBelow, Pending
  <2> QED BY <2>1, <2>2
<1> QED BY <1>3, <1>4, <1>5 DEF KeyInv

(* A full handshake brings a new root, under which nothing was derived. *)
LEMMA KeyInvFull == ASSUME TypeOK, KeyInv, FullIssued PROVE KeyInv'
<1> DEFINE r == issued + 1
<1>1. /\ issued' = r /\ ticket' = FullTicket(r) /\ session' = FullSession(r)
      /\ derived' = derived \cup {FullKeys(r)} /\ pc = "free" /\ UNCHANGED <<pc, sealed>>
  BY DEF FullIssued, Unlocked
<1>2. issued \in Nat /\ r \in 1 .. r
  BY LimitAssumption DEF TypeOK
<1>3. \A k \in derived : k.root \in 1 .. issued
  BY DEF KeyInv, DerivedKnown
<1>4. /\ ticket'.valid /\ ticket'.root = r /\ session'.state = "SECURE"
      /\ FullKeys(r).root = r /\ FullKeys(r).sid = 0 /\ FullKeys(r).nc = 0
      /\ (V11 => session'.keys = FullKeys(r))
  BY <1>1 DEF FullTicket, FullSession, FullKeys
<1>5. r \notin 1 .. issued
  BY <1>2
<1>6. \A k \in derived : k.root \in 1 .. r
  BY <1>2, <1>3
<1> HIDE DEF r
<1>7. TicketShape'
  BY <1>1, <1>2, <1>4 DEF TicketShape
<1>8. DerivedKnown'
  BY <1>1, <1>2, <1>4, <1>6 DEF KeyInv, DerivedKnown
<1>9. DerivedCached'
  BY <1>1, <1>3, <1>4, <1>5 DEF DerivedCached
<1>10. CommitOwned' /\ PendingHasTicket' /\ PendingUnsealed'
  BY <1>1, <1>4 DEF CommitOwned, PendingHasTicket, PendingUnsealed, Pending
<1>11. SessionDerived' /\ SealedKnown'
  BY <1>1, <1>4 DEF KeyInv, SessionDerived, SealedKnown, Pending
<1>12. SealedBelow'
  BY <1>1, <1>3, <1>4, <1>5 DEF KeyInv, SealedKnown, SealedBelow
<1> QED BY <1>7, <1>8, <1>9, <1>10, <1>11, <1>12 DEF KeyInv

(* Every step preserves the key invariant. *)
LEMMA KeyStep == TypeOK /\ KeyInv /\ [Next]_vars => KeyInv'
<1> SUFFICES ASSUME TypeOK, KeyInv, [Next]_vars PROVE KeyInv'
  OBVIOUS
<1> USE DEF historyVars, linkVars
<1>1. ASSUME NEW m \in InitFrames, NEW np \in PNonces, NEW fault \in {"none", "derive"},
             NEW sent \in BOOLEAN, InitTaken(m, np, fault, sent)
      PROVE  KeyInv'
  BY <1>1, KeyInvInitTaken
<1>2. ASSUME NEW m \in InitFrames, NEW fault \in {"none", "rng", "mac"}, InitRejected(m, fault)
      PROVE  KeyInv'
  BY <1>2, ClearKeepsKeyInv, PrunedChoice DEF InitRejected, ClearSession, Unlocked
<1>3. ASSUME NEW key, FinishAnswered(key) PROVE KeyInv'
  <2>1. /\ session.state = "WAIT_C" /\ session'.state = "PENDING_P"
        /\ session'.keys = session.keys /\ pc' = "commit"
        /\ UNCHANGED <<ticket, tx, issued, derived, sealed>>
    BY <1>3 DEF FinishAnswered, FinishGenuine, TypeOK, SessionSet
  <2>2. Pending(session) /\ Pending(session')
    BY <2>1 DEF Pending
  <2>3. CommitOwned' /\ PendingHasTicket' /\ SessionDerived' /\ PendingUnsealed' /\ SealedBelow'
    BY <2>1, <2>2 DEF KeyInv, CommitOwned, PendingHasTicket, SessionDerived, PendingUnsealed,
                      SealedBelow
  <2>4. TicketShape' /\ DerivedKnown' /\ DerivedCached' /\ SealedKnown'
    BY <2>1 DEF KeyInv, TicketShape, DerivedKnown, DerivedCached, Cached, SealedKnown
  <2> QED BY <2>3, <2>4 DEF KeyInv
<1>4. ASSUME NEW key, NEW fault \in BOOLEAN, NEW sent \in BOOLEAN,
             FinishRejected(key, fault, sent)
      PROVE  KeyInv'
  BY <1>4, ClearKeepsKeyInv, PrunedChoice DEF FinishRejected, ClearSession, Unlocked
<1>5. ASSUME NEW seq \in 0 .. SEQ_MAX, NEW sent \in BOOLEAN,
             AppAnswered(session.keys, seq, sent)
      PROVE  KeyInv'
  BY <1>5, KeyInvApp
<1>6. ASSUME ControlDenied PROVE KeyInv'
  BY <1>6, ClearKeepsKeyInv DEF ControlDenied, ClearSession, Unlocked
<1>7. ASSUME Commit PROVE KeyInv'
  BY <1>7, KeyInvCommit
<1>8. ASSUME FullIssued PROVE KeyInv'
  BY <1>8, KeyInvFull
<1>9. ASSUME NEW fault \in BOOLEAN, FullRefused(fault) PROVE KeyInv'
  BY <1>9, ClearKeepsKeyInv DEF FullRefused, ClearSession, Unlocked
<1>10. ASSUME TakeHybrid PROVE KeyInv'
  <2>1. /\ ~V11 /\ session.state = "SECURE" /\ session'.state = "SECURE"
        /\ pc = "free" /\ UNCHANGED <<ticket, pc, issued, derived, sealed>>
    BY <1>10 DEF TakeHybrid, TypeOK, SessionSet, Unlocked
  <2>2. CommitOwned' /\ PendingHasTicket' /\ SessionDerived' /\ PendingUnsealed' /\ SealedBelow'
    BY <2>1 DEF CommitOwned, PendingHasTicket, SessionDerived, PendingUnsealed, SealedBelow, Pending
  <2>3. TicketShape' /\ DerivedKnown' /\ DerivedCached' /\ SealedKnown'
    BY <2>1 DEF KeyInv, TicketShape, DerivedKnown, DerivedCached, Cached, SealedKnown
  <2> QED BY <2>2, <2>3 DEF KeyInv
<1>11. ASSUME NEW p \in Peers, Connected(p) PROVE KeyInv'
  BY <1>11, ClearKeepsKeyInv, PrunedChoice DEF Connected, ClearSession, Unlocked
<1>12. ASSUME Disconnected PROVE KeyInv'
  BY <1>12, ClearKeepsKeyInv DEF Disconnected, ClearSession, Unlocked
<1>13. ASSUME Abort PROVE KeyInv'
  BY <1>13, ClearKeepsKeyInv DEF Abort, ClearSession, Unlocked
<1>14. ASSUME BondChanged PROVE KeyInv'
  BY <1>14, ClearKeepsKeyInv DEF BondChanged, ClearSession, Unlocked
<1>15. ASSUME Expire PROVE KeyInv'
  <2>1. /\ ticket' = Pruned(ticket) /\ ticket' \in {ticket, NoTicket} /\ pc = "free"
        /\ UNCHANGED <<pc, issued, derived, sealed>>
    BY <1>15, PrunedChoice DEF Expire, Unlocked
  <2>2. CASE session' = NoSession
    BY <2>1, <2>2, ClearKeepsKeyInv
  <2>3. CASE session' # NoSession
    <3>1. UNCHANGED <<session, tx>> /\ (Pending(session) => ticket'.valid)
      BY <1>15, <2>3 DEF Expire, ClearSession, KeepSession
    <3>2. CASE ticket' = ticket
      BY <2>1, <3>1, <3>2, QuietKeepsKeyInv
    <3>3. CASE ticket' = NoTicket
      <4>1. ~Pending(session') /\ ~ticket'.valid
        BY <3>1, <3>3 DEF NoTicket
      <4>2. /\ CommitOwned' /\ PendingHasTicket' /\ SessionDerived'
            /\ PendingUnsealed' /\ SealedBelow'
        BY <2>1, <3>1, <4>1 DEF KeyInv, CommitOwned, PendingHasTicket, SessionDerived,
                                PendingUnsealed, SealedBelow
      <4>3. TicketShape' /\ DerivedKnown' /\ DerivedCached' /\ SealedKnown'
        BY <2>1, <3>3, <4>1 DEF KeyInv, TicketShape, DerivedKnown, DerivedCached, SealedKnown,
                                NoTicket
      <4> QED BY <4>2, <4>3 DEF KeyInv
    <3> QED BY <2>1, <3>2, <3>3
  <2> QED BY <2>2, <2>3
<1>16. ASSUME Tick PROVE KeyInv'
  <2>1. /\ ticket'.valid = ticket.valid /\ ticket'.root = ticket.root
        /\ ticket'.replay = ticket.replay
    BY <1>16 DEF Tick, TypeOK, TicketSet
  <2>2. ~ticket.valid => ticket' = ticket
    BY <1>16 DEF Tick, TypeOK, TicketSet
  <2>3. session'.state = session.state /\ session'.keys = session.keys
    BY <1>16 DEF Tick, TypeOK, SessionSet
  <2> QED BY <1>16, <2>1, <2>2, <2>3, QuietKeepsKeyInv DEF Tick
<1>17. ASSUME SecurityChanged PROVE KeyInv'
  BY <1>17, QuietKeepsKeyInv DEF SecurityChanged
<1>18. ASSUME BondStored PROVE KeyInv'
  BY <1>18, QuietKeepsKeyInv DEF BondStored
<1>19. ASSUME NEW p \in Peers, BondErased(p) PROVE KeyInv'
  BY <1>19, QuietKeepsKeyInv DEF BondErased
<1>20. ASSUME Reboot PROVE KeyInv'
  BY <1>20, ClearKeepsKeyInv DEF Reboot
<1>21. CASE UNCHANGED vars
  BY <1>21, QuietKeepsKeyInv DEF vars, coreVars
<1> QED BY <1>1, <1>2, <1>3, <1>4, <1>5, <1>6, <1>7, <1>8, <1>9, <1>10, <1>11, <1>12,
           <1>13, <1>14, <1>15, <1>16, <1>17, <1>18, <1>19, <1>20, <1>21
        DEF Next, Control, Calls, Environment

(* At boot nothing was derived or sealed. *)
LEMMA KeyInit == Init => KeyInv
  BY DEF Init, KeyInv, NoTicket, NoSession, TicketShape, CommitOwned, PendingHasTicket,
         DerivedKnown, DerivedCached, SessionDerived, SealedKnown, PendingUnsealed,
         SealedBelow, Pending

(* The key invariant holds in every state of every build and every size. *)
THEOREM KeyInvariant == Spec => []KeyInv
<1>1. TypeOK /\ KeyInv /\ [Next]_vars => KeyInv'
  BY KeyStep
<1> QED BY <1>1, KeyInit, TypeCorrect, PTL DEF Spec

(* A pending session was keyed from the ticket that is valid now, so a     *)
(* commit counts its use on the right ticket.                              *)
THEOREM PendingTicketSafe == Spec => []PendingHasTicket
<1>1. KeyInv => PendingHasTicket
  BY DEF KeyInv
<1> QED BY <1>1, KeyInvariant, PTL

(* No AES-GCM nonce is used twice under one key.                           *)
THEOREM NonceSafe == Spec => []NextNonceUnused
<1>1. TypeOK /\ KeyInv => NextNonceUnused
  <2> SUFFICES ASSUME TypeOK, KeyInv, V11, session.state = "SECURE",
                      <<session.keys, tx>> \in sealed
               PROVE  FALSE
    BY DEF NextNonceUnused
  <2>1. tx < tx
    BY DEF KeyInv, SealedBelow
  <2>2. tx \in Nat
    BY LimitAssumption DEF TypeOK
  <2> QED BY <2>1, <2>2
<1> QED BY <1>1, TypeCorrect, KeyInvariant, PTL

(* Only pq_resume_accept enters WAIT_C. *)
LEMMA OnlyInitWaits ==
    ASSUME TypeOK, Next, session.state # "WAIT_C", session'.state = "WAIT_C"
    PROVE  \E m \in InitFrames, np \in PNonces, fault \in {"none", "derive"}, sent \in BOOLEAN :
               InitTaken(m, np, fault, sent)
<1>1. session' # NoSession /\ session' # session
  BY DEF NoSession
<1>2. ~ClearSession
  BY <1>1 DEF ClearSession
<1>3. ASSUME NEW m, NEW fault, InitRejected(m, fault) PROVE FALSE
  BY <1>2, <1>3 DEF InitRejected
<1>4. ASSUME NEW key, FinishAnswered(key) PROVE FALSE
  BY <1>4 DEF FinishAnswered, TypeOK, SessionSet
<1>5. ASSUME NEW key, NEW fault, NEW sent, FinishRejected(key, fault, sent) PROVE FALSE
  BY <1>2, <1>5 DEF FinishRejected
<1>6. ASSUME NEW seq, NEW sent, AppAnswered(session.keys, seq, sent) PROVE FALSE
  BY <1>1, <1>2, <1>6 DEF AppAnswered
<1>7. ASSUME Commit PROVE FALSE
  BY <1>2, <1>7 DEF Commit, TypeOK, SessionSet
<1>8. ASSUME FullIssued PROVE FALSE
  BY <1>8 DEF FullIssued, FullSession
<1>9. ASSUME TakeHybrid PROVE FALSE
  BY <1>9 DEF TakeHybrid, TypeOK, SessionSet
<1>10. ASSUME Tick PROVE FALSE
  BY <1>10 DEF Tick, TypeOK, SessionSet
<1>11. ~ControlDenied /\ (\A fault \in BOOLEAN : ~FullRefused(fault)) /\ ~Abort /\ ~BondChanged
  BY <1>2 DEF ControlDenied, FullRefused, Abort, BondChanged
<1>12. ~Disconnected /\ (\A p \in Peers : ~Connected(p)) /\ ~Expire
  BY <1>1, <1>2 DEF Disconnected, Connected, Expire, KeepSession
<1>13. ~SecurityChanged /\ ~BondStored /\ (\A p \in Peers : ~BondErased(p)) /\ ~Reboot
  BY <1>1 DEF SecurityChanged, BondStored, BondErased, Reboot
<1>14. Control
  BY <1>7, <1>8, <1>9, <1>10, <1>11, <1>12, <1>13 DEF Next, Calls, Environment
<1> QED BY <1>3, <1>4, <1>5, <1>6, <1>11, <1>14 DEF Control

(* pq_resume_accept never derives from one root twice with the same        *)
(* session id or nonce.                                                    *)
THEOREM KeyFreshness == Spec => KeysNeverRederived
<1>1. TypeOK /\ KeyInv /\ [Next]_vars => [FreshlyKeyed]_vars
  <2> SUFFICES ASSUME TypeOK, KeyInv, Next, session.state # "WAIT_C",
                      session'.state = "WAIT_C"
               PROVE  FreshlyKeyed
    BY DEF FreshlyKeyed
  <2>1. PICK m \in InitFrames, np \in PNonces, fault \in {"none", "derive"}, sent \in BOOLEAN :
            InitTaken(m, np, fault, sent)
    BY OnlyInitWaits
  <2>2. Genuine(m, fault)
    BY <2>1 DEF InitTaken
  <2>3. session'.keys = ResumeKeys(m, np)
    BY <2>1 DEF InitTaken, ClearSession, NoSession
  <2>4. /\ session'.keys.root = ticket.root /\ session'.keys.sid = m.sid
        /\ session'.keys.nc = m.nc
    BY <2>3 DEF ResumeKeys
  <2> QED BY <2>2, <2>4, GenuineIsFresh DEF FreshlyKeyed
<1> QED BY <1>1, TypeCorrect, KeyInvariant, PTL DEF Spec, KeysNeverRederived

=============================================================================
