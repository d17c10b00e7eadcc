---------------------------- MODULE ResumePolicy ----------------------------
(***************************************************************************)
(* What resumption promises, without mutexes, timers, counters or frames:  *)
(* one ticket at most is live; it authorises fewer than MAX_USES + 1        *)
(* resumed sessions; a session is resumed only by confirming an offer that  *)
(* was made under the ticket that is still live; and each offer spends a    *)
(* session id and a nonce that its root never sees again.                  *)
(* docs/research/session-resumption-design.md states the same rules.        *)
(***************************************************************************)
EXTENDS Naturals

CONSTANTS Sids, Nonces, MAX_USES, MaxFull

VARIABLES
    count,      \* full handshakes so far; their roots are 1 .. count
    live,       \* the root of the live ticket, or 0
    uses,       \* resumed sessions counted on it
    phase,      \* "idle", "offered" or "secure"
    offer,      \* the offer that awaits confirmation
    spent       \* every offer ever made

vars == <<count, live, uses, phase, offer, spent>>

NoOffer == [root |-> 0, sid |-> 0, nc |-> 0]

Init == /\ count = 0 /\ live = 0 /\ uses = 0
        /\ phase = "idle" /\ offer = NoOffer /\ spent = {}

Issue ==
    /\ count < MaxFull
    /\ count' = count + 1 /\ live' = count + 1 /\ uses' = 0
    /\ phase' = "secure" /\ offer' = NoOffer
    /\ UNCHANGED spent

(* An offer is spent whether or not it gets as far as its confirmation. *)
Offer(s, n) ==
    /\ phase = "idle" /\ live # 0
    /\ \A o \in spent : o.root = live => o.sid # s /\ o.nc # n
    /\ spent' = spent \cup {[root |-> live, sid |-> s, nc |-> n]}
    /\ \/ /\ phase' = "offered"
          /\ offer' = [root |-> live, sid |-> s, nc |-> n]
       \/ UNCHANGED <<phase, offer>>
    /\ UNCHANGED <<count, live, uses>>

Confirm ==
    /\ phase = "offered" /\ offer.root = live
    /\ phase' = "secure" /\ offer' = NoOffer
    /\ IF uses + 1 < MAX_USES THEN uses' = uses + 1 /\ UNCHANGED live
                              ELSE uses' = 0 /\ live' = 0
    /\ UNCHANGED <<count, spent>>

Drop == phase' = "idle" /\ offer' = NoOffer /\ UNCHANGED <<count, live, uses, spent>>

(* The ticket ends; an offer made under it ends with it. *)
Revoke ==
    /\ live' = 0 /\ uses' = 0
    /\ \/ phase' = "idle" /\ offer' = NoOffer
       \/ phase # "offered" /\ UNCHANGED <<phase, offer>>
    /\ UNCHANGED <<count, spent>>

Next == Issue \/ Confirm \/ Drop \/ Revoke \/ \E s \in Sids, n \in Nonces : Offer(s, n)
Spec == Init /\ [][Next]_vars
=============================================================================
