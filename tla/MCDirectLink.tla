------------------------------ MODULE MCDirectLink ------------------------------
(***************************************************************************)
(* PrivateMessaging over one direct link, with a history variable for the   *)
(* liveness that holds until the peers get in each other's way.             *)
(***************************************************************************)
EXTENDS PrivateMessaging

VARIABLE disturbed  \* retried, left, synced, or wrote during a handshake?

InHandshake(n, p) ==
    \E pr \in {<<n, p>>, <<p, n>>} :
        \/ session[pr[1]][pr[2]].state = "Handshaking"
        \/ net[pr[1]][pr[2]] # EmptyMedium /\ ~IsEstablished(session[pr[1]][pr[2]])

Disturbs ==
    \/ \E n \in Node : troubles'[n] # troubles[n]
    \/ \E pr \in Pair :
          /\ \E dm \in asked'[pr[1]] \ asked[pr[1]] : dm.to = pr[2]
          /\ InHandshake(pr[1], pr[2])

allVars == <<vars, disturbed>>
DirectSpec ==
    /\ Init /\ disturbed = FALSE
    /\ [][Next /\ disturbed' = (disturbed \/ Disturbs)]_allVars
    /\ \A pr \in Pair : WF_allVars(Receive(pr[1], pr[2]) /\ disturbed' = (disturbed \/ Disturbs))

(* Every message that was asked for is eventually shown to its recipient,   *)
(* however the two peers take turns, unless one of them retries, leaves a   *)
(* channel, is asked to sync, or writes while a handshake between them is   *)
(* in progress.  (What was asked for and what was shown only grow, so again *)
(* and again all of it is the same as: each message at last.)               *)
CalmIsShown ==
    []<>(disturbed \/ \A dm \in Dms : dm \in asked[dm.from] => dm \in Shown(dm.to))

(* ... and one whose id the sender's UI knows is marked delivered.          *)
CalmIsDelivered ==
    []<>(disturbed \/ \A n \in Node : tracked[n] \subseteq delivered[n])
=============================================================================
