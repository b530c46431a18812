--------------------------- MODULE MCPrivateMessaging ---------------------------
(***************************************************************************)
(* Instances of PrivateMessaging for model checking, and what its users    *)
(* are told.                                                               *)
(***************************************************************************)
EXTENDS PrivateMessaging

(* The main loop drains its notification queues on every iteration, so a    *)
(* packet that arrived over a direct link is handled.                       *)
FairSpec == Spec /\ \A pr \in Pair : WF_vars(Receive(pr[1], pr[2]))

(* Every message that was asked for is eventually shown to its recipient    *)
(* ("message queued and will send when secure channel is ready",            *)
(* command_handling.rs).                                                    *)
EventuallyShown ==
    \A dm \in Dms : (dm \in asked[dm.from]) ~> (dm \in Shown(dm.to))
=============================================================================
