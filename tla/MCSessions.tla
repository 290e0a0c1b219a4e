---------------------------- MODULE MCSessions -----------------------------
(* The requests of sessions ("requests"), their store over time, faults and*)
(* crashes ("store"), who uses which template instance ("tracker"), and    *)
(* what a session is given when it connects ("setup"): four models, a      *)
(* behaviour is one of one of them.                                        *)
EXTENDS InboundSessions, SessionStore, ClientTemplateTracker, SessionSetup, TLC

CONSTANTS p, q, t1, x1, x2

(* q's configuration names no preset. *)
OnePreset == {p}

MCContextOf == p :> x1 @@ q :> x2
MCWanted == [c \in {p, q} |-> {t1}]

VARIABLE side

mcVars == <<side, vars, storeVars, trackerVars, setupVars>>

MCInit ==
    /\ side \in {"requests", "store", "tracker", "setup"}
    /\ Init /\ StoreInit /\ TrackerInit /\ SetupInit

MCNext ==
    /\ UNCHANGED side
    /\ \/ side = "requests" /\ Next /\ UNCHANGED <<storeVars, trackerVars, setupVars>>
       \/ side = "store" /\ StoreNext /\ UNCHANGED <<vars, trackerVars, setupVars>>
       \/ side = "tracker" /\ TrackerNext /\ UNCHANGED <<vars, storeVars, setupVars>>
       \/ side = "setup" /\ SetupNext /\ UNCHANGED <<vars, storeVars, trackerVars>>

MCSpec == MCInit /\ [][MCNext]_mcVars
=============================================================================
