-------------------------- MODULE CampaignContract --------------------------
(***************************************************************************)
(* What the campaign row promises: cycles follow one another, each counted *)
(* once when it starts and once when it ends; a cycle starts only while    *)
(* the campaign is active; nothing but a caller changes the status.        *)
(***************************************************************************)
EXTENDS Naturals

CONSTANT Cycles
VARIABLES status, cur, started, completed

cvars == <<status, cur, started, completed>>

CInit ==
    /\ status = "active"
    /\ cur = 0
    /\ started = 0
    /\ completed = 0

CStart(i) ==
    /\ status = "active"
    /\ cur = 0
    /\ cur' = i
    /\ started' = started + 1
    /\ UNCHANGED <<status, completed>>

CEnd ==
    /\ cur # 0
    /\ cur' = 0
    /\ completed' = completed + 1
    /\ UNCHANGED <<status, started>>

CControl ==
    /\ \E s \in {"active", "paused"} : status' = s
    /\ UNCHANGED <<cur, started, completed>>

CNext == CControl \/ CEnd \/ \E i \in Cycles : CStart(i)

Spec == CInit /\ [][CNext]_cvars
=============================================================================
