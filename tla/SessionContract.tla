--------------------------- MODULE SessionContract ---------------------------
(***************************************************************************)
(* What a wander session promises to the supervisor, the API and the       *)
(* progress stream while nobody stops or deletes it: it is opened once,    *)
(* its recorded steps only grow, it settles in one final status, and then  *)
(* its row never changes.                                                  *)
(***************************************************************************)
EXTENDS Naturals

CONSTANT Sessions
VARIABLES status, steps

cvars == <<status, steps>>

COpen     == {"pending", "running"}
CTerminal == {"completed", "stopped", "failed"}

CInit ==
    /\ status = [s \in Sessions |-> "none"]
    /\ steps = [s \in Sessions |-> 0]

COpenSession(s) ==
    /\ status[s] = "none"
    /\ status' = [status EXCEPT ![s] = "pending"]
    /\ steps' = steps

(* A run begins, resumes, or records one step.                             *)
CProgress(s) ==
    /\ status[s] \in COpen
    /\ status' = [status EXCEPT ![s] = "running"]
    /\ \E n \in {0, 1} : steps' = [steps EXCEPT ![s] = @ + n]

CSettle(s) ==
    /\ status[s] \in COpen
    /\ \E final \in CTerminal : status' = [status EXCEPT ![s] = final]
    /\ steps' = steps

CNext == \E s \in Sessions : COpenSession(s) \/ CProgress(s) \/ CSettle(s)

Spec == CInit /\ [][CNext]_cvars /\ \A s \in Sessions : WF_cvars(CSettle(s))
=============================================================================
