----------------------------- MODULE RunLifecycle -----------------------------
(***************************************************************************)
(* What a sim host promises of its runs, as the head of                     *)
(* agent/src/fm_sim_agent/agent.py draws it: one run at a time, each        *)
(* claimed once, ended through "stopping" whatever the cause, and never     *)
(* active again.  `status` shows a caller exactly run and state.            *)
(***************************************************************************)
CONSTANTS Runs, NoRun

VARIABLES run, state,
          past            \* the runs the host has let go of

vars == <<run, state, past>>

Init == run = NoRun /\ state = "idle" /\ past = {}

Claim(r) ==
    /\ state \in {"idle", "error"}
    /\ r \notin past
    /\ run' = r /\ state' = "starting"
    /\ UNCHANGED past

Ready == state = "starting" /\ state' = "running" /\ UNCHANGED <<run, past>>

Stop == /\ state \in {"starting", "running"}
        /\ state' = "stopping"
        /\ UNCHANGED <<run, past>>

LetGo == /\ state = "stopping"
         /\ run' = NoRun
         /\ state' \in {"idle", "error"}
         /\ past' = past \cup {run}

Next == (\E r \in Runs : Claim(r)) \/ Ready \/ Stop \/ LetGo

Spec == Init /\ [][Next]_vars

LiveSpec == Spec /\ WF_vars(Stop) /\ WF_vars(LetGo)
=============================================================================
