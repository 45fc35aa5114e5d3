---------------------------- MODULE ProcessGroup ----------------------------
(***************************************************************************)
(* gz sim run as a bash job, and its shutdown by ros2 launch                *)
(* (fm_sim_backends/process_group.py).  Traps pass each signal to the job's *)
(* process group, and a watchdog, a job too, kills the group KillAfter      *)
(* later.                                                                  *)
(*                                                                         *)
(* bash's `wait` returns once a trapped signal has come and its trap has    *)
(* run.  The wrapper waits twice, so the second signal ends its waiting.    *)
(***************************************************************************)
EXTENDS Integers

CONSTANTS
    KillAfter,   \* KILL_AFTER_S
    TermAfter,   \* launch's SIGTERM, from its SIGINT
    KillWait,    \* launch's SIGKILL, from its SIGTERM
    MaxTime      \* bound: how long after launch's SIGINT the model looks

VARIABLES
    heeds,       \* constant: the signals the engine ends on
    now,         \* since launch's SIGINT
    sent,        \* what launch has sent the wrapper
    inbox,       \* ... and bash has not run the trap for
    wrapper,     \* "waiting", "waiting again", "leaving" or "gone"
    watch,       \* the watchdog: Unset, when it was started, or Done
    job,         \* the engine is up
    told         \* the signals that reached it

Unset == -1
Done == -2
vars == <<heeds, now, sent, inbox, wrapper, watch, job, told>>

Signals == {"INT", "TERM"}
Waiting == {"waiting", "waiting again"}

TypeOK ==
    /\ heeds \subseteq Signals
    /\ now \in 0..MaxTime
    /\ sent \subseteq Signals \cup {"KILL"} /\ inbox \subseteq Signals
    /\ wrapper \in Waiting \cup {"leaving", "gone"}
    /\ watch \in 0..MaxTime \cup {Unset, Done}
    /\ job \in BOOLEAN /\ told \subseteq Signals

Init ==
    /\ heeds \in SUBSET Signals
    /\ now = 0 /\ sent = {"INT"} /\ inbox = {"INT"}
    /\ wrapper = "waiting" /\ watch = Unset /\ job = TRUE /\ told = {}

-----------------------------------------------------------------------------
(* launch: SIGINT, then SIGTERM and SIGKILL to a wrapper still there. *)

(* bash runs its traps and leaves at once, against seconds. *)
Tick ==
    /\ inbox = {} /\ wrapper # "leaving"
    /\ now < MaxTime /\ now' = now + 1
    /\ UNCHANGED <<heeds, sent, inbox, wrapper, watch, job, told>>

SendTerm ==
    /\ wrapper # "gone" /\ "TERM" \notin sent /\ now >= TermAfter
    /\ sent' = sent \cup {"TERM"} /\ inbox' = inbox \cup {"TERM"}
    /\ UNCHANGED <<heeds, now, wrapper, watch, job, told>>

(* SIGKILL reaches the wrapper alone.  It also comes from elsewhere, as in
   test_a_child_that_hangs_on_shutdown_is_killed, before any SIGTERM. *)
SendKill ==
    /\ wrapper # "gone"
    /\ "TERM" \in sent => now >= TermAfter + KillWait
    /\ sent' = sent \cup {"KILL"} /\ wrapper' = "gone" /\ inbox' = {}
    /\ UNCHANGED <<heeds, now, watch, job, told>>

-----------------------------------------------------------------------------
(* The wrapper.  "Mutant" marks the operator after it with a bug a change to
   the code could make. *)

(* Mutant: a single `wait`, which the first signal ends. *)
AfterTrapOnce == "leaving"
AfterTrap     == IF wrapper = "waiting" THEN "waiting again" ELSE "leaving"

(* `stop`: the group gets the signal; the first starts the watchdog. *)
Trap(s) ==
    /\ wrapper \in Waiting /\ s \in inbox
    /\ inbox' = inbox \ {s} /\ wrapper' = AfterTrap
    /\ told' = told \cup {s}
    /\ watch' = IF watch = Unset THEN now ELSE watch
    /\ UNCHANGED <<heeds, now, sent, job>>

Reap ==
    /\ wrapper \in Waiting /\ ~job /\ wrapper' = "leaving"
    /\ UNCHANGED <<heeds, now, sent, inbox, watch, job, told>>

(* The wrapper stops its watchdog and exits. *)
Leave ==
    /\ wrapper = "leaving" /\ wrapper' = "gone" /\ inbox' = {}
    /\ watch' = IF watch = Unset THEN Unset ELSE Done
    /\ UNCHANGED <<heeds, now, sent, job, told>>

(* Mutant: the watchdog is not a job of its own and dies with the wrapper. *)
WatchesWithWrapper == watch \in 0..MaxTime /\ wrapper # "gone"
Watches            == watch \in 0..MaxTime

Bark ==
    /\ Watches /\ now >= watch + KillAfter
    /\ watch' = Done /\ job' = FALSE
    /\ UNCHANGED <<heeds, now, sent, inbox, wrapper, told>>

EngineEnds ==
    /\ job /\ told \cap heeds # {} /\ job' = FALSE
    /\ UNCHANGED <<heeds, now, sent, inbox, wrapper, watch, told>>

Next ==
    \/ Tick \/ SendTerm \/ SendKill
    \/ \E s \in Signals : Trap(s)
    \/ Reap \/ Leave
    \/ Bark \/ EngineEnds

Spec == Init /\ [][Next]_vars

-----------------------------------------------------------------------------
(* Properties. *)

(* The engine is down, the wrapper is up, or the watchdog will kill it. *)
Guarded == job /\ wrapper = "gone" => Watches

(* An engine told of the shutdown is guarded as long as launch has not come
   to its SIGTERM, also when the wrapper is killed. *)
GuardedAgainstKill == told # {} /\ "TERM" \notin sent => Guarded

(* "If the group is still alive 5 s after the signal, a watchdog sends it
   SIGKILL: gz-sim can hang on its way out" (fm_sim_backends/README.md:117):
   an engine told of the shutdown is guarded.  launch's SIGTERM comes as the
   watchdog is due; where it comes first, it ends the wrapper's second wait,
   and the wrapper stops the watchdog. *)
NoneOutlives == told # {} => Guarded
=============================================================================
