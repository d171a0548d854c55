--------------------------- MODULE ProcessLifecycle ---------------------------
(***************************************************************************)
(* The desktop process (apps/desktop, lifecycle.rs, main.rs,               *)
(* update_install.rs): commands are admitted under a counted permit, and   *)
(* two parties seal admission, drain it and tear the process down: the     *)
(* exit attempt, and the command that installs an update, which keeps its  *)
(* own permit meanwhile.  Composed with UpdateService.                     *)
(*                                                                         *)
(* A drain loops: subscribe to `changed`, look at the count under the      *)
(* lock, sleep.  A command is one admitted invocation; one that does no    *)
(* update work stands for all the others.  Application::shutdown, modelled *)
(* in HostSessions, is one step here that succeeds or fails.               *)
(***************************************************************************)
EXTENDS UpdateService

CONSTANT ActiveMax  \* u64::MAX, the largest count of permits

ASSUME LifecycleAssumption == ActiveMax \in Nat \ {0}

VARIABLES
    phase,    \* LifecycleState::phase
    active,   \* LifecycleState::active
    cmd,      \* each invocation: where it is, and the artifact it is to install
    waiter,   \* the two drains: where each is in its loop
    install,  \* install_verified_update once it has sealed: its call and stage
    exit,     \* ExitState, and the stage of the exit attempt
    cleaned,  \* cleanup steps that have succeeded
    exited    \* how the process ended

lvars == <<phase, active, cmd, waiter, install, exit, cleaned, exited>>
pvars == <<uvars, lvars>>

NoCommand == [st |-> "out", id |-> 0]
NoInstall == [call |-> {}, stage |-> "none"]

ProcessInit ==
    /\ UpdateInit
    /\ phase = "Running" /\ active = 0
    /\ cmd = [c \in Calls |-> NoCommand]
    /\ waiter = [w \in {"exit", "install"} |-> "none"]
    /\ install = NoInstall
    /\ exit = [running |-> FALSE, complete |-> FALSE, stage |-> "none"]
    /\ cleaned = {} /\ exited = "no"

\* Invocations that hold a CommandPermit.
Holders == {c \in Calls : cmd[c].st # "out"}

-----------------------------------------------------------------------------
(***************************************************************************)
(* CommandPermit                                                           *)
(***************************************************************************)
\* notify_waiters: whoever has subscribed, asleep or not yet.
Notified ==
    [w \in DOMAIN waiter |->
        CASE waiter[w] = "subscribed" -> "notified"
          [] waiter[w] = "parked" -> "looping"
          [] OTHER -> waiter[w]]

\* Fault variant of Admissible: an exclusive owner does not stop admission.
AdmissibleUnlessSealed == phase \in {"Running", "Exclusive"}

Admissible == phase = "Running"

\* A count that would overflow seals the process and admits nobody.
Admit(c) ==
    /\ cmd[c] = NoCommand
    /\ Admissible
    /\ IF active = ActiveMax
       THEN phase' = "Sealed" /\ waiter' = Notified /\ UNCHANGED <<active, cmd>>
       ELSE /\ active' = active + 1
            /\ cmd' = [cmd EXCEPT ![c].st = "in"]
            /\ UNCHANGED <<phase, waiter>>
    /\ UNCHANGED <<uvars, install, exit, cleaned, exited>>

\* Fault variant of Drop: the count is lowered without waking a drain.
DropSilently(c) ==
    /\ active' = active - 1
    /\ cmd' = [cmd EXCEPT ![c] = NoCommand]
    /\ UNCHANGED <<phase, waiter>>

\* Drop for CommandPermit; a count that would underflow seals the process.
Drop(c) ==
    /\ IF active = 0 THEN phase' = "Sealed" /\ active' = 0
                     ELSE phase' = phase /\ active' = active - 1
    /\ cmd' = [cmd EXCEPT ![c] = NoCommand]
    /\ waiter' = Notified

\* Fault variant of Leave: the permit is released before the last await.
LeaveEarly(c) ==
    /\ cmd[c].st \in {"in", "served", "failed"}
    /\ Drop(c)
    /\ install' = IF c \in install.call THEN NoInstall ELSE install
    /\ UNCHANGED <<uvars, exit, cleaned, exited>>

\* An invocation returns, whatever it was doing or was refused.
Leave(c) ==
    /\ cmd[c].st \in {"in", "served", "failed"} /\ ucall[c] = NoCall
    /\ Drop(c)
    /\ install' = IF c \in install.call THEN NoInstall ELSE install
    /\ UNCHANGED <<uvars, exit, cleaned, exited>>

\* check_for_update and download_announced_update, under the permit.
UpdateCommand(c) ==
    /\ \/ cmd[c].st = "in" /\ BeginUpdate(c)
       \/ cmd[c].st = "served" /\ FinishUpdate(c)
    /\ cmd' = [cmd EXCEPT ![c].st = "served"]
    /\ UNCHANGED <<phase, active, waiter, install, exit, cleaned, exited>>

-----------------------------------------------------------------------------
(***************************************************************************)
(* The loop of seal_and_drain and seal_and_drain_others                    *)
(***************************************************************************)
Goal(w) == IF w = "exit" THEN 0 ELSE 1

DrainFails(w) ==
    IF w = "exit"
    THEN exit' = [exit EXCEPT !.running = FALSE, !.stage = "none"] /\ UNCHANGED <<cmd, install>>
    ELSE /\ install' = [install EXCEPT !.stage = "failed"]
         /\ cmd' = [c \in Calls |-> IF c \in install.call THEN [cmd[c] EXCEPT !.st = "failed"]
                                                          ELSE cmd[c]]
         /\ UNCHANGED exit

DrainSubscribe(w) ==
    /\ waiter[w] = "looping"
    /\ waiter' = [waiter EXCEPT ![w] = "subscribed"]
    /\ UNCHANGED <<uvars, phase, active, cmd, install, exit, cleaned, exited>>

DrainCheck(w) ==
    /\ waiter[w] \in {"subscribed", "notified"}
    /\ IF active = Goal(w)
       THEN /\ phase' = IF w = "exit" THEN "Quiesced" ELSE phase
            /\ waiter' = [waiter EXCEPT ![w] = "none"]
            /\ exit' = IF w = "exit" THEN [exit EXCEPT !.stage = "updates"] ELSE exit
            /\ install' = IF w = "install" THEN [install EXCEPT !.stage = "drained"] ELSE install
       ELSE /\ waiter' = [waiter EXCEPT ![w] = IF @ = "notified" THEN "looping" ELSE "parked"]
            /\ UNCHANGED <<phase, exit, install>>
    /\ UNCHANGED <<uvars, active, cmd, cleaned, exited>>

\* COMMAND_DRAIN_TIMEOUT: the phase stays as it is.
DrainTimeout(w) ==
    /\ waiter[w] = "parked"
    /\ waiter' = [waiter EXCEPT ![w] = "none"]
    /\ DrainFails(w)
    /\ UNCHANGED <<uvars, phase, active, cleaned, exited>>

\* What is torn down once nothing is admitted any more, in this order: the
\* application, the local grants, the log; and the stage that follows.
CleanupSteps(last) == {<<"application", "grants">>, <<"grants", "log">>, <<"log", last>>}

-----------------------------------------------------------------------------
(***************************************************************************)
(* install_verified_update                                                 *)
(***************************************************************************)
InstallValidate(c, id) ==
    /\ cmd[c].st = "in" /\ ValidInstall(id)
    /\ cmd' = [cmd EXCEPT ![c] = [st |-> "validated", id |-> id]]
    /\ UNCHANGED <<uvars, phase, active, waiter, install, exit, cleaned, exited>>

Sealable == phase = "Running"

\* Irreversibly wins installation ownership, or is refused.
InstallSeal(c) ==
    /\ cmd[c].st = "validated"
    /\ IF Sealable
       THEN /\ phase' = "Exclusive"
            /\ cmd' = [cmd EXCEPT ![c].st = "installing"]
            /\ install' = [call |-> {c}, stage |-> "draining"]
            /\ waiter' = [Notified EXCEPT !["install"] = "looping"]
       ELSE cmd' = [cmd EXCEPT ![c].st = "failed"] /\ UNCHANGED <<phase, install, waiter>>
    /\ UNCHANGED <<uvars, active, exit, cleaned, exited>>

InstallAt(s, to) ==
    /\ install.stage = s
    /\ install' = [install EXCEPT !.stage = to]
    /\ UNCHANGED <<phase, active, waiter, exit>>

InstallFails(c) ==
    /\ install' = [install EXCEPT !.stage = "failed"]
    /\ cmd' = [cmd EXCEPT ![c].st = "failed"]
    /\ UNCHANGED <<uvars, phase, active, waiter, exit, cleaned, exited>>

\* consume_install: an artifact replaced since validation is refused.
InstallConsume(c) ==
    /\ c \in install.call /\ install.stage = "drained"
    /\ IF ValidInstall(cmd[c].id)
       THEN /\ ConsumeInstall(cmd[c].id) /\ InstallAt("drained", "application")
            /\ UNCHANGED <<cmd, cleaned, exited>>
       ELSE InstallFails(c)

\* run_after_consumption: each step is tried once, in this order.
InstallCleanup(c) ==
    \E step \in CleanupSteps("invoking") :
        /\ c \in install.call /\ install.stage = step[1]
        /\ \/ /\ InstallAt(step[1], step[2])
              /\ cleaned' = cleaned \cup {step[1]}
              /\ UNCHANGED <<uvars, cmd, exited>>
           \/ InstallFails(c)

\* The installer ends the process when it starts, and returns when it does not.
InstallInvoke(c) ==
    /\ c \in install.call /\ install.stage = "invoking"
    /\ \/ /\ exited' = "installer"
          /\ UNCHANGED <<uvars, phase, active, cmd, waiter, install, exit, cleaned>>
       \/ InstallFails(c)

-----------------------------------------------------------------------------
(***************************************************************************)
(* ExitRequested and run_exit_attempt                                      *)
(***************************************************************************)
ExitAt(s, to) == exit.stage = s /\ exit' = [exit EXCEPT !.stage = to]

\* ExitCoordinator::request answers StartCleanup; PreventExit changes nothing.
ExitRequest ==
    /\ ~exit.running /\ ~exit.complete
    /\ exit' = [exit EXCEPT !.running = TRUE, !.stage = "sealing"]
    /\ UNCHANGED <<uvars, phase, active, cmd, waiter, install, cleaned, exited>>

ExitSeal ==
    /\ ExitAt("sealing", "draining")
    /\ phase' = IF phase = "Running" THEN "Sealed" ELSE phase
    /\ waiter' = [waiter EXCEPT !["exit"] = "looping"]
    /\ UNCHANGED <<uvars, active, cmd, install, cleaned, exited>>

\* Nothing leads out of "closing": DrainedIsQuiet shows that no download is
\* left for UpdateService::shutdown to wait for.
ExitUpdates ==
    /\ ExitAt("updates", IF ustate.tag = "Downloading" THEN "closing" ELSE "application")
    /\ ShutdownBegin
    /\ UNCHANGED <<phase, active, cmd, waiter, install, cleaned, exited>>

\* Fault variant of ExitFails: the attempt is never marked as over.
ExitFailsKeepsRunning ==
    /\ exit' = [exit EXCEPT !.stage = "none"]
    /\ UNCHANGED <<uvars, phase, active, cmd, waiter, install, cleaned, exited>>

ExitFails ==
    /\ exit' = [exit EXCEPT !.running = FALSE, !.stage = "none"]
    /\ UNCHANGED <<uvars, phase, active, cmd, waiter, install, cleaned, exited>>

ExitCleanup ==
    \E step \in CleanupSteps("completing") :
        /\ exit.stage = step[1]
        /\ \/ /\ ExitAt(step[1], step[2])
              /\ cleaned' = cleaned \cup {step[1]}
              /\ UNCHANGED <<uvars, phase, active, cmd, waiter, install, exited>>
           \/ ExitFails

ExitComplete ==
    /\ exit.stage = "completing"
    /\ exit' = [running |-> FALSE, complete |-> TRUE, stage |-> "none"]
    /\ UNCHANGED <<uvars, phase, active, cmd, waiter, install, cleaned, exited>>

\* The exit the attempt itself requests, or a later one: AllowExit.
FinalExit ==
    /\ exit.complete
    /\ exited' = "exit"
    /\ UNCHANGED <<uvars, phase, active, cmd, waiter, install, exit, cleaned>>

-----------------------------------------------------------------------------
DrainStep == \E w \in {"exit", "install"} : DrainSubscribe(w) \/ DrainCheck(w) \/ DrainTimeout(w)

CommandStep(c) ==
    \/ Leave(c)
    \/ UpdateCommand(c)
    \/ \E id \in Generations : InstallValidate(c, id)
    \/ InstallSeal(c)
    \/ InstallConsume(c)
    \/ InstallCleanup(c)
    \/ InstallInvoke(c)

ExitStep == ExitSeal \/ ExitUpdates \/ ExitCleanup \/ ExitComplete \/ FinalExit

ProcessNext ==
    /\ exited = "no"
    /\ \/ \E c \in Calls : Admit(c) \/ CommandStep(c)
       \/ TaskStep /\ UNCHANGED lvars
       \/ DrainStep
       \/ ExitRequest
       \/ ExitStep

\* Every step of a command, a drain or the exit attempt is bounded by a timeout
\* of the code or does not wait; users need not ask for anything.
ProcessSpec ==
    /\ ProcessInit /\ [][ProcessNext]_pvars
    /\ \A c \in Calls : WF_pvars(exited = "no" /\ CommandStep(c))
    /\ WF_pvars(exited = "no" /\ TaskStep /\ UNCHANGED lvars)
    /\ WF_pvars(exited = "no" /\ ExitStep)
    /\ \A w \in {"exit", "install"} :
        WF_pvars(exited = "no" /\ (DrainSubscribe(w) \/ DrainCheck(w) \/ DrainTimeout(w)))

-----------------------------------------------------------------------------

\* Once the exit drain is through, nothing that was admitted still works: no
\* permit is held and the update service has no check or download under way.
DrainedIsQuiet ==
    phase = "Quiesced" =>
        /\ Holders = {}
        /\ ustate.tag \notin {"Checking", "Downloading"}
        /\ task.st \in {"none", "ended"}

\* Resources are torn down only when no command can still be using them.  From
\* the end of its drain to the installer, the installing command holds the only
\* permit and no exit has got as far as Quiesced; an exit past its drain finds no
\* permit held and no installation under way; and what has been torn down stays
\* unused.
CleanupRunsAlone ==
    /\ install.stage \in {"drained", "application", "grants", "log", "invoking"} =>
        phase = "Exclusive" /\ Holders = install.call
    /\ exit.stage \in {"updates", "application", "grants", "log", "completing"} =>
        phase = "Quiesced" /\ Holders = {} /\ install = NoInstall
    /\ cleaned # {} => Holders \subseteq install.call

\* A drain asleep while its goal is reached has been woken: none sleeps on to
\* its timeout with nothing left to wait for.
DrainsAreWoken == \A w \in DOMAIN waiter : waiter[w] = "parked" => active # Goal(w)

\* An exit attempt ends, in an exit or in a failure a user may retry, however
\* installations, downloads and other commands are under way.
ExitAttemptEnds == exit.running ~> (~exit.running \/ exited # "no")
=============================================================================
