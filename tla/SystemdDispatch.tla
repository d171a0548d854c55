--------------------------- MODULE SystemdDispatch ---------------------------
(***************************************************************************)
(* MutationTransport::dispatch over SSH (nexus-ssh, systemd_start.rs and   *)
(* its three siblings, which differ in the command only): open a channel,  *)
(* send one exec request, and report what can be said about it.  The       *)
(* remote host takes the request, or does not, at its own time, also after *)
(* dispatch has returned.                                                  *)
(*                                                                         *)
(* `lost` stands for a dead transport and for SshSession's own lifetime    *)
(* token.  Timeouts may strike in any step they guard.                     *)
(***************************************************************************)
EXTENDS Naturals, Sequences

CONSTANTS
    Ops,          \* the operations with a dispatch of their own
    OutputLimit,  \* OUTPUT_LIMIT, in Data messages
    MaxWire       \* bound on the messages under way to the client

ASSUME DispatchAssumption ==
    /\ OutputLimit \in Nat
    /\ MaxWire \in Nat
    /\ Ops \subseteq {"reset_failed", "try_restart", "reload", "start"}

VARIABLES
    op,         \* the operation being dispatched
    pc,         \* where dispatch is
    outcome,    \* MutationTransportOutcome, once reported
    cancelled,  \* the CancellationToken of the execution
    lost,       \* the SSH session is gone
    asked,      \* the exec request: "no", "sent" (under way), "taken"
    remote,     \* what has become of the command on the remote host
    spoken,     \* the remote host has sent Success or output for it
    wire,       \* messages under way to the client
    accepted, evidence, output  \* the locals of the request loop

client == <<op, pc, outcome, accepted, evidence, output>>
server == <<asked, remote, spoken, wire>>
vars == <<client, server, cancelled, lost>>

NotDispatched == {"NotDispatched_Cancelled", "NotDispatched_Timeout",
                  "NotDispatched_Connection", "NotDispatched_Rejected"}
Unknown == {"Unknown_Cancelled", "Unknown_Timeout", "Unknown_ConnectionLost",
            "Unknown_OutputLimit"}
Outcome == NotDispatched \cup Unknown \cup {"Confirmed_true", "Confirmed_false"}

Message == {"Success", "Failure", "ExitZero", "ExitNonZero", "ExitSignal", "Data", "Eof",
            "Close", "Other"}

Init ==
    /\ op \in Ops
    /\ pc = "checking"
    /\ outcome = "none"
    /\ cancelled = FALSE /\ lost = FALSE
    /\ asked = "no" /\ remote = "untouched" /\ spoken = FALSE /\ wire = <<>>
    /\ accepted = FALSE /\ evidence = FALSE /\ output = 0

-----------------------------------------------------------------------------
Report(o) == pc' = "reported" /\ outcome' = o /\ UNCHANGED <<op, accepted, evidence, output>>

Proceed(to) == pc' = to /\ UNCHANGED <<op, outcome, accepted, evidence, output>>

\* is_closed is asked before the token.
Check ==
    /\ pc = "checking"
    /\ \/ lost /\ Report("NotDispatched_Connection")
       \/ ~lost /\ cancelled /\ Report("NotDispatched_Cancelled")
       \/ ~lost /\ ~cancelled /\ Proceed("opening")
    /\ UNCHANGED <<server, cancelled, lost>>

\* The select around channel_open_session is biased: cancellation first.
OpenChannel ==
    /\ pc = "opening"
    /\ \/ cancelled /\ Report("NotDispatched_Cancelled")
       \/ ~cancelled /\ lost /\ Report("NotDispatched_Connection")
       \/ ~cancelled /\ ~lost /\ (Proceed("requesting") \/ Report("NotDispatched_Connection"))
    /\ UNCHANGED <<server, cancelled, lost>>

OpenTimeout ==
    /\ pc = "opening" /\ ~cancelled /\ ~lost
    /\ Report("NotDispatched_Timeout")
    /\ UNCHANGED <<server, cancelled, lost>>

\* Cancellation or loss once the channel is open: the request may be out.
Interrupted ==
    /\ pc \in {"requesting", "waiting"}
    /\ \/ cancelled /\ Report("Unknown_Cancelled")
       \/ ~cancelled /\ lost /\ Report("Unknown_ConnectionLost")
    /\ UNCHANGED <<server, cancelled, lost>>

\* Fault variant of RequestTimeout: only the exec call is under the timeout.
RequestTimeoutSendOnly ==
    /\ pc = "requesting" /\ ~cancelled /\ ~lost
    /\ Report("Unknown_Timeout")
    /\ UNCHANGED <<server, cancelled, lost>>

\* REQUEST_COMPLETION_TIMEOUT covers the exec call and the wait for its end.
RequestTimeout ==
    /\ pc \in {"requesting", "waiting"} /\ ~cancelled /\ ~lost
    /\ Report("Unknown_Timeout")
    /\ UNCHANGED <<server, cancelled, lost>>

\* channel.exec: an error does not say whether the request went out.
SendRequest ==
    /\ pc = "requesting" /\ ~cancelled /\ ~lost
    /\ \/ asked' = "sent" /\ Proceed("waiting")
       \/ asked' \in {"no", "sent"} /\ Report("Unknown_ConnectionLost")
    /\ UNCHANGED <<remote, spoken, wire, cancelled, lost>>

\* Fault variant of FailureOutcome: a failure always means a refused request.
FailureIsRejection == "NotDispatched_Rejected"

\* Failure before anything else is a refusal; after Success or output it is not.
FailureOutcome ==
    IF accepted \/ evidence THEN "Unknown_ConnectionLost" ELSE "NotDispatched_Rejected"

(***************************************************************************)
(* handle_message, on a poll that found no token cancelled.                *)
(***************************************************************************)
HandleMessage ==
    /\ pc = "waiting" /\ ~cancelled /\ ~lost
    /\ wire # <<>>
    /\ LET m == Head(wire)
       IN  \/ /\ m = "Success" /\ ~accepted
              /\ accepted' = TRUE
              /\ UNCHANGED <<op, pc, outcome, evidence, output>>
           \/ m = "Success" /\ accepted /\ Report("Unknown_ConnectionLost")
           \/ m = "Failure" /\ Report(FailureOutcome)
           \/ m = "ExitZero" /\ Report("Confirmed_true")
           \/ m \in {"ExitNonZero", "ExitSignal"} /\ Report("Confirmed_false")
           \/ /\ m = "Data"
              /\ evidence' = TRUE
              /\ output' = output + 1
              /\ IF output' > OutputLimit
                 THEN pc' = "reported" /\ outcome' = "Unknown_OutputLimit"
                 ELSE UNCHANGED <<pc, outcome>>
              /\ UNCHANGED <<op, accepted>>
           \/ m = "Eof" /\ UNCHANGED client
           \/ m = "Close" /\ Report("Unknown_ConnectionLost")
           \/ m = "Other" /\ ~accepted /\ Report("Unknown_ConnectionLost")
           \/ m = "Other" /\ accepted /\ UNCHANGED client
    /\ wire' = Tail(wire)
    /\ UNCHANGED <<asked, remote, spoken, cancelled, lost>>

-----------------------------------------------------------------------------
\* The remote host.  It refuses the request or runs the command; a host that
\* runs it does not answer Failure before it has sent Success or output.
Sends(m) == Len(wire) < MaxWire /\ wire' = Append(wire, m)

ServerRefuses ==
    /\ asked = "sent" /\ ~lost
    /\ asked' = "taken"
    /\ remote' = "refused"
    /\ Sends("Failure")
    /\ UNCHANGED <<client, spoken, cancelled, lost>>

ServerRuns ==
    /\ asked = "sent"
    /\ asked' = "taken"
    /\ remote' = "running"
    /\ UNCHANGED <<client, spoken, wire, cancelled, lost>>

Ran == {"running", "succeeded", "failed"}

ServerTalks ==
    /\ remote \in Ran
    /\ \E m \in {"Success", "Data", "Eof", "Other", "Failure"} :
          /\ m = "Failure" => spoken
          /\ Sends(m)
          /\ spoken' = (spoken \/ m \in {"Success", "Data"})
    /\ UNCHANGED <<client, asked, remote, cancelled, lost>>

\* The command ends; the host may fail to report how.
RemoteEnds ==
    /\ remote = "running"
    /\ \/ remote' = "succeeded" /\ (Sends("ExitZero") \/ UNCHANGED wire)
       \/ remote' = "failed" /\ (Sends("ExitNonZero") \/ Sends("ExitSignal") \/ UNCHANGED wire)
    /\ UNCHANGED <<client, asked, spoken, cancelled, lost>>

ServerCloses ==
    /\ asked = "taken"
    /\ Sends("Close")
    /\ UNCHANGED <<client, asked, remote, spoken, cancelled, lost>>

ConnectionLost == ~lost /\ lost' = TRUE /\ UNCHANGED <<client, server, cancelled>>
CancelExecution == ~cancelled /\ cancelled' = TRUE /\ UNCHANGED <<client, server, lost>>

-----------------------------------------------------------------------------
Client == Check \/ OpenChannel \/ OpenTimeout \/ Interrupted \/ RequestTimeout \/ SendRequest
          \/ HandleMessage

\* dispatch of each operation.
DispatchResetFailed == op = "reset_failed" /\ Client
DispatchTryRestart == op = "try_restart" /\ Client
DispatchReload == op = "reload" /\ Client
DispatchStart == op = "start" /\ Client

Dispatch == DispatchResetFailed \/ DispatchTryRestart \/ DispatchReload \/ DispatchStart

Environment == ServerRefuses \/ ServerRuns \/ ServerTalks \/ RemoteEnds \/ ServerCloses
               \/ ConnectionLost \/ CancelExecution

\* The runtime polls dispatch, and both of its waits are under a timeout.
Spec == Init /\ [][Dispatch \/ Environment]_vars
             /\ WF_vars(Dispatch) /\ WF_vars(OpenTimeout) /\ WF_vars(RequestTimeout)

-----------------------------------------------------------------------------
\* MutationTransportOutcome::operation_outcome
OperationOutcome(o) ==
    IF o = "NotDispatched_Cancelled" THEN "Cancelled"
    ELSE IF o \in NotDispatched \cup {"Confirmed_false"} THEN "Failed"
    ELSE IF o = "Confirmed_true" THEN "Success"
    ELSE "OutcomeUnknown"

TypeOK ==
    /\ op \in Ops
    /\ pc \in {"checking", "opening", "requesting", "waiting", "reported"}
    /\ outcome \in Outcome \cup {"none"}
    /\ pc = "reported" <=> outcome # "none"
    /\ asked \in {"no", "sent", "taken"}
    /\ remote \in Ran \cup {"untouched", "refused"}
    /\ wire \in Seq(Message)
    /\ output \in 0..(OutputLimit + 1)
    /\ output > OutputLimit => pc = "reported"
    /\ cancelled \in BOOLEAN /\ lost \in BOOLEAN /\ spoken \in BOOLEAN
    /\ accepted \in BOOLEAN /\ evidence \in BOOLEAN

\* What outcome o tells the user is so, and will stay so.
Truthful(o) ==
    /\ OperationOutcome(o) = "Cancelled" => asked = "no"
    /\ OperationOutcome(o) = "Success" => remote = "succeeded"
    /\ OperationOutcome(o) = "Failed" =>
          IF o \in NotDispatched THEN asked # "sent" /\ remote \notin Ran ELSE remote = "failed"

(***************************************************************************)
(* What the user is told is true, now and for ever after: a Cancelled      *)
(* operation never runs, a Success has succeeded, and a Failed one either  *)
(* never runs or has run and failed.  Whenever the client cannot know, it  *)
(* says OutcomeUnknown.  (The request may be taken by the remote host long *)
(* after dispatch has returned.)                                           *)
(***************************************************************************)
OutcomeTruthful == pc = "reported" => Truthful(outcome)

(***************************************************************************)
(* dispatch returns, whatever the remote host does or leaves undone: the   *)
(* execution permit and the host's gates are never held for ever.          *)
(***************************************************************************)
DispatchReturns == pc = "checking" ~> pc = "reported"
=============================================================================
