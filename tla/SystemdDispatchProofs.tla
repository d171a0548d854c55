------------------------ MODULE SystemdDispatchProofs ------------------------
(***************************************************************************)
(* OutcomeTruthful for every output limit and every amount of traffic.     *)
(*                                                                         *)
(* The property is not inductive: what the client reports depends on the   *)
(* messages under way to it, so the invariant says what those can mean.    *)
(*   AskedInv    the request goes out only once the channel is open, and   *)
(*               the remote host acts and talks only after taking it;      *)
(*   ExitInv     an exit message under way tells how the command ended;    *)
(*   SpokenInv   a host that runs the command shows it: Success or output  *)
(*               has been seen by the client or precedes, on the wire, any *)
(*               Failure.                                                  *)
(***************************************************************************)
EXTENDS SystemdDispatch, TLAPS

Shows(m) == m \in {"Success", "Data"}

AskedInv ==
    /\ pc \in {"checking", "opening", "requesting"} => asked = "no"
    /\ asked # "taken" => remote = "untouched" /\ wire = <<>> /\ ~spoken
    /\ remote = "refused" => ~spoken

ExitInv ==
    \A i \in 1..Len(wire) :
        /\ wire[i] = "ExitZero" => remote = "succeeded"
        /\ wire[i] \in {"ExitNonZero", "ExitSignal"} => remote = "failed"

SpokenInv ==
    /\ spoken => \/ accepted \/ evidence
                 \/ \E i \in 1..Len(wire) : Shows(wire[i])
    /\ \A i \in 1..Len(wire) : wire[i] = "Failure" =>
          \/ remote = "refused" \/ accepted \/ evidence
          \/ \E j \in 1..(i - 1) : Shows(wire[j])

DispatchInv == TypeOK /\ AskedInv /\ ExitInv /\ SpokenInv /\ OutcomeTruthful

\* dispatch starts with nothing asked of the remote host.
LEMMA InitInv == Init => DispatchInv
<1> SUFFICES ASSUME Init PROVE DispatchInv
    OBVIOUS
<1>1. TypeOK
    <2>1. /\ wire \in Seq(Message) /\ output \in 0..(OutputLimit + 1)
          /\ ~(output > OutputLimit)
        BY DispatchAssumption DEF Init
    <2>2. /\ op \in Ops /\ pc = "checking" /\ outcome = "none"
          /\ asked = "no" /\ remote = "untouched"
          /\ cancelled \in BOOLEAN /\ lost \in BOOLEAN /\ spoken \in BOOLEAN
          /\ accepted \in BOOLEAN /\ evidence \in BOOLEAN
        BY DEF Init
    <2>3. pc = "reported" <=> outcome # "none"
        BY <2>2
    <2> QED
        BY <2>1, <2>2, <2>3, Zenon DEF TypeOK, Ran
<1>2. AskedInv
    BY Zenon DEF Init, AskedInv
<1>3. ExitInv
    BY DEF Init, ExitInv
<1>4. SpokenInv
    <2>1. 1..Len(wire) = {}
        BY DEF Init
    <2>2. ~spoken
        BY DEF Init
    <2> QED
        BY <2>1, <2>2, Zenon DEF SpokenInv
<1>5. OutcomeTruthful
    BY DEF Init, OutcomeTruthful
<1> QED
    BY <1>1, <1>2, <1>3, <1>4, <1>5 DEF DispatchInv

\* An outcome that promises nothing is truthful.
LEMMA UnknownTruthful == \A o \in Unknown : Truthful(o)
BY DEF Unknown, Truthful, OperationOutcome, NotDispatched

\* While the request has not gone out, every NotDispatched outcome is truthful.
LEMMA UnaskedTruthful ==
    ASSUME AskedInv, asked = "no"
    PROVE  \A o \in NotDispatched : Truthful(o)
BY DEF AskedInv, Truthful, OperationOutcome, NotDispatched, Ran

\* dispatch returns with a truthful outcome and takes no message for it.
LEMMA ReportInv ==
    ASSUME DispatchInv, NEW o \in Outcome, Truthful(o), Report(o),
           UNCHANGED <<server, cancelled, lost>>
    PROVE  DispatchInv'
<1> USE DEF DispatchInv
<1>1. o # "none"
    BY DEF Outcome, NotDispatched, Unknown
<1>2. TypeOK'
    BY <1>1, Zenon DEF TypeOK, Report, server
<1>3. AskedInv'
    BY Zenon DEF AskedInv, Report, server
<1>4. ExitInv' /\ SpokenInv'
    BY Zenon DEF ExitInv, SpokenInv, Report, server
<1>5. OutcomeTruthful'
    BY Zenon DEF OutcomeTruthful, Truthful, Report, server
<1> QED
    BY <1>2, <1>3, <1>4, <1>5

\* dispatch goes on to its next step.
LEMMA ProceedInv ==
    ASSUME DispatchInv, NEW to \in {"opening", "requesting"}, Proceed(to), asked = "no",
           pc # "reported", UNCHANGED <<server, cancelled, lost>>
    PROVE  DispatchInv'
<1> USE DEF DispatchInv
<1>1. to # "reported"
    OBVIOUS
<1>2. TypeOK'
    BY <1>1, Zenon DEF TypeOK, Proceed, server
<1>3. AskedInv'
    BY Zenon DEF AskedInv, Proceed, server
<1>4. ExitInv' /\ SpokenInv'
    BY Zenon DEF ExitInv, SpokenInv, Proceed, server
<1>5. OutcomeTruthful'
    BY <1>1, Zenon DEF OutcomeTruthful, Proceed
<1> QED
    BY <1>2, <1>3, <1>4, <1>5

\* Every step of dispatch that takes no message and sends no request.
LEMMA LocalStepInv ==
    ASSUME DispatchInv, Check \/ OpenChannel \/ OpenTimeout \/ Interrupted \/ RequestTimeout
    PROVE  DispatchInv'
<1>1. UNCHANGED <<server, cancelled, lost>>
    BY Zenon DEF Check, OpenChannel, OpenTimeout, Interrupted, RequestTimeout
<1>2. ASSUME pc \in {"checking", "opening"} PROVE asked = "no" /\ pc # "reported"
    BY <1>2 DEF DispatchInv, AskedInv
<1>3. ASSUME NEW o \in NotDispatched, pc \in {"checking", "opening"}, Report(o)
      PROVE  DispatchInv'
    <2>1. Truthful(o)
        BY <1>2, <1>3, UnaskedTruthful DEF DispatchInv
    <2> QED
        BY <1>1, <1>3, <2>1, ReportInv DEF Outcome
<1>4. ASSUME NEW o \in Unknown, Report(o) PROVE DispatchInv'
    BY <1>1, <1>4, UnknownTruthful, ReportInv DEF Outcome
<1>5. CASE Check
    <2>1. pc \in {"checking", "opening"}
        BY <1>5 DEF Check
    <2>2. CASE Report("NotDispatched_Connection") \/ Report("NotDispatched_Cancelled")
        BY <1>3, <2>1, <2>2 DEF NotDispatched
    <2>3. CASE Proceed("opening")
        BY <1>1, <1>2, <2>1, <2>3, ProceedInv
    <2> QED
        BY <1>5, <2>2, <2>3, Zenon DEF Check
<1>6. CASE OpenChannel
    <2>1. pc \in {"checking", "opening"}
        BY <1>6 DEF OpenChannel
    <2>2. CASE Report("NotDispatched_Connection") \/ Report("NotDispatched_Cancelled")
        BY <1>3, <2>1, <2>2 DEF NotDispatched
    <2>3. CASE Proceed("requesting")
        BY <1>1, <1>2, <2>1, <2>3, ProceedInv
    <2> QED
        BY <1>6, <2>2, <2>3, Zenon DEF OpenChannel
<1>7. CASE OpenTimeout
    <2>1. pc \in {"checking", "opening"} /\ Report("NotDispatched_Timeout")
        BY <1>7 DEF OpenTimeout
    <2> QED
        BY <1>3, <2>1 DEF NotDispatched
<1>8. CASE Interrupted
    <2>1. Report("Unknown_Cancelled") \/ Report("Unknown_ConnectionLost")
        BY <1>8, Zenon DEF Interrupted
    <2> QED
        BY <1>4, <2>1 DEF Unknown
<1>9. CASE RequestTimeout
    <2>1. Report("Unknown_Timeout")
        BY <1>9, Zenon DEF RequestTimeout
    <2> QED
        BY <1>4, <2>1 DEF Unknown
<1> QED
    BY <1>5, <1>6, <1>7, <1>8, <1>9

\* The request goes out, or may have gone out.
LEMMA SendRequestInv == ASSUME DispatchInv, SendRequest PROVE DispatchInv'
<1> USE DEF DispatchInv
<1>1. /\ asked = "no" /\ remote = "untouched" /\ wire = <<>> /\ pc = "requesting"
      /\ UNCHANGED <<remote, spoken, wire, cancelled, lost, op, accepted, evidence, output>>
      /\ asked' \in {"no", "sent"}
      /\ \/ pc' = "waiting" /\ outcome' = outcome
         \/ pc' = "reported" /\ outcome' = "Unknown_ConnectionLost"
    BY Zenon DEF SendRequest, AskedInv, Proceed, Report
<1>2. outcome = "none"
    BY <1>1, Zenon DEF TypeOK
<1>3. TypeOK'
    <2>1. pc' = "reported" <=> outcome' # "none"
        BY <1>1, <1>2
    <2>2. /\ pc' \in {"checking", "opening", "requesting", "waiting", "reported"}
          /\ outcome' \in Outcome \cup {"none"} /\ asked' \in {"no", "sent", "taken"}
        BY <1>1, <1>2 DEF Outcome, Unknown
    <2> QED
        BY <1>1, <2>1, <2>2, Zenon DEF TypeOK
<1>4. AskedInv'
    BY <1>1, Zenon DEF AskedInv
<1>5. ExitInv' /\ SpokenInv'
    BY <1>1, Zenon DEF ExitInv, SpokenInv
<1>6. OutcomeTruthful'
    BY <1>1 DEF OutcomeTruthful, Truthful, OperationOutcome, NotDispatched
<1> QED
    BY <1>3, <1>4, <1>5, <1>6

\* A message is taken off the wire: the three things that bound what it says.
LEMMA HandleMessageInv == ASSUME DispatchInv, HandleMessage PROVE DispatchInv'
<1> USE DEF DispatchInv
<1> DEFINE m == Head(wire)
<1>1. /\ wire \in Seq(Message) /\ wire # <<>> /\ wire' = Tail(wire)
      /\ pc = "waiting" /\ outcome = "none"
      /\ UNCHANGED <<asked, remote, spoken, cancelled, lost, op>>
    BY Zenon DEF HandleMessage, TypeOK, Report, client
<1>2. /\ m = wire[1] /\ Len(wire) \in Nat /\ Len(wire) >= 1 /\ m \in Message
      /\ wire' \in Seq(Message) /\ Len(wire') = Len(wire) - 1
      /\ \A i \in 1..Len(wire') : wire'[i] = wire[i + 1]
    BY <1>1
<1>3. asked = "taken"
    BY <1>1, Zenon DEF AskedInv, TypeOK
<1>4. accepted => accepted'
    BY Zenon DEF HandleMessage, Report, client
<1>5. evidence => evidence'
    BY Zenon DEF HandleMessage, Report, client
<1>6. Shows(m) => accepted' \/ evidence'
    <2>1. m = "Success" => accepted'
        BY DEF HandleMessage, Report, client
    <2>2. m = "Data" => evidence'
        BY DEF HandleMessage, Report, client
    <2> QED
        BY <2>1, <2>2 DEF Shows
<1>7. TypeOK'
    <2>1. /\ pc' \in {"waiting", "reported"} /\ outcome' \in Outcome \cup {"none"}
          /\ pc' = "reported" <=> outcome' # "none"
        BY <1>1 DEF HandleMessage, Report, client, FailureOutcome, Outcome, NotDispatched, Unknown
    <2>2. accepted' \in BOOLEAN /\ evidence' \in BOOLEAN
        BY Zenon DEF HandleMessage, Report, client, TypeOK
    <2>3. output \in 0..OutputLimit
        BY <1>1, DispatchAssumption DEF TypeOK
    <2>4. /\ output' \in 0..(OutputLimit + 1)
          /\ output' > OutputLimit => pc' = "reported"
        BY <1>1, <2>3, DispatchAssumption DEF HandleMessage, Report, client
    <2> QED
        BY <1>1, <1>2, <2>1, <2>2, <2>4, Zenon DEF TypeOK
<1>8. AskedInv'
    <2>1. pc' \in {"waiting", "reported"}
        BY <1>1 DEF HandleMessage, Report, client
    <2>2. pc' \notin {"checking", "opening", "requesting"}
        BY <2>1
    <2> QED
        BY <1>1, <1>3, <2>2, Zenon DEF AskedInv
<1>9. ExitInv'
    BY <1>1, <1>2 DEF ExitInv
<1>10. SpokenInv'
    <2>1. \A j \in 1..Len(wire) : Shows(wire[j]) =>
             accepted' \/ evidence' \/ (j - 1 \in 1..Len(wire') /\ Shows(wire'[j - 1]))
        BY <1>2, <1>6
    <2>2. spoken' => \/ accepted' \/ evidence'
                     \/ \E i \in 1..Len(wire') : Shows(wire'[i])
        BY <1>1, <1>4, <1>5, <2>1 DEF SpokenInv
    <2>3. ASSUME NEW i \in 1..Len(wire'), wire'[i] = "Failure"
          PROVE  \/ remote' = "refused" \/ accepted' \/ evidence'
                 \/ \E j \in 1..(i - 1) : Shows(wire'[j])
        <3>1. i + 1 \in 1..Len(wire) /\ wire[i + 1] = "Failure"
            BY <1>2, <2>3
        <3>2. \/ remote = "refused" \/ accepted \/ evidence
              \/ \E j \in 1..(i + 1 - 1) : Shows(wire[j])
            BY <3>1 DEF SpokenInv
        <3>3. ASSUME NEW j \in 1..(i + 1 - 1), Shows(wire[j])
              PROVE  accepted' \/ evidence' \/ \E k \in 1..(i - 1) : Shows(wire'[k])
            BY <1>2, <2>1, <3>1, <3>3
        <3> QED
            BY <1>1, <1>4, <1>5, <3>2, <3>3, Zenon
    <2> QED
        BY <2>2, <2>3 DEF SpokenInv, Shows
<1>11. OutcomeTruthful'
    <2>1. SUFFICES ASSUME pc' = "reported" PROVE Truthful(outcome')
        BY <1>1, Zenon DEF OutcomeTruthful, Truthful
    <2>2. CASE outcome' \in Unknown
        BY <2>2, UnknownTruthful
    <2>3. CASE m = "ExitZero" /\ outcome' = "Confirmed_true"
        BY <1>2, <2>3 DEF ExitInv, Truthful, OperationOutcome, NotDispatched
    <2>4. CASE m \in {"ExitNonZero", "ExitSignal"} /\ outcome' = "Confirmed_false"
        BY <1>2, <2>4 DEF ExitInv, Truthful, OperationOutcome, NotDispatched
    <2>5. CASE m = "Failure" /\ outcome' = "NotDispatched_Rejected" /\ ~accepted /\ ~evidence
        <3>1. remote = "refused"
            BY <1>2, <2>5 DEF SpokenInv
        <3> QED
            BY <1>3, <2>5, <3>1 DEF Truthful, OperationOutcome, NotDispatched, Ran
    <2> QED
        BY <1>1, <2>1, <2>2, <2>3, <2>4, <2>5
        DEF HandleMessage, Report, client, FailureOutcome, Unknown
<1> QED
    BY <1>7, <1>8, <1>9, <1>10, <1>11

\* A message m joins the wire behind the others.
LEMMA AppendFacts ==
    ASSUME NEW m \in Message, wire \in Seq(Message), wire' = Append(wire, m)
    PROVE  /\ wire' \in Seq(Message)
           /\ Len(wire) \in Nat /\ Len(wire') = Len(wire) + 1
           /\ \A i \in 1..Len(wire) : wire'[i] = wire[i]
           /\ wire'[Len(wire')] = m
OBVIOUS

\* The remote host talks about a request it has taken.  Its message is an exit
\* only if the command has ended that way, and a Failure only if it refused
\* or has shown that it runs.
LEMMA TalkInv ==
    ASSUME DispatchInv, NEW m \in Message, wire' = Append(wire, m),
           asked' = "taken", UNCHANGED <<client, cancelled, lost>>,
           asked \in {"sent", "taken"}, remote' \in Ran \cup {"untouched", "refused"},
           Truthful(outcome)' \/ pc # "reported",
           asked = "taken" => remote = remote' \/ (remote = "running" /\ remote' \in Ran),
           m = "ExitZero" => remote' = "succeeded",
           m \in {"ExitNonZero", "ExitSignal"} => remote' = "failed",
           m = "Failure" => remote' = "refused" \/ spoken,
           spoken' \in BOOLEAN, spoken => spoken', spoken' => spoken \/ Shows(m),
           remote' = "refused" => ~spoken'
    PROVE  DispatchInv'
<1> USE DEF DispatchInv
<1>1. /\ wire \in Seq(Message) /\ wire' \in Seq(Message)
      /\ Len(wire) \in Nat /\ Len(wire') = Len(wire) + 1
      /\ \A i \in 1..Len(wire) : wire'[i] = wire[i]
      /\ wire'[Len(wire')] = m
    BY AppendFacts DEF TypeOK
<1>2. UNCHANGED <<op, pc, outcome, accepted, evidence, output, cancelled, lost>>
    BY DEF client
<1>3. pc \notin {"checking", "opening", "requesting"}
    BY DEF AskedInv
<1>4. remote' = remote \/ remote = "running" \/ wire = <<>>
    BY DEF AskedInv
<1>5. TypeOK'
    BY <1>1, <1>2, Zenon DEF TypeOK
<1>6. AskedInv'
    BY <1>2, <1>3, Zenon DEF AskedInv
<1>7. ExitInv'
    <2> SUFFICES ASSUME NEW i \in 1..Len(wire')
                 PROVE  /\ wire'[i] = "ExitZero" => remote' = "succeeded"
                        /\ wire'[i] \in {"ExitNonZero", "ExitSignal"} => remote' = "failed"
        BY DEF ExitInv
    <2>1. CASE i = Len(wire')
        BY <1>1, <2>1
    <2>2. CASE i # Len(wire')
        <3>1. i \in 1..Len(wire) /\ wire'[i] = wire[i] /\ wire # <<>>
            BY <1>1, <2>2
        <3> QED
            BY <1>4, <3>1 DEF ExitInv
    <2> QED
        BY <2>1, <2>2
<1>8. SpokenInv'
    <2>1. ASSUME NEW j \in 1..Len(wire), Shows(wire[j])
          PROVE  \E k \in 1..Len(wire') : Shows(wire'[k])
        BY <1>1, <2>1
    <2>2. Shows(m) => \E k \in 1..Len(wire') : Shows(wire'[k])
        BY <1>1
    <2>3. spoken' => \/ accepted' \/ evidence'
                     \/ \E k \in 1..Len(wire') : Shows(wire'[k])
        BY <1>2, <2>1, <2>2, Zenon DEF SpokenInv
    <2>4. ASSUME NEW i \in 1..Len(wire'), wire'[i] = "Failure"
          PROVE  \/ remote' = "refused" \/ accepted' \/ evidence'
                 \/ \E j \in 1..(i - 1) : Shows(wire'[j])
        <3>1. CASE i = Len(wire')
            <4>1. i - 1 = Len(wire)
                BY <1>1, <3>1
            <4>2. remote' = "refused" \/ spoken
                BY <1>1, <2>4, <3>1
            <4>3. spoken => \/ accepted \/ evidence
                            \/ \E j \in 1..(i - 1) : Shows(wire[j])
                BY <4>1 DEF SpokenInv
            <4>4. (\E j \in 1..(i - 1) : Shows(wire[j])) => \E j \in 1..(i - 1) : Shows(wire'[j])
                BY <1>1, <4>1
            <4> QED
                BY <1>2, <4>2, <4>3, <4>4, Zenon
        <3>2. CASE i # Len(wire')
            <4>1. i \in 1..Len(wire) /\ wire[i] = "Failure" /\ wire # <<>>
                BY <1>1, <2>4, <3>2
            <4>2. \/ remote = "refused" \/ accepted \/ evidence
                  \/ \E j \in 1..(i - 1) : Shows(wire[j])
                BY <4>1 DEF SpokenInv
            <4>3. remote = "refused" => remote' = "refused"
                BY <1>4, <4>1
            <4>4. (\E j \in 1..(i - 1) : Shows(wire[j])) => \E j \in 1..(i - 1) : Shows(wire'[j])
                BY <1>1, <4>1
            <4> QED
                BY <1>2, <4>2, <4>3, <4>4, Zenon
        <3> QED
            BY <3>1, <3>2
    <2> QED
        BY <2>3, <2>4 DEF SpokenInv, Shows
<1>9. OutcomeTruthful'
    BY <1>2, Zenon DEF OutcomeTruthful
<1> QED
    BY <1>5, <1>6, <1>7, <1>8, <1>9

\* While the remote host may still act, the user has been promised nothing.
LEMMA OpenOutcome ==
    ASSUME DispatchInv, asked = "sent" \/ remote = "running", pc = "reported"
    PROVE  OperationOutcome(outcome) \notin {"Cancelled", "Success", "Failed"}
<1>1. asked # "no"
    BY DEF DispatchInv, AskedInv
<1>2. remote \notin {"succeeded", "failed"}
    BY DEF DispatchInv, AskedInv
<1>3. Truthful(outcome)
    BY DEF DispatchInv, OutcomeTruthful
<1> QED
    BY <1>1, <1>2, <1>3 DEF Truthful, Ran

\* A promise does not depend on what the client never looks at again.
LEMMA TruthfulStep ==
    ASSUME DispatchInv, UNCHANGED client,
           \/ asked' = asked /\ remote' = remote
           \/ asked = "sent" \/ remote = "running"
    PROVE  Truthful(outcome)' \/ pc # "reported"
<1> SUFFICES ASSUME pc = "reported" PROVE Truthful(outcome)'
    OBVIOUS
<1>1. outcome' = outcome
    BY DEF client
<1>2. Truthful(outcome)
    BY DEF DispatchInv, OutcomeTruthful
<1>3. CASE asked' = asked /\ remote' = remote
    BY <1>1, <1>2, <1>3, Zenon DEF Truthful
<1>4. CASE asked = "sent" \/ remote = "running"
    <2>1. OperationOutcome(outcome) \notin {"Cancelled", "Success", "Failed"}
        BY <1>4, OpenOutcome
    <2>2. OperationOutcome(outcome') \notin {"Cancelled", "Success", "Failed"}
        BY <1>1, <2>1
    <2> QED
        BY <2>2 DEF Truthful
<1> QED
    BY <1>3, <1>4

\* Steps that change nothing but what the remote host does or the tokens.
LEMMA SilentInv ==
    ASSUME DispatchInv, UNCHANGED <<client, spoken, wire>>,
           cancelled' \in BOOLEAN, lost' \in BOOLEAN,
           \/ asked' = asked /\ remote' = remote
           \/ asked = "sent" /\ asked' = "taken" /\ remote' = "running"
           \/ asked' = asked /\ remote = "running" /\ remote' \in {"succeeded", "failed"}
    PROVE  DispatchInv'
<1> USE DEF DispatchInv
<1>1. UNCHANGED <<op, pc, outcome, accepted, evidence, output>>
    BY DEF client
<1>2. /\ asked' \in {"no", "sent", "taken"} /\ remote' \in Ran \cup {"untouched", "refused"}
    BY DEF TypeOK, Ran
<1>3. TypeOK'
    BY <1>1, <1>2, Zenon DEF TypeOK
<1>4. remote' = remote \/ remote = "running" \/ wire = <<>>
    BY DEF AskedInv
<1>5. AskedInv'
    <2>1. pc' \in {"checking", "opening", "requesting"} => asked' = "no"
        BY <1>1 DEF AskedInv
    <2>2. asked' # "taken" => remote' = "untouched" /\ wire' = <<>>
        BY DEF AskedInv
    <2>3. remote' = "refused" => remote = "refused"
        OBVIOUS
    <2>4. remote' = "refused" => ~spoken'
        BY <2>3, Zenon DEF AskedInv
    <2> QED
        BY <2>1, <2>2, <2>4 DEF AskedInv
<1>6. ExitInv'
    BY <1>4 DEF ExitInv, TypeOK
<1>7. SpokenInv'
    <2>1. wire # <<>> /\ remote = "refused" => remote' = "refused"
        BY <1>4
    <2>2. \A i \in 1..Len(wire) : wire # <<>>
        OBVIOUS
    <2> QED
        BY <1>1, <2>1, <2>2, Zenon DEF SpokenInv
<1>8. OutcomeTruthful'
    BY <1>1, TruthfulStep, Zenon DEF OutcomeTruthful
<1> QED
    BY <1>3, <1>5, <1>6, <1>7, <1>8

\* Whatever the remote host does keeps the invariant.
LEMMA EnvironmentInv == ASSUME DispatchInv, Environment PROVE DispatchInv'
<1>1. /\ asked \in {"no", "sent", "taken"} /\ spoken \in BOOLEAN /\ wire \in Seq(Message)
      /\ cancelled \in BOOLEAN /\ lost \in BOOLEAN
    BY Zenon DEF DispatchInv, TypeOK
<1>2. remote \notin {"untouched", "refused"} => asked = "taken"
    BY DEF DispatchInv, AskedInv
<1>3. remote = "refused" => ~spoken
    BY Zenon DEF DispatchInv, AskedInv
<1>4. CASE ServerRefuses
    <2>1. /\ asked = "sent" /\ asked' = "taken" /\ remote' = "refused"
          /\ wire' = Append(wire, "Failure")
          /\ UNCHANGED <<client, spoken, cancelled, lost>>
        BY <1>4, Zenon DEF ServerRefuses, Sends
    <2>3. ~spoken
        BY <2>1, Zenon DEF DispatchInv, AskedInv
    <2>4. Truthful(outcome)' \/ pc # "reported"
        BY <2>1, TruthfulStep
    <2> QED
        BY <1>1, <2>1, <2>3, <2>4, TalkInv DEF Message
<1>5. CASE ServerRuns
    <2>1. /\ asked = "sent" /\ asked' = "taken" /\ remote' = "running"
          /\ UNCHANGED <<client, spoken, wire>>
          /\ cancelled' \in BOOLEAN /\ lost' \in BOOLEAN
        BY <1>1, <1>5, Zenon DEF ServerRuns
    <2> QED
        BY <2>1, SilentInv
<1>6. CASE ServerTalks
    <2>1. PICK m \in {"Success", "Data", "Eof", "Other", "Failure"} :
             /\ m = "Failure" => spoken
             /\ wire' = Append(wire, m)
             /\ spoken' = (spoken \/ m \in {"Success", "Data"})
        BY <1>6, Zenon DEF ServerTalks, Sends
    <2>2. remote \in Ran /\ UNCHANGED <<client, asked, remote, cancelled, lost>>
        BY <1>6, Zenon DEF ServerTalks
    <2>3. /\ asked = "taken" /\ asked' = "taken" /\ remote' \in Ran /\ remote' # "refused"
          /\ remote' = remote
        BY <1>2, <2>2 DEF Ran
    <2>4. /\ m \in Message /\ m # "ExitZero" /\ m \notin {"ExitNonZero", "ExitSignal"}
        BY <2>1 DEF Message
    <2>5. Truthful(outcome)' \/ pc # "reported"
        BY <2>2, TruthfulStep
    <2>6. /\ spoken' \in BOOLEAN /\ spoken => spoken'
        BY <2>1, Zenon
    <2>7. spoken' => spoken \/ Shows(m)
        BY <2>1, Zenon DEF Shows
    <2> QED
        BY <2>1, <2>2, <2>3, <2>4, <2>5, <2>6, <2>7, TalkInv
<1>7. CASE RemoteEnds
    <2>1. /\ remote = "running" /\ remote' \in {"succeeded", "failed"}
          /\ UNCHANGED <<client, asked, spoken, cancelled, lost>>
        BY <1>7 DEF RemoteEnds
    <2>2. asked = "taken"
        BY <1>2, <2>1
    <2>3. CASE wire' = wire
        BY <1>1, <2>1, <2>3, SilentInv
    <2>4. ASSUME NEW m \in {"ExitZero", "ExitNonZero", "ExitSignal"}, wire' = Append(wire, m),
                 remote' = IF m = "ExitZero" THEN "succeeded" ELSE "failed"
          PROVE  DispatchInv'
        <3>1. Truthful(outcome)' \/ pc # "reported"
            BY <2>1, TruthfulStep
        <3>2. m \in Message /\ m # "Failure" /\ remote' \in Ran /\ remote' # "refused"
            BY <2>1, <2>4 DEF Message, Ran
        <3> QED
            BY <1>1, <2>1, <2>2, <2>4, <3>1, <3>2, TalkInv
    <2> QED
        BY <1>7, <2>3, <2>4 DEF RemoteEnds, Sends
<1>8. CASE ServerCloses
    <2>1. /\ asked = "taken" /\ wire' = Append(wire, "Close")
          /\ UNCHANGED <<client, asked, remote, spoken, cancelled, lost>>
        BY <1>8, Zenon DEF ServerCloses, Sends
    <2>2. Truthful(outcome)' \/ pc # "reported"
        BY <2>1, TruthfulStep
    <2>3. remote' \in Ran \cup {"untouched", "refused"}
        BY <2>1, Zenon DEF DispatchInv, TypeOK
    <2>4. remote' = "refused" => ~spoken'
        BY <1>3, <2>1, Zenon
    <2> QED
        BY <1>1, <2>1, <2>2, <2>3, <2>4, TalkInv DEF Message
<1>9. CASE ConnectionLost \/ CancelExecution
    <2>1. /\ UNCHANGED <<client, spoken, wire, asked, remote>>
          /\ cancelled' \in BOOLEAN /\ lost' \in BOOLEAN
        BY <1>1, <1>9, Zenon DEF ConnectionLost, CancelExecution, server
    <2> QED
        BY <2>1, SilentInv
<1> QED
    BY <1>4, <1>5, <1>6, <1>7, <1>8, <1>9 DEF Environment

\* Every step keeps the invariant.
LEMMA StepInv == DispatchInv /\ [Dispatch \/ Environment]_vars => DispatchInv'
<1> SUFFICES ASSUME DispatchInv, [Dispatch \/ Environment]_vars PROVE DispatchInv'
    OBVIOUS
<1>1. CASE Dispatch
    <2>1. Client
        BY <1>1, Zenon DEF Dispatch, DispatchResetFailed, DispatchTryRestart, DispatchReload,
                           DispatchStart
    <2>2. \/ Check \/ OpenChannel \/ OpenTimeout \/ Interrupted \/ RequestTimeout
          \/ SendRequest \/ HandleMessage
        BY <2>1, Zenon DEF Client
    <2> QED
        BY <2>2, LocalStepInv, SendRequestInv, HandleMessageInv, Zenon
<1>2. CASE Environment
    BY <1>2, EnvironmentInv
<1>3. CASE UNCHANGED vars
    <2>1. /\ UNCHANGED <<client, spoken, wire, asked, remote>>
          /\ cancelled' \in BOOLEAN /\ lost' \in BOOLEAN
        BY <1>3, Zenon DEF vars, server, DispatchInv, TypeOK
    <2> QED
        BY <2>1, SilentInv
<1> QED
    BY <1>1, <1>2, <1>3

(***************************************************************************)
(* The outcome dispatch reports is true when it is reported and stays true *)
(* whatever the remote host does afterwards.                               *)
(***************************************************************************)
THEOREM DispatchOutcomeTruthful == Spec => []OutcomeTruthful
<1>1. DispatchInv => OutcomeTruthful
    BY DEF DispatchInv
<1> QED
    BY InitInv, StepInv, <1>1, PTL DEF Spec
=============================================================================
