------------------------------ MODULE Terminals ------------------------------
(***************************************************************************)
(* TerminalManager (nexus-terminal, manager.rs) and the PTY channel of     *)
(* nexus-ssh (session.rs), seen from one terminal: it is opened on a       *)
(* connection the command read beforehand, pumps output through a bounded  *)
(* queue to a polling reader, and is ended by the remote shell, the        *)
(* transport, the user, a disconnect, the removal of its host or shutdown. *)
(*                                                                         *)
(* Output bytes are numbered in the order the remote host sends them, so a *)
(* chunk is a sequence of numbers.  Terminals share nothing but the map    *)
(* and its limit, which other terminals may have filled (OpenRefused).     *)
(* The life-cycle commands of the host hold its gate and are one process,  *)
(* life.  Steps that follow each other without an await are one step.      *)
(* Input, resize and rename leave this state alone.                        *)
(***************************************************************************)
EXTENDS Naturals, Sequences

CONSTANTS
    Chunk,     \* OUTPUT_CHUNK_BYTES
    Queue,     \* OUTPUT_QUEUE_CAPACITY
    Batch,     \* OUTPUT_BATCH_BYTES
    MaxBytes,  \* bound on the bytes the remote host sends
    MaxData,   \* bound on the bytes of one SSH message
    MaxConn    \* bound on the connections of the host

ASSUME TerminalsAssumption ==
    /\ Chunk \in Nat \ {0} /\ Queue \in Nat \ {0} /\ Batch \in Nat \ {0}
    /\ MaxBytes \in Nat /\ MaxData \in Nat \ {0} /\ MaxConn \in Nat \ {0}

VARIABLES
    conn,       \* the connection of the host: id, and whether its view is Connected
    dead,       \* connections whose lifetime token is cancelled
    life,       \* the life-cycle command that holds the gate
    opener,     \* the open_terminal command: pc, the connection it read, the error it got
    view,       \* the TerminalState of the entry
    listed,     \* the entry is in ManagerState::sessions
    cancel,     \* the entry's CancellationToken
    slot,       \* Entry::channel is Some
    channel,    \* the SSH channel is open and its close not yet called
    stray,      \* a channel may be open on the server whose holder was dropped
    remote,     \* the remote side: bytes sent, bytes sent during startup, the message
                \* that ends the reading and the bytes sent before it
    got,        \* bytes the pump has read
    pump,       \* pump_output: pc and the rest of the data it is queueing
    queue,      \* OutputBuffer::receiver
    carry,      \* OutputBuffer::carryover
    poller,     \* the poll that runs: pc and the bytes it has taken
    delivered,  \* what polls have returned
    drained,    \* a poll has returned output_drained
    closer      \* the close_terminal command

sessionVars == <<conn, dead>>
entryVars == <<view, listed, cancel, slot, channel, stray>>
outputVars == <<queue, carry, delivered, drained>>
terminalVars == <<conn, dead, life, opener, view, listed, cancel, slot, channel, stray, remote, got,
                  pump, queue, carry, poller, delivered, drained, closer>>

Ended == {"Closed", "Failed", "Disconnected"}
NoLife == [pc |-> "idle", conn |-> 0, final |-> "none", next |-> "none"]

TerminalsInit ==
    /\ conn = [id |-> 0, up |-> FALSE] /\ dead = {}
    /\ life = NoLife
    /\ opener = [pc |-> "idle", conn |-> 0, error |-> "none"]
    /\ view = "none" /\ listed = FALSE /\ cancel = FALSE
    /\ slot = FALSE /\ channel = FALSE /\ stray = FALSE
    /\ remote = [sent |-> 0, startup |-> 0, end |-> "no", at |-> 0]
    /\ got = 0 /\ pump = [pc |-> "none", rest |-> <<>>]
    /\ queue = <<>> /\ carry = <<>>
    /\ poller = [pc |-> "idle", total |-> 0]
    /\ delivered = <<>> /\ drained = FALSE
    /\ closer = "idle"

-----------------------------------------------------------------------------
(***************************************************************************)
(* close_entry, run by the user's close and by the life cycle              *)
(***************************************************************************)
\* An entry that is already Disconnected is left as it is, unless it shall be
\* Closed.
Keeps(final) == view = "Disconnected" /\ final # "Closed"

CloseMark == view' = "Closing" /\ cancel' = TRUE

\* The channel is taken and its close called under its lock, within CLOSE_TIMEOUT.
CloseTake == slot' = FALSE /\ channel' = (channel /\ ~slot) /\ UNCHANGED stray

\* Needs the output lock, which a running poll holds.
CloseDrain(final) ==
    /\ poller.pc = "idle"
    /\ queue' = <<>> /\ carry' = <<>>
    /\ view' = final

-----------------------------------------------------------------------------
(***************************************************************************)
(* open_terminal and open_with_timeout                                     *)
(***************************************************************************)
Opener(pc) ==
    opener' = [opener EXCEPT !.pc = pc, !.error = IF pc = "ended" THEN "none" ELSE @]

OpenCapture ==
    /\ opener.pc = "idle"
    /\ conn.up /\ conn.id \notin dead
    /\ opener' = [opener EXCEPT !.pc = "captured", !.conn = conn.id]
    /\ UNCHANGED <<sessionVars, life, entryVars, remote, got, pump, outputVars, poller, closer>>

\* The entry is reserved under the manager lock, whatever became of the
\* connection meanwhile.
OpenReserve ==
    /\ opener.pc = "captured"
    /\ view' = "Creating" /\ listed' = TRUE
    /\ Opener("connecting")
    /\ UNCHANGED <<sessionVars, life, cancel, slot, channel, stray, remote, got, pump,
                   outputVars, poller, closer>>

\* Other terminals of the host fill the limit.
OpenRefused ==
    /\ opener.pc = "captured"
    /\ Opener("ended")
    /\ UNCHANGED <<sessionVars, life, entryVars, remote, got, pump, outputVars, poller, closer>>

\* SshSession::open_terminal: channel, PTY and shell are granted.  Output that
\* came before the confirmations is kept in pending.
OpenConnects ==
    /\ opener.pc = "connecting" /\ ~cancel
    /\ opener.conn \notin dead
    /\ channel' = TRUE
    /\ \E n \in 0..1 : remote' = [remote EXCEPT !.sent = n, !.startup = n]
    /\ Opener("judging")
    /\ UNCHANGED <<sessionVars, life, view, listed, cancel, slot, stray, got, pump, outputVars,
                   poller, closer>>

StartupError == IF cancel THEN "Disconnected" ELSE "Failed"

\* It returns an error, by the server, its own timeout, the closed transport or
\* the child token, after a bounded close of the channel it has got.
OpenFails ==
    /\ opener.pc = "connecting"
    /\ opener' = [opener EXCEPT !.pc = "failed", !.error = StartupError]
    /\ UNCHANGED <<sessionVars, life, entryVars, remote, got, pump, outputVars, poller, closer>>

\* The biased select sees the cancellation, or startup_timeout is over: the
\* future of the connector is dropped where it stands.  The plain channel it
\* holds, or the request for one that is under way, has no guard that closes it.
OpenAbandoned ==
    /\ opener.pc = "connecting"
    /\ opener' = [opener EXCEPT !.pc = "failed", !.error = StartupError]
    /\ stray' \in BOOLEAN
    /\ UNCHANGED <<sessionVars, life, view, listed, cancel, slot, channel, remote, got, pump,
                   outputVars, poller, closer>>

OpenJudge ==
    /\ opener.pc = "judging"
    /\ opener' = IF cancel THEN [opener EXCEPT !.pc = "withdrawing", !.error = "Disconnected"]
                 ELSE [opener EXCEPT !.pc = "accepting"]
    /\ UNCHANGED <<sessionVars, life, entryVars, remote, got, pump, outputVars, poller, closer>>

\* Fault variant of OpenAccept: what happened since the judgement is not seen.
OpenAcceptUnchecked ==
    /\ opener.pc = "accepting"
    /\ slot' = TRUE /\ view' = "Open"
    /\ pump' = [pump EXCEPT !.pc = "select"]
    /\ Opener("ended")
    /\ UNCHANGED <<sessionVars, life, listed, cancel, channel, stray, remote, got, outputVars,
                   poller, closer>>

\* Under the channel lock and the view lock.
OpenAccept ==
    /\ opener.pc = "accepting"
    /\ IF cancel \/ view # "Creating"
       THEN Opener("withdrawing") /\ UNCHANGED <<slot, view, pump>>
       ELSE /\ slot' = TRUE /\ view' = "Open"
            /\ pump' = [pump EXCEPT !.pc = "select"]
            /\ Opener("ended")
    /\ UNCHANGED <<sessionVars, life, listed, cancel, channel, stray, remote, got, outputVars,
                   poller, closer>>

\* A channel that came too late is closed; fail_entry only if OpenJudge saw it.
OpenWithdraw ==
    /\ opener.pc = "withdrawing"
    /\ channel' = FALSE
    /\ view' = IF opener.error = "none" THEN view ELSE opener.error
    /\ Opener("ended")
    /\ UNCHANGED <<sessionVars, life, listed, cancel, slot, stray, remote, got, pump, outputVars,
                   poller, closer>>

\* The error path: an entry that someone else finalises is left to them.
OpenError ==
    /\ opener.pc = "failed"
    /\ Opener(IF view = "Creating" THEN "failing" ELSE "ended")
    /\ cancel' = TRUE
    /\ UNCHANGED <<sessionVars, life, view, listed, slot, channel, stray, remote, got, pump,
                   outputVars, poller, closer>>

OpenFailEntry ==
    /\ opener.pc = "failing"
    /\ view' = opener.error
    /\ Opener("removing")
    /\ UNCHANGED <<sessionVars, life, listed, cancel, slot, channel, stray, remote, got, pump,
                   outputVars, poller, closer>>

OpenRemove ==
    /\ opener.pc = "removing"
    /\ listed' = FALSE
    /\ Opener("ended")
    /\ UNCHANGED <<sessionVars, life, view, cancel, slot, channel, stray, remote, got, pump,
                   outputVars, poller, closer>>

\* StartupGuard::drop: the command is dropped while it waits.  Its try_lock may
\* fail, and the ended entry then stays listed; it does not know the channel.
OpenDropped ==
    /\ opener.pc \in {"connecting", "accepting", "withdrawing", "removing"}
    /\ cancel' = TRUE
    /\ view' = IF view = "Creating" THEN "Disconnected" ELSE view
    /\ listed' \in {FALSE, listed}
    /\ channel' = FALSE
    /\ stray' \in CASE opener.pc = "removing" -> {stray}
                     [] opener.pc = "accepting" -> {TRUE}
                     [] OTHER -> BOOLEAN
    /\ Opener("ended")
    /\ UNCHANGED <<sessionVars, life, slot, remote, got, pump, outputVars, poller, closer>>

-----------------------------------------------------------------------------
(***************************************************************************)
(* The remote shell                                                        *)
(***************************************************************************)
\* Bytes may follow an exit status, an exit signal or a failure, not EOF or close;
\* one of them stands for all, since none is read.
RemoteSends ==
    /\ channel /\ remote.sent < MaxBytes
    /\ remote.end = "no" \/ (remote.end # "Closed" /\ remote.sent = remote.at)
    /\ remote' = [remote EXCEPT !.sent = @ + 1]
    /\ UNCHANGED <<sessionVars, life, opener, entryVars, got, pump, outputVars, poller, closer>>

\* Exit status or signal, EOF or close, or a failure message: the first of them
\* is the last message that is read.
RemoteEnds ==
    /\ channel /\ remote.end = "no"
    /\ \E how \in {"Exit", "Closed", "Failed"} :
          remote' = [remote EXCEPT !.end = how, !.at = remote.sent]
    /\ UNCHANGED <<sessionVars, life, opener, entryVars, got, pump, outputVars, poller, closer>>

-----------------------------------------------------------------------------
(***************************************************************************)
(* pump_output.  A biased select looks at the cancellation first and at    *)
(* its other branch afterwards: they are two steps.                        *)
(***************************************************************************)
IfOpen(state) == IF view = "Open" THEN state ELSE view

\* Fault variant of Readable: a read that does not watch the transport.
ReadableFromServer == ~channel \/ remote.sent > got \/ remote.end # "no"

\* RusshTerminalChannel::read would return.
Readable == ~channel \/ remote.sent > got \/ remote.end # "no" \/ opener.conn \in dead

PumpSelect ==
    /\ pump.pc = "select"
    /\ \/ cancel /\ pump' = [pump EXCEPT !.pc = "closing"]
       \/ ~cancel /\ Readable /\ pump' = [pump EXCEPT !.pc = "reading"]
    /\ UNCHANGED <<sessionVars, life, opener, entryVars, remote, got, outputVars, poller, closer>>

\* Bytes from pending, then, while the transport lives, from the channel, whose
\* messages come in the order they were sent.
PumpData ==
    LET available == IF opener.conn \in dead THEN remote.startup
                     ELSE IF remote.end = "no" THEN remote.sent ELSE remote.at
    IN  /\ pump.pc = "reading" /\ channel
        /\ \E n \in 1..MaxData :
              /\ got + n <= available
              /\ got < remote.startup => n = 1
              /\ pump' = [pc |-> "queueing", rest |-> [i \in 1..n |-> got + i]]
              /\ got' = got + n
        /\ UNCHANGED <<sessionVars, life, opener, entryVars, remote, outputVars, poller, closer>>

\* The end of the stream, a failure, a dead transport (TerminalUnavailable, so
\* Failed), or a channel that was closed here.
PumpStops ==
    /\ pump.pc = "reading"
    /\ \/ ~channel /\ view' = IfOpen("Closed")
       \/ /\ channel /\ opener.conn \in dead /\ got >= remote.startup
          /\ view' = IfOpen("Failed")
       \/ /\ channel /\ opener.conn \notin dead
          /\ got = remote.at /\ remote.end # "no"
          /\ view' = IfOpen(IF remote.end = "Failed" THEN "Failed" ELSE "Closed")
    /\ pump' = [pump EXCEPT !.pc = "closing"]
    /\ UNCHANGED <<sessionVars, life, opener, listed, cancel, slot, channel, stray, remote, got,
                   outputVars, poller, closer>>

\* A chunk waits for a free slot; a cancelled pump returns at once.
PumpOffer ==
    /\ pump.pc = "queueing"
    /\ \/ cancel /\ pump' = [pc |-> "done", rest |-> <<>>]
       \/ ~cancel /\ Len(queue) < Queue /\ pump' = [pump EXCEPT !.pc = "sending"]
    /\ UNCHANGED <<sessionVars, life, opener, entryVars, remote, got, outputVars, poller, closer>>

PumpSend ==
    LET n == IF Len(pump.rest) < Chunk THEN Len(pump.rest) ELSE Chunk
        rest == SubSeq(pump.rest, n + 1, Len(pump.rest))
    IN  /\ pump.pc = "sending"
        /\ queue' = Append(queue, SubSeq(pump.rest, 1, n))
        /\ pump' = [pc |-> IF rest = <<>> THEN "select" ELSE "queueing", rest |-> rest]
        /\ UNCHANGED <<sessionVars, life, opener, entryVars, remote, got, carry, delivered,
                       drained, poller, closer>>

\* The sender is dropped when pump_output returns, after the channel is closed.
PumpClose ==
    /\ pump.pc = "closing"
    /\ CloseTake
    /\ pump' = [pump EXCEPT !.pc = "done"]
    /\ UNCHANGED <<sessionVars, life, opener, view, listed, cancel, remote, got, outputVars,
                   poller, closer>>

SenderDropped == pump.pc = "done" \/ (pump.pc = "none" /\ opener.pc = "ended")

-----------------------------------------------------------------------------
(***************************************************************************)
(* poll                                                                    *)
(***************************************************************************)
\* Fault variant of Deferred: a carry-over is read but not taken.
DeferredNotTaken(chunk, cut, before) ==
    IF cut = Len(chunk) THEN carry ELSE SubSeq(chunk, cut + 1, Len(chunk))

\* What is left of a chunk for the next poll; a chunk that fits leaves the
\* carry-over as it was before.
Deferred(chunk, cut, before) ==
    IF cut = Len(chunk) THEN before ELSE SubSeq(chunk, cut + 1, Len(chunk))

\* append_output_chunk: as much of a chunk as the batch has room for.
AppendOutputChunk(chunk, total, before) ==
    LET remaining == Batch - total
        cut == IF Len(chunk) > remaining THEN remaining ELSE Len(chunk)
    IN  /\ delivered' = delivered \o SubSeq(chunk, 1, cut)
        /\ carry' = Deferred(chunk, cut, before)
        /\ poller' = [pc |-> "receiving", total |-> total + cut]

Poller(pc) == poller' = [pc |-> pc, total |-> 0]

\* The entry is found and its output locked; the carry-over comes first.
PollBegin ==
    /\ poller.pc = "idle" /\ listed /\ ~drained
    /\ AppendOutputChunk(carry, 0, <<>>)
    /\ UNCHANGED <<sessionVars, life, opener, entryVars, remote, got, pump, queue, drained, closer>>

\* Chunks are received until the batch is full; the pump may go on sending.
PollReceive ==
    /\ poller.pc = "receiving" /\ poller.total < Batch /\ queue # <<>>
    /\ AppendOutputChunk(Head(queue), poller.total, carry)
    /\ queue' = Tail(queue)
    /\ UNCHANGED <<sessionVars, life, opener, entryVars, remote, got, pump, drained, closer>>

PollTaken ==
    /\ poller.pc = "receiving" /\ (poller.total >= Batch \/ queue = <<>>)
    /\ Poller("took")
    /\ UNCHANGED <<sessionVars, life, opener, entryVars, remote, got, pump, outputVars, closer>>

\* Fault variant of DrainCheck: is_empty is asked before is_closed.
DrainCheckSwapped(step) ==
    IF step = "took" THEN carry = <<>> /\ queue = <<>> ELSE SenderDropped

\* carryover.is_none() && is_closed(), and then is_empty().
DrainCheck(step) ==
    IF step = "took" THEN carry = <<>> /\ SenderDropped ELSE queue = <<>>

PollClosed ==
    /\ poller.pc = "took"
    /\ Poller(IF DrainCheck("took") THEN "closed" ELSE "idle")
    /\ UNCHANGED <<sessionVars, life, opener, entryVars, remote, got, pump, outputVars, closer>>

PollEmpty ==
    /\ poller.pc = "closed"
    /\ drained' = DrainCheck("closed")
    /\ Poller("idle")
    /\ UNCHANGED <<sessionVars, life, opener, entryVars, remote, got, pump, queue, carry,
                   delivered, closer>>

-----------------------------------------------------------------------------
(***************************************************************************)
(* close_terminal                                                          *)
(***************************************************************************)
CloserSteps ==
    \/ /\ closer = "marked"
       /\ CloseTake /\ closer' = "taken"
       /\ UNCHANGED <<view, listed, cancel, outputVars>>
    \/ /\ closer = "taken"
       /\ CloseDrain("Closed") /\ closer' = "drained"
       /\ UNCHANGED <<listed, cancel, slot, channel, stray, delivered, drained>>
    \/ /\ closer = "drained"
       /\ listed' = FALSE /\ closer' = "ended"
       /\ UNCHANGED <<view, cancel, slot, channel, stray, outputVars>>

\* Once the entry is gone its tombstone answers further closes.
CloseBegin ==
    /\ closer = "idle" /\ listed
    /\ CloseMark /\ closer' = "marked"
    /\ UNCHANGED <<sessionVars, life, opener, listed, slot, channel, stray, remote, got, pump,
                   outputVars, poller>>

CloseStep == CloserSteps /\ UNCHANGED <<sessionVars, life, opener, remote, got, pump, poller>>

-----------------------------------------------------------------------------
(***************************************************************************)
(* The life cycle of the host: each command ends the terminals its         *)
(* snapshot of the map holds and then does what it is for.                 *)
(***************************************************************************)
Life(pc) == life' = IF pc = "idle" THEN NoLife ELSE [life EXCEPT !.pc = pc]
LifeBegins(final, next) ==
    life' = [pc |-> "snapshot", conn |-> conn.id, final |-> final, next |-> next]

Connect ==
    /\ life.pc = "idle" /\ conn.id = 0
    /\ \E c \in 1..MaxConn :
          /\ c \notin dead /\ c # opener.conn
          /\ conn' = [id |-> c, up |-> TRUE]
    /\ UNCHANGED <<dead, life, opener, entryVars, remote, got, pump, outputVars, poller, closer>>

TransportLost ==
    /\ conn.id # 0 /\ conn.id \notin dead
    /\ dead' = dead \cup {conn.id}
    /\ UNCHANGED <<conn, life, opener, entryVars, remote, got, pump, outputVars, poller, closer>>

\* prepare_disconnect, then finish_disconnect: disconnect_connection first.
DisconnectBegin ==
    /\ life.pc = "idle" /\ conn.id # 0
    /\ conn' = [conn EXCEPT !.up = FALSE]
    /\ LifeBegins("Disconnected", "drop")
    /\ UNCHANGED <<dead, opener, entryVars, remote, got, pump, outputVars, poller, closer>>

\* get_session finds the transport closed: the session is failed first.
SessionClosed ==
    /\ life.pc = "idle" /\ conn.up /\ conn.id \in dead
    /\ conn' = [id |-> 0, up |-> FALSE]
    /\ LifeBegins("Disconnected", "idle")
    /\ UNCHANGED <<dead, opener, entryVars, remote, got, pump, outputVars, poller, closer>>

\* remove_host: the host is deleted, or edited, while it has no session.
RemoveHostBegin ==
    /\ life.pc = "idle" /\ conn.id = 0
    /\ LifeBegins("Closed", "retain")
    /\ UNCHANGED <<sessionVars, opener, entryVars, remote, got, pump, outputVars, poller, closer>>

\* shutdown, when no command runs any more (ProcessLifecycle).
ShutdownBegin ==
    /\ life.pc = "idle"
    /\ opener.pc \in {"idle", "ended"} /\ closer \in {"idle", "ended"} /\ poller.pc = "idle"
    /\ opener' = [opener EXCEPT !.pc = "ended"]
    /\ closer' = "ended"
    /\ conn' = [conn EXCEPT !.up = FALSE]
    /\ LifeBegins("Closed", "exit")
    /\ UNCHANGED <<dead, entryVars, remote, got, pump, outputVars, poller>>

\* disconnect_connection looks for entries of the connection, remove_host and
\* shutdown for all; an entry that is to keep its state is passed over.
LifeSnapshot ==
    LET mine == listed /\ (life.final = "Disconnected" => opener.conn = life.conn)
    IN  /\ life.pc = "snapshot"
        /\ Life(IF mine THEN "found" ELSE life.next)
        /\ UNCHANGED <<sessionVars, opener, entryVars, remote, got, pump, outputVars, poller,
                       closer>>

\* close_sftp fails first and the command returns: the terminals are not looked
\* at, and a disconnected host keeps its connection.
LifeAborts ==
    /\ life.pc = "snapshot" /\ life.final = "Disconnected"
    /\ Life("idle")
    /\ UNCHANGED <<sessionVars, opener, entryVars, remote, got, pump, outputVars, poller, closer>>

LifeMark ==
    /\ life.pc = "found"
    /\ IF Keeps(life.final)
       THEN Life(life.next) /\ UNCHANGED <<view, cancel>>
       ELSE Life("marked") /\ CloseMark
    /\ UNCHANGED <<sessionVars, opener, listed, slot, channel, stray, remote, got, pump,
                   outputVars, poller, closer>>

LifeTake ==
    /\ life.pc = "marked"
    /\ CloseTake /\ Life("taken")
    /\ UNCHANGED <<sessionVars, opener, view, listed, cancel, remote, got, pump, outputVars,
                   poller, closer>>

LifeDrain ==
    /\ life.pc = "taken"
    /\ CloseDrain(life.final) /\ Life(life.next)
    /\ UNCHANGED <<sessionVars, opener, listed, cancel, slot, channel, stray, remote, got, pump,
                   delivered, drained, poller, closer>>

\* finish_disconnect: the session is dropped, then the transport disconnected.
LifeDrop ==
    /\ life.pc = "drop"
    /\ dead' = dead \cup {conn.id}
    /\ conn' = [id |-> 0, up |-> FALSE]
    /\ Life("idle")
    /\ UNCHANGED <<opener, entryVars, remote, got, pump, outputVars, poller, closer>>

\* remove_host and shutdown: whatever the map holds by now is forgotten.
LifeRetain ==
    /\ life.pc \in {"retain", "exit"}
    /\ listed' = FALSE
    /\ IF life.pc = "exit"
       THEN /\ dead' = IF conn.id = 0 THEN dead ELSE dead \cup {conn.id}
            /\ conn' = [id |-> 0, up |-> FALSE]
            /\ Life("exited")
       ELSE Life("idle") /\ UNCHANGED sessionVars
    /\ UNCHANGED <<opener, view, cancel, slot, channel, stray, remote, got, pump, outputVars,
                   poller, closer>>

-----------------------------------------------------------------------------
OpenStep ==
    \/ OpenReserve \/ OpenConnects \/ OpenFails \/ OpenAbandoned
    \/ OpenJudge \/ OpenAccept \/ OpenWithdraw \/ OpenError \/ OpenFailEntry \/ OpenRemove

PumpStep ==
    \/ PumpSelect \/ PumpData \/ PumpStops \/ PumpOffer \/ PumpSend \/ PumpClose

PollStep == PollBegin \/ PollReceive \/ PollTaken \/ PollClosed \/ PollEmpty

LifeStep ==
    \/ LifeSnapshot \/ LifeAborts \/ LifeMark \/ LifeTake
    \/ LifeDrain \/ LifeDrop \/ LifeRetain

TerminalsNext ==
    \/ OpenCapture \/ OpenRefused \/ OpenStep \/ OpenDropped
    \/ RemoteSends \/ RemoteEnds
    \/ PumpStep
    \/ PollStep
    \/ CloseBegin \/ CloseStep
    \/ Connect \/ TransportLost \/ DisconnectBegin \/ SessionClosed
    \/ RemoveHostBegin \/ ShutdownBegin
    \/ LifeStep

\* Commands that have begun run on, each wait in them having a timeout, and so
\* does the pump; the renderer polls as long as the terminal is listed.
TerminalsSpec ==
    /\ TerminalsInit /\ [][TerminalsNext]_terminalVars
    /\ WF_terminalVars(OpenStep) /\ WF_terminalVars(PumpStep)
    /\ WF_terminalVars(PollStep)
    /\ WF_terminalVars(CloseStep) /\ WF_terminalVars(LifeStep)

-----------------------------------------------------------------------------
(***************************************************************************)
(* Properties                                                              *)
(***************************************************************************)
\* Polls return the output in the order it was sent, nothing twice, and, until
\* a close or a disconnect throws output away, without a gap, across chunks,
\* batches, the carry-over and a full queue.
OutputInOrder ==
    \A i \in DOMAIN delivered :
        /\ i > 1 => delivered[i - 1] < delivered[i]
        /\ ~cancel => delivered[i] = i

\* output_drained is only reported once polls have returned every byte the pump
\* has read, and of a shell that ended by itself every byte it sent before the
\* message that ended the reading: all it sent if that was EOF or close, whereas
\* what it sends after its exit status is never read.  Only a terminal that is
\* closed or disconnected may have lost more.
DrainedIsComplete ==
    drained /\ ~cancel =>
        /\ Len(delivered) = got
        /\ view = "Closed" =>
              /\ remote.end \in {"Exit", "Closed"} /\ got = remote.at
              /\ remote.end = "Closed" => got = remote.sent

\* A channel of a live transport belongs to a listed entry that holds it, so that
\* a close, a disconnect or the removal of the host finds it, or its close has
\* been called, however open_terminal was overtaken.  The one exception is a
\* startup that was dropped, by a close, a disconnect, startup_timeout or its
\* caller: it may leave a channel on the server, but only before a terminal was
\* accepted for it, and that terminal is ended.
ChannelHasOwner ==
    opener.pc = "ended" /\ opener.conn \notin dead =>
        /\ channel => listed /\ slot
        /\ stray => pump.pc = "none" /\ view \in Ended \cup {"Closing"}

\* A terminal that was cancelled or whose transport died ends: its state is
\* final and its pump has returned, although the pump may be waiting for room
\* in a queue and the entry may have been reserved after the disconnect.
TerminalEnds ==
    (view # "none" /\ (cancel \/ opener.conn \in dead))
        ~> (view \in Ended /\ pump.pc \in {"none", "done"})
=============================================================================
