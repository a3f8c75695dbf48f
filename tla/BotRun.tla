------------------------------- MODULE BotRun -------------------------------
(***************************************************************************)
(* One run of a bot over the network (internal/botapi): Town's client      *)
(* posts a request and reads numbered frames until the terminal one; the   *)
(* bot's server runs the handler and writes hello, heartbeats, events and  *)
(* the result.  Cancel requests travel on connections of their own.  A     *)
(* gateway may stand between the two.  Town applies the answer, or         *)
(* reconciles the run when the answer leaves its outcome open.             *)
(*                                                                         *)
(* A run has an identifier of its own, so one run is enough.  What frames  *)
(* and results carry, the identity check and the size bounds are left out, *)
(* except that a result may be too large to send.  A timer may fire        *)
(* whenever it is set; one that only a fault can make fire is a fault.  A  *)
(* gateway that fails answers 502 or 504, the two statuses Town takes for  *)
(* an uncertain outcome; any other refusal counts as the bot's own.        *)
(***************************************************************************)
EXTENDS Naturals, Sequences

CONSTANTS
    MaxSends,    \* bound: events and heartbeats a run sends
    MaxNetFaults \* bound: lost connections, gateways, shutdowns, crashes

ASSUME RunConstants == MaxSends \in Nat /\ MaxNetFaults \in Nat

CancelTries == 5

VARIABLES
    client,   \* the call of Client.Run and what it returned
    ended,    \* Town's context for the run ended
    cancels,  \* cancelRun: attempts left, and whether one is on its way
    request,  \* where the request to run is
    frames,   \* the frames on their way, oldest first
    up,       \* the connection that carries the stream
    server,   \* the bot's side: the run and its frameWriter
    netfaults,
    seen      \* read by no action: the events sent, and those relayed

botrun == <<client, ended, cancels, request, frames, up, server, netfaults, seen>>

Causes   == {"none", "canceled", "gone", "shutdown"}
Verdicts == {"none", "result", "uncertain", "unavailable"}
Hello == "hello"
Beat == "heartbeat"
Kinds == {Hello, Beat, "event", "done"}

RunInit ==
    /\ client = [pc |-> "idle", next |-> 0, verdict |-> "none"]
    /\ ended = FALSE
    /\ cancels = [left |-> CancelTries, flying |-> FALSE, taken |-> FALSE]
    /\ request = "none" /\ frames = <<>> /\ up = FALSE
    /\ server = [pc |-> "none", cause |-> "none", seq |-> 0, sends |-> 0,
                 broken |-> FALSE, done |-> FALSE, cut |-> FALSE]
    /\ netfaults = 0 /\ seen = [sent |-> {}, heard |-> {}]

NetFault == netfaults < MaxNetFaults /\ netfaults' = netfaults + 1
InCall   == client.pc \in {"dial", "headers", "stream"}
Active   == server.pc \in {"running", "returned"}

----------------------------------------------------------------------------
\* The client.

\* finish: Run returns and closes its connection.
ReturnsWith(v) ==
    /\ client' = [client EXCEPT !.pc = "over", !.verdict = v]
    /\ up' = FALSE /\ frames' = <<>>
Uncertain == ReturnsWith("uncertain")

\* Nothing is sent for a run that was canceled before.
Call ==
    /\ client.pc = "idle"
    /\ IF ended THEN ReturnsWith("unavailable")
       ELSE client' = [client EXCEPT !.pc = "dial"] /\ UNCHANGED <<up, frames>>
    /\ UNCHANGED <<ended, cancels, request, server, netfaults, seen>>

CtxEnds ==
    /\ client.pc # "over" /\ ~ended /\ ended' = TRUE
    /\ UNCHANGED <<client, cancels, request, frames, up, server, netfaults, seen>>

\* A request with a body gets a fresh connection: a bot that is gone fails the
\* dial, before anything is sent, and so does a stream closed meanwhile.
DialFails ==
    /\ client.pc = "dial" /\ NetFault
    /\ ReturnsWith(IF ended THEN "uncertain" ELSE "unavailable")
    /\ UNCHANGED <<ended, cancels, request, server, seen>>

SendRequest ==
    /\ client.pc = "dial"
    /\ client' = [client EXCEPT !.pc = "headers"]
    /\ request' = "flying" /\ up' = TRUE
    /\ UNCHANGED <<ended, cancels, frames, server, netfaults, seen>>

\* A refusal before anything was done with the request.
Refused ==
    /\ client.pc = "headers" /\ request = "flying"
    /\ NetFault /\ request' = "lost" /\ ReturnsWith("unavailable")
    /\ UNCHANGED <<ended, cancels, server, seen>>

\* A bug: any refusal means that the bot never began.
GatewayTrusted ==
    /\ client.pc = "headers" /\ request # "none" /\ frames = <<>>
    /\ NetFault /\ ReturnsWith("unavailable")
    /\ UNCHANGED <<ended, cancels, request, server, seen>>

\* A gateway may have forwarded the request before it failed.
GatewayFails ==
    /\ client.pc = "headers" /\ request # "none" /\ frames = <<>>
    /\ NetFault /\ Uncertain
    /\ UNCHANGED <<ended, cancels, request, server, seen>>

\* The frames must be numbered from zero without a gap, open with hello and
\* end with done.
Legal(f) == f.seq = client.next /\ (f.kind = Hello <=> client.next = 0)

ReadFrame ==
    /\ client.pc \in {"headers", "stream"} /\ frames # <<>>
    /\ LET f == Head(frames) IN
       IF ~Legal(f) THEN Uncertain /\ UNCHANGED seen
       ELSE IF f.kind = "done" THEN
            /\ ReturnsWith(IF f.uncertain \/ Len(frames) > 1 THEN "uncertain" ELSE "result")
            /\ UNCHANGED seen
       ELSE /\ client' = [client EXCEPT !.pc = "stream", !.next = @ + 1]
            /\ frames' = Tail(frames) /\ UNCHANGED up
            /\ seen' = IF f.kind = "event" /\ ~ended
                       THEN [seen EXCEPT !.heard = @ \cup {f.seq}] ELSE seen
    /\ UNCHANGED <<ended, cancels, request, server, netfaults>>

\* The stream broke, or ended before the result.
ReadBreak ==
    /\ client.pc \in {"headers", "stream"} /\ ~up /\ frames = <<>>
    /\ Uncertain
    /\ UNCHANGED <<ended, cancels, request, server, netfaults, seen>>

\* The watchdog: a minute without a frame, six times the heartbeat's interval.
GoesSilent ==
    /\ client.pc \in {"headers", "stream"} /\ NetFault /\ Uncertain
    /\ UNCHANGED <<ended, cancels, request, server, seen>>

\* The cancel goroutine: up to five requests, until the bot takes one; then
\* the stream is closed after a grace.
SendCancel ==
    /\ InCall /\ ended /\ ~cancels.taken /\ cancels.left > 0 /\ ~cancels.flying
    /\ cancels' = [cancels EXCEPT !.left = @ - 1, !.flying = TRUE]
    /\ UNCHANGED <<client, ended, request, frames, up, server, netfaults, seen>>

GraceEnds ==
    /\ InCall /\ ended /\ ~cancels.flying /\ (cancels.taken \/ cancels.left = 0)
    /\ Uncertain
    /\ UNCHANGED <<ended, cancels, request, server, netfaults, seen>>

----------------------------------------------------------------------------
\* The network.

\* The connection ends; what was written before may still arrive.
Disconnect ==
    /\ up /\ NetFault /\ up' = FALSE
    /\ \E n \in 0..Len(frames) : frames' = SubSeq(frames, 1, n)
    /\ request' = IF request = "flying" THEN "lost" ELSE request
    /\ UNCHANGED <<client, ended, cancels, server, seen>>

\* A cancel request is lost, or finds no run and is answered 404.
CancelMisses ==
    /\ cancels.flying
    /\ IF Active THEN NetFault ELSE UNCHANGED netfaults
    /\ cancels' = [cancels EXCEPT !.flying = FALSE]
    /\ UNCHANGED <<client, ended, request, frames, up, server, seen>>

----------------------------------------------------------------------------
\* The bot's server.

\* context.Cause: the first cancel of the run is the one that counts.
CanceledBy(s, cause) ==
    IF s.cause = "none" THEN [s EXCEPT !.cause = cause] ELSE s

\* frameWriter: the number rises with every frame, also on a broken stream; a
\* write that fails cancels the run.
Write(s, f) ==
    IF up THEN /\ frames' = Append(frames, f)
               /\ server' = [s EXCEPT !.seq = @ + 1]
    ELSE /\ UNCHANGED frames
         /\ server' = CanceledBy([s EXCEPT !.seq = @ + 1, !.broken = TRUE], "gone")
FrameOf(kind, uncertain) ==
    [seq |-> server.seq, kind |-> kind, uncertain |-> uncertain]

\* The whole request was read: the run is registered and says hello.
Accept ==
    /\ request = "flying" /\ request' = "taken"
    /\ Write([server EXCEPT !.pc = "running"], FrameOf(Hello, FALSE))
    /\ UNCHANGED <<client, ended, cancels, up, netfaults, seen>>

Sending == server.sends < MaxSends /\ ~server.done

Heartbeat ==
    /\ server.pc = "running" /\ Sending
    /\ Write([server EXCEPT !.sends = @ + 1], FrameOf(Beat, FALSE))
    /\ UNCHANGED <<client, ended, cancels, request, up, netfaults, seen>>

\* The handler's events, until it returned: the worker then closes its stream
\* and drops what a goroutine left behind still sends.
Emit ==
    /\ server.pc = "running" /\ Sending
    /\ Write([server EXCEPT !.sends = @ + 1], FrameOf("event", FALSE))
    /\ seen' = [seen EXCEPT !.sent = @ \cup {server.seq}]
    /\ UNCHANGED <<client, ended, cancels, request, up, netfaults>>

\* The handler returns: with its work done, or because its context ended.
Return ==
    /\ server.pc = "running"
    /\ \E cut \in {FALSE, server.cause # "none"} :
          server' = [server EXCEPT !.pc = "returned", !.cut = cut]
    /\ UNCHANGED <<client, ended, cancels, request, frames, up, netfaults, seen>>

\* The terminal frame.  A run that something other than Town's cancel stopped
\* is uncertain, and so is one whose result is too large.
Finish ==
    /\ server.pc = "returned"
    /\ \E tooLarge \in BOOLEAN :
          /\ IF tooLarge THEN NetFault ELSE UNCHANGED netfaults
          /\ Write([server EXCEPT !.pc = "over", !.done = TRUE],
                   FrameOf("done", tooLarge \/ server.cause \notin {"none", "canceled"}))
    /\ UNCHANGED <<client, ended, cancels, request, up, seen>>

\* The end of the connection ends the request's context.
ServiceGone ==
    /\ Active /\ ~up /\ server' = CanceledBy(server, "gone") /\ server' # server
    /\ UNCHANGED <<client, ended, cancels, request, frames, up, netfaults, seen>>

CancelArrives ==
    /\ cancels.flying /\ Active
    /\ server' = CanceledBy(server, "canceled")
    /\ cancels' = [cancels EXCEPT !.flying = FALSE, !.taken = TRUE]
    /\ UNCHANGED <<client, ended, request, frames, up, netfaults, seen>>

\* The bot is told to stop: every run's context ends.
Shutdown ==
    /\ Active /\ server.cause = "none" /\ NetFault
    /\ server' = CanceledBy(server, "shutdown")
    /\ UNCHANGED <<client, ended, cancels, request, frames, up, seen>>

\* The bot dies; its connections end with it.
Die ==
    /\ Active /\ NetFault
    /\ server' = [server EXCEPT !.pc = "dead", !.cut = TRUE]
    /\ up' = FALSE /\ \E n \in 0..Len(frames) : frames' = SubSeq(frames, 1, n)
    /\ UNCHANGED <<client, ended, cancels, request, seen>>

RunNext ==
    \/ Call \/ CtxEnds \/ DialFails \/ SendRequest \/ Refused \/ GatewayFails
    \/ ReadFrame \/ ReadBreak \/ GoesSilent \/ SendCancel \/ GraceEnds
    \/ Disconnect \/ CancelMisses
    \/ Accept \/ Heartbeat \/ Emit \/ Return \/ Finish
    \/ ServiceGone \/ CancelArrives \/ Shutdown \/ Die

RunSpec == RunInit /\ [][RunNext]_botrun

----------------------------------------------------------------------------
\* Properties.

RunTypeOK ==
    /\ client.pc \in {"idle", "dial", "headers", "stream", "over"}
    /\ client.verdict \in Verdicts /\ client.next \in 0..(MaxSends + 2)
    /\ ended \in BOOLEAN /\ up \in BOOLEAN
    /\ request \in {"none", "flying", "taken", "lost"}
    /\ cancels.left \in 0..CancelTries
    /\ \A i \in DOMAIN frames : frames[i].kind \in Kinds
    /\ server.pc \in {"none", "running", "returned", "over", "dead"}
    /\ server.cause \in Causes /\ server.seq \in 0..(MaxSends + 2)
    /\ netfaults \in 0..MaxNetFaults

\* BotWorkers.run: what Town makes of the answer.
Interrupted == ended \/ client.verdict = "uncertain"

(* Town sends the work again after an answer that leaves nothing open only   *)
(* when the bot never began, and applies a result only when the handler      *)
(* returned it whole; every other run it reconciles first.                   *)
SettledIsSettled ==
    client.pc = "over" /\ ~Interrupted =>
        IF client.verdict = "unavailable" THEN request # "taken" /\ server.pc = "none"
        ELSE server.pc = "over" /\ ~server.cut /\ seen.heard = seen.sent

(* Without a fault and without a cancel, no run is left to be reconciled:    *)
(* heartbeats and events written at once never break the stream's order.     *)
NoFalseAlarm ==
    netfaults = 0 /\ client.pc = "over" => ended \/ client.verdict = "result"

RunHolds == RunTypeOK /\ SettledIsSettled /\ NoFalseAlarm
=============================================================================
