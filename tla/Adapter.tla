------------------------------ MODULE Adapter ------------------------------
(***************************************************************************)
(* The delivery of a message to the Harness of one Bot                      *)
(* (messaging/handler.go, internal/adapter).  A delivery to a native CLI    *)
(* runs a process; its goroutines copy stdout and stderr, and a context     *)
(* that ends kills it.  A delivery to a webhook reads a response.  The      *)
(* Harness is the environment: it may stop, fail, repeat itself or take     *)
(* back that it was finished at any point, and what it really said and did  *)
(* is kept in agent.                                                        *)
(***************************************************************************)
EXTENDS NativeStream, FiniteSets

CONSTANTS
    Products,        \* the Harnesses a Bot may be bound to
    MaxDeliveries,   \* bound: deliveries, numbered as they begin
    Inbox,           \* the messages that may arrive, as records of Messages
    Senders,
    AllowedAgents,   \* the allow list of the binding; NoAgent for a message that names none
    NoAgent,
    SessionKeys,     \* session keys of messages; NoKey for a message without one
    NoKey,
    MaxRunning,      \* slots of the Bot's limiter
    PipeSize,        \* bound: events between the process and its reader
    MaxTurns, MaxSays,   \* bound: turns and chunks of all the answers
    MaxLosses        \* bound: native session files that get lost

VARIABLES
    product,    \* the Harness of the binding
    conv,       \* [Deliveries -> sender, agent, session key and type of its message]
    at,         \* [Deliveries -> where DeliverMessage is]
    ended,      \* [Deliveries -> BOOLEAN]: the context is done
    proc,       \* [Deliveries -> the native process, or the connection]
    pipe,       \* [Deliveries -> Seq(event)]: written and not yet read
    tail,       \* [Deliveries -> Seq(event)]: a last line without its newline
    stream,     \* [Deliveries -> what has been made of the events]
    failed,     \* [Deliveries -> BOOLEAN]: the output budget has an error
    resumed,    \* [Deliveries -> the native session it continues]
    verdict,    \* [Deliveries -> what the caller is told]
    sessions,   \* [scoped key -> native session]: the session store
    filed,      \* the native sessions that pi or omp has a sound file of
    losses,     \* counts against MaxLosses
    agent,      \* [Deliveries -> what the Harness has really done]
    turns, says \* count against MaxTurns and MaxSays

harness == <<proc, pipe, agent, turns, says>>
reader == <<ended, tail, stream, failed>>
kept == <<sessions, filed, losses>>
adapterVars == <<product, conv, at, harness, reader, resumed, verdict, kept>>

\* The number of a delivery is the ID of its message as well.
Deliveries == 1 .. MaxDeliveries

\* A request, an event about a run (feedback), or the daemon's own notice of a file
\* (local), whose answer nobody streams.
Messages == [from : Senders, agent : AllowedAgents \cup {NoAgent},
             key : SessionKeys \cup {NoKey}, kind : {"request", "feedback", "local"}]
NoConv == [from |-> NoKey, agent |-> NoAgent, key |-> NoKey, kind |-> "request"]

\* Names of deliveries and sessions, of session keys, and none of them.  A session
\* key may well be the ID of a message: the Harness is told it as the key to answer
\* under, and the sender follows up with it.
ASSUME AdapterAssumption ==
    /\ Products \subseteq {"codex", "opencode", "pi", "omp", "openclaw", "webhook"}
    /\ Inbox \subseteq Messages
    /\ NoSession \notin Deliveries /\ NoKey \notin SessionKeys \cup Deliveries
    /\ {MaxDeliveries, MaxRunning, PipeSize, MaxItems, MaxTurns, MaxSays, MaxLosses} \subseteq Nat

\* a message without a session key goes under its own ID
Key(d, c) == IF c.key = NoKey THEN d ELSE c.key

\* Mutant: the key is not scoped by its sender.
ScopedKeyShared(d, c) == <<CHOOSE from \in Senders : TRUE, c.agent, Key(d, c)>>
\* Mutant: nor by the agent that is asked.
ScopedKeyOfAnyAgent(d, c) == <<c.from, NoAgent, Key(d, c)>>

\* A session key belongs to the sender that chose it and the agent it asks.
ScopedKey(d, c) == <<c.from, c.agent, Key(d, c)>>
Keys == Senders \X (AllowedAgents \cup {NoAgent}) \X (SessionKeys \cup Deliveries)

Pi == product \in {"pi", "omp"}
Stateful == product \in {"codex", "opencode", "pi", "omp"}

Pending == [kind |-> "none", maybe |-> FALSE]
Verdict(kind, maybe) == [kind |-> kind, maybe |-> maybe]

Dormant == [phase |-> "none", turn |-> 0, item |-> 0, part |-> <<>>, said |-> <<>>,
            session |-> NoSession, stop |-> "none", settled |-> "no", quiet |-> FALSE]

AdapterInit ==
           /\ product \in Products
           /\ conv = [d \in Deliveries |-> NoConv]
           /\ at = [d \in Deliveries |-> "idle"]
           /\ ended = [d \in Deliveries |-> FALSE]
           /\ proc = [d \in Deliveries |-> "none"]
           /\ pipe = [d \in Deliveries |-> <<>>]
           /\ tail = [d \in Deliveries |-> <<>>]
           /\ stream = [d \in Deliveries |-> NewStream(TRUE, NoSession)]
           /\ failed = [d \in Deliveries |-> FALSE]
           /\ resumed = [d \in Deliveries |-> NoSession]
           /\ verdict = [d \in Deliveries |-> Pending]
           /\ sessions = [k \in Keys |-> NoSession]
           /\ filed = {}
           /\ losses = 0
           /\ agent = [d \in Deliveries |-> Dormant]
           /\ turns = 0 /\ says = 0

Return(d, v) == at' = [at EXCEPT ![d] = "done"] /\ verdict' = [verdict EXCEPT ![d] = v]
Uncertain(d) == Return(d, Verdict("failed", TRUE))
GoOn(d, place) == at' = [at EXCEPT ![d] = place] /\ UNCHANGED verdict

Running(d) == at[d] \notin {"idle", "done", "gone"}

(***************************************************************************)
(* The native CLI, as the adapters know it from its output (environment).   *)
(***************************************************************************)
Event(type, d) ==
    [type |-> type, session |-> agent[d].session, message |-> agent[d].turn, item |-> 0,
     text |-> <<>>, final |-> TRUE, role |-> "assistant", stop |-> "none", again |-> FALSE]

Alive(d, phases) == at[d] = "running" /\ proc[d] = "alive" /\ agent[d].phase \in phases

\* a pipe without its reader takes nothing
Write(d, e) ==
    /\ Sound(stream[d]) /\ Len(pipe[d]) < PipeSize
    /\ pipe' = [pipe EXCEPT ![d] = Append(@, e)]

Act(d, a) ==
    /\ agent' = [agent EXCEPT ![d] = a]
    /\ turns' = turns + a.turn - agent[d].turn /\ turns' <= MaxTurns
    /\ says' = says + Len(a.said) - Len(agent[d].said) /\ says' <= MaxSays
    /\ UNCHANGED <<proc, kept>>
Fresh(d, n) == [i \in 1 .. n |-> Len(agent[d].said) + i]
\* the Harness says n new chunks, as part of the current message or item
Said(d, n) == [agent[d] EXCEPT !.said = @ \o Fresh(d, n), !.part = @ \o Fresh(d, n)]

\* it continues the session it was given, or a new one all the same
Announce(d) ==
    /\ Alive(d, {"boot"})
    /\ \E id \in {d, resumed[d]} \ {NoSession} :
          /\ agent' = [agent EXCEPT ![d].phase = "ready", ![d].session = id]
          /\ filed' = IF Pi THEN filed \cup {id} ELSE filed
          /\ IF product = "codex" \/ Pi
             THEN Write(d, [Event("session", d) EXCEPT !.session = id])
             ELSE UNCHANGED pipe
    /\ UNCHANGED <<proc, turns, says, sessions, losses>>

BeginTurn(d) ==
    /\ Alive(d, IF product \in {"codex", "openclaw"} THEN {"ready"} ELSE {"ready", "stopped"})
    /\ LET a == [agent[d] EXCEPT !.phase = "turn", !.turn = @ + 1, !.settled = "no",
                             !.stop = "none"]
       IN  /\ Act(d, a)
           /\ IF product = "openclaw" THEN UNCHANGED pipe
              ELSE Write(d, [Event("begin", d) EXCEPT !.message = a.turn])

StartMessage(d) ==
    /\ Pi /\ Alive(d, {"turn"})
    /\ \E quiet \in BOOLEAN :
          Act(d, [agent[d] EXCEPT !.phase = "speaking", !.part = <<>>, !.quiet = quiet])
    /\ Write(d, Event("message_start", d))

\* the result of a tool is a message as well, between two turns
ToolMessage(d) ==
    /\ Pi /\ Alive(d, {"ready"}) /\ agent[d].turn > 0
    /\ Write(d, [Event("message_start", d) EXCEPT !.role = "tool"])
    /\ UNCHANGED <<proc, agent, turns, says, kept>>

\* codex and opencode repeat the text of an item or part from its beginning
SayItem(d) ==
    /\ product \in {"codex", "opencode"} /\ Alive(d, {"turn"})
    /\ \E n \in 1 .. MaxSays - says :
          \/ LET a == Said(d, n) IN
                /\ a.item > 0 /\ Act(d, a)
                /\ Write(d, [Event("text", d) EXCEPT !.item = a.item, !.text = a.part])
          \/ /\ agent[d].item < MaxItems
             /\ Act(d, [Said(d, n) EXCEPT !.part = Fresh(d, n), !.item = @ + 1])
             /\ Write(d, [Event("text", d) EXCEPT !.item = agent[d].item + 1,
                                                  !.text = Fresh(d, n)])
          \/ /\ Act(d, [Said(d, n) EXCEPT !.part = agent[d].part])
             /\ Write(d, [Event("text", d) EXCEPT !.text = Fresh(d, n)])

RepeatItem(d) ==
    /\ product \in {"codex", "opencode"} /\ Alive(d, {"turn"}) /\ agent[d].item > 0
    /\ Write(d, [Event("text", d) EXCEPT !.item = agent[d].item, !.text = agent[d].part])
    /\ UNCHANGED <<proc, agent, turns, says, kept>>

\* pi and omp stream the text of a message, or (quiet) give it at its end only
SayDelta(d) ==
    /\ Pi /\ Alive(d, {"speaking"}) /\ ~agent[d].quiet
    /\ Act(d, Said(d, 1))
    /\ Write(d, [Event("delta", d) EXCEPT !.text = Fresh(d, 1)])

EndMessage(d) ==
    /\ Pi /\ Alive(d, {"speaking"})
    /\ \E stop \in {"stop", "toolUse", "error"} :
          LET n == IF agent[d].quiet /\ says < MaxSays /\ stop # "error"
                   THEN 1 ELSE 0
              a == [Said(d, n) EXCEPT !.phase = "closing", !.stop = stop, !.quiet = FALSE]
          IN  /\ Act(d, a)
              /\ Write(d, [Event("message_end", d) EXCEPT !.stop = stop, !.text = a.part])

PhaseAfter(stop) == CASE stop = "stop" -> "stopped" [] stop = "toolUse" -> "ready"
                      [] OTHER -> "over"

\* turn_end repeats the message
EndPiTurn(d) ==
    /\ Pi /\ Alive(d, {"closing"})
    /\ Act(d, [agent[d] EXCEPT !.phase = PhaseAfter(agent[d].stop), !.part = <<>>])
    /\ Write(d, [Event("message_end", d) EXCEPT !.stop = agent[d].stop, !.text = agent[d].part])

\* agent_end, after which the agent may be started again
EndPiRun(d) ==
    /\ Pi /\ Alive(d, {"closing", "stopped"}) /\ agent[d].stop = "stop"
    /\ \E again \in BOOLEAN, stop \in {"none", "stop"} :
          /\ Act(d, [agent[d] EXCEPT !.phase = IF again THEN "ready" ELSE "stopped", !.part = <<>>,
                                     !.settled = IF again THEN "no" ELSE "yes"])
          /\ Write(d, [Event("end", d) EXCEPT !.stop = stop, !.again = again])

\* OpenCode v2 leaves step_finish out and only saves how the step ended
EndTurn(d) ==
    /\ ~Pi /\ Alive(d, {"turn"})
    /\ \E stop \in {"stop", "toolUse", "error"}, told \in BOOLEAN :
          /\ stop = "toolUse" \/ ~told => product = "opencode"
          /\ Act(d, [agent[d] EXCEPT !.phase = PhaseAfter(stop), !.stop = stop,
                                     !.settled = IF stop = "stop" THEN "yes"
                                                 ELSE IF stop = "error" THEN "failed" ELSE "no"])
          /\ IF told
             THEN Write(d, [Event(IF product = "codex" /\ stop = "error" THEN "error" ELSE "end", d)
                               EXCEPT !.stop = stop, !.text = agent[d].said])
             ELSE UNCHANGED pipe

\* openclaw answers once, at the end
SayAtEnd(d) ==
    /\ product = "openclaw" /\ Alive(d, {"turn"})
    /\ Act(d, Said(d, 1))
    /\ UNCHANGED pipe

\* an error at any time, even after the run was finished
LateError(d) ==
    /\ Alive(d, {"ready", "turn", "speaking", "closing", "stopped"})
    /\ Act(d, [agent[d] EXCEPT !.phase = "over", !.settled = "failed"])
    /\ Write(d, Event("error", d))

\* output that is no event, or too long for one
Disturb(d) ==
    /\ Alive(d, {"ready", "turn", "speaking"})
    /\ \E type \in {"garbage", "flood"} :
          /\ Act(d, [agent[d] EXCEPT !.phase = "over", !.settled = "failed"])
          /\ Write(d, Event(type, d))

\* The process ends in success or not, whatever it has written; it may as well
\* hang, in which case it does nothing more.
Exit(d) ==
    /\ at[d] \in {"running", "frames"} /\ proc[d] = "alive"
    /\ \E code \in {"zero", "nonzero"} : proc' = [proc EXCEPT ![d] = code]
    /\ UNCHANGED <<pipe, agent, turns, says, kept>>

\* (only then is the file looked at)
LoseFile ==
    /\ \A d \in Deliveries : at[d] # "running"
    /\ losses < MaxLosses /\ losses' = losses + 1
    /\ \E id \in filed : filed' = filed \ {id}
    /\ UNCHANGED <<harness, sessions>>

(***************************************************************************)
(* The delivery to a native CLI                                             *)
(***************************************************************************)
Arrives(d) == at[d] = "idle" /\ \A x \in 1 .. d - 1 : at[x] # "idle"

\* A slot of the limiter is held until the handler has returned.
HoldsSlot(x) == at[x] \notin {"idle", "gone"} /\ verdict[x].kind # "ignored"
Admits(d) == Arrives(d) /\ Cardinality({x \in Deliveries : HoldsSlot(x)}) < MaxRunning

Mapped == Range(sessions) \ {NoSession}

\* The sessions that a mapping or a delivery other than d names.
Remembered(d) ==
    Mapped \cup UNION {{resumed[x], agent[x].session} :
                         x \in {y \in Deliveries \ {d} : at[y] # "gone"}}

\* The handler has returned: its slot is free and its locals are gone.  Of the past
\* only the sessions are remembered that something names.
Leave(d) ==
    /\ at[d] = "done"
    /\ at' = [at EXCEPT ![d] = "gone"]
    /\ verdict' = [verdict EXCEPT ![d] = Pending]
    /\ ended' = [ended EXCEPT ![d] = FALSE]
    /\ proc' = [proc EXCEPT ![d] = "none"]
    /\ pipe' = [pipe EXCEPT ![d] = <<>>]
    /\ tail' = [tail EXCEPT ![d] = <<>>]
    /\ stream' = [stream EXCEPT ![d] = NewStream(TRUE, NoSession)]
    /\ failed' = [failed EXCEPT ![d] = FALSE]
    /\ resumed' = [resumed EXCEPT ![d] = NoSession]
    /\ agent' = [agent EXCEPT ![d] =
          IF agent[d].session \in Mapped /\ agent[d].settled = "yes"
          THEN [Dormant EXCEPT !.session = agent[d].session, !.settled = "yes"] ELSE Dormant]
    /\ conv' = IF agent[d].session \notin Mapped /\ d \notin Remembered(d)
               THEN [conv EXCEPT ![d] = NoConv] ELSE conv
    /\ filed' = filed \cap Remembered(d)
    /\ UNCHANGED <<product, turns, says, sessions, losses>>

Saved(d, c) == IF Stateful THEN sessions[ScopedKey(d, c)] ELSE NoSession

\* refused before anything runs: the context is over, the agent is not allowed,
\* the prompt is too long, the mapping cannot be read or the CLI does not start
TurnAway(d) ==
    /\ Admits(d)
    /\ Return(d, Verdict("failed", FALSE))
    /\ UNCHANGED <<product, conv, harness, reader, resumed, kept>>

\* Only opencode and openclaw let a message choose an agent.  pi and omp continue a
\* session only if its file is there and sound.
Start(d) ==
    /\ product # "webhook" /\ Admits(d)
    /\ \E c \in Inbox :
          /\ conv' = [conv EXCEPT ![d] = c]
          /\ resumed' = [resumed EXCEPT ![d] = Saved(d, c)]
          /\ c.kind # "feedback"
          /\ c.agent # NoAgent => product \in {"opencode", "openclaw"}
          /\ IF Pi /\ Saved(d, c) \notin filed \cup {NoSession}
             THEN /\ Return(d, Verdict("failed", FALSE))
                  /\ UNCHANGED <<proc, agent, stream>>
             ELSE /\ GoOn(d, "running")
                  /\ proc' = [proc EXCEPT ![d] = "alive"]
                  /\ agent' = [agent EXCEPT ![d].phase = "boot"]
                  /\ stream' = [stream EXCEPT ![d] =
                        NewStream(c.kind = "request", IF Pi THEN Saved(d, c) ELSE NoSession)]
    /\ UNCHANGED <<product, pipe, turns, says, ended, tail, failed, kept>>

\* an event about a run never reaches a model, and needs no slot
Ignore(d) ==
    /\ product # "webhook" /\ Arrives(d)
    /\ \E c \in Inbox : c.kind = "feedback" /\ conv' = [conv EXCEPT ![d] = c]
    /\ Return(d, Verdict("ignored", FALSE))
    /\ UNCHANGED <<product, harness, reader, resumed, kept>>

\* an error of the budget cancels the process
CutShort(d) == failed' = [failed EXCEPT ![d] = TRUE]

\* The goroutine that copies stdout.  An error of its own ends it; one of stderr
\* or of the context does not.
Copy(d) ==
    /\ at[d] = "running" /\ pipe[d] # <<>> /\ Sound(stream[d])
    /\ pipe' = [pipe EXCEPT ![d] = Tail(@)]
    /\ \E ok \in BOOLEAN :
          LET e == Head(pipe[d])
              s == IF e.type = "flood" THEN Fault(stream[d], "event_limit")
                   ELSE Consume(product, stream[d], e, ok)
          IN  /\ ok \/ s.fault = "emit_failed"
              /\ stream' = [stream EXCEPT ![d] = s]
              /\ IF Sound(s) THEN UNCHANGED failed ELSE CutShort(d)
    /\ UNCHANGED <<product, conv, at, proc, agent, turns, says, ended, tail, resumed, verdict, kept>>

\* what a process that is gone has left without a newline waits for flush, unless
\* it is too long already
CopyTail(d) ==
    /\ at[d] = "running" /\ proc[d] # "alive" /\ Len(pipe[d]) = 1 /\ Sound(stream[d])
    /\ product # "openclaw" /\ pipe[d][1].type # "flood"
    /\ tail' = [tail EXCEPT ![d] = pipe[d]]
    /\ pipe' = [pipe EXCEPT ![d] = <<>>]
    /\ UNCHANGED <<product, conv, at, proc, agent, turns, says, ended, stream, failed, resumed,
                   verdict, kept>>

\* The goroutine that copies stderr finds more than it may hold.  (Here and in
\* Expire: a process that is to be killed already is so only once.)
StderrLimit(d) ==
    /\ at[d] = "running" /\ proc[d] = "alive" /\ ~ended[d] /\ ~failed[d]
    /\ CutShort(d)
    /\ UNCHANGED <<product, conv, at, harness, ended, tail, stream, resumed, verdict, kept>>

\* the caller gives up, or a timeout passes
Expire(d) ==
    /\ Running(d) /\ ~ended[d] /\ ~failed[d]
    /\ ended' = [ended EXCEPT ![d] = TRUE]
    /\ UNCHANGED <<product, conv, at, harness, tail, stream, failed, resumed, verdict, kept>>

\* Mutant: the context of the caller is not that of the command.
KillOverLimit(d) ==
    /\ proc[d] = "alive" /\ at[d] = "running"
    /\ failed[d]
    /\ proc' = [proc EXCEPT ![d] = "nonzero"]
    /\ UNCHANGED <<product, conv, at, pipe, agent, turns, says, reader, resumed, verdict, kept>>

Kill(d) ==
    /\ proc[d] = "alive" /\ at[d] = "running"
    /\ ended[d] \/ failed[d]
    /\ proc' = [proc EXCEPT ![d] = "nonzero"]
    /\ UNCHANGED <<product, conv, at, pipe, agent, turns, says, reader, resumed, verdict, kept>>

\* Mutant: a cancellation is told as one before the start.
WaitCanceled(d) ==
    /\ at[d] = "running" /\ proc[d] \in {"zero", "nonzero"}
    /\ \E delayed, ok \in BOOLEAN :
          /\ delayed \/ pipe[d] = <<>> \/ ~Sound(stream[d])
          /\ IF failed[d] \/ ended[d] \/ proc[d] = "nonzero" \/ delayed
             THEN Return(d, Verdict("failed", failed[d] \/ ~ended[d])) /\ UNCHANGED stream
             ELSE LET s == IF tail[d] = <<>> THEN stream[d]
                           ELSE Consume(product, stream[d], tail[d][1], ok)
                  IN  /\ ok \/ s.fault = "emit_failed"
                      /\ stream' = [stream EXCEPT ![d] = s]
                      /\ IF Sound(s) THEN GoOn(d, "finish") ELSE Uncertain(d)
    /\ UNCHANGED <<product, conv, harness, ended, tail, failed, resumed, kept>>

\* Wait returns when the process is gone and its output is read, or two seconds
\* later (delayed: a descendant holds the pipe).  The first reason in this order
\* is the one that is told; only without any is the last line consumed.
Wait(d) ==
    /\ at[d] = "running" /\ proc[d] \in {"zero", "nonzero"}
    /\ \E delayed, ok \in BOOLEAN :
          /\ delayed \/ pipe[d] = <<>> \/ ~Sound(stream[d])
          /\ IF failed[d] \/ ended[d] \/ proc[d] = "nonzero" \/ delayed
             THEN Uncertain(d) /\ UNCHANGED stream
             ELSE LET s == IF tail[d] = <<>> THEN stream[d]
                           ELSE Consume(product, stream[d], tail[d][1], ok)
                  IN  /\ ok \/ s.fault = "emit_failed"
                      /\ stream' = [stream EXCEPT ![d] = s]
                      /\ IF Sound(s) THEN GoOn(d, "finish") ELSE Uncertain(d)
    /\ UNCHANGED <<product, conv, harness, ended, tail, failed, resumed, kept>>

\* An OpenCode stream without its end: the saved session must say that the very
\* message that was streamed is its last one and that it stopped.
Unconfirmed(d) ==
    product = "opencode" /\ ~stream[d].completed /\ stream[d].session # NoSession
        /\ stream[d].message # 0

Confirm(d) ==
    /\ at[d] = "finish" /\ Unconfirmed(d)
    /\ \/ /\ ~ended[d] /\ agent[d].settled = "yes" /\ agent[d].turn = stream[d].message
          /\ stream' = [stream EXCEPT ![d].completed = TRUE]
          /\ UNCHANGED <<at, verdict>>
       \/ Uncertain(d) /\ UNCHANGED stream
    /\ UNCHANGED <<product, conv, harness, ended, tail, failed, resumed, kept>>

\* the result: a completed stream, a session that is safely on disk (pi, omp), and
\* only then the rest of the answer published
Finish(d) ==
    /\ at[d] = "finish" /\ ~Unconfirmed(d)
    /\ \E ok \in BOOLEAN :
          LET r == IF product = "openclaw" THEN ConsumeOpenClaw(stream[d], ok) ELSE stream[d]
              safe == Pi /\ r.session # NoSession => r.session \in filed
              good == Sound(r) /\ r.completed /\ safe
              s == IF good THEN Flush(r, ok) ELSE r
          IN  /\ ok \/ s.fault = "emit_failed"
              /\ stream' = [stream EXCEPT ![d] = s]
              /\ IF good /\ Sound(s) THEN GoOn(d, "save") ELSE Uncertain(d)
    /\ UNCHANGED <<product, conv, harness, ended, tail, failed, resumed, kept>>

\* The mapping is read again and saved, either of which may fail, before the caller
\* learns the result, which a context that is done by then turns into a failure.
Save(d) ==
    /\ at[d] = "save"
    /\ LET key == ScopedKey(d, conv[d])
           id == IF stream[d].session = NoSession THEN resumed[d] ELSE stream[d].session
           told == IF ended[d] THEN Verdict("failed", TRUE) ELSE Verdict("completed", FALSE)
       IN  IF Stateful /\ id # NoSession
           THEN \/ sessions' = [sessions EXCEPT ![key] = id] /\ Return(d, told)
                \/ Uncertain(d) /\ UNCHANGED sessions
           ELSE Return(d, told) /\ UNCHANGED sessions
    /\ UNCHANGED <<product, conv, harness, reader, resumed, filed, losses>>

(***************************************************************************)
(* The delivery to a webhook                                                *)
(***************************************************************************)
\* "text" is every body that is no object of the schema, an object with a field of
\* another type than the schema's (an error that is no string) among them.
Flags == {"yes", "no", "absent"}
Documents ==
    [form : {"text", "long"}, reply : {<<1>>}, error : {FALSE},
     success : {"absent"}, accepted : {"absent"}, completed : {"absent"}]
    \cup [form : {"empty"}, reply : {<<>>}, error : {FALSE},
          success : {"absent"}, accepted : {"absent"}, completed : {"absent"}]
    \cup [form : {"struct"}, reply : {<<>>, <<1>>}, error : BOOLEAN,
          success : Flags, accepted : Flags, completed : Flags]

Denied(r) == r.error \/ r.success = "no"

\* what parseWebhookSuccess makes of a document
Parsed(r) ==
    CASE r.form = "empty" -> [success |-> TRUE, accepted |-> TRUE, completed |-> FALSE]
      [] r.form = "text" -> [success |-> TRUE, accepted |-> TRUE, completed |-> TRUE]
      [] OTHER ->
            LET success == r.success # "no"
            IN  [success   |-> success /\ ~r.error,
                 accepted  |-> r.accepted # "no",
                 completed |-> /\ success /\ ~r.error
                               /\ IF r.completed = "absent" THEN r.reply # <<>>
                                  ELSE r.completed = "yes"]

\* the caller is told of a result that is not an error
Concluded(d, p) ==
    IF ended[d] THEN Verdict("failed", TRUE)
    ELSE IF ~p.success THEN Verdict("failed", FALSE)
    ELSE IF p.completed THEN Verdict("completed", FALSE)
    ELSE IF p.accepted THEN Verdict("accepted", FALSE)
    ELSE Verdict("failed", FALSE)

\* A dial that fails has begun nothing, and the message may be sent again.  (So is a
\* redirect whose target cannot be dialled told; here an endpoint does not redirect.)
Dial(d) ==
    /\ product = "webhook" /\ Admits(d)
    /\ \E c \in Inbox :
          /\ conv' = [conv EXCEPT ![d] = c]
          /\ stream' = [stream EXCEPT ![d] = NewStream(c.kind = "request", NoSession)]
          /\ \/ Return(d, Verdict("retry", FALSE)) /\ UNCHANGED <<proc, agent>>
             \/ /\ GoOn(d, "posted")
                /\ proc' = [proc EXCEPT ![d] = "alive"]
                /\ agent' = [agent EXCEPT ![d].phase = "turn"]
    /\ UNCHANGED <<product, pipe, turns, says, ended, tail, failed, resumed, kept>>

\* the connection breaks, or its answer does not come before the context ends
LoseConnection(d) ==
    /\ at[d] = "posted" /\ Uncertain(d)
    /\ UNCHANGED <<product, conv, harness, reader, resumed, kept>>

\* The answer is an error status.  That of an endpoint that is busy lets events of
\* a run, which only inform, be sent again.
TakeStatus(d) ==
    /\ at[d] = "posted"
    /\ \/ Return(d, IF ended[d] THEN Verdict("failed", TRUE) ELSE Verdict("failed", FALSE))
       \/ conv[d].kind = "feedback" /\ Return(d, Verdict("retry", FALSE))
    /\ agent' = [agent EXCEPT ![d].phase = "over", ![d].settled = "failed"]
    /\ UNCHANGED <<product, conv, proc, pipe, turns, says, reader, resumed, kept>>

TakeDocument(d) ==
    /\ at[d] = "posted"
    /\ \E r \in Documents, ok \in BOOLEAN :
          LET doc == Parsed(r)
              s == IF ~doc.completed \/ ~doc.success THEN stream[d]
                   ELSE IF stream[d].live
                   THEN LET t == Add(stream[d], r.reply, ok)
                        IN  IF Sound(t) THEN Flush(t, ok) ELSE t
                   ELSE [stream[d] EXCEPT !.reply = r.reply]
          IN  /\ ok \/ s.fault = "emit_failed"
              /\ agent' = [agent EXCEPT ![d].phase = "over", ![d].said = r.reply,
                              ![d].settled = IF Denied(r) THEN "failed" ELSE
                                             IF r.completed = "no" THEN "no" ELSE "yes"]
              /\ stream' = [stream EXCEPT ![d] = s]
              /\ IF r.form = "long" \/ ~Sound(s) THEN Uncertain(d)
                 ELSE Return(d, Concluded(d, doc))
    /\ UNCHANGED <<product, conv, proc, pipe, turns, says, ended, tail, failed, resumed, kept>>

TakeStream(d) ==
    /\ at[d] = "posted" /\ GoOn(d, "frames")
    /\ UNCHANGED <<product, conv, harness, reader, resumed, kept>>

\* the receiver's frames (environment): output, then one that completes or fails
SayFrame(d) ==
    /\ at[d] = "frames" /\ proc[d] = "alive" /\ agent[d].phase = "turn"
    /\ \/ /\ Act(d, Said(d, 1))
          /\ Write(d, [Event("text", d) EXCEPT !.text = Fresh(d, 1)])
       \/ \E stop \in {"stop", "error"}, again \in BOOLEAN :
             /\ again => stop = "error"
             /\ Act(d, [agent[d] EXCEPT !.phase = "over",
                                        !.settled = IF stop = "stop" THEN "yes" ELSE "failed"])
             /\ Write(d, [Event("end", d) EXCEPT !.stop = stop, !.again = again])
       \/ /\ Act(d, [agent[d] EXCEPT !.phase = "over"])
          /\ \E type \in {"garbage", "flood"} : Write(d, Event(type, d))

TakeFrame(d) ==
    /\ at[d] = "frames" /\ pipe[d] # <<>>
    /\ pipe' = [pipe EXCEPT ![d] = Tail(@)]
    /\ LET e == Head(pipe[d])
           completed == [success |-> TRUE, accepted |-> FALSE, completed |-> TRUE]
       IN  CASE e.type = "text" /\ stream[d].live ->
                  \/ /\ stream' = [stream EXCEPT ![d].out = @ \o e.text]
                     /\ UNCHANGED <<at, verdict>>
                  \/ Uncertain(d) /\ UNCHANGED stream
             [] e.type = "text" /\ ~stream[d].live ->
                  /\ stream' = [stream EXCEPT ![d].reply = @ \o e.text]
                  /\ UNCHANGED <<at, verdict>>
             [] e.type = "end" ->
                  /\ Return(d, IF e.stop = "stop" THEN Concluded(d, completed)
                               ELSE Verdict("failed", e.again))
                  /\ UNCHANGED stream
             [] OTHER -> Uncertain(d) /\ UNCHANGED stream
    /\ UNCHANGED <<product, conv, proc, agent, turns, says, ended, tail, failed, resumed, kept>>

\* the stream ends, or the context does, before a frame that says how it went
EndOfFrames(d) ==
    /\ at[d] = "frames"
    /\ \/ ended[d]
       \/ pipe[d] = <<>> /\ proc[d] # "alive"
    /\ Uncertain(d)
    /\ UNCHANGED <<product, conv, harness, reader, resumed, kept>>

(***************************************************************************)
(* Specification                                                            *)
(***************************************************************************)
Harness(d) ==
    /\ \/ Announce(d) \/ BeginTurn(d) \/ StartMessage(d) \/ ToolMessage(d) \/ SayItem(d)
       \/ RepeatItem(d) \/ SayDelta(d) \/ EndMessage(d) \/ EndPiTurn(d) \/ EndPiRun(d)
       \/ EndTurn(d) \/ SayAtEnd(d) \/ LateError(d) \/ Disturb(d) \/ Exit(d) \/ SayFrame(d)
    /\ UNCHANGED <<product, conv, at, reader, resumed, verdict>>

Deliver(d) ==
    \/ TurnAway(d) \/ Ignore(d) \/ Start(d) \/ Copy(d) \/ CopyTail(d) \/ StderrLimit(d)
    \/ Expire(d) \/ Kill(d) \/ Wait(d) \/ Confirm(d) \/ Finish(d) \/ Save(d)
    \/ Dial(d) \/ LoseConnection(d) \/ TakeStatus(d) \/ TakeDocument(d)
    \/ TakeStream(d) \/ TakeFrame(d) \/ EndOfFrames(d) \/ Leave(d)

AdapterNext ==
           \/ \E d \in Deliveries : Harness(d) \/ Deliver(d)
           \/ LoseFile /\ UNCHANGED <<product, conv, at, reader, resumed, verdict>>

AdapterSpec == AdapterInit /\ [][AdapterNext]_adapterVars

\* The timeout of the handler passes, a killed process is gone, and the goroutine
\* of the delivery goes on.  Nothing is asked of the Harness.
Fairness ==
    \A d \in Deliveries :
        /\ WF_adapterVars(Expire(d)) /\ WF_adapterVars(Kill(d)) /\ WF_adapterVars(Wait(d))
        /\ WF_adapterVars(Confirm(d)) /\ WF_adapterVars(Finish(d)) /\ WF_adapterVars(Save(d))
        /\ WF_adapterVars(ended[d] /\ LoseConnection(d)) /\ WF_adapterVars(EndOfFrames(d))

FairAdapterSpec == AdapterSpec /\ Fairness

(***************************************************************************)
(* Properties                                                               *)
(***************************************************************************)
AdapterTypeOK ==
    /\ product \in Products
    /\ conv \in [Deliveries -> Messages \cup {NoConv}]
    /\ at \in [Deliveries -> {"idle", "running", "finish", "save", "posted", "frames", "done",
                            "gone"}]
    /\ ended \in [Deliveries -> BOOLEAN]
    /\ proc \in [Deliveries -> {"none", "alive", "zero", "nonzero"}]
    /\ \A d \in Deliveries : Len(pipe[d]) <= PipeSize /\ Len(tail[d]) <= 1
    /\ verdict \in [Deliveries ->
          [kind : {"none", "completed", "accepted", "ignored", "failed", "retry"}, maybe : BOOLEAN]]
    /\ resumed \in [Deliveries -> Deliveries \cup {NoSession}]
    /\ sessions \in [Keys -> Deliveries \cup {NoSession}]
    /\ failed \in [Deliveries -> BOOLEAN]
    /\ filed \subseteq Deliveries /\ losses \in 0 .. MaxLosses

\* What the requester is told of an execution is true.  It is completed only if the
\* Harness finished its last turn in success, took nothing back and exited well; a
\* failure is called certain only if nothing was begun or the webhook itself
\* answered; and what may be tried again was never begun, unless it only informs.
VerdictIsEarned ==
    \A d \in Deliveries :
        LET v == verdict[d]
        IN  /\ v.kind = "completed" =>
                  /\ agent[d].settled = "yes"
                  /\ product # "webhook" => proc[d] = "zero"
            /\ v = Verdict("failed", FALSE) =>
                  \/ agent[d].phase = "none"
                  \/ product = "webhook" /\ agent[d].phase = "over"
            /\ v.kind = "retry" => agent[d].phase = "none" \/ conv[d].kind = "feedback"

\* The requester gets what the Harness said, each piece once and in order, through
\* repeated snapshots, batches and failures; of a completed execution it gets all.
AnswerIsWhole ==
    \A d \in Deliveries :
        LET told == stream[d].out \o stream[d].reply
        IN  /\ IsPrefix(told, agent[d].said)
            /\ verdict[d].kind = "completed" => told = agent[d].said

\* A delivery continues only a session that was begun for the same sender and agent
\* under the same session key, where the ID of a message is the key of one without (a
\* session is named after the delivery that began it), and the store names only
\* sessions in which an execution for that sender, agent and key was finished.
ConversationsApart ==
    /\ \A d \in Deliveries : resumed[d] # NoSession =>
          LET first == resumed[d]
          IN  /\ conv[first].from = conv[d].from /\ conv[first].agent = conv[d].agent
              /\ Key(first, conv[first]) = Key(d, conv[d])
    /\ \A k \in Keys : sessions[k] # NoSession =>
          \E d \in Deliveries :
              /\ conv[d].from = k[1] /\ conv[d].agent = k[2] /\ Key(d, conv[d]) = k[3]
              /\ agent[d].session = sessions[k] /\ agent[d].settled = "yes"

\* Every delivery returns, whatever the Harness does: one that hangs, floods its
\* output or leaves a descendant on its pipe is given up.
EveryDeliveryReturns == \A d \in Deliveries : Running(d) ~> ~Running(d)
=============================================================================
