---------------------------- MODULE NativeStream ----------------------------
(***************************************************************************)
(* What the adapters make of the events a native CLI writes, one per line   *)
(* (internal/adapter: native_events.go, pi_events.go).  A stream is a       *)
(* record; consuming an event gives the next one.  Text is a sequence of    *)
(* chunks.  ok says whether the consumer takes what is emitted meanwhile:   *)
(* it writes to the journal and may fail.                                   *)
(***************************************************************************)
EXTENDS Integers, Sequences, SequencesExt

CONSTANTS
    NoSession,
    DeltaCap,      \* chunks an emitter holds back before it publishes them
    MaxItems       \* bound: ids of items or parts in one stream

ASSUME DeltaCapPositive == DeltaCap \in Nat \ {0}

Least(i, j) == IF i < j THEN i ELSE j

NewStream(live, expected) ==
    [live |-> live, out |-> <<>>, pending |-> <<>>, published |-> FALSE, reply |-> <<>>,
     session |-> NoSession, message |-> 0, completed |-> FALSE,
     items |-> [i \in 1 .. MaxItems |-> <<>>], document |-> <<>>,
     expected |-> expected, role |-> "none", deltas |-> FALSE, terminal |-> FALSE,
     stop |-> "none", fault |-> "none"]

Fault(s, code) == [s EXCEPT !.fault = code]
Malformed(s) == Fault(s, "native_schema")
Sound(s) == s.fault = "none"

\* publish the first n chunks that wait
Publish(s, n, ok) ==
    IF n = 0 THEN s
    ELSE IF ~ok THEN Fault(s, "emit_failed")
    ELSE [s EXCEPT !.out = @ \o SubSeq(s.pending, 1, n), !.published = TRUE,
                   !.pending = SubSeq(@, n + 1, Len(@))]

Flush(s, ok) == Publish(s, Len(s.pending), ok)

\* The first answer goes out at once; later ones are gathered into batches of
\* DeltaCap.
Add(s, text, ok) ==
    LET t == [s EXCEPT !.pending = @ \o text]
        batches == (Len(t.pending) \div DeltaCap) * DeltaCap
        first == IF s.published THEN 0 ELSE Least(DeltaCap, Len(t.pending))
    IN  Publish(t, IF first > batches THEN first ELSE batches, ok)

\* without a consumer the answer is kept for the result
AnswerText(s, text, ok) ==
    IF s.completed THEN Malformed(s)
    ELSE IF s.live THEN Add(s, text, ok)
    ELSE [s EXCEPT !.reply = @ \o text]

SetSession(s, id) ==
    IF id = NoSession THEN s
    ELSE IF s.session \notin {NoSession, id} THEN Malformed(s)
    ELSE [s EXCEPT !.session = id]

\* what was answered before the failure is published first
FailNative(s, ok) ==
    LET t == Flush(s, ok) IN IF Sound(t) THEN Fault(t, "native_failed") ELSE t

Complete(s, ok) == Flush([s EXCEPT !.completed = TRUE], ok)

\* An item or part is a snapshot of its text so far: only what is new is an
\* answer, and a snapshot that takes text back is refused.
Snapshot(s, id, text, ok) ==
    IF id = 0 THEN AnswerText(s, text, ok)
    ELSE IF ~IsPrefix(s.items[id], text) THEN Malformed(s)
    ELSE AnswerText([s EXCEPT !.items[id] = text],
                    SubSeq(text, Len(s.items[id]) + 1, Len(text)), ok)

(***************************************************************************)
(* codex exec --json                                                        *)
(***************************************************************************)
ConsumeCodex(s, e, ok) ==
    CASE e.type = "error" -> FailNative(s, ok)
      [] e.type = "session" ->
            IF e.session = NoSession THEN Malformed(s) ELSE SetSession(s, e.session)
      [] e.type = "begin" -> IF s.completed THEN Malformed(s) ELSE s
      [] e.type = "end" -> IF s.completed THEN Malformed(s) ELSE Complete(s, ok)
      [] e.type = "text" ->
            IF e.item = 0 /\ ~e.final THEN Malformed(s) ELSE Snapshot(s, e.item, e.text, ok)
      [] e.type = "garbage" -> Malformed(s)
      [] OTHER -> s

(***************************************************************************)
(* opencode run --format json: a run has several steps, and only the last   *)
(* one decides.                                                             *)
(***************************************************************************)
OpenCodeStep(s, e, ok) ==
    CASE e.type = "error" -> FailNative(s, ok)
      [] e.type = "begin" -> [s EXCEPT !.message = e.message, !.completed = FALSE]
      [] e.type = "text" -> Snapshot([s EXCEPT !.message = e.message], e.item, e.text, ok)
      [] e.type = "end" /\ e.stop = "stop" -> Complete(s, ok)
      [] e.type = "end" /\ e.stop = "toolUse" -> Flush([s EXCEPT !.completed = FALSE], ok)
      [] e.type = "end" /\ e.stop = "error" -> FailNative(s, ok)
      [] e.type = "garbage" -> Malformed(s)
      [] OTHER -> s

ConsumeOpenCode(s, e, ok) ==
    LET t == SetSession(s, e.session) IN IF Sound(t) THEN OpenCodeStep(t, e, ok) ELSE t

(***************************************************************************)
(* pi and omp: an assistant message ends with message_end, which turn_end   *)
(* repeats; only agent_end after a message that stopped completes.          *)
(***************************************************************************)
NewTurn(s) == [s EXCEPT !.role = "none", !.deltas = FALSE, !.terminal = FALSE,
                        !.stop = "none", !.completed = FALSE]

StartPiMessage(s, e) ==
    IF s.completed THEN Malformed(s)
    ELSE IF e.role = "assistant"
    THEN [s EXCEPT !.role = "assistant", !.deltas = FALSE, !.terminal = FALSE, !.stop = "none"]
    ELSE [s EXCEPT !.role = e.role]

PiDelta(s, e, ok) ==
    IF s.role = "none" THEN Malformed(s)
    ELSE IF s.role # "assistant" THEN s
    ELSE IF s.terminal THEN Malformed(s)
    ELSE AnswerText([s EXCEPT !.deltas = TRUE], e.text, ok)

\* Mutant: the snapshot is published whether or not its deltas were.
FinishPiMessageAgain(s, e, ok) ==
    IF s.completed THEN Malformed(s)
    ELSE IF e.stop = "error" THEN FailNative(s, ok)
    ELSE IF s.terminal THEN (IF s.stop = e.stop THEN s ELSE Malformed(s))
    ELSE LET t == AnswerText(s, e.text, ok)
         IN  IF Sound(t)
             THEN Flush([t EXCEPT !.role = "assistant", !.terminal = TRUE, !.stop = e.stop], ok)
             ELSE t

\* The snapshot of a message that came without deltas is its answer; of any
\* other message, and in every repetition, it is not published again.
FinishPiMessage(s, e, ok) ==
    IF s.completed THEN Malformed(s)
    ELSE IF e.stop = "error" THEN FailNative(s, ok)
    ELSE IF s.terminal THEN (IF s.stop = e.stop THEN s ELSE Malformed(s))
    ELSE LET t == IF s.deltas THEN s ELSE AnswerText(s, e.text, ok)
         IN  IF Sound(t)
             THEN Flush([t EXCEPT !.role = "assistant", !.terminal = TRUE, !.stop = e.stop], ok)
             ELSE t

\* Mutant: agent_end completes although the agent will retry.
EndPiAgentForGood(s, e, ok) ==
    IF e.stop \notin {"none", "stop"} THEN FailNative(s, ok)
    ELSE IF ~s.terminal \/ s.stop # "stop" THEN s
    ELSE Complete(s, ok)

EndPiAgent(s, e, ok) ==
    IF e.stop \notin {"none", "stop"} THEN FailNative(s, ok)
    ELSE IF ~s.terminal \/ s.stop # "stop" THEN s
    ELSE IF e.again THEN [s EXCEPT !.completed = FALSE]
    ELSE Complete(s, ok)

PiEvent(s, e, ok) ==
    CASE e.type = "begin" -> NewTurn(s)
      [] e.type = "message_start" -> StartPiMessage(s, e)
      [] e.type = "delta" -> PiDelta(s, e, ok)
      [] e.type = "message_end" /\ e.role = "assistant" -> FinishPiMessage(s, e, ok)
      [] e.type = "end" -> EndPiAgent(s, e, ok)
      [] OTHER -> s

PiSession(s, id) ==
    IF s.session # NoSession \/ s.expected \notin {NoSession, id} THEN Malformed(s)
    ELSE SetSession(s, id)

ConsumePi(s, e, ok) ==
    CASE e.type = "error" -> FailNative(s, ok)
      [] e.type = "garbage" -> Malformed(s)
      [] e.type = "session" -> PiSession(s, e.session)
      [] OTHER -> IF s.session = NoSession THEN Malformed(s) ELSE PiEvent(s, e, ok)

(***************************************************************************)
(* openclaw agent --json writes one document, read when the process is over *)
(***************************************************************************)
KeepDocument(s, e) == [s EXCEPT !.document = Append(@, e)]

ConsumeOpenClaw(s, ok) ==
    IF Len(s.document) # 1 \/ s.document[1].type # "end" THEN Malformed(s)
    ELSE IF s.document[1].stop # "stop" THEN Fault(s, "native_failed")
    ELSE LET t == [s EXCEPT !.completed = TRUE, !.session = s.document[1].session]
             text == s.document[1].text
         IN  IF s.live THEN Add(t, text, ok) ELSE [t EXCEPT !.reply = text]

Consume(product, s, e, ok) ==
    CASE product = "codex" -> ConsumeCodex(s, e, ok)
      [] product = "opencode" -> ConsumeOpenCode(s, e, ok)
      [] product = "openclaw" -> KeepDocument(s, e)
      [] OTHER -> ConsumePi(s, e, ok)
=============================================================================
