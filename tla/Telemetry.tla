----------------------------- MODULE Telemetry -----------------------------
(* Hosts, their outbox file and the broker, over a network that loses. *)
EXTENDS Ingest

vars == <<outboxVars, managerVars, ingestVars>>

Init == OutboxInit /\ ManagerInit /\ IngestInit

requestFrame == <<backend, relay, wiped>>
Answers   == {"ok", "rejected", "failed"}

\* A request is served and its answer arrives.
Served(h) ==
    /\ up[h].at = "post"
    /\ \E answer \in Answers :
         telemetryHandler(up[h].batch, answer) /\ Answered(h, answer)
    /\ UNCHANGED <<late, requestFrame>>

\* The answer is lost, or the client gives up on a request that is served later.
Unanswered(h) ==
    /\ up[h].at = "post" /\ GoesWrong /\ Answered(h, "failed")
    /\ \/ Accepted(up[h].batch) /\ UNCHANGED late
       \/ late' = late \cup {up[h].batch} /\ UNCHANGED <<sinkVars, counted>>
    /\ UNCHANGED requestFrame
ServedLate(batch) ==
    /\ \E answer \in Answers :
         telemetryHandler(batch, answer) /\ (answer # "failed" => Smooth)
    /\ late' = late \ {batch}
    /\ UNCHANGED <<requestFrame, file, lock, box, lag, made, gone, managerVars>>

\* The process dies; what it sent may still arrive.
Dies(h) ==
    /\ Crash(h)
    /\ late' \in {late} \cup {late \cup {up[h].batch} : x \in {up[h].at} \cap {"post"}}
    /\ UNCHANGED <<sinkVars, counted, requestFrame>>

Recorder(h) ==
    \/ BeginSession(h) \/ MarkConnected(h) \/ Record(h) \/ Flush(h) \/ EndSession(h)
    \/ ApplySessionAttributes(h, sess[h].id) /\ UNCHANGED managerVars
    \/ sess[h].at = "ended" /\ Close(h) /\ UNCHANGED managerVars
Uploader(h) ==
    \/ sess[h].at \in {"on", "up", "ended"} /\ loadLocked(h) /\ UNCHANGED managerVars
    \/ migrateFallbackLocked(h) \/ Heartbeat(h) \/ FlushNextBatch(h)

brokerFrame == <<backend, relay, wiped, counted, late, file, lock, box, lag, made, gone,
                 managerVars>>

Next ==
    \/ \E h \in Hosts :
         \/ (Recorder(h) \/ Uploader(h)) /\ UNCHANGED ingestVars
         \/ Served(h) \/ Unanswered(h) \/ Dies(h)
    \/ \E batch \in late : ServedLate(batch)
    \/ (Sink \/ insertBatchFails) /\ UNCHANGED brokerFrame
    \/ RelayReturns /\ UNCHANGED <<outboxVars, managerVars>>
    \/ BrokerRestart /\ UNCHANGED <<file, lock, box, lag, made, gone, managerVars>>

\* The heartbeat loop ticks and its requests are answered; a timer flushes the
\* sink.
Fairness ==
    /\ \A h \in Hosts : /\ WF_vars(Uploader(h) /\ UNCHANGED ingestVars)
                        /\ WF_vars(Served(h))
    /\ WF_vars(Sink /\ UNCHANGED brokerFrame)

Spec == Init /\ [][Next]_vars /\ Fairness
=============================================================================
