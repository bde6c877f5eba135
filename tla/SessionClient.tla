--------------------------- MODULE SessionClient ---------------------------
(***************************************************************************)
(* SessionControlClient (session/session_control_client.py) against the    *)
(* node of SessionControl.  A call is made with _async by the keyboards,   *)
(* whose callback gets the answer, or waits for it up to a time-out, in a  *)
(* script.  Requests to one service are served in order; between services  *)
(* no order holds.  A request to a service that is not there is lost.      *)
(***************************************************************************)
EXTENDS SessionControl

CONSTANT MaxCalls  \* bound: calls made

Operation == {"start_session", "stop_session", "start_episode", "stop_episode",
              "set_task_label"}
Script == "script"
NoAnswer == "none"

VARIABLES
    server,  \* "up" or "down": the session node and its six services
    calls,   \* the calls made: operation, caller, what became of the request,
             \* the node's verdict, the answer the caller got
    life     \* history: the calls made before the node's last start

clientVars == <<server, calls, life>>

\* The constructor waits for the six services: a client exists once the node is
\* up (_wait_for_services_ready; main reports its RuntimeError and ends).
ClientInit == server = "up" /\ calls = <<>> /\ life = 0

\* call_async, which does not look whether the service is there.
Request(operation, caller) ==
    [operation |-> operation, caller |-> caller,
     request |-> IF server = "up" THEN "sent" ELSE "lost",
     verdict |-> NoAnswer, answer |-> NoAnswer]

\* The _async methods, once per operation of the sequence.
CallAsync(operations, caller) ==
    /\ Len(calls) + Len(operations) <= MaxCalls
    /\ calls' = calls \o [i \in DOMAIN operations |-> Request(operations[i], caller)]

\* _call_trigger_sync and its siblings: without the service, no request.
CallSync(operation) ==
    /\ Len(calls) < MaxCalls
    /\ \A i \in DOMAIN calls : calls[i].caller = Script => calls[i].answer # NoAnswer
    /\ calls' = Append(calls,
           IF server = "up" THEN Request(operation, Script)
           ELSE [Request(operation, Script) EXCEPT !.answer = "not ready"])
    /\ UNCHANGED <<server, life>>

\* Mutant of TimedOut: the request is sent again.
SentAgain(call) == [call EXCEPT !.request = "sent"]

\* The wait ends; the request stays with the node, which may still serve it.
TimedOut(call) == [call EXCEPT !.answer = "timed out"]

TimeOut(i) ==
    /\ calls[i].caller = Script /\ calls[i].answer = NoAnswer
    /\ calls' = [calls EXCEPT ![i] = TimedOut(@)]
    /\ UNCHANGED <<server, life>>

-----------------------------------------------------------------------------
(* The session node *)

Accepts(operation) ==
    CASE operation = "start_session" -> sessionState = "IDLE"
      [] operation = "stop_session" -> sessionState # "IDLE"
      [] operation = "start_episode" -> sessionState = "IN_SESSION"
      [] operation = "stop_episode" -> sessionState = "IN_EPISODE"
      [] operation = "set_task_label" -> MayRelabel

\* The keyboards stop an episode without an outcome.
Execute(operation) ==
    \/ operation = "start_session" /\ StartSession
    \/ operation = "stop_session" /\ StopSession
    \/ operation = "start_episode" /\ StartEpisode
    \/ operation = "stop_episode" /\ StopEpisode(NoOutcome)
    \/ operation = "set_task_label" /\ \E label \in Label : SetTaskLabel(label)

Oldest(i) ==
    \A j \in 1 .. i - 1 :
        calls[j].operation = calls[i].operation => calls[j].request # "sent"

Served(i, verdict) ==
    calls' = [calls EXCEPT ![i].request = "served", ![i].verdict = verdict]

Serve(i) ==
    /\ server = "up" /\ calls[i].request = "sent" /\ Oldest(i)
    /\ \/ Execute(calls[i].operation) /\ Served(i, "accepted")
       \/ /\ ~Accepts(calls[i].operation)
          /\ Served(i, "rejected")
          /\ UNCHANGED sessionVars
    /\ UNCHANGED <<server, life>>

\* The response arrives: it ends the wait, or _invoke_bool_message_callback
\* gives it to the callback.  A late one is dropped.
AnswerArrives(i) ==
    /\ calls[i].request = "served" /\ calls[i].answer = NoAnswer
    /\ calls' = [calls EXCEPT ![i].answer = calls[i].verdict]
    /\ UNCHANGED <<server, life>>

\* The node dies with the requests and responses under way.
ServerDies ==
    /\ server = "up"
    /\ server' = "down"
    /\ calls' = [i \in DOMAIN calls |->
           IF \/ calls[i].request = "sent"
              \/ calls[i].request = "served" /\ calls[i].answer = NoAnswer
           THEN [calls[i] EXCEPT !.request = "lost"] ELSE calls[i]]
    /\ UNCHANGED <<life, sessionVars>>

ServerStarts ==
    /\ server = "down"
    /\ server' = "up"
    /\ life' = Len(calls)
    /\ Relaunch
    /\ UNCHANGED calls
=============================================================================
